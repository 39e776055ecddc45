------------------------------ MODULE LiveStream ------------------------------
(***************************************************************************)
(* api/routers/websocket.py: the live feed of one stream. Each websocket   *)
(* has a handler coroutine (websocket_endpoint); the handler that finds    *)
(* its connection alone in active_connections[stream] starts a listener    *)
(* task (redis_listener), which subscribes to the stream's Redis channel   *)
(* and sends every message to the connections registered.                  *)
(*                                                                         *)
(* All of it runs on one asyncio event loop: a step is what runs between   *)
(* two awaits. A listener is named after the connection whose handler      *)
(* started it; each websocket object connects once.                        *)
(***************************************************************************)
EXTENDS Integers, Sequences, FiniteSets

CONSTANTS
  Clients,          (* the websocket objects that may connect              *)
  TableSlots,       (* joins that may make CPython rebuild a set's table   *)
  MaxMessages       (* bound: messages published on the channel            *)

ASSUME LiveStreamAssumption ==
  /\ IsFiniteSet(Clients)
  /\ TableSlots \in Nat
  /\ MaxMessages \in Nat

VARIABLES
  hasKey,           (* stream_id in active_connections                     *)
  conns,            (* active_connections[stream_id]                       *)
  joined,           (* connections this set object has taken               *)
  handler,          (* per websocket: "new", "open" or "closed"            *)
  owns,             (* websockets whose handler holds a listener_task      *)
  listener,         (* per listener: where its task is                     *)
  inbox,            (* per listener: messages Redis holds for it           *)
  iter,             (* per listener: the broadcast it is in                *)
  published,        (* messages published so far                           *)
  (* history *)
  copies,           (* how often a message was sent to a connection        *)
  rebuilt,          (* broadcasts of a message whose set was rebuilt       *)
  overlapped,       (* two connections were registered at once, or a send  *)
                    (* failed                                              *)
  redisFailed       (* a listener ended because Redis failed               *)

conn == <<hasKey, conns, joined, handler, owns>>
history == <<copies, rebuilt, overlapped, redisFailed>>
vars == <<conn, listener, inbox, iter, published, history>>

Messages == 1 .. MaxMessages

Live == {l \in Clients : listener[l] \in {"starting", "waiting", "sending"}}

(* A broadcast in progress iterates over the live set object. It keeps the *)
(* size the set had, which Python compares at every next(), or Detached    *)
(* once the key was deleted and a later connection gets another set; the   *)
(* members not reached yet; and the ones a send failed to.                 *)
Detached == -1
NoBroadcast == [size |-> Detached, todo |-> {}, failed |-> {}]

(* Listener l is sending message m over the set that is registered. *)
Visits(l, m) ==
  listener[l] = "sending" /\ iter[l].size # Detached /\ Head(inbox[l]) = m

Init ==
  /\ hasKey = FALSE /\ conns = {} /\ joined = 0 /\ owns = {}
  /\ handler = [c \in Clients |-> "new"]
  /\ listener = [c \in Clients |-> "none"]
  /\ inbox = [c \in Clients |-> <<>>]
  /\ iter = [c \in Clients |-> NoBroadcast]
  /\ published = 0
  /\ copies = [c \in Clients |-> [m \in Messages |-> 0]]
  /\ rebuilt = [m \in Messages |-> 0]
  /\ overlapped = FALSE /\ redisFailed = FALSE

------------------------------------------------------------------------------
(* Mutated forms of the definitions below. *)

(* a handler that leaves stops the feed whoever else is registered *)
LeaveUnchecked(c) ==
  /\ conns' = conns \ {c} /\ hasKey' = (c \notin owns)
  /\ listener' = IF c \in owns THEN [listener EXCEPT ![c] = "ended"] ELSE listener
  /\ UNCHANGED iter

(* the key deleted and the listener left running *)
LeaveLeaksListener(c) ==
  /\ conns' = conns \ {c} /\ hasKey' = (conns' # {})
  /\ UNCHANGED <<listener, iter>>

(* a broadcast that starts over instead of going on *)
RestOfRestarts(l, done) == conns

------------------------------------------------------------------------------
(* The handler, websocket_endpoint *)

(* What broadcast l may visit yet once c joined. CPython puts the newcomer *)
(* ahead of the loop or behind it. When the join fills the set's table the *)
(* members are hashed into a new one, and the loop, which goes on from the *)
(* same slot, may meet any of them, sent to before or not, and miss any;   *)
(* the send that is under way will return all the same.                    *)
Ahead(l, c, rebuild) ==
  LET todo == iter[l].todo IN
  IF listener[l] # "sending" \/ iter[l].size = Detached THEN {todo}
  ELSE IF rebuild
    THEN {T \in SUBSET (todo \cup conns \cup {c}) : T \cap todo # {}}
    ELSE {todo, todo \cup {c}}

(* After accept(): register, and start a listener if alone. From the       *)
(* TableSlots-th join on, the table may have to be rebuilt: slots of those *)
(* that left count until then, so leaves and joins suffice.                *)
Connect(c) ==
  /\ handler[c] = "new"
  /\ handler' = [handler EXCEPT ![c] = "open"]
  /\ hasKey' = TRUE
  /\ conns' = conns \cup {c}
  /\ joined' = IF hasKey THEN joined + 1 ELSE 1
  /\ overlapped' = (overlapped \/ conns # {})
  /\ IF conns = {}
       THEN owns' = owns \cup {c} /\ listener' = [listener EXCEPT ![c] = "starting"]
       ELSE UNCHANGED <<owns, listener>>
  /\ \E rebuild \in {r \in BOOLEAN : r => joined' >= TableSlots} :
       /\ \E todo \in [Clients -> SUBSET Clients] :
            /\ \A l \in Clients : todo[l] \in Ahead(l, c, rebuild)
            /\ iter' = [l \in Clients |-> [iter[l] EXCEPT !.todo = todo[l]]]
       /\ rebuilt' = IF rebuild
            THEN [m \in Messages |->
                    rebuilt[m] + Cardinality({l \in Clients : Visits(l, m)})]
            ELSE rebuilt
  /\ UNCHANGED <<inbox, published, copies, redisFailed>>

(* What the finally block does when the key exists: the last one to leave  *)
(* cancels the listener it started, if it started one, and deletes the     *)
(* key; broadcasts under way then iterate over an abandoned set.           *)
Leave(c) ==
  /\ conns' = conns \ {c}
  /\ IF conns' = {}
       THEN /\ hasKey' = FALSE
            /\ listener' =
                 IF c \in owns /\ c \in Live
                   THEN [listener EXCEPT ![c] = "ended"] ELSE listener
            /\ iter' = [l \in Clients |-> [iter[l] EXCEPT !.size = Detached]]
       ELSE UNCHANGED <<hasKey, listener, iter>>

(* receive_text() or send_text("pong") raises: the peer left or an error.  *)
HandlerExits(c) ==
  /\ handler[c] = "open"
  /\ handler' = [handler EXCEPT ![c] = "closed"]
  /\ IF hasKey THEN Leave(c) ELSE UNCHANGED <<conns, hasKey, listener, iter>>
  /\ UNCHANGED <<joined, owns, inbox, published, history>>

------------------------------------------------------------------------------
(* The listener, redis_listener and broadcast_to_stream *)

Subscribe(l) ==
  /\ listener[l] = "starting"
  /\ listener' = [listener EXCEPT ![l] = "waiting"]
  /\ UNCHANGED <<conn, inbox, iter, published, history>>

(* Connecting, subscribing or listen() raises: the task ends and nothing   *)
(* restarts it.                                                            *)
RedisFails(l) ==
  /\ listener[l] \in {"starting", "waiting"}
  /\ listener' = [listener EXCEPT ![l] = "ended"]
  /\ redisFailed' = TRUE
  /\ UNCHANGED <<conn, inbox, iter, published, copies, rebuilt, overlapped>>

(* listen() yields the next message. With no connection registered it is   *)
(* dropped at once; otherwise the first send begins.                       *)
TakeMessage(l) ==
  /\ listener[l] = "waiting" /\ inbox[l] # <<>>
  /\ IF conns = {}
       THEN inbox' = [inbox EXCEPT ![l] = Tail(@)] /\ UNCHANGED <<listener, iter>>
       ELSE /\ listener' = [listener EXCEPT ![l] = "sending"]
            /\ iter' = [iter EXCEPT ![l] =
                  [size |-> Cardinality(conns), todo |-> conns, failed |-> {}]]
            /\ UNCHANGED inbox
  /\ UNCHANGED <<conn, published, history>>

BackToWaiting(l) ==
  /\ listener' = [listener EXCEPT ![l] = "waiting"]
  /\ inbox' = [inbox EXCEPT ![l] = Tail(@)]
  /\ iter' = [iter EXCEPT ![l] = NoBroadcast]

(* What is left to visit once the connections in done were visited. *)
RestOf(l, done) == iter[l].todo \ done

(* A send to c returned, ok or not. next() on the set follows at once: it  *)
(* raises if the set changed size, and the rest of the connections miss    *)
(* the message; it goes on while members are left; or the loop ends and    *)
(* the connections that failed are unregistered.                           *)
SendReturns(l, c, ok) ==
  LET failed == IF ok THEN iter[l].failed ELSE iter[l].failed \cup {c}
      todo == RestOf(l, {c})
  IN
  /\ listener[l] = "sending" /\ c \in iter[l].todo
  /\ copies' = IF ok /\ handler[c] = "open"
                 THEN [copies EXCEPT ![c][Head(inbox[l])] = @ + 1] ELSE copies
  /\ overlapped' = (overlapped \/ ~ok)
  /\ \/ /\ iter[l].size # Cardinality(conns)
        /\ BackToWaiting(l) /\ UNCHANGED conns
     \/ /\ iter[l].size = Cardinality(conns) /\ todo \cap conns # {}
        /\ iter' = [iter EXCEPT ![l].todo = todo \cap conns, ![l].failed = failed]
        /\ UNCHANGED <<conns, listener, inbox>>
     \/ /\ iter[l].size = Cardinality(conns) /\ todo \cap conns = {}
        /\ BackToWaiting(l) /\ conns' = conns \ failed
  /\ UNCHANGED <<hasKey, joined, handler, owns, published, rebuilt, redisFailed>>

(* A detection is published; the subscribed listeners will see it. *)
Publish ==
  /\ published < MaxMessages
  /\ published' = published + 1
  /\ inbox' = [l \in Clients |->
                 IF listener[l] \in {"waiting", "sending"}
                   THEN Append(inbox[l], published + 1) ELSE inbox[l]]
  /\ UNCHANGED <<conn, listener, iter, history>>

Next ==
  \/ \E c \in Clients : Connect(c) \/ HandlerExits(c)
  \/ \E l \in Clients : Subscribe(l) \/ RedisFails(l) \/ TakeMessage(l)
  \/ \E l, c \in Clients, ok \in BOOLEAN : SendReturns(l, c, ok)
  \/ Publish

Spec == Init /\ [][Next]_vars

------------------------------------------------------------------------------
(* Properties *)

(* Every variable has its type; connections are registered under the key,  *)
(* and only while their handlers run, whatever broadcasts clean up.        *)
TypeOK ==
  /\ hasKey \in BOOLEAN
  /\ conns \subseteq Clients
  /\ conns # {} => hasKey
  /\ joined \in Nat
  /\ \A c \in conns : handler[c] = "open"
  /\ handler \in [Clients -> {"new", "open", "closed"}]
  /\ owns \subseteq Clients
  /\ listener \in [Clients -> {"none", "starting", "waiting", "sending", "ended"}]
  /\ inbox \in [Clients -> Seq(Messages)]
  /\ iter \in [Clients -> [size : Int, todo : SUBSET Clients,
                           failed : SUBSET Clients]]
  /\ published \in 0 .. MaxMessages
  /\ copies \in [Clients -> [Messages -> Nat]]
  /\ rebuilt \in [Messages -> Nat]
  /\ overlapped \in BOOLEAN
  /\ redisFailed \in BOOLEAN

(* As long as Redis works, registered clients have a listener: no leaving  *)
(* handler cancels the one that others still depend on.                    *)
MembersServed == ~redisFailed => (conns # {} => Live # {})

(* When clients come one at a time and no send fails, there is at most one *)
(* listener, none once the client left, and no message is sent twice. (The *)
(* comment in websocket_endpoint has a singleton per stream at any time.)  *)
SequentialClientsClean ==
  ~overlapped =>
    /\ Cardinality(Live) <= 1
    /\ conns = {} => Live = {}
    /\ \A c \in Clients, m \in Messages : copies[c][m] <= 1

(* Copies of a message come from nowhere but several listeners and the     *)
(* rebuilding of the set under a broadcast: each listener that ever ran    *)
(* sends it to a connection at most once, and once more for every time the *)
(* set it iterates over is hashed anew, although clients join, leave and   *)
(* fail between two of its sends.                                          *)
AtMostOncePerListener ==
  \A c \in Clients, m \in Messages :
    copies[c][m] <= Cardinality({l \in Clients : listener[l] # "none"}) + rebuilt[m]
==============================================================================
