---------------------------- MODULE LiveFeedProofs ----------------------------
(***************************************************************************)
(* Theorems about the two ends of the live feed. First the API's end,      *)
(* LiveStream, for any finite set of websockets and any number of          *)
(* messages; then the browser's, BrowserSession, for any users and         *)
(* cameras, any number of requests in flight and of replaced sockets, and  *)
(* any cap on the list of detections.                                      *)
(***************************************************************************)
EXTENDS LiveStream, BrowserSession, FiniteSetTheorems, SequenceTheorems, TLAPS

------------------------------------------------------------------------------
(* The inductive invariant *)

Has(q, m) == \E i \in 1 .. Len(q) : q[i] = m

(* Redis hands out messages in the order they were published, each once. *)
InOrder(q, n) ==
  /\ \A i \in 1 .. Len(q) : q[i] <= n
  /\ \A i, j \in 1 .. Len(q) : i < j => q[i] < q[j]

InboxInv ==
  \A l \in Clients : /\ InOrder(inbox[l], published)
                     /\ listener[l] = "sending" => inbox[l] # <<>>

(* A websocket that has not connected owns nothing and was sent nothing. *)
FreshInv ==
  \A c \in Clients : handler[c] = "new" =>
    /\ listener[c] = "none"
    /\ \A m \in Messages : copies[c][m] = 0

(* Listener l was started and will not send message m to connection c any  *)
(* more: it ended, the message is behind it, or its broadcast is past c.   *)
Spent(l, c, m) ==
  \/ listener[l] = "ended"
  \/ listener[l] # "none" /\ m <= published /\ ~Has(inbox[l], m)
  \/ listener[l] = "sending" /\ Head(inbox[l]) = m /\ c \notin iter[l].todo

SpentOn(c, m) == {l \in Clients : Spent(l, c, m)}

(* Every copy was made by another listener, which is done with it, or is   *)
(* one of those that a rebuilt set made a broadcast repeat.                *)
CopiesInv ==
  \A c \in Clients, m \in Messages :
    copies[c][m] <= Cardinality(SpentOn(c, m)) + rebuilt[m]

(* As long as connections do not overlap, the only listener is that of the *)
(* only connection, and it has yet to send what it is not done with.       *)
AloneInv ==
  ~overlapped =>
    /\ \A c \in Clients : handler[c] = "open" => c \in conns
    /\ \A c \in Clients, m \in Messages : copies[c][m] <= 1
    /\ \A l \in Live :
         /\ conns = {l} /\ l \in owns
         /\ listener[l] = "sending" => iter[l].todo \subseteq {l} /\ iter[l].failed = {}
         /\ \A m \in Messages : ~Spent(l, l, m) => copies[l][m] = 0

StreamInv ==
  TypeOK /\ InboxInv /\ FreshInv /\ MembersServed /\ CopiesInv /\ AloneInv

------------------------------------------------------------------------------
(* Lemmas about sequences and sets *)

LEMMA TailOfInbox ==
  ASSUME NEW q \in Seq(Messages), q # <<>>, NEW n \in Nat, InOrder(q, n)
  PROVE  /\ Tail(q) \in Seq(Messages) /\ Head(q) \in Messages
         /\ InOrder(Tail(q), n)
         /\ Head(q) <= n /\ Has(q, Head(q)) /\ ~Has(Tail(q), Head(q))
         /\ \A m : Has(Tail(q), m) => Has(q, m)
<1>1. /\ Len(q) \in Nat /\ Len(q) >= 1 /\ Head(q) = q[1] /\ Head(q) \in Messages
      /\ Tail(q) \in Seq(Messages) /\ Len(Tail(q)) = Len(q) - 1
      /\ \A i \in 1 .. Len(q) : q[i] \in Messages
      /\ \A i \in 1 .. Len(Tail(q)) : Tail(q)[i] = q[i + 1]
  BY HeadTailProperties, EmptySeq, LenProperties, ElementOfSeq
<1>2. \A i \in 1 .. Len(Tail(q)) : i + 1 \in 1 .. Len(q) /\ i + 1 > 1
  BY <1>1
<1>3. \A i \in 1 .. Len(q) : q[i] \in Int
  BY <1>1, LiveStreamAssumption DEF LiveStreamAssumption, Messages
<1>4. InOrder(Tail(q), n)
  BY <1>1, <1>2, <1>3 DEF InOrder
<1>5. 1 \in 1 .. Len(q)
  BY <1>1
<1>6. ~Has(Tail(q), Head(q))
  BY <1>1, <1>2, <1>3, <1>5 DEF InOrder, Has
<1> QED
  BY <1>1, <1>2, <1>4, <1>5, <1>6 DEF InOrder, Has

LEMMA AppendToInbox ==
  ASSUME NEW q \in Seq(Messages), NEW n \in Nat, n + 1 \in Messages, InOrder(q, n)
  PROVE  /\ Append(q, n + 1) \in Seq(Messages) /\ Append(q, n + 1) # <<>>
         /\ InOrder(Append(q, n + 1), n + 1)
         /\ \A m : Has(Append(q, n + 1), m) <=> Has(q, m) \/ m = n + 1
         /\ q # <<>> => Head(Append(q, n + 1)) = Head(q)
<1> DEFINE a == Append(q, n + 1)
<1>1. /\ Len(q) \in Nat /\ a \in Seq(Messages) /\ a # <<>> /\ Len(a) = Len(q) + 1
      /\ \A i \in 1 .. Len(q) : q[i] \in Messages /\ a[i] = q[i]
      /\ a[Len(q) + 1] = n + 1
  BY AppendProperties, LenProperties, ElementOfSeq
<1>2. \A i \in 1 .. Len(q) : q[i] \in Int
  BY <1>1, LiveStreamAssumption DEF LiveStreamAssumption, Messages
<1> HIDE DEF a
<1>3. \A i \in 1 .. Len(a) : i \in 1 .. Len(q) \/ i = Len(q) + 1
  BY <1>1
<1>4. \A i \in 1 .. Len(a) : a[i] <= n + 1
  BY <1>1, <1>2, <1>3 DEF InOrder
<1>5. ASSUME NEW i \in 1 .. Len(a), NEW j \in 1 .. Len(a), i < j
      PROVE  a[i] < a[j]
  <2>1. i \in 1 .. Len(q)
    BY <1>1, <1>3, <1>5
  <2>2. CASE j \in 1 .. Len(q)
    BY <1>1, <1>5, <2>1, <2>2 DEF InOrder
  <2>3. CASE j = Len(q) + 1
    BY <1>1, <1>2, <2>1, <2>3 DEF InOrder
  <2> QED
    BY <1>3, <2>2, <2>3
<1>6. \A m : Has(a, m) <=> Has(q, m) \/ m = n + 1
  <2>1. Len(q) + 1 \in 1 .. Len(a) /\ 1 .. Len(q) \subseteq 1 .. Len(a)
    BY <1>1
  <2> QED
    BY <1>1, <1>3, <2>1 DEF Has
<1>7. q # <<>> => Head(a) = Head(q)
  <2> SUFFICES ASSUME q # <<>> PROVE Head(a) = Head(q)
    OBVIOUS
  <2>1. Len(q) >= 1
    BY <1>1, EmptySeq
  <2>2. 1 \in 1 .. Len(q)
    BY <1>1, <2>1
  <2> QED
    BY <1>1, <2>2, HeadTailProperties
<1> QED
  BY <1>1, <1>4, <1>5, <1>6, <1>7 DEF InOrder, a

(* Sets of listeners are finite, and ordered by inclusion in size. *)
LEMMA ListenersCounted ==
  ASSUME NEW S \in SUBSET Clients, NEW T \in SUBSET Clients, S \subseteq T
  PROVE  /\ Cardinality(S) \in Nat /\ Cardinality(T) \in Nat
         /\ Cardinality(S) <= Cardinality(T)
         /\ \A l \in T \ S : Cardinality(S) + 1 <= Cardinality(T)
<1>1. IsFiniteSet(S) /\ IsFiniteSet(T)
  BY FS_Subset, LiveStreamAssumption DEF LiveStreamAssumption
<1>2. Cardinality(S) \in Nat /\ Cardinality(T) \in Nat /\ Cardinality(S) <= Cardinality(T)
  BY <1>1, FS_Subset, FS_CardinalityType
<1>3. ASSUME NEW l \in T \ S
      PROVE  Cardinality(S) + 1 <= Cardinality(T)
  <2>1. IsFiniteSet(S \cup {l}) /\ Cardinality(S \cup {l}) = Cardinality(S) + 1
    BY <1>1, FS_AddElement
  <2>2. S \cup {l} \subseteq T
    OBVIOUS
  <2> QED
    BY <1>1, <2>1, <2>2, FS_Subset
<1> QED
  BY <1>2, <1>3

(* The records of broadcasts, and what the actions make of one. *)
Broadcasts == [size : Int, todo : SUBSET Clients, failed : SUBSET Clients]

LEMMA BroadcastMade ==
  ASSUME NEW n \in Int, NEW S \in SUBSET Clients
  PROVE  [size |-> n, todo |-> S, failed |-> {}] \in Broadcasts
BY DEF Broadcasts

LEMMA NoBroadcastMade == NoBroadcast \in Broadcasts
BY DEF Broadcasts, NoBroadcast, Detached

LEMMA BroadcastChanged ==
  ASSUME NEW b \in Broadcasts, NEW S \in SUBSET Clients, NEW T \in SUBSET Clients
  PROVE  /\ [b EXCEPT !.todo = S] \in Broadcasts
         /\ [b EXCEPT !.size = Detached] \in Broadcasts
         /\ [b EXCEPT !.todo = S, !.failed = T] \in Broadcasts
<1>1. [b EXCEPT !.todo = S] \in Broadcasts
  BY DEF Broadcasts
<1>2. [b EXCEPT !.size = Detached] \in Broadcasts
  BY DEF Broadcasts, Detached
<1>3. [b EXCEPT !.todo = S, !.failed = T] \in Broadcasts
  BY DEF Broadcasts
<1> QED
  BY <1>1, <1>2, <1>3

LEMMA ConnsCounted ==
  ASSUME TypeOK
  PROVE  IsFiniteSet(conns) /\ Cardinality(conns) \in Nat
BY FS_Subset, FS_CardinalityType, LiveStreamAssumption DEF LiveStreamAssumption, TypeOK

------------------------------------------------------------------------------
(* The steps one by one *)

LEMMA InitInv == Init => StreamInv
<1> SUFFICES ASSUME Init PROVE StreamInv
  OBVIOUS
<1> USE LiveStreamAssumption DEF LiveStreamAssumption, Init
<1>1. TypeOK
  <2>1. iter \in [Clients -> Broadcasts]
    BY NoBroadcastMade
  <2>2. <<>> \in Seq(Messages)
    BY EmptySeq
  <2>3. inbox \in [Clients -> Seq(Messages)] /\ copies \in [Clients -> [Messages -> Nat]]
    BY <2>2
  <2>4. /\ handler \in [Clients -> {"new", "open", "closed"}]
        /\ listener \in [Clients -> {"none", "starting", "waiting", "sending", "ended"}]
        /\ published \in 0 .. MaxMessages
    OBVIOUS
  <2>5. /\ hasKey \in BOOLEAN /\ overlapped \in BOOLEAN /\ redisFailed \in BOOLEAN
        /\ conns = {} /\ owns \subseteq Clients
        /\ joined \in Nat /\ rebuilt \in [Messages -> Nat]
    OBVIOUS
  <2> QED
    BY <2>1, <2>3, <2>4, <2>5 DEF TypeOK, Broadcasts
<1>2. InboxInv
  <2>1. Len(<<>>) = 0
    BY EmptySeq
  <2> QED
    BY <2>1 DEF InboxInv, InOrder
<1>3. FreshInv
  BY DEF FreshInv
<1>4. MembersServed
  BY DEF MembersServed
<1>5. CopiesInv
  <2> SUFFICES ASSUME NEW c \in Clients, NEW m \in Messages
               PROVE  copies[c][m] <= Cardinality(SpentOn(c, m)) + rebuilt[m]
    BY DEF CopiesInv
  <2>1. Cardinality(SpentOn(c, m)) \in Nat
    BY ListenersCounted DEF SpentOn
  <2>2. copies[c][m] = 0 /\ rebuilt[m] = 0
    OBVIOUS
  <2> QED
    BY <2>1, <2>2
<1>6. AloneInv
  BY DEF AloneInv, Live
<1> QED
  BY <1>1, <1>2, <1>3, <1>4, <1>5, <1>6 DEF StreamInv

(* Where a listener goes after a message, and what is left of its inbox. *)
LEMMA MessageDropped ==
  ASSUME NEW l \in Clients, TypeOK, InboxInv, inbox[l] # <<>>,
         inbox' = [inbox EXCEPT ![l] = Tail(@)]
  PROVE  /\ inbox' \in [Clients -> Seq(Messages)]
         /\ \A k \in Clients : InOrder(inbox'[k], published)
         /\ \A k \in Clients : k # l => inbox'[k] = inbox[k]
         /\ \A k \in Clients, m \in Messages : Has(inbox'[k], m) => Has(inbox[k], m)
         /\ Head(inbox[l]) \in Messages /\ Head(inbox[l]) <= published
         /\ Has(inbox[l], Head(inbox[l])) /\ ~Has(inbox'[l], Head(inbox[l]))
<1>1. inbox[l] \in Seq(Messages) /\ published \in Nat /\ InOrder(inbox[l], published)
  BY DEF TypeOK, InboxInv
<1>2. inbox'[l] = Tail(inbox[l]) /\ \A k \in Clients : k # l => inbox'[k] = inbox[k]
  BY DEF TypeOK
<1> QED
  BY <1>1, <1>2, TailOfInbox DEF TypeOK, InboxInv

(* A set that is rebuilt is counted for the messages sent over it.         *)
VisitorsOf(m) == {l \in Clients : Visits(l, m)}

LEMMA RebuiltCounted ==
  ASSUME TypeOK, NEW c \in Clients, Connect(c)
  PROVE  /\ rebuilt' \in [Messages -> Nat]
         /\ \A m \in Messages :
              /\ Cardinality(VisitorsOf(m)) \in Nat
              /\ rebuilt'[m] \in {rebuilt[m], rebuilt[m] + Cardinality(VisitorsOf(m))}
<1>1. \A m \in Messages : Cardinality(VisitorsOf(m)) \in Nat /\ rebuilt[m] \in Nat
  <2>1. \A m \in Messages : VisitorsOf(m) \in SUBSET Clients
    BY DEF VisitorsOf
  <2> QED
    BY <2>1, ListenersCounted DEF TypeOK
<1>2. \/ rebuilt' = rebuilt
      \/ rebuilt' = [m \in Messages |-> rebuilt[m] + Cardinality(VisitorsOf(m))]
  BY DEF Connect, VisitorsOf
<1>3. CASE rebuilt' = rebuilt
  BY <1>1, <1>3 DEF TypeOK
<1>4. CASE rebuilt' = [m \in Messages |-> rebuilt[m] + Cardinality(VisitorsOf(m))]
  <2>1. \A m \in Messages : rebuilt[m] + Cardinality(VisitorsOf(m)) \in Nat
    BY <1>1
  <2> QED
    BY <1>1, <1>4, <2>1
<1> QED
  BY <1>2, <1>3, <1>4

(* Only a connection that joins can make a broadcast start on a message's  *)
(* receivers anew, and it is counted if it does.                           *)
LEMMA RebuildIsCounted ==
  ASSUME TypeOK, NEW c \in Clients, Connect(c), NEW l \in Clients, NEW m \in Messages,
         Visits(l, m), ~(iter'[l].todo \subseteq iter[l].todo \cup {c})
  PROVE  rebuilt'[m] = rebuilt[m] + Cardinality(VisitorsOf(m))
<1>1. PICK rebuild \in BOOLEAN, todo \in [Clients -> SUBSET Clients] :
        /\ \A k \in Clients : todo[k] \in Ahead(k, c, rebuild)
        /\ iter' = [k \in Clients |-> [iter[k] EXCEPT !.todo = todo[k]]]
        /\ rebuilt' = IF rebuild
              THEN [n \in Messages |-> rebuilt[n] + Cardinality({k \in Clients : Visits(k, n)})]
              ELSE rebuilt
  BY DEF Connect
<1>2. iter'[l].todo = todo[l] /\ todo[l] \in Ahead(l, c, rebuild)
  BY <1>1 DEF TypeOK
<1>3. rebuild
  BY <1>2 DEF Ahead
<1> QED
  BY <1>1, <1>3 DEF VisitorsOf

(* A broadcast over an abandoned set, or none, is left as it is. *)
LEMMA ConnectKeepsOthers ==
  ASSUME TypeOK, NEW c \in Clients, Connect(c), NEW l \in Clients,
         listener[l] # "sending" \/ iter[l].size = Detached
  PROVE  iter'[l].todo = iter[l].todo
<1>1. PICK rebuild \in BOOLEAN, todo \in [Clients -> SUBSET Clients] :
        /\ \A k \in Clients : todo[k] \in Ahead(k, c, rebuild)
        /\ iter' = [k \in Clients |-> [iter[k] EXCEPT !.todo = todo[k]]]
  BY DEF Connect
<1> QED
  BY <1>1 DEF Ahead, TypeOK

LEMMA StepKeepsTypes ==
  ASSUME TypeOK, InboxInv, [Next]_vars
  PROVE  TypeOK' /\ InboxInv'
<1> USE LiveStreamAssumption DEF LiveStreamAssumption
<1>1. ASSUME NEW c \in Clients, Connect(c)
      PROVE  TypeOK' /\ InboxInv'
  <2>1. iter' \in [Clients -> Broadcasts]
    <3>1. PICK todo \in [Clients -> SUBSET Clients] :
            iter' = [l \in Clients |-> [iter[l] EXCEPT !.todo = todo[l]]]
      BY <1>1 DEF Connect
    <3>2. ASSUME NEW l \in Clients
          PROVE  [iter[l] EXCEPT !.todo = todo[l]] \in Broadcasts
      <4>1. iter[l] \in Broadcasts /\ todo[l] \in SUBSET Clients
        BY DEF TypeOK, Broadcasts
      <4> QED
        BY <4>1, BroadcastChanged
    <3> QED
      BY <3>1, <3>2
  <2>2. listener' \in [Clients -> {"none", "starting", "waiting", "sending", "ended"}]
    BY <1>1 DEF Connect, TypeOK
  <2>3. \A l \in Clients : listener'[l] = "sending" => listener[l] = "sending"
    BY <1>1 DEF Connect, TypeOK
  <2>4. /\ handler' \in [Clients -> {"new", "open", "closed"}]
        /\ conns' \subseteq Clients /\ owns' \subseteq Clients
        /\ \A d \in conns' : handler'[d] = "open"
        /\ overlapped' \in BOOLEAN /\ hasKey' = TRUE /\ joined' \in Nat
    BY <1>1 DEF Connect, TypeOK
  <2>5. UNCHANGED <<inbox, published, copies, redisFailed>>
    BY <1>1 DEF Connect
  <2>6. rebuilt' \in [Messages -> Nat]
    BY <1>1, RebuiltCounted
  <2> QED
    BY <2>1, <2>2, <2>3, <2>4, <2>5, <2>6 DEF TypeOK, InboxInv, Broadcasts
<1>2. ASSUME NEW c \in Clients, HandlerExits(c)
      PROVE  TypeOK' /\ InboxInv'
  <2>1. CASE hasKey /\ conns \ {c} = {}
    <3>1. iter' \in [Clients -> Broadcasts]
      <4>1. \A l \in Clients : iter[l] \in Broadcasts
        BY DEF TypeOK, Broadcasts
      <4>2. iter' = [l \in Clients |-> [iter[l] EXCEPT !.size = Detached]]
        BY <1>2, <2>1 DEF HandlerExits, Leave
      <4> QED
        BY <4>1, <4>2, BroadcastChanged
    <3>2. listener' \in [Clients -> {"none", "starting", "waiting", "sending", "ended"}]
      BY <1>2, <2>1 DEF HandlerExits, Leave, TypeOK
    <3>3. \A l \in Clients : listener'[l] = "sending" => listener[l] = "sending"
      BY <1>2, <2>1 DEF HandlerExits, Leave, TypeOK
    <3> QED
      BY <1>2, <2>1, <3>1, <3>2, <3>3 DEF HandlerExits, Leave, TypeOK, InboxInv, Broadcasts, history
  <2>2. CASE hasKey /\ conns \ {c} # {}
    BY <1>2, <2>2 DEF HandlerExits, Leave, TypeOK, InboxInv, history
  <2>3. CASE ~hasKey
    BY <1>2, <2>3 DEF HandlerExits, TypeOK, InboxInv, history
  <2> QED
    BY <2>1, <2>2, <2>3
<1>3. ASSUME NEW l \in Clients, Subscribe(l)
      PROVE  TypeOK' /\ InboxInv'
  BY <1>3 DEF Subscribe, conn, history, TypeOK, InboxInv
<1>4. ASSUME NEW l \in Clients, RedisFails(l)
      PROVE  TypeOK' /\ InboxInv'
  BY <1>4 DEF RedisFails, conn, history, TypeOK, InboxInv
<1>5. ASSUME NEW l \in Clients, TakeMessage(l)
      PROVE  TypeOK' /\ InboxInv'
  <2>1. CASE conns = {}
    <3>1. inbox' \in [Clients -> Seq(Messages)] /\ \A k \in Clients : InOrder(inbox'[k], published)
      BY <1>5, <2>1, MessageDropped DEF TakeMessage
    <3>2. \A k \in Clients : listener[k] = "sending" => inbox'[k] = inbox[k]
      BY <1>5, <2>1, MessageDropped DEF TakeMessage
    <3> QED
      BY <1>5, <2>1, <3>1, <3>2 DEF TakeMessage, conn, history, TypeOK, InboxInv
  <2>2. CASE conns # {}
    <3>1. [size |-> Cardinality(conns), todo |-> conns, failed |-> {}] \in Broadcasts
      <4>1. Cardinality(conns) \in Int /\ conns \in SUBSET Clients
        BY ConnsCounted DEF TypeOK
      <4> QED
        BY <4>1, BroadcastMade
    <3>2. iter' \in [Clients -> Broadcasts]
      BY <1>5, <2>2, <3>1 DEF TakeMessage, TypeOK, Broadcasts
    <3>3. listener' \in [Clients -> {"none", "starting", "waiting", "sending", "ended"}]
      BY <1>5, <2>2 DEF TakeMessage, TypeOK
    <3>4. \A k \in Clients : listener'[k] = "sending" => inbox[k] # <<>>
      BY <1>5, <2>2 DEF TakeMessage, TypeOK, InboxInv
    <3> QED
      BY <1>5, <2>2, <3>2, <3>3, <3>4 DEF TakeMessage, conn, history, TypeOK, InboxInv, Broadcasts
  <2> QED
    BY <2>1, <2>2
<1>6. ASSUME NEW l \in Clients, NEW c \in Clients, NEW ok \in BOOLEAN, SendReturns(l, c, ok)
      PROVE  TypeOK' /\ InboxInv'
  <2>1. listener[l] = "sending" /\ inbox[l] # <<>>
    BY <1>6 DEF SendReturns, InboxInv
  <2>2. Head(inbox[l]) \in Messages
    BY <2>1, TailOfInbox DEF TypeOK, InboxInv
  <2>3. copies' \in [Clients -> [Messages -> Nat]]
    BY <1>6, <2>2 DEF SendReturns, TypeOK
  <2>4. CASE BackToWaiting(l)
    <3>1. inbox' \in [Clients -> Seq(Messages)] /\ \A k \in Clients : InOrder(inbox'[k], published)
      BY <2>1, <2>4, MessageDropped DEF BackToWaiting
    <3>2. \A k \in Clients : listener'[k] = "sending" =>
                               listener[k] = "sending" /\ inbox'[k] = inbox[k]
      BY <2>4, <2>1 DEF BackToWaiting, TypeOK
    <3>3. /\ iter' \in [Clients -> Broadcasts]
          /\ listener' \in [Clients -> {"none", "starting", "waiting", "sending", "ended"}]
      BY <2>4, NoBroadcastMade DEF BackToWaiting, TypeOK, Broadcasts
    <3>4. conns' \subseteq conns
      BY <1>6 DEF SendReturns
    <3> QED
      BY <1>6, <2>3, <3>1, <3>2, <3>3, <3>4 DEF SendReturns, TypeOK, InboxInv, Broadcasts
  <2>5. CASE ~BackToWaiting(l)
    <3>1. PICK S \in SUBSET Clients, T \in SUBSET Clients :
            iter' = [iter EXCEPT ![l].todo = S, ![l].failed = T]
      <4> DEFINE S == RestOf(l, {c}) \cap conns
                 T == IF ok THEN iter[l].failed ELSE iter[l].failed \cup {c}
      <4>1. S \in SUBSET Clients /\ T \in SUBSET Clients
        BY DEF RestOf, TypeOK
      <4>2. iter' = [iter EXCEPT ![l].todo = S, ![l].failed = T]
        BY <1>6, <2>5 DEF SendReturns
      <4> HIDE DEF S, T
      <4> QED
        BY <4>1, <4>2
    <3>2. iter' \in [Clients -> Broadcasts]
      <4>1. iter[l] \in Broadcasts /\ iter \in [Clients -> Broadcasts]
        BY DEF TypeOK, Broadcasts
      <4>2. [iter[l] EXCEPT !.todo = S, !.failed = T] \in Broadcasts
        BY <4>1, BroadcastChanged
      <4>3. iter' = [iter EXCEPT ![l] = [iter[l] EXCEPT !.todo = S, !.failed = T]]
        BY <3>1, <4>1
      <4> QED
        BY <4>1, <4>2, <4>3
    <3> QED
      BY <1>6, <2>3, <2>5, <3>2 DEF SendReturns, TypeOK, InboxInv, Broadcasts
  <2> QED
    BY <2>4, <2>5
<1>7. CASE Publish
  <2>1. published \in Nat /\ published + 1 \in Messages
    BY <1>7 DEF Publish, TypeOK, Messages
  <2>2. ASSUME NEW l \in Clients
        PROVE  /\ inbox'[l] \in Seq(Messages) /\ InOrder(inbox'[l], published')
               /\ listener'[l] = "sending" => inbox'[l] # <<>>
    <3>1. inbox[l] \in Seq(Messages) /\ InOrder(inbox[l], published)
      BY DEF TypeOK, InboxInv
    <3>2. InOrder(inbox[l], published + 1)
      <4>1. \A i \in 1 .. Len(inbox[l]) : inbox[l][i] \in Int
        BY <3>1, ElementOfSeq DEF Messages
      <4> QED
        BY <2>1, <3>1, <4>1 DEF InOrder
    <3> QED
      BY <1>7, <2>1, <3>1, <3>2, AppendToInbox DEF Publish, TypeOK
  <2>3. inbox' \in [Clients -> Seq(Messages)]
    BY <1>7, <2>2 DEF Publish
  <2>4. published' \in 0 .. MaxMessages
    BY <1>7, <2>1 DEF Publish, Messages
  <2> QED
    BY <1>7, <2>2, <2>3, <2>4 DEF Publish, conn, history, TypeOK, InboxInv
<1>8. CASE UNCHANGED vars
  BY <1>8 DEF vars, conn, history, TypeOK, InboxInv
<1> QED
  BY <1>1, <1>2, <1>3, <1>4, <1>5, <1>6, <1>7, <1>8 DEF Next

(* A copy is only made for a connection whose handler runs. *)
LEMMA CopiesChange ==
  ASSUME TypeOK, InboxInv, [Next]_vars, NEW c \in Clients, NEW m \in Messages,
         copies'[c][m] # copies[c][m]
  PROVE  /\ handler[c] = "open" /\ handler' = handler
         /\ copies'[c][m] = copies[c][m] + 1
         /\ \E l \in Clients :
              /\ SendReturns(l, c, TRUE) /\ m = Head(inbox[l]) /\ ~Spent(l, c, m)
<1>1. \A d \in Clients : ~Connect(d) /\ ~HandlerExits(d)
  BY DEF Connect, HandlerExits, history
<1>2. \A l \in Clients : ~Subscribe(l) /\ ~RedisFails(l) /\ ~TakeMessage(l)
  BY DEF Subscribe, RedisFails, TakeMessage, history
<1>3. ~Publish /\ ~UNCHANGED vars
  BY DEF Publish, vars, history
<1>4. PICK l \in Clients, d \in Clients, ok \in BOOLEAN : SendReturns(l, d, ok)
  BY <1>1, <1>2, <1>3 DEF Next
<1>5. Head(inbox[l]) \in Messages /\ Has(inbox[l], Head(inbox[l]))
  <2>1. inbox[l] \in Seq(Messages) /\ inbox[l] # <<>> /\ InOrder(inbox[l], published)
    BY <1>4 DEF SendReturns, TypeOK, InboxInv
  <2>2. published \in Nat
    BY DEF TypeOK
  <2> QED
    BY <2>1, <2>2, TailOfInbox
<1>6. /\ ok = TRUE /\ handler[d] = "open" /\ d = c /\ m = Head(inbox[l])
      /\ copies'[c][m] = copies[c][m] + 1
  BY <1>4, <1>5 DEF SendReturns, TypeOK
<1>7. listener[l] = "sending" /\ c \in iter[l].todo /\ handler' = handler
  BY <1>4, <1>6 DEF SendReturns
<1>8. ~Spent(l, c, m)
  BY <1>5, <1>6, <1>7 DEF Spent
<1> QED
  BY <1>4, <1>6, <1>7, <1>8

LEMMA StepKeepsFresh ==
  ASSUME TypeOK, InboxInv, FreshInv, [Next]_vars
  PROVE  FreshInv'
<1> SUFFICES ASSUME NEW c \in Clients, handler'[c] = "new"
             PROVE  listener'[c] = "none" /\ \A m \in Messages : copies'[c][m] = 0
  BY DEF FreshInv
<1>1. handler[c] = "new"
  <2>1. ASSUME NEW d \in Clients, Connect(d) \/ HandlerExits(d)
        PROVE  handler[c] = "new"
    BY <2>1 DEF Connect, HandlerExits, TypeOK
  <2> QED
    BY <2>1 DEF Next, Subscribe, RedisFails, TakeMessage, SendReturns, Publish, conn, history, vars
<1>2. ASSUME NEW m \in Messages
      PROVE  copies'[c][m] = 0
  BY <1>1, CopiesChange DEF FreshInv
<1>3. listener[c] = "none"
  BY <1>1 DEF FreshInv
<1>4. listener'[c] = "none"
  <2>1. ASSUME NEW d \in Clients, Connect(d)
        PROVE  listener'[c] = "none"
    BY <1>3, <2>1 DEF Connect, TypeOK
  <2>2. ASSUME NEW d \in Clients, HandlerExits(d)
        PROVE  listener'[c] = "none"
    BY <1>3, <2>2 DEF HandlerExits, Leave, Live, TypeOK
  <2>3. ASSUME NEW l \in Clients, Subscribe(l) \/ RedisFails(l) \/ TakeMessage(l)
        PROVE  listener'[c] = "none"
    BY <1>3, <2>3 DEF Subscribe, RedisFails, TakeMessage, TypeOK
  <2>4. ASSUME NEW l \in Clients, NEW d \in Clients, NEW ok \in BOOLEAN, SendReturns(l, d, ok)
        PROVE  listener'[c] = "none"
    BY <1>3, <2>4 DEF SendReturns, BackToWaiting, TypeOK
  <2>5. CASE Publish \/ UNCHANGED vars
    BY <1>3, <2>5 DEF Publish, vars
  <2> QED
    BY <2>1, <2>2, <2>3, <2>4, <2>5 DEF Next
<1> QED
  BY <1>2, <1>4

(* A listener only ends with the last connection, or because Redis failed. *)
LEMMA StepKeepsMembersServed ==
  ASSUME TypeOK, MembersServed, [Next]_vars
  PROVE  MembersServed'
<1> SUFFICES ASSUME ~redisFailed', conns' # {}
             PROVE  \E l \in Clients : listener'[l] \in {"starting", "waiting", "sending"}
  BY DEF MembersServed, Live
<1>1. ASSUME NEW c \in Clients, Connect(c)
      PROVE  \E l \in Clients : listener'[l] \in {"starting", "waiting", "sending"}
  <2>1. CASE conns = {}
    <3>1. listener'[c] = "starting"
      BY <1>1, <2>1 DEF Connect, TypeOK
    <3> QED
      BY <3>1
  <2>2. CASE conns # {}
    BY <1>1, <2>2 DEF Connect, MembersServed, Live
  <2> QED
    BY <2>1, <2>2
<1>2. ASSUME NEW c \in Clients, HandlerExits(c)
      PROVE  \E l \in Clients : listener'[l] \in {"starting", "waiting", "sending"}
  <2>1. conns # {} /\ listener' = listener
    BY <1>2 DEF HandlerExits, Leave
  <2> QED
    BY <1>2, <2>1 DEF HandlerExits, MembersServed, Live, history
<1>3. ASSUME NEW l \in Clients, Subscribe(l) \/ TakeMessage(l)
      PROVE  \E k \in Clients : listener'[k] \in {"starting", "waiting", "sending"}
  <2>1. CASE listener' = listener
    BY <1>3, <2>1 DEF Subscribe, TakeMessage, conn, history, MembersServed, Live
  <2>2. CASE listener' # listener
    <3>1. listener'[l] \in {"waiting", "sending"}
      BY <1>3, <2>2 DEF Subscribe, TakeMessage, TypeOK
    <3> QED
      BY <3>1
  <2> QED
    BY <2>1, <2>2
<1>4. ASSUME NEW l \in Clients, RedisFails(l)
      PROVE  FALSE
  BY <1>4 DEF RedisFails
<1>5. ASSUME NEW l \in Clients, NEW c \in Clients, NEW ok \in BOOLEAN, SendReturns(l, c, ok)
      PROVE  \E k \in Clients : listener'[k] \in {"starting", "waiting", "sending"}
  <2>1. listener'[l] \in {"waiting", "sending"}
    BY <1>5 DEF SendReturns, BackToWaiting, TypeOK
  <2> QED
    BY <2>1
<1>6. CASE Publish \/ UNCHANGED vars
  BY <1>6 DEF Publish, vars, conn, history, MembersServed, Live
<1> QED
  BY <1>1, <1>2, <1>3, <1>4, <1>5, <1>6 DEF Next

------------------------------------------------------------------------------
(* Copies *)

(* Once done with a message a listener stays so, except that a websocket   *)
(* that connects may be reached by the broadcasts under way, and any other *)
(* once more by those whose set is rebuilt.                                *)
LEMMA SpentStays ==
  ASSUME TypeOK, InboxInv, FreshInv, [Next]_vars,
         NEW k \in Clients, NEW d \in Clients, NEW m \in Messages,
         handler'[d] # "open" \/ handler[d] # "new",
         ~Visits(k, m) \/ rebuilt'[m] = rebuilt[m], Spent(k, d, m)
  PROVE  Spent(k, d, m)'
<1> USE DEF Spent
<1>0. published \in Nat /\ m \in Nat /\ inbox[k] \in Seq(Messages) /\ InOrder(inbox[k], published)
  BY LiveStreamAssumption DEF LiveStreamAssumption, TypeOK, InboxInv, Messages
<1>1. ASSUME NEW c \in Clients, Connect(c)
      PROVE  Spent(k, d, m)'
  <2>1. listener[k] # "none" /\ c # d
    BY <1>1 DEF Connect, TypeOK
  <2>2. c # k
    BY <1>1, <2>1 DEF Connect, FreshInv
  <2>3. listener'[k] = listener[k] /\ UNCHANGED <<inbox, published>>
    BY <1>1, <2>2 DEF Connect, TypeOK
  <2>4. ASSUME listener[k] = "sending", Head(inbox[k]) = m, d \notin iter[k].todo
        PROVE  d \notin iter'[k].todo
    <3>1. CASE iter[k].size = Detached
      BY <1>1, <2>4, <3>1, ConnectKeepsOthers
    <3>2. CASE iter[k].size # Detached
      <4>1. Visits(k, m) /\ k \in VisitorsOf(m) /\ VisitorsOf(m) \in SUBSET Clients
        BY <2>4, <3>2 DEF Visits, VisitorsOf
      <4>2. Cardinality({}) + 1 <= Cardinality(VisitorsOf(m))
        BY <4>1, ListenersCounted
      <4>3. rebuilt[m] \in Nat /\ Cardinality(VisitorsOf(m)) \in Nat /\ Cardinality({}) = 0
        BY <4>1, ListenersCounted, FS_EmptySet DEF TypeOK
      <4>4. rebuilt'[m] = rebuilt[m]
        BY <4>1
      <4>5. iter'[k].todo \subseteq iter[k].todo \cup {c}
        BY <1>1, <4>1, <4>2, <4>3, <4>4, RebuildIsCounted
      <4> QED
        BY <2>1, <2>4, <4>5
    <3> QED
      BY <3>1, <3>2
  <2> QED
    BY <2>1, <2>3, <2>4
<1>2. ASSUME NEW c \in Clients, HandlerExits(c)
      PROVE  Spent(k, d, m)'
  <2>1. listener'[k] = listener[k] \/ listener'[k] = "ended"
    BY <1>2 DEF HandlerExits, Leave, TypeOK
  <2>2. iter'[k].todo = iter[k].todo
    BY <1>2 DEF HandlerExits, Leave, TypeOK
  <2>3. UNCHANGED <<inbox, published>>
    BY <1>2 DEF HandlerExits
  <2> QED
    BY <2>1, <2>2, <2>3
<1>3. ASSUME NEW l \in Clients, Subscribe(l) \/ RedisFails(l)
      PROVE  Spent(k, d, m)'
  BY <1>3 DEF Subscribe, RedisFails, TypeOK
<1>4. ASSUME NEW l \in Clients, TakeMessage(l)
      PROVE  Spent(k, d, m)'
  <2>1. CASE conns = {}
    <3>1. Has(inbox'[k], m) => Has(inbox[k], m)
      BY <1>4, <2>1, MessageDropped DEF TakeMessage
    <3>2. listener[k] = "sending" => inbox'[k] = inbox[k]
      BY <1>4, <2>1, MessageDropped DEF TakeMessage
    <3> QED
      BY <1>4, <2>1, <3>1, <3>2 DEF TakeMessage
  <2>2. CASE conns # {}
    BY <1>4, <2>2 DEF TakeMessage, TypeOK
  <2> QED
    BY <2>1, <2>2
<1>5. ASSUME NEW l \in Clients, NEW c \in Clients, NEW ok \in BOOLEAN, SendReturns(l, c, ok)
      PROVE  Spent(k, d, m)'
  <2>1. CASE k # l
    <3>1. /\ listener'[k] = listener[k] /\ iter'[k] = iter[k] /\ inbox'[k] = inbox[k]
          /\ published' = published
      <4>1. CASE BackToWaiting(l)
        BY <1>5, <2>1, <4>1 DEF SendReturns, BackToWaiting, TypeOK
      <4>2. CASE ~BackToWaiting(l)
        BY <1>5, <2>1, <4>2 DEF SendReturns, TypeOK
      <4> QED
        BY <4>1, <4>2
    <3> QED
      BY <3>1
  <2>2. CASE k = l /\ BackToWaiting(l)
    <3>1. inbox[l] # <<>> /\ listener[l] = "sending" /\ published' = published
      BY <1>5 DEF SendReturns, InboxInv
    <3>2. /\ Has(inbox'[l], m) => Has(inbox[l], m)
          /\ ~Has(inbox'[l], Head(inbox[l])) /\ Head(inbox[l]) <= published
      BY <2>2, <3>1, MessageDropped DEF BackToWaiting
    <3>3. listener'[l] = "waiting"
      BY <2>2 DEF BackToWaiting, TypeOK
    <3> QED
      BY <2>2, <3>1, <3>2, <3>3
  <2>3. CASE k = l /\ ~BackToWaiting(l)
    <3>1. iter'[l].todo \subseteq iter[l].todo
      BY <1>5, <2>3 DEF SendReturns, RestOf, TypeOK
    <3> QED
      BY <1>5, <2>3, <3>1 DEF SendReturns
  <2> QED
    BY <2>1, <2>2, <2>3
<1>6. CASE Publish
  <2>1. published + 1 \in Messages /\ published' = published + 1 /\ UNCHANGED <<listener, iter>>
    BY <1>6, <1>0, LiveStreamAssumption DEF Publish, Messages, LiveStreamAssumption
  <2>2. CASE listener[k] \in {"waiting", "sending"}
    <3>1. inbox'[k] = Append(inbox[k], published + 1)
      BY <1>6, <2>2 DEF Publish, TypeOK
    <3>2. Has(inbox'[k], m) => Has(inbox[k], m) \/ m = published + 1
      BY <1>0, <2>1, <3>1, AppendToInbox
    <3>3. listener[k] = "sending" => Head(inbox'[k]) = Head(inbox[k])
      BY <1>0, <2>1, <3>1, AppendToInbox DEF InboxInv
    <3> QED
      BY <1>0, <2>1, <2>2, <3>2, <3>3
  <2>3. CASE listener[k] \notin {"waiting", "sending"}
    <3>1. inbox'[k] = inbox[k]
      BY <1>6, <2>3 DEF Publish, TypeOK
    <3> QED
      BY <1>0, <2>1, <2>3, <3>1
  <2> QED
    BY <2>2, <2>3
<1>7. CASE UNCHANGED vars
  BY <1>7 DEF vars, conn, history
<1> QED
  BY <1>1, <1>2, <1>3, <1>4, <1>5, <1>6, <1>7 DEF Next

(* The send that returned is the last of this message to this connection. *)
LEMMA SendSpends ==
  ASSUME TypeOK, InboxInv, NEW l \in Clients, NEW c \in Clients, NEW ok \in BOOLEAN,
         SendReturns(l, c, ok), NEW m \in Messages, m = Head(inbox[l])
  PROVE  Spent(l, c, m)'
<1>1. inbox[l] # <<>> /\ listener[l] = "sending" /\ published' = published
  BY DEF SendReturns, InboxInv
<1>2. CASE BackToWaiting(l)
  <2>1. ~Has(inbox'[l], m) /\ m <= published
    BY <1>1, <1>2, MessageDropped DEF BackToWaiting
  <2>2. listener'[l] = "waiting"
    BY <1>2 DEF BackToWaiting, TypeOK
  <2> QED
    BY <1>1, <2>1, <2>2 DEF Spent
<1>3. CASE ~BackToWaiting(l)
  <2>1. c \notin iter'[l].todo
    BY <1>3 DEF SendReturns, RestOf, TypeOK
  <2>2. UNCHANGED <<listener, inbox>>
    BY <1>3 DEF SendReturns
  <2> QED
    BY <1>1, <2>1, <2>2 DEF Spent
<1> QED
  BY <1>2, <1>3

(* The bound grows with what a rebuilt set takes away from it. *)
LEMMA RebuildPays ==
  ASSUME TypeOK, InboxInv, FreshInv, [Next]_vars, NEW c \in Clients, NEW m \in Messages,
         rebuilt'[m] # rebuilt[m], handler'[c] # "open" \/ handler[c] # "new"
  PROVE  /\ copies' = copies
         /\ Cardinality(SpentOn(c, m)) + rebuilt[m] <= Cardinality(SpentOn(c, m)') + rebuilt'[m]
<1>1. PICK d \in Clients : Connect(d)
  BY DEF Next, HandlerExits, Subscribe, RedisFails, TakeMessage, SendReturns, Publish,
         vars, history
<1>2. /\ copies' = copies
      /\ rebuilt'[m] = rebuilt[m] + Cardinality(VisitorsOf(m))
      /\ rebuilt[m] \in Nat
  BY <1>1, RebuiltCounted DEF Connect, TypeOK
<1>3. SpentOn(c, m) \subseteq SpentOn(c, m)' \cup VisitorsOf(m)
  BY SpentStays DEF SpentOn, VisitorsOf
<1>4. /\ SpentOn(c, m) \in SUBSET Clients /\ SpentOn(c, m)' \in SUBSET Clients
      /\ VisitorsOf(m) \in SUBSET Clients
  BY DEF SpentOn, VisitorsOf
<1>5. ASSUME NEW S \in SUBSET Clients, NEW T \in SUBSET Clients, NEW U \in SUBSET Clients,
             S \subseteq T \cup U
      PROVE  /\ Cardinality(S) <= Cardinality(T) + Cardinality(U)
             /\ Cardinality(S) \in Nat /\ Cardinality(T) \in Nat /\ Cardinality(U) \in Nat
  <2>1. IsFiniteSet(T) /\ IsFiniteSet(U)
    BY FS_Subset, LiveStreamAssumption DEF LiveStreamAssumption
  <2>2. Cardinality(T \cup U) = Cardinality(T) + Cardinality(U) - Cardinality(T \cap U)
    BY <2>1, FS_Union
  <2>3. T \cup U \in SUBSET Clients /\ T \cap U \in SUBSET Clients
    OBVIOUS
  <2>4. /\ Cardinality(T \cap U) \in Nat /\ Cardinality(T) \in Nat /\ Cardinality(U) \in Nat
        /\ Cardinality(S) \in Nat /\ Cardinality(S) <= Cardinality(T \cup U)
    BY <1>5, <2>3, ListenersCounted
  <2> QED
    BY <2>2, <2>4
<1>6. /\ Cardinality(SpentOn(c, m)) <= Cardinality(SpentOn(c, m)') + Cardinality(VisitorsOf(m))
      /\ Cardinality(SpentOn(c, m)) \in Nat /\ Cardinality(SpentOn(c, m)') \in Nat
      /\ Cardinality(VisitorsOf(m)) \in Nat
  BY <1>3, <1>4, <1>5
<1> QED
  BY <1>2, <1>6

LEMMA StepKeepsCopies ==
  ASSUME TypeOK, InboxInv, FreshInv, CopiesInv, [Next]_vars
  PROVE  CopiesInv'
<1> SUFFICES ASSUME NEW c \in Clients, NEW m \in Messages
             PROVE  copies'[c][m] <= Cardinality(SpentOn(c, m)') + rebuilt'[m]
  BY DEF CopiesInv
<1> DEFINE before == SpentOn(c, m)
           after == SpentOn(c, m)'
<1>1. before \in SUBSET Clients /\ after \in SUBSET Clients
  BY DEF SpentOn
<1>2. /\ copies[c][m] \in Nat /\ rebuilt[m] \in Nat
      /\ copies[c][m] <= Cardinality(before) + rebuilt[m]
  BY DEF CopiesInv, TypeOK
<1>3. Cardinality(before) \in Nat /\ Cardinality(after) \in Nat /\ rebuilt'[m] \in Nat
  BY <1>1, ListenersCounted, StepKeepsTypes DEF TypeOK
<1>4. CASE handler[c] = "new" /\ handler'[c] = "open"
  <2>1. copies[c][m] = 0 /\ copies'[c][m] = copies[c][m]
    BY <1>4, CopiesChange DEF FreshInv
  <2> HIDE DEF before, after
  <2> QED
    BY <1>3, <2>1 DEF after
<1>5. CASE ~(handler[c] = "new" /\ handler'[c] = "open") /\ rebuilt'[m] # rebuilt[m]
  <2>1. copies' = copies /\ Cardinality(before) + rebuilt[m] <= Cardinality(after) + rebuilt'[m]
    BY <1>5, RebuildPays
  <2> HIDE DEF before, after
  <2>2. copies'[c][m] <= Cardinality(after) + rebuilt'[m]
    BY <1>2, <1>3, <2>1
  <2> QED
    BY <2>2 DEF after
<1>6. CASE ~(handler[c] = "new" /\ handler'[c] = "open") /\ rebuilt'[m] = rebuilt[m]
  <2>1. before \subseteq after
    BY <1>6, SpentStays DEF SpentOn
  <2>2. CASE copies'[c][m] = copies[c][m]
    <3>1. Cardinality(before) <= Cardinality(after)
      BY <1>1, <2>1, ListenersCounted
    <3> HIDE DEF before, after
    <3>2. copies'[c][m] <= Cardinality(after) + rebuilt'[m]
      BY <1>2, <1>3, <1>6, <2>2, <3>1
    <3> QED
      BY <3>2 DEF after
  <2>3. CASE copies'[c][m] # copies[c][m]
    <3>1. copies'[c][m] = copies[c][m] + 1
      BY <2>3, CopiesChange
    <3>2. PICK l \in Clients :
            SendReturns(l, c, TRUE) /\ m = Head(inbox[l]) /\ ~Spent(l, c, m)
      BY <2>3, CopiesChange
    <3>3. l \in after \ before
      BY <3>2, SendSpends DEF SpentOn
    <3>4. Cardinality(before) + 1 <= Cardinality(after)
      BY <1>1, <2>1, <3>3, ListenersCounted
    <3> HIDE DEF before, after
    <3>5. copies'[c][m] <= Cardinality(after) + rebuilt'[m]
      BY <1>2, <1>3, <1>6, <3>1, <3>4
    <3> QED
      BY <3>5 DEF after
  <2> QED
    BY <2>2, <2>3
<1> QED
  BY <1>4, <1>5, <1>6

------------------------------------------------------------------------------
(* Connections one at a time *)

LEMMA OverlapStays ==
  ASSUME TypeOK, [Next]_vars, overlapped
  PROVE  overlapped'
BY DEF Next, Connect, HandlerExits, Subscribe, RedisFails, TakeMessage, SendReturns,
   Publish, vars, history, TypeOK

(* A connection that registers alone starts a listener that sent nothing. *)
LEMMA ConnectAlone ==
  ASSUME TypeOK, InboxInv, FreshInv, AloneInv, [Next]_vars, ~overlapped',
         NEW c \in Clients, Connect(c)
  PROVE  AloneInv'
<1>1. ~overlapped /\ conns = {} /\ conns' = {c}
  BY DEF Connect, TypeOK
<1>2. Live = {}
  BY <1>1 DEF AloneInv
<1>3. /\ Live' = {c} /\ c \in owns' /\ listener'[c] = "starting"
  BY <1>1, <1>2 DEF Connect, Live, TypeOK
<1>4. handler[c] = "new" /\ copies' = copies
  BY DEF Connect
<1>5. \A m \in Messages : copies'[c][m] = 0
  BY <1>4 DEF FreshInv
<1>6. \A d \in Clients : handler'[d] = "open" => d = c
  BY <1>1 DEF Connect, AloneInv, TypeOK
<1>7. \A d \in Clients, m \in Messages : copies'[d][m] <= 1
  BY <1>1, <1>4 DEF AloneInv
<1> QED
  BY <1>1, <1>3, <1>5, <1>6, <1>7 DEF AloneInv

(* The connection that leaves is the only one, and stops its listener. *)
LEMMA LeaveAlone ==
  ASSUME TypeOK, AloneInv, ~overlapped', NEW c \in Clients, HandlerExits(c)
  PROVE  AloneInv'
<1>1. ~overlapped /\ c \in conns /\ hasKey /\ copies' = copies
  BY DEF HandlerExits, AloneInv, TypeOK, history
<1>2. Live' = {}
  <2> SUFFICES ASSUME NEW l \in Live' PROVE FALSE
    OBVIOUS
  <2>1. l \in Clients /\ listener'[l] \in {"starting", "waiting", "sending"}
    BY DEF Live
  <2>2. l \in Live
    BY <1>1, <2>1 DEF HandlerExits, Leave, Live, TypeOK
  <2>3. conns = {l} /\ l \in owns /\ l = c
    BY <1>1, <2>2 DEF AloneInv
  <2>4. listener'[l] = "ended"
    BY <1>1, <2>1, <2>2, <2>3 DEF HandlerExits, Leave, TypeOK
  <2> QED
    BY <2>1, <2>4
<1>3. \A d \in Clients : handler'[d] = "open" => d \in conns'
  BY <1>1 DEF HandlerExits, Leave, AloneInv, TypeOK
<1> QED
  BY <1>1, <1>2, <1>3 DEF AloneInv

(* Copies stay within one if they are only made of what is not done with.  *)
LEMMA CopiesAlone ==
  ASSUME TypeOK, InboxInv, FreshInv, AloneInv, [Next]_vars, ~overlapped',
         NEW c \in Clients, NEW m \in Messages
  PROVE  /\ copies'[c][m] <= 1
         /\ \A l \in Live : /\ handler[l] # "new"
                            /\ c = l /\ ~Spent(l, l, m)' => copies'[l][m] = 0
<1>1. ~overlapped
  BY OverlapStays
<1>2. copies[c][m] \in Nat /\ copies[c][m] <= 1
  BY <1>1 DEF AloneInv, TypeOK
<1>3. \A l \in Live : l \in Clients /\ handler[l] # "new"
  BY <1>1 DEF AloneInv, TypeOK, Live
<1>4. CASE copies'[c][m] = copies[c][m]
  <2>1. ASSUME NEW l \in Live, c = l, ~Spent(l, l, m)'
        PROVE  copies'[l][m] = 0
    <3>1. rebuilt' = rebuilt
      <4>1. ASSUME NEW d \in Clients, Connect(d)
            PROVE  FALSE
        BY <1>1, <4>1 DEF Connect, AloneInv
      <4> QED
        BY <4>1 DEF Next, HandlerExits, Subscribe, RedisFails, TakeMessage, SendReturns,
                    Publish, vars, history
    <3>2. ~Spent(l, l, m)
      BY <1>3, <2>1, <3>1, SpentStays
    <3> QED
      BY <1>1, <1>4, <2>1, <3>2 DEF AloneInv
  <2> QED
    BY <1>2, <1>3, <1>4, <2>1
<1>5. CASE copies'[c][m] # copies[c][m]
  <2>1. PICK k \in Clients : SendReturns(k, c, TRUE) /\ m = Head(inbox[k]) /\ ~Spent(k, c, m)
    BY <1>5, CopiesChange
  <2>2. k \in Live /\ c \in iter[k].todo
    BY <2>1 DEF SendReturns, Live
  <2>3. k = c
    BY <1>1, <2>1, <2>2 DEF SendReturns, AloneInv
  <2>4. copies[c][m] = 0 /\ copies'[c][m] = 1
    <3>1. copies[c][m] = 0
      BY <1>1, <2>1, <2>2, <2>3 DEF AloneInv
    <3>2. copies'[c][m] = copies[c][m] + 1
      BY <1>5, CopiesChange
    <3> QED
      BY <3>1, <3>2
  <2>5. Spent(c, c, m)'
    BY <2>1, <2>3, SendSpends
  <2> QED
    BY <1>3, <2>4, <2>5
<1> QED
  BY <1>4, <1>5

LEMMA StepKeepsAlone ==
  ASSUME TypeOK, InboxInv, FreshInv, AloneInv, [Next]_vars
  PROVE  AloneInv'
<1> SUFFICES ASSUME ~overlapped' PROVE AloneInv'
  BY DEF AloneInv
<1>1. ~overlapped
  BY OverlapStays
<1>2. \A c \in Clients, m \in Messages : copies'[c][m] <= 1
  BY CopiesAlone
<1>3. \A l \in Live, m \in Messages : ~Spent(l, l, m)' => copies'[l][m] = 0
  BY CopiesAlone DEF Live
(* What the steps of a listener have to leave as it was. *)
<1>4. ASSUME UNCHANGED <<conns, handler, owns>>, Live' \subseteq Live,
             \A l \in Live' : listener'[l] = "sending" =>
               iter'[l].todo \subseteq {l} /\ iter'[l].failed = {}
      PROVE  AloneInv'
  <2>1. \A c \in Clients : handler'[c] = "open" => c \in conns'
    BY <1>1, <1>4 DEF AloneInv
  <2>2. \A l \in Live' : conns' = {l} /\ l \in owns'
    BY <1>1, <1>4 DEF AloneInv
  <2>3. \A l \in Live', m \in Messages : ~Spent(l, l, m)' => copies'[l][m] = 0
    BY <1>3, <1>4
  <2> QED
    BY <1>2, <1>4, <2>1, <2>2, <2>3 DEF AloneInv
<1>5. ASSUME NEW l \in Clients, Subscribe(l) \/ RedisFails(l)
      PROVE  AloneInv'
  <2>1. /\ UNCHANGED <<conns, handler, owns, iter>> /\ Live' \subseteq Live
        /\ \A k \in Clients : listener'[k] = "sending" => listener[k] = "sending" /\ k \in Live
    BY <1>5 DEF Subscribe, RedisFails, conn, history, Live, TypeOK
  <2>2. \A k \in Live' : k \in Clients
    BY DEF Live
  <2> QED
    BY <1>1, <1>4, <2>1, <2>2 DEF AloneInv
<1>6. ASSUME NEW l \in Clients, TakeMessage(l)
      PROVE  AloneInv'
  <2>1. /\ UNCHANGED <<conns, handler, owns>> /\ Live' \subseteq Live /\ l \in Live
    BY <1>6 DEF TakeMessage, conn, history, Live, TypeOK
  <2>2. conns = {l}
    BY <1>1, <2>1 DEF AloneInv
  <2>3. /\ iter'[l].todo = {l} /\ iter'[l].failed = {}
        /\ \A k \in Clients : k # l => iter'[k] = iter[k] /\ listener'[k] = listener[k]
    BY <1>6, <2>2 DEF TakeMessage, TypeOK
  <2>4. \A k \in Live' : k = l
    BY <1>1, <2>1, <2>2 DEF AloneInv
  <2> QED
    BY <1>4, <2>1, <2>3, <2>4
<1>7. ASSUME NEW l \in Clients, NEW c \in Clients, NEW ok \in BOOLEAN, SendReturns(l, c, ok)
      PROVE  AloneInv'
  <2>1. /\ ok = TRUE /\ listener[l] = "sending" /\ l \in Live
        /\ UNCHANGED <<handler, owns>>
    BY <1>7 DEF SendReturns, Live
  <2>2. conns = {l} /\ iter[l].todo \subseteq {l} /\ iter[l].failed = {}
    BY <1>1, <2>1 DEF AloneInv
  <2>3. conns' = conns
    BY <1>7, <2>1, <2>2 DEF SendReturns
  <2>4. Live' \subseteq Live
    <3>1. CASE BackToWaiting(l)
      BY <2>1, <3>1 DEF BackToWaiting, Live, TypeOK
    <3>2. CASE ~BackToWaiting(l)
      BY <1>7, <3>2 DEF SendReturns, Live
    <3> QED
      BY <3>1, <3>2
  <2>5. \A k \in Live' : k = l
    BY <1>1, <2>1, <2>2, <2>4 DEF AloneInv
  <2>6. listener'[l] = "sending" => iter'[l].todo \subseteq {l} /\ iter'[l].failed = {}
    <3>1. CASE BackToWaiting(l)
      BY <3>1 DEF BackToWaiting, TypeOK
    <3>2. CASE ~BackToWaiting(l)
      BY <1>7, <2>1, <2>2, <3>2 DEF SendReturns, RestOf, TypeOK
    <3> QED
      BY <3>1, <3>2
  <2> QED
    BY <1>4, <2>1, <2>3, <2>4, <2>5, <2>6
<1>8. CASE Publish \/ UNCHANGED vars
  <2>1. /\ UNCHANGED <<conns, handler, owns, iter, listener>> /\ Live' = Live
    BY <1>8 DEF Publish, vars, conn, history, Live
  <2> QED
    BY <1>1, <1>4, <2>1 DEF AloneInv
<1> QED
  BY <1>5, <1>6, <1>7, <1>8, ConnectAlone, LeaveAlone DEF Next

------------------------------------------------------------------------------
(* Theorems *)

LEMMA StreamInvariant == Spec => []StreamInv
<1>1. StreamInv /\ [Next]_vars => StreamInv'
  BY StepKeepsTypes, StepKeepsFresh, StepKeepsMembersServed, StepKeepsCopies, StepKeepsAlone
  DEF StreamInv
<1> QED
  BY InitInv, <1>1, PTL DEF Spec

(* Every variable keeps its type: whatever a broadcast cleans up after     *)
(* failed sends, the connections registered have a key and a handler.      *)
THEOREM TypeCorrect == Spec => []TypeOK
<1>1. StreamInv => TypeOK
  BY DEF StreamInv
<1> QED
  BY StreamInvariant, <1>1, PTL

(* As long as Redis works the clients registered have a listener: a        *)
(* handler that leaves never cancels the one that others depend on.        *)
THEOREM AlwaysServed == Spec => []MembersServed
<1>1. StreamInv => MembersServed
  BY DEF StreamInv
<1> QED
  BY StreamInvariant, <1>1, PTL

(* Clients that come one at a time leave nothing behind: at most one       *)
(* listener, none without a client, and no message sent twice.             *)
THEOREM SequentialAlwaysClean == Spec => []SequentialClientsClean
<1>1. StreamInv => SequentialClientsClean
  <2> SUFFICES ASSUME StreamInv, ~overlapped
               PROVE  /\ Cardinality(Live) <= 1
                      /\ conns = {} => Live = {}
                      /\ \A c \in Clients, m \in Messages : copies[c][m] <= 1
    BY DEF SequentialClientsClean
  <2>1. /\ \A l \in Live : conns = {l}
        /\ \A c \in Clients, m \in Messages : copies[c][m] <= 1
    BY DEF StreamInv, AloneInv
  <2>2. Cardinality(Live) <= 1
    <3>1. CASE Live = {}
      BY <3>1, FS_EmptySet
    <3>2. CASE Live # {}
      <4>1. PICK l : Live = {l}
        BY <2>1, <3>2
      <4> QED
        BY <4>1, FS_Singleton
    <3> QED
      BY <3>1, <3>2
  <2> QED
    BY <2>1, <2>2
<1> QED
  BY StreamInvariant, <1>1, PTL

(* Each listener ever started accounts for one copy of a message at a      *)
(* connection, and each time a broadcast of it had its set rebuilt for one *)
(* more: nothing else that happens between two sends makes a copy.         *)
THEOREM AlwaysOncePerListener == Spec => []AtMostOncePerListener
<1>1. StreamInv => AtMostOncePerListener
  <2> SUFFICES ASSUME StreamInv, NEW c \in Clients, NEW m \in Messages
               PROVE  copies[c][m] <= Cardinality({l \in Clients : listener[l] # "none"}) + rebuilt[m]
    BY DEF AtMostOncePerListener
  <2> DEFINE started == {l \in Clients : listener[l] # "none"}
  <2>1. /\ SpentOn(c, m) \in SUBSET Clients /\ started \in SUBSET Clients
        /\ SpentOn(c, m) \subseteq started
    BY DEF SpentOn, Spent
  <2>2. /\ Cardinality(SpentOn(c, m)) \in Nat /\ Cardinality(started) \in Nat
        /\ Cardinality(SpentOn(c, m)) <= Cardinality(started)
    BY <2>1, ListenersCounted
  <2>3. /\ copies[c][m] \in Nat /\ rebuilt[m] \in Nat
        /\ copies[c][m] <= Cardinality(SpentOn(c, m)) + rebuilt[m]
    BY DEF StreamInv, CopiesInv, TypeOK
  <2> HIDE DEF started
  <2>4. copies[c][m] <= Cardinality(started) + rebuilt[m]
    BY <2>2, <2>3
  <2> QED
    BY <2>4 DEF started
<1> QED
  BY StreamInvariant, <1>1, PTL

------------------------------------------------------------------------------
(*                            The browser's end                            *)

------------------------------------------------------------------------------
(* The inductive invariant *)

Calls == [kind : {"none", "login", "login_me", "me", "page"}, token : Users \cup {None}]
Sockets == [camera : Cameras \cup {None},
            state : {"none", "connecting", "open", "closing", "closed"}, listens : BOOLEAN]
Statuses3 == {"disconnected", "connecting", "connected"}

(* A socket that was replaced has lost its listeners: that is all that     *)
(* keeps its late events from the page.                                    *)
ReplacedAreDeaf == \A s \in replaced : ~ s.listens

(* The page has a socket only for a camera. *)
SocketHasCamera == socket # NoSocket => camera # None

(* The page and its sockets, and the whole tab. *)
LiveOK ==
  /\ camera \in Cameras \cup {None} /\ wsStatus \in Statuses3
  /\ socket \in Sockets /\ replaced \subseteq Sockets
  /\ StatusFollowsSocket /\ SocketHasCamera /\ ReplacedAreDeaf

TabInv ==
  /\ access_token \in Users \cup {None} /\ user \in Users \cup {None}
  /\ isAuthenticated \in BOOLEAN /\ leaving \in BOOLEAN
  /\ calls \in [Slots -> Calls]
  /\ LiveOK
  /\ detections \in Seq(Cameras) /\ Len(detections) <= MaxShown

------------------------------------------------------------------------------
(* Lemmas about the list of detections *)

LEMMA NewestIsCapped ==
  ASSUME NEW list \in Seq(Cameras), NEW cam \in Cameras
  PROVE  /\ Newest(<<cam>> \o list) \in Seq(Cameras)
         /\ Len(Newest(<<cam>> \o list)) <= MaxShown
         /\ Head(Newest(<<cam>> \o list)) = cam
<1> DEFINE all == <<cam>> \o list
           n == IF Len(all) <= MaxShown THEN Len(all) ELSE MaxShown
<1>1. <<cam>> \in Seq(Cameras) /\ Len(<<cam>>) = 1 /\ <<cam>>[1] = cam
  OBVIOUS
<1>2. Len(list) \in Nat
  BY LenProperties
<1>3. all \in Seq(Cameras) /\ Len(all) = 1 + Len(list) /\ all[1] = cam
  BY <1>1, <1>2, ConcatProperties
<1>4. n \in Nat /\ n >= 1 /\ n <= MaxShown /\ n <= Len(all)
  BY <1>2, <1>3, BrowserSessionAssumption DEF BrowserSessionAssumption
<1>5. \A i \in 1 .. n : all[i] \in Cameras
  BY <1>3, <1>4, ElementOfSeq
<1>6. Newest(all) = SubSeq(all, 1, n)
  BY DEF Newest
<1> HIDE DEF all, n
<1>7. /\ SubSeq(all, 1, n) \in Seq(Cameras) /\ Len(SubSeq(all, 1, n)) = n
      /\ SubSeq(all, 1, n)[1] = all[1]
  <2>1. 1 \in 1 .. n - 1 + 1
    BY <1>4
  <2> QED
    BY <1>4, <1>5, <2>1, SubSeqProperties
<1>8. SubSeq(all, 1, n) # <<>>
  BY <1>4, <1>7, EmptySeq
<1>9. Head(SubSeq(all, 1, n)) = cam
  BY <1>3, <1>7, <1>8, HeadTailProperties
<1>10. /\ Newest(all) \in Seq(Cameras) /\ Len(Newest(all)) <= MaxShown
       /\ Head(Newest(all)) = cam
  BY <1>4, <1>6, <1>7, <1>9
<1> QED
  BY <1>10 DEF all

(* A message that is handled is of the page's own socket, and so of the    *)
(* selected camera: a socket that was replaced has no listeners.           *)
LEMMA OwnMessage ==
  ASSUME TabInv, Message
  PROVE  /\ detections' \in Seq(Cameras) /\ Len(detections') <= MaxShown
         /\ Head(detections') = camera
<1>1. PICK s \in {socket} \cup replaced :
        s.state = "open" /\ s.listens /\ addDetection(s.camera)
  BY DEF Message
<1>2. s = socket
  BY <1>1 DEF TabInv, LiveOK, ReplacedAreDeaf
<1>3. socket # NoSocket /\ detections' = Newest(<<socket.camera>> \o detections)
  BY <1>1, <1>2 DEF NoSocket, addDetection
<1>4. socket.camera = camera /\ camera \in Cameras
  BY <1>3 DEF TabInv, LiveOK, StatusFollowsSocket, SocketHasCamera
<1> QED
  BY <1>3, <1>4, NewestIsCapped DEF TabInv

------------------------------------------------------------------------------
(* The effect of LivePage and what unmounting leaves *)

LEMMA NoSocketIsSocket == NoSocket \in Sockets
BY DEF NoSocket, Sockets

LEMMA ClosedIsDeaf ==
  ASSUME socket \in Sockets, replaced \subseteq Sockets, ReplacedAreDeaf
  PROVE  Closed \subseteq Sockets /\ \A s \in Closed : ~ s.listens
<1>1. CleanedUp(socket) \in Sockets /\ ~ CleanedUp(socket).listens
  BY DEF CleanedUp, Sockets
<1> QED
  BY <1>1 DEF Closed, ReplacedAreDeaf

LEMMA EffectIsOK ==
  ASSUME LiveOK, NEW cam \in Cameras \cup {None}, NEW usr, NEW token,
         Effect(cam, usr, token), camera' = cam, user' = usr
  PROVE  LiveOK'
<1>1. replaced' \subseteq Sockets /\ ReplacedAreDeaf'
  BY ClosedIsDeaf DEF LiveOK, Effect, ReplacedAreDeaf
<1>2. CASE socket' = NoSocket /\ UNCHANGED wsStatus
  BY <1>1, <1>2, NoSocketIsSocket DEF LiveOK, StatusFollowsSocket, SocketHasCamera
<1>3. CASE ~(socket' = NoSocket /\ UNCHANGED wsStatus)
  <2>1. /\ cam # None /\ usr # None /\ wsStatus' = "connecting"
        /\ socket' = [camera |-> cam, state |-> "connecting", listens |-> TRUE]
    BY <1>3 DEF Effect
  <2>2. /\ socket' \in Sockets /\ socket'.camera = cam /\ socket'.state = "connecting"
    BY <2>1 DEF Sockets
  <2> QED
    BY <1>1, <2>1, <2>2 DEF LiveOK, StatusFollowsSocket, SocketHasCamera, Statuses3
<1> QED
  BY <1>2, <1>3

LEMMA UnmountIsOK ==
  ASSUME LiveOK, Unmount
  PROVE  LiveOK'
<1>1. replaced' \subseteq Sockets /\ ReplacedAreDeaf'
  BY ClosedIsDeaf DEF LiveOK, Unmount, ReplacedAreDeaf
<1> QED
  BY <1>1, NoSocketIsSocket
  DEF LiveOK, Unmount, StatusFollowsSocket, SocketHasCamera, Statuses3

LEMMA SetsIsOK ==
  ASSUME LiveOK, user \in Users \cup {None}, NEW usr \in Users \cup {None},
         NEW auth \in BOOLEAN, Sets(usr, auth)
  PROVE  LiveOK' /\ user' \in Users \cup {None} /\ isAuthenticated' \in BOOLEAN
<1>1. CASE ~ auth
  BY <1>1, UnmountIsOK DEF Sets
<1>2. CASE auth /\ usr = user
  BY <1>2 DEF Sets, live, LiveOK, StatusFollowsSocket, SocketHasCamera, ReplacedAreDeaf
<1>3. CASE auth /\ usr # user
  BY <1>3, EffectIsOK DEF Sets, LiveOK
<1> QED
  BY <1>1, <1>2, <1>3 DEF Sets

------------------------------------------------------------------------------
(* The invariant *)

LEMMA NothingListed == <<>> \in Seq(Cameras) /\ Len(<<>>) <= MaxShown
BY EmptySeq, BrowserSessionAssumption DEF BrowserSessionAssumption

LEMMA NoCallIsCall == NoCall \in Calls
BY DEF NoCall, Calls

LEMMA InitTabInv == TabInit => TabInv
<1> SUFFICES ASSUME TabInit PROVE TabInv
  OBVIOUS
<1>1. calls \in [Slots -> Calls]
  BY NoCallIsCall DEF TabInit
<1>2. LiveOK
  BY NoSocketIsSocket
  DEF TabInit, LiveOK, StatusFollowsSocket, SocketHasCamera, ReplacedAreDeaf, Statuses3
<1> QED
  BY <1>1, <1>2, NothingListed DEF TabInit, TabInv

(* What leaves the page as it is, leaves it right. *)
LEMMA LiveUnchanged ==
  ASSUME LiveOK, UNCHANGED <<live, user>>
  PROVE  LiveOK'
BY DEF LiveOK, live, StatusFollowsSocket, SocketHasCamera, ReplacedAreDeaf

(* The requests: what is sent, and what an answer does to the session. *)
LEMMA InterceptIsOK ==
  ASSUME access_token \in Users \cup {None}, leaving \in BOOLEAN,
         NEW status, Intercept(status)
  PROVE  access_token' \in Users \cup {None} /\ leaving' \in BOOLEAN
BY DEF Intercept

LEMMA RequestSteps ==
  ASSUME TabInv, NEW s \in Slots,
         LoginBegins(s) \/ FetchUserBegins(s) \/ Request(s) \/ Answered(s)
  PROVE  TabInv' /\ UNCHANGED detections
<1> USE DEF TabInv
<1>1. CASE LoginBegins(s) \/ FetchUserBegins(s) \/ Request(s)
  <2>1. /\ UNCHANGED <<session, live, detections, outside>>
        /\ calls' \in [Slots -> Calls]
    BY <1>1 DEF LoginBegins, FetchUserBegins, Request, Send, Calls
  <2> QED
    BY <2>1, LiveUnchanged DEF session
<1>2. ASSUME NEW status \in {200, 401, 500}, LoginAnswered(s, status)
      PROVE  TabInv' /\ UNCHANGED detections
  <2>1. /\ calls' \in [Slots -> Calls]
        /\ access_token' \in Users \cup {None} /\ leaving' \in BOOLEAN
    <3>1. CASE status = 200
      <4>1. [calls[s] EXCEPT !.kind = "login_me"] \in Calls /\ calls[s].token \in Users \cup {None}
        BY DEF Calls
      <4> QED
        BY <1>2, <3>1, <4>1 DEF LoginAnswered
    <3>2. CASE status # 200
      BY <1>2, <3>2, NoCallIsCall, InterceptIsOK DEF LoginAnswered, Done
    <3> QED
      BY <3>1, <3>2
  <2>2. UNCHANGED <<user, isAuthenticated, live, detections>>
    BY <1>2 DEF LoginAnswered
  <2> QED
    BY <2>1, <2>2, LiveUnchanged
<1>3. ASSUME NEW status \in {200, 401, 500}, Done(s), Intercept(status),
             UNCHANGED detections,
             \/ UNCHANGED <<user, isAuthenticated, live>>
             \/ Sets(calls[s].token, TRUE)
             \/ Sets(user, FALSE)
      PROVE  TabInv' /\ UNCHANGED detections
  <2>1. /\ calls' \in [Slots -> Calls] /\ calls[s].token \in Users \cup {None}
        /\ access_token' \in Users \cup {None} /\ leaving' \in BOOLEAN
    <3>1. calls[s] \in Calls
      OBVIOUS
    <3>2. calls[s].token \in Users \cup {None}
      BY <3>1 DEF Calls
    <3>3. calls' \in [Slots -> Calls]
      BY <1>3, NoCallIsCall DEF Done
    <3>4. access_token' \in Users \cup {None} /\ leaving' \in BOOLEAN
      BY <1>3, InterceptIsOK
    <3> QED
      BY <3>2, <3>3, <3>4
  <2>2. LiveOK' /\ user' \in Users \cup {None} /\ isAuthenticated' \in BOOLEAN
    <3>1. CASE UNCHANGED <<user, isAuthenticated, live>>
      <4>1. LiveOK' /\ user' = user
        BY <3>1, LiveUnchanged
      <4>2. isAuthenticated' \in BOOLEAN
        BY <3>1
      <4> QED
        BY <4>1, <4>2
    <3>2. CASE Sets(calls[s].token, TRUE)
      <4>1. PICK usr \in Users \cup {None} : usr = calls[s].token
        BY <2>1
      <4>2. Sets(usr, TRUE)
        BY <3>2, <4>1 DEF Sets, Effect
      <4> QED
        BY <4>2, SetsIsOK
    <3>3. CASE Sets(user, FALSE)
      BY <3>3, SetsIsOK
    <3> QED
      BY <1>3, <3>1, <3>2, <3>3
  <2> QED
    BY <1>3, <2>1, <2>2
<1>4. \A t : Statuses(t) \subseteq {200, 401, 500}
  BY DEF Statuses
<1>5. CASE Answered(s)
  <2>1. PICK status \in {200, 401, 500} :
          \/ LoginAnswered(s, status) \/ LoginUserAnswered(s, status)
          \/ FetchUserAnswered(s, status) \/ RequestAnswered(s, status)
    BY <1>4, <1>5 DEF Answered
  <2>2. CASE LoginAnswered(s, status)
    BY <1>2, <2>2
  <2>3. CASE LoginUserAnswered(s, status)
    <3>1. Done(s) /\ Intercept(status) /\ UNCHANGED detections
      BY <2>3 DEF LoginUserAnswered
    <3>2. UNCHANGED <<user, isAuthenticated, live>> \/ Sets(calls[s].token, TRUE)
      BY <2>3 DEF LoginUserAnswered
    <3> QED
      BY <1>3, <3>1, <3>2
  <2>4. CASE FetchUserAnswered(s, status)
    <3>1. Done(s) /\ Intercept(status) /\ UNCHANGED detections
      BY <2>4 DEF FetchUserAnswered
    <3>2. Sets(calls[s].token, TRUE) \/ Sets(user, FALSE)
      BY <2>4 DEF FetchUserAnswered, AfterFailure
    <3> QED
      BY <1>3, <3>1, <3>2
  <2>5. CASE RequestAnswered(s, status)
    BY <1>3, <2>5 DEF RequestAnswered
  <2> QED
    BY <2>1, <2>2, <2>3, <2>4, <2>5
<1> QED
  BY <1>1, <1>5

(* The page and its sockets. *)
LEMMA SocketSteps ==
  ASSUME TabInv, Socket
  PROVE  /\ TabInv'
         /\ detections' # detections => Head(detections') = camera
<1> USE DEF TabInv
<1>1. CASE Open
  <2>1. /\ socket' \in Sockets /\ socket'.camera = socket.camera /\ socket'.state = "open"
        /\ socket # NoSocket
    BY <1>1 DEF Open, LiveOK, Sockets, NoSocket
  <2>2. LiveOK'
    BY <1>1, <2>1
    DEF Open, LiveOK, StatusFollowsSocket, SocketHasCamera, ReplacedAreDeaf, Statuses3, session
  <2> QED
    BY <1>1, <2>2 DEF Open, session
<1>2. CASE Close
  <2>1. /\ socket' \in Sockets /\ socket'.camera = socket.camera /\ socket'.state = "closed"
        /\ socket # NoSocket
    BY <1>2 DEF Close, LiveOK, Sockets, NoSocket
  <2>2. LiveOK'
    BY <1>2, <2>1
    DEF Close, LiveOK, StatusFollowsSocket, SocketHasCamera, ReplacedAreDeaf, Statuses3, session
  <2> QED
    BY <1>2, <2>2 DEF Close, session
<1>3. CASE Message
  <2>1. LiveOK' /\ UNCHANGED <<session, calls>>
    BY <1>3, LiveUnchanged DEF Message, session
  <2> QED
    BY <1>3, <2>1, OwnMessage DEF session
<1>4. ASSUME NEW s \in replaced, LateClose(s)
      PROVE  TabInv' /\ UNCHANGED detections
  <2>1. /\ UNCHANGED <<session, calls, camera, socket, wsStatus, detections>>
        /\ replaced' \subseteq replaced
    BY <1>4 DEF LateClose, LiveOK, ReplacedAreDeaf
  <2>2. LiveOK'
    BY <2>1 DEF LiveOK, StatusFollowsSocket, SocketHasCamera, ReplacedAreDeaf, session
  <2> QED
    BY <2>1, <2>2 DEF session
<1> QED
  BY <1>1, <1>2, <1>3, <1>4 DEF Socket, Open, Close

(* The user's other doings, and what happens from outside. *)
LEMMA PageSteps ==
  ASSUME TabInv,
         SelectCamera \/ Navigate \/ logout \/ Reloads \/ UserReloads \/ OtherTab
  PROVE  TabInv' /\ detections' \in {detections, <<>>}
<1> USE DEF TabInv
<1>1. CASE SelectCamera
  <2>1. PICK cam \in Cameras \cup {None} :
          camera' = cam /\ Effect(cam, user, access_token)
    BY <1>1 DEF SelectCamera
  <2>2. LiveOK' /\ UNCHANGED <<session, calls, detections>>
    BY <1>1, <2>1, EffectIsOK DEF SelectCamera, session
  <2> QED
    BY <2>2 DEF session
<1>2. CASE Navigate
  BY <1>2, UnmountIsOK DEF Navigate, session
<1>3. CASE logout
  <2>1. LiveOK' /\ user' \in Users \cup {None} /\ isAuthenticated' \in BOOLEAN
    BY <1>3, SetsIsOK DEF logout
  <2> QED
    BY <1>3, <2>1 DEF logout
<1>4. CASE Reloads \/ UserReloads
  <2>1. /\ UNCHANGED access_token /\ leaving' = FALSE /\ user' = None /\ detections' = <<>>
        /\ isAuthenticated' = (access_token # None) /\ calls' = [r \in Slots |-> NoCall]
        /\ camera' = None /\ socket' = NoSocket /\ wsStatus' = "disconnected" /\ replaced' = {}
    BY <1>4 DEF Reloads, UserReloads, Load
  <2>2. LiveOK'
    BY <2>1, NoSocketIsSocket
    DEF LiveOK, StatusFollowsSocket, SocketHasCamera, ReplacedAreDeaf, Statuses3
  <2> QED
    BY <2>1, <2>2, NothingListed, NoCallIsCall
<1>5. CASE OtherTab
  BY <1>5, LiveUnchanged DEF OtherTab
<1> QED
  BY <1>1, <1>2, <1>3, <1>4, <1>5

LEMMA StepKeepsTabInv ==
  ASSUME TabInv, [TabNext]_tabVars
  PROVE  /\ TabInv'
         /\ detections' \notin {detections, <<>>} => Head(detections') = camera
<1>1. CASE UNCHANGED tabVars
  <2>1. UNCHANGED <<session, calls, live, detections>>
    BY <1>1 DEF tabVars
  <2> QED
    BY <2>1, LiveUnchanged DEF session, TabInv
<1> QED
  BY <1>1, RequestSteps, SocketSteps, PageSteps DEF TabNext

------------------------------------------------------------------------------
(* Theorems *)

LEMMA TabInvariant == TabSpec => []TabInv
<1>1. TabInv /\ [TabNext]_tabVars => TabInv'
  BY StepKeepsTabInv
<1> QED
  BY InitTabInv, <1>1, PTL DEF TabSpec

(* Every variable keeps its type, and the list of detections its cap. *)
THEOREM TabTypeCorrect == TabSpec => []TabTypeOK
<1>1. TabInv => TabTypeOK
  BY DEF TabInv, LiveOK, TabTypeOK, Calls, Sockets, Statuses3
<1> QED
  BY TabInvariant, <1>1, PTL

(* The status shown is that of the socket the page has, and this socket is *)
(* the selected camera's, whatever sockets it replaced say late.           *)
THEOREM StatusAlwaysFollows == TabSpec => []StatusFollowsSocket
<1>1. TabInv => StatusFollowsSocket
  BY DEF TabInv, LiveOK
<1> QED
  BY TabInvariant, <1>1, PTL

(* What a step adds to the list is a detection of the selected camera. *)
THEOREM OnlySelectedListed == TabSpec => ListsSelectedCamera
<1>1. TabInv /\ [TabNext]_tabVars =>
        [detections' \notin {detections, <<>>} => Head(detections') = camera]_tabVars
  BY StepKeepsTabInv
<1> QED
  BY TabInvariant, <1>1, PTL DEF TabSpec, ListsSelectedCamera

==============================================================================
