---------------------------- MODULE BrowserSession ----------------------------
(***************************************************************************)
(* One browser tab of the dashboard: the session of stores/authStore.ts,   *)
(* hooks/useAuth.ts and lib/api.ts, and the socket of pages/LivePage.tsx.  *)
(*                                                                         *)
(* The access token is in localStorage, which other tabs share; a request  *)
(* carries the token that is there when it is sent, and its answer finds   *)
(* the tab as it is when it arrives. The API answers for an unexpired      *)
(* token with the token's user; when a token expires is left open. The     *)
(* refresh token is stored beside it and never used.                       *)
(***************************************************************************)
EXTENDS Naturals, Sequences, FiniteSets

CONSTANTS
  Users, Cameras,
  Slots,            (* bound: requests of the tab in flight                *)
  MaxShown,         (* the cap on the list of detections, 100 in the code  *)
  MaxReplaced,      (* bound: replaced sockets at a change of camera       *)
  MaxOutside,       (* bound: changes by other tabs, reloads by the user   *)
  None

ASSUME BrowserSessionAssumption ==
  /\ MaxShown \in Nat \ {0} /\ MaxOutside \in Nat /\ MaxReplaced \in Nat
  /\ None \notin Users \cup Cameras

VARIABLES
  access_token,     (* localStorage: the user of the stored token          *)
  user,             (* authStore                                           *)
  isAuthenticated,
  leaving,          (* window.location.href was set: the page is unloading *)
  calls,            (* per slot: the request in flight                     *)
  camera,           (* LivePage: the selected camera                       *)
  socket,           (* the socket of the effect that ran last              *)
  wsStatus,
  replaced,         (* sockets that were closed and may still have events  *)
  detections,       (* detectionStore: the cameras of the listed detections*)
  outside           (* changes from outside so far                         *)

session == <<access_token, user, isAuthenticated, leaving>>
live == <<camera, socket, wsStatus, replaced>>
tabVars == <<session, calls, live, detections, outside>>

NoCall   == [kind |-> "none", token |-> None]
NoSocket == [camera |-> None, state |-> "none", listens |-> FALSE]

TabInit ==
  /\ access_token \in Users \cup {None}
  /\ user = None /\ isAuthenticated = (access_token # None) /\ leaving = FALSE
  /\ calls = [s \in Slots |-> NoCall]
  /\ camera = None /\ socket = NoSocket /\ wsStatus = "disconnected" /\ replaced = {}
  /\ detections = <<>> /\ outside = 0

------------------------------------------------------------------------------
(* Mutated forms of the definitions below. *)

(* the effect returns no cleanup *)
CleanedUpListening(s) == s

(* a failed fetchUser keeps the session unless it was a 401 *)
AfterFailureKeeps(status) == status # 401

(* the list keeps one more *)
NewestOneMore(list) == SubSeq(list, 1, IF Len(list) <= MaxShown THEN Len(list) ELSE MaxShown + 1)

------------------------------------------------------------------------------
(* LivePage.tsx: the effect on [selectedCameraId, user?.id] *)

(* The cleanup takes the listeners off and calls close(), after which the  *)
(* browser delivers no message any more; the close event still comes.      *)
CleanedUp(s) == [s EXCEPT !.listens = FALSE, !.state = "closing"]

Closed ==
  IF socket.state \in {"connecting", "open"} THEN replaced \cup {CleanedUp(socket)} ELSE replaced

(* Without a camera, a user or a token the effect returns before it        *)
(* touches the status, which stays what it was.                            *)
Effect(cam, usr, token) ==
  /\ replaced' = Closed
  /\ IF cam = None \/ usr = None \/ token = None
       THEN socket' = NoSocket /\ UNCHANGED wsStatus
       ELSE /\ socket' = [camera |-> cam, state |-> "connecting", listens |-> TRUE]
            /\ wsStatus' = "connecting"

(* The page is under ProtectedRoute: it goes when isAuthenticated does.    *)
Unmount == camera' = None /\ socket' = NoSocket /\ wsStatus' = "disconnected" /\ replaced' = Closed

(* The store sets user and isAuthenticated. *)
Sets(usr, auth) ==
  /\ user' = usr /\ isAuthenticated' = auth
  /\ \/ ~ auth /\ Unmount
     \/ auth /\ usr = user /\ UNCHANGED live
     \/ auth /\ usr # user /\ Effect(camera, usr, access_token') /\ UNCHANGED camera

(* The pages are there, and the effect of useAuth has run with them.       *)
Shown ==
  /\ isAuthenticated /\ ~ leaving
  /\ user = None => \E s \in Slots : calls[s].kind = "me"

(* handleRegionChange deselects the camera, handleCameraChange selects one.*)
SelectCamera ==
  /\ Shown /\ Cardinality(replaced) < MaxReplaced
  /\ \E cam \in (Cameras \cup {None}) \ {camera} :
       camera' = cam /\ Effect(cam, user, access_token)
  /\ UNCHANGED <<session, calls, detections, outside>>

(* Another page of the application and back. *)
Navigate ==
  /\ Shown /\ camera # None /\ Unmount
  /\ UNCHANGED <<session, calls, detections, outside>>

Newest(list) == SubSeq(list, 1, IF Len(list) <= MaxShown THEN Len(list) ELSE MaxShown)
addDetection(cam) == detections' = Newest(<<cam>> \o detections)

Open ==
  /\ socket.state = "connecting"
  /\ socket' = [socket EXCEPT !.state = "open"] /\ wsStatus' = "connected"
  /\ UNCHANGED <<session, calls, camera, replaced, detections, outside>>

(* error or close *)
Close ==
  /\ socket.state \in {"connecting", "open"}
  /\ socket' = [socket EXCEPT !.state = "closed"] /\ wsStatus' = "disconnected"
  /\ UNCHANGED <<session, calls, camera, replaced, detections, outside>>

Message ==
  /\ \E s \in {socket} \cup replaced :
       s.state = "open" /\ s.listens /\ addDetection(s.camera)
  /\ UNCHANGED <<session, calls, live, outside>>

(* The close event of a socket that was replaced comes some time after the *)
(* next one was made. Only listeners still attached handle it.             *)
LateClose(s) ==
  /\ s \in replaced /\ replaced' = replaced \ {s}
  /\ IF s.listens THEN wsStatus' = "disconnected" ELSE UNCHANGED wsStatus
  /\ UNCHANGED <<session, calls, camera, socket, detections, outside>>

------------------------------------------------------------------------------
(* authStore.ts and lib/api.ts *)

(* The request interceptor attaches the token stored now. *)
Send(s, kind) ==
  /\ calls[s] = NoCall /\ ~ leaving
  /\ calls' = [calls EXCEPT ![s] = [kind |-> kind, token |-> access_token]]
Done(s) == calls' = [calls EXCEPT ![s] = NoCall]

(* The form is disabled while isLoading, reduced here to a login being in  *)
(* flight. Its route is open to everyone: a user who is logged in gets to  *)
(* it from any page, and leaves that page.                                 *)
LoginBegins(s) ==
  /\ camera = None /\ \A r \in Slots : calls[r].kind \notin {"login", "login_me"}
  /\ \E u \in Users :
       /\ calls[s] = NoCall /\ ~ leaving
       /\ calls' = [calls EXCEPT ![s] = [kind |-> "login", token |-> u]]
  /\ UNCHANGED <<session, live, detections, outside>>

(* The effect of useAuth runs again whenever the store changes, and        *)
(* fetchUser changes it: requests for one user may be in flight together.  *)
FetchUserBegins(s) ==
  /\ user = None /\ isAuthenticated /\ Send(s, "me")
  /\ UNCHANGED <<session, live, detections, outside>>

(* Any other request of a page. *)
Request(s) ==
  /\ Shown /\ Send(s, "page")
  /\ UNCHANGED <<session, live, detections, outside>>

(* The API refuses a request without a token, and any other when its token *)
(* has expired, or for a wrong password (login, change-password).          *)
Statuses(token) == IF token = None THEN {401} ELSE {200, 401, 500}

(* The response interceptor, before the caller sees the error. *)
Intercept(status) ==
  IF status = 401 THEN access_token' = None /\ leaving' = TRUE
                  ELSE UNCHANGED <<access_token, leaving>>

(* login stores the token and asks for the user it has just stored. *)
LoginAnswered(s, status) ==
  /\ calls[s].kind = "login"
  /\ IF status = 200
       THEN /\ access_token' = calls[s].token /\ UNCHANGED leaving
            /\ calls' = [calls EXCEPT ![s].kind = "login_me"]
       ELSE Intercept(status) /\ Done(s)
  /\ UNCHANGED <<user, isAuthenticated, live, detections, outside>>

(* A token that was stored stays stored when the second request fails. *)
LoginUserAnswered(s, status) ==
  /\ calls[s].kind = "login_me" /\ Done(s) /\ Intercept(status)
  /\ IF status = 200 THEN Sets(calls[s].token, TRUE)
                     ELSE UNCHANGED <<user, isAuthenticated, live>>
  /\ UNCHANGED <<detections, outside>>

(* isAuthenticated after a failed fetchUser. *)
AfterFailure(status) == FALSE

FetchUserAnswered(s, status) ==
  /\ calls[s].kind = "me" /\ Done(s) /\ Intercept(status)
  /\ IF status = 200 THEN Sets(calls[s].token, TRUE)
                     ELSE Sets(user, AfterFailure(status))
  /\ UNCHANGED <<detections, outside>>

RequestAnswered(s, status) ==
  /\ calls[s].kind = "page" /\ Done(s) /\ Intercept(status)
  /\ UNCHANGED <<user, isAuthenticated, live, detections, outside>>

Answered(s) ==
  \E status \in Statuses(calls[s].token) :
    \/ LoginAnswered(s, status) \/ LoginUserAnswered(s, status)
    \/ FetchUserAnswered(s, status) \/ RequestAnswered(s, status)

(* The button of AppLayout: logout(), then window.location.href. *)
logout ==
  /\ Shown /\ access_token' = None /\ leaving' = TRUE /\ Sets(None, FALSE)
  /\ UNCHANGED <<calls, detections, outside>>

(* A new page: nothing in flight reaches it. *)
Load ==
  /\ leaving' = FALSE /\ user' = None /\ isAuthenticated' = (access_token # None)
  /\ calls' = [s \in Slots |-> NoCall] /\ detections' = <<>>
  /\ camera' = None /\ socket' = NoSocket /\ wsStatus' = "disconnected" /\ replaced' = {}
  /\ UNCHANGED access_token

Reloads == leaving /\ Load /\ UNCHANGED outside

Outside == outside < MaxOutside /\ outside' = outside + 1

UserReloads == Outside /\ Load

(* Another tab logs in or out. *)
OtherTab ==
  /\ Outside /\ access_token' \in (Users \cup {None}) \ {access_token}
  /\ UNCHANGED <<user, isAuthenticated, leaving, calls, live, detections>>

------------------------------------------------------------------------------
Socket == Open \/ Close \/ Message \/ \E s \in replaced : LateClose(s)

TabNext ==
  \/ \E s \in Slots : LoginBegins(s) \/ FetchUserBegins(s) \/ Request(s) \/ Answered(s)
  \/ SelectCamera \/ Navigate \/ Socket \/ logout
  \/ Reloads \/ UserReloads \/ OtherTab

(* Fairness: the effect of useAuth runs, the API or the network answers    *)
(* every request in the end, and a page that is leaving is replaced.       *)
TabSpec ==
  /\ TabInit /\ [][TabNext]_tabVars
  /\ WF_tabVars(\E s \in Slots : FetchUserBegins(s)) /\ WF_tabVars(Reloads)
  /\ \A s \in Slots : WF_tabVars(Answered(s))

------------------------------------------------------------------------------
(* Every variable has its type; the list stays within its cap. *)
TabTypeOK ==
  /\ access_token \in Users \cup {None} /\ user \in Users \cup {None}
  /\ isAuthenticated \in BOOLEAN /\ leaving \in BOOLEAN
  /\ \A s \in Slots : calls[s] \in [kind : {"none", "login", "login_me", "me", "page"},
                                    token : Users \cup {None}]
  /\ camera \in Cameras \cup {None} /\ wsStatus \in {"disconnected", "connecting", "connected"}
  /\ \A s \in replaced \cup {socket} :
       s \in [camera : Cameras \cup {None}, state : {"none", "connecting", "open", "closing", "closed"},
              listens : BOOLEAN]
  /\ detections \in Seq(Cameras) /\ Len(detections) <= MaxShown

(* While the page has a socket its status is that socket's, and the socket *)
(* is the selected camera's: no late event of a socket it replaced, after  *)
(* any change of camera, user or token, is taken for one of the new one.   *)
StatusFollowsSocket ==
  socket # NoSocket =>
    /\ socket.camera = camera /\ user # None
    /\ wsStatus = CASE socket.state = "connecting" -> "connecting"
                    [] socket.state = "open"       -> "connected"
                    [] OTHER                       -> "disconnected"

(* A detection that is added to the list comes from the camera selected    *)
(* then. (Those listed before a change of camera stay.)                    *)
ListsSelectedCamera ==
  [][detections' \notin {detections, <<>>} => Head(detections') = camera]_tabVars

(* A page that opens with a stored token ends with its user shown, or at   *)
(* the login form: whatever expires or fails, and whatever other tabs do   *)
(* to the token meanwhile.                                                 *)
HydrationEnds == (isAuthenticated /\ user = None) ~> (user # None \/ ~ isAuthenticated)
==============================================================================
