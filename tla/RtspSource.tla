------------------------------ MODULE RtspSource ------------------------------
(***************************************************************************)
(* ingest/rtsp.py: RTSPSource, the adapter that reconnects to a network    *)
(* camera with a backoff, together with the loop that calls its read().    *)
(*                                                                         *)
(* The two loops of the repository, FrameScheduler._reader_loop and        *)
(* ingest_from_source, leave at the first None (EndsOnNone); a caller of   *)
(* the adapter itself may also go on calling read().                       *)
(*                                                                         *)
(* Time is in ticks. Only now - _last_fail_time is ever used, and only     *)
(* compared with a backoff of at most MaxBackoff, so the elapsed time is   *)
(* kept, saturated there: it needs no bound of its own.                    *)
(***************************************************************************)
EXTENDS Integers

CONSTANTS
  BaseBackoff,      (* backoff_sec                                         *)
  MaxBackoff,       (* max_backoff_sec                                     *)
  MaxAttempt,       (* bound: ticks one connection attempt may take        *)
  EndsOnNone        (* the caller stops at the first None                  *)

ASSUME RtspAssumption ==
  /\ BaseBackoff \in Nat \ {0}
  /\ MaxBackoff \in Nat /\ MaxBackoff >= BaseBackoff
  /\ MaxAttempt \in Nat
  /\ EndsOnNone \in BOOLEAN

VARIABLES
  camera,           (* "up" or "down": whether the stream can be read      *)
  cap,              (* "open", "dead" when the stream behind it broke, or  *)
                    (* "none" when self.cap is None                        *)
  backoff,          (* self._backoff                                       *)
  sinceFail,        (* time since self._last_fail_time                     *)
  caller,           (* "reading" or "ended"                                *)
  result,           (* what the last read() returned                       *)
  failures          (* history: attempts failed since the last success,    *)
                    (* saturated at MaxBackoff, when no raise is left      *)

rtspVars == <<camera, cap, backoff, sinceFail, caller, result, failures>>

AtMostMax(t) == IF t < MaxBackoff THEN t ELSE MaxBackoff

(* A mutated form of Raise: the delay is raised past its cap. *)
RaiseUncapped(b) == (b * 3) \div 2

(* self._backoff * 1.5, capped, in whole ticks *)
Raise(b) == AtMostMax((b * 3) \div 2)

(* _last_fail_time starts at 0.0, long ago; the constructor then makes its *)
(* first attempt, whose outcome decides the initial state.                 *)
RtspInit ==
  /\ camera \in {"up", "down"}
  /\ result = "none" /\ caller = "reading"
  /\ \/ /\ camera = "up" /\ cap = "open" /\ backoff = BaseBackoff
        /\ sinceFail = MaxBackoff /\ failures = 0
     \/ /\ camera = "down" /\ cap = "none" /\ backoff = Raise(BaseBackoff)
        /\ sinceFail \in {AtMostMax(d) : d \in 0 .. MaxAttempt}
        /\ failures = 1

------------------------------------------------------------------------------
(* Mutated forms of the actions below. *)

(* success leaves the raised backoff in place *)
ReconnectKeepsBackoff ==
  /\ cap = "none" /\ sinceFail >= backoff /\ camera = "up"
  /\ cap' = "open" /\ failures' = 0
  /\ UNCHANGED <<backoff, sinceFail>>

(* a failed read leaves the dead capture in place *)
DropKeepsCapture == UNCHANGED <<cap, backoff, sinceFail, failures>>

------------------------------------------------------------------------------
(* _connect() *)

(* Too early: no attempt is made. *)
Waits ==
  /\ cap = "none" /\ sinceFail < backoff
  /\ UNCHANGED <<cap, backoff, sinceFail, failures>>

(* The probe frame is read: the capture is kept and the backoff reset. *)
Reconnects ==
  /\ cap = "none" /\ sinceFail >= backoff /\ camera = "up"
  /\ cap' = "open" /\ backoff' = BaseBackoff /\ failures' = 0
  /\ UNCHANGED sinceFail

(* The attempt fails after some ticks; _last_fail_time is its start. *)
AttemptFails ==
  /\ cap = "none" /\ sinceFail >= backoff /\ camera = "down"
  /\ \E d \in 0 .. MaxAttempt : sinceFail' = AtMostMax(d)
  /\ backoff' = Raise(backoff)
  /\ failures' = AtMostMax(failures + 1)
  /\ UNCHANGED cap

(* A capture that stopped delivering is released; _backoff and             *)
(* _last_fail_time are left as they are.                                   *)
Drops ==
  /\ cap' = "none"
  /\ UNCHANGED <<backoff, sinceFail, failures>>

(* The caller's loop around read(). *)
Returns(r) ==
  /\ result' = r
  /\ caller' = IF r = "none" /\ EndsOnNone THEN "ended" ELSE "reading"

(* read(): connect first if there is no capture, then read a frame. A      *)
(* camera that dies between the probe and the read behaves like one that   *)
(* dies just after it, which CameraChanges covers.                         *)
Read ==
  /\ caller = "reading"
  /\ \/ (Waits \/ AttemptFails) /\ Returns("none")
     \/ Reconnects /\ Returns("frame")
     \/ /\ cap = "open" /\ Returns("frame")
        /\ UNCHANGED <<cap, backoff, sinceFail, failures>>
     \/ cap = "dead" /\ Drops /\ Returns("none")
  /\ UNCHANGED camera

Tick ==
  /\ sinceFail < MaxBackoff
  /\ sinceFail' = sinceFail + 1
  /\ UNCHANGED <<camera, cap, backoff, caller, result, failures>>

(* The network camera goes away and comes back. A session that was open    *)
(* when it went is dead for good, even if the camera is back before the    *)
(* next read.                                                              *)
CameraChanges ==
  /\ camera' = IF camera = "up" THEN "down" ELSE "up"
  /\ cap' = IF cap = "open" THEN "dead" ELSE cap
  /\ UNCHANGED <<backoff, sinceFail, caller, result, failures>>

RtspNext == Read \/ Tick \/ CameraChanges

(* Time passes and a caller that has not left its loop calls read() again; *)
(* nothing is assumed of the camera.                                       *)
RtspSpec == RtspInit /\ [][RtspNext]_rtspVars /\ WF_rtspVars(Read) /\ WF_rtspVars(Tick)

------------------------------------------------------------------------------
(* Properties *)

(* Every variable has its type; the delay stays within its two limits, and *)
(* a capture taken for good has a camera behind it.                        *)
RtspTypeOK ==
  /\ camera \in {"up", "down"}
  /\ cap \in {"open", "dead", "none"} /\ (cap = "open" => camera = "up")
  /\ backoff \in BaseBackoff .. MaxBackoff
  /\ sinceFail \in 0 .. MaxBackoff
  /\ caller \in {"reading", "ended"}
  /\ result \in {"frame", "none"}
  /\ failures \in 0 .. MaxBackoff

(* The delay is a function of the failures since the last success alone:   *)
(* an outage never inherits the delay of an earlier one.                   *)
BackoffMatchesFailures ==
  LET after[n \in 0 .. MaxBackoff] ==
        IF n = 0 THEN BaseBackoff ELSE Raise(after[n - 1])
  IN  backoff = after[failures]

(* ingest/rtsp.py promises a reconnect with exponential backoff: a camera  *)
(* that is back for good is delivering frames again in the end, for good.  *)
StreamRecovers == <>[](camera = "up") => <>[](result = "frame")
==============================================================================
