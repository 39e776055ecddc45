----------------------------- MODULE FrameWindow -----------------------------
(***************************************************************************)
(* What the frame scheduler promises its consumers, without threads, locks *)
(* or statistics: frames are numbered in the order the camera delivers     *)
(* them, the frames waiting for a consumer are the window lo+1 .. hi of    *)
(* those numbers, the window never holds more than Cap frames (Cap = 0     *)
(* means unbounded, as in queue.Queue), and a frame that left the window   *)
(* at its lower end is never delivered again.                              *)
(***************************************************************************)
EXTENDS Naturals, Sequences

CONSTANT Cap        (* capacity of the window, 0 for no limit *)

VARIABLES
  lo,               (* every frame up to lo has left the window *)
  hi,               (* the newest frame that was offered        *)
  out               (* frames handed to consumers, in order     *)

wvars == <<lo, hi, out>>

HasRoom == Cap = 0 \/ hi - lo < Cap

WInit ==
  /\ lo = 0
  /\ hi = 0
  /\ out = <<>>

(* A new frame enters the window at its upper end. *)
Offer ==
  /\ HasRoom
  /\ hi' = hi + 1
  /\ UNCHANGED <<lo, out>>

(* The oldest waiting frame is given up. *)
DropOldest ==
  /\ lo < hi
  /\ lo' = lo + 1
  /\ UNCHANGED <<hi, out>>

(* The new frame is given up; it happens only when nothing waits. *)
SkipNewest ==
  /\ lo = hi
  /\ hi' = hi + 1
  /\ lo' = hi + 1
  /\ UNCHANGED out

(* The oldest waiting frame goes to a consumer. *)
Deliver ==
  /\ lo < hi
  /\ out' = Append(out, lo + 1)
  /\ lo' = lo + 1
  /\ UNCHANGED hi

WNext == Offer \/ DropOldest \/ SkipNewest \/ Deliver

WSpec == WInit /\ [][WNext]_wvars
==============================================================================
