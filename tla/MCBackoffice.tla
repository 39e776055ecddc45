---- MODULE MCBackoffice ----
(* A small instance of Backoffice: a user with one region, one with none,  *)
(* a plate and cameras in either region.                                   *)
EXTENDS Backoffice, TLC

CONSTANTS r1, r2, p1, p2, u1, u2

MCPlateRegion == p1 :> r1 @@ p2 :> r2
MCAssigned == u1 :> {r1} @@ u2 :> {}
(* The oldest entry has no ip_address. *)
MCAuditLog ==
  {[user |-> u1, action |-> "login", at |-> 1, complete |-> FALSE],
   [user |-> u1, action |-> "export", at |-> 2, complete |-> TRUE],
   [user |-> u2, action |-> "login", at |-> 3, complete |-> TRUE]}

(* The ids of rows, patterns, verdicts and request slots are               *)
(* interchangeable: no liveness is checked.                                *)
MCSymmetry ==
  UNION {Permutations(S) : S \in {Cameras, Verdicts, Detections, Entries, Patterns, Requests}}
====
