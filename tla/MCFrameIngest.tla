---- MODULE MCFrameIngest ----
(* A small instance of FrameIngest: one stream sends frames that may       *)
(* overtake one another, the other one shares the orchestrators.           *)
EXTENDS FrameIngest, TLC

CONSTANTS s1, s2

MCMaxFrames == s1 :> 2 @@ s2 :> 1
MCPolled == {<<s1, 2>>}
====
