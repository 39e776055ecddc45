---------------------------- MODULE MCPlateTracking ----------------------------
(***************************************************************************)
(* PlateTracking with two plates: ABC, of which every frame misses or      *)
(* misreads one character (8 for B is a confusion that postprocessing      *)
(* undoes), so that three frames vote it although none read it; and DE,    *)
(* read well or too short.                                                 *)
(***************************************************************************)
EXTENDS PlateTracking

MCPlates == {"ABC", "DE"}
MCChars == {"A", "B", "C", "D", "E", "8"}
MCReadAs ==
  [p \in MCPlates |->
     IF p = "ABC" THEN {<<"E", "B", "C">>, <<"A", "8", "C">>, <<"A", "B">>}
     ELSE {<<"D", "E">>, <<"D">>}]
MCConfused == [c \in MCChars |-> CASE c = "B" -> {"8"} [] c = "8" -> {"B"} [] OTHER -> {}]
==============================================================================
