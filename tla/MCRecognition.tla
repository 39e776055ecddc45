----------------------------- MODULE MCRecognition -----------------------------
(***************************************************************************)
(* Recognition with a handful of backend outputs: a short US plate read    *)
(* well, read with a confusion, in lower case and with a space, read too   *)
(* long and doubtfully, with two confusions that only leave a US plate     *)
(* when both are undone; nothing at all; and an Indian plate with two      *)
(* neighbouring confusions.                                                *)
(***************************************************************************)
EXTENDS Recognition

At(conf, text) == [i \in DOMAIN text |-> [char |-> text[i], conf |-> conf]]

Good == At(90, <<"A", "1", "2">>)
Confused == At(80, <<"A", "I", "2">>)
Spaced == At(80, <<"a", " ", "1", "2">>)
Overlong == At(70, <<"A", "1", "2", "S", "2", "S">>)
Indian == At(90, <<"K", "A", "O", "I", "A", "B", "1", "2", "5", "8">>)

MCBackendOutputs == {<<>>, Good, Confused, Spaced, Overlong, Indian}

==============================================================================
