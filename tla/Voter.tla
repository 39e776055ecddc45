--------------------------------- MODULE Voter ---------------------------------
(***************************************************************************)
(* pipeline/voter.py, CharacterVoter.vote: the text that the readings h of *)
(* one track add up to, position by position, as the orchestrator sets it  *)
(* up (min_votes = 2, min_vote_fraction = 0.67). A reading is a record     *)
(* whose text is a sequence of characters; the confidences that come with  *)
(* the votes are Recognition's.                                            *)
(***************************************************************************)
EXTENDS Integers, Sequences, FiniteSets, FiniteSetsExt

Unsure == "_"
MinVotes == 2

------------------------------------------------------------------------------
(* Mutated forms of the definitions below. *)

(* any vote is enough *)
QuorumOfOne(votes, n) == votes >= 1

------------------------------------------------------------------------------
Supporters(h, p, c) == {i \in DOMAIN h : p <= Len(h[i].text) /\ h[i].text[p] = c}

(* _majority_vote: max over a dict takes the first of equals in insertion  *)
(* order.                                                                  *)
BestVote(h, p) ==
  LET F == {i \in DOMAIN h : p <= Len(h[i].text)}
      Votes(c) == Cardinality({i \in F : h[i].text[p] = c})
      first == CHOOSE i \in F : \A j \in F :
                 \/ Votes(h[j].text[p]) < Votes(h[i].text[p])
                 \/ Votes(h[j].text[p]) = Votes(h[i].text[p]) /\ i <= j
  IN  h[first].text[p]

(* not (vote_count < min_votes and vote_count / num_frames < 0.67) *)
Quorum(votes, n) == votes >= MinVotes \/ 100 * votes >= 67 * n

Voters(h, p) == Supporters(h, p, BestVote(h, p))
Wins(h, p) == Quorum(Cardinality(Voters(h, p)), Len(h))

Longest(h) == Max({Len(h[i].text) : i \in DOMAIN h})

VotedText(h) == [p \in 1 .. Longest(h) |-> IF Wins(h, p) THEN BestVote(h, p) ELSE Unsure]
==============================================================================
