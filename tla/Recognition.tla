------------------------------ MODULE Recognition ------------------------------
(***************************************************************************)
(* From the characters two OCR backends read to a text that is persisted:  *)
(* ocr/fuser.py, pipeline/voter.py, postproc/regions/{india,eu,us}.py and  *)
(* postproc/gate.py, called for one track as process_frame in              *)
(* pipeline/orchestrator.py calls them, frame after frame.                 *)
(*                                                                         *)
(* Confidences are hundredths, a mean rounded down. A text is a sequence   *)
(* of characters, Letters and Digits with their case folded except for "a" *)
(* (a lower-case character that only upper() makes a letter), and " ".     *)
(* Every text comes with one confidence per character, so the voter's      *)
(* zip(votes, confidences) pairs a vote with its own confidence.           *)
(***************************************************************************)
EXTENDS Voter

CONSTANTS
  BackendOutputs,   (* what one backend may read: sequences of characters  *)
                    (* with confidences                                    *)
  MaxFrames         (* bound: frames of the track                          *)

Letters == {"A", "B", "I", "K", "L", "O", "S", "Z"}
Digits == {"0", "1", "2", "5", "8"}
Chars == Letters \cup Digits \cup {"a", " "}

ASSUME RecognitionAssumption ==
  /\ \A o \in BackendOutputs : o \in Seq([char: Chars, conf: 0 .. 100])
  /\ MaxFrames \in Nat

VARIABLES
  inputs,           (* what the backends read in the last frame            *)
  history,          (* the track's fused readings                          *)
  decision          (* what process_frame made of the last frame           *)

vars == <<inputs, history, decision>>

(* Whatever the crop, RegionClassifier.classify answers one of these, the  *)
(* first for an empty crop; so does the orchestrator when it raises.       *)
Regions == {"IN", "EU", "US"}

(* The regular expressions, as the letter (L) and digit (D) layouts they   *)
(* accept, and how many confusions each postprocessor may undo.            *)
Rep(n, class) == [i \in 1 .. n |-> class]
Layouts ==
  [IN |-> {<<"L", "L", "D", "D", "L", "L", "D", "D", "D", "D">>},
   EU |-> {<<"L", "L", "D", "D", "D", "L", "L", "L">>} \cup
          {Rep(3, "L") \o Rep(d, "D") \o Rep(l, "L") : d \in 3 .. 4, l \in 0 .. 2},
   US |-> {Rep(l, "L") \o Rep(d, "D") : l \in 1 .. 3, d \in 1 .. 5} \cup
          {Rep(d, "D") \o Rep(l, "L") : l \in 1 .. 3, d \in 1 .. 5}]
Swaps == [IN |-> 2, EU |-> 1, US |-> 1]

Class(c) == CASE c \in Letters -> "L" [] c \in Digits -> "D" [] OTHER -> "-"
IsValid(r, text) == [i \in DOMAIN text |-> Class(text[i])] \in Layouts[r]

(* CONFUSION_MAP of each region: the candidates for a character, in order. *)
Confusions(r, c) ==
  CASE c = "0" -> <<"O">>
    [] c = "1" -> IF r = "EU" THEN <<"I">> ELSE <<"I", "L">>
    [] c = "5" -> <<"S">>
    [] c = "O" -> <<"0">>
    [] c = "I" -> <<"1">>
    [] c = "S" -> <<"5">>
    [] c = "L" /\ r = "US" -> <<"1">>
    [] c = "8" /\ r = "IN" -> <<"B">>
    [] c = "2" /\ r = "IN" -> <<"Z">>
    [] c = "B" /\ r = "IN" -> <<"8">>
    [] c = "Z" /\ r = "IN" -> <<"2">>
    [] OTHER -> <<>>

(* the texts one confusion away from text *)
SwapsOf(r, text) ==
  UNION {{[text EXCEPT ![i] = Confusions(r, text[i])[k]] :
            k \in DOMAIN Confusions(r, text[i])} : i \in DOMAIN text}

Upper(c) == IF c = "a" THEN "A" ELSE c
PlateConfidence(confs) ==
  IF confs = <<>> THEN 0 ELSE Min({confs[i] : i \in DOMAIN confs})

Init ==
  /\ inputs = <<<<>>, <<>>>>
  /\ history = <<>>
  /\ decision = [region |-> "IN", read |-> <<>>, confs |-> <<>>, text |-> <<>>,
                 valid |-> FALSE, persist |-> FALSE]

------------------------------------------------------------------------------
(* Mutated forms of the definitions below. *)

(* the shorter reading is not padded *)
FuseZips(a, b) ==
  LET n == Min({Len(a), Len(b)})
      Best(i) == IF a[i].conf >= b[i].conf THEN a[i] ELSE b[i]
  IN  [text |-> [i \in 1 .. n |-> Best(i).char], confs |-> [i \in 1 .. n |-> Best(i).conf]]

(* an unsure position gets no confidence *)
VoteOmitsUnsure(h) ==
  [text |-> [p \in DOMAIN h[1].text |-> Unsure], confs |-> <<>>]

(* the second confusion is looked for one position too far to the right *)
PairsSkipNeighbour(r, text) ==
  {u \in UNION {SwapsOf(r, t) : t \in SwapsOf(r, text)} :
     \E i, j \in DOMAIN text : i + 1 < j /\ u[i] # text[i] /\ u[j] # text[j]}

------------------------------------------------------------------------------
(* OCRFuser._fuse_results: per position the more confident backend, the    *)
(* first on equality, whether or not the two "agree"; where only one has a *)
(* character, that one.                                                    *)
Fuse(a, b) ==
  LET n == Max({Len(a), Len(b)})
      Best(i) == IF i > Len(b) \/ (i <= Len(a) /\ a[i].conf >= b[i].conf)
                   THEN a[i] ELSE b[i]
  IN  [text |-> [i \in 1 .. n |-> Best(i).char], confs |-> [i \in 1 .. n |-> Best(i).conf]]

(* the mean confidence of the readings in who at position p *)
Mean(h, p, who) == MapThenSumSet(LAMBDA i : h[i].confs[p], who) \div Cardinality(who)

(* CharacterVoter.vote, with the mean confidence of those who voted so.   *)
Vote(h) ==
  [text |-> VotedText(h),
   confs |-> [p \in 1 .. Longest(h) |-> IF Wins(h, p) THEN Mean(h, p, Voters(h, p)) ELSE 0]]

(* upper() and strip() *)
Normal(text) ==
  LET solid == {i \in DOMAIN text : text[i] # " "}
      cut == IF solid = {} THEN <<>> ELSE SubSeq(text, Min(solid), Max(solid))
  IN  [i \in DOMAIN cut |-> Upper(cut[i])]

(* text without its spaces (SelectSeq, unrolled to be reasoned about) *)
Squeezed(text) ==
  LET upTo[i \in 0 .. Len(text)] ==
        IF i = 0 THEN <<>>
        ELSE IF text[i] = " " THEN upTo[i - 1] ELSE Append(upTo[i - 1], text[i])
  IN  upTo[Len(text)]

(* the texts two confusions away *)
PairsOf(r, text) ==
  {u \in UNION {SwapsOf(r, t) : t \in SwapsOf(r, text)} :
     Cardinality({i \in DOMAIN text : u[i] # text[i]}) = 2}

(* _fix_confusion returns the first valid one in the order of its nested   *)
(* loops: position, candidate, then the second position and candidate.     *)
FirstValid(r, text, S) ==
  LET Differs(t) == {i \in DOMAIN text : t[i] # text[i]}
      At(t, i) == 10 * i + CHOOSE k \in DOMAIN Confusions(r, text[i]) :
                               Confusions(r, text[i])[k] = t[i]
      Rank(t) == 1000 * At(t, Min(Differs(t))) + At(t, Max(Differs(t)))
      valid == {t \in S : IsValid(r, t)}
  IN  CHOOSE t \in valid : \A u \in valid : Rank(t) <= Rank(u)

(* XPostprocessor.postprocess: the text as it is, then (US) without its    *)
(* spaces, then with one confusion undone, then (India) with two.          *)
Postprocess(r, raw) ==
  LET text == Normal(raw)
      solid == Squeezed(text)
      AnyValid(S) == \E t \in S : IsValid(r, t)
      Fixed(t) == [text |-> t, valid |-> TRUE]
  IN  CASE IsValid(r, text) -> Fixed(text)
        [] ~IsValid(r, text) /\ r = "US" /\ IsValid(r, solid) -> Fixed(solid)
        [] OTHER ->
             IF AnyValid(SwapsOf(r, text)) THEN Fixed(FirstValid(r, text, SwapsOf(r, text)))
             ELSE IF Swaps[r] = 2 /\ AnyValid(PairsOf(r, text))
                    THEN Fixed(FirstValid(r, text, PairsOf(r, text)))
             ELSE [text |-> text, valid |-> FALSE]

(* ConfidenceGate.decide: the plate confidence is the least character's,   *)
(* so its threshold of 0.75 implies the 0.6 of each character.             *)
Gate(confs, valid) ==
  /\ valid
  /\ \A i \in DOMAIN confs : confs[i] >= 60
  /\ PlateConfidence(confs) >= 75

(* One frame of the track, in a crop classified as region r. *)
Frame(a, b, r) ==
  LET fused == Fuse(a, b)
      h == Append(history, fused)
      final == IF Len(h) >= 3 THEN Vote(h) ELSE fused
      post == Postprocess(r, final.text)
  IN  /\ Len(history) < MaxFrames
      /\ inputs' = <<a, b>>
      /\ history' = h
      /\ decision' = [region |-> r, read |-> final.text, confs |-> final.confs,
                      text |-> IF post.valid THEN post.text ELSE final.text,
                      valid |-> post.valid, persist |-> Gate(final.confs, post.valid)]

Next == \E a, b \in BackendOutputs, r \in Regions : Frame(a, b, r)

Spec == Init /\ [][Next]_vars

------------------------------------------------------------------------------
(* Properties *)

(* Every variable has its type, and a text has a confidence for each of    *)
(* its characters, through fusion and voting.                              *)
TypeOK ==
  /\ inputs \in {<<<<>>, <<>>>>} \cup (BackendOutputs \X BackendOutputs)
  /\ history \in Seq([text: Seq(Chars), confs: Seq(0 .. 100)])
  /\ \A i \in DOMAIN history : Len(history[i].confs) = Len(history[i].text)
  /\ decision \in [region: Regions, read: Seq(Chars \cup {Unsure}), confs: Seq(0 .. 100),
                   text: Seq(Chars \cup {Unsure}), valid: BOOLEAN, persist: BOOLEAN]
  /\ Len(decision.confs) = Len(decision.read)

(* Fusion invents nothing and loses no evidence: at every position either  *)
(* backend read, the fused character was read there by one of them, and    *)
(* with at least the confidence of the other.                              *)
FusionKeepsEvidence ==
  history # <<>> =>
    LET fused == history[Len(history)]
        Read(p) == {o[p] : o \in {i \in {inputs[1], inputs[2]} : p <= Len(i)}}
    IN  \A p \in DOMAIN inputs[1] \cup DOMAIN inputs[2] :
          /\ p \in DOMAIN fused.text
          /\ [char |-> fused.text[p], conf |-> fused.confs[p]] \in Read(p)
          /\ \A o \in Read(p) : o.conf <= fused.confs[p]

(* With three or more readings, a character that more than half of them    *)
(* have at a position is the one voted there, in whatever order they came. *)
MajorityWins ==
  Len(history) >= 3 =>
    \A p \in DOMAIN decision.read, c \in Chars :
      2 * Cardinality(Supporters(history, p, c)) > Len(history) => decision.read[p] = c

(* Both: what the backends read decides what is read, frame by frame and   *)
(* over the frames of a track. (docs/ML_SPEC.md, 4 and 7, has other rules: *)
(* within 0.2 of each other the first backend's character, and a quorum of *)
(* three votes. This is about the code's.)                                 *)
EvidenceDecides == FusionKeepsEvidence /\ MajorityWins

(* One odd frame never gets a plate through: once the track has three      *)
(* readings, every character of a persisted text was read at its position  *)
(* in two frames, or is what a confusion map makes of such a character.    *)
(* (Plates with spaces, which shift positions, are set aside.)             *)
PersistedWasReadTwice ==
  decision.persist /\ Len(history) >= 3 /\ (\A p \in DOMAIN decision.read : decision.read[p] # " ") =>
    \A p \in DOMAIN decision.text : \E c \in Chars :
      /\ Cardinality(Supporters(history, p, c)) >= 2
      /\ decision.text[p] \in {Upper(c)} \cup
           {Confusions(decision.region, Upper(c))[k] :
              k \in DOMAIN Confusions(decision.region, Upper(c))}

(* A text that is persisted is a plate of its region, confidently read.    *)
PersistedIsValid ==
  decision.persist =>
    /\ IsValid(decision.region, decision.text)
    /\ decision.confs # <<>> /\ \A p \in DOMAIN decision.confs : decision.confs[p] >= 75

(* Both: what goes into the database was read, and makes sense.            *)
PersistedIsSound == PersistedWasReadTwice /\ PersistedIsValid

(* Postprocessing gives up only when nothing within its reach is valid: no *)
(* way to undo at most Swaps confusions of the text read makes it a plate  *)
(* of the region. Its reach is the code's: two confusions for an Indian    *)
(* plate and one for the others, where docs/ML_SPEC.md, 9, wants up to two *)
(* tried for a US plate as well.                                           *)
GivesUpOnlyWhenHopeless ==
  decision.read # <<>> /\ ~decision.valid =>
    LET text == Normal(decision.read)
        r == decision.region
        sites == {i \in DOMAIN text : Confusions(r, text[i]) # <<>>}
    IN  \A chosen \in SUBSET sites : Cardinality(chosen) <= Swaps[r] =>
          \A k \in [chosen -> 1 .. 2] :
            (\A i \in chosen : k[i] \in DOMAIN Confusions(r, text[i])) =>
              ~IsValid(r, [i \in DOMAIN text |->
                IF i \in chosen THEN Confusions(r, text[i])[k[i]] ELSE text[i]])

==============================================================================
