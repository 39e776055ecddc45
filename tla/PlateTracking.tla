----------------------------- MODULE PlateTracking -----------------------------
(***************************************************************************)
(* anpr_core/pipeline/orchestrator.py (process_frame, reset_tracking) with *)
(* anpr_core/tracking/bytetrack_wrapper.py (PlateTracker): what happens to *)
(* the detections of a frame, from the detector to the confidence gate,    *)
(* and to the reading history each track accumulates over frames.          *)
(*                                                                         *)
(* A text is a sequence of characters, Blank when the OCR raised. What the *)
(* OCR may read on a plate is a constant, voting is Voter's, character by  *)
(* character. The confidences, the region and the regular expressions      *)
(* decide whether a text passes the gate and which confusions of it are    *)
(* undone first: both are free for a text that can pass (Recognition has   *)
(* what they depend on).                                                   *)
(*                                                                         *)
(* ByteTrack (the supervision library) is external. It is given the best   *)
(* association there is: one track id per plate until the plate has gone   *)
(* unseen for more than Buffer of its own frames. What it returns is a     *)
(* subset of the detections it was given, in their order.                  *)
(***************************************************************************)
EXTENDS Voter, SequencesExt

CONSTANTS
  Plates,           (* the plates in front of the camera                   *)
  Chars,            (* the characters of texts                             *)
  ReadAs,           (* per plate: the texts the OCR may read on it         *)
  Confused,         (* per character: those postprocessing may put for it  *)
  Buffer,           (* lost_track_buffer                                   *)
  MaxFrames,        (* bound: frames processed                             *)
  MaxTracks,        (* bound: track ids ByteTrack hands out                *)
  MaxReadings       (* bound: detections that pass the quality gate        *)

ASSUME PlateTrackingAssumption ==
  /\ IsFiniteSet(Plates) /\ ReadAs \in [Plates -> SUBSET Seq(Chars)]
  /\ Unsure \notin Chars /\ Confused \in [Chars -> SUBSET Chars]
  /\ Buffer \in Nat /\ MaxFrames \in Nat /\ MaxTracks \in Nat
  /\ MaxReadings \in Nat

VARIABLES
  frame_counter,    (* ANPROrchestrator.frame_counter                      *)
  tracker_frame,    (* PlateTracker.frame_counter                          *)
  history,          (* PlateTracker.history                                *)
  trackOf,          (* ByteTrack: the track of a plate and its age         *)
  ids,              (* ByteTrack: track ids handed out                     *)
  output,           (* PipelineOutput.detections of the last frame         *)
  readings          (* history: detections passed to the tracker so far    *)

vars == <<frame_counter, tracker_frame, history, trackOf, ids, output, readings>>

Blank == <<>>
NoCrop == "none"
Texts == {Blank} \cup UNION {ReadAs[p] : p \in Plates}

TrackIds == 1 .. MaxTracks
NoTrack == [id |-> 0, age |-> 0]

(* A detection of a frame: the plate it shows, whether it passes the       *)
(* quality gate, what the OCR makes of its crop, and whether ByteTrack     *)
(* returns it.                                                             *)
Detections ==
  {d \in [plate: Plates, passes: BOOLEAN, text: Texts, returned: BOOLEAN] :
     /\ d.text \in ReadAs[d.plate] \cup {Blank}
     /\ ~d.passes => d.text = Blank /\ ~d.returned}

(* the detector finds a plate at most once in a frame *)
RawDetections ==
  UNION {{s \in [1 .. n -> Detections] :
            \A i, j \in 1 .. n : s[i].plate = s[j].plate => i = j} :
         n \in 1 .. Cardinality(Plates)}

(* One reading of a track. of and crop are history: the plate the track    *)
(* follows and the plate the text was read from. whole: ByteTrack returned *)
(* every detection of that frame.                                          *)
Entry == [frame_idx: 0 .. MaxFrames, text: Texts, of: Plates,
          crop: Plates \cup {NoCrop}, whole: BOOLEAN]

(* A PipelineDetection: the text before postprocessing (history) and after *)
(* it, and should_persist.                                                 *)
Detection == [track: TrackIds, read: Seq(Chars \cup {Unsure}),
              text: Seq(Chars \cup {Unsure}), persist: BOOLEAN]

Init ==
  /\ frame_counter = 0 /\ tracker_frame = 0
  /\ history = [t \in TrackIds |-> <<>>]
  /\ trackOf = [p \in Plates |-> NoTrack]
  /\ ids = 0
  /\ output = <<>>
  /\ readings = 0

(* the elements of s at the indices K, in their order *)
Kept(s, K) ==
  [i \in 1 .. Cardinality(K) |->
     s[CHOOSE k \in K : Cardinality({j \in K : j <= k}) = i]]

Readable(raw) == Kept(raw, {i \in DOMAIN raw : raw[i].passes})
Returned(dets) == Kept(dets, {i \in DOMAIN dets : dets[i].returned})
PlatesOf(dets) == {dets[i].plate : i \in DOMAIN dets}

------------------------------------------------------------------------------
(* Mutated forms of the definitions below. *)

(* an OCR failure leaves no result at all *)
OcrSkipsFailures(dets) ==
  LET read == Kept(dets, {i \in DOMAIN dets : dets[i].text # Blank})
  IN  [i \in 1 .. Len(read) |-> [text |-> read[i].text, crop |-> read[i].plate]]

(* counted again at the end of process_frame, which early returns miss *)
CountTwice == frame_counter' \in {frame_counter + 1, frame_counter + 2}

------------------------------------------------------------------------------
(* ByteTrack.update_with_detections on detections dets: a plate that is    *)
(* seen keeps its live track or gets the next id; the others age, and are  *)
(* removed once unseen for more than Buffer calls.                         *)
NewPlates(dets) == {p \in PlatesOf(dets) : trackOf[p] = NoTrack}

NextTrack(dets, p) ==
  LET i == CHOOSE k \in DOMAIN dets : dets[k].plate = p
      before == {q \in NewPlates(dets) : \E k \in 1 .. i : dets[k].plate = q}
  IN  CASE p \in NewPlates(dets) -> [id |-> ids + Cardinality(before), age |-> 0]
        [] p \in PlatesOf(dets) \ NewPlates(dets) -> [trackOf[p] EXCEPT !.age = 0]
        [] p \notin PlatesOf(dets) /\ trackOf[p] # NoTrack /\ trackOf[p].age < Buffer ->
             [trackOf[p] EXCEPT !.age = @ + 1]
        [] OTHER -> NoTrack

(* The OCR pass over the crops that passed: one result per crop, an empty  *)
(* one when the OCR raises, so the results stay aligned with the crops.    *)
OcrResults(dets) ==
  [i \in 1 .. Len(dets) |-> [text |-> dets[i].text, crop |-> dets[i].plate]]

(* PlateTracker.update: the i-th detection ByteTrack returns is given the  *)
(* i-th text of the list update was called with (Blank past its end).      *)
TrackId(dets, i) == NextTrack(dets, Returned(dets)[i].plate).id

Update(dets, ocr) ==
  LET returned == Returned(dets)
      Reading(i) == IF i <= Len(ocr) THEN ocr[i] ELSE [text |-> Blank, crop |-> NoCrop]
      Entries(i) == [frame_idx |-> tracker_frame, text |-> Reading(i).text,
                     of |-> returned[i].plate, crop |-> Reading(i).crop,
                     whole |-> returned = dets]
      Of(t) == {Entries(i) : i \in {k \in DOMAIN returned : TrackId(dets, k) = t}}
  IN  /\ ids + Cardinality(NewPlates(dets)) <= MaxTracks
      /\ history' = [t \in TrackIds |-> history[t] \o SetToSeq(Of(t))]
      /\ trackOf' = [p \in Plates |-> NextTrack(dets, p)]
      /\ ids' = ids + Cardinality(NewPlates(dets))
      /\ tracker_frame' = tracker_frame + 1

(* The loop over zip(detections, ocr_results, tracked): a detection's text *)
(* is this frame's until its track has three readings, then the voted one. *)
FinalText(h, text) == IF Len(h) >= 3 THEN VotedText(h) ELSE text

Report(dets, ocr) ==
  [i \in 1 .. Min({Len(ocr), Len(Returned(dets))}) |->
     [track |-> TrackId(dets, i),
      read |-> FinalText(history'[TrackId(dets, i)], ocr[i].text)]]

(* No regular expression matches an empty text or one with an unsure       *)
(* character in it, and no confusion map repairs that.                     *)
CanPass(text) == text # Blank /\ \A p \in DOMAIN text : text[p] \in Chars

(* What postprocessing may make of a text that can pass: at most two of    *)
(* its characters are exchanged for one they are confused with.            *)
Rewrites(text) ==
  {u \in [DOMAIN text -> UNION {{text[p]} \cup Confused[text[p]] : p \in DOMAIN text}] :
     /\ \A p \in DOMAIN text : u[p] = text[p] \/ u[p] \in Confused[text[p]]
     /\ Cardinality({p \in DOMAIN text : u[p] # text[p]}) <= 2}

(* Postprocessing and the gate: a text that can not pass stays as it is    *)
(* and is not persisted.                                                   *)
Postprocessed(text) == IF CanPass(text) THEN Rewrites(text) ELSE {text}

Judged(d) ==
  {[track |-> d.track, read |-> d.read, text |-> u, persist |-> k] :
     u \in Postprocessed(d.read), k \in {b \in BOOLEAN : b => CanPass(d.read)}}

CountFrame == frame_counter' = frame_counter + 1

(* A frame that never reaches the tracker: no image, a detector that       *)
(* raised, no detection, or none that passes the quality gate.             *)
FrameWithoutPlates ==
  /\ frame_counter < MaxFrames
  /\ CountFrame
  /\ output' = <<>>
  /\ UNCHANGED <<tracker_frame, history, trackOf, ids, readings>>

(* The tracker raised: process_frame goes on with an empty dict, and so    *)
(* reports nothing.                                                        *)
TrackerRaises(raw) ==
  /\ frame_counter < MaxFrames
  /\ Readable(raw) # <<>>
  /\ readings + Len(Readable(raw)) <= MaxReadings
  /\ CountFrame
  /\ readings' = readings + Len(Readable(raw))
  /\ output' = <<>>
  /\ UNCHANGED <<tracker_frame, history, trackOf, ids>>

(* A frame with readable plates; the gate decides for each whether it is   *)
(* to be persisted.                                                        *)
FrameWithPlates(raw) ==
  LET dets == Readable(raw)
      ocr == OcrResults(dets)
  IN  /\ frame_counter < MaxFrames
      /\ dets # <<>>
      /\ readings + Len(dets) <= MaxReadings
      /\ CountFrame
      /\ readings' = readings + Len(dets)
      /\ Update(dets, ocr)
      /\ \E report \in {Report(dets, ocr)} :
           output' \in {o \in [DOMAIN report -> UNION {Judged(report[i]) : i \in DOMAIN report}] :
                         \A i \in DOMAIN report : o[i] \in Judged(report[i])}

(* reset_tracking *)
ResetTracking ==
  /\ trackOf' = [p \in Plates |-> NoTrack] /\ ids' = 0 /\ tracker_frame' = 0
  /\ history' = [t \in TrackIds |-> <<>>]

Reset == ResetTracking /\ UNCHANGED <<frame_counter, output, readings>>

Next ==
  \/ FrameWithoutPlates
  \/ \E raw \in RawDetections : FrameWithPlates(raw) \/ TrackerRaises(raw)
  \/ Reset

Spec == Init /\ [][Next]_vars

------------------------------------------------------------------------------
(* Properties *)

(* Every variable has its type: one process_frame counts one frame, and no *)
(* reported track is one ByteTrack did not hand out.                       *)
TypeOK ==
  /\ frame_counter \in 0 .. MaxFrames /\ tracker_frame \in 0 .. MaxFrames
  /\ history \in [TrackIds -> Seq(Entry)]
  /\ trackOf \in [Plates -> [id: {0} \cup TrackIds, age: 0 .. Buffer]]
  /\ ids \in {0} \cup TrackIds
  /\ output \in Seq(Detection)
  /\ readings \in 0 .. MaxReadings

(* A reading filed under a track was taken from the plate that track       *)
(* follows, in every frame of which ByteTrack returned all detections: the *)
(* crops, the OCR results and the tracked boxes stay in one order through  *)
(* the quality gate and through OCR failures.                              *)
TextsFollowPlates ==
  \A t \in TrackIds : \A i \in DOMAIN history[t] :
    history[t][i].whole => history[t][i].crop = history[t][i].of

(* The readings of a track are in frame order, one per frame at most, and  *)
(* older than the next frame: what the voter is given is never two votes   *)
(* of one frame, whatever was reset in between. (Frames without readable   *)
(* plates are no frames of the tracker: docs/ML_SPEC.md, 6, has "Tracker   *)
(* continues", but its clock stands still, see FrameWithoutPlates.)        *)
HistoryInFrameOrder ==
  \A t \in TrackIds :
    /\ \A i, j \in DOMAIN history[t] :
         i < j => history[t][i].frame_idx < history[t][j].frame_idx
    /\ \A i \in DOMAIN history[t] : history[t][i].frame_idx < tracker_frame

(* Both: the histories are what the voter takes them for.                  *)
HistoryIsSound == TextsFollowPlates /\ HistoryInFrameOrder

(* Every character of a text that passes the gate was read at its place    *)
(* for its track, by two frames once the track has three readings, or is a *)
(* confusion of one that was: a text may be put together from frames none  *)
(* of which read all of it (voter.py), but no odd frame puts a character   *)
(* of its own through.                                                     *)
PersistedIsSupported ==
  \A i \in DOMAIN output :
    LET d == output[i]
        h == history[d.track]
        needed == IF Len(h) >= 3 THEN 2 ELSE 1
    IN  d.persist /\ h # <<>> =>
          \A p \in DOMAIN d.text : \E c \in Chars :
            /\ Cardinality(Supporters(h, p, c)) >= needed
            /\ d.text[p] \in {c} \cup Confused[c]
==============================================================================
