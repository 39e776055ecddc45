-------------------------- MODULE BackofficeProofs ----------------------------
(***************************************************************************)
(* Theorems about Backoffice and DataAccess, for any tables, assignments,  *)
(* requests and patterns.                                                  *)
(***************************************************************************)
EXTENDS Backoffice, FiniteSetTheorems, TLAPS

(* What makes the properties inductive. *)

(* Rows refer to rows; what a transaction has deleted and not committed is *)
(* referred to by nothing.                                                 *)
RowsInv ==
  /\ DOMAIN cameras \subseteq Cameras /\ \A c \in DOMAIN cameras : cameras[c] \in Regions
  /\ DOMAIN detections \subseteq Detections
  /\ \A d \in DOMAIN detections :
       /\ detections[d].camera \in DOMAIN cameras /\ detections[d].plate \in Plates
       /\ detections[d].stream \in DOMAIN cameras \cup {None}
  /\ watchlist \in [DOMAIN watchlist -> Columns]

Item == [detection : Detections, status : Statuses \cup {"pending"},
         reviewer : Users \cup {None}, blob : Blobs]
Decision == [status : Statuses, reviewer : Users \cup {None}, corrected : {None} \cup Corrections]
ItemsInv ==
  /\ DOMAIN items \subseteq Items /\ items \in [DOMAIN items -> Item]
  /\ \A i \in DOMAIN items : items[i].detection \in DOMAIN detections \ Locked
  /\ decisions \in [Items -> Seq(Decision)]

(* A resolution in progress holds the item as it was loaded: untouched, or *)
(* after a decision, and then as the only decision left it.                *)
Fresh(row) == row.status = "pending" /\ row.reviewer = None
ResolveInv(r) ==
  /\ r.op = "resolve" /\ r.id \in DOMAIN items
  /\ r.old \in Item /\ r.new \in Item /\ r.decision \in Decision
  /\ r.new.detection = r.old.detection
  /\ r.new.status = r.decision.status /\ r.new.reviewer = r.decision.reviewer
  /\ r.old.blob.filled => items[r.id].blob.filled
  /\ \/ r.new.blob = r.old.blob /\ (r.decision.corrected # None => r.old.blob.filled)
     \/ /\ r.new.blob = [filled |-> TRUE, corrected |-> r.decision.corrected]
        /\ r.decision.corrected # None /\ ~ r.old.blob.filled
  /\ \/ Fresh(r.old)
     \/ /\ Len(decisions[r.id]) >= 1
        /\ Len(decisions[r.id]) = 1 =>
             r.old.status = items[r.id].status /\ r.old.reviewer = items[r.id].reviewer

CameraInv(r) ==
  /\ r.op = "camera" /\ r.camera \in Cameras
  /\ r.gone \subseteq DOMAIN detections
  /\ \A d \in r.gone : detections[d].stream = r.camera

RequestInv(r) ==
  \/ r = Nothing
  \/ r.op = "refresh"
  \/ r.op = "delete"
  \/ r.op = "update" /\ r.old \in Columns /\ r.new \in Columns
  \/ r.op = "cascade" /\ r.camera \in Cameras
  \/ ResolveInv(r)
  \/ CameraInv(r)

RequestsInv ==
  /\ req = [q \in Requests |-> req[q]]
  /\ \A q \in Requests : RequestInv(req[q])
  /\ \A p, q \in Requests :
       p # q /\ req[p].op = "camera" /\ req[q].op = "camera" => req[p].gone \cap req[q].gone = {}
  /\ count \in 0 .. MaxRequests

Undecided ==
  \A i \in Items :
    /\ Len(decisions[i]) > 0 => i \in DOMAIN items
    /\ i \in DOMAIN items /\ Len(decisions[i]) = 0 => Fresh(items[i])

IInv == RowsInv /\ ItemsInv /\ RequestsInv /\ Undecided /\ DecisionIsWhole /\ CorrectionsStay

------------------------------------------------------------------------------
(* UPDATE, column by column. *)
LEMMA UpdateItem ==
  ASSUME NEW row \in Item, NEW old \in Item, NEW new \in Item, new.detection = old.detection
  PROVE  LET r == Update(row, old, new)
         IN  /\ r \in Item /\ r.detection = row.detection
             /\ r.status = IF new.status # old.status THEN new.status ELSE row.status
             /\ r.reviewer = IF new.reviewer # old.reviewer THEN new.reviewer ELSE row.reviewer
             /\ r.blob = IF new.blob # old.blob THEN new.blob ELSE row.blob
BY DEF Update, Item

LEMMA UpdateColumns ==
  ASSUME NEW row \in Columns, NEW old \in Columns, NEW new \in Columns
  PROVE  Update(row, old, new) \in Columns
BY DEF Update, Columns

LEMMA LockedFacts ==
  \A d : d \in Locked <=> \E q \in Requests : req[q].op = "camera" /\ d \in req[q].gone
BY DEF Locked

(* A lock is taken by a transaction that has deleted, and by no other step.*)
LEMMA LockedAfter ==
  ASSUME RequestsInv, NEW q \in Requests, NEW r, req' = [req EXCEPT ![q] = r]
  PROVE  \A d \in Locked' : d \in Locked \/ (r.op = "camera" /\ d \in r.gone)
<1>1. \A p \in Requests : req'[p] = IF p = q THEN r ELSE req[p]
  BY DEF RequestsInv
<1> QED
  BY <1>1 DEF Locked

(* Items and their decisions that stay, with their detections unlocked.    *)
LEMMA ItemsKept ==
  ASSUME IInv, UNCHANGED <<items, decisions>>,
         \A i \in DOMAIN items : items[i].detection \in DOMAIN detections' \ Locked'
  PROVE  ItemsInv' /\ Undecided' /\ DecisionIsWhole' /\ CorrectionsStay'
<1>1. items' = items /\ decisions' = decisions
  OBVIOUS
<1>2. ItemsInv'
  BY <1>1 DEF IInv, ItemsInv
<1>3. Undecided'
  BY <1>1 DEF IInv, Undecided, Fresh
<1>4. DecisionIsWhole'
  BY <1>1 DEF IInv, DecisionIsWhole
<1>5. CorrectionsStay'
  BY <1>1 DEF IInv, CorrectionsStay
<1> QED
  BY <1>2, <1>3, <1>4, <1>5

(* Requests in progress, when the items and the detections they name stay. *)
LEMMA Persists ==
  ASSUME IInv, NEW r, RequestInv(r),
         UNCHANGED decisions,
         \A i \in DOMAIN items : i \in DOMAIN items' /\ items'[i] = items[i],
         \A d \in DOMAIN detections : d \in DOMAIN detections' /\ detections'[d] = detections[d]
  PROVE  RequestInv(r)'
<1>1. ResolveInv(r) => ResolveInv(r)'
  BY DEF ResolveInv, Fresh
<1>2. CameraInv(r) => CameraInv(r)'
  BY DEF CameraInv
<1> QED
  BY <1>1, <1>2 DEF RequestInv

(* One request changes, the others persist. *)
LEMMA RequestsAfter ==
  ASSUME RequestsInv, NEW q \in Requests, NEW r, req' = [req EXCEPT ![q] = r],
         \A p \in Requests \ {q} : RequestInv(req[p])', RequestInv(r)',
         r.op = "camera" => r.gone \cap Locked = {},
         count' \in 0 .. MaxRequests
  PROVE  RequestsInv'
<1>1. /\ req' = [p \in Requests |-> req'[p]]
      /\ \A p \in Requests : req'[p] = IF p = q THEN r ELSE req[p]
  BY DEF RequestsInv
<1>2. \A p \in Requests : RequestInv(req[p])'
  BY <1>1
<1>3. ASSUME NEW p \in Requests, NEW o \in Requests, p # o, req'[p].op = "camera",
             req'[o].op = "camera"
      PROVE  req'[p].gone \cap req'[o].gone = {}
  BY <1>1, <1>3, LockedFacts DEF RequestsInv
<1> QED
  BY <1>1, <1>2, <1>3 DEF RequestsInv

(* A request that begins, goes on or ends, and locks nothing. *)
LEMMA RequestStep ==
  ASSUME IInv, RowsInv', NEW q \in Requests, NEW r, Step(q, r), RequestInv(r), r.op # "camera",
         UNCHANGED <<detections, items, decisions>>, count' \in 0 .. MaxRequests
  PROVE  IInv'
<1>1. req' = [req EXCEPT ![q] = r] /\ detections' = detections /\ items' = items /\ decisions' = decisions
  BY DEF Step
<1>2. \A p \in Requests \ {q} : req'[p] = req[p]
  BY <1>1 DEF IInv, RequestsInv
<1>3. \A x : RequestInv(x) => RequestInv(x)'
  BY <1>1, Persists
<1>4. RequestInv(r)' /\ \A p \in Requests \ {q} : RequestInv(req[p])'
  BY <1>2, <1>3 DEF IInv, RequestsInv
<1>5. RequestsInv'
  BY <1>1, <1>4, RequestsAfter DEF IInv
<1>6. \A i \in DOMAIN items : items[i].detection \in DOMAIN detections' \ Locked'
  BY <1>1, LockedAfter DEF IInv, ItemsInv
<1> QED
  BY <1>5, <1>6, ItemsKept DEF IInv

LEMMA RowsKept ==
  ASSUME RowsInv, UNCHANGED <<cameras, detections, watchlist>> PROVE RowsInv'
BY DEF RowsInv

LEMMA CountTyped ==
  ASSUME RequestsInv, (\E q \in Requests : Begin(q)) \/ UNCHANGED count
  PROVE  count' \in 0 .. MaxRequests
BY BackofficeAssumption DEF BackofficeAssumption, RequestsInv, Begin

------------------------------------------------------------------------------
LEMMA InitIInv == Init => IInv
<1> SUFFICES ASSUME Init PROVE IInv
  OBVIOUS
<1>1. PICK c \in Cameras : cameras = [x \in {c} |-> Seeded]
  BY DEF Init
<1>2. PICK w \in Entries, t \in Patterns : watchlist = [y \in {w} |-> [pattern |-> t, alert |-> TRUE]]
  BY DEF Init
<1>3. RowsInv
  BY <1>1, <1>2, BackofficeAssumption DEF BackofficeAssumption, Init, RowsInv, Columns
<1>4. \A q \in Requests : req[q] = Nothing /\ req[q].op = "none"
  BY DEF Init, Nothing
<1>5. DOMAIN items = {} /\ items = [x \in {} |-> x]
  BY DEF Init
<1>6. decisions = [x \in Items |-> << >>]
  BY DEF Init
<1>7. ItemsInv
  BY <1>5, <1>6 DEF ItemsInv
<1>8. RequestsInv
  BY <1>4, BackofficeAssumption DEF BackofficeAssumption, Init, RequestsInv, RequestInv
<1>9. Undecided
  BY <1>5, <1>6 DEF Undecided
<1>10. DecisionIsWhole /\ CorrectionsStay
  BY <1>5 DEF DecisionIsWhole, CorrectionsStay
<1> QED
  BY <1>3, <1>7, <1>8, <1>9, <1>10 DEF IInv

------------------------------------------------------------------------------
(* review.py *)

LEMMA ResolvedFacts ==
  ASSUME NEW old \in Item, NEW u \in Reviewers, NEW s \in Statuses, NEW c \in {None} \cup Corrections
  PROVE  LET new == Resolved(old, u, s, c)
         IN  /\ new \in Item /\ new.detection = old.detection
             /\ new.status = s /\ new.reviewer = ReviewerId(u) /\ ReviewerId(u) \in Users \cup {None}
             /\ new.blob = BlobAfter(old.blob, s, c)
<1>1. ReviewerId(u) \in Users \cup {None}
  BY DEF ReviewerId, Reviewers
<1>2. BlobAfter(old.blob, s, c) \in Blobs
  BY DEF BlobAfter, Item, Blobs
<1> QED
  BY <1>1, <1>2 DEF Resolved, Item

LEMMA LoadItemStep == ASSUME IInv, NEW q \in Requests, LoadItem(q) PROVE IInv'
<1>1. PICK i \in DOMAIN items, u \in Reviewers, s \in Statuses, c \in {None} \cup Corrections :
        Step(q, [op |-> "resolve", id |-> i, old |-> items[i],
                 new |-> Resolved(items[i], u, s, c),
                 decision |-> [status |-> s, reviewer |-> ReviewerId(u),
                               corrected |-> IF s = "flagged" THEN c ELSE None]])
  BY DEF LoadItem
<1> DEFINE old == items[i]
           new == Resolved(items[i], u, s, c)
           dec == [status |-> s, reviewer |-> ReviewerId(u),
                   corrected |-> IF s = "flagged" THEN c ELSE None]
           r == [op |-> "resolve", id |-> i, old |-> old, new |-> new, decision |-> dec]
<1>2. old \in Item /\ i \in Items
  BY DEF IInv, ItemsInv
<1>3. /\ new \in Item /\ new.detection = old.detection
      /\ new.status = s /\ new.reviewer = ReviewerId(u) /\ ReviewerId(u) \in Users \cup {None}
      /\ new.blob = BlobAfter(old.blob, s, c)
  BY <1>2, ResolvedFacts
<1>4. /\ dec \in Decision /\ dec.status = s /\ dec.reviewer = ReviewerId(u)
      /\ dec.corrected = IF s = "flagged" THEN c ELSE None
  BY <1>3 DEF Decision
<1> HIDE DEF old, new, dec
<1>5. \/ new.blob = old.blob /\ (dec.corrected # None => old.blob.filled)
      \/ /\ new.blob = [filled |-> TRUE, corrected |-> dec.corrected]
         /\ dec.corrected # None /\ ~ old.blob.filled
  BY <1>3, <1>4 DEF BlobAfter
<1>6. Fresh(old) \/ Len(decisions[i]) >= 1
  <2>1. Len(decisions[i]) \in Nat
    BY <1>2 DEF IInv, ItemsInv
  <2> QED
    BY <1>2, <2>1 DEF IInv, Undecided, old
<1>7. ResolveInv(r)
  BY <1>2, <1>3, <1>4, <1>5, <1>6 DEF ResolveInv, old
<1>8. RowsInv' /\ UNCHANGED <<detections, items, decisions>> /\ count' \in 0 .. MaxRequests
  BY RowsKept, CountTyped DEF LoadItem, IInv, tables
<1>9. Step(q, r) /\ RequestInv(r) /\ r.op # "camera"
  BY <1>1, <1>7 DEF RequestInv, old, new, dec
<1> QED
  BY <1>8, <1>9, RequestStep

(* A resolution is committed over whatever became of the item meanwhile.   *)
LEMMA CommitItemStep == ASSUME IInv, NEW q \in Requests, CommitItem(q) PROVE IInv'
<1> DEFINE r == req[q]
           i == r.id
           row == items[i]
           row1 == Update(row, r.old, r.new)
           ds == decisions[i]
           ds1 == Append(ds, r.decision)
           n == Len(ds)
<1>1. /\ r.op = "resolve" /\ items' = [items EXCEPT ![i] = row1]
      /\ decisions' = [decisions EXCEPT ![i] = ds1] /\ req' = [req EXCEPT ![q] = Nothing]
      /\ UNCHANGED <<cameras, detections, watchlist, count, dead>>
  BY DEF CommitItem, Finish, Step
<1>2. ResolveInv(r)
  BY <1>1 DEF IInv, RequestsInv, RequestInv, CameraInv, Nothing
<1>3. /\ i \in DOMAIN items /\ i \in Items /\ row \in Item /\ r.old \in Item /\ r.new \in Item
      /\ r.decision \in Decision /\ ds \in Seq(Decision) /\ n \in Nat
  BY <1>2 DEF ResolveInv, IInv, ItemsInv
<1>4. /\ row1 \in Item /\ row1.detection = row.detection
      /\ row1.status = IF r.new.status # r.old.status THEN r.new.status ELSE row.status
      /\ row1.reviewer = IF r.new.reviewer # r.old.reviewer THEN r.new.reviewer ELSE row.reviewer
      /\ row1.blob = IF r.new.blob # r.old.blob THEN r.new.blob ELSE row.blob
  BY <1>2, <1>3, UpdateItem DEF ResolveInv
<1>5. /\ ds1 \in Seq(Decision) /\ Len(ds1) = n + 1 /\ ds1[n + 1] = r.decision
      /\ \A k \in 1 .. n : ds1[k] = ds[k]
  BY <1>3
<1>6. /\ r.decision.status \in Statuses /\ r.new.status = r.decision.status
      /\ r.new.reviewer = r.decision.reviewer /\ r.new.status # "pending"
  BY <1>2, <1>3, BackofficeAssumption DEF BackofficeAssumption, ResolveInv, Decision, Statuses
<1>7. row.blob.filled => row1.blob.filled
  BY <1>2, <1>4 DEF ResolveInv
<1>17. \/ Fresh(r.old)
       \/ n >= 1 /\ (n = 1 => r.old.status = row.status /\ r.old.reviewer = row.reviewer)
  BY <1>2 DEF ResolveInv
<1>18. Nothing.op # "camera"
  BY DEF Nothing
<1> HIDE DEF r, i, row, row1, ds, ds1
<1>8. /\ DOMAIN items' = DOMAIN items /\ items'[i] = row1 /\ decisions'[i] = ds1
      /\ \A j \in DOMAIN items \ {i} : items'[j] = items[j]
      /\ \A j \in Items \ {i} : decisions'[j] = decisions[j]
      /\ decisions' \in [Items -> Seq(Decision)] /\ items' \in [DOMAIN items -> Item]
  BY <1>1, <1>3, <1>4, <1>5 DEF IInv, ItemsInv
<1>9. RowsInv'
  BY <1>1, RowsKept DEF IInv
<1>10. ItemsInv'
  <2>1. \A d \in Locked' : d \in Locked
    BY <1>1, <1>18, LockedAfter DEF IInv
  <2>2. \A j \in DOMAIN items : items'[j].detection = items[j].detection
    BY <1>4, <1>8 DEF row
  <2> QED
    BY <1>1, <1>8, <2>1, <2>2 DEF IInv, ItemsInv
<1>11. RequestsInv'
  <2>1. ASSUME NEW x, ResolveInv(x) PROVE ResolveInv(x)'
    <3>1. CASE x.id = i
      <4>1. x.old.blob.filled => items'[x.id].blob.filled
        BY <1>7, <1>8, <2>1, <3>1 DEF ResolveInv, row
      <4>2. Fresh(x.old) \/ n >= 1
        BY <2>1, <3>1 DEF ResolveInv, ds
      <4>3. Fresh(x.old) \/ (Len(decisions'[x.id]) >= 1 /\ Len(decisions'[x.id]) # 1)
        BY <1>3, <1>5, <1>8, <3>1, <4>2
      <4> QED
        BY <1>8, <2>1, <4>1, <4>3 DEF ResolveInv, Fresh
    <3>2. CASE x.id # i
      <4>1. x.id \in DOMAIN items /\ x.id \in Items
        BY <2>1 DEF ResolveInv, IInv, ItemsInv
      <4>2. items'[x.id] = items[x.id] /\ decisions'[x.id] = decisions[x.id]
        BY <1>8, <3>2, <4>1
      <4> QED
        BY <1>8, <2>1, <4>1, <4>2 DEF ResolveInv, Fresh
    <3> QED
      BY <3>1, <3>2
  <2>2. ASSUME NEW x, RequestInv(x) PROVE RequestInv(x)'
    BY <1>1, <2>1, <2>2 DEF RequestInv, CameraInv
  <2>3. \A p \in Requests \ {q} : req'[p] = req[p] /\ RequestInv(req[p])
    BY <1>1 DEF IInv, RequestsInv
  <2>4. \A p \in Requests \ {q} : RequestInv(req[p])'
    BY <2>2, <2>3
  <2>5. RequestInv(Nothing)' /\ Nothing.op # "camera"
    BY DEF RequestInv, Nothing
  <2> QED
    BY <1>1, <2>4, <2>5, RequestsAfter DEF IInv, RequestsInv
<1>12. Undecided'
  BY <1>3, <1>5, <1>8 DEF IInv, Undecided, Fresh
<1>13. DecisionIsWhole'
  <2>1. ASSUME n <= 1, r.decision.reviewer # None
        PROVE  row1.status = r.decision.status /\ row1.reviewer = r.decision.reviewer
    <3>1. CASE Fresh(r.old)
      BY <1>4, <1>6, <2>1, <3>1 DEF Fresh
    <3>2. CASE ~ Fresh(r.old)
      <4>1. n >= 1 /\ (n = 1 => r.old.status = row.status /\ r.old.reviewer = row.reviewer)
        BY <1>17, <3>2
      <4>2. n = 1
        <5>1. n \in Nat /\ n <= 1 /\ n >= 1
          BY <1>3, <2>1, <4>1
        <5> HIDE DEF n
        <5> QED
          BY <5>1
      <4>3. r.old.status = row.status /\ r.old.reviewer = row.reviewer
        BY <4>1, <4>2
      <4> QED
        BY <1>4, <1>6, <4>3
    <3> QED
      BY <3>1, <3>2
  <2> SUFFICES ASSUME NEW j \in DOMAIN items, Len(decisions'[j]) \in 1 .. 2,
                      \A k \in 1 .. Len(decisions'[j]) : decisions'[j][k].reviewer # None
               PROVE  \E k \in 1 .. Len(decisions'[j]) :
                        /\ items'[j].status = decisions'[j][k].status
                        /\ items'[j].reviewer = decisions'[j][k].reviewer
    BY <1>8 DEF DecisionIsWhole
  <2>2. CASE j = i
    <3>1. n + 1 \in 1 .. Len(decisions'[j]) /\ n <= 1 /\ r.decision.reviewer # None
      BY <1>3, <1>5, <1>8, <2>2
    <3> QED
      BY <1>5, <1>8, <2>1, <2>2, <3>1
  <2>3. CASE j # i
    BY <1>8, <2>3 DEF IInv, DecisionIsWhole, ItemsInv
  <2> QED
    BY <2>2, <2>3
<1>14. CorrectionsStay'
  <2> DEFINE entered(t) == {k \in 1 .. Len(t) : t[k].corrected # None}
             Kept(item, t) ==
               /\ item.blob.corrected # None => \E k \in entered(t) : t[k].corrected = item.blob.corrected
               /\ item.blob.corrected = None /\ entered(t) # {} => item.blob.filled
  <2>1. entered(ds1) = {k \in 1 .. n + 1 : ds1[k].corrected # None}
    BY <1>5
  <2>2. ASSUME NEW j \in DOMAIN items, j # i PROVE Kept(items'[j], decisions'[j])
    BY <1>8, <2>2 DEF IInv, CorrectionsStay, ItemsInv
  <2>3. Kept(row1, ds1)
    <3>1. CASE r.new.blob = r.old.blob /\ (r.decision.corrected # None => r.old.blob.filled)
      <4>1. row1.blob = row.blob /\ (r.decision.corrected # None => row.blob.filled)
        BY <1>2, <1>4, <3>1 DEF ResolveInv, row, i
      <4>2. /\ row.blob.corrected # None => \E k \in 1 .. n : ds[k].corrected = row.blob.corrected
            /\ row.blob.corrected = None /\ (\E k \in 1 .. n : ds[k].corrected # None) => row.blob.filled
        BY <1>3 DEF IInv, CorrectionsStay, row, ds
      <4> QED
        BY <1>3, <1>5, <2>1, <4>1, <4>2
    <3>2. CASE /\ r.new.blob = [filled |-> TRUE, corrected |-> r.decision.corrected]
               /\ r.decision.corrected # None /\ ~ r.old.blob.filled
      <4>1. row1.blob.filled /\ row1.blob.corrected = r.decision.corrected
        BY <1>4, <3>2
      <4>2. n + 1 \in entered(ds1)
        BY <1>3, <1>5, <2>1, <3>2
      <4> QED
        BY <1>5, <4>1, <4>2
    <3> QED
      BY <1>2, <3>1, <3>2 DEF ResolveInv
  <2>4. ASSUME NEW j \in DOMAIN items PROVE Kept(items'[j], decisions'[j])
    BY <1>8, <2>2, <2>3
  <2> QED
    BY <1>8, <2>4 DEF CorrectionsStay
<1> QED
  BY <1>9, <1>10, <1>11, <1>12, <1>13, <1>14 DEF IInv

------------------------------------------------------------------------------
(* watchlist.py *)

LEMMA WatchlistRows ==
  ASSUME RowsInv, UNCHANGED <<cameras, detections>>, watchlist' \in [DOMAIN watchlist' -> Columns]
  PROVE  RowsInv'
BY DEF RowsInv

LEMMA SubmittedColumns ==
  ASSUME NEW new \in Submitted, validate_regex_pattern(new.pattern)
  PROVE  new \in Columns
BY DEF Submitted, Columns, validate_regex_pattern

LEMMA CreateWatchlistStep == ASSUME IInv, NEW q \in Requests, create_watchlist(q) PROVE IInv'
<1>1. PICK id \in Entries \ (DOMAIN watchlist \cup dead), new \in Submitted :
        /\ validate_regex_pattern(new.pattern)
        /\ watchlist' = With(watchlist, id, new)
        /\ Step(q, [op |-> "refresh", id |-> id])
  BY DEF create_watchlist
<1>2. new \in Columns
  BY <1>1, SubmittedColumns
<1>3. watchlist' \in [DOMAIN watchlist' -> Columns]
  BY <1>1, <1>2 DEF IInv, RowsInv, With
<1>4. RowsInv' /\ UNCHANGED <<detections, items, decisions>> /\ count' \in 0 .. MaxRequests
  BY <1>3, WatchlistRows, CountTyped DEF create_watchlist, IInv
<1> DEFINE r == [op |-> "refresh", id |-> id]
<1>5. Step(q, r) /\ RequestInv(r) /\ r.op # "camera"
  BY <1>1 DEF RequestInv
<1> QED
  BY <1>4, <1>5, RequestStep

LEMMA LoadEntryStep == ASSUME IInv, NEW q \in Requests, LoadEntry(q) PROVE IInv'
<1>1. RowsInv' /\ UNCHANGED <<detections, items, decisions>> /\ count' \in 0 .. MaxRequests
  BY RowsKept, CountTyped DEF LoadEntry, IInv, tables
<1>2. PICK id \in DOMAIN watchlist :
        \/ \E new \in Submitted :
             /\ validate_regex_pattern(new.pattern)
             /\ Step(q, [op |-> "update", id |-> id, old |-> watchlist[id], new |-> new])
        \/ Step(q, [op |-> "delete", id |-> id])
  BY DEF LoadEntry
<1>3. CASE Step(q, [op |-> "delete", id |-> id])
  <2> DEFINE r == [op |-> "delete", id |-> id]
  <2>1. Step(q, r) /\ RequestInv(r) /\ r.op # "camera"
    BY <1>3 DEF RequestInv
  <2> QED
    BY <1>1, <2>1, RequestStep
<1>4. ASSUME NEW new \in Submitted, validate_regex_pattern(new.pattern),
             Step(q, [op |-> "update", id |-> id, old |-> watchlist[id], new |-> new])
      PROVE  IInv'
  <2> DEFINE r == [op |-> "update", id |-> id, old |-> watchlist[id], new |-> new]
  <2>1. watchlist[id] \in Columns /\ new \in Columns
    BY <1>4, SubmittedColumns DEF IInv, RowsInv
  <2>2. Step(q, r) /\ RequestInv(r) /\ r.op # "camera"
    BY <1>4, <2>1 DEF RequestInv
  <2> QED
    BY <1>1, <2>2, RequestStep
<1> QED
  BY <1>2, <1>3, <1>4

LEMMA FinishStep ==
  ASSUME IInv, RowsInv', NEW q \in Requests, Finish(q),
         UNCHANGED <<detections, items, count, decisions>>
  PROVE  IInv'
<1>1. RequestInv(Nothing) /\ Nothing.op # "camera"
  BY DEF RequestInv, Nothing
<1>2. count' \in 0 .. MaxRequests /\ Step(q, Nothing)
  BY CountTyped DEF IInv, Finish
<1> QED
  BY <1>1, <1>2, RequestStep

LEMMA UpdateWatchlistStep == ASSUME IInv, NEW q \in Requests, update_watchlist(q) PROVE IInv'
<1> DEFINE id == req[q].id
<1>1. req[q].old \in Columns /\ req[q].new \in Columns
  <2>1. RequestInv(req[q]) /\ req[q].op = "update"
    BY DEF update_watchlist, IInv, RequestsInv
  <2> QED
    BY <2>1 DEF RequestInv, ResolveInv, CameraInv, Nothing
<1>2. CASE id \in DOMAIN watchlist
  <2> DEFINE new == Update(watchlist[id], req[q].old, req[q].new)
             r == [op |-> "refresh", id |-> id]
  <2>1. new \in Columns
    BY <1>1, <1>2, UpdateColumns DEF IInv, RowsInv
  <2>2. watchlist' = [watchlist EXCEPT ![id] = new]
    BY <1>2 DEF update_watchlist, SaveEntry
  <2>3. watchlist' \in [DOMAIN watchlist' -> Columns]
    <3> HIDE DEF new
    <3> QED
      BY <2>1, <2>2 DEF IInv, RowsInv
  <2>4. RowsInv' /\ UNCHANGED <<detections, items, decisions>> /\ count' \in 0 .. MaxRequests
    BY <2>3, WatchlistRows, CountTyped DEF update_watchlist, IInv
  <2>5. Step(q, r) /\ RequestInv(r) /\ r.op # "camera"
    BY <1>2 DEF RequestInv, update_watchlist
  <2> QED
    BY <2>4, <2>5, RequestStep
<1>3. CASE id \notin DOMAIN watchlist
  <2>1. /\ UNCHANGED <<cameras, detections, items, watchlist, count, decisions>>
        /\ Finish(q)
    BY <1>3 DEF update_watchlist, SaveEntry
  <2> QED
    BY <2>1, RowsKept, FinishStep DEF IInv
<1> QED
  BY <1>2, <1>3

LEMMA RefreshStep == ASSUME IInv, NEW q \in Requests, Refresh(q) PROVE IInv'
BY RowsKept, FinishStep DEF Refresh, tables, IInv

LEMMA DeleteWatchlistStep == ASSUME IInv, NEW q \in Requests, delete_watchlist(q) PROVE IInv'
<1>1. watchlist' \in [DOMAIN watchlist' -> Columns]
  BY DEF delete_watchlist, Without, IInv, RowsInv
<1> QED
  BY <1>1, WatchlistRows, FinishStep DEF delete_watchlist, IInv

------------------------------------------------------------------------------
(* streams.py *)

(* A step without a request, which leaves the rows there are as they are.  *)
LEMMA RequestsStay ==
  ASSUME IInv, UNCHANGED <<req, decisions>>,
         \A i \in DOMAIN items : i \in DOMAIN items' /\ items'[i] = items[i],
         \A d \in DOMAIN detections : d \in DOMAIN detections' /\ detections'[d] = detections[d],
         count' \in 0 .. MaxRequests
  PROVE  RequestsInv' /\ Locked' = Locked
<1>1. \A x : RequestInv(x) => RequestInv(x)'
  BY Persists
<1>2. \A q \in Requests : RequestInv(req[q])'
  BY <1>1 DEF IInv, RequestsInv
<1> QED
  BY <1>2 DEF IInv, RequestsInv, Locked

LEMMA CreateStreamStep == ASSUME IInv, NEW q \in Requests, create_stream(q) PROVE IInv'
<1>1. PICK c \in Cameras \ (DOMAIN cameras \cup dead), r \in Regions : cameras' = With(cameras, c, r)
  BY DEF create_stream
<1>2. UNCHANGED <<detections, items, watchlist, req, decisions>> /\ count' \in 0 .. MaxRequests
  BY CountTyped DEF create_stream, IInv
<1>3. RowsInv'
  BY <1>1, <1>2 DEF IInv, RowsInv, With
<1>4. RequestsInv' /\ Locked' = Locked
  BY <1>2, RequestsStay
<1>5. \A i \in DOMAIN items : items[i].detection \in DOMAIN detections' \ Locked'
  BY <1>2, <1>4 DEF IInv, ItemsInv
<1> QED
  BY <1>2, <1>3, <1>4, <1>5, ItemsKept DEF IInv

LEMMA LoadStreamStep == ASSUME IInv, NEW q \in Requests, LoadStream(q) PROVE IInv'
<1>1. PICK c \in DOMAIN cameras : Step(q, [op |-> "cascade", camera |-> c])
  BY DEF LoadStream
<1> DEFINE r == [op |-> "cascade", camera |-> c]
<1>2. RowsInv' /\ UNCHANGED <<detections, items, decisions>> /\ count' \in 0 .. MaxRequests
  BY RowsKept, CountTyped DEF LoadStream, IInv, tables
<1>3. c \in Cameras
  BY DEF IInv, RowsInv
<1>4. Step(q, r) /\ RequestInv(r) /\ r.op # "camera"
  BY <1>1, <1>3 DEF RequestInv
<1> QED
  BY <1>2, <1>4, RequestStep

LEMMA DeleteDetectionsStep == ASSUME IInv, NEW q \in Requests, DeleteDetections(q) PROVE IInv'
<1> DEFINE c == req[q].camera
           ds == {d \in DOMAIN detections : detections[d].stream = c}
<1>1. ds \cap Locked = {} /\ UNCHANGED <<cameras, items, watchlist, count, decisions>>
  BY DEF DeleteDetections
<1>2. c \in Cameras
  <2>1. RequestInv(req[q]) /\ req[q].op = "cascade"
    BY DEF DeleteDetections, IInv, RequestsInv
  <2> QED
    BY <2>1 DEF RequestInv, ResolveInv, CameraInv, Nothing
<1>3. CASE Reviewed(ds)
  <2>1. Finish(q) /\ UNCHANGED detections
    BY <1>3 DEF DeleteDetections
  <2> QED
    BY <1>1, <2>1, RowsKept, FinishStep DEF IInv
<1>4. CASE ~ Reviewed(ds)
  <2> PICK r : r = [op |-> "camera", camera |-> c, gone |-> ds]
    OBVIOUS
  <2>1. req' = [req EXCEPT ![q] = r] /\ UNCHANGED detections
    BY <1>4 DEF DeleteDetections, Step, Deletes
  <2>2. RowsInv'
    BY <1>1, <2>1, RowsKept DEF IInv
  <2>3. \A x : RequestInv(x) => RequestInv(x)'
    BY <1>1, <2>1, Persists
  <2>4. RequestInv(r)
    BY <1>2 DEF RequestInv, CameraInv
  <2>5. r.op = "camera" /\ r.gone \cap Locked = {} /\ r.gone = ds
    BY <1>1
  <2>6. RequestInv(r)' /\ \A p \in Requests \ {q} : RequestInv(req[p])'
    <3>1. \A p \in Requests \ {q} : req'[p] = req[p] /\ RequestInv(req[p])
      BY <2>1 DEF IInv, RequestsInv
    <3> QED
      BY <2>1, <2>3, <2>4, <3>1
  <2>7. RequestsInv'
    <3>1. RequestsInv /\ count' \in 0 .. MaxRequests
      BY <1>1, CountTyped DEF IInv
    <3> QED
      BY <2>1, <2>5, <2>6, <3>1, RequestsAfter
  <2>8. \A d \in Locked' : d \in Locked \/ d \in ds
    BY <2>1, <2>5, LockedAfter DEF IInv
  <2>9. \A i \in DOMAIN items : items[i].detection \in DOMAIN detections' \ Locked'
    BY <1>4, <2>1, <2>8 DEF IInv, ItemsInv, Reviewed
  <2> QED
    BY <1>1, <2>2, <2>7, <2>9, ItemsKept DEF IInv
<1> QED
  BY <1>3, <1>4

(* What remains is referred to, what is gone was not. *)
LEMMA DeleteStreamStep == ASSUME IInv, NEW q \in Requests, delete_stream(q) PROVE IInv'
<1> DEFINE c == req[q].camera
           gone == req[q].gone
           left == Left(q)
<1>1. /\ req[q].op = "camera" /\ Finish(q) /\ req' = [req EXCEPT ![q] = Nothing]
      /\ UNCHANGED <<items, watchlist, count, decisions>>
  BY DEF delete_stream, Finish, Step
<1>2. CASE left # {}
  <2>1. UNCHANGED <<cameras, detections>>
    BY <1>2 DEF delete_stream
  <2> QED
    BY <1>1, <2>1, RowsKept, FinishStep DEF IInv
<1>3. CASE left = {}
  <2>1. cameras' = Without(cameras, {c}) /\ detections' = Without(detections, gone)
    BY <1>3 DEF delete_stream
  <2>2. /\ DOMAIN detections' = DOMAIN detections \ gone
        /\ \A d \in DOMAIN detections' : detections'[d] = detections[d]
        /\ DOMAIN cameras' = DOMAIN cameras \ {c}
        /\ \A x \in DOMAIN cameras' : cameras'[x] = cameras[x]
    BY <2>1 DEF Without
  <2>3. RowsInv'
    BY <1>1, <1>3, <2>2 DEF IInv, RowsInv, Left
  <2>4. \A p \in Requests \ {q} : req'[p] = req[p] /\ RequestInv(req[p])
    BY <1>1 DEF IInv, RequestsInv
  <2>5. ASSUME NEW p \in Requests \ {q} PROVE RequestInv(req[p])'
    <3>1. CASE CameraInv(req[p])
      <4>1. req[p].gone \cap gone = {}
        BY <1>1, <3>1 DEF IInv, RequestsInv, CameraInv
      <4>2. CameraInv(req[p])'
        BY <2>2, <2>4, <3>1, <4>1 DEF CameraInv
      <4> QED
        BY <4>2 DEF RequestInv
    <3>2. CASE ResolveInv(req[p])
      <4>1. ResolveInv(req[p])'
        BY <1>1, <2>4, <3>2 DEF ResolveInv, Fresh
      <4> QED
        BY <4>1 DEF RequestInv
    <3> QED
      BY <2>4, <3>1, <3>2 DEF RequestInv
  <2>6. RequestInv(Nothing)' /\ Nothing.op # "camera"
    BY DEF RequestInv, Nothing
  <2>7. RequestsInv'
    BY <1>1, <2>5, <2>6, RequestsAfter, CountTyped DEF IInv
  <2>8. \A d \in Locked' : d \in Locked
    BY <1>1, <2>6, LockedAfter DEF IInv
  <2>9. gone \subseteq Locked
    BY <1>1, LockedFacts
  <2>10. \A i \in DOMAIN items : items[i].detection \in DOMAIN detections' \ Locked'
    BY <2>2, <2>8, <2>9 DEF IInv, ItemsInv
  <2> QED
    BY <1>1, <2>3, <2>7, <2>10, ItemsKept DEF IInv
<1> QED
  BY <1>2, <1>3

------------------------------------------------------------------------------
(* Rows written from outside. *)

LEMMA RecordDetectionStep == ASSUME IInv, RecordDetection PROVE IInv'
<1>1. PICK d \in Detections \ (DOMAIN detections \cup dead), c \in DOMAIN cameras, p \in Plates :
        \E s \in DOMAIN cameras \cup {None} :
          detections' = With(detections, d, [camera |-> c, stream |-> s, plate |-> p])
  BY DEF RecordDetection
<1>2. UNCHANGED <<cameras, items, watchlist, req, decisions>> /\ count' \in 0 .. MaxRequests
  BY CountTyped DEF RecordDetection, IInv
<1>3. /\ DOMAIN detections' = DOMAIN detections \cup {d}
      /\ \A x \in DOMAIN detections : detections'[x] = detections[x]
      /\ \E s \in DOMAIN cameras \cup {None} :
           detections'[d] = [camera |-> c, stream |-> s, plate |-> p]
  BY <1>1 DEF With
<1>4. RowsInv'
  BY <1>1, <1>2, <1>3 DEF IInv, RowsInv
<1>5. RequestsInv' /\ Locked' = Locked
  BY <1>2, <1>3, RequestsStay
<1>6. \A i \in DOMAIN items : items[i].detection \in DOMAIN detections' \ Locked'
  BY <1>3, <1>5 DEF IInv, ItemsInv
<1> QED
  BY <1>2, <1>4, <1>5, <1>6, ItemsKept DEF IInv

LEMMA QueueForReviewStep == ASSUME IInv, QueueForReview PROVE IInv'
<1>1. PICK i \in Items \ DOMAIN items, d \in DOMAIN detections \ Locked, filled \in BOOLEAN :
        items' = With(items, i, Queued(d, filled))
  BY DEF QueueForReview
<1>2. UNCHANGED <<cameras, detections, watchlist, req, decisions>> /\ count' \in 0 .. MaxRequests
  BY CountTyped DEF QueueForReview, IInv
<1>3. /\ DOMAIN items' = DOMAIN items \cup {i}
      /\ \A j \in DOMAIN items : items'[j] = items[j] /\ j # i
      /\ items'[i] = Queued(d, filled)
  BY <1>1 DEF With
<1>4. RowsInv'
  BY <1>2, RowsKept DEF IInv
<1>5. RequestsInv' /\ Locked' = Locked
  BY <1>2, <1>3, RequestsStay
<1>6. Len(decisions[i]) = 0 /\ decisions'[i] = decisions[i]
  <2>1. Len(decisions[i]) \in Nat
    BY DEF IInv, ItemsInv
  <2> QED
    BY <1>1, <1>2, <2>1 DEF IInv, Undecided
<1>7. /\ Queued(d, filled) \in Item /\ Queued(d, filled).detection = d
      /\ Queued(d, filled).blob.corrected = None /\ Fresh(Queued(d, filled))
  BY DEF Queued, Item, Blobs, Fresh, IInv, RowsInv
<1>8. ItemsInv'
  <2>1. items' \in [DOMAIN items' -> Item]
    BY <1>1, <1>3, <1>7 DEF IInv, ItemsInv, With
  <2> QED
    BY <1>2, <1>3, <1>5, <1>7, <2>1 DEF IInv, ItemsInv
<1>9. Undecided'
  BY <1>2, <1>3, <1>7 DEF IInv, Undecided, Fresh
<1>10. DecisionIsWhole'
  BY <1>2, <1>3, <1>6 DEF IInv, DecisionIsWhole
<1>11. CorrectionsStay'
  BY <1>2, <1>3, <1>6, <1>7 DEF IInv, CorrectionsStay
<1> QED
  BY <1>4, <1>5, <1>8, <1>9, <1>10, <1>11 DEF IInv

------------------------------------------------------------------------------
LEMMA NextIInv == IInv /\ [Next]_vars => IInv'
<1> SUFFICES ASSUME IInv, [Next]_vars PROVE IInv'
  OBVIOUS
<1>1. ASSUME NEW q \in Requests,
             \/ LoadItem(q) \/ CommitItem(q)
             \/ create_watchlist(q) \/ LoadEntry(q) \/ update_watchlist(q)
             \/ delete_watchlist(q) \/ Refresh(q)
             \/ create_stream(q) \/ LoadStream(q) \/ DeleteDetections(q) \/ delete_stream(q)
      PROVE  IInv'
  BY <1>1, LoadItemStep, CommitItemStep, CreateWatchlistStep, LoadEntryStep, UpdateWatchlistStep,
     DeleteWatchlistStep, RefreshStep, CreateStreamStep, LoadStreamStep, DeleteDetectionsStep,
     DeleteStreamStep
<1>2. CASE RecordDetection
  BY <1>2, RecordDetectionStep
<1>3. CASE QueueForReview
  BY <1>3, QueueForReviewStep
<1>4. CASE UNCHANGED vars
  <2>1. UNCHANGED <<cameras, detections, items, watchlist, req, count, decisions>>
    BY <1>4 DEF vars
  <2>2. RowsInv' /\ count' \in 0 .. MaxRequests
    BY <2>1, RowsKept, CountTyped DEF IInv
  <2>3. RequestsInv' /\ Locked' = Locked
    BY <2>1, <2>2, RequestsStay
  <2>4. \A i \in DOMAIN items : items[i].detection \in DOMAIN detections' \ Locked'
    BY <2>1, <2>3 DEF IInv, ItemsInv
  <2> QED
    BY <2>1, <2>2, <2>3, <2>4, ItemsKept DEF IInv
<1> QED
  BY <1>1, <1>2, <1>3, <1>4 DEF Next

LEMMA SpecIInv == Spec => []IInv
BY InitIInv, NextIInv, PTL DEF Spec

(* Every row of cameras, detections, review_queue and watchlist has its    *)
(* columns and refers to rows that exist, whatever requests are in         *)
(* progress (db/models, api/routers).                                      *)
THEOREM SpecTypeOK == Spec => []TypeOK
<1>1. IInv => TypeOK
  BY DEF IInv, RowsInv, ItemsInv, RequestsInv, Item, TypeOK
<1> QED
  BY <1>1, SpecIInv, PTL

(* Two reviewers who race for a pending item leave the decision of one of  *)
(* them, status and reviewer together (review.py, resolve_review_item).    *)
THEOREM SpecDecisionIsWhole == Spec => []DecisionIsWhole
<1>1. IInv => DecisionIsWhole
  BY DEF IInv
<1> QED
  BY <1>1, SpecIInv, PTL

(* No approval or rejection erases a correction, although each writes back *)
(* a row it loaded earlier (review.py, resolve_review_item).               *)
THEOREM SpecCorrectionsStay == Spec => []CorrectionsStay
<1>1. IInv => CorrectionsStay
  BY DEF IInv
<1> QED
  BY <1>1, SpecIInv, PTL

(* The seven reads of data.py show a user rows of assigned regions only    *)
(* (the events of a plate by the region of the plate), whatever the tables *)
(* hold and whatever the filters are: it rests on no invariant.            *)
THEOREM SpecReadsStayInScope == Spec => []ReadsStayInScope
<1>1. ASSUME NEW u \in Users, NEW r
      PROVE  /\ \A x \in list_regions(u).rows : MayRead(u, x)
             /\ \A c \in list_cameras_for_region(u, r).rows : MayRead(u, cameras[c])
  BY DEF list_regions, list_cameras_for_region, _require_region_access,
         _require_any_region_access, _scoped_region_ids, Unscoped, Only, Answer, Refused, MayRead
<1>2. ASSUME NEW u \in Users, NEW c
      PROVE  \A x \in get_camera(u, c).rows : MayRead(u, cameras[x])
  BY DEF get_camera, _require_region_access, _scoped_region_ids, Only, Answer, Refused, MayRead
<1>3. ASSUME NEW u \in Users, NEW p
      PROVE  /\ \A x \in get_plate_detail(u, p).rows : MayRead(u, PlateRegion[x])
             /\ \A d \in get_plate_events(u, p).rows : MayRead(u, PlateRegion[detections[d].plate])
  BY DEF get_plate_detail, get_plate_events, _require_region_access, _scoped_region_ids, Only,
         Answer, Refused, MayRead
<1>4. ASSUME NEW u \in Users, NEW r, NEW c
      PROVE  \A d \in list_detections(u, r, c).rows : MayRead(u, cameras[detections[d].camera])
  BY DEF list_detections, ScopedRows, _require_region_access, _require_any_region_access,
         _scoped_region_ids, Only, Answer, Refused, MayRead
<1>5. ASSUME NEW u \in Users, NEW r, NEW c
      PROVE  \A p \in list_plates(u, r, c).rows : MayRead(u, PlateRegion[p])
  BY DEF list_plates, _require_region_access, _require_any_region_access,
         _scoped_region_ids, Only, Answer, Refused, MayRead
<1>6. ReadsStayInScope
  BY <1>1, <1>2, <1>3, <1>4, <1>5 DEF ReadsStayInScope
<1> QED
  BY <1>6, PTL

-------------------------------------------------------------------------------
(* The reads of one table through its list and through its detail.         *)

LEMMA CameraReadsAgree ==
  ASSUME RowsInv, NEW u \in Subjects, NEW c \in DOMAIN cameras
  PROVE  /\ (get_camera(u, c).code = 200) = (c \in list_cameras_for_region(u, cameras[c]).rows)
         /\ (get_camera(u, c).code = 200) = (list_detections(u, None, c).code = 200)
<1> DEFINE scope == _scoped_region_ids(u)
<1>1. cameras[c] \in Regions /\ c # None
  BY BackofficeAssumption DEF BackofficeAssumption, RowsInv
<1>2. scope.unscoped \in BOOLEAN
  BY DEF _scoped_region_ids, Unscoped, Only
<1>3. _require_region_access(scope, cameras[c]) => _require_any_region_access(scope)
  BY DEF _require_region_access, _require_any_region_access
<1>4. CASE _require_region_access(scope, cameras[c])
  <2>1. get_camera(u, c).code = 200
    BY <1>4 DEF get_camera, Answer
  <2>2. c \in list_cameras_for_region(u, cameras[c]).rows
    BY <1>1, <1>4 DEF list_cameras_for_region, Answer
  <2>3. list_detections(u, None, c).code = 200
    BY <1>3, <1>4 DEF list_detections, Answer
  <2> QED
    BY <2>1, <2>2, <2>3
<1>5. CASE ~ _require_region_access(scope, cameras[c])
  <2>1. get_camera(u, c).code = 403
    BY <1>5 DEF get_camera, Refused, Answer
  <2>2. list_cameras_for_region(u, cameras[c]).rows = {}
    BY <1>5 DEF list_cameras_for_region, Refused, Answer
  <2>3. list_detections(u, None, c).code = 403
    BY <1>1, <1>5 DEF list_detections, Refused, Answer
  <2> QED
    BY <2>1, <2>2, <2>3
<1> QED
  BY <1>4, <1>5

LEMMA PlateReadsAgree ==
  ASSUME NEW u \in Subjects, NEW p \in Plates
  PROVE  /\ (get_plate_detail(u, p).code = 200) = (p \in list_plates(u, None, None).rows)
         /\ get_plate_events(u, p).code = get_plate_detail(u, p).code
<1> DEFINE scope == _scoped_region_ids(u)
<1>1. CASE _require_region_access(scope, PlateRegion[p])
  <2>1. get_plate_detail(u, p).code = 200 /\ get_plate_events(u, p).code = 200
    BY <1>1 DEF get_plate_detail, get_plate_events, Answer
  <2>2. p \in list_plates(u, None, None).rows
    BY <1>1 DEF list_plates, _require_region_access, _require_any_region_access, Answer
  <2> QED
    BY <2>1, <2>2
<1>2. CASE ~ _require_region_access(scope, PlateRegion[p])
  <2>1. get_plate_detail(u, p).code = 403 /\ get_plate_events(u, p).code = 403
    BY <1>2 DEF get_plate_detail, get_plate_events, Refused, Answer
  <2>2. p \notin list_plates(u, None, None).rows
    BY <1>2 DEF list_plates, _require_region_access, _require_any_region_access, Refused, Answer
  <2> QED
    BY <2>1, <2>2
<1> QED
  BY <1>1, <1>2

(* What a subject is shown without a filter is what the regions it may     *)
(* list show one by one.                                                   *)
LEMMA DetectionsByRegion ==
  ASSUME RowsInv, NEW u \in Subjects
  PROVE  list_detections(u, None, None).rows =
           UNION {list_detections(u, r, None).rows : r \in list_regions(u).rows}
<1> DEFINE scope == _scoped_region_ids(u)
<1>1. CASE ~ _require_any_region_access(scope)
  BY <1>1 DEF list_detections, list_regions, Refused, Answer
<1>2. CASE _require_any_region_access(scope)
  <2>1. list_detections(u, None, None).rows = ScopedRows(scope, None, None)
    BY <1>2 DEF list_detections, Answer
  <2>2. list_regions(u).rows = {r \in Regions : scope.unscoped \/ r \in scope.regions}
    BY <1>2 DEF list_regions, Answer
  <2>3. ASSUME NEW r \in Regions, scope.unscoped \/ r \in scope.regions
        PROVE  list_detections(u, r, None).rows = ScopedRows(scope, r, None)
    BY <1>2, <2>3 DEF list_detections, _require_region_access, Answer
  <2>4. \A r \in Regions : r # None
    BY DataAccessAssumption DEF DataAccessAssumption
  <2>5. \A d \in DOMAIN detections : cameras[detections[d].camera] \in Regions
    BY DEF RowsInv
  <2> HIDE DEF scope
  <2>6. ScopedRows(scope, None, None) =
          UNION {ScopedRows(scope, r, None) : r \in list_regions(u).rows}
    BY <2>2, <2>4, <2>5 DEF ScopedRows
  <2>7. \A r \in list_regions(u).rows : list_detections(u, r, None).rows = ScopedRows(scope, r, None)
    BY <2>2, <2>3
  <2> QED
    BY <2>1, <2>6, <2>7
<1> QED
  BY <1>1, <1>2

(* The only entry at a time, under its own user and action, is found alone:*)
(* it is shown if nothing in it is NULL, and with a NULL it never is.      *)
LEMMA ExportAgrees == AuditExportAgrees
<1> DEFINE ats == {None} \cup {e.at : e \in AuditLog}
           users == {None} \cup Users
           actions == {None} \cup {e.action : e \in AuditLog}
<1>1. ASSUME NEW from, NEW to, NEW u, NEW a, NEW n, NEW g \in list_audit_log(from, to, u, a, n).rows
      PROVE  g \in export_audit_log_csv(from, to, u) /\ g.complete
  <2>1. g \in AuditLog /\ AuditLog \subseteq [user : Users, action : STRING, at : Nat, complete : BOOLEAN]
    BY DataAccessAssumption DEF DataAccessAssumption, list_audit_log, AuditConditions, Refused, Answer
  <2> QED
    BY <2>1 DEF list_audit_log, export_audit_log_csv, Refused, Answer
<1>2. ASSUME NEW e \in AuditLog, e.complete
      PROVE  e \in list_audit_log(e.at, e.at, e.user, e.action, 1).rows
  <2> DEFINE found == {f \in AuditConditions(e.at, e.at, e.user) : e.action # None => f.action = e.action}
             shown == {f \in found : Cardinality({g \in found : g.at > f.at}) < 1}
  <2>1. AuditLog \subseteq [user : Users, action : STRING, at : Nat, complete : BOOLEAN]
    BY DataAccessAssumption DEF DataAccessAssumption
  <2>2. ASSUME NEW f \in found PROVE f = e
    <3>1. e.at # None /\ e.at \in Nat /\ f.at \in Nat
      BY <2>1, DataAccessAssumption DEF DataAccessAssumption, AuditConditions
    <3>2. f.at = e.at
      BY <3>1 DEF AuditConditions
    <3> QED
      BY <3>2, DataAccessAssumption DEF DataAccessAssumption, AuditConditions
  <2>3. e \in found
    BY <2>1 DEF AuditConditions
  <2>4. {g \in found : g.at > e.at} = {}
    BY <2>1, <2>2
  <2>5. e \in shown /\ \A f \in shown : f = e
    BY <2>2, <2>3, <2>4, FS_EmptySet
  <2>6. list_audit_log(e.at, e.at, e.user, e.action, 1).rows = shown
    BY <1>2, <2>5 DEF list_audit_log, Answer
  <2> QED
    BY <2>5, <2>6
<1>3. ASSUME NEW e \in AuditLog
      PROVE  e.at \in ats /\ e.user \in users /\ e.action \in actions /\ 1 \in 1 .. MaxLimit
  BY DataAccessAssumption DEF DataAccessAssumption
<1> QED
  BY <1>1, <1>2, <1>3 DEF AuditExportAgrees

(* What a list shows can be opened and what can be opened is listed, for   *)
(* every subject and whatever is in the tables: cameras, plates,           *)
(* detections, streams and the watchlist; and every entry of the audit log *)
(* without a NULL can be listed, as it is exported (data.py, streams.py,   *)
(* audit.py, watchlist.py).                                                *)
THEOREM SpecReadsAgree == Spec => []ReadsAgree
<1>1. ASSUME IInv PROVE TableReadsAgree
  BY <1>1, CameraReadsAgree, PlateReadsAgree, DetectionsByRegion DEF TableReadsAgree, IInv
<1>2. /\ \A w \in Entries : (get_watchlist(w).code = 200) = (w \in list_watchlist(FALSE).rows)
      /\ \A c \in Cameras : (get_stream(c).code = 200) = (c \in list_streams.rows)
  BY DEF get_watchlist, list_watchlist, get_stream, list_streams, Answer, Refused
<1>3. list_watchlist(TRUE).rows \subseteq list_watchlist(FALSE).rows
  BY DEF list_watchlist, Answer
<1>4. IInv => ReadsAgree
  BY <1>1, <1>2, <1>3, ExportAgrees DEF ReadsAgree
<1> QED
  BY <1>4, SpecIInv, PTL

(* A stream goes in one step with all the detections that name it, as many *)
(* as its statistics counted, none of them under review, and no detection  *)
(* goes otherwise (streams.py, delete_stream).                             *)
THEOREM SpecCascadeIsWhole == Spec => CascadeIsWhole
<1> DEFINE closed == DOMAIN cameras \ DOMAIN cameras'
           gone == DOMAIN detections \ DOMAIN detections'
           Whole == /\ gone = {d \in DOMAIN detections : detections[d].stream \in closed}
                    /\ \A c \in closed : _stream_stats(c) = Cardinality(gone)
                    /\ ~ Reviewed(gone)
<1>1. ASSUME DOMAIN cameras \subseteq DOMAIN cameras', DOMAIN detections \subseteq DOMAIN detections'
      PROVE  Whole
  BY <1>1 DEF Reviewed
<1>2. ASSUME IInv, [Next]_vars PROVE [Whole]_vars
  <2>1. ASSUME NEW q \in Requests, delete_stream(q) PROVE Whole
    <3> DEFINE c == req[q].camera
    <3>1. CASE Left(q) # {}
      BY <1>1, <2>1, <3>1 DEF delete_stream
    <3>2. CASE Left(q) = {}
      <4>1. cameras' = Without(cameras, {c}) /\ detections' = Without(detections, req[q].gone)
        BY <2>1, <3>2 DEF delete_stream
      <4>2. RequestInv(req[q]) /\ req[q].op = "camera"
        BY <1>2, <2>1 DEF delete_stream, IInv, RequestsInv
      <4>3. CameraInv(req[q])
        BY <4>2 DEF RequestInv, ResolveInv, Nothing
      <4>4. gone = req[q].gone /\ closed = DOMAIN cameras \cap {c}
        BY <4>1, <4>3 DEF Without, CameraInv
      <4>5. \A d \in DOMAIN detections : d \in gone <=> detections[d].stream = c
        BY <3>2, <4>3, <4>4 DEF CameraInv, Left
      <4>6. c # None /\ \A d \in DOMAIN detections : detections[d].stream \in DOMAIN cameras \cup {None}
        BY <1>2, <4>3, BackofficeAssumption DEF BackofficeAssumption, CameraInv, IInv, RowsInv
      <4>7. \A d \in DOMAIN detections : d \in gone <=> detections[d].stream \in closed
        BY <4>4, <4>5, <4>6
      <4>8. \A x \in closed : {d \in DOMAIN detections : detections[d].stream = x} = gone
        BY <4>4, <4>5
      <4>9. \A x \in closed : _stream_stats(x) = Cardinality(gone)
        BY <4>8 DEF _stream_stats
      <4>10. \A d \in gone : d \in Locked
        BY <4>2, <4>4, LockedFacts
      <4>11. ~ Reviewed(gone)
        BY <1>2, <4>10 DEF IInv, ItemsInv, Reviewed
      <4>12. gone = {d \in DOMAIN detections : detections[d].stream \in closed}
        BY <4>7
      <4> QED
        BY <4>9, <4>11, <4>12
    <3> QED
      BY <3>1, <3>2
  <2>2. CASE RecordDetection
    <3>1. DOMAIN cameras \subseteq DOMAIN cameras' /\ DOMAIN detections \subseteq DOMAIN detections'
      BY <2>2 DEF RecordDetection, With
    <3> QED
      BY <1>1, <3>1
  <2>3. ASSUME NEW q \in Requests,
               \/ LoadItem(q) \/ CommitItem(q)
               \/ create_watchlist(q) \/ LoadEntry(q) \/ update_watchlist(q)
               \/ delete_watchlist(q) \/ Refresh(q)
               \/ create_stream(q) \/ LoadStream(q) \/ DeleteDetections(q)
        PROVE  Whole
    <3>1. DOMAIN cameras \subseteq DOMAIN cameras' /\ DOMAIN detections \subseteq DOMAIN detections'
      BY <2>3 DEF LoadItem, CommitItem, create_watchlist, LoadEntry, update_watchlist,
         delete_watchlist, Refresh, create_stream, With, LoadStream, DeleteDetections, Deletes, tables
    <3> QED
      BY <1>1, <3>1
  <2>4. CASE QueueForReview
    <3>1. DOMAIN cameras \subseteq DOMAIN cameras' /\ DOMAIN detections \subseteq DOMAIN detections'
      BY <2>4 DEF QueueForReview
    <3> QED
      BY <1>1, <3>1
  <2>5. CASE UNCHANGED vars
    BY <2>5
  <2> QED
    BY <1>2, <2>1, <2>2, <2>3, <2>4, <2>5 DEF Next
<1> QED
  BY <1>2, SpecIInv, PTL DEF Spec, CascadeIsWhole
==============================================================================
