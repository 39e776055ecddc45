----------------------------- MODULE Backoffice ------------------------------
(***************************************************************************)
(* The write operations of api/routers/review.py, watchlist.py and         *)
(* streams.py, and the reads of DataAccess beside them.                    *)
(*                                                                         *)
(* A request has a database session of its own (api/deps/db.py): it loads  *)
(* a row, changes attributes, commits and refreshes, and other requests    *)
(* run in between (PostgreSQL, READ COMMITTED). SQLAlchemy writes only the *)
(* columns whose value differs from the loaded one. Nothing carries a      *)
(* version. The handlers of a role that may not write answer 403 and are   *)
(* left out.                                                               *)
(***************************************************************************)
EXTENDS DataAccess, Sequences

CONSTANTS
  Cameras,          (* bound: ids for rows of cameras                      *)
  Detections,       (* bound: ids for rows of detections                   *)
  Items,            (* bound: ids for rows of review_queue                 *)
  Entries,          (* bound: ids for rows of watchlist                    *)
  Seeded,           (* the region of the stream there is at first          *)
  Verdicts,         (* "approved" and "rejected", which are treated alike  *)
  Patterns,         (* plate patterns that compile                         *)
  Corrections,      (* corrected plates a reviewer may enter               *)
  Requests,         (* bound: requests at one time                         *)
  MaxRequests       (* bound: requests altogether                          *)

Statuses == Verdicts \cup {"flagged"}

ASSUME BackofficeAssumption ==
  /\ None \notin Cameras /\ None \notin Statuses \cup {"pending"} /\ MaxRequests \in Nat
  /\ Seeded \in Regions /\ "pending" \notin Verdicts /\ "flagged" \notin Verdicts
  /\ IsFiniteSet(Detections) /\ IsFiniteSet(Items)

VARIABLES
  items,            (* review_queue: id -> detection, status, reviewer, ...*)
  watchlist,        (* id -> pattern, alert_enabled                        *)
  req,              (* per slot: the request in progress                   *)
  count,            (* requests begun                                      *)
  (* history *)
  decisions,        (* per item: the decisions committed                   *)
  dead              (* ids of deleted rows                                 *)

vars == <<cameras, detections, items, watchlist, req, count, decisions, dead>>
tables == <<cameras, detections, items, watchlist>>

Reviewers == Users \cup {Service}

(* A subject that is not a UUID is stored as NULL (_parse_uuid_or_none). *)
ReviewerId(u) == IF u = Service THEN None ELSE u

Nothing == [op |-> "none"]
Step(q, r) == req' = [req EXCEPT ![q] = r]
Finish(q) == Step(q, Nothing)

Begin(q) == /\ req[q] = Nothing /\ count < MaxRequests
            /\ count' = count + 1

Without(f, xs) == [x \in DOMAIN f \ xs |-> f[x]]
With(f, x, v) == [y \in DOMAIN f \cup {x} |-> IF y = x THEN v ELSE f[y]]

(* UPDATE: the columns of `new` that differ from `old` go into `row`. *)
Update(row, old, new) ==
  [k \in DOMAIN row |-> IF new[k] # old[k] THEN new[k] ELSE row[k]]

Blobs == [filled : BOOLEAN, corrected : {None} \cup Corrections]
Queued(d, filled) ==
  [detection |-> d, status |-> "pending", reviewer |-> None,
   blob |-> [filled |-> filled, corrected |-> None]]

(* One stream, without a detection yet, and one watchlist entry. *)
Init ==
  /\ \E c \in Cameras : cameras = [x \in {c} |-> Seeded]
  /\ detections = << >> /\ items = << >>
  /\ \E w \in Entries, p \in Patterns : watchlist = [x \in {w} |-> [pattern |-> p, alert |-> TRUE]]
  /\ req = [q \in Requests |-> Nothing] /\ count = 0
  /\ decisions = [x \in Items |-> << >>] /\ dead = {}

------------------------------------------------------------------------------
(* Mutated forms of the definitions below. *)

(* a reviewer who is set already stays *)
ResolvedKeepsReviewer(old, u, s, c) ==
  [old EXCEPT !.status = s, !.reviewer = IF @ = None THEN (IF u = Service THEN None ELSE u) ELSE @]

(* the blob is rebuilt from the correction for every resolution *)
BlobAfterAlways(blob, s, c) == [filled |-> TRUE, corrected |-> c]

(* the detections are deleted in a transaction of their own *)
DeletesEarly(cs) == detections' = Without(detections, cs)

(* only the camera's own foreign key is respected *)
ReviewedNever(ds) == FALSE

------------------------------------------------------------------------------
(* review.py: resolve_review_item *)

(* "If flagged, store corrected plate" (line 154). The correction goes     *)
(* into the loaded dict, which is then assigned to its own attribute: the  *)
(* session sees no difference. Only an empty blob gives way to a new dict. *)
BlobAfter(blob, s, c) ==
  IF s = "flagged" /\ c # None /\ ~ blob.filled
    THEN [filled |-> TRUE, corrected |-> c]
    ELSE blob

Resolved(old, u, s, c) ==
  [old EXCEPT !.status = s, !.reviewer = ReviewerId(u), !.blob = BlobAfter(@, s, c)]

(* 404 when there is no such item; whether it is pending is not looked at. *)
LoadItem(q) ==
  /\ Begin(q)
  /\ \E i \in DOMAIN items, u \in Reviewers, s \in Statuses, c \in {None} \cup Corrections :
       Step(q, [op |-> "resolve", id |-> i, old |-> items[i],
                new |-> Resolved(items[i], u, s, c),
                decision |-> [status |-> s, reviewer |-> ReviewerId(u),
                              corrected |-> IF s = "flagged" THEN c ELSE None]])
  /\ UNCHANGED <<tables, decisions, dead>>

(* The answer reads `notes`, which is no column: unless the request brought *)
(* notes, what was committed is answered with 500. (For the same reason    *)
(* list_review_queue is a 500 as soon as it has an item to show.)          *)
CommitItem(q) ==
  /\ req[q].op = "resolve"
  /\ items' = [items EXCEPT ![req[q].id] = Update(@, req[q].old, req[q].new)]
  /\ decisions' = [decisions EXCEPT ![req[q].id] = Append(@, req[q].decision)]
  /\ Finish(q)
  /\ UNCHANGED <<cameras, detections, watchlist, count, dead>>

------------------------------------------------------------------------------
(* watchlist.py. No constraint keeps a pattern from being there twice.     *)

(* None is an empty pattern, one that does not compile or one that the     *)
(* alarm stops: 400 before anything is written.                            *)
validate_regex_pattern(p) == p # None

Columns == [pattern : Patterns, alert : BOOLEAN]
Submitted == [pattern : Patterns \cup {None}, alert : BOOLEAN]

list_watchlist(enabled_only) ==
  Answer(200, {w \in DOMAIN watchlist : enabled_only => watchlist[w].alert})
get_watchlist(w) == IF w \in DOMAIN watchlist THEN Answer(200, {w}) ELSE Refused(404)

create_watchlist(q) ==
  /\ Begin(q)
  /\ \E id \in Entries \ (DOMAIN watchlist \cup dead), new \in Submitted :
       /\ validate_regex_pattern(new.pattern)
       /\ watchlist' = With(watchlist, id, new)
       /\ Step(q, [op |-> "refresh", id |-> id])
  /\ UNCHANGED <<cameras, detections, items, decisions, dead>>

(* 404 when there is no such entry. *)
LoadEntry(q) ==
  /\ Begin(q)
  /\ \E id \in DOMAIN watchlist :
       \/ \E new \in Submitted :
            /\ validate_regex_pattern(new.pattern)
            /\ Step(q, [op |-> "update", id |-> id, old |-> watchlist[id], new |-> new])
       \/ Step(q, [op |-> "delete", id |-> id])
  /\ UNCHANGED <<tables, decisions, dead>>

(* No row, no UPDATE: StaleDataError, and 400, when columns changed. *)
SaveEntry(old, new, id) ==
  IF id \in DOMAIN watchlist
    THEN watchlist' = [watchlist EXCEPT ![id] = Update(@, old, new)]
    ELSE UNCHANGED watchlist

update_watchlist(q) ==
  /\ req[q].op = "update"
  /\ SaveEntry(req[q].old, req[q].new, req[q].id)
  /\ IF req[q].id \in DOMAIN watchlist
       THEN Step(q, [op |-> "refresh", id |-> req[q].id])
       ELSE Finish(q)
  /\ UNCHANGED <<cameras, detections, items, count, decisions, dead>>

(* The row may be gone again: 400, or the answer shows it as it is now. *)
Refresh(q) ==
  /\ req[q].op = "refresh"
  /\ Finish(q)
  /\ UNCHANGED <<tables, count, decisions, dead>>

(* DELETE of a row that is gone is only a warning. *)
delete_watchlist(q) ==
  /\ req[q].op = "delete"
  /\ watchlist' = Without(watchlist, {req[q].id})
  /\ dead' = dead \cup {req[q].id}
  /\ Finish(q)
  /\ UNCHANGED <<cameras, detections, items, count, decisions>>

------------------------------------------------------------------------------
(* streams.py. Its foreign keys have no ON DELETE: a row that is referred  *)
(* to cannot be deleted, and the whole transaction is rolled back (500).   *)

create_stream(q) ==
  /\ Begin(q)
  /\ \E c \in Cameras \ (DOMAIN cameras \cup dead), r \in Regions :
       cameras' = With(cameras, c, r)
  /\ UNCHANGED <<detections, items, watchlist, req, decisions, dead>>

LoadStream(q) ==
  /\ Begin(q)
  /\ \E c \in DOMAIN cameras : Step(q, [op |-> "cascade", camera |-> c])
  /\ UNCHANGED <<tables, decisions, dead>>

(* Rows that a transaction has deleted and not committed are locked. *)
Locked == UNION {req[q].gone : q \in {p \in Requests : req[p].op = "camera"}}
Reviewed(ds) == \E i \in DOMAIN items : items[i].detection \in ds
Deletes(ds) == UNCHANGED detections

DeleteDetections(q) ==
  LET ds == {d \in DOMAIN detections : detections[d].stream = req[q].camera}
  IN  /\ req[q].op = "cascade" /\ ds \cap Locked = {}
      /\ IF Reviewed(ds)
           THEN Finish(q) /\ UNCHANGED detections
           ELSE /\ Step(q, [op |-> "camera", camera |-> req[q].camera, gone |-> ds])
                /\ Deletes(ds)
      /\ UNCHANGED <<cameras, items, watchlist, count, decisions, dead>>

(* What still refers to the camera: its own detections that another stream *)
(* (or none) is named in, and those recorded since the others were deleted.*)
Left(q) == {d \in DOMAIN detections \ req[q].gone :
              req[q].camera \in {detections[d].camera, detections[d].stream}}

(* A reference that another transaction has deleted decides when that one  *)
(* ends; PostgreSQL ends a circle of such waits by failing one of them.    *)
WaitsFor(q) == {p \in Requests \ {q} : req[p].op = "camera" /\ req[p].gone \cap Left(q) # {}}
Deadlocked(q) ==
  \E ps \in SUBSET {p \in Requests : req[p].op = "camera"} :
    q \in ps /\ \A p \in ps : WaitsFor(p) \cap ps # {}

(* Whatever is left keeps the camera, and the deleted ones come back. *)
delete_stream(q) ==
  LET c == req[q].camera
  IN  /\ req[q].op = "camera"
      /\ WaitsFor(q) = {} \/ Deadlocked(q)
      /\ Finish(q)
      /\ IF Left(q) # {}
           THEN UNCHANGED <<cameras, detections, dead>>
           ELSE /\ cameras' = Without(cameras, {c})
                /\ detections' = Without(detections, req[q].gone)
                /\ dead' = dead \cup {c} \cup req[q].gone
      /\ UNCHANGED <<items, watchlist, count, decisions>>

------------------------------------------------------------------------------
(* Detections and review items are written from outside src/api. The two   *)
(* foreign keys of a detection to cameras are independent of each other.   *)

RecordDetection ==
  /\ \E d \in Detections \ (DOMAIN detections \cup dead), c \in DOMAIN cameras, p \in Plates :
       \E s \in DOMAIN cameras \cup {None} :
         detections' = With(detections, d, [camera |-> c, stream |-> s, plate |-> p])
  /\ UNCHANGED <<cameras, items, watchlist, req, count, decisions, dead>>

QueueForReview ==
  /\ \E i \in Items \ DOMAIN items, d \in DOMAIN detections \ Locked, filled \in BOOLEAN :
       items' = With(items, i, Queued(d, filled))
  /\ UNCHANGED <<cameras, detections, watchlist, req, count, decisions, dead>>

------------------------------------------------------------------------------
Next ==
  \/ \E q \in Requests :
       \/ LoadItem(q) \/ CommitItem(q)
       \/ create_watchlist(q) \/ LoadEntry(q) \/ update_watchlist(q)
       \/ delete_watchlist(q) \/ Refresh(q)
       \/ create_stream(q) \/ LoadStream(q) \/ DeleteDetections(q) \/ delete_stream(q)
  \/ RecordDetection \/ QueueForReview

Spec == Init /\ [][Next]_vars

------------------------------------------------------------------------------
(* Every row has its columns and refers to rows that exist. *)
TypeOK ==
  /\ DOMAIN cameras \subseteq Cameras /\ \A c \in DOMAIN cameras : cameras[c] \in Regions
  /\ \A d \in DOMAIN detections :
       /\ detections[d].camera \in DOMAIN cameras /\ detections[d].plate \in Plates
       /\ detections[d].stream \in DOMAIN cameras \cup {None}
  /\ \A i \in DOMAIN items :
       /\ items[i].detection \in DOMAIN detections /\ items[i].blob \in Blobs
       /\ items[i].status \in Statuses \cup {"pending"} /\ items[i].reviewer \in Users \cup {None}
  /\ watchlist \in [DOMAIN watchlist -> Columns] /\ count \in 0 .. MaxRequests

(* Reviewers who race for a pending item cannot mix their decisions: after *)
(* two resolutions, by users, whatever their order, status and reviewer of *)
(* the row are those of one of them. (It fails for three: two that loaded  *)
(* the item after it was decided write different columns; and for a        *)
(* service token, whose NULL is no change to a pending item.)              *)
DecisionIsWhole ==
  \A i \in DOMAIN items :
    LET ds == decisions[i]
    IN  /\ Len(ds) \in 1 .. 2
        /\ \A k \in 1 .. Len(ds) : ds[k].reviewer # None
        => \E k \in 1 .. Len(ds) :
             items[i].status = ds[k].status /\ items[i].reviewer = ds[k].reviewer

(* A correction that is stored was entered by a reviewer who flagged the   *)
(* item, and stays until another one replaces it in a race: no approval or *)
(* rejection erases it, although each writes back a row loaded earlier.    *)
CorrectionsStay ==
  \A i \in DOMAIN items :
    LET entered == {k \in 1 .. Len(decisions[i]) : decisions[i][k].corrected # None}
        stored  == items[i].blob.corrected
    IN  /\ stored # None => \E k \in entered : decisions[i][k].corrected = stored
        /\ stored = None /\ entered # {} => items[i].blob.filled

(* What the lists show can be opened, and the other way round: regions,    *)
(* cameras, detections and plates, the audit log as far as it goes (see    *)
(* DataAccess), streams, watchlist entries, enabled or not.                *)
ReadsAgree ==
  /\ TableReadsAgree
  /\ AuditExportAgrees
  /\ \A c \in Cameras : (get_stream(c).code = 200) = (c \in list_streams.rows)
  /\ \A w \in Entries : (get_watchlist(w).code = 200) = (w \in list_watchlist(FALSE).rows)
  /\ list_watchlist(TRUE).rows \subseteq list_watchlist(FALSE).rows

(* A stream goes in one step with all the detections that name it, as many *)
(* as its statistics counted, and only so does a detection go: none while  *)
(* it is under review. (By stream_id: a detection that names the stream    *)
(* goes with it, even when its camera stays.)                              *)
CascadeIsWhole ==
  [][LET closed == DOMAIN cameras \ DOMAIN cameras'
         gone   == DOMAIN detections \ DOMAIN detections'
     IN  /\ gone = {d \in DOMAIN detections : detections[d].stream \in closed}
         /\ \A c \in closed : _stream_stats(c) = Cardinality(gone)
         /\ ~ Reviewed(gone)]_vars
==============================================================================
