----------------------------- MODULE DataAccess ------------------------------
(***************************************************************************)
(* What api/routers/data.py, streams.py and audit.py answer to a subject,  *)
(* as functions of the tables. Users, regions, plates and assignments are  *)
(* filled from outside src/ (seed, tests) and constant here; cameras and   *)
(* detections change, see Backoffice.                                      *)
(*                                                                         *)
(* Malformed ids are answered 422 or, by _parse_uuid_or_none, like ids of  *)
(* no row; ordering and paging of the answers are left out: rows are sets. *)
(***************************************************************************)
EXTENDS Naturals, FiniteSets

CONSTANTS
  Regions,          (* rows of regions                                     *)
  Plates,           (* rows of plates                                      *)
  PlateRegion,      (* plates.region_id                                    *)
  Users,            (* rows of users                                       *)
  Assigned,         (* user_region_assignments, per user                   *)
  AuditLog,         (* rows of audit_log: user, action, created_at; are    *)
                    (* ip_address and details, which may be NULL, both set *)
  MaxLimit,         (* the largest limit of the audit list (1000)          *)
  Service,          (* the subject of a token that is not a user           *)
  None              (* SQL NULL, an absent parameter, an id of no row      *)

ASSUME DataAccessAssumption ==
  /\ PlateRegion \in [Plates -> Regions]
  /\ Assigned \in [Users -> SUBSET Regions]
  /\ AuditLog \subseteq [user : Users, action : STRING, at : Nat, complete : BOOLEAN]
  /\ \A e, f \in AuditLog : e.at = f.at => e = f
  /\ MaxLimit \in Nat \ {0}
  /\ Service \notin Users
  /\ None \notin Regions \cup Plates /\ None \notin Nat

VARIABLES
  cameras,          (* id -> region_id                                     *)
  detections        (* id -> camera_id, stream_id, plate_id                *)

Subjects == Users \cup {Service}
Unscoped == [unscoped |-> TRUE,  regions |-> {}]
Only(rs) == [unscoped |-> FALSE, regions |-> rs]

Answer(code, rows) == [code |-> code, rows |-> rows]
Refused(code) == Answer(code, {})

------------------------------------------------------------------------------
(* Mutated forms of the definitions below. *)

(* a camera filter takes the place of the scope, like a region filter *)
ListPlatesByCamera(u, region, camera) ==
  LET scope == IF u \in Users THEN Only(Assigned[u]) ELSE Unscoped
  IN  IF ~ scope.unscoped /\ scope.regions = {} THEN Refused(403)
      ELSE IF region # None /\ ~ (scope.unscoped \/ region \in scope.regions) THEN Refused(403)
      ELSE Answer(200, {p \in Plates :
             /\ CASE region # None -> PlateRegion[p] = region
                  [] camera # None -> TRUE
                  [] OTHER -> scope.unscoped \/ PlateRegion[p] \in scope.regions
             /\ camera # None => \E d \in DOMAIN detections :
                  detections[d].plate = p /\ detections[d].camera = camera})

(* no assignment at all counts as no restriction *)
AllowsWhenEmpty(scope, r) ==
  scope.unscoped \/ scope.regions = {} \/ r \in scope.regions

------------------------------------------------------------------------------
(* _scoped_region_ids: None (unscoped) for a subject that is not a user. *)
_scoped_region_ids(u) == IF u \in Users THEN Only(Assigned[u]) ELSE Unscoped

(* _require_region_access and _require_any_region_access do not raise. *)
_require_region_access(scope, r) == scope.unscoped \/ r \in scope.regions
_require_any_region_access(scope) == scope.unscoped \/ scope.regions # {}

list_regions(u) ==
  LET scope == _scoped_region_ids(u)
  IN  IF ~ _require_any_region_access(scope) THEN Refused(403)
      ELSE Answer(200, {r \in Regions : scope.unscoped \/ r \in scope.regions})

(* The access check comes before the region is looked up. *)
list_cameras_for_region(u, region) ==
  IF ~ _require_region_access(_scoped_region_ids(u), region) THEN Refused(403)
  ELSE IF region \notin Regions THEN Refused(404)
  ELSE Answer(200, {c \in DOMAIN cameras : cameras[c] = region})

(* Here the camera is looked up first: its region is what is checked. *)
get_camera(u, c) ==
  IF c \notin DOMAIN cameras THEN Refused(404)
  ELSE IF ~ _require_region_access(_scoped_region_ids(u), cameras[c]) THEN Refused(403)
  ELSE Answer(200, {c})

(* Detections joined with their cameras, under the filters and the scope. *)
ScopedRows(scope, region, camera) ==
  {d \in DOMAIN detections :
     LET r == cameras[detections[d].camera]
     IN  /\ camera # None => detections[d].camera = camera
         /\ region # None => r = region
         /\ scope.unscoped \/ r \in scope.regions}

list_detections(u, region, camera) ==
  LET scope == _scoped_region_ids(u)
  IN  IF ~ _require_any_region_access(scope) THEN Refused(403)
      ELSE IF camera # None /\ camera \notin DOMAIN cameras THEN Refused(404)
      ELSE IF camera # None /\ ~ _require_region_access(scope, cameras[camera]) THEN Refused(403)
      ELSE IF region # None /\ ~ _require_region_access(scope, region) THEN Refused(403)
      ELSE Answer(200, ScopedRows(scope, region, camera))

(* A region filter takes the place of the scope; camera_id selects plates  *)
(* by their detections and is not looked up. (Dates and the search string  *)
(* narrow further and are left out.)                                       *)
list_plates(u, region, camera) ==
  LET scope == _scoped_region_ids(u)
      SeenBy(p) == \E d \in DOMAIN detections :
                     detections[d].plate = p /\ detections[d].camera = camera
  IN  IF ~ _require_any_region_access(scope) THEN Refused(403)
      ELSE IF region # None /\ ~ _require_region_access(scope, region) THEN Refused(403)
      ELSE Answer(200, {p \in Plates :
             /\ IF region # None THEN PlateRegion[p] = region
                                 ELSE scope.unscoped \/ PlateRegion[p] \in scope.regions
             /\ camera # None => SeenBy(p)})

get_plate_detail(u, p) ==
  IF p \notin Plates THEN Refused(404)
  ELSE IF ~ _require_region_access(_scoped_region_ids(u), PlateRegion[p]) THEN Refused(403)
  ELSE Answer(200, {p})

(* The detections of a plate, whatever the regions of their cameras. *)
get_plate_events(u, p) ==
  IF p \notin Plates THEN Refused(404)
  ELSE IF ~ _require_region_access(_scoped_region_ids(u), PlateRegion[p]) THEN Refused(403)
  ELSE Answer(200, {d \in DOMAIN detections : detections[d].plate = p})

(* streams.py: any authenticated subject; statistics count by stream_id. *)
list_streams == Answer(200, DOMAIN cameras)
_stream_stats(c) == Cardinality({d \in DOMAIN detections : detections[d].stream = c})
get_stream(c) == IF c \in DOMAIN cameras THEN Answer(200, {c}) ELSE Refused(404)

(* audit.py. A date that cannot be parsed is no filter, and the filter on  *)
(* the resource type is one like that on the action.                       *)
AuditConditions(from, to, user) ==
  {e \in AuditLog : /\ from # None => e.at >= from
                    /\ to # None => e.at <= to
                    /\ user # None => e.user = user}

(* The newest `limit` entries under the filters, of which AuditLogOut wants *)
(* every column set: it raises for the first that has a NULL.              *)
list_audit_log(from, to, user, action, limit) ==
  LET found == {e \in AuditConditions(from, to, user) : action # None => e.action = action}
      shown == {e \in found : Cardinality({f \in found : f.at > e.at}) < limit}
  IN  IF \E e \in shown : ~ e.complete THEN Refused(500) ELSE Answer(200, shown)

(* No limit, no filter on the action, and NULL is an empty cell. *)
export_audit_log_csv(from, to, user) == AuditConditions(from, to, user)

------------------------------------------------------------------------------
MayRead(u, r) == r \in Assigned[u]

(* Whatever the filters, a user is only shown rows of assigned regions     *)
(* (data.py, seven endpoints with checks of their own in different orders):*)
(* regions and plates by their own region, cameras by theirs, the list of  *)
(* detections by those of the cameras. The events of a plate are the       *)
(* exception: they are detections by the region of the plate, of cameras   *)
(* of any region.                                                          *)
ReadsStayInScope ==
  \A u \in Users :
    LET cs == DOMAIN cameras \cup {None}
    IN  /\ \A x \in list_regions(u).rows : MayRead(u, x)
        /\ \A c \in cs : \A x \in get_camera(u, c).rows : MayRead(u, cameras[x])
        /\ \A p \in Plates \cup {None} :
             /\ \A x \in get_plate_detail(u, p).rows : MayRead(u, PlateRegion[x])
             /\ \A d \in get_plate_events(u, p).rows :
                  MayRead(u, PlateRegion[detections[d].plate])
        /\ \A r \in Regions \cup {None} :
             /\ \A c \in list_cameras_for_region(u, r).rows : MayRead(u, cameras[c])
             /\ \A c \in cs :
                  /\ \A d \in list_detections(u, r, c).rows :
                       MayRead(u, cameras[detections[d].camera])
                  /\ \A p \in list_plates(u, r, c).rows : MayRead(u, PlateRegion[p])

(* What the audit list shows, the export under the same dates and user     *)
(* contains. Although the list ends at MaxLimit, has no offset and is lost *)
(* for one entry with a NULL, some request of it shows every entry without *)
(* a NULL; an entry with one is in the export only.                        *)
AuditExportAgrees ==
  LET ats == {None} \cup {e.at : e \in AuditLog}
      actions == {None} \cup {e.action : e \in AuditLog}
      users == {None} \cup Users
  IN  /\ \A from, to \in ats, u \in users, a \in actions, n \in 1 .. MaxLimit :
           list_audit_log(from, to, u, a, n).rows \subseteq export_audit_log_csv(from, to, u)
      /\ \A e \in AuditLog :
           e.complete <=> \E from, to \in ats, u \in users, a \in actions, n \in 1 .. MaxLimit :
                            e \in list_audit_log(from, to, u, a, n).rows

(* The lists and the details agree: what a list shows can be opened, and   *)
(* what can be opened is in its list, for cameras, plates and detections.  *)
TableReadsAgree ==
  \A u \in Subjects :
    /\ \A c \in DOMAIN cameras :
         LET opens == get_camera(u, c).code = 200
         IN  /\ opens = (c \in list_cameras_for_region(u, cameras[c]).rows)
             /\ opens = (list_detections(u, None, c).code = 200)
    /\ \A p \in Plates :
         /\ (get_plate_detail(u, p).code = 200) = (p \in list_plates(u, None, None).rows)
         /\ get_plate_events(u, p).code = get_plate_detail(u, p).code
    /\ list_detections(u, None, None).rows =
         UNION {list_detections(u, r, None).rows : r \in list_regions(u).rows}
==============================================================================
