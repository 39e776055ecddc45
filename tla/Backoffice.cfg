SPECIFICATION Spec
CONSTANTS
  r1 = r1
  r2 = r2
  p1 = p1
  p2 = p2
  u1 = u1
  u2 = u2
  Regions = {r1, r2}
  Plates = {p1, p2}
  PlateRegion <- MCPlateRegion
  Users = {u1, u2}
  Assigned <- MCAssigned
  AuditLog <- MCAuditLog
  MaxLimit = 2
  Service = Service
  None = None
  Cameras = {c1, c2}
  Detections = {d1, d2}
  Items = {i1}
  Entries = {w1, w2}
  Seeded = r1
  Verdicts = {approved, rejected}
  Patterns = {x}
  Corrections = {k1}
  Requests = {q1, q2}
  MaxRequests = 3
INVARIANTS
  TypeOK
  DecisionIsWhole
  CorrectionsStay
  ReadsStayInScope
  ReadsAgree
PROPERTIES
  CascadeIsWhole
SYMMETRY MCSymmetry
CHECK_DEADLOCK FALSE
