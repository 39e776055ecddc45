SPECIFICATION TabSpec
CONSTANTS
  Users = {u1, u2}
  Cameras = {c1, c2}
  Slots = {s1, s2}
  MaxShown = 2
  MaxReplaced = 1
  MaxOutside = 2
  None = None
INVARIANTS
  TabTypeOK
  StatusFollowsSocket
PROPERTIES
  ListsSelectedCamera
  HydrationEnds
CHECK_DEADLOCK FALSE
