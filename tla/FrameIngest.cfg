SPECIFICATION Spec
CONSTANTS
  Streams = {s1, s2}
  Children = {w1, w2}
  s1 = s1
  s2 = s2
  MaxFrames <- MCMaxFrames
  Polled <- MCPolled
  Prefetch = 2
  MaxFaults = 1
INVARIANTS
  TypeOK
  RunsAtMostPublished
  StreamOrder
PROPERTIES
  PollIsConsistent
  TasksAreDecided
CHECK_DEADLOCK FALSE
