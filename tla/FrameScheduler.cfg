SPECIFICATION Spec
CONSTANTS
  Consumers = {c1, c2}
  MaxQueue = 2
  MaxFrames = 6
INVARIANTS
  TypeOK
  EveryFrameAccounted
  LossBound
PROPERTIES
  ImplementsWindow
  StopReleasesSource
CHECK_DEADLOCK FALSE
