SPECIFICATION Spec
CONSTANTS
  Plates <- MCPlates
  Chars <- MCChars
  ReadAs <- MCReadAs
  Confused <- MCConfused
  Buffer = 1
  MaxFrames = 4
  MaxTracks = 3
  MaxReadings = 4
INVARIANTS
  TypeOK
  HistoryIsSound
  
