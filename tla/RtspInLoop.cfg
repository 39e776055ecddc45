SPECIFICATION RtspSpec
CONSTANTS
  BaseBackoff = 4
  MaxBackoff = 20
  MaxAttempt = 6
  EndsOnNone = TRUE
PROPERTY StreamRecovers
