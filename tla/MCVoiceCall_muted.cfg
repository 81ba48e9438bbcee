SPECIFICATION FairSpec
CONSTANTS
  MaxCalls = 2
  MaxTurns = 1
  MaxLines = 1
  QueueMax = 1
  MaxCancels = 0
  MaxFaults = 0
PROPERTIES MicReopens
CHECK_DEADLOCK FALSE
