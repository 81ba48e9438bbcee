\* Two hosts whose sessions ask for attention, a queue that may fill.
SPECIFICATION Spec
CONSTANTS
  Emitters = {"h1", "h2"}
  MaxFrames = 3
  QueueMax = 2
  MaxBackoff = 2
  MaxFaults = 2
INVARIANTS BellRings
CHECK_DEADLOCK FALSE
