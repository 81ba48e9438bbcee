\* A screen that changes while the user answers; no crash.
SPECIFICATION Spec
CONSTANTS
  MaxFrames = 3
  MaxContinues = 1
  MaxAudios = 2
  MaxCrashes = 0
INVARIANTS NoOldAnswer
CHECK_DEADLOCK FALSE
