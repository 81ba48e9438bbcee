\* Two calls with two utterances in all, and the output, milestones,
\* questions and answers of sessions.  Users stop at their bounds: no
\* deadlock check.
SPECIFICATION Behaviour
CONSTANTS
  MaxCalls = 2
  MaxTurns = 2
  MaxLines = 1
  QueueMax = 1
  MaxCancels = 1
  MaxFaults = 1
  MaxPrinted = 3
  Ring = 2
  MaxKills = 1
  MaxLives = 2
  Marks = {"m", "n"}
  MaxWrites = 3
  MaxDeletes = 1
  MaxFrames = 2
  MaxContinues = 1
  MaxAudios = 2
  MaxCrashes = 1
  Sessions = {"a"}
  Nowhere = "nowhere"
  MaxNotices = 2
  MaxActs = 2
  MaxErrors = 1
INVARIANTS
  PartsTypeOK
  OneAtATime
PROPERTIES
  SilentOnceCancelled
  TurnsEnd
  OutputIsWhole
  MilestonesShow
  NothingGoesUnheard
CHECK_DEADLOCK FALSE
