\* Two schedules of two intervals, edited and re-armed, an API that dies
\* once, and what else the API serves.  Users stop at their bounds: no
\* deadlock check.
SPECIFICATION Behaviour
CONSTANTS
  a = a
  b = b
  s1 = s1
  s2 = s2
  u1 = u1
  Ids = {a, b}
  SessionOf <- Sessions2
  Intervals = {1, 2}
  Users = {u1}
  MaxEdits = 4
  MaxFaults = 1
  h1 = h1
  h2 = h2
  Emitters = {h1, h2}
  MaxFrames = 2
  QueueMax = 1
  MaxBackoff = 2
  MaxBreaks = 2
  c1 = c1
  c2 = c2
  n1 = n1
  n2 = n2
  Callers = {c1, c2}
  Names = {n1, n2}
  Nobody = Nobody
  MaxCalls = 1
  MaxLives = 2
  MaxExits = 1
  Tools = {c1}
  Paths = {"x", "y"}
  MaxCommands = 2
  MaxErrors = 1
  Clients = {u1, c1}
  Demands_ = {n1}
  Texts = {"x", "y"}
  NoText = NoText
INVARIANTS
  PartsTypeOK
  OncePerDue
  LateAtMostOnce
  ClaimStands
PROPERTIES
  KeepsFiring
  StreamServes
  OneBridgeIsLeft
  Answered
CHECK_DEADLOCK FALSE
