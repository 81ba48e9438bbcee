SPECIFICATION FairSpec
CONSTANTS
  p = p  a = a  h1 = h1  h2 = h2
  Parent = p
  Children = {a}
  Hosts = {h1}
  HostOf <- Together
  ReuseNames = FALSE
  Watchdog_On = TRUE
  Stalls = {"idle", "silent"}
  MaxNudges = 1
  MaxStalls = 2
  MaxRequests = 1
  MaxFaults = 1
INVARIANTS NudgesBounded
PROPERTIES StuckIsEscalated
CHECK_DEADLOCK FALSE
