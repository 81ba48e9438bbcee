SPECIFICATION FairSpec
CONSTANTS
  p = p  a = a  h1 = h1  h2 = h2
  Parent = p
  Children = {a}
  Hosts = {h1, h2}
  HostOf <- Apart
  ReuseNames = FALSE
  Watchdog_On = FALSE
  Stalls = {}
  MaxNudges = 0
  MaxStalls = 0
  MaxRequests = 3
  MaxFaults = 1
INVARIANTS TypeOK ToldOnce
PROPERTIES EachRoundIsTold
CHECK_DEADLOCK FALSE
