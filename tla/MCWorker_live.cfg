\* One host that keeps running, and what else its worker does; moves by
\* clients that wait, between three hosts where no worker dies, away from
\* home git, clones and launches fail, and a command may expire in the
\* queues.  Users stop at their bounds: no deadlock check.
SPECIFICATION Behaviour
CONSTANTS
  h1 = h1
  h2 = h2
  h3 = h3
  n1 = n1
  n2 = n2
  n3 = n3
  NoHost = NoHost
  Hosts <- OneHost
  Names <- OneName
  NamesOf <- AllNames
  Renames = FALSE
  LossyPublish = FALSE
  MaxRequests = 3
  MaxDocs = 9
  MaxCrashes = 1
  MaxRefusals = 1
  MaxByHand = 1
  Patient = TRUE
  Discovers = FALSE
  MaxMoveCrashes = 0
  Providers = {Claude, codex}
  Claude = Claude
  Wakers = {w1, w2}
  w1 = w1
  w2 = w2
  MaxCommands = 2
  MaxLosses = 1
  Cloners = {ca, cb}
  MaxClones = 3
  Grace = 2
  MaxBackoff = 2
  MaxOutages = 2
  MaxStalls = 2
  MaxErrors = 2
  MaxJobs = 2
  MaxPresses = 3
  MaxFaults = 2
INVARIANTS
  PartsTypeOK
  OneDocument
  OneAgent
  SettledIsWhole
  OneConversation
  RunsInItsTree
PROPERTIES
  DocsFollowTmux
  KillReaches
  MoveResolves
  SwitchSettles
  WorkerComesBack
  IdleIsStopped
  StopStops
CHECK_DEADLOCK FALSE
