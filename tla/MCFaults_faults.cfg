\* Impatient clients, a crash, failing git and launches, publishes lost or
\* wrongly reported lost, discovery; beside them, two hosts and the skills.
\* Clients stop at their bounds: no deadlock check.
SPECIFICATION Behaviour
CONSTANTS
  h1 = h1
  h2 = h2
  h3 = h3
  NoHost = NoHost
  Home = h1
  Hosts <- TwoHosts
  Reliable <- OnlyHome
  Patient = FALSE
  Discovery = TRUE
  LossyPublish = TRUE
  MaxTransfers = 2
  MaxMoves = 2
  MaxResumes = 0
  MaxInputs = 0
  MaxExpired = 0
  MaxCrashes = 1
  Names = {"n1", "n2"}
  NamesOf <- OwnNames
  Renames = TRUE
  MaxRequests = 3
  MaxDocs = 6
  MaxRefusals = 0
  MaxByHand = 0
  Publishers = {"p", "q"}
  Resolvers = {"r", "s"}
  Versions = {"v", "w"}
  Child = Child
  Parent = Parent
  None = None
  Gone = Gone
  MaxAttempts = 2
  Asks = {None, "v"}
  MaxErrors = 1
INVARIANTS
  PartsTypeOK
  NoTwinOfOwner
  OwnerHasConversation
  SkillsStand
PROPERTIES
  CancelledStaysCancelled
  ImplementsOwnership
  OwnDocsOnly
CHECK_DEADLOCK FALSE
