\* A session renamed to the name of an older, stopped one.
SPECIFICATION FairSpec
CONSTANTS
  h1 = h1
  h2 = h2
  n1 = n1
  n2 = n2
  n3 = n3
  NoHost = NoHost
  Hosts <- OneHost
  Names <- TwoNames
  NamesOf <- AllNames
  Renames = TRUE
  LossyPublish = FALSE
  MaxRequests = 2
  MaxDocs = 6
  MaxCrashes = 0
  MaxRefusals = 0
  MaxByHand = 2
PROPERTIES
  WorkersSettle
