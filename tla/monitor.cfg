SPECIFICATION FairSpec
CONSTANTS
  a1 = a1
  a2 = a2
  NoApp = NoApp
  NoDoc = NoDoc
  Source <- Monitors
  ChCap = 1
  Wrap = 1
  App <- TwoApps
  MaxProcs <- TwoAndOne
  Undetected <- NoApps
  Launches = TRUE
  StoreDown = TRUE
  NilFatal = TRUE
  MaxCuts = 1
INVARIANTS
  TypeOK
  LateDocsBounded
PROPERTIES
  DeregisteredQuiesces
  RegisteredIsMeasured
  
CHECK_DEADLOCK FALSE
