SPECIFICATION QuerySpec
CONSTANTS
  a1 = a1
  NoApp = NoApp
  NoDoc = NoDoc
  Source <- Monitors
  ChCap = 1
  Wrap = 1
  App <- OneApp
  MaxProcs <- TwoEach
  Undetected <- NoApps
  Launches = FALSE
  StoreDown = FALSE
  NilFatal = FALSE
  MaxCuts = 0
INVARIANT
  AgentSurvives
