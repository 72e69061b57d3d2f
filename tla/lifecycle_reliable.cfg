SPECIFICATION FairSpec
CONSTANTS
  a1 = a1
  g1 = g1
  g2 = g2
  h1 = h1
  h2 = h2
  NoAgent = NoAgent
  LchCap = 1
  App <- OneApp
  Agent <- TwoAgents
  Host <- TwoHosts
  HostOf <- Distinct
  Unstartable <- OneApp
  Stoppable <- OnlyG2
  StoreFails = TRUE
  NilFatal <- OnlyG2
  Forks <- OneApp
  Flaky <- NoAgents
  CallsFail = FALSE
  ManagerStops = TRUE
  ManagerStarts = FALSE
INVARIANT
  NoMonitorLeak
PROPERTIES
  ImplementsAppRecord
  ExitHandled
  HandlersReturn
  EndedIsForgotten
  KilledDies
CHECK_DEADLOCK FALSE
