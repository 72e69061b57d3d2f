SPECIFICATION Spec
CONSTANTS
  a1 = a1
  g1 = g1
  g2 = g2
  h1 = h1
  h2 = h2
  NoAgent = NoAgent
  LchCap = 1
  App <- OneApp
  Agent <- TwoAgents
  Host <- TwoHosts
  HostOf <- Distinct
  Unstartable <- NoApps
  Stoppable <- NoAgents
  StoreFails = FALSE
  NilFatal <- NoAgents
  Forks <- NoApps
  Flaky <- NoAgents
  CallsFail = FALSE
  ManagerStops = FALSE
  ManagerStarts = FALSE
INVARIANT
  ManagerSurvives
CHECK_DEADLOCK FALSE
