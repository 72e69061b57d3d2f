SPECIFICATION Spec
CONSTANTS
  a1 = a1
  g1 = g1
  g2 = g2
  h1 = h1
  h2 = h2
  NoAgent = NoAgent
  LchCap = 1
  App <- OneApp
  Agent <- TwoAgents
  Host <- TwoHosts
  HostOf <- Shared
  Unstartable <- OnlyA1
  Stoppable <- NoAgents
  StoreFails = FALSE
  NilFatal <- NoAgents
  Forks <- NoApps
  Flaky <- TwoAgents
  CallsFail = TRUE
  ManagerStops = FALSE
  ManagerStarts = TRUE
SYMMETRY SwapAgents
INVARIANTS
  TypeOK
  DoneStaysForgotten
  MonitoredWasStarted
  KillIsTrue
  WaitingIsAnswerable
PROPERTY
  ImplementsRegistry
CHECK_DEADLOCK FALSE
