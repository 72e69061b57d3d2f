SPECIFICATION LauncherSpec
CONSTANTS
  a1 = a1
  a2 = a2
  a3 = a3
  g1 = g1
  NoAgent = NoAgent
  App <- ThreeApps
  Agent <- OneAgent
  LchCap = 1
  Unstartable <- OnlyA1
  Forks <- OnlyA1
  StoreFails = FALSE
  NilFatal <- OneAgent
  Stoppable <- OneAgent
INVARIANTS
  LauncherTypeOK
  NoStaleEntry
  RunningIsKillable
  LaunchIsServed
PROPERTY
  LaunchAnswered
CHECK_DEADLOCK FALSE
