SPECIFICATION FairSpec
CONSTANTS
  g1 = g1
  g2 = g2
  Agent <- TwoAgents
  Punctual <- OneAgent
  Hb = 1
  Delay = 1
  ConfigFails = FALSE
  MaxRestarts = 1
INVARIANTS
  TypeOK
  SilentAgentsLeave
  PunctualIsFresh
PROPERTIES
  LiveIsListed
  ListedIsConfigured
