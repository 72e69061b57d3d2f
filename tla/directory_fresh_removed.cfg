SPECIFICATION Spec
CONSTANTS
  g1 = g1
  g2 = g2
  Agent <- OneAgent
  Punctual <- OneAgent
  Hb = 2
  Delay = 2
  ConfigFails = TRUE
  MaxRestarts = 1
PROPERTY
  OnlyExpiredLeave
