SPECIFICATION FairSpec
CONSTANTS
  g1 = g1
  g2 = g2
  h1 = h1
  h2 = h2
  j1 = j1
  j2 = j2
  OwnJob = j1
  NoJob = NoJob
  Never = Never
  Agent <- Agents
  Host <- Hosts
  JobId <- Jobs
  Pid <- Pids
  ClassName <- Names
  Placements <- TwoPlacements
  Entry = g1
  EntryPid = 3
  Frameworks <- HadoopAndSpark
  Listings <- TwoListings
  Offset <- Offsets
  Second = 2
  Margin = 4
  Lag = 1
  PageSize = 1
  MaxTime = 2
  MaxDocs = 2
INVARIANTS
  TypeOK
  ReplyFaithful
  NoCutReply
  NothingMissed
  EndlessIsRefused
PROPERTIES
  RangeCovers
  QueryReturns
  CommandEnds
CHECK_DEADLOCK FALSE
