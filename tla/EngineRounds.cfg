SPECIFICATION FairSpec
CONSTANTS
  Devices <- MCPair
  Records = {rec, play}
  LwwFields = {title}
  MaxFields = {}
  SumFields = {}
  TombField = tomb
  MaxInt = 2
  Times <- MCStill
  Values <- MCOneValue
  PlayRecords = {play}
  Links <- MCBothWays
  Imports = {}
  PageLimit = 1
  MaxWrites = 3
  MaxDocs = 1
  Faults = {"age"}
PROPERTIES
  EventuallyConsistent
CHECK_DEADLOCK FALSE
