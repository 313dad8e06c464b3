SPECIFICATION Spec
CONSTANTS
  Devices <- MCPair
  Records = {rec}
  LwwFields = {title}
  MaxFields = {}
  SumFields = {}
  TombField = tomb
  MaxInt = 1
  Times <- MCStill
  Values <- MCOneValue
  PlayRecords = {}
  Links <- MCBothWays
  Imports = {}
  PageLimit = 2
  MaxWrites = 3
  MaxDocs = 1
  Faults = {"crash", "append"}
INVARIANTS
  TypeOK
  ClaimsAreBacked
  NothingLost
  ClockCoversAccepted
  SeqsIdentify
PROPERTIES
  ImplementsLibrary
CHECK_DEADLOCK FALSE
