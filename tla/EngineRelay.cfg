SPECIFICATION Spec
CONSTANTS
  Devices <- MCTrio
  Records = {rec}
  LwwFields = {title}
  MaxFields = {}
  SumFields = {}
  TombField = tomb
  MaxInt = 9
  Times <- MCStill
  Values <- MCOneValue
  PlayRecords = {}
  Links <- MCRing
  Imports = {}
  PageLimit = 1
  MaxWrites = 2
  MaxDocs = 1
  Faults = {"crash"}
PROPERTIES
  CompactionWaits
CHECK_DEADLOCK FALSE
