SPECIFICATION Spec
CONSTANTS
  Devices <- MCTrio
  Records = {rec}
  LwwFields = {}
  MaxFields = {}
  SumFields = {count}
  TombField = tomb
  MaxInt = 2
  Times <- MCStill
  Values <- MCTwoValues
  PlayRecords = {}
  Links <- MCFarPair
  Imports <- MCOneWay
  PageLimit = 1
  MaxWrites = 3
  MaxDocs = 1
  Faults = {"replay", "stale"}
INVARIANTS
  ClaimsAreBacked
  CaughtUpConverges
CHECK_DEADLOCK FALSE
