SPECIFICATION Spec
CONSTANTS
  a = a
  b = b
  Rows <- MCTwoRows
  MaxWrites = 3
  MaxFaults = 2
  Page = 2
  CompactAt = 1
  Faults = {"overlap"}
INVARIANTS
  EmitsOwnEdits
CHECK_DEADLOCK FALSE
