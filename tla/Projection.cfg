SPECIFICATION FairSpec
CONSTANTS
  a = a
  b = b
  Rows <- MCTwoRows
  MaxWrites = 3
  MaxFaults = 2
  Page = 2
  CompactAt = 2
  Faults = {}
INVARIANTS
  TypeOK
  ProjectionOwed
  EditKept
  EmitsOwnEdits
PROPERTIES
  DomainCatchesUp
CHECK_DEADLOCK FALSE
