SPECIFICATION Spec
CONSTANTS
  Entries <- MCEntries
  MaxWrites = 4
  MaxIds = 2
INVARIANTS
  TypeOK
  AckedSurvive
PROPERTIES
  HistoryKept
CHECK_DEADLOCK FALSE
