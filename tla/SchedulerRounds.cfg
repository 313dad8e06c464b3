SPECIFICATION Spec
CONSTANTS
  Faults = {}
INVARIANTS
  TypeOK
  RoundsAlone
  WriteHasWake
  DropReconnects
