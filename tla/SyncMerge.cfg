SPECIFICATION Spec
CONSTANTS
  Devices <- MCDevices
  Records = {rec}
  LwwFields = {title}
  MaxFields = {lastMs}
  SumFields = {count}
  TombField = tomb
  MaxInt = 2
  Times <- MCNow
  Values <- MCValues
  MaxEntries = 4
INVARIANTS
  TypeOK
  ViewCorrect
  NoSilentLoss
  KeysIdentify
  ClockCoversAccepted
PROPERTIES
  LocalWriteShows
  ImplementsLibrary
CHECK_DEADLOCK FALSE
