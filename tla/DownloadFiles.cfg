CONSTANTS
  r1 = r1 r2 = r2
  Recordings = {r1}
  MaxIds = 2
  Encodings = {1, 2}
  Checkpoint = 2
  MaxSaves = 2
  Failing = {"request", "retry", "claim", "checkpoint", "done", "drop"}
  Faults = {}
SPECIFICATION Spec
SYMMETRY Symmetry
INVARIANTS
  TypeOK
  PlayableIsWhole
  RemovedStaysRemoved
  NoneStranded
  NoFileLeftBehind
PROPERTY
  AvailableIsTerminal
CHECK_DEADLOCK FALSE
