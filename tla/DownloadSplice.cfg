CONSTANTS
  r1 = r1 r2 = r2
  Recordings = {r1}
  MaxIds = 2
  Encodings = {1, 2}
  Checkpoint = 2
  MaxSaves = 2
  Failing = {}
  Faults = {"stale"}
SPECIFICATION Spec
SYMMETRY Symmetry
INVARIANT
  PlayableIsWhole
CHECK_DEADLOCK FALSE
