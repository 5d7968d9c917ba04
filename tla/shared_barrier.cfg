SPECIFICATION Spec
CONSTANTS
  Slices = {s1, s2}
  Workers = {0, 1}
  Unsure = {}
  NoReport = NoReport
INVARIANTS
  SliceReadyFirst
CHECK_DEADLOCK FALSE
