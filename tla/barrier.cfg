SPECIFICATION FairSpec
CONSTANTS
  Slices = {s1, s2}
  Workers = {0, 1}
  Unsure = {s1}
  NoReport = NoReport
INVARIANTS
  TypeOK
  EveryNumberReady
  NobodyEarly
  OneOfEachNumber
PROPERTIES
  BarrierIsStartupScript
  BarrierEnds
CHECK_DEADLOCK FALSE
