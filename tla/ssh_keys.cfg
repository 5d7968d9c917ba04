SPECIFICATION FairSpec
CONSTANTS
  x = x
  Nodes = {n1, n2}
  Users = {"ann", "bob"}
  Keys = {"k"}
  Strange = {x}
  Present <- SomeLines
  Added <- BobsKey
  Overlap = FALSE
  Reupload = FALSE
  MaxUploads = 2
  MaxCommands = 1
  MaxFaults = 2
INVARIANTS
  TypeOK
PROPERTIES
  KeysOnlyAppended
  ServedMeansEverywhere
  ZeroMeansSpread
  RequestsServed
