SPECIFICATION Spec
CONSTANTS
  x = x
  Nodes = {n1, n2}
  Users = {"ann", "bob"}
  Keys = {"k"}
  Strange = {x}
  Present <- SomeLines
  Added <- BobsKey
  Overlap = TRUE
  Reupload = FALSE
  MaxUploads = 2
  MaxCommands = 1
  MaxFaults = 0
PROPERTIES
  KeysOnlyAppended
