SPECIFICATION FairSpec
CONSTANTS
  j1 = j1
  j2 = j2
  Jobs = {j1}
  Groups = {"v4"}
  Users = {"ann"}
  Group <- OneGroup
  Owner <- OneOwner
  Chips <- OneChip
  Rank <- ByName
  Focus <- Unfocused
  MaxAttempts <- Once
  Enabled = {j1}
  Unreadable = {}
  Expirable = {j1}
  Happenings = {"vanish", "sicken"}
  Quota <- Room
  Capped = {}
  UserCap <- OneEach
  FaultKinds = {"delete", "create", "reap", "describe", "probe", "read"}
  MaxFaults = 1
  MaxCrashes = 1
PROPERTIES
  ForsakenCapacityReturns
  DeadAttemptsEnd
