SPECIFICATION Spec
CONSTANTS
  j1 = j1
  j2 = j2
  Jobs = {j1}
  Groups = {"v4"}
  Users = {"ann"}
  Group <- OneGroup
  Owner <- OneOwner
  Chips <- OneChip
  Rank <- ByName
  Focus <- Unfocused
  MaxAttempts <- Twice
  Enabled = {j1}
  Unreadable = {}
  Expirable = {}
  Happenings = {}
  Quota <- Room
  Capped = {}
  UserCap <- OneEach
  FaultKinds = {"probe"}
  MaxFaults = 1
  MaxCrashes = 0
PROPERTIES
  HealthyAttemptKept
