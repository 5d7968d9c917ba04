SPECIFICATION FairSpec
CONSTANTS
  j1 = j1
  j2 = j2
  Jobs = {j1, j2}
  Groups = {"v4"}
  Users = {"ann"}
  Group <- OneGroup
  Owner <- OneOwner
  Chips <- OneChip
  Rank <- ByName
  Focus <- Unfocused
  MaxAttempts <- Once
  Enabled = {j1, j2}
  Unreadable = {j2}
  Expirable = {}
  Happenings = {"cancel", "blind"}
  Quota <- Room
  Capped = {}
  UserCap <- OneEach
  FaultKinds = {}
  MaxFaults = 0
  MaxCrashes = 0
PROPERTIES
  CancelHonoured
