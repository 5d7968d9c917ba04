SPECIFICATION Spec
CONSTANTS
  j1 = j1
  j2 = j2
  Jobs = {j1}
  Groups = {"v4"}
  Users = {"ann"}
  Group <- OneGroup
  Owner <- OneOwner
  Chips <- OneChip
  Rank <- ByName
  Focus <- Unfocused
  MaxAttempts <- Twice
  Enabled = {j1}
  Unreadable = {}
  Expirable = {}
  Happenings = {"slow", "linger"}
  Quota <- Room
  Capped = {}
  UserCap <- OneEach
  FaultKinds = {"save", "delete"}
  MaxFaults = 1
  MaxCrashes = 1
INVARIANTS
  CurrentQrFitsAttempt
  HeldIsTracked
  OneQrPerAttempt
PROPERTIES
  ReconcileSparesJobs
  StatusFileIsLedger
