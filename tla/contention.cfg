SPECIFICATION Spec
CONSTANTS
  j1 = j1
  j2 = j2
  Jobs = {j1, j2}
  Groups = {"v4"}
  Users = {"ann"}
  Group <- OneGroup
  Owner <- OneOwner
  Chips <- OneChip
  Rank <- ByName
  Focus <- Unfocused
  MaxAttempts <- Once
  Enabled = {j1, j2}
  Unreadable = {}
  Expirable = {}
  Happenings = {"suspend"}
  Quota <- OneSlot
  Capped = {"ann"}
  UserCap <- OneEach
  FaultKinds = {"scan"}
  MaxFaults = 1
  MaxCrashes = 1
PROPERTIES
  NoPriorityInversion
INVARIANTS
  TypeOK
  LimitsRespected
