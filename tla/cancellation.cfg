SPECIFICATION FairSplitSpec
CONSTANTS
  j1 = j1
  j2 = j2
  Jobs = {j1}
  Groups = {"v4"}
  Users = {"ann", "bob"}
  Group <- OneGroup
  Owner <- BobsJobs
  Chips <- OneChip
  Rank <- ByName
  MaxAttempts <- Once
  Enabled = {j1}
  Unreadable = {}
  Expirable = {j1}
  Happenings = {"cancel", "suspend", "cleanup"}
  Focus <- AnnNextTime
  Partner = "bob"
  AtFirst = TRUE
  Quota <- Room
  Capped = {}
  UserCap <- OneEach
  FaultKinds = {"refresh", "heartbeat"}
  MaxFaults = 1
  MaxCrashes = 1
INVARIANTS
  HeldIsTracked
PROPERTIES
  CancelHonoured
  RobbedJobsGoOn
  IdleCleanupSparesTheLiving
  FocusKeepsToItsUser
