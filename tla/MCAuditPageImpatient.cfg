SPECIFICATION PageSpec
CONSTANTS
  Writers = {w1}
  NoWriter = NoWriter
  Words = {"login", "approve", "ann", "c1"}
  Events = {"login", "approve"}
  Targets <- Subjects
  Ciphertexts = {"c1"}
  LegacyRows = 1
  MaxId = 4
  Needle = "login"
  STORE_SYNC_TYPE = "approve"
  PageSize = 1
  SearchScanBatch = 2
  SearchScanCap = 3
  PatientAdmin = FALSE
INVARIANT ShownMatchesFilter
