SPECIFICATION PageSpec
CONSTANTS
  Writers = {w1, w2}
  NoWriter = NoWriter
  Words = {"login", "sync", "ann", "c1"}
  Events = {"login", "sync"}
  Targets <- Subjects
  Ciphertexts = {"c1"}
  LegacyRows = 2
  MaxId = 4
  Needle = "login"
  STORE_SYNC_TYPE = "sync"
  PageSize = 1
  SearchScanBatch = 2
  SearchScanCap = 3
  PatientAdmin = TRUE
INVARIANTS
  ChainLinked
  VerifyAcceptsLog
  VerifyDetectsDamage
  GapFreeWindow
  EndMeansEnd
SYMMETRY WriterSymmetry
PROPERTY ImplementsAtomicLog
CHECK_DEADLOCK FALSE
CONSTRAINT PlainWhenRead
