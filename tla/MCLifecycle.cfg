SPECIFICATION Spec
CONSTANTS
  Ops = {o1}
  v1 = v1
  v2 = v2
  m1 = m1
  m2 = m2
  Versions = {v1, v2}
  NoVersion = NoVersion
  Files = {f1, f2}
  Scripts = {m1, m2}
  Migrations <- MCMigrations
  Tier <- MCTier
  MaxEvents = 3
  DiskFails = TRUE
INVARIANTS UploadsKept RecordedIsApplied ActiveIsConsistent CodeRecoverable NoStuckInstall
SYMMETRY Symmetry
