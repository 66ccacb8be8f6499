CONSTANTS
  Ops = {sched, adm}
  Scheduler = sched
  Lookups = {l1}
  Inodes = {i1, i2, i3, i4}
  Editions <- TwoEditions
  None = None
  MaxOps = 2
  MaxRelease = 2
SPECIFICATION GeoSpec
INVARIANTS WholeFiles LookupIsFresh StatusTellsTruth
SYMMETRY Symmetry
CONSTRAINT NotOverlapped
