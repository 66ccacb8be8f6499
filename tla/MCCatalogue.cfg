SPECIFICATION StoreSpec
CONSTANTS
  ModuleNames = {n1}
  Repos = {r1}
  PubKeys = {k1, k2}
  Syncers = {p1, p2}
  MaxListed = 2
  MaxRows = 1
  MaxEdits = 2
  MaxSyncs = 2
SYMMETRY Interchangeable
CHECK_DEADLOCK FALSE
INVARIANTS
  CatalogueMatches
  BadgesMatch
