SPECIFICATION Spec
CONSTANTS
  Admins = {a1}
  MaxMail = 2
  MaxSaves = 3
  Hits = {h1, h2}
  Limits = {1, 2}
  DefaultLimit = 1
  MaxHits = 5
  JobNames = {j1, j2}
  Invocations = {i1, i2}
  MaxTicks = 3
  Checkers = {c1, c2}
  MaxVersion = 2
  MaxChecks = 4
  MaxCrashes = 1
  MaxTiles = 3
  MaxMoves = 4
  Urls = {x1, x2}
  Documents <- MCDocuments
  Readers = {r1}
  Editors = {e1, e2}
  maxConcurrency = 1
  MaxFeeds = 2
  MaxPicked = 2
  MaxReads = 1
  MaxChanges = 2
CHECK_DEADLOCK FALSE
INVARIANTS
  InOrderAtMostOnce
  JobsDoNotOverlap
  ImportsAreNew
