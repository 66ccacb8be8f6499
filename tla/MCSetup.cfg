SPECIFICATION Spec
CONSTANTS
  Requests = {r1, r2}
  Addrs = {a1, a2}
  Users = {u1}
  Feeds = {f1}
  failuresBeforeGlobalPause = 3
  MaxStarts = 3
  MaxRequests = 5
CHECK_DEADLOCK FALSE
SYMMETRY Symmetry
INVARIANTS
  GuessesBounded
  EncryptedWhenServing
  IssuerSpeaksForAll
