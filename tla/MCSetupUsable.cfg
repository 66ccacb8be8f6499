SPECIFICATION Spec
CONSTANTS
  Requests = {r1}
  Addrs = {a1, a2}
  Users = {u1}
  Feeds = {f1}
  failuresBeforeGlobalPause = 3
  MaxStarts = 3
  MaxRequests = 3
CHECK_DEADLOCK FALSE
SYMMETRY Symmetry
INVARIANT CompletedIsUsable
