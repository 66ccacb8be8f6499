SPECIFICATION Spec
CONSTANTS
  Users = {u1, u2}
  Sids = {s1, s2}
  NoSession = NoSession
  NoUser = NoUser
  SessionTTL = 2
  SessionAbsoluteMaxAge = 2
  ReauthWindow = 0
SYMMETRY SidSymmetry
PROPERTY LockingEndsEverySession
