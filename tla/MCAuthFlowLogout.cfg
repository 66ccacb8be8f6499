CONSTANTS
  adm = adm
  adm2 = adm2
  usr = usr
  Users = {adm, adm2, usr}
  Sids = {s1, s2}
  Threads = {t1, t2}
  RoleAtIdP <- TwoAdmins
  Places = {"home", "away"}
  NoRow = NoRow
  NoSession = NoSession
  MaxBegun = 3
SPECIFICATION Spec
INVARIANT LogoutRevokesAtIdP
SYMMETRY Symmetry
CHECK_DEADLOCK FALSE
