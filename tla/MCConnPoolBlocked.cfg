SPECIFICATION FairSpec
CONSTANTS
  Clients = {"req1", "req2"}
  Deadlined = {}
  Conns = {s1, s2}
  NoConn = NoConn
  PoolSize = 1
PROPERTY BlockedCallResumes
