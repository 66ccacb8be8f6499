SPECIFICATION FairSpec
CONSTANTS
  Clients = {"req1", "req2", "job1"}
  Deadlined = {"job1"}
  Conns = {s1, s2, s3}
  NoConn = NoConn
  PoolSize = 2
INVARIANTS SlotsAccounted OwnResponse
PROPERTY DeadlinedReturns
