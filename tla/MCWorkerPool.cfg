SPECIFICATION FairSpec
CONSTANTS
  Modules = {"notes"}
  Ops = {"o1", "o2"}
  Procs = {"p1", "p2"}
  NoOp = NoOp
  NoProc = NoProc
INVARIANTS NoLeakedProcess OneUnstoppedProcess OnlyCrashesReported
PROPERTY OperationsEnd
