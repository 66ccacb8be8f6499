SPECIFICATION Spec
CONSTANTS
  Modules = {"notes"}
  Ops = {"o1", "o2"}
  Procs = {"p1", "p2", "p3"}
  NoOp = NoOp
  NoProc = NoProc
INVARIANT NoWorkerWithoutRow
