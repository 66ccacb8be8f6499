-------------------------- MODULE WorkerPoolProofs --------------------------
(***************************************************************************)
(* The worker pool's process bookkeeping, proved for any number of modules,  *)
(* operations and processes.                                                 *)
(*                                                                           *)
(* NoLeakedProcess is not inductive by itself. It takes what startMu really  *)
(* guarantees: the operation between popAndStop and the insertion holds its  *)
(* module's lock and sees an empty map entry, so neither its insertion nor   *)
(* its pop can lose a process that another operation has put there.          *)
(***************************************************************************)
EXTENDS WorkerPool, TLAPS

LockPCs == {"pop", "popstop", "spawn", "boot", "insert", "failed"}
OwnPCs == {"popstop", "boot", "insert"}
EmptyPCs == {"popstop", "spawn", "boot", "insert"}

(* A worker of module m that nobody has stopped.                             *)
Unstopped(w, m) == w.module = m /\ ~w.stopping /\ w.run # "unused"

(* What holds of every worker by itself.                                     *)
Consistent(w) ==
  /\ w.wait = "reporting" => w.run = "crashed"
  /\ w.run \in {"dying", "killed"} => w.stopping
  /\ w.stopping => w.run \in {"dying", "killed", "crashed"}

WorkersConsistent == \A p \in Procs : Consistent(proc[p])

LockMatchesPC ==
  /\ \A o \in Ops : pc[o] \in LockPCs => startMu[mod[o]] = o
  /\ \A m \in Modules : startMu[m] # NoOp =>
       startMu[m] \in Ops /\ mod[startMu[m]] = m /\ pc[startMu[m]] \in LockPCs

OwnIsUnstopped ==
  \A o \in Ops : own[o] # NoProc => pc[o] \in OwnPCs /\ Unstopped(proc[own[o]], mod[o])

MapIsUnstopped == \A m \in Modules : workers[m] # NoProc => Unstopped(proc[workers[m]], m)

MapEmptyWhileStarting ==
  \A o \in Ops : pc[o] \in EmptyPCs => workers[mod[o]] = NoProc

Inv ==
  /\ TypeOK /\ WorkersConsistent /\ LockMatchesPC /\ OwnIsUnstopped
  /\ MapIsUnstopped /\ MapEmptyWhileStarting /\ NoLeakedProcess

-----------------------------------------------------------------------------
LEMMA AnyModuleType == AnyModule \in Modules
  BY ModulesAssumption DEF AnyModule

LEMMA UnusedFacts ==
  /\ Unused \in ProcType /\ Consistent(Unused)
  /\ Unused.run = "unused"
  BY AnyModuleType DEF Unused, ProcType, RunStates, WaitStates, Consistent

LEMMA NewProcFacts ==
  ASSUME NEW m \in Modules
  PROVE  /\ NewProc(m) \in ProcType /\ Consistent(NewProc(m)) /\ Unstopped(NewProc(m), m)
         /\ NewProc(m).module = m
  BY DEF NewProc, ProcType, RunStates, WaitStates, Consistent, Unstopped

(* What stop() leaves of a worker that was in somebody's hands.              *)
LEMMA StopFacts ==
  ASSUME NEW w \in ProcType, Consistent(w), NEW m, Unstopped(w, m)
  PROVE  /\ Settle(Kill(w)) \in ProcType /\ Consistent(Settle(Kill(w)))
         /\ Settle(Kill(w)).run # "live"
  <1> DEFINE k == Kill(w)
  <1>1. /\ k \in ProcType /\ k.stopping /\ k.wait = w.wait
        /\ k.run = IF w.run = "live" THEN "dying" ELSE w.run
    BY DEF Kill, ProcType, RunStates
  <1>2. w.run \in {"live", "crashed"} BY DEF Consistent, Unstopped, ProcType, RunStates
  <1>3. k.run \in {"dying", "crashed"} /\ Consistent(k)
    BY <1>1, <1>2 DEF Consistent
  <1> HIDE DEF k
  <1>4. CASE k.stopping /\ k.wait = "done" BY <1>4, UnusedFacts DEF Settle, k
  <1>5. CASE ~(k.stopping /\ k.wait = "done") BY <1>1, <1>3, <1>5 DEF Settle, k
  <1> QED BY <1>4, <1>5

-----------------------------------------------------------------------------
(* Steps of the workers themselves *)

LEMMA ProcStep ==
  ASSUME Inv, NEW p \in Procs, NEW w \in ProcType,
         proc' = [proc EXCEPT ![p] = w], Consistent(w),
         w.run = "live" => proc[p].run = "live" /\ w.module = proc[p].module,
         \A m : Unstopped(proc[p], m) => Unstopped(w, m),
         UNCHANGED <<workers, startMu, opvars>>, row' \in [Modules -> Statuses]
  PROVE  Inv'
  <1>1. UNCHANGED <<workers, startMu, pc, kind, mod, own>> BY DEF opvars
  <1>2. \A q \in Procs : proc'[q] = IF q = p THEN w ELSE proc[q] BY DEF Inv, TypeOK
  <1>3. TypeOK' BY <1>1 DEF Inv, TypeOK
  <1>4. WorkersConsistent' BY <1>2 DEF Inv, WorkersConsistent
  <1>5. \A q \in Procs : \A m : Unstopped(proc[q], m) => Unstopped(proc'[q], m) BY <1>2
  <1>6. LockMatchesPC' /\ MapEmptyWhileStarting'
    BY <1>1 DEF Inv, LockMatchesPC, MapEmptyWhileStarting
  <1>7. OwnIsUnstopped' BY <1>1, <1>5 DEF Inv, OwnIsUnstopped, TypeOK
  <1>8. MapIsUnstopped' BY <1>1, <1>5 DEF Inv, MapIsUnstopped, TypeOK
  <1>9. NoLeakedProcess' BY <1>1, <1>2 DEF Inv, NoLeakedProcess, Running
  <1> QED BY <1>3, <1>4, <1>6, <1>7, <1>8, <1>9 DEF Inv

LEMMA SetRowType ==
  ASSUME TypeOK, NEW m \in Modules, NEW status \in Statuses, SetRow(m, status)
  PROVE  row' \in [Modules -> Statuses]
  BY DEF TypeOK, SetRow, Statuses

LEMMA DieInv ==
  ASSUME Inv, NEW p \in Procs, Die(p)
  PROVE  Inv'
  <1> DEFINE w == [proc[p] EXCEPT !.run = "killed"]
  <1>1. proc[p] \in ProcType /\ Consistent(proc[p]) /\ proc[p].run = "dying"
    BY DEF Inv, TypeOK, WorkersConsistent, Die
  <1>2. /\ w \in ProcType /\ w.run = "killed" /\ w.module = proc[p].module
        /\ w.stopping = proc[p].stopping /\ w.wait = proc[p].wait
    BY <1>1 DEF ProcType, RunStates
  <1>3. proc' = [proc EXCEPT ![p] = w] BY DEF Die
  <1> HIDE DEF w
  <1>4. Consistent(w) /\ \A m : Unstopped(proc[p], m) => Unstopped(w, m)
    BY <1>1, <1>2 DEF Consistent, Unstopped
  <1>5. row' \in [Modules -> Statuses] BY DEF Inv, TypeOK, Die
  <1> QED BY <1>2, <1>3, <1>4, <1>5, ProcStep DEF Die

LEMMA CrashInv ==
  ASSUME Inv, NEW p \in Procs, Crash(p)
  PROVE  Inv'
  <1> DEFINE w == [proc[p] EXCEPT !.run = "crashed"]
  <1>1. proc[p] \in ProcType /\ Consistent(proc[p]) /\ proc[p].run = "live"
    BY DEF Inv, TypeOK, WorkersConsistent, Crash
  <1>2. /\ w \in ProcType /\ w.run = "crashed" /\ w.module = proc[p].module
        /\ w.stopping = proc[p].stopping /\ w.wait = proc[p].wait
    BY <1>1 DEF ProcType, RunStates
  <1>3. proc' = [proc EXCEPT ![p] = w] BY DEF Crash
  <1> HIDE DEF w
  <1>4. Consistent(w) /\ \A m : Unstopped(proc[p], m) => Unstopped(w, m)
    BY <1>1, <1>2 DEF Consistent, Unstopped
  <1>5. row' \in [Modules -> Statuses] BY DEF Inv, TypeOK, Crash
  <1> QED BY <1>2, <1>3, <1>4, <1>5, ProcStep DEF Crash

LEMMA WaitReturnsInv ==
  ASSUME Inv, NEW p \in Procs, WaitReturns(p)
  PROVE  Inv'
  <1> DEFINE r == [proc[p] EXCEPT !.wait = "reporting"]
             w == IF proc[p].stopping THEN Unused ELSE r
  <1>1. /\ proc[p] \in ProcType /\ Consistent(proc[p]) /\ proc[p].run \in {"killed", "crashed"}
    BY DEF Inv, TypeOK, WorkersConsistent, WaitReturns, Exited
  <1>2. /\ r \in ProcType /\ r.run = proc[p].run /\ r.module = proc[p].module
        /\ r.stopping = proc[p].stopping /\ r.wait = "reporting"
    BY <1>1 DEF ProcType, WaitStates
  <1>3. proc' = [proc EXCEPT ![p] = w] BY DEF WaitReturns
  <1>4. row' \in [Modules -> Statuses] /\ UNCHANGED <<workers, startMu, opvars>>
    BY DEF Inv, TypeOK, WaitReturns
  <1> HIDE DEF r
  <1>5. w \in ProcType /\ Consistent(w) /\ w.run # "live"
    BY <1>1, <1>2, UnusedFacts DEF Consistent
  <1>6. \A m : Unstopped(proc[p], m) => Unstopped(w, m) BY <1>2 DEF Unstopped
  <1> HIDE DEF w
  <1> QED BY <1>3, <1>4, <1>5, <1>6, ProcStep

LEMMA CrashHandlerInv ==
  ASSUME Inv, NEW p \in Procs, CrashHandler(p)
  PROVE  Inv'
  <1> DEFINE r == [proc[p] EXCEPT !.wait = "done"]  w == Settle(r)
  <1>1. proc[p] \in ProcType /\ Consistent(proc[p]) /\ proc[p].module \in Modules
    BY DEF Inv, TypeOK, WorkersConsistent, ProcType
  <1>2. /\ r \in ProcType /\ r.run = proc[p].run /\ r.module = proc[p].module
        /\ r.stopping = proc[p].stopping /\ r.wait = "done"
    BY <1>1 DEF ProcType, WaitStates
  <1>3. proc' = [proc EXCEPT ![p] = w] BY DEF CrashHandler
  <1>4. row' \in [Modules -> Statuses]
    BY <1>1, SetRowType DEF Inv, CrashHandler, Statuses
  <1> HIDE DEF r
  <1>5. w = IF proc[p].stopping THEN Unused ELSE r BY <1>2 DEF Settle
  <1>6. w \in ProcType /\ Consistent(w)
        /\ (w.run = "live" => proc[p].run = "live" /\ w.module = proc[p].module)
    BY <1>1, <1>2, <1>5, UnusedFacts DEF Consistent
  <1>7. \A m : Unstopped(proc[p], m) => Unstopped(w, m) BY <1>2, <1>5 DEF Unstopped
  <1> HIDE DEF w
  <1> QED BY <1>3, <1>4, <1>6, <1>7, ProcStep DEF CrashHandler

-----------------------------------------------------------------------------
(* Steps that leave the workers alone *)

(* An operation begins, or moves between places that hold nothing.           *)
LEMMA BeginInv ==
  ASSUME Inv, NEW o \in Ops, NEW m \in Modules, NEW k \in Kinds, NEW label \in {"stop", "lock"},
         Begin(o, k, m, label), row' \in [Modules -> Statuses],
         UNCHANGED <<workers, startMu, proc, own>>
  PROVE  Inv'
  <1>1. /\ pc[o] = "idle" /\ pc' = [pc EXCEPT ![o] = label]
        /\ kind' = [kind EXCEPT ![o] = k] /\ mod' = [mod EXCEPT ![o] = m]
    BY DEF Begin, Goto
  <1>2. TypeOK' BY <1>1 DEF Inv, TypeOK, PCs
  <1>3. \A i \in Ops : /\ i # o => pc'[i] = pc[i] /\ mod'[i] = mod[i]
                       /\ i = o => pc'[i] \notin LockPCs /\ pc[i] \notin LockPCs
    BY <1>1 DEF Inv, TypeOK, LockPCs
  <1>4. LockMatchesPC' BY <1>3 DEF Inv, LockMatchesPC
  <1>5. OwnPCs \subseteq LockPCs /\ EmptyPCs \subseteq LockPCs BY DEF OwnPCs, EmptyPCs, LockPCs
  <1>6. own[o] = NoProc BY <1>3, <1>5 DEF Inv, OwnIsUnstopped
  <1>7. OwnIsUnstopped' BY <1>3, <1>6 DEF Inv, OwnIsUnstopped
  <1>8. MapEmptyWhileStarting' BY <1>3, <1>5 DEF Inv, MapEmptyWhileStarting
  <1>9. MapIsUnstopped' /\ WorkersConsistent' BY DEF Inv, MapIsUnstopped, WorkersConsistent
  <1>10. NoLeakedProcess' BY <1>3, <1>6, NoProcAssumption DEF Inv, NoLeakedProcess, Running
  <1> QED BY <1>2, <1>4, <1>7, <1>8, <1>9, <1>10 DEF Inv

(* A step of operation o that neither takes nor gives up the lock, a worker  *)
(* or a map entry.                                                           *)
LEMMA MoveInv ==
  ASSUME Inv, NEW o \in Ops, NEW label \in PCs, Goto(o, label),
         label \in LockPCs <=> pc[o] \in LockPCs,
         label \in EmptyPCs => pc[o] \in EmptyPCs,
         own[o] # NoProc => label \in OwnPCs,
         kind' \in [Ops -> Kinds], row' \in [Modules -> Statuses],
         UNCHANGED <<workers, startMu, proc, mod, own>>
  PROVE  Inv'
  <1>1. pc' = [pc EXCEPT ![o] = label] BY DEF Goto
  <1>2. TypeOK' BY <1>1 DEF Inv, TypeOK
  <1>3. \A i \in Ops : pc'[i] = IF i = o THEN label ELSE pc[i] BY <1>1 DEF Inv, TypeOK
  <1>4. LockMatchesPC' BY <1>3 DEF Inv, LockMatchesPC
  <1>5. OwnIsUnstopped' BY <1>3 DEF Inv, OwnIsUnstopped
  <1>6. MapEmptyWhileStarting' BY <1>3 DEF Inv, MapEmptyWhileStarting
  <1>7. MapIsUnstopped' /\ WorkersConsistent' BY DEF Inv, MapIsUnstopped, WorkersConsistent
  <1>8. NoLeakedProcess' BY DEF Inv, NoLeakedProcess, Running
  <1> QED BY <1>2, <1>4, <1>5, <1>6, <1>7, <1>8 DEF Inv

LEMMA InstallInv ==
  ASSUME Inv, NEW o \in Ops, NEW m \in Modules, Install(o, m)
  PROVE  Inv'
  <1>1. row' \in [Modules -> Statuses] BY DEF Inv, TypeOK, Install, Statuses
  <1> QED BY <1>1, BeginInv DEF Install, Kinds

LEMMA RestartInv ==
  ASSUME Inv, NEW o \in Ops, NEW m \in Modules, Restart(o, m)
  PROVE  Inv'
  <1>1. row' \in [Modules -> Statuses] BY DEF Inv, TypeOK, Restart
  <1> QED BY <1>1, BeginInv DEF Restart, Kinds

LEMMA ReloadEgressInv ==
  ASSUME Inv, NEW o \in Ops, NEW m \in Modules, ReloadEgress(o, m)
  PROVE  Inv'
  <1>1. row' \in [Modules -> Statuses] BY DEF Inv, TypeOK, ReloadEgress
  <1> QED BY <1>1, BeginInv DEF ReloadEgress, Kinds

LEMMA UninstallInv ==
  ASSUME Inv, NEW o \in Ops, NEW m \in Modules, Uninstall(o, m)
  PROVE  Inv'
  <1>1. row' \in [Modules -> Statuses] BY SetRowType DEF Inv, Uninstall, Statuses
  <1> QED BY <1>1, BeginInv DEF Uninstall, Kinds

(* Only the three places of OwnPCs have a worker in hand.                    *)
LEMMA OwnPlace ==
  ASSUME Inv, NEW o \in Ops, pc[o] \notin OwnPCs
  PROVE  own[o] = NoProc
  BY DEF Inv, OwnIsUnstopped

LEMMA DeleteRowInv ==
  ASSUME Inv, NEW o \in Ops, DeleteRow(o)
  PROVE  Inv'
  <1>1. row' \in [Modules -> Statuses] /\ kind' \in [Ops -> Kinds]
    BY DEF Inv, TypeOK, DeleteRow, Return, Statuses, Kinds
  <1>2. own[o] = NoProc BY OwnPlace DEF DeleteRow, OwnPCs
  <1> QED BY <1>1, <1>2, MoveInv DEF DeleteRow, Return, PCs, LockPCs, EmptyPCs

LEMMA FinishInv ==
  ASSUME Inv, NEW o \in Ops, Finish(o)
  PROVE  Inv'
  <1>1. row' \in [Modules -> Statuses]
    <2>1. mod[o] \in Modules BY DEF Inv, TypeOK
    <2>2. CASE SetRow(mod[o], "active") BY <2>1, <2>2, SetRowType DEF Inv, Statuses
    <2>3. CASE UNCHANGED row BY <2>3 DEF Inv, TypeOK
    <2> QED BY <2>2, <2>3 DEF Finish
  <1>2. kind' \in [Ops -> Kinds] BY DEF Inv, TypeOK, Finish, Return, Kinds
  <1>3. own[o] = NoProc BY OwnPlace DEF Finish, OwnPCs
  <1> QED BY <1>1, <1>2, <1>3, MoveInv DEF Finish, Return, PCs, LockPCs, EmptyPCs

LEMMA SpawnErrorInv ==
  ASSUME Inv, NEW o \in Ops, SpawnError(o)
  PROVE  Inv'
  <1>1. row' \in [Modules -> Statuses] /\ kind' \in [Ops -> Kinds]
    BY DEF Inv, TypeOK, SpawnError
  <1>2. own[o] = NoProc BY OwnPlace DEF SpawnError, OwnPCs
  <1> QED BY <1>1, <1>2, MoveInv DEF SpawnError, PCs, LockPCs, EmptyPCs

LEMMA BootOKInv ==
  ASSUME Inv, NEW o \in Ops, BootOK(o)
  PROVE  Inv'
  <1>1. row' \in [Modules -> Statuses] /\ kind' \in [Ops -> Kinds]
    BY DEF Inv, TypeOK, BootOK
  <1> QED BY <1>1, MoveInv DEF BootOK, PCs, LockPCs, EmptyPCs, OwnPCs

-----------------------------------------------------------------------------
(* The steps that stop workers *)

(* An operation lets go of what it stops, and disturbs nothing else: the     *)
(* workers of ps are unstopped before, in nobody's hands and in no map entry *)
(* after.                                                                    *)
LEMMA StopInv ==
  ASSUME Inv, NEW ps, StopProcs(ps),
         \A p \in Procs : p \in ps => \E m : Unstopped(proc[p], m),
         workers' \in [Modules -> Procs \cup {NoProc}],
         own' \in [Ops -> Procs \cup {NoProc}], pc' \in [Ops -> PCs],
         \A m \in Modules : workers'[m] # NoProc => workers'[m] = workers[m] /\ workers[m] \notin ps,
         \A m \in Modules : workers[m] \notin ps => workers'[m] = workers[m],
         \A o \in Ops : own'[o] # NoProc =>
           own'[o] = own[o] /\ own[o] \notin ps /\ pc'[o] \in OwnPCs,
         \A o \in Ops : own[o] \notin ps => own'[o] = own[o],
         \A o \in Ops : (pc'[o] \in LockPCs <=> pc[o] \in LockPCs)
                        /\ (pc'[o] \in EmptyPCs => pc[o] \in EmptyPCs),
         UNCHANGED <<startMu, row, kind, mod>>
  PROVE  Inv'
  <1>1. \A p \in Procs : proc'[p] = IF p \in ps THEN Settle(Kill(proc[p])) ELSE proc[p]
    BY DEF StopProcs
  <1>2. \A p \in Procs : proc[p] \in ProcType /\ Consistent(proc[p])
    BY DEF Inv, TypeOK, WorkersConsistent
  <1>3. \A p \in Procs : p \in ps =>
          proc'[p] \in ProcType /\ Consistent(proc'[p]) /\ proc'[p].run # "live"
    <2> TAKE p \in Procs
    <2> HAVE p \in ps
    <2>1. PICK m : Unstopped(proc[p], m) OBVIOUS
    <2>2. proc'[p] = Settle(Kill(proc[p])) BY <1>1
    <2> QED BY <1>2, <2>1, <2>2, StopFacts
  <1>4. \A p \in Procs : p \notin ps => proc'[p] = proc[p] BY <1>1
  <1>5. \A p \in Procs : proc'[p] \in ProcType /\ Consistent(proc'[p]) BY <1>2, <1>3, <1>4
  <1>6. proc' \in [Procs -> ProcType] BY <1>5 DEF StopProcs
  <1>7. TypeOK' BY <1>6 DEF Inv, TypeOK
  <1>8. WorkersConsistent' BY <1>5 DEF WorkersConsistent
  <1>9. LockMatchesPC' BY DEF Inv, LockMatchesPC
  <1>10. OwnIsUnstopped' BY <1>4 DEF Inv, OwnIsUnstopped, TypeOK
  <1>11. MapIsUnstopped' BY <1>4 DEF Inv, MapIsUnstopped, TypeOK
  <1>12. MapEmptyWhileStarting'
    BY DEF Inv, MapEmptyWhileStarting, TypeOK
  <1>13. NoLeakedProcess'
    <2> SUFFICES ASSUME NEW p \in Procs, proc'[p].run = "live"
                 PROVE  \/ workers'[proc'[p].module] = p
                        \/ \E o \in Ops : own'[o] = p /\ mod'[o] = proc'[p].module
                                          /\ startMu'[mod'[o]] = o
      BY DEF NoLeakedProcess, Running
    <2>1. p \notin ps /\ proc'[p] = proc[p] BY <1>3, <1>4
    <2>2. proc[p].module \in Modules BY <1>2 DEF ProcType
    <2> QED BY <2>1, <2>2 DEF Inv, NoLeakedProcess, Running
  <1> QED BY <1>7, <1>8, <1>9, <1>10, <1>11, <1>12, <1>13 DEF Inv

(* A worker is in one place only.                                            *)
LEMMA OnePlace ==
  ASSUME Inv
  PROVE  /\ \A m, n \in Modules : workers[m] # NoProc /\ workers[m] = workers[n] => m = n
         /\ \A o \in Ops, m \in Modules : own[o] # NoProc => own[o] # workers[m]
         /\ \A o, i \in Ops : own[o] # NoProc /\ own[o] = own[i] => o = i
  <1>1. OwnPCs \subseteq LockPCs /\ OwnPCs \subseteq EmptyPCs
    BY DEF OwnPCs, LockPCs, EmptyPCs
  <1>2. \A m, n \in Modules : workers[m] # NoProc /\ workers[m] = workers[n] => m = n
    BY DEF Inv, MapIsUnstopped, Unstopped
  <1>3. \A o \in Ops, m \in Modules : own[o] # NoProc => own[o] # workers[m]
    <2> SUFFICES ASSUME NEW o \in Ops, NEW m \in Modules, own[o] # NoProc, own[o] = workers[m]
                 PROVE  FALSE
      OBVIOUS
    <2>1. mod[o] = m BY DEF Inv, OwnIsUnstopped, MapIsUnstopped, Unstopped
    <2>2. pc[o] \in EmptyPCs BY <1>1 DEF Inv, OwnIsUnstopped
    <2> QED BY <2>1, <2>2 DEF Inv, MapEmptyWhileStarting
  <1>4. \A o, i \in Ops : own[o] # NoProc /\ own[o] = own[i] => o = i
    <2> SUFFICES ASSUME NEW o \in Ops, NEW i \in Ops, own[o] # NoProc, own[o] = own[i]
                 PROVE  o = i
      OBVIOUS
    <2>1. mod[o] = mod[i] BY DEF Inv, OwnIsUnstopped, Unstopped
    <2>2. pc[o] \in LockPCs /\ pc[i] \in LockPCs BY <1>1 DEF Inv, OwnIsUnstopped
    <2> QED BY <2>1, <2>2 DEF Inv, LockMatchesPC
  <1> QED BY <1>2, <1>3, <1>4

LEMMA StopOpInv ==
  ASSUME Inv, NEW o \in Ops, Stop(o)
  PROVE  Inv'
  <1> DEFINE m == mod[o]  ps == {workers[m]}
             label == IF kind[o] = "uninstall" THEN "delete" ELSE "lock"
  <1>1. m \in Modules /\ workers \in [Modules -> Procs \cup {NoProc}]
        /\ own \in [Ops -> Procs \cup {NoProc}] /\ pc \in [Ops -> PCs]
    BY DEF Inv, TypeOK
  <1>2. StopProcs(ps) BY DEF Stop
  <1>3. workers' = [workers EXCEPT ![m] = NoProc] /\ own' = own
    BY DEF Stop
  <1>4. pc' = [pc EXCEPT ![o] = label] /\ pc[o] = "stop" BY DEF Stop, Goto
  <1>5. own[o] = NoProc BY <1>4, OwnPlace DEF OwnPCs
  <1>6. UNCHANGED <<startMu, row, kind, mod>> BY DEF Stop
  <1>7. label \in {"delete", "lock"} OBVIOUS
  <1>8. pc' \in [Ops -> PCs] /\ \A i \in Ops : i # o => pc'[i] = pc[i]
    BY <1>1, <1>4, <1>7 DEF PCs
  <1>9. pc'[o] \notin LockPCs /\ pc[o] \notin LockPCs /\ pc'[o] \notin EmptyPCs
    BY <1>1, <1>4, <1>7 DEF LockPCs, EmptyPCs
  <1>10. \A p \in Procs : p \in ps => \E n : Unstopped(proc[p], n)
    BY <1>1, NoProcAssumption DEF Inv, MapIsUnstopped
  <1>11. \A n \in Modules : workers'[n] # NoProc => workers'[n] = workers[n] /\ workers[n] \notin ps
    BY <1>1, <1>3, OnePlace
  <1>12. \A n \in Modules : workers[n] \notin ps => workers'[n] = workers[n]
    BY <1>1, <1>3
  <1>13. \A i \in Ops : own'[i] # NoProc => own'[i] = own[i] /\ own[i] \notin ps /\ pc'[i] \in OwnPCs
    BY <1>1, <1>3, <1>5, <1>8, OnePlace DEF Inv, OwnIsUnstopped
  <1>14. workers' \in [Modules -> Procs \cup {NoProc}] BY <1>1, <1>3
  <1> HIDE DEF m, ps, label
  <1> QED BY <1>1, <1>2, <1>3, <1>6, <1>8, <1>9, <1>10, <1>11, <1>12, <1>13, <1>14, StopInv

LEMMA StopAllInv ==
  ASSUME Inv, StopAll
  PROVE  Inv'
  <1> DEFINE ps == {workers[m] : m \in Modules}
  <1>1. workers \in [Modules -> Procs \cup {NoProc}]
        /\ own \in [Ops -> Procs \cup {NoProc}] /\ pc \in [Ops -> PCs]
    BY DEF Inv, TypeOK
  <1>2. StopProcs(ps) /\ workers' = [m \in Modules |-> NoProc] BY DEF StopAll
  <1>3. UNCHANGED <<startMu, row, pc, kind, mod, own>> BY DEF StopAll, opvars
  <1>4. \A p \in Procs : p \in ps => \E n : Unstopped(proc[p], n)
    BY <1>1, NoProcAssumption DEF Inv, MapIsUnstopped
  <1>5. \A i \in Ops : own[i] # NoProc => own[i] \notin ps /\ pc[i] \in OwnPCs
    BY OnePlace DEF Inv, OwnIsUnstopped
  <1>6. \A n \in Modules : workers'[n] = NoProc /\ workers[n] \in ps BY <1>2
  <1>7. workers' \in [Modules -> Procs \cup {NoProc}] BY <1>2
  <1> HIDE DEF ps
  <1> QED BY <1>1, <1>2, <1>3, <1>4, <1>5, <1>6, <1>7, StopInv

(* popstop and BootTimeout: the operation stops the worker in its hands.     *)
LEMMA StopOwnInv ==
  ASSUME Inv, NEW o \in Ops, StopProcs({own[o]}), own' = [own EXCEPT ![o] = NoProc],
         NEW label \in {"spawn", "failed"}, Goto(o, label),
         pc[o] \in OwnPCs, UNCHANGED <<workers, startMu, row, kind, mod>>
  PROVE  Inv'
  <1> DEFINE ps == {own[o]}
  <1>1. workers \in [Modules -> Procs \cup {NoProc}]
        /\ own \in [Ops -> Procs \cup {NoProc}] /\ pc \in [Ops -> PCs]
    BY DEF Inv, TypeOK
  <1>2. pc' = [pc EXCEPT ![o] = label] BY DEF Goto
  <1>3. pc' \in [Ops -> PCs] /\ \A i \in Ops : i # o => pc'[i] = pc[i]
    BY <1>1, <1>2 DEF PCs
  <1>4. pc'[o] \in LockPCs /\ pc[o] \in LockPCs /\ pc[o] \in EmptyPCs
    BY <1>1, <1>2 DEF LockPCs, EmptyPCs, OwnPCs
  <1>5. \A p \in Procs : p \in ps => \E n : Unstopped(proc[p], n)
    BY <1>1, NoProcAssumption DEF Inv, OwnIsUnstopped
  <1>6. \A i \in Ops : own'[i] # NoProc => own'[i] = own[i] /\ own[i] \notin ps /\ pc'[i] \in OwnPCs
    BY <1>1, <1>3, OnePlace DEF Inv, OwnIsUnstopped
  <1>7. \A i \in Ops : own[i] \notin ps => own'[i] = own[i] BY <1>1
  <1>8. \A n \in Modules : workers[n] # NoProc => workers[n] \notin ps BY OnePlace
  <1>9. own' \in [Ops -> Procs \cup {NoProc}] BY <1>1
  <1>10. StopProcs(ps) OBVIOUS
  <1> HIDE DEF ps
  <1> QED BY <1>1, <1>3, <1>4, <1>5, <1>6, <1>7, <1>8, <1>9, <1>10, StopInv

LEMMA PopStopInv ==
  ASSUME Inv, NEW o \in Ops, PopStop(o)
  PROVE  Inv'
  BY StopOwnInv DEF PopStop, OwnPCs

LEMMA BootTimeoutInv ==
  ASSUME Inv, NEW o \in Ops, BootTimeout(o)
  PROVE  Inv'
  BY StopOwnInv DEF BootTimeout, OwnPCs

-----------------------------------------------------------------------------
(* The steps that take and give: the lock, a map entry, a new worker *)

LEMMA LockStartInv ==
  ASSUME Inv, NEW o \in Ops, LockStart(o)
  PROVE  Inv'
  <1>1. /\ pc[o] = "lock" /\ startMu[mod[o]] = NoOp
        /\ startMu' = [startMu EXCEPT ![mod[o]] = o] /\ pc' = [pc EXCEPT ![o] = "pop"]
        /\ UNCHANGED <<workers, row, proc, kind, mod, own>>
    BY DEF LockStart, Goto
  <1>2. TypeOK' BY <1>1 DEF Inv, TypeOK, PCs
  <1>3. \A i \in Ops : pc'[i] = IF i = o THEN "pop" ELSE pc[i] BY <1>1 DEF Inv, TypeOK
  <1>4. \A m \in Modules : startMu'[m] = IF m = mod[o] THEN o ELSE startMu[m]
    BY <1>1 DEF Inv, TypeOK
  <1>5. mod \in [Ops -> Modules] BY DEF Inv, TypeOK
  <1>6. LockMatchesPC'
    BY <1>1, <1>3, <1>4, <1>5, NoOpAssumption DEF Inv, LockMatchesPC, LockPCs
  <1>7. own[o] = NoProc BY <1>1, OwnPlace DEF OwnPCs
  <1>8. OwnIsUnstopped' BY <1>1, <1>3, <1>7 DEF Inv, OwnIsUnstopped
  <1>9. MapEmptyWhileStarting' BY <1>1, <1>3 DEF Inv, MapEmptyWhileStarting, EmptyPCs
  <1>10. MapIsUnstopped' /\ WorkersConsistent'
    BY <1>1 DEF Inv, MapIsUnstopped, WorkersConsistent
  <1>11. \A i \in Ops : startMu[mod[i]] = i => startMu'[mod[i]] = i
    BY <1>1, <1>4, <1>5, NoOpAssumption
  <1>12. NoLeakedProcess' BY <1>1, <1>11 DEF Inv, NoLeakedProcess, Running
  <1> QED BY <1>2, <1>6, <1>8, <1>9, <1>10, <1>12 DEF Inv

(* The worker changes from the map into the operation's hands.               *)
LEMMA PopInv ==
  ASSUME Inv, NEW o \in Ops, Pop(o)
  PROVE  Inv'
  <1> DEFINE m == mod[o]  label == IF workers[m] = NoProc THEN "spawn" ELSE "popstop"
  <1>1. /\ pc[o] = "pop" /\ own' = [own EXCEPT ![o] = workers[m]]
        /\ workers' = [workers EXCEPT ![m] = NoProc] /\ pc' = [pc EXCEPT ![o] = label]
        /\ UNCHANGED <<startMu, row, proc, kind, mod>>
    BY DEF Pop, Goto
  <1>2. m \in Modules BY DEF Inv, TypeOK
  <1>3. label \in {"spawn", "popstop"} /\ (workers[m] # NoProc => label = "popstop") OBVIOUS
  <1> HIDE DEF label
  <1>4. TypeOK' BY <1>1, <1>2, <1>3 DEF Inv, TypeOK, PCs
  <1>5. \A i \in Ops : /\ pc'[i] = IF i = o THEN label ELSE pc[i]
                       /\ own'[i] = IF i = o THEN workers[m] ELSE own[i]
    BY <1>1 DEF Inv, TypeOK
  <1>6. \A n \in Modules : workers'[n] = IF n = m THEN NoProc ELSE workers[n]
    BY <1>1, <1>2 DEF Inv, TypeOK
  <1>7. startMu[m] = o BY <1>1 DEF Inv, LockMatchesPC, LockPCs
  <1>8. LockMatchesPC' BY <1>1, <1>3, <1>5 DEF Inv, LockMatchesPC, LockPCs
  <1>9. OwnIsUnstopped'
    BY <1>1, <1>2, <1>3, <1>5 DEF Inv, OwnIsUnstopped, MapIsUnstopped, OwnPCs
  <1>10. MapIsUnstopped' BY <1>1, <1>6 DEF Inv, MapIsUnstopped
  <1>11. MapEmptyWhileStarting'
    BY <1>1, <1>5, <1>6 DEF Inv, MapEmptyWhileStarting, TypeOK
  <1>12. WorkersConsistent' BY <1>1 DEF Inv, WorkersConsistent
  <1>13. own[o] = NoProc BY <1>1, OwnPlace DEF OwnPCs
  <1>14. NoLeakedProcess'
    <2> SUFFICES ASSUME NEW p \in Procs, proc[p].run = "live"
                 PROVE  \/ workers'[proc[p].module] = p
                        \/ \E i \in Ops : own'[i] = p /\ mod[i] = proc[p].module
                                          /\ startMu[mod[i]] = i
      BY <1>1 DEF NoLeakedProcess, Running
    <2>1. proc[p].module \in Modules BY DEF Inv, TypeOK, ProcType
    <2>2. CASE workers[proc[p].module] = p /\ proc[p].module = m
      BY <1>5, <1>7, <2>2
    <2>3. CASE workers[proc[p].module] = p /\ proc[p].module # m
      BY <1>6, <2>1, <2>3
    <2>4. CASE workers[proc[p].module] # p
      BY <1>5, <1>13, <2>4, NoProcAssumption DEF Inv, NoLeakedProcess, Running
    <2> QED BY <2>2, <2>3, <2>4
  <1> QED BY <1>4, <1>8, <1>9, <1>10, <1>11, <1>12, <1>14 DEF Inv

LEMMA SpawnInv ==
  ASSUME Inv, NEW o \in Ops, Spawn(o)
  PROVE  Inv'
  <1> DEFINE m == mod[o]  w == NewProc(m)
  <1>1. PICK p \in Procs : /\ proc[p] = Unused /\ own' = [own EXCEPT ![o] = p]
                           /\ proc' = [proc EXCEPT ![p] = w]
    BY DEF Spawn
  <1>2. /\ pc[o] = "spawn" /\ pc' = [pc EXCEPT ![o] = "boot"]
        /\ UNCHANGED <<workers, startMu, row, kind, mod>>
    BY DEF Spawn, Goto
  <1>3. m \in Modules BY DEF Inv, TypeOK
  <1>4. w \in ProcType /\ Consistent(w) /\ Unstopped(w, m) /\ w.module = m
    BY <1>3, NewProcFacts
  <1> HIDE DEF w
  <1>5. TypeOK' BY <1>1, <1>2, <1>4 DEF Inv, TypeOK, PCs
  <1>6. \A q \in Procs : proc'[q] = IF q = p THEN w ELSE proc[q] BY <1>1 DEF Inv, TypeOK
  <1>7. \A i \in Ops : /\ pc'[i] = IF i = o THEN "boot" ELSE pc[i]
                       /\ own'[i] = IF i = o THEN p ELSE own[i]
    BY <1>1, <1>2 DEF Inv, TypeOK
  <1>8. WorkersConsistent' BY <1>4, <1>6 DEF Inv, WorkersConsistent
  <1>9. \A q \in Procs : \A n : Unstopped(proc[q], n) => proc'[q] = proc[q]
    BY <1>1, <1>6, UnusedFacts DEF Unstopped
  <1>10. LockMatchesPC' BY <1>2, <1>7 DEF Inv, LockMatchesPC, LockPCs
  <1>11. OwnIsUnstopped'
    <2> SUFFICES ASSUME NEW i \in Ops, own'[i] # NoProc
                 PROVE  pc'[i] \in OwnPCs /\ Unstopped(proc'[own'[i]], mod[i])
      BY <1>2 DEF OwnIsUnstopped
    <2>1. CASE i = o BY <1>4, <1>6, <1>7, <2>1 DEF OwnPCs
    <2>2. CASE i # o BY <1>7, <1>9, <2>2 DEF Inv, OwnIsUnstopped, TypeOK
    <2> QED BY <2>1, <2>2
  <1>12. MapIsUnstopped' BY <1>2, <1>9 DEF Inv, MapIsUnstopped, TypeOK
  <1>13. MapEmptyWhileStarting'
    BY <1>2, <1>7 DEF Inv, MapEmptyWhileStarting, EmptyPCs
  <1>14. startMu[m] = o BY <1>2 DEF Inv, LockMatchesPC, LockPCs
  <1>15. own[o] = NoProc BY <1>2, OwnPlace DEF OwnPCs
  <1>16. NoLeakedProcess'
    <2> SUFFICES ASSUME NEW q \in Procs, proc'[q].run = "live"
                 PROVE  \/ workers[proc'[q].module] = q
                        \/ \E i \in Ops : own'[i] = q /\ mod[i] = proc'[q].module
                                          /\ startMu[mod[i]] = i
      BY <1>2 DEF NoLeakedProcess, Running
    <2>1. CASE q = p BY <1>4, <1>6, <1>7, <1>14, <2>1
    <2>2. CASE q # p
      BY <1>6, <1>7, <1>15, <2>2, NoProcAssumption DEF Inv, NoLeakedProcess, Running
    <2> QED BY <2>1, <2>2
  <1> QED BY <1>5, <1>8, <1>10, <1>11, <1>12, <1>13, <1>16 DEF Inv

(* Giving the lock back, from a place that holds it.                         *)
LEMMA UnlockFacts ==
  ASSUME Inv, NEW o \in Ops, pc[o] \in LockPCs, UnlockStart(o),
         NEW label \in PCs, label \notin LockPCs, Goto(o, label), UNCHANGED mod
  PROVE  /\ LockMatchesPC'
         /\ \A i \in Ops : i # o /\ startMu[mod[i]] = i => startMu'[mod[i]] = i
         /\ \A i \in Ops : pc'[i] = IF i = o THEN label ELSE pc[i]
         /\ startMu' \in [Modules -> Ops \cup {NoOp}] /\ pc' \in [Ops -> PCs]
  <1>1. startMu' = [startMu EXCEPT ![mod[o]] = NoOp] /\ pc' = [pc EXCEPT ![o] = label]
    BY DEF UnlockStart, Goto
  <1>2. startMu[mod[o]] = o BY DEF Inv, LockMatchesPC
  <1>3. \A i \in Ops : pc'[i] = IF i = o THEN label ELSE pc[i] BY <1>1 DEF Inv, TypeOK
  <1>4. \A m \in Modules : startMu'[m] = IF m = mod[o] THEN NoOp ELSE startMu[m]
    BY <1>1 DEF Inv, TypeOK
  <1>5. mod \in [Ops -> Modules] BY DEF Inv, TypeOK
  <1>6. LockMatchesPC' BY <1>2, <1>3, <1>4, <1>5 DEF Inv, LockMatchesPC
  <1>7. \A i \in Ops : i # o /\ startMu[mod[i]] = i => startMu'[mod[i]] = i
    BY <1>2, <1>4, <1>5
  <1> QED BY <1>1, <1>3, <1>6, <1>7 DEF Inv, TypeOK

LEMMA InsertInv ==
  ASSUME Inv, NEW o \in Ops, Insert(o)
  PROVE  Inv'
  <1> DEFINE m == mod[o]
  <1>1. /\ pc[o] = "insert" /\ workers' = [workers EXCEPT ![m] = own[o]]
        /\ own' = [own EXCEPT ![o] = NoProc] /\ UnlockStart(o) /\ Goto(o, "finish")
        /\ UNCHANGED <<row, proc, kind, mod>>
    BY DEF Insert
  <1>2. /\ LockMatchesPC'
        /\ \A i \in Ops : i # o /\ startMu[mod[i]] = i => startMu'[mod[i]] = i
        /\ \A i \in Ops : pc'[i] = IF i = o THEN "finish" ELSE pc[i]
        /\ startMu' \in [Modules -> Ops \cup {NoOp}] /\ pc' \in [Ops -> PCs]
    BY <1>1, UnlockFacts DEF LockPCs, PCs
  <1>3. TypeOK' BY <1>1, <1>2 DEF Inv, TypeOK
  <1>4. m \in Modules BY DEF Inv, TypeOK
  <1>5. \A n \in Modules : workers'[n] = IF n = m THEN own[o] ELSE workers[n]
    BY <1>1, <1>4 DEF Inv, TypeOK
  <1>6. \A i \in Ops : own'[i] = IF i = o THEN NoProc ELSE own[i] BY <1>1 DEF Inv, TypeOK
  <1>7. workers[m] = NoProc BY <1>1 DEF Inv, MapEmptyWhileStarting, EmptyPCs
  <1>8. WorkersConsistent' BY <1>1 DEF Inv, WorkersConsistent
  <1>9. OwnIsUnstopped' BY <1>1, <1>2, <1>6 DEF Inv, OwnIsUnstopped
  <1>10. MapIsUnstopped' BY <1>1, <1>5 DEF Inv, MapIsUnstopped, OwnIsUnstopped
  <1>11. MapEmptyWhileStarting'
    <2> SUFFICES ASSUME NEW i \in Ops, pc'[i] \in EmptyPCs PROVE workers'[mod[i]] = NoProc
      BY <1>1 DEF MapEmptyWhileStarting
    <2>1. i # o /\ pc[i] \in EmptyPCs /\ pc[i] \in LockPCs
      BY <1>2 DEF EmptyPCs, LockPCs
    <2>2. startMu[mod[i]] = i /\ startMu[m] = o
      BY <1>1, <2>1 DEF Inv, LockMatchesPC, LockPCs
    <2>3. mod[i] \in Modules BY DEF Inv, TypeOK
    <2> QED BY <1>5, <2>1, <2>2, <2>3 DEF Inv, MapEmptyWhileStarting
  <1>12. NoLeakedProcess'
    <2> SUFFICES ASSUME NEW p \in Procs, proc[p].run = "live"
                 PROVE  \/ workers'[proc[p].module] = p
                        \/ \E i \in Ops : own'[i] = p /\ mod[i] = proc[p].module
                                          /\ startMu'[mod[i]] = i
      BY <1>1 DEF NoLeakedProcess, Running
    <2>1. proc[p].module \in Modules BY DEF Inv, TypeOK, ProcType
    <2>2. CASE workers[proc[p].module] = p
      BY <1>5, <1>7, <2>1, <2>2, NoProcAssumption
    <2>3. CASE workers[proc[p].module] # p
      <3>1. PICK i \in Ops : own[i] = p /\ mod[i] = proc[p].module /\ startMu[mod[i]] = i
        BY <2>3 DEF Inv, NoLeakedProcess, Running
      <3>2. CASE i = o BY <1>5, <2>1, <3>1, <3>2
      <3>3. CASE i # o BY <1>2, <1>6, <3>1, <3>3
      <3> QED BY <3>2, <3>3
    <2> QED BY <2>2, <2>3
  <1> QED BY <1>2, <1>3, <1>8, <1>9, <1>10, <1>11, <1>12 DEF Inv

LEMMA StartFailedInv ==
  ASSUME Inv, NEW o \in Ops, StartFailed(o)
  PROVE  Inv'
  <1>1. /\ pc[o] = "failed" /\ UnlockStart(o) /\ Goto(o, "idle")
        /\ kind' = [kind EXCEPT ![o] = "none"] /\ UNCHANGED <<workers, proc, mod, own>>
    BY DEF StartFailed, Return
  <1>2. row' \in [Modules -> Statuses]
    <2>1. mod[o] \in Modules BY DEF Inv, TypeOK
    <2>2. CASE SetRow(mod[o], "failed") BY <2>1, <2>2, SetRowType DEF Inv, Statuses
    <2>3. CASE UNCHANGED row BY <2>3 DEF Inv, TypeOK
    <2> QED BY <2>2, <2>3 DEF StartFailed
  <1>3. /\ LockMatchesPC'
        /\ \A i \in Ops : i # o /\ startMu[mod[i]] = i => startMu'[mod[i]] = i
        /\ \A i \in Ops : pc'[i] = IF i = o THEN "idle" ELSE pc[i]
        /\ startMu' \in [Modules -> Ops \cup {NoOp}] /\ pc' \in [Ops -> PCs]
    BY <1>1, UnlockFacts DEF LockPCs, PCs
  <1>4. TypeOK' BY <1>1, <1>2, <1>3 DEF Inv, TypeOK, Kinds
  <1>5. own[o] = NoProc BY <1>1, OwnPlace DEF OwnPCs
  <1>6. OwnIsUnstopped' BY <1>1, <1>3, <1>5 DEF Inv, OwnIsUnstopped
  <1>7. MapEmptyWhileStarting' BY <1>1, <1>3 DEF Inv, MapEmptyWhileStarting, EmptyPCs
  <1>8. MapIsUnstopped' /\ WorkersConsistent' BY <1>1 DEF Inv, MapIsUnstopped, WorkersConsistent
  <1>9. NoLeakedProcess'
    BY <1>1, <1>3, <1>5, NoProcAssumption DEF Inv, NoLeakedProcess, Running
  <1> QED BY <1>3, <1>4, <1>6, <1>7, <1>8, <1>9 DEF Inv

-----------------------------------------------------------------------------
LEMMA InitInv ==
  ASSUME Init PROVE Inv
  <1>1. TypeOK
    BY AnyModuleType, UnusedFacts DEF Init, TypeOK, PCs, Kinds, Statuses
  <1>2. \A p \in Procs : proc[p] = Unused BY DEF Init
  <1>3. WorkersConsistent /\ NoLeakedProcess
    BY <1>2, UnusedFacts DEF WorkersConsistent, NoLeakedProcess, Running
  <1>4. LockMatchesPC /\ OwnIsUnstopped /\ MapIsUnstopped /\ MapEmptyWhileStarting
    BY DEF Init, LockMatchesPC, OwnIsUnstopped, MapIsUnstopped, MapEmptyWhileStarting,
           LockPCs, EmptyPCs
  <1> QED BY <1>1, <1>3, <1>4 DEF Inv

LEMMA StutterInv ==
  ASSUME Inv, UNCHANGED vars
  PROVE  Inv'
  BY DEF vars, Inv, TypeOK, WorkersConsistent, LockMatchesPC, OwnIsUnstopped, MapIsUnstopped,
         MapEmptyWhileStarting, NoLeakedProcess, Running

LEMMA NextInv ==
  ASSUME Inv, [Next]_vars
  PROVE  Inv'
  <1>1. ASSUME NEW o \in Ops, NEW m \in Modules,
               Install(o, m) \/ Restart(o, m) \/ ReloadEgress(o, m) \/ Uninstall(o, m)
        PROVE  Inv'
    BY <1>1, InstallInv, RestartInv, ReloadEgressInv, UninstallInv
  <1>2. ASSUME NEW o \in Ops, Stop(o) \/ DeleteRow(o) \/ LockStart(o) \/ Start(o) \/ Finish(o)
        PROVE  Inv'
    BY <1>2, StopOpInv, DeleteRowInv, LockStartInv, FinishInv, PopInv, PopStopInv, SpawnInv,
       SpawnErrorInv, BootOKInv, BootTimeoutInv, InsertInv, StartFailedInv DEF Start
  <1>3. ASSUME NEW p \in Procs, Die(p) \/ Crash(p) \/ WaitReturns(p) \/ CrashHandler(p)
        PROVE  Inv'
    BY <1>3, DieInv, CrashInv, WaitReturnsInv, CrashHandlerInv
  <1> QED BY <1>1, <1>2, <1>3, StopAllInv, StutterInv DEF Next

(* The inductive invariant of the worker pool's Spec.                        *)
THEOREM Invariance == Spec => []Inv
  <1>1. Init => Inv BY InitInv
  <1>2. Inv /\ [Next]_vars => Inv' BY NextInv
  <1> QED BY <1>1, <1>2, PTL DEF Spec

(* Every variable keeps its type; the row's status is one the table's CHECK  *)
(* constraint admits.                                                        *)
THEOREM TypeCorrect == Spec => []TypeOK
  <1>1. Inv => TypeOK BY DEF Inv
  <1> QED BY <1>1, Invariance, PTL

(* startMu keeps every live process in the map or in the hands of the        *)
(* operation that holds its module's lock.                                   *)
THEOREM NeverLeaksAProcess == Spec => []NoLeakedProcess
  <1>1. Inv => NoLeakedProcess BY DEF Inv
  <1> QED BY <1>1, Invariance, PTL

(* No two processes of one module are both without an order to stop: before  *)
(* a worker is spawned, every earlier one has been told to.                  *)
THEOREM AlwaysOneUnstopped == Spec => []OneUnstoppedProcess
  <1>1. ASSUME Inv PROVE OneUnstoppedProcess
    <2> SUFFICES ASSUME NEW p \in Procs, NEW q \in Procs, proc[p].run = "live",
                        proc[q].run = "live", proc[p].module = proc[q].module
                 PROVE  p = q
      BY DEF OneUnstoppedProcess, Running
    <2> DEFINE m == proc[p].module
    <2>1. \A r \in {p, q} : \/ workers[m] = r
                            \/ \E o \in Ops : own[o] = r /\ mod[o] = m /\ startMu[m] = o
      BY <1>1 DEF Inv, NoLeakedProcess, Running
    <2>2. m \in Modules BY <1>1 DEF Inv, TypeOK, ProcType
    <2>3. \A r \in {p, q} : \A o \in Ops : own[o] = r /\ mod[o] = m => workers[m] = NoProc
      BY <1>1, NoProcAssumption DEF Inv, OwnIsUnstopped, MapEmptyWhileStarting, OwnPCs, EmptyPCs
    <2> QED BY <2>1, <2>2, <2>3, NoProcAssumption
  <1>2. Inv => OneUnstoppedProcess BY <1>1
  <1> QED BY <1>2, Invariance, PTL

(* The map never leads Dispatch to a worker that was stopped, or to another  *)
(* module's.                                                                 *)
THEOREM MapAlwaysUnstopped == Spec => []MapHoldsUnstopped
  <1>1. Inv => MapHoldsUnstopped BY DEF Inv, MapIsUnstopped, Unstopped, MapHoldsUnstopped
  <1> QED BY <1>1, Invariance, PTL

(* stop() is never mistaken for a crash.                                     *)
THEOREM ReportsOnlyCrashes == Spec => []OnlyCrashesReported
  <1>1. Inv => OnlyCrashesReported
    BY DEF Inv, WorkersConsistent, Consistent, OnlyCrashesReported
  <1> QED BY <1>1, Invariance, PTL
=============================================================================
