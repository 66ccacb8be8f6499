----------------------------- MODULE WorkerPool -----------------------------
(***************************************************************************)
(* The pool of Deno workers (modules/deno.go) under the handlers that drive  *)
(* it: Install, restartModuleWorker, ReloadEgress, Uninstall and the         *)
(* shutdown's StopAll run as concurrent operations, worker processes crash,  *)
(* and the crash handler of main.go writes the module's row.                 *)
(*                                                                           *)
(* A critical section of p.mu is one action; startMu is held across several. *)
(* denoWorker.stop is one step that sets stopping and cancels the command's  *)
(* context; the process dies some time later (Die), and stop does not wait   *)
(* for that: the next worker may be spawned beside one that is still dying.  *)
(* An exit between the two statements of stop reads stopping = TRUE as well. *)
(***************************************************************************)
EXTENDS Naturals, FiniteSets

CONSTANTS
  Modules,  \* module names
  Ops,      \* goroutines that run an operation
  Procs,    \* identities of denoWorker objects, each with its process
  NoOp, NoProc

ASSUME ModulesAssumption == Modules # {}
ASSUME NoOpAssumption == NoOp \notin Ops
ASSUME NoProcAssumption == NoProc \notin Procs

VARIABLES
  workers,   \* p.workers
  startMu,   \* p.startMu: who holds the module's lock
  row,       \* installed_modules.status, "none" when there is no row
  proc,      \* per worker: module, process state, w.stopping, the Wait goroutine
  pc, kind, mod, own  \* per operation: place, operation, module, the worker in hand

vars == <<workers, startMu, row, proc, pc, kind, mod, own>>
opvars == <<pc, kind, mod, own>>

Kinds == {"none", "install", "restart", "reload", "uninstall"}
PCs == {"idle", "stop", "delete", "lock", "pop", "popstop", "spawn", "boot",
        "insert", "failed", "finish"}
Statuses == {"none", "installing", "active", "degraded", "failed", "isolated"}
RunStates == {"unused", "live", "dying", "killed", "crashed"}
WaitStates == {"waiting", "reporting", "done"}

Exited(p) == proc[p].run \in {"killed", "crashed"}

NewProc(m) == [module |-> m, run |-> "live", stopping |-> FALSE, wait |-> "waiting"]

AnyModule == CHOOSE m \in Modules : TRUE
Unused == [module |-> AnyModule, run |-> "unused", stopping |-> FALSE, wait |-> "done"]

Init ==
  /\ workers = [m \in Modules |-> NoProc]
  /\ startMu = [m \in Modules |-> NoOp]
  /\ row = [m \in Modules |-> "none"]
  /\ proc = [p \in Procs |-> Unused]
  /\ pc = [o \in Ops |-> "idle"]
  /\ kind = [o \in Ops |-> "none"]
  /\ mod = [o \in Ops |-> AnyModule]
  /\ own = [o \in Ops |-> NoProc]

Goto(o, label) == pc' = [pc EXCEPT ![o] = label]
Return(o) == Goto(o, "idle") /\ kind' = [kind EXCEPT ![o] = "none"]

SetRow(m, status) ==  \* UpdateModuleStatus: an UPDATE, so no row stays no row
  row' = [row EXCEPT ![m] = IF @ = "none" THEN @ ELSE status]

-----------------------------------------------------------------------------
(* denoWorker *)

(* A worker that is stopped, and so no longer referred to, and whose Wait    *)
(* goroutine has ended is forgotten.                                         *)
Settle(w) == IF w.stopping /\ w.wait = "done" THEN Unused ELSE w

KillMutant(w) == [w EXCEPT !.run = IF @ = "live" THEN "dying" ELSE @]

(* stop(): stopping is set, then the context cancelled. A process that still *)
(* runs is doomed to the SIGKILL of exec.CommandContext, but not dead yet.   *)
Kill(w) == [w EXCEPT !.stopping = TRUE, !.run = IF @ = "live" THEN "dying" ELSE @]

StopProcs(ps) ==
  proc' = [p \in Procs |-> IF p \in ps THEN Settle(Kill(proc[p])) ELSE proc[p]]

(* The signal reaches the process.                                           *)
Die(p) ==
  /\ proc[p].run = "dying"
  /\ proc' = [proc EXCEPT ![p].run = "killed"]
  /\ UNCHANGED <<workers, startMu, row, opvars>>

(* The process exits on its own.                                             *)
Crash(p) ==
  /\ proc[p].run = "live"
  /\ proc' = [proc EXCEPT ![p].run = "crashed"]
  /\ UNCHANGED <<workers, startMu, row, opvars>>

(* start()'s goroutine after cmd.Wait(): was the exit asked for?             *)
WaitReturns(p) ==
  /\ Exited(p)
  /\ proc[p].wait = "waiting"
  /\ proc' = [proc EXCEPT ![p] =
               IF @.stopping THEN Unused ELSE [@ EXCEPT !.wait = "reporting"]]
  /\ UNCHANGED <<workers, startMu, row, opvars>>

(* onCrash: main.go's handler marks the module degraded.                     *)
CrashHandler(p) ==
  /\ proc[p].wait = "reporting"
  /\ proc' = [proc EXCEPT ![p] = Settle([@ EXCEPT !.wait = "done"])]
  /\ SetRow(proc[p].module, "degraded")
  /\ UNCHANGED <<workers, startMu, opvars>>

-----------------------------------------------------------------------------
(* How operations begin *)

Begin(o, k, m, label) ==
  /\ pc[o] = "idle"
  /\ kind' = [kind EXCEPT ![o] = k]
  /\ mod' = [mod EXCEPT ![o] = m]
  /\ Goto(o, label)

(* Install: the row is inserted before anything is started.                  *)
Install(o, m) ==
  /\ Begin(o, "install", m, "lock")
  /\ row[m] = "none"
  /\ row' = [row EXCEPT ![m] = "installing"]
  /\ UNCHANGED <<workers, startMu, proc, own>>

(* restartModuleWorker: the row exists, Stop comes first.                    *)
Restart(o, m) ==
  /\ Begin(o, "restart", m, "stop")
  /\ row[m] # "none"
  /\ UNCHANGED <<workers, startMu, row, proc, own>>

(* ReloadEgress: reads the running worker's options under p.mu.RLock, then   *)
(* calls Start with them.                                                    *)
ReloadEgress(o, m) ==
  /\ Begin(o, "reload", m, "lock")
  /\ workers[m] # NoProc
  /\ UNCHANGED <<workers, startMu, row, proc, own>>

(* Uninstall: guard, then status "isolated".                                 *)
Uninstall(o, m) ==
  /\ Begin(o, "uninstall", m, "stop")
  /\ row[m] \notin {"none", "installing"}
  /\ SetRow(m, "isolated")
  /\ UNCHANGED <<workers, startMu, proc, own>>

-----------------------------------------------------------------------------
(* Stop and StopAll: stop and remove, all under p.mu *)

Stop(o) ==
  /\ pc[o] = "stop"
  /\ StopProcs({workers[mod[o]]})
  /\ workers' = [workers EXCEPT ![mod[o]] = NoProc]
  /\ Goto(o, IF kind[o] = "uninstall" THEN "delete" ELSE "lock")
  /\ UNCHANGED <<startMu, row, kind, mod, own>>

(* Uninstall's last step removes the row.                                    *)
DeleteRow(o) ==
  /\ pc[o] = "delete"
  /\ row' = [row EXCEPT ![mod[o]] = "none"]
  /\ Return(o)
  /\ UNCHANGED <<workers, startMu, proc, mod, own>>

StopAll ==
  /\ StopProcs({workers[m] : m \in Modules})
  /\ workers' = [m \in Modules |-> NoProc]
  /\ UNCHANGED <<startMu, row, opvars>>

-----------------------------------------------------------------------------
(* Start *)

(* Start goes ahead without the per-module lock.                             *)
LockStartMutant(o) ==
  /\ pc[o] = "lock"
  /\ startMu' = [startMu EXCEPT ![mod[o]] = o]
  /\ Goto(o, "pop")
  /\ UNCHANGED <<workers, row, proc, kind, mod, own>>

LockStart(o) ==
  /\ pc[o] = "lock"
  /\ startMu[mod[o]] = NoOp
  /\ startMu' = [startMu EXCEPT ![mod[o]] = o]
  /\ Goto(o, "pop")
  /\ UNCHANGED <<workers, row, proc, kind, mod, own>>

(* popAndStop: out of the map under p.mu ...                                 *)
Pop(o) ==
  /\ pc[o] = "pop"
  /\ own' = [own EXCEPT ![o] = workers[mod[o]]]
  /\ workers' = [workers EXCEPT ![mod[o]] = NoProc]
  /\ Goto(o, IF workers[mod[o]] = NoProc THEN "spawn" ELSE "popstop")
  /\ UNCHANGED <<startMu, row, proc, kind, mod>>

(* ... and stopped after it is released.                                     *)
PopStop(o) ==
  /\ pc[o] = "popstop"
  /\ StopProcs({own[o]})
  /\ own' = [own EXCEPT ![o] = NoProc]
  /\ Goto(o, "spawn")
  /\ UNCHANGED <<workers, startMu, row, kind, mod>>

(* buildWorker spawns the process ...                                        *)
Spawn(o) ==
  /\ pc[o] = "spawn"
  /\ \E p \in Procs :
       /\ proc[p] = Unused
       /\ own' = [own EXCEPT ![o] = p]
       /\ proc' = [proc EXCEPT ![p] = NewProc(mod[o])]
  /\ Goto(o, "boot")
  /\ UNCHANGED <<workers, startMu, row, kind, mod>>

(* ... unless a check or exec fails before there is a process.               *)
SpawnError(o) ==
  /\ pc[o] = "spawn"
  /\ Goto(o, "failed")
  /\ UNCHANGED <<workers, startMu, row, proc, kind, mod, own>>

(* waitForSocket sees the socket file. The process may be dead again.        *)
BootOK(o) ==
  /\ pc[o] = "boot"
  /\ Goto(o, "insert")
  /\ UNCHANGED <<workers, startMu, row, proc, kind, mod, own>>

BootTimeoutMutant(o) ==
  /\ pc[o] = "boot"
  /\ own' = [own EXCEPT ![o] = NoProc]
  /\ Goto(o, "failed")
  /\ UNCHANGED <<workers, startMu, row, proc, kind, mod>>

(* waitForSocket times out: start() stops what it spawned.                   *)
BootTimeout(o) ==
  /\ pc[o] = "boot"
  /\ StopProcs({own[o]})
  /\ own' = [own EXCEPT ![o] = NoProc]
  /\ Goto(o, "failed")
  /\ UNCHANGED <<workers, startMu, row, kind, mod>>

UnlockStart(o) == startMu' = [startMu EXCEPT ![mod[o]] = NoOp]

(* The worker is published under p.mu; the deferred unlock follows.          *)
Insert(o) ==
  /\ pc[o] = "insert"
  /\ workers' = [workers EXCEPT ![mod[o]] = own[o]]
  /\ own' = [own EXCEPT ![o] = NoProc]
  /\ UnlockStart(o)
  /\ Goto(o, "finish")
  /\ UNCHANGED <<row, proc, kind, mod>>

(* Start's error return keeps the lock.                                      *)
StartFailedMutant(o) ==
  /\ pc[o] = "failed"
  /\ Return(o)
  /\ UNCHANGED <<workers, startMu, row, proc, mod, own>>

(* Start returned an error: Install marks the module failed, the others      *)
(* leave the row as it is.                                                   *)
StartFailed(o) ==
  /\ pc[o] = "failed"
  /\ UnlockStart(o)
  /\ IF kind[o] = "install" THEN SetRow(mod[o], "failed") ELSE UNCHANGED row
  /\ Return(o)
  /\ UNCHANGED <<workers, proc, mod, own>>

(* Start succeeded: Install and restartModuleWorker set the row to active.   *)
Finish(o) ==
  /\ pc[o] = "finish"
  /\ IF kind[o] \in {"install", "restart"} THEN SetRow(mod[o], "active")
                                           ELSE UNCHANGED row
  /\ Return(o)
  /\ UNCHANGED <<workers, startMu, proc, mod, own>>

-----------------------------------------------------------------------------
Start(o) ==
  \/ Pop(o) \/ PopStop(o) \/ Spawn(o) \/ SpawnError(o) \/ BootOK(o)
  \/ BootTimeout(o) \/ Insert(o) \/ StartFailed(o)

Next ==
  \/ \E o \in Ops, m \in Modules :
       Install(o, m) \/ Restart(o, m) \/ ReloadEgress(o, m) \/ Uninstall(o, m)
  \/ \E o \in Ops : Stop(o) \/ DeleteRow(o) \/ LockStart(o) \/ Start(o) \/ Finish(o)
  \/ StopAll
  \/ \E p \in Procs : Die(p) \/ Crash(p) \/ WaitReturns(p) \/ CrashHandler(p)

(* A goroutine that can run does run; a sync.Mutex that keeps being released *)
(* is eventually handed to each waiter (its starvation mode); a SIGKILL is   *)
(* delivered. Processes need not crash and no operation needs to begin.      *)
Fairness ==
  /\ \A o \in Ops : /\ WF_vars(Stop(o) \/ DeleteRow(o) \/ Start(o) \/ Finish(o))
                    /\ SF_vars(LockStart(o))
  /\ \A p \in Procs : WF_vars(Die(p) \/ WaitReturns(p) \/ CrashHandler(p))

Spec == Init /\ [][Next]_vars
FairSpec == Spec /\ Fairness

-----------------------------------------------------------------------------
(* Properties *)

ProcType == [module : Modules, run : RunStates, stopping : BOOLEAN, wait : WaitStates]

TypeOK ==
  /\ workers \in [Modules -> Procs \cup {NoProc}]
  /\ startMu \in [Modules -> Ops \cup {NoOp}]
  /\ row \in [Modules -> Statuses]
  /\ proc \in [Procs -> ProcType]
  /\ pc \in [Ops -> PCs]
  /\ kind \in [Ops -> Kinds]
  /\ mod \in [Ops -> Modules]
  /\ own \in [Ops -> Procs \cup {NoProc}]

(* The process runs and nobody has told it to stop. A dying one may run too, *)
(* but needs no reference any more.                                          *)
Running(p) == proc[p].run = "live"

(* startMu's purpose: no process runs that nothing can stop any more. A live *)
(* worker is in the map, or in the hands of the operation that holds its     *)
(* module's lock (being booted, or popped and about to be stopped).          *)
NoLeakedProcess ==
  \A p \in Procs : Running(p) =>
    \/ workers[proc[p].module] = p
    \/ \E o \in Ops : own[o] = p /\ mod[o] = proc[p].module /\ startMu[mod[o]] = o

(* Of the processes of a module at most one has not been told to stop,       *)
(* however Start, Stop, ReloadEgress and StopAll interleave: popAndStop      *)
(* comes before the next spawn, under the module's startMu. That two run at  *)
(* the same time is possible and not excluded here: stop does not wait for   *)
(* the SIGKILL, so a restarted module's old process may still be dying.      *)
OneUnstoppedProcess ==
  \A p, q \in Procs :
    Running(p) /\ Running(q) /\ proc[p].module = proc[q].module => p = q

(* What Dispatch finds in the map has not been stopped.                      *)
MapHoldsUnstopped ==
  \A m \in Modules : workers[m] # NoProc =>
    ~proc[workers[m]].stopping /\ proc[workers[m]].module = m

(* Every operation comes to its end: the locks are always given back.        *)
OperationsEnd == \A o \in Ops : pc[o] # "idle" ~> pc[o] = "idle"

(* stopping distinguishes an intentional stop from a crash: only a process   *)
(* that exited on its own is ever reported to the crash handler, however     *)
(* stop, the exit and the Wait goroutine interleave.                         *)
OnlyCrashesReported ==
  \A p \in Procs : proc[p].wait = "reporting" => proc[p].run = "crashed"

(* Uninstall's comment on Workers.Stop: without it the worker would be "left *)
(* orphaned". With no operation in flight, no worker of a module without a   *)
(* row is running.                                                           *)
NoWorkerWithoutRow ==
  (\A o \in Ops : pc[o] = "idle") =>
    \A p \in Procs : Running(p) => row[proc[p].module] # "none"
=============================================================================
