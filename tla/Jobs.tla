--------------------------------- MODULE Jobs ---------------------------------
(***************************************************************************)
(* The scheduler of the modules' jobs (internal/modules/jobs.go): a tick     *)
(* starts a goroutine for every job that is due, unless the running map says *)
(* that the job's last one is still under way.                               *)
(***************************************************************************)
EXTENDS Integers

CONSTANTS
  JobNames,      \* the jobs of active modules
  Invocations,   \* goroutines of dispatchJob
  MaxTicks       \* bound: ticks of the loop

ASSUME JobsAssumption == MaxTicks \in Nat

VARIABLES
  due,       \* the jobs the current tick has yet to look at
  running,   \* the running map
  inv,       \* what each invocation is doing
  ticks

jobVars == <<due, running, inv, ticks>>

-----------------------------------------------------------------------------
Free == [pc |-> "free", job |-> CHOOSE j \in JobNames : TRUE]

JobsInit ==
  /\ due = {} /\ running = {}
  /\ inv = [i \in Invocations |-> Free]
  /\ ticks = 0

(* loop hears the ticker: cronMatchesMinute picks the jobs that are due.     *)
tick(js) ==
  /\ due = {} /\ ticks < MaxTicks
  /\ js \in SUBSET JobNames /\ js # {}
  /\ due' = js /\ ticks' = ticks + 1
  /\ UNCHANGED <<running, inv>>

(* LoadOrStore                                                               *)
MayRun(j) == j \notin running

(* A job whose worker is down, or whose last run goes on, waits for another  *)
(* tick.                                                                     *)
ConsiderJob(j, workerUp) ==
  /\ j \in due
  /\ due' = due \ {j}
  /\ IF workerUp /\ MayRun(j)
       THEN \E i \in Invocations :
              /\ inv[i] = Free
              /\ inv' = [inv EXCEPT ![i] = [pc |-> "dispatch", job |-> j]]
              /\ running' = running \cup {j}
       ELSE UNCHANGED <<running, inv>>
  /\ UNCHANGED ticks

(* Dispatch answers by jobTimeout: with an error, which ends the invocation, *)
(* or with a response, which may ask for other hosts to be reachable.        *)
Answered(i, outcome) ==
  /\ inv[i].pc = "dispatch"
  /\ inv' = [inv EXCEPT ![i].pc = CASE outcome = "error"  -> "done"
                                    [] outcome = "reload" -> "reload"
                                    [] outcome = "ok"     -> "publish"]
  /\ UNCHANGED <<due, running, ticks>>

(* ReloadEgress (WorkerPool), whose error is only logged.                    *)
ReloadJob(i) ==
  /\ inv[i].pc = "reload"
  /\ inv' = [inv EXCEPT ![i].pc = "publish"]
  /\ UNCHANGED <<due, running, ticks>>

PublishJob(i) ==
  /\ inv[i].pc = "publish"
  /\ inv' = [inv EXCEPT ![i].pc = "done"]
  /\ UNCHANGED <<due, running, ticks>>

(* The deferred Delete.                                                      *)
EndJobMutant(i) ==
  /\ inv[i].pc = "done"
  /\ running' = running
  /\ inv' = [inv EXCEPT ![i] = Free]
  /\ UNCHANGED <<due, ticks>>

EndJob(i) ==
  /\ inv[i].pc = "done"
  /\ running' = running \ {inv[i].job}
  /\ inv' = [inv EXCEPT ![i] = Free]
  /\ UNCHANGED <<due, ticks>>

dispatchJob(i) ==
  \/ \E outcome \in {"error", "reload", "ok"} : Answered(i, outcome)
  \/ ReloadJob(i) \/ PublishJob(i) \/ EndJob(i)

JobsNext ==
  \/ \E js \in SUBSET JobNames : tick(js)
  \/ \E j \in JobNames, workerUp \in BOOLEAN : ConsiderJob(j, workerUp)
  \/ \E i \in Invocations : dispatchJob(i)

-----------------------------------------------------------------------------
(* However long a job takes, no second invocation of it starts while the     *)
(* first is under way.                                                       *)
JobsDoNotOverlap ==
  \A i, k \in Invocations :
    (i # k /\ inv[i].pc # "free" /\ inv[k].pc # "free") => inv[i].job # inv[k].job

(* A job that was started can be started again: its key leaves the running   *)
(* map, whatever its invocation ran into.                                    *)
JobKeyFreed == \A j \in JobNames : (j \in running) ~> (j \notin running)
=============================================================================
