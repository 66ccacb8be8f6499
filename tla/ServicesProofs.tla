--------------------------- MODULE ServicesProofs ---------------------------
(***************************************************************************)
(* Proved of the services for any number of goroutines, requests, failing    *)
(* calls and crashes, each with the exemptions its property names: how often *)
(* a version is announced and a trip of the rate limiter, that the           *)
(* invocations of a job do not overlap, that cached news come from the feed's *)
(* present address, that a message goes out with one whole mail              *)
(* configuration, and that a reload of the quick links shows the grid (the   *)
(* last part of this module). Each of these invariants needs only the        *)
(* variables of its own component. So there is one lemma about the           *)
(* component's actions, one about the crash, and the steps of all other      *)
(* components leave it alone.                                                *)
(*                                                                           *)
(* Then of the module store (Catalogue): what an undisturbed sync or update  *)
(* check leaves is what the sources list. And of GeoIP: database files are   *)
(* complete, lookups fresh and the status true. These two are specifications *)
(* of their own, with an invariant each.                                     *)
(***************************************************************************)
EXTENDS Services, Catalogue, GeoIP, FiniteSetTheorems, WellFoundedInduction, TLAPS

-----------------------------------------------------------------------------
(* The update check *)

ChkType == [Checkers -> [pc : {"idle", "cache", "compare", "publish", "record"}, v : Nat]]

UpdateTypeOK ==
  /\ latest \in Nat /\ notified \in Nat /\ mixed \in BOOLEAN
  /\ chk \in ChkType
  /\ announced \in [1 .. MaxVersion -> Nat] /\ faults \in [1 .. MaxVersion -> Nat]

Active(c) == chk[c].pc # "idle"

(* A version that has had the announcements it is entitled to is recorded as *)
(* notified, or the one check under way is about to record it; versions only *)
(* grow.                                                                     *)
Spent(v) == announced[v] = 1 + faults[v]

InOrder ==
  /\ notified <= latest
  /\ \A c, d \in Checkers : Active(c) /\ Active(d) => c = d
  /\ \A c \in Checkers : Active(c) => notified <= chk[c].v /\ chk[c].v <= latest
  /\ \A c \in Checkers : chk[c].pc = "publish" => ~Spent(chk[c].v)
  /\ \A v \in 1 .. MaxVersion :
       /\ announced[v] <= 1 + faults[v]
       /\ Spent(v) => v <= notified \/ \E c \in Checkers : chk[c].pc = "record" /\ chk[c].v = v

UpdateInv ==
  /\ UpdateTypeOK
  /\ latest <= MaxVersion
  /\ \A c \in Checkers : chk[c].v <= MaxVersion
                         /\ (chk[c].pc \in {"publish", "compare", "record"} => chk[c].v > 0)
  /\ ~mixed => InOrder

LEMMA UpdateStart ==
  ASSUME UpdateInit
  PROVE  UpdateInv
<1> USE UpdateAssumption DEF UpdateInit, NoCheck
<1>1. UpdateTypeOK
  BY DEF UpdateTypeOK, ChkType
<1>2. \A c \in Checkers : chk[c].pc = "idle" /\ chk[c].v = 0
  OBVIOUS
<1>3. InOrder
  BY <1>2 DEF InOrder, Active, Spent
<1> QED BY <1>1, <1>2, <1>3 DEF UpdateInv

(* The number of faults of a version only grows, and every fault allows one  *)
(* more announcement.                                                        *)
LEMMA FaultCounts ==
  ASSUME UpdateTypeOK, NEW v \in 1 .. MaxVersion
  PROVE  /\ Fault(v) \in [1 .. MaxVersion -> Nat]
         /\ \A u \in 1 .. MaxVersion : Fault(v)[u] = IF u = v THEN faults[u] + 1 ELSE faults[u]
  BY DEF UpdateTypeOK, Fault

(* While checks run one at a time, only the one under way can have a         *)
(* version's record still to write.                                          *)
Owed(c, v) == chk[c].pc = "record" /\ chk[c].v = v

LEMMA OneCheck ==
  ASSUME UpdateInv, ~mixed, NEW c \in Checkers, Active(c)
  PROVE  /\ notified <= chk[c].v
         /\ \A v \in 1 .. MaxVersion :
              announced[v] <= 1 + faults[v] /\ (Spent(v) => v <= notified \/ Owed(c, v))
<1>1. InOrder
  BY DEF UpdateInv
<1>2. \A d \in Checkers : chk[d].pc = "record" => d = c
  BY <1>1 DEF InOrder, Active
<1> QED BY <1>1, <1>2 DEF InOrder, Owed

(* A step of the check c, which goes on with its version or ends.            *)
LEMMA CheckStep ==
  ASSUME UpdateInv, NEW c \in Checkers, Active(c),
         NEW s \in [pc : {"idle", "cache", "compare", "publish", "record"}, v : Nat],
         chk' = [chk EXCEPT ![c] = s],
         s = NoCheck \/ (s.v = chk[c].v /\ s.v > 0),
         UNCHANGED <<latest, mixed>>, notified' \in {notified, chk[c].v},
         announced' \in [1 .. MaxVersion -> Nat], faults' \in [1 .. MaxVersion -> Nat],
         ~mixed => /\ s.pc = "publish" => announced'[s.v] # 1 + faults'[s.v]
                   /\ \A v \in 1 .. MaxVersion :
                        /\ announced'[v] <= 1 + faults'[v]
                        /\ announced'[v] = 1 + faults'[v] => v <= notified' \/ (s.pc = "record" /\ s.v = v)
  PROVE  UpdateInv'
<1>1. UpdateTypeOK /\ chk[c].v \in Nat /\ chk[c].v <= MaxVersion
  BY DEF UpdateInv, UpdateTypeOK, ChkType
<1>2. chk' \in ChkType /\ \A d \in Checkers : chk'[d] = IF d = c THEN s ELSE chk[d]
  BY <1>1 DEF UpdateTypeOK, ChkType
<1>3. UpdateTypeOK'
  BY <1>1, <1>2 DEF UpdateTypeOK
<1>4. s.v <= MaxVersion /\ (s.pc # "idle" => s.v = chk[c].v /\ s.v > 0)
  BY <1>1, UpdateAssumption DEF NoCheck
<1>5. \A d \in Checkers : chk'[d].v <= MaxVersion
                           /\ (chk'[d].pc \in {"publish", "compare", "record"} => chk'[d].v > 0)
  BY <1>2, <1>4 DEF UpdateInv
<1>6. ASSUME ~mixed
      PROVE  InOrder'
  <2>1. InOrder
    BY <1>6 DEF UpdateInv
  <2>2. \A d \in Checkers : Active(d) => d = c
    BY <2>1 DEF InOrder
  <2>3. \A d \in Checkers : Active(d)' => d = c /\ chk'[d] = s /\ s.v = chk[c].v
    BY <1>2, <1>4, <2>2 DEF Active
  <2>4. notified' <= chk[c].v /\ chk[c].v <= latest
    BY <1>1, <2>1 DEF InOrder, UpdateTypeOK
  <2>5. notified' <= latest'
    BY <1>1, <1>3, <2>4 DEF UpdateTypeOK
  <2>6. \A d \in Checkers : chk'[d].pc = "publish" => announced'[chk'[d].v] # 1 + faults'[chk'[d].v]
    BY <1>6, <2>3 DEF Active
  <2>7. \A v \in 1 .. MaxVersion :
          announced'[v] = 1 + faults'[v] => v <= notified' \/ \E d \in Checkers : chk'[d].pc = "record" /\ chk'[d].v = v
    BY <1>2, <1>6
  <2> QED BY <1>6, <2>3, <2>4, <2>5, <2>6, <2>7 DEF InOrder, Spent
<1>7. (latest <= MaxVersion)'
  BY DEF UpdateInv
<1> QED BY <1>3, <1>5, <1>6, <1>7 DEF UpdateInv

LEMMA CompareChecks ==
  ASSUME UpdateInv, NEW c \in Checkers, CompareNotified(c)
  PROVE  UpdateInv'
<1> DEFINE v == chk[c].v  on == [chk[c] EXCEPT !.pc = "publish"]
<1>1. PICK unread \in BOOLEAN :
        /\ chk' = [chk EXCEPT ![c] = IF unread \/ notified # v THEN [@ EXCEPT !.pc = "publish"] ELSE NoCheck]
        /\ faults' = IF unread THEN Fault(v) ELSE faults
  BY DEF CompareNotified
<1>2. /\ chk[c].pc = "compare" /\ UNCHANGED <<latest, notified, announced, mixed>>
  BY DEF CompareNotified
<1>3. UpdateTypeOK /\ Active(c) /\ v \in 1 .. MaxVersion
  BY <1>2 DEF UpdateInv, UpdateTypeOK, ChkType, Active
<1>4. /\ on \in [pc : {"idle", "cache", "compare", "publish", "record"}, v : Nat]
      /\ on.pc = "publish" /\ on.v = v
  BY <1>3 DEF UpdateTypeOK, ChkType
<1>5. \A u : ~Owed(c, u)
  BY <1>2 DEF Owed
<1>6. chk' = [chk EXCEPT ![c] = IF unread \/ notified # v THEN on ELSE NoCheck]
  BY <1>1, <1>3 DEF UpdateTypeOK, ChkType
<1>7. NoCheck \in [pc : {"idle", "cache", "compare", "publish", "record"}, v : Nat] /\ NoCheck.pc = "idle"
  BY DEF NoCheck
<1>8. announced \in [1 .. MaxVersion -> Nat] /\ faults \in [1 .. MaxVersion -> Nat] /\ notified \in Nat
  BY <1>3 DEF UpdateTypeOK
<1> HIDE DEF on, v
<1>9. CASE unread
  <2>1. chk' = [chk EXCEPT ![c] = on] /\ faults' = Fault(v)
    BY <1>1, <1>6, <1>9
  <2>2. /\ faults' \in [1 .. MaxVersion -> Nat]
        /\ \A u \in 1 .. MaxVersion : faults'[u] = IF u = v THEN faults[u] + 1 ELSE faults[u]
    BY <1>3, <2>1, FaultCounts
  <2>3. ASSUME ~mixed
        PROVE  /\ announced'[v] # 1 + faults'[v]
               /\ \A u \in 1 .. MaxVersion :
                    /\ announced'[u] <= 1 + faults'[u]
                    /\ announced'[u] = 1 + faults'[u] => u <= notified'
    <3>1. \A u \in 1 .. MaxVersion : announced[u] <= 1 + faults[u] /\ (Spent(u) => u <= notified)
      BY <1>3, <1>5, <2>3, OneCheck
    <3> QED BY <1>2, <1>3, <1>8, <2>2, <3>1 DEF Spent
  <2>4. on.v > 0
    BY <1>3, <1>4
  <2> QED BY <1>2, <1>3, <1>4, <1>8, <2>1, <2>2, <2>3, <2>4, CheckStep DEF v
<1>10. CASE ~unread /\ notified # v
  <2>1. chk' = [chk EXCEPT ![c] = on] /\ faults' = faults
    BY <1>1, <1>6, <1>10
  <2>2. ASSUME ~mixed
        PROVE  /\ ~Spent(v)
               /\ \A u \in 1 .. MaxVersion : announced[u] <= 1 + faults[u] /\ (Spent(u) => u <= notified)
    <3>1. notified <= v
      BY <1>3, <2>2, OneCheck DEF v
    <3> QED BY <1>3, <1>5, <1>8, <1>10, <2>2, <3>1, OneCheck
  <2>3. on.v > 0
    BY <1>3, <1>4
  <2>4. \A u : announced'[u] = 1 + faults'[u] <=> Spent(u)
    BY <1>2, <2>1 DEF Spent
  <2> QED BY <1>2, <1>3, <1>4, <1>8, <2>1, <2>2, <2>3, <2>4, CheckStep DEF v
<1>11. CASE ~unread /\ notified = v
  <2>1. chk' = [chk EXCEPT ![c] = NoCheck] /\ faults' = faults
    BY <1>1, <1>6, <1>11
  <2>2. \A u : announced'[u] = 1 + faults'[u] <=> Spent(u)
    BY <1>2, <2>1 DEF Spent
  <2>3. ~mixed => \A u \in 1 .. MaxVersion : announced[u] <= 1 + faults[u] /\ (Spent(u) => u <= notified)
    BY <1>3, <1>5, OneCheck
  <2> QED BY <1>2, <1>3, <1>7, <1>8, <2>1, <2>2, <2>3, CheckStep
<1> QED BY <1>9, <1>10, <1>11

LEMMA PublishChecks ==
  ASSUME UpdateInv, NEW c \in Checkers, PublishUpdate(c)
  PROVE  UpdateInv'
<1> DEFINE v == chk[c].v  on == [chk[c] EXCEPT !.pc = "record"]
           more == [announced EXCEPT ![v] = @ + 1]
<1>1. PICK delivered \in BOOLEAN, told \in BOOLEAN :
        /\ announced' = IF delivered THEN more ELSE announced
        /\ chk' = [chk EXCEPT ![c] = IF delivered /\ told THEN [@ EXCEPT !.pc = "record"] ELSE NoCheck]
        /\ faults' = IF delivered /\ ~told THEN Fault(v) ELSE faults
  BY DEF PublishUpdate
<1>2. /\ chk[c].pc = "publish" /\ UNCHANGED <<latest, notified, mixed>>
  BY DEF PublishUpdate
<1>3. UpdateTypeOK /\ Active(c) /\ v \in 1 .. MaxVersion
  BY <1>2 DEF UpdateInv, UpdateTypeOK, ChkType, Active
<1>4. /\ on \in [pc : {"idle", "cache", "compare", "publish", "record"}, v : Nat]
      /\ on.pc = "record" /\ on.v = v
  BY <1>3 DEF UpdateTypeOK, ChkType
<1>5. chk' = [chk EXCEPT ![c] = IF delivered /\ told THEN on ELSE NoCheck]
  BY <1>1, <1>3 DEF UpdateTypeOK, ChkType
<1>6. NoCheck \in [pc : {"idle", "cache", "compare", "publish", "record"}, v : Nat] /\ NoCheck.pc = "idle"
  BY DEF NoCheck
<1>7. announced \in [1 .. MaxVersion -> Nat] /\ faults \in [1 .. MaxVersion -> Nat] /\ notified \in Nat
  BY <1>3 DEF UpdateTypeOK
<1>8. /\ more \in [1 .. MaxVersion -> Nat]
      /\ \A u \in 1 .. MaxVersion : more[u] = IF u = v THEN announced[u] + 1 ELSE announced[u]
  BY <1>3, <1>7
<1>9. ASSUME ~mixed
      PROVE  /\ ~Spent(v)
             /\ \A u \in 1 .. MaxVersion : announced[u] <= 1 + faults[u] /\ (Spent(u) => u <= notified)
  <2>1. \A u : ~Owed(c, u)
    BY <1>2 DEF Owed
  <2>2. ~Spent(v)
    BY <1>2, <1>9 DEF UpdateInv, InOrder
  <2> QED BY <1>3, <1>9, <2>1, <2>2, OneCheck
<1> HIDE DEF on, v, more
<1>10. CASE delivered /\ told
  <2>1. chk' = [chk EXCEPT ![c] = on] /\ faults' = faults /\ announced' = more
    BY <1>1, <1>5, <1>10
  <2>2. ASSUME ~mixed
        PROVE  \A u \in 1 .. MaxVersion :
                 announced'[u] <= 1 + faults'[u] /\ (announced'[u] = 1 + faults'[u] => u <= notified' \/ u = v)
    BY <1>2, <1>3, <1>7, <1>8, <1>9, <2>1, <2>2 DEF Spent
  <2>3. on.v > 0
    BY <1>3, <1>4
  <2> QED BY <1>2, <1>3, <1>4, <1>7, <1>8, <2>1, <2>2, <2>3, CheckStep DEF v
<1>11. CASE delivered /\ ~told
  <2>1. chk' = [chk EXCEPT ![c] = NoCheck] /\ faults' = Fault(v) /\ announced' = more
    BY <1>1, <1>5, <1>11
  <2>2. /\ faults' \in [1 .. MaxVersion -> Nat]
        /\ \A u \in 1 .. MaxVersion : faults'[u] = IF u = v THEN faults[u] + 1 ELSE faults[u]
    BY <1>3, <2>1, FaultCounts
  <2>3. ASSUME ~mixed
        PROVE  \A u \in 1 .. MaxVersion : announced'[u] <= 1 + faults'[u] /\ (announced'[u] = 1 + faults'[u] => u <= notified')
    BY <1>2, <1>3, <1>7, <1>8, <1>9, <2>1, <2>2, <2>3 DEF Spent
  <2> QED BY <1>2, <1>3, <1>6, <1>7, <1>8, <2>1, <2>2, <2>3, CheckStep
<1>12. CASE ~delivered
  <2>1. chk' = [chk EXCEPT ![c] = NoCheck] /\ faults' = faults /\ announced' = announced
    BY <1>1, <1>5, <1>12
  <2>2. \A u : announced'[u] = 1 + faults'[u] <=> Spent(u)
    BY <2>1 DEF Spent
  <2> QED BY <1>2, <1>3, <1>6, <1>7, <1>9, <2>1, <2>2, CheckStep
<1> QED BY <1>10, <1>11, <1>12

LEMMA RecordChecks ==
  ASSUME UpdateInv, NEW c \in Checkers, RecordNotified(c)
  PROVE  UpdateInv'
<1> DEFINE v == chk[c].v
<1>1. /\ chk[c].pc = "record" /\ chk' = [chk EXCEPT ![c] = NoCheck]
      /\ UNCHANGED <<latest, announced, mixed>>
      /\ \/ notified' = v /\ UNCHANGED faults
         \/ faults' = Fault(v) /\ UNCHANGED notified
  BY DEF RecordNotified
<1>2. UpdateTypeOK /\ Active(c) /\ v \in 1 .. MaxVersion
  BY <1>1 DEF UpdateInv, UpdateTypeOK, ChkType, Active
<1>3. NoCheck \in [pc : {"idle", "cache", "compare", "publish", "record"}, v : Nat] /\ NoCheck.pc = "idle"
  BY DEF NoCheck
<1>4. announced \in [1 .. MaxVersion -> Nat] /\ faults \in [1 .. MaxVersion -> Nat] /\ notified \in Nat
  BY <1>2 DEF UpdateTypeOK
<1>5. ASSUME ~mixed
      PROVE  notified <= v /\ \A u \in 1 .. MaxVersion :
               announced[u] <= 1 + faults[u] /\ (Spent(u) => u <= notified \/ u = v)
  BY <1>2, <1>5, OneCheck DEF Owed
<1>6. CASE notified' = v /\ UNCHANGED faults
  <2>1. ~mixed => \A u \in 1 .. MaxVersion : announced'[u] <= 1 + faults'[u] /\ (announced'[u] = 1 + faults'[u] => u <= notified')
    <3>1. \A u : announced'[u] = 1 + faults'[u] <=> Spent(u)
      BY <1>1, <1>6 DEF Spent
    <3> HIDE DEF v
    <3> QED BY <1>1, <1>2, <1>4, <1>5, <1>6, <3>1
  <2> QED BY <1>1, <1>2, <1>3, <1>4, <1>6, <2>1, CheckStep
<1>7. CASE faults' = Fault(v) /\ UNCHANGED notified
  <2>1. /\ faults' \in [1 .. MaxVersion -> Nat]
        /\ \A u \in 1 .. MaxVersion : faults'[u] = IF u = v THEN faults[u] + 1 ELSE faults[u]
    BY <1>2, <1>7, FaultCounts
  <2>2. ~mixed => \A u \in 1 .. MaxVersion : announced'[u] <= 1 + faults'[u] /\ (announced'[u] = 1 + faults'[u] => u <= notified')
    <3> HIDE DEF v
    <3> QED BY <1>1, <1>2, <1>4, <1>5, <1>7, <2>1 DEF Spent
  <2> QED BY <1>1, <1>2, <1>3, <1>4, <1>7, <2>1, <2>2, CheckStep
<1> QED BY <1>1, <1>6, <1>7

LEMMA UpdateKeeps ==
  ASSUME UpdateInv, [UpdateNext]_updateVars
  PROVE  UpdateInv'
<1> USE DEF UpdateInv, UpdateTypeOK, ChkType, Active, NoCheck, Spent
<1> USE UpdateAssumption
<1>1. CASE UNCHANGED updateVars
  <2>1. InOrder => InOrder'
    BY <1>1 DEF updateVars, InOrder
  <2> QED BY <1>1, <2>1 DEF updateVars
<1>2. CASE Release
  BY <1>2 DEF Release, InOrder
<1>3. ASSUME NEW c \in Checkers, CheckNow(c)
      PROVE  UpdateInv'
  <2>1. ASSUME ~mixed'
        PROVE  ~mixed /\ \A d \in Checkers : ~Active(d)
    <3>1. ~mixed /\ \A d \in Checkers : chk[d] = NoCheck
      BY <1>3, <2>1, Zenon DEF CheckNow
    <3> QED BY <3>1
  <2>2. ~mixed' => InOrder'
    BY <1>3, <2>1 DEF CheckNow, InOrder
  <2> QED BY <1>3, <2>2 DEF CheckNow
<1>4. ASSUME NEW c \in Checkers, CacheLatest(c)
      PROVE  UpdateInv'
  BY <1>4 DEF CacheLatest, InOrder
<1> HIDE DEF UpdateInv
<1> QED BY <1>1, <1>2, <1>3, <1>4, CompareChecks, PublishChecks, RecordChecks DEF UpdateNext

LEMMA UpdateSurvives ==
  ASSUME UpdateInv, Crash
  PROVE  UpdateInv'
<1> USE DEF UpdateInv, UpdateTypeOK, ChkType, Active, NoCheck, Spent
<1> DEFINE cut(v) == \E c \in Checkers : chk[c].pc = "record" /\ chk[c].v = v
<1>1. /\ latest' = latest /\ notified' = notified /\ announced' = announced /\ mixed' = mixed
      /\ chk' = [c \in Checkers |-> NoCheck]
      /\ faults' = [v \in 1 .. MaxVersion |-> IF cut(v) THEN faults[v] + 1 ELSE faults[v]]
  BY DEF Crash
<1>2. \A v \in 1 .. MaxVersion : faults'[v] = IF cut(v) THEN faults[v] + 1 ELSE faults[v]
  BY <1>1
<1>3. faults' \in [1 .. MaxVersion -> Nat]
  BY <1>1
<1>4. \A c \in Checkers : chk'[c].v = 0 /\ chk'[c].pc = "idle"
  BY <1>1
<1>5. InOrder => InOrder'
  BY <1>1, <1>2, <1>4 DEF InOrder
<1>6. UpdateTypeOK'
  BY <1>1, <1>3
<1> QED BY <1>1, <1>4, <1>5, <1>6, UpdateAssumption

(* Over any number of checks, concurrent ones excepted, of releases and of   *)
(* restarts, a version is announced to the admins a second time only after a *)
(* setting was not read or not recorded (CheckNow), and once for each time.  *)
THEOREM AlwaysAnnouncedOnce == Spec => []AnnouncedOnce
<1>1. Init => UpdateInv
  BY UpdateStart DEF Init
<1>2. ASSUME UpdateInv, [Next]_vars
      PROVE  UpdateInv'
  <2>1. CASE UNCHANGED updateVars
    BY <1>2, <2>1, UpdateKeeps
  <2>2. CASE UpdateNext
    BY <1>2, <2>2, UpdateKeeps
  <2>3. CASE Crash
    BY <1>2, <2>3, UpdateSurvives
  <2> QED BY <1>2, <2>1, <2>2, <2>3 DEF Next, Step, Restart, vars
<1>3. UpdateInv => AnnouncedOnce
  BY DEF UpdateInv, UpdateTypeOK, InOrder, AnnouncedOnce
<1> QED BY <1>1, <1>2, <1>3, PTL DEF Spec

-----------------------------------------------------------------------------
(* The job runner *)

JobPCs == {"free", "dispatch", "reload", "publish", "done"}
AnyJob == JobNames \cup {CHOOSE j \in JobNames : TRUE}

LEMMA FreeType == Free.pc = "free" /\ Free \in [pc : JobPCs, job : AnyJob] /\ JobNames \subseteq AnyJob
<1> DEFINE any == CHOOSE j \in JobNames : TRUE
<1> HIDE DEF any
<1>1. Free = [pc |-> "free", job |-> any] /\ AnyJob = JobNames \cup {any}
  BY DEF Free, AnyJob, any
<1> QED BY <1>1 DEF JobPCs

(* An invocation under way has its job's key in the running map to itself.   *)
JobsInv ==
  /\ inv \in [Invocations -> [pc : JobPCs, job : AnyJob]]
  /\ \A i \in Invocations : inv[i].pc # "free" => inv[i].job \in running
  /\ JobsDoNotOverlap

LEMMA JobsKeep ==
  ASSUME JobsInv, [JobsNext]_jobVars
  PROVE  JobsInv'
<1> USE FreeType DEF JobPCs, JobsInv, JobsDoNotOverlap
<1>1. CASE UNCHANGED jobVars
  BY <1>1 DEF jobVars
<1>2. ASSUME NEW js \in SUBSET JobNames, tick(js)
      PROVE  JobsInv'
  BY <1>2 DEF tick
<1>3. ASSUME NEW j \in JobNames, NEW workerUp \in BOOLEAN, ConsiderJob(j, workerUp)
      PROVE  JobsInv'
  <2>1. CASE UNCHANGED <<running, inv>>
    BY <2>1
  <2>2. CASE ~UNCHANGED <<running, inv>>
    <3>1. PICK i \in Invocations :
            /\ inv[i] = Free /\ j \notin running
            /\ inv' = [inv EXCEPT ![i] = [pc |-> "dispatch", job |-> j]]
            /\ running' = running \cup {j}
      BY <1>3, <2>2, Zenon DEF ConsiderJob, MayRun
    <3> QED BY <3>1
  <2> QED BY <2>1, <2>2
<1>4. ASSUME NEW i \in Invocations, dispatchJob(i)
      PROVE  JobsInv'
  <2>1. ASSUME NEW outcome \in {"error", "reload", "ok"}, Answered(i, outcome)
        PROVE  JobsInv'
    BY <2>1 DEF Answered
  <2>2. CASE ReloadJob(i)
    BY <2>2 DEF ReloadJob
  <2>3. CASE PublishJob(i)
    BY <2>3 DEF PublishJob
  <2>4. CASE EndJob(i)
    BY <2>4 DEF EndJob
  <2> QED BY <1>4, <2>1, <2>2, <2>3, <2>4 DEF dispatchJob
<1> QED BY <1>1, <1>2, <1>3, <1>4 DEF JobsNext

(* However many invocations, jobs, ticks and restarts there are, a job has   *)
(* one invocation at a time (the running map of dispatchJob).                *)
THEOREM JobsNeverOverlap == Spec => []JobsDoNotOverlap
<1>1. Init => JobsInv
  BY FreeType DEF Init, JobsInit, JobsInv, JobsDoNotOverlap
<1>2. ASSUME JobsInv, [Next]_vars
      PROVE  JobsInv'
  <2>1. CASE UNCHANGED jobVars
    BY <1>2, <2>1, JobsKeep
  <2>2. CASE JobsNext
    BY <1>2, <2>2, JobsKeep
  <2>3. CASE Crash
    <3>1. inv' = [i \in Invocations |-> Free]
      BY <2>3 DEF Crash
    <3> QED BY <3>1, FreeType DEF JobsInv, JobsDoNotOverlap
  <2> QED BY <1>2, <2>1, <2>2, <2>3 DEF Next, Step, Restart, vars
<1>3. JobsInv => JobsDoNotOverlap
  BY DEF JobsInv
<1> QED BY <1>1, <1>2, <1>3, PTL DEF Spec

-----------------------------------------------------------------------------
(* The news feeds *)

RowType == [url : Urls \cup {"none"}]
ReadPCs == {"none", "sem", "get", "fetch", "set", "done"}

ReadType == [pc : {"idle", "wait"}, want : [FeedIds -> RowType], at : [FeedIds -> ReadPCs]]

EditType == [pc : {"idle", "del", "list", "import"}, id : Nat, picked : Seq(Urls),
             known : SUBSET (Urls \cup {"none"}), made : SUBSET Nat, calm : BOOLEAN]

NewsTypeOK ==
  /\ nextId \in Nat \ {0}
  /\ feeds \in [FeedIds -> RowType]
  /\ cache \in [FeedIds -> RowType]
  /\ rd \in [Readers -> ReadType]
  /\ ed \in [Editors -> EditType]

(* An id that was not given out yet is unknown to the table, to the cache    *)
(* and to every reader; only an editor about to invalidate names a feed.     *)
NewsInv ==
  /\ NewsTypeOK
  /\ \A i \in FeedIds : i >= nextId => feeds[i] = NoFeed /\ cache[i] = NoFeed
  /\ \A r \in Readers, i \in FeedIds : i >= nextId => rd[r].at[i] = "none"
  /\ \A e \in Editors : ed[e].pc # "del" => ed[e].id = 0
  /\ CacheSpeaksForRow

LEMMA NoReadType == NoRead \in ReadType /\ \A i \in FeedIds : NoRead.at[i] = "none"
BY DEF NoRead, ReadType, RowType, ReadPCs, NoFeed

LEMMA NoEditType == NoEdit \in EditType /\ NoEdit.pc = "idle" /\ NoEdit.id = 0
BY DEF NoEdit, EditType

LEMMA NewsStart ==
  ASSUME NewsInit
  PROVE  NewsInv
<1> USE NewsAssumption DEF NewsInit, FeedIds
<1>1. NoFeed \in RowType /\ \A u \in Urls : [url |-> u] \in RowType
  BY DEF NoFeed, RowType
<1>2. feeds \in [FeedIds -> RowType]
  BY <1>1
<1>3. NewsTypeOK
  BY <1>1, <1>2, NoReadType, NoEditType DEF NewsTypeOK
<1>4. \A i \in FeedIds : cache[i] = NoFeed
  OBVIOUS
<1> QED BY <1>3, <1>4, NoReadType, NoEditType DEF NewsInv, CacheSpeaksForRow

(* Steps of a request for the news that write neither the table nor the      *)
(* cache.                                                                    *)
LEMMA ReaderKeeps ==
  ASSUME NewsInv, UNCHANGED <<feeds, cache, nextId, ed, late>>,
         rd' \in [Readers -> ReadType],
         \A r \in Readers, i \in FeedIds : i >= nextId => rd'[r].at[i] = "none"
  PROVE  NewsInv'
BY DEF NewsInv, NewsTypeOK, CacheSpeaksForRow, Rows

LEMMA MoveKeeps ==
  ASSUME NewsInv, NEW r \in Readers, NEW i \in FeedIds, NEW at \in ReadPCs,
         rd[r].at[i] # "none", Move(r, i, at)
  PROVE  /\ rd' \in [Readers -> ReadType]
         /\ \A q \in Readers, j \in FeedIds : j >= nextId => rd'[q].at[j] = "none"
BY ZenonT(60) DEF NewsInv, NewsTypeOK, Move, ReadType

LEMMA ReadersKeep ==
  ASSUME NewsInv, NEW r \in Readers,
         \/ ReadBegin(r) \/ ReadEnd(r)
         \/ \E i \in FeedIds : Acquire(r, i) \/ CacheGet(r, i) \/ Fetch(r, i) \/ CacheSet(r, i)
  PROVE  NewsInv'
<1>1. CASE ReadBegin(r)
  <2> DEFINE mine == subs \cap Rows
             rows == [i \in FeedIds |-> IF i \in mine THEN feeds[i] ELSE NoFeed]
             places == [i \in FeedIds |-> IF i \in mine THEN "sem" ELSE "none"]
             started == [NoRead EXCEPT !.pc = "wait", !.want = rows, !.at = places]
  <2>1. rd' = rd \/ rd' = [rd EXCEPT ![r] = started]
    BY <1>1, Zenon DEF ReadBegin
  <2>2. rows \in [FeedIds -> RowType] /\ places \in [FeedIds -> ReadPCs]
    BY DEF NewsInv, NewsTypeOK, NoFeed, RowType, ReadPCs
  <2>3. \A i \in FeedIds : i >= nextId => places[i] = "none"
    BY DEF Rows, NewsInv
  <2> HIDE DEF rows, places
  <2>4. started \in ReadType /\ started.at = places
    BY <2>2, NoReadType DEF ReadType
  <2> HIDE DEF started
  <2>5. rd' \in [Readers -> ReadType]
    BY <2>1, <2>4 DEF NewsInv, NewsTypeOK
  <2>6. \A q \in Readers, i \in FeedIds : i >= nextId => rd'[q].at[i] = "none"
    BY <2>1, <2>3, <2>4 DEF NewsInv, NewsTypeOK
  <2> QED BY <1>1, <2>5, <2>6, ReaderKeeps DEF ReadBegin
<1>2. CASE ReadEnd(r)
  BY <1>2, NoReadType, ReaderKeeps DEF ReadEnd, NewsInv, NewsTypeOK
<1>3. ASSUME NEW i \in FeedIds, Acquire(r, i) \/ CacheGet(r, i) \/ Fetch(r, i)
      PROVE  NewsInv'
  <2>1. PICK at \in ReadPCs : rd[r].at[i] # "none" /\ Move(r, i, at)
    BY <1>3 DEF Acquire, CacheGet, Fetch, ReadPCs
  <2> QED BY <1>3, <2>1, MoveKeeps, ReaderKeeps DEF Acquire, CacheGet, Fetch
<1>4. ASSUME NEW i \in FeedIds, CacheSet(r, i)
      PROVE  NewsInv'
  <2>1. rd[r].at[i] = "set" /\ Move(r, i, "done")
        /\ UNCHANGED <<feeds, nextId, ed>>
    BY <1>4 DEF CacheSet
  <2>2. "done" \in ReadPCs
    BY DEF ReadPCs
  <2>3. CASE UNCHANGED <<cache, late>>
    BY <2>1, <2>2, <2>3, MoveKeeps, ReaderKeeps
  <2>4. CASE /\ cache' = [cache EXCEPT ![i] = rd[r].want[i]]
             /\ late' = IF rd[r].want[i] = feeds[i] THEN late \ {i} ELSE late \cup {i}
    <3>1. CacheSpeaksForRow'
      BY <2>1, <2>4 DEF CacheSpeaksForRow, NewsInv, NewsTypeOK, Rows
    <3>2. i < nextId
      BY <2>1 DEF NewsInv, NewsTypeOK, FeedIds
    <3>3. cache' \in [FeedIds -> RowType]
      BY <2>4 DEF NewsInv, NewsTypeOK, ReadType
    <3> QED BY <2>1, <2>2, <2>4, <3>1, <3>2, <3>3, MoveKeeps DEF NewsInv, NewsTypeOK
  <2> QED BY <1>4, <2>3, <2>4 DEF CacheSet
<1> QED BY <1>1, <1>2, <1>3, <1>4

(* An editor's steps that change no row: e has no feed to invalidate, before *)
(* and after.                                                                *)
LEMMA EditorKeeps ==
  ASSUME NewsInv, UNCHANGED <<feeds, cache, nextId, rd, late>>,
         NEW e \in Editors, NEW s \in EditType, ed' = [ed EXCEPT ![e] = s],
         ed[e].pc # "del", s.id = 0
  PROVE  NewsInv'
<1>1. ed' \in [Editors -> EditType] /\ \A x \in Editors : ed'[x].id = ed[x].id
  BY DEF NewsInv, NewsTypeOK
<1>2. CacheSpeaksForRow'
  BY <1>1 DEF NewsInv, CacheSpeaksForRow, Rows
<1>3. \A x \in Editors : ed'[x].pc # "del" => ed'[x].id = 0
  BY DEF NewsInv, NewsTypeOK
<1> QED BY <1>1, <1>2, <1>3 DEF NewsInv, NewsTypeOK

(* Write keeps the other editors' places.                                    *)
LEMMA WriteKeeps ==
  ASSUME ed \in [Editors -> EditType], NEW e \in Editors, NEW fs, NEW s \in EditType,
         Write(e, fs, s)
  PROVE  /\ feeds' = fs /\ ed' \in [Editors -> EditType] /\ ed'[e] = s
         /\ \A x \in Editors \ {e} : ed'[x].id = ed[x].id /\ ed'[x].pc = ed[x].pc
<1>1. \A x \in Editors : /\ [ed[x] EXCEPT !.calm = FALSE] \in EditType
                        /\ [ed[x] EXCEPT !.calm = FALSE].id = ed[x].id
                        /\ [ed[x] EXCEPT !.calm = FALSE].pc = ed[x].pc
  BY DEF EditType
<1>2. feeds' = fs /\ ed' = [x \in Editors |-> IF x = e THEN s
                              ELSE IF ed[x] = NoEdit THEN NoEdit ELSE [ed[x] EXCEPT !.calm = FALSE]]
  BY DEF Write
<1> QED BY <1>1, <1>2, NoEditType

(* A new feed gets an id that nothing is cached for.                         *)
LEMMA CreateKeeps ==
  ASSUME NewsInv, UNCHANGED <<cache, rd, late>>, NEW e \in Editors, NEW u \in Urls,
         NEW s \in EditType, ed[e].pc # "del", s.id = 0, CreateFeed(e, u, s)
  PROVE  NewsInv'
<1>1. nextId \in FeedIds /\ nextId' = nextId + 1
  BY NewsAssumption DEF CreateFeed, NewsInv, NewsTypeOK, FeedIds
<1>2. /\ feeds' = [feeds EXCEPT ![nextId] = [url |-> u]]
      /\ ed' \in [Editors -> EditType] /\ ed'[e] = s
      /\ \A x \in Editors \ {e} : ed'[x].id = ed[x].id /\ ed'[x].pc = ed[x].pc
  <2>1. Write(e, [feeds EXCEPT ![nextId] = [url |-> u]], s)
    BY DEF CreateFeed
  <2> QED BY <2>1, WriteKeeps DEF NewsInv, NewsTypeOK
<1>3. NewsTypeOK'
  BY <1>1, <1>2 DEF NewsInv, NewsTypeOK, RowType, FeedIds
<1>4. \A x \in Editors : ed'[x].id = ed[x].id
  BY <1>2 DEF NewsInv
<1>5. CacheSpeaksForRow'
  BY <1>1, <1>2, <1>4 DEF NewsInv, NewsTypeOK, CacheSpeaksForRow, Rows, FeedIds
<1> QED BY <1>1, <1>2, <1>3, <1>5 DEF NewsInv, NewsTypeOK, FeedIds

(* A row that is changed or deleted: until e has invalidated its articles,   *)
(* CacheSpeaksForRow says nothing of it.                                     *)
LEMMA ChangeKeeps ==
  ASSUME NewsInv, UNCHANGED <<cache, nextId, rd, late>>, NEW e \in Editors, ed[e] = NoEdit,
         NEW i \in Rows, NEW row \in RowType,
         Write(e, [feeds EXCEPT ![i] = row], [NoEdit EXCEPT !.pc = "del", !.id = i])
  PROVE  NewsInv'
<1> DEFINE s == [NoEdit EXCEPT !.pc = "del", !.id = i]
<1>1. i \in FeedIds /\ i \in Nat /\ i # 0 /\ i < nextId
  BY NewsAssumption DEF NewsInv, NewsTypeOK, Rows, FeedIds
<1>2. s \in EditType /\ s.pc = "del" /\ s.id = i
  BY <1>1, NoEditType DEF EditType
<1>3. /\ feeds' = [feeds EXCEPT ![i] = row]
      /\ ed' \in [Editors -> EditType] /\ ed'[e].id = i /\ ed'[e].pc = "del"
      /\ \A x \in Editors \ {e} : ed'[x].id = ed[x].id /\ ed'[x].pc = ed[x].pc
  <2>1. Write(e, [feeds EXCEPT ![i] = row], s) /\ ed \in [Editors -> EditType]
    BY DEF NewsInv, NewsTypeOK
  <2> HIDE DEF s
  <2>2. /\ feeds' = [feeds EXCEPT ![i] = row] /\ ed' \in [Editors -> EditType] /\ ed'[e] = s
        /\ \A x \in Editors \ {e} : ed'[x].id = ed[x].id /\ ed'[x].pc = ed[x].pc
    BY <1>2, <2>1, WriteKeeps
  <2> QED BY <1>2, <2>2
<1>4. NewsTypeOK'
  BY <1>3 DEF NewsInv, NewsTypeOK
<1>5. CacheSpeaksForRow'
  <2> SUFFICES ASSUME NEW j \in FeedIds, cache[j] # NoFeed, j \in Rows', j \notin late,
                      \A x \in Editors : ed'[x].id # j
               PROVE  cache[j] = feeds'[j]
    BY DEF CacheSpeaksForRow
  <2>1. j # i /\ feeds'[j] = feeds[j] /\ j # 0
    BY <1>3, NewsAssumption DEF NewsInv, NewsTypeOK, FeedIds
  <2>2. \A x \in Editors : ed[x].id # j
    BY <1>3, <2>1, NoEditType
  <2> QED BY <2>1, <2>2 DEF NewsInv, CacheSpeaksForRow, Rows
<1> QED BY <1>1, <1>3, <1>4, <1>5 DEF NewsInv, NewsTypeOK, FeedIds

LEMMA EditorsKeep ==
  ASSUME NewsInv, NEW e \in Editors,
         \/ \E url \in Urls : AdminCreate(e, url) \/ \E i \in FeedIds : AdminUpdate(e, i, url)
         \/ \E i \in FeedIds : AdminDelete(e, i)
         \/ \E picked \in AdminParseOPML \cup AdminCatalog : AdminImport(e, picked)
         \/ ImportList(e) \/ ImportNext(e) \/ ImportEnd(e) \/ Invalidate(e)
  PROVE  NewsInv'
<1>1. ASSUME NEW url \in Urls, AdminCreate(e, url)
      PROVE  NewsInv'
  BY <1>1, CreateKeeps, NoEditType DEF AdminCreate, BeginChange
<1>2. ASSUME NEW url \in Urls, NEW i \in FeedIds, AdminUpdate(e, i, url)
      PROVE  NewsInv'
  <2>1. [feeds[i] EXCEPT !.url = url] \in RowType
    BY DEF NewsInv, NewsTypeOK, RowType
  <2>2. [feeds EXCEPT ![i].url = url] = [feeds EXCEPT ![i] = [feeds[i] EXCEPT !.url = url]]
    BY DEF NewsInv, NewsTypeOK
  <2> QED BY <1>2, <2>1, <2>2, ChangeKeeps DEF AdminUpdate, BeginChange
<1>3. ASSUME NEW i \in FeedIds, AdminDelete(e, i)
      PROVE  NewsInv'
  <2>1. NoFeed \in RowType
    BY DEF NoFeed, RowType
  <2> QED BY <1>3, <2>1, ChangeKeeps DEF AdminDelete, BeginChange
<1>4. ASSUME NEW picked \in AdminParseOPML \cup AdminCatalog, AdminImport(e, picked)
      PROVE  NewsInv'
  <2> DEFINE s == [NoEdit EXCEPT !.pc = "list", !.picked = picked]
  <2>1. picked \in Seq(Urls)
    BY NewsAssumption DEF AdminParseOPML, AdminCatalog
  <2>2. s \in EditType /\ s.id = 0
    BY <2>1, NoEditType DEF EditType
  <2> QED BY <1>4, <2>2, EditorKeeps, NoEditType DEF AdminImport, BeginChange
<1>5. CASE ImportList(e)
  <2>1. PICK ok \in BOOLEAN :
          ed' = [ed EXCEPT ![e].pc = "import", ![e].calm = ok,
                           ![e].known = IF ok THEN UrlsOf(Rows) ELSE {}]
    BY <1>5 DEF ImportList
  <2> DEFINE readable == IF ok THEN UrlsOf(Rows) ELSE {}
             s == [ed[e] EXCEPT !.pc = "import", !.calm = ok, !.known = readable]
  <2>2. readable \in SUBSET (Urls \cup {"none"})
    BY DEF UrlsOf, Rows, NewsInv, NewsTypeOK, RowType
  <2> HIDE DEF readable
  <2>3. s \in EditType /\ s.id = ed[e].id
    BY <2>2, ZenonT(60) DEF NewsInv, NewsTypeOK, EditType
  <2>4. ed' = [ed EXCEPT ![e] = s]
    BY <2>1, ZenonT(60) DEF NewsInv, NewsTypeOK, EditType, readable
  <2> QED BY <1>5, <2>3, <2>4, EditorKeeps, ZenonT(60) DEF ImportList, NewsInv
<1>6. CASE ImportNext(e)
  <2> DEFINE url == Head(ed[e].picked)
             s == [ed[e] EXCEPT !.picked = Tail(@)]
             t == [s EXCEPT !.known = learn(@, url), !.made = @ \cup {nextId}]
  <2>1. ed[e].pc = "import" /\ ed[e].id = 0 /\ url \in Urls /\ Tail(ed[e].picked) \in Seq(Urls)
    BY <1>6 DEF ImportNext, NewsInv, NewsTypeOK, EditType
  <2>2. s \in EditType /\ s.id = 0
    BY <2>1, ZenonT(60) DEF NewsInv, NewsTypeOK, EditType
  <2>3. t \in EditType /\ t.id = 0
    BY <2>1, <2>2 DEF NewsInv, NewsTypeOK, EditType, learn
  <2>4. UNCHANGED <<cache, rd, late>>
    BY <1>6 DEF ImportNext
  <2>5. \/ ed' = [ed EXCEPT ![e] = s] /\ UNCHANGED <<feeds, nextId>>
        \/ CreateFeed(e, url, t)
    BY <1>6 DEF ImportNext
  <2> HIDE DEF s, t, url
  <2> QED BY <2>1, <2>2, <2>3, <2>4, <2>5, EditorKeeps, CreateKeeps
<1>7. CASE ImportEnd(e)
  BY <1>7, EditorKeeps, NoEditType DEF ImportEnd
<1>8. CASE Invalidate(e)
  <2>1. ed' = [ed EXCEPT ![e] = NoEdit] /\ UNCHANGED <<feeds, nextId, rd>>
    BY <1>8 DEF Invalidate
  <2>2. NewsTypeOK'
    BY <1>8, <2>1, NoEditType DEF Invalidate, NewsInv, NewsTypeOK, NoFeed, RowType
  <2>3. CacheSpeaksForRow'
    BY <1>8, <2>1 DEF Invalidate, NewsInv, NewsTypeOK, CacheSpeaksForRow, Rows
  <2> QED BY <1>8, <2>1, <2>2, <2>3, NoEditType DEF Invalidate, NewsInv, NewsTypeOK
<1> QED BY <1>1, <1>2, <1>3, <1>4, <1>5, <1>6, <1>7, <1>8

LEMMA NewsKeeps ==
  ASSUME NewsInv, [NewsNext]_newsVars
  PROVE  NewsInv'
<1>1. CASE UNCHANGED newsVars
  BY <1>1 DEF newsVars, NewsInv, NewsTypeOK, CacheSpeaksForRow, Rows
<1>2. ASSUME NEW r \in Readers,
             \/ ReadBegin(r) \/ ReadEnd(r)
             \/ \E i \in FeedIds : Acquire(r, i) \/ CacheGet(r, i) \/ Fetch(r, i) \/ CacheSet(r, i)
      PROVE  NewsInv'
  BY <1>2, ReadersKeep
<1>3. ASSUME NEW i \in FeedIds, CacheExpires(i)
      PROVE  NewsInv'
  <2>1. NoFeed \in RowType
    BY DEF NoFeed, RowType
  <2>2. cache' = [cache EXCEPT ![i] = NoFeed] /\ late' = late \ {i}
        /\ UNCHANGED <<feeds, nextId, rd, ed>>
    BY <1>3 DEF CacheExpires
  <2> QED BY <2>1, <2>2 DEF NewsInv, NewsTypeOK, CacheSpeaksForRow, Rows
<1>4. ASSUME NEW i \in FeedIds, NEW on \in BOOLEAN, SetFeedSubscription(i, on)
      PROVE  NewsInv'
  BY <1>4 DEF SetFeedSubscription, NewsInv, NewsTypeOK, CacheSpeaksForRow, Rows
<1>5. ASSUME NEW e \in Editors,
             \/ \E url \in Urls : AdminCreate(e, url) \/ \E i \in FeedIds : AdminUpdate(e, i, url)
             \/ \E i \in FeedIds : AdminDelete(e, i)
             \/ \E picked \in AdminParseOPML \cup AdminCatalog : AdminImport(e, picked)
             \/ ImportList(e) \/ ImportNext(e) \/ ImportEnd(e) \/ Invalidate(e)
      PROVE  NewsInv'
  BY <1>5, EditorsKeep
<1>6. CASE NewsNext
  BY <1>2, <1>3, <1>4, <1>5, <1>6, Zenon DEF NewsNext
<1> QED BY <1>1, <1>6

(* The deletions that were on their way are lost, and their feeds are late.  *)
LEMMA NewsSurvives ==
  ASSUME NewsInv, Crash
  PROVE  NewsInv'
<1>1. /\ rd' = [r \in Readers |-> NoRead] /\ ed' = [e \in Editors |-> NoEdit]
      /\ late' = late \cup {ed[e].id : e \in {e \in Editors : ed[e].pc = "del"}}
      /\ UNCHANGED <<feeds, cache, nextId>>
  BY DEF Crash
<1>2. NewsTypeOK'
  BY <1>1, NoReadType, NoEditType DEF NewsInv, NewsTypeOK
<1>3. CacheSpeaksForRow'
  <2> SUFFICES ASSUME NEW i \in FeedIds, cache[i] # NoFeed, i \in Rows, i \notin late'
               PROVE  cache[i] = feeds[i]
    BY <1>1 DEF CacheSpeaksForRow, Rows
  <2>1. i # 0
    BY NewsAssumption DEF FeedIds
  <2>2. \A e \in Editors : ed[e].id # i
    BY <1>1, <2>1 DEF NewsInv
  <2> QED BY <1>1, <2>2 DEF NewsInv, CacheSpeaksForRow
<1> QED BY <1>1, <1>2, <1>3, NoReadType, NoEditType DEF NewsInv, NewsTypeOK

(* For any number of feeds, readers, admins and restarts: what is cached for *)
(* a feed comes from its present address, but for the two windows that       *)
(* CacheSpeaksForRow names (cachedFeed against AdminUpdateHandler).          *)
THEOREM CacheAlwaysSpeaksForRow == Spec => []CacheSpeaksForRow
<1>1. Init => NewsInv
  BY NewsStart DEF Init
<1>2. ASSUME NewsInv, [Next]_vars
      PROVE  NewsInv'
  <2>1. CASE UNCHANGED newsVars
    BY <1>2, <2>1, NewsKeeps
  <2>2. CASE NewsNext
    BY <1>2, <2>2, NewsKeeps
  <2>3. CASE Crash
    BY <1>2, <2>3, NewsSurvives
  <2> QED BY <1>2, <2>1, <2>2, <2>3 DEF Next, Step, Restart, vars
<1>3. NewsInv => CacheSpeaksForRow
  BY DEF NewsInv
<1> QED BY <1>1, <1>2, <1>3, PTL DEF Spec
-----------------------------------------------------------------------------
(* Mail *)

SmtpType == [SmtpKeys -> Nat]
SaveType == [pc : {"idle", "save", "delete"}, keys : SUBSET SmtpKeys, todo : SUBSET SmtpKeys, id : Nat]
WorkerType == [pc : {"poll", "send"} \cup SmtpKeys, msg : Nat, cfg : SmtpType, torn : BOOLEAN]

MailTypeOK ==
  /\ smtp \in SmtpType /\ want \in SmtpType /\ saves \in Nat
  /\ sop \in [Admins -> SaveType]
  /\ queue \in Seq(Nat) /\ enqueued \in Nat /\ wrk \in WorkerType
  /\ loose \in BOOLEAN

Busy(a) == sop[a].pc # "idle"

(* What a deletion has left to do is a tail of its order.                    *)
Rest(n) == {deleteOrder[i] : i \in n .. 5}
Erased(todo) == Cardinality({i \in DOMAIN deleteOrder : deleteOrder[i] \notin todo})

SaveShape(s) ==
  /\ s.pc = "idle" => s = NoSave
  /\ s.pc = "save" => "legacy" \notin s.keys /\ s.todo \subseteq s.keys
  /\ s.pc = "delete" => s.keys = SmtpKeys /\ \E n \in 1 .. 5 : s.todo = Rest(n)

(* A save under way has written its keys but for those it has still to write.*)
HalfDone(s, stored, wanted) ==
  \A k \in SmtpKeys :
    stored[k] = IF k \in s.keys \ s.todo THEN IF s.pc = "save" THEN s.id ELSE 0 ELSE wanted[k]

HalfWritten(s) == HalfDone(s, smtp, want)

(* A configuration that was not torn holds what the worker has read so far.  *)
ReadSoFar ==
  /\ wrk.pc \in {"port", "mode", "legacy", "password", "send"} => wrk.cfg["host"] = want["host"]
  /\ wrk.pc \in {"mode", "legacy", "password", "send"} => wrk.cfg["port"] = want["port"]
  /\ wrk.pc \in {"legacy", "password", "send"} => wrk.cfg["mode"] = want["mode"]
  /\ wrk.pc \in {"password", "send"} => wrk.cfg["mode"] # 0 \/ wrk.cfg["legacy"] = want["legacy"]
  /\ wrk.pc = "send" => wrk.cfg["password"] = want["password"]

Settled ==
  /\ \A a, b \in Admins : Busy(a) /\ Busy(b) => a = b
  /\ (\A a \in Admins : ~Busy(a)) => smtp = want
  /\ \A a \in Admins : Busy(a) => HalfWritten(sop[a])
  /\ wrk.pc # "poll" /\ ~wrk.torn => smtp = want /\ ReadSoFar

MailInv ==
  /\ MailTypeOK
  /\ \A a \in Admins : SaveShape(sop[a])
  /\ ~loose => Settled

LEMMA MailStart ==
  ASSUME MailInit
  PROVE  MailInv
<1> USE DEF MailInit, Polling, NoSave, Empty
<1>1. MailTypeOK
  <2>1. smtp \in SmtpType
    BY DEF SmtpType
  <2>2. queue \in Seq(Nat) /\ wrk \in WorkerType /\ NoSave \in SaveType
    BY DEF SmtpType, SaveType, WorkerType
  <2> QED BY <2>1, <2>2 DEF MailTypeOK
<1>2. (\A a \in Admins : ~Busy(a)) /\ \A a \in Admins : SaveShape(sop[a])
  BY DEF Busy, SaveShape
<1> QED BY <1>1, <1>2 DEF MailInv, Settled

LEMMA NoSaveType == NoSave \in SaveType /\ NoSave.pc = "idle" /\ SaveShape(NoSave)
BY DEF NoSave, SaveType, SaveShape

LEMMA PollingType == Polling \in WorkerType /\ Polling.pc = "poll"
BY DEF Polling, Empty, WorkerType, SmtpType

(* What a torn read leaves of the worker: where it is, and that it was torn. *)
LEMMA WroteType ==
  ASSUME wrk \in WorkerType
  PROVE  Wrote \in WorkerType /\ (Wrote.pc # "poll" => Wrote.torn)
BY DEF Wrote, WorkerType

(* Steps that only move the worker: what they leave of it is in order.       *)
LEMMA WorkerMoves ==
  ASSUME MailInv, UNCHANGED <<smtp, sop, want, loose, saves, enqueued>>,
         wrk' \in WorkerType, queue' \in Seq(Nat),
         (~loose /\ wrk'.pc # "poll" /\ ~wrk'.torn) => smtp = want /\ ReadSoFar'
  PROVE  MailInv'
<1>1. MailTypeOK' /\ (\A a \in Admins : SaveShape(sop'[a]))
  BY DEF MailInv, MailTypeOK
<1>2. ~loose' => Settled'
  BY DEF MailInv, Settled, Busy, HalfWritten, HalfDone
<1> QED BY <1>1, <1>2 DEF MailInv

LEMMA WorkerKeeps ==
  ASSUME MailInv, Worker
  PROVE  MailInv'
<1>1. wrk \in WorkerType /\ queue \in Seq(Nat) /\ smtp \in SmtpType
  BY DEF MailInv, MailTypeOK
<1>2. CASE Pop
  <2>1. wrk' \in WorkerType /\ wrk'.pc = "host" /\ queue' \in Seq(Nat)
        /\ wrk'.torn = \E a \in Admins : sop[a] # NoSave
    <3> DEFINE q == \E a \in Admins : sop[a] # NoSave
    <3>1. q \in BOOLEAN
      OBVIOUS
    <3>2. wrk' = [Polling EXCEPT !.pc = "host", !.msg = Head(queue), !.torn = q]
      BY <1>2 DEF Pop
    <3>3. Head(queue) \in Nat /\ queue' \in Seq(Nat)
      BY <1>1, <1>2 DEF Pop
    <3> HIDE DEF q
    <3>4. wrk' \in WorkerType /\ wrk'.pc = "host" /\ wrk'.torn = q
      BY <3>1, <3>2, <3>3, PollingType DEF WorkerType, SmtpKeys
    <3> QED BY <3>3, <3>4 DEF q
  <2>2. ASSUME ~loose, ~wrk'.torn
        PROVE  smtp = want
    <3>1. \A a \in Admins : ~Busy(a)
      BY <2>1, <2>2, NoSaveType DEF Busy
    <3> QED BY <2>2, <3>1 DEF MailInv, Settled
  <2> QED BY <1>2, <2>1, <2>2, WorkerMoves DEF Pop, ReadSoFar
<1>3. ASSUME NEW k \in SmtpKeys, NEW next \in SmtpKeys \cup {"send"}, ReadKey(k, next),
             <<k, next>> \in {<<"host", "port">>, <<"port", "mode">>, <<"legacy", "password">>,
                              <<"password", "send">>}
      PROVE  MailInv'
  <2>1. CASE wrk' = Polling
    BY <1>1, <1>3, <2>1, PollingType, WorkerMoves DEF ReadKey
  <2>2. CASE wrk' = [wrk EXCEPT !.cfg[k] = smtp[k], !.pc = next]
    <3>1. /\ wrk' \in WorkerType /\ wrk'.pc = next /\ wrk'.torn = wrk.torn /\ wrk'.cfg[k] = smtp[k]
          /\ \A j \in SmtpKeys \ {k} : wrk'.cfg[j] = wrk.cfg[j]
      BY <1>1, <2>2 DEF WorkerType, SmtpType
    <3>2. UNCHANGED <<queue, smtp, sop, enqueued, sent, want, loose, saves>> /\ wrk.pc = k
      BY <1>3 DEF ReadKey
    <3>3. ASSUME ~loose, ~wrk'.torn
          PROVE  smtp = want /\ ReadSoFar'
      <4>1. smtp = want /\ ReadSoFar
        BY <1>3, <3>1, <3>2, <3>3 DEF MailInv, Settled, SmtpKeys
      <4> QED BY <1>3, <3>1, <3>2, <4>1 DEF ReadSoFar, SmtpKeys
    <3> QED BY <1>1, <3>1, <3>2, <3>3, WorkerMoves
  <2> QED BY <1>3, <2>1, <2>2 DEF ReadKey
<1>4. CASE resolveSMTPEncryption
  <2> DEFINE next == IF smtp["mode"] = 0 THEN "legacy" ELSE "password"
  <2>1. /\ wrk' = [wrk EXCEPT !.cfg["mode"] = smtp["mode"], !.pc = next] /\ wrk.pc = "mode"
        /\ UNCHANGED <<queue, smtp, sop, enqueued, sent, want, loose, saves>>
    BY <1>4 DEF resolveSMTPEncryption
  <2>2. /\ wrk' \in WorkerType /\ wrk'.pc = next /\ wrk'.torn = wrk.torn
        /\ wrk'.cfg["mode"] = smtp["mode"]
        /\ \A j \in SmtpKeys \ {"mode"} : wrk'.cfg[j] = wrk.cfg[j]
    BY <1>1, <2>1 DEF WorkerType, SmtpType, SmtpKeys
  <2>3. ASSUME ~loose, ~wrk'.torn
        PROVE  smtp = want /\ ReadSoFar'
    <3>1. smtp = want /\ ReadSoFar
      BY <2>1, <2>2, <2>3 DEF MailInv, Settled
    <3> QED BY <2>1, <2>2, <3>1 DEF ReadSoFar, SmtpKeys
  <2> QED BY <1>1, <2>1, <2>2, <2>3, WorkerMoves
<1>5. ASSUME NEW accepted \in BOOLEAN, Send(accepted)
      PROVE  MailInv'
  BY <1>1, <1>5, PollingType, WorkerMoves DEF Send
<1> QED BY <1>2, <1>3, <1>4, <1>5 DEF Worker, ResolveSMTPConfig, SmtpKeys

(* Where a deletion stands follows from what it has still to do.             *)
LEMMA DeleteStands ==
  ASSUME NEW n \in 1 .. 5
  PROVE  /\ Erased(Rest(n)) + 1 = n
         /\ deleteOrder[n] \in Rest(n) /\ Rest(n) \subseteq SmtpKeys
         /\ n < 5 => Rest(n) \ {deleteOrder[n]} = Rest(n + 1)
         /\ n = 5 => Rest(n) \ {deleteOrder[n]} = {}
         /\ Rest(1) = SmtpKeys /\ Len(deleteOrder) = 5
<1> USE DEF deleteOrder, SmtpKeys
<1>1. DOMAIN deleteOrder = 1 .. 5 /\ Len(deleteOrder) = 5
  OBVIOUS
<1>2. \A i, j \in 1 .. 5 : deleteOrder[i] = deleteOrder[j] => i = j
  OBVIOUS
<1>3. \A i \in 1 .. 5 : deleteOrder[i] \in SmtpKeys
  OBVIOUS
<1>4. Rest(1) = SmtpKeys
  <2>1. \A k \in SmtpKeys : \E i \in 1 .. 5 : k = deleteOrder[i]
    OBVIOUS
  <2> HIDE DEF deleteOrder, SmtpKeys
  <2> QED BY <1>3, <2>1 DEF Rest
<1> HIDE DEF deleteOrder, SmtpKeys
<1>5. {i \in DOMAIN deleteOrder : deleteOrder[i] \notin Rest(n)} = 1 .. n - 1
  BY <1>1, <1>2 DEF Rest
<1>6. Cardinality(1 .. n - 1) = n - 1
  BY FS_Interval
<1>7. deleteOrder[n] \in Rest(n) /\ Rest(n) \subseteq SmtpKeys
  BY <1>3 DEF Rest
<1>8. \A k \in Rest(n) \ {deleteOrder[n]} : \E i \in n + 1 .. 5 : k = deleteOrder[i]
  BY DEF Rest
<1>9. \A i \in n + 1 .. 5 : deleteOrder[i] \in Rest(n) /\ deleteOrder[i] # deleteOrder[n]
  BY <1>2 DEF Rest
<1>10. Rest(n) \ {deleteOrder[n]} = {deleteOrder[i] : i \in n + 1 .. 5}
  BY <1>8, <1>9
<1>11. Erased(Rest(n)) + 1 = n
  <2>1. Erased(Rest(n)) = Cardinality(1 .. n - 1)
    BY <1>5, Zenon DEF Erased
  <2> QED BY <1>6, <2>1
<1>12. n = 5 => n + 1 .. 5 = {}
  OBVIOUS
<1>13. n = 5 => Rest(n) \ {deleteOrder[n]} = {}
  BY <1>10, <1>12
<1>14. n < 5 => Rest(n) \ {deleteOrder[n]} = Rest(n + 1)
  BY <1>10 DEF Rest
<1> QED BY <1>1, <1>4, <1>7, <1>11, <1>13, <1>14

LEMMA SaveBegins ==
  ASSUME MailInv, NEW a \in Admins, NEW s \in SaveType, SaveShape(s),
         s.pc # "idle", s.todo = s.keys, BeginSave(a, s)
  PROVE  MailInv'
<1>1. /\ sop' = [sop EXCEPT ![a] = s] /\ sop[a] = NoSave /\ saves' = saves + 1
      /\ loose' = (loose \/ \E b \in Admins : sop[b] # NoSave)
      /\ UNCHANGED <<queue, wrk, smtp, enqueued, sent, want>>
  BY DEF BeginSave
<1>2. MailTypeOK' /\ \A b \in Admins : SaveShape(sop'[b])
  BY <1>1 DEF MailInv, MailTypeOK
<1>3. ASSUME ~loose'
      PROVE  Settled'
  <2>1. ~loose /\ Settled /\ \A b \in Admins : ~Busy(b)
    BY <1>1, <1>3, NoSaveType DEF MailInv, Busy
  <2>2. smtp = want
    BY <2>1 DEF Settled
  <2>3. \A b \in Admins : sop'[b].pc # "idle" => b = a /\ sop'[b] = s
    BY <1>1, <2>1 DEF Busy, MailInv, MailTypeOK
  <2>4. ReadSoFar => ReadSoFar'
    BY <1>1 DEF ReadSoFar
  <2>5. a \in Admins /\ sop'[a].pc # "idle"
    BY <1>1 DEF MailInv, MailTypeOK
  <2> QED BY <1>1, <2>1, <2>2, <2>3, <2>4, <2>5 DEF Settled, Busy, HalfWritten, HalfDone
<1> QED BY <1>2, <1>3 DEF MailInv

(* A step that writes: the worker's reads are torn, and the admin's request  *)
(* leaves the settings either half written or as the finished one wants them.*)
LEMMA SaveWrites ==
  ASSUME MailInv, NEW a \in Admins, NEW s \in SaveType, Busy(a),
         sop' = [sop EXCEPT ![a] = s], SaveShape(s),
         smtp' \in SmtpType, want' \in SmtpType,
         wrk' = Wrote, UNCHANGED <<queue, enqueued, loose, saves>>,
         ~loose => IF s.pc = "idle" THEN smtp' = want' ELSE HalfDone(s, smtp', want')
  PROVE  MailInv'
<1>1. MailTypeOK' /\ \A b \in Admins : SaveShape(sop'[b])
  BY WroteType DEF MailInv, MailTypeOK
<1>2. ASSUME ~loose
      PROVE  Settled'
  <2>1. \A b \in Admins \ {a} : ~Busy(b) /\ sop'[b] = sop[b]
    BY <1>2 DEF MailInv, MailTypeOK, Settled
  <2>2. sop'[a] = s
    BY DEF MailInv, MailTypeOK
  <2>3. wrk'.pc # "poll" => wrk'.torn
    BY WroteType DEF MailInv, MailTypeOK
  <2>4. \A b \in Admins : sop'[b].pc # "idle" => b = a
    BY <2>1 DEF Busy
  <2> QED BY <1>2, <2>2, <2>3, <2>4 DEF Settled, Busy, HalfWritten
<1> QED BY <1>1, <1>2 DEF MailInv

LEMMA SavesKeep ==
  ASSUME MailInv, NEW a \in Admins,
         \/ \E password \in BOOLEAN : SMTPConfigure(a, password)
         \/ \E k \in SmtpKeys : SaveKey(a, k)
         \/ SaveEnd(a) \/ SMTPDelete(a) \/ DeleteKey(a) \/ CancelSave(a)
  PROVE  MailInv'
<1>1. /\ sop \in [Admins -> SaveType] /\ smtp \in SmtpType /\ want \in SmtpType /\ saves \in Nat
      /\ SaveShape(sop[a]) /\ sop[a] \in SaveType
  BY DEF MailInv, MailTypeOK
<1>2. ~loose /\ Busy(a) => HalfWritten(sop[a])
  BY DEF MailInv, Settled
<1>3. ASSUME NEW password \in BOOLEAN, SMTPConfigure(a, password)
      PROVE  MailInv'
  <2> DEFINE keys == {"host", "port", "mode"} \cup (IF password THEN {"password"} ELSE {})
             s == [pc |-> "save", keys |-> keys, todo |-> keys, id |-> saves + 1]
  <2>1. keys \subseteq SmtpKeys /\ "legacy" \notin keys
    BY DEF SmtpKeys
  <2>2. BeginSave(a, s)
    BY <1>3 DEF SMTPConfigure
  <2> HIDE DEF keys
  <2>3. s \in SaveType /\ SaveShape(s) /\ s.pc # "idle" /\ s.todo = s.keys
    BY <1>1, <2>1 DEF SaveType, SaveShape
  <2> HIDE DEF s
  <2> QED BY <2>2, <2>3, SaveBegins
<1>4. CASE SMTPDelete(a)
  <2> DEFINE s == [pc |-> "delete", keys |-> SmtpKeys, todo |-> SmtpKeys, id |-> saves + 1]
  <2>1. s \in SaveType /\ SaveShape(s) /\ s.pc # "idle" /\ s.todo = s.keys
    BY <1>1, DeleteStands DEF SaveType, SaveShape
  <2>2. BeginSave(a, s)
    BY <1>4 DEF SMTPDelete
  <2> HIDE DEF s
  <2> QED BY <2>1, <2>2, SaveBegins
<1>5. ASSUME NEW k \in SmtpKeys, SaveKey(a, k)
      PROVE  MailInv'
  <2> DEFINE s == [sop[a] EXCEPT !.todo = @ \ {k}]
  <2>1. /\ sop' = [sop EXCEPT ![a] = s] /\ smtp' = [smtp EXCEPT ![k] = sop[a].id]
        /\ wrk' = Wrote /\ UNCHANGED <<queue, enqueued, sent, want, loose, saves>>
        /\ sop[a].pc = "save" /\ k \in sop[a].todo
    BY <1>1, <1>5 DEF SaveKey, SaveType
  <2>2. /\ s \in SaveType /\ s.pc = "save" /\ s.keys = sop[a].keys /\ s.id = sop[a].id
        /\ s.todo = sop[a].todo \ {k}
    BY <1>1, <2>1 DEF SaveType
  <2> HIDE DEF s
  <2>3. SaveShape(s) /\ k \in sop[a].keys /\ Busy(a) /\ sop[a].id \in Nat
    BY <1>1, <2>1, <2>2 DEF SaveShape, Busy, SaveType
  <2>4. smtp' \in SmtpType /\ want' \in SmtpType
    BY <1>1, <2>1, <2>3 DEF SmtpType
  <2>5. ASSUME ~loose
        PROVE  HalfDone(s, smtp', want')
    <3> SUFFICES ASSUME NEW j \in SmtpKeys
                 PROVE  smtp'[j] = IF j \in s.keys \ s.todo THEN s.id ELSE want[j]
      BY <2>1, <2>2 DEF HalfDone
    <3>1. smtp[j] = IF j \in sop[a].keys \ sop[a].todo THEN sop[a].id ELSE want[j]
      BY <1>2, <2>1, <2>3, <2>5 DEF HalfWritten, HalfDone
    <3> QED BY <1>1, <2>1, <2>2, <2>3, <3>1 DEF SmtpType
  <2> QED BY <2>1, <2>2, <2>3, <2>4, <2>5, SaveWrites
<1>6. CASE SaveEnd(a)
  <2>1. /\ sop' = [sop EXCEPT ![a] = NoSave] /\ smtp' = [smtp EXCEPT !["legacy"] = 0]
        /\ want' = [k \in SmtpKeys |-> IF k \in sop[a].keys THEN sop[a].id
                                       ELSE IF k = "legacy" THEN 0 ELSE want[k]]
        /\ wrk' = Wrote /\ UNCHANGED <<queue, enqueued, sent, loose, saves>>
        /\ sop[a].pc = "save" /\ sop[a].todo = {}
    BY <1>6 DEF SaveEnd
  <2>2. Busy(a) /\ "legacy" \notin sop[a].keys /\ sop[a].id \in Nat
    BY <1>1, <2>1 DEF Busy, SaveShape, SaveType
  <2>3. smtp' \in SmtpType /\ want' \in SmtpType
    BY <1>1, <2>1, <2>2 DEF SmtpType
  <2>4. ASSUME ~loose
        PROVE  smtp' = want'
    <3>1. \A k \in SmtpKeys : smtp[k] = IF k \in sop[a].keys THEN sop[a].id ELSE want[k]
      BY <1>2, <2>1, <2>2, <2>4 DEF HalfWritten, HalfDone
    <3>2. \A k \in SmtpKeys : smtp'[k] = want'[k]
      BY <1>1, <2>1, <2>2, <3>1 DEF SmtpType
    <3> QED BY <2>3, <3>2 DEF SmtpType
  <2> QED BY <2>1, <2>2, <2>3, <2>4, NoSaveType, SaveWrites
<1>7. CASE DeleteKey(a)
  <2>0. sop[a].pc = "delete" /\ Busy(a) /\ sop[a].keys = SmtpKeys
    BY <1>1, <1>7 DEF DeleteKey, SaveShape, Busy
  <2>1. PICK n \in 1 .. 5 : sop[a].todo = Rest(n)
    BY <1>1, <2>0 DEF SaveShape
  <2> DEFINE k == deleteOrder[n]
             s == [sop[a] EXCEPT !.todo = @ \ {k}]
  <2>2. /\ smtp' = [smtp EXCEPT ![k] = 0] /\ wrk' = Wrote
        /\ UNCHANGED <<queue, enqueued, sent, loose, saves>>
        /\ IF n = 5 THEN sop' = [sop EXCEPT ![a] = NoSave] /\ want' = Empty
                    ELSE sop' = [sop EXCEPT ![a].todo = @ \ {k}] /\ want' = want
    <3> DEFINE m == Erased(sop[a].todo) + 1
    <3>1. /\ smtp' = [smtp EXCEPT ![deleteOrder[m]] = 0] /\ wrk' = Wrote
          /\ UNCHANGED <<queue, enqueued, sent, loose, saves>>
          /\ IF m = Len(deleteOrder)
               THEN sop' = [sop EXCEPT ![a] = NoSave] /\ want' = Empty
               ELSE sop' = [sop EXCEPT ![a].todo = @ \ {deleteOrder[m]}] /\ want' = want
      BY <1>7 DEF DeleteKey, Erased
    <3>2. m = n /\ Len(deleteOrder) = 5
      BY <2>1, DeleteStands
    <3> HIDE DEF m
    <3> QED BY <3>1, <3>2
  <2>3. k \in SmtpKeys /\ k \in sop[a].todo
    BY <2>1, DeleteStands
  <2>4. smtp' \in SmtpType
    BY <1>1, <2>2, <2>3 DEF SmtpType
  <2>5. ASSUME ~loose
        PROVE  \A j \in SmtpKeys : smtp'[j] = IF j \in SmtpKeys \ (sop[a].todo \ {k}) THEN 0 ELSE want[j]
    <3>1. \A j \in SmtpKeys : smtp[j] = IF j \in SmtpKeys \ sop[a].todo THEN 0 ELSE want[j]
      BY <1>2, <2>0, <2>5 DEF HalfWritten, HalfDone
    <3> QED BY <1>1, <2>2, <2>3, <3>1 DEF SmtpType
  <2>6. CASE n = 5
    <3>1. Empty \in SmtpType
      BY DEF Empty, SmtpType
    <3>2. ~loose => smtp' = Empty
      <4>1. sop[a].todo \ {k} = {}
        BY <2>1, <2>6, DeleteStands
      <4>2. ~loose => \A j \in SmtpKeys : smtp'[j] = Empty[j]
        BY <2>5, <4>1 DEF Empty
      <4> QED BY <2>4, <3>1, <4>2 DEF SmtpType
    <3> HIDE DEF k
    <3> QED BY <2>0, <2>2, <2>4, <2>6, <3>1, <3>2, NoSaveType, SaveWrites
  <2>7. CASE n # 5
    <3>1. /\ s \in SaveType /\ s.pc = "delete" /\ s.keys = SmtpKeys /\ s.todo = sop[a].todo \ {k}
          /\ sop' = [sop EXCEPT ![a] = s]
      BY <1>1, <2>0, <2>2, <2>7 DEF SaveType
    <3>2. s.todo = Rest(n + 1) /\ n + 1 \in 1 .. 5
      BY <2>1, <2>7, <3>1, DeleteStands
    <3> HIDE DEF k, s
    <3>3. SaveShape(s)
      BY <3>1, <3>2 DEF SaveShape
    <3>4. ~loose => HalfDone(s, smtp', want')
      BY <2>5, <2>2, <2>7, <3>1 DEF HalfDone
    <3> QED BY <1>1, <2>0, <2>2, <2>4, <2>7, <3>1, <3>3, <3>4, SaveWrites
  <2> QED BY <2>6, <2>7
<1>8. CASE CancelSave(a)
  <2>1. /\ sop' = [sop EXCEPT ![a] = NoSave] /\ loose' = TRUE
        /\ UNCHANGED <<queue, wrk, smtp, enqueued, sent, want, saves>>
    BY <1>8 DEF CancelSave
  <2> QED BY <2>1, NoSaveType DEF MailInv, MailTypeOK
<1> QED BY <1>3, <1>4, <1>5, <1>6, <1>7, <1>8

(* The process dies: the message in the worker's hands is lost, and a save   *)
(* that was under way is cut short.                                          *)
LEMMA MailSurvives ==
  ASSUME MailInv, MailCrash
  PROVE  MailInv'
<1>1. /\ wrk' = Polling /\ sop' = [a \in Admins |-> NoSave]
      /\ loose' = (loose \/ \E a \in Admins : sop[a] # NoSave)
      /\ UNCHANGED <<queue, smtp, enqueued, sent, want, saves>>
  BY DEF MailCrash
<1>2. MailTypeOK' /\ \A a \in Admins : SaveShape(sop'[a]) /\ ~Busy(a)'
  BY <1>1, NoSaveType, PollingType DEF MailInv, MailTypeOK, Busy
<1>3. ~loose' => Settled'
  BY <1>1, <1>2, NoSaveType, PollingType DEF MailInv, Settled, Busy
<1> QED BY <1>2, <1>3 DEF MailInv

LEMMA MailKeeps ==
  ASSUME MailInv, [MailNext]_mailVars
  PROVE  MailInv'
<1>1. CASE UNCHANGED mailVars
  BY <1>1 DEF mailVars, MailInv, MailTypeOK, Settled, Busy, SaveShape, HalfWritten, HalfDone, ReadSoFar
<1>2. CASE Enqueue
  <2>1. UNCHANGED <<smtp, sop, wrk, sent, want, loose, saves>> /\ MailTypeOK'
    BY <1>2 DEF Enqueue, MailInv, MailTypeOK
  <2> QED BY <2>1 DEF MailInv, Settled, Busy, HalfWritten, HalfDone, ReadSoFar
<1> QED BY <1>1, <1>2, WorkerKeeps, SavesKeep DEF MailNext

(* For any number of messages, saves, deletions, admins and crashes: what    *)
(* ResolveSMTPConfig reads key by key is one configuration, the one that the *)
(* last SMTPConfigureHandler or SMTPDeleteHandler left, if no key was written *)
(* between its reads and no save or deletion was cut off or overlapped.      *)
THEOREM AlwaysSendsAsConfigured == Spec => []SendsAsConfigured
<1>1. Init => MailInv
  BY MailStart DEF Init
<1>2. ASSUME MailInv, [Next]_vars
      PROVE  MailInv'
  <2>1. CASE UNCHANGED mailVars
    BY <1>2, <2>1, MailKeeps
  <2>2. CASE MailNext
    BY <1>2, <2>2, MailKeeps
  <2>3. CASE Crash
    BY <1>2, <2>3, MailSurvives DEF Crash
  <2> QED BY <1>2, <2>1, <2>2, <2>3 DEF Next, Step, Restart, vars
<1>3. MailInv => SendsAsConfigured
  BY DEF MailInv, Settled, ReadSoFar, SendsAsConfigured, SmtpKeys
<1> QED BY <1>1, <1>2, <1>3, PTL DEF Spec

-----------------------------------------------------------------------------
(* The rate limiter *)

HitType == [pc : {"idle", "max", "publish"}, n : Nat, window : Nat]

LimiterTypeOK ==
  /\ count \in Nat /\ max \in Nat \ {0} /\ window \in Nat \ {0}
  /\ passed \in Nat /\ uncounted \in Nat /\ toasts \in Nat
  /\ moved \in BOOLEAN /\ misread \in BOOLEAN /\ lost \in BOOLEAN
  /\ hit \in [Hits -> HitType]

Current(h) == hit[h].window = window

(* The counts within the limit that have not let a request through: they     *)
(* were not given out, or their request has not compared them yet.           *)
Ahead == {n \in 1 .. max : n > count \/ \E h \in Hits : hit[h].pc = "max" /\ Current(h) /\ hit[h].n = n}

(* Every count of the window went to one request; the one above the limit is *)
(* with a request under way, or it was announced, or its announcement is lost. *)
OneTrip ==
  /\ \A h \in Hits : Current(h) => hit[h].n \in 1 .. count
  /\ \A g, h \in Hits : Current(g) /\ Current(h) /\ hit[g].n = hit[h].n => g = h
  /\ \A h \in Hits : Current(h) /\ hit[h].pc = "publish" => hit[h].n = max + 1
  /\ toasts = 0 \/ toasts = 1
  /\ toasts = 1 => count > max /\ \A h \in Hits : Current(h) => hit[h].n # max + 1
  /\ toasts = 0 /\ count > max /\ ~lost => \E h \in Hits : Current(h) /\ hit[h].n = max + 1
  /\ passed + Cardinality(Ahead) <= max + uncounted

LimiterInv ==
  /\ LimiterTypeOK
  /\ \A h \in Hits : hit[h].window <= window /\ (hit[h].pc = "idle" => hit[h] = NoHit)
  /\ ~moved /\ ~misread => OneTrip

LEMMA NoHitType == NoHit \in HitType /\ NoHit.pc = "idle" /\ NoHit.window = 0
BY DEF NoHit, HitType

LEMMA AheadIsFinite ==
  ASSUME LimiterTypeOK
  PROVE  IsFiniteSet(Ahead) /\ Cardinality(Ahead) \in Nat /\ Cardinality(Ahead) <= max
<1>1. IsFiniteSet(1 .. max) /\ Cardinality(1 .. max) = max
  BY FS_Interval DEF LimiterTypeOK
<1>2. Ahead \subseteq 1 .. max
  BY DEF Ahead
<1> QED BY <1>1, <1>2, FS_Subset, FS_CardinalityType

(* A window in which nothing was counted yet.                                *)
LEMMA FreshWindow ==
  ASSUME LimiterTypeOK, count = 0, passed = 0, toasts = 0,
         \A h \in Hits : ~Current(h)
  PROVE  OneTrip
<1>1. Cardinality(Ahead) <= max /\ Cardinality(Ahead) \in Nat
  BY AheadIsFinite
<1> QED BY <1>1 DEF OneTrip, LimiterTypeOK

LEMMA LimiterStart ==
  ASSUME LimiterInit
  PROVE  LimiterInv
<1>1. LimiterTypeOK
  <2>1. DefaultLimit \in Nat \ {0}
    BY LimiterAssumption
  <2>2. hit \in [Hits -> HitType]
    BY NoHitType DEF LimiterInit
  <2>3. moved \in BOOLEAN /\ misread \in BOOLEAN /\ lost \in BOOLEAN
    BY Zenon DEF LimiterInit
  <2>4. count = 0 /\ max = DefaultLimit /\ window = 1 /\ passed = 0 /\ uncounted = 0 /\ toasts = 0
    BY DEF LimiterInit
  <2> QED BY <2>1, <2>2, <2>3, <2>4 DEF LimiterTypeOK
<1>2. \A h \in Hits : hit[h] = NoHit /\ ~Current(h)
  BY NoHitType DEF LimiterInit, Current
<1>3. OneTrip
  BY <1>1, <1>2, FreshWindow DEF LimiterInit
<1> QED BY <1>1, <1>2, <1>3, NoHitType DEF LimiterInv, LimiterTypeOK

LEMMA IncrKeeps ==
  ASSUME LimiterInv, NEW h \in Hits, IncrExpire(h)
  PROVE  LimiterInv'
<1> DEFINE s == [pc |-> "max", n |-> count + 1, window |-> window]
<1>1. LimiterTypeOK
  BY DEF LimiterInv
<1>2. s \in HitType /\ s.pc = "max" /\ s.n = count + 1 /\ s.window = window
  <2>1. count + 1 \in Nat /\ window \in Nat
    BY <1>1 DEF LimiterTypeOK
  <2> QED BY <2>1 DEF HitType
<1>3. /\ hit[h] = NoHit /\ count' = count + 1 /\ hit' = [hit EXCEPT ![h] = s]
      /\ UNCHANGED <<max, window, passed, uncounted, toasts, moved, misread, lost>>
  BY DEF IncrExpire
<1> HIDE DEF s
<1>4. hit'[h] = s /\ \A g \in Hits \ {h} : hit'[g] = hit[g]
  BY <1>1, <1>3 DEF LimiterTypeOK
<1>5. LimiterTypeOK'
  BY <1>1, <1>2, <1>3 DEF LimiterTypeOK
<1>6. \A g \in Hits : hit'[g].window <= window' /\ (hit'[g].pc = "idle" => hit'[g] = NoHit)
  BY <1>1, <1>2, <1>3, <1>4 DEF LimiterInv, LimiterTypeOK
<1>7. ASSUME OneTrip
      PROVE  OneTrip'
  <2>1. Ahead' = Ahead
    <3>1. ~Current(h) /\ hit[h].pc # "max"
      BY <1>1, <1>3, NoHitType DEF Current, LimiterTypeOK
    <3> QED BY <1>1, <1>2, <1>3, <1>4, <3>1 DEF Ahead, Current, LimiterTypeOK
  <2>2. \A g \in Hits : Current(g)' => g = h \/ (Current(g) /\ hit'[g] = hit[g])
    BY <1>3, <1>4 DEF Current
  <2>3. Current(h)' /\ hit'[h].n = count + 1 /\ hit'[h].pc = "max"
    BY <1>2, <1>3, <1>4 DEF Current
  <2>4. \A g \in Hits : Current(g) => g # h /\ Current(g)'
    BY <1>1, <1>3, <1>4, NoHitType DEF Current, LimiterTypeOK
  <2>5. \A g \in Hits : Current(g)' => hit'[g].n \in 1 .. count'
    BY <1>1, <1>3, <1>7, <2>2, <2>3 DEF OneTrip, LimiterTypeOK
  <2>6. \A f, g \in Hits : Current(f)' /\ Current(g)' /\ hit'[f].n = hit'[g].n => f = g
    BY <1>1, <1>7, <2>2, <2>3 DEF OneTrip, LimiterTypeOK
  <2>7. \A g \in Hits : Current(g)' /\ hit'[g].pc = "publish" => hit'[g].n = max + 1
    BY <1>7, <2>2, <2>3 DEF OneTrip
  <2>8. toasts = 1 => count' > max /\ \A g \in Hits : Current(g)' => hit'[g].n # max + 1
    BY <1>1, <1>3, <1>7, <2>2, <2>3 DEF OneTrip, LimiterTypeOK
  <2>9. toasts = 0 /\ count' > max /\ ~lost => \E g \in Hits : Current(g)' /\ hit'[g].n = max + 1
    <3>1. CASE count > max
      BY <1>4, <1>7, <2>4, <3>1 DEF OneTrip
    <3>2. CASE count = max
      BY <2>3, <3>2
    <3> QED BY <1>1, <1>3, <3>1, <3>2 DEF LimiterTypeOK
  <2> QED BY <1>3, <1>7, <2>1, <2>5, <2>6, <2>7, <2>8, <2>9 DEF OneTrip
<1> QED BY <1>3, <1>5, <1>6, <1>7 DEF LimiterInv

(* A request that goes on, or ends, without being let through: it keeps its  *)
(* count and its window as long as it is under way.                          *)
LEMMA CompareKeeps ==
  ASSUME LimiterInv, NEW h \in Hits, Compare(h)
  PROVE  LimiterInv'
<1>0. PICK limit \in {max, DefaultLimit} :
        /\ hit' = [hit EXCEPT ![h] = IF Trips(hit[h].n, limit) THEN [@ EXCEPT !.pc = "publish"]
                                     ELSE NoHit]
        /\ passed' = IF hit[h].n <= limit /\ hit[h].window = window THEN passed + 1 ELSE passed
        /\ misread' = (misread \/ (limit # max /\ hit[h].window = window))
  BY DEF Compare, SeenMax
<1> DEFINE s == IF Trips(hit[h].n, limit) THEN [hit[h] EXCEPT !.pc = "publish"] ELSE NoHit
           through == hit[h].n <= limit /\ hit[h].window = window
<1>1. LimiterTypeOK /\ hit[h] \in HitType
  BY DEF LimiterInv, LimiterTypeOK
<1>2. /\ hit[h].pc = "max" /\ hit' = [hit EXCEPT ![h] = s]
      /\ passed' = IF through THEN passed + 1 ELSE passed
      /\ UNCHANGED <<count, max, window, uncounted, toasts, moved, lost>>
  BY <1>0, <1>1 DEF Compare, LimiterTypeOK
<1>8. misread' \in BOOLEAN /\ (~misread' => ~misread /\ (Current(h) => limit = max))
  BY <1>0, Zenon DEF Current
<1>3. /\ s \in HitType
      /\ s = NoHit \/ (s.pc = "publish" /\ s.n = hit[h].n /\ s.window = hit[h].window
                       /\ Trips(hit[h].n, limit))
      /\ Trips(hit[h].n, limit) => s # NoHit
  BY <1>1, NoHitType DEF HitType
<1> HIDE DEF s
<1>4. hit'[h] = s /\ \A g \in Hits \ {h} : hit'[g] = hit[g]
  BY <1>1, <1>2 DEF LimiterTypeOK
<1>5. LimiterTypeOK'
  BY <1>1, <1>2, <1>3, <1>8 DEF LimiterTypeOK
<1>6. \A g \in Hits : hit'[g].window <= window' /\ (hit'[g].pc = "idle" => hit'[g] = NoHit)
  BY <1>1, <1>2, <1>3, <1>4, NoHitType DEF LimiterInv, LimiterTypeOK
<1>7. ASSUME OneTrip, Current(h) => limit = max
      PROVE  OneTrip'
  <2>1. \A g \in Hits : Current(g)' => Current(g) /\ hit'[g].n = hit[g].n
                                       /\ (g # h => hit'[g] = hit[g])
    BY <1>1, <1>2, <1>3, <1>4, NoHitType DEF Current, LimiterTypeOK
  <2>2. Current(h) => limit = max /\ hit[h].n \in 1 .. count
    BY <1>7 DEF OneTrip
  <2>3. \A g \in Hits : Current(g)' => hit'[g].n \in 1 .. count'
    BY <1>2, <1>7, <2>1 DEF OneTrip
  <2>4. \A f, g \in Hits : Current(f)' /\ Current(g)' /\ hit'[f].n = hit'[g].n => f = g
    BY <1>7, <2>1 DEF OneTrip
  <2>5. \A g \in Hits : Current(g)' /\ hit'[g].pc = "publish" => hit'[g].n = max + 1
    BY <1>3, <1>4, <1>7, <2>1, <2>2, NoHitType DEF OneTrip, Trips
  <2>6. toasts = 1 => count' > max /\ \A g \in Hits : Current(g)' => hit'[g].n # max + 1
    BY <1>2, <1>7, <2>1 DEF OneTrip
  <2>7. toasts = 0 /\ count' > max /\ ~lost => \E g \in Hits : Current(g)' /\ hit'[g].n = max + 1
    <3> SUFFICES ASSUME toasts = 0, count > max, ~lost
                 PROVE  \E g \in Hits : Current(g)' /\ hit'[g].n = max + 1
      BY <1>2
    <3>1. PICK g \in Hits : Current(g) /\ hit[g].n = max + 1
      BY <1>7 DEF OneTrip
    <3>2. CASE g # h
      BY <1>2, <1>4, <3>1, <3>2 DEF Current
    <3>3. CASE g = h
      <4>1. Trips(hit[h].n, limit)
        BY <2>2, <3>1, <3>3 DEF Trips
      <4>2. s.n = max + 1 /\ s.window = window
        BY <1>3, <3>1, <3>3, <4>1 DEF Current
      <4> QED BY <1>2, <1>4, <4>2 DEF Current
    <3> QED BY <3>2, <3>3
  <2>8. passed' + Cardinality(Ahead') <= max + uncounted
    <3>1. Ahead' \subseteq Ahead
      BY <1>1, <1>2, <1>3, <1>4, NoHitType DEF Ahead, Current
    <3>2. IsFiniteSet(Ahead) /\ Cardinality(Ahead) \in Nat /\ IsFiniteSet(Ahead') /\ Cardinality(Ahead') \in Nat
          /\ Cardinality(Ahead') <= Cardinality(Ahead)
      BY <1>1, <3>1, AheadIsFinite, FS_Subset, FS_CardinalityType
    <3>3. CASE ~through
      BY <1>1, <1>2, <1>7, <3>2, <3>3 DEF OneTrip, LimiterTypeOK
    <3>4. CASE through
      <4> DEFINE n == hit[h].n
      <4>1. Current(h) /\ n \in 1 .. max /\ n <= count
        BY <1>1, <2>2, <3>4 DEF Current, LimiterTypeOK
      <4>2. n \in Ahead
        BY <1>2, <4>1 DEF Ahead
      <4>3. n \notin Ahead'
        <5> SUFFICES ASSUME NEW g \in Hits, hit'[g].pc = "max", Current(g)', hit'[g].n = n
                     PROVE  FALSE
          BY <1>1, <1>2, <4>1 DEF Ahead, LimiterTypeOK
        <5>1. g = h
          BY <1>7, <2>1, <4>1 DEF OneTrip
        <5> QED BY <1>3, <1>4, <5>1, NoHitType
      <4> HIDE DEF n
      <4>4. Ahead' \subseteq Ahead \ {n} /\ IsFiniteSet(Ahead \ {n})
            /\ Cardinality(Ahead \ {n}) = Cardinality(Ahead) - 1
        BY <3>1, <3>2, <4>2, <4>3, FS_RemoveElement
      <4>5. Cardinality(Ahead') <= Cardinality(Ahead) - 1
        BY <4>4, FS_Subset
      <4> QED BY <1>1, <1>2, <1>7, <3>2, <3>4, <4>5 DEF OneTrip, LimiterTypeOK
    <3> QED BY <3>3, <3>4
  <2> QED BY <1>2, <1>7, <2>3, <2>4, <2>5, <2>6, <2>7, <2>8 DEF OneTrip
<1> QED BY <1>2, <1>5, <1>6, <1>7, <1>8 DEF LimiterInv

LEMMA AnnounceKeeps ==
  ASSUME LimiterInv, NEW h \in Hits, Announce(h)
  PROVE  LimiterInv'
<1>1. LimiterTypeOK /\ hit[h] \in HitType
  BY DEF LimiterInv, LimiterTypeOK
<1>2. /\ hit[h].pc = "publish" /\ hit' = [hit EXCEPT ![h] = NoHit]
      /\ UNCHANGED <<count, max, window, passed, uncounted, moved, misread>>
      /\ ~Current(h) => UNCHANGED <<toasts, lost>>
      /\ Current(h) => \/ toasts' = toasts + 1 /\ UNCHANGED lost
                       \/ lost' = TRUE /\ UNCHANGED toasts
  BY DEF Announce, Current
<1>3. hit'[h] = NoHit /\ \A g \in Hits \ {h} : hit'[g] = hit[g]
  BY <1>1, <1>2 DEF LimiterTypeOK
<1>4. LimiterTypeOK'
  <2>1. toasts' \in Nat
    BY <1>1, <1>2 DEF LimiterTypeOK
  <2>3. lost' \in BOOLEAN
    <3>1. lost \in BOOLEAN
      BY <1>1 DEF LimiterTypeOK
    <3>2. lost' = lost \/ lost' = TRUE
      BY <1>2, Zenon
    <3> QED BY <3>1, <3>2, Zenon
  <2>2. hit' \in [Hits -> HitType]
    BY <1>1, <1>2, NoHitType DEF LimiterTypeOK
  <2> QED BY <1>1, <1>2, <2>1, <2>2, <2>3 DEF LimiterTypeOK
<1>5. \A g \in Hits : hit'[g].window <= window' /\ (hit'[g].pc = "idle" => hit'[g] = NoHit)
  BY <1>1, <1>2, <1>3, NoHitType DEF LimiterInv, LimiterTypeOK
<1>6. ASSUME OneTrip
      PROVE  OneTrip'
  <2>1. \A g \in Hits : Current(g)' <=> Current(g) /\ g # h
    BY <1>1, <1>2, <1>3, NoHitType DEF Current, LimiterTypeOK
  <2>2. Ahead' = Ahead
    BY <1>2, <1>3, NoHitType DEF Ahead, Current
  <2>3. CASE Current(h) /\ toasts' = toasts + 1 /\ UNCHANGED lost
    <3>1. hit[h].n = max + 1
      BY <1>2, <1>6, <2>3 DEF OneTrip
    <3>2. toasts = 0 /\ count > max
      BY <1>1, <1>6, <2>3, <3>1 DEF OneTrip, LimiterTypeOK
    <3>3. \A g \in Hits : Current(g)' => hit'[g].n # max + 1
      BY <1>3, <1>6, <2>1, <2>3, <3>1 DEF OneTrip
    <3> QED BY <1>2, <1>3, <1>6, <2>1, <2>2, <2>3, <3>1, <3>2, <3>3 DEF OneTrip
  <2>4. CASE lost' = TRUE /\ UNCHANGED toasts
    BY <1>2, <1>3, <1>6, <2>1, <2>2, <2>4 DEF OneTrip
  <2>5. CASE ~Current(h)
    BY <1>2, <1>3, <1>6, <2>1, <2>2, <2>5 DEF OneTrip
  <2> QED BY <1>2, <2>3, <2>4, <2>5
<1> QED BY <1>2, <1>4, <1>5, <1>6 DEF LimiterInv

(* A request that was not counted may take its count with it: then there is  *)
(* one count less that can let somebody through.                             *)
LEMMA FailOpenKeeps ==
  ASSUME LimiterInv, FailOpen
  PROVE  LimiterInv'
<1>1. LimiterTypeOK
  BY DEF LimiterInv
<1>2. /\ passed' = passed + 1 /\ uncounted' = uncounted + 1
      /\ UNCHANGED <<max, hit, window, toasts, moved, misread>>
      /\ \/ UNCHANGED <<count, lost>>
         \/ count' = count + 1 /\ lost' = (lost \/ count = max)
  BY DEF FailOpen
<1>3. LimiterTypeOK'
  <2>1. lost' \in BOOLEAN
    BY <1>1, <1>2, Zenon DEF LimiterTypeOK
  <2>2. count' \in Nat
    BY <1>1, <1>2 DEF LimiterTypeOK
  <2> QED BY <1>1, <1>2, <2>1, <2>2 DEF LimiterTypeOK
<1>4. count' >= count /\ (~lost' => ~lost /\ (count' > max => count > max))
  <2>1. CASE UNCHANGED <<count, lost>>
    BY <1>1, <2>1 DEF LimiterTypeOK
  <2>2. CASE count' = count + 1 /\ lost' = (lost \/ count = max)
    <3>1. ~lost' => ~lost /\ count # max
      BY <2>2, Zenon
    <3> QED BY <1>1, <2>2, <3>1 DEF LimiterTypeOK
  <2> QED BY <1>2, <2>1, <2>2
<1>5. \A g \in Hits : Current(g)' <=> Current(g)
  BY <1>2 DEF Current
<1>6. ASSUME OneTrip
      PROVE  OneTrip'
  <2>1. Ahead' \subseteq Ahead
    BY <1>1, <1>2, <1>3, <1>4, <1>5 DEF Ahead, LimiterTypeOK
  <2>2. IsFiniteSet(Ahead) /\ Cardinality(Ahead) \in Nat /\ Cardinality(Ahead') \in Nat
        /\ Cardinality(Ahead') <= Cardinality(Ahead)
    BY <1>1, <2>1, AheadIsFinite, FS_Subset, FS_CardinalityType
  <2>3. passed' + Cardinality(Ahead') <= max + uncounted'
    BY <1>1, <1>2, <1>6, <2>2 DEF OneTrip, LimiterTypeOK
  <2>4. \A g \in Hits : Current(g)' => hit'[g].n \in 1 .. count'
    BY <1>1, <1>2, <1>3, <1>4, <1>5, <1>6 DEF OneTrip, LimiterTypeOK
  <2>5. toasts' = 1 => count' > max' /\ \A g \in Hits : Current(g)' => hit'[g].n # max' + 1
    BY <1>1, <1>2, <1>3, <1>4, <1>5, <1>6 DEF OneTrip, LimiterTypeOK
  <2>6. toasts' = 0 /\ count' > max' /\ ~lost' => \E g \in Hits : Current(g)' /\ hit'[g].n = max' + 1
    BY <1>2, <1>4, <1>5, <1>6 DEF OneTrip
  <2> QED BY <1>2, <1>5, <1>6, <2>3, <2>4, <2>5, <2>6 DEF OneTrip
<1> QED BY <1>2, <1>3, <1>6 DEF LimiterInv

LEMMA LimiterKeeps ==
  ASSUME LimiterInv, [LimiterNext]_limiterVars
  PROVE  LimiterInv'
<1>1. CASE UNCHANGED limiterVars
  BY <1>1 DEF limiterVars, LimiterInv, LimiterTypeOK, OneTrip, Ahead, Current
<1>2. CASE WindowEnds
  <2>1. count' = 0 /\ window' = window + 1 /\ passed' = 0 /\ uncounted' = 0 /\ toasts' = 0
        /\ moved' = FALSE /\ misread' = FALSE /\ lost' = FALSE
        /\ UNCHANGED <<max, hit>>
    BY <1>2 DEF WindowEnds
  <2>2. LimiterTypeOK' /\ (\A h \in Hits : hit'[h].window <= window') /\ \A h \in Hits : ~Current(h)'
    <3>1. \A h \in Hits : hit[h].window <= window /\ hit[h].window \in Nat
      BY DEF LimiterInv, LimiterTypeOK, HitType
    <3>2. LimiterTypeOK'
      <4>1. moved' \in BOOLEAN /\ misread' \in BOOLEAN /\ lost' \in BOOLEAN
        BY <2>1, Zenon
      <4>2. /\ count' \in Nat /\ window' \in Nat \ {0} /\ passed' \in Nat /\ uncounted' \in Nat /\ toasts' \in Nat
            /\ max' \in Nat \ {0} /\ hit' \in [Hits -> HitType]
        BY <2>1 DEF LimiterInv, LimiterTypeOK
      <4> QED BY <4>1, <4>2 DEF LimiterTypeOK
    <3>3. window \in Nat
      BY DEF LimiterInv, LimiterTypeOK
    <3> QED BY <2>1, <3>1, <3>2, <3>3 DEF Current
  <2>3. OneTrip'
    <3>1. Cardinality(Ahead') <= max' /\ Cardinality(Ahead') \in Nat
      <4>1. IsFiniteSet(1 .. max') /\ Cardinality(1 .. max') = max'
        BY <2>2, FS_Interval DEF LimiterTypeOK
      <4>2. Ahead' \subseteq 1 .. max'
        BY DEF Ahead
      <4> QED BY <4>1, <4>2, FS_Subset, FS_CardinalityType
    <3> QED BY <2>1, <2>2, <3>1 DEF OneTrip, LimiterTypeOK
  <2> QED BY <2>1, <2>2, <2>3 DEF LimiterInv
<1>3. ASSUME NEW m \in Limits, SetLimit(m)
      PROVE  LimiterInv'
  BY <1>3, LimiterAssumption DEF SetLimit, LimiterInv, LimiterTypeOK
<1> QED BY <1>1, <1>2, <1>3, IncrKeeps, FailOpenKeeps, CompareKeeps, AnnounceKeeps DEF LimiterNext

(* The requests under way die unanswered; if one of them tripped the limit,  *)
(* its announcement is lost.                                                 *)
LEMMA LimiterSurvives ==
  ASSUME LimiterInv, Crash
  PROVE  LimiterInv'
<1>1. /\ hit' = [h \in Hits |-> NoHit]
      /\ lost' = (lost \/ \E h \in Hits : hit[h].window = window /\ hit[h].n = max + 1)
      /\ UNCHANGED <<count, max, window, passed, uncounted, toasts, moved, misread>>
  BY DEF Crash
<1>2. \A h \in Hits : hit'[h].window <= window' /\ hit'[h] = NoHit /\ ~Current(h)'
  BY <1>1, NoHitType DEF LimiterInv, LimiterTypeOK, Current
<1>3. /\ lost' \in BOOLEAN
      /\ ~lost' => ~lost /\ \A h \in Hits : ~(Current(h) /\ hit[h].n = max + 1)
  BY <1>1, Zenon DEF Current
<1>4. LimiterTypeOK'
  BY <1>1, <1>3, NoHitType DEF LimiterInv, LimiterTypeOK
<1>5. ASSUME OneTrip
      PROVE  OneTrip'
  <2>1. Ahead' \subseteq Ahead
    BY <1>1, <1>2 DEF Ahead
  <2>2. Cardinality(Ahead) \in Nat /\ Cardinality(Ahead') \in Nat /\ Cardinality(Ahead') <= Cardinality(Ahead)
    BY <2>1, AheadIsFinite, FS_Subset, FS_CardinalityType DEF LimiterInv
  <2>3. passed' + Cardinality(Ahead') <= max' + uncounted'
    BY <1>1, <1>5, <2>2 DEF OneTrip, LimiterInv, LimiterTypeOK
  <2>4. toasts' = 0 /\ count' > max' /\ ~lost' => \E h \in Hits : Current(h)' /\ hit'[h].n = max' + 1
    BY <1>1, <1>3, <1>5 DEF OneTrip
  <2> QED BY <1>1, <1>2, <1>5, <2>3, <2>4 DEF OneTrip
<1> QED BY <1>1, <1>2, <1>4, <1>5 DEF LimiterInv

(* For any number of concurrent requests, limits, failing calls and crashes: *)
(* while the limit is left alone and can be read, rateLimitMiddleware lets   *)
(* at most the limit through in a window, but for those it could not count,  *)
(* and its one request above the limit announces the trip once, unless that  *)
(* message was lost.                                                         *)
THEOREM AlwaysOneToastPerTrip == Spec => []OneToastPerTrip
<1>1. Init => LimiterInv
  BY LimiterStart DEF Init
<1>2. ASSUME LimiterInv, [Next]_vars
      PROVE  LimiterInv'
  <2>1. CASE UNCHANGED limiterVars
    BY <1>2, <2>1, LimiterKeeps
  <2>2. CASE LimiterNext
    BY <1>2, <2>2, LimiterKeeps
  <2>3. CASE Crash
    BY <1>2, <2>3, LimiterSurvives
  <2> QED BY <1>2, <2>1, <2>2, <2>3 DEF Next, Step, Restart, vars
<1>3. ASSUME LimiterInv
      PROVE  OneToastPerTrip
  <2>1. Cardinality(Ahead) \in Nat
    BY <1>3, AheadIsFinite DEF LimiterInv
  <2> QED BY <1>3, <2>1 DEF LimiterInv, OneTrip, OneToastPerTrip, LimiterTypeOK, Current
<1> QED BY <1>1, <1>2, <1>3, PTL DEF Spec

-----------------------------------------------------------------------------
(* The module store *)

SourceRows == [repo : Repos \cup {"official", "community"}, key : PubKeys \cup {"root", "own"}]
CustomRows == [repo : Repos, key : PubKeys]
Entries == [repo : Repos \cup {"official", "community", "none"},
            key : PubKeys \cup {"root", "own", "none"}, version : Nat]

SyncType ==
  [pc : {"idle", "fetch", "upsert", "prune", "delete", "compare", "badge", "auto", "apply"},
   todo : Seq(SourceRows), row : SourceRows, batch : SUBSET ModuleNames, seen : SUBSET ModuleNames,
   failed : SUBSET (Repos \cup {"official", "community"}), customs : Nat \cup {-1},
   stale : SUBSET ModuleNames, at : SUBSET ModuleNames, rows : [ModuleNames -> Nat],
   marks : [ModuleNames -> Nat], updates : SUBSET ModuleNames, entry : Entries,
   auto : BOOLEAN, calm : BOOLEAN, answered : BOOLEAN, want : [ModuleNames -> Entries]]
AdminType == [pc : {"idle", "fetch", "upsert", "list", "delete", "install"}, row : SourceRows,
             todo : SUBSET ModuleNames, entry : Entries]

StoreTypeOK ==
  /\ table \in Seq(CustomRows)
  /\ registry \in [ModuleNames -> Entries]
  /\ installed \in [ModuleNames -> Nat] /\ badge \in [ModuleNames -> Nat]
  /\ sync \in [Syncers -> SyncType] /\ edit \in AdminType

(* A sync that a source answered counts as one that succeeded: of the custom *)
(* sources read, those that failed and those still to come are fewer than    *)
(* all as soon as one has answered.                                          *)
Remaining(r) == Cardinality(r.failed \cap Repos) + Len(r.todo)
FirstTwo(r) ==
  \/ r.todo = <<Official, Community>> /\ r.failed = {} /\ ~r.answered
  \/ r.todo = <<Community>> /\ r.failed \subseteq {"official"} /\ (r.answered => r.failed = {})
  \/ r.todo = << >> /\ r.failed \subseteq {"official", "community"}
     /\ (r.answered => r.failed # {"official", "community"})
Customs(r) ==
  /\ r.todo \in Seq(CustomRows) /\ IsFiniteSet(r.failed) /\ Remaining(r) <= r.customs
  /\ r.answered => \/ "official" \notin r.failed \/ "community" \notin r.failed
                   \/ Remaining(r) < r.customs
Sources(r) == IF r.customs = -1 THEN FirstTwo(r) ELSE Customs(r)

(* What an undisturbed sync has written is still there.                      *)
Upserted(r) ==
  \A n \in ModuleNames :
    IF n \in r.seen THEN registry[n] = r.want[n] /\ r.want[n] # NoEntry ELSE r.want[n] = NoEntry

(* What is still to be deleted is what no source lists.                      *)
Pruning(r) ==
  /\ \A n \in r.stale \cup r.at : r.want[n] = NoEntry
  /\ r.answered => \A n \in ModuleNames :
       \/ registry[n] = r.want[n]
       \/ r.want[n] = NoEntry /\ (installed[n] # 0 \/ n \in r.stale \cup r.at)

RightBadge(n) ==
  IF installed[n] # 0 /\ registry[n].version \notin {0, Unknown, installed[n]}
  THEN registry[n].version ELSE 0

(* The modules the update check is through with are marked as they should be.*)
Comparing(r) ==
  \A n \in ModuleNames :
    IF r.rows[n] # 0 THEN r.rows[n] = installed[n] /\ r.marks[n] = badge[n] 
    ELSE badge[n] = RightBadge(n)

GoodSync(r) ==
  /\ r.pc \in {"fetch", "upsert"} => Sources(r)
  /\ r.pc \in {"delete", "badge", "apply"} => \E n \in ModuleNames : r.at = {n}
  /\ r.pc \in {"prune", "compare"} => r.at = {}
  /\ r.calm =>
       /\ r.pc \in {"fetch", "upsert"} => Upserted(r)
       /\ r.pc \in {"prune", "delete"} => Pruning(r)
       /\ r.pc \in {"compare", "badge"} => Comparing(r)
       /\ r.pc = "badge" => \A n \in r.at : r.rows[n] # 0 /\ r.entry.version = RightBadge(n)
       /\ r.pc \in {"auto", "apply"} => \A n \in ModuleNames : badge[n] = RightBadge(n)
       /\ r.pc = "apply" => \A n \in r.at : r.entry = registry[n]

StoreInv ==
  /\ StoreTypeOK
  /\ \A n \in ModuleNames : installed[n] = 0 => badge[n] = 0
  /\ \A p \in Syncers : GoodSync(sync[p])

-----------------------------------------------------------------------------
LEMMA StoreConstants ==
  /\ Unknown \in Nat /\ Unknown # 0 /\ MaxListed \in Nat
  /\ Official \in SourceRows /\ Community \in SourceRows /\ CustomRows \subseteq SourceRows
  /\ \A r \in CustomRows : r.repo \in Repos /\ r.repo # "official" /\ r.repo # "community"
  /\ "official" \notin Repos /\ "community" \notin Repos
BY CatalogueAssumption DEF Unknown, Official, Community, SourceRows, CustomRows

LEMMA EntryTypes ==
  /\ NoEntry \in Entries /\ NoEntry.version = 0 /\ NoEntries \in [ModuleNames -> Entries]
  /\ Nothing \in [ModuleNames -> Nat]
  /\ \A row \in SourceRows : \A v \in Versions(row.repo) :
       /\ v \in Nat /\ v # 0 /\ EntryOf(row, v) \in Entries /\ EntryOf(row, v).version = v
       /\ EntryOf(row, v) # NoEntry
<1>1. NoEntry \in Entries /\ NoEntry.version = 0
  BY DEF NoEntry, Entries
<1>2. ASSUME NEW row \in SourceRows, NEW v \in Versions(row.repo)
      PROVE  /\ v \in Nat /\ v # 0 /\ EntryOf(row, v) \in Entries /\ EntryOf(row, v).version = v
             /\ EntryOf(row, v) # NoEntry
  <2>1. v \in Nat /\ v # 0
    BY <1>2, StoreConstants DEF Versions, FetchOfficialRegistry
  <2>2. row.repo \in Repos \cup {"official", "community", "none"}
        /\ row.key \in PubKeys \cup {"root", "own", "none"}
    BY DEF SourceRows
  <2>3. EntryOf(row, v) \in Entries /\ EntryOf(row, v).version = v
    BY <2>1, <2>2 DEF EntryOf, Entries
  <2> QED BY <1>1, <2>1, <2>3
<1> QED BY <1>1, <1>2 DEF NoEntries, Nothing

LEMMA NoSyncType ==
  /\ NoSync \in SyncType /\ NoSync.pc = "idle" /\ NoSync.todo = << >> /\ NoSync.seen = {}
  /\ NoSync.failed = {} /\ NoSync.customs = -1 /\ NoSync.stale = {} /\ NoSync.at = {}
  /\ NoSync.want = NoEntries /\ NoSync.answered = FALSE /\ NoSync.calm = TRUE
  /\ GoodSync(NoSync)
<1>1. Official \in SourceRows /\ Nothing \in [ModuleNames -> Nat] /\ NoEntry \in Entries
      /\ NoEntries \in [ModuleNames -> Entries] /\ << >> \in Seq(SourceRows)
  BY StoreConstants, EntryTypes
<1>2. /\ NoSync \in SyncType /\ NoSync.pc = "idle" /\ NoSync.todo = << >> /\ NoSync.seen = {}
      /\ NoSync.failed = {} /\ NoSync.customs = -1 /\ NoSync.stale = {} /\ NoSync.at = {}
      /\ NoSync.want = NoEntries /\ NoSync.answered = FALSE /\ NoSync.calm = TRUE
  BY <1>1 DEF NoSync, SyncType
<1> QED BY <1>2 DEF GoodSync

LEMMA StoreTypes ==
  ASSUME StoreInv
  PROVE  /\ registry \in [ModuleNames -> Entries] /\ installed \in [ModuleNames -> Nat]
         /\ badge \in [ModuleNames -> Nat] /\ sync \in [Syncers -> SyncType]
         /\ edit \in AdminType /\ table \in Seq(CustomRows)
         /\ \A p \in Syncers : sync[p] \in SyncType /\ GoodSync(sync[p])
         /\ \A n \in ModuleNames : installed[n] = 0 => badge[n] = 0
BY DEF StoreInv, StoreTypeOK

LEMMA StoreStart ==
  ASSUME StoreInit
  PROVE  StoreInv
<1>1. edit \in AdminType
  <2>1. Official \in SourceRows /\ NoEntry \in Entries
    BY StoreConstants, EntryTypes
  <2> QED BY <2>1 DEF StoreInit, AdminType, NoAdminEdit
<1>2. /\ table \in Seq(CustomRows) /\ registry \in [ModuleNames -> Entries]
      /\ installed \in [ModuleNames -> Nat] /\ badge \in [ModuleNames -> Nat]
      /\ \A n \in ModuleNames : badge[n] = 0
  BY EntryTypes DEF StoreInit, Nothing
<1>3. sync \in [Syncers -> SyncType] /\ \A p \in Syncers : GoodSync(sync[p])
  BY NoSyncType DEF StoreInit
<1> QED BY <1>1, <1>2, <1>3 DEF StoreInv, StoreTypeOK

-----------------------------------------------------------------------------
(* A step of one sync that writes nothing shared.                            *)
LEMMA SyncStep ==
  ASSUME StoreInv, NEW p \in Syncers, NEW r \in SyncType, sync' = [sync EXCEPT ![p] = r],
         UNCHANGED <<table, registry, installed, badge, edit>>, GoodSync(r)
  PROVE  StoreInv'
<1>1. \A q \in Syncers : sync'[q] = IF q = p THEN r ELSE sync[q]
  BY StoreTypes
<1>2. StoreTypeOK'
  BY StoreTypes DEF StoreTypeOK
<1>3. ASSUME NEW q \in Syncers PROVE GoodSync(sync[q])'
  <2>1. GoodSync(sync'[q])
    BY <1>1, StoreTypes
  <2> QED BY <2>1 DEF GoodSync, Upserted, Pruning, Comparing, RightBadge, Sources, FirstTwo, Customs, Remaining
<1>4. \A n \in ModuleNames : installed'[n] = 0 => badge'[n] = 0
  BY StoreTypes
<1> QED BY <1>2, <1>3, <1>4 DEF StoreInv

LEMMA FlawedFields ==
  ASSUME NEW s \in SyncType
  PROVE  LET f == Flawed(s)
         IN /\ f \in SyncType /\ f.pc = s.pc /\ f.calm = FALSE /\ f.todo = s.todo
            /\ f.failed = s.failed /\ f.customs = s.customs /\ f.answered = s.answered
            /\ f.at = s.at
<1>1. NoEntries \in [ModuleNames -> Entries]
  BY EntryTypes
<1> QED BY <1>1 DEF SyncType, Flawed

(* A sync is disturbed by everybody else's write.                            *)
LEMMA Disturbed ==
  ASSUME StoreInv, NEW q \in Syncers, sync'[q] = DisturbAll[q]
  PROVE  sync'[q] \in SyncType /\ GoodSync(sync[q])'
<1> DEFINE s == sync[q]
<1>1. s \in SyncType /\ GoodSync(s)
  BY StoreTypes
<1>2. CASE s = NoSync
  <2>1. sync'[q] = NoSync
    BY <1>2 DEF DisturbAll
  <2> QED BY <2>1, NoSyncType DEF GoodSync
<1>3. CASE s # NoSync
  <2>1. sync'[q] = Flawed(s)
    BY <1>3 DEF DisturbAll, Flawed
  <2> HIDE DEF s
  <2>2. /\ sync'[q] \in SyncType /\ sync'[q].calm = FALSE /\ sync'[q].pc = s.pc /\ sync'[q].at = s.at
        /\ sync'[q].todo = s.todo /\ sync'[q].failed = s.failed /\ sync'[q].customs = s.customs
        /\ sync'[q].answered = s.answered
    BY <1>1, <2>1, FlawedFields
  <2>3. Sources(s) => Sources(sync[q])'
    <3>1. FirstTwo(s) => FirstTwo(sync[q])'
      BY <2>2 DEF FirstTwo
    <3>2. Customs(s) => Customs(sync[q])'
      BY <2>2 DEF Customs, Remaining
    <3> QED BY <2>2, <3>1, <3>2 DEF Sources
  <2> QED BY <1>1, <2>2, <2>3 DEF GoodSync
<1> QED BY <1>2, <1>3

(* A write by a sync.                                                        *)
LEMMA WriteStep ==
  ASSUME StoreInv, NEW p \in Syncers, NEW r \in SyncType, sync' = Disturb(p, r),
         registry' \in [ModuleNames -> Entries], installed' \in [ModuleNames -> Nat],
         badge' \in [ModuleNames -> Nat], UNCHANGED <<table, edit>>,
         \A n \in ModuleNames : installed'[n] = 0 => badge'[n] = 0,
         sync'[p] = r => GoodSync(sync[p])'
  PROVE  StoreInv'
<1>1. /\ sync'[p] = r /\ \A q \in Syncers : q # p => sync'[q] = DisturbAll[q]
      /\ sync' = [q \in Syncers |-> sync'[q]]
  BY DEF Disturb, DisturbAll
<1>2. \A q \in Syncers : sync'[q] \in SyncType /\ GoodSync(sync[q])'
  BY <1>1, Disturbed
<1>3. sync' \in [Syncers -> SyncType]
  BY <1>1, <1>2
<1> QED BY <1>2, <1>3, StoreTypes DEF StoreInv, StoreTypeOK

(* A write by an admin's request.                                            *)
LEMMA AdminWrite ==
  ASSUME StoreInv, sync' = DisturbAll, table' \in Seq(CustomRows), edit' \in AdminType,
         registry' \in [ModuleNames -> Entries], installed' \in [ModuleNames -> Nat],
         badge' \in [ModuleNames -> Nat],
         \A n \in ModuleNames : installed'[n] = 0 => badge'[n] = 0
  PROVE  StoreInv'
<1>1. /\ \A q \in Syncers : sync'[q] = DisturbAll[q]
      /\ sync' = [q \in Syncers |-> sync'[q]]
  BY DEF DisturbAll
<1>2. \A q \in Syncers : sync'[q] \in SyncType /\ GoodSync(sync[q])'
  BY <1>1, Disturbed
<1>3. sync' \in [Syncers -> SyncType]
  BY <1>1, <1>2
<1> QED BY <1>2, <1>3 DEF StoreInv, StoreTypeOK

(* What an admin's request does that no sync reads or writes.                *)
LEMMA AdminStep ==
  ASSUME StoreInv, UNCHANGED <<sync, registry, installed, badge>>,
         table' \in Seq(CustomRows), edit' \in AdminType
  PROVE  StoreInv'
<1>1. ASSUME NEW q \in Syncers PROVE GoodSync(sync[q])'
  <2>1. GoodSync(sync[q])
    BY StoreTypes
  <2> QED BY <2>1 DEF GoodSync, Upserted, Pruning, Comparing, RightBadge, Sources, FirstTwo, Customs, Remaining
<1> QED BY <1>1, StoreTypes DEF StoreInv, StoreTypeOK

-----------------------------------------------------------------------------
(* Fetching and upserting *)

LEMMA BeginSyncStep ==
  ASSUME StoreInv, NEW p \in Syncers, BeginSync(p)
  PROVE  StoreInv'
<1> DEFINE todo == <<Official, Community>>
           r == [NoSync EXCEPT !.pc = "fetch", !.todo = todo]
<1>1. sync' = [sync EXCEPT ![p] = r]
  BY StoreTypes DEF BeginSync
<1>2. todo \in Seq(SourceRows)
  BY StoreConstants
<1> HIDE DEF todo
<1>3. /\ r \in SyncType /\ r.pc = "fetch" /\ r.todo = todo /\ r.failed = {} /\ r.customs = -1
      /\ r.seen = {} /\ r.want = NoEntries /\ r.answered = FALSE
  BY <1>2, NoSyncType DEF SyncType
<1>4. Sources(r)
  BY <1>3 DEF Sources, FirstTwo, todo
<1> HIDE DEF r
<1>5. GoodSync(r)
  BY <1>3, <1>4 DEF GoodSync, Upserted, NoEntries
<1> QED BY <1>1, <1>3, <1>5, SyncStep DEF BeginSync

LEMMA FetchFailsStep ==
  ASSUME StoreInv, NEW p \in Syncers, FetchFails(p)
  PROVE  StoreInv'
<1> DEFINE s == sync[p]
           rest == Tail(s.todo)
           repo == Head(s.todo).repo
           failed == s.failed \cup {repo}
           r == [s EXCEPT !.todo = rest, !.failed = failed]
<1>1. sync' = [sync EXCEPT ![p] = r]
  BY StoreTypes DEF FetchFails
<1>2. s \in SyncType /\ GoodSync(s) /\ s.pc = "fetch" /\ s.todo # << >> /\ s.todo \in Seq(SourceRows)
      /\ Sources(s)
  BY StoreTypes DEF FetchFails, SyncType, GoodSync
<1>3. rest \in Seq(SourceRows) /\ Len(rest) = Len(s.todo) - 1 /\ Len(s.todo) \in Nat
      /\ Head(s.todo) \in SourceRows
  BY <1>2
<1>4. failed \in SUBSET (Repos \cup {"official", "community"})
  BY <1>2, <1>3 DEF SyncType, SourceRows
<1> HIDE DEF s, rest, failed
<1>5. /\ r \in SyncType /\ r.pc = s.pc /\ r.todo = rest /\ r.failed = failed
      /\ r.customs = s.customs /\ r.answered = s.answered /\ r.calm = s.calm /\ r.seen = s.seen
      /\ r.want = s.want
  BY <1>2, <1>3, <1>4 DEF SyncType
<1> HIDE DEF r
<1>6. Sources(r)
  <2>1. CASE s.customs = -1
    <3>1. Head(<<Official, Community>>) = Official /\ Tail(<<Official, Community>>) = <<Community>>
          /\ Head(<<Community>>) = Community /\ Tail(<<Community>>) = << >>
          /\ Official.repo = "official" /\ Community.repo = "community"
      BY DEF Official, Community
    <3>2. CASE s.todo = <<Official, Community>> /\ s.failed = {} /\ ~s.answered
      <4>1. rest = <<Community>> /\ failed = {"official"}
        BY <3>1, <3>2 DEF rest, failed, repo
      <4>2. FirstTwo(r)
        BY <1>5, <3>2, <4>1 DEF FirstTwo
      <4> QED BY <1>5, <2>1, <4>2 DEF Sources
    <3>3. CASE s.todo = <<Community>> /\ s.failed \subseteq {"official"} /\ (s.answered => s.failed = {})
      <4>1. rest = << >> /\ failed = s.failed \cup {"community"}
        BY <3>1, <3>3 DEF rest, failed, repo
      <4>2. FirstTwo(r)
        <5>1. r.todo = << >> /\ r.failed \subseteq {"official", "community"}
          BY <1>5, <3>3, <4>1
        <5>2. r.answered => "official" \notin r.failed
          BY <1>5, <3>3, <4>1
        <5> QED BY <5>1, <5>2 DEF FirstTwo
      <4> QED BY <1>5, <2>1, <4>2 DEF Sources
    <3> QED BY <1>2, <2>1, <3>2, <3>3 DEF Sources, FirstTwo
  <2>2. CASE s.customs # -1
    <3>1. s.todo \in Seq(CustomRows) /\ IsFiniteSet(s.failed)
      BY <1>2, <2>2 DEF Sources, Customs
    <3>2. rest \in Seq(CustomRows) /\ Head(s.todo) \in CustomRows
      BY <1>2, <3>1 DEF rest
    <3>3. repo \in Repos /\ repo # "official" /\ repo # "community"
      BY <3>2, StoreConstants
    <3>4. IsFiniteSet(failed)
      BY <3>1, FS_AddElement DEF failed
    <3>5. /\ Cardinality(failed \cap Repos) <= Cardinality(s.failed \cap Repos) + 1
          /\ Cardinality(failed \cap Repos) \in Nat /\ Cardinality(s.failed \cap Repos) \in Nat
      <4> DEFINE T == s.failed \cap Repos
      <4>1. IsFiniteSet(T)
        BY <3>1, FS_Intersection
      <4>2. failed \cap Repos = T \cup {repo}
        BY <3>3 DEF failed
      <4> HIDE DEF T
      <4>3. /\ Cardinality(T \cup {repo}) = Cardinality(T) \/ Cardinality(T \cup {repo}) = Cardinality(T) + 1
            /\ Cardinality(T) \in Nat
        BY <4>1, FS_AddElement, FS_CardinalityType
      <4>4. Cardinality(T \cup {repo}) \in Nat /\ Cardinality(T \cup {repo}) <= Cardinality(T) + 1
        BY <4>3
      <4> QED BY <4>2, <4>3, <4>4 DEF T
    <3>6. Remaining(r) <= Remaining(s) /\ Remaining(r) \in Int /\ Remaining(s) \in Int
      BY <1>3, <1>5, <3>5 DEF Remaining
    <3>7. s.customs \in Int
      BY <1>2 DEF SyncType
    <3> QED BY <1>2, <1>5, <2>2, <3>2, <3>3, <3>4, <3>6, <3>7 DEF Sources, Customs, failed
  <2> QED BY <2>1, <2>2
<1>7. GoodSync(r)
  BY <1>2, <1>5, <1>6 DEF GoodSync, Upserted
<1> QED BY <1>1, <1>5, <1>7, SyncStep DEF FetchFails

LEMMA FetchSourceStep ==
  ASSUME StoreInv, NEW p \in Syncers, FetchSource(p)
  PROVE  StoreInv'
<1> DEFINE s == sync[p]
           row == Head(s.todo)
           rest == Tail(s.todo)
<1>1. PICK names \in Answers(row.repo) :
        sync' = [sync EXCEPT ![p].pc = "upsert", ![p].todo = Tail(@), ![p].row = row,
                   ![p].batch = names, ![p].answered = TRUE]
  BY DEF FetchSource
<1> DEFINE r == [s EXCEPT !.pc = "upsert", !.todo = rest, !.row = row, !.batch = names, !.answered = TRUE]
<1>2. sync' = [sync EXCEPT ![p] = r]
  BY <1>1, StoreTypes
<1>3. s \in SyncType /\ GoodSync(s) /\ s.pc = "fetch" /\ s.todo # << >> /\ s.todo \in Seq(SourceRows)
      /\ Sources(s)
  BY StoreTypes DEF FetchSource, SyncType, GoodSync
<1>4. rest \in Seq(SourceRows) /\ Len(rest) = Len(s.todo) - 1 /\ Len(s.todo) \in Nat /\ row \in SourceRows
      /\ names \subseteq ModuleNames
  BY <1>3 DEF Answers, FetchCustomRepo
<1> HIDE DEF s, rest, row
<1>5. /\ r \in SyncType /\ r.pc = "upsert" /\ r.todo = rest /\ r.failed = s.failed
      /\ r.customs = s.customs /\ r.answered /\ r.calm = s.calm /\ r.seen = s.seen
      /\ r.want = s.want
  BY <1>3, <1>4 DEF SyncType
<1> HIDE DEF r
<1>6. Sources(r)
  <2>1. CASE s.customs = -1
    <3>1. Tail(<<Official, Community>>) = <<Community>> /\ Tail(<<Community>>) = << >>
      BY DEF Official, Community
    <3> QED BY <1>3, <1>5, <2>1, <3>1 DEF Sources, FirstTwo, rest
  <2>2. CASE s.customs # -1
    <3>1. s.todo \in Seq(CustomRows) /\ IsFiniteSet(s.failed) /\ Remaining(s) <= s.customs
      BY <1>3, <2>2 DEF Sources, Customs
    <3>2. rest \in Seq(CustomRows)
      BY <1>3, <3>1 DEF rest
    <3>3. Cardinality(s.failed \cap Repos) \in Nat
      <4>1. IsFiniteSet(s.failed \cap Repos)
        BY <3>1, FS_Intersection
      <4> QED BY <4>1, FS_CardinalityType
    <3>4. Remaining(r) < Remaining(s) /\ Remaining(r) \in Int /\ Remaining(s) \in Int
      BY <1>4, <1>5, <3>3 DEF Remaining
    <3>5. s.customs \in Int
      BY <1>3 DEF SyncType
    <3>6. Remaining(r) < r.customs /\ Remaining(r) <= r.customs
      BY <1>5, <3>1, <3>4, <3>5
    <3> QED BY <1>5, <2>2, <3>1, <3>2, <3>6 DEF Sources, Customs
  <2> QED BY <2>1, <2>2
<1>7. GoodSync(r)
  BY <1>3, <1>5, <1>6 DEF GoodSync, Upserted
<1> QED BY <1>2, <1>5, <1>7, SyncStep DEF FetchSource

LEMMA UpsertEntryStep ==
  ASSUME StoreInv, NEW p \in Syncers, UpsertEntry(p)
  PROVE  StoreInv'
<1> DEFINE s == sync[p]
<1>1. /\ s \in SyncType /\ GoodSync(s) /\ s.pc = "upsert" /\ Sources(s) /\ s.row \in SourceRows
      /\ s.batch \subseteq ModuleNames /\ s.seen \subseteq ModuleNames
      /\ s.want \in [ModuleNames -> Entries]
  BY StoreTypes DEF UpsertEntry, SyncType, GoodSync
<1>2. CASE s.batch = {} /\ sync' = [sync EXCEPT ![p].pc = "fetch", ![p].row = Official] /\ UNCHANGED registry
  <2> DEFINE r == [s EXCEPT !.pc = "fetch", !.row = Official]
  <2>1. sync' = [sync EXCEPT ![p] = r]
    BY <1>2, StoreTypes
  <2> HIDE DEF s
  <2>2. /\ r \in SyncType /\ r.pc = "fetch" /\ r.todo = s.todo /\ r.failed = s.failed
        /\ r.customs = s.customs /\ r.answered = s.answered /\ r.calm = s.calm /\ r.seen = s.seen
        /\ r.want = s.want
    BY <1>1, StoreConstants DEF SyncType
  <2> HIDE DEF r
  <2>3. GoodSync(r)
    BY <1>1, <2>2 DEF GoodSync, Sources, FirstTwo, Customs, Remaining, Upserted
  <2> QED BY <1>2, <2>1, <2>2, <2>3, SyncStep DEF UpsertEntry
<1>3. ASSUME NEW n \in s.batch, NEW v \in Versions(s.row.repo),
             registry' = [registry EXCEPT ![n] = EntryOf(s.row, v)],
             sync' = Disturb(p, [s EXCEPT !.batch = @ \ {n}, !.seen = @ \cup {n},
                                   !.want[n] = IF s.calm THEN EntryOf(s.row, v) ELSE NoEntry])
      PROVE  StoreInv'
  <2> DEFINE entry == EntryOf(s.row, v)
             batch == s.batch \ {n}
             seen == s.seen \cup {n}
             wanted == [s.want EXCEPT ![n] = IF s.calm THEN entry ELSE NoEntry]
             r == [s EXCEPT !.batch = batch, !.seen = seen, !.want = wanted]
  <2>1. sync' = Disturb(p, r)
    BY <1>3
  <2>2. /\ n \in ModuleNames /\ entry \in Entries /\ entry # NoEntry /\ batch \subseteq ModuleNames
        /\ seen \subseteq ModuleNames /\ wanted \in [ModuleNames -> Entries]
        /\ \A m \in ModuleNames : wanted[m] = IF m # n THEN s.want[m]
                                             ELSE IF s.calm THEN entry ELSE NoEntry
    BY <1>1, <1>3, EntryTypes
  <2>3. /\ registry' \in [ModuleNames -> Entries]
        /\ \A m \in ModuleNames : registry'[m] = IF m = n THEN entry ELSE registry[m]
    BY <1>3, <2>2, StoreTypes
  <2> HIDE DEF s, entry, batch, seen, wanted
  <2>4. /\ r \in SyncType /\ r.pc = "upsert" /\ r.todo = s.todo /\ r.failed = s.failed
        /\ r.customs = s.customs /\ r.answered = s.answered /\ r.calm = s.calm /\ r.seen = seen
        /\ r.want = wanted
    BY <1>1, <2>2 DEF SyncType
  <2> HIDE DEF r
  <2>5. ASSUME sync'[p] = r PROVE GoodSync(sync[p])'
    <3>1. Sources(r)
      BY <1>1, <2>4 DEF Sources, FirstTwo, Customs, Remaining
    <3>2. r.calm => Upserted(sync[p])'
      <4> SUFFICES ASSUME r.calm, NEW m \in ModuleNames
                   PROVE  IF m \in r.seen THEN registry'[m] = r.want[m] /\ r.want[m] # NoEntry
                          ELSE r.want[m] = NoEntry
        BY <2>5 DEF Upserted
      <4>1. IF m \in s.seen THEN registry[m] = s.want[m] /\ s.want[m] # NoEntry ELSE s.want[m] = NoEntry
        BY <1>1, <2>4 DEF GoodSync, Upserted
      <4> QED BY <2>2, <2>3, <2>4, <4>1 DEF seen
    <3> QED BY <2>4, <2>5, <3>1, <3>2 DEF GoodSync, Sources, FirstTwo, Customs, Remaining
  <2> QED BY <1>3, <2>1, <2>3, <2>4, <2>5, StoreTypes, WriteStep DEF UpsertEntry
<1> HIDE DEF s
<1>4. \/ s.batch = {} /\ sync' = [sync EXCEPT ![p].pc = "fetch", ![p].row = Official] /\ UNCHANGED registry
      \/ \E n \in s.batch, v \in Versions(s.row.repo) :
           /\ registry' = [registry EXCEPT ![n] = EntryOf(s.row, v)]
           /\ sync' = Disturb(p, [s EXCEPT !.batch = @ \ {n}, !.seen = @ \cup {n},
                                   !.want[n] = IF s.calm THEN EntryOf(s.row, v) ELSE NoEntry])
  BY DEF UpsertEntry, s
<1> QED BY <1>2, <1>3, <1>4

LEMMA ListCustomSourcesStep ==
  ASSUME StoreInv, NEW p \in Syncers, ListCustomSources(p)
  PROVE  StoreInv'
<1> DEFINE s == sync[p]
<1>1. PICK listed \in {table, << >>} :
        sync' = [sync EXCEPT ![p].todo = listed, ![p].customs = Len(listed)]
  BY DEF ListCustomSources
<1> DEFINE len == Len(listed)
           r == [s EXCEPT !.todo = listed, !.customs = len]
<1>2. sync' = [sync EXCEPT ![p] = r]
  BY <1>1, StoreTypes
<1>3. /\ s \in SyncType /\ GoodSync(s) /\ s.pc = "fetch" /\ s.todo = << >> /\ s.customs = -1 /\ Sources(s)
  BY StoreTypes DEF ListCustomSources, SyncType, GoodSync
<1>4. listed \in Seq(CustomRows) /\ listed \in Seq(SourceRows) /\ len \in Nat
  <2>1. table \in Seq(CustomRows) /\ << >> \in Seq(CustomRows)
    BY StoreTypes
  <2>2. listed = table \/ listed = << >>
    BY <1>1
  <2>3. listed \in Seq(CustomRows)
    BY <2>1, <2>2
  <2> QED BY <2>3, StoreConstants
<1>5. s.failed \subseteq {"official", "community"} /\ (s.answered => s.failed # {"official", "community"})
  BY <1>3 DEF Sources, FirstTwo
<1> HIDE DEF s, len
<1>6. /\ r \in SyncType /\ r.pc = "fetch" /\ r.todo = listed /\ r.failed = s.failed
      /\ r.customs = len /\ r.answered = s.answered /\ r.calm = s.calm /\ r.seen = s.seen
      /\ r.want = s.want
  BY <1>3, <1>4 DEF SyncType
<1> HIDE DEF r
<1>7. Sources(r)
  <2>1. IsFiniteSet({"official", "community"})
    <3>1. IsFiniteSet({} \cup {"official"})
      BY FS_EmptySet, FS_AddElement
    <3>2. IsFiniteSet(({} \cup {"official"}) \cup {"community"})
      BY <3>1, FS_AddElement
    <3> QED BY <3>2
  <2>2. IsFiniteSet(r.failed) /\ r.failed \cap Repos = {}
    BY <1>5, <1>6, <2>1, FS_Subset, StoreConstants
  <2>3. Remaining(r) = len
    <3>1. Cardinality(r.failed \cap Repos) = 0
      BY <2>2, FS_EmptySet
    <3> QED BY <1>4, <1>6, <3>1 DEF Remaining, len
  <2>4. r.customs # -1 /\ Remaining(r) <= r.customs
    BY <1>4, <1>6, <2>3
  <2> QED BY <1>4, <1>5, <1>6, <2>2, <2>4 DEF Sources, Customs
<1>8. GoodSync(r)
  BY <1>3, <1>6, <1>7 DEF GoodSync, Upserted
<1> QED BY <1>2, <1>6, <1>8, SyncStep DEF ListCustomSources

-----------------------------------------------------------------------------
(* The cleanup *)

LEMMA pruneStaleEntriesStep ==
  ASSUME StoreInv, NEW p \in Syncers, pruneStaleEntries(p)
  PROVE  StoreInv'
<1> DEFINE s == sync[p]
           stale == IF anySucceeded(s) THEN staleOf(s) ELSE {}
           r == [NoSync EXCEPT !.pc = "prune", !.stale = stale, !.calm = s.calm,
                               !.answered = s.answered, !.want = s.want]
<1>1. sync' = [sync EXCEPT ![p] = r]
  BY DEF pruneStaleEntries
<1>2. /\ s \in SyncType /\ GoodSync(s) /\ s.pc = "fetch" /\ s.todo = << >> /\ s.customs >= 0 /\ Sources(s)
      /\ s.calm \in BOOLEAN /\ s.answered \in BOOLEAN /\ s.want \in [ModuleNames -> Entries]
      /\ s.customs \in Int /\ s.customs # -1
  BY StoreTypes DEF pruneStaleEntries, SyncType, GoodSync
<1>3. s.answered => anySucceeded(s)
  <2>1. IsFiniteSet(s.failed) /\ Remaining(s) = Cardinality(s.failed \cap Repos) + 0
    BY <1>2 DEF Sources, FirstTwo, Customs, Remaining
  <2>2. Cardinality(s.failed \cap Repos) \in Nat
    <3>1. IsFiniteSet(s.failed \cap Repos)
      BY <2>1, FS_Intersection
    <3> QED BY <3>1, FS_CardinalityType
  <2>3. Remaining(s) = Cardinality(s.failed \cap Repos)
    BY <2>1, <2>2
  <2> QED BY <1>2, <2>3 DEF Sources, Customs, anySucceeded
<1>4. stale \subseteq ModuleNames
  BY DEF staleOf
<1>5. s.answered => stale = {n \in ModuleNames : registry[n] # NoEntry /\ n \notin s.seen}
  BY <1>3 DEF staleOf
<1>6. \A n \in stale : n \in ModuleNames /\ n \notin s.seen
  BY DEF staleOf
<1> HIDE DEF s, stale
<1>7. /\ r \in SyncType /\ r.pc = "prune" /\ r.stale = stale /\ r.at = {} /\ r.calm = s.calm
      /\ r.answered = s.answered /\ r.want = s.want
  BY <1>2, <1>4, NoSyncType DEF SyncType
<1> HIDE DEF r
<1>8. r.calm => Pruning(r)
  BY <1>2, <1>5, <1>6, <1>7 DEF GoodSync, Upserted, Pruning
<1>9. GoodSync(r)
  BY <1>7, <1>8 DEF GoodSync
<1> QED BY <1>1, <1>7, <1>9, SyncStep DEF pruneStaleEntries

LEMMA PruneCheckStep ==
  ASSUME StoreInv, NEW p \in Syncers, PruneCheck(p)
  PROVE  StoreInv'
<1> DEFINE s == sync[p]
<1>1. PICK n \in s.stale :
        sync' = [sync EXCEPT ![p].stale = @ \ {n}, ![p].at = IF installed[n] # 0 THEN {} ELSE {n},
                             ![p].pc = IF installed[n] # 0 THEN "prune" ELSE "delete"]
  BY DEF PruneCheck
<1> DEFINE stale == s.stale \ {n}
           at == IF installed[n] # 0 THEN {} ELSE {n}
           pc == IF installed[n] # 0 THEN "prune" ELSE "delete"
           r == [s EXCEPT !.stale = stale, !.at = at, !.pc = pc]
<1>2. sync' = [sync EXCEPT ![p] = r]
  BY <1>1, StoreTypes
<1>3. /\ s \in SyncType /\ GoodSync(s) /\ s.pc = "prune" /\ s.at = {} /\ s.stale \subseteq ModuleNames
  BY StoreTypes DEF PruneCheck, SyncType, GoodSync
<1>4. /\ n \in ModuleNames /\ stale \subseteq ModuleNames /\ at \subseteq ModuleNames
      /\ pc \in {"prune", "delete"}
  BY <1>3
<1>5. /\ installed[n] = 0 => at = {n} /\ pc = "delete"
      /\ installed[n] # 0 => at = {} /\ pc = "prune"
  OBVIOUS
<1> HIDE DEF s, at, pc, stale
<1>6. /\ r \in SyncType /\ r.pc = pc /\ r.stale = stale /\ r.at = at /\ r.calm = s.calm
      /\ r.answered = s.answered /\ r.want = s.want
  BY <1>3, <1>4 DEF SyncType
<1> HIDE DEF r
<1>7. r.calm => Pruning(r)
  <2>1. s.calm => Pruning(s)
    BY <1>3 DEF GoodSync
  <2>2. r.stale \cup r.at \subseteq s.stale \cup s.at
    BY <1>5, <1>6 DEF stale
  <2>3. \A m \in s.stale \cup s.at : m \in r.stale \cup r.at \/ installed[m] # 0
    BY <1>3, <1>5, <1>6 DEF stale
  <2> QED BY <1>6, <2>1, <2>2, <2>3 DEF Pruning
<1>8. GoodSync(r)
  BY <1>4, <1>5, <1>6, <1>7 DEF GoodSync
<1> QED BY <1>2, <1>6, <1>8, SyncStep DEF PruneCheck

LEMMA PruneDeleteStep ==
  ASSUME StoreInv, NEW p \in Syncers, PruneDelete(p)
  PROVE  StoreInv'
<1> DEFINE s == sync[p]
           r == [s EXCEPT !.pc = "prune", !.at = {}]
<1>1. PICK n \in s.at : registry' = [registry EXCEPT ![n] = NoEntry] /\ sync' = Disturb(p, r)
  BY DEF PruneDelete
<1>2. s \in SyncType /\ GoodSync(s) /\ s.pc = "delete" /\ s.at = {n} /\ n \in ModuleNames
  <2>1. s \in SyncType /\ GoodSync(s) /\ s.pc = "delete"
    BY StoreTypes DEF PruneDelete
  <2>2. \E m \in ModuleNames : s.at = {m}
    BY <2>1 DEF GoodSync
  <2> QED BY <1>1, <2>1, <2>2
<1>3. /\ registry' \in [ModuleNames -> Entries]
      /\ \A m \in ModuleNames : registry'[m] = IF m = n THEN NoEntry ELSE registry[m]
  BY <1>1, StoreTypes, EntryTypes
<1> HIDE DEF s
<1>4. /\ r \in SyncType /\ r.pc = "prune" /\ r.stale = s.stale /\ r.at = {} /\ r.calm = s.calm
      /\ r.answered = s.answered /\ r.want = s.want
  BY <1>2 DEF SyncType
<1> HIDE DEF r
<1>5. ASSUME sync'[p] = r PROVE GoodSync(sync[p])'
  <2>1. r.calm => Pruning(sync[p])'
    <3> SUFFICES ASSUME r.calm PROVE Pruning(sync[p])'
      OBVIOUS
    <3>1. Pruning(s)
      BY <1>2, <1>4 DEF GoodSync
    <3> QED BY <1>2, <1>3, <1>4, <1>5, <3>1, StoreTypes DEF Pruning, PruneDelete
  <2> QED BY <1>4, <1>5, <2>1 DEF GoodSync
<1> QED BY <1>1, <1>3, <1>4, <1>5, StoreTypes, WriteStep DEF PruneDelete

(* Once a write has failed nothing is promised but the shape of the sync.    *)
LEMMA WriteFailsStep ==
  ASSUME StoreInv, NEW p \in Syncers, WriteFails(p)
  PROVE  StoreInv'
<1> DEFINE s == sync[p]
           f == Flawed(s)
<1>1. s \in SyncType /\ GoodSync(s) /\ NoEntry \in Entries /\ NoEntries \in [ModuleNames -> Entries]
  BY StoreTypes, EntryTypes
<1>2. UNCHANGED <<table, registry, installed, badge, edit>>
  BY DEF WriteFails
<1> HIDE DEF s
<1>3. /\ f \in SyncType /\ f.pc = s.pc /\ f.calm = FALSE /\ f.todo = s.todo /\ f.failed = s.failed
      /\ f.customs = s.customs /\ f.answered = s.answered /\ f.at = s.at
  BY <1>1, FlawedFields
<1>4. GoodSync(f)
  BY <1>1, <1>3 DEF GoodSync, Sources, FirstTwo, Customs, Remaining
<1> HIDE DEF f
<1>5. /\ f.batch \subseteq ModuleNames /\ f.stale \subseteq ModuleNames
      /\ f.updates \subseteq ModuleNames /\ f.rows \in [ModuleNames -> Nat]
      /\ f.at \subseteq ModuleNames
  BY <1>3 DEF SyncType
<1>6. ASSUME f.pc = "upsert", NEW n \in f.batch, sync' = [sync EXCEPT ![p] = [f EXCEPT !.batch = @ \ {n}]]
      PROVE  StoreInv'
  <2> DEFINE batch == f.batch \ {n}
             r == [f EXCEPT !.batch = batch]
  <2>1. sync' = [sync EXCEPT ![p] = r] /\ batch \subseteq ModuleNames
    BY <1>5, <1>6
  <2> HIDE DEF batch
  <2>2. /\ r \in SyncType /\ r.pc = f.pc /\ r.calm = FALSE /\ r.todo = f.todo /\ r.failed = f.failed
        /\ r.customs = f.customs /\ r.answered = f.answered
    BY <1>3, <2>1 DEF SyncType
  <2> HIDE DEF r
  <2>3. GoodSync(r)
    BY <1>4, <1>6, <2>2 DEF GoodSync, Sources, FirstTwo, Customs, Remaining
  <2> QED BY <1>2, <2>1, <2>2, <2>3, SyncStep
<1>7. ASSUME f.pc = "prune", NEW n \in f.stale, sync' = [sync EXCEPT ![p] = [f EXCEPT !.stale = @ \ {n}]]
      PROVE  StoreInv'
  <2> DEFINE stale == f.stale \ {n}
             r == [f EXCEPT !.stale = stale]
  <2>1. sync' = [sync EXCEPT ![p] = r] /\ stale \subseteq ModuleNames
    BY <1>5, <1>7
  <2> HIDE DEF stale
  <2>2. r \in SyncType /\ r.pc = f.pc /\ r.calm = FALSE /\ r.at = f.at
    BY <1>3, <2>1 DEF SyncType
  <2> HIDE DEF r
  <2>3. GoodSync(r)
    BY <1>4, <1>7, <2>2 DEF GoodSync
  <2> QED BY <1>2, <2>1, <2>2, <2>3, SyncStep
<1>8. CASE f.pc = "delete" /\ sync' = [sync EXCEPT ![p] = [f EXCEPT !.pc = "prune", !.at = {}]]
  <2> DEFINE r == [f EXCEPT !.pc = "prune", !.at = {}]
  <2>1. r \in SyncType /\ r.pc = "prune" /\ r.calm = FALSE /\ r.at = {}
    BY <1>3 DEF SyncType
  <2>2. sync' = [sync EXCEPT ![p] = r]
    BY <1>8
  <2> HIDE DEF r
  <2>3. GoodSync(r)
    BY <2>1 DEF GoodSync
  <2> QED BY <1>2, <2>1, <2>2, <2>3, SyncStep
<1>9. ASSUME f.pc = "badge", NEW n \in f.at,
             sync' = [sync EXCEPT ![p] =
                        [f EXCEPT !.pc = "compare", !.rows[n] = 0, !.at = {},
                           !.updates = IF f.entry.version # 0 THEN @ \cup {n} ELSE @,
                           !.entry = NoEntry]]
      PROVE  StoreInv'
  <2> DEFINE rows == [f.rows EXCEPT ![n] = 0]
             updates == IF f.entry.version # 0 THEN f.updates \cup {n} ELSE f.updates
             r == [f EXCEPT !.pc = "compare", !.rows = rows, !.at = {}, !.updates = updates,
                            !.entry = NoEntry]
  <2>1. sync' = [sync EXCEPT ![p] = r]
    BY <1>9
  <2>2. rows \in [ModuleNames -> Nat] /\ updates \subseteq ModuleNames
    BY <1>5
  <2> HIDE DEF rows, updates
  <2>3. r \in SyncType /\ r.pc = "compare" /\ r.calm = FALSE /\ r.at = {}
    BY <1>1, <1>3, <2>2 DEF SyncType
  <2> HIDE DEF r
  <2>4. GoodSync(r)
    BY <2>3 DEF GoodSync
  <2> QED BY <1>2, <2>1, <2>3, <2>4, SyncStep
<1>11. ASSUME f.pc = "compare", NEW n \in Having(f.rows), sync' = [sync EXCEPT ![p] = [f EXCEPT !.rows[n] = 0]]
       PROVE  StoreInv'
  <2> DEFINE rows == [f.rows EXCEPT ![n] = 0]
             r == [f EXCEPT !.rows = rows]
  <2>1. sync' = [sync EXCEPT ![p] = r]
    BY <1>11
  <2>2. rows \in [ModuleNames -> Nat]
    BY <1>5
  <2> HIDE DEF rows
  <2>3. r \in SyncType /\ r.pc = "compare" /\ r.calm = FALSE /\ r.at = f.at
    BY <1>3, <1>11, <2>2 DEF SyncType
  <2> HIDE DEF r
  <2>4. GoodSync(r)
    BY <1>4, <1>11, <2>3 DEF GoodSync
  <2> QED BY <1>2, <2>1, <2>3, <2>4, SyncStep
<1>10. \/ f.pc = "upsert" /\ \E n \in f.batch : sync' = [sync EXCEPT ![p] = [f EXCEPT !.batch = @ \ {n}]]
       \/ f.pc = "prune" /\ \E n \in f.stale : sync' = [sync EXCEPT ![p] = [f EXCEPT !.stale = @ \ {n}]]
       \/ f.pc = "delete" /\ sync' = [sync EXCEPT ![p] = [f EXCEPT !.pc = "prune", !.at = {}]]
       \/ f.pc = "compare" /\ \E n \in Having(f.rows) :
            sync' = [sync EXCEPT ![p] = [f EXCEPT !.rows[n] = 0]]
       \/ f.pc = "badge" /\ \E n \in f.at :
            sync' = [sync EXCEPT ![p] =
                       [f EXCEPT !.pc = "compare", !.rows[n] = 0, !.at = {},
                          !.updates = IF f.entry.version # 0 THEN @ \cup {n} ELSE @,
                          !.entry = NoEntry]]
  BY DEF WriteFails, f, s
<1> QED BY <1>6, <1>7, <1>8, <1>9, <1>10, <1>11

-----------------------------------------------------------------------------
(* The update check *)

LEMMA BeginCheckStep ==
  ASSUME StoreInv, NEW p \in Syncers, BeginCheck(p)
  PROVE  StoreInv'
<1> DEFINE r == [NoSync EXCEPT !.pc = "compare", !.rows = installed, !.marks = badge, !.auto = FALSE]
<1>1. sync' = [sync EXCEPT ![p] = r]
  BY StoreTypes DEF BeginCheck
<1>2. /\ r \in SyncType /\ r.pc = "compare" /\ r.at = {} /\ r.rows = installed /\ r.marks = badge
  BY StoreTypes, NoSyncType DEF SyncType
<1> HIDE DEF r
<1>3. GoodSync(r)
  BY <1>2, StoreTypes DEF GoodSync, Comparing, RightBadge
<1> QED BY <1>1, <1>2, <1>3, SyncStep DEF BeginCheck

LEMMA ListInstalledStep ==
  ASSUME StoreInv, NEW p \in Syncers, ListInstalled(p)
  PROVE  StoreInv'
<1> DEFINE calm == sync[p].calm
           r == [NoSync EXCEPT !.pc = "compare", !.rows = installed, !.marks = badge, !.calm = calm]
<1>1. sync' = [sync EXCEPT ![p] = r]
  BY DEF ListInstalled
<1>2. calm \in BOOLEAN
  BY StoreTypes DEF SyncType
<1> HIDE DEF calm
<1>3. /\ r \in SyncType /\ r.pc = "compare" /\ r.at = {} /\ r.rows = installed /\ r.marks = badge
  BY <1>2, StoreTypes, NoSyncType DEF SyncType
<1> HIDE DEF r
<1>4. GoodSync(r)
  BY <1>3, StoreTypes DEF GoodSync, Comparing, RightBadge
<1> QED BY <1>1, <1>3, <1>4, SyncStep DEF ListInstalled

LEMMA CheckUpdatesStep ==
  ASSUME StoreInv, NEW p \in Syncers, CheckUpdates(p)
  PROVE  StoreInv'
<1> DEFINE s == sync[p]
<1>1. PICK n \in Having(s.rows) :
        sync' = IF newer(n, s.rows[n]) = 0 /\ s.marks[n] = 0
                THEN [sync EXCEPT ![p].rows[n] = 0]
                ELSE [sync EXCEPT ![p].pc = "badge", ![p].at = {n},
                                  ![p].entry.version = newer(n, s.rows[n])]
  BY DEF CheckUpdates
<1> DEFINE v == newer(n, s.rows[n])
<1>2. /\ s \in SyncType /\ GoodSync(s) /\ s.pc = "compare" /\ s.at = {} /\ s.rows \in [ModuleNames -> Nat]
      /\ s.entry \in Entries /\ n \in ModuleNames /\ s.rows[n] # 0
  BY <1>1, StoreTypes DEF CheckUpdates, SyncType, GoodSync, Having
<1>3. v \in Nat /\ (s.rows[n] = installed[n] => v = RightBadge(n))
  <2>1. registry[n].version \in Nat
    BY <1>2, StoreTypes DEF Entries
  <2> QED BY <1>2, <2>1 DEF newer, GetEntry, RightBadge
<1> HIDE DEF v
<1>4. CASE v = 0 /\ s.marks[n] = 0
  <2> DEFINE rows == [s.rows EXCEPT ![n] = 0]
             r == [s EXCEPT !.rows = rows]
  <2>1. sync' = [sync EXCEPT ![p] = r]
    BY <1>1, <1>4, StoreTypes DEF v
  <2>2. rows \in [ModuleNames -> Nat] /\ \A m \in ModuleNames : rows[m] = IF m = n THEN 0 ELSE s.rows[m]
    BY <1>2
  <2> HIDE DEF s, rows
  <2>3. r \in SyncType /\ r.pc = "compare" /\ r.at = {} /\ r.calm = s.calm /\ r.rows = rows /\ r.marks = s.marks
    BY <1>2, <2>2 DEF SyncType
  <2> HIDE DEF r
  <2>4. r.calm => Comparing(r)
    BY <1>2, <1>3, <1>4, <2>2, <2>3 DEF GoodSync, Comparing
  <2>5. GoodSync(r)
    BY <2>3, <2>4 DEF GoodSync
  <2> QED BY <2>1, <2>3, <2>5, SyncStep DEF CheckUpdates
<1>5. CASE ~(v = 0 /\ s.marks[n] = 0)
  <2> DEFINE entry == [s.entry EXCEPT !.version = v]
             r == [s EXCEPT !.pc = "badge", !.at = {n}, !.entry = entry]
  <2>1. sync' = [sync EXCEPT ![p] = r]
    BY <1>1, <1>5, StoreTypes DEF v
  <2>2. entry \in Entries /\ entry.version = v
    BY <1>2, <1>3 DEF Entries
  <2> HIDE DEF s, entry
  <2>3. /\ r \in SyncType /\ r.pc = "badge" /\ r.at = {n} /\ r.calm = s.calm /\ r.rows = s.rows
        /\ r.marks = s.marks /\ r.entry = entry
    BY <1>2, <2>2 DEF SyncType
  <2> HIDE DEF r
  <2>4. r.calm => Comparing(r) /\ r.rows[n] # 0 /\ entry.version = RightBadge(n)
    BY <1>2, <1>3, <2>2, <2>3 DEF GoodSync, Comparing
  <2>5. GoodSync(r)
    BY <1>2, <2>3, <2>4 DEF GoodSync
  <2> QED BY <2>1, <2>3, <2>5, SyncStep DEF CheckUpdates
<1> QED BY <1>4, <1>5

LEMMA SetModuleAvailableVersionStep ==
  ASSUME StoreInv, NEW p \in Syncers, SetModuleAvailableVersion(p)
  PROVE  StoreInv'
<1> DEFINE s == sync[p]
           v == s.entry.version
<1>1. PICK n \in s.at :
        /\ badge' = IF installed[n] # 0 THEN [badge EXCEPT ![n] = v] ELSE badge
        /\ sync' = Disturb(p, [s EXCEPT !.pc = "compare", !.rows[n] = 0, !.at = {},
                                 !.updates = IF v # 0 THEN @ \cup {n} ELSE @, !.entry = NoEntry])
  BY DEF SetModuleAvailableVersion
<1> DEFINE rows == [s.rows EXCEPT ![n] = 0]
           updates == IF v # 0 THEN s.updates \cup {n} ELSE s.updates
           r == [s EXCEPT !.pc = "compare", !.rows = rows, !.at = {}, !.updates = updates,
                          !.entry = NoEntry]
<1>2. /\ s \in SyncType /\ GoodSync(s) /\ s.pc = "badge" /\ s.rows \in [ModuleNames -> Nat]
      /\ s.entry \in Entries /\ s.updates \subseteq ModuleNames /\ NoEntry \in Entries
      /\ n \in ModuleNames /\ s.at = {n} /\ v \in Nat
  <2>1. /\ s \in SyncType /\ GoodSync(s) /\ s.pc = "badge" /\ NoEntry \in Entries
    BY StoreTypes, EntryTypes DEF SetModuleAvailableVersion
  <2>2. /\ s.rows \in [ModuleNames -> Nat] /\ s.entry \in Entries /\ s.updates \subseteq ModuleNames
        /\ s.at \subseteq ModuleNames
    BY <2>1 DEF SyncType
  <2>3. s.at = {n} /\ n \in ModuleNames
    BY <1>1, <2>1, <2>2 DEF GoodSync
  <2>4. v \in Nat
    BY <2>2 DEF Entries
  <2> QED BY <2>1, <2>2, <2>3, <2>4
<1>3. sync' = Disturb(p, r)
  BY <1>1
<1>4. /\ badge' \in [ModuleNames -> Nat]
      /\ \A m \in ModuleNames : badge'[m] = IF m = n /\ installed[n] # 0 THEN v ELSE badge[m]
  BY <1>1, <1>2, StoreTypes
<1>5. /\ rows \in [ModuleNames -> Nat] /\ updates \subseteq ModuleNames
      /\ \A m \in ModuleNames : rows[m] = IF m = n THEN 0 ELSE s.rows[m]
  BY <1>2
<1> HIDE DEF s, v, rows, updates
<1>6. r \in SyncType /\ r.pc = "compare" /\ r.at = {} /\ r.calm = s.calm /\ r.rows = rows /\ r.marks = s.marks
  BY <1>2, <1>5 DEF SyncType
<1> HIDE DEF r
<1>7. UNCHANGED <<table, registry, installed, edit>>
  BY DEF SetModuleAvailableVersion
<1>8. ASSUME sync'[p] = r PROVE GoodSync(sync[p])'
  <2>1. r.calm => Comparing(sync[p])'
    <3> SUFFICES ASSUME r.calm, NEW m \in ModuleNames
                 PROVE  IF rows[m] # 0 THEN rows[m] = installed[m] /\ s.marks[m] = badge'[m]
                        ELSE badge'[m] = RightBadge(m)
      BY <1>6, <1>7, <1>8 DEF Comparing, RightBadge
    <3>1. Comparing(s) /\ s.rows[n] # 0 /\ v = RightBadge(n)
      BY <1>2, <1>6 DEF GoodSync, v
    <3>2. installed[n] # 0 /\ badge'[n] = v
      BY <1>2, <1>4, <3>1 DEF Comparing
    <3>3. CASE m = n
      BY <1>5, <3>1, <3>2, <3>3
    <3>4. CASE m # n
      BY <1>4, <1>5, <3>1, <3>4 DEF Comparing
    <3> QED BY <3>3, <3>4
  <2> QED BY <1>6, <1>8, <2>1 DEF GoodSync
<1>9. \A m \in ModuleNames : installed'[m] = 0 => badge'[m] = 0
  BY <1>4, <1>7, StoreTypes
<1> QED BY <1>3, <1>4, <1>6, <1>7, <1>8, <1>9, StoreTypes, WriteStep

LEMMA AutoBeginStep ==
  ASSUME StoreInv, NEW p \in Syncers, AutoBegin(p)
  PROVE  StoreInv'
<1> DEFINE s == sync[p]
           updates == IF s.auto THEN s.updates ELSE {}
           r == [s EXCEPT !.pc = "auto", !.marks = Nothing, !.updates = updates]
<1>1. sync' = [sync EXCEPT ![p] = r]
  BY StoreTypes DEF AutoBegin
<1>2. /\ s \in SyncType /\ GoodSync(s) /\ s.pc = "compare" /\ (\A n \in ModuleNames : s.rows[n] = 0)
      /\ updates \subseteq ModuleNames /\ Nothing \in [ModuleNames -> Nat]
  BY StoreTypes, EntryTypes DEF AutoBegin, SyncType, Having
<1> HIDE DEF s, updates
<1>3. r \in SyncType /\ r.pc = "auto" /\ r.calm = s.calm
  BY <1>2 DEF SyncType
<1> HIDE DEF r
<1>4. GoodSync(r)
  BY <1>2, <1>3 DEF GoodSync, Comparing
<1> QED BY <1>1, <1>3, <1>4, SyncStep DEF AutoBegin

LEMMA RunAutoUpdatesStep ==
  ASSUME StoreInv, NEW p \in Syncers, RunAutoUpdates(p)
  PROVE  StoreInv'
<1> DEFINE s == sync[p]
<1>1. PICK n \in s.updates :
        sync' = IF n \in autoUpdate
                THEN [sync EXCEPT ![p].updates = @ \ {n},
                        ![p].at = {n}, ![p].entry = GetEntry(n), ![p].pc = "apply"]
                ELSE [sync EXCEPT ![p].updates = @ \ {n}]
  BY DEF RunAutoUpdates
<1> DEFINE updates == s.updates \ {n}
           entry == registry[n]
<1>2. /\ s \in SyncType /\ GoodSync(s) /\ s.pc = "auto" /\ n \in ModuleNames /\ updates \subseteq ModuleNames
      /\ entry \in Entries
  BY StoreTypes DEF RunAutoUpdates, SyncType
<1>3. CASE n \in autoUpdate
  <2> DEFINE r == [s EXCEPT !.updates = updates, !.at = {n}, !.entry = entry, !.pc = "apply"]
  <2>1. sync' = [sync EXCEPT ![p] = r]
    BY <1>1, <1>3, StoreTypes DEF GetEntry
  <2> HIDE DEF s, updates, entry
  <2>2. r \in SyncType /\ r.pc = "apply" /\ r.at = {n} /\ r.entry = entry /\ r.calm = s.calm
    BY <1>2 DEF SyncType
  <2> HIDE DEF r
  <2>3. GoodSync(r)
    BY <1>2, <2>2 DEF GoodSync, entry
  <2> QED BY <2>1, <2>2, <2>3, SyncStep DEF RunAutoUpdates
<1>4. CASE n \notin autoUpdate
  <2> DEFINE r == [s EXCEPT !.updates = updates]
  <2>1. sync' = [sync EXCEPT ![p] = r]
    BY <1>1, <1>4, StoreTypes
  <2> HIDE DEF s, updates
  <2>2. r \in SyncType /\ r.pc = "auto" /\ r.calm = s.calm
    BY <1>2 DEF SyncType
  <2> HIDE DEF r
  <2>3. GoodSync(r)
    BY <1>2, <2>2 DEF GoodSync
  <2> QED BY <2>1, <2>2, <2>3, SyncStep DEF RunAutoUpdates
<1> QED BY <1>3, <1>4

LEMMA AutoUpdateStep ==
  ASSUME StoreInv, NEW p \in Syncers, AutoUpdate(p)
  PROVE  StoreInv'
<1> DEFINE s == sync[p]
           r == [s EXCEPT !.pc = "auto", !.at = {}, !.entry = NoEntry]
<1>1. s \in SyncType /\ GoodSync(s) /\ s.pc = "apply" /\ NoEntry \in Entries /\ s.entry.version \in Nat
  BY StoreTypes, EntryTypes DEF AutoUpdate, SyncType, Entries
<1>2. UNCHANGED <<table, registry, edit>>
  BY DEF AutoUpdate
<1> HIDE DEF s
<1>3. r \in SyncType /\ r.pc = "auto" /\ r.at = {} /\ r.calm = s.calm
  BY <1>1 DEF SyncType
<1>4. CASE sync' = [sync EXCEPT ![p] = r] /\ UNCHANGED <<installed, badge>>
  <2>1. GoodSync(r)
    BY <1>1, <1>3 DEF GoodSync
  <2> QED BY <1>2, <1>3, <1>4, <2>1, SyncStep
<1>5. ASSUME NEW n \in s.at, installed' = [installed EXCEPT ![n] = s.entry.version],
             badge' = [badge EXCEPT ![n] = 0], sync' = Disturb(p, r)
      PROVE  StoreInv'
  <2> HIDE DEF r
  <2>1. n \in ModuleNames /\ s.at = {n}
    BY <1>1, <1>5 DEF GoodSync
  <2>2. /\ installed' \in [ModuleNames -> Nat] /\ badge' \in [ModuleNames -> Nat]
        /\ \A m \in ModuleNames : /\ installed'[m] = IF m = n THEN s.entry.version ELSE installed[m]
                                  /\ badge'[m] = IF m = n THEN 0 ELSE badge[m]
    BY <1>1, <1>5, StoreTypes
  <2>3. \A m \in ModuleNames : installed'[m] = 0 => badge'[m] = 0
    BY <2>2, StoreTypes
  <2>4. ASSUME sync'[p] = r PROVE GoodSync(sync[p])'
    <3>1. ASSUME r.calm, NEW m \in ModuleNames PROVE (badge[m] = RightBadge(m))'
      <4>1. badge[m] = RightBadge(m) /\ s.entry = registry[n]
        BY <1>1, <1>3, <2>1, <3>1 DEF GoodSync
      <4> QED BY <1>2, <2>2, <4>1 DEF RightBadge
    <3> QED BY <1>3, <2>4, <3>1 DEF GoodSync
  <2> QED BY <1>2, <1>3, <1>5, <2>2, <2>3, <2>4, StoreTypes, WriteStep
<1>6. \/ sync' = [sync EXCEPT ![p] = r] /\ UNCHANGED <<installed, badge>>
      \/ \E n \in s.at : /\ installed' = [installed EXCEPT ![n] = s.entry.version]
                         /\ badge' = [badge EXCEPT ![n] = 0] /\ sync' = Disturb(p, r)
  BY StoreTypes DEF AutoUpdate, s
<1> HIDE DEF r
<1> QED BY <1>4, <1>5, <1>6

LEMMA SyncEnds ==
  ASSUME StoreInv, NEW p \in Syncers, EndSync(p) \/ AbandonSync(p)
  PROVE  StoreInv'
BY NoSyncType, SyncStep DEF EndSync, AbandonSync

-----------------------------------------------------------------------------
(* Admin requests *)

LEMMA AdminTypes ==
  /\ NoAdminEdit \in AdminType
  /\ \A e \in AdminType : \A names \in SUBSET ModuleNames : [e EXCEPT !.todo = names] \in AdminType
<1>1. Official \in SourceRows /\ NoEntry \in Entries
  BY StoreConstants, EntryTypes
<1>2. NoAdminEdit \in AdminType
  BY <1>1 DEF AdminType, NoAdminEdit
<1> QED BY <1>2 DEF AdminType

LEMMA AddCustomSourceStep ==
  ASSUME StoreInv, NEW repo \in Repos, NEW key \in PubKeys, AddCustomSource(repo, key)
  PROVE  StoreInv'
<1> DEFINE row == [repo |-> repo, key |-> key]
           e == [NoAdminEdit EXCEPT !.pc = "fetch", !.row = row]
<1>1. row \in CustomRows /\ row \in SourceRows
  BY DEF CustomRows, SourceRows
<1>2. edit' = e /\ table' = Append(table, row) /\ UNCHANGED <<registry, installed, badge, sync>>
  BY DEF AddCustomSource, BeginEdit, CreateCustomSource
<1> HIDE DEF row
<1>3. e \in AdminType
  BY <1>1, AdminTypes DEF AdminType
<1>4. table' \in Seq(CustomRows)
  BY <1>1, <1>2, StoreTypes
<1> QED BY <1>2, <1>3, <1>4, AdminStep

LEMMA UpdateCustomSourceStep ==
  ASSUME StoreInv, NEW i \in DOMAIN table, NEW key \in PubKeys, UpdateCustomSource(i, key)
  PROVE  StoreInv'
<1>1. table \in Seq(CustomRows) /\ i \in 1 .. Len(table) /\ table[i] \in CustomRows
  BY StoreTypes
<1>2. [table[i] EXCEPT !.key = key] \in CustomRows
  BY <1>1 DEF CustomRows
<1>3. table' = [table EXCEPT ![i] = [table[i] EXCEPT !.key = key]]
      /\ UNCHANGED <<registry, installed, badge, sync, edit>>
  BY <1>1 DEF UpdateCustomSource
<1>4. table' \in Seq(CustomRows)
  BY <1>1, <1>2, <1>3
<1> QED BY <1>3, <1>4, StoreTypes, AdminStep

LEMMA DeleteCustomSourceStep ==
  ASSUME StoreInv, NEW i \in DOMAIN table, DeleteCustomSource(i)
  PROVE  StoreInv'
<1> DEFINE row == table[i]
           e == [NoAdminEdit EXCEPT !.pc = "list", !.row = row]
<1>1. table \in Seq(CustomRows) /\ i \in 1 .. Len(table) /\ row \in CustomRows /\ row \in SourceRows
  BY StoreTypes, StoreConstants
<1>2. /\ edit' = e /\ table' = SubSeq(table, 1, i - 1) \o SubSeq(table, i + 1, Len(table))
      /\ UNCHANGED <<registry, installed, badge, sync>>
  BY DEF DeleteCustomSource, BeginEdit
<1> HIDE DEF row
<1>3. e \in AdminType
  BY <1>1, AdminTypes DEF AdminType
<1>4. table' \in Seq(CustomRows)
  <2>1. SubSeq(table, 1, i - 1) \in Seq(CustomRows) /\ SubSeq(table, i + 1, Len(table)) \in Seq(CustomRows)
    BY <1>1
  <2> QED BY <1>2, <2>1
<1> QED BY <1>2, <1>3, <1>4, AdminStep

LEMMA AddFetchStep ==
  ASSUME StoreInv, AddFetch
  PROVE  StoreInv'
<1>1. PICK names \in Answers(edit.row.repo) \cup {{}} :
        edit' = IF names = {} THEN NoAdminEdit ELSE [edit EXCEPT !.pc = "upsert", !.todo = names]
  BY DEF AddFetch
<1>2. names \subseteq ModuleNames
  BY DEF Answers, FetchCustomRepo
<1>3. edit' \in AdminType
  BY <1>1, <1>2, StoreTypes, AdminTypes DEF AdminType
<1> QED BY <1>3, StoreTypes, AdminStep DEF AddFetch

LEMMA AddUpsertStep ==
  ASSUME StoreInv, AddUpsert
  PROVE  StoreInv'
<1>1. PICK n \in edit.todo, v \in Versions(edit.row.repo) :
        /\ registry' = [registry EXCEPT ![n] = EntryOf(edit.row, v)]
        /\ edit' = IF edit.todo = {n} THEN NoAdminEdit ELSE [edit EXCEPT !.todo = @ \ {n}]
  BY DEF AddUpsert
<1>2. edit.row \in SourceRows /\ edit.todo \subseteq ModuleNames /\ edit \in AdminType
  BY StoreTypes DEF AdminType
<1>3. registry' \in [ModuleNames -> Entries]
  BY <1>1, <1>2, EntryTypes, StoreTypes
<1>4. edit' \in AdminType
  BY <1>1, <1>2, AdminTypes
<1> QED BY <1>3, <1>4, StoreTypes, AdminWrite DEF AddUpsert

LEMMA DeleteEntriesBySourceRepoStep ==
  ASSUME StoreInv, DeleteEntriesBySourceRepo
  PROVE  StoreInv'
<1> DEFINE names == {n \in ModuleNames : registry[n].repo = edit.row.repo}
<1>1. edit' = IF names = {} THEN NoAdminEdit ELSE [edit EXCEPT !.pc = "delete", !.todo = names]
  BY DEF DeleteEntriesBySourceRepo
<1>2. names \subseteq ModuleNames
  OBVIOUS
<1> HIDE DEF names
<1>3. edit' \in AdminType
  BY <1>1, <1>2, StoreTypes, AdminTypes DEF AdminType
<1> QED BY <1>3, StoreTypes, AdminStep DEF DeleteEntriesBySourceRepo

LEMMA DeleteEntryStep ==
  ASSUME StoreInv, DeleteEntry
  PROVE  StoreInv'
<1>1. PICK n \in edit.todo :
        /\ registry' = IF installed[n] # 0 THEN registry ELSE [registry EXCEPT ![n] = NoEntry]
        /\ edit' = IF edit.todo = {n} THEN NoAdminEdit ELSE [edit EXCEPT !.todo = @ \ {n}]
  BY DEF DeleteEntry
<1>2. edit.todo \subseteq ModuleNames /\ edit \in AdminType
  BY StoreTypes DEF AdminType
<1>3. registry' \in [ModuleNames -> Entries]
  BY <1>1, EntryTypes, StoreTypes
<1>4. edit' \in AdminType
  BY <1>1, <1>2, AdminTypes
<1> QED BY <1>3, <1>4, StoreTypes, AdminWrite DEF DeleteEntry

LEMMA BeginInstallStep ==
  ASSUME StoreInv, NEW n \in ModuleNames, BeginInstall(n)
  PROVE  StoreInv'
<1> DEFINE entry == registry[n]
           e == [NoAdminEdit EXCEPT !.pc = "install", !.todo = {n}, !.entry = entry]
<1>1. edit' = e /\ UNCHANGED <<table, registry, installed, badge, sync>> /\ entry \in Entries
  BY StoreTypes DEF BeginInstall, BeginEdit, GetEntry
<1> HIDE DEF entry
<1>2. e \in AdminType
  BY <1>1, AdminTypes DEF AdminType
<1> QED BY <1>1, <1>2, StoreTypes, AdminStep

LEMMA EndInstallStep ==
  ASSUME StoreInv, EndInstall
  PROVE  StoreInv'
<1>1. PICK n \in edit.todo :
        installed' = [installed EXCEPT ![n] = edit.entry.version] /\ badge' = [badge EXCEPT ![n] = 0]
  BY DEF EndInstall
<1>2. n \in ModuleNames /\ edit.entry.version \in Nat
  BY StoreTypes DEF AdminType, Entries
<1>3. /\ installed' \in [ModuleNames -> Nat] /\ badge' \in [ModuleNames -> Nat]
      /\ \A m \in ModuleNames : /\ m # n => installed'[m] = installed[m]
                                /\ badge'[m] = IF m = n THEN 0 ELSE badge[m]
  BY <1>1, <1>2, StoreTypes
<1>4. \A m \in ModuleNames : installed'[m] = 0 => badge'[m] = 0
  BY <1>3, StoreTypes
<1>5. edit' \in AdminType /\ UNCHANGED <<table, registry>> /\ sync' = DisturbAll
  BY AdminTypes DEF EndInstall
<1> QED BY <1>3, <1>4, <1>5, StoreTypes, AdminWrite

LEMMA UninstallStep ==
  ASSUME StoreInv, NEW n \in ModuleNames, Uninstall(n)
  PROVE  StoreInv'
<1>1. installed' = [installed EXCEPT ![n] = 0] /\ badge' = [badge EXCEPT ![n] = 0]
  BY DEF Uninstall
<1>2. /\ installed' \in [ModuleNames -> Nat] /\ badge' \in [ModuleNames -> Nat]
      /\ \A m \in ModuleNames : /\ m # n => installed'[m] = installed[m]
                                /\ badge'[m] = IF m = n THEN 0 ELSE badge[m]
  BY <1>1, StoreTypes
<1>3. \A m \in ModuleNames : installed'[m] = 0 => badge'[m] = 0
  BY <1>2, StoreTypes
<1> QED BY <1>2, <1>3, StoreTypes, AdminWrite DEF Uninstall

LEMMA FlagStep ==
  ASSUME StoreInv, NEW n \in ModuleNames, Flag(n)
  PROVE  StoreInv'
BY StoreTypes, AdminStep DEF Flag

LEMMA StoreNextInv == StoreInv /\ [StoreNext]_storeVars => StoreInv'
<1> SUFFICES ASSUME StoreInv, [StoreNext]_storeVars
             PROVE  StoreInv'
  OBVIOUS
<1>1. ASSUME NEW p \in Syncers,
             \/ BeginSync(p) \/ FetchFails(p) \/ FetchSource(p) \/ UpsertEntry(p) \/ ListCustomSources(p)
             \/ WriteFails(p) \/ pruneStaleEntries(p) \/ PruneCheck(p) \/ PruneDelete(p)
             \/ BeginCheck(p) \/ ListInstalled(p) \/ CheckUpdates(p) \/ SetModuleAvailableVersion(p)
             \/ AutoBegin(p) \/ RunAutoUpdates(p) \/ AutoUpdate(p) \/ EndSync(p) \/ AbandonSync(p)
      PROVE  StoreInv'
  BY <1>1, BeginSyncStep, FetchFailsStep, FetchSourceStep, UpsertEntryStep, ListCustomSourcesStep,
     WriteFailsStep, pruneStaleEntriesStep, PruneCheckStep, PruneDeleteStep, BeginCheckStep,
     ListInstalledStep, CheckUpdatesStep, SetModuleAvailableVersionStep, AutoBeginStep,
     RunAutoUpdatesStep, AutoUpdateStep, SyncEnds
<1>2. ASSUME NEW n \in ModuleNames,
             BeginInstall(n) \/ Uninstall(n) \/ Pin(n) \/ Unpin(n) \/ AutoUpdateOn(n) \/ AutoUpdateOff(n)
      PROVE  StoreInv'
  BY <1>2, BeginInstallStep, UninstallStep, FlagStep DEF Pin, Unpin, AutoUpdateOn, AutoUpdateOff
<1>3. CASE \/ \E repo \in Repos, key \in PubKeys : AddCustomSource(repo, key)
           \/ \E i \in DOMAIN table, key \in PubKeys : UpdateCustomSource(i, key)
           \/ \E i \in DOMAIN table : DeleteCustomSource(i)
  BY <1>3, AddCustomSourceStep, UpdateCustomSourceStep, DeleteCustomSourceStep
<1>4. CASE AddFetch \/ AddUpsert \/ DeleteEntriesBySourceRepo \/ DeleteEntry \/ EndInstall
  BY <1>4, AddFetchStep, AddUpsertStep, DeleteEntriesBySourceRepoStep, DeleteEntryStep, EndInstallStep
<1>5. CASE EditFails
  BY <1>5, StoreTypes, AdminTypes, AdminStep DEF EditFails
<1>6. CASE UNCHANGED storeVars
  BY <1>6, StoreTypes, AdminStep DEF storeVars
<1> QED BY <1>1, <1>2, <1>3, <1>4, <1>5, <1>6 DEF StoreNext

LEMMA StoreInvariant == StoreSpec => []StoreInv
<1>1. StoreInit => StoreInv
  BY StoreStart
<1> QED BY <1>1, StoreNextInv, PTL DEF StoreSpec

(* After a sync that some source answered, whose writes succeeded, and that  *)
(* nobody interfered with, the store holds what the answering sources list,  *)
(* the last one winning, and of the rest only what is installed; syncAll and *)
(* pruneStaleEntries, over any number of sources, modules and syncs.         *)
THEOREM CatalogueAlwaysMatches == StoreSpec => []CatalogueMatches
<1>1. StoreInv => CatalogueMatches
  <2> SUFFICES ASSUME StoreInv, NEW p \in Syncers, Pruned(sync[p]), sync[p].calm, sync[p].answered,
                      NEW n \in ModuleNames
               PROVE  \/ registry[n] = sync[p].want[n]
                      \/ sync[p].want[n] = NoEntry /\ installed[n] # 0
    BY DEF CatalogueMatches
  <2> QED BY StoreTypes DEF Pruned, GoodSync, Pruning
<1> QED BY <1>1, StoreInvariant, PTL

(* After an update check that nobody interfered with, a module is marked     *)
(* exactly when the store has another version of it, and with that one;      *)
(* CheckUpdates and the automatic updates that follow it.                    *)
THEOREM BadgesAlwaysMatch == StoreSpec => []BadgesMatch
<1>1. StoreInv => BadgesMatch
  <2> SUFFICES ASSUME StoreInv, NEW p \in Syncers, Checked(sync[p]), sync[p].calm, NEW n \in ModuleNames
               PROVE  badge[n] = RightBadge(n)
    BY DEF BadgesMatch, RightBadge
  <2> QED BY StoreTypes DEF Checked, GoodSync
<1> QED BY <1>1, StoreInvariant, PTL

-----------------------------------------------------------------------------
(* The GeoIP databases *)

GeoKinds == {"idle", "configure", "delete", "scheduled"}
AtWork == {"download", "check", "fetch", "copy", "rename", "fail", "ok1", "ok2", "kept"}

OpType == [kind : GeoKinds, pc : AtWork \cup {"idle", "save", "clear"}, todo : SUBSET Keys,
           ed : 1 .. Len(Editions), rel : 0 .. MaxRelease, fd : Inodes \cup {None},
           failed : BOOLEAN, live : BOOLEAN]
Handles == [ino : Inodes \cup {None}, id : Nat]
ReaderType == [h : Handles, mtime : Nat]
LookType == [pc : {"idle", "stat", "lock", "use"}, ed : Names, h : Handles, seen : Nat, since : Nat]

GeoTypeOK ==
  /\ settings \subseteq Keys /\ release \in 1 .. MaxRelease
  /\ tmp \in [Names -> Inodes \cup {None}] /\ file \in [Names -> Inodes \cup {None}]
  /\ data \in [Inodes -> 0 .. MaxRelease] /\ mtime \in [Inodes -> Nat] /\ clock \in Nat
  /\ op \in [Ops -> OpType] /\ readers \in [Names -> ReaderType] /\ look \in [Lookups -> LookType]
  /\ audited \in {"none", "failed", "succeeded", "uncleared"} /\ overlapped \in BOOLEAN

Path(o) == Editions[o.ed]
Solo == \A g, h \in Ops : op[g].pc \in AtWork /\ op[h].pc \in AtWork => g = h

(* What a download has open is the temporary file of its edition, with the   *)
(* newest release; and it has replaced the editions before that one.         *)
Holds(o) ==
  /\ IF o.pc \in {"copy", "rename"}
     THEN o.fd # None /\ tmp[Path(o)] = o.fd /\ o.rel = release
     ELSE o.fd = None
  /\ o.pc = "save" => o.todo \subseteq {"account", "license"}

Replaced(o) ==
  /\ o.pc \notin {"fetch", "copy", "rename", "fail", "ok1", "ok2", "kept"} => o.ed = 1
  /\ (o.pc \in {"fetch", "copy", "rename"} /\ ~o.failed) =>
       \A k \in 1 .. Len(Editions) : k < o.ed => file[Editions[k]] # None
  /\ o.pc \in {"ok1", "ok2", "kept"} => \A e \in Names : file[e] # None

(* A file about to be renamed is complete, and newer than whatever a reader  *)
(* or a lookup may have seen.                                                *)
Complete(o) ==
  o.pc = "rename" =>
    /\ data[o.fd] = release
    /\ \A e \in Names : readers[e].mtime < mtime[o.fd]
                        /\ (file[e] # None => mtime[file[e]] < mtime[o.fd])
    /\ \A l \in Lookups : look[l].seen < mtime[o.fd]

(* A temporary file is nobody else's.                                        *)
Private(e) ==
  tmp[e] # None =>
    /\ \A f \in Names : /\ tmp[f] = tmp[e] => f = e
                        /\ tmp[e] # file[f] /\ tmp[e] # readers[f].h.ino
    /\ \A l \in Lookups : tmp[e] # look[l].h.ino

(* What was opened when the file's modification time was m holds at least    *)
(* what the file holds as long as it is not modified after m.                *)
UpToDate(h, m, e) ==
  h # Closed =>
    /\ h.ino # None /\ data[h.ino] # 0 /\ file[e] # None
    /\ mtime[file[e]] <= m => data[file[e]] <= data[h.ino]

GoodName(e) ==
  /\ Private(e)
  /\ file[e] # None => data[file[e]] # 0
  /\ readers[e].mtime <= clock
  /\ UpToDate(readers[e].h, readers[e].mtime, e)

(* A lookup began with a file no newer than the one that is there now, and   *)
(* if another has reopened the file as this one saw it, not an older one.    *)
GoodLook(l) ==
  /\ look[l].seen <= clock
  /\ look[l].pc = "stat" => UpToDate(look[l].h, look[l].seen, look[l].ed)
  /\ look[l].pc \in {"stat", "lock"} => look[l].since <= Content(file[look[l].ed])
  /\ look[l].pc \in {"idle", "lock"} => look[l].h = Closed
  /\ look[l].pc = "lock" =>
       LET r == readers[look[l].ed]
       IN (r.h # Closed /\ r.mtime = look[l].seen) => data[r.h.ino] >= look[l].since
  /\ look[l].pc = "use" =>
       look[l].h.ino # None /\ data[look[l].h.ino] # 0 /\ data[look[l].h.ino] >= look[l].since

(* The page's two lines: what they say was true when the last download ended.*)
Status ==
  /\ "lastError" \in settings => audited \in {"failed", "uncleared"}
  /\ \A g \in Ops : (op[g].pc = "ok2" /\ op[g].live) => "lastError" \notin settings
  /\ "lastUpdate" \in settings => \A e \in Names : file[e] # None

GeoInv ==
  /\ GeoTypeOK
  /\ ~overlapped =>
       /\ Solo /\ Status
       /\ \A i \in Inodes : data[i] <= release /\ mtime[i] <= clock
       /\ \A g \in Ops : Holds(op[g]) /\ Replaced(op[g]) /\ Complete(op[g])
       /\ \A e \in Names : GoodName(e)
       /\ \A l \in Lookups : GoodLook(l)

-----------------------------------------------------------------------------
LEMMA EditionNames ==
  /\ Len(Editions) \in Nat \ {0} /\ 1 \in 1 .. Len(Editions)
  /\ \A k \in 1 .. Len(Editions) : Editions[k] \in Names
  /\ \A e \in Names : \E k \in 1 .. Len(Editions) : e = Editions[k]
BY GeoAssumption DEF Names

LEMMA PathNamed == \A o \in OpType : Path(o) \in Names
BY EditionNames DEF OpType, Path

LEMMA IdleType == Idle \in OpType /\ Idle.pc = "idle" /\ Idle.fd = None /\ Idle.live /\ Idle.ed = 1
<1>1. Idle \in OpType
  BY EditionNames, GeoAssumption DEF Idle, OpType, GeoKinds
<1> QED BY <1>1 DEF Idle

LEMMA HandleTypes ==
  /\ Closed \in Handles /\ Closed.ino = None
  /\ NoReader \in ReaderType /\ NoReader.h = Closed /\ NoReader.mtime = 0
  /\ NoLook \in LookType /\ NoLook.h = Closed /\ NoLook.pc = "idle" /\ NoLook.seen = 0
<1>1. Closed \in Handles /\ Closed.ino = None
  BY DEF Closed, Handles
<1>2. Editions[1] \in Names
  BY EditionNames
<1> QED BY <1>1, <1>2 DEF NoReader, ReaderType, NoLook, LookType

(* What an operation looks like with one field changed.                      *)
LEMMA PcChanged ==
  ASSUME NEW r \in OpType, NEW pc \in AtWork \cup {"idle", "save", "clear"}
  PROVE  LET s == [r EXCEPT !.pc = pc]
         IN /\ s \in OpType /\ s.pc = pc /\ s.fd = r.fd /\ s.ed = r.ed /\ s.rel = r.rel
            /\ s.failed = r.failed /\ s.live = r.live
BY DEF OpType

LEMMA NextEditionFields ==
  ASSUME NEW r \in OpType, NEW bad \in BOOLEAN
  PROVE  LET s == NextEdition(r, bad)
         IN /\ s \in OpType /\ s.fd = None /\ s.pc \in {"fetch", "fail", "ok1"}
            /\ s.pc = "fetch" => s.ed = r.ed + 1 /\ s.failed = (r.failed \/ bad)
            /\ s.pc = "ok1" => r.ed = Len(Editions) /\ ~r.failed /\ ~bad
            /\ s.live = r.live
<1> DEFINE s == NextEdition(r, bad)
           failed == r.failed \/ bad
<1>0. /\ r.ed \in 1 .. Len(Editions) /\ r.failed \in BOOLEAN /\ Len(Editions) \in Nat
      /\ failed \in BOOLEAN
  BY EditionNames DEF OpType
<1>1. CASE r.ed < Len(Editions)
  <2>1. s = [r EXCEPT !.pc = "fetch", !.ed = r.ed + 1, !.failed = failed, !.fd = None]
    BY <1>1 DEF NextEdition
  <2>2. r.ed + 1 \in 1 .. Len(Editions)
    BY <1>0, <1>1
  <2> HIDE DEF failed
  <2>3. s \in OpType /\ s.pc = "fetch" /\ s.ed = r.ed + 1 /\ s.failed = failed /\ s.fd = None
        /\ s.live = r.live
    BY <1>0, <2>1, <2>2 DEF OpType, AtWork
  <2> QED BY <2>3 DEF failed
<1>2. CASE ~(r.ed < Len(Editions))
  <2>1. s = [r EXCEPT !.pc = IF failed THEN "fail" ELSE "ok1", !.failed = failed, !.fd = None]
    BY <1>2 DEF NextEdition
  <2>2. r.ed = Len(Editions)
    BY <1>0, <1>2
  <2> HIDE DEF failed
  <2>3. /\ s \in OpType /\ s.pc = (IF failed THEN "fail" ELSE "ok1") /\ s.fd = None
        /\ s.live = r.live
    BY <1>0, <2>1 DEF OpType, AtWork
  <2> QED BY <2>2, <2>3 DEF failed
<1> QED BY <1>1, <1>2

-----------------------------------------------------------------------------
LEMMA GeoStart ==
  ASSUME GeoInit
  PROVE  GeoInv
<1> USE DEF GeoInit
<1>1. GeoTypeOK
  <2>1. op \in [Ops -> OpType]
    BY IdleType
  <2>2. readers \in [Names -> ReaderType] /\ look \in [Lookups -> LookType]
    BY HandleTypes
  <2>3. /\ data \in [Inodes -> 0 .. MaxRelease] /\ mtime \in [Inodes -> Nat]
        /\ release \in 1 .. MaxRelease
    BY GeoAssumption
  <2> QED BY <2>1, <2>2, <2>3 DEF GeoTypeOK
<1>2. Solo /\ Status
  BY IdleType DEF Solo, Status, AtWork
<1>3. \A g \in Ops : Holds(op[g]) /\ Replaced(op[g]) /\ Complete(op[g])
  BY IdleType DEF Holds, Replaced, Complete
<1>4. \A e \in Names : GoodName(e)
  BY HandleTypes DEF GoodName, Private, UpToDate
<1>5. \A l \in Lookups : GoodLook(l)
  BY HandleTypes DEF GoodLook
<1> QED BY <1>1, <1>2, <1>3, <1>4, <1>5 DEF GeoInv

(* A step of operation g that leaves the files and the readers alone.        *)
LEMMA OpStep ==
  ASSUME GeoInv, NEW g \in Ops, NEW o \in OpType,
         op' = [op EXCEPT ![g] = o],
         UNCHANGED <<release, disk, clock, readers, look>>,
         settings' \subseteq Keys, audited' \in {"none", "failed", "succeeded", "uncleared"}, overlapped' \in BOOLEAN,
         ~overlapped' =>
           /\ ~overlapped
           /\ o.pc \in AtWork => op[g].pc \in AtWork \/ \A h \in Ops : op[h].pc \notin AtWork
           /\ Holds(o) /\ Replaced(o) /\ Complete(o)
           /\ Status'
  PROVE  GeoInv'
<1>1. GeoTypeOK'
  BY DEF GeoInv, GeoTypeOK, disk
<1> SUFFICES ASSUME ~overlapped'
             PROVE  /\ Solo'
                    /\ (\A i \in Inodes : data[i] <= release /\ mtime[i] <= clock)'
                    /\ (\A h \in Ops : Holds(op[h]) /\ Replaced(op[h]) /\ Complete(op[h]))'
                    /\ (\A e \in Names : GoodName(e))'
                    /\ (\A l \in Lookups : GoodLook(l))'
  BY <1>1 DEF GeoInv
<1>2. Solo'
  BY DEF Solo, GeoInv, GeoTypeOK
<1>3. \A h \in Ops : op'[h] = IF h = g THEN o ELSE op[h]
  BY DEF GeoInv, GeoTypeOK
<1>4. \A h \in Ops : Holds(op[h]) /\ Replaced(op[h]) /\ Complete(op[h])
  BY DEF GeoInv
<1>5. (\A h \in Ops : Holds(op[h]) /\ Replaced(op[h]) /\ Complete(op[h]))'
  <2> SUFFICES ASSUME NEW h \in Ops
               PROVE  (Holds(op[h]) /\ Replaced(op[h]) /\ Complete(op[h]))'
    OBVIOUS
  <2>1. CASE h = g
    <3>1. op'[h] = o BY <1>3, <2>1
    <3> QED BY <3>1 DEF Holds, Replaced, Complete, Path, disk
  <2>2. CASE h # g
    <3>1. op'[h] = op[h] BY <1>3, <2>2
    <3> QED BY <3>1, <1>4 DEF Holds, Replaced, Complete, Path, disk
  <2> QED BY <2>1, <2>2
<1>6. (\A e \in Names : GoodName(e))'
  BY DEF GeoInv, GoodName, Private, UpToDate, disk
<1>7. (\A l \in Lookups : GoodLook(l))'
  BY DEF GeoInv, GoodLook, UpToDate, Content, disk
<1>8. (\A i \in Inodes : data[i] <= release /\ mtime[i] <= clock)'
  BY DEF GeoInv, disk
<1> QED BY <1>2, <1>5, <1>6, <1>7, <1>8

(* What OpStep needs of an operation that is not at the files.               *)
LEMMA Quiet ==
  ASSUME NEW o \in OpType, o.fd = None, o.pc = "fail" \/ o.ed = 1,
         o.pc \notin {"fetch", "copy", "rename", "ok1", "ok2", "kept"},
         o.pc = "save" => o.todo \subseteq {"account", "license"}
  PROVE  Holds(o) /\ Replaced(o) /\ Complete(o)
BY DEF Holds, Replaced, Complete

LEMMA GeoTypes ==
  ASSUME GeoInv
  PROVE  /\ settings \subseteq Keys /\ audited \in {"none", "failed", "succeeded", "uncleared"}
         /\ overlapped \in BOOLEAN /\ op \in [Ops -> OpType]
         /\ \A g \in Ops : op[g] \in OpType
BY DEF GeoInv, GeoTypeOK

LEMMA StatusKept ==
  ASSUME GeoInv, ~overlapped, NEW g \in Ops, NEW o \in OpType, op' = [op EXCEPT ![g] = o],
         UNCHANGED <<file, audited>>,
         settings' \subseteq settings \cup {"account", "license", "lastCheck"},
         o.pc # "ok2"
  PROVE  Status'
<1>1. \A h \in Ops : op'[h] = IF h = g THEN o ELSE op[h]
  BY DEF GeoInv, GeoTypeOK
<1>2. Status
  BY DEF GeoInv
<1> QED BY <1>1, <1>2 DEF Status

LEMMA ConfigureStep ==
  ASSUME GeoInv, NEW g \in Ops, NEW keys \in SUBSET Keys, Configure(g, keys)
  PROVE  GeoInv'
<1> DEFINE o == [Idle EXCEPT !.kind = "configure", !.todo = keys, !.pc = "save"]
<1>1. o \in OpType /\ o.pc = "save" /\ o.fd = None /\ o.ed = 1
      /\ o.todo \subseteq {"account", "license"}
  BY IdleType DEF OpType, GeoKinds, Configure
<1>2. op' = [op EXCEPT ![g] = o]
  BY DEF Configure, Begin
<1> HIDE DEF o
<1>3. UNCHANGED <<settings, release, disk, clock, readers, look, audited, overlapped>>
  BY DEF Configure
<1>4. ~overlapped => Status'
  BY <1>1, <1>2, <1>3, StatusKept DEF disk
<1>5. Holds(o) /\ Replaced(o) /\ Complete(o)
  BY <1>1, Quiet
<1> QED BY <1>1, <1>2, <1>3, <1>4, <1>5, OpStep, GeoTypes DEF AtWork

LEMMA DeleteStep ==
  ASSUME GeoInv, NEW g \in Ops, Delete(g)
  PROVE  GeoInv'
<1> DEFINE o == [Idle EXCEPT !.kind = "delete", !.pc = "clear", !.todo = Keys]
<1>1. o \in OpType /\ o.pc = "clear" /\ o.fd = None /\ o.ed = 1
  BY IdleType DEF OpType, GeoKinds
<1>2. op' = [op EXCEPT ![g] = o]
  BY DEF Delete, Begin
<1> HIDE DEF o
<1>3. UNCHANGED <<settings, release, disk, clock, readers, look, audited, overlapped>>
  BY DEF Delete
<1>4. ~overlapped => Status'
  BY <1>1, <1>2, <1>3, StatusKept DEF disk
<1>5. Holds(o) /\ Replaced(o) /\ Complete(o)
  BY <1>1, Quiet
<1> QED BY <1>1, <1>2, <1>3, <1>4, <1>5, OpStep, GeoTypes DEF AtWork

LEMMA ScheduleStep ==
  ASSUME GeoInv, Schedule
  PROVE  GeoInv'
<1> DEFINE o == [Idle EXCEPT !.kind = "scheduled", !.pc = "download"]
<1>1. o \in OpType /\ o.pc = "download" /\ o.fd = None /\ o.ed = 1
  BY IdleType DEF OpType, GeoKinds, AtWork
<1>2. op' = [op EXCEPT ![Scheduler] = o] /\ Scheduler \in Ops
  BY GeoAssumption DEF Schedule, Begin
<1> HIDE DEF o
<1>3. UNCHANGED <<settings, release, disk, clock, readers, look, audited>>
  BY DEF Schedule
<1>4. /\ overlapped' \in BOOLEAN
      /\ ~overlapped' => ~overlapped /\ \A h \in Ops : op[h].pc \notin AtWork
  BY GeoTypes DEF Schedule, Downloading, AtWork
<1>5. ~overlapped => Status'
  BY <1>1, <1>2, <1>3, StatusKept DEF disk
<1>6. Holds(o) /\ Replaced(o) /\ Complete(o)
  BY <1>1, Quiet
<1> QED BY <1>1, <1>2, <1>3, <1>4, <1>5, <1>6, OpStep, GeoTypes

LEMMA SaveGeoKeyStep ==
  ASSUME GeoInv, NEW g \in Ops, NEW k \in Keys, SaveGeoKey(g, k)
  PROVE  GeoInv'
<1> DEFINE left == op[g].todo \ {k}
           o == IF ~op[g].live THEN Idle
                ELSE [op[g] EXCEPT !.todo = left, !.pc = IF left = {} THEN "download" ELSE "save"]
<1>1. op[g] \in OpType /\ op[g].pc = "save" /\ k \in op[g].todo
  BY GeoTypes DEF SaveGeoKey, At
<1>2. /\ o \in OpType /\ o.pc \in {"idle", "save", "download"}
      /\ o.fd = None \/ o.fd = op[g].fd
      /\ o.ed = 1 \/ o.ed = op[g].ed
      /\ o.pc = "save" => o.todo \subseteq op[g].todo
  <2>1. CASE ~op[g].live
    BY <2>1, IdleType
  <2>2. CASE op[g].live
    <3>1. left \subseteq Keys
      BY <1>1 DEF OpType
    <3>2. o = [op[g] EXCEPT !.todo = left, !.pc = IF left = {} THEN "download" ELSE "save"]
      BY <2>2
    <3> DEFINE pc == IF left = {} THEN "download" ELSE "save"
    <3>3. o = [op[g] EXCEPT !.todo = left, !.pc = pc]
      BY <3>2
    <3>4. pc \in {"download", "save"} /\ left \subseteq op[g].todo
      OBVIOUS
    <3> HIDE DEF left, o, pc
    <3> QED BY <1>1, <3>1, <3>3, <3>4 DEF OpType, AtWork
  <2> QED BY <2>1, <2>2
<1>3. op' = [op EXCEPT ![g] = o]
  BY DEF SaveGeoKey
<1> HIDE DEF o
<1>4. UNCHANGED <<release, disk, clock, readers, look, audited>>
  BY DEF SaveGeoKey
<1>5. op'[g] = o
  BY <1>3, GeoTypes
<1>6. /\ overlapped' \in BOOLEAN
      /\ ~overlapped' => ~overlapped /\ (o.pc = "download" => \A h \in Ops : op[h].pc \notin AtWork)
  BY <1>5, GeoTypes DEF SaveGeoKey, Downloading, AtWork
<1>7. settings' \subseteq Keys /\ settings' \subseteq settings \cup {k}
  BY GeoTypes DEF SaveGeoKey, Sets
<1>8. ASSUME ~overlapped'
      PROVE  Holds(o) /\ Replaced(o) /\ Complete(o) /\ Status'
  <2>1. Holds(op[g]) /\ Replaced(op[g]) /\ ~overlapped
    BY <1>6, <1>8 DEF GeoInv
  <2>2. op[g].fd = None /\ op[g].ed = 1 /\ op[g].todo \subseteq {"account", "license"}
    BY <1>1, <2>1 DEF Holds, Replaced
  <2>3. o.fd = None /\ o.ed = 1 /\ (o.pc = "save" => o.todo \subseteq {"account", "license"})
    BY <1>2, <2>2
  <2>4. settings' \subseteq settings \cup {"account", "license", "lastCheck"}
    BY <1>1, <1>7, <2>2
  <2>5. Status'
    BY <1>2, <1>3, <1>4, <1>7, <2>1, <2>4, StatusKept DEF disk
  <2> QED BY <1>2, <2>3, <2>5, Quiet
<1> QED BY <1>2, <1>3, <1>4, <1>6, <1>7, <1>8, OpStep, GeoTypes DEF AtWork

LEMMA ClearKeyStep ==
  ASSUME GeoInv, NEW g \in Ops, ClearKey(g)
  PROVE  GeoInv'
<1>1. PICK k \in op[g].todo :
        /\ Clears(g, k)
        /\ op' = [op EXCEPT ![g] = IF ~op[g].live \/ op[g].todo = {k} THEN Idle
                                   ELSE [op[g] EXCEPT !.todo = op[g].todo \ {k}]]
  BY DEF ClearKey
<1>2. op[g] \in OpType /\ op[g].pc = "clear"
  BY GeoTypes DEF ClearKey, At
<1> DEFINE o == IF ~op[g].live \/ op[g].todo = {k} THEN Idle
                ELSE [op[g] EXCEPT !.todo = op[g].todo \ {k}]
<1>3. /\ o \in OpType /\ o.pc \in {"idle", "clear"}
      /\ o.fd = None \/ o.fd = op[g].fd
      /\ o.ed = 1 \/ o.ed = op[g].ed
  BY <1>2, IdleType DEF OpType
<1>4. op' = [op EXCEPT ![g] = o]
  BY <1>1
<1> HIDE DEF o
<1>5. UNCHANGED <<release, disk, clock, readers, look, audited, overlapped>>
  BY DEF ClearKey
<1>6. settings' \subseteq settings
  BY <1>1 DEF Clears
<1>7. ASSUME ~overlapped
      PROVE  Holds(o) /\ Replaced(o) /\ Complete(o) /\ Status'
  <2>1. op[g].fd = None /\ op[g].ed = 1
    BY <1>2, <1>7 DEF GeoInv, Holds, Replaced
  <2>2. Status'
    BY <1>3, <1>4, <1>5, <1>6, <1>7, StatusKept DEF disk
  <2> QED BY <1>3, <2>1, <2>2, Quiet
<1> QED BY <1>3, <1>4, <1>5, <1>6, <1>7, OpStep, GeoTypes DEF AtWork

LEMMA CancelStep ==
  ASSUME GeoInv, NEW g \in Ops, Cancel(g)
  PROVE  GeoInv'
<1> DEFINE o == [op[g] EXCEPT !.live = FALSE]
<1>1. op[g] \in OpType
  BY GeoTypes
<1>2. /\ o \in OpType /\ o.pc = op[g].pc /\ o.fd = op[g].fd /\ o.ed = op[g].ed /\ ~o.live
      /\ o.rel = op[g].rel /\ o.failed = op[g].failed /\ o.todo = op[g].todo
  BY <1>1 DEF OpType
<1>3. op' = [op EXCEPT ![g] = o]
  BY GeoTypes DEF Cancel
<1> HIDE DEF o
<1>4. UNCHANGED <<settings, release, disk, clock, readers, look, audited, overlapped>>
  BY DEF Cancel
<1>5. ASSUME ~overlapped
      PROVE  Holds(o) /\ Replaced(o) /\ Complete(o) /\ Status'
  <2>1. Holds(op[g]) /\ Replaced(op[g]) /\ Complete(op[g]) /\ Status
    BY <1>5 DEF GeoInv
  <2>2. Holds(o) /\ Replaced(o) /\ Complete(o)
    BY <1>2, <2>1 DEF Holds, Replaced, Complete, Path
  <2>3. \A h \in Ops : op'[h] = IF h = g THEN o ELSE op[h]
    BY <1>3, GeoTypes
  <2> QED BY <1>2, <1>4, <2>1, <2>2, <2>3 DEF Status, disk
<1> QED BY <1>2, <1>3, <1>4, <1>5, OpStep, GeoTypes DEF AtWork

LEMMA ResolveStep ==
  ASSUME GeoInv, NEW g \in Ops, Resolve(g)
  PROVE  GeoInv'
<1> DEFINE o == IF op[g].live /\ "account" \in settings THEN [op[g] EXCEPT !.pc = "check"] ELSE Idle
<1>1. op[g] \in OpType /\ op[g].pc = "download"
  BY GeoTypes DEF Resolve, At
<1>2. o \in OpType /\ o.pc \in {"check", "idle"} /\ (o.fd = None \/ o.fd = op[g].fd)
      /\ (o.ed = 1 \/ o.ed = op[g].ed)
  <2>1. CASE op[g].live /\ "account" \in settings
    BY <1>1, <2>1, PcChanged DEF AtWork
  <2>2. CASE ~(op[g].live /\ "account" \in settings)
    BY <2>2, IdleType
  <2> QED BY <2>1, <2>2
<1>3. op' = [op EXCEPT ![g] = o]
  BY GeoTypes DEF Resolve, Goto, Done
<1> HIDE DEF o
<1>4. UNCHANGED <<settings, release, disk, clock, readers, look, audited, overlapped>>
  BY DEF Resolve
<1>5. ASSUME ~overlapped
      PROVE  Holds(o) /\ Replaced(o) /\ Complete(o) /\ Status'
  <2>1. op[g].fd = None /\ op[g].ed = 1
    BY <1>1, <1>5 DEF GeoInv, Holds, Replaced
  <2>2. Status'
    BY <1>2, <1>3, <1>4, <1>5, StatusKept DEF disk
  <2> QED BY <1>2, <2>1, <2>2, Quiet
<1> QED BY <1>1, <1>2, <1>3, <1>4, <1>5, OpStep, GeoTypes DEF AtWork

LEMMA RecordCheckStep ==
  ASSUME GeoInv, NEW g \in Ops, RecordCheck(g)
  PROVE  GeoInv'
<1>1. PICK pc \in {"fetch", "fail"} : op' = [op EXCEPT ![g].pc = pc]
  BY DEF RecordCheck, Goto
<1> DEFINE o == [op[g] EXCEPT !.pc = pc]
<1>2. op[g] \in OpType /\ op[g].pc = "check"
  BY GeoTypes DEF RecordCheck, At
<1>3. o \in OpType /\ o.pc = pc /\ o.fd = op[g].fd /\ o.ed = op[g].ed
  BY <1>2, PcChanged DEF AtWork
<1>4. op' = [op EXCEPT ![g] = o]
  BY <1>1, GeoTypes
<1> HIDE DEF o
<1>5. UNCHANGED <<release, disk, clock, readers, look, audited, overlapped>>
  BY DEF RecordCheck
<1>6. settings' \subseteq Keys /\ settings' \subseteq settings \cup {"lastCheck"}
  BY GeoTypes DEF RecordCheck, Sets, Keys
<1>7. ASSUME ~overlapped
      PROVE  Holds(o) /\ Replaced(o) /\ Complete(o) /\ Status'
  <2>1. op[g].fd = None /\ op[g].ed = 1
    BY <1>2, <1>7 DEF GeoInv, Holds, Replaced
  <2>2. Status'
    BY <1>3, <1>4, <1>5, <1>6, <1>7, StatusKept DEF disk
  <2>3. Holds(o) /\ Complete(o)
    BY <1>3, <2>1 DEF Holds, Complete
  <2>4. Replaced(o)
    BY <1>3, <2>1 DEF Replaced
  <2> QED BY <2>2, <2>3, <2>4
<1> QED BY <1>2, <1>3, <1>4, <1>5, <1>6, <1>7, OpStep, GeoTypes DEF AtWork

LEMMA OnlyOneAtWork ==
  ASSUME GeoInv, ~overlapped, NEW g \in Ops, op[g].pc \in AtWork
  PROVE  \A h \in Ops : h # g => op[h].pc \notin AtWork
BY DEF GeoInv, Solo

LEMMA recordFailureStep ==
  ASSUME GeoInv, NEW g \in Ops, recordFailure(g)
  PROVE  GeoInv'
<1>1. op[g] \in OpType /\ op[g].pc = "fail"
  BY GeoTypes DEF recordFailure, At
<1>2. op' = [op EXCEPT ![g] = Idle]
  BY DEF recordFailure, Done
<1>3. UNCHANGED <<release, disk, clock, readers, look, overlapped>>
  BY DEF recordFailure
<1>4. settings' \subseteq Keys /\ audited' \in {"none", "failed", "succeeded", "uncleared"}
  BY GeoTypes DEF recordFailure, Sets, Keys
<1>5. ~overlapped => Status'
  <2> SUFFICES ASSUME ~overlapped PROVE Status'
    OBVIOUS
  <2>1. Status
    BY DEF GeoInv
  <2>2. \A h \in Ops : op'[h] = IF h = g THEN Idle ELSE op[h]
    BY <1>2, GeoTypes
  <2>3. \A h \in Ops : op'[h].pc # "ok2"
    BY <1>1, <2>2, IdleType, OnlyOneAtWork DEF AtWork
  <2> QED BY <1>3, <2>1, <2>3 DEF Status, recordFailure, Sets, disk
<1>6. Holds(Idle) /\ Replaced(Idle) /\ Complete(Idle)
  BY IdleType, Quiet
<1> QED BY <1>2, <1>3, <1>4, <1>5, <1>6, IdleType, OpStep, GeoTypes DEF AtWork

LEMMA ClearErrorStep ==
  ASSUME GeoInv, NEW g \in Ops, ClearError(g)
  PROVE  GeoInv'
<1> DEFINE o == [op[g] EXCEPT !.pc = "ok2"]
<1>1. op[g] \in OpType /\ op[g].pc = "ok1"
  BY GeoTypes DEF ClearError, At
<1>2. o \in OpType /\ o.pc = "ok2" /\ o.fd = op[g].fd /\ o.live = op[g].live
  BY <1>1, PcChanged DEF AtWork
<1>3. op' = [op EXCEPT ![g] = o]
  BY GeoTypes DEF ClearError, Goto
<1> HIDE DEF o
<1>4. UNCHANGED <<release, disk, clock, readers, look, audited, overlapped>>
  BY DEF ClearError
<1>5. settings' = IF op[g].live THEN settings \ {"lastError"} ELSE settings
  BY DEF ClearError, Clears
<1>6. ASSUME ~overlapped
      PROVE  Holds(o) /\ Replaced(o) /\ Complete(o) /\ Status'
  <2>1. Holds(op[g]) /\ Replaced(op[g]) /\ Status
    BY <1>6 DEF GeoInv
  <2>2. Holds(o) /\ Replaced(o) /\ Complete(o)
    BY <1>1, <1>2, <2>1 DEF Holds, Replaced, Complete
  <2>3. \A h \in Ops : op'[h] = IF h = g THEN o ELSE op[h]
    BY <1>3, GeoTypes
  <2> QED BY <1>2, <1>4, <1>5, <2>1, <2>2, <2>3 DEF Status, disk
<1> QED BY <1>1, <1>2, <1>3, <1>4, <1>5, <1>6, OpStep, GeoTypes DEF AtWork

LEMMA ClearErrorFailsStep ==
  ASSUME GeoInv, NEW g \in Ops, ClearErrorFails(g)
  PROVE  GeoInv'
<1> DEFINE o == [op[g] EXCEPT !.pc = "kept"]
<1>1. op[g] \in OpType /\ op[g].pc = "ok1"
  BY GeoTypes DEF ClearErrorFails, At
<1>2. o \in OpType /\ o.pc = "kept" /\ o.fd = op[g].fd
  BY <1>1, PcChanged DEF AtWork
<1>3. op' = [op EXCEPT ![g] = o]
  BY GeoTypes DEF ClearErrorFails, Goto
<1> HIDE DEF o
<1>4. UNCHANGED <<settings, release, disk, clock, readers, look, audited, overlapped>>
  BY DEF ClearErrorFails
<1>5. ASSUME ~overlapped
      PROVE  Holds(o) /\ Replaced(o) /\ Complete(o) /\ Status'
  <2>1. Holds(op[g]) /\ Replaced(op[g])
    BY <1>5 DEF GeoInv
  <2>2. Holds(o) /\ Replaced(o) /\ Complete(o)
    BY <1>1, <1>2, <2>1 DEF Holds, Replaced, Complete
  <2> QED BY <1>2, <1>3, <1>4, <1>5, <2>2, StatusKept DEF disk
<1> QED BY <1>1, <1>2, <1>3, <1>4, <1>5, OpStep, GeoTypes DEF AtWork

LEMMA RecordSuccessStep ==
  ASSUME GeoInv, NEW g \in Ops, RecordSuccess(g)
  PROVE  GeoInv'
<1>1. op[g] \in OpType /\ op[g].pc \in {"ok2", "kept"}
  BY GeoTypes DEF RecordSuccess, At
<1>2. op' = [op EXCEPT ![g] = Idle]
  BY DEF RecordSuccess, Done
<1>3. UNCHANGED <<release, disk, clock, readers, look, overlapped>>
  BY DEF RecordSuccess
<1>4. settings' \subseteq Keys /\ audited' \in {"none", "failed", "succeeded", "uncleared"}
  BY GeoTypes DEF RecordSuccess, Sets, Keys
<1>5. ~overlapped => Status'
  <2> SUFFICES ASSUME ~overlapped PROVE Status'
    OBVIOUS
  <2>1. Status /\ Replaced(op[g])
    BY DEF GeoInv
  <2>2. \A h \in Ops : op'[h] = IF h = g THEN Idle ELSE op[h]
    BY <1>2, GeoTypes
  <2>3. \A h \in Ops : op'[h].pc # "ok2"
    BY <1>1, <2>2, IdleType, OnlyOneAtWork DEF AtWork
  <2>4. \A e \in Names : file'[e] # None
    BY <1>1, <1>3, <2>1 DEF Replaced, disk
  <2>5. "lastError" \in settings' => audited' \in {"failed", "uncleared"}
    BY <1>1, <2>1 DEF Status, RecordSuccess, Sets
  <2> QED BY <2>3, <2>4, <2>5 DEF Status
<1>6. Holds(Idle) /\ Replaced(Idle) /\ Complete(Idle)
  BY IdleType, Quiet
<1> QED BY <1>2, <1>3, <1>4, <1>5, <1>6, IdleType, OpStep, GeoTypes DEF AtWork

(* An edition that fails, at whatever point, changes no file but its own     *)
(* temporary one.                                                            *)
LEMMA EditionFails ==
  ASSUME GeoInv, NEW g \in Ops, op[g].pc \in {"fetch", "copy", "rename"},
         op' = [op EXCEPT ![g] = NextEdition(op[g], TRUE)],
         UNCHANGED <<settings, release, disk, clock, readers, look, audited, overlapped>>
  PROVE  GeoInv'
<1> DEFINE o == NextEdition(op[g], TRUE)
<1>1. /\ o \in OpType /\ o.fd = None /\ o.pc \in {"fetch", "fail"}
      /\ o.pc = "fetch" => o.failed
  BY NextEditionFields, GeoTypes
<1> HIDE DEF o
<1>2. Holds(o) /\ Replaced(o) /\ Complete(o)
  BY <1>1 DEF Holds, Replaced, Complete
<1>3. op' = [op EXCEPT ![g] = o]
  BY DEF o
<1>4. ~overlapped => Status'
  BY <1>1, <1>3, StatusKept DEF disk
<1> QED BY <1>1, <1>2, <1>3, <1>4, OpStep, GeoTypes DEF AtWork

-----------------------------------------------------------------------------
(* Steps that write files *)

(* When the one download moves on, the other operations are not at the files.*)
LEMMA DownloadGoesOn ==
  ASSUME GeoInv, ~overlapped, NEW g \in Ops, op[g].pc \in AtWork,
         \A h \in Ops : h # g => op'[h] = op[h],
         Holds(op[g])', Replaced(op[g])', Complete(op[g])', op'[g].pc # "ok2",
         \A e \in Names : file[e] # None => file'[e] # None,
         UNCHANGED <<settings, audited>>
  PROVE  /\ Solo' /\ Status'
         /\ (\A h \in Ops : Holds(op[h]) /\ Replaced(op[h]) /\ Complete(op[h]))'
<1>1. \A h \in Ops : h # g => op[h].pc \notin AtWork
  BY OnlyOneAtWork
<1>2. Solo'
  BY <1>1 DEF Solo
<1>3. Status'
  BY DEF GeoInv, Status
<1>4. (\A h \in Ops : Holds(op[h]) /\ Replaced(op[h]) /\ Complete(op[h]))'
  <2> SUFFICES ASSUME NEW h \in Ops, h # g
               PROVE  (Holds(op[h]) /\ Replaced(op[h]) /\ Complete(op[h]))'
    OBVIOUS
  <2>1. op'[h] = op[h] /\ op[h].pc \notin AtWork /\ Holds(op[h]) /\ Replaced(op[h])
    BY <1>1 DEF GeoInv
  <2> QED BY <2>1 DEF Holds, Replaced, Complete, AtWork
<1> QED BY <1>2, <1>3, <1>4

(* An inode is written that nobody reads.                                    *)
LEMMA PrivateWrite ==
  ASSUME GeoInv, ~overlapped, NEW i \in Inodes, NEW d \in 0 .. MaxRelease,
         data' = [data EXCEPT ![i] = d], mtime' = [mtime EXCEPT ![i] = clock + 1],
         clock' = clock + 1, UNCHANGED <<file, readers, look>>,
         \A e \in Names : i # file[e] /\ i # readers[e].h.ino,
         \A l \in Lookups : i # look[l].h.ino,
         release' \in release .. MaxRelease, d <= release',
         \A e \in Names : Private(e)'
  PROVE  /\ (\A j \in Inodes : data[j] <= release /\ mtime[j] <= clock)'
         /\ (\A e \in Names : GoodName(e))'
         /\ (\A l \in Lookups : GoodLook(l))'
<1>0. GeoTypeOK
  BY DEF GeoInv
<1>1. (\A j \in Inodes : data[j] <= release /\ mtime[j] <= clock)'
  <2> SUFFICES ASSUME NEW j \in Inodes PROVE (data[j] <= release /\ mtime[j] <= clock)'
    OBVIOUS
  <2>1. data[j] <= release /\ mtime[j] <= clock
    BY DEF GeoInv
  <2>2. data[j] \in Nat /\ mtime[j] \in Nat /\ clock \in Nat /\ release \in Nat /\ release' >= release
        /\ MaxRelease \in Nat
    BY <1>0, GeoAssumption DEF GeoTypeOK
  <2>3. data'[j] = (IF j = i THEN d ELSE data[j]) /\ mtime'[j] = IF j = i THEN clock + 1 ELSE mtime[j]
    BY <1>0 DEF GeoTypeOK
  <2> QED BY <2>1, <2>2, <2>3
<1>2. \A j \in Inodes : j # i => data'[j] = data[j] /\ mtime'[j] = mtime[j]
  BY <1>0 DEF GeoTypeOK
<1>3. (\A e \in Names : GoodName(e))'
  <2> SUFFICES ASSUME NEW e \in Names PROVE GoodName(e)'
    OBVIOUS
  <2>1. GoodName(e) /\ readers[e].mtime \in Nat /\ clock \in Nat
        /\ file[e] \in Inodes \cup {None} /\ readers[e].h.ino \in Inodes \cup {None}
    BY <1>0 DEF GeoInv, GeoTypeOK, ReaderType, Handles
  <2> QED BY <1>2, <2>1 DEF GoodName, UpToDate
<1>4. (\A l \in Lookups : GoodLook(l))'
  <2> SUFFICES ASSUME NEW l \in Lookups PROVE GoodLook(l)'
    OBVIOUS
  <2>1. GoodLook(l) /\ look[l] \in LookType /\ clock \in Nat
    BY <1>0 DEF GeoInv, GeoTypeOK
  <2>2. look[l].ed \in Names /\ look[l].seen \in Nat
        /\ look[l].h.ino \in Inodes \cup {None}
    BY <2>1 DEF LookType, Handles
  <2>3. /\ file[look[l].ed] \in Inodes \cup {None}
        /\ readers[look[l].ed].h.ino \in Inodes \cup {None}
        /\ GoodName(look[l].ed)
    BY <1>0, <2>2 DEF GeoInv, GeoTypeOK, ReaderType, Handles
  <2>4. Content(file[look[l].ed])' = Content(file[look[l].ed])
    BY <1>2, <2>2, <2>3 DEF Content
  <2>5. look[l].pc = "stat" => UpToDate(look[l].h, look[l].seen, look[l].ed)'
    BY <1>2, <2>1, <2>2, <2>3 DEF GoodLook, UpToDate
  <2>6. look[l].pc = "lock" =>
          LET r == readers[look[l].ed]
          IN (r.h # Closed /\ r.mtime = look[l].seen) => data'[r.h.ino] >= look[l].since
    BY <1>2, <2>1, <2>2, <2>3 DEF GoodLook, GoodName, UpToDate
  <2>7. look[l].pc = "use" => look[l].h.ino # None /\ data'[look[l].h.ino] # 0
                              /\ data'[look[l].h.ino] >= look[l].since
    BY <1>2, <2>1, <2>2 DEF GoodLook
  <2>8. look[l].seen <= clock'
    BY <2>1, <2>2 DEF GoodLook
  <2> QED BY <2>1, <2>4, <2>5, <2>6, <2>7, <2>8 DEF GoodLook
<1> QED BY <1>1, <1>3, <1>4

Opening(o, i, r) == [o EXCEPT !.pc = "copy", !.fd = i, !.rel = r]

LEMMA Opened ==
  ASSUME NEW o \in OpType, NEW i \in Inodes, NEW r \in 0 .. MaxRelease
  PROVE  LET s == Opening(o, i, r)
         IN s \in OpType /\ s.pc = "copy" /\ s.fd = i /\ s.rel = r /\ s.ed = o.ed /\ s.failed = o.failed
BY DEF OpType, AtWork, Opening

LEMMA Written ==
  ASSUME NEW S, NEW f \in [Inodes -> S], NEW i, NEW d \in S
  PROVE  [f EXCEPT ![i] = d] \in [Inodes -> S]
OBVIOUS

LEMMA FetchEditionStep ==
  ASSUME GeoInv, NEW g \in Ops, FetchEdition(g)
  PROVE  GeoInv'
<1> DEFINE e == Editions[op[g].ed]
<1>0. /\ GeoTypeOK /\ op[g] \in OpType /\ op[g].pc = "fetch" /\ op[g].ed \in 1 .. Len(Editions)
      /\ e \in Names /\ e = Path(op[g])
  BY GeoTypes, PathNamed DEF FetchEdition, At, GeoInv, OpType, Path
<1>1. CASE op' = [op EXCEPT ![g] = NextEdition(@, TRUE)] /\ UNCHANGED <<release, disk, clock>>
  BY <1>0, <1>1, EditionFails DEF FetchEdition
<1>2. ASSUME NEW i \in Inodes, NEW r \in release .. MaxRelease,
             IF tmp[e] = None THEN Unused(i) ELSE i = tmp[e],
             release' = r, tmp' = [tmp EXCEPT ![e] = i], data' = [data EXCEPT ![i] = 0],
             mtime' = [mtime EXCEPT ![i] = clock + 1],
             op' = [op EXCEPT ![g].pc = "copy", ![g].fd = i, ![g].rel = r],
             clock' = clock + 1, UNCHANGED <<file, settings, readers, look, audited, begun, overlapped>>
      PROVE  GeoInv'
  <2> DEFINE o == Opening(op[g], i, r)
  <2>1. /\ r \in 1 .. MaxRelease /\ r \in 0 .. MaxRelease /\ release \in Nat /\ MaxRelease \in Nat
        /\ r \in release .. MaxRelease
    BY <1>0, GeoAssumption DEF GeoTypeOK
  <2>2. /\ o \in OpType /\ o.pc = "copy" /\ o.fd = i /\ o.rel = r /\ o.ed = op[g].ed
        /\ o.failed = op[g].failed
    BY <1>0, <2>1, Opened
  <2>3. op' = [op EXCEPT ![g] = o]
    BY <1>0, <1>2 DEF GeoTypeOK, Opening
  <2> HIDE DEF o
  <2>4. op'[g] = o /\ (\A h \in Ops : h # g => op'[h] = op[h]) /\ op' \in [Ops -> OpType]
    BY <1>0, <2>2, <2>3 DEF GeoTypeOK
  <2>5. GeoTypeOK'
    <3>1. /\ data \in [Inodes -> 0 .. MaxRelease] /\ mtime \in [Inodes -> Nat] /\ clock + 1 \in Nat
          /\ 0 \in 0 .. MaxRelease /\ tmp \in [Names -> Inodes \cup {None}]
          /\ i \in Inodes \cup {None}
      BY <1>0, <2>1 DEF GeoTypeOK
    <3>2. /\ data' \in [Inodes -> 0 .. MaxRelease] /\ mtime' \in [Inodes -> Nat]
          /\ tmp' \in [Names -> Inodes \cup {None}]
      BY <1>2, <3>1, Written
    <3> QED BY <1>0, <1>2, <2>1, <2>4, <3>1, <3>2 DEF GeoTypeOK
  <2> SUFFICES ASSUME ~overlapped
               PROVE  /\ Solo' /\ Status'
                      /\ (\A j \in Inodes : data[j] <= release /\ mtime[j] <= clock)'
                      /\ (\A h \in Ops : Holds(op[h]) /\ Replaced(op[h]) /\ Complete(op[h]))'
                      /\ (\A f \in Names : GoodName(f))' /\ (\A l \in Lookups : GoodLook(l))'
    BY <1>2, <2>5 DEF GeoInv
  <2>6. /\ Replaced(op[g]) /\ \A f \in Names : Private(f)
    BY DEF GeoInv, GoodName
  <2>7. /\ \A f \in Names : i # file[f] /\ i # readers[f].h.ino /\ (tmp[f] = i => f = e)
        /\ \A l \in Lookups : i # look[l].h.ino
    <3>1. CASE tmp[e] = None
      BY <3>1, <1>2 DEF Unused
    <3>2. CASE tmp[e] # None
      BY <1>0, <3>2, <1>2, <2>6 DEF Private
    <3> QED BY <3>1, <3>2
  <2>8. \A f \in Names : Private(f)'
    <3> SUFFICES ASSUME NEW f \in Names PROVE Private(f)'
      OBVIOUS
    <3>1. \A n \in Names : tmp'[n] = IF n = e THEN i ELSE tmp[n]
      BY <1>0, <1>2 DEF GeoTypeOK
    <3> HIDE DEF e
    <3> QED BY <1>0, <1>2, <2>6, <2>7, <3>1 DEF Private
  <2>9. Holds(op[g])' /\ Replaced(op[g])' /\ Complete(op[g])'
    <3>1. tmp'[e] = i /\ i # None
      BY <1>0, <1>2, GeoAssumption DEF GeoTypeOK
    <3>2. Holds(op[g])'
      BY <1>2, <2>2, <2>4, <3>1 DEF Holds, Path
    <3>3. Replaced(op[g])'
      BY <1>0, <1>2, <2>2, <2>4, <2>6 DEF Replaced
    <3> QED BY <2>2, <2>4, <3>2, <3>3 DEF Complete
  <2>10. /\ (\A j \in Inodes : data[j] <= release /\ mtime[j] <= clock)'
         /\ (\A f \in Names : GoodName(f))' /\ (\A l \in Lookups : GoodLook(l))'
    <3>1. 0 \in 0 .. MaxRelease /\ release' \in release .. MaxRelease /\ 0 <= release'
      BY <1>2, <2>1
    <3> QED BY <1>2, <2>7, <2>8, <3>1, PrivateWrite
  <2> QED BY <1>0, <1>2, <2>2, <2>4, <2>9, <2>10, DownloadGoesOn DEF AtWork
<1>3. \/ op' = [op EXCEPT ![g] = NextEdition(@, TRUE)] /\ UNCHANGED <<release, disk, clock>>
      \/ \E i \in Inodes, r \in release .. MaxRelease :
           /\ IF tmp[e] = None THEN Unused(i) ELSE i = tmp[e]
           /\ release' = r /\ tmp' = [tmp EXCEPT ![e] = i] /\ data' = [data EXCEPT ![i] = 0]
           /\ mtime' = [mtime EXCEPT ![i] = clock + 1]
           /\ op' = [op EXCEPT ![g].pc = "copy", ![g].fd = i, ![g].rel = r]
           /\ clock' = clock + 1 /\ UNCHANGED file
  BY DEF FetchEdition
<1>4. UNCHANGED <<settings, readers, look, audited, begun, overlapped>>
  BY DEF FetchEdition
<1> HIDE DEF e
<1> QED BY <1>1, <1>2, <1>3, <1>4

LEMMA CopyStep ==
  ASSUME GeoInv, NEW g \in Ops, Copy(g)
  PROVE  GeoInv'
<1> DEFINE e == Editions[op[g].ed]
<1>0. /\ GeoTypeOK /\ op[g] \in OpType /\ op[g].pc = "copy" /\ op[g].ed \in 1 .. Len(Editions)
      /\ e \in Names /\ e = Path(op[g])
  BY GeoTypes, PathNamed DEF Copy, At, GeoInv, OpType, Path
<1>4. UNCHANGED <<settings, release, file, readers, look, audited, begun, overlapped>>
  BY DEF Copy
<1>1. ASSUME NEW d \in (IF Sharing(g) THEN {0, op[g].rel} ELSE {op[g].rel}),
             data' = [data EXCEPT ![op[g].fd] = d], mtime' = [mtime EXCEPT ![op[g].fd] = clock + 1],
             clock' = clock + 1, Goto(g, "rename"), UNCHANGED tmp
      PROVE  GeoInv'
  <2> DEFINE o == [op[g] EXCEPT !.pc = "rename"]
             i == op[g].fd
  <2>1. /\ o \in OpType /\ o.pc = "rename" /\ o.fd = i /\ o.rel = op[g].rel /\ o.ed = op[g].ed
        /\ o.failed = op[g].failed
    BY <1>0, PcChanged DEF AtWork
  <2>2. op' = [op EXCEPT ![g] = o]
    BY <1>0, <1>1 DEF GeoTypeOK, Goto
  <2> HIDE DEF o
  <2>3. op'[g] = o /\ (\A h \in Ops : h # g => op'[h] = op[h]) /\ op' \in [Ops -> OpType]
    BY <1>0, <2>1, <2>2 DEF GeoTypeOK
  <2>4. GeoTypeOK'
    <3>1. op[g].rel \in 0 .. MaxRelease /\ d \in 0 .. MaxRelease
      BY <1>0, <1>1, GeoAssumption DEF OpType
    <3>2. data' \in [Inodes -> 0 .. MaxRelease] /\ mtime' \in [Inodes -> Nat] /\ clock' \in Nat
      <4>1. data \in [Inodes -> 0 .. MaxRelease] /\ mtime \in [Inodes -> Nat] /\ clock + 1 \in Nat
        BY <1>0 DEF GeoTypeOK
      <4> QED BY <1>1, <3>1, <4>1, Written
    <3> QED BY <1>0, <1>1, <1>4, <2>3, <3>2 DEF GeoTypeOK
  <2> SUFFICES ASSUME ~overlapped
               PROVE  /\ Solo' /\ Status'
                      /\ (\A j \in Inodes : data[j] <= release /\ mtime[j] <= clock)'
                      /\ (\A h \in Ops : Holds(op[h]) /\ Replaced(op[h]) /\ Complete(op[h]))'
                      /\ (\A f \in Names : GoodName(f))' /\ (\A l \in Lookups : GoodLook(l))'
    BY <1>4, <2>4 DEF GeoInv
  <2>5. /\ Replaced(op[g]) /\ Holds(op[g]) /\ \A f \in Names : GoodName(f) /\ Private(f)
        /\ \A l \in Lookups : GoodLook(l)
    BY DEF GeoInv, GoodName
  <2>6. i \in Inodes /\ tmp[e] = i /\ i # None /\ op[g].rel = release
    BY <1>0, <2>5 DEF Holds, OpType
  <2>7. d = release
    <3>1. ~Sharing(g)
      BY <1>0, OnlyOneAtWork DEF Sharing, At, AtWork
    <3> QED BY <1>1, <2>6, <3>1
  <2>8. /\ \A f \in Names : i # file[f] /\ i # readers[f].h.ino
        /\ \A l \in Lookups : i # look[l].h.ino
    BY <1>0, <2>5, <2>6 DEF Private
  <2>9. \A f \in Names : Private(f)'
    BY <1>1, <1>4, <2>5 DEF Private
  <2>10. /\ (\A j \in Inodes : data[j] <= release /\ mtime[j] <= clock)'
         /\ (\A f \in Names : GoodName(f))' /\ (\A l \in Lookups : GoodLook(l))'
    <3>1. d \in 0 .. MaxRelease /\ release' \in release .. MaxRelease /\ d <= release'
      BY <1>0, <1>4, <2>7 DEF GeoTypeOK
    <3> QED BY <1>1, <1>4, <2>6, <2>8, <2>9, <3>1, PrivateWrite
  <2>11. Complete(op[g])'
    <3>1. data'[i] = release /\ mtime'[i] = clock + 1 /\ clock \in Nat
      BY <1>0, <1>1, <2>6, <2>7 DEF GeoTypeOK
    <3>2. ASSUME NEW f \in Names
          PROVE  readers[f].mtime < mtime'[i] /\ (file[f] # None => mtime'[file[f]] < mtime'[i])
      <4>1. readers[f].mtime <= clock /\ readers[f].mtime \in Nat
        BY <1>0, <2>5 DEF GoodName, GeoTypeOK, ReaderType
      <4>2. file[f] # None => file[f] \in Inodes /\ mtime[file[f]] <= clock /\ mtime[file[f]] \in Nat
        BY <1>0 DEF GeoInv, GeoTypeOK
      <4>3. file[f] # None => mtime'[file[f]] = mtime[file[f]]
        BY <1>0, <1>1, <2>8, <4>2 DEF GeoTypeOK
      <4> QED BY <3>1, <4>1, <4>2, <4>3
    <3>3. ASSUME NEW l \in Lookups PROVE look[l].seen < mtime'[i]
      <4>1. look[l].seen <= clock /\ look[l].seen \in Nat
        BY <1>0, <2>5 DEF GoodLook, GeoTypeOK, LookType
      <4> QED BY <3>1, <4>1
    <3> HIDE DEF i
    <3> QED BY <1>4, <2>1, <2>3, <3>1, <3>2, <3>3 DEF Complete
  <2>12. Holds(op[g])' /\ Replaced(op[g])'
    BY <1>0, <1>1, <1>4, <2>1, <2>3, <2>5 DEF Holds, Replaced, Path
  <2> QED BY <1>0, <1>4, <2>1, <2>3, <2>10, <2>11, <2>12, DownloadGoesOn DEF AtWork
<1>2. CASE /\ tmp' = [tmp EXCEPT ![e] = None]
           /\ op' = [op EXCEPT ![g] = NextEdition(@, TRUE)]
           /\ UNCHANGED <<data, mtime, clock>>
  <2> DEFINE o == NextEdition(op[g], TRUE)
  <2>1. /\ o \in OpType /\ o.fd = None /\ o.pc \in {"fetch", "fail"}
        /\ o.pc = "fetch" => o.failed
    BY <1>0, NextEditionFields
  <2>2. op'[g] = o /\ (\A h \in Ops : h # g => op'[h] = op[h]) /\ op' \in [Ops -> OpType]
    BY <1>0, <1>2, <2>1 DEF GeoTypeOK
  <2> HIDE DEF o
  <2>3. GeoTypeOK'
    BY <1>0, <1>2, <1>4, <2>2 DEF GeoTypeOK
  <2> SUFFICES ASSUME ~overlapped
               PROVE  /\ Solo' /\ Status'
                      /\ (\A j \in Inodes : data[j] <= release /\ mtime[j] <= clock)'
                      /\ (\A h \in Ops : Holds(op[h]) /\ Replaced(op[h]) /\ Complete(op[h]))'
                      /\ (\A f \in Names : GoodName(f))' /\ (\A l \in Lookups : GoodLook(l))'
    BY <1>4, <2>3 DEF GeoInv
  <2>4. Holds(op[g])' /\ Replaced(op[g])' /\ Complete(op[g])'
    BY <2>1, <2>2 DEF Holds, Replaced, Complete
  <2>5. (\A f \in Names : GoodName(f))'
    <3> SUFFICES ASSUME NEW f \in Names PROVE GoodName(f)'
      OBVIOUS
    <3>1. \A n \in Names : tmp'[n] = IF n = e THEN None ELSE tmp[n]
      BY <1>0, <1>2 DEF GeoTypeOK
    <3>2. GoodName(f)
      BY DEF GeoInv
    <3> QED BY <1>2, <1>4, <3>1, <3>2 DEF GoodName, Private, UpToDate
  <2>6. (\A l \in Lookups : GoodLook(l))'
    BY <1>2, <1>4 DEF GeoInv, GoodLook, UpToDate, Content
  <2>7. (\A j \in Inodes : data[j] <= release /\ mtime[j] <= clock)'
    BY <1>2, <1>4 DEF GeoInv
  <2> QED BY <1>0, <1>4, <2>1, <2>2, <2>4, <2>5, <2>6, <2>7, DownloadGoesOn DEF AtWork
<1> QED BY <1>1, <1>2 DEF Copy

(* The file that replaces an edition's is newer than anybody has seen.       *)
LEMMA RenameStep ==
  ASSUME GeoInv, NEW g \in Ops, Rename(g)
  PROVE  GeoInv'
<1> DEFINE e == Editions[op[g].ed]
<1>0. /\ GeoTypeOK /\ op[g] \in OpType /\ op[g].pc = "rename" /\ op[g].ed \in 1 .. Len(Editions)
      /\ e \in Names /\ e = Path(op[g])
  BY GeoTypes, PathNamed DEF Rename, At, GeoInv, OpType, Path
<1>1. UNCHANGED <<settings, release, data, mtime, clock, readers, look, audited, begun, overlapped>>
  BY DEF Rename
<1>2. CASE op' = [op EXCEPT ![g] = NextEdition(@, TRUE)] /\ UNCHANGED <<tmp, file>>
  BY <1>0, <1>1, <1>2, EditionFails DEF disk
<1>3. CASE /\ tmp[e] # None /\ file' = [file EXCEPT ![e] = tmp[e]] /\ tmp' = [tmp EXCEPT ![e] = None]
           /\ op' = [op EXCEPT ![g] = NextEdition(@, FALSE)]
  <2> DEFINE o == NextEdition(op[g], FALSE)
             i == tmp[e]
  <2>1. /\ o \in OpType /\ o.fd = None /\ o.pc \in {"fetch", "fail", "ok1"}
        /\ o.pc = "fetch" => o.ed = op[g].ed + 1 /\ o.failed = op[g].failed
        /\ o.pc = "ok1" => op[g].ed = Len(Editions) /\ ~op[g].failed
    <3>1. op[g].failed \in BOOLEAN
      BY <1>0 DEF OpType
    <3> QED BY <1>0, <3>1, NextEditionFields
  <2>2. op'[g] = o /\ (\A h \in Ops : h # g => op'[h] = op[h]) /\ op' \in [Ops -> OpType]
    BY <1>0, <1>3, <2>1 DEF GeoTypeOK
  <2> HIDE DEF o
  <2>3. /\ \A f \in Names : file'[f] = IF f = e THEN i ELSE file[f]
        /\ \A f \in Names : tmp'[f] = IF f = e THEN None ELSE tmp[f]
        /\ file' \in [Names -> Inodes \cup {None}] /\ tmp' \in [Names -> Inodes \cup {None}]
        /\ i \in Inodes
    BY <1>0, <1>3 DEF GeoTypeOK
  <2> HIDE DEF e, i
  <2>4. GeoTypeOK'
    BY <1>0, <1>1, <2>2, <2>3 DEF GeoTypeOK
  <2> SUFFICES ASSUME ~overlapped
               PROVE  /\ Solo' /\ Status'
                      /\ (\A j \in Inodes : data[j] <= release /\ mtime[j] <= clock)'
                      /\ (\A h \in Ops : Holds(op[h]) /\ Replaced(op[h]) /\ Complete(op[h]))'
                      /\ (\A f \in Names : GoodName(f))' /\ (\A l \in Lookups : GoodLook(l))'
    BY <1>1, <2>4 DEF GeoInv
  <2>5. /\ Replaced(op[g]) /\ Holds(op[g]) /\ Complete(op[g])
        /\ \A f \in Names : GoodName(f) /\ Private(f)
        /\ \A l \in Lookups : GoodLook(l)
        /\ \A j \in Inodes : data[j] <= release /\ mtime[j] <= clock
    BY DEF GeoInv, GoodName
  <2>6. /\ tmp[e] = i /\ i # None /\ data[i] = release /\ release \in 1 .. MaxRelease
        /\ \A f \in Names : readers[f].mtime < mtime[i]
        /\ \A l \in Lookups : look[l].seen < mtime[i]
        /\ mtime[i] \in Nat
    <3>1. op[g].fd = tmp[e] /\ op[g].fd # None
      BY <1>0, <2>5 DEF Holds
    <3>2. tmp[e] = i
      BY DEF i
    <3> QED BY <1>0, <2>3, <2>5, <3>1, <3>2 DEF Complete, GeoTypeOK
  <2>7. (\A f \in Names : GoodName(f))'
    <3> SUFFICES ASSUME NEW f \in Names PROVE GoodName(f)'
      OBVIOUS
    <3>1. Private(f)'
      BY <1>0, <1>1, <2>3, <2>5, <2>6 DEF Private
    <3>2. file'[f] # None => data'[file'[f]] # 0
      BY <1>1, <2>3, <2>5, <2>6 DEF GoodName
    <3>3. UpToDate(readers[f].h, readers[f].mtime, f)'
      <4>1. readers[f].mtime \in Nat /\ readers[f].mtime < mtime[i] /\ mtime[i] \in Nat
        BY <1>0, <2>6 DEF GeoTypeOK, ReaderType
      <4> QED BY <1>1, <2>3, <2>5, <2>6, <4>1 DEF GoodName, UpToDate
    <3> QED BY <1>1, <2>5, <3>1, <3>2, <3>3 DEF GoodName
  <2>8. (\A l \in Lookups : GoodLook(l))'
    <3> SUFFICES ASSUME NEW l \in Lookups PROVE GoodLook(l)'
      OBVIOUS
    <3>1. /\ GoodLook(l) /\ look[l].ed \in Names /\ look[l].seen \in Nat /\ look[l].since \in Nat
          /\ look[l].seen < mtime[i] /\ mtime[i] \in Nat
      BY <1>0, <2>5, <2>6 DEF GeoTypeOK, LookType
    <3>2. Content(file[look[l].ed]) <= release
      <4>1. file[look[l].ed] \in Inodes \cup {None}
        BY <1>0, <3>1 DEF GeoTypeOK
      <4> QED BY <2>5, <2>6, <4>1 DEF Content
    <3>3. look[l].since <= Content(file[look[l].ed]) => look[l].since <= Content(file[look[l].ed])'
      <4>1. CASE look[l].ed = e
        <5>1. Content(file[look[l].ed])' = release
          BY <1>1, <2>3, <2>6, <3>1, <4>1 DEF Content
        <5>2. Content(file[look[l].ed]) \in Nat
          BY <1>0, <3>1, GeoAssumption DEF Content, GeoTypeOK
        <5> QED BY <2>6, <3>1, <3>2, <5>1, <5>2
      <4>2. CASE look[l].ed # e
        BY <1>1, <2>3, <3>1, <4>2 DEF Content
      <4> QED BY <4>1, <4>2
    <3>4. look[l].pc = "stat" => UpToDate(look[l].h, look[l].seen, look[l].ed)'
      BY <1>1, <2>3, <2>6, <3>1 DEF GoodLook, UpToDate
    <3> QED BY <1>1, <3>1, <3>3, <3>4 DEF GoodLook
  <2>9. Holds(op[g])' /\ Complete(op[g])'
    BY <2>1, <2>2 DEF Holds, Complete
  <2>10. Replaced(op[g])'
    <3>1. ~op[g].failed => \A k \in 1 .. Len(Editions) : k < op[g].ed => file[Editions[k]] # None
      BY <1>0, <2>5 DEF Replaced
    <3>2. \A k \in 1 .. Len(Editions) : (k < op[g].ed + 1 /\ ~op[g].failed) => file'[Editions[k]] # None
      <4> SUFFICES ASSUME NEW k \in 1 .. Len(Editions), k < op[g].ed + 1, ~op[g].failed
                   PROVE  file'[Editions[k]] # None
        OBVIOUS
      <4>1. Editions[k] \in Names
        BY EditionNames
      <4>2. CASE k < op[g].ed
        BY <2>3, <2>6, <3>1, <4>1, <4>2
      <4>3. CASE k = op[g].ed
        BY <2>3, <2>6, <4>1, <4>3 DEF e
      <4> QED BY <1>0, <4>2, <4>3
    <3>3. o.pc = "ok1" => \A f \in Names : file'[f] # None
      <4>1. o.pc = "ok1" => \A k \in 1 .. Len(Editions) : file'[Editions[k]] # None
        BY <2>1, <3>2, EditionNames
      <4> QED BY <4>1, EditionNames
    <3> QED BY <2>1, <2>2, <3>2, <3>3 DEF Replaced
  <2>11. \A f \in Names : file[f] # None => file'[f] # None
    BY <2>3, <2>6
  <2>12. (\A j \in Inodes : data[j] <= release /\ mtime[j] <= clock)'
    BY <1>1, <2>5
  <2> QED BY <1>0, <1>1, <2>1, <2>2, <2>7, <2>8, <2>9, <2>10, <2>11, <2>12, DownloadGoesOn DEF AtWork
<1> QED BY <1>2, <1>3 DEF Rename

-----------------------------------------------------------------------------
(* Steps of lookups *)

(* A lookup's step changes no file: what a reader and a lookup have seen     *)
(* stays older than the file about to be renamed.                            *)
LEMMA LookupFrame ==
  ASSUME GeoInv, UNCHANGED <<settings, release, disk, op, audited, overlapped>>,
         readers' \in [Names -> ReaderType], look' \in [Lookups -> LookType],
         clock' \in Nat, clock <= clock',
         ~overlapped =>
           /\ \A e \in Names : GoodName(e)'
           /\ \A l \in Lookups : GoodLook(l)'
           /\ \A g \in Ops : op[g].pc = "rename" =>
                /\ \A e \in Names : readers'[e].mtime < mtime[op[g].fd]
                /\ \A l \in Lookups : look'[l].seen < mtime[op[g].fd]
  PROVE  GeoInv'
<1>1. GeoTypeOK'
  BY DEF GeoInv, GeoTypeOK, disk
<1> SUFFICES ASSUME ~overlapped
             PROVE  /\ Solo' /\ Status'
                    /\ (\A i \in Inodes : data[i] <= release /\ mtime[i] <= clock)'
                    /\ (\A g \in Ops : Holds(op[g]) /\ Replaced(op[g]) /\ Complete(op[g]))'
  BY <1>1 DEF GeoInv
<1>2. Solo' /\ Status'
  BY DEF GeoInv, Solo, Status, disk
<1>3. (\A i \in Inodes : data[i] <= release /\ mtime[i] <= clock)'
  <2> SUFFICES ASSUME NEW i \in Inodes PROVE data[i] <= release /\ mtime[i] <= clock'
    BY DEF disk
  <2>1. mtime[i] \in Nat /\ clock \in Nat /\ data[i] <= release /\ mtime[i] <= clock
    BY DEF GeoInv, GeoTypeOK
  <2> QED BY <2>1
<1>4. (\A g \in Ops : Holds(op[g]) /\ Replaced(op[g]) /\ Complete(op[g]))'
  <2> SUFFICES ASSUME NEW g \in Ops PROVE (Holds(op[g]) /\ Replaced(op[g]) /\ Complete(op[g]))'
    OBVIOUS
  <2>1. Holds(op[g]) /\ Replaced(op[g]) /\ Complete(op[g])
    BY DEF GeoInv
  <2>2. Holds(op[g])' /\ Replaced(op[g])'
    BY <2>1 DEF Holds, Replaced, Path, disk
  <2> QED BY <2>1, <2>2 DEF Complete, disk
<1> QED BY <1>2, <1>3, <1>4

(* One that leaves the readers alone, too.                                   *)
LEMMA LookOnly ==
  ASSUME GeoInv, NEW l \in Lookups, NEW n \in LookType, look' = [look EXCEPT ![l] = n],
         UNCHANGED <<settings, release, disk, clock, op, readers, audited, overlapped>>,
         ~overlapped =>
           /\ GoodLook(l)'
           /\ n.h.ino # None => \A e \in Names : tmp[e] # n.h.ino
           /\ \A g \in Ops : op[g].pc = "rename" => n.seen < mtime[op[g].fd]
  PROVE  GeoInv'
<1>1. /\ look' \in [Lookups -> LookType]
      /\ \A k \in Lookups : look'[k] = IF k = l THEN n ELSE look[k]
      /\ readers \in [Names -> ReaderType] /\ clock \in Nat
  BY DEF GeoInv, GeoTypeOK
<1>2. ASSUME ~overlapped, NEW e \in Names PROVE GoodName(e)'
  <2>1. GoodName(e)
    BY <1>2 DEF GeoInv
  <2>2. Private(e)'
    BY <1>1, <1>2, <2>1 DEF GoodName, Private, disk
  <2> QED BY <2>1, <2>2 DEF GoodName, UpToDate, disk
<1>3. ASSUME ~overlapped, NEW k \in Lookups PROVE GoodLook(k)'
  <2>1. CASE k = l BY <1>3, <2>1
  <2>2. CASE k # l
    <3>1. GoodLook(k) /\ look'[k] = look[k]
      BY <1>1, <1>3, <2>2 DEF GeoInv
    <3> QED BY <3>1 DEF GoodLook, UpToDate, Content, disk
  <2> QED BY <2>1, <2>2
<1>4. ASSUME ~overlapped, NEW g \in Ops, op[g].pc = "rename"
      PROVE  /\ \A e \in Names : readers'[e].mtime < mtime[op[g].fd]
             /\ \A k \in Lookups : look'[k].seen < mtime[op[g].fd]
  <2>1. Complete(op[g])
    BY <1>4 DEF GeoInv
  <2> QED BY <1>1, <1>4, <2>1 DEF Complete
<1> QED BY <1>1, <1>2, <1>3, <1>4, LookupFrame

LEMMA LookupEnds ==
  ASSUME GeoInv, NEW l \in Lookups, look' = [look EXCEPT ![l] = NoLook],
         UNCHANGED <<settings, release, disk, clock, op, readers, audited, overlapped>>
  PROVE  GeoInv'
<1>1. /\ look \in [Lookups -> LookType] /\ clock \in Nat /\ mtime \in [Inodes -> Nat]
      /\ op \in [Ops -> OpType]
  BY DEF GeoInv, GeoTypeOK
<1>2. look'[l] = NoLook
  BY <1>1
<1>3. GoodLook(l)'
  BY <1>1, <1>2, HandleTypes DEF GoodLook
<1>4. ASSUME ~overlapped, NEW g \in Ops, op[g].pc = "rename"
      PROVE  NoLook.seen < mtime[op[g].fd]
  <2>1. look[l].seen < mtime[op[g].fd] /\ look[l].seen \in Nat /\ op[g].fd \in Inodes
    BY <1>1, <1>4 DEF GeoInv, Complete, Holds, LookType, OpType
  <2> QED BY <1>1, <2>1, HandleTypes
<1> QED BY <1>3, <1>4, HandleTypes, LookOnly

LEMMA LookupBeginStep ==
  ASSUME GeoInv, NEW l \in Lookups, NEW e \in Names, LookupBegin(l, e)
  PROVE  GeoInv'
<1> DEFINE n == [pc |-> "stat", ed |-> e, h |-> readers[e].h,
                 seen |-> readers[e].mtime, since |-> Content(file[e])]
<1>1. GeoTypeOK /\ readers[e] \in ReaderType /\ file[e] \in Inodes \cup {None}
  BY DEF GeoInv, GeoTypeOK
<1>2. Content(file[e]) \in Nat
  BY <1>1, GeoAssumption DEF Content, GeoTypeOK
<1>3. n \in LookType
  BY <1>1, <1>2 DEF LookType, ReaderType
<1>4. look' = [look EXCEPT ![l] = n] /\ UNCHANGED <<settings, release, disk, clock, op, readers, audited, overlapped>>
  BY DEF LookupBegin
<1>5. look'[l] = n
  BY <1>1, <1>4 DEF GeoTypeOK
<1>6. ASSUME ~overlapped
      PROVE  /\ GoodLook(l)'
             /\ n.h.ino # None => \A f \in Names : tmp[f] # n.h.ino
             /\ \A g \in Ops : op[g].pc = "rename" => n.seen < mtime[op[g].fd]
  <2>1. GoodName(e) /\ \A f \in Names : Private(f)
    BY <1>6 DEF GeoInv, GoodName
  <2>2. GoodLook(l)'
    <3>1. n.seen <= clock /\ UpToDate(n.h, n.seen, e)
      BY <2>1 DEF GoodName
    <3>2. Content(file[e])' = Content(file[e])
      BY <1>4 DEF Content, disk
    <3> QED BY <1>2, <1>4, <1>5, <3>1, <3>2 DEF GoodLook, UpToDate, disk
  <2>3. n.h.ino # None => \A f \in Names : tmp[f] # n.h.ino
    BY <2>1 DEF Private
  <2>4. \A g \in Ops : op[g].pc = "rename" => n.seen < mtime[op[g].fd]
    BY <1>6 DEF GeoInv, Complete
  <2> QED BY <2>2, <2>3, <2>4
<1> HIDE DEF n
<1> QED BY <1>3, <1>4, <1>6, LookOnly

LEMMA LookupStatStep ==
  ASSUME GeoInv, NEW l \in Lookups, LookupStat(l)
  PROVE  GeoInv'
<1> DEFINE e == look[l].ed
           i == file[e]
<1>1. /\ GeoTypeOK /\ look[l] \in LookType /\ e \in Names /\ i \in Inodes \cup {None}
      /\ look[l].pc = "stat" /\ look[l].seen \in Nat /\ look[l].since \in Nat
      /\ look[l].h \in Handles
  BY DEF GeoInv, GeoTypeOK, LookType, LookupStat
<1>2. UNCHANGED <<settings, release, disk, clock, op, readers, audited, overlapped>>
  BY DEF LookupStat
<1>3. CASE i = None
  <2>1. look' = [look EXCEPT ![l] = NoLook]
    BY <1>1, <1>3 DEF LookupStat, GeoTypeOK
  <2> QED BY <1>2, <2>1, LookupEnds
<1>4. CASE i # None /\ look[l].h # Closed /\ mtime[i] = look[l].seen
  <2> DEFINE n == [look[l] EXCEPT !.pc = "use"]
  <2>1. look' = [look EXCEPT ![l] = n]
    BY <1>1, <1>4 DEF LookupStat, GeoTypeOK
  <2>2. /\ n \in LookType /\ n.pc = "use" /\ n.ed = e /\ n.h = look[l].h /\ n.seen = look[l].seen
        /\ n.since = look[l].since
    BY <1>1 DEF LookType
  <2> HIDE DEF n
  <2>3. look'[l] = n
    BY <1>1, <2>1 DEF GeoTypeOK
  <2>4. ASSUME ~overlapped
        PROVE  /\ GoodLook(l)'
               /\ n.h.ino # None => \A f \in Names : tmp[f] # n.h.ino
               /\ \A g \in Ops : op[g].pc = "rename" => n.seen < mtime[op[g].fd]
    <3>1. GoodLook(l) /\ (\A f \in Names : Private(f)) /\ \A g \in Ops : Complete(op[g])
      BY <2>4 DEF GeoInv, GoodName
    <3>2. UpToDate(n.h, n.seen, e) /\ n.since <= Content(i) /\ n.seen <= clock
      BY <1>1, <2>2, <3>1 DEF GoodLook
    <3>3. n.h.ino # None /\ data[n.h.ino] # 0 /\ data[i] <= data[n.h.ino]
      BY <1>1, <1>4, <2>2, <3>2 DEF UpToDate
    <3>4. data[i] \in Nat /\ data[n.h.ino] \in Nat /\ n.since \in Nat
      BY <1>1, <1>4, <2>2, <3>3, GeoAssumption DEF GeoTypeOK, Handles
    <3>5. data[n.h.ino] >= n.since
      BY <1>4, <3>2, <3>3, <3>4 DEF Content
    <3>6. GoodLook(l)'
      BY <1>2, <2>2, <2>3, <3>2, <3>3, <3>5 DEF GoodLook, disk
    <3>7. n.h.ino # None => \A f \in Names : tmp[f] # n.h.ino
      BY <1>1, <2>2, <3>1 DEF Private
    <3>8. \A g \in Ops : op[g].pc = "rename" => n.seen < mtime[op[g].fd]
      BY <2>2, <3>1 DEF Complete
    <3> QED BY <3>6, <3>7, <3>8
  <2> QED BY <1>2, <2>1, <2>2, <2>4, LookOnly
<1>5. CASE i # None /\ ~(look[l].h # Closed /\ mtime[i] = look[l].seen)
  <2> DEFINE n == [look[l] EXCEPT !.pc = "lock", !.seen = mtime[i], !.h = Closed]
  <2>1. look' = [look EXCEPT ![l] = n]
    BY <1>1, <1>5 DEF LookupStat, GeoTypeOK
  <2>2. mtime[i] \in Nat
    BY <1>1, <1>5 DEF GeoTypeOK
  <2>3. /\ n \in LookType /\ n.pc = "lock" /\ n.ed = e /\ n.h = Closed /\ n.seen = mtime[i]
        /\ n.since = look[l].since
    <3> DEFINE m == mtime[i]
    <3>1. m \in Nat
      BY <2>2
    <3>2. n = [look[l] EXCEPT !.pc = "lock", !.seen = m, !.h = Closed]
      OBVIOUS
    <3> HIDE DEF m
    <3>3. /\ n \in LookType /\ n.pc = "lock" /\ n.ed = e /\ n.h = Closed /\ n.seen = m
          /\ n.since = look[l].since
      BY <1>1, <3>1, <3>2, HandleTypes DEF LookType
    <3> QED BY <3>3 DEF m
  <2> HIDE DEF n
  <2>4. look'[l] = n
    BY <1>1, <2>1 DEF GeoTypeOK
  <2>5. ASSUME ~overlapped
        PROVE  /\ GoodLook(l)'
               /\ \A g \in Ops : op[g].pc = "rename" => n.seen < mtime[op[g].fd]
    <3>1. GoodLook(l) /\ GoodName(e) /\ \A g \in Ops : Complete(op[g])
      BY <1>1, <2>5 DEF GeoInv
    <3>2. mtime[i] <= clock
      BY <1>1, <1>5, <2>5 DEF GeoInv
    <3>3. n.since <= Content(i)
      BY <1>1, <2>3, <3>1 DEF GoodLook
    <3>4. (readers[e].h # Closed /\ readers[e].mtime = n.seen) => data[readers[e].h.ino] >= n.since
      <4> SUFFICES ASSUME readers[e].h # Closed, readers[e].mtime = n.seen
                   PROVE  data[readers[e].h.ino] >= n.since
        OBVIOUS
      <4>1. readers[e].h.ino # None /\ data[i] <= data[readers[e].h.ino]
        BY <2>2, <2>3, <3>1 DEF GoodName, UpToDate
      <4>2. data[i] \in Nat /\ data[readers[e].h.ino] \in Nat /\ n.since \in Nat
        BY <1>1, <1>5, <2>3, <4>1, GeoAssumption DEF GeoTypeOK, ReaderType, Handles
      <4> QED BY <1>5, <3>3, <4>1, <4>2 DEF Content
    <3>5. GoodLook(l)'
      BY <1>2, <2>3, <2>4, <3>2, <3>3, <3>4 DEF GoodLook, Content, disk
    <3>6. \A g \in Ops : op[g].pc = "rename" => n.seen < mtime[op[g].fd]
      BY <1>1, <1>5, <2>3, <3>1 DEF Complete
    <3> QED BY <3>5, <3>6
  <2> QED BY <1>2, <2>1, <2>3, <2>5, HandleTypes, LookOnly
<1> QED BY <1>3, <1>4, <1>5

LEMMA LookupReopenStep ==
  ASSUME GeoInv, NEW l \in Lookups, LookupReopen(l)
  PROVE  GeoInv'
<1> DEFINE e == look[l].ed
           i == file[e]
           h == [ino |-> i, id |-> clock + 1]
<1>1. /\ GeoTypeOK /\ look[l] \in LookType /\ e \in Names /\ i \in Inodes \cup {None}
      /\ look[l].pc = "lock" /\ look[l].seen \in Nat /\ look[l].since \in Nat
      /\ look[l].h \in Handles /\ readers[e] \in ReaderType /\ clock \in Nat
  BY DEF GeoInv, GeoTypeOK, LookType, LookupReopen
<1>2. UNCHANGED <<settings, release, disk, op, audited, overlapped>>
  BY DEF LookupReopen
<1>3. CASE /\ readers[e].h # Closed /\ readers[e].mtime = look[l].seen
           /\ look' = [look EXCEPT ![l].pc = "use", ![l].h = readers[e].h]
           /\ UNCHANGED <<readers, clock>>
  <2> DEFINE n == [look[l] EXCEPT !.pc = "use", !.h = readers[e].h]
  <2>1. look' = [look EXCEPT ![l] = n]
    BY <1>1, <1>3 DEF GeoTypeOK
  <2>2. /\ n \in LookType /\ n.pc = "use" /\ n.ed = e /\ n.h = readers[e].h /\ n.seen = look[l].seen
        /\ n.since = look[l].since
    <3>1. readers[e].h \in Handles
      BY <1>1 DEF ReaderType
    <3> DEFINE k == readers[e].h
    <3>2. k \in Handles /\ n = [look[l] EXCEPT !.pc = "use", !.h = k]
      BY <3>1
    <3> HIDE DEF k
    <3>3. /\ n \in LookType /\ n.pc = "use" /\ n.ed = e /\ n.h = k /\ n.seen = look[l].seen
          /\ n.since = look[l].since
      BY <1>1, <3>2 DEF LookType
    <3> QED BY <3>3 DEF k
  <2> HIDE DEF n
  <2>3. look'[l] = n
    BY <1>1, <2>1 DEF GeoTypeOK
  <2>4. ASSUME ~overlapped
        PROVE  /\ GoodLook(l)'
               /\ n.h.ino # None => \A f \in Names : tmp[f] # n.h.ino
               /\ \A g \in Ops : op[g].pc = "rename" => n.seen < mtime[op[g].fd]
    <3>1. /\ GoodLook(l) /\ GoodName(e) /\ (\A f \in Names : Private(f))
          /\ \A g \in Ops : Complete(op[g])
      BY <1>1, <2>4 DEF GeoInv, GoodName
    <3>2. n.h.ino # None /\ data[n.h.ino] # 0
      BY <1>3, <2>2, <3>1 DEF GoodName, UpToDate
    <3>3. data[n.h.ino] >= n.since
      BY <1>1, <1>3, <2>2, <3>1 DEF GoodLook
    <3>4. GoodLook(l)'
      BY <1>2, <1>3, <2>2, <2>3, <3>1, <3>2, <3>3 DEF GoodLook, disk
    <3>5. n.h.ino # None => \A f \in Names : tmp[f] # n.h.ino
      BY <1>1, <2>2, <3>1 DEF Private
    <3>6. \A g \in Ops : op[g].pc = "rename" => n.seen < mtime[op[g].fd]
      BY <2>2, <3>1 DEF Complete
    <3> QED BY <3>4, <3>5, <3>6
  <2> QED BY <1>2, <1>3, <2>1, <2>2, <2>4, LookOnly
<1>4. CASE look' = [look EXCEPT ![l] = NoLook] /\ UNCHANGED <<readers, clock>>
  BY <1>2, <1>4, LookupEnds
<1>5. CASE /\ Content(i) # 0
           /\ readers' = [readers EXCEPT ![e] = [h |-> h, mtime |-> look[l].seen]]
           /\ look' = [look EXCEPT ![l].pc = "use", ![l].h = h]
           /\ clock' = clock + 1
  <2> DEFINE n == [look[l] EXCEPT !.pc = "use", !.h = h]
             r == [h |-> h, mtime |-> look[l].seen]
  <2>1. look' = [look EXCEPT ![l] = n]
    BY <1>1, <1>5 DEF GeoTypeOK
  <2>2. h \in Handles /\ h.ino = i /\ r \in ReaderType /\ r.h = h /\ r.mtime = look[l].seen
    BY <1>1 DEF Handles, ReaderType
  <2> HIDE DEF h, r
  <2>3. /\ n \in LookType /\ n.pc = "use" /\ n.ed = e /\ n.h = h /\ n.seen = look[l].seen
        /\ n.since = look[l].since
    BY <1>1, <2>2 DEF LookType
  <2> HIDE DEF n
  <2>4. /\ look' \in [Lookups -> LookType] /\ readers' \in [Names -> ReaderType]
        /\ \A k \in Lookups : look'[k] = IF k = l THEN n ELSE look[k]
        /\ \A f \in Names : readers'[f] = IF f = e THEN r ELSE readers[f]
    BY <1>1, <1>5, <2>1, <2>2, <2>3 DEF GeoTypeOK, r
  <2>5. i # None /\ i \in Inodes /\ data[i] # 0 /\ Content(i) = data[i]
    BY <1>1, <1>5 DEF Content
  <2> SUFFICES ASSUME ~overlapped
               PROVE  /\ \A f \in Names : GoodName(f)'
                      /\ \A k \in Lookups : GoodLook(k)'
                      /\ \A g \in Ops : op[g].pc = "rename" =>
                           /\ \A f \in Names : readers'[f].mtime < mtime[op[g].fd]
                           /\ \A k \in Lookups : look'[k].seen < mtime[op[g].fd]
    BY <1>1, <1>2, <1>5, <2>4, LookupFrame
  <2>6. /\ \A f \in Names : GoodName(f) /\ Private(f)
        /\ \A k \in Lookups : GoodLook(k)
        /\ \A g \in Ops : Complete(op[g])
    BY DEF GeoInv, GoodName
  <2>7. data[i] \in Nat /\ data[i] <= data[i]
    BY <1>1, <2>5, GeoAssumption DEF GeoTypeOK
  <2>8. ASSUME NEW f \in Names PROVE GoodName(f)'
    <3>1. Private(f)'
      BY <1>1, <1>2, <2>2, <2>3, <2>4, <2>6 DEF Private, disk
    <3>2. CASE f = e
      <4>1. readers'[f] = r /\ r.mtime <= clock /\ clock' = clock + 1
        BY <1>1, <1>5, <2>2, <2>4, <2>6, <3>2 DEF GoodLook
      <4>2. readers'[f].mtime <= clock'
        BY <1>1, <2>2, <4>1
      <4>3. UpToDate(readers[f].h, readers[f].mtime, f)'
        BY <1>2, <2>2, <2>5, <2>7, <3>2, <4>1 DEF UpToDate, disk
      <4> QED BY <1>2, <2>6, <3>1, <4>2, <4>3 DEF GoodName, disk
    <3>3. CASE f # e
      <4>1. readers'[f] = readers[f] /\ readers[f].mtime \in Nat
        BY <1>1, <2>4, <3>3 DEF GeoTypeOK, ReaderType
      <4>2. readers'[f].mtime <= clock'
        BY <1>1, <1>5, <2>6, <4>1 DEF GoodName
      <4> QED BY <1>2, <2>6, <3>1, <4>1, <4>2 DEF GoodName, UpToDate, disk
    <3> QED BY <3>2, <3>3
  <2>9. ASSUME NEW k \in Lookups PROVE GoodLook(k)'
    <3>1. GoodLook(k) /\ GoodLook(l) /\ look[k] \in LookType /\ look[k].seen \in Nat
          /\ look[k].since \in Nat /\ look[k].ed \in Names
      BY <1>1, <2>6 DEF GeoTypeOK, LookType
    <3>2. CASE k = l
      <4>1. look'[k] = n /\ n.seen <= clock /\ n.since <= Content(i)
        BY <1>1, <2>3, <2>4, <3>1, <3>2 DEF GoodLook
      <4>2. n.seen <= clock' /\ data[n.h.ino] >= n.since /\ n.h.ino # None /\ data[n.h.ino] # 0
        BY <1>1, <1>5, <2>2, <2>3, <2>5, <2>7, <4>1
      <4> QED BY <1>2, <2>3, <4>1, <4>2 DEF GoodLook, disk
    <3>3. CASE k # l
      <4>1. look'[k] = look[k] /\ look[k].seen <= clock'
        BY <1>1, <1>5, <2>4, <3>1, <3>3 DEF GoodLook
      <4>2. look[k].pc = "lock" =>
              LET s == readers'[look[k].ed]
              IN (s.h # Closed /\ s.mtime = look[k].seen) => data[s.h.ino] >= look[k].since
        <5>1. CASE look[k].ed = e
          BY <2>2, <2>4, <2>5, <2>7, <3>1, <5>1 DEF GoodLook
        <5>2. CASE look[k].ed # e
          BY <2>4, <3>1, <5>2 DEF GoodLook
        <5> QED BY <5>1, <5>2
      <4> QED BY <1>2, <3>1, <4>1, <4>2 DEF GoodLook, UpToDate, Content, disk
    <3> QED BY <3>2, <3>3
  <2>10. ASSUME NEW g \in Ops, op[g].pc = "rename"
         PROVE  /\ \A f \in Names : readers'[f].mtime < mtime[op[g].fd]
                /\ \A k \in Lookups : look'[k].seen < mtime[op[g].fd]
    BY <1>1, <2>2, <2>3, <2>4, <2>6, <2>10 DEF Complete
  <2> QED BY <2>8, <2>9, <2>10
<1> QED BY <1>3, <1>4, <1>5 DEF LookupReopen

LEMMA CoreRestartStep ==
  ASSUME GeoInv, CoreRestart
  PROVE  GeoInv'
<1>1. UNCHANGED <<settings, release, disk, clock, audited, overlapped>>
      /\ (\A g \in Ops : op'[g] = Idle) /\ (\A e \in Names : readers'[e] = NoReader)
      /\ (\A l \in Lookups : look'[l] = NoLook)
  BY DEF CoreRestart
<1>2. GeoTypeOK'
  <2>1. /\ op' \in [Ops -> OpType] /\ readers' \in [Names -> ReaderType]
        /\ look' \in [Lookups -> LookType]
    BY IdleType, HandleTypes DEF CoreRestart
  <2> QED BY <1>1, <2>1 DEF GeoInv, GeoTypeOK, disk
<1> SUFFICES ASSUME ~overlapped
             PROVE  /\ Solo' /\ Status'
                    /\ (\A i \in Inodes : data[i] <= release /\ mtime[i] <= clock)'
                    /\ (\A g \in Ops : Holds(op[g]) /\ Replaced(op[g]) /\ Complete(op[g]))'
                    /\ (\A e \in Names : GoodName(e))' /\ (\A l \in Lookups : GoodLook(l))'
  BY <1>1, <1>2 DEF GeoInv
<1>3. Solo' /\ Status'
  BY <1>1, IdleType DEF GeoInv, Solo, Status, AtWork, disk
<1>4. (\A i \in Inodes : data[i] <= release /\ mtime[i] <= clock)'
  BY <1>1 DEF GeoInv, disk
<1>5. (\A g \in Ops : Holds(op[g]) /\ Replaced(op[g]) /\ Complete(op[g]))'
  BY <1>1, IdleType DEF Holds, Replaced, Complete
<1>6. (\A e \in Names : GoodName(e))'
  <2>1. clock \in Nat
    BY DEF GeoInv, GeoTypeOK
  <2> QED BY <1>1, <2>1, HandleTypes DEF GeoInv, GoodName, Private, UpToDate, disk
<1>7. (\A l \in Lookups : GoodLook(l))'
  <2>1. clock \in Nat
    BY DEF GeoInv, GeoTypeOK
  <2> QED BY <1>1, <2>1, HandleTypes DEF GoodLook
<1> QED BY <1>3, <1>4, <1>5, <1>6, <1>7

LEMMA GeoNextInv == GeoInv /\ [GeoNext]_geoVars => GeoInv'
<1> SUFFICES ASSUME GeoInv, [GeoNext]_geoVars
             PROVE  GeoInv'
  OBVIOUS
<1>1. ASSUME NEW g \in Ops,
             \/ \E keys \in SUBSET Keys : Configure(g, keys)
             \/ \E k \in Keys : SaveGeoKey(g, k)
             \/ Delete(g) \/ ClearKey(g) \/ Cancel(g)
             \/ Resolve(g) \/ RecordCheck(g) \/ FetchEdition(g) \/ Copy(g) \/ Rename(g)
             \/ recordFailure(g) \/ ClearError(g) \/ ClearErrorFails(g) \/ RecordSuccess(g)
      PROVE  GeoInv'
  BY <1>1, ConfigureStep, SaveGeoKeyStep, DeleteStep, ClearKeyStep, CancelStep, ResolveStep,
     RecordCheckStep, FetchEditionStep, CopyStep, RenameStep, recordFailureStep, ClearErrorStep,
     ClearErrorFailsStep, RecordSuccessStep
<1>2. CASE Schedule \/ CoreRestart
  BY <1>2, ScheduleStep, CoreRestartStep
<1>3. ASSUME NEW l \in Lookups,
             \/ \E e \in Names : LookupBegin(l, e)
             \/ LookupStat(l) \/ LookupReopen(l) \/ LookupUse(l)
      PROVE  GeoInv'
  <2>1. LookupUse(l) => GeoInv'
    BY LookupEnds DEF LookupUse
  <2> QED BY <1>3, <2>1, LookupBeginStep, LookupStatStep, LookupReopenStep
<1>4. CASE UNCHANGED geoVars
  <2>1. UNCHANGED <<settings, release, disk, clock, op, readers, look, audited, overlapped>>
    BY <1>4 DEF geoVars
  <2>2. GeoTypeOK'
    BY <2>1 DEF GeoInv, GeoTypeOK, disk
  <2> QED BY <2>1, <2>2 DEF GeoInv, Solo, Status, Holds, Replaced, Complete, Path, GoodName, Private,
             UpToDate, GoodLook, Content, disk
<1> QED BY <1>1, <1>2, <1>3, <1>4 DEF GeoNext

LEMMA GeoInvariant == GeoSpec => []GeoInv
<1>1. GeoInit => GeoInv
  BY GeoStart
<1> QED BY <1>1, GeoNextInv, PTL DEF GeoSpec

(* No lookup ever reads a half-written file: in every state in which no two  *)
(* downloads have overlapped, each edition's path names a complete release   *)
(* and so does each reader in use; downloadEdition's rename and reader.get.  *)
THEOREM FilesAlwaysWhole == GeoSpec => []WholeFiles
<1>1. GeoInv => WholeFiles
  BY DEF GeoInv, WholeFiles, GoodName, GoodLook
<1> QED BY <1>1, GeoInvariant, PTL

(* A download takes effect for the very next lookup: whatever a lookup reads *)
(* is at least as new as the file was when the lookup began; the stat, the   *)
(* double check under the lock and the reopen of reader.get.                 *)
THEOREM LookupsAlwaysFresh == GeoSpec => []LookupIsFresh
<1>1. GeoInv => LookupIsFresh
  BY DEF GeoInv, LookupIsFresh, GoodLook
<1> QED BY <1>1, GeoInvariant, PTL

(* The admin page's status is true while nothing runs: an error is on        *)
(* display only if the newest attempt failed or the old error could not be   *)
(* deleted, a time of the last update only if every edition has a database;  *)
(* recordFailure and downloadAll's end.                                      *)
THEOREM StatusAlwaysTrue == GeoSpec => []StatusTellsTruth
<1>1. GeoInv => StatusTellsTruth
  BY DEF GeoInv, StatusTellsTruth, Status
<1> QED BY <1>1, GeoInvariant, PTL

-----------------------------------------------------------------------------
(* Sequences, and the members of them that keep keeps *)

(* Induction on the length of a sequence. The provers have it neither for    *)
(* numbers nor for sequences, but a set of numbers has a least member: one   *)
(* with the fewest members below it, by the well-foundedness of inclusion.   *)
LEMMA LeastOf ==
  ASSUME NEW N \in Nat, NEW S \in SUBSET (0 .. N), S # {}
  PROVE  \E m \in S : \A n \in S : m <= n
  <1> DEFINE Below(i) == {j \in S : j < i}
             T == {Below(i) : i \in S}
             R == StrictSubsetOrdering(0 .. N)
  <1>1. IsFiniteSet(0 .. N) BY FS_Interval
  <1>2. IsWellFoundedOn(R, SUBSET (0 .. N))
    BY <1>1, FS_FiniteSubsetsOfFinite, FS_StrictSubsetOrderingWellFounded
  <1>3. T \subseteq SUBSET (0 .. N) /\ T # {} OBVIOUS
  <1>4. \E x \in T : \A y \in T : <<y, x>> \notin R
    <2> HIDE DEF T, R
    <2> QED BY <1>2, <1>3, WFMin
  <1>5. PICK m \in S : \A y \in T : <<y, Below(m)>> \notin R BY <1>4
  <1>6. ASSUME NEW n \in S, n < m PROVE FALSE
    <2>0. n \in Int /\ m \in Int /\ \A j \in S : j \in Int BY <1>6
    <2>1. Below(n) \subseteq Below(m)
      <3>1. ASSUME NEW j \in Below(n) PROVE j \in Below(m)
        <4>1. j \in S /\ j \in Int /\ j < n BY <2>0
        <4>2. j < m BY <1>6, <2>0, <4>1
        <4> QED BY <4>1, <4>2
      <3> QED BY <3>1
    <2>2. n \in Below(m) /\ n \notin Below(n) BY <1>6, <2>0
    <2>3. Below(n) \in SUBSET (0 .. N) /\ Below(m) \in SUBSET (0 .. N) OBVIOUS
    <2>4. <<Below(n), Below(m)>> \in R
      <3> HIDE DEF Below
      <3> QED BY <2>1, <2>2, <2>3 DEF StrictSubsetOrdering
    <2> QED BY <1>5, <2>4
  <1> QED BY <1>6

LEMMA UpTo ==
  ASSUME NEW N \in Nat, NEW T, 0 \in T, \A n \in 0 .. N - 1 : n \in T => n + 1 \in T
  PROVE  0 .. N \subseteq T
<1> DEFINE U == (0 .. N) \ T
<1>1. SUFFICES ASSUME U # {} PROVE FALSE
  OBVIOUS
<1>2. U \in SUBSET (0 .. N)
  OBVIOUS
<1>3. \E m \in U : \A n \in U : m <= n
  <2> HIDE DEF U
  <2> QED BY <1>1, <1>2, LeastOf
<1>4. PICK m \in U : \A n \in U : m <= n
  BY <1>3
<1>5. m \in 0 .. N /\ m \notin T /\ m # 0
  BY <1>4
<1>6. m - 1 \in 0 .. N - 1 /\ m - 1 \in 0 .. N /\ ~(m <= m - 1)
  BY <1>5
<1>7. m - 1 \in T
  BY <1>4, <1>6
<1>8. (m - 1) + 1 \in T
  BY <1>6, <1>7
<1> QED BY <1>5, <1>8

(* A set of sequences that has the empty one and grows by appending has all. *)
LEMMA AllSequences ==
  ASSUME NEW S, NEW T, << >> \in T, \A s \in Seq(S), e \in S : s \in T => Append(s, e) \in T
  PROVE  Seq(S) \subseteq T
<1> SUFFICES ASSUME NEW s \in Seq(S) PROVE s \in T
  OBVIOUS
<1> DEFINE U == {n \in 0 .. Len(s) : SubSeq(s, 1, n) \in T}
<1>1. Len(s) \in Nat
  OBVIOUS
<1>2. 0 \in U
  <2>1. SubSeq(s, 1, 0) = << >>
    OBVIOUS
  <2>2. SubSeq(s, 1, 0) \in T
    BY ONLY <2>1, << >> \in T, Zenon
  <2>3. 0 \in 0 .. Len(s)
    BY <1>1
  <2> QED BY <2>2, <2>3
<1>3. ASSUME NEW n \in 0 .. Len(s) - 1, n \in U PROVE n + 1 \in U
  <2>1. n + 1 \in 1 .. Len(s) /\ s[n + 1] \in S
    BY <1>1
  <2>2. SubSeq(s, 1, n) \in Seq(S)
    BY <1>1
  <2>3. SubSeq(s, 1, n + 1) = Append(SubSeq(s, 1, n), s[n + 1])
    BY <1>1, <2>1
  <2>4. SubSeq(s, 1, n + 1) \in T
    BY <1>3, <2>1, <2>2, <2>3
  <2> QED BY <2>1, <2>4
<1>4. 0 .. Len(s) \subseteq U
  <2> HIDE DEF U
  <2> QED BY <1>1, <1>2, <1>3, UpTo
<1>5. SubSeq(s, 1, Len(s)) \in T
  BY <1>1, <1>4
<1>6. SubSeq(s, 1, Len(s)) = s
  OBVIOUS
<1> QED BY <1>5, <1>6

(* The recursion that defines keep, with its function as a parameter.        *)
Kept(s, A, F) ==
  [i \in 0 .. Len(s) |->
     IF i = 0 THEN << >> ELSE IF s[i] \in A THEN Append(F[i - 1], s[i]) ELSE F[i - 1]]

LEMMA KeptAgree ==
  ASSUME NEW S, NEW A, NEW s \in Seq(S), NEW t \in Seq(S), NEW F, NEW G,
         F = Kept(s, A, F), G = Kept(t, A, G), Len(s) <= Len(t),
         \A i \in 1 .. Len(s) : t[i] = s[i]
  PROVE  F[Len(s)] = G[Len(s)]
<1> DEFINE U == {n \in 0 .. Len(s) : F[n] = G[n]}
<1>1. Len(s) \in Nat /\ Len(t) \in Nat /\ 0 .. Len(s) \subseteq 0 .. Len(t)
  OBVIOUS
<1>2. \A i \in 0 .. Len(s) :
        F[i] = IF i = 0 THEN << >> ELSE IF s[i] \in A THEN Append(F[i - 1], s[i]) ELSE F[i - 1]
  BY DEF Kept
<1>3. \A i \in 0 .. Len(t) :
        G[i] = IF i = 0 THEN << >> ELSE IF t[i] \in A THEN Append(G[i - 1], t[i]) ELSE G[i - 1]
  BY DEF Kept
<1>4. 0 \in U
  BY <1>1, <1>2, <1>3
<1>5. ASSUME NEW n \in 0 .. Len(s) - 1, n \in U PROVE n + 1 \in U
  <2>1. n + 1 \in 0 .. Len(s) /\ n + 1 \in 0 .. Len(t) /\ n + 1 \in 1 .. Len(s) /\ n + 1 # 0 /\ (n + 1) - 1 = n
    BY <1>1
  <2>2. t[n + 1] = s[n + 1] /\ F[n] = G[n]
    BY <1>5, <2>1
  <2>3. F[n + 1] = IF s[n + 1] \in A THEN Append(F[n], s[n + 1]) ELSE F[n]
    BY <1>2, <2>1
  <2>4. G[n + 1] = IF t[n + 1] \in A THEN Append(G[n], t[n + 1]) ELSE G[n]
    BY <1>3, <2>1
  <2> QED BY <2>1, <2>2, <2>3, <2>4
<1>6. 0 .. Len(s) \subseteq U
  <2> HIDE DEF U
  <2> QED BY <1>1, <1>4, <1>5, UpTo
<1> QED BY <1>1, <1>6

LEMMA KeptExists == ASSUME NEW S, NEW A PROVE \A s \in Seq(S) : \E F : F = Kept(s, A, F)
<1> DEFINE T == {s \in Seq(S) : \E F : F = Kept(s, A, F)}
<1>1. << >> \in T
  <2>1. [i \in 0 .. 0 |-> << >>] = Kept(<< >>, A, [i \in 0 .. 0 |-> << >>])
    BY DEF Kept
  <2> QED BY <2>1
<1>2. ASSUME NEW s \in Seq(S), NEW e \in S, s \in T PROVE Append(s, e) \in T
  <2> DEFINE t == Append(s, e)
             n == Len(s)
  <2>1. PICK F : F = Kept(s, A, F)
    BY <1>2
  <2> DEFINE G == [i \in 0 .. n + 1 |-> IF i <= n THEN F[i] ELSE IF e \in A THEN Append(F[n], e) ELSE F[n]]
  <2>2. n \in Nat /\ t \in Seq(S) /\ Len(t) = n + 1 /\ t[n + 1] = e /\ \A i \in 1 .. n : t[i] = s[i]
    OBVIOUS
  <2>3. \A i \in 0 .. n :
          F[i] = IF i = 0 THEN << >> ELSE IF s[i] \in A THEN Append(F[i - 1], s[i]) ELSE F[i - 1]
    BY <2>1 DEF Kept
  <2>4. \A i \in 0 .. n : G[i] = F[i]
    BY <2>2
  <2>5. G[n + 1] = IF e \in A THEN Append(F[n], e) ELSE F[n]
    BY <2>2
  <2>6. DOMAIN G = 0 .. n + 1
    OBVIOUS
  <2> HIDE DEF G, t, n
  <2>7. ASSUME NEW i \in 0 .. n + 1
        PROVE  G[i] = IF i = 0 THEN << >> ELSE IF t[i] \in A THEN Append(G[i - 1], t[i]) ELSE G[i - 1]
    <3>1. CASE i = 0
      BY <2>2, <2>3, <2>4, <3>1
    <3>2. CASE i \in 1 .. n
      <4>1. i - 1 \in 0 .. n /\ i \in 0 .. n /\ i # 0
        BY <2>2, <3>2
      <4>2. G[i] = F[i] /\ G[i - 1] = F[i - 1] /\ t[i] = s[i]
        BY <2>2, <2>4, <3>2, <4>1
      <4>3. F[i] = IF s[i] \in A THEN Append(F[i - 1], s[i]) ELSE F[i - 1]
        BY <2>3, <4>1
      <4> QED BY <4>1, <4>2, <4>3
    <3>3. CASE i = n + 1
      <4>1. i # 0 /\ i - 1 = n /\ n \in 0 .. n
        BY <2>2, <3>3
      <4> QED BY <2>2, <2>4, <2>5, <3>3, <4>1
    <3>4. i = 0 \/ i \in 1 .. n \/ i = n + 1
      BY <2>2
    <3> QED BY <3>1, <3>2, <3>3, <3>4
  <2>8. G = [i \in 0 .. n + 1 |-> G[i]]
    BY <2>6 DEF G
  <2>9. Kept(t, A, G) = [i \in 0 .. n + 1 |-> G[i]]
    BY <2>2, <2>7 DEF Kept
  <2>10. t \in T
    BY <2>2, <2>8, <2>9
  <2> QED BY <2>10 DEF t
<1>3. Seq(S) \subseteq T
  <2> HIDE DEF T
  <2> QED BY <1>1, <1>2, AllSequences
<1> QED BY <1>3

(* keep drops the members of a sequence one by one from its end.             *)
LEMMA KeepRecursion ==
  ASSUME NEW S, NEW A, NEW s \in Seq(S)
  PROVE  \E F : F = Kept(s, A, F) /\ keep(s, A) = F[Len(s)]
<1>1. keep(s, A) = (CHOOSE F : F = Kept(s, A, F))[Len(s)]
  BY DEF keep, Kept
<1>2. \E F : F = Kept(s, A, F)
  BY KeptExists
<1>3. (CHOOSE F : F = Kept(s, A, F)) = Kept(s, A, CHOOSE F : F = Kept(s, A, F))
  BY <1>2
<1> QED BY <1>1, <1>3

LEMMA KeepEmpty == ASSUME NEW A PROVE keep(<< >>, A) = << >>
<1>1. << >> \in Seq({}) /\ Len(<< >>) = 0
  OBVIOUS
<1>2. PICK F : F = Kept(<< >>, A, F) /\ keep(<< >>, A) = F[Len(<< >>)]
  BY <1>1, KeepRecursion
<1>3. F[0] = << >>
  BY <1>1, <1>2 DEF Kept
<1> QED BY <1>1, <1>2, <1>3

LEMMA KeepAppend ==
  ASSUME NEW S, NEW A, NEW s \in Seq(S), NEW e \in S
  PROVE  keep(Append(s, e), A) = IF e \in A THEN Append(keep(s, A), e) ELSE keep(s, A)
<1> DEFINE t == Append(s, e)
           n == Len(s)
<1>1. n \in Nat /\ t \in Seq(S) /\ Len(t) = n + 1 /\ t[n + 1] = e /\ \A i \in 1 .. n : t[i] = s[i]
  OBVIOUS
<1> HIDE DEF t
<1>2. PICK F : F = Kept(s, A, F) /\ keep(s, A) = F[Len(s)]
  BY KeepRecursion
<1>3. PICK G : G = Kept(t, A, G) /\ keep(t, A) = G[Len(t)]
  BY <1>1, KeepRecursion
<1>4. F[n] = G[n]
  BY <1>1, <1>2, <1>3, KeptAgree
<1>5. n + 1 \in 0 .. Len(t) /\ n + 1 # 0 /\ (n + 1) - 1 = n
  BY <1>1
<1>6. G[n + 1] = IF t[n + 1] \in A THEN Append(G[n], t[n + 1]) ELSE G[n]
  BY <1>3, <1>5 DEF Kept
<1> QED BY <1>1, <1>2, <1>3, <1>4, <1>6 DEF t

LEMMA EmptySequence ==
  ASSUME NEW S, NEW s \in Seq(S) PROVE ToSet(s) = {} <=> s = << >>
<1>1. Len(s) \in Nat /\ DOMAIN s = 1 .. Len(s)
  OBVIOUS
<1>2. CASE Len(s) = 0
  <2>1. s = << >>
    BY <1>2
  <2>2. DOMAIN s = {}
    BY <1>1, <1>2
  <2> QED BY <2>1, <2>2 DEF ToSet
<1>3. CASE Len(s) # 0
  <2>1. s # << >> /\ 1 \in DOMAIN s
    BY <1>1, <1>3
  <2> QED BY <2>1 DEF ToSet
<1> QED BY <1>2, <1>3

LEMMA AppendConcat ==
  ASSUME NEW S, NEW e \in S
  PROVE  \A s, t \in Seq(S) : Append(s \o t, e) = s \o Append(t, e)
<1> TAKE s, t \in Seq(S)
<1> QED OBVIOUS

LEMMA AppendedSet ==
  ASSUME NEW S, NEW s \in Seq(S), NEW e PROVE ToSet(Append(s, e)) = ToSet(s) \cup {e}
<1>1. Len(Append(s, e)) = Len(s) + 1 /\ Len(s) \in Nat /\ DOMAIN s = 1 .. Len(s)
  OBVIOUS
<1>2. DOMAIN Append(s, e) = 1 .. Len(s) + 1 /\ Append(s, e)[Len(s) + 1] = e
  BY <1>1
<1>3. \A i \in 1 .. Len(s) : Append(s, e)[i] = s[i]
  BY <1>1
<1>4. 1 .. Len(s) + 1 = (1 .. Len(s)) \cup {Len(s) + 1}
  BY <1>1
<1> QED BY <1>1, <1>2, <1>3, <1>4 DEF ToSet

(* Joined and Longer are names for concatenation and Append that the provers *)
(* leave alone.                                                              *)
Joined(s, t) == s \o t
Longer(s, t) == Append(s, t)

LEMMA JoinedSet ==
  ASSUME NEW S, NEW s \in Seq(S), NEW t \in Seq(S)
  PROVE  Joined(s, t) \in Seq(S) /\ ToSet(Joined(s, t)) = ToSet(s) \cup ToSet(t)
<1>1. Len(s \o t) = Len(s) + Len(t) /\ Len(s) \in Nat /\ Len(t) \in Nat
      /\ DOMAIN s = 1 .. Len(s) /\ DOMAIN t = 1 .. Len(t) /\ DOMAIN (s \o t) = 1 .. Len(s) + Len(t)
  OBVIOUS
<1>2. \A i \in 1 .. Len(s) : (s \o t)[i] = s[i] /\ i \in 1 .. Len(s) + Len(t)
  BY <1>1
<1>3. \A i \in 1 .. Len(t) : (s \o t)[Len(s) + i] = t[i] /\ Len(s) + i \in 1 .. Len(s) + Len(t)
  BY <1>1
<1>4. \A i \in 1 .. Len(s) + Len(t) :
        \/ (s \o t)[i] = s[i] /\ i \in 1 .. Len(s)
        \/ (s \o t)[i] = t[i - Len(s)] /\ i - Len(s) \in 1 .. Len(t)
  BY <1>1
<1>5. ToSet(s \o t) \subseteq ToSet(s) \cup ToSet(t)
  BY <1>1, <1>4 DEF ToSet
<1>6. ToSet(s) \subseteq ToSet(s \o t)
  BY <1>1, <1>2 DEF ToSet
<1>7. ToSet(t) \subseteq ToSet(s \o t)
  BY <1>1, <1>3 DEF ToSet
<1> QED BY <1>1, <1>5, <1>6, <1>7 DEF Joined


LEMMA KeepType ==
  ASSUME NEW S, NEW A
  PROVE  \A s \in Seq(S) : keep(s, A) \in Seq(S) /\ ToSet(keep(s, A)) = ToSet(s) \cap A
<1> DEFINE T == {s \in Seq(S) : keep(s, A) \in Seq(S) /\ ToSet(keep(s, A)) = ToSet(s) \cap A}
<1>1. << >> \in T
  <2>1. << >> \in Seq(S) /\ keep(<< >>, A) = << >>
    BY KeepEmpty
  <2>2. ToSet(<< >>) = {}
    BY <2>1, EmptySequence
  <2> QED BY <2>1, <2>2
<1>2. ASSUME NEW s \in Seq(S), NEW e \in S, s \in T PROVE Append(s, e) \in T
  <2>1. keep(s, A) \in Seq(S) /\ ToSet(keep(s, A)) = ToSet(s) \cap A /\ Append(s, e) \in Seq(S)
    BY <1>2
  <2>2. ToSet(Append(s, e)) = ToSet(s) \cup {e}
    BY AppendedSet
  <2>3. CASE e \in A
    <3>1. keep(Append(s, e), A) = Append(keep(s, A), e)
      BY <2>3, KeepAppend
    <3>2. ToSet(Append(keep(s, A), e)) = ToSet(keep(s, A)) \cup {e}
      BY <2>1, AppendedSet
    <3>3. Append(keep(s, A), e) \in Seq(S)
      BY <2>1
    <3> QED BY <2>1, <2>2, <2>3, <3>1, <3>2, <3>3
  <2>4. CASE e \notin A
    <3>1. keep(Append(s, e), A) = keep(s, A)
      BY <2>4, KeepAppend
    <3> QED BY <2>1, <2>2, <2>4, <3>1
  <2> QED BY <2>3, <2>4
<1>3. Seq(S) \subseteq T
  <2> HIDE DEF T
  <2> QED BY <1>1, <1>2, AllSequences
<1> QED BY <1>3

LEMMA KeepConcat ==
  ASSUME NEW S, NEW A, NEW s \in Seq(S)
  PROVE  \A t \in Seq(S) : keep(s \o t, A) = keep(s, A) \o keep(t, A)
<1> DEFINE T == {t \in Seq(S) : keep(s \o t, A) = keep(s, A) \o keep(t, A)}
<1>1. << >> \in T
  <2>1. keep(s, A) \in Seq(S) /\ keep(<< >>, A) = << >>
    BY KeepType, KeepEmpty
  <2>2. keep(s, A) \o << >> = keep(s, A) /\ s \o << >> = s
    BY <2>1
  <2> QED BY <2>1, <2>2
<1>2. ASSUME NEW t \in Seq(S), NEW e \in S, t \in T PROVE Append(t, e) \in T
  <2> DEFINE u == s \o t
  <2>1. s \o Append(t, e) = Append(u, e) /\ u \in Seq(S) /\ Append(t, e) \in Seq(S)
    OBVIOUS
  <2>2. keep(u, A) = keep(s, A) \o keep(t, A)
    BY <1>2
  <2> HIDE DEF u
  <2>3. keep(s, A) \in Seq(S) /\ keep(t, A) \in Seq(S)
    BY KeepType
  <2>4. Append(keep(s, A) \o keep(t, A), e) = keep(s, A) \o Append(keep(t, A), e)
    BY <2>3, AppendConcat, Zenon
  <2>5. keep(Append(u, e), A) = IF e \in A THEN Append(keep(u, A), e) ELSE keep(u, A)
    BY <2>1, KeepAppend
  <2>6. keep(Append(t, e), A) = IF e \in A THEN Append(keep(t, A), e) ELSE keep(t, A)
    BY KeepAppend
  <2>7. keep(s \o Append(t, e), A) = keep(s, A) \o keep(Append(t, e), A)
    BY <2>1, <2>2, <2>4, <2>5, <2>6
  <2> QED BY <2>1, <2>7
<1>3. Seq(S) \subseteq T
  <2> HIDE DEF T
  <2> QED BY <1>1, <1>2, AllSequences
<1> QED BY <1>3

LEMMA KeepJoined ==
  ASSUME NEW S, NEW A, NEW s \in Seq(S), NEW t \in Seq(S)
  PROVE  keep(Joined(s, t), A) = Joined(keep(s, A), keep(t, A))
BY KeepConcat DEF Joined

LEMMA KeepTwice ==
  ASSUME NEW S, NEW A, NEW B
  PROVE  \A s \in Seq(S) : keep(keep(s, A), B) = keep(s, A \cap B)
<1> DEFINE T == {s \in Seq(S) : keep(keep(s, A), B) = keep(s, A \cap B)}
<1>1. << >> \in T
  BY KeepEmpty
<1>2. ASSUME NEW s \in Seq(S), NEW e \in S, s \in T PROVE Append(s, e) \in T
  <2>1. keep(keep(s, A), B) = keep(s, A \cap B)
    BY <1>2
  <2>2. keep(s, A) \in Seq(S) /\ Append(s, e) \in Seq(S)
    BY KeepType
  <2>3. keep(Append(s, e), A) = IF e \in A THEN Append(keep(s, A), e) ELSE keep(s, A)
    BY KeepAppend
  <2>4. keep(Append(s, e), A \cap B)
          = IF e \in A \cap B THEN Append(keep(s, A \cap B), e) ELSE keep(s, A \cap B)
    BY KeepAppend
  <2>5. keep(Append(keep(s, A), e), B)
          = IF e \in B THEN Append(keep(keep(s, A), B), e) ELSE keep(keep(s, A), B)
    BY <2>2, KeepAppend
  <2>6. keep(keep(Append(s, e), A), B) = keep(Append(s, e), A \cap B)
    <3>1. CASE e \in A
      <4>1. keep(Append(s, e), A) = Append(keep(s, A), e)
        BY <2>3, <3>1
      <4>2. keep(Append(keep(s, A), e), B) = keep(Append(s, e), A \cap B)
        BY <2>1, <2>4, <2>5, <3>1
      <4> QED BY <4>1, <4>2
    <3>2. CASE e \notin A
      BY <2>1, <2>3, <2>4, <3>2
    <3> QED BY <3>1, <3>2
  <2> QED BY <2>2, <2>6
<1>3. Seq(S) \subseteq T
  <2> HIDE DEF T
  <2> QED BY <1>1, <1>2, AllSequences
<1> QED BY <1>3

LEMMA KeepAll ==
  ASSUME NEW S, NEW A
  PROVE  \A s \in Seq(S) : ToSet(s) \subseteq A => keep(s, A) = s
<1> DEFINE T == {s \in Seq(S) : ToSet(s) \subseteq A => keep(s, A) = s}
<1>1. << >> \in T
  BY KeepEmpty
<1>2. ASSUME NEW s \in Seq(S), NEW e \in S, s \in T PROVE Append(s, e) \in T
  <2>1. ToSet(Append(s, e)) = ToSet(s) \cup {e} /\ Append(s, e) \in Seq(S)
    BY AppendedSet
  <2>2. keep(Append(s, e), A) = IF e \in A THEN Append(keep(s, A), e) ELSE keep(s, A)
    BY KeepAppend
  <2> QED BY <1>2, <2>1, <2>2
<1>3. Seq(S) \subseteq T
  <2> HIDE DEF T
  <2> QED BY <1>1, <1>2, AllSequences
<1> QED BY <1>3

(* What keep gives depends on those members of A only that the sequence has. *)
LEMMA KeepSame ==
  ASSUME NEW S, NEW A, NEW B, NEW s \in Seq(S), ToSet(s) \cap A = ToSet(s) \cap B
  PROVE  keep(s, A) = keep(s, B)
<1>1. keep(s, ToSet(s)) = s
  BY KeepAll
<1>2. keep(s, A) = keep(s, ToSet(s) \cap A) /\ keep(s, B) = keep(s, ToSet(s) \cap B)
  BY <1>1, KeepTwice
<1> QED BY <1>2

LEMMA KeepNone ==
  ASSUME NEW S, NEW A, NEW s \in Seq(S), ToSet(s) \cap A = {}
  PROVE  keep(s, A) = << >>
<1>1. keep(s, A) \in Seq(S) /\ ToSet(keep(s, A)) = {}
  BY KeepType
<1> QED BY <1>1, EmptySequence

-----------------------------------------------------------------------------
(* The quick links *)

Made(n) == {t \in [type : {"admin", "user"}, id : Nat] : t.id < n}
AdminMade(n) == {t \in Made(n) : t.type = "admin"}
UserMade(n) == {t \in Made(n) : t.type = "user"}

Creations(n) == [tiles : Seq(Made(n)), new : Nat, here : BOOLEAN]

LinksTypeOK ==
  /\ nextTile \in Nat
  /\ adminLinks \in Seq(AdminMade(nextTile)) /\ userLinks \in Seq(UserMade(nextTile))
  /\ order \in Seq(Made(nextTile)) /\ grid \in Seq(Made(nextTile))
  /\ patches \in SUBSET Seq(Made(nextTile)) /\ deleting \in SUBSET Made(nextTile)
  /\ adding \in SUBSET Creations(nextTile)
  /\ \A a \in adding : NewTile(a) \in Made(nextTile)
  /\ loading \in [pc : {"idle", "user", "order"},
                  admin : Seq(AdminMade(nextTile)), user : Seq(UserMade(nextTile))]
  /\ loading.pc = "idle" => loading = NoLoad

Existing == ToSet(adminLinks) \cup ToSet(userLinks)
Merged(refs) == mergedTiles(adminLinks, userLinks, refs)
Coming(refs) == \/ patches = {} /\ refs = order
                \/ patches = {refs}
Added == IF adding = {} THEN << >> ELSE <<NewTile(CHOOSE a \in adding : TRUE)>>

(* What the server has once the order on its way has arrived is what the     *)
(* grid shows, without the tiles whose deletion is not answered yet, and the *)
(* tile whose creation is not.                                               *)
Truthful ==
  /\ patches = {} \/ \E refs \in patches : patches = {refs}
  /\ adding = {} \/ \E a \in adding : adding = {a} /\ a.here
  /\ Shown =>
       /\ \A refs \in Seq(Made(nextTile)) : Coming(refs) => Merged(refs) = keep(grid, Existing) \o Added
       /\ deleting \cap Existing = {} /\ ToSet(grid) \subseteq Existing \cup deleting
  /\ ~Shown =>
       /\ patches = {} /\ adding = {} /\ deleting = {} /\ grid = << >>
       /\ loading.admin = adminLinks
       /\ loading.pc = "order" => loading.user = userLinks
  /\ \A a \in adding :
       /\ NewTile(a) \in ToSet(userLinks) \ ToSet(grid)
       /\ keep(a.tiles, Existing) = keep(grid, Existing)

LinksInv == LinksTypeOK /\ (~muddled => Truthful)

LEMMA WiderSeq ==
  ASSUME NEW S, NEW T, S \subseteq T PROVE Seq(S) \subseteq Seq(T)
<1> SUFFICES ASSUME NEW s \in Seq(S) PROVE s \in Seq(T)
  OBVIOUS
<1>1. Len(s) \in Nat /\ s \in [1 .. Len(s) -> S]
  OBVIOUS
<1>2. s \in [1 .. Len(s) -> T]
  BY <1>1
<1> QED BY <1>1, <1>2

LEMMA MadeGrows ==
  ASSUME NEW n \in Nat
  PROVE  /\ Made(n) \subseteq Made(n + 1) /\ AdminMade(n) \subseteq AdminMade(n + 1)
         /\ UserMade(n) \subseteq UserMade(n + 1)
         /\ AdminMade(n) \subseteq Made(n) /\ UserMade(n) \subseteq Made(n)
         /\ Tile("user", n) \in UserMade(n + 1) /\ Tile("admin", n) \in AdminMade(n + 1)
         /\ Tile("user", n) \notin Made(n)
BY DEF Made, AdminMade, UserMade, Tile

LEMMA SeqGrows ==
  ASSUME NEW n \in Nat
  PROVE  /\ Seq(Made(n)) \subseteq Seq(Made(n + 1))
         /\ Seq(AdminMade(n)) \subseteq Seq(AdminMade(n + 1))
         /\ Seq(UserMade(n)) \subseteq Seq(UserMade(n + 1))
         /\ Seq(AdminMade(n)) \subseteq Seq(Made(n)) /\ Seq(UserMade(n)) \subseteq Seq(Made(n))
<1> HIDE DEF Made, AdminMade, UserMade
<1> QED BY MadeGrows, WiderSeq

LEMMA SetOfSeq ==
  ASSUME NEW S, NEW s \in Seq(S) PROVE ToSet(s) \subseteq S
BY DEF ToSet

LEMMA WithoutType ==
  ASSUME NEW S, NEW s \in Seq(S), NEW A
  PROVE  without(s, A) \in Seq(S) /\ ToSet(without(s, A)) = ToSet(s) \ A
BY KeepType DEF without

LEMMA UnsavedType ==
  ASSUME NEW S, NEW s \in Seq(S), NEW refs
  PROVE  unsaved(s, refs) \in Seq(S) /\ ToSet(unsaved(s, refs)) = ToSet(s) \ ToSet(refs)
BY WithoutType DEF unsaved

(* A load shows what exists and nothing else.                                *)
LEMMA MergedType ==
  ASSUME NEW S, NEW a \in Seq(S), NEW u \in Seq(S), NEW refs \in Seq(S)
  PROVE  /\ mergedTiles(a, u, refs) \in Seq(S)
         /\ ToSet(mergedTiles(a, u, refs)) = ToSet(a) \cup ToSet(u)
<1> DEFINE k == keep(refs, ToSet(a) \cup ToSet(u))
           x == unsaved(a, refs)
           y == unsaved(u, refs)
<1>1. k \in Seq(S) /\ ToSet(k) = ToSet(refs) \cap (ToSet(a) \cup ToSet(u))
  BY KeepType
<1>2. x \in Seq(S) /\ ToSet(x) = ToSet(a) \ ToSet(refs)
  BY UnsavedType
<1>3. y \in Seq(S) /\ ToSet(y) = ToSet(u) \ ToSet(refs)
  BY UnsavedType
<1>4. mergedTiles(a, u, refs) = Joined(Joined(k, x), y)
  BY DEF mergedTiles, Joined
<1> HIDE DEF k, x, y
<1>5. Joined(k, x) \in Seq(S) /\ ToSet(Joined(k, x)) = ToSet(k) \cup ToSet(x)
  BY <1>1, <1>2, JoinedSet
<1>6. /\ Joined(Joined(k, x), y) \in Seq(S)
      /\ ToSet(Joined(Joined(k, x), y)) = ToSet(Joined(k, x)) \cup ToSet(y)
  BY <1>3, <1>5, JoinedSet
<1> QED BY <1>1, <1>2, <1>3, <1>4, <1>5, <1>6

(* Deleting a tile only takes it out of what a load shows.                   *)
LEMMA MergedWithout ==
  ASSUME NEW S, NEW a \in Seq(S), NEW u \in Seq(S), NEW refs \in Seq(S), NEW t, t \notin ToSet(a)
  PROVE  mergedTiles(a, without(u, {t}), refs)
           = keep(mergedTiles(a, u, refs), (ToSet(a) \cup ToSet(u)) \ {t})
<1> DEFINE X == ToSet(a) \cup ToSet(u)
           Y == X \ {t}
           v == without(u, {t})
           k == keep(refs, X)
           x == unsaved(a, refs)
           y == unsaved(u, refs)
<1>1. v \in Seq(S) /\ ToSet(v) = ToSet(u) \ {t} /\ ToSet(a) \cup ToSet(v) = Y
  BY WithoutType
<1>2. k \in Seq(S) /\ x \in Seq(S) /\ y \in Seq(S) /\ ToSet(x) \subseteq Y
  BY KeepType, UnsavedType
<1>3. keep(k, Y) = keep(refs, Y)
  <2>1. keep(k, Y) = keep(refs, X \cap Y)
    BY KeepTwice
  <2>2. X \cap Y = Y
    OBVIOUS
  <2> QED BY <2>1, <2>2
<1>4. keep(x, Y) = x
  BY <1>2, KeepAll
<1>5. keep(y, Y) = unsaved(v, refs)
  <2>1. y = keep(u, ToSet(u) \ ToSet(refs))
    BY DEF unsaved, without
  <2>2. unsaved(v, refs) = keep(v, ToSet(v) \ ToSet(refs)) /\ v = keep(u, ToSet(u) \ {t})
    BY DEF unsaved, without
  <2>3. keep(keep(u, ToSet(u) \ ToSet(refs)), Y) = keep(u, (ToSet(u) \ ToSet(refs)) \cap Y)
    BY KeepTwice
  <2>4. keep(keep(u, ToSet(u) \ {t}), ToSet(v) \ ToSet(refs))
          = keep(u, (ToSet(u) \ {t}) \cap (ToSet(v) \ ToSet(refs)))
    <3> DEFINE W == ToSet(v) \ ToSet(refs)
    <3> HIDE DEF W
    <3>1. keep(keep(u, ToSet(u) \ {t}), W) = keep(u, (ToSet(u) \ {t}) \cap W)
      BY KeepTwice
    <3> QED BY <3>1 DEF W
  <2>5. (ToSet(u) \ ToSet(refs)) \cap Y = (ToSet(u) \ {t}) \cap (ToSet(v) \ ToSet(refs))
    BY <1>1
  <2> QED BY <2>1, <2>2, <2>3, <2>4, <2>5
<1>6. mergedTiles(a, u, refs) = Joined(Joined(k, x), y)
  BY DEF mergedTiles, Joined
<1>7. mergedTiles(a, v, refs) = Joined(Joined(keep(refs, Y), x), unsaved(v, refs))
  BY <1>1 DEF mergedTiles, Joined
<1> HIDE DEF k, x, y, v, X, Y
<1>8. Joined(k, x) \in Seq(S) /\ keep(Joined(k, x), Y) = Joined(keep(k, Y), keep(x, Y))
  BY <1>2, JoinedSet, KeepJoined
<1>9. keep(Joined(Joined(k, x), y), Y) = Joined(keep(Joined(k, x), Y), keep(y, Y))
  BY <1>2, <1>8, KeepJoined
<1>10. mergedTiles(a, v, refs) = keep(mergedTiles(a, u, refs), Y)
  BY <1>3, <1>4, <1>5, <1>6, <1>7, <1>8, <1>9
<1> QED BY <1>10 DEF v, X, Y

(* A tile that the saved order does not know goes to the end.                *)
LEMMA MergedAppend ==
  ASSUME NEW S, NEW a \in Seq(S), NEW u \in Seq(S), NEW refs \in Seq(S), NEW t \in S,
         t \notin ToSet(refs), t \notin ToSet(u)
  PROVE  mergedTiles(a, Longer(u, t), refs) = Longer(mergedTiles(a, u, refs), t)
<1> DEFINE k == keep(refs, ToSet(a) \cup ToSet(u))
           x == unsaved(a, refs)
           y == unsaved(u, refs)
           v == Append(u, t)
<1>1. v \in Seq(S) /\ ToSet(v) = ToSet(u) \cup {t}
  BY AppendedSet
<1>2. k \in Seq(S) /\ x \in Seq(S) /\ y \in Seq(S) /\ k \o x \in Seq(S)
  BY KeepType, UnsavedType
<1>3. keep(refs, ToSet(a) \cup ToSet(v)) = k
  <2>1. ToSet(refs) \cap (ToSet(a) \cup ToSet(v)) = ToSet(refs) \cap (ToSet(a) \cup ToSet(u))
    BY <1>1
  <2> QED BY <2>1, KeepSame
<1>4. unsaved(v, refs) = Append(y, t)
  <2> DEFINE W == ToSet(v) \ ToSet(refs)
  <2>1. unsaved(v, refs) = keep(v, W) /\ y = keep(u, ToSet(u) \ ToSet(refs))
    BY DEF unsaved, without
  <2>2. t \in W /\ ToSet(u) \cap W = ToSet(u) \cap (ToSet(u) \ ToSet(refs))
    BY <1>1
  <2>3. keep(u, W) = y
    BY <2>1, <2>2, KeepSame
  <2> HIDE DEF W
  <2>4. keep(v, W) = IF t \in W THEN Append(keep(u, W), t) ELSE keep(u, W)
    BY KeepAppend
  <2> QED BY <2>1, <2>2, <2>3, <2>4
<1>5. mergedTiles(a, u, refs) = (k \o x) \o y /\ mergedTiles(a, v, refs) = (k \o x) \o Append(y, t)
  BY <1>3, <1>4 DEF mergedTiles
<1>6. Append((k \o x) \o y, t) = (k \o x) \o Append(y, t)
  BY <1>2, AppendConcat, Zenon
<1> QED BY <1>5, <1>6 DEF Longer

(* An order that names every tile decides alone.                             *)
LEMMA MergedKnown ==
  ASSUME NEW S, NEW a \in Seq(S), NEW u \in Seq(S), NEW refs \in Seq(S),
         ToSet(a) \cup ToSet(u) \subseteq ToSet(refs)
  PROVE  mergedTiles(a, u, refs) = keep(refs, ToSet(a) \cup ToSet(u))
<1> DEFINE k == keep(refs, ToSet(a) \cup ToSet(u))
<1>1. ToSet(a) \cap (ToSet(a) \ ToSet(refs)) = {} /\ ToSet(u) \cap (ToSet(u) \ ToSet(refs)) = {}
  OBVIOUS
<1>2. unsaved(a, refs) = << >> /\ unsaved(u, refs) = << >>
  BY <1>1, KeepNone DEF unsaved, without
<1>3. mergedTiles(a, u, refs) = k \o << >> \o << >>
  BY <1>2 DEF mergedTiles
<1>4. k \in Seq(S)
  BY KeepType
<1> HIDE DEF k
<1>5. k \o << >> \o << >> = k
  BY <1>4
<1> QED BY <1>3, <1>5 DEF k

LEMMA Grown ==
  ASSUME LinksTypeOK, NEW n, n = nextTile + 1
  PROVE  /\ n \in Nat
         /\ adminLinks \in Seq(AdminMade(n)) /\ userLinks \in Seq(UserMade(n))
         /\ order \in Seq(Made(n)) /\ grid \in Seq(Made(n))
         /\ patches \in SUBSET Seq(Made(n)) /\ deleting \in SUBSET Made(n)
         /\ adding \in SUBSET Creations(n)
         /\ \A a \in adding : NewTile(a) \in Made(n)
         /\ loading \in [pc : {"idle", "user", "order"},
                         admin : Seq(AdminMade(n)), user : Seq(UserMade(n))]
<1> DEFINE m == nextTile
<1>1. /\ Made(m) \subseteq Made(n) /\ Seq(Made(m)) \subseteq Seq(Made(n))
      /\ Seq(AdminMade(m)) \subseteq Seq(AdminMade(n)) /\ Seq(UserMade(m)) \subseteq Seq(UserMade(n))
  BY MadeGrows, SeqGrows DEF LinksTypeOK
<1>2. n \in Nat
  BY DEF LinksTypeOK
<1>3. /\ adminLinks \in Seq(AdminMade(m)) /\ userLinks \in Seq(UserMade(m))
      /\ order \in Seq(Made(m)) /\ grid \in Seq(Made(m))
      /\ patches \in SUBSET Seq(Made(m)) /\ deleting \in SUBSET Made(m)
      /\ adding \in SUBSET Creations(m)
      /\ \A a \in adding : NewTile(a) \in Made(m)
      /\ loading \in [pc : {"idle", "user", "order"}, admin : Seq(AdminMade(m)), user : Seq(UserMade(m))]
  BY DEF LinksTypeOK
<1> HIDE DEF m
<1>4. adding \in SUBSET Creations(n)
  BY <1>1, <1>3 DEF Creations
<1>5. loading \in [pc : {"idle", "user", "order"}, admin : Seq(AdminMade(n)), user : Seq(UserMade(n))]
  BY <1>1, <1>3
<1> QED BY <1>1, <1>2, <1>3, <1>4, <1>5

LEMMA SubSeqSet ==
  ASSUME NEW S, NEW s \in Seq(S), NEW a \in 1 .. Len(s) + 1, NEW b \in 0 .. Len(s)
  PROVE  SubSeq(s, a, b) \in Seq(S) /\ ToSet(SubSeq(s, a, b)) = {s[k] : k \in a .. b}
<1> DEFINE t == SubSeq(s, a, b)
<1>0. Len(s) \in Nat
  OBVIOUS
<1>1. t \in Seq(S)
  BY <1>0
<1>2. \A k \in DOMAIN t : k + a - 1 \in a .. b /\ t[k] = s[k + a - 1]
  BY <1>0
<1>3. \A k \in a .. b : k - a + 1 \in DOMAIN t /\ t[k - a + 1] = s[k]
  BY <1>0
<1> HIDE DEF t
<1>4. ASSUME NEW x \in ToSet(t) PROVE x \in {s[k] : k \in a .. b}
  <2>1. PICK k \in DOMAIN t : x = t[k]
    BY DEF ToSet
  <2> QED BY <1>2, <2>1
<1>5. ASSUME NEW k \in a .. b PROVE s[k] \in ToSet(t)
  BY <1>3 DEF ToSet
<1>6. ToSet(t) = {s[k] : k \in a .. b}
  BY <1>4, <1>5
<1> QED BY <1>1, <1>6 DEF t

LEMMA RemovedSet ==
  ASSUME NEW S, NEW s \in Seq(S), NEW i \in DOMAIN s
  PROVE  /\ RemoveAt(s, i) \in Seq(S) /\ Len(RemoveAt(s, i)) = Len(s) - 1
         /\ ToSet(RemoveAt(s, i)) \cup {s[i]} = ToSet(s)
<1> DEFINE x == SubSeq(s, 1, i - 1)
           y == SubSeq(s, i + 1, Len(s))
<1>1. Len(s) \in Nat /\ i \in 1 .. Len(s) /\ DOMAIN s = 1 .. Len(s)
  OBVIOUS
<1>2. i - 1 \in 0 .. Len(s) /\ i + 1 \in 1 .. Len(s) + 1 /\ 1 \in 1 .. Len(s) + 1 /\ Len(s) \in 0 .. Len(s)
  BY <1>1
<1>3. x \in Seq(S) /\ ToSet(x) = {s[k] : k \in 1 .. i - 1}
  BY <1>2, SubSeqSet
<1>4. y \in Seq(S) /\ ToSet(y) = {s[k] : k \in i + 1 .. Len(s)}
  BY <1>2, SubSeqSet
<1>5. Len(RemoveAt(s, i)) = Len(s) - 1
  BY <1>1 DEF RemoveAt
<1>6. RemoveAt(s, i) = Joined(x, y)
  BY DEF RemoveAt, Joined
<1> HIDE DEF x, y
<1>7. Joined(x, y) \in Seq(S) /\ ToSet(Joined(x, y)) = ToSet(x) \cup ToSet(y)
  BY <1>3, <1>4, JoinedSet
<1>9. ToSet(s) = {s[k] : k \in 1 .. Len(s)}
  BY <1>1 DEF ToSet
<1>10. 1 .. Len(s) = ((1 .. i - 1) \cup (i + 1 .. Len(s))) \cup {i}
  BY <1>1
<1>11. ToSet(x) \cup ToSet(y) \cup {s[i]} = ToSet(s)
  BY <1>3, <1>4, <1>9, <1>10
<1> QED BY <1>5, <1>6, <1>7, <1>11

LEMMA InsertedSet ==
  ASSUME NEW S, NEW s \in Seq(S), NEW i \in 1 .. Len(s) + 1, NEW e \in S
  PROVE  InsertAt(s, i, e) \in Seq(S) /\ ToSet(InsertAt(s, i, e)) = ToSet(s) \cup {e}
<1> DEFINE x == SubSeq(s, 1, i - 1)
           y == SubSeq(s, i, Len(s))
           z == <<e>>
<1>1. Len(s) \in Nat /\ DOMAIN s = 1 .. Len(s)
  OBVIOUS
<1>2. i - 1 \in 0 .. Len(s) /\ 1 \in 1 .. Len(s) + 1 /\ Len(s) \in 0 .. Len(s)
  BY <1>1
<1>3. x \in Seq(S) /\ ToSet(x) = {s[k] : k \in 1 .. i - 1}
  BY <1>2, SubSeqSet
<1>4. y \in Seq(S) /\ ToSet(y) = {s[k] : k \in i .. Len(s)}
  BY <1>2, SubSeqSet
<1>5. z \in Seq(S) /\ ToSet(z) = {e}
  BY DEF ToSet
<1>6. InsertAt(s, i, e) = Joined(Joined(x, z), y)
  BY DEF InsertAt, Joined
<1> HIDE DEF x, y, z
<1>8. Joined(x, z) \in Seq(S) /\ ToSet(Joined(x, z)) = ToSet(x) \cup ToSet(z)
  BY <1>3, <1>5, JoinedSet
<1>9. /\ Joined(Joined(x, z), y) \in Seq(S)
      /\ ToSet(Joined(Joined(x, z), y)) = ToSet(Joined(x, z)) \cup ToSet(y)
  BY <1>4, <1>8, JoinedSet
<1>10. ToSet(s) = {s[k] : k \in 1 .. Len(s)}
  BY <1>1 DEF ToSet
<1>11. 1 .. Len(s) = (1 .. i - 1) \cup (i .. Len(s))
  BY <1>1
<1>12. ToSet(x) \cup ToSet(y) = ToSet(s)
  BY <1>3, <1>4, <1>10, <1>11
<1> QED BY <1>5, <1>6, <1>8, <1>9, <1>12

(* Moving a member keeps the others (splice out, splice in).                 *)
LEMMA MovedSet ==
  ASSUME NEW S, NEW s \in Seq(S), NEW i \in DOMAIN s, NEW j \in DOMAIN s
  PROVE  /\ InsertAt(RemoveAt(s, i), j, s[i]) \in Seq(S)
         /\ ToSet(InsertAt(RemoveAt(s, i), j, s[i])) = ToSet(s)
<1> DEFINE r == RemoveAt(s, i)
           e == s[i]
<1>1. e \in S /\ Len(s) \in Nat /\ j \in 1 .. Len(s)
  OBVIOUS
<1>2. r \in Seq(S) /\ Len(r) = Len(s) - 1 /\ ToSet(r) \cup {e} = ToSet(s)
  BY RemovedSet
<1> HIDE DEF r, e
<1>3. j \in 1 .. Len(r) + 1
  BY <1>1, <1>2
<1>4. InsertAt(r, j, e) \in Seq(S) /\ ToSet(InsertAt(r, j, e)) = ToSet(r) \cup {e}
  BY ONLY <1>1, <1>2, <1>3, InsertedSet, SMTT(20)
<1> QED BY <1>2, <1>4 DEF r, e

LEMMA LinksTypes ==
  ASSUME LinksTypeOK
  PROVE  /\ adminLinks \in Seq(Made(nextTile)) /\ userLinks \in Seq(Made(nextTile))
         /\ loading.admin \in Seq(Made(nextTile)) /\ loading.user \in Seq(Made(nextTile))
         /\ ToSet(adminLinks) \subseteq AdminMade(nextTile)
         /\ ToSet(userLinks) \subseteq UserMade(nextTile)
         /\ Existing \subseteq Made(nextTile) /\ ToSet(grid) \subseteq Made(nextTile)
         /\ (loading.pc \in {"user", "order"} => ~Shown) /\ (loading.pc \notin {"user", "order"} => Shown)
<1>1. adminLinks \in Seq(Made(nextTile)) /\ userLinks \in Seq(Made(nextTile))
      /\ loading.admin \in Seq(Made(nextTile)) /\ loading.user \in Seq(Made(nextTile))
  BY SeqGrows DEF LinksTypeOK
<1>2. /\ ToSet(adminLinks) \subseteq AdminMade(nextTile) /\ ToSet(userLinks) \subseteq UserMade(nextTile)
      /\ ToSet(grid) \subseteq Made(nextTile)
  BY SetOfSeq DEF LinksTypeOK
<1>3. Existing \subseteq Made(nextTile)
  BY <1>2, MadeGrows DEF LinksTypeOK, Existing
<1>4. (loading.pc \in {"user", "order"} => ~Shown) /\ (loading.pc \notin {"user", "order"} => Shown)
  BY DEF LinksTypeOK, NoLoad, Shown
<1> QED BY <1>1, <1>2, <1>3, <1>4

LEMMA LinksStart == LinksInit => LinksInv
<1> SUFFICES ASSUME LinksInit PROVE LinksInv
  OBVIOUS
<1>1. \A S : << >> \in Seq(S)
  OBVIOUS
<1>2. LinksTypeOK
  BY <1>1 DEF LinksInit, LinksTypeOK, NoLoad
<1>3. Existing = {} /\ Shown /\ deleting = {} /\ ToSet(grid) = {}
  BY <1>1, EmptySequence DEF LinksInit, Existing, Shown
<1>4. Added = << >> /\ keep(grid, Existing) = << >>
  BY KeepEmpty DEF LinksInit, Added
<1>5. mergedTiles(<< >>, << >>, << >>) = << >>
  <2>1. \A refs : unsaved(<< >>, refs) = << >>
    BY KeepEmpty DEF unsaved, without
  <2> QED BY <2>1, KeepEmpty DEF mergedTiles
<1>6. \A refs : Coming(refs) => refs = << >>
  BY DEF LinksInit, Coming
<1>7. \A refs : Coming(refs) => Merged(refs) = keep(grid, Existing) \o Added
  BY <1>4, <1>5, <1>6 DEF Merged, LinksInit
<1> QED BY <1>2, <1>3, <1>7 DEF LinksInv, Truthful, LinksInit

LEMMA LoadKeeps == ASSUME LinksInv, Load PROVE LinksInv'
<1>1. /\ loading' = [NoLoad EXCEPT !.pc = "user", !.admin = adminLinks]
      /\ muddled' = InFlight /\ grid' = << >> /\ deleting' = {}
      /\ adding' = {} \/ adding' = {[a EXCEPT !.here = FALSE] : a \in adding}
      /\ UNCHANGED <<adminLinks, userLinks, order, nextTile, patches>>
  BY DEF Load
<1>2. loading' = [pc |-> "user", admin |-> adminLinks, user |-> << >>]
  BY <1>1 DEF NoLoad
<1>3. LinksTypeOK'
  <2>1. \A S : << >> \in Seq(S)
    OBVIOUS
  <2>2. adding \in SUBSET Creations(nextTile) /\ \A a \in adding : NewTile(a) \in Made(nextTile)
    BY DEF LinksInv, LinksTypeOK
  <2>3. \A a \in adding : /\ [a EXCEPT !.here = FALSE] \in Creations(nextTile)
                          /\ NewTile([a EXCEPT !.here = FALSE]) \in Made(nextTile)
    BY <2>2 DEF Creations, NewTile
  <2>4. adding' \in SUBSET Creations(nextTile) /\ \A a \in adding' : NewTile(a) \in Made(nextTile)
    BY <1>1, <2>3, Zenon
  <2>5. /\ loading' \in [pc : {"idle", "user", "order"},
                        admin : Seq(AdminMade(nextTile)), user : Seq(UserMade(nextTile))]
        /\ loading'.pc # "idle"
    BY <1>2, <2>1 DEF LinksInv, LinksTypeOK
  <2> QED BY <1>1, <2>1, <2>4, <2>5 DEF LinksInv, LinksTypeOK
<1>4. ~Shown'
  BY <1>1, <1>2 DEF Shown, NoLoad
<1>5. ~muddled' => patches' = {} /\ adding' = {}
  BY <1>1 DEF InFlight
<1> QED BY <1>1, <1>2, <1>3, <1>4, <1>5 DEF LinksInv, Truthful

LEMMA ListUserKeeps == ASSUME LinksInv, ListUserQuickLinks PROVE LinksInv'
<1>1. /\ loading.pc = "user" /\ loading' = [loading EXCEPT !.pc = "order", !.user = userLinks]
      /\ UNCHANGED <<adminLinks, userLinks, order, nextTile, grid, patches, adding, deleting, muddled>>
  BY DEF ListUserQuickLinks
<1>2. loading = [pc |-> loading.pc, admin |-> loading.admin, user |-> loading.user]
  BY DEF LinksInv, LinksTypeOK
<1>3. loading' = [pc |-> "order", admin |-> loading.admin, user |-> userLinks]
  BY <1>1, <1>2
<1>4. LinksTypeOK'
  BY <1>1, <1>3 DEF LinksInv, LinksTypeOK
<1>5. ~Shown' /\ ~Shown
  BY <1>1, <1>3 DEF Shown, NoLoad
<1>6. ASSUME ~muddled' PROVE Truthful'
  BY <1>1, <1>3, <1>5, <1>6 DEF LinksInv, Truthful
<1> QED BY <1>4, <1>6 DEF LinksInv

(* What is loaded is shown.                                                  *)
LEMMA GetOrderKeeps == ASSUME LinksInv, GetUserTileOrder PROVE LinksInv'
<1>1. /\ loading.pc = "order" /\ loading' = NoLoad
      /\ grid' = mergedTiles(loading.admin, loading.user, order)
      /\ UNCHANGED <<adminLinks, userLinks, order, nextTile, patches, adding, deleting, muddled>>
  BY DEF GetUserTileOrder
<1>2. LinksTypeOK /\ ~Shown
  BY <1>1, LinksTypes DEF LinksInv
<1>3. grid' \in Seq(Made(nextTile))
  BY <1>1, <1>2, LinksTypes, MergedType DEF LinksTypeOK
<1>4. LinksTypeOK'
  <2>1. \A S : << >> \in Seq(S)
    OBVIOUS
  <2> QED BY <1>1, <1>2, <1>3, <2>1 DEF LinksTypeOK, NoLoad
<1>5. ASSUME ~muddled' PROVE Truthful'
  <2>1. /\ patches = {} /\ adding = {} /\ deleting = {}
        /\ loading.admin = adminLinks /\ loading.user = userLinks
    BY <1>1, <1>2, <1>5 DEF LinksInv, Truthful
  <2>2. grid' = Merged(order) /\ ToSet(grid') = Existing /\ Existing' = Existing
    BY <1>1, <1>2, <2>1, LinksTypes, MergedType DEF Merged, Existing, LinksTypeOK
  <2>3. keep(grid', Existing') = grid'
    BY <1>3, <2>2, KeepAll
  <2>4. Added' = << >> /\ grid' \o << >> = grid'
    BY <1>1, <1>3, <2>1 DEF Added
  <2>5. \A refs : Coming(refs)' => Merged(refs)' = keep(grid', Existing') \o Added'
    BY <1>1, <2>1, <2>2, <2>3, <2>4 DEF Coming, Merged
  <2>6. Shown' /\ adding' = {}
    BY <1>1, <2>1 DEF Shown
  <2> QED BY <1>1, <2>1, <2>2, <2>5, <2>6 DEF Truthful
<1> QED BY <1>4, <1>5 DEF LinksInv

LEMMA NothingAdded ==
  ASSUME NEW S, NEW s \in Seq(S), adding = {} PROVE Added = << >> /\ s \o Added = s
BY DEF Added

LEMMA OneAdded ==
  ASSUME NEW a, adding = {a} PROVE Added = <<NewTile(a)>>
<1>1. adding # {} /\ (CHOOSE b \in adding : TRUE) = a
  OBVIOUS
<1> QED BY <1>1 DEF Added

(* Every tile that exists is shown or about to be.                           *)
LEMMA ExistingShown ==
  ASSUME LinksInv, ~muddled, Shown
  PROVE  /\ adding = {} => Existing \subseteq ToSet(grid)
         /\ \A a : adding = {a} => Existing \subseteq ToSet(grid) \cup {NewTile(a)}
<1>1. LinksTypeOK /\ Truthful
  BY DEF LinksInv
<1>2. PICK refs \in Seq(Made(nextTile)) : Coming(refs)
  <2>1. CASE patches = {}
    BY <1>1, <2>1 DEF Coming, LinksTypeOK
  <2>2. CASE \E refs \in patches : patches = {refs}
    BY <1>1, <2>2 DEF Coming, LinksTypeOK
  <2> QED BY <1>1, <2>1, <2>2 DEF Truthful
<1> DEFINE k == keep(grid, Existing)
<1>3. Merged(refs) = k \o Added
  BY <1>1, <1>2 DEF Truthful
<1>4. ToSet(Merged(refs)) = Existing
  BY <1>1, LinksTypes, MergedType DEF Merged, Existing
<1>5. k \in Seq(Made(nextTile)) /\ ToSet(k) \subseteq ToSet(grid)
  BY <1>1, KeepType DEF LinksTypeOK
<1> HIDE DEF k
<1>6. ASSUME adding = {} PROVE Existing \subseteq ToSet(grid)
  <2>1. k \o Added = k
    BY <1>5, <1>6, NothingAdded
  <2> QED BY <1>3, <1>4, <1>5, <2>1
<1>7. ASSUME NEW a, adding = {a} PROVE Existing \subseteq ToSet(grid) \cup {NewTile(a)}
  <2> DEFINE t == NewTile(a)
             z == <<t>>
  <2>1. t \in Made(nextTile) /\ Added = z
    BY <1>1, <1>7, OneAdded DEF LinksTypeOK
  <2> HIDE DEF t
  <2>2. z \in Seq(Made(nextTile)) /\ ToSet(z) = {t}
    BY <2>1 DEF ToSet
  <2>3. k \o z = Joined(k, z)
    BY DEF Joined
  <2> HIDE DEF z
  <2>4. ToSet(Joined(k, z)) = ToSet(k) \cup ToSet(z)
    BY <1>5, <2>2, JoinedSet
  <2> QED BY <1>3, <1>4, <1>5, <2>1, <2>2, <2>3, <2>4 DEF t
<1> QED BY <1>6, <1>7

(* An order that names the tiles of the grid shows them.                     *)
LEMMA DropKeeps ==
  ASSUME LinksInv, NEW i \in DOMAIN grid, NEW j \in DOMAIN grid, handleDrop(i, j)
  PROVE  LinksInv'
<1> DEFINE next == InsertAt(RemoveAt(grid, i), j, grid[i])
<1>1. /\ grid' = next /\ patches' = patches \cup {next}
      /\ muddled' = (muddled \/ patches # {} \/ adding # {})
      /\ UNCHANGED <<adminLinks, userLinks, order, nextTile, loading, adding, deleting>>
  BY DEF handleDrop, persistOrder
<1>2. LinksTypeOK /\ DOMAIN grid # {}
  BY DEF LinksInv
<1>3. next \in Seq(Made(nextTile)) /\ ToSet(next) = ToSet(grid)
  BY <1>2, MovedSet DEF LinksTypeOK
<1> HIDE DEF next
<1>4. LinksTypeOK'
  BY <1>1, <1>2, <1>3 DEF LinksTypeOK
<1>5. ASSUME ~muddled' PROVE Truthful'
  <2>1. ~muddled /\ patches' = {next} /\ adding = {} /\ Truthful
    BY <1>1, <1>5 DEF LinksInv
  <2>0. Shown
    BY <1>2, <2>1 DEF Truthful
  <2>2. Existing \subseteq ToSet(next) /\ Existing' = Existing
    BY <1>1, <1>2, <1>3, <2>0, <2>1, ExistingShown DEF Existing
  <2>3. mergedTiles(adminLinks, userLinks, next) = keep(next, Existing)
    <3>1. /\ adminLinks \in Seq(Made(nextTile)) /\ userLinks \in Seq(Made(nextTile))
          /\ next \in Seq(Made(nextTile)) /\ ToSet(adminLinks) \cup ToSet(userLinks) \subseteq ToSet(next)
      BY <1>2, <1>3, <2>2, LinksTypes DEF Existing
    <3> QED BY <3>1, MergedKnown DEF Existing
  <2>4. keep(next, Existing) \in Seq(Made(nextTile)) /\ Added' = Added
    BY <1>1, <1>3, KeepType DEF Added
  <2>5. keep(next, Existing) \o Added = keep(next, Existing)
    BY <2>1, <2>4, NothingAdded
  <2>6. \A refs : Coming(refs)' => refs = next
    BY <2>1 DEF Coming
  <2>7. ASSUME NEW refs, Coming(refs)' PROVE Merged(refs)' = keep(grid', Existing') \o Added'
    <3>1. Merged(refs)' = mergedTiles(adminLinks, userLinks, next)
      BY <1>1, <2>6, <2>7 DEF Merged
    <3> QED BY <1>1, <2>2, <2>3, <2>4, <2>5, <3>1
  <2>8. deleting \cap Existing = {} /\ ToSet(grid) \subseteq Existing \cup deleting
    BY <2>0, <2>1 DEF Truthful
  <2> QED BY <1>1, <1>3, <2>0, <2>1, <2>2, <2>7, <2>8 DEF Truthful, Shown
<1> QED BY <1>4, <1>5 DEF LinksInv

LEMMA SaveKeeps ==
  ASSUME LinksInv, NEW tiles \in patches, SaveOrder(tiles) PROVE LinksInv'
<1>1. /\ order' = tiles /\ patches' = patches \ {tiles}
      /\ UNCHANGED <<adminLinks, userLinks, nextTile, grid, loading, adding, deleting, muddled>>
  BY DEF SaveOrder, SetUserTileOrder
<1>2. LinksTypeOK /\ tiles \in Seq(Made(nextTile))
  BY DEF LinksInv, LinksTypeOK
<1>3. LinksTypeOK'
  BY <1>1, <1>2 DEF LinksTypeOK
<1>4. ASSUME ~muddled' PROVE Truthful'
  <2>1. Truthful
    BY <1>1, <1>4 DEF LinksInv
  <2>2. patches = {tiles} /\ patches' = {} /\ Shown /\ Shown'
    BY <1>1, <2>1 DEF Truthful, Shown
  <2>3. \A refs : Merged(refs)' = Merged(refs) /\ (Coming(refs)' => Coming(refs))
    BY <1>1, <2>2 DEF Merged, Coming
  <2>4. Existing' = Existing /\ Added' = Added
    BY <1>1 DEF Existing, Added
  <2>5. \A refs \in Seq(Made(nextTile)) : Coming(refs)' => Merged(refs)' = keep(grid', Existing') \o Added'
    BY <1>1, <2>1, <2>2, <2>3, <2>4 DEF Truthful
  <2> QED BY <1>1, <2>1, <2>2, <2>4, <2>5 DEF Truthful
<1> QED BY <1>3, <1>4 DEF LinksInv

LEMMA CreateLinkKeeps == ASSUME LinksInv, CreateUserQuickLink PROVE LinksInv'
<1> DEFINE t == Tile("user", nextTile)
<1> DEFINE b == [tiles |-> grid, new |-> nextTile, here |-> TRUE]
<1>1. /\ userLinks' = Append(userLinks, t) /\ nextTile' = nextTile + 1
      /\ adding' = adding \cup {b} /\ muddled' = (muddled \/ adding # {} \/ ~Shown)
      /\ UNCHANGED <<adminLinks, order, grid, loading, patches, deleting>>
  BY DEF CreateUserQuickLink
<1>2. LinksTypeOK /\ nextTile \in Nat /\ NewTile(b) = t
  BY DEF LinksInv, LinksTypeOK, NewTile
<1>3. t \in UserMade(nextTile + 1) /\ t \in Made(nextTile + 1) /\ t \notin Made(nextTile)
  BY <1>2, MadeGrows
<1>4. userLinks' \in Seq(UserMade(nextTile + 1)) /\ ToSet(userLinks') = ToSet(userLinks) \cup {t}
  <2>1. userLinks \in Seq(UserMade(nextTile + 1))
    BY <1>2, SeqGrows DEF LinksTypeOK
  <2> HIDE DEF t
  <2> QED BY <1>1, <1>3, <2>1, AppendedSet
<1> HIDE DEF t
<1>5. LinksTypeOK'
  <2> DEFINE n == nextTile + 1
  <2>1. /\ n \in Nat /\ adminLinks \in Seq(AdminMade(n)) /\ order \in Seq(Made(n)) /\ grid \in Seq(Made(n))
        /\ patches \in SUBSET Seq(Made(n)) /\ deleting \in SUBSET Made(n)
        /\ loading \in [pc : {"idle", "user", "order"}, admin : Seq(AdminMade(n)), user : Seq(UserMade(n))]
    BY <1>2, Grown
  <2>2. b \in Creations(n) /\ adding \in SUBSET Creations(n) /\ \A a \in adding : NewTile(a) \in Made(n)
    BY <1>2, <2>1, Grown DEF Creations
  <2>3. loading.pc = "idle" => loading = NoLoad
    BY <1>2 DEF LinksTypeOK
  <2>4. t \in Made(n) /\ userLinks' \in Seq(UserMade(n)) /\ nextTile' = n
    BY <1>1, <1>3, <1>4
  <2> HIDE DEF n, b
  <2>5. adding' \in SUBSET Creations(n) /\ \A a \in adding' : NewTile(a) \in Made(n)
    BY <1>1, <1>2, <2>2, <2>4
  <2> QED BY <1>1, <2>1, <2>3, <2>4, <2>5 DEF LinksTypeOK
<1>6. ASSUME ~muddled' PROVE Truthful'
  <2>1. Truthful /\ Shown /\ Shown' /\ adding = {} /\ adding' = {b}
    BY <1>1, <1>6 DEF LinksInv, Shown
  <2>2. Existing' = Existing \cup {t} /\ Added' = <<t>>
    <3>1. adding' # {} /\ (CHOOSE a \in adding' : TRUE) = b
      BY <2>1
    <3> QED BY <1>1, <1>2, <1>4, <3>1 DEF Existing, Added
  <2>3. t \notin ToSet(grid) /\ t \notin deleting /\ t \notin ToSet(userLinks)
    BY <1>2, <1>3, LinksTypes, SetOfSeq DEF LinksTypeOK
  <2>4. keep(grid, Existing') = keep(grid, Existing)
    <3>1. ToSet(grid) \cap Existing' = ToSet(grid) \cap Existing
      BY <2>2, <2>3
    <3> DEFINE X == Existing
               Y == Existing'
    <3>2. grid \in Seq(Made(nextTile)) /\ ToSet(grid) \cap Y = ToSet(grid) \cap X
      BY <1>2, <3>1 DEF LinksTypeOK
    <3> HIDE DEF X, Y
    <3>3. keep(grid, Y) = keep(grid, X)
      BY <3>2, KeepSame
    <3> QED BY <3>3 DEF X, Y
  <2>5. ASSUME NEW refs, Coming(refs)' PROVE Merged(refs)' = keep(grid', Existing') \o Added'
    <3>1. Coming(refs)
      BY <1>1, <2>5 DEF Coming
    <3>2. refs \in Seq(Made(nextTile))
      BY <1>2, <3>1 DEF Coming, LinksTypeOK
    <3>3. Merged(refs) = keep(grid, Existing)
      <4>1. keep(grid, Existing) \in Seq(Made(nextTile))
        BY <1>2, KeepType DEF LinksTypeOK
      <4>2. keep(grid, Existing) \o Added = keep(grid, Existing)
        BY <2>1, <4>1, NothingAdded
      <4> QED BY <2>1, <3>1, <3>2, <4>2 DEF Truthful
    <3>4. t \notin ToSet(refs)
      BY <1>3, <3>2, SetOfSeq
    <3>5. /\ adminLinks \in Seq(Made(nextTile + 1)) /\ userLinks \in Seq(Made(nextTile + 1))
          /\ refs \in Seq(Made(nextTile + 1))
      BY <1>2, <3>2, LinksTypes, SeqGrows
    <3>6. mergedTiles(adminLinks, userLinks', refs)
            = Longer(mergedTiles(adminLinks, userLinks, refs), t)
      <4> DEFINE M == Made(nextTile + 1)
      <4>1. /\ adminLinks \in Seq(M) /\ userLinks \in Seq(M) /\ refs \in Seq(M) /\ t \in M
            /\ t \notin ToSet(refs) /\ t \notin ToSet(userLinks) /\ userLinks' = Longer(userLinks, t)
        BY <1>1, <1>3, <2>3, <3>4, <3>5 DEF Longer
      <4> HIDE DEF M
      <4> QED BY ONLY <4>1, MergedAppend
    <3>7. keep(grid, Existing) \in Seq(Made(nextTile + 1))
      BY <1>2, KeepType, SeqGrows DEF LinksTypeOK
    <3>8. Append(keep(grid, Existing), t) = keep(grid, Existing) \o <<t>>
      BY <1>3, <3>7
    <3> QED BY <1>1, <2>2, <2>4, <3>3, <3>6, <3>8 DEF Merged, Longer
  <2>6. adding' = {b} /\ b.here /\ b.tiles = grid'
    BY <1>1, <2>1
  <2> HIDE DEF b
  <2>7. \A a \in adding' :
          /\ NewTile(a) \in ToSet(userLinks') \ ToSet(grid')
          /\ keep(a.tiles, Existing') = keep(grid', Existing')
    BY <1>1, <1>2, <1>4, <2>3, <2>6
  <2> QED BY <1>1, <2>1, <2>2, <2>3, <2>5, <2>6, <2>7 DEF Truthful
<1> QED BY <1>5, <1>6 DEF LinksInv

(* The tile goes to the end of the grid and of the order that is sent.       *)
LEMMA AddedKeeps == ASSUME LinksInv, NEW a \in adding, handleTileAdded(a) PROVE LinksInv'
<1> DEFINE t == NewTile(a)
           next == Append(a.tiles, t)
<1>1. /\ grid' = (IF a.here THEN Append(grid, t) ELSE grid) /\ adding' = adding \ {a}
      /\ patches' = patches \cup {next} /\ muddled' = (muddled \/ patches # {} \/ FALSE)
      /\ UNCHANGED <<adminLinks, userLinks, order, nextTile, loading, deleting>>
  BY DEF handleTileAdded, persistOrder
<1>2. LinksTypeOK /\ t \in Made(nextTile) /\ a.tiles \in Seq(Made(nextTile))
      /\ grid \in Seq(Made(nextTile))
  BY DEF LinksInv, LinksTypeOK, Creations
<1>3. next \in Seq(Made(nextTile)) /\ ToSet(next) = ToSet(a.tiles) \cup {t}
  <2> HIDE DEF t
  <2> QED BY <1>2, AppendedSet
<1>4. /\ grid' \in Seq(Made(nextTile))
      /\ a.here => grid' = Append(grid, t) /\ ToSet(grid') = ToSet(grid) \cup {t}
  <2> HIDE DEF t
  <2> QED BY <1>1, <1>2, AppendedSet
<1>5. LinksTypeOK'
  <2> HIDE DEF t, next
  <2> QED BY <1>1, <1>2, <1>3, <1>4 DEF LinksTypeOK
<1>6. ASSUME ~muddled' PROVE Truthful'
  <2>1. ~muddled /\ patches' = {next} /\ Truthful
    BY <1>1, <1>6 DEF LinksInv
  <2>2. Shown /\ Shown' /\ adding = {a} /\ adding' = {} /\ a.here
    BY <1>1, <2>1 DEF Truthful, Shown
  <2>3. /\ t \in Existing /\ keep(a.tiles, Existing) = keep(grid, Existing)
        /\ deleting \cap Existing = {} /\ ToSet(grid) \subseteq Existing \cup deleting
    BY <1>1, <2>1, <2>2 DEF Truthful, Existing
  <2>4. Existing \subseteq ToSet(next) /\ Existing' = Existing
    <3>1. Existing \subseteq ToSet(grid) \cup {t}
      BY <2>1, <2>2, ExistingShown
    <3>2. ToSet(grid) \cap Existing = ToSet(a.tiles) \cap Existing
      <4>1. ToSet(keep(grid, Existing)) = ToSet(grid) \cap Existing
        BY <1>2, KeepType
      <4>2. ToSet(keep(a.tiles, Existing)) = ToSet(a.tiles) \cap Existing
        BY <1>2, KeepType
      <4> QED BY <2>3, <4>1, <4>2
    <3>3. Existing' = Existing
      BY <1>1 DEF Existing
    <3> HIDE DEF t, next
    <3> QED BY <1>3, <3>1, <3>2, <3>3
  <2>5. mergedTiles(adminLinks, userLinks, next) = keep(next, Existing)
    <3>1. /\ adminLinks \in Seq(Made(nextTile)) /\ userLinks \in Seq(Made(nextTile))
          /\ next \in Seq(Made(nextTile)) /\ ToSet(adminLinks) \cup ToSet(userLinks) \subseteq ToSet(next)
      BY <1>2, <1>3, <2>4, LinksTypes DEF Existing
    <3> HIDE DEF next
    <3> QED BY <3>1, MergedKnown DEF Existing
  <2>6. keep(next, Existing) = keep(grid', Existing)
    <3> HIDE DEF t
    <3>1. keep(next, Existing) = Append(keep(a.tiles, Existing), t)
      BY <1>2, <2>3, KeepAppend
    <3>2. keep(Append(grid, t), Existing) = Append(keep(grid, Existing), t)
      BY <1>2, <2>3, KeepAppend
    <3> QED BY <1>4, <2>2, <2>3, <3>1, <3>2
  <2> HIDE DEF next, t
  <2>7. keep(grid', Existing) \o Added' = keep(grid', Existing)
    <3>1. keep(grid', Existing) \in Seq(Made(nextTile))
      BY <1>4, KeepType
    <3>2. Added' = << >>
      BY <2>2 DEF Added
    <3> QED BY <3>1, <3>2
  <2>8. ASSUME NEW refs, Coming(refs)' PROVE Merged(refs)' = keep(grid', Existing') \o Added'
    <3>1. refs = next
      BY <2>1, <2>8 DEF Coming
    <3>2. Merged(refs)' = mergedTiles(adminLinks, userLinks, next)
      BY <1>1, <3>1 DEF Merged
    <3> QED BY <2>4, <2>5, <2>6, <2>7, <3>2
  <2>9. deleting' = deleting
    BY <1>1
  <2> QED BY <1>4, <2>1, <2>2, <2>3, <2>4, <2>8, <2>9 DEF Truthful
<1> QED BY <1>5, <1>6 DEF LinksInv

(* What a load would show loses the tile; the grid still has it, but keeps   *)
(* it among those whose deletion is not answered.                            *)
LEMMA DeleteKeeps ==
  ASSUME LinksInv, NEW t \in ToSet(grid), DeleteUserQuickLink(t) PROVE LinksInv'
<1>1. /\ t.type = "user"
      /\ userLinks' = without(userLinks, {t}) /\ deleting' = deleting \cup {t}
      /\ UNCHANGED <<adminLinks, order, nextTile, grid, loading, patches, adding, muddled>>
  BY DEF DeleteUserQuickLink
<1>2. LinksTypeOK /\ grid \in Seq(Made(nextTile)) /\ userLinks \in Seq(UserMade(nextTile))
  BY DEF LinksInv, LinksTypeOK
<1>3. t \in Made(nextTile) /\ t \notin ToSet(adminLinks)
  BY <1>1, <1>2, LinksTypes DEF AdminMade
<1>4. userLinks' \in Seq(UserMade(nextTile)) /\ ToSet(userLinks') = ToSet(userLinks) \ {t}
  BY <1>1, <1>2, WithoutType
<1>5. LinksTypeOK'
  BY <1>1, <1>2, <1>3, <1>4 DEF LinksTypeOK
<1> DEFINE E == Existing \ {t}
<1>6. Existing' = E
  BY <1>1, <1>3, <1>4 DEF Existing
<1>7. ASSUME ~muddled' PROVE Truthful'
  <2>1. Truthful /\ ToSet(grid) # {}
    BY <1>1, <1>7 DEF LinksInv
  <2>0. grid # << >>
    BY <1>2, <2>1, EmptySequence
  <2>2. Shown /\ Shown' /\ Added' = Added
    BY <1>1, <2>0, <2>1 DEF Truthful, Shown, Added
  <2>3. \A a \in adding : /\ a.tiles \in Seq(Made(nextTile)) /\ NewTile(a) \in Made(nextTile)
                          /\ NewTile(a) \in ToSet(userLinks) /\ NewTile(a) \notin ToSet(grid)
                          /\ keep(a.tiles, Existing) = keep(grid, Existing)
    BY <1>2, <2>1 DEF Truthful, LinksTypeOK, Creations
  <2>4. Existing \cap E = E
    OBVIOUS
  <2>5. \A q \in Seq(Made(nextTile)) : keep(keep(q, Existing), E) = keep(q, E)
    BY <2>4, KeepTwice
  <2>6. Added \in Seq(Made(nextTile)) /\ keep(Added, E) = Added
    <3>1. CASE adding = {}
      BY <3>1, KeepEmpty DEF Added
    <3>2. ASSUME NEW a \in adding, adding = {a} PROVE Added \in Seq(Made(nextTile)) /\ keep(Added, E) = Added
      <4> DEFINE n == NewTile(a)
      <4>1. Added = <<n>> /\ n \in Made(nextTile) /\ n \in E
        BY <2>3, <3>2, OneAdded DEF Existing
      <4> HIDE DEF n, E
      <4>2. Added \in Seq(Made(nextTile)) /\ ToSet(Added) \subseteq E
        BY <4>1 DEF ToSet
      <4> QED BY <4>2, KeepAll
    <3> QED BY <2>1, <3>1, <3>2 DEF Truthful
  <2>7. ASSUME NEW refs \in Seq(Made(nextTile)), Coming(refs)'
        PROVE  Merged(refs)' = keep(grid', Existing') \o Added'
    <3> DEFINE k == keep(grid, Existing)
               z == Added
    <3>1. Coming(refs)
      BY <1>1, <2>7 DEF Coming
    <3>2. k \in Seq(Made(nextTile)) /\ z \in Seq(Made(nextTile)) /\ keep(z, E) = z /\ keep(k, E) = keep(grid, E)
      BY <1>2, <2>5, <2>6, KeepType
    <3>3. mergedTiles(adminLinks, userLinks, refs) = Joined(k, z)
      BY <2>1, <2>2, <3>1 DEF Truthful, Joined, Merged
    <3>4. mergedTiles(adminLinks, without(userLinks, {t}), refs)
            = keep(mergedTiles(adminLinks, userLinks, refs), E)
      <4>1. adminLinks \in Seq(Made(nextTile)) /\ userLinks \in Seq(Made(nextTile))
        BY <1>2, LinksTypes
      <4> QED BY <1>3, <4>1, MergedWithout DEF Existing
    <3> HIDE DEF k, z, E
    <3>5. keep(Joined(k, z), E) = Joined(keep(k, E), keep(z, E))
      BY <3>2, KeepJoined
    <3>6. mergedTiles(adminLinks, without(userLinks, {t}), refs) = Joined(keep(grid, E), z)
      BY <3>2, <3>3, <3>4, <3>5
    <3> QED BY <1>1, <1>6, <2>2, <3>6 DEF Merged, Joined, z
  <2>8. \A a \in adding : /\ NewTile(a) \in ToSet(userLinks') \ ToSet(grid)
                          /\ keep(a.tiles, E) = keep(grid, E)
    <3>1. \A a \in adding : NewTile(a) # t
      BY <2>3
    <3>2. \A a \in adding : keep(a.tiles, E) = keep(keep(a.tiles, Existing), E)
      BY <2>3, <2>5
    <3>3. keep(grid, E) = keep(keep(grid, Existing), E)
      BY <1>2, <2>5
    <3> HIDE DEF E
    <3> QED BY <1>4, <2>3, <3>1, <3>2, <3>3
  <2>9. /\ deleting \cap Existing = {} /\ ToSet(grid) \subseteq Existing \cup deleting
        /\ patches = {} \/ \E refs \in patches : patches = {refs}
        /\ adding = {} \/ \E a \in adding : adding = {a} /\ a.here
    BY <2>1, <2>2 DEF Truthful
  <2>10. deleting' \cap E = {} /\ ToSet(grid) \subseteq E \cup deleting'
    BY <1>1, <2>9
  <2> HIDE DEF E
  <2> QED BY <1>1, <1>2, <1>6, <2>2, <2>7, <2>8, <2>9, <2>10 DEF Truthful
<1> QED BY <1>5, <1>7 DEF LinksInv

LEMMA DeletedKeeps ==
  ASSUME LinksInv, NEW t \in deleting, NEW ok \in BOOLEAN, handleDelete(t, ok) PROVE LinksInv'
<1>1. /\ deleting' = deleting \ {t}
      /\ IF ok THEN grid' = without(grid, {t}) /\ muddled' = muddled
               ELSE grid' = grid /\ muddled' = TRUE
      /\ UNCHANGED <<adminLinks, userLinks, order, nextTile, loading, patches, adding>>
  BY DEF handleDelete
<1>2. LinksTypeOK /\ grid \in Seq(Made(nextTile))
  BY DEF LinksInv, LinksTypeOK
<1>3. ok => grid' \in Seq(Made(nextTile)) /\ ToSet(grid') = ToSet(grid) \ {t}
  BY <1>1, <1>2, WithoutType
<1>4. LinksTypeOK'
  <2>1. grid' \in Seq(Made(nextTile))
    BY <1>1, <1>2, <1>3
  <2> QED BY <1>1, <1>2, <2>1 DEF LinksTypeOK
<1>5. ASSUME ~muddled' PROVE Truthful'
  <2>1. ok /\ ~muddled /\ Truthful
    BY <1>1, <1>5 DEF LinksInv
  <2>2. Shown /\ Shown'
    BY <1>1, <2>1 DEF Truthful, Shown
  <2>3. deleting \cap Existing = {} /\ ToSet(grid) \subseteq Existing \cup deleting /\ t \notin Existing
    BY <2>1, <2>2 DEF Truthful
  <2>4. Existing' = Existing /\ Added' = Added
    BY <1>1 DEF Existing, Added
  <2>5. keep(grid', Existing) = keep(grid, Existing)
    <3>1. grid' = keep(grid, ToSet(grid) \ {t})
      BY <1>1, <2>1 DEF without
    <3> DEFINE X == Existing
               Y == (ToSet(grid) \ {t}) \cap X
    <3>2. keep(keep(grid, ToSet(grid) \ {t}), X) = keep(grid, Y)
      BY <1>2, KeepTwice
    <3>3. ToSet(grid) \cap Y = ToSet(grid) \cap X
      BY <2>3
    <3> HIDE DEF X, Y
    <3>4. keep(grid, Y) = keep(grid, X)
      BY <1>2, <3>3, KeepSame
    <3> QED BY <3>1, <3>2, <3>4 DEF X
  <2>6. ASSUME NEW refs \in Seq(Made(nextTile)), Coming(refs)'
        PROVE  Merged(refs)' = keep(grid', Existing') \o Added'
    <3>1. Coming(refs) /\ Merged(refs)' = Merged(refs)
      BY <1>1, <2>6 DEF Coming, Merged
    <3> QED BY <2>1, <2>2, <2>4, <2>5, <3>1 DEF Truthful
  <2>7. \A a \in adding :
          /\ NewTile(a) \in ToSet(userLinks) \ ToSet(grid')
          /\ keep(a.tiles, Existing) = keep(grid', Existing)
    BY <1>3, <2>1, <2>5 DEF Truthful
  <2>8. /\ patches = {} \/ \E refs \in patches : patches = {refs}
        /\ adding = {} \/ \E a \in adding : adding = {a} /\ a.here
    BY <2>1 DEF Truthful
  <2> QED BY <1>1, <1>3, <2>1, <2>2, <2>3, <2>4, <2>6, <2>7, <2>8 DEF Truthful
<1> QED BY <1>4, <1>5 DEF LinksInv

(* From then on the page need not tell the truth.                            *)
LEMMA MuddledKeeps ==
  ASSUME LinksInv,
         \/ \E tiles \in patches : SaveFails(tiles)
         \/ \E a \in adding : AddFails(a)
         \/ LoadFails
         \/ \E k \in 1 .. Len(adminLinks) + 1 : CreateAdminQuickLink(k)
         \/ \E j, k \in DOMAIN adminLinks : UpdateAdminQuickLink(j, k)
         \/ \E k \in DOMAIN adminLinks : DeleteAdminQuickLink(k)
  PROVE  LinksInv'
<1>1. LinksTypeOK /\ nextTile \in Nat /\ adminLinks \in Seq(AdminMade(nextTile))
  BY DEF LinksInv, LinksTypeOK
<1>2. CASE \E tiles \in patches : SaveFails(tiles)
  BY <1>1, <1>2 DEF SaveFails, LinksTypeOK, LinksInv
<1>3. CASE \E a \in adding : AddFails(a)
  BY <1>1, <1>3 DEF AddFails, LinksTypeOK, LinksInv
<1>8. CASE LoadFails
  <2>1. \A S : << >> \in Seq(S)
    OBVIOUS
  <2> QED BY <1>1, <1>8, <2>1 DEF LoadFails, LinksTypeOK, LinksInv, NoLoad
<1>4. ASSUME NEW links \in Seq(AdminMade(nextTile)), AdminTiles(links), UNCHANGED nextTile
      PROVE  LinksInv'
  BY <1>1, <1>4 DEF AdminTiles, LinksTypeOK, LinksInv
<1>5. CASE \E k \in 1 .. Len(adminLinks) + 1 : CreateAdminQuickLink(k)
  <2> DEFINE t == Tile("admin", nextTile)
             n == nextTile + 1
  <2>1. PICK k \in 1 .. Len(adminLinks) + 1 : CreateAdminQuickLink(k)
    BY <1>5
  <2>2. /\ adminLinks' = InsertAt(adminLinks, k, t) /\ nextTile' = n /\ muddled' = TRUE
        /\ UNCHANGED <<userLinks, order, grid, loading, patches, adding, deleting>>
    BY <2>1 DEF CreateAdminQuickLink, AdminTiles
  <2>3. t \in AdminMade(n)
    BY <1>1, MadeGrows
  <2>4. /\ n \in Nat /\ adminLinks \in Seq(AdminMade(n)) /\ userLinks \in Seq(UserMade(n))
        /\ order \in Seq(Made(n)) /\ grid \in Seq(Made(n))
        /\ patches \in SUBSET Seq(Made(n)) /\ deleting \in SUBSET Made(n)
        /\ adding \in SUBSET Creations(n)
        /\ \A a \in adding : NewTile(a) \in Made(n)
        /\ loading \in [pc : {"idle", "user", "order"}, admin : Seq(AdminMade(n)), user : Seq(UserMade(n))]
    BY <1>1, Grown
  <2>5. loading.pc = "idle" => loading = NoLoad
    BY <1>1 DEF LinksTypeOK
  <2> HIDE DEF t, n
  <2>6. adminLinks' \in Seq(AdminMade(n))
    BY <2>2, <2>3, <2>4, InsertedSet
  <2> QED BY <2>2, <2>4, <2>5, <2>6 DEF LinksTypeOK, LinksInv
<1>6. CASE \E j, k \in DOMAIN adminLinks : UpdateAdminQuickLink(j, k)
  <2>1. PICK j, k \in DOMAIN adminLinks : UpdateAdminQuickLink(j, k)
    BY <1>6
  <2>2. InsertAt(RemoveAt(adminLinks, j), k, adminLinks[j]) \in Seq(AdminMade(nextTile))
    BY <1>1, MovedSet
  <2> QED BY <1>4, <2>1, <2>2 DEF UpdateAdminQuickLink
<1>7. CASE \E k \in DOMAIN adminLinks : DeleteAdminQuickLink(k)
  <2>1. PICK k \in DOMAIN adminLinks : DeleteAdminQuickLink(k)
    BY <1>7
  <2>2. RemoveAt(adminLinks, k) \in Seq(AdminMade(nextTile))
    BY <1>1, RemovedSet
  <2> QED BY <1>4, <2>1, <2>2 DEF DeleteAdminQuickLink
<1> QED BY <1>2, <1>3, <1>5, <1>6, <1>7, <1>8

LEMMA LinksKeep == ASSUME LinksInv, LinksNext PROVE LinksInv'
<1>1. CASE Load
  BY <1>1, LoadKeeps
<1>2. CASE ListUserQuickLinks
  BY <1>2, ListUserKeeps
<1>3. CASE GetUserTileOrder
  BY <1>3, GetOrderKeeps
<1>4. CASE \E i, j \in DOMAIN grid : handleDrop(i, j)
  BY <1>4, DropKeeps
<1>5. CASE \E tiles \in patches : SaveOrder(tiles)
  BY <1>5, SaveKeeps
<1>6. CASE CreateUserQuickLink
  BY <1>6, CreateLinkKeeps
<1>7. CASE \E a \in adding : handleTileAdded(a)
  BY <1>7, AddedKeeps
<1>8. CASE \E t \in ToSet(grid) : DeleteUserQuickLink(t)
  BY <1>8, DeleteKeeps
<1>9. CASE \E t \in deleting, ok \in BOOLEAN : handleDelete(t, ok)
  BY <1>9, DeletedKeeps
<1>10. CASE \/ \E tiles \in patches : SaveFails(tiles)
            \/ \E a \in adding : AddFails(a)
            \/ LoadFails
            \/ \E k \in 1 .. Len(adminLinks) + 1 : CreateAdminQuickLink(k)
            \/ \E j, k \in DOMAIN adminLinks : UpdateAdminQuickLink(j, k)
            \/ \E k \in DOMAIN adminLinks : DeleteAdminQuickLink(k)
  BY <1>10, MuddledKeeps
<1> QED BY <1>1, <1>2, <1>3, <1>4, <1>5, <1>6, <1>7, <1>8, <1>9, <1>10 DEF LinksNext

LEMMA LinksTruth == LinksInv => ReloadShowsGrid
<1> SUFFICES ASSUME LinksInv, Shown, ~InFlight, ~muddled
             PROVE  mergedTiles(adminLinks, userLinks, order) = grid
  BY DEF ReloadShowsGrid
<1>1. LinksTypeOK /\ Truthful /\ adding = {} /\ patches = {} /\ deleting = {}
      /\ grid \in Seq(Made(nextTile)) /\ order \in Seq(Made(nextTile))
  BY DEF LinksInv, InFlight, LinksTypeOK
<1>2. Merged(order) = keep(grid, Existing) \o Added /\ ToSet(grid) \subseteq Existing
  BY <1>1 DEF Truthful, Coming
<1>3. keep(grid, Existing) = grid
  BY <1>1, <1>2, KeepAll
<1>4. grid \o Added = grid
  BY <1>1, NothingAdded
<1> QED BY <1>2, <1>3, <1>4 DEF Merged

LEMMA LinksUnchanged ==
  ASSUME LinksInv, UNCHANGED linkVars
  PROVE  LinksInv'
<1>1. /\ UNCHANGED <<adminLinks, userLinks, order, nextTile, grid, loading>>
      /\ UNCHANGED <<patches, adding, deleting, muddled, moves>>
  BY DEF linkVars
<1>2. LinksTypeOK'
  BY <1>1 DEF LinksInv, LinksTypeOK
<1>3. ASSUME Truthful
      PROVE  Truthful'
  BY <1>1, <1>3 DEF Truthful, Shown, Coming, Merged, Existing, Added
<1> QED BY <1>1, <1>2, <1>3 DEF LinksInv

LEMMA LinksSurvive ==
  ASSUME LinksInv, Crash
  PROVE  LinksInv'
<1>1. /\ patches' = {} /\ adding' = {} /\ deleting' = {} /\ loading' = NoLoad /\ muddled'
      /\ UNCHANGED <<adminLinks, userLinks, order, nextTile, grid>>
  BY DEF Crash
<1>2. LinksTypeOK'
  BY <1>1, EmptySequence DEF LinksInv, LinksTypeOK, NoLoad
<1> QED BY <1>1, <1>2 DEF LinksInv

(* ReloadShowsGrid: once everything that the page has sent is answered, and   *)
(* nothing failed, was overtaken or changed by an admin, a reload (ListHandler *)
(* and its mergedTiles) shows the grid as the user sees it.                   *)
THEOREM ReloadAlwaysShowsGrid == Spec => []ReloadShowsGrid
<1>1. Init => LinksInv
  BY LinksStart DEF Init
<1>2. ASSUME LinksInv, [Next]_vars
      PROVE  LinksInv'
  <2>1. CASE UNCHANGED linkVars
    BY <1>2, <2>1, LinksUnchanged
  <2>2. CASE LinksNext
    BY <1>2, <2>2, LinksKeep
  <2>3. CASE Crash
    BY <1>2, <2>3, LinksSurvive
  <2> QED BY <1>2, <2>1, <2>2, <2>3 DEF Next, Step, Restart, vars
<1> QED BY <1>1, <1>2, LinksTruth, PTL DEF Spec
=============================================================================
