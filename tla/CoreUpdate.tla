------------------------------ MODULE CoreUpdate ------------------------------
(***************************************************************************)
(* The check for a newer ModuLab (internal/coreupdate): the scheduler's and  *)
(* an admin's CheckNow read, compare and write settings one at a time. Each  *)
(* of these calls may fail by itself, all that are left do once the admin's  *)
(* client is gone, and the check goes on as the code does after an error.    *)
(***************************************************************************)
EXTENDS Integers

CONSTANTS
  Checkers,      \* goroutines that run CheckNow
  MaxVersion,    \* bound: releases
  MaxChecks      \* bound: checks begun

ASSUME UpdateAssumption == MaxVersion \in Nat /\ MaxChecks \in Nat

VARIABLES
  latest,      \* the newest release, 0 for the one that is installed
  known,       \* core_latest_known_version
  notified,    \* core_update_last_notified_version
  chk,         \* what each check is doing
  announced,   \* history: how often each version was announced
  mixed,       \* history: a check overlapped another
  faults,      \* history: settings of each version that were not read or recorded
  checks

updateVars == <<latest, known, notified, chk, announced, mixed, faults, checks>>

-----------------------------------------------------------------------------
NoCheck == [pc |-> "idle", v |-> 0]

UpdateInit ==
  /\ latest = 0 /\ known = 0 /\ notified = 0
  /\ chk = [c \in Checkers |-> NoCheck]
  /\ announced = [v \in 1 .. MaxVersion |-> 0]
  /\ faults = [v \in 1 .. MaxVersion |-> 0]
  /\ mixed = FALSE /\ checks = 0

Release ==
  /\ latest < MaxVersion /\ latest' = latest + 1
  /\ UNCHANGED <<known, notified, chk, announced, mixed, faults, checks>>

(* RunScheduler's minute has come, or an admin asks: FetchLatestRelease. (A  *)
(* failing lookup leaves everything as it is.)                               *)
CheckNow(c) ==
  /\ chk[c] = NoCheck /\ checks < MaxChecks
  /\ chk' = [chk EXCEPT ![c] = [pc |-> "cache", v |-> latest]]
  /\ checks' = checks + 1
  /\ mixed' = (mixed \/ \E d \in Checkers : chk[d] # NoCheck)
  /\ UNCHANGED <<latest, known, notified, announced, faults>>

(* A failure is logged, and the check goes on.                               *)
CacheLatest(c) ==
  /\ chk[c].pc = "cache"
  /\ known' \in {known, chk[c].v}
  /\ chk' = [chk EXCEPT ![c] = IF chk[c].v > 0 THEN [@ EXCEPT !.pc = "compare"] ELSE NoCheck]
  /\ UNCHANGED <<latest, notified, announced, mixed, faults, checks>>

Fault(v) == [faults EXCEPT ![v] = @ + 1]

(* The error of GetSetting is dropped: a version that could not be read is   *)
(* the empty string, which differs from every version.                       *)
CompareNotified(c) ==
  /\ chk[c].pc = "compare"
  /\ \E unread \in BOOLEAN :
       /\ chk' = [chk EXCEPT ![c] = IF unread \/ notified # chk[c].v
                                    THEN [@ EXCEPT !.pc = "publish"] ELSE NoCheck]
       /\ faults' = IF unread THEN Fault(chk[c].v) ELSE faults
  /\ UNCHANGED <<latest, known, notified, announced, mixed, checks>>

(* Only what was published without an error is recorded. The event may have  *)
(* gone out although the answer was lost.                                    *)
PublishUpdate(c) ==
  /\ chk[c].pc = "publish"
  /\ \E sent, told \in BOOLEAN :
       /\ announced' = IF sent THEN [announced EXCEPT ![chk[c].v] = @ + 1] ELSE announced
       /\ chk' = [chk EXCEPT ![c] = IF sent /\ told THEN [@ EXCEPT !.pc = "record"] ELSE NoCheck]
       /\ faults' = IF sent /\ ~told THEN Fault(chk[c].v) ELSE faults
  /\ UNCHANGED <<latest, known, notified, mixed, checks>>

RecordNotifiedMutant(c) ==
  /\ chk[c].pc = "record"
  /\ chk' = [chk EXCEPT ![c] = NoCheck]
  /\ UNCHANGED <<latest, known, notified, announced, mixed, faults, checks>>

RecordNotified(c) ==
  /\ chk[c].pc = "record"
  /\ \/ notified' = chk[c].v /\ UNCHANGED faults
     \/ faults' = Fault(chk[c].v) /\ UNCHANGED notified
  /\ chk' = [chk EXCEPT ![c] = NoCheck]
  /\ UNCHANGED <<latest, known, announced, mixed, checks>>

UpdateNext ==
  \/ Release
  \/ \E c \in Checkers :
       \/ CheckNow(c) \/ CacheLatest(c) \/ CompareNotified(c) \/ PublishUpdate(c)
       \/ RecordNotified(c)

-----------------------------------------------------------------------------
(* Over any number of checks and releases, and over restarts, each version   *)
(* is announced once, and once more for every time its record could not be   *)
(* read or was not written (a failing call, or a crash after the             *)
(* announcement), as long as checks run one at a time.                       *)
AnnouncedOnce ==
  ~mixed => \A v \in DOMAIN announced : announced[v] <= 1 + faults[v]
=============================================================================
