------------------------------ MODULE AuditLog ------------------------------
(***************************************************************************)
(* The hash-chained audit log (audit/audit.go): concurrent Log transactions  *)
(* serialised by pg_advisory_xact_lock, and the integrity check Verify.      *)
(*                                                                           *)
(* One action per SQL statement of Log. The database is PostgreSQL at READ   *)
(* COMMITTED: a statement sees the rows committed before it, ids come from a *)
(* sequence that a rollback does not give back, and the advisory lock is     *)
(* released together with the end of the transaction.                        *)
(*                                                                           *)
(* An HMAC is a collision-free function of the text that is fed to it: the   *)
(* columns joined with '|', the hash of the row before last. The text is the *)
(* sequence of the words between the '|'; a '|' inside a column is not       *)
(* escaped, so that a column may be several words. The hash of a row is the  *)
(* sequence of the texts chained into it.                                    *)
(***************************************************************************)
EXTENDS Integers, Sequences, FiniteSets

CONSTANTS
  Writers,     \* goroutines inside Log
  NoWriter,
  Words,       \* texts without a '|'
  Events,      \* what eventType holds: a constant of the code, one word
  Targets,     \* what actorID and targetID hold: OIDC subjects, addresses, names
  Ciphertexts, \* what the encrypted columns hold: base64, one word
  LegacyRows,  \* rows already written with the older HMAC formula
  MaxId        \* bound on the ids the sequence gives out

ASSUME NoWriterAssumption == NoWriter \notin Writers
ASSUME TextAssumption == Events \cup Ciphertexts \subseteq Words /\ Targets \subseteq Seq(Words)
ASSUME NonEmptyAssumption == Events # {} /\ Targets # {} /\ Ciphertexts # {}
ASSUME BoundsAssumption == MaxId \in Nat /\ LegacyRows \in 0 .. MaxId

VARIABLES
  log,     \* the committed rows of audit_log, by id
  seq,     \* the id sequence: the last id given out
  lock,    \* who holds the advisory lock
  pc,      \* per writer: the statement it is at
  entry,   \* per writer: its parameters, encrypted
  prevHash,\* per writer: what it read from the last row
  pending  \* per writer: the id of its uncommitted row, 0 if none

logvars == <<log, seq, lock, pc, entry, prevHash, pending>>

Texts == Seq(Words)
Hashes == Seq(Texts)
Entries == [event : Events, target : Targets, cipher : Ciphertexts]
Rows == [event : Events, target : Targets, cipher : Ciphertexts, prev : Hashes, hash : Hashes]
PCs == {"idle", "lock", "read", "insert", "commit"}

LegacyText(e) == <<e.event>> \o e.target
Text(e) == Append(LegacyText(e), e.cipher)

(* The ciphertexts are left out of the HMAC, as they once were.              *)
entryHMACMutant(e, prev) == Append(prev, LegacyText(e))

entryHMAC(e, prev) == Append(prev, Text(e))

legacyEntryHMAC(e, prev) == Append(prev, LegacyText(e))

Newest(rows, i) == i \in DOMAIN rows /\ \A j \in DOMAIN rows : j <= i

(* The hash a new row must link to: "" when there is no row yet.             *)
LastHash(rows) ==
  IF DOMAIN rows = {} THEN << >> ELSE rows[CHOOSE i \in DOMAIN rows : Newest(rows, i)].hash

RowOf(e, prev) ==
  [event |-> e.event, target |-> e.target, cipher |-> e.cipher,
   prev |-> prev, hash |-> entryHMAC(e, prev)]

AnyEntry == CHOOSE e \in Entries : TRUE

(* A log an older version left behind: its rows carry the legacy HMAC.       *)
LegacyHash(n) == [i \in 1 .. n |-> LegacyText(AnyEntry)]
LegacyLog ==
  [i \in 1 .. LegacyRows |->
     [event |-> AnyEntry.event, target |-> AnyEntry.target, cipher |-> AnyEntry.cipher,
      prev |-> LegacyHash(i - 1), hash |-> LegacyHash(i)]]

Init ==
  /\ log = LegacyLog
  /\ seq = LegacyRows
  /\ lock = NoWriter
  /\ pc = [w \in Writers |-> "idle"]
  /\ entry = [w \in Writers |-> AnyEntry]
  /\ prevHash = [w \in Writers |-> << >>]
  /\ pending = [w \in Writers |-> 0]

-----------------------------------------------------------------------------
(* Log *)

Goto(w, label) == pc' = [pc EXCEPT ![w] = label]

(* The fields are encrypted, the transaction begins.                         *)
LogBegin(w, e) ==
  /\ pc[w] = "idle"
  /\ seq < MaxId
  /\ entry' = [entry EXCEPT ![w] = e]
  /\ Goto(w, "lock")
  /\ UNCHANGED <<log, seq, lock, prevHash, pending>>

(* No advisory lock is taken.                                                *)
AdvisoryLockMutant(w) ==
  /\ pc[w] = "lock"
  /\ Goto(w, "read")
  /\ UNCHANGED <<log, seq, lock, entry, prevHash, pending>>

(* SELECT pg_advisory_xact_lock: waits until the lock is free.               *)
AdvisoryLock(w) ==
  /\ pc[w] = "lock"
  /\ lock = NoWriter
  /\ lock' = w
  /\ Goto(w, "read")
  /\ UNCHANGED <<log, seq, entry, prevHash, pending>>

(* SELECT hash ... ORDER BY id DESC LIMIT 1                                  *)
ReadPrevHash(w) ==
  /\ pc[w] = "read"
  /\ prevHash' = [prevHash EXCEPT ![w] = LastHash(log)]
  /\ Goto(w, "insert")
  /\ UNCHANGED <<log, seq, lock, entry, pending>>

(* INSERT: the row takes the next id, and stays invisible to the others.     *)
Insert(w) ==
  /\ pc[w] = "insert"
  /\ seq < MaxId
  /\ seq' = seq + 1
  /\ pending' = [pending EXCEPT ![w] = seq + 1]
  /\ Goto(w, "commit")
  /\ UNCHANGED <<log, lock, entry, prevHash>>

(* The transaction ends, and with it Log's local variables.                  *)
End(w) ==
  /\ pending' = [pending EXCEPT ![w] = 0]
  /\ entry' = [entry EXCEPT ![w] = AnyEntry]
  /\ prevHash' = [prevHash EXCEPT ![w] = << >>]
  /\ lock' = IF lock = w THEN NoWriter ELSE lock
  /\ Goto(w, "idle")
  /\ UNCHANGED seq

Extended(w) ==
  [i \in DOMAIN log \cup {pending[w]} |->
     IF i = pending[w] THEN RowOf(entry[w], prevHash[w]) ELSE log[i]]

Commit(w) ==
  /\ pc[w] = "commit"
  /\ log' = Extended(w)
  /\ End(w)

(* Any statement fails, the request's context ends or the process dies: the  *)
(* transaction is rolled back. Log's caller reports the error and goes on.   *)
Rollback(w) ==
  /\ pc[w] # "idle"
  /\ End(w)
  /\ UNCHANGED log

Log(w) ==
  \/ \E e \in Entries : LogBegin(w, e)
  \/ AdvisoryLock(w) \/ ReadPrevHash(w) \/ Insert(w) \/ Commit(w) \/ Rollback(w)

Next == \E w \in Writers : Log(w)

Spec == Init /\ [][Next]_logvars

-----------------------------------------------------------------------------
(* Verify *)

Older(rows, i) == {j \in DOMAIN rows : j < i}

(* The row Verify has seen just before row i.                                *)
Before(rows, i) == CHOOSE j \in Older(rows, i) : \A k \in Older(rows, i) : k <= j

(* What makes the walk stop at row i. The first row's prev_hash is not       *)
(* compared with anything.                                                   *)
BrokenAt(rows, i) ==
  \/ Older(rows, i) # {} /\ rows[i].prev # rows[Before(rows, i)].hash
  \/ rows[i].hash \notin {entryHMAC(rows[i], rows[i].prev), legacyEntryHMAC(rows[i], rows[i].prev)}

(* One row too few is asked for: a full page looks like the whole table.     *)
VerifyMutant(rows, limit) ==
  LET walked == {i \in DOMAIN rows : Cardinality(Older(rows, i)) < limit}
      broken == {i \in walked : BrokenAt(rows, i)}
  IN [ok |-> broken = {}, brokenAt |-> broken, checked |-> Cardinality(walked),
      complete |-> broken = {}]

(* Walks the first limit rows by id, up to the first broken one; limit + 1   *)
(* rows are asked for, to learn whether there are more.                      *)
Verify(rows, limit) ==
  LET walked == {i \in DOMAIN rows : Cardinality(Older(rows, i)) < limit}
      broken == {i \in walked : BrokenAt(rows, i)}
      first == {i \in broken : \A j \in broken : i <= j}
  IN [ok       |-> broken = {},
      brokenAt |-> first,  \* at most one id
      checked  |-> Cardinality({i \in walked : \A j \in first : i <= j}),
      complete |-> broken = {} /\ walked = DOMAIN rows]

-----------------------------------------------------------------------------
(* Properties *)

TypeOK ==
  /\ DOMAIN log \subseteq 1 .. seq
  /\ \A i \in DOMAIN log : log[i] \in Rows
  /\ seq \in Nat
  /\ lock \in Writers \cup {NoWriter}
  /\ pc \in [Writers -> PCs]
  /\ entry \in [Writers -> Entries]
  /\ prevHash \in [Writers -> Hashes]
  /\ pending \in [Writers -> 0 .. seq]

(* The chain is linear: every row links to the row right before it in id     *)
(* order, and only the oldest links to nothing. This is the race Log's       *)
(* comment describes: two calls reading the same last hash.                  *)
ChainLinked ==
  /\ \A i \in DOMAIN log : Older(log, i) = {} => log[i].prev = << >>
  /\ \A i, j \in DOMAIN log :
       (i < j /\ \A k \in DOMAIN log : ~(i < k /\ k < j)) => log[j].prev = log[i].hash

(* Rows are only ever added, and a row that becomes visible is newer than    *)
(* every row a reader may already have seen (ids are given out before the    *)
(* commit, so this takes the lock).                                          *)
AppendOnly ==
  [][ /\ \A i \in DOMAIN log : i \in DOMAIN log' /\ log'[i] = log[i]
      /\ \A i \in DOMAIN log' \ DOMAIN log, j \in DOMAIN log : j < i ]_log

(* Whatever the transactions do to each other, Log's callers see the table   *)
(* grow atomically: by one row, newer than all others (ids are given out     *)
(* before the commit, so this takes the lock) and chained to the newest.     *)
Atomic == INSTANCE AtomicLog
            WITH rows <- log, Ids <- 1 .. MaxId, First <- LegacyLog, HMAC <- entryHMAC

ImplementsAtomicLog == Atomic!Spec

(* Verify never reports an honest log as damaged, legacy rows included, and  *)
(* says "complete" exactly when no row was left out.                         *)
VerifyAcceptsLog ==
  \A limit \in 1 .. MaxId :
    LET r == Verify(log, limit) n == Cardinality(DOMAIN log)
    IN /\ r.ok
       /\ r.checked = IF n <= limit THEN n ELSE limit
       /\ r.complete <=> n <= limit

Without(rows, i) == [j \in DOMAIN rows \ {i} |-> rows[j]]
Legacy(i) == i <= LegacyRows

(* The columns of row i that its HMAC covers: a legacy row's never covered   *)
(* its ciphertexts.                                                          *)
Covered(i, r) == IF Legacy(i) THEN <<r.event, r.target>> ELSE <<r.event, r.target, r.cipher>>

(* Other values for the columns of a row, with as many words in each.        *)
Reworded(r) == [event : Words, target : [1 .. Len(r.target) -> Words], cipher : Words]

(* Ways a row of the table can be altered outside the program: other words   *)
(* in the columns that its HMAC covers, any of them at once, or the hash of  *)
(* another row.                                                              *)
Altered(i) ==
  {[log EXCEPT ![i].event = r.event, ![i].target = r.target, ![i].cipher = r.cipher] :
     r \in {r \in Reworded(log[i]) : Covered(i, r) # Covered(i, log[i])}}
    \cup {[log EXCEPT ![i].hash = log[j].hash] : j \in DOMAIN log \ {i}}

(* What Verify's comment promises of a damaged table: an altered row is      *)
(* reported, at that very row; a missing row is reported at the row that     *)
(* followed it. An alteration here leaves each column its number of '|':     *)
(* moving text across a column's end can leave the joined text the same,     *)
(* which no comparison of HMACs notices. (Nothing follows the newest row,    *)
(* and nothing is known of what came before the oldest.)                     *)
VerifyDetectsDamage ==
  \A i \in DOMAIN log :
    /\ \A rows \in Altered(i) : Verify(rows, MaxId).brokenAt = {i}
    /\ Older(log, i) # {} /\ ~Newest(log, i) =>
         LET r == Verify(Without(log, i), MaxId)
         IN ~r.ok /\ \A j \in r.brokenAt : Older(log, j) = Older(log, i) \cup {i}
=============================================================================
