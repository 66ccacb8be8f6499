--------------------------- MODULE AuditLogProofs ---------------------------
(***************************************************************************)
(* The chain of the audit log, proved for any number of concurrent writers   *)
(* and rows. What makes ChainLinked inductive is the advisory lock: between  *)
(* its read and its commit a writer owns the end of the chain. What Verify   *)
(* finds in such a table rests on a second invariant, IntactInv: every row   *)
(* still carries its own hash, and no two rows the same. The page that reads *)
(* the log is proved from a third, PageInv: what a request in flight has     *)
(* found so far is complete down to the position it has reached.             *)
(***************************************************************************)
EXTENDS AuditPage, SequenceTheorems, FiniteSetTheorems, WellFoundedInduction, TLAPS

InTransaction == {"read", "insert", "commit"}

(* Exactly the holder of the advisory lock is past it.                       *)
LockHeld == \A w \in Writers : pc[w] \in InTransaction <=> lock = w

(* The end of the chain exists, so LastHash denotes a row's hash.            *)
HasNewest == DOMAIN log = {} \/ \E i \in DOMAIN log : Newest(log, i)

(* What a writer read is still the last hash when it commits ...             *)
PrevHashCurrent ==
  \A w \in Writers : pc[w] \in {"insert", "commit"} => prevHash[w] = LastHash(log)

(* ... and its id is above every committed one.                              *)
PendingIsNewest ==
  \A w \in Writers : pc[w] = "commit" =>
    pending[w] \in 1 .. seq /\ \A i \in DOMAIN log : i < pending[w]

Inv == TypeOK /\ LockHeld /\ HasNewest /\ PrevHashCurrent /\ PendingIsNewest /\ ChainLinked

-----------------------------------------------------------------------------
LEMMA AnyEntryType == AnyEntry \in Entries
  <1>1. \E e \in Entries : TRUE
    <2>1. PICK e \in Events, t \in Targets, c \in Ciphertexts : TRUE BY NonEmptyAssumption
    <2>2. [event |-> e, target |-> t, cipher |-> c] \in Entries BY DEF Entries
    <2> QED BY <2>2
  <1> QED BY <1>1 DEF AnyEntry

(* What the columns of a row join to: the HMAC's text, and how to read it.   *)
LEMMA LegacyTextOf ==
  ASSUME NEW r, r.event \in Words, r.target \in Seq(Words)
  PROVE  /\ LegacyText(r) \in Texts /\ Len(LegacyText(r)) = Len(r.target) + 1
         /\ LegacyText(r)[1] = r.event
         /\ \A k \in 1 .. Len(r.target) : LegacyText(r)[k + 1] = r.target[k]
  <1>1. <<r.event>> \in Seq(Words) /\ Len(<<r.event>>) = 1 /\ <<r.event>>[1] = r.event OBVIOUS
  <1>2. r.target \in Seq(Words) /\ Len(r.target) \in Nat OBVIOUS
  <1> DEFINE one == <<r.event>>  rest == r.target
  <1> HIDE DEF one, rest
  <1>3. ASSUME NEW x \in Seq(Words), NEW y \in Seq(Words), Len(x) = 1
        PROVE  /\ x \o y \in Seq(Words) /\ Len(x \o y) = Len(y) + 1 /\ (x \o y)[1] = x[1]
               /\ \A k \in 1 .. Len(y) : (x \o y)[k + 1] = y[k]
    <2>1. x \o y \in Seq(Words) /\ Len(x \o y) = Len(x) + Len(y) /\ Len(y) \in Nat
      BY ConcatProperties
    <2>2. \A i \in 1 .. Len(x) + Len(y) :
            (x \o y)[i] = IF i <= Len(x) THEN x[i] ELSE y[i - Len(x)]
      BY ConcatProperties
    <2>3. (x \o y)[1] = x[1] BY <1>3, <2>1, <2>2
    <2>4. ASSUME NEW k \in 1 .. Len(y) PROVE (x \o y)[k + 1] = y[k]
      <3>1. k + 1 \in 1 .. Len(x) + Len(y) /\ ~(k + 1 <= Len(x)) /\ (k + 1) - Len(x) = k
        BY <1>3, <2>1
      <3> QED BY <2>2, <3>1
    <2> QED BY <1>3, <2>1, <2>3, <2>4
  <1> QED BY <1>1, <1>2, <1>3 DEF LegacyText, Texts

LEMMA TextOf ==
  ASSUME NEW r, r.event \in Words, r.target \in Seq(Words), r.cipher \in Words
  PROVE  /\ Text(r) \in Texts /\ Len(Text(r)) = Len(r.target) + 2
         /\ Text(r)[Len(r.target) + 2] = r.cipher
         /\ \A k \in 1 .. Len(r.target) + 1 : Text(r)[k] = LegacyText(r)[k]
  <1> DEFINE t == LegacyText(r)  c == r.cipher
  <1>1. t \in Seq(Words) /\ Len(t) = Len(r.target) + 1 /\ Len(r.target) \in Nat
    BY LegacyTextOf DEF Texts
  <1>2. c \in Words OBVIOUS
  <1> HIDE DEF t, c
  <1>3. Append(t, c) \in Seq(Words) /\ Len(Append(t, c)) = Len(t) + 1 BY <1>1, <1>2
  <1>4. Append(t, c)[Len(t) + 1] = c /\ \A k \in 1 .. Len(t) : Append(t, c)[k] = t[k]
    BY <1>1, <1>2
  <1> QED BY <1>1, <1>3, <1>4 DEF Text, Texts, t, c

(* Entries are made of words.                                                *)
LEMMA EntryWords ==
  ASSUME NEW e \in Entries
  PROVE  /\ e.event \in Words /\ e.target \in Seq(Words) /\ e.cipher \in Words
         /\ LegacyText(e) \in Texts /\ Text(e) \in Texts
  <1>1. e.event \in Words /\ e.target \in Seq(Words) /\ e.cipher \in Words
    BY TextAssumption DEF Entries
  <1> QED BY <1>1, LegacyTextOf, TextOf

LEMMA LegacyHashType == \A n \in Nat : LegacyHash(n) \in Hashes
  <1> TAKE n \in Nat
  <1>1. LegacyHash(n) \in [1 .. n -> Texts]
    BY AnyEntryType, EntryWords DEF LegacyHash
  <1> QED BY <1>1, SeqDef DEF Hashes

(* There is only one newest row.                                             *)
LEMMA NewestUnique ==
  ASSUME NEW rows, DOMAIN rows \subseteq Nat, NEW i \in DOMAIN rows, Newest(rows, i)
  PROVE  LastHash(rows) = rows[i].hash
  <1>1. \A j \in DOMAIN rows : Newest(rows, j) => j = i BY DEF Newest
  <1>2. (CHOOSE j \in DOMAIN rows : Newest(rows, j)) = i BY <1>1
  <1> QED BY <1>2 DEF LastHash

LEMMA LastHashType == TypeOK /\ HasNewest => LastHash(log) \in Hashes
  <1> SUFFICES ASSUME TypeOK, HasNewest PROVE LastHash(log) \in Hashes OBVIOUS
  <1>1. CASE DOMAIN log = {} BY <1>1, EmptySeq DEF LastHash, Hashes
  <1>2. CASE \E i \in DOMAIN log : Newest(log, i)
    <2>1. PICK i \in DOMAIN log : Newest(log, i) BY <1>2
    <2>2. LastHash(log) = log[i].hash BY <2>1, NewestUnique DEF TypeOK
    <2>3. log[i] \in Rows BY DEF TypeOK
    <2> QED BY <2>2, <2>3 DEF Rows
  <1> QED BY <1>1, <1>2 DEF HasNewest

LEMMA RowOfType ==
  ASSUME NEW e \in Entries, NEW p \in Hashes
  PROVE  RowOf(e, p) \in Rows
  <1>1. Text(e) \in Texts BY EntryWords
  <1>2. entryHMAC(e, p) \in Hashes BY <1>1 DEF entryHMAC, Hashes
  <1> QED BY <1>2 DEF RowOf, Rows, Entries
-----------------------------------------------------------------------------
LEMMA InitInv == Init => Inv
  <1> SUFFICES ASSUME Init PROVE Inv OBVIOUS
  <1> USE BoundsAssumption
  <1>1. DOMAIN log = 1 .. LegacyRows /\ seq = LegacyRows BY DEF Init, LegacyLog
  <1>2. \A i \in 1 .. LegacyRows : /\ log[i].prev = LegacyHash(i - 1)
                                   /\ log[i].hash = LegacyHash(i)
                                   /\ log[i] \in Rows
    <2> TAKE i \in 1 .. LegacyRows
    <2>1. LegacyHash(i - 1) \in Hashes /\ LegacyHash(i) \in Hashes BY LegacyHashType
    <2> QED BY <2>1, AnyEntryType DEF Init, LegacyLog, Rows, Entries
  <1>3. TypeOK
    BY <1>1, <1>2, AnyEntryType, EmptySeq DEF TypeOK, Init, PCs, Hashes
  <1>4. LockHeld BY NoWriterAssumption DEF LockHeld, Init, InTransaction
  <1>5. HasNewest
    <2>1. LegacyRows # 0 => Newest(log, LegacyRows) BY <1>1 DEF Newest
    <2>2. LegacyRows = 0 => DOMAIN log = {} BY <1>1
    <2> QED BY <2>1, <2>2, <1>1 DEF HasNewest
  <1>6. PrevHashCurrent /\ PendingIsNewest BY DEF PrevHashCurrent, PendingIsNewest, Init
  <1>7. ChainLinked
    <2>1. \A i \in DOMAIN log : Older(log, i) = {} => log[i].prev = << >>
      <3> SUFFICES ASSUME NEW i \in DOMAIN log, Older(log, i) = {} PROVE log[i].prev = << >>
        OBVIOUS
      <3>1. i = 1
        <4>1. i # 1 => i - 1 \in Older(log, i) BY <1>1 DEF Older
        <4> QED BY <4>1
      <3>2. LegacyHash(0) = << >> BY DEF LegacyHash
      <3> QED BY <1>1, <1>2, <3>1, <3>2
    <2>2. \A i, j \in DOMAIN log :
            (i < j /\ \A k \in DOMAIN log : ~(i < k /\ k < j)) => log[j].prev = log[i].hash
      <3> SUFFICES ASSUME NEW i \in DOMAIN log, NEW j \in DOMAIN log, i < j,
                          \A k \in DOMAIN log : ~(i < k /\ k < j)
                   PROVE  log[j].prev = log[i].hash
        OBVIOUS
      <3>1. j - 1 \in DOMAIN log /\ j - 1 < j BY <1>1
      <3>2. i = j - 1 BY <1>1, <3>1
      <3> QED BY <1>1, <1>2, <3>2
    <2> QED BY <2>1, <2>2 DEF ChainLinked
  <1> QED BY <1>3, <1>4, <1>5, <1>6, <1>7 DEF Inv

(* A step that leaves the table alone leaves the chain alone.                *)
LEMMA NextInv == Inv /\ [Next]_logvars => Inv'
  <1> SUFFICES ASSUME Inv, [Next]_logvars PROVE Inv' OBVIOUS
  <1> USE DEF Inv
  <1>1. ASSUME NEW w \in Writers, NEW e \in Entries, LogBegin(w, e) PROVE Inv'
    <2> USE <1>1 DEF LogBegin, Goto
    <2>1. TypeOK' BY DEF TypeOK, PCs
    <2>2. LockHeld' BY NoWriterAssumption DEF TypeOK, LockHeld, InTransaction
    <2>3. HasNewest' /\ ChainLinked' BY DEF HasNewest, ChainLinked
    <2>4. PrevHashCurrent' /\ PendingIsNewest'
      BY DEF PrevHashCurrent, PendingIsNewest, TypeOK
    <2> QED BY <2>1, <2>2, <2>3, <2>4
  <1>2. ASSUME NEW w \in Writers, AdvisoryLock(w) PROVE Inv'
    <2> USE <1>2 DEF AdvisoryLock, Goto
    <2>1. TypeOK' BY DEF TypeOK, PCs
    <2>2. LockHeld' BY NoWriterAssumption DEF TypeOK, LockHeld, InTransaction
    <2>3. HasNewest' /\ ChainLinked' BY DEF HasNewest, ChainLinked
    <2>4. PrevHashCurrent' /\ PendingIsNewest'
      BY DEF PrevHashCurrent, PendingIsNewest, TypeOK
    <2> QED BY <2>1, <2>2, <2>3, <2>4
  <1>3. ASSUME NEW w \in Writers, ReadPrevHash(w) PROVE Inv'
    <2> USE <1>3 DEF ReadPrevHash, Goto
    <2>1. TypeOK' BY LastHashType DEF TypeOK, PCs
    <2>2. LockHeld' BY DEF TypeOK, LockHeld, InTransaction
    <2>3. HasNewest' /\ ChainLinked' BY DEF HasNewest, ChainLinked
    <2>4. PrevHashCurrent' BY DEF PrevHashCurrent, TypeOK
    <2>5. PendingIsNewest' BY DEF PendingIsNewest, TypeOK
    <2> QED BY <2>1, <2>2, <2>3, <2>4, <2>5
  <1>4. ASSUME NEW w \in Writers, Insert(w) PROVE Inv'
    <2> USE <1>4 DEF Insert, Goto
    <2>1. TypeOK' BY DEF TypeOK, PCs
    <2>2. LockHeld' BY DEF TypeOK, LockHeld, InTransaction
    <2>3. HasNewest' /\ ChainLinked' BY DEF HasNewest, ChainLinked
    <2>4. PrevHashCurrent' BY DEF PrevHashCurrent, TypeOK
    <2>5. PendingIsNewest' BY DEF PendingIsNewest, TypeOK
    <2> QED BY <2>1, <2>2, <2>3, <2>4, <2>5
  <1>5. ASSUME NEW w \in Writers, Commit(w) PROVE Inv'
    <2> DEFINE n == pending[w]  row == RowOf(entry[w], prevHash[w])
    <2>0. pc[w] = "commit" /\ log' = Extended(w) /\ End(w) BY <1>5 DEF Commit
    <2>1. n \in 1 .. seq /\ \A i \in DOMAIN log : i < n BY <2>0 DEF PendingIsNewest
    <2>2. row \in Rows BY RowOfType DEF TypeOK
    <2>3. /\ DOMAIN log' = DOMAIN log \cup {n}
          /\ log'[n] = row
          /\ \A i \in DOMAIN log : log'[i] = log[i]
      BY <2>0, <2>1 DEF Extended, TypeOK
    <2>4. row.prev = LastHash(log) BY <2>0 DEF RowOf, PrevHashCurrent
    <2> HIDE DEF row
    <2>5. TypeOK'
      BY <2>0, <2>1, <2>2, <2>3, AnyEntryType, EmptySeq DEF TypeOK, PCs, End, Goto, Hashes
    <2>6. LockHeld' BY <2>0, NoWriterAssumption DEF End, Goto, TypeOK, LockHeld, InTransaction
    <2>7. \A v \in Writers : pc'[v] \notin InTransaction
      BY <2>0, NoWriterAssumption DEF End, Goto, TypeOK, LockHeld, InTransaction
    <2>8. PrevHashCurrent' /\ PendingIsNewest'
      BY <2>7 DEF PrevHashCurrent, PendingIsNewest, InTransaction
    <2>9. HasNewest'
      <3>1. \A i \in DOMAIN log' : i <= n BY <2>1, <2>3 DEF TypeOK
      <3> QED BY <2>3, <3>1 DEF HasNewest, Newest
    <2>10. ChainLinked'
      <3>1. ASSUME NEW i \in DOMAIN log', Older(log', i) = {} PROVE log'[i].prev = << >>
        <4>1. CASE i \in DOMAIN log
          <5>1. Older(log, i) = {} BY <2>3, <3>1 DEF Older
          <5> QED BY <4>1, <5>1, <2>3 DEF ChainLinked
        <4>2. CASE i = n
          <5>1. DOMAIN log = {} BY <2>1, <2>3, <3>1, <4>2 DEF Older
          <5> QED BY <2>3, <2>4, <4>2, <5>1 DEF LastHash
        <4> QED BY <2>3, <4>1, <4>2
      <3>2. ASSUME NEW i \in DOMAIN log', NEW j \in DOMAIN log', i < j,
                   \A k \in DOMAIN log' : ~(i < k /\ k < j)
            PROVE  log'[j].prev = log'[i].hash
        <4>1. CASE j \in DOMAIN log
          <5>1. i \in DOMAIN log
            BY <2>1, <2>3, <3>2, <4>1 DEF TypeOK
          <5> QED BY <2>3, <3>2, <4>1, <5>1 DEF ChainLinked
        <4>2. CASE j = n
          <5>1. i \in DOMAIN log BY <2>1, <2>3, <3>2, <4>2
          <5>2. Newest(log, i) BY <2>1, <2>3, <3>2, <4>2, <5>1 DEF Newest, TypeOK
          <5>3. LastHash(log) = log[i].hash BY <5>1, <5>2, NewestUnique DEF TypeOK
          <5> QED BY <2>3, <2>4, <4>2, <5>1, <5>3
        <4> QED BY <2>3, <4>1, <4>2
      <3> QED BY <3>1, <3>2 DEF ChainLinked
    <2> QED BY <2>5, <2>6, <2>8, <2>9, <2>10
  <1>6. ASSUME NEW w \in Writers, Rollback(w) PROVE Inv'
    <2> USE <1>6 DEF Rollback, End, Goto
    <2>1. TypeOK' BY AnyEntryType, EmptySeq DEF TypeOK, PCs, Hashes
    <2>2. LockHeld' BY NoWriterAssumption DEF TypeOK, LockHeld, InTransaction
    <2>3. HasNewest' /\ ChainLinked' BY DEF HasNewest, ChainLinked
    <2>4. PrevHashCurrent' /\ PendingIsNewest'
      BY DEF PrevHashCurrent, PendingIsNewest, TypeOK
    <2> QED BY <2>1, <2>2, <2>3, <2>4
  <1>7. CASE UNCHANGED logvars
    BY <1>7 DEF logvars, TypeOK, LockHeld, HasNewest, PrevHashCurrent, PendingIsNewest, ChainLinked
  <1> QED BY <1>1, <1>2, <1>3, <1>4, <1>5, <1>6, <1>7 DEF Next, Log

(* The inductive invariant holds throughout.                                 *)
THEOREM Invariance == Spec => []Inv
  BY InitInv, NextInv, PTL DEF Spec

(* Every variable keeps its type, for any number of writers.                 *)
THEOREM TypeCorrect == Spec => []TypeOK
  <1>1. Inv => TypeOK BY DEF Inv
  <1> QED BY Invariance, <1>1, PTL

(* The audit chain is linear whatever transactions overlap or roll back.     *)
THEOREM ChainAlwaysLinked == Spec => []ChainLinked
  <1>1. Inv => ChainLinked BY DEF Inv
  <1> QED BY Invariance, <1>1, PTL

(* A step adds at most one row to the table, above all others.               *)
Grown ==
  /\ \A i \in DOMAIN log : i \in DOMAIN log' /\ log'[i] = log[i]
  /\ \A i \in DOMAIN log' \ DOMAIN log, j \in DOMAIN log : j < i

LEMMA TableGrows == ASSUME Inv, [Next]_logvars PROVE Grown
  <1>1. CASE log' = log BY <1>1 DEF Grown
  <1>2. ASSUME NEW w \in Writers, Commit(w) PROVE Grown
    <2>1. pending[w] \in 1 .. seq /\ \A i \in DOMAIN log : i < pending[w]
      BY <1>2 DEF Inv, PendingIsNewest, Commit
    <2>2. log' = Extended(w) BY <1>2 DEF Commit
    <2>3. /\ DOMAIN log' = DOMAIN log \cup {pending[w]}
          /\ \A i \in DOMAIN log : log'[i] = log[i]
      BY <2>1, <2>2 DEF Extended, Inv, TypeOK
    <2> QED BY <2>1, <2>3 DEF Grown
  <1>3. log' = log \/ \E w \in Writers : Commit(w)
    BY DEF Next, Log, LogBegin, AdvisoryLock, ReadPrevHash, Insert, Rollback, logvars
  <1> QED BY <1>1, <1>2, <1>3

(* Rows are never altered, and become visible in the order of their ids.     *)
THEOREM AlwaysAppendOnly == Spec => AppendOnly
  <1> DEFINE Step == /\ \A i \in DOMAIN log : i \in DOMAIN log' /\ log'[i] = log[i]
                     /\ \A i \in DOMAIN log' \ DOMAIN log, j \in DOMAIN log : j < i
  <1>1. Inv /\ [Next]_logvars => [Step]_log BY TableGrows DEF Grown
  <1> QED BY Invariance, <1>1, PTL DEF Spec, AppendOnly

-----------------------------------------------------------------------------
(* Ids come from the sequence, which stops at MaxId.                         *)
IdsBounded == \A w \in Writers : pending[w] <= MaxId

LEMMA PendingBounded == Spec => []IdsBounded
  <1>1. Init => IdsBounded BY BoundsAssumption DEF Init, IdsBounded
  <1>2. ASSUME Inv, IdsBounded, [Next]_logvars PROVE IdsBounded'
    <2> USE <1>2, BoundsAssumption DEF Inv, TypeOK, IdsBounded
    <2>1. ASSUME NEW w \in Writers, Insert(w) PROVE IdsBounded'
      BY <2>1 DEF Insert
    <2>2. ASSUME NEW w \in Writers, End(w) PROVE IdsBounded'
      BY <2>2 DEF End
    <2>3. CASE pending' = pending BY <2>3
    <2>4. pending' = pending \/ \E w \in Writers : Insert(w) \/ End(w)
      BY DEF Next, Log, LogBegin, AdvisoryLock, ReadPrevHash, Commit, Rollback, logvars
    <2> QED BY <2>1, <2>2, <2>3, <2>4
  <1> QED BY Invariance, <1>1, <1>2, PTL DEF Spec

(* A writer that commits links to a tip of the table.                        *)
LEMMA CommitsAtTip ==
  ASSUME Inv, NEW w \in Writers, pc[w] = "commit"
  PROVE  prevHash[w] \in Atomic!Tips
  <1>1. prevHash[w] = LastHash(log) BY DEF Inv, PrevHashCurrent
  <1>2. CASE DOMAIN log = {} BY <1>1, <1>2 DEF LastHash, Atomic!Tips
  <1>3. CASE DOMAIN log # {}
    <2>1. PICK i \in DOMAIN log : Newest(log, i) BY <1>3 DEF Inv, HasNewest
    <2>2. LastHash(log) = log[i].hash BY <2>1, NewestUnique DEF Inv, TypeOK
    <2>3. log[i].hash \in {log[k].hash : k \in {k \in DOMAIN log : \A j \in DOMAIN log : j <= k}}
      BY <2>1 DEF Newest
    <2> QED BY <1>1, <1>3, <2>2, <2>3 DEF Atomic!Tips
  <1> QED BY <1>2, <1>3

(* Log's transactions implement a log that grows atomically: only a commit   *)
(* changes the table, and it appends one chained row.                        *)
THEOREM LogIsAtomic == Spec => ImplementsAtomicLog
  <1>1. Init => Atomic!Init BY DEF Init, Atomic!Init
  <1>2. ASSUME Inv, IdsBounded, [Next]_logvars PROVE [Atomic!Next]_log
    <2>1. CASE log' = log BY <2>1
    <2>2. ASSUME NEW w \in Writers, Commit(w) PROVE Atomic!Next
      <3>1. /\ pending[w] \in 1 .. MaxId
            /\ \A i \in DOMAIN log : i < pending[w]
        BY <1>2, <2>2, BoundsAssumption DEF Inv, TypeOK, PendingIsNewest, Commit, IdsBounded
      <3>2. entry[w] \in Entries BY <1>2 DEF Inv, TypeOK
      <3>3. prevHash[w] \in Atomic!Tips BY <1>2, <2>2, CommitsAtTip DEF Commit
      <3>4. Atomic!AppendRow(pending[w], entry[w], prevHash[w])
        BY <2>2, <3>1 DEF Atomic!AppendRow, Commit, Extended, RowOf
      <3> QED BY <3>1, <3>2, <3>3, <3>4 DEF Atomic!Next
    <2>3. log' = log \/ \E w \in Writers : Commit(w)
      BY <1>2 DEF Next, Log, LogBegin, AdvisoryLock, ReadPrevHash, Insert, Rollback, logvars
    <2> QED BY <2>1, <2>2, <2>3
  <1> QED BY Invariance, PendingBounded, <1>1, <1>2, PTL DEF Spec, ImplementsAtomicLog, Atomic!Spec

-----------------------------------------------------------------------------
(* Verify: what a walk over the table finds.                                 *)

(* A bounded set of numbers has a least one: it is the one with the fewest   *)
(* members below it.                                                         *)
LEMMA LeastOf ==
  ASSUME NEW N \in Nat, NEW S \in SUBSET (0 .. N), S # {}
  PROVE  \E m \in S : \A n \in S : m <= n
  <1> DEFINE Below(i) == {j \in S : j < i}
             T == {Below(i) : i \in S}
             R == StrictSubsetOrdering(0 .. N)
  <1>1. IsFiniteSet(0 .. N) BY FS_Interval
  <1>2. IsWellFoundedOn(R, SUBSET (0 .. N))
    BY <1>1, FS_FiniteSubsetsOfFinite, FS_StrictSubsetOrderingWellFounded
  <1>3. T \subseteq SUBSET (0 .. N) /\ T # {} OBVIOUS
  <1>4. \E x \in T : \A y \in T : <<y, x>> \notin R
    <2> HIDE DEF T, R
    <2> QED BY <1>2, <1>3, WFMin
  <1>5. PICK m \in S : \A y \in T : <<y, Below(m)>> \notin R BY <1>4
  <1>6. ASSUME NEW n \in S, n < m PROVE FALSE
    <2>0. n \in Int /\ m \in Int /\ \A j \in S : j \in Int BY <1>6
    <2>1. Below(n) \subseteq Below(m)
      <3>1. ASSUME NEW j \in Below(n) PROVE j \in Below(m)
        <4>1. j \in S /\ j \in Int /\ j < n BY <2>0
        <4>2. j < m BY <1>6, <2>0, <4>1
        <4> QED BY <4>1, <4>2
      <3> QED BY <3>1
    <2>2. n \in Below(m) /\ n \notin Below(n) BY <1>6, <2>0
    <2>3. Below(n) \in SUBSET (0 .. N) /\ Below(m) \in SUBSET (0 .. N) OBVIOUS
    <2>4. <<Below(n), Below(m)>> \in R
      <3> HIDE DEF Below
      <3> QED BY <2>1, <2>2, <2>3 DEF StrictSubsetOrdering
    <2> QED BY <1>5, <2>4
  <1> QED BY <1>6

LEMMA GreatestOf ==
  ASSUME NEW N \in Nat, NEW S \in SUBSET (0 .. N), S # {}
  PROVE  \E m \in S : \A n \in S : n <= m
  <1> DEFINE T == {N - n : n \in S}
  <1>0. \A n \in S : N - n \in 0 .. N OBVIOUS
  <1>1. T \in SUBSET (0 .. N) /\ T # {} BY <1>0
  <1>2. \E t \in T : \A u \in T : t <= u
    <2> HIDE DEF T
    <2> QED BY <1>1, LeastOf
  <1>3. PICK m \in S : \A u \in T : N - m <= u BY <1>2
  <1>4. ASSUME NEW n \in S PROVE n <= m
    <2>1. N - m <= N - n BY <1>3, <1>4
    <2> QED BY <2>1
  <1> QED BY <1>4

LEMMA OlderCounted ==
  ASSUME NEW rows, DOMAIN rows \subseteq 1 .. MaxId, NEW i \in DOMAIN rows
  PROVE  /\ IsFiniteSet(DOMAIN rows) /\ IsFiniteSet(Older(rows, i))
         /\ Cardinality(Older(rows, i)) \in 0 .. i - 1
  <1>1. IsFiniteSet(1 .. MaxId) /\ IsFiniteSet(1 .. i - 1) /\ Cardinality(1 .. i - 1) = i - 1
    BY BoundsAssumption, FS_Interval
  <1>2. Older(rows, i) \subseteq 1 .. i - 1 BY BoundsAssumption DEF Older
  <1> QED BY <1>1, <1>2, FS_Subset, FS_CardinalityType, BoundsAssumption

LEMMA AllWalked ==
  ASSUME NEW rows, DOMAIN rows \subseteq 1 .. MaxId
  PROVE  {i \in DOMAIN rows : Cardinality(Older(rows, i)) < MaxId} = DOMAIN rows
  BY OlderCounted, BoundsAssumption

(* A walk of limit rows looks at limit of them, or at all there are: below   *)
(* the first row that is left out lie exactly limit rows.                    *)
LEMMA WalkCounted ==
  ASSUME NEW rows, DOMAIN rows \subseteq 1 .. MaxId, NEW limit \in 1 .. MaxId
  PROVE  LET walked == {i \in DOMAIN rows : Cardinality(Older(rows, i)) < limit}
             n == Cardinality(DOMAIN rows)
         IN /\ n \in Nat
            /\ Cardinality(walked) = IF n <= limit THEN n ELSE limit
            /\ walked = DOMAIN rows <=> n <= limit
  <1> DEFINE walked == {i \in DOMAIN rows : Cardinality(Older(rows, i)) < limit}
             n == Cardinality(DOMAIN rows)
             left == DOMAIN rows \ walked
  <1> USE BoundsAssumption
  <1>0. DOMAIN rows \in SUBSET (0 .. MaxId) OBVIOUS
  <1>1. IsFiniteSet(DOMAIN rows) /\ n \in Nat
    <2>1. IsFiniteSet(1 .. MaxId) BY FS_Interval
    <2> QED BY <2>1, FS_Subset, FS_CardinalityType
  <1>2. IsFiniteSet(walked) /\ Cardinality(walked) \in Nat /\ Cardinality(walked) <= n
    BY <1>1, FS_Subset, FS_CardinalityType
  <1>3. \A i \in DOMAIN rows : /\ IsFiniteSet(Older(rows, i))
                               /\ Cardinality(Older(rows, i)) \in Nat
    BY OlderCounted
  <1>4. CASE left = {}
    <2>1. walked = DOMAIN rows BY <1>4
    <2>2. n <= limit
      <3>1. CASE DOMAIN rows = {} BY <3>1, FS_EmptySet
      <3>2. CASE DOMAIN rows # {}
        <4>1. PICK m \in DOMAIN rows : \A i \in DOMAIN rows : i <= m
          BY <3>2, <1>0, GreatestOf
        <4>2. DOMAIN rows = Older(rows, m) \cup {m} BY <4>1 DEF Older
        <4>3. m \notin Older(rows, m) BY DEF Older
        <4>4. n = Cardinality(Older(rows, m)) + 1 BY <1>3, <4>2, <4>3, FS_AddElement
        <4>5. Cardinality(Older(rows, m)) < limit BY <2>1
        <4> QED BY <1>3, <4>4, <4>5
      <3> QED BY <3>1, <3>2
    <2> QED BY <1>1, <2>1, <2>2
  <1>5. CASE left # {}
    <2>1. PICK f \in left : \A i \in left : f <= i
      <3>1. left \in SUBSET (0 .. MaxId) BY <1>0
      <3> HIDE DEF left
      <3> QED BY <1>5, <3>1, LeastOf
    <2>2. Cardinality(Older(rows, f)) >= limit BY <1>3, <2>1
    <2>3. Older(rows, f) \subseteq walked
      <3>1. ASSUME NEW i \in Older(rows, f), i \notin walked PROVE FALSE
        <4>1. i \in left /\ i < f BY <3>1 DEF Older
        <4> QED BY <2>1, <4>1
      <3> QED BY <3>1
    <2>4. Cardinality(Older(rows, f)) <= Cardinality(walked) BY <1>2, <2>3, FS_Subset
    <2>5. walked # {}
      <3>1. PICK m \in DOMAIN rows : \A i \in DOMAIN rows : m <= i
        BY <2>1, <1>0, LeastOf
      <3>2. Older(rows, m) = {} BY <3>1 DEF Older
      <3>3. Cardinality(Older(rows, m)) = 0 BY <3>2, FS_EmptySet
      <3> QED BY <3>3
    <2>6. PICK m \in walked : \A i \in walked : i <= m
      <3>1. walked \in SUBSET (0 .. MaxId) BY <1>0
      <3> HIDE DEF walked
      <3> QED BY <2>5, <3>1, GreatestOf
    <2>7. walked \subseteq Older(rows, m) \cup {m} BY <2>6 DEF Older
    <2>8. m \notin Older(rows, m) BY DEF Older
    <2>9. /\ IsFiniteSet(Older(rows, m) \cup {m})
          /\ Cardinality(Older(rows, m) \cup {m}) = Cardinality(Older(rows, m)) + 1
      BY <1>3, <2>8, FS_AddElement
    <2>10. Cardinality(walked) <= Cardinality(Older(rows, m)) + 1 BY <2>7, <2>9, FS_Subset
    <2>11. Cardinality(walked) = limit BY <1>2, <1>3, <2>2, <2>4, <2>6, <2>10
    <2>12. n > limit
      <3>1. n # Cardinality(walked) BY <1>1, <1>5, FS_Subset
      <3> QED BY <1>1, <1>2, <2>11, <3>1
    <2> QED BY <1>1, <1>5, <2>11, <2>12
  <1> QED BY <1>4, <1>5

-----------------------------------------------------------------------------
(* The row Verify saw before row i is the greatest one below it.             *)
LEMMA BeforeIs ==
  ASSUME NEW rows, DOMAIN rows \subseteq 1 .. MaxId, NEW i \in DOMAIN rows,
         NEW m \in Older(rows, i), \A k \in Older(rows, i) : k <= m
  PROVE  Before(rows, i) = m
  <1>1. \A k \in Older(rows, i) : k \in Nat BY BoundsAssumption DEF Older
  <1>2. ASSUME NEW k \in Older(rows, i), \A l \in Older(rows, i) : l <= k PROVE k = m
    BY <1>1, <1>2
  <1> QED BY <1>2 DEF Before

LEMMA BeforeExists ==
  ASSUME NEW rows, DOMAIN rows \subseteq 1 .. MaxId, NEW i \in DOMAIN rows,
         Older(rows, i) # {}
  PROVE  \E m \in Older(rows, i) : \A k \in Older(rows, i) : k <= m
  <1>1. Older(rows, i) \in SUBSET (0 .. MaxId) BY BoundsAssumption DEF Older
  <1> QED BY <1>1, GreatestOf, BoundsAssumption

(* Two tables that agree on a row and on all below it agree on whether the   *)
(* walk stops there.                                                         *)
LEMMA BrokenAlike ==
  ASSUME NEW rows, NEW other,
         DOMAIN rows \subseteq 1 .. MaxId, DOMAIN other \subseteq 1 .. MaxId,
         NEW i \in DOMAIN rows, i \in DOMAIN other, Older(rows, i) = Older(other, i),
         rows[i] = other[i], \A k \in Older(rows, i) : rows[k] = other[k]
  PROVE  BrokenAt(rows, i) <=> BrokenAt(other, i)
  <1>1. CASE Older(rows, i) = {} BY <1>1 DEF BrokenAt
  <1>2. CASE Older(rows, i) # {}
    <2>1. PICK m \in Older(rows, i) : \A k \in Older(rows, i) : k <= m BY <1>2, BeforeExists
    <2>2. Before(rows, i) = m BY <2>1, BeforeIs
    <2>3. Before(other, i) = m BY <2>1, BeforeIs
    <2> QED BY <2>2, <2>3 DEF BrokenAt
  <1> QED BY <1>1, <1>2

-----------------------------------------------------------------------------
(* What the HMAC of row i covers beside the row's predecessor.               *)
LinkOf(rows, i) == IF Legacy(i) THEN LegacyText(rows[i]) ELSE Text(rows[i])

(* Every row still carries its own hash, and no two rows the same: a hash    *)
(* grows with everything that is chained into it.                            *)
Intact ==
  /\ DOMAIN log \subseteq 1 .. MaxId
  /\ \A i \in DOMAIN log : log[i].hash = Append(log[i].prev, LinkOf(log, i))
  /\ \A i, j \in DOMAIN log : i < j => Len(log[i].hash) < Len(log[j].hash)

(* What is inserted from now on comes after the legacy rows.                 *)
PastLegacy ==
  /\ LegacyRows <= seq
  /\ \A w \in Writers : pc[w] = "commit" => pending[w] > LegacyRows

IntactInv == Intact /\ PastLegacy

LEMMA RowTypes ==
  ASSUME TypeOK, NEW i \in DOMAIN log
  PROVE  /\ log[i].event \in Words /\ log[i].target \in Seq(Words) /\ log[i].cipher \in Words
         /\ log[i].prev \in Hashes /\ log[i].hash \in Hashes
         /\ Len(log[i].hash) \in Nat
  <1>1. log[i] \in Rows BY DEF TypeOK
  <1> QED BY <1>1, TextAssumption DEF Rows, Hashes

LEMMA InitIntact == Init => IntactInv
  <1> SUFFICES ASSUME Init PROVE IntactInv OBVIOUS
  <1> USE BoundsAssumption
  <1>1. DOMAIN log = 1 .. LegacyRows /\ seq = LegacyRows BY DEF Init, LegacyLog
  <1>2. \A i \in 1 .. LegacyRows :
          /\ log[i].prev = LegacyHash(i - 1) /\ log[i].hash = LegacyHash(i)
          /\ LinkOf(log, i) = LegacyText(AnyEntry)
    BY DEF Init, LegacyLog, LinkOf, Legacy, LegacyText
  <1>3. \A n \in Nat : LegacyHash(n) \in Hashes /\ Len(LegacyHash(n)) = n
    <2> TAKE n \in Nat
    <2>1. LegacyHash(n) \in Hashes /\ DOMAIN LegacyHash(n) = 1 .. n
      BY LegacyHashType DEF LegacyHash
    <2> QED BY <2>1 DEF Hashes
  <1>4. ASSUME NEW i \in 1 .. LegacyRows
        PROVE  LegacyHash(i) = Append(LegacyHash(i - 1), LinkOf(log, i))
    <2> DEFINE link == LegacyText(AnyEntry)
    <2>1. LegacyHash(i) = [k \in 1 .. i |-> link]
          /\ LegacyHash(i - 1) = [k \in 1 .. i - 1 |-> link]
      BY DEF LegacyHash
    <2>2. link \in Texts BY AnyEntryType, EntryWords
    <2>3. Len(LegacyHash(i - 1)) = i - 1 /\ LegacyHash(i - 1) \in Seq(Texts)
      BY <1>3 DEF Hashes
    <2> HIDE DEF link
    <2>4. Append(LegacyHash(i - 1), link) = [k \in 1 .. i |-> link]
      BY <2>1, <2>2, <2>3
    <2>5. LinkOf(log, i) = link BY <1>2 DEF link
    <2>6. LegacyHash(i) = [k \in 1 .. i |-> link] BY <2>1
    <2> QED BY <2>4, <2>5, <2>6
  <1>5. Intact
    <2>1. \A i \in DOMAIN log : log[i].hash = Append(log[i].prev, LinkOf(log, i))
      BY <1>1, <1>2, <1>4
    <2>2. \A i \in DOMAIN log : Len(log[i].hash) = i BY <1>1, <1>2, <1>3
    <2> QED BY <1>1, <2>1, <2>2 DEF Intact
  <1>6. PastLegacy BY <1>1 DEF PastLegacy, Init
  <1> QED BY <1>5, <1>6 DEF IntactInv

LEMMA NextIntact ==
  ASSUME Inv, IdsBounded, IntactInv, [Next]_logvars
  PROVE  IntactInv'
  <1> USE DEF IntactInv
  <1>1. ASSUME NEW w \in Writers, Commit(w) PROVE IntactInv'
    <2> DEFINE n == pending[w]  row == RowOf(entry[w], prevHash[w])
    <2>0. pc[w] = "commit" /\ log' = Extended(w) /\ End(w) BY <1>1 DEF Commit
    <2>1. /\ n \in 1 .. seq /\ \A i \in DOMAIN log : i < n
          /\ n \in 1 .. MaxId /\ ~Legacy(n)
      BY <2>0, BoundsAssumption
      DEF Inv, TypeOK, PendingIsNewest, IdsBounded, PastLegacy, Legacy
    <2>2. /\ DOMAIN log' = DOMAIN log \cup {n}
          /\ log'[n] = row
          /\ \A i \in DOMAIN log : log'[i] = log[i]
      BY <2>0, <2>1 DEF Extended, Inv, TypeOK
    <2>3. entry[w] \in Entries /\ prevHash[w] \in Seq(Texts) BY DEF Inv, TypeOK, Hashes
    <2>4. row.hash = Append(prevHash[w], Text(entry[w])) /\ row.prev = prevHash[w]
          /\ Text(row) = Text(entry[w])
      BY DEF RowOf, entryHMAC, Text, LegacyText
    <2>5. Text(entry[w]) \in Texts BY <2>3, EntryWords
    <2>6. Len(row.hash) = Len(prevHash[w]) + 1 BY <2>3, <2>4, <2>5
    <2>7. \A i \in DOMAIN log : Len(log[i].hash) <= Len(prevHash[w])
      <3> SUFFICES ASSUME NEW i \in DOMAIN log PROVE Len(log[i].hash) <= Len(prevHash[w])
        OBVIOUS
      <3>1. PICK t \in DOMAIN log : Newest(log, t) BY DEF Inv, HasNewest
      <3>2. prevHash[w] = log[t].hash
        BY <2>0, <3>1, NewestUnique DEF Inv, TypeOK, PrevHashCurrent
      <3>3. Len(log[i].hash) \in Nat /\ Len(log[t].hash) \in Nat BY RowTypes DEF Inv
      <3>4. i = t \/ i < t BY <3>1 DEF Newest, Inv, TypeOK
      <3> QED BY <3>2, <3>3, <3>4 DEF Intact
    <2>8. \A i \in DOMAIN log : Len(log[i].hash) < Len(row.hash)
      BY <2>3, <2>6, <2>7, RowTypes DEF Inv
    <2> HIDE DEF row
    <2>9. \A i \in DOMAIN log' : log'[i].hash = Append(log'[i].prev, LinkOf(log', i))
      <3>1. LinkOf(log', n) = Text(entry[w])
        BY <2>1, <2>2, <2>4 DEF LinkOf, Legacy
      <3>2. ASSUME NEW i \in DOMAIN log PROVE LinkOf(log', i) = LinkOf(log, i)
        <4>1. log'[i] = log[i] BY <2>2
        <4> QED BY <4>1 DEF LinkOf, Legacy
      <3> QED BY <2>2, <2>4, <3>1, <3>2 DEF Intact
    <2>10. \A i, j \in DOMAIN log' : i < j => Len(log'[i].hash) < Len(log'[j].hash)
      <3> SUFFICES ASSUME NEW i \in DOMAIN log', NEW j \in DOMAIN log', i < j
                   PROVE  Len(log'[i].hash) < Len(log'[j].hash)
        OBVIOUS
      <3>1. i \in DOMAIN log BY <2>1, <2>2 DEF Inv, TypeOK
      <3> QED BY <2>2, <2>8, <3>1 DEF Intact
    <2>11. Intact' BY <2>1, <2>2, <2>9, <2>10 DEF Intact
    <2>12. PastLegacy' BY <2>0 DEF PastLegacy, End, Goto, Inv, TypeOK
    <2> QED BY <2>11, <2>12
  <1>2. ASSUME log' = log, PastLegacy' PROVE IntactInv' BY <1>2 DEF Intact, LinkOf, Legacy
  <1>3. ASSUME NEW w \in Writers, Insert(w) PROVE IntactInv'
    <2>1. PastLegacy' BY <1>3, BoundsAssumption DEF Insert, Goto, PastLegacy, Inv, TypeOK
    <2> QED BY <1>2, <1>3, <2>1 DEF Insert
  <1>4. ASSUME NEW w \in Writers, Rollback(w) PROVE IntactInv'
    <2>1. PastLegacy' BY <1>4 DEF Rollback, End, Goto, PastLegacy, Inv, TypeOK
    <2> QED BY <1>2, <1>4, <2>1 DEF Rollback
  <1>5. ASSUME NEW w \in Writers,
               (\E e \in Entries : LogBegin(w, e)) \/ AdvisoryLock(w) \/ ReadPrevHash(w)
        PROVE  IntactInv'
    <2>1. PastLegacy' /\ log' = log
      BY <1>5 DEF LogBegin, AdvisoryLock, ReadPrevHash, Goto, PastLegacy, Inv, TypeOK
    <2> QED BY <1>2, <2>1
  <1>6. CASE UNCHANGED logvars BY <1>2, <1>6 DEF logvars, PastLegacy
  <1> QED BY <1>1, <1>3, <1>4, <1>5, <1>6 DEF Next, Log

(* Every row carries its own hash whatever the transactions do.              *)
LEMMA IntactHolds == Spec => []IntactInv
  <1>1. Inv /\ IdsBounded /\ IntactInv /\ [Next]_logvars => IntactInv' BY NextIntact
  <1> QED BY Invariance, PendingBounded, InitIntact, <1>1, PTL DEF Spec

-----------------------------------------------------------------------------
LEMMA HonestRows ==
  ASSUME Inv, Intact, NEW i \in DOMAIN log
  PROVE  ~BrokenAt(log, i)
  <1>1. log[i].hash \in {entryHMAC(log[i], log[i].prev), legacyEntryHMAC(log[i], log[i].prev)}
    <2>1. log[i].hash = Append(log[i].prev, LinkOf(log, i)) BY DEF Intact
    <2>2. CASE Legacy(i)
      <3>1. LinkOf(log, i) = LegacyText(log[i]) BY <2>2 DEF LinkOf
      <3> QED BY <2>1, <3>1 DEF legacyEntryHMAC
    <2>3. CASE ~Legacy(i)
      <3>1. LinkOf(log, i) = Text(log[i]) BY <2>3 DEF LinkOf
      <3> QED BY <2>1, <3>1 DEF entryHMAC
    <2> QED BY <2>2, <2>3
  <1>2. CASE Older(log, i) = {} BY <1>1, <1>2 DEF BrokenAt
  <1>3. CASE Older(log, i) # {}
    <2>0. DOMAIN log \subseteq 1 .. MaxId BY DEF Intact
    <2>1. PICK m \in Older(log, i) : \A k \in Older(log, i) : k <= m
      BY <1>3, <2>0, BeforeExists
    <2>2. Before(log, i) = m BY <2>0, <2>1, BeforeIs
    <2>3. m \in DOMAIN log /\ m < i BY <2>1 DEF Older
    <2>4. \A k \in DOMAIN log : ~(m < k /\ k < i)
      BY <2>0, <2>1, <2>3, BoundsAssumption DEF Older
    <2>5. log[i].prev = log[m].hash BY <2>3, <2>4 DEF Inv, ChainLinked
    <2> QED BY <1>1, <2>2, <2>5 DEF BrokenAt
  <1> QED BY <1>2, <1>3

(* Verify never reports an honest log as damaged, whatever transactions      *)
(* overlapped, rolled back or left gaps in the ids, legacy rows included,    *)
(* and says "complete" exactly when its limit left no row out.               *)
THEOREM VerifyAlwaysAccepts == Spec => []VerifyAcceptsLog
  <1>1. ASSUME Inv, Intact PROVE VerifyAcceptsLog
    <2> SUFFICES ASSUME NEW limit \in 1 .. MaxId
                 PROVE  LET r == Verify(log, limit) n == Cardinality(DOMAIN log)
                        IN /\ r.ok
                           /\ r.checked = IF n <= limit THEN n ELSE limit
                           /\ r.complete <=> n <= limit
      BY DEF VerifyAcceptsLog
    <2> DEFINE walked == {i \in DOMAIN log : Cardinality(Older(log, i)) < limit}
               broken == {i \in walked : BrokenAt(log, i)}
               first == {i \in broken : \A j \in broken : i <= j}
               r == Verify(log, limit)
               n == Cardinality(DOMAIN log)
    <2>1. broken = {} BY <1>1, HonestRows
    <2>2. first = {} /\ {i \in walked : \A j \in first : i <= j} = walked BY <2>1
    <2>3. /\ r.ok <=> broken = {}
          /\ r.checked = Cardinality({i \in walked : \A j \in first : i <= j})
          /\ r.complete <=> (broken = {} /\ walked = DOMAIN log)
      BY DEF Verify
    <2>4. /\ Cardinality(walked) = IF n <= limit THEN n ELSE limit
          /\ walked = DOMAIN log <=> n <= limit
      <3>1. DOMAIN log \subseteq 1 .. MaxId BY <1>1 DEF Intact
      <3> QED BY <3>1, WalkCounted
    <2> HIDE DEF broken, first, walked, r, n
    <2>5. r.ok /\ r.checked = Cardinality(walked) /\ (r.complete <=> walked = DOMAIN log)
      BY <2>1, <2>2, <2>3
    <2>6. r.ok /\ r.checked = (IF n <= limit THEN n ELSE limit) /\ (r.complete <=> n <= limit)
      BY <2>4, <2>5
    <2> QED BY <2>6 DEF r, n
  <1>2. Inv /\ IntactInv => VerifyAcceptsLog BY <1>1 DEF IntactInv
  <1> QED BY Invariance, IntactHolds, <1>2, PTL

(* A full walk stops at the least broken row.                                *)
LEMMA FullWalk ==
  ASSUME NEW rows, DOMAIN rows \subseteq 1 .. MaxId
  PROVE  LET broken == {i \in DOMAIN rows : BrokenAt(rows, i)}
         IN /\ Verify(rows, MaxId).ok <=> broken = {}
            /\ Verify(rows, MaxId).brokenAt = {i \in broken : \A j \in broken : i <= j}
  <1>1. {i \in DOMAIN rows : Cardinality(Older(rows, i)) < MaxId} = DOMAIN rows BY AllWalked
  <1> QED BY <1>1 DEF Verify

(* A table with one row altered is honest below that row.                    *)
LEMMA HonestBelow ==
  ASSUME Inv, Intact, NEW rows, NEW i \in DOMAIN log, DOMAIN rows \subseteq DOMAIN log,
         \A k \in DOMAIN log : k < i => k \in DOMAIN rows /\ rows[k] = log[k],
         NEW j \in DOMAIN rows, j < i
  PROVE  ~BrokenAt(rows, j)
  <1>1. DOMAIN log \subseteq 1 .. MaxId /\ DOMAIN rows \subseteq 1 .. MaxId BY DEF Intact
  <1>2. \A k \in DOMAIN log : k < j => k < i BY <1>1, BoundsAssumption
  <1>3. Older(rows, j) = Older(log, j) BY <1>2 DEF Older
  <1>4. rows[j] = log[j] /\ \A k \in Older(rows, j) : rows[k] = log[k] BY <1>2 DEF Older
  <1> QED BY <1>1, <1>3, <1>4, BrokenAlike, HonestRows

LEMMA AppendedDiffers ==
  ASSUME NEW p \in Hashes, NEW x, NEW y, x # y
  PROVE  Append(p, x) # Append(p, y)
  <1>1. Append(p, x)[Len(p) + 1] = x /\ Append(p, y)[Len(p) + 1] = y BY DEF Hashes
  <1> QED BY <1>1

(* Texts of as many words differ when the columns do, and the two formulas   *)
(* never join to the same text.                                              *)
LEMMA TextsDiffer ==
  ASSUME NEW r, r.event \in Words, r.target \in Seq(Words), r.cipher \in Words,
         NEW c \in Reworded(r)
  PROVE  /\ Text(r) # LegacyText(c) /\ LegacyText(r) # Text(c)
         /\ <<r.event, r.target>> # <<c.event, c.target>> => LegacyText(r) # LegacyText(c)
         /\ <<r.event, r.target, r.cipher>> # <<c.event, c.target, c.cipher>> => Text(r) # Text(c)
  <1> DEFINE n == Len(r.target)
  <1>0. n \in Nat /\ r.target \in [1 .. n -> Words] /\ Len(r.target) = n OBVIOUS
  <1>1. /\ c.event \in Words /\ c.cipher \in Words
        /\ c.target \in [1 .. n -> Words]
    BY DEF Reworded
  <1> HIDE DEF n
  <1>2. c.target \in Seq(Words) BY <1>0, <1>1, SeqDef
  <1>3. Len(c.target) = n BY <1>0, <1>1, <1>2
  <1>4. /\ Len(LegacyText(r)) = n + 1 /\ Len(Text(r)) = n + 2
        /\ Len(LegacyText(c)) = n + 1 /\ Len(Text(c)) = n + 2
    BY <1>0, <1>1, <1>2, <1>3, LegacyTextOf, TextOf
  <1>5. Text(r) # LegacyText(c) /\ LegacyText(r) # Text(c) BY <1>0, <1>4
  <1>6. ASSUME LegacyText(r) = LegacyText(c)
        PROVE  r.event = c.event /\ r.target = c.target
    <2>1. LegacyText(r)[1] = r.event /\ LegacyText(c)[1] = c.event
      BY <1>1, <1>2, LegacyTextOf
    <2>2. \A k \in 1 .. n : LegacyText(r)[k + 1] = r.target[k] /\ LegacyText(c)[k + 1] = c.target[k]
      BY <1>0, <1>1, <1>2, <1>3, LegacyTextOf
    <2>3. \A k \in 1 .. n : r.target[k] = c.target[k] BY <1>6, <2>2
    <2> QED BY <1>0, <1>1, <1>6, <2>1, <2>3
  <1>7. ASSUME Text(r) = Text(c)
        PROVE  LegacyText(r) = LegacyText(c) /\ r.cipher = c.cipher
    <2>1. Text(r)[n + 2] = r.cipher /\ Text(c)[n + 2] = c.cipher
      BY <1>0, <1>1, <1>2, <1>3, TextOf
    <2>2. \A k \in 1 .. n + 1 : Text(r)[k] = LegacyText(r)[k] /\ Text(c)[k] = LegacyText(c)[k]
      BY <1>0, <1>1, <1>2, <1>3, TextOf
    <2>3. \A k \in 1 .. n + 1 : LegacyText(r)[k] = LegacyText(c)[k] BY <1>7, <2>2
    <2>4. LegacyText(r) \in Seq(Words) /\ LegacyText(c) \in Seq(Words)
      BY <1>1, <1>2, LegacyTextOf DEF Texts
    <2>5. LegacyText(r) = LegacyText(c)
      <3> DEFINE x == LegacyText(r)  y == LegacyText(c)
      <3>1. x \in Seq(Words) /\ y \in Seq(Words) /\ Len(x) = n + 1 /\ Len(y) = n + 1
            /\ \A k \in 1 .. n + 1 : x[k] = y[k]
        BY <1>4, <2>3, <2>4
      <3> HIDE DEF x, y
      <3>2. x = y BY <3>1, <1>0
      <3> QED BY <3>2 DEF x, y
    <2> QED BY <1>7, <2>1, <2>5
  <1> QED BY <1>5, <1>6, <1>7

LEMMA AlteredIsBroken ==
  ASSUME Inv, Intact, NEW i \in DOMAIN log, NEW rows \in Altered(i)
  PROVE  /\ DOMAIN rows = DOMAIN log
         /\ \A k \in DOMAIN log \ {i} : rows[k] = log[k]
         /\ BrokenAt(rows, i)
  <1> DEFINE row == log[i]
  <1>1. /\ row.event \in Words /\ row.target \in Seq(Words) /\ row.cipher \in Words
        /\ row.prev \in Hashes /\ row.hash \in Hashes
    BY RowTypes DEF Inv
  <1>2. row.hash = Append(row.prev, LinkOf(log, i)) BY DEF Intact
  <1>3. row = [event |-> row.event, target |-> row.target, cipher |-> row.cipher,
               prev |-> row.prev, hash |-> row.hash]
    BY DEF Inv, TypeOK, Rows
  <1>4. CASE \E r \in Reworded(row) :
               /\ Covered(i, r) # Covered(i, row)
               /\ rows = [log EXCEPT ![i].event = r.event, ![i].target = r.target,
                                     ![i].cipher = r.cipher]
    <2>1. PICK r \in Reworded(row) :
            /\ Covered(i, r) # Covered(i, row)
            /\ rows = [log EXCEPT ![i].event = r.event, ![i].target = r.target,
                                  ![i].cipher = r.cipher]
      BY <1>4
    <2>2. /\ DOMAIN rows = DOMAIN log /\ \A k \in DOMAIN log \ {i} : rows[k] = log[k]
          /\ rows[i].event = r.event /\ rows[i].target = r.target /\ rows[i].cipher = r.cipher
          /\ rows[i].prev = row.prev /\ rows[i].hash = row.hash
      BY <1>3, <2>1
    <2>3. Text(rows[i]) = Text(r) /\ LegacyText(rows[i]) = LegacyText(r)
      BY <2>2 DEF Text, LegacyText
    <2>4. LinkOf(log, i) # Text(r) /\ LinkOf(log, i) # LegacyText(r)
      <3> HIDE DEF row
      <3>1. CASE Legacy(i)
        BY <1>1, <2>1, <3>1, TextsDiffer DEF LinkOf, Covered, row
      <3>2. CASE ~Legacy(i)
        BY <1>1, <2>1, <3>2, TextsDiffer DEF LinkOf, Covered, row
      <3> QED BY <3>1, <3>2
    <2>5. row.hash # entryHMAC(rows[i], row.prev) /\ row.hash # legacyEntryHMAC(rows[i], row.prev)
      BY <1>1, <1>2, <2>3, <2>4, AppendedDiffers DEF entryHMAC, legacyEntryHMAC
    <2> QED BY <2>2, <2>5 DEF BrokenAt
  <1>5. CASE \E j \in DOMAIN log \ {i} : rows = [log EXCEPT ![i].hash = log[j].hash]
    <2>1. PICK j \in DOMAIN log \ {i} : rows = [log EXCEPT ![i].hash = log[j].hash] BY <1>5
    <2>2. /\ DOMAIN rows = DOMAIN log /\ \A k \in DOMAIN log \ {i} : rows[k] = log[k]
          /\ rows[i].prev = row.prev /\ rows[i].hash = log[j].hash
      BY <1>3, <2>1
    <2>3. Len(log[j].hash) # Len(row.hash)
      <3>1. i < j \/ j < i BY BoundsAssumption, <2>1 DEF Intact
      <3>2. Len(log[j].hash) \in Nat /\ Len(row.hash) \in Nat BY RowTypes, <2>1 DEF Inv
      <3> QED BY <2>1, <3>1, <3>2 DEF Intact
    <2>4. \A x : Len(Append(row.prev, x)) = Len(row.prev) + 1 BY <1>1 DEF Hashes
    <2>5. Len(row.hash) = Len(row.prev) + 1 BY <1>2, <2>4
    <2>6. \A x : log[j].hash # Append(row.prev, x) BY <2>3, <2>4, <2>5
    <2> QED BY <2>2, <2>6 DEF BrokenAt, entryHMAC, legacyEntryHMAC
  <1> QED BY <1>4, <1>5 DEF Altered

(* The row after a missing one links to a hash that is no longer there.      *)
LEMMA GapIsBroken ==
  ASSUME Inv, Intact, NEW i \in DOMAIN log, Older(log, i) # {},
         NEW f \in DOMAIN log, i < f, \A k \in DOMAIN log : i < k => f <= k
  PROVE  /\ f \in DOMAIN Without(log, i)
         /\ BrokenAt(Without(log, i), f)
         /\ Older(log, f) = Older(log, i) \cup {i}
  <1> DEFINE rows == Without(log, i)
  <1>1. DOMAIN log \subseteq 1 .. MaxId BY DEF Intact
  <1>2. /\ DOMAIN rows = DOMAIN log \ {i} /\ \A k \in DOMAIN rows : rows[k] = log[k]
    BY DEF Without
  <1>3. Older(log, f) = Older(log, i) \cup {i} BY <1>1, BoundsAssumption DEF Older
  <1>4. Older(rows, f) = Older(log, i) BY <1>1, <1>2, <1>3, BoundsAssumption DEF Older
  <1>5. PICK m \in Older(log, i) : \A k \in Older(log, i) : k <= m BY <1>1, BeforeExists
  <1>6. f \in DOMAIN rows /\ DOMAIN rows \subseteq 1 .. MaxId
    BY <1>1, <1>2, BoundsAssumption
  <1>7. Before(rows, f) = m
    <2> HIDE DEF rows
    <2> QED BY <1>4, <1>5, <1>6, BeforeIs
  <1>8. log[f].prev = log[i].hash
    <2>1. \A k \in DOMAIN log : ~(i < k /\ k < f) BY <1>1, BoundsAssumption
    <2> QED BY <2>1 DEF Inv, ChainLinked
  <1>9. log[m].hash # log[i].hash
    <2>1. m \in DOMAIN log /\ m < i BY <1>5 DEF Older
    <2>2. Len(log[m].hash) < Len(log[i].hash) BY <2>1 DEF Intact
    <2>3. Len(log[i].hash) \in Nat BY RowTypes DEF Inv
    <2> QED BY <2>2, <2>3
  <1>10. rows[f].prev # rows[Before(rows, f)].hash
    <2>1. m \in DOMAIN rows BY <1>2, <1>5, <1>1, BoundsAssumption DEF Older
    <2> HIDE DEF rows
    <2> QED BY <1>2, <1>6, <1>7, <1>8, <1>9, <2>1
  <1>11. Older(rows, f) # {} BY <1>4
  <1> HIDE DEF rows
  <1>12. BrokenAt(rows, f) BY <1>10, <1>11 DEF BrokenAt
  <1> QED BY <1>3, <1>6, <1>12 DEF rows

(* An altered row is reported at that very row, a missing one at the row     *)
(* that followed it, in every log the transactions can produce: what the     *)
(* comment on Verify promises.                                               *)
THEOREM VerifyAlwaysDetects == Spec => []VerifyDetectsDamage
  <1>1. ASSUME Inv, Intact, NEW i \in DOMAIN log, NEW rows \in Altered(i)
        PROVE  Verify(rows, MaxId).brokenAt = {i}
    <2> DEFINE broken == {j \in DOMAIN rows : BrokenAt(rows, j)}
    <2>1. /\ DOMAIN rows = DOMAIN log /\ \A k \in DOMAIN log \ {i} : rows[k] = log[k]
          /\ BrokenAt(rows, i)
      BY <1>1, AlteredIsBroken
    <2>2. DOMAIN rows \subseteq 1 .. MaxId BY <1>1, <2>1 DEF Intact
    <2>3. ASSUME NEW j \in broken PROVE i <= j
      <3>1. j \in DOMAIN rows /\ BrokenAt(rows, j) BY <2>3
      <3>2. i \in Int /\ j \in Int /\ \A k \in DOMAIN log : k < i => k # i
        BY <1>1, <2>1, <2>2, <3>1, BoundsAssumption DEF Intact
      <3>3. ~(j < i) BY <1>1, <2>1, <3>1, <3>2, HonestBelow
      <3> QED BY <3>2, <3>3
    <2>4. i \in broken BY <1>1, <2>1
    <2>5. \A j \in broken : j \in Int BY <2>2, BoundsAssumption
    <2>6. Verify(rows, MaxId).brokenAt = {j \in broken : \A k \in broken : j <= k}
      BY <2>2, FullWalk
    <2> HIDE DEF broken
    <2> QED BY <2>3, <2>4, <2>5, <2>6
  <1>2. ASSUME Inv, Intact, NEW i \in DOMAIN log, Older(log, i) # {}, ~Newest(log, i)
        PROVE  LET r == Verify(Without(log, i), MaxId)
               IN ~r.ok /\ \A j \in r.brokenAt : Older(log, j) = Older(log, i) \cup {i}
    <2> DEFINE rows == Without(log, i)
               broken == {j \in DOMAIN rows : BrokenAt(rows, j)}
               above == {k \in DOMAIN log : i < k}
    <2>1. DOMAIN log \subseteq 1 .. MaxId /\ \A k \in DOMAIN log : k \in Int
      BY <1>2, BoundsAssumption DEF Intact
    <2>2. above # {} /\ above \in SUBSET (0 .. MaxId)
      BY <1>2, <2>1, BoundsAssumption DEF Newest
    <2>3. \E f \in above : \A k \in above : f <= k
      <3> HIDE DEF above
      <3> QED BY <2>2, LeastOf, BoundsAssumption
    <2>4. PICK f \in DOMAIN log : i < f /\ \A k \in DOMAIN log : i < k => f <= k BY <2>3
    <2>5. /\ f \in DOMAIN rows /\ BrokenAt(rows, f)
          /\ Older(log, f) = Older(log, i) \cup {i}
      BY <1>2, <2>4, GapIsBroken
    <2>6. /\ DOMAIN rows = DOMAIN log \ {i} /\ \A k \in DOMAIN rows : rows[k] = log[k]
          /\ DOMAIN rows \subseteq 1 .. MaxId
      BY <2>1 DEF Without
    <2> HIDE DEF rows
    <2>7. /\ Verify(rows, MaxId).ok <=> broken = {}
          /\ Verify(rows, MaxId).brokenAt = {j \in broken : \A k \in broken : j <= k}
      BY <2>6, FullWalk
    <2>8. ASSUME NEW j \in broken, \A k \in broken : j <= k PROVE j = f
      <3>1. j \in DOMAIN log /\ j # i /\ BrokenAt(rows, j) /\ j \in DOMAIN rows BY <2>6, <2>8
      <3>2. \A k \in DOMAIN log : k < i => k \in DOMAIN rows /\ rows[k] = log[k]
        BY <2>1, <2>6
      <3>3. ~(j < i)
        <4>1. DOMAIN rows \subseteq DOMAIN log BY <2>6
        <4> QED BY <1>2, <3>1, <3>2, <4>1, HonestBelow
      <3>4. i < j BY <2>1, <3>1, <3>3
      <3>5. j <= f BY <2>5, <2>8
      <3>6. f <= j BY <2>4, <3>1, <3>4
      <3> QED BY <2>1, <3>1, <3>5, <3>6
    <2>9. broken # {} BY <2>5
    <2> HIDE DEF broken
    <2>10. ~Verify(rows, MaxId).ok BY <2>7, <2>9
    <2>11. \A j \in Verify(rows, MaxId).brokenAt : j = f BY <2>7, <2>8
    <2> QED BY <2>5, <2>10, <2>11 DEF rows
  <1>3. Inv /\ IntactInv => VerifyDetectsDamage
    BY <1>1, <1>2 DEF IntactInv, VerifyDetectsDamage
  <1> QED BY Invariance, IntactHolds, <1>3, PTL

-----------------------------------------------------------------------------
(* The page: an admin paging through the log while it grows.                 *)

Requests == [state : {"none", "scan", "answered"}, filter : Filters, before : Nat,
             scanned : Nat, results : Seq(Nat), capped : BOOLEAN]

(* Ids of rows that exist, newest first.                                     *)
Listed(page) ==
  /\ page \in Seq(Nat)
  /\ IdsOf(page) \subseteq DOMAIN log
  /\ \A m, n \in 1 .. Len(page) : m < n => page[m] > page[n]

(* A row the request has to answer for: "load more" for all that is older    *)
(* than the list, a first page for all that is older than its newest row.    *)
Due(c, r, i) ==
  /\ i \in DOMAIN log /\ Matches(r.filter, log[i])
  /\ IF c = "loadMore" THEN i < cursor ELSE \E k \in IdsOf(r.results) : i <= k

(* While it scans, List has found all it is due down to its position ...     *)
Scanning(c, r) ==
  /\ r.before = 0 => r.results = << >> /\ c = "runQuery"
  /\ c = "loadMore" => r.before <= cursor
  /\ \A i \in IdsOf(r.results) : r.before <= i
  /\ r.filter = "all" => r.results = << >>
  /\ \A i \in DOMAIN log : Due(c, r, i) /\ r.before <= i => i \in IdsOf(r.results)

(* ... and its answer is complete down to its last row, or to the oldest row *)
(* of the log when it is not a full page and the cap did not end it.         *)
Answered(c, r) ==
  \A i \in DOMAIN log :
    (/\ Due(c, r, i)
     /\ (\E j \in IdsOf(r.results) : j < i) \/ (Len(r.results) < PageSize /\ ~r.capped))
      => i \in IdsOf(r.results)

RequestInv(c, r) ==
  r.state # "none" =>
    /\ Listed(r.results) /\ Len(r.results) <= PageSize
    /\ c = "loadMore" => \A i \in IdsOf(r.results) : i < cursor
    /\ r.state = "scan" => Scanning(c, r)
    /\ r.state = "answered" => Answered(c, r)

(* One request at a time, for the filter on screen; the cursor is where the  *)
(* list ends.                                                                *)
PageState ==
  /\ request \in [Callers -> Requests]
  /\ filter \in Filters /\ cursor \in Nat
  /\ fetching <=> \E c \in Callers : request[c].state # "none"
  /\ request["runQuery"].state = "none" \/ request["loadMore"].state = "none"
  /\ \A c \in Callers : request[c].state # "none" =>
       request[c].filter = filter /\ (cursor = 0 <=> c = "runQuery")
  /\ cursor # 0 =>
       entries # << >> /\ cursor = entries[Len(entries)] /\ loadedFor = filter

(* What hasMore says of the list, whether the button is drawn or not.        *)
NoMoreIsEnd ==
  (entries # << >> /\ ~hasMore /\ ~capped) =>
    \A i \in DOMAIN log : (i < entries[1] /\ Matches(loadedFor, log[i])) => i \in Shown

PageInv ==
  /\ PageState
  /\ Listed(entries)
  /\ GapFreeWindow /\ NoMoreIsEnd
  /\ \A c \in Callers : RequestInv(c, request[c])

-----------------------------------------------------------------------------
(* How many members of a bounded set lie above a member tells its place, so  *)
(* Descending lists every member once, the greatest first.                   *)
Above(ids, i) == {j \in ids : j > i}

LEMMA AboveCounted ==
  ASSUME NEW N \in Nat, NEW ids \in SUBSET (0 .. N)
  PROVE  /\ IsFiniteSet(ids) /\ Cardinality(ids) \in Nat
         /\ \A i \in ids : /\ IsFiniteSet(Above(ids, i))
                           /\ Cardinality(Above(ids, i)) \in 0 .. Cardinality(ids) - 1
         /\ \A i, k \in ids :
              i < k => Cardinality(Above(ids, k)) < Cardinality(Above(ids, i))
  <1>1. IsFiniteSet(ids) /\ Cardinality(ids) \in Nat
    <2>1. IsFiniteSet(0 .. N) BY FS_Interval
    <2> QED BY <2>1, FS_Subset, FS_CardinalityType
  <1>2. ASSUME NEW i \in ids
        PROVE  IsFiniteSet(Above(ids, i)) /\ Cardinality(Above(ids, i)) \in 0 .. Cardinality(ids) - 1
    <2>1. Above(ids, i) \in SUBSET ids /\ i \notin Above(ids, i) BY DEF Above
    <2>2. IsFiniteSet(Above(ids, i)) /\ Cardinality(Above(ids, i)) <= Cardinality(ids)
      BY <1>1, <2>1, FS_Subset
    <2>3. Cardinality(Above(ids, i)) # Cardinality(ids) BY <1>1, <2>1, FS_Subset
    <2>4. Cardinality(Above(ids, i)) \in Nat BY <2>2, FS_CardinalityType
    <2> QED BY <1>1, <2>2, <2>3, <2>4
  <1>3. ASSUME NEW i \in ids, NEW k \in ids, i < k
        PROVE  Cardinality(Above(ids, k)) < Cardinality(Above(ids, i))
    <2>1. \A j \in ids : j \in Int OBVIOUS
    <2>2. Above(ids, k) \in SUBSET Above(ids, i)
      <3>1. \A j \in ids : j > k => j > i BY <1>3, <2>1
      <3> QED BY <3>1 DEF Above
    <2>3. k \in Above(ids, i) /\ k \notin Above(ids, k) BY <1>3, <2>1 DEF Above
    <2>4. /\ Cardinality(Above(ids, k)) <= Cardinality(Above(ids, i))
          /\ Cardinality(Above(ids, k)) # Cardinality(Above(ids, i))
      BY <1>2, <2>2, <2>3, FS_Subset
    <2>5. Cardinality(Above(ids, k)) \in Nat /\ Cardinality(Above(ids, i)) \in Nat BY <1>2
    <2> QED BY <2>4, <2>5
  <1> QED BY <1>1, <1>2, <1>3

LEMMA DescendingLists ==
  ASSUME NEW N \in Nat, NEW ids \in SUBSET (0 .. N)
  PROVE  /\ Descending(ids) \in Seq(Nat)
         /\ Len(Descending(ids)) = Cardinality(ids)
         /\ IdsOf(Descending(ids)) = ids
         /\ \A m, n \in 1 .. Len(Descending(ids)) :
              m < n => Descending(ids)[m] > Descending(ids)[n]
  <1> DEFINE size == Cardinality(ids)
             rank(i) == Cardinality(Above(ids, i))
             f == [i \in ids |-> rank(i)]
             d == Descending(ids)
  <1>1. /\ IsFiniteSet(ids) /\ size \in Nat
        /\ \A i \in ids : rank(i) \in 0 .. size - 1
        /\ \A i, k \in ids : i < k => rank(k) < rank(i)
    BY AboveCounted
  <1>2. \A i \in ids : i \in Nat OBVIOUS
  <1> HIDE DEF rank
  <1>3. \A i, k \in ids : rank(i) = rank(k) => i = k
    <2> SUFFICES ASSUME NEW i \in ids, NEW k \in ids, rank(i) = rank(k) PROVE i = k OBVIOUS
    <2>1. ~(i < k) /\ ~(k < i) BY <1>1
    <2> QED BY <1>2, <2>1
  <1>4. \A n \in 1 .. size : \E i \in ids : rank(i) = n - 1
    <2>1. IsFiniteSet(0 .. size - 1) /\ Cardinality(0 .. size - 1) = size
      BY <1>1, FS_Interval, SMTT(30)
    <2>2. f \in Injection(ids, 0 .. size - 1) BY <1>1, <1>3 DEF Injection, IsInjective
    <2>3. f \in Surjection(ids, 0 .. size - 1) BY <2>1, <2>2, FS_Injection
    <2>4. \A r \in 0 .. size - 1 : \E i \in ids : f[i] = r BY <2>3 DEF Surjection
    <2> QED BY <1>1, <2>4
  <1>5. \A n \in 1 .. size : d[n] \in ids /\ rank(d[n]) = n - 1
    <2> TAKE n \in 1 .. size
    <2>1. d[n] = CHOOSE i \in ids : rank(i) = n - 1 BY DEF Descending, rank, Above
    <2> HIDE DEF d
    <2> QED BY <1>4, <2>1
  <1>6. d \in [1 .. size -> Nat] BY <1>2, <1>5 DEF Descending
  <1> HIDE DEF d, size
  <1>7. d \in Seq(Nat) /\ Len(d) = size BY <1>1, <1>6
  <1>8. ASSUME NEW m \in 1 .. size, NEW n \in 1 .. size, m < n PROVE d[m] > d[n]
    <2>1. d[m] \in ids /\ d[n] \in ids /\ rank(d[m]) = m - 1 /\ rank(d[n]) = n - 1 BY <1>5
    <2>2. m \in Int /\ n \in Int BY <1>1
    <2>3. rank(d[m]) < rank(d[n]) BY <1>8, <2>1, <2>2
    <2>4. ASSUME NEW i \in ids, NEW k \in ids, rank(i) < rank(k) PROVE i > k
      <3>1. rank(i) \in Int /\ rank(k) \in Int BY <1>1
      <3>2. ~(i < k) /\ i # k BY <1>1, <2>4, <3>1
      <3> QED BY <1>2, <3>2
    <2> QED BY <2>1, <2>3, <2>4
  <1>9. IdsOf(d) = ids
    <2>1. IdsOf(d) = {d[n] : n \in 1 .. size} BY <1>7 DEF IdsOf
    <2>2. ASSUME NEW i \in ids PROVE \E n \in 1 .. size : d[n] = i
      <3>1. rank(i) + 1 \in 1 .. size BY <1>1
      <3>2. rank(d[rank(i) + 1]) = rank(i) /\ d[rank(i) + 1] \in ids BY <1>1, <1>5, <3>1
      <3> QED BY <1>3, <3>1, <3>2
    <2> QED BY <1>5, <2>1, <2>2
  <1> QED BY <1>7, <1>8, <1>9 DEF d, size

(* LIMIT keeps the newest ones, as many as it may.                           *)
LEMMA NewestOnes ==
  ASSUME NEW N \in Nat, NEW ids \in SUBSET (0 .. N), NEW limit \in Nat \ {0}
  PROVE  /\ Newer(ids, limit) \subseteq ids
         /\ \A i \in ids : (\E j \in Newer(ids, limit) : j <= i) => i \in Newer(ids, limit)
         /\ Cardinality(Newer(ids, limit)) <= limit
         /\ Cardinality(Newer(ids, limit)) < limit => Newer(ids, limit) = ids
  <1> DEFINE new == Newer(ids, limit)
             left == ids \ new
  <1>1. new = {i \in ids : Cardinality(Above(ids, i)) < limit} BY DEF Newer, Above
  <1>2. /\ IsFiniteSet(ids)
        /\ \A i \in ids : /\ IsFiniteSet(Above(ids, i))
                          /\ Cardinality(Above(ids, i)) \in Nat
        /\ \A i, k \in ids : i < k => Cardinality(Above(ids, k)) < Cardinality(Above(ids, i))
    <2>1. /\ IsFiniteSet(ids) /\ Cardinality(ids) \in Nat
          /\ \A i \in ids : /\ IsFiniteSet(Above(ids, i))
                            /\ Cardinality(Above(ids, i)) \in 0 .. Cardinality(ids) - 1
          /\ \A i, k \in ids :
               i < k => Cardinality(Above(ids, k)) < Cardinality(Above(ids, i))
      BY AboveCounted
    <2>2. \A i \in ids : Cardinality(Above(ids, i)) \in Nat BY <2>1
    <2> QED BY <2>1, <2>2
  <1>3. \A i \in ids : i \in Nat OBVIOUS
  <1> HIDE DEF new
  <1>4. new \subseteq ids /\ IsFiniteSet(new) /\ Cardinality(new) \in Nat
    BY <1>1, <1>2, FS_Subset, FS_CardinalityType
  <1>5. ASSUME NEW i \in ids, NEW j \in new, j <= i PROVE i \in new
    <2>1. j \in ids /\ Cardinality(Above(ids, j)) < limit BY <1>1
    <2>2. i = j \/ j < i BY <1>3, <1>5, <2>1
    <2>3. Cardinality(Above(ids, i)) < limit BY <1>2, <2>1, <2>2
    <2> QED BY <1>1, <2>3
  <1>6. Cardinality(new) <= limit
    <2>1. CASE new = {} BY <2>1, FS_EmptySet
    <2>2. CASE new # {}
      <3>1. new \in SUBSET (0 .. N) BY <1>4
      <3>2. PICK m \in new : \A n \in new : m <= n BY <2>2, <3>1, LeastOf
      <3>3. m \in ids /\ Cardinality(Above(ids, m)) < limit BY <1>1
      <3>4. new \subseteq Above(ids, m) \cup {m} BY <1>3, <1>4, <3>2 DEF Above
      <3>5. m \notin Above(ids, m) BY <1>3, <3>3 DEF Above
      <3>6. /\ IsFiniteSet(Above(ids, m) \cup {m})
            /\ Cardinality(Above(ids, m) \cup {m}) = Cardinality(Above(ids, m)) + 1
        BY <1>2, <3>3, <3>5, FS_AddElement
      <3>7. Cardinality(new) <= Cardinality(Above(ids, m)) + 1 BY <3>4, <3>6, FS_Subset
      <3> QED BY <1>2, <1>4, <3>3, <3>7
    <2> QED BY <2>1, <2>2
  <1>7. ASSUME new # ids PROVE ~(Cardinality(new) < limit)
    <2>1. left \in SUBSET (0 .. N) /\ left # {} BY <1>4, <1>7
    <2>2. \E g \in left : \A n \in left : n <= g
      <3> HIDE DEF left
      <3> QED BY <2>1, GreatestOf
    <2>3. PICK g \in ids : g \notin new /\ \A n \in ids : n \notin new => n <= g BY <2>2
    <2>4. Above(ids, g) \subseteq new
      <3>1. \A n \in ids : n > g => ~(n <= g) BY <1>3
      <3> QED BY <2>3, <3>1 DEF Above
    <2>5. ~(Cardinality(Above(ids, g)) < limit) BY <1>1, <2>3
    <2>6. Cardinality(Above(ids, g)) <= Cardinality(new) BY <1>4, <2>4, FS_Subset
    <2> QED BY <1>2, <1>4, <2>3, <2>5, <2>6
  <1> QED BY <1>4, <1>5, <1>6, <1>7 DEF new

-----------------------------------------------------------------------------
(* Pages as sequences.                                                       *)

LEMMA EmptyPage == Listed(<< >>) /\ IdsOf(<< >>) = {} /\ Len(<< >>) = 0
  BY EmptySeq DEF Listed, IdsOf

(* The last row of a page is its oldest.                                     *)
LEMMA LastIsOldest ==
  ASSUME NEW page, Listed(page), page # << >>
  PROVE  /\ Len(page) \in Nat \ {0} /\ page[Len(page)] \in IdsOf(page)
         /\ \A i \in IdsOf(page) : page[Len(page)] <= i
  <1>1. page \in Seq(Nat) /\ Len(page) \in Nat \ {0} BY DEF Listed
  <1>2. page[Len(page)] \in IdsOf(page) BY <1>1 DEF IdsOf
  <1>3. ASSUME NEW i \in IdsOf(page) PROVE page[Len(page)] <= i
    <2>1. PICK n \in 1 .. Len(page) : i = page[n] BY <1>3 DEF IdsOf
    <2>2. page[n] \in Nat /\ page[Len(page)] \in Nat BY <1>1
    <2>3. n = Len(page) \/ n < Len(page) BY <1>1
    <2>4. n < Len(page) => page[n] > page[Len(page)] BY <1>1 DEF Listed
    <2> QED BY <2>1, <2>2, <2>3, <2>4
  <1> QED BY <1>1, <1>2, <1>3

LEMMA JoinedPages ==
  ASSUME NEW a, NEW b, Listed(a), Listed(b),
         \A i \in IdsOf(a), j \in IdsOf(b) : j < i
  PROVE  /\ Listed(a \o b) /\ IdsOf(a \o b) = IdsOf(a) \cup IdsOf(b)
         /\ Len(a \o b) = Len(a) + Len(b)
         /\ b # << >> => (a \o b)[Len(a \o b)] = b[Len(b)]
         /\ b = << >> => a \o b = a
         /\ a # << >> => (a \o b)[1] = a[1]
  <1> DEFINE c == a \o b
  <1>1. a \in Seq(Nat) /\ b \in Seq(Nat) /\ Len(a) \in Nat /\ Len(b) \in Nat BY DEF Listed
  <1>2. /\ c \in Seq(Nat) /\ Len(c) = Len(a) + Len(b)
        /\ \A n \in 1 .. Len(a) : c[n] = a[n]
        /\ \A n \in 1 .. Len(b) : c[Len(a) + n] = b[n]
    BY <1>1
  <1>3. b = << >> => c = a BY <1>1
  <1> HIDE DEF c
  <1>4. \A n \in 1 .. Len(c) : n \in 1 .. Len(a) \/ \E k \in 1 .. Len(b) : n = Len(a) + k
    <2> TAKE n \in 1 .. Len(c)
    <2>1. n \notin 1 .. Len(a) => n - Len(a) \in 1 .. Len(b) /\ n = Len(a) + (n - Len(a))
      BY <1>1, <1>2
    <2> QED BY <2>1
  <1>5. IdsOf(c) = IdsOf(a) \cup IdsOf(b)
    <2>1. ASSUME NEW i \in IdsOf(c) PROVE i \in IdsOf(a) \cup IdsOf(b)
      <3>1. PICK n \in 1 .. Len(c) : i = c[n] BY <2>1 DEF IdsOf
      <3>2. CASE n \in 1 .. Len(a) BY <1>2, <3>1, <3>2 DEF IdsOf
      <3>3. CASE \E k \in 1 .. Len(b) : n = Len(a) + k
        <4>1. PICK k \in 1 .. Len(b) : n = Len(a) + k BY <3>3
        <4>2. i = b[k] BY <1>2, <3>1, <4>1
        <4> QED BY <4>2 DEF IdsOf
      <3> QED BY <1>4, <3>2, <3>3
    <2>2. IdsOf(a) \subseteq IdsOf(c)
      <3>1. \A n \in 1 .. Len(a) : n \in 1 .. Len(c) BY <1>1, <1>2
      <3> QED BY <1>2, <3>1 DEF IdsOf
    <2>3. IdsOf(b) \subseteq IdsOf(c)
      <3>1. \A n \in 1 .. Len(b) : Len(a) + n \in 1 .. Len(c) BY <1>1, <1>2
      <3> QED BY <1>2, <3>1 DEF IdsOf
    <2> QED BY <2>1, <2>2, <2>3
  <1>6. ASSUME NEW m \in 1 .. Len(c), NEW n \in 1 .. Len(c), m < n PROVE c[m] > c[n]
    <2>1. CASE m \in 1 .. Len(a) /\ n \in 1 .. Len(a)
      BY <1>2, <1>6, <2>1 DEF Listed
    <2>2. CASE m \in 1 .. Len(a) /\ \E k \in 1 .. Len(b) : n = Len(a) + k
      <3>1. PICK k \in 1 .. Len(b) : n = Len(a) + k BY <2>2
      <3>2. c[m] \in IdsOf(a) /\ c[n] \in IdsOf(b) BY <1>2, <2>2, <3>1 DEF IdsOf
      <3>3. c[m] \in Nat /\ c[n] \in Nat BY <1>2, SMTT(30)
      <3> QED BY <3>2, <3>3
    <2>3. CASE (\E k \in 1 .. Len(b) : m = Len(a) + k) /\ (\E k \in 1 .. Len(b) : n = Len(a) + k)
      <3>1. PICK k \in 1 .. Len(b), l \in 1 .. Len(b) : m = Len(a) + k /\ n = Len(a) + l
        BY <2>3
      <3>2. k < l BY <1>1, <1>6, <3>1
      <3> QED BY <1>2, <3>1, <3>2 DEF Listed
    <2>4. ~((\E k \in 1 .. Len(b) : m = Len(a) + k) /\ n \in 1 .. Len(a)) BY <1>1, <1>6
    <2> QED BY <1>4, <2>1, <2>2, <2>3, <2>4
  <1>7. IdsOf(c) \subseteq DOMAIN log BY <1>5 DEF Listed
  <1>8. b # << >> => c[Len(c)] = b[Len(b)] BY <1>1, <1>2
  <1>9. a # << >> => c[1] = a[1] BY <1>1, <1>2
  <1> QED BY <1>2, <1>3, <1>5, <1>6, <1>7, <1>8, <1>9 DEF Listed, c

(* The first rows of a page are all there is down to the last of them.       *)
LEMMA FirstOfPage ==
  ASSUME NEW a, Listed(a), NEW size \in Nat, size <= Len(a)
  PROVE  /\ Listed(SubSeq(a, 1, size)) /\ Len(SubSeq(a, 1, size)) = size
         /\ IdsOf(SubSeq(a, 1, size)) \subseteq IdsOf(a)
         /\ \A i \in IdsOf(a) :
              (\E j \in IdsOf(SubSeq(a, 1, size)) : j <= i) => i \in IdsOf(SubSeq(a, 1, size))
  <1> DEFINE p == SubSeq(a, 1, size)
  <1>1. a \in Seq(Nat) /\ Len(a) \in Nat BY DEF Listed
  <1>2. /\ p \in Seq(Nat) /\ Len(p) = size /\ \A n \in 1 .. size : p[n] = a[n]
    <2>1. \A n \in 1 .. size : a[n] \in Nat BY <1>1
    <2> QED BY <2>1, SubSeqProperties
  <1> HIDE DEF p
  <1>3. \A n \in 1 .. size : n \in 1 .. Len(a) BY <1>1
  <1>4. IdsOf(p) \subseteq IdsOf(a) BY <1>2, <1>3 DEF IdsOf
  <1>5. ASSUME NEW i \in IdsOf(a), NEW j \in IdsOf(p), j <= i PROVE i \in IdsOf(p)
    <2>1. PICK m \in 1 .. Len(a) : i = a[m] BY <1>5 DEF IdsOf
    <2>2. PICK n \in 1 .. size : j = a[n] BY <1>2, <1>5 DEF IdsOf
    <2>3. a[m] \in Nat /\ a[n] \in Nat /\ m \in Nat BY <1>1, <1>3
    <2>4. ~(n < m) BY <1>3, <1>5, <2>1, <2>2, <2>3 DEF Listed
    <2>5. m \in 1 .. size BY <2>3, <2>4
    <2> QED BY <1>2, <2>1, <2>5 DEF IdsOf
  <1>6. Listed(p) BY <1>2, <1>3, <1>4 DEF Listed
  <1> QED BY <1>2, <1>4, <1>5, <1>6 DEF p

(* What one query returns: the newest rows below its cursor, all of them     *)
(* when they are fewer than asked for.                                       *)
LEMMA PageOfQuery ==
  ASSUME DOMAIN log \subseteq 1 .. MaxId, NEW limit \in Nat \ {0}, NEW before \in Nat
  PROVE  LET page == queryPage(limit, before)
             below(i) == before > 0 => i < before
         IN /\ Listed(page) /\ Len(page) <= limit
            /\ \A i \in IdsOf(page) : below(i)
            /\ \A i \in DOMAIN log :
                 below(i) /\ (\E j \in IdsOf(page) : j <= i) => i \in IdsOf(page)
            /\ Len(page) < limit => \A i \in DOMAIN log : below(i) => i \in IdsOf(page)
  <1> DEFINE page == queryPage(limit, before)
             ids == {i \in DOMAIN log : before > 0 => i < before}
             new == Newer(ids, limit)
  <1>1. ids \in SUBSET (0 .. MaxId) BY BoundsAssumption
  <1>2. page = Descending(new) BY DEF queryPage
  <1>3. /\ new \subseteq ids
        /\ \A i \in ids : (\E j \in new : j <= i) => i \in new
        /\ Cardinality(new) <= limit
        /\ Cardinality(new) < limit => new = ids
    <2> HIDE DEF ids
    <2> QED BY <1>1, BoundsAssumption, NewestOnes
  <1> HIDE DEF new, page
  <1>4. new \in SUBSET (0 .. MaxId) BY <1>1, <1>3
  <1>5. /\ page \in Seq(Nat) /\ Len(page) = Cardinality(new) /\ IdsOf(page) = new
        /\ \A m, n \in 1 .. Len(page) : m < n => page[m] > page[n]
    BY <1>2, <1>4, BoundsAssumption, DescendingLists
  <1>6. Listed(page) BY <1>3, <1>5 DEF Listed
  <1>7. /\ \A i \in IdsOf(page) : before > 0 => i < before
        /\ \A i \in DOMAIN log :
             (before > 0 => i < before) /\ (\E j \in IdsOf(page) : j <= i) => i \in IdsOf(page)
        /\ Len(page) < limit => \A i \in DOMAIN log : (before > 0 => i < before) => i \in IdsOf(page)
    BY <1>3, <1>5
  <1> QED BY <1>3, <1>5, <1>6, <1>7 DEF page

LEMMA PageOfMatches ==
  ASSUME DOMAIN log \subseteq 1 .. MaxId, NEW batch, Listed(batch)
  PROVE  /\ Listed(MatchesOf(batch))
         /\ IdsOf(MatchesOf(batch)) = {i \in IdsOf(batch) : Matches("search", log[i])}
  <1> DEFINE ids == {i \in IdsOf(batch) : Matches("search", log[i])}
  <1>1. ids \in SUBSET (0 .. MaxId) /\ ids \subseteq DOMAIN log BY BoundsAssumption DEF Listed
  <1>2. MatchesOf(batch) = Descending(ids) BY DEF MatchesOf
  <1> HIDE DEF ids
  <1> QED BY <1>1, <1>2, BoundsAssumption, DescendingLists DEF Listed, ids

-----------------------------------------------------------------------------
(* List answers for what it is due.                                          *)

LEMMA ListAnswers ==
  ASSUME DOMAIN log \subseteq 1 .. MaxId, cursor \in Nat,
         NEW c \in Callers, NEW r \in Requests,
         r.state = "scan", r.filter = "all", RequestInv(c, r),
         NEW s, s = [r EXCEPT !.state = "answered", !.results = queryPage(PageSize, r.before)]
  PROVE  s \in Requests /\ s.filter = r.filter /\ s.state # "none" /\ RequestInv(c, s)
  <1> DEFINE page == queryPage(PageSize, r.before)
             below(i) == r.before > 0 => i < r.before
  <1>1. r.before \in Nat /\ PageSize \in Nat \ {0} BY PageAssumption DEF Requests
  <1>2. /\ Listed(page) /\ Len(page) <= PageSize
        /\ \A i \in IdsOf(page) : below(i)
        /\ \A i \in DOMAIN log :
             below(i) /\ (\E j \in IdsOf(page) : j <= i) => i \in IdsOf(page)
        /\ Len(page) < PageSize => \A i \in DOMAIN log : below(i) => i \in IdsOf(page)
    BY <1>1, PageOfQuery
  <1> HIDE DEF page
  <1>3. s.state = "answered" /\ s.results = page /\ s.filter = "all" /\ s.capped = r.capped
    BY DEF Requests, page
  <1>4. s \in Requests BY <1>2 DEF Requests, Listed, page
  <1>5. /\ Scanning(c, r) /\ r.results = << >> BY DEF RequestInv, Scanning
  <1>6. IdsOf(r.results) = {} BY <1>5, EmptyPage
  <1>7. \A i \in DOMAIN log : i \in Int BY BoundsAssumption
  <1>8. \A i \in IdsOf(page) : i \in DOMAIN log BY <1>2 DEF Listed
  <1>9. c = "loadMore" => r.before > 0 /\ r.before <= cursor
    BY <1>1, <1>5 DEF Scanning
  <1>10. c = "loadMore" => \A i \in IdsOf(page) : i < cursor
    BY <1>1, <1>2, <1>7, <1>8, <1>9
  <1>11. ASSUME NEW i \in DOMAIN log, Due(c, s, i) PROVE below(i)
    <2>1. CASE c = "loadMore"
      <3>1. i < cursor /\ Matches(r.filter, log[i]) BY <1>3, <1>11, <2>1 DEF Due
      <3>2. Due(c, r, i) BY <2>1, <3>1 DEF Due
      <3>3. ~(r.before <= i) BY <1>5, <1>6, <3>2 DEF Scanning
      <3> QED BY <1>1, <1>7, <3>3
    <2>2. CASE c # "loadMore"
      <3>1. PICK k \in IdsOf(page) : i <= k BY <1>3, <1>11, <2>2 DEF Due
      <3>2. below(k) /\ k \in Int BY <1>2, <1>7, <1>8
      <3> QED BY <1>1, <1>7, <3>1, <3>2
    <2> QED BY <2>1, <2>2
  <1>12. ASSUME NEW i \in DOMAIN log, Due(c, s, i),
                (\E j \in IdsOf(page) : j < i) \/ Len(page) < PageSize
         PROVE  i \in IdsOf(page)
    <2>1. below(i) BY <1>11, <1>12
    <2>2. (\E j \in IdsOf(page) : j <= i) \/ Len(page) < PageSize BY <1>7, <1>8, <1>12
    <2> QED BY <1>2, <2>1, <2>2
  <1>13. Answered(c, s) BY <1>3, <1>12 DEF Answered
  <1> QED BY <1>2, <1>3, <1>4, <1>10, <1>13 DEF RequestInv

LEMMA SearchAnswers ==
  ASSUME DOMAIN log \subseteq 1 .. MaxId, cursor \in Nat,
         NEW c \in Callers, NEW r \in Requests,
         r.state = "scan", r.filter = "search", RequestInv(c, r),
         NEW s, s = Scanned(r)
  PROVE  s \in Requests /\ s.filter = r.filter /\ s.state # "none" /\ RequestInv(c, s)
  <1> DEFINE batch == queryPage(SearchScanBatch, r.before)
             kept == MatchesOf(batch)
             all == r.results \o kept
             full == Len(all) >= PageSize
             scanned == r.scanned + Len(batch)
             short == Len(batch) < SearchScanBatch
             atCap == scanned >= SearchScanCap
             next == IF batch = << >> THEN r.before ELSE batch[Len(batch)]
             below(i) == r.before > 0 => i < r.before
             top(i) == IF c = "loadMore" THEN i < cursor ELSE \E k \in IdsOf(all) : i <= k
  <1>1. /\ r.before \in Nat /\ r.scanned \in Nat
        /\ SearchScanBatch \in Nat \ {0} /\ PageSize \in Nat \ {0} /\ SearchScanCap \in Nat \ {0}
    BY PageAssumption DEF Requests
  <1>2. /\ Listed(batch)
        /\ \A i \in IdsOf(batch) : below(i)
        /\ \A i \in DOMAIN log :
             below(i) /\ (\E j \in IdsOf(batch) : j <= i) => i \in IdsOf(batch)
        /\ short => \A i \in DOMAIN log : below(i) => i \in IdsOf(batch)
    BY <1>1, PageOfQuery
  <1>3. /\ Len(batch) \in Nat
        /\ batch = << >> => short
        /\ batch # << >> => /\ next \in IdsOf(batch)
                            /\ \A i \in IdsOf(batch) : next <= i
    <2>1. Len(batch) \in Nat /\ (batch = << >> => Len(batch) = 0) BY <1>2, EmptyPage DEF Listed
    <2> HIDE DEF batch
    <2> QED BY <1>1, <1>2, <2>1, LastIsOldest
  <1>4. /\ s.filter = "search" /\ s.before = next /\ s.scanned = scanned
        /\ s.results = (IF full THEN SubSeq(all, 1, PageSize) ELSE all)
        /\ s.capped = (~full /\ ~short /\ atCap)
        /\ s.state = (IF full \/ short \/ atCap THEN "answered" ELSE "scan")
        /\ s = [state |-> s.state, filter |-> s.filter, before |-> s.before,
                scanned |-> s.scanned, results |-> s.results, capped |-> s.capped]
    BY DEF Scanned, Requests
  <1> HIDE DEF batch
  <1>5. /\ Listed(kept)
        /\ IdsOf(kept) = {i \in IdsOf(batch) : Matches("search", log[i])}
    BY <1>2, PageOfMatches
  <1> HIDE DEF kept
  <1>6. /\ Listed(r.results) /\ Scanning(c, r)
        /\ c = "loadMore" => \A i \in IdsOf(r.results) : i < cursor
    BY DEF RequestInv
  <1>7. /\ \A i \in DOMAIN log : i \in Nat \ {0}
        /\ IdsOf(batch) \subseteq DOMAIN log /\ IdsOf(r.results) \subseteq DOMAIN log
    BY <1>2, <1>6, BoundsAssumption DEF Listed
  <1>8. r.before = 0 => IdsOf(r.results) = {} BY <1>6, EmptyPage DEF Scanning
  <1>9. \A i \in IdsOf(r.results) : r.before <= i BY <1>6 DEF Scanning
  <1>10. \A i \in IdsOf(r.results), j \in IdsOf(kept) : j < i
    BY <1>1, <1>2, <1>5, <1>7, <1>8, <1>9
  <1>11. /\ Listed(all) /\ IdsOf(all) = IdsOf(r.results) \cup IdsOf(kept)
    BY <1>5, <1>6, <1>10, JoinedPages
  <1>12. /\ next \in Nat
         /\ \A i \in IdsOf(all) : next <= i
    <2>1. CASE batch = << >>
      <3>1. IdsOf(kept) = {} BY <1>5, <2>1, EmptyPage
      <3> QED BY <1>1, <1>9, <1>11, <2>1, <3>1
    <2>2. CASE batch # << >>
      <3>1. next \in IdsOf(batch) /\ next \in Nat BY <1>3, <1>7, <2>2
      <3>2. \A i \in IdsOf(kept) : next <= i BY <1>3, <1>5, <2>2
      <3>3. \A i \in IdsOf(r.results) : next <= i
        BY <1>1, <1>2, <1>7, <1>8, <1>9, <3>1
      <3> QED BY <1>11, <3>1, <3>2, <3>3
    <2> QED BY <2>1, <2>2
  <1>13. c = "loadMore" => r.before > 0 /\ r.before <= cursor
    BY <1>1, <1>6 DEF Scanning
  <1>14. c = "loadMore" => \A i \in IdsOf(all) : i < cursor
    BY <1>1, <1>2, <1>5, <1>6, <1>7, <1>11, <1>13
  <1> HIDE DEF next
  <1>15. ASSUME NEW i \in DOMAIN log, Matches("search", log[i]), top(i), next <= i \/ short
         PROVE  i \in IdsOf(all)
    <2>1. CASE below(i)
      <3>1. i \in IdsOf(batch)
        <4>1. CASE short BY <1>2, <2>1, <4>1
        <4>2. CASE ~short
          <5>1. next \in IdsOf(batch) /\ next <= i BY <1>3, <1>15, <4>2
          <5> QED BY <1>2, <2>1, <5>1
        <4> QED BY <4>1, <4>2
      <3> QED BY <1>5, <1>11, <1>15, <3>1
    <2>2. CASE ~below(i)
      <3>1. r.before > 0 /\ r.before <= i BY <1>1, <1>7, <2>2
      <3>2. Due(c, r, i)
        <4>1. CASE c = "loadMore" BY <1>15, <4>1 DEF Due
        <4>2. CASE c # "loadMore"
          <5>1. PICK k \in IdsOf(all) : i <= k BY <1>15, <4>2
          <5>2. k \notin IdsOf(kept)
            <6>1. ASSUME k \in IdsOf(kept) PROVE FALSE
              <7>1. k \in IdsOf(batch) BY <1>5, <6>1
              <7>2. k < r.before /\ k \in Nat /\ i \in Nat BY <1>2, <1>7, <3>1, <7>1
              <7> QED BY <1>1, <3>1, <5>1, <7>2
            <6> QED BY <6>1
          <5>3. k \in IdsOf(r.results) BY <1>11, <5>1, <5>2
          <5> QED BY <1>15, <4>2, <5>1, <5>3 DEF Due
        <4> QED BY <4>1, <4>2
      <3>3. i \in IdsOf(r.results) BY <1>6, <3>1, <3>2 DEF Scanning
      <3> QED BY <1>11, <3>3
    <2> QED BY <2>1, <2>2
  <1> HIDE DEF all, scanned
  <1>16. /\ scanned \in Nat /\ Len(all) \in Nat /\ all \in Seq(Nat)
    BY <1>1, <1>3, <1>11 DEF scanned, Listed
  <1>17. \A i \in IdsOf(all) : i \in DOMAIN log BY <1>11 DEF Listed
  <1>18. CASE full
    <2> DEFINE found == SubSeq(all, 1, PageSize)
    <2>1. /\ Listed(found) /\ Len(found) = PageSize /\ IdsOf(found) \subseteq IdsOf(all)
          /\ \A i \in IdsOf(all) : (\E j \in IdsOf(found) : j <= i) => i \in IdsOf(found)
      BY <1>1, <1>11, <1>16, <1>18, FirstOfPage
    <2>2. s.state = "answered" /\ s.results = found BY <1>4, <1>18
    <2> HIDE DEF found
    <2>3. ASSUME NEW i \in DOMAIN log, Due(c, s, i), NEW j \in IdsOf(found), j < i
          PROVE  i \in IdsOf(found)
      <3>1. j \in IdsOf(all) /\ j \in Nat /\ i \in Nat BY <1>7, <1>17, <2>1
      <3>2. next <= i /\ j <= i BY <1>12, <2>3, <3>1
      <3>3. top(i) /\ Matches("search", log[i]) BY <1>4, <2>1, <2>2, <2>3 DEF Due
      <3>4. i \in IdsOf(all) BY <1>15, <3>2, <3>3
      <3> QED BY <2>1, <3>2, <3>4
    <2>4. Answered(c, s)
      <3>1. ~(Len(s.results) < PageSize) BY <1>1, <2>1, <2>2
      <3> QED BY <2>2, <2>3, <3>1 DEF Answered
    <2>5. s \in Requests
      <3>1. s.capped \in BOOLEAN BY <1>4
      <3> QED BY <1>4, <1>12, <1>16, <2>1, <2>2, <3>1 DEF Requests, Filters, Listed
    <2>6. /\ Listed(s.results) /\ Len(s.results) <= PageSize
          /\ c = "loadMore" => \A i \in IdsOf(s.results) : i < cursor
          /\ s.state = "answered" /\ s.filter = "search"
      <3>1. Listed(s.results) /\ Len(s.results) <= PageSize BY <1>1, <2>1, <2>2
      <3>2. c = "loadMore" => \A i \in IdsOf(s.results) : i < cursor BY <1>14, <2>1, <2>2
      <3> QED BY <1>4, <2>2, <3>1, <3>2
    <2>7. RequestInv(c, s) BY <2>4, <2>6 DEF RequestInv
    <2> QED BY <2>5, <2>6, <2>7
  <1>19. CASE ~full
    <2>1. s.results = all /\ Len(all) < PageSize BY <1>1, <1>4, <1>16, <1>19
    <2>2. ASSUME NEW i \in DOMAIN log, Due(c, s, i) PROVE top(i) /\ Matches("search", log[i])
      BY <1>4, <2>1, <2>2 DEF Due
    <2>3. s.state \in {"scan", "answered"} /\ s.capped \in BOOLEAN BY <1>4
    <2>4. s \in Requests BY <1>4, <1>12, <1>16, <2>1, <2>3 DEF Requests, Filters
    <2>5. ASSUME s.state = "answered" PROVE Answered(c, s)
      <3>1. short \/ atCap BY <1>4, <1>19, <2>5
      <3>2. ~s.capped => short BY <1>4, <1>19, <3>1
      <3>3. ASSUME NEW i \in DOMAIN log, Due(c, s, i), (\E j \in IdsOf(all) : j < i) \/ ~s.capped
            PROVE  i \in IdsOf(all)
        <4>1. next <= i \/ short
          <5>1. CASE ~s.capped BY <3>2, <5>1
          <5>2. CASE \E j \in IdsOf(all) : j < i
            <6>1. PICK j \in IdsOf(all) : j < i BY <5>2
            <6>2. next <= j /\ j \in Nat /\ i \in Nat BY <1>7, <1>12, <1>17
            <6> QED BY <1>12, <6>1, <6>2
          <5> QED BY <3>3, <5>1, <5>2
        <4> QED BY <1>15, <2>2, <3>3, <4>1
      <3> QED BY <2>1, <3>3 DEF Answered
    <2>6. ASSUME s.state = "scan" PROVE Scanning(c, s)
      <3>1. ~short BY <1>4, <2>6
      <3>2. next \in IdsOf(batch) BY <1>3, <3>1
      <3>3. next # 0 /\ (c = "loadMore" => next <= cursor)
        <4>1. next \in Nat \ {0} BY <1>7, <3>2
        <4>2. r.before > 0 => next < r.before BY <1>2, <3>2
        <4> QED BY <1>1, <1>13, <4>1, <4>2
      <3>4. ASSUME NEW i \in DOMAIN log, Due(c, s, i), next <= i PROVE i \in IdsOf(all)
        BY <1>15, <2>2, <3>4
      <3> QED BY <1>4, <1>12, <2>1, <3>3, <3>4 DEF Scanning
    <2>7. /\ Listed(s.results) /\ Len(s.results) <= PageSize
          /\ c = "loadMore" => \A i \in IdsOf(s.results) : i < cursor
          /\ s.state \in {"scan", "answered"} /\ s.filter = "search"
      BY <1>1, <1>4, <1>11, <1>14, <1>16, <2>1, <2>3
    <2>8. RequestInv(c, s) BY <2>5, <2>6, <2>7 DEF RequestInv
    <2> QED BY <2>4, <2>7, <2>8
  <1> QED BY <1>18, <1>19

-----------------------------------------------------------------------------
(* Every step of writers and page keeps the list whole.                      *)

LEMMA InitPage == PageInit => PageInv
  <1> SUFFICES ASSUME PageInit PROVE PageInv OBVIOUS
  <1> USE DEF PageInit
  <1>1. NoRequest \in Requests /\ NoRequest.state = "none"
    BY EmptySeq DEF NoRequest, Requests, Filters
  <1>2. PageState BY <1>1 DEF PageState, Callers, Filters
  <1>3. \A c \in Callers : RequestInv(c, request[c]) BY <1>1 DEF RequestInv
  <1>4. Listed(entries) /\ IdsOf(entries) = {} BY EmptyPage
  <1>5. GapFreeWindow /\ NoMoreIsEnd BY <1>4, EmptyPage DEF GapFreeWindow, NoMoreIsEnd, Shown
  <1> QED BY <1>2, <1>3, <1>4, <1>5 DEF PageInv

(* The rows written while a page is loading lie above all it is about.       *)
LEMMA WritersKeepPage ==
  ASSUME PageInv, Grown, UNCHANGED pagevars, \A i \in DOMAIN log' : i \in Nat,
         \A i \in DOMAIN log : i \in Nat
  PROVE  PageInv'
  <1> USE DEF pagevars, shown
  <1>1. \A i \in DOMAIN log', j \in DOMAIN log : i <= j => i \in DOMAIN log BY DEF Grown
  <1>2. \A i \in DOMAIN log : i \in DOMAIN log' /\ log'[i] = log[i] BY DEF Grown
  <1>3. PageState' BY DEF PageInv, PageState
  <1>5. Listed(entries)' BY <1>2 DEF PageInv, Listed
  <1>6. Shown \subseteq DOMAIN log /\ Shown' = Shown BY DEF PageInv, Listed, Shown
  <1>7. GapFreeWindow'
    <2>1. ASSUME NEW i \in DOMAIN log', Matches(loadedFor, log'[i]),
                 NEW j \in Shown, NEW k \in Shown, j < i, i < k
          PROVE  i \in Shown
      <3>1. i \in DOMAIN log BY <1>1, <1>6, <2>1
      <3> QED BY <1>2, <2>1, <3>1 DEF PageInv, GapFreeWindow
    <2>2. \A m, n \in 1 .. Len(entries) : m < n => entries[m] > entries[n]
      BY DEF PageInv, GapFreeWindow
    <2> QED BY <1>6, <2>1, <2>2 DEF GapFreeWindow
  <1>8. NoMoreIsEnd'
    <2>1. ASSUME entries # << >>, ~hasMore, ~capped,
                 NEW i \in DOMAIN log', i < entries[1], Matches(loadedFor, log'[i])
          PROVE  i \in Shown
      <3>1. entries[1] \in Shown
        BY <2>1 DEF PageInv, Listed, Shown, IdsOf
      <3>2. i \in DOMAIN log BY <1>1, <1>6, <2>1, <3>1
      <3> QED BY <1>2, <2>1, <3>2 DEF PageInv, NoMoreIsEnd
    <2> QED BY <1>6, <2>1 DEF NoMoreIsEnd
  <1>9. ASSUME NEW c \in Callers PROVE RequestInv(c, request[c])'
    <2> DEFINE r == request[c]
    <2>1. RequestInv(c, r) BY DEF PageInv
    <2>2. r' = r OBVIOUS
    <2>3. CASE r.state = "none" BY <2>3 DEF RequestInv
    <2>4. CASE r.state # "none"
      <3>1. Listed(r.results) BY <2>1, <2>4 DEF RequestInv
      <3>2. \A k \in IdsOf(r.results) : k \in DOMAIN log BY <3>1 DEF Listed
      <3>3. c = "loadMore" => cursor \in DOMAIN log
        <4>1. ASSUME c = "loadMore" PROVE cursor \in DOMAIN log
          <5>1. cursor # 0 BY <2>4, <4>1 DEF PageInv, PageState
          <5>2. entries # << >> /\ cursor = entries[Len(entries)] BY <5>1 DEF PageInv, PageState
          <5>3. cursor \in IdsOf(entries) BY <5>2, LastIsOldest DEF PageInv
          <5> QED BY <5>3 DEF PageInv, Listed
        <4> QED BY <4>1
      <3>4. ASSUME NEW i \in DOMAIN log', Due(c, request[c], i)'
            PROVE  i \in DOMAIN log /\ Due(c, request[c], i)
        <4>1. CASE c = "loadMore"
          <5>1. i < cursor /\ Matches(r.filter, log'[i]) BY <3>4, <4>1 DEF Due
          <5>2. i \in DOMAIN log BY <1>1, <3>3, <4>1, <5>1
          <5> QED BY <1>2, <4>1, <5>1, <5>2 DEF Due
        <4>2. CASE c # "loadMore"
          <5>1. Matches(r.filter, log'[i]) /\ \E k \in IdsOf(r.results) : i <= k
            BY <3>4, <4>2 DEF Due
          <5>2. i \in DOMAIN log BY <1>1, <3>2, <5>1
          <5> QED BY <1>2, <4>2, <5>1, <5>2 DEF Due
        <4> QED BY <4>1, <4>2
      <3>5. Listed(request[c].results)' BY <1>2, <3>1 DEF Listed
      <3>6. r.state = "scan" => Scanning(c, request[c])'
        BY <2>1, <2>4, <3>4 DEF RequestInv, Scanning
      <3>7. r.state = "answered" => Answered(c, request[c])'
        BY <2>1, <2>4, <3>4 DEF RequestInv, Answered
      <3> QED BY <2>1, <2>4, <3>5, <3>6, <3>7 DEF RequestInv
    <2> QED BY <2>3, <2>4
  <1> QED BY <1>3, <1>5, <1>7, <1>8, <1>9 DEF PageInv

(* What is on screen stays as good as it was while only requests change.     *)
LEMMA ScreenStays ==
  ASSUME PageInv, UNCHANGED <<logvars, shown>>
  PROVE  Listed(entries)' /\ GapFreeWindow' /\ NoMoreIsEnd'
  BY DEF PageInv, logvars, shown, Listed, GapFreeWindow, NoMoreIsEnd, Shown

(* The box only hides what is on screen.                                     *)
LEMMA BoxKeepsPage ==
  ASSUME PageInv, setHideSyncNoise
  PROVE  PageInv'
  <1>1. UNCHANGED <<log, request, filter, cursor, fetching, entries, loadedFor>>
        /\ UNCHANGED <<logvars, shown>>
    BY DEF setHideSyncNoise, logvars, shown
  <1>2. PageState' BY <1>1 DEF PageInv, PageState
  <1>3. \A c \in Callers : RequestInv(c, request[c])'
    BY <1>1 DEF PageInv, RequestInv, Scanning, Answered, Due, Listed
  <1> QED BY <1>1, <1>2, <1>3, ScreenStays DEF PageInv

LEMMA ListKeepsPage ==
  ASSUME PageInv, DOMAIN log \subseteq 1 .. MaxId,
         NEW c \in Callers, List(c) \/ SearchBatch(c)
  PROVE  PageInv'
  <1> DEFINE r == request[c]
             s == IF r.filter = "all"
                  THEN [r EXCEPT !.state = "answered", !.results = queryPage(PageSize, r.before)]
                  ELSE Scanned(r)
  <1>1. /\ r \in Requests /\ r.state = "scan" /\ RequestInv(c, r)
        /\ UNCHANGED <<logvars, filter, cursor, fetching, shown>>
    BY DEF PageInv, PageState, List, SearchBatch
  <1>2. request' = [request EXCEPT ![c] = s]
    <2>1. CASE List(c) BY <2>1 DEF List
    <2>2. CASE SearchBatch(c) BY <2>2 DEF SearchBatch
    <2> QED BY <2>1, <2>2
  <1>3. cursor \in Nat BY DEF PageInv, PageState
  <1>4. s \in Requests /\ s.filter = r.filter /\ s.state # "none" /\ RequestInv(c, s)
    <2>1. CASE r.filter = "all"
      <3>1. s = [r EXCEPT !.state = "answered", !.results = queryPage(PageSize, r.before)]
        BY <2>1
      <3> HIDE DEF s, r
      <3> QED BY <1>1, <1>3, <2>1, <3>1, ListAnswers
    <2>2. CASE r.filter = "search"
      <3>1. s = Scanned(r) BY <2>2
      <3> HIDE DEF s, r
      <3> QED BY <1>1, <1>3, <2>2, <3>1, SearchAnswers
    <2> QED BY <1>1, <2>1, <2>2 DEF Requests, Filters
  <1>5. request'[c] = s /\ \A d \in Callers \ {c} : request'[d] = request[d]
    BY <1>2 DEF PageInv, PageState
  <1> HIDE DEF s
  <1>6. PageState'
    <2>1. /\ request' \in [Callers -> Requests] /\ filter' \in Filters /\ cursor' \in Nat
          /\ cursor' # 0 => /\ entries' # << >> /\ cursor' = entries'[Len(entries')]
                            /\ loadedFor' = filter'
      BY <1>1, <1>2, <1>4 DEF PageInv, PageState, shown
    <2>2. fetching' <=> \E d \in Callers : request'[d].state # "none"
      <3>1. fetching BY <1>1 DEF PageInv, PageState
      <3>2. request'[c].state # "none" BY <1>4, <1>5
      <3> QED BY <1>1, <3>1, <3>2
    <2>3. request'["runQuery"].state = "none" \/ request'["loadMore"].state = "none"
      <3>1. \A d \in Callers \ {c} : request'[d].state = "none"
        BY <1>1, <1>5 DEF PageInv, PageState, Callers
      <3> QED BY <3>1 DEF Callers
    <2>4. ASSUME NEW d \in Callers, request'[d].state # "none"
          PROVE  request'[d].filter = filter' /\ (cursor' = 0 <=> d = "runQuery")
      <3>1. request[d].state # "none" /\ request'[d].filter = request[d].filter
        BY <1>1, <1>4, <1>5, <2>4
      <3> QED BY <1>1, <3>1 DEF PageInv, PageState
    <2> QED BY <2>1, <2>2, <2>3, <2>4 DEF PageState
  <1>7. ASSUME NEW d \in Callers PROVE RequestInv(d, request[d])'
    <2>1. CASE d = c
      <3>1. request'[d] = s /\ RequestInv(d, s) BY <1>4, <1>5, <2>1
      <3> QED BY <1>1, <3>1
          DEF RequestInv, Scanning, Answered, Due, Listed, logvars
    <2>2. CASE d # c
      <3>1. request'[d].state = "none" BY <1>1, <1>5, <2>2 DEF PageInv, PageState, Callers
      <3> QED BY <3>1 DEF RequestInv
    <2> QED BY <2>1, <2>2
  <1> QED BY <1>1, <1>6, <1>7, ScreenStays DEF PageInv

LEMMA FilterKeepsPage ==
  ASSUME PageInv, PatientAdmin, NEW f \in Filters, runQuery(f)
  PROVE  PageInv'
  <1> DEFINE s == NewRequest(f, 0)
  <1>1. /\ request["loadMore"].state = "none"
        /\ filter' = f /\ cursor' = 0 /\ fetching' = TRUE
        /\ request' = [request EXCEPT !["runQuery"] = s]
        /\ UNCHANGED <<logvars, shown>>
    BY DEF runQuery
  <1>2. s.state = "scan" /\ s.filter = f /\ s.before = 0 /\ s.results = << >>
    BY DEF NewRequest, NoRequest
  <1>3. s \in Requests BY EmptySeq DEF NewRequest, NoRequest, Requests
  <1> HIDE DEF s
  <1>4. request'["runQuery"] = s /\ request'["loadMore"] = request["loadMore"]
    BY <1>1 DEF PageInv, PageState, Callers
  <1>5. PageState'
    <2>1. request' \in [Callers -> Requests] BY <1>1, <1>3 DEF PageInv, PageState
    <2>2. s.state = "scan" /\ s.filter = f BY <1>2
    <2> QED BY <1>1, <1>4, <2>1, <2>2 DEF PageState, Callers
  <1>6. RequestInv("runQuery", request["runQuery"])'
    <2>1. /\ s.state = "scan" /\ s.results = << >> /\ s.before = 0
          /\ Listed(s.results)' /\ IdsOf(s.results) = {} /\ Len(s.results) = 0
      BY <1>2, EmptyPage, EmptySeq DEF Listed
    <2>2. Scanning("runQuery", request["runQuery"])'
      BY <1>4, <2>1 DEF Scanning, Due
    <2>3. Listed(request["runQuery"].results)' BY <1>4, <2>1 DEF Listed
    <2> QED BY <1>4, <2>1, <2>2, <2>3, PageAssumption DEF RequestInv
  <1>7. RequestInv("loadMore", request["loadMore"])' BY <1>1, <1>4 DEF RequestInv
  <1> QED BY <1>1, <1>5, <1>6, <1>7, ScreenStays DEF PageInv, Callers

LEMMA LoadMoreKeepsPage ==
  ASSUME PageInv, loadMore, \A i \in DOMAIN log : i \in Nat
  PROVE  PageInv'
  <1> DEFINE s == NewRequest(filter, cursor)
  <1>1. /\ cursor # 0 /\ ~fetching /\ fetching' = TRUE
        /\ request' = [request EXCEPT !["loadMore"] = s]
        /\ UNCHANGED <<logvars, filter, cursor, shown>>
    BY DEF loadMore
  <1>2. s.state = "scan" /\ s.filter = filter /\ s.before = cursor /\ s.results = << >>
    BY DEF NewRequest, NoRequest
  <1>3. s \in Requests
    BY EmptySeq DEF NewRequest, NoRequest, PageInv, PageState, Requests
  <1> HIDE DEF s
  <1>4. request'["loadMore"] = s /\ request'["runQuery"] = request["runQuery"]
    BY <1>1 DEF PageInv, PageState, Callers
  <1>5. request["runQuery"].state = "none" BY <1>1 DEF PageInv, PageState, Callers
  <1>6. PageState'
    <2>1. request' \in [Callers -> Requests] BY <1>1, <1>3 DEF PageInv, PageState
    <2>2. s.state = "scan" /\ s.filter = filter BY <1>2
    <2>3. /\ entries' # << >> /\ cursor' = entries'[Len(entries')] /\ loadedFor' = filter'
          /\ filter' \in Filters /\ cursor' \in Nat
      BY <1>1 DEF PageInv, PageState, shown
    <2> QED BY <1>1, <1>4, <1>5, <2>1, <2>2, <2>3 DEF PageState, Callers
  <1>7. RequestInv("loadMore", request["loadMore"])'
    <2>1. /\ s.state = "scan" /\ s.results = << >> /\ s.before = cursor
          /\ IdsOf(s.results) = {} /\ Len(s.results) = 0
      BY <1>2, EmptyPage
    <2>2. Listed(request["loadMore"].results)' BY <1>4, <2>1, EmptySeq DEF Listed
    <2>3. Scanning("loadMore", request["loadMore"])'
      <3>1. ASSUME NEW i \in DOMAIN log', Due("loadMore", request["loadMore"], i)', cursor <= i
            PROVE  FALSE
        BY <1>1, <3>1 DEF Due, PageInv, PageState, logvars
      <3> QED BY <1>1, <1>4, <2>1, <3>1 DEF Scanning, PageInv, PageState
    <2> QED BY <1>4, <2>1, <2>2, <2>3, PageAssumption DEF RequestInv
  <1>8. RequestInv("runQuery", request["runQuery"])' BY <1>4, <1>5 DEF RequestInv
  <1> QED BY <1>1, <1>6, <1>7, <1>8, ScreenStays DEF PageInv, Callers

LEMMA FailureKeepsPage ==
  ASSUME PageInv, NEW c \in Callers, Failed(c)
  PROVE  PageInv'
  <1>1. /\ request[c].state # "none" /\ fetching' = FALSE
        /\ request' = [request EXCEPT ![c] = NoRequest]
        /\ UNCHANGED <<logvars, filter, cursor, shown>>
    BY DEF Failed
  <1>2. NoRequest \in Requests /\ NoRequest.state = "none"
    BY EmptySeq DEF NoRequest, Requests, Filters
  <1>3. request'[c] = NoRequest /\ \A d \in Callers \ {c} : request'[d] = request[d]
    BY <1>1 DEF PageInv, PageState
  <1>4. \A d \in Callers : request'[d].state = "none"
    BY <1>1, <1>2, <1>3 DEF PageInv, PageState, Callers
  <1>5. PageState'
    <2>1. request' \in [Callers -> Requests] BY <1>1, <1>2 DEF PageInv, PageState
    <2> QED BY <1>1, <1>4, <2>1 DEF PageInv, PageState, shown, Callers
  <1>6. \A d \in Callers : RequestInv(d, request[d])' BY <1>4 DEF RequestInv
  <1> QED BY <1>1, <1>5, <1>6, ScreenStays DEF PageInv

(* A response is shown: no request is left, and the cursor is the list's end.*)
LEMMA ResponseEndsRequest ==
  ASSUME PageInv, NEW c \in Callers, NEW before, Received(c, before)
  PROVE  /\ request[c] \in Requests /\ Answered(c, request[c])
         /\ Listed(request[c].results) /\ Len(request[c].results) <= PageSize
         /\ request[c].filter = filter /\ (cursor = 0 <=> c = "runQuery")
         /\ \A d \in Callers : request'[d].state = "none"
         /\ request' \in [Callers -> Requests]
         /\ \A d \in Callers : RequestInv(d, request[d])'
  <1>1. /\ request[c].state = "answered" /\ request' = [request EXCEPT ![c] = NoRequest]
    BY DEF Received
  <1>2. NoRequest \in Requests /\ NoRequest.state = "none"
    BY EmptySeq DEF NoRequest, Requests, Filters
  <1>3. request'[c] = NoRequest /\ \A d \in Callers \ {c} : request'[d] = request[d]
    BY <1>1 DEF PageInv, PageState
  <1>4. \A d \in Callers : request'[d].state = "none"
    BY <1>1, <1>2, <1>3 DEF PageInv, PageState, Callers
  <1>5. request' \in [Callers -> Requests] BY <1>1, <1>2 DEF PageInv, PageState
  <1>6. \A d \in Callers : RequestInv(d, request[d])' BY <1>4 DEF RequestInv
  <1>7. RequestInv(c, request[c]) BY DEF PageInv
  <1>8. /\ Answered(c, request[c]) /\ Listed(request[c].results)
        /\ Len(request[c].results) <= PageSize
    BY <1>1, <1>7 DEF RequestInv
  <1>9. /\ request[c] \in Requests
        /\ request[c].filter = filter /\ (cursor = 0 <=> c = "runQuery")
    BY <1>1 DEF PageInv, PageState
  <1> QED BY <1>4, <1>5, <1>6, <1>8, <1>9

LEMMA FirstPageShown ==
  ASSUME PageInv, DOMAIN log \subseteq 1 .. MaxId, runQueryThen
  PROVE  PageInv'
  <1> DEFINE r == request["runQuery"]
             data == r.results
  <1>0. Received("runQuery", << >>) /\ "runQuery" \in Callers BY DEF runQueryThen, Callers
  <1>1. /\ r \in Requests /\ Answered("runQuery", r)
        /\ Listed(data) /\ Len(data) <= PageSize
        /\ r.filter = filter /\ cursor = 0
        /\ \A d \in Callers : request'[d].state = "none"
        /\ request' \in [Callers -> Requests]
        /\ \A d \in Callers : RequestInv(d, request[d])'
    BY <1>0, ResponseEndsRequest
  <1>2. /\ entries' = data /\ hasMore' = (Len(data) = PageSize)
        /\ cursor' = IF data = << >> THEN cursor ELSE data[Len(data)]
        /\ fetching' = FALSE /\ capped' = r.capped /\ loadedFor' = r.filter
        /\ UNCHANGED <<logvars, filter>>
    <2>1. << >> \o data = data BY <1>1 DEF Listed
    <2> QED BY <1>0, <2>1 DEF Received
  <1> HIDE DEF data
  <1>3. data # << >> => data[Len(data)] \in IdsOf(data) /\ data[1] \in IdsOf(data)
    BY <1>1 DEF Listed, IdsOf
  <1>4. \A i \in DOMAIN log : i \in Nat \ {0} BY BoundsAssumption
  <1>5. PageState'
    <2>1. cursor' \in Nat /\ (cursor' # 0 => data # << >> /\ cursor' = data[Len(data)])
      BY <1>1, <1>2, <1>3, <1>4 DEF Listed
    <2> QED BY <1>1, <1>2, <2>1 DEF PageState, PageInv, Callers
  <1>6. \A i \in DOMAIN log, k \in IdsOf(data) :
          i <= k /\ Matches(filter, log[i]) => Due("runQuery", r, i)
    BY <1>1 DEF Due, data
  <1>7. Shown' = IdsOf(data) BY <1>2 DEF Shown
  <1>8. Listed(entries)' BY <1>1, <1>2 DEF Listed, logvars
  <1>9. GapFreeWindow'
    <2>1. ASSUME NEW i \in DOMAIN log, Matches(filter, log[i]),
                 NEW j \in IdsOf(data), NEW k \in IdsOf(data), j < i, i < k
          PROVE  i \in IdsOf(data)
      <3>1. k \in Nat BY <1>1, <1>4 DEF Listed
      <3>2. Due("runQuery", r, i) BY <1>4, <1>6, <2>1, <3>1
      <3> QED BY <1>1, <2>1, <3>2 DEF Answered, data
    <2> QED BY <1>1, <1>2, <1>7, <2>1 DEF GapFreeWindow, Listed, logvars
  <1>10. NoMoreIsEnd'
    <2>1. ASSUME data # << >>, Len(data) # PageSize, ~r.capped,
                 NEW i \in DOMAIN log, i < data[1], Matches(filter, log[i])
          PROVE  i \in IdsOf(data)
      <3>1. data[1] \in IdsOf(data) /\ data[1] \in Nat BY <1>1, <1>3, <2>1 DEF Listed
      <3>2. Due("runQuery", r, i) BY <1>4, <1>6, <2>1, <3>1
      <3>3. Len(data) < PageSize BY <1>1, <2>1, PageAssumption DEF Listed
      <3> QED BY <1>1, <2>1, <3>2, <3>3 DEF Answered, data
    <2> QED BY <1>1, <1>2, <1>7, <2>1 DEF NoMoreIsEnd, logvars
  <1> QED BY <1>1, <1>5, <1>8, <1>9, <1>10 DEF PageInv

LEMMA NextPageShown ==
  ASSUME PageInv, DOMAIN log \subseteq 1 .. MaxId, loadMoreThen
  PROVE  PageInv'
  <1> DEFINE r == request["loadMore"]
             data == r.results
             longer == entries \o data
  <1>0. Received("loadMore", entries) /\ "loadMore" \in Callers BY DEF loadMoreThen, Callers
  <1>1. /\ r \in Requests /\ Answered("loadMore", r)
        /\ Listed(data) /\ Len(data) <= PageSize
        /\ r.filter = filter /\ cursor # 0
        /\ \A d \in Callers : request'[d].state = "none"
        /\ request' \in [Callers -> Requests]
        /\ \A d \in Callers : RequestInv(d, request[d])'
    BY <1>0, ResponseEndsRequest
  <1>2. /\ entries' = longer /\ hasMore' = (Len(data) = PageSize)
        /\ cursor' = IF data = << >> THEN cursor ELSE data[Len(data)]
        /\ fetching' = FALSE /\ capped' = r.capped /\ loadedFor' = loadedFor
        /\ UNCHANGED <<logvars, filter>>
    BY <1>0 DEF Received
  <1>3. \A i \in IdsOf(data) : i < cursor
    <2>1. r.state = "answered" BY <1>0 DEF Received
    <2>2. RequestInv("loadMore", r) BY <1>0 DEF PageInv
    <2> QED BY <2>1, <2>2 DEF RequestInv
  <1> HIDE DEF data
  <1>4. /\ Listed(entries) /\ entries # << >> /\ cursor = entries[Len(entries)]
        /\ loadedFor = filter
        /\ \A m, n \in 1 .. Len(entries) : m < n => entries[m] > entries[n]
    BY <1>1 DEF PageInv, PageState, Listed
  <1>5. cursor \in IdsOf(entries) /\ \A i \in IdsOf(entries) : cursor <= i
    BY <1>4, LastIsOldest
  <1>6. \A i \in DOMAIN log : i \in Nat \ {0} BY BoundsAssumption
  <1>7. IdsOf(entries) \subseteq DOMAIN log /\ IdsOf(data) \subseteq DOMAIN log
    BY <1>1, <1>4 DEF Listed
  <1>8. \A i \in IdsOf(entries), j \in IdsOf(data) : j < i BY <1>3, <1>5, <1>6, <1>7
  <1>9. /\ Listed(longer) /\ IdsOf(longer) = IdsOf(entries) \cup IdsOf(data)
        /\ data # << >> => longer[Len(longer)] = data[Len(data)]
        /\ data = << >> => longer = entries
        /\ longer[1] = entries[1]
    BY <1>1, <1>4, <1>8, JoinedPages
  <1>10. longer # << >>
    <2>1. IdsOf(longer) # {} BY <1>5, <1>9
    <2> HIDE DEF longer
    <2> QED BY <2>1, EmptyPage
  <1> HIDE DEF longer
  <1>11. data # << >> => data[Len(data)] \in IdsOf(data) BY <1>1 DEF Listed, IdsOf
  <1>12. PageState'
    <2>1. cursor' \in Nat /\ cursor' = longer[Len(longer)]
      BY <1>2, <1>4, <1>5, <1>6, <1>7, <1>9, <1>11
    <2> QED BY <1>1, <1>2, <1>4, <1>10, <2>1 DEF PageState, PageInv, Callers
  <1>13. Shown = IdsOf(entries) /\ Shown' = IdsOf(longer) BY <1>2 DEF Shown
  <1>14. \A i \in DOMAIN log : i < cursor /\ Matches(filter, log[i]) => Due("loadMore", r, i)
    BY <1>1 DEF Due
  <1>15. ASSUME NEW i \in DOMAIN log, Matches(filter, log[i]), cursor <= i,
                NEW k \in IdsOf(entries), i < k
         PROVE  i \in IdsOf(longer)
    <2>1. CASE i = cursor BY <1>5, <1>9, <2>1
    <2>2. CASE cursor < i BY <1>4, <1>5, <1>9, <1>13, <1>15, <2>2 DEF PageInv, GapFreeWindow
    <2> QED BY <1>5, <1>6, <1>7, <1>15, <2>1, <2>2
  <1>16. Listed(entries)' BY <1>2, <1>9 DEF Listed, logvars
  <1>17. GapFreeWindow'
    <2>1. ASSUME NEW i \in DOMAIN log, Matches(filter, log[i]),
                 NEW j \in IdsOf(longer), NEW k \in IdsOf(longer), j < i, i < k
          PROVE  i \in IdsOf(longer)
      <3>1. i \in Nat /\ j \in Nat /\ k \in Nat /\ cursor \in Nat
        BY <1>5, <1>6, <1>7, <1>9
      <3>2. CASE i < cursor
        <4>1. j \in IdsOf(data) BY <1>5, <1>9, <2>1, <3>1, <3>2
        <4>2. Due("loadMore", r, i) BY <1>14, <2>1, <3>2
        <4> QED BY <1>1, <1>9, <2>1, <4>1, <4>2 DEF Answered, data
      <3>3. CASE cursor <= i
        <4>1. k \in IdsOf(entries) BY <1>3, <1>9, <2>1, <3>1, <3>3
        <4> QED BY <1>15, <2>1, <3>3, <4>1
      <3> QED BY <3>1, <3>2, <3>3
    <2>2. \A m, n \in 1 .. Len(longer) : m < n => longer[m] > longer[n] BY <1>9 DEF Listed
    <2> QED BY <1>2, <1>4, <1>13, <2>1, <2>2 DEF GapFreeWindow, logvars
  <1>18. NoMoreIsEnd'
    <2>1. ASSUME Len(data) # PageSize, ~r.capped,
                 NEW i \in DOMAIN log, i < longer[1], Matches(filter, log[i])
          PROVE  i \in IdsOf(longer)
      <3>1. longer[1] = entries[1] /\ entries[1] \in IdsOf(entries)
        BY <1>4, <1>9 DEF Listed, IdsOf
      <3>2. i \in Nat /\ cursor \in Nat BY <1>5, <1>6, <1>7
      <3>3. CASE i < cursor
        <4>1. Due("loadMore", r, i) BY <1>14, <2>1, <3>3
        <4>2. Len(data) < PageSize BY <1>1, <2>1, PageAssumption DEF Listed
        <4> QED BY <1>1, <1>9, <2>1, <4>1, <4>2 DEF Answered, data
      <3>4. CASE cursor <= i BY <1>15, <2>1, <3>1, <3>4
      <3> QED BY <3>2, <3>3, <3>4
    <2> QED BY <1>2, <1>4, <1>13, <2>1 DEF NoMoreIsEnd, logvars
  <1> QED BY <1>1, <1>12, <1>16, <1>17, <1>18 DEF PageInv

-----------------------------------------------------------------------------
(* The page only reads: the log behaves as it does without it.               *)
LEMMA PageOnlyReads == PageSpec => Spec
  <1>1. PageInit => Init BY DEF PageInit
  <1>2. [PageNext]_vars => [Next]_logvars
    BY DEF PageNext, vars, logvars, List, SearchBatch, Failed, runQuery, loadMore,
           setHideSyncNoise, runQueryThen, loadMoreThen, Received
  <1> QED BY <1>1, <1>2, PTL DEF PageSpec, Spec

LEMMA PageInvHolds == ASSUME PatientAdmin PROVE PageSpec => []PageInv
  <1>1. ASSUME Inv, Inv', IntactInv, PageInv, [PageNext]_vars PROVE PageInv'
    <2>1. DOMAIN log \subseteq 1 .. MaxId /\ \A i \in DOMAIN log : i \in Nat
      BY <1>1, BoundsAssumption DEF IntactInv, Intact
    <2>2. \A i \in DOMAIN log' : i \in Nat BY <1>1 DEF Inv, TypeOK
    <2>3. CASE [Next]_logvars /\ UNCHANGED pagevars
      BY <1>1, <2>1, <2>2, <2>3, TableGrows, WritersKeepPage
    <2>4. ASSUME NEW c \in Callers, List(c) \/ SearchBatch(c) PROVE PageInv'
      BY <1>1, <2>1, <2>4, ListKeepsPage
    <2>5. ASSUME NEW c \in Callers, Failed(c) PROVE PageInv' BY <1>1, <2>5, FailureKeepsPage
    <2>6. ASSUME NEW f \in Filters, runQuery(f) PROVE PageInv'
      BY <1>1, <2>6, FilterKeepsPage
    <2>7. CASE loadMore BY <1>1, <2>1, <2>7, LoadMoreKeepsPage
    <2>8. CASE runQueryThen BY <1>1, <2>1, <2>8, FirstPageShown
    <2>9. CASE loadMoreThen BY <1>1, <2>1, <2>9, NextPageShown
    <2>10. CASE setHideSyncNoise BY <1>1, <2>10, BoxKeepsPage
    <2> QED BY <1>1, <2>3, <2>4, <2>5, <2>6, <2>7, <2>8, <2>9, <2>10 DEF PageNext, vars
  <1>2. Inv /\ Inv' /\ IntactInv /\ PageInv /\ [PageNext]_vars => PageInv' BY <1>1
  <1> QED BY PageOnlyReads, Invariance, IntactHolds, InitPage, <1>2, PTL DEF PageSpec

(* The list on screen has no hole and no row twice, however many rows were   *)
(* written while its pages were loading, for every page and batch size:      *)
(* provided the filters are left alone while "load more" is loading.         *)
THEOREM ListIsGapFree == PatientAdmin => (PageSpec => []GapFreeWindow)
  <1> SUFFICES ASSUME PatientAdmin PROVE PageSpec => []GapFreeWindow OBVIOUS
  <1>1. PageInv => GapFreeWindow BY DEF PageInv
  <1> QED BY PageInvHolds, <1>1, PTL

(* When no "load more" button is offered every older row that matches has    *)
(* been loaded, unless all that was loaded is hidden noise or the search     *)
(* gave up at its cap.                                                       *)
THEOREM EndIsTheEnd == PatientAdmin => (PageSpec => []EndMeansEnd)
  <1> SUFFICES ASSUME PatientAdmin PROVE PageSpec => []EndMeansEnd OBVIOUS
  <1>1. PageInv => EndMeansEnd
    <2>1. ~Offered /\ ~OnlyNoise => ~hasMore BY DEF Offered, OnlyNoise
    <2> QED BY <2>1 DEF PageInv, NoMoreIsEnd, EndMeansEnd
  <1> QED BY PageInvHolds, <1>1, PTL
=============================================================================
