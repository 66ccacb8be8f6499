---------------------------- MODULE SetupProofs ----------------------------
(***************************************************************************)
(* Proved of first-time setup for any number of requests, addresses, users,  *)
(* feeds and starts: how many wrong tokens one process answers, that nothing *)
(* is left in plaintext once it serves, and that the issuer alone tells      *)
(* whether OIDC is configured.                                               *)
(***************************************************************************)
EXTENDS Setup, FiniteSetTheorems, TLAPS

-----------------------------------------------------------------------------
(* The bootstrap gate *)

PCs == {"idle", "gate", "token", "run", "prefix", "complete"}

GateType == [completed : BOOLEAN, paused : BOOLEAN, globalFailures : Nat,
             failures : [Addrs -> Nat], wait : [Addrs -> BOOLEAN]]

Anywhere == Addrs \cup {CHOOSE a \in Addrs : TRUE}

ReqRecord == [pc : PCs, kind : {"none", "configure", "prefix", "complete", "update", "delete"},
              addr : Anywhere, good : BOOLEAN, keys : Seq(OidcKeys)]

(* A request that writes has something left to write.                        *)
ReqType ==
  {q \in ReqRecord : (q.pc = "run" /\ q.kind \in {"configure", "update", "delete"}) => q.keys # << >>}

(* Requests that Middleware has let through and whose token it has not seen. *)
Past == {r \in Requests : req[r].pc \in {"gate", "token"}}

(* Each of them can still add one failure, whatever the pause says by then.  *)
GateInv ==
  /\ gate \in GateType
  /\ req \in [Requests -> ReqType]
  /\ ~gate.paused => gate.globalFailures <= failuresBeforeGlobalPause - 1
  /\ gate.globalFailures + Cardinality(Past)
       <= failuresBeforeGlobalPause - 1 + Cardinality(Requests)

LEMMA IdleType == Idle \in ReqType /\ Idle.pc = "idle" /\ Addrs \subseteq Anywhere
<1> DEFINE any == CHOOSE a \in Addrs : TRUE
<1>1. Idle = [pc |-> "idle", kind |-> "none", addr |-> any, good |-> FALSE, keys |-> << >>]
      /\ any \in Anywhere /\ Addrs \subseteq Anywhere
  BY DEF Idle, Anywhere
<1> HIDE DEF any
<1> QED BY <1>1 DEF ReqType, ReqRecord, PCs

LEMMA NewGateType == NewGate \in GateType /\ ~NewGate.paused /\ NewGate.globalFailures = 0
BY DEF NewGate, GateType

LEMMA PastFinite ==
  /\ IsFiniteSet(Past) /\ Cardinality(Past) \in Nat
  /\ Cardinality(Requests) \in Nat /\ Cardinality(Past) <= Cardinality(Requests)
<1>1. Past \in SUBSET Requests
  BY DEF Past
<1> QED BY <1>1, SetupAssumption, FS_Subset, FS_CardinalityType

(* Steps that fail no token and let no request past the first look.          *)
LEMMA GateKeeps ==
  ASSUME GateInv, gate' \in GateType, req' \in [Requests -> ReqType],
         gate'.globalFailures = gate.globalFailures, gate'.paused = gate.paused,
         \A r \in Requests : req'[r].pc \in {"gate", "token"} => req[r].pc \in {"gate", "token"}
  PROVE  GateInv'
<1>1. Past' \in SUBSET Past
  BY DEF Past
<1>2. Cardinality(Past') <= Cardinality(Past) /\ Cardinality(Past') \in Nat
  BY <1>1, PastFinite, FS_Subset, FS_CardinalityType
<1> QED BY <1>2, PastFinite, SetupAssumption DEF GateInv, GateType

(* A step that ends a request, or moves it on past the gate.                 *)
LEMMA MovesOn ==
  ASSUME GateInv, gate' \in GateType,
         gate'.globalFailures = gate.globalFailures, gate'.paused = gate.paused,
         NEW r \in Requests, NEW q \in ReqType,
         q.pc \in {"gate", "token"} => req[r].pc \in {"gate", "token"},
         req' = [req EXCEPT ![r] = q]
  PROVE  GateInv'
<1>1. /\ req' \in [Requests -> ReqType]
      /\ \A x \in Requests : req'[x].pc \in {"gate", "token"} => req[x].pc \in {"gate", "token"}
  BY DEF GateInv
<1> QED BY <1>1, GateKeeps

LEMMA Counted ==
  ASSUME NEW f \in [Addrs -> Nat], NEW a
  PROVE  [f EXCEPT ![a] = @ + 1] \in [Addrs -> Nat]
<1>1. CASE a \in Addrs
  <2>1. f[a] + 1 \in Nat
    BY <1>1
  <2> QED BY <1>1, <2>1
<1>2. CASE a \notin Addrs
  <2>1. [f EXCEPT ![a] = @ + 1] = f
    BY <1>2
  <2> QED BY <2>1
<1> QED BY <1>1, <1>2

LEMMA ValidateKeeps ==
  ASSUME GateInv, NEW r \in Requests, Validate(r)
  PROVE  GateInv'
<1> DEFINE a == req[r].addr
<1>1. CASE req[r].good
  <2>1. gate' \in GateType /\ gate'.globalFailures = gate.globalFailures
        /\ gate'.paused = gate.paused
    <3> DEFINE F == [gate.failures EXCEPT ![a] = 0]
               W == [gate.wait EXCEPT ![a] = FALSE]
    <3>1. F \in [Addrs -> Nat] /\ W \in [Addrs -> BOOLEAN]
      BY DEF GateInv, GateType
    <3>2. gate' = [gate EXCEPT !.failures = F, !.wait = W]
      BY <1>1 DEF Validate, recordSuccess, GateInv, GateType
    <3> HIDE DEF F, W
    <3> QED BY <3>1, <3>2 DEF GateInv, GateType
  <2> DEFINE q == [req[r] EXCEPT !.pc = "run", !.keys = oidcOrder]
  <2>2. q \in ReqType /\ q.pc = "run"
    <3>1. oidcOrder \in Seq(OidcKeys) /\ oidcOrder # << >>
      BY DEF oidcOrder, OidcKeys
    <3> QED BY <3>1 DEF GateInv, ReqType, ReqRecord, PCs
  <2>3. req' = [req EXCEPT ![r] = q]
    BY <1>1 DEF Validate, GateInv, ReqType, ReqRecord
  <2> HIDE DEF q
  <2> QED BY <2>1, <2>2, <2>3, MovesOn
<1>2. CASE ~req[r].good
  <2>1. /\ gate' \in GateType
        /\ gate'.globalFailures = gate.globalFailures + 1
        /\ ~gate'.paused => gate.globalFailures + 1 < failuresBeforeGlobalPause
    <3> DEFINE F == [gate.failures EXCEPT ![a] = @ + 1]
               W == [gate.wait EXCEPT ![a] = TRUE]
               P == gate.paused \/ gate.globalFailures + 1 >= failuresBeforeGlobalPause
    <3>1. F \in [Addrs -> Nat] /\ W \in [Addrs -> BOOLEAN]
      <4>1. gate.failures \in [Addrs -> Nat] /\ gate.wait \in [Addrs -> BOOLEAN]
        BY DEF GateInv, GateType
      <4> QED BY <4>1, Counted
    <3>4. P \in BOOLEAN
      BY Zenon
    <3>2. gate' = [gate EXCEPT !.failures = F, !.wait = W,
                               !.globalFailures = gate.globalFailures + 1, !.paused = P]
      BY <1>2 DEF Validate, recordFailure, GateInv, GateType
    <3>3. ~P => gate.globalFailures + 1 < failuresBeforeGlobalPause
      BY SetupAssumption DEF GateInv, GateType
    <3> HIDE DEF F, W, P
    <3>5. gate' \in GateType /\ gate'.globalFailures = gate.globalFailures + 1 /\ gate'.paused = P
      <4>1. gate \in GateType /\ gate.globalFailures + 1 \in Nat
        BY DEF GateInv, GateType
      <4> DEFINE h == gate'
                 n == gate.globalFailures + 1
      <4>2. h = [gate EXCEPT !.failures = F, !.wait = W, !.globalFailures = n, !.paused = P]
        BY <3>2
      <4> HIDE DEF h, n
      <4>3. n \in Nat
        BY <4>1 DEF n
      <4>4. h \in GateType /\ h.globalFailures = n /\ h.paused = P
        BY <3>1, <3>4, <4>1, <4>2, <4>3 DEF GateType
      <4> QED BY <4>4 DEF h, n
    <3> QED BY <3>3, <3>5, Zenon
  <2>2. req' = [req EXCEPT ![r] = Idle] /\ r \in Past
    BY <1>2 DEF Validate, Done, Past
  <2>3. Past' = Past \ {r} /\ req' \in [Requests -> ReqType]
    BY <2>2, IdleType DEF Past, GateInv
  <2>4. Cardinality(Past') = Cardinality(Past) - 1
    BY <2>2, <2>3, PastFinite, FS_RemoveElement
  <2> QED BY <2>1, <2>3, <2>4, PastFinite, SetupAssumption DEF GateInv, GateType
<1> QED BY <1>1, <1>2

LEMMA MiddlewareKeeps ==
  ASSUME GateInv, NEW r \in Requests, NEW a \in Addrs, NEW kind \in WizardKinds,
         NEW good \in BOOLEAN, Middleware(r, a, kind, good)
  PROVE  GateInv'
<1> DEFINE q == [Idle EXCEPT !.pc = "gate", !.kind = kind, !.addr = a, !.good = good]
<1>1. q \in ReqType
  BY IdleType DEF ReqType, ReqRecord, PCs, WizardKinds
<1>2. ~gate.paused /\ gate' = gate /\ req' = [req EXCEPT ![r] = q]
  BY DEF Middleware, Begin
<1>3. req' \in [Requests -> ReqType]
  BY <1>1, <1>2 DEF GateInv
<1>4. Past' \in SUBSET Requests
  BY DEF Past
<1>5. Cardinality(Past') <= Cardinality(Requests) /\ Cardinality(Past') \in Nat
  BY <1>4, FS_Subset, FS_CardinalityType, SetupAssumption
<1> QED BY <1>2, <1>3, <1>5, PastFinite, SetupAssumption DEF GateInv, GateType

LEMMA ServeKeeps ==
  ASSUME GateInv, NEW r \in Requests, Serve(r)
  PROVE  GateInv'
<1> USE DEF GateInv
<1>1. ASSUME NEW a \in Addrs, NEW kind \in WizardKinds, NEW good \in BOOLEAN,
             Middleware(r, a, kind, good)
      PROVE  GateInv'
  BY <1>1, MiddlewareKeeps
<1>2. CASE Validate(r)
  BY <1>2, ValidateKeeps
<1>3. ASSUME gate' = gate, NEW q \in ReqType, q.pc \notin {"gate", "token"},
             req' = [req EXCEPT ![r] = q]
      PROVE  GateInv'
  BY <1>3, MovesOn
<1>4. ASSUME gate' = gate, NEW pc \in PCs \ {"run"},
             pc \in {"gate", "token"} => req[r].pc \in {"gate", "token"}, Goto(r, pc)
      PROVE  GateInv'
  <2> DEFINE q == [req[r] EXCEPT !.pc = pc]
  <2>1. q \in ReqType /\ q.pc = pc
    BY <1>4 DEF ReqType, ReqRecord
  <2>2. req' = [req EXCEPT ![r] = q]
    BY <1>4 DEF Goto, ReqType, ReqRecord
  <2> HIDE DEF q
  <2> QED BY <1>4, <2>1, <2>2, MovesOn
<1>5. ASSUME gate' = gate, Done(r)
      PROVE  GateInv'
  BY <1>3, <1>5, IdleType DEF Done
<1>6. CASE blockedFor(r)
  BY <1>4, <1>5, <1>6 DEF blockedFor, PCs
<1>7. ASSUME NEW keep \in BOOLEAN, OIDCUpdate(r, keep)
      PROVE  GateInv'
  <2> DEFINE keys == IF keep THEN <<"issuer", "client">> ELSE oidcOrder
             q == [Idle EXCEPT !.pc = "run", !.kind = "update", !.keys = keys]
  <2>1. keys \in Seq(OidcKeys) /\ keys # << >>
    <3>1. <<"issuer", "client">> \in Seq(OidcKeys)
      BY DEF OidcKeys
    <3>2. oidcOrder \in Seq(OidcKeys) /\ oidcOrder # << >>
      BY DEF oidcOrder, OidcKeys
    <3> QED BY <3>1, <3>2
  <2> HIDE DEF keys
  <2>2. q \in ReqType /\ q.pc = "run"
    BY <2>1, IdleType DEF ReqType, ReqRecord, PCs
  <2>3. gate' = gate /\ req' = [req EXCEPT ![r] = q]
    BY <1>7 DEF OIDCUpdate, Begin, keys
  <2> QED BY <1>3, <2>2, <2>3
<1>8. CASE OIDCDelete(r)
  <2> DEFINE q == [Idle EXCEPT !.pc = "run", !.kind = "delete", !.keys = deleteOrder]
  <2>1. deleteOrder \in Seq(OidcKeys) /\ deleteOrder # << >>
    BY DEF deleteOrder, OidcKeys
  <2>2. q \in ReqType /\ q.pc = "run"
    BY <2>1, IdleType DEF ReqType, ReqRecord, PCs
  <2>3. gate' = gate /\ req' = [req EXCEPT ![r] = q]
    BY <1>8 DEF OIDCDelete, Begin
  <2> QED BY <1>3, <2>2, <2>3
<1>9. CASE WriteKey(r)
  <2> DEFINE rest == Tail(req[r].keys)
             q == IF rest = << >> THEN Idle ELSE [req[r] EXCEPT !.keys = rest]
  <2>1. req[r].keys \in Seq(OidcKeys) /\ req[r].keys # << >> /\ req[r].pc = "run"
    BY <1>9 DEF WriteKey, Writing, ReqType, ReqRecord
  <2>2. rest \in Seq(OidcKeys)
    BY <2>1
  <2> HIDE DEF rest
  <2>3. q \in ReqType /\ q.pc \in {"idle", "run"}
    BY <2>1, <2>2, IdleType DEF ReqType, ReqRecord
  <2>4. gate' = gate /\ req' = [req EXCEPT ![r] = q]
    BY <1>9 DEF WriteKey, rest
  <2> HIDE DEF q
  <2> QED BY <1>3, <2>3, <2>4
<1>10. CASE Cancel(r) \/ GroupPrefixConfigure(r)
  BY <1>5, <1>10 DEF Cancel, GroupPrefixConfigure
<1>11. CASE missingSteps(r) \/ missingPrefix(r)
  BY <1>4, <1>5, <1>11 DEF missingSteps, missingPrefix, PCs
<1>12. CASE Complete(r)
  <2>1. gate' \in GateType /\ gate'.globalFailures = gate.globalFailures
        /\ gate'.paused = gate.paused
    BY <1>12 DEF Complete, GateType
  <2>2. req' = [req EXCEPT ![r] = Idle]
    BY <1>12 DEF Complete, Done
  <2> QED BY <2>1, <2>2, MovesOn, IdleType
<1> QED BY <1>1, <1>2, <1>6, <1>7, <1>8, <1>9, <1>10, <1>11, <1>12 DEF Serve

LEMMA GateNext ==
  ASSUME GateInv, [Next]_vars
  PROVE  GateInv'
<1>1. ASSUME gate' \in GateType, gate'.globalFailures = gate.globalFailures,
             gate'.paused = gate.paused, req' = req
      PROVE  GateInv'
  BY <1>1, GateKeeps DEF GateInv
<1>2. ASSUME gate' = gate, req' = req
      PROVE  GateInv'
  BY <1>1, <1>2 DEF GateInv
<1>3. CASE Start
  <2>1. gate' = NewGate /\ req' = req
    BY <1>3 DEF Start
  <2>2. Past' = Past
    BY <2>1 DEF Past
  <2> QED BY <2>1, <2>2, NewGateType, PastFinite, SetupAssumption DEF GateInv
<1>4. CASE migrateEncryptionV1 \/ MigratedV1 \/ migrateEncryptionV2NewsFeeds \/ SetVersionFlag
  BY <1>2, <1>4 DEF migrateEncryptionV1, MigratedV1, migrateEncryptionV2NewsFeeds, SetVersionFlag
<1>5. CASE DecideGate
  <2>1. WizardComplete \in BOOLEAN
    BY Zenon DEF WizardComplete
  <2>2. gate' = [gate EXCEPT !.completed = WizardComplete] /\ req' = req
    BY <1>5 DEF DecideGate
  <2> QED BY <1>1, <2>1, <2>2 DEF GateInv, GateType
<1>6. CASE Crash
  <2>1. gate' = gate /\ req' = [r \in Requests |-> Idle]
    BY <1>6 DEF Crash
  <2> QED BY <2>1, IdleType, GateKeeps DEF GateInv
<1>7. CASE AdminLogin \/ UNCHANGED vars
  BY <1>2, <1>7 DEF AdminLogin, vars
<1>8. ASSUME NEW a \in Addrs, WaitOver(a)
      PROVE  GateInv'
  BY <1>1, <1>8 DEF WaitOver, GateInv, GateType
<1>9. ASSUME NEW r \in Requests, Serve(r)
      PROVE  GateInv'
  BY <1>9, ServeKeeps
<1> QED BY <1>3, <1>4, <1>5, <1>6, <1>7, <1>8, <1>9 DEF Next, Boot

LEMMA GateStart == Init => GateInv
<1> SUFFICES ASSUME Init PROVE GateInv
  OBVIOUS
<1>1. gate = NewGate /\ req = [r \in Requests |-> Idle]
  BY DEF Init
<1>2. Past = {}
  BY <1>1, IdleType DEF Past
<1> QED BY <1>1, <1>2, IdleType, NewGateType, FS_EmptySet, PastFinite, SetupAssumption DEF GateInv

(* However many requests interleave in Middleware, one process answers at    *)
(* most one wrong token for each of them beyond its limit.                   *)
THEOREM GuessesAlwaysBounded == Spec => []GuessesBounded
<1>1. GateInv => GuessesBounded
  BY PastFinite, SetupAssumption DEF GateInv, GateType, GuessesBounded
<1> QED BY <1>1, GateStart, GateNext, PTL DEF Spec

-----------------------------------------------------------------------------
(* The encryption migration *)

(* SetToSeq lists every element.                                             *)
LEMMA ListsAll ==
  ASSUME NEW S, IsFiniteSet(S)
  PROVE  SetToSeq(S) \in Seq(S) /\ ToSet(SetToSeq(S)) = S
<1> DEFINE n == Cardinality(S)
           f == SetToSeq(S)
<1>1. n \in Nat /\ ExistsBijection(1 .. n, S) /\ IsFiniteSet(1 .. n) /\ Cardinality(1 .. n) = n
  BY FS_CardinalityType, FS_Interval
<1>2. \E g \in [1 .. n -> S] : IsInjective(g)
  BY <1>1 DEF ExistsBijection, Bijection, Injection
<1>3. f \in [1 .. n -> S] /\ IsInjective(f)
  BY <1>2 DEF SetToSeq
<1> HIDE DEF f
<1>4. f \in Injection(1 .. n, S)
  BY <1>3 DEF Injection
<1>5. f \in Surjection(1 .. n, S)
  BY <1>1, <1>4, FS_Injection
<1>6. f \in Seq(S) /\ DOMAIN f = 1 .. n
  BY <1>1, <1>3
<1>7. ToSet(f) = S
  BY <1>3, <1>5 DEF ToSet, Surjection
<1> QED BY <1>6, <1>7 DEF f

Work == Users \cup Feeds \cup OidcKeys

(* What is still in plaintext is on the migration's list, or a migration is  *)
(* yet to come.                                                              *)
EncInv ==
  /\ phase \in {"down", "v1", "v2", "check", "serving"}
  /\ todo \in Seq(Work) /\ version \in {0, 1, 2}
  /\ oidc \in [OidcKeys -> Nat \cup {Absent}]
  /\ user \in [Users -> Nat] /\ feed \in [Feeds -> {0, 1}]
  /\ \A u \in Users : user[u] = 0 =>
        version = 0 /\ (phase = "down" \/ (phase = "v1" /\ u \in ToSet(todo)))
  /\ \A k \in OidcKeys : oidc[k] = 0 =>
        k # "secret" /\ version = 0 /\ (phase = "down" \/ (phase = "v1" /\ k \in ToSet(todo)))
  /\ \A f \in Feeds : feed[f] = 0 =>
        version < 2 /\ (phase \in {"down", "v1"} \/ (phase = "v2" /\ f \in ToSet(todo)))

LEMMA TailOf ==
  ASSUME NEW S, NEW s \in Seq(S), s # << >>
  PROVE  /\ Tail(s) \in Seq(S) /\ Head(s) \in S
         /\ \A x \in ToSet(s) : x = Head(s) \/ x \in ToSet(Tail(s))
<1>1. Tail(s) \in Seq(S) /\ Head(s) = s[1] /\ Len(s) \in Nat \ {0} /\ DOMAIN s = 1 .. Len(s)
      /\ DOMAIN Tail(s) = 1 .. Len(s) - 1 /\ \A i \in 1 .. Len(s) - 1 : Tail(s)[i] = s[i + 1]
  OBVIOUS
<1>2. ASSUME NEW x \in ToSet(s), x # Head(s)
      PROVE  x \in ToSet(Tail(s))
  <2>1. PICK i \in 1 .. Len(s) : x = s[i]
    BY <1>1 DEF ToSet
  <2>2. i - 1 \in 1 .. Len(s) - 1 /\ Tail(s)[i - 1] = x
    BY <1>1, <1>2, <2>1
  <2> QED BY <1>1, <2>2 DEF ToSet
<1>3. Head(s) \in S
  OBVIOUS
<1> QED BY <1>1, <1>2, <1>3

(* Steps that neither migrate nor start, and store keys once encrypted.      *)
LEMMA EncStays ==
  ASSUME EncInv, UNCHANGED <<phase, todo, version, user, feed>>,
         oidc' \in [OidcKeys -> Nat \cup {Absent}],
         \A k \in OidcKeys : oidc'[k] = 0 => oidc[k] = 0
  PROVE  EncInv'
BY DEF EncInv

LEMMA EncNext ==
  ASSUME EncInv, GateInv, [Next]_vars
  PROVE  EncInv'
<1>1. ASSUME UNCHANGED <<phase, todo, version, oidc, user, feed>>
      PROVE  EncInv'
  BY <1>1, EncStays DEF EncInv
<1>2. CASE Start
  <2>1. /\ UNCHANGED <<version, oidc, user, feed>> /\ phase = "down"
        /\ \/ version >= 2 /\ phase' = "check" /\ todo' = << >>
           \/ version = 1 /\ phase' = "v2" /\ todo' = SetToSeq(Feeds)
           \/ version = 0 /\ phase' = "v1" /\ todo' = SetToSeq(Users) \o <<"issuer", "client">>
    BY <1>2 DEF Start, stored, EncInv
  <2>2. CASE version >= 2 /\ phase' = "check" /\ todo' = << >>
    BY <2>1, <2>2 DEF EncInv
  <2>3. CASE version = 1 /\ phase' = "v2" /\ todo' = SetToSeq(Feeds)
    <3>1. SetToSeq(Feeds) \in Seq(Work) /\ ToSet(SetToSeq(Feeds)) = Feeds
      BY ListsAll, SetupAssumption DEF Work
    <3> QED BY <2>1, <2>3, <3>1 DEF EncInv
  <2>4. CASE version = 0 /\ phase' = "v1" /\ todo' = SetToSeq(Users) \o <<"issuer", "client">>
    <3> DEFINE us == SetToSeq(Users)
               oo == <<"issuer", "client">>
    <3>1. us \in Seq(Users) /\ ToSet(us) = Users
      BY ListsAll, SetupAssumption
    <3>2. us \in Seq(Work) /\ oo \in Seq(Work)
      BY <3>1 DEF Work, OidcKeys
    <3> HIDE DEF us
    <3>3. todo' \in Seq(Work)
      BY <2>4, <3>2 DEF us
    <3>4. Users \subseteq ToSet(us \o oo) /\ {"issuer", "client"} \subseteq ToSet(us \o oo)
      <4>1. /\ DOMAIN us = 1 .. Len(us) /\ Len(us) \in Nat /\ DOMAIN (us \o oo) = 1 .. Len(us) + 2
            /\ \A i \in 1 .. Len(us) : (us \o oo)[i] = us[i]
            /\ (us \o oo)[Len(us) + 1] = "issuer" /\ (us \o oo)[Len(us) + 2] = "client"
        BY <3>2
      <4> HIDE DEF oo
      <4>2. ASSUME NEW u \in Users PROVE u \in ToSet(us \o oo)
        <5>1. PICK i \in 1 .. Len(us) : u = us[i]
          BY <3>1, <4>1 DEF ToSet
        <5>2. i \in 1 .. Len(us) + 2 /\ (us \o oo)[i] = u
          BY <4>1, <5>1
        <5> QED BY <4>1, <5>2 DEF ToSet
      <4>3. Len(us) + 1 \in 1 .. Len(us) + 2 /\ Len(us) + 2 \in 1 .. Len(us) + 2
        BY <4>1
      <4> QED BY <4>1, <4>2, <4>3 DEF ToSet
    <3> QED BY <2>1, <2>4, <3>3, <3>4 DEF EncInv, OidcKeys, us
  <2> QED BY <2>1, <2>2, <2>3, <2>4
<1>3. CASE migrateEncryptionV1
  <2>1. phase = "v1" /\ todo # << >> /\ todo' = Tail(todo) /\ UNCHANGED <<phase, version, feed>>
    BY <1>3 DEF migrateEncryptionV1
  <2>2. /\ Tail(todo) \in Seq(Work)
        /\ \A x \in ToSet(todo) : x = Head(todo) \/ x \in ToSet(Tail(todo))
    BY <2>1, TailOf DEF EncInv
  <2>3. CASE Head(todo) \in Users
    <3>1. user' = [user EXCEPT ![Head(todo)] = Encrypt(@)] /\ oidc' = oidc
      BY <1>3, <2>3 DEF migrateEncryptionV1
    <3>2. \A n \in Nat : Encrypt(n) = n + 1
      BY DEF Encrypt, Absent
    <3>3. \A k \in OidcKeys : k # "secret" => k # Head(todo)
      BY <2>3, SetupAssumption DEF OidcKeys
    <3>4. user \in [Users -> Nat] /\ user[Head(todo)] \in Nat
      BY <2>3 DEF EncInv
    <3>5. user' = [user EXCEPT ![Head(todo)] = user[Head(todo)] + 1]
      BY <3>1, <3>2, <3>4
    <3>6. user' \in [Users -> Nat] /\ \A u \in Users : user'[u] = 0 => user[u] = 0 /\ u # Head(todo)
      BY <2>3, <3>4, <3>5
    <3> QED BY <2>1, <2>2, <3>1, <3>3, <3>6 DEF EncInv
  <2>4. CASE Head(todo) \notin Users
    <3>1. oidc' = [oidc EXCEPT ![Head(todo)] = Encrypt(@)] /\ user' = user
      BY <1>3, <2>4 DEF migrateEncryptionV1
    <3>2. \A n \in Nat \cup {Absent} : Encrypt(n) \in Nat \cup {Absent} /\ Encrypt(n) # 0
      BY DEF Encrypt, Absent
    <3>3. /\ oidc' \in [OidcKeys -> Nat \cup {Absent}]
          /\ \A k \in OidcKeys : oidc'[k] = 0 => oidc[k] = 0 /\ k # Head(todo)
      BY <3>1, <3>2 DEF EncInv
    <3> QED BY <2>1, <2>2, <2>4, <3>1, <3>3 DEF EncInv
  <2> QED BY <2>3, <2>4
<1>4. CASE MigratedV1
  <2>1. /\ phase = "v1" /\ todo = << >> /\ phase' = "v2" /\ todo' = SetToSeq(Feeds)
        /\ UNCHANGED <<version, oidc, user, feed>>
    BY <1>4 DEF MigratedV1, stored
  <2>2. SetToSeq(Feeds) \in Seq(Work) /\ ToSet(SetToSeq(Feeds)) = Feeds /\ ToSet(<< >>) = {}
    BY ListsAll, SetupAssumption DEF Work, ToSet
  <2> QED BY <2>1, <2>2 DEF EncInv
<1>5. CASE migrateEncryptionV2NewsFeeds
  <2>1. /\ phase = "v2" /\ todo # << >> /\ todo' = Tail(todo)
        /\ UNCHANGED <<phase, version, user, oidc>>
        /\ feed' = [feed EXCEPT ![Head(todo)] = FeedEncrypted(@)]
    BY <1>5 DEF migrateEncryptionV2NewsFeeds
  <2>2. /\ Tail(todo) \in Seq(Work)
        /\ \A x \in ToSet(todo) : x = Head(todo) \/ x \in ToSet(Tail(todo))
    BY <2>1, TailOf DEF EncInv
  <2>3. \A n \in {0, 1} : FeedEncrypted(n) = 1
    BY DEF FeedEncrypted, Encrypt, Absent
  <2> DEFINE h == Head(todo)
             v == FeedEncrypted(feed[h])
  <2>5. feed \in [Feeds -> {0, 1}] /\ feed' = [feed EXCEPT ![h] = v]
    BY <2>1 DEF EncInv
  <2>6. h \in Feeds => v = 1
    BY <2>3, <2>5
  <2> HIDE DEF h, v
  <2>4. feed' \in [Feeds -> {0, 1}] /\ \A f \in Feeds : feed'[f] = 0 => feed[f] = 0 /\ f # h
    <3>1. CASE h \in Feeds
      BY <2>5, <2>6, <3>1
    <3>2. CASE h \notin Feeds
      <4>1. feed' \in [Feeds -> {0, 1}] /\ feed' = feed
        BY <2>5, <3>2
      <4> QED BY <3>2, <4>1
    <3> QED BY <3>1, <3>2
  <2> QED BY <2>1, <2>2, <2>4 DEF EncInv, h
<1>6. CASE SetVersionFlag
  <2>1. ToSet(<< >>) = {}
    BY DEF ToSet
  <2> QED BY <1>6, <2>1 DEF SetVersionFlag, EncInv
<1>7. CASE DecideGate
  BY <1>7 DEF DecideGate, EncInv, stored
<1>8. CASE Crash
  BY <1>8 DEF Crash, EncInv, stored
<1>9. CASE AdminLogin \/ UNCHANGED vars
  BY <1>1, <1>9 DEF AdminLogin, vars
<1>10. ASSUME NEW a \in Addrs, WaitOver(a)
       PROVE  EncInv'
  BY <1>1, <1>10 DEF WaitOver, stored
<1>11. ASSUME NEW r \in Requests, Serve(r)
       PROVE  EncInv'
  <2>1. CASE WriteKey(r)
    <3>1. /\ UNCHANGED <<phase, todo, version, user, feed>>
          /\ oidc' = [oidc EXCEPT ![Head(req[r].keys)] = IF req[r].kind = "delete" THEN Absent ELSE 1]
      BY <2>1 DEF WriteKey
    <3> DEFINE k0 == Head(req[r].keys)
               w == IF req[r].kind = "delete" THEN Absent ELSE 1
    <3>2. oidc \in [OidcKeys -> Nat \cup {Absent}] /\ oidc' = [oidc EXCEPT ![k0] = w]
      BY <3>1 DEF EncInv
    <3>3. w \in Nat \cup {Absent} /\ w # 0
      BY DEF Absent
    <3> HIDE DEF k0, w
    <3>4. /\ oidc' \in [OidcKeys -> Nat \cup {Absent}]
          /\ \A k \in OidcKeys : oidc'[k] = 0 => oidc[k] = 0
      BY <3>2, <3>3
    <3> QED BY <3>1, <3>4, EncStays
  <2>2. CASE ~WriteKey(r)
    <3>1. UNCHANGED <<phase, todo, version, oidc, user, feed>>
      BY <1>11, <2>2 DEF Serve, Middleware, blockedFor, Validate, OIDCUpdate, OIDCDelete, Cancel,
         GroupPrefixConfigure, missingSteps, missingPrefix, Complete, stored
    <3> QED BY <1>1, <3>1
  <2> QED BY <2>1, <2>2
<1> QED BY <1>2, <1>3, <1>4, <1>5, <1>6, <1>7, <1>8, <1>9, <1>10, <1>11 DEF Next, Boot

LEMMA EncStart == Init => EncInv
<1> SUFFICES ASSUME Init PROVE EncInv
  OBVIOUS
<1>1. phase = "down" /\ todo = << >> /\ version \in {0, 1}
  BY DEF Init
<1>2. user \in [Users -> Nat] /\ \A u \in Users : user[u] = 0 => version = 0
  BY DEF Init, Layers
<1>3. feed \in [Feeds -> {0, 1}]
  BY DEF Init, Layers
<1>4. /\ oidc \in [OidcKeys -> Nat \cup {Absent}]
      /\ \A k \in OidcKeys : oidc[k] = 0 => k # "secret" /\ version = 0
  <2>1. CASE oidc = [k \in OidcKeys |-> IF k = "secret" THEN 1 ELSE version]
    BY <1>1, <2>1
  <2>2. CASE oidc = [k \in OidcKeys |-> Absent]
    BY <2>2 DEF Absent
  <2> QED BY <2>1, <2>2 DEF Init
<1> QED BY <1>1, <1>2, <1>3, <1>4 DEF EncInv

(* Interrupted anywhere and started again any number of times: a process     *)
(* that serves has no plaintext in users or the OIDC keys, and feeds that    *)
(* are encrypted once (MigrateToEncryptedStorage).                           *)
THEOREM AlwaysEncryptedWhenServing == Spec => []EncryptedWhenServing
<1>1. EncInv => EncryptedWhenServing
  BY DEF EncInv, EncryptedWhenServing
<1> QED BY <1>1, EncStart, EncNext, GateStart, GateNext, PTL DEF Spec

-----------------------------------------------------------------------------
(* The OIDC settings *)

(* What a request can have left to write, and a deletion to delete.          *)
DeleteTails == {<<"issuer", "client", "secret">>, <<"client", "secret">>, <<"secret">>}
KeyTails == DeleteTails \cup {<<"issuer", "client">>, <<"client">>}

(* A write that began alone leaves every key it has passed, or does not      *)
(* touch, in place; a deletion takes the issuer first.                       *)
Whole ==
  /\ \A q, r \in Requests : Writing(q) /\ Writing(r) => q = r
  /\ \A r \in Requests : HalfWritten(r) =>
       \A k \in OidcKeys : k \in ToSet(req[r].keys) \/ oidc[k] # Absent
  /\ \A r \in Requests : (Writing(r) /\ req[r].kind = "delete" /\ Head(req[r].keys) # "issuer") =>
       oidc["issuer"] = Absent
  /\ (OIDCConfigured /\ \A r \in Requests : ~HalfWritten(r)) => \A k \in OidcKeys : oidc[k] # Absent

AtGate(r) == req[r].pc \in {"gate", "token"}

IssuerInv ==
  /\ cut \in BOOLEAN
  /\ \A r \in Requests : AtGate(r) => req[r].kind \in WizardKinds
  /\ \A r \in Requests : Writing(r) =>
       req[r].keys \in IF req[r].kind = "delete" THEN DeleteTails ELSE KeyTails
  /\ ~cut => Whole

LEMMA KeyTailType == \A s \in KeyTails : s \in Seq(OidcKeys) /\ s # << >>
<1>1. {"issuer", "client", "secret"} \subseteq OidcKeys
  BY DEF OidcKeys
<1>2. <<"issuer", "client", "secret">> \in Seq(OidcKeys) /\ <<"client", "secret">> \in Seq(OidcKeys)
  BY <1>1
<1>3. <<"secret">> \in Seq(OidcKeys) /\ <<"issuer", "client">> \in Seq(OidcKeys)
      /\ <<"client">> \in Seq(OidcKeys)
  BY <1>1
<1>4. /\ <<"issuer", "client", "secret">> # << >> /\ <<"client", "secret">> # << >>
      /\ <<"secret">> # << >> /\ <<"issuer", "client">> # << >> /\ <<"client">> # << >>
  OBVIOUS
<1> QED BY <1>2, <1>3, <1>4, Zenon DEF KeyTails, DeleteTails

LEMMA KeyTailFacts ==
  /\ \A s \in KeyTails : /\ Head(s) \in OidcKeys
                         /\ Tail(s) = << >> \/ Tail(s) \in KeyTails
                         /\ \A k \in ToSet(s) : k = Head(s) \/ k \in ToSet(Tail(s))
  /\ \A s \in DeleteTails : /\ Tail(s) = << >> \/ Tail(s) \in DeleteTails
                            /\ Tail(s) # << >> => Head(Tail(s)) # "issuer"
  /\ \A k : k \notin ToSet(<< >>)
  /\ oidcOrder \in KeyTails /\ ToSet(oidcOrder) = OidcKeys
  /\ deleteOrder \in DeleteTails /\ Head(deleteOrder) = "issuer"
  /\ <<"issuer", "client">> \in KeyTails /\ ToSet(<<"issuer", "client">>) = {"issuer", "client"}
<1>1. \A s \in KeyTails : s \in Seq(OidcKeys) /\ s # << >>
  BY KeyTailType
<1>2. ASSUME NEW s \in KeyTails
      PROVE  /\ Head(s) \in OidcKeys
             /\ \A k \in ToSet(s) : k = Head(s) \/ k \in ToSet(Tail(s))
  BY <1>1, TailOf
<1>3. \A s \in DeleteTails : Tail(s) # << >> => Head(Tail(s)) # "issuer"
  BY DEF DeleteTails
<1>9. \A s \in DeleteTails : Tail(s) = << >> \/ Tail(s) \in DeleteTails
  <2>1. Tail(<<"issuer", "client", "secret">>) = <<"client", "secret">>
        /\ Tail(<<"client", "secret">>) = <<"secret">> /\ Tail(<<"secret">>) = << >>
    OBVIOUS
  <2> QED BY <2>1, Zenon DEF DeleteTails
<1>4. Tail(<<"issuer", "client">>) = <<"client">> /\ Tail(<<"client">>) = << >>
  OBVIOUS
<1>5. \A s \in KeyTails : Tail(s) = << >> \/ Tail(s) \in KeyTails
  <2> SUFFICES ASSUME NEW s \in KeyTails
               PROVE  Tail(s) = << >> \/ Tail(s) \in KeyTails
    OBVIOUS
  <2>1. s \in DeleteTails \/ s = <<"issuer", "client">> \/ s = <<"client">>
    BY DEF KeyTails
  <2>2. DeleteTails \subseteq KeyTails /\ <<"client">> \in KeyTails
    BY DEF KeyTails
  <2> HIDE DEF KeyTails, DeleteTails
  <2>3. CASE s \in DeleteTails
    BY <1>9, <2>2, <2>3
  <2>4. CASE s = <<"issuer", "client">>
    BY <1>4, <2>2, <2>4
  <2>5. CASE s = <<"client">>
    BY <1>4, <2>5
  <2> QED BY <2>1, <2>3, <2>4, <2>5
<1>6. \A k : k \notin ToSet(<< >>)
  BY DEF ToSet
<1>7. ToSet(oidcOrder) = OidcKeys
  BY DEF ToSet, oidcOrder, OidcKeys
<1>8. ToSet(<<"issuer", "client">>) = {"issuer", "client"}
  BY DEF ToSet
<1> QED BY <1>2, <1>3, <1>5, <1>6, <1>7, <1>8, <1>9 DEF KeyTails, DeleteTails, oidcOrder, deleteOrder

(* Steps that write no key: a request that ends, or moves on elsewhere.      *)
LEMMA IssuerStays ==
  ASSUME IssuerInv, cut' \in BOOLEAN,
         \A k \in OidcKeys : oidc'[k] = Absent <=> oidc[k] = Absent,
         \A r \in Requests : Writing(r)' => req'[r] = req[r],
         \A r \in Requests : AtGate(r)' => req'[r].kind \in WizardKinds,
         ~cut' => ~cut /\ \A r \in Requests : HalfWritten(r) => HalfWritten(r)'
  PROVE  IssuerInv'
<1>1. \A r \in Requests : /\ Writing(r)' => Writing(r)
                          /\ HalfWritten(r)' => Writing(r)' /\ HalfWritten(r)
  BY DEF Writing, HalfWritten
<1>2. \A r \in Requests : Writing(r)' =>
        req'[r].keys \in IF req'[r].kind = "delete" THEN DeleteTails ELSE KeyTails
  BY <1>1 DEF IssuerInv
<1>3. ~cut' => Whole'
  <2> SUFFICES ASSUME ~cut', Whole
               PROVE  Whole'
    BY DEF IssuerInv
  <2>1. "issuer" \in OidcKeys
    BY DEF OidcKeys
  <2>2. \A r \in Requests : HalfWritten(r)' =>
          \A k \in OidcKeys : k \in ToSet(req'[r].keys) \/ oidc'[k] # Absent
    BY <1>1 DEF Whole
  <2>3. OIDCConfigured' => OIDCConfigured
    BY <2>1 DEF OIDCConfigured
  <2>4. (OIDCConfigured' /\ \A r \in Requests : ~HalfWritten(r)') => \A k \in OidcKeys : oidc'[k] # Absent
    BY <2>3 DEF Whole
  <2>5. \A r \in Requests : (Writing(r)' /\ req'[r].kind = "delete" /\ Head(req'[r].keys) # "issuer") =>
          oidc'["issuer"] = Absent
    BY <1>1, <2>1 DEF Whole
  <2>6. \A q, r \in Requests : Writing(q)' /\ Writing(r)' => q = r
    BY <1>1 DEF Whole
  <2> QED BY <2>2, <2>4, <2>5, <2>6 DEF Whole
<1> QED BY <1>2, <1>3 DEF IssuerInv

(* A write or a deletion begins: alone, or the cut is noted.                 *)
LEMMA IssuerBegins ==
  ASSUME IssuerInv, req \in [Requests -> ReqType], cut' \in BOOLEAN, oidc' = oidc,
         NEW r \in Requests, NEW q \in ReqType, req' = [req EXCEPT ![r] = q], q.pc = "run",
         \/ q.kind = "delete" /\ q.keys \in DeleteTails /\ Head(q.keys) = "issuer"
         \/ q.kind \in {"configure", "update"} /\ q.keys \in KeyTails,
         ~cut' => /\ ~cut /\ \A x \in Requests : ~Writing(x)
                  /\ q.kind = "delete" \/ \A k \in OidcKeys : k \in ToSet(q.keys) \/ oidc[k] # Absent
  PROVE  IssuerInv'
<1>1. req'[r] = q /\ \A x \in Requests \ {r} : req'[x] = req[x]
  OBVIOUS
<1>2. \A x \in Requests \ {r} : (Writing(x)' <=> Writing(x)) /\ (HalfWritten(x)' <=> HalfWritten(x))
  BY <1>1 DEF Writing, HalfWritten
<1>3. Writing(r)' /\ (HalfWritten(r)' <=> q.kind # "delete")
  BY <1>1 DEF Writing, HalfWritten
<1>4. \A x \in Requests : /\ Writing(x)' => req'[x].keys \in IF req'[x].kind = "delete" THEN DeleteTails
                                                               ELSE KeyTails
                          /\ AtGate(x)' => req'[x].kind \in WizardKinds
  BY <1>1, <1>2 DEF IssuerInv, AtGate
<1>5. ASSUME ~cut'
      PROVE  Whole'
  <2>1. Whole /\ (\A x \in Requests : ~Writing(x) /\ ~HalfWritten(x))
    BY <1>5 DEF IssuerInv, Writing, HalfWritten
  <2>2. \A x \in Requests : (Writing(x)' => x = r) /\ (HalfWritten(x)' => x = r)
    BY <1>2, <2>1
  <2>3. (OIDCConfigured' /\ q.kind = "delete") => \A k \in OidcKeys : oidc'[k] # Absent
    BY <2>1 DEF Whole, OIDCConfigured
  <2> QED BY <1>1, <1>3, <1>5, <2>2, <2>3 DEF Whole
<1> QED BY <1>4, <1>5 DEF IssuerInv

LEMMA WriteKeeps ==
  ASSUME IssuerInv, GateInv, oidc \in [OidcKeys -> Nat \cup {Absent}],
         NEW r \in Requests, WriteKey(r)
  PROVE  IssuerInv'
<1> DEFINE s == req[r].keys
           rest == Tail(s)
           del == req[r].kind = "delete"
           w == IF del THEN Absent ELSE 1
           q == IF rest = << >> THEN Idle ELSE [req[r] EXCEPT !.keys = rest]
<1>1. /\ Writing(r) /\ oidc' = [oidc EXCEPT ![Head(s)] = w] /\ req' = [req EXCEPT ![r] = q]
      /\ UNCHANGED cut
  BY DEF WriteKey
<1>2. req \in [Requests -> ReqType] /\ req[r] \in ReqRecord /\ req[r].pc = "run"
      /\ (~del => HalfWritten(r)) /\ (del => ~HalfWritten(r))
  BY <1>1 DEF GateInv, ReqType, Writing, HalfWritten
<1>3. s \in KeyTails /\ (del => s \in DeleteTails) /\ Head(s) \in OidcKeys
  <2>1. s \in KeyTails /\ (del => s \in DeleteTails)
    BY <1>1 DEF IssuerInv, KeyTails
  <2> QED BY <2>1, KeyTailFacts
<1>4. /\ (q = Idle /\ rest = << >>) \/ (rest # << >> /\ q.pc = "run" /\ q.kind = req[r].kind /\ q.keys = rest)
      /\ Idle.pc = "idle"
  BY <1>2, IdleType DEF ReqRecord
<1>5. req'[r] = q /\ \A x \in Requests \ {r} : req'[x] = req[x]
  BY <1>1, <1>2
<1>6. oidc'[Head(s)] = w /\ \A k \in OidcKeys \ {Head(s)} : oidc'[k] = oidc[k]
  BY <1>1, <1>3
<1>7. rest # << >> => rest \in KeyTails /\ (del => rest \in DeleteTails /\ Head(rest) # "issuer")
  BY <1>3, KeyTailFacts
<1>8. \A k \in ToSet(s) : k = Head(s) \/ k \in ToSet(rest)
  BY <1>3, KeyTailFacts
<1>9. w = Absent <=> del
  BY DEF Absent
<1> HIDE DEF s, rest, q, w
<1>10. \A x \in Requests \ {r} : (Writing(x)' <=> Writing(x)) /\ (HalfWritten(x)' <=> HalfWritten(x))
  BY <1>5 DEF Writing, HalfWritten
<1>11. /\ Writing(r)' => rest # << >> /\ req'[r].kind = req[r].kind /\ req'[r].keys = rest
       /\ HalfWritten(r)' => Writing(r)' /\ ~del
       /\ rest # << >> /\ ~del => HalfWritten(r)'
  BY <1>1, <1>2, <1>4, <1>5 DEF Writing, HalfWritten
<1>12. \A x \in Requests : Writing(x)' =>
         req'[x].keys \in IF req'[x].kind = "delete" THEN DeleteTails ELSE KeyTails
  BY <1>5, <1>7, <1>10, <1>11 DEF IssuerInv
<1>14. \A x \in Requests : AtGate(x)' => req'[x].kind \in WizardKinds
  BY <1>2, <1>4, <1>5 DEF IssuerInv, AtGate
<1>13. ASSUME ~cut
       PROVE  Whole'
  <2>1. Whole /\ \A x \in Requests : Writing(x) => x = r
    BY <1>1, <1>13 DEF IssuerInv, Whole
  <2>2. \A x \in Requests : (Writing(x)' => x = r) /\ (HalfWritten(x) => x = r)
                            /\ (HalfWritten(x)' => x = r)
    BY <1>10, <1>11, <2>1 DEF Writing, HalfWritten
  <2>3. ~del => \A k \in OidcKeys : k \in ToSet(rest) \/ oidc'[k] # Absent
    <3> SUFFICES ASSUME ~del, NEW k \in OidcKeys, k \notin ToSet(rest)
                 PROVE  oidc'[k] # Absent
      OBVIOUS
    <3>1. CASE k = Head(s)
      BY <1>6, <1>9, <3>1
    <3>2. CASE k # Head(s)
      BY <1>2, <1>6, <1>8, <2>1, <3>2 DEF Whole, s
    <3> QED BY <3>1, <3>2
  <2>4. del => oidc'["issuer"] = Absent
    <3> SUFFICES ASSUME del
                 PROVE  oidc'["issuer"] = Absent
      OBVIOUS
    <3>1. CASE Head(s) = "issuer"
      BY <1>6, <1>9, <3>1
    <3>2. CASE Head(s) # "issuer"
      BY <1>1, <1>6, <2>1, <3>2 DEF Whole, s, OidcKeys
    <3> QED BY <3>1, <3>2
  <2>5. (OIDCConfigured' /\ ~HalfWritten(r)') => \A k \in OidcKeys : oidc'[k] # Absent
    BY <1>11, <2>3, <2>4, KeyTailFacts DEF OIDCConfigured
  <2> QED BY <1>11, <2>2, <2>3, <2>4, <2>5 DEF Whole
<1> QED BY <1>1, <1>12, <1>13, <1>14 DEF IssuerInv

LEMMA IssuerServes ==
  ASSUME IssuerInv, GateInv, EncInv, NEW r \in Requests, Serve(r)
  PROVE  IssuerInv'
<1>1. req \in [Requests -> ReqType] /\ cut \in BOOLEAN /\ oidc \in [OidcKeys -> Nat \cup {Absent}]
  BY DEF GateInv, IssuerInv, EncInv
<1>2. ASSUME oidc' = oidc, cut' \in BOOLEAN, ~cut' => ~cut,
             NEW q, req' = [req EXCEPT ![r] = q],
             ~(q.pc = "run" /\ q.kind \in {"configure", "update", "delete"}),
             q.pc \in {"gate", "token"} => q.kind \in WizardKinds,
             ~cut' => ~HalfWritten(r)
      PROVE  IssuerInv'
  <2>1. req'[r] = q /\ \A x \in Requests \ {r} : req'[x] = req[x]
    BY <1>1, <1>2
  <2>2. \A x \in Requests : Writing(x)' => req'[x] = req[x]
    BY <1>2, <2>1 DEF Writing
  <2>3. \A x \in Requests \ {r} : HalfWritten(x) => HalfWritten(x)'
    BY <2>1 DEF HalfWritten
  <2>4. \A x \in Requests : AtGate(x)' => req'[x].kind \in WizardKinds
    BY <1>2, <2>1 DEF IssuerInv, AtGate
  <2> QED BY <1>2, <2>2, <2>3, <2>4, IssuerStays
<1>3. ASSUME oidc' = oidc, cut' = cut, NEW pc, pc # "run", Goto(r, pc), ~HalfWritten(r),
             pc \in {"gate", "token"} => req[r].kind \in WizardKinds
      PROVE  IssuerInv'
  <2> DEFINE q == [req[r] EXCEPT !.pc = pc]
  <2>1. req' = [req EXCEPT ![r] = q] /\ q.pc = pc /\ q.kind = req[r].kind
    BY <1>1, <1>3 DEF Goto, ReqType, ReqRecord
  <2> HIDE DEF q
  <2> QED BY <1>1, <1>2, <1>3, <2>1
<1>4. ASSUME oidc' = oidc, cut' \in BOOLEAN, ~cut' => ~cut /\ ~HalfWritten(r), Done(r)
      PROVE  IssuerInv'
  BY <1>2, <1>4, IdleType DEF Done
<1>5. ASSUME NEW a \in Addrs, NEW kind \in WizardKinds, NEW good \in BOOLEAN,
             Middleware(r, a, kind, good)
      PROVE  IssuerInv'
  <2> DEFINE q == [Idle EXCEPT !.pc = "gate", !.kind = kind, !.addr = a, !.good = good]
  <2>1. req' = [req EXCEPT ![r] = q] /\ q.pc = "gate" /\ q.kind = kind /\ oidc' = oidc /\ cut' = cut /\ req[r] = Idle
    BY <1>5, IdleType DEF Middleware, Begin, stored, ReqType, ReqRecord
  <2> HIDE DEF q
  <2> QED BY <1>1, <1>2, <2>1, IdleType DEF HalfWritten
<1>6. CASE blockedFor(r)
  <2>1. oidc' = oidc /\ cut' = cut /\ req[r].pc = "gate" /\ (Done(r) \/ Goto(r, "token"))
    BY <1>6 DEF blockedFor, stored
  <2>2. ~HalfWritten(r) /\ req[r].kind \in WizardKinds
    BY <2>1 DEF HalfWritten, IssuerInv, AtGate
  <2> QED BY <1>1, <1>3, <1>4, <2>1, <2>2
<1>7. CASE Validate(r)
  <2>1. req[r].pc = "token" /\ oidc' = oidc /\ ~HalfWritten(r)
    BY <1>7 DEF Validate, stored, HalfWritten
  <2>2. CASE ~req[r].good
    BY <1>1, <1>4, <1>7, <2>1, <2>2 DEF Validate
  <2>3. CASE req[r].good
    <3> DEFINE q == [req[r] EXCEPT !.pc = "run", !.keys = oidcOrder]
               c == cut \/ (req[r].kind = "configure" /\ \E x \in Requests : Writing(x))
    <3>1. req' = [req EXCEPT ![r] = q] /\ cut' = c
      BY <1>1, <1>7, <2>3 DEF Validate, ReqType, ReqRecord
    <3>2. c \in BOOLEAN
      BY Zenon
    <3>3. q \in ReqType /\ q.pc = "run" /\ q.keys = oidcOrder /\ q.kind = req[r].kind
      <4>1. oidcOrder \in Seq(OidcKeys) /\ oidcOrder # << >>
        BY DEF oidcOrder, OidcKeys
      <4> QED BY <1>1, <4>1 DEF ReqType, ReqRecord, PCs
    <3> HIDE DEF q
    <3>4. q.kind \in {"none", "configure", "prefix", "complete", "update", "delete"}
      BY <3>3 DEF ReqType, ReqRecord
    <3>5. CASE q.kind = "configure"
      <4>1. ~cut' => ~cut /\ \A x \in Requests : ~Writing(x)
        BY <3>1, <3>3, <3>5
      <4>2. cut' \in BOOLEAN
        BY <3>1, <3>2
      <4> QED BY <1>1, <2>1, <3>1, <3>3, <3>5, <4>1, <4>2, IssuerBegins, KeyTailFacts
    <3>6. CASE q.kind \in {"none", "prefix", "complete"}
      BY <1>1, <1>2, <2>1, <3>1, <3>2, <3>3, <3>6
    <3>7. q.kind \notin {"update", "delete"}
      BY <2>1, <3>3 DEF IssuerInv, AtGate, WizardKinds
    <3> QED BY <3>4, <3>5, <3>6, <3>7
  <2> QED BY <2>2, <2>3
<1>8. ASSUME NEW keep \in BOOLEAN, OIDCUpdate(r, keep)
      PROVE  IssuerInv'
  <2> DEFINE keys == IF keep THEN <<"issuer", "client">> ELSE oidcOrder
             q == [Idle EXCEPT !.pc = "run", !.kind = "update", !.keys = keys]
             c == (cut \/ (keep /\ oidc["secret"] = Absent) \/ \E x \in Requests : Writing(x))
  <2>1. /\ req' = [req EXCEPT ![r] = q] /\ cut' = c /\ oidc' = oidc
    BY <1>8 DEF OIDCUpdate, Begin, stored
  <2>2. c \in BOOLEAN
    BY Zenon
  <2>3. /\ keys \in KeyTails
        /\ ~c => \A k \in OidcKeys : k \in ToSet(keys) \/ oidc[k] # Absent
    BY KeyTailFacts DEF OidcKeys
  <2>4. keys \in Seq(OidcKeys) /\ keys # << >>
    BY <2>3, KeyTailType
  <2> HIDE DEF keys
  <2>5. q \in ReqType /\ q.pc = "run" /\ q.kind = "update" /\ q.keys = keys
    BY <2>4, IdleType DEF ReqType, ReqRecord, PCs
  <2>6. ~c => ~cut /\ \A x \in Requests : ~Writing(x)
    OBVIOUS
  <2> HIDE DEF q, c
  <2> QED BY <1>1, <2>1, <2>2, <2>3, <2>5, <2>6, IssuerBegins
<1>9. CASE OIDCDelete(r)
  <2> DEFINE q == [Idle EXCEPT !.pc = "run", !.kind = "delete", !.keys = deleteOrder]
             c == (cut \/ \E x \in Requests : Writing(x))
  <2>1. /\ req' = [req EXCEPT ![r] = q] /\ cut' = c /\ oidc' = oidc
    BY <1>9 DEF OIDCDelete, Begin, stored
  <2>2. c \in BOOLEAN /\ (~c => ~cut /\ \A x \in Requests : ~Writing(x))
    BY Zenon
  <2>3. q \in ReqType /\ q.pc = "run" /\ q.kind = "delete" /\ q.keys = deleteOrder
    <3>1. deleteOrder \in Seq(OidcKeys) /\ deleteOrder # << >>
      BY DEF deleteOrder, OidcKeys
    <3> QED BY <3>1, IdleType DEF ReqType, ReqRecord, PCs
  <2> HIDE DEF q, c
  <2> QED BY <1>1, <2>1, <2>2, <2>3, IssuerBegins, KeyTailFacts
<1>10. CASE WriteKey(r)
  BY <1>1, <1>10, WriteKeeps
<1>11. CASE Cancel(r)
  <2> DEFINE c == cut \/ HalfWritten(r)
  <2>1. oidc' = oidc /\ Done(r) /\ cut' = c
    BY <1>11 DEF Cancel, stored
  <2>2. c \in BOOLEAN /\ (~c => ~cut /\ ~HalfWritten(r))
    BY Zenon
  <2> HIDE DEF c
  <2> QED BY <1>4, <2>1, <2>2
<1>12. CASE GroupPrefixConfigure(r) \/ missingSteps(r) \/ missingPrefix(r) \/ Complete(r)
  <2>1. /\ oidc' = oidc /\ cut' = cut /\ (Done(r) \/ Goto(r, "prefix") \/ Goto(r, "complete"))
        /\ ~HalfWritten(r)
    BY <1>12 DEF GroupPrefixConfigure, missingSteps, missingPrefix, Complete, stored, HalfWritten
  <2> QED BY <1>1, <1>3, <1>4, <2>1
<1> QED BY <1>5, <1>6, <1>7, <1>8, <1>9, <1>10, <1>11, <1>12 DEF Serve

LEMMA IssuerNext ==
  ASSUME IssuerInv, GateInv, EncInv, [Next]_vars
  PROVE  IssuerInv'
<1>1. ASSUME \A k \in OidcKeys : oidc'[k] = Absent <=> oidc[k] = Absent, req' = req, cut' = cut
      PROVE  IssuerInv'
  <2>1. \A r \in Requests : (Writing(r)' <=> Writing(r)) /\ (HalfWritten(r)' <=> HalfWritten(r))
                            /\ (AtGate(r)' <=> AtGate(r))
    BY <1>1 DEF Writing, HalfWritten, AtGate
  <2> QED BY <1>1, <2>1, IssuerStays DEF IssuerInv
<1>2. CASE \/ Start \/ MigratedV1 \/ migrateEncryptionV2NewsFeeds \/ SetVersionFlag \/ DecideGate
           \/ AdminLogin \/ UNCHANGED vars \/ \E a \in Addrs : WaitOver(a)
  <2>1. oidc' = oidc /\ req' = req /\ cut' = cut
    BY <1>2 DEF Start, MigratedV1, migrateEncryptionV2NewsFeeds, SetVersionFlag, DecideGate,
         AdminLogin, vars, WaitOver, stored
  <2> QED BY <1>1, <2>1
<1>3. CASE migrateEncryptionV1
  <2> DEFINE x == Head(todo)
  <2>1. req' = req /\ cut' = cut /\ (oidc' = oidc \/ oidc' = [oidc EXCEPT ![x] = Encrypt(@)])
    BY <1>3 DEF migrateEncryptionV1
  <2>2. \A n \in Nat \cup {Absent} : Encrypt(n) = Absent <=> n = Absent
    BY DEF Encrypt, Absent
  <2> HIDE DEF x
  <2>3. \A k \in OidcKeys : oidc'[k] = Absent <=> oidc[k] = Absent
    BY <2>1, <2>2 DEF EncInv
  <2> QED BY <1>1, <2>1, <2>3
<1>4. CASE Crash
  <2> DEFINE c == cut \/ \E r \in Requests : HalfWritten(r)
  <2>1. oidc' = oidc /\ req' = [r \in Requests |-> Idle] /\ cut' = c
    BY <1>4 DEF Crash, stored
  <2>2. c \in BOOLEAN /\ (~c => ~cut /\ \A r \in Requests : ~HalfWritten(r))
    BY Zenon
  <2> HIDE DEF c
  <2>3. \A r \in Requests : ~Writing(r)' /\ ~AtGate(r)'
    BY <2>1, IdleType DEF Writing, AtGate
  <2> QED BY <2>1, <2>2, <2>3, IssuerStays
<1>5. ASSUME NEW r \in Requests, Serve(r)
      PROVE  IssuerInv'
  BY <1>5, IssuerServes
<1> QED BY <1>2, <1>3, <1>4, <1>5 DEF Next, Boot

LEMMA IssuerStart == Init => IssuerInv
<1> SUFFICES ASSUME Init PROVE IssuerInv
  OBVIOUS
<1>1. \A r \in Requests : ~Writing(r) /\ ~HalfWritten(r) /\ ~AtGate(r)
  BY IdleType DEF Init, Writing, HalfWritten, AtGate
<1>2. cut \in BOOLEAN
  BY Zenon DEF Init
<1>3. \/ \A k \in OidcKeys : oidc[k] # Absent
      \/ \A k \in OidcKeys : oidc[k] = Absent
  BY DEF Init, Absent
<1>4. Whole
  BY <1>1, <1>3 DEF Whole, OIDCConfigured, OidcKeys
<1> QED BY <1>1, <1>2, <1>4 DEF IssuerInv

(* For any number of requests, crashes and restarts: what OIDCConfigured     *)
(* concludes from the issuer alone holds of all three OIDC keys, unless a    *)
(* write of them was cut short or overlapped another.                        *)
THEOREM IssuerAlwaysSpeaksForAll == Spec => []IssuerSpeaksForAll
<1>1. IssuerInv => IssuerSpeaksForAll
  BY DEF IssuerInv, Whole, IssuerSpeaksForAll, Writing, HalfWritten
<1> QED BY <1>1, IssuerStart, IssuerNext, EncStart, EncNext, GateStart, GateNext, PTL DEF Spec
=============================================================================
