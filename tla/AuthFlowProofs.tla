--------------------------- MODULE AuthFlowProofs ---------------------------
(***************************************************************************)
(* The windows of the auth handlers, proved for any number of users,         *)
(* sessions and overlapping requests: a session outlives its user's          *)
(* entitlement or its index entry only through those that AuthFlow names,    *)
(* moves are reported, and the guard keeps an admin.                         *)
(***************************************************************************)
EXTENDS AuthFlow, FiniteSetTheorems, TLAPS

CallbackPCs == {"consume", "exchange", "approved", "locked", "upsert", "store", "index"}
PCs == CallbackPCs \cup {"idle", "baseline", "record", "del", "unindex", "set", "get",
                         "prune", "members", "row"}
Ops == {"idle", "callback", "request", "revoke", "revalidate", "list", "approve", "lock", "delete"}
Spots == Places \cup {"home"}

ThreadRecord ==
  [op : Ops, pc : PCs, u : Users \cup {NoRow}, s : Sids \cup {NoSession},
   cp : Stored \cup {NoSession}, todo : SUBSET Sids, found : BOOLEAN, fresh : BOOLEAN, at : Spots]

(* What a request at work has in its hands.                                  *)
Shape(r) ==
  /\ r.op = "callback" =>
       /\ r.pc \in CallbackPCs /\ r.s \in Sids /\ r.todo = {}
       /\ r.pc \in {"consume", "exchange"} => r.cp = NoSession
       /\ r.pc \notin {"consume", "exchange"} => r.u \in Users
       /\ r.pc \in {"locked", "upsert", "store", "index"} => r.cp \in Stored
  /\ r.op \in {"revoke", "revalidate"} => r.s \in Sids /\ r.cp \in Stored /\ r.todo = {}
  /\ r.op = "request" => r.s \in Sids /\ r.cp = NoSession /\ r.todo = {}
  /\ r.op \in {"list", "approve", "lock", "delete"} => r.u \in Users
  /\ r.pc = "prune" => r.op \in {"list", "approve"} /\ r.s \in r.todo
  /\ r.pc = "unindex" => r.op = "revoke"
  /\ r.op = "list" => r.cp = NoSession
  /\ r.cp # NoSession => r.s \in Sids
  /\ r.pc \in {"consume", "exchange"} => r.op = "callback"
  /\ (r.op = "approve" /\ r.pc = "set") => r.s \in r.todo /\ r.cp \in Stored

StoreOK ==
  /\ row \in [Users -> Rows \cup {NoRow}]
  /\ codes \subseteq used /\ used \subseteq Sids
  /\ sess \in [Sids -> Stored \cup {NoSession}]
  /\ index \in [Users -> SUBSET Sids]
  /\ escaped \subseteq Sids /\ unlisted \subseteq escaped

TypeOK ==
  StoreOK /\ th \in [Threads -> ThreadRecord] /\ \A t \in Threads : Shape(th[t])

(* A session has one owner, whoever speaks of it.                            *)
SpeaksOf(r, own) ==
  /\ \A s \in r.todo : own[s] = r.u
  /\ r.cp # NoSession => r.cp.user = own[r.s]
  /\ (r.op = "callback" /\ r.pc \notin {"consume", "exchange"}) => own[r.s] = r.u

Owned(own) ==
  /\ \A s \in Sids : Live(s) => sess[s].user = own[s]
  /\ \A u \in Users : \A s \in index[u] : own[s] = u
  /\ \A t \in Threads : SpeaksOf(th[t], own)

Mentions(r, s) == s \in r.todo \/ (r.s = s /\ r.pc \notin {"consume", "exchange"})
BeforeStore(r) == r.op = "callback" /\ r.pc \in {"approved", "locked", "upsert", "store"}

(* Nothing speaks of a session before its code is exchanged, and only the    *)
(* callback that did so before the session is stored.                        *)
Fresh ==
  /\ \A s \in Sids : (s \in codes \/ s \notin used) =>
       /\ ~Live(s) /\ \A u \in Users : s \notin index[u]
       /\ \A t \in Threads : ~Mentions(th[t], s)
  /\ \A t \in Threads : BeforeStore(th[t]) =>
       /\ ~Live(th[t].s) /\ \A u \in Users : th[t].s \notin index[u]
       /\ \A t2 \in Threads \ {t} : ~Mentions(th[t2], th[t].s)

(* Whoever is about to take an entry off an index has seen its session gone. *)
SawGone(r) == r.pc \in {"prune", "unindex"} => ~Live(r.s) \/ r.s \in unlisted

SeenGone == \A t \in Threads : SawGone(th[t])

(* A removal that will still come across the session.                        *)
Catches(t, s) ==
  /\ th[t].op \in {"lock", "delete"} /\ th[t].u = sess[s].user
  /\ \/ th[t].pc = "members"
     \/ th[t].pc = "del" /\ s \in th[t].todo \cup index[sess[s].user]

EntitledOrCaught ==
  \A s \in Sids : (Live(s) /\ Active(sess[s]) /\ s \notin escaped) =>
    Entitled(sess[s].user) \/ \E t \in Threads : Catches(t, s)

(* A callback that lets a user in was told so by both gates.                 *)
ToldSo(r) ==
  (r.op = "callback" /\ r.pc \in {"locked", "upsert", "store"} /\ Active(r.cp)) => r.fresh

GatesAsked == \A t \in Threads : ToldSo(th[t])

FlowInv ==
  /\ TypeOK /\ Fresh /\ SeenGone /\ ListedOrLost /\ EntitledOrCaught /\ GatesAsked
  /\ \E own \in [Sids -> Users \cup {NoRow}] : Owned(own)

(* Roles are the IdP's; whoever may come to be an admin has not been the     *)
(* first; and a removal past the guard leaves somebody.                      *)
HasAdmin == Admins # {} \/ crossed
GoodRole(c) == c.role \in {"pending", RoleAtIdP[c.user]}
Vouched(c) == RoleAtIdP[c.user] = "admin" => HasAdmin
RowsGood == \A u \in Users : row[u] # NoRow => row[u].role = RoleAtIdP[u]

Copied(r) ==
  r.cp # NoSession =>
    GoodRole(r.cp) /\ ((r.op = "callback" => r.pc \in {"store", "index"}) => Vouched(r.cp))

AtRow(r) == r.op \in {"lock", "delete"} /\ r.pc = "row"
Spared(r) == AtRow(r) => crossed \/ RoleAtIdP[r.u] # "admin" \/ Admins \ {r.u} # {}

AdminInv ==
  /\ RowsGood
  /\ \A s \in Sids : Live(s) => GoodRole(sess[s]) /\ Vouched(sess[s])
  /\ \A t \in Threads : Copied(th[t]) /\ Spared(th[t])
  /\ \A t, t2 \in Threads : (t # t2 /\ AtRow(th[t]) /\ AtRow(th[t2])) => crossed

MovesInv ==
  /\ MovesAreReported
  /\ baseline \in [Sids -> Spots \cup {"none"}]
  /\ \A s \in Sids : baseline[s] \notin {"none", "home"} => <<s, baseline[s]>> \in reported
  /\ \A t \in Threads : (th[t].op = "request" /\ th[t].pc = "record" /\ th[t].at # "home") =>
       <<th[t].s, th[t].at>> \in reported

-----------------------------------------------------------------------------
(* Steps that only shrink the store *)

(* Sessions end, and entries leave an index for sessions that are gone or    *)
(* counted as lost.                                                          *)
Shrinks ==
  /\ \A s \in Sids : sess'[s] = sess[s] \/ ~Live(s)'
  /\ \A u \in Users : index'[u] \subseteq index[u]
  /\ \A u \in Users : \A s \in index[u] \ index'[u] : ~Live(s)' \/ s \in unlisted'
  /\ escaped \subseteq escaped' /\ unlisted \subseteq unlisted'
  /\ codes' \subseteq codes /\ used' = used

StillGone(r) == r.pc \in {"prune", "unindex"} => sess'[r.s] = NoSession \/ r.s \in unlisted'

Known(t, s) == Mentions(th[t], s) \/ Live(s) \/ \E u \in Users : s \in index[u]

(* A request goes on with r: it speaks of sessions it could know of, and of  *)
(* their owners.                                                             *)
Follows(t, r) ==
  /\ r \in ThreadRecord /\ Shape(r) /\ ToldSo(r)
  /\ \A s \in Sids : Mentions(r, s) => Known(t, s)
  /\ BeforeStore(r) => BeforeStore(th[t]) /\ r.s = th[t].s
  /\ \A own \in [Sids -> Users \cup {NoRow}] : Owned(own) => SpeaksOf(r, own)

GoesOn(t, r) == th' = [th EXCEPT ![t] = r] /\ Follows(t, r)

LEMMA Others ==
  ASSUME TypeOK, NEW t \in Threads, NEW r, GoesOn(t, r)
  PROVE  /\ th'[t] = r /\ \A t2 \in Threads \ {t} : th'[t2] = th[t2]
         /\ th' \in [Threads -> ThreadRecord] /\ \A t2 \in Threads : Shape(th'[t2])
BY DEF TypeOK, GoesOn, Follows

LEMMA FreshStays ==
  ASSUME TypeOK, Fresh, Shrinks, NEW t \in Threads, NEW r, GoesOn(t, r)
  PROVE  Fresh'
<1> USE Others DEF Live
<1>1. ASSUME NEW s \in Sids, s \in codes \/ s \notin used
      PROVE  /\ ~Live(s)' /\ \A u \in Users : s \notin index'[u]
             /\ \A t2 \in Threads : ~Mentions(th'[t2], s)
  <2>1. /\ ~Live(s) /\ \A u \in Users : s \notin index[u]
        /\ \A t2 \in Threads : ~Mentions(th[t2], s)
    BY <1>1 DEF Fresh
  <2>2. ~Mentions(r, s)
    BY <2>1 DEF GoesOn, Follows, Known
  <2> QED BY <2>1, <2>2 DEF Shrinks
<1>2. ASSUME NEW t1 \in Threads, BeforeStore(th'[t1])
      PROVE  /\ ~Live(th[t1].s)' /\ \A u \in Users : th'[t1].s \notin index'[u]
             /\ \A t2 \in Threads \ {t1} : ~Mentions(th'[t2], th'[t1].s)
  <2> DEFINE s == th'[t1].s
  <2>1. BeforeStore(th[t1]) /\ th[t1].s = s
    <3>1. CASE t1 = t
      BY <1>2, <3>1 DEF GoesOn, Follows
    <3>2. CASE t1 # t
      BY <1>2, <3>2
    <3> QED BY <3>1, <3>2
  <2>0. s \in Sids
    BY <2>1 DEF TypeOK, Shape, BeforeStore
  <2>2. /\ ~Live(s) /\ \A u \in Users : s \notin index[u]
        /\ \A t2 \in Threads \ {t1} : ~Mentions(th[t2], s)
    BY <2>1 DEF Fresh
  <2> HIDE DEF s
  <2>3. t # t1 => ~Mentions(r, s)
    BY <2>0, <2>1, <2>2 DEF GoesOn, Follows, Known
  <2>4. \A t2 \in Threads \ {t1} : ~Mentions(th'[t2], s)
    BY <2>2, <2>3
  <2>5. sess'[s] = NoSession /\ \A u \in Users : s \notin index'[u]
    BY <2>0, <2>2 DEF Shrinks
  <2> QED BY <2>4, <2>5 DEF s
<1> QED BY <1>1, <1>2 DEF Fresh, Shrinks

LEMMA OwnedStays ==
  ASSUME TypeOK, Shrinks, NEW t \in Threads, NEW r, GoesOn(t, r),
         NEW own \in [Sids -> Users \cup {NoRow}], Owned(own)
  PROVE  Owned(own)'
<1>1. \A s \in Sids : Live(s)' => sess'[s].user = own[s]
  BY DEF Owned, Shrinks, Live
<1>2. \A u \in Users : \A s \in index'[u] : own[s] = u
  BY DEF Owned, Shrinks
<1>3. \A t2 \in Threads : SpeaksOf(th'[t2], own)
  BY Others DEF Owned, GoesOn, Follows
<1> QED BY <1>1, <1>2, <1>3 DEF Owned, SpeaksOf

LEMMA SeenGoneStays ==
  ASSUME TypeOK, SeenGone, Shrinks, NEW t \in Threads, NEW r, GoesOn(t, r), StillGone(r)
  PROVE  SeenGone'
<1> SUFFICES ASSUME NEW t1 \in Threads, th'[t1].pc \in {"prune", "unindex"}, t1 # t
             PROVE  (~Live(th[t1].s) \/ th[t1].s \in unlisted)'
  BY Others DEF SeenGone, SawGone, StillGone, Live
<1>1. th'[t1] = th[t1]
  BY Others
<1>2. th[t1].s \in Sids
  BY <1>1 DEF TypeOK, Shape, ThreadRecord
<1> QED BY <1>1, <1>2 DEF SeenGone, SawGone, Shrinks, Live

LEMMA GatesStay ==
  ASSUME TypeOK, GatesAsked, NEW t \in Threads, NEW r, GoesOn(t, r)
  PROVE  GatesAsked'
BY Others DEF GatesAsked, ToldSo, GoesOn, Follows, Active

LEMMA ListedStays ==
  ASSUME TypeOK, ListedOrLost, Shrinks, NEW t \in Threads, NEW r, GoesOn(t, r),
         ~At(t, "callback", "index")
  PROVE  ListedOrLost'
BY Others DEF ListedOrLost, Live, Indexing, At, Shrinks, TypeOK, StoreOK, Stored

(* A removal lets go of sessions only when they have ended or escaped.       *)
LEMMA CaughtStays ==
  ASSUME TypeOK, TypeOK', EntitledOrCaught, Shrinks, NEW t \in Threads, NEW r, GoesOn(t, r),
         \A u \in Users : Entitled(u) => Entitled(u)',
         \A s \in Sids : (Catches(t, s) /\ Live(s)' /\ s \notin escaped') => Catches(t, s)'
  PROVE  EntitledOrCaught'
<1> SUFFICES ASSUME NEW s \in Sids, (Live(s) /\ Active(sess[s]) /\ s \notin escaped)'
             PROVE  Entitled(sess[s].user)' \/ \E t2 \in Threads : Catches(t2, s)'
  BY DEF EntitledOrCaught
<1>1. sess'[s] = sess[s] /\ Live(s) /\ Active(sess[s]) /\ s \notin escaped /\ sess[s].user \in Users
  BY DEF Shrinks, Live, Active, TypeOK, StoreOK, Stored
<1>2. CASE Entitled(sess[s].user)
  BY <1>1, <1>2
<1>3. ASSUME NEW t2 \in Threads, Catches(t2, s)
      PROVE  Catches(t2, s)'
  <2>1. CASE t2 = t
    BY <1>3, <2>1
  <2>2. CASE t2 # t
    <3>1. s \in index[sess[s].user] => s \in index'[sess[s].user]
      BY <1>1 DEF Shrinks, TypeOK, StoreOK
    <3> QED BY <1>1, <1>3, <2>2, <3>1, Others DEF Catches
  <2> QED BY <2>1, <2>2
<1> QED BY <1>1, <1>2, <1>3 DEF EntitledOrCaught

(* The whole invariant over such a step, first all but its last part ...     *)
FlowRest ==
  /\ TypeOK /\ Fresh /\ SeenGone /\ ListedOrLost /\ GatesAsked
  /\ \E own \in [Sids -> Users \cup {NoRow}] : Owned(own)

LEMMA RestStays ==
  ASSUME FlowRest, StoreOK', Shrinks, NEW t \in Threads, NEW r, GoesOn(t, r), StillGone(r),
         ~At(t, "callback", "index")
  PROVE  FlowRest'
<1>1. TypeOK'
  BY Others DEF FlowRest, TypeOK
<1>2. PICK own \in [Sids -> Users \cup {NoRow}] : Owned(own)
  BY DEF FlowRest
<1>3. Owned(own)'
  BY <1>2, OwnedStays DEF FlowRest
<1>4. Fresh' /\ SeenGone' /\ GatesAsked'
  BY FreshStays, SeenGoneStays, GatesStay DEF FlowRest
<1>5. ListedOrLost'
  BY ListedStays DEF FlowRest
<1> QED BY <1>1, <1>3, <1>4, <1>5 DEF FlowRest

LEMMA ShrinkStep ==
  ASSUME FlowInv, StoreOK', Shrinks, NEW t \in Threads, NEW r, GoesOn(t, r), StillGone(r),
         ~At(t, "callback", "index"),
         \A u \in Users : Entitled(u) => Entitled(u)',
         \A s \in Sids : (Catches(t, s) /\ Live(s)' /\ s \notin escaped') => Catches(t, s)'
  PROVE  FlowInv'
<1>1. FlowRest'
  BY RestStays DEF FlowInv, FlowRest
<1>2. EntitledOrCaught'
  BY <1>1, CaughtStays DEF FlowInv, FlowRest
<1> QED BY <1>1, <1>2 DEF FlowInv, FlowRest

(* ... and over one that only reads.                                         *)
Reads == codes' \subseteq codes /\ UNCHANGED <<row, used, sess, index, escaped, unlisted>>

LEMMA ReadStep ==
  ASSUME FlowInv, Reads, NEW t \in Threads, NEW r, GoesOn(t, r), SawGone(r),
         ~At(t, "callback", "index"), th[t].op \in {"lock", "delete"} => th[t].pc = "row"
  PROVE  FlowInv'
<1>1. Shrinks /\ StoreOK' /\ StillGone(r)
  BY DEF Shrinks, Reads, FlowInv, TypeOK, StoreOK, SawGone, StillGone, Live
<1>2. \A u \in Users : Entitled(u) => Entitled(u)'
  BY DEF Reads, Entitled
<1>3. \A s \in Sids : ~Catches(t, s)
  BY DEF Catches
<1> QED BY <1>1, <1>2, <1>3, ShrinkStep

LEMMA IdleFollows ==
  ASSUME TypeOK, NEW t \in Threads
  PROVE  Follows(t, Idle) /\ SawGone(Idle) /\ StillGone(Idle)
<1>1. Idle \in ThreadRecord
  BY DEF Idle, ThreadRecord, Ops, PCs, Spots
<1>2. Shape(Idle) /\ ToldSo(Idle) /\ ~BeforeStore(Idle) /\ SawGone(Idle) /\ StillGone(Idle)
  BY DEF Idle, Shape, ToldSo, BeforeStore, SawGone, StillGone
<1>3. \A s \in Sids : ~Mentions(Idle, s)
  BY FlowAssumption DEF Idle, Mentions
<1>4. \A own \in [Sids -> Users \cup {NoRow}] : SpeaksOf(Idle, own)
  BY DEF Idle, SpeaksOf
<1> QED BY <1>1, <1>2, <1>3, <1>4 DEF Follows

-----------------------------------------------------------------------------
(* Reading steps *)

LEMMA CallbackBeginStep ==
  ASSUME FlowInv, NEW t \in Threads, NEW s \in Sids, CallbackBegin(t, s)
  PROVE  FlowInv'
<1> DEFINE found == s \in states
           r == [Idle EXCEPT !.op = "callback", !.pc = "consume", !.s = s, !.found = found]
<1>0. found \in BOOLEAN
  OBVIOUS
<1>1. th[t] = Idle /\ th' = [th EXCEPT ![t] = r] /\ Reads
  BY DEF CallbackBegin, Begin, Reads, login, store, history
<1> HIDE DEF found
<1>2. r \in ThreadRecord
  BY <1>0 DEF Idle, ThreadRecord, Ops, PCs, CallbackPCs, Spots
<1>3. r.op = "callback" /\ r.pc = "consume" /\ r.s = s /\ r.cp = NoSession /\ r.todo = {}
  BY DEF Idle
<1> HIDE DEF r
<1>4. Shape(r) /\ ToldSo(r) /\ ~BeforeStore(r) /\ SawGone(r)
  BY <1>3 DEF Shape, CallbackPCs, ToldSo, BeforeStore, SawGone
<1>5. \A s2 \in Sids : ~Mentions(r, s2)
  BY <1>3 DEF Mentions
<1>6. \A own \in [Sids -> Users \cup {NoRow}] : SpeaksOf(r, own)
  BY <1>3 DEF SpeaksOf
<1>7. GoesOn(t, r)
  BY <1>1, <1>2, <1>4, <1>5, <1>6 DEF GoesOn, Follows
<1>8. th[t].op = "idle"
  BY <1>1 DEF Idle
<1> QED BY <1>1, <1>4, <1>7, <1>8, ReadStep DEF At

LEMMA RequestBeginStep ==
  ASSUME FlowInv, NEW t \in Threads, NEW s \in Sids, NEW at \in Places, RequestBegin(t, s, at)
  PROVE  FlowInv'
<1> DEFINE r == [Idle EXCEPT !.op = "request", !.pc = "baseline", !.s = s, !.at = at]
<1>1. th[t] = Idle /\ th' = [th EXCEPT ![t] = r] /\ Reads /\ Live(s)
  BY DEF RequestBegin, Begin, Reads, login, store, history, Live
<1>2. r \in ThreadRecord
  BY DEF Idle, ThreadRecord, Ops, PCs, CallbackPCs, Spots
<1>3. r.op = "request" /\ r.pc = "baseline" /\ r.s = s /\ r.cp = NoSession /\ r.todo = {}
  BY DEF Idle
<1> HIDE DEF r
<1>4. Shape(r) /\ ToldSo(r) /\ ~BeforeStore(r) /\ SawGone(r)
  BY <1>3 DEF Shape, ToldSo, BeforeStore, SawGone
<1>5. \A s2 \in Sids : Mentions(r, s2) => Known(t, s2)
  BY <1>1, <1>3 DEF Mentions, Known
<1>6. \A own \in [Sids -> Users \cup {NoRow}] : SpeaksOf(r, own)
  BY <1>3 DEF SpeaksOf
<1>7. GoesOn(t, r)
  BY <1>1, <1>2, <1>4, <1>5, <1>6 DEF GoesOn, Follows
<1>8. th[t].op = "idle"
  BY <1>1 DEF Idle
<1> QED BY <1>1, <1>4, <1>7, <1>8, ReadStep DEF At

LEMMA CallbackConsumeStep ==
  ASSUME FlowInv, NEW t \in Threads, CallbackConsume(t)
  PROVE  FlowInv'
<1> DEFINE r == [th[t] EXCEPT !.pc = "exchange"]
<1>1. th[t].op = "callback" /\ th[t].pc = "consume" /\ Reads
  BY DEF CallbackConsume, At, Reads, store, history
<1>2. th[t] \in ThreadRecord /\ Shape(th[t]) /\ TypeOK
  BY DEF FlowInv, TypeOK
<1>3. r \in ThreadRecord
  BY <1>2 DEF ThreadRecord, PCs, CallbackPCs
<1>4. r.op = "callback" /\ r.pc = "exchange" /\ r.s \in Sids /\ r.cp = NoSession /\ r.todo = {}
  BY <1>1, <1>2 DEF ThreadRecord, Shape
<1> HIDE DEF r
<1>5. Shape(r) /\ ToldSo(r) /\ ~BeforeStore(r) /\ SawGone(r)
  BY <1>4 DEF Shape, CallbackPCs, ToldSo, BeforeStore, SawGone
<1>6. Follows(t, r)
  BY <1>3, <1>4, <1>5 DEF Follows, Mentions, SpeaksOf
<1>7. GoesOn(t, r) \/ GoesOn(t, Idle)
  BY <1>2, <1>6, IdleFollows DEF CallbackConsume, Goto, Done, GoesOn, r
<1> QED BY <1>1, <1>2, <1>5, <1>7, IdleFollows, ReadStep DEF At

LEMMA CallbackApprovedStep ==
  ASSUME FlowInv, NEW t \in Threads, CallbackApproved(t)
  PROVE  FlowInv'
<1> DEFINE u == th[t].u
           approved == WizardComplete => row[u] # NoRow /\ row[u].approved
           cp == [user |-> u, locked |-> FALSE, role |-> IF approved THEN RoleAtIdP[u] ELSE "pending"]
           pc == IF WizardComplete THEN "locked" ELSE "upsert"
           r == [th[t] EXCEPT !.pc = pc, !.found = approved, !.fresh = approved, !.cp = cp]
<1>1. th[t].op = "callback" /\ th[t].pc = "approved" /\ Reads /\ th' = [th EXCEPT ![t] = r]
  BY DEF CallbackApproved, At, Reads, login, store, history
<1>2. th[t] \in ThreadRecord /\ Shape(th[t]) /\ TypeOK /\ u \in Users
  BY <1>1 DEF FlowInv, TypeOK, Shape
<1>3. cp \in Stored /\ cp.user = u /\ (Active(cp) => approved) /\ pc \in {"locked", "upsert"}
  BY <1>2, FlowAssumption DEF Stored, Roles, Active
<1>4. approved \in BOOLEAN
  OBVIOUS
<1> HIDE DEF u, approved, cp, pc
<1>5. /\ r \in ThreadRecord /\ r.op = "callback" /\ r.pc = pc /\ r.s = th[t].s /\ r.u = u
      /\ r.cp = cp /\ r.todo = {} /\ r.fresh = approved
  BY <1>1, <1>2, <1>3, <1>4 DEF ThreadRecord, PCs, CallbackPCs, Shape, u
<1> HIDE DEF r
<1>6. Shape(r) /\ SawGone(r) /\ ToldSo(r)
  BY <1>1, <1>2, <1>3, <1>5 DEF Shape, CallbackPCs, SawGone, ToldSo
<1>7. /\ \A s \in Sids : Mentions(r, s) => Mentions(th[t], s)
      /\ BeforeStore(th[t])
  BY <1>1, <1>5 DEF Mentions, BeforeStore
<1>8. \A own \in [Sids -> Users \cup {NoRow}] : Owned(own) => SpeaksOf(r, own)
  BY <1>1, <1>3, <1>5 DEF Owned, SpeaksOf, u
<1>9. GoesOn(t, r)
  BY <1>1, <1>5, <1>6, <1>7, <1>8 DEF GoesOn, Follows, Known
<1> QED BY <1>1, <1>6, <1>9, ReadStep DEF At

LEMMA CallbackLockedStep ==
  ASSUME FlowInv, NEW t \in Threads, CallbackLocked(t)
  PROVE  FlowInv'
<1> DEFINE q == th[t]
           locked == row[q.u] # NoRow /\ row[q.u].locked
           fresh == q.fresh /\ ~locked
           cp == IF locked THEN [q.cp EXCEPT !.role = "pending", !.locked = TRUE] ELSE q.cp
           r == [q EXCEPT !.pc = "upsert", !.fresh = fresh, !.cp = cp]
<1>1. q.op = "callback" /\ q.pc = "locked" /\ Reads /\ th' = [th EXCEPT ![t] = r]
  BY DEF CallbackLocked, At, Reads, login, store, history
<1>2. q \in ThreadRecord /\ Shape(q) /\ TypeOK /\ q.u \in Users /\ q.cp \in Stored /\ ToldSo(q)
  BY <1>1 DEF FlowInv, TypeOK, Shape, GatesAsked
<1>3. cp \in Stored /\ cp.user = q.cp.user /\ (Active(cp) => Active(q.cp) /\ ~locked)
  BY <1>2, FlowAssumption DEF Stored, Roles, Active
<1>4. fresh \in BOOLEAN /\ (Active(cp) => fresh)
  BY <1>1, <1>2, <1>3 DEF ToldSo
<1> HIDE DEF locked, fresh, cp
<1>5. /\ r \in ThreadRecord /\ r.op = "callback" /\ r.pc = "upsert" /\ r.s = q.s /\ r.u = q.u
      /\ r.cp = cp /\ r.todo = {} /\ r.fresh = fresh
  BY <1>1, <1>2, <1>3, <1>4 DEF ThreadRecord, PCs, CallbackPCs, Shape
<1> HIDE DEF r
<1>6. Shape(r) /\ SawGone(r) /\ ToldSo(r)
  BY <1>1, <1>2, <1>3, <1>4, <1>5 DEF Shape, CallbackPCs, SawGone, ToldSo
<1>7. /\ \A s \in Sids : Mentions(r, s) => Mentions(q, s)
      /\ BeforeStore(q)
  BY <1>1, <1>5 DEF Mentions, BeforeStore
<1>8. \A own \in [Sids -> Users \cup {NoRow}] : Owned(own) => SpeaksOf(r, own)
  BY <1>1, <1>2, <1>3, <1>5, FlowAssumption DEF Owned, SpeaksOf
<1>9. GoesOn(t, r)
  BY <1>1, <1>5, <1>6, <1>7, <1>8 DEF GoesOn, Follows, Known
<1> QED BY <1>1, <1>6, <1>9, ReadStep DEF At

LEMMA DoneStep ==
  ASSUME FlowInv, NEW t \in Threads, Done(t), Reads, ~At(t, "callback", "index"),
         th[t].op \in {"lock", "delete"} => th[t].pc = "row"
  PROVE  FlowInv'
<1>1. GoesOn(t, Idle) /\ SawGone(Idle)
  BY IdleFollows DEF FlowInv, Done, GoesOn
<1> QED BY <1>1, ReadStep

(* Following up on the sessions in hand.                                     *)
LEMMA AnomalyCheckStep ==
  ASSUME FlowInv, NEW t \in Threads, AnomalyCheck(t)
  PROVE  FlowInv'
<1> DEFINE q == th[t]
           r == [q EXCEPT !.pc = "record"]
<1>1. q.op = "request" /\ q.pc = "baseline" /\ Reads /\ (Goto(t, "record") \/ Done(t))
  BY DEF AnomalyCheck, At, Reads, login, store, history
<1>2. q \in ThreadRecord /\ Shape(q)
  BY DEF FlowInv, TypeOK
<1>3. CASE Goto(t, "record")
  <2>1. /\ r \in ThreadRecord /\ r.op = "request" /\ r.pc = "record" /\ r.s = q.s
        /\ r.cp = NoSession /\ r.todo = {} /\ r.s \in Sids
    BY <1>1, <1>2 DEF ThreadRecord, PCs, Shape
  <2>2. th' = [th EXCEPT ![t] = r]
    BY <1>3 DEF Goto
  <2> HIDE DEF r
  <2>3. Shape(r) /\ SawGone(r) /\ ToldSo(r) /\ ~BeforeStore(r)
    BY <2>1 DEF Shape, SawGone, ToldSo, BeforeStore
  <2>4. \A s \in Sids : Mentions(r, s) => Mentions(q, s)
    BY <1>1, <2>1 DEF Mentions
  <2>5. GoesOn(t, r)
    BY <2>1, <2>2, <2>3, <2>4 DEF GoesOn, Follows, Known, SpeaksOf
  <2> QED BY <1>1, <2>3, <2>5, ReadStep DEF At
<1> QED BY <1>1, <1>3, DoneStep DEF At

LEMMA AnomalyRecordStep ==
  ASSUME FlowInv, NEW t \in Threads, AnomalyRecord(t)
  PROVE  FlowInv'
BY DoneStep DEF AnomalyRecord, At, Reads, login, store, history

LEMMA FinishStep ==
  ASSUME FlowInv, NEW t \in Threads, Finish(t)
  PROVE  FlowInv'
BY DoneStep DEF Finish, At, Reads, login, store, history

(* Revocation and revalidation start from the session as they read it.       *)
LEMMA CopyStep ==
  ASSUME FlowInv, NEW t \in Threads, NEW s \in Sids, Live(s), Reads,
         NEW op \in {"revoke", "revalidate"}, NEW pc \in {"del", "set"},
         Begin(t, [Idle EXCEPT !.op = op, !.pc = pc, !.s = s, !.cp = sess[s]])
  PROVE  FlowInv'
<1> DEFINE r == [Idle EXCEPT !.op = op, !.pc = pc, !.s = s, !.cp = sess[s]]
<1>1. th[t] = Idle /\ th' = [th EXCEPT ![t] = r] /\ sess[s] \in Stored
  BY DEF Begin, FlowInv, TypeOK, StoreOK, Live
<1>2. r \in ThreadRecord
  BY <1>1 DEF Idle, ThreadRecord, Ops, PCs, Spots
<1>3. r.op = op /\ r.pc = pc /\ r.s = s /\ r.cp = sess[s] /\ r.todo = {}
  BY DEF Idle
<1> HIDE DEF r
<1>4. Shape(r) /\ ToldSo(r) /\ ~BeforeStore(r) /\ SawGone(r)
  BY <1>1, <1>3 DEF Shape, ToldSo, BeforeStore, SawGone
<1>5. \A s2 \in Sids : Mentions(r, s2) => Known(t, s2)
  BY <1>3 DEF Mentions, Known
<1>6. \A own \in [Sids -> Users \cup {NoRow}] : Owned(own) => SpeaksOf(r, own)
  BY <1>3 DEF SpeaksOf, Owned
<1>7. GoesOn(t, r)
  BY <1>1, <1>2, <1>4, <1>5, <1>6 DEF GoesOn, Follows
<1>8. th[t].op = "idle"
  BY <1>1 DEF Idle
<1> QED BY <1>4, <1>7, <1>8, ReadStep DEF At

LEMMA RevokeBeginStep ==
  ASSUME FlowInv, NEW t \in Threads, NEW s \in Sids, RevokeBegin(t, s) \/ RevalidateBegin(t, s)
  PROVE  FlowInv'
<1>1. Live(s) /\ Reads
  BY DEF RevokeBegin, RevalidateBegin, Live, Reads, login, store, history
<1> QED BY <1>1, CopyStep DEF RevokeBegin, RevalidateBegin

(* Working through an index.                                                 *)
LEMMA ListBeginStep ==
  ASSUME FlowInv, NEW t \in Threads, NEW s \in Sids, ListBegin(t, s)
  PROVE  FlowInv'
<1> DEFINE u == sess[s].user
           r == [Idle EXCEPT !.op = "list", !.pc = "get", !.u = u, !.todo = index[u]]
<1>1. th[t] = Idle /\ th' = [th EXCEPT ![t] = r] /\ Reads /\ u \in Users /\ index[u] \subseteq Sids
  BY DEF ListBegin, Begin, Reads, login, store, history, Active, FlowInv, TypeOK, StoreOK, Stored
<1> HIDE DEF u
<1>2. r \in ThreadRecord
  BY <1>1 DEF Idle, ThreadRecord, Ops, PCs, Spots
<1>3. r.op = "list" /\ r.pc = "get" /\ r.s = NoSession /\ r.u = u /\ r.cp = NoSession /\ r.todo = index[u]
  BY DEF Idle
<1> HIDE DEF r
<1>4. Shape(r) /\ ToldSo(r) /\ ~BeforeStore(r) /\ SawGone(r)
  BY <1>1, <1>3 DEF Shape, ToldSo, BeforeStore, SawGone
<1>5. \A s2 \in Sids : Mentions(r, s2) => Known(t, s2)
  BY <1>1, <1>3, FlowAssumption DEF Mentions, Known
<1>6. \A own \in [Sids -> Users \cup {NoRow}] : Owned(own) => SpeaksOf(r, own)
  BY <1>1, <1>3 DEF SpeaksOf, Owned
<1>7. GoesOn(t, r)
  BY <1>1, <1>2, <1>4, <1>5, <1>6 DEF GoesOn, Follows
<1>8. th[t].op = "idle"
  BY <1>1 DEF Idle
<1> QED BY <1>1, <1>4, <1>7, <1>8, ReadStep DEF At

LEMMA ListGetStep ==
  ASSUME FlowInv, NEW t \in Threads, NEW s \in Sids, ListGet(t, s)
  PROVE  FlowInv'
<1> DEFINE q == th[t]
           gone == [q EXCEPT !.pc = "prune", !.s = s]
           next == [q EXCEPT !.todo = @ \ {s}]
<1>1. /\ q.op = "list" /\ q.pc = "get" /\ s \in q.todo /\ Reads
      /\ ~At(t, "callback", "index")
  BY DEF ListGet, At, Reads, login, store, history
<1>2. q \in ThreadRecord /\ Shape(q) /\ q.u \in Users /\ q.cp = NoSession
  BY <1>1 DEF FlowInv, TypeOK, Shape
<1>3. CASE ~Live(s)
  <2>1. th' = [th EXCEPT ![t] = gone]
    BY <1>3 DEF ListGet, Live
  <2>2. /\ gone \in ThreadRecord /\ gone.op = "list" /\ gone.pc = "prune" /\ gone.s = s
        /\ gone.u = q.u /\ gone.todo = q.todo /\ gone.cp = q.cp
    BY <1>1, <1>2 DEF ThreadRecord, PCs
  <2> HIDE DEF gone
  <2>3. Shape(gone) /\ ToldSo(gone) /\ ~BeforeStore(gone) /\ SawGone(gone)
    BY <1>1, <1>2, <1>3, <2>2 DEF Shape, ToldSo, BeforeStore, SawGone
  <2>4. \A s2 \in Sids : Mentions(gone, s2) => Known(t, s2)
    BY <1>1, <2>2 DEF Mentions, Known
  <2>5. \A own \in [Sids -> Users \cup {NoRow}] : Owned(own) => SpeaksOf(gone, own)
    BY <1>1, <1>2, <2>2 DEF SpeaksOf, Owned
  <2>6. GoesOn(t, gone)
    BY <2>1, <2>2, <2>3, <2>4, <2>5 DEF GoesOn, Follows
  <2> QED BY <1>1, <2>3, <2>6, ReadStep
<1>4. CASE Live(s)
  <2>1. th' = [th EXCEPT ![t] = next]
    BY <1>4 DEF ListGet, Live
  <2>2. /\ next \in ThreadRecord /\ next.op = "list" /\ next.pc = "get" /\ next.s = q.s
        /\ next.u = q.u /\ next.todo = q.todo \ {s} /\ next.cp = q.cp
    BY <1>1, <1>2 DEF ThreadRecord, PCs
  <2> HIDE DEF next
  <2>3. Shape(next) /\ ToldSo(next) /\ ~BeforeStore(next) /\ SawGone(next)
    BY <1>1, <1>2, <2>2 DEF Shape, ToldSo, BeforeStore, SawGone
  <2>4. \A s2 \in Sids : Mentions(next, s2) => Known(t, s2)
    BY <1>1, <2>2 DEF Mentions, Known
  <2>5. \A own \in [Sids -> Users \cup {NoRow}] : Owned(own) => SpeaksOf(next, own)
    BY <1>1, <1>2, <2>2 DEF SpeaksOf, Owned
  <2>6. GoesOn(t, next)
    BY <2>1, <2>2, <2>3, <2>4, <2>5 DEF GoesOn, Follows
  <2> QED BY <1>1, <2>3, <2>6, ReadStep
<1> QED BY <1>3, <1>4

LEMMA ApproveMembersStep ==
  ASSUME FlowInv, NEW t \in Threads, ApproveMembers(t)
  PROVE  FlowInv'
<1> DEFINE q == th[t]
           r == [q EXCEPT !.pc = "get", !.todo = index[q.u]]
<1>1. q.op = "approve" /\ q.pc = "members" /\ Reads /\ (Done(t) \/ th' = [th EXCEPT ![t] = r])
  BY DEF ApproveMembers, At, Reads, login, store, history
<1>2. q \in ThreadRecord /\ Shape(q) /\ q.u \in Users /\ index[q.u] \subseteq Sids
  BY <1>1 DEF FlowInv, TypeOK, StoreOK, Shape
<1>3. /\ r \in ThreadRecord /\ r.op = "approve" /\ r.pc = "get" /\ r.s = q.s
      /\ r.u = q.u /\ r.todo = index[q.u] /\ r.cp = q.cp
  BY <1>1, <1>2 DEF ThreadRecord, PCs
<1> HIDE DEF r
<1>4. Shape(r) /\ ToldSo(r) /\ ~BeforeStore(r) /\ SawGone(r)
  BY <1>2, <1>3 DEF Shape, ToldSo, BeforeStore, SawGone
<1>5. \A s \in Sids : Mentions(r, s) => Known(t, s)
  BY <1>1, <1>2, <1>3 DEF Mentions, Known
<1>6. \A own \in [Sids -> Users \cup {NoRow}] : Owned(own) => SpeaksOf(r, own)
  BY <1>2, <1>3 DEF SpeaksOf, Owned
<1>7. Follows(t, r)
  BY <1>3, <1>4, <1>5, <1>6 DEF Follows
<1>8. CASE Done(t)
  BY <1>1, <1>8, DoneStep DEF At
<1>9. CASE th' = [th EXCEPT ![t] = r]
  BY <1>1, <1>4, <1>7, <1>9, ReadStep DEF At, GoesOn
<1> QED BY <1>1, <1>8, <1>9

LEMMA ApproveGetStep ==
  ASSUME FlowInv, NEW t \in Threads, NEW s \in Sids, ApproveGet(t, s)
  PROVE  FlowInv'
<1> DEFINE q == th[t]
           pc == IF sess[s] = NoSession THEN "prune" ELSE "set"
           r == [q EXCEPT !.s = s, !.cp = sess[s], !.pc = pc]
<1>1. /\ q.op = "approve" /\ q.pc = "get" /\ s \in q.todo /\ Reads
      /\ th' = [th EXCEPT ![t] = r]
  BY DEF ApproveGet, At, Reads, login, store, history
<1>2. q \in ThreadRecord /\ Shape(q) /\ q.u \in Users /\ sess[s] \in Stored \cup {NoSession}
  BY <1>1 DEF FlowInv, TypeOK, StoreOK, Shape
<1>3. /\ r \in ThreadRecord /\ r.op = "approve" /\ r.pc = pc /\ r.s = s
      /\ r.u = q.u /\ r.todo = q.todo /\ r.cp = sess[s]
  BY <1>1, <1>2 DEF ThreadRecord, PCs
<1> HIDE DEF r
<1>4. Shape(r) /\ ToldSo(r) /\ ~BeforeStore(r) /\ SawGone(r)
  BY <1>1, <1>2, <1>3 DEF Shape, ToldSo, BeforeStore, SawGone, Live
<1>5. \A s2 \in Sids : Mentions(r, s2) => Known(t, s2)
  BY <1>1, <1>3 DEF Mentions, Known
<1>6. \A own \in [Sids -> Users \cup {NoRow}] : Owned(own) => SpeaksOf(r, own)
  BY <1>1, <1>3 DEF SpeaksOf, Owned, Live
<1>7. GoesOn(t, r)
  BY <1>1, <1>3, <1>4, <1>5, <1>6 DEF GoesOn, Follows
<1> QED BY <1>1, <1>4, <1>7, ReadStep DEF At

(* A request that has nothing in its hands but the user it is about.         *)
LEMMA AboutUser ==
  ASSUME TypeOK, NEW t \in Threads, NEW u \in Users, NEW op \in {"approve", "lock", "delete"},
         NEW pc \in {"members", "row"}, NEW r, r = [Idle EXCEPT !.op = op, !.pc = pc, !.u = u]
  PROVE  Follows(t, r) /\ SawGone(r) /\ StillGone(r)
<1>1. r \in ThreadRecord
  BY DEF Idle, ThreadRecord, Ops, PCs, Spots
<1>2. r.op = op /\ r.pc = pc /\ r.s = NoSession /\ r.u = u /\ r.cp = NoSession /\ r.todo = {}
  BY DEF Idle
<1>3. Shape(r) /\ ToldSo(r) /\ ~BeforeStore(r) /\ SawGone(r) /\ StillGone(r)
  BY <1>2 DEF Shape, ToldSo, BeforeStore, SawGone, StillGone
<1>4. \A s \in Sids : ~Mentions(r, s)
  BY <1>2, FlowAssumption DEF Mentions
<1>5. \A own \in [Sids -> Users \cup {NoRow}] : SpeaksOf(r, own)
  BY <1>2 DEF SpeaksOf
<1> QED BY <1>1, <1>3, <1>4, <1>5 DEF Follows

LEMMA RemoveBeginStep ==
  ASSUME FlowInv, NEW t \in Threads, NEW a \in Sids, NEW u \in Users,
         NEW op \in {"lock", "delete"}, RemoveBegin(t, a, u, op)
  PROVE  FlowInv'
<1> DEFINE r == [Idle EXCEPT !.op = op, !.pc = "row", !.u = u]
<1>1. th[t] = Idle /\ th' = [th EXCEPT ![t] = r] /\ Reads
  BY DEF RemoveBegin, Begin, Reads, login, store
<1>2. Follows(t, r) /\ SawGone(r)
  BY AboutUser DEF FlowInv
<1>3. th[t].op = "idle"
  BY <1>1 DEF Idle
<1> QED BY <1>1, <1>2, <1>3, ReadStep DEF At, GoesOn

-----------------------------------------------------------------------------
(* Writing steps that shrink the store or entitle *)

LEMMA CallbackUpsertStep ==
  ASSUME FlowInv, NEW t \in Threads, CallbackUpsert(t)
  PROVE  FlowInv'
<1> DEFINE q == th[t]
           r == [q EXCEPT !.pc = "store"]
<1>1. /\ q.op = "callback" /\ q.pc = "upsert" /\ th' = [th EXCEPT ![t] = r]
      /\ UNCHANGED <<codes, used, sess, index, escaped, unlisted>>
  BY DEF CallbackUpsert, At, Goto, login, store, history
<1>2. q \in ThreadRecord /\ Shape(q) /\ ToldSo(q) /\ q.u \in Users /\ StoreOK
  BY <1>1 DEF FlowInv, TypeOK, Shape, GatesAsked
<1>3. /\ r \in ThreadRecord /\ r.op = "callback" /\ r.pc = "store" /\ r.s = q.s /\ r.u = q.u
      /\ r.cp = q.cp /\ r.todo = q.todo /\ r.fresh = q.fresh
  BY <1>1, <1>2 DEF ThreadRecord, PCs, CallbackPCs
<1> HIDE DEF r
<1>4. Shape(r) /\ StillGone(r) /\ ToldSo(r)
  BY <1>1, <1>2, <1>3 DEF Shape, CallbackPCs, StillGone, ToldSo
<1>5. /\ \A s \in Sids : Mentions(r, s) => Mentions(q, s)
      /\ BeforeStore(q)
  BY <1>1, <1>3 DEF Mentions, BeforeStore
<1>6. \A own \in [Sids -> Users \cup {NoRow}] : Owned(own) => SpeaksOf(r, own)
  BY <1>1, <1>3 DEF Owned, SpeaksOf
<1>7. GoesOn(t, r)
  BY <1>1, <1>3, <1>4, <1>5, <1>6 DEF GoesOn, Follows, Known
<1>8. /\ row' \in [Users -> Rows \cup {NoRow}]
      /\ \A u \in Users : Entitled(u) => Entitled(u)'
  <2> DEFINE new == IF row[q.u] # NoRow THEN [row[q.u] EXCEPT !.role = RoleAtIdP[q.u]]
                    ELSE [role |-> RoleAtIdP[q.u], approved |-> q.found, locked |-> FALSE]
  <2>1. row' = [row EXCEPT ![q.u] = new]
    BY DEF CallbackUpsert
  <2>2. /\ new \in Rows
        /\ row[q.u] # NoRow => new.approved = row[q.u].approved /\ new.locked = row[q.u].locked
    <3>1. CASE row[q.u] = NoRow
      BY <1>2, <3>1, FlowAssumption DEF Rows, Roles, ThreadRecord
    <3>2. CASE row[q.u] # NoRow
      <4>1. row[q.u] \in Rows /\ RoleAtIdP[q.u] \in Roles
        BY <1>2, <3>2, FlowAssumption DEF StoreOK
      <4> QED BY <3>2, <4>1 DEF Rows
    <3> QED BY <3>1, <3>2
  <2> HIDE DEF new
  <2> QED BY <1>2, <2>1, <2>2, FlowAssumption DEF Entitled, StoreOK
<1>9. Shrinks /\ StoreOK'
  BY <1>1, <1>2, <1>8 DEF Shrinks, StoreOK
<1> QED BY <1>1, <1>4, <1>7, <1>8, <1>9, ShrinkStep DEF At, Catches

LEMMA ApproveBeginStep ==
  ASSUME FlowInv, NEW t \in Threads, NEW a \in Sids, NEW u \in Users, ApproveBegin(t, a, u)
  PROVE  FlowInv'
<1> DEFINE r == [Idle EXCEPT !.op = "approve", !.pc = "members", !.u = u]
<1>1. /\ th[t] = Idle /\ th' = [th EXCEPT ![t] = r] /\ row[u] # NoRow
      /\ row' = [row EXCEPT ![u].approved = TRUE]
      /\ UNCHANGED <<codes, used, sess, index, escaped, unlisted>>
  BY DEF ApproveBegin, Begin, login, store, history
<1>2. GoesOn(t, r) /\ StillGone(r) /\ StoreOK
  BY <1>1, AboutUser DEF FlowInv, TypeOK, GoesOn
<1>3. th[t].op = "idle"
  BY <1>1 DEF Idle
<1>4. /\ row' \in [Users -> Rows \cup {NoRow}]
      /\ \A v \in Users : Entitled(v) => Entitled(v)'
  BY <1>1, <1>2, FlowAssumption DEF Entitled, StoreOK, Rows
<1>5. Shrinks /\ StoreOK'
  BY <1>1, <1>2, <1>4 DEF Shrinks, StoreOK
<1> HIDE DEF r
<1> QED BY <1>2, <1>3, <1>4, <1>5, ShrinkStep DEF At, Catches

LEMMA RevokeDelStep ==
  ASSUME FlowInv, NEW t \in Threads, RevokeDel(t)
  PROVE  FlowInv'
<1> DEFINE q == th[t]
           r == [q EXCEPT !.pc = "unindex"]
<1>1. /\ q.op = "revoke" /\ q.pc = "del" /\ th' = [th EXCEPT ![t] = r]
      /\ sess' = [sess EXCEPT ![q.s] = NoSession]
      /\ UNCHANGED <<row, codes, used, index, escaped, unlisted>>
  BY DEF RevokeDel, At, Goto, login, history
<1>2. q \in ThreadRecord /\ Shape(q) /\ q.s \in Sids /\ StoreOK
  BY <1>1 DEF FlowInv, TypeOK, Shape
<1>3. /\ r \in ThreadRecord /\ r.op = "revoke" /\ r.pc = "unindex" /\ r.s = q.s /\ r.u = q.u
      /\ r.cp = q.cp /\ r.todo = q.todo
  BY <1>1, <1>2 DEF ThreadRecord, PCs
<1> HIDE DEF r
<1>4. Shrinks /\ StoreOK'
  BY <1>1, <1>2 DEF Shrinks, StoreOK, Live
<1>5. Shape(r) /\ StillGone(r) /\ ToldSo(r) /\ ~BeforeStore(r)
  BY <1>1, <1>2, <1>3 DEF Shape, StillGone, ToldSo, BeforeStore, StoreOK, Live
<1>6. \A s \in Sids : Mentions(r, s) => Mentions(q, s)
  BY <1>1, <1>3 DEF Mentions
<1>7. \A own \in [Sids -> Users \cup {NoRow}] : Owned(own) => SpeaksOf(r, own)
  BY <1>1, <1>3 DEF Owned, SpeaksOf
<1>8. GoesOn(t, r)
  BY <1>1, <1>3, <1>5, <1>6, <1>7 DEF GoesOn, Follows, Known
<1>9. \A u \in Users : Entitled(u) => Entitled(u)'
  BY <1>1 DEF Entitled
<1> QED BY <1>1, <1>4, <1>5, <1>8, <1>9, ShrinkStep DEF At, Catches

(* An entry of a session that has been seen gone leaves the index.           *)
LEMMA Unlists ==
  ASSUME FlowInv, NEW t \in Threads, th[t].pc \in {"prune", "unindex"}, NEW u \in Users,
         index' = [index EXCEPT ![u] = @ \ {th[t].s}],
         UNCHANGED <<row, codes, used, sess, escaped, unlisted>>
  PROVE  Shrinks /\ StoreOK' /\ \A v \in Users : Entitled(v) => Entitled(v)'
<1>1. ~Live(th[t].s) \/ th[t].s \in unlisted
  BY DEF FlowInv, SeenGone, SawGone
<1>2. \A v \in Users : index'[v] \in {index[v], index[v] \ {th[t].s}}
  BY DEF FlowInv, TypeOK, StoreOK
<1> QED BY <1>1, <1>2 DEF FlowInv, TypeOK, StoreOK, Shrinks, Live, Entitled

LEMMA RevokeUnindexStep ==
  ASSUME FlowInv, NEW t \in Threads, RevokeUnindex(t)
  PROVE  FlowInv'
<1>1. /\ th[t].op = "revoke" /\ th[t].pc = "unindex" /\ th' = [th EXCEPT ![t] = Idle]
      /\ index' = [index EXCEPT ![th[t].cp.user] = @ \ {th[t].s}]
      /\ UNCHANGED <<row, codes, used, sess, escaped, unlisted>>
  BY DEF RevokeUnindex, At, Done, login, history
<1>2. th[t].cp.user \in Users
  BY <1>1 DEF FlowInv, TypeOK, Shape, Stored
<1>3. Shrinks /\ StoreOK' /\ \A v \in Users : Entitled(v) => Entitled(v)'
  BY <1>1, <1>2, Unlists
<1>4. GoesOn(t, Idle) /\ StillGone(Idle)
  BY <1>1, IdleFollows DEF GoesOn, FlowInv
<1> QED BY <1>1, <1>3, <1>4, ShrinkStep DEF At, Catches

LEMMA PruneStep ==
  ASSUME FlowInv, NEW t \in Threads, Prune(t)
  PROVE  FlowInv'
<1> DEFINE q == th[t]
           r == [q EXCEPT !.pc = "get", !.todo = @ \ {q.s}]
<1>1. /\ q.op \in {"list", "approve"} /\ q.pc = "prune" /\ th' = [th EXCEPT ![t] = r]
      /\ index' = [index EXCEPT ![q.u] = @ \ {q.s}]
      /\ UNCHANGED <<row, codes, used, sess, escaped, unlisted>>
  BY DEF Prune, login, history
<1>2. q \in ThreadRecord /\ Shape(q) /\ q.u \in Users
  BY <1>1 DEF FlowInv, TypeOK, Shape
<1>3. /\ r \in ThreadRecord /\ r.op = q.op /\ r.pc = "get" /\ r.s = q.s /\ r.u = q.u
      /\ r.cp = q.cp /\ r.todo = q.todo \ {q.s}
  BY <1>1, <1>2 DEF ThreadRecord, PCs
<1> HIDE DEF r
<1>4. Shrinks /\ StoreOK' /\ \A v \in Users : Entitled(v) => Entitled(v)'
  BY <1>1, <1>2, Unlists
<1>5. Shape(r) /\ StillGone(r) /\ ToldSo(r) /\ ~BeforeStore(r)
  BY <1>1, <1>2, <1>3 DEF Shape, StillGone, ToldSo, BeforeStore
<1>6. \A s \in Sids : Mentions(r, s) => Mentions(q, s)
  BY <1>1, <1>3 DEF Mentions
<1>7. \A own \in [Sids -> Users \cup {NoRow}] : Owned(own) => SpeaksOf(r, own)
  BY <1>1, <1>3 DEF Owned, SpeaksOf
<1>8. GoesOn(t, r)
  BY <1>1, <1>3, <1>5, <1>6, <1>7 DEF GoesOn, Follows, Known
<1> QED BY <1>1, <1>4, <1>5, <1>8, ShrinkStep DEF At, Catches

(* SMEMBERS brings up every session of the user that has not escaped.        *)
LEMMA RevokeMembersStep ==
  ASSUME FlowInv, NEW t \in Threads, RevokeMembers(t)
  PROVE  FlowInv'
<1> DEFINE q == th[t]
           r == [q EXCEPT !.pc = "del", !.todo = index[q.u]]
<1>1. /\ q.op \in {"lock", "delete"} /\ q.pc = "members" /\ th' = [th EXCEPT ![t] = r]
      /\ escaped' = escaped \cup Indexing(q.u)
      /\ UNCHANGED <<row, codes, used, sess, index, unlisted>>
  BY DEF RevokeMembers, login, store
<1>2. q \in ThreadRecord /\ Shape(q) /\ q.u \in Users /\ StoreOK /\ index[q.u] \subseteq Sids
  BY <1>1 DEF FlowInv, TypeOK, StoreOK, Shape
<1>3. /\ r \in ThreadRecord /\ r.op = q.op /\ r.pc = "del" /\ r.s = q.s /\ r.u = q.u
      /\ r.cp = q.cp /\ r.todo = index[q.u]
  BY <1>1, <1>2 DEF ThreadRecord, PCs
<1> HIDE DEF r
<1>4. Indexing(q.u) \subseteq Sids
  BY DEF Indexing, At, FlowInv, TypeOK, Shape
<1>5. Shrinks /\ StoreOK' /\ \A u \in Users : Entitled(u) => Entitled(u)'
  BY <1>1, <1>2, <1>4 DEF Shrinks, StoreOK, Entitled
<1>6. Shape(r) /\ StillGone(r) /\ ToldSo(r) /\ ~BeforeStore(r)
  BY <1>1, <1>2, <1>3 DEF Shape, StillGone, ToldSo, BeforeStore
<1>7. \A s \in Sids : Mentions(r, s) => Known(t, s)
  BY <1>1, <1>2, <1>3 DEF Mentions, Known
<1>8. \A own \in [Sids -> Users \cup {NoRow}] : Owned(own) => SpeaksOf(r, own)
  BY <1>1, <1>2, <1>3 DEF Owned, SpeaksOf
<1>9. GoesOn(t, r)
  BY <1>1, <1>3, <1>6, <1>7, <1>8 DEF GoesOn, Follows
<1>10. \A s \in Sids : (Catches(t, s) /\ Live(s)' /\ s \notin escaped') => Catches(t, s)'
  <2> SUFFICES ASSUME NEW s \in Sids, q.u = sess[s].user, Live(s), s \notin escaped'
               PROVE  Catches(t, s)'
    BY <1>1 DEF Catches, Live
  <2>1. s \in index[q.u]
    BY <1>1, <1>2 DEF FlowInv, ListedOrLost, StoreOK
  <2> QED BY <1>1, <1>2, <1>3, <2>1 DEF Catches, FlowInv, TypeOK
<1> QED BY <1>1, <1>5, <1>6, <1>9, <1>10, ShrinkStep DEF At

LEMMA RevokeUserDelStep ==
  ASSUME FlowInv, NEW t \in Threads, NEW s \in Sids, RevokeUserDel(t, s)
  PROVE  FlowInv'
<1> DEFINE q == th[t]
           r == [q EXCEPT !.todo = @ \ {s}]
<1>1. /\ q.op \in {"lock", "delete"} /\ q.pc = "del" /\ th' = [th EXCEPT ![t] = r]
      /\ sess' = [sess EXCEPT ![s] = NoSession]
      /\ UNCHANGED <<row, codes, used, index, escaped, unlisted>>
  BY DEF RevokeUserDel, login, history
<1>2. q \in ThreadRecord /\ Shape(q) /\ StoreOK
  BY <1>1 DEF FlowInv, TypeOK
<1>3. /\ r \in ThreadRecord /\ r.op = q.op /\ r.pc = "del" /\ r.s = q.s /\ r.u = q.u
      /\ r.cp = q.cp /\ r.todo = q.todo \ {s}
  BY <1>1, <1>2 DEF ThreadRecord, PCs
<1> HIDE DEF r
<1>4. Shrinks /\ StoreOK' /\ \A u \in Users : Entitled(u) => Entitled(u)'
  BY <1>1, <1>2 DEF Shrinks, StoreOK, Entitled, Live
<1>5. Shape(r) /\ StillGone(r) /\ ToldSo(r) /\ ~BeforeStore(r)
  BY <1>1, <1>2, <1>3 DEF Shape, StillGone, ToldSo, BeforeStore
<1>6. \A s2 \in Sids : Mentions(r, s2) => Mentions(q, s2)
  BY <1>1, <1>3 DEF Mentions
<1>7. \A own \in [Sids -> Users \cup {NoRow}] : Owned(own) => SpeaksOf(r, own)
  BY <1>1, <1>2, <1>3 DEF Owned, SpeaksOf
<1>8. GoesOn(t, r)
  BY <1>1, <1>3, <1>5, <1>6, <1>7 DEF GoesOn, Follows, Known
<1>9. \A s2 \in Sids : (Catches(t, s2) /\ Live(s2)' /\ s2 \notin escaped') => Catches(t, s2)'
  BY <1>1, <1>2, <1>3 DEF Catches, FlowInv, TypeOK, StoreOK, Live
<1> QED BY <1>1, <1>4, <1>5, <1>8, <1>9, ShrinkStep DEF At

LEMMA RevokeIndexStep ==
  ASSUME FlowInv, NEW t \in Threads, RevokeIndex(t)
  PROVE  FlowInv'
<1> DEFINE q == th[t]
           lost == {s \in index[q.u] : sess[s] # NoSession}
<1>1. /\ q.op \in {"lock", "delete"} /\ q.pc = "del" /\ q.todo = {} /\ th' = [th EXCEPT ![t] = Idle]
      /\ index' = [index EXCEPT ![q.u] = {}]
      /\ escaped' = escaped \cup lost /\ unlisted' = unlisted \cup lost
      /\ UNCHANGED <<row, codes, used, sess>>
  BY DEF RevokeIndex, Done, login
<1>2. q.u \in Users /\ StoreOK /\ lost \subseteq Sids
  BY <1>1 DEF FlowInv, TypeOK, Shape, StoreOK
<1>3. Shrinks /\ StoreOK' /\ \A u \in Users : Entitled(u) => Entitled(u)'
  <2>1. \A u \in Users : index'[u] = IF u = q.u THEN {} ELSE index[u]
    BY <1>1, <1>2 DEF StoreOK
  <2> QED BY <1>1, <1>2, <2>1 DEF Shrinks, StoreOK, Entitled, Live
<1>4. GoesOn(t, Idle) /\ StillGone(Idle)
  BY <1>1, IdleFollows DEF GoesOn, FlowInv
<1>5. \A s \in Sids : (Catches(t, s) /\ Live(s)' /\ s \notin escaped') => Catches(t, s)'
  BY <1>1 DEF Catches, Live
<1> QED BY <1>1, <1>3, <1>4, <1>5, ShrinkStep DEF At

(* A revocation that fails lets go of what is left of the user's sessions.   *)
LEMMA RevokeFailsStep ==
  ASSUME FlowInv, NEW t \in Threads, RevokeFails(t)
  PROVE  FlowInv'
<1> DEFINE q == th[t]
           left == {s \in Sids : sess[s] # NoSession /\ sess[s].user = q.u}
<1>1. /\ q.op \in {"lock", "delete"} /\ q.pc \in {"members", "del"} /\ th' = [th EXCEPT ![t] = Idle]
      /\ escaped' = escaped \cup left
      /\ UNCHANGED <<row, codes, used, sess, index, unlisted>>
  BY DEF RevokeFails, Done, login, store
<1>2. StoreOK /\ left \subseteq Sids
  BY DEF FlowInv, TypeOK
<1>3. Shrinks /\ StoreOK' /\ \A u \in Users : Entitled(u) => Entitled(u)'
  BY <1>1, <1>2 DEF Shrinks, StoreOK, Entitled
<1>4. GoesOn(t, Idle) /\ StillGone(Idle)
  BY <1>1, IdleFollows DEF GoesOn, FlowInv
<1>5. \A s \in Sids : ~(Catches(t, s) /\ Live(s)' /\ s \notin escaped')
  BY <1>1 DEF Catches, Live
<1> QED BY <1>1, <1>3, <1>4, <1>5, ShrinkStep DEF At

(* The row goes first: from here on the removal catches the user's sessions. *)
LEMMA RemoveRowStep ==
  ASSUME FlowInv, NEW t \in Threads, RemoveRow(t)
  PROVE  FlowInv'
<1> DEFINE q == th[t]
           r == [q EXCEPT !.pc = "members"]
<1>1. /\ q.op \in {"lock", "delete"} /\ q.pc = "row" /\ q.op # "callback"
      /\ UNCHANGED <<codes, used, sess, index, escaped, unlisted>>
  BY DEF RemoveRow, login, store, history
<1>2. q \in ThreadRecord /\ Shape(q) /\ q.u \in Users /\ StoreOK
  BY <1>1 DEF FlowInv, TypeOK, Shape
<1>3. CASE row[q.u] = NoRow
  BY <1>1, <1>3, DoneStep DEF RemoveRow, Reads, At
<1>4. CASE row[q.u] # NoRow
  <2>1. row' = [row EXCEPT ![q.u] = Removed(q.op, @)] /\ th' = [th EXCEPT ![t] = r]
    BY <1>4 DEF RemoveRow, Goto
  <2>2. /\ r \in ThreadRecord /\ r.op = q.op /\ r.pc = "members" /\ r.s = q.s /\ r.u = q.u
        /\ r.cp = q.cp /\ r.todo = q.todo
    BY <1>1, <1>2 DEF ThreadRecord, PCs
  <2> HIDE DEF r
  <2>3. Shape(r) /\ StillGone(r) /\ ToldSo(r) /\ ~BeforeStore(r)
    BY <1>1, <1>2, <2>2 DEF Shape, StillGone, ToldSo, BeforeStore
  <2>4. \A s \in Sids : Mentions(r, s) => Mentions(q, s)
    BY <1>1, <2>2 DEF Mentions
  <2>5. \A own \in [Sids -> Users \cup {NoRow}] : Owned(own) => SpeaksOf(r, own)
    BY <1>1, <2>2 DEF Owned, SpeaksOf
  <2>6. GoesOn(t, r)
    BY <2>1, <2>2, <2>3, <2>4, <2>5 DEF GoesOn, Follows, Known
  <2>7. Removed(q.op, row[q.u]) \in Rows \cup {NoRow}
    <3>1. row[q.u] \in Rows
      BY <1>2, <1>4 DEF StoreOK
    <3> QED BY <3>1 DEF Removed, Rows
  <2>8. Shrinks /\ StoreOK' /\ \A v \in Users \ {q.u} : row'[v] = row[v]
    BY <1>1, <1>2, <2>1, <2>7 DEF Shrinks, StoreOK
  <2>9. FlowRest'
    BY <1>1, <2>3, <2>6, <2>8, RestStays DEF FlowInv, FlowRest, At
  <2>10. EntitledOrCaught'
    <3> SUFFICES ASSUME NEW s \in Sids, Live(s), Active(sess[s]), s \notin escaped
                 PROVE  Entitled(sess[s].user)' \/ \E t2 \in Threads : Catches(t2, s)'
      BY <1>1 DEF EntitledOrCaught, Live, Active
    <3>1. sess[s].user \in Users
      BY <1>2 DEF StoreOK, Live, Stored
    <3>2. th'[t] = r /\ \A t2 \in Threads \ {t} : th'[t2] = th[t2]
      BY <2>6, Others DEF FlowInv
    <3>3. CASE sess[s].user = q.u
      BY <1>1, <2>2, <3>2, <3>3 DEF Catches
    <3>4. CASE sess[s].user # q.u
      <4>1. CASE Entitled(sess[s].user)
        BY <1>1, <2>8, <3>1, <3>4, <4>1 DEF Entitled
      <4>2. ASSUME NEW t2 \in Threads, Catches(t2, s)
            PROVE  Catches(t2, s)'
        BY <1>1, <3>2, <4>2 DEF Catches
      <4> QED BY <4>1, <4>2 DEF FlowInv, EntitledOrCaught
    <3> QED BY <3>3, <3>4
  <2> QED BY <2>9, <2>10 DEF FlowInv, FlowRest
<1> QED BY <1>3, <1>4

(* Steps of handlers that are over at once.                                  *)
LEMMA HandlerStep ==
  ASSUME FlowInv, th' = th, StoreOK', Shrinks, \A u \in Users : Entitled(u) => Entitled(u)'
  PROVE  FlowInv'
<1>1. TypeOK'
  BY DEF FlowInv, TypeOK
<1>2. Fresh'
  <2>1. \A s \in Sids : ~Live(s) => ~Live(s)'
    BY DEF Shrinks, Live
  <2>2. \A u \in Users : index'[u] \subseteq index[u]
    BY DEF Shrinks
  <2>3. \A t \in Threads : BeforeStore(th[t]) => th[t].s \in Sids
    BY DEF FlowInv, TypeOK, Shape, BeforeStore
  <2> QED BY <2>1, <2>2, <2>3 DEF FlowInv, Fresh, Shrinks
<1>3. SeenGone'
  <2>1. \A t \in Threads : th[t].pc \in {"prune", "unindex"} => th[t].s \in Sids
    BY DEF FlowInv, TypeOK, Shape, ThreadRecord
  <2> QED BY <2>1 DEF FlowInv, SeenGone, SawGone, Shrinks, Live
<1>4. ListedOrLost' /\ GatesAsked'
  BY DEF FlowInv, ListedOrLost, GatesAsked, ToldSo, Active, Live, Indexing, At, Shrinks, TypeOK, StoreOK, Stored
<1>5. EntitledOrCaught'
  <2> SUFFICES ASSUME NEW s \in Sids, (Live(s) /\ Active(sess[s]) /\ s \notin escaped)'
               PROVE  Entitled(sess[s].user)' \/ \E t2 \in Threads : Catches(t2, s)'
    BY DEF EntitledOrCaught
  <2>1. sess'[s] = sess[s] /\ Live(s) /\ Active(sess[s]) /\ s \notin escaped /\ sess[s].user \in Users
    BY DEF Shrinks, Live, Active, FlowInv, TypeOK, StoreOK, Stored
  <2>2. s \in index[sess[s].user] => s \in index'[sess[s].user] \/ s \in escaped'
    BY <2>1 DEF Shrinks, Live, StoreOK
  <2> QED BY <2>1, <2>2 DEF FlowInv, EntitledOrCaught, Catches
<1>6. PICK own \in [Sids -> Users \cup {NoRow}] : Owned(own)
  BY DEF FlowInv
<1>7. Owned(own)'
  <2>1. \A s \in Sids : Live(s)' => sess'[s].user = own[s]
    BY <1>6 DEF Owned, Shrinks, Live
  <2>2. \A u \in Users : \A s \in index'[u] : own[s] = u
    BY <1>6 DEF Owned, Shrinks
  <2>3. \A t \in Threads : SpeaksOf(th'[t], own)
    BY <1>6 DEF Owned
  <2> QED BY <2>1, <2>2, <2>3 DEF Owned, SpeaksOf
<1> QED BY <1>1, <1>2, <1>3, <1>4, <1>5, <1>7 DEF FlowInv

LEMMA LogoutStep ==
  ASSUME FlowInv, NEW s \in Sids, LogoutHandler(s)
  PROVE  FlowInv'
<1>1. Shrinks /\ StoreOK' /\ \A u \in Users : Entitled(u) => Entitled(u)'
  BY DEF LogoutHandler, login, history, FlowInv, TypeOK, StoreOK, Shrinks, Live, Entitled
<1> QED BY <1>1, HandlerStep DEF LogoutHandler

LEMMA UnlockStep ==
  ASSUME FlowInv, NEW a \in Sids, NEW u \in Users, UnlockUser(a, u)
  PROVE  FlowInv'
<1>1. /\ row[u] # NoRow /\ row' = [row EXCEPT ![u].locked = FALSE] /\ th' = th
      /\ UNCHANGED <<codes, used, sess, index, escaped, unlisted>>
  BY DEF UnlockUser, login, store, history
<1>2. /\ row' \in [Users -> Rows \cup {NoRow}]
      /\ \A v \in Users : Entitled(v) => Entitled(v)'
  BY <1>1, FlowAssumption DEF Entitled, FlowInv, TypeOK, StoreOK, Rows
<1>3. Shrinks /\ StoreOK'
  BY <1>1, <1>2 DEF FlowInv, TypeOK, StoreOK, Shrinks
<1> QED BY <1>1, <1>2, <1>3, HandlerStep

-----------------------------------------------------------------------------
(* Steps that create or revive a session *)

LEMMA LoginStep ==
  ASSUME FlowInv, NEW s \in Sids, LoginHandler(s)
  PROVE  FlowInv'
<1>1. /\ s \notin used /\ used' = used \cup {s} /\ codes' = codes \cup {s}
      /\ UNCHANGED <<row, sess, index, th, escaped, unlisted>>
  BY DEF LoginHandler, store, history
<1>2. TypeOK'
  BY <1>1 DEF FlowInv, TypeOK, StoreOK
<1>3. Fresh'
  BY <1>1 DEF FlowInv, Fresh, Live
<1>4. SeenGone' /\ ListedOrLost' /\ GatesAsked'
  BY <1>1 DEF FlowInv, SeenGone, SawGone, ListedOrLost, Indexing, At, GatesAsked, ToldSo, Active, Live
<1>5. EntitledOrCaught'
  BY <1>1 DEF FlowInv, EntitledOrCaught, Catches, Entitled, Active, Live
<1>6. \E own \in [Sids -> Users \cup {NoRow}] : Owned(own)'
  BY <1>1 DEF FlowInv, Owned, SpeaksOf, Live
<1> QED BY <1>2, <1>3, <1>4, <1>5, <1>6 DEF FlowInv

(* The exchange of the code settles whose session it will be.                *)
LEMMA CallbackExchangeStep ==
  ASSUME FlowInv, NEW t \in Threads, NEW u \in Users, CallbackExchange(t, u)
  PROVE  FlowInv'
<1> DEFINE q == th[t]
           r == [q EXCEPT !.pc = "approved", !.u = u]
<1>1. /\ q.op = "callback" /\ q.pc = "exchange" /\ codes' = codes \ {q.s}
      /\ UNCHANGED <<row, used, sess, index, escaped, unlisted>>
  BY DEF CallbackExchange, At, store, history
<1>2. q \in ThreadRecord /\ Shape(q) /\ q.s \in Sids /\ q.cp = NoSession /\ q.todo = {} /\ TypeOK
  BY <1>1 DEF FlowInv, TypeOK, Shape
<1>3. CASE Done(t)
  BY <1>1, <1>3, DoneStep DEF Reads, At
<1>4. CASE q.s \in codes /\ th' = [th EXCEPT ![t] = r]
  <2>1. /\ r \in ThreadRecord /\ r.op = "callback" /\ r.pc = "approved" /\ r.s = q.s /\ r.u = u
        /\ r.cp = NoSession /\ r.todo = {}
    BY <1>1, <1>2 DEF ThreadRecord, PCs, CallbackPCs
  <2> HIDE DEF r
  <2>2. Shape(r) /\ ToldSo(r) /\ SawGone(r)
    BY <1>2, <2>1 DEF Shape, CallbackPCs, ToldSo, SawGone
  <2>3. th'[t] = r /\ \A t2 \in Threads \ {t} : th'[t2] = th[t2]
    BY <1>2, <1>4 DEF TypeOK
  <2>4. TypeOK'
    BY <1>1, <1>2, <1>4, <2>1, <2>2 DEF TypeOK, StoreOK
  <2>5. /\ ~Live(q.s) /\ \A v \in Users : q.s \notin index[v]
        /\ \A t2 \in Threads : ~Mentions(th[t2], q.s)
    BY <1>2, <1>4 DEF FlowInv, Fresh
  <2>6. Fresh'
    <3>1. ASSUME NEW s \in Sids, s \in codes' \/ s \notin used'
          PROVE  /\ ~Live(s)' /\ \A v \in Users : s \notin index'[v]
                 /\ \A t2 \in Threads : ~Mentions(th'[t2], s)
      <4>1. s # q.s /\ (s \in codes \/ s \notin used)
        BY <1>1, <1>2, <1>4, <3>1 DEF TypeOK, StoreOK
      <4>2. ~Mentions(r, s)
        BY <2>1, <4>1 DEF Mentions
      <4> QED BY <1>1, <2>3, <4>1, <4>2 DEF FlowInv, Fresh, Live
    <3>2. ASSUME NEW t1 \in Threads, BeforeStore(th'[t1])
          PROVE  /\ ~Live(th[t1].s)' /\ \A v \in Users : th'[t1].s \notin index'[v]
                 /\ \A t2 \in Threads \ {t1} : ~Mentions(th'[t2], th'[t1].s)
      <4>1. CASE t1 = t
        BY <1>1, <2>1, <2>3, <2>5, <4>1 DEF Live
      <4>2. CASE t1 # t
        <5>1. th'[t1] = th[t1] /\ Mentions(th[t1], th[t1].s)
          BY <2>3, <3>2, <4>2 DEF BeforeStore, Mentions
        <5>2. ~Mentions(r, th[t1].s)
          BY <2>1, <2>5, <5>1 DEF Mentions
        <5> QED BY <1>1, <2>3, <3>2, <5>1, <5>2 DEF FlowInv, Fresh, Live
      <4> QED BY <4>1, <4>2
    <3> QED BY <3>1, <3>2 DEF Fresh
  <2>7. SeenGone' /\ GatesAsked'
    BY <1>1, <2>2, <2>3 DEF FlowInv, SeenGone, SawGone, GatesAsked, ToldSo, Active, Live
  <2>8. ListedOrLost'
    BY <1>1, <1>2, <2>3 DEF FlowInv, ListedOrLost, Live, Indexing, At
  <2>9. EntitledOrCaught'
    BY <1>1, <2>3 DEF FlowInv, EntitledOrCaught, Catches, Entitled, Active, Live
  <2>10. PICK own \in [Sids -> Users \cup {NoRow}] : Owned(own)
    BY DEF FlowInv
  <2>11. PICK own2 \in [Sids -> Users \cup {NoRow}] :
            own2[q.s] = u /\ \A s \in Sids : s # q.s => own2[s] = own[s]
    <3>1. [own EXCEPT ![q.s] = u] \in [Sids -> Users \cup {NoRow}]
      BY <1>2
    <3> QED BY <1>2, <3>1
  <2>12. \A s \in Sids : Live(s)' => sess'[s].user = own2[s]
    BY <1>1, <2>5, <2>10, <2>11 DEF Owned, Live
  <2>13. \A v \in Users : \A s \in index'[v] : own2[s] = v
    BY <1>1, <1>2, <2>5, <2>10, <2>11 DEF Owned, TypeOK, StoreOK
  <2>14. SpeaksOf(r, own2)
    BY <2>1, <2>11 DEF SpeaksOf
  <2>15. ASSUME NEW t2 \in Threads, t2 # t
         PROVE  SpeaksOf(th[t2], own2)
    <3>1. th[t2] \in ThreadRecord /\ Shape(th[t2]) /\ SpeaksOf(th[t2], own)
      BY <1>2, <2>10 DEF TypeOK, Owned
    <3>2. q.s \notin th[t2].todo /\ (th[t2].s = q.s => th[t2].pc \in {"consume", "exchange"})
      BY <2>5 DEF Mentions
    <3>3. /\ th[t2].cp # NoSession => th[t2].s \in Sids /\ th[t2].s # q.s
          /\ (th[t2].op = "callback" /\ th[t2].pc \notin {"consume", "exchange"}) => th[t2].s \in Sids
      BY <3>1, <3>2 DEF Shape, ThreadRecord
    <3> QED BY <2>11, <3>1, <3>2, <3>3 DEF SpeaksOf, ThreadRecord
  <2>16. \A t2 \in Threads : SpeaksOf(th'[t2], own2)
    BY <2>3, <2>14, <2>15
  <2>17. Owned(own2)'
    BY <2>12, <2>13, <2>16 DEF Owned, SpeaksOf, Live
  <2> QED BY <2>4, <2>6, <2>7, <2>8, <2>9, <2>11, <2>17 DEF FlowInv
<1> QED BY <1>1, <1>3, <1>4 DEF CallbackExchange

(* The session is stored: nobody else knows of it yet, and its index entry   *)
(* is on the way.                                                            *)
LEMMA CallbackStoreStep ==
  ASSUME FlowInv, NEW t \in Threads, CallbackStore(t)
  PROVE  FlowInv'
<1> DEFINE q == th[t]
           r == [q EXCEPT !.pc = "index"]
           late == Active(q.cp) /\ ~Entitled(q.u)
<1>1. /\ q.op = "callback" /\ q.pc = "store" /\ th' = [th EXCEPT ![t] = r]
      /\ sess' = [sess EXCEPT ![q.s] = q.cp]
      /\ escaped' = IF late /\ q.fresh THEN escaped \cup {q.s} ELSE escaped
      /\ UNCHANGED <<row, codes, used, index, unlisted>>
  BY DEF CallbackStore, At, Goto, login
<1>2. /\ q \in ThreadRecord /\ Shape(q) /\ ToldSo(q) /\ q.s \in Sids /\ q.u \in Users
      /\ q.cp \in Stored /\ q.cp # NoSession /\ q.todo = {} /\ TypeOK
  BY <1>1, FlowAssumption DEF FlowInv, TypeOK, Shape, GatesAsked
<1>3. PICK own \in [Sids -> Users \cup {NoRow}] : Owned(own)
  BY DEF FlowInv
<1>4. q.cp.user = q.u /\ own[q.s] = q.u
  BY <1>1, <1>2, <1>3 DEF Owned, SpeaksOf
<1>5. /\ r \in ThreadRecord /\ r.op = "callback" /\ r.pc = "index" /\ r.s = q.s /\ r.u = q.u
      /\ r.cp = q.cp /\ r.todo = {}
  BY <1>1, <1>2 DEF ThreadRecord, PCs, CallbackPCs
<1> HIDE DEF r
<1>6. Shape(r) /\ ToldSo(r) /\ SawGone(r) /\ ~BeforeStore(r) /\ \A s \in Sids : Mentions(r, s) => s = q.s
  BY <1>2, <1>5 DEF Shape, CallbackPCs, ToldSo, SawGone, BeforeStore, Mentions
<1>7. th'[t] = r /\ \A t2 \in Threads \ {t} : th'[t2] = th[t2]
  BY <1>1, <1>2 DEF TypeOK
<1>8. TypeOK'
  BY <1>1, <1>2, <1>5, <1>6 DEF TypeOK, StoreOK
<1>9. /\ ~Live(q.s) /\ \A v \in Users : q.s \notin index[v]
      /\ \A t2 \in Threads \ {t} : ~Mentions(th[t2], q.s)
      /\ Mentions(q, q.s)
  BY <1>1 DEF FlowInv, Fresh, BeforeStore, Mentions
<1>10. \A s \in Sids : s # q.s => sess'[s] = sess[s]
  BY <1>1
<1>11. Fresh'
  <2>1. ASSUME NEW s \in Sids, s \in codes' \/ s \notin used'
        PROVE  /\ ~Live(s)' /\ \A v \in Users : s \notin index'[v]
               /\ \A t2 \in Threads : ~Mentions(th'[t2], s)
    <3>1. s # q.s
      BY <1>1, <1>9, <2>1 DEF FlowInv, Fresh
    <3> QED BY <1>1, <1>6, <1>7, <1>10, <2>1, <3>1 DEF FlowInv, Fresh, Live
  <2>2. ASSUME NEW t1 \in Threads, BeforeStore(th'[t1])
        PROVE  /\ ~Live(th[t1].s)' /\ \A v \in Users : th'[t1].s \notin index'[v]
               /\ \A t2 \in Threads \ {t1} : ~Mentions(th'[t2], th'[t1].s)
    <3>1. t1 # t /\ th'[t1] = th[t1]
      BY <1>6, <1>7, <2>2
    <3>2. th[t1].s # q.s /\ th[t1].s \in Sids
      BY <1>2, <1>9, <2>2, <3>1 DEF BeforeStore, Mentions, TypeOK, Shape
    <3> QED BY <1>1, <1>6, <1>7, <1>10, <2>2, <3>1, <3>2 DEF FlowInv, Fresh, Live
  <2> QED BY <2>1, <2>2 DEF Fresh
<1>12. SeenGone'
  <2> SUFFICES ASSUME NEW t1 \in Threads, th'[t1].pc \in {"prune", "unindex"}
               PROVE  (~Live(th[t1].s) \/ th[t1].s \in unlisted)'
    BY DEF SeenGone, SawGone
  <2>1. t1 # t /\ th'[t1] = th[t1]
    BY <1>5, <1>7
  <2>2. th[t1].s # q.s /\ th[t1].s \in Sids
    BY <1>2, <1>9, <2>1 DEF Mentions, TypeOK, Shape, ThreadRecord
  <2> QED BY <1>1, <1>10, <2>1, <2>2 DEF FlowInv, SeenGone, SawGone, Live
<1>13. GatesAsked'
  BY <1>6, <1>7 DEF FlowInv, GatesAsked, ToldSo, Active
<1>14. ListedOrLost'
  <2> SUFFICES ASSUME NEW s \in Sids, Live(s)', s \notin unlisted
               PROVE  (s \in index[sess[s].user] \cup Indexing(sess[s].user))'
    BY <1>1 DEF ListedOrLost
  <2>1. CASE s = q.s
    BY <1>1, <1>2, <1>4, <1>5, <1>7, <2>1 DEF Indexing, At, TypeOK, StoreOK
  <2>2. CASE s # q.s
    <3>1. sess'[s] = sess[s] /\ s \in index[sess[s].user] \cup Indexing(sess[s].user)
      BY <1>10, <2>2 DEF FlowInv, ListedOrLost, Live
    <3> QED BY <1>1, <1>5, <1>7, <3>1 DEF Indexing, At
  <2> QED BY <2>1, <2>2
<1>15. EntitledOrCaught'
  <2> SUFFICES ASSUME NEW s \in Sids, (Live(s) /\ Active(sess[s]) /\ s \notin escaped)'
               PROVE  Entitled(sess[s].user)' \/ \E t2 \in Threads : Catches(t2, s)'
    BY DEF EntitledOrCaught
  <2>1. CASE s = q.s
    <3>1. sess'[s] = q.cp
      BY <1>1, <1>2, <2>1 DEF TypeOK, StoreOK
    <3>2. q.fresh /\ Entitled(q.u)
      BY <1>1, <1>2, <2>1, <3>1 DEF ToldSo, Active
    <3> QED BY <1>1, <1>4, <3>1, <3>2 DEF Entitled
  <2>2. CASE s # q.s
    <3>1. sess'[s] = sess[s] /\ Live(s) /\ Active(sess[s]) /\ s \notin escaped
      BY <1>1, <1>10, <2>2 DEF Live, Active
    <3>2. Entitled(sess[s].user) => Entitled(sess[s].user)'
      BY <1>1, <3>1 DEF Entitled
    <3>3. \A t2 \in Threads : Catches(t2, s) => Catches(t2, s)'
      BY <1>1, <1>7, <3>1 DEF Catches
    <3> QED BY <3>1, <3>2, <3>3 DEF FlowInv, EntitledOrCaught
  <2> QED BY <2>1, <2>2
<1>16. Owned(own)'
  <2>1. \A s \in Sids : Live(s)' => sess'[s].user = own[s]
    BY <1>1, <1>2, <1>3, <1>4 DEF Owned, Live, TypeOK, StoreOK
  <2>2. \A t2 \in Threads : SpeaksOf(th'[t2], own)
    BY <1>2, <1>3, <1>4, <1>5, <1>7 DEF Owned, SpeaksOf
  <2> QED BY <1>1, <1>3, <2>1, <2>2 DEF Owned, SpeaksOf
<1> QED BY <1>8, <1>11, <1>12, <1>13, <1>14, <1>15, <1>16 DEF FlowInv

LEMMA CallbackIndexStep ==
  ASSUME FlowInv, NEW t \in Threads, CallbackIndex(t)
  PROVE  FlowInv'
<1> DEFINE q == th[t]
<1>1. /\ q.op = "callback" /\ q.pc = "index" /\ th' = [th EXCEPT ![t] = Idle]
      /\ index' = [index EXCEPT ![q.u] = @ \cup {q.s}]
      /\ UNCHANGED <<row, codes, used, sess, escaped, unlisted>>
  BY DEF CallbackIndex, At, Done, login, history
<1>2. q \in ThreadRecord /\ Shape(q) /\ q.s \in Sids /\ q.u \in Users /\ TypeOK
  BY <1>1 DEF FlowInv, TypeOK, Shape
<1>3. /\ Idle \in ThreadRecord /\ Shape(Idle) /\ ToldSo(Idle) /\ SawGone(Idle) /\ ~BeforeStore(Idle)
      /\ Idle.op = "idle"
  BY <1>2, IdleFollows DEF Follows, Idle, BeforeStore
<1>4. th'[t] = Idle /\ \A t2 \in Threads \ {t} : th'[t2] = th[t2]
  BY <1>1, <1>2 DEF TypeOK
<1>5. TypeOK'
  BY <1>1, <1>2, <1>3 DEF TypeOK, StoreOK
<1>6. /\ \A v \in Users : index[v] \subseteq index'[v] /\ index'[v] \subseteq index[v] \cup {q.s}
      /\ q.s \in index'[q.u] /\ \A v \in Users \ {q.u} : index'[v] = index[v]
  BY <1>1, <1>2 DEF TypeOK, StoreOK
<1>7. Mentions(q, q.s) /\ \A s \in Sids : ~Mentions(Idle, s)
  BY <1>1, FlowAssumption DEF Mentions, Idle
<1>8. Fresh'
  <2>1. ASSUME NEW s \in Sids, s \in codes' \/ s \notin used'
        PROVE  /\ ~Live(s)' /\ \A v \in Users : s \notin index'[v]
               /\ \A t2 \in Threads : ~Mentions(th'[t2], s)
    <3>1. s # q.s
      BY <1>1, <1>7, <2>1 DEF FlowInv, Fresh
    <3> QED BY <1>1, <1>4, <1>6, <1>7, <2>1, <3>1 DEF FlowInv, Fresh, Live
  <2>2. ASSUME NEW t1 \in Threads, BeforeStore(th'[t1])
        PROVE  /\ ~Live(th[t1].s)' /\ \A v \in Users : th'[t1].s \notin index'[v]
               /\ \A t2 \in Threads \ {t1} : ~Mentions(th'[t2], th'[t1].s)
    <3>1. t1 # t /\ th'[t1] = th[t1]
      BY <1>3, <1>4, <2>2
    <3>2. th[t1].s # q.s /\ th[t1].s \in Sids
      BY <1>2, <1>7, <2>2, <3>1 DEF FlowInv, Fresh, BeforeStore, TypeOK, Shape
    <3> QED BY <1>1, <1>4, <1>6, <1>7, <2>2, <3>1, <3>2 DEF FlowInv, Fresh, Live
  <2> QED BY <2>1, <2>2 DEF Fresh
<1>9. SeenGone' /\ GatesAsked'
  BY <1>1, <1>3, <1>4 DEF FlowInv, SeenGone, SawGone, GatesAsked, ToldSo, Active, Live
<1>10. ListedOrLost'
  <2> SUFFICES ASSUME NEW s \in Sids, Live(s), s \notin unlisted
               PROVE  (s \in index[sess[s].user] \cup Indexing(sess[s].user))'
    BY <1>1 DEF ListedOrLost, Live
  <2>1. sess[s].user \in Users /\ s \in index[sess[s].user] \cup Indexing(sess[s].user)
    BY <1>2 DEF FlowInv, ListedOrLost, TypeOK, StoreOK, Live, Stored
  <2>2. CASE s \in index[sess[s].user]
    BY <1>1, <1>6, <2>1, <2>2
  <2>3. ASSUME NEW t2 \in Threads, At(t2, "callback", "index"), th[t2].u = sess[s].user, th[t2].s = s
        PROVE  (s \in index[sess[s].user] \cup Indexing(sess[s].user))'
    <3>1. CASE t2 = t
      BY <1>1, <1>6, <2>3, <3>1
    <3>2. CASE t2 # t
      BY <1>1, <1>4, <2>3, <3>2 DEF Indexing, At
    <3> QED BY <3>1, <3>2
  <2> QED BY <2>1, <2>2, <2>3 DEF Indexing
<1>11. EntitledOrCaught'
  <2> SUFFICES ASSUME NEW s \in Sids, Live(s), Active(sess[s]), s \notin escaped
               PROVE  Entitled(sess[s].user)' \/ \E t2 \in Threads : Catches(t2, s)'
    BY <1>1 DEF EntitledOrCaught, Live, Active
  <2>1. sess[s].user \in Users
    BY <1>2 DEF TypeOK, StoreOK, Live, Stored
  <2>2. Entitled(sess[s].user) => Entitled(sess[s].user)'
    BY <1>1 DEF Entitled
  <2>3. \A t2 \in Threads : Catches(t2, s) => Catches(t2, s)'
    BY <1>1, <1>4, <1>6, <2>1 DEF Catches
  <2> QED BY <2>2, <2>3 DEF FlowInv, EntitledOrCaught
<1>12. PICK own \in [Sids -> Users \cup {NoRow}] : Owned(own)
  BY DEF FlowInv
<1>13. Owned(own)'
  <2>1. own[q.s] = q.u
    BY <1>1, <1>12 DEF Owned, SpeaksOf
  <2>2. \A v \in Users : \A s \in index'[v] : own[s] = v
    BY <1>6, <1>12, <2>1 DEF Owned
  <2>3. \A t2 \in Threads : SpeaksOf(th'[t2], own)
    BY <1>2, <1>4, <1>12, IdleFollows DEF Owned, Follows
  <2> QED BY <1>1, <1>12, <2>2, <2>3 DEF Owned, SpeaksOf, Live
<1> QED BY <1>5, <1>8, <1>9, <1>10, <1>11, <1>13 DEF FlowInv

(* A copy is written back: what it revives counts as escaped and unlisted.   *)
LEMMA WriteBackStep ==
  ASSUME FlowInv, NEW t \in Threads, th[t].op \in {"revalidate", "approve"}, th[t].pc = "set",
         NEW c \in Stored, c.user = th[t].cp.user, WriteBack(th[t].s, c),
         UNCHANGED <<row, codes, used, index>>,
         NEW r, GoesOn(t, r), ~BeforeStore(r), r.pc \notin {"prune", "unindex"}
  PROVE  FlowInv'
<1> DEFINE q == th[t]
<1>1. /\ sess' = [sess EXCEPT ![q.s] = c]
      /\ escaped \subseteq escaped' /\ escaped' \subseteq escaped \cup {q.s}
      /\ unlisted \subseteq unlisted' /\ unlisted' \subseteq unlisted \cup {q.s}
      /\ ~Live(q.s) => q.s \in unlisted' /\ q.s \in escaped'
      /\ (Active(c) /\ ~Entitled(c.user) /\ ~Active(sess[q.s])) => q.s \in escaped'
      /\ (Live(q.s) => unlisted' = unlisted)
  BY DEF WriteBack, Live
<1>2. /\ q \in ThreadRecord /\ Shape(q) /\ q.s \in Sids /\ q.cp # NoSession
      /\ c # NoSession /\ TypeOK
  BY FlowAssumption DEF FlowInv, TypeOK, Shape
<1>3. th'[t] = r /\ \A t2 \in Threads \ {t} : th'[t2] = th[t2]
  BY <1>2, Others
<1>4. TypeOK'
  BY <1>1, <1>2, Others DEF TypeOK, StoreOK
<1>5. PICK own \in [Sids -> Users \cup {NoRow}] : Owned(own)
  BY DEF FlowInv
<1>6. own[q.s] = c.user /\ (Live(q.s) => sess[q.s].user = c.user)
  BY <1>2, <1>5 DEF Owned, SpeaksOf
<1>7. Mentions(q, q.s) /\ ~BeforeStore(q)
  BY DEF Mentions, BeforeStore
<1>8. \A s \in Sids : s # q.s => sess'[s] = sess[s]
  BY <1>1
<1>9. Fresh'
  <2>1. ASSUME NEW s \in Sids, s \in codes' \/ s \notin used'
        PROVE  /\ ~Live(s)' /\ \A v \in Users : s \notin index'[v]
               /\ \A t2 \in Threads : ~Mentions(th'[t2], s)
    <3>1. s # q.s
      BY <1>7, <2>1 DEF FlowInv, Fresh
    <3>2. ~Mentions(r, s)
      BY <2>1 DEF GoesOn, Follows, Known, FlowInv, Fresh
    <3> QED BY <1>3, <1>8, <2>1, <3>1, <3>2 DEF FlowInv, Fresh, Live
  <2>2. ASSUME NEW t1 \in Threads, BeforeStore(th'[t1])
        PROVE  /\ ~Live(th[t1].s)' /\ \A v \in Users : th'[t1].s \notin index'[v]
               /\ \A t2 \in Threads \ {t1} : ~Mentions(th'[t2], th'[t1].s)
    <3>1. t1 # t /\ th'[t1] = th[t1]
      BY <1>3, <2>2
    <3>2. th[t1].s \in Sids
      BY <1>2, <2>2, <3>1 DEF BeforeStore, TypeOK, Shape
    <3>3. /\ ~Live(th[t1].s) /\ \A v \in Users : th[t1].s \notin index[v]
          /\ \A t2 \in Threads \ {t1} : ~Mentions(th[t2], th[t1].s)
      BY <2>2, <3>1 DEF FlowInv, Fresh
    <3>4. th[t1].s # q.s
      BY <1>7, <3>1, <3>3
    <3>5. ~Mentions(r, th[t1].s)
      BY <3>1, <3>2, <3>3 DEF GoesOn, Follows, Known
    <3> QED BY <1>3, <1>8, <3>1, <3>2, <3>3, <3>4, <3>5 DEF Live
  <2> QED BY <2>1, <2>2 DEF Fresh
<1>10. SeenGone'
  <2> SUFFICES ASSUME NEW t1 \in Threads, th'[t1].pc \in {"prune", "unindex"}
               PROVE  (~Live(th[t1].s) \/ th[t1].s \in unlisted)'
    BY DEF SeenGone, SawGone
  <2>1. t1 # t /\ th'[t1] = th[t1]
    BY <1>3
  <2>2. th[t1].s \in Sids /\ (~Live(th[t1].s) \/ th[t1].s \in unlisted)
    BY <1>2, <2>1 DEF TypeOK, Shape, ThreadRecord, FlowInv, SeenGone, SawGone
  <2> QED BY <1>1, <1>8, <2>1, <2>2 DEF Live
<1>11. GatesAsked'
  BY GatesStay DEF FlowInv
<1>12. ListedOrLost'
  <2> SUFFICES ASSUME NEW s \in Sids, Live(s)', s \notin unlisted'
               PROVE  (s \in index[sess[s].user] \cup Indexing(sess[s].user))'
    BY DEF ListedOrLost
  <2>1. Live(s) /\ sess'[s].user = sess[s].user /\ s \notin unlisted
    <3>1. CASE s = q.s
      BY <1>1, <1>2, <1>6, <3>1 DEF TypeOK, StoreOK
    <3>2. CASE s # q.s
      BY <1>1, <1>8, <3>2 DEF Live
    <3> QED BY <3>1, <3>2
  <2>2. s \in index[sess[s].user] \cup Indexing(sess[s].user)
    BY <2>1 DEF FlowInv, ListedOrLost
  <2> QED BY <1>3, <2>1, <2>2 DEF Indexing, At
<1>13. EntitledOrCaught'
  <2> SUFFICES ASSUME NEW s \in Sids, (Live(s) /\ Active(sess[s]) /\ s \notin escaped)'
               PROVE  Entitled(sess[s].user)' \/ \E t2 \in Threads : Catches(t2, s)'
    BY DEF EntitledOrCaught
  <2>1. /\ sess'[s].user = sess[s].user /\ Live(s) /\ s \notin escaped
        /\ Active(sess[s]) \/ Entitled(sess[s].user)
    <3>1. CASE s = q.s
      <4>1. sess'[s] = c
        BY <1>1, <1>2, <3>1 DEF TypeOK, StoreOK
      <4> QED BY <1>1, <1>6, <3>1, <4>1 DEF Active
    <3>2. CASE s # q.s
      BY <1>1, <1>8, <3>2 DEF Live, Active
    <3> QED BY <3>1, <3>2
  <2>2. Entitled(sess[s].user) => Entitled(sess[s].user)'
    BY <2>1 DEF Entitled
  <2>3. \A t2 \in Threads : Catches(t2, s) => Catches(t2, s)'
    BY <1>3, <2>1 DEF Catches
  <2> QED BY <2>1, <2>2, <2>3 DEF FlowInv, EntitledOrCaught
<1>14. Owned(own)'
  <2>1. \A s \in Sids : Live(s)' => sess'[s].user = own[s]
    BY <1>1, <1>2, <1>5, <1>6 DEF Owned, Live, TypeOK, StoreOK
  <2>2. \A t2 \in Threads : SpeaksOf(th'[t2], own)
    BY <1>3, <1>5 DEF Owned, GoesOn, Follows
  <2> QED BY <1>5, <2>1, <2>2 DEF Owned, SpeaksOf
<1> QED BY <1>4, <1>9, <1>10, <1>11, <1>12, <1>13, <1>14 DEF FlowInv

LEMMA RevalidateSetStep ==
  ASSUME FlowInv, NEW t \in Threads, RevalidateSet(t)
  PROVE  FlowInv'
<1>1. /\ th[t].op = "revalidate" /\ th[t].pc = "set" /\ WriteBack(th[t].s, th[t].cp)
      /\ UNCHANGED <<row, codes, used, index>>
  BY DEF RevalidateSet, At, login
<1>2. th[t].cp \in Stored
  BY <1>1 DEF FlowInv, TypeOK, Shape
<1>3. GoesOn(t, Idle)
  BY IdleFollows DEF RevalidateSet, Done, GoesOn, FlowInv
<1> QED BY <1>1, <1>2, <1>3, WriteBackStep DEF Idle, BeforeStore

LEMMA ApproveSetStep ==
  ASSUME FlowInv, NEW t \in Threads, ApproveSet(t)
  PROVE  FlowInv'
<1> DEFINE q == th[t]
           c == [q.cp EXCEPT !.role = RoleAtIdP[q.u], !.locked = FALSE]
           r == [q EXCEPT !.pc = "get", !.todo = @ \ {q.s}]
<1>1. /\ q.op = "approve" /\ q.pc = "set" /\ WriteBack(q.s, c)
      /\ th' = [th EXCEPT ![t] = r] /\ UNCHANGED <<row, codes, used, index>>
  BY DEF ApproveSet, At, login
<1>2. q \in ThreadRecord /\ Shape(q) /\ q.u \in Users /\ q.s \in Sids /\ q.cp \in Stored
  BY <1>1 DEF FlowInv, TypeOK, Shape, ThreadRecord
<1>3. c \in Stored /\ c.user = q.cp.user
  <2>1. RoleAtIdP[q.u] \in Roles
    BY <1>2, FlowAssumption
  <2> QED BY <1>2, <2>1 DEF Stored
<1>4. /\ r \in ThreadRecord /\ r.op = "approve" /\ r.pc = "get" /\ r.s = q.s /\ r.u = q.u
      /\ r.cp = q.cp /\ r.todo = q.todo \ {q.s}
  BY <1>1, <1>2 DEF ThreadRecord, PCs
<1> HIDE DEF r, c
<1>5. Shape(r) /\ ToldSo(r) /\ ~BeforeStore(r) /\ \A s \in Sids : Mentions(r, s) => Mentions(q, s)
  BY <1>1, <1>2, <1>4 DEF Shape, ToldSo, BeforeStore, Mentions
<1>6. \A own \in [Sids -> Users \cup {NoRow}] : Owned(own) => SpeaksOf(r, own)
  BY <1>1, <1>4 DEF Owned, SpeaksOf
<1>7. GoesOn(t, r)
  BY <1>1, <1>4, <1>5, <1>6 DEF GoesOn, Follows, Known
<1> QED BY <1>1, <1>3, <1>4, <1>5, <1>7, WriteBackStep

-----------------------------------------------------------------------------
(* The invariant, and what it says of sessions *)

LEMMA FlowInit == Init => FlowInv
<1> SUFFICES ASSUME Init PROVE FlowInv
  OBVIOUS
<1>1. row \in [Users -> Rows \cup {NoRow}]
  BY DEF Init
<1>2. sess \in [Sids -> Stored \cup {NoSession}]
  BY DEF Init
<1>3. Idle \in ThreadRecord /\ Shape(Idle) /\ ToldSo(Idle) /\ SawGone(Idle) /\ ~BeforeStore(Idle)
  BY DEF Idle, ThreadRecord, Ops, PCs, Spots, Shape, ToldSo, SawGone, BeforeStore
<1>4. Idle.op = "idle" /\ Idle.cp = NoSession /\ Idle.todo = {} /\ \A s \in Sids : ~Mentions(Idle, s)
  BY FlowAssumption DEF Idle, Mentions
<1>5. th \in [Threads -> ThreadRecord] /\ \A t \in Threads : th[t] = Idle
  BY <1>3 DEF Init
<1>6. TypeOK
  BY <1>1, <1>2, <1>3, <1>5 DEF TypeOK, StoreOK, Init
<1>7. Fresh /\ SeenGone /\ GatesAsked
  BY <1>3, <1>4, <1>5 DEF Init, Fresh, SeenGone, GatesAsked, Live
<1>8. ListedOrLost
  BY <1>2, FlowAssumption DEF ListedOrLost, Init, Live, Stored
<1>9. EntitledOrCaught
  BY DEF EntitledOrCaught, Init, Live, Active
<1>10. PICK own \in [Sids -> Users \cup {NoRow}] : \A s \in Sids : Live(s) => sess[s].user = own[s]
  <2> DEFINE own == [s \in Sids |-> IF Live(s) THEN sess[s].user ELSE NoRow]
  <2>1. own \in [Sids -> Users \cup {NoRow}]
    BY <1>2 DEF Live, Stored
  <2>2. \A s \in Sids : Live(s) => sess[s].user = own[s]
    OBVIOUS
  <2> HIDE DEF own
  <2> QED BY <2>1, <2>2
<1>11. Owned(own)
  <2>1. \A u \in Users : \A s \in index[u] : own[s] = u
    BY <1>10 DEF Init, Live
  <2>2. \A t \in Threads : SpeaksOf(th[t], own)
    BY <1>4, <1>5 DEF SpeaksOf
  <2> QED BY <1>10, <2>1, <2>2 DEF Owned
<1> QED BY <1>6, <1>7, <1>8, <1>9, <1>11 DEF FlowInv

LEMMA FlowStep == FlowInv /\ [Next]_vars => FlowInv'
<1> SUFFICES ASSUME FlowInv, [Next]_vars PROVE FlowInv'
  OBVIOUS
<1>1. CASE UNCHANGED vars
  <2>1. StoreOK' /\ Shrinks /\ th' = th /\ \A u \in Users : Entitled(u) => Entitled(u)'
    BY <1>1 DEF vars, FlowInv, TypeOK, StoreOK, Shrinks, Entitled
  <2> QED BY <2>1, HandlerStep
<1>2. ASSUME NEW s \in Sids, LoginHandler(s) \/ LogoutHandler(s) PROVE FlowInv'
  BY <1>2, LoginStep, LogoutStep
<1>3. ASSUME NEW a \in Sids, NEW u \in Users, UnlockUser(a, u) PROVE FlowInv'
  BY <1>3, UnlockStep
<1>4. ASSUME NEW t \in Threads, NEW s \in Sids,
             CallbackBegin(t, s) \/ RevalidateBegin(t, s) \/ ListBegin(t, s) \/ ListGet(t, s) \/ ApproveGet(t, s)
      PROVE  FlowInv'
  BY <1>4, CallbackBeginStep, RevokeBeginStep, ListBeginStep, ListGetStep, ApproveGetStep
<1>5. ASSUME NEW t \in Threads, NEW u \in Users, CallbackExchange(t, u) PROVE FlowInv'
  BY <1>5, CallbackExchangeStep
<1>6. ASSUME NEW t \in Threads,
             CallbackConsume(t) \/ CallbackApproved(t) \/ CallbackLocked(t) \/ CallbackUpsert(t) \/ CreateSession(t)
      PROVE  FlowInv'
  BY <1>6, CallbackConsumeStep, CallbackApprovedStep, CallbackLockedStep, CallbackUpsertStep,
     CallbackStoreStep, CallbackIndexStep DEF CreateSession
<1>7. ASSUME NEW t \in Threads, NEW s \in Sids, NEW at \in Places, RequestBegin(t, s, at) PROVE FlowInv'
  BY <1>7, RequestBeginStep
<1>8. ASSUME NEW t \in Threads, AnomalyCheck(t) \/ AnomalyRecord(t) PROVE FlowInv'
  BY <1>8, AnomalyCheckStep, AnomalyRecordStep
<1>9. ASSUME NEW t \in Threads, NEW a \in Sids, NEW s \in Sids,
             revokeSessionHandler(t, a, s) \/ RevokeMySessionHandler(t, a, s)
      PROVE  FlowInv'
  BY <1>9, RevokeBeginStep DEF revokeSessionHandler, RevokeMySessionHandler
<1>10. ASSUME NEW t \in Threads,
              \/ RevokeDel(t) \/ RevokeUnindex(t) \/ RevalidateSet(t)
              \/ Prune(t) \/ Finish(t) \/ ApproveMembers(t) \/ ApproveSet(t)
       PROVE  FlowInv'
  BY <1>10, RevokeDelStep, RevokeUnindexStep, RevalidateSetStep, PruneStep, FinishStep,
     ApproveMembersStep, ApproveSetStep
<1>11. ASSUME NEW t \in Threads, NEW a \in Sids, NEW u \in Users,
              \/ ApproveBegin(t, a, u)
              \/ \E op \in {"lock", "delete"} : RemoveBegin(t, a, u, op)
       PROVE  FlowInv'
  BY <1>11, ApproveBeginStep, RemoveBeginStep
<1>12. ASSUME NEW t \in Threads, Remove(t) PROVE FlowInv'
  BY <1>12, RemoveRowStep, RevokeMembersStep, RevokeIndexStep, RevokeUserDelStep, RevokeFailsStep
     DEF Remove
<1> QED BY <1>1, <1>2, <1>3, <1>4, <1>5, <1>6, <1>7, <1>8, <1>9, <1>10, <1>11, <1>12 DEF Next

(* The invariant behind both: what each request has read is still so, or the *)
(* window through which it changed has been recorded.                        *)
THEOREM FlowInvHolds == Spec => []FlowInv
<1> QED BY FlowInit, FlowStep, PTL DEF Spec

(* However requests overlap, a live session stays in its user's index,       *)
(* unless an index was deleted unread or a copy was written back.            *)
THEOREM SessionsStayListed == Spec => []ListedOrLost
<1>1. FlowInv => ListedOrLost
  BY DEF FlowInv
<1> QED BY <1>1, FlowInvHolds, PTL

(* However requests overlap, an active session belongs to an entitled user,  *)
(* or the revocation is still running, or the session went through one of    *)
(* the windows that the handlers leave open.                                 *)
THEOREM SessionsAreEntitled == Spec => []EntitledOrEscaped
<1>1. FlowInv => EntitledOrEscaped
  BY DEF FlowInv, EntitledOrCaught, EntitledOrEscaped, Catches, Removing, Live, Active
<1> QED BY <1>1, FlowInvHolds, PTL

-----------------------------------------------------------------------------
(* The last admin *)

(* A step of one request that takes no admin away.                           *)
AdminsKept == RowsGood' /\ Admins \subseteq Admins' /\ (crossed => crossed')

Continues(t, r) ==
  /\ th' = [th EXCEPT ![t] = r]
  /\ r.cp # NoSession =>
       /\ GoodRole(r.cp)
       /\ (r.op = "callback" => r.pc \in {"store", "index"}) =>
            (RoleAtIdP[r.cp.user] = "admin" => HasAdmin')

SessionsGood ==
  \A s \in Sids : sess'[s] # NoSession => sess'[s] = sess[s] \/ (GoodRole(sess[s]) /\ Vouched(sess[s]))'

LEMMA AdminStep ==
  ASSUME FlowInv, AdminInv, AdminsKept, SessionsGood, NEW t \in Threads, NEW r, Continues(t, r), ~AtRow(r)
  PROVE  AdminInv'
<1>1. HasAdmin => HasAdmin'
  BY DEF AdminsKept, HasAdmin
<1>2. th'[t] = r /\ \A t2 \in Threads \ {t} : th'[t2] = th[t2]
  BY DEF Continues, FlowInv, TypeOK
<1>3. \A s \in Sids : Live(s)' => (GoodRole(sess[s]) /\ Vouched(sess[s]))'
  BY <1>1 DEF AdminInv, SessionsGood, Live, GoodRole, Vouched
<1>4. \A t2 \in Threads : Copied(th[t2])'
  BY <1>1, <1>2 DEF AdminInv, Continues, Copied, GoodRole, Vouched
<1>5. \A t2 \in Threads : Spared(th[t2])'
  BY <1>2 DEF AdminInv, Spared, AtRow, AdminsKept
<1>6. \A t1, t2 \in Threads : (t1 # t2 /\ AtRow(th[t1])' /\ AtRow(th[t2])') => crossed'
  BY <1>2 DEF AdminInv, AdminsKept, AtRow
<1> QED BY <1>3, <1>4, <1>5, <1>6 DEF AdminInv, AdminsKept

(* Most steps leave the rows alone and go on with the copy in hand, or none. *)
LEMMA SameRows ==
  ASSUME FlowInv, AdminInv, UNCHANGED <<row, crossed>>
  PROVE  AdminsKept /\ HasAdmin' = HasAdmin
BY DEF AdminsKept, AdminInv, RowsGood, Admins, HasAdmin

LEMMA GoodSessions ==
  ASSUME FlowInv, AdminInv, \A s \in Sids : sess'[s] = sess[s] \/ sess'[s] = NoSession
  PROVE  SessionsGood
BY DEF SessionsGood

LEMMA DropsCopy ==
  ASSUME NEW t \in Threads, NEW r, th' = [th EXCEPT ![t] = r], r.cp = NoSession
  PROVE  Continues(t, r)
BY DEF Continues

LEMMA KeepsCopy ==
  ASSUME FlowInv, AdminInv, AdminsKept, NEW t \in Threads, NEW r, th' = [th EXCEPT ![t] = r],
         r.cp = th[t].cp, r.op = th[t].op,
         (r.op = "callback" /\ r.pc \in {"store", "index"}) => th[t].pc \in {"store", "index"}
  PROVE  Continues(t, r)
BY DEF Continues, AdminInv, Copied, GoodRole, Vouched, HasAdmin, AdminsKept

LEMMA TakesCopy ==
  ASSUME FlowInv, AdminInv, AdminsKept, NEW t \in Threads, NEW s \in Sids, NEW r,
         th' = [th EXCEPT ![t] = r], r.cp = sess[s]
  PROVE  Continues(t, r)
BY DEF Continues, AdminInv, GoodRole, Vouched, HasAdmin, AdminsKept, Live

LEMMA PlainStep ==
  ASSUME FlowInv, AdminInv, UNCHANGED <<row, crossed>>,
         \A s \in Sids : sess'[s] = sess[s] \/ sess'[s] = NoSession,
         NEW t \in Threads, NEW r, th' = [th EXCEPT ![t] = r], ~AtRow(r),
         \/ r.cp = NoSession
         \/ /\ r.cp = th[t].cp /\ r.op = th[t].op
            /\ (r.op = "callback" /\ r.pc \in {"store", "index"}) => th[t].pc \in {"store", "index"}
         \/ \E s \in Sids : r.cp = sess[s]
  PROVE  AdminInv'
<1>1. AdminsKept
  BY SameRows
<1>2. SessionsGood
  BY GoodSessions
<1>3. Continues(t, r)
  BY <1>1, DropsCopy, KeepsCopy, TakesCopy
<1> QED BY <1>1, <1>2, <1>3, AdminStep

LEMMA PlainDone ==
  ASSUME FlowInv, AdminInv, UNCHANGED <<row, crossed>>,
         \A s \in Sids : sess'[s] = sess[s] \/ sess'[s] = NoSession,
         NEW t \in Threads, Done(t)
  PROVE  AdminInv'
<1>1. th' = [th EXCEPT ![t] = Idle] /\ Idle.cp = NoSession /\ ~AtRow(Idle)
  BY DEF Done, Idle, AtRow
<1> QED BY <1>1, PlainStep

LEMMA PlainGoto ==
  ASSUME FlowInv, AdminInv, UNCHANGED <<row, crossed>>,
         \A s \in Sids : sess'[s] = sess[s] \/ sess'[s] = NoSession,
         NEW t \in Threads, NEW pc \in {"exchange", "record", "unindex"}, Goto(t, pc)
  PROVE  AdminInv'
<1> DEFINE r == [th[t] EXCEPT !.pc = pc]
<1>1. th[t] \in ThreadRecord
  BY DEF FlowInv, TypeOK
<1>2. r.cp = th[t].cp /\ r.op = th[t].op /\ r.pc = pc
  BY <1>1 DEF ThreadRecord
<1>3. th' = [th EXCEPT ![t] = r]
  BY DEF Goto
<1> HIDE DEF r
<1> QED BY <1>2, <1>3, PlainStep DEF AtRow

(* Steps that neither look at the rows nor create a session.                 *)
LEMMA PlainBegins ==
  ASSUME FlowInv, AdminInv, NEW t \in Threads, NEW s \in Sids,
         CallbackBegin(t, s) \/ ListBegin(t, s) \/ \E at \in Places : RequestBegin(t, s, at)
  PROVE  AdminInv'
<1>1. UNCHANGED <<row, crossed, sess>>
  BY DEF CallbackBegin, RequestBegin, ListBegin, store, history
<1>2. ASSUME NEW r, th' = [th EXCEPT ![t] = r], r.cp = NoSession, r.op \notin {"lock", "delete"}
      PROVE  AdminInv'
  BY <1>1, <1>2, PlainStep DEF AtRow
<1>3. CASE CallbackBegin(t, s)
  <2> DEFINE r == [Idle EXCEPT !.op = "callback", !.pc = "consume", !.s = s, !.found = (s \in states)]
  <2>1. th' = [th EXCEPT ![t] = r] /\ r.cp = NoSession /\ r.op = "callback"
    BY <1>3 DEF CallbackBegin, Begin, Idle
  <2> HIDE DEF r
  <2> QED BY <1>2, <2>1
<1>4. ASSUME NEW at \in Places, RequestBegin(t, s, at)
      PROVE  AdminInv'
  <2> DEFINE r == [Idle EXCEPT !.op = "request", !.pc = "baseline", !.s = s, !.at = at]
  <2>1. th' = [th EXCEPT ![t] = r] /\ r.cp = NoSession /\ r.op = "request"
    BY <1>4 DEF RequestBegin, Begin, Idle
  <2> HIDE DEF r
  <2> QED BY <1>2, <2>1
<1>5. CASE ListBegin(t, s)
  <2> DEFINE r == [Idle EXCEPT !.op = "list", !.pc = "get", !.u = sess[s].user, !.todo = index[sess[s].user]]
  <2>1. th' = [th EXCEPT ![t] = r] /\ r.cp = NoSession /\ r.op = "list"
    BY <1>5 DEF ListBegin, Begin, Idle
  <2> HIDE DEF r
  <2> QED BY <1>2, <2>1
<1> QED BY <1>3, <1>4, <1>5

LEMMA PlainCopies ==
  ASSUME FlowInv, AdminInv, NEW t \in Threads, NEW s \in Sids,
         RevokeBegin(t, s) \/ RevalidateBegin(t, s) \/ ApproveGet(t, s)
  PROVE  AdminInv'
<1>1. UNCHANGED <<row, crossed, sess>>
  BY DEF RevokeBegin, RevalidateBegin, ApproveGet, store, history
<1>2. ASSUME NEW op \in {"revoke", "revalidate"}, NEW pc \in {"del", "set"},
             Begin(t, [Idle EXCEPT !.op = op, !.pc = pc, !.s = s, !.cp = sess[s]])
      PROVE  AdminInv'
  <2> DEFINE r == [Idle EXCEPT !.op = op, !.pc = pc, !.s = s, !.cp = sess[s]]
  <2>1. th' = [th EXCEPT ![t] = r] /\ r.cp = sess[s] /\ r.op = op
    BY <1>2 DEF Begin, Idle
  <2> HIDE DEF r
  <2> QED BY <1>1, <2>1, PlainStep DEF AtRow
<1>3. CASE ApproveGet(t, s)
  <2> DEFINE pc == IF sess[s] = NoSession THEN "prune" ELSE "set"
             r == [th[t] EXCEPT !.s = s, !.cp = sess[s], !.pc = pc]
  <2>1. th[t] \in ThreadRecord /\ th[t].op = "approve"
    BY <1>3 DEF ApproveGet, At, FlowInv, TypeOK
  <2>2. th' = [th EXCEPT ![t] = r]
    BY <1>3 DEF ApproveGet
  <2>3. r.cp = sess[s] /\ r.op = "approve"
    BY <2>1 DEF ThreadRecord
  <2> HIDE DEF r
  <2> QED BY <1>1, <2>2, <2>3, PlainStep DEF AtRow
<1> QED BY <1>2, <1>3 DEF RevokeBegin, RevalidateBegin

LEMMA PlainDones ==
  ASSUME FlowInv, AdminInv, NEW t \in Threads,
         \/ CallbackConsume(t) \/ CallbackIndex(t) \/ AnomalyCheck(t) \/ AnomalyRecord(t)
         \/ RevokeDel(t) \/ RevokeUnindex(t) \/ Finish(t) \/ RevokeIndex(t) \/ RevokeFails(t)
  PROVE  AdminInv'
<1>1. UNCHANGED <<row, crossed>> /\ \A s \in Sids : sess'[s] = sess[s] \/ sess'[s] = NoSession
  <2>1. th[t] \in ThreadRecord /\ sess \in [Sids -> Stored \cup {NoSession}]
    BY DEF FlowInv, TypeOK, StoreOK
  <2>2. CASE RevokeDel(t)
    BY <2>1, <2>2 DEF RevokeDel, history
  <2> QED BY <2>2 DEF CallbackConsume, CallbackIndex, AnomalyCheck, AnomalyRecord, RevokeUnindex,
                      Finish, RevokeIndex, RevokeFails, store, history
<1>2. Done(t) \/ \E pc \in {"exchange", "record", "unindex"} : Goto(t, pc)
  BY DEF CallbackConsume, CallbackIndex, AnomalyCheck, AnomalyRecord, RevokeDel, RevokeUnindex,
         Finish, RevokeIndex, RevokeFails
<1> QED BY <1>1, <1>2, PlainDone, PlainGoto

(* Steps that go on with what is left to do.                                 *)
LEMMA PlainGoesOn ==
  ASSUME FlowInv, AdminInv, NEW t \in Threads,
         \/ \E u \in Users : CallbackExchange(t, u)
         \/ Prune(t) \/ ApproveMembers(t) \/ RevokeMembers(t)
         \/ \E s \in Sids : ListGet(t, s) \/ RevokeUserDel(t, s)
  PROVE  AdminInv'
<1> DEFINE q == th[t]
<1>1. UNCHANGED <<row, crossed>> /\ \A s2 \in Sids : sess'[s2] = sess[s2] \/ sess'[s2] = NoSession
  <2>1. ASSUME NEW s \in Sids, RevokeUserDel(t, s)
        PROVE  UNCHANGED <<row, crossed>> /\ \A s2 \in Sids : sess'[s2] = sess[s2] \/ sess'[s2] = NoSession
    BY <2>1 DEF RevokeUserDel, history, FlowInv, TypeOK, StoreOK
  <2> QED BY <2>1 DEF CallbackExchange, ListGet, Prune, ApproveMembers, RevokeMembers, store, history
<1>2. q \in ThreadRecord
  BY DEF FlowInv, TypeOK
<1>3. ASSUME NEW r, th' = [th EXCEPT ![t] = r], r.cp = q.cp, r.op = q.op,
             r.pc \in {"approved", "prune", "get", "del"}
      PROVE  AdminInv'
  BY <1>1, <1>3, PlainStep DEF AtRow
<1>4. CASE Done(t)
  BY <1>1, <1>4, PlainDone
<1>5. ASSUME NEW u, th' = [th EXCEPT ![t].pc = "approved", ![t].u = u]
      PROVE  AdminInv'
  <2> DEFINE r == [q EXCEPT !.pc = "approved", !.u = u]
  <2>1. th' = [th EXCEPT ![t] = r]
    BY <1>5
  <2>2. r.cp = q.cp /\ r.op = q.op /\ r.pc = "approved"
    BY <1>2 DEF ThreadRecord
  <2> HIDE DEF r
  <2> QED BY <1>3, <2>1, <2>2
<1>6. ASSUME NEW s, th' = [th EXCEPT ![t].pc = "prune", ![t].s = s]
      PROVE  AdminInv'
  <2> DEFINE r == [q EXCEPT !.pc = "prune", !.s = s]
  <2>1. th' = [th EXCEPT ![t] = r]
    BY <1>6
  <2>2. r.cp = q.cp /\ r.op = q.op /\ r.pc = "prune"
    BY <1>2 DEF ThreadRecord
  <2> HIDE DEF r
  <2> QED BY <1>3, <2>1, <2>2
<1>7. ASSUME NEW todo, NEW pc \in {"get", "del"}, th' = [th EXCEPT ![t].pc = pc, ![t].todo = todo]
      PROVE  AdminInv'
  <2> DEFINE r == [q EXCEPT !.pc = pc, !.todo = todo]
  <2>1. th' = [th EXCEPT ![t] = r]
    BY <1>7
  <2>2. r.cp = q.cp /\ r.op = q.op /\ r.pc = pc
    BY <1>2 DEF ThreadRecord
  <2> HIDE DEF r
  <2> QED BY <1>3, <2>1, <2>2
<1>8. ASSUME NEW s, th' = [th EXCEPT ![t].todo = @ \ {s}], q.pc \in {"get", "del"}
      PROVE  AdminInv'
  <2> DEFINE r == [q EXCEPT !.todo = @ \ {s}]
  <2>1. th' = [th EXCEPT ![t] = r]
    BY <1>8
  <2>2. r.cp = q.cp /\ r.op = q.op /\ r.pc = q.pc
    BY <1>2 DEF ThreadRecord
  <2> HIDE DEF r
  <2> QED BY <1>3, <1>8, <2>1, <2>2
<1>9. ASSUME NEW u \in Users, CallbackExchange(t, u) PROVE AdminInv'
  BY <1>4, <1>5, <1>9 DEF CallbackExchange
<1>10. ASSUME NEW s \in Sids, ListGet(t, s) PROVE AdminInv'
  BY <1>6, <1>8, <1>10 DEF ListGet, At
<1>11. CASE Prune(t)
  <2>1. th' = [th EXCEPT ![t].pc = "get", ![t].todo = q.todo \ {q.s}]
    BY <1>11 DEF Prune
  <2> QED BY <1>7, <2>1
<1>12. CASE ApproveMembers(t) \/ RevokeMembers(t)
  <2>1. Done(t) \/ \E pc \in {"get", "del"} : th' = [th EXCEPT ![t].pc = pc, ![t].todo = index[q.u]]
    BY <1>12 DEF ApproveMembers, RevokeMembers
  <2> QED BY <1>4, <1>7, <2>1
<1>13. ASSUME NEW s \in Sids, RevokeUserDel(t, s) PROVE AdminInv'
  BY <1>8, <1>13 DEF RevokeUserDel
<1> QED BY <1>9, <1>10, <1>11, <1>12, <1>13

(* What the gates answer goes into the copy of a callback.                   *)
LEMMA GateSteps ==
  ASSUME FlowInv, AdminInv, NEW t \in Threads, CallbackApproved(t) \/ CallbackLocked(t)
  PROVE  AdminInv'
<1> DEFINE q == th[t]
<1>1. UNCHANGED <<row, crossed, sess>>
  BY DEF CallbackApproved, CallbackLocked, store, history
<1>2. AdminsKept /\ SessionsGood
  BY <1>1, SameRows DEF SessionsGood
<1>3. q \in ThreadRecord /\ q.op = "callback" /\ Shape(q) /\ q.u \in Users /\ Copied(q)
  BY DEF FlowInv, TypeOK, CallbackApproved, CallbackLocked, At, Shape, AdminInv
<1>4. ASSUME NEW r, th' = [th EXCEPT ![t] = r], r.op = "callback", r.pc \in {"locked", "upsert"}, GoodRole(r.cp)
      PROVE  AdminInv'
  BY <1>2, <1>4, AdminStep DEF Continues, AtRow
<1>5. CASE CallbackApproved(t)
  <2> DEFINE u == q.u
             approved == WizardComplete => row[u] # NoRow /\ row[u].approved
             cp == [user |-> u, locked |-> FALSE, role |-> IF approved THEN RoleAtIdP[u] ELSE "pending"]
             pc == IF WizardComplete THEN "locked" ELSE "upsert"
             r == [q EXCEPT !.pc = pc, !.found = approved, !.fresh = approved, !.cp = cp]
  <2>1. th' = [th EXCEPT ![t] = r]
    BY <1>5 DEF CallbackApproved
  <2>2. GoodRole(cp) /\ pc \in {"locked", "upsert"}
    BY DEF GoodRole
  <2> HIDE DEF cp, pc, approved, u
  <2>3. r.op = "callback" /\ r.pc = pc /\ r.cp = cp
    BY <1>3 DEF ThreadRecord
  <2> HIDE DEF r
  <2> QED BY <1>4, <2>1, <2>2, <2>3
<1>6. CASE CallbackLocked(t)
  <2> DEFINE locked == row[q.u] # NoRow /\ row[q.u].locked
             fresh == q.fresh /\ ~locked
             cp == IF locked THEN [q.cp EXCEPT !.role = "pending", !.locked = TRUE] ELSE q.cp
             r == [q EXCEPT !.pc = "upsert", !.fresh = fresh, !.cp = cp]
  <2>1. th' = [th EXCEPT ![t] = r]
    BY <1>6 DEF CallbackLocked
  <2>2. q.cp \in Stored /\ q.cp # NoSession
    BY <1>3, <1>6, FlowAssumption DEF CallbackLocked, At, Shape
  <2>3. GoodRole(cp)
    BY <1>3, <2>2 DEF GoodRole, Stored, Copied
  <2> HIDE DEF cp, fresh, locked
  <2>4. r.op = "callback" /\ r.pc = "upsert" /\ r.cp = cp
    BY <1>3 DEF ThreadRecord
  <2> HIDE DEF r
  <2> QED BY <1>4, <2>1, <2>3, <2>4
<1> QED BY <1>5, <1>6

(* A login keeps the role that the row has: it is the IdP's already.         *)
LEMMA UpsertKept ==
  ASSUME FlowInv, AdminInv, NEW t \in Threads, CallbackUpsert(t)
  PROVE  AdminsKept /\ (RoleAtIdP[th[t].u] = "admin" => Admins' # {})
<1> DEFINE q == th[t]
           new == IF row[q.u] # NoRow THEN [row[q.u] EXCEPT !.role = RoleAtIdP[q.u]]
                  ELSE [role |-> RoleAtIdP[q.u], approved |-> q.found, locked |-> FALSE]
<1>1. row' = [row EXCEPT ![q.u] = new] /\ crossed' = crossed
  BY DEF CallbackUpsert, history
<1>2. q.u \in Users /\ row \in [Users -> Rows \cup {NoRow}]
  BY DEF CallbackUpsert, At, FlowInv, TypeOK, StoreOK, Shape
<1>3. new # NoRow /\ new.role = RoleAtIdP[q.u]
  <2>1. CASE row[q.u] = NoRow
    <3>1. q.found \in BOOLEAN /\ RoleAtIdP[q.u] \in Roles
      BY <1>2, FlowAssumption DEF FlowInv, TypeOK, ThreadRecord
    <3> DEFINE first == [role |-> RoleAtIdP[q.u], approved |-> q.found, locked |-> FALSE]
    <3>2. first \in Rows /\ first.role = RoleAtIdP[q.u]
      BY <3>1 DEF Rows
    <3>3. new = first
      BY <2>1
    <3> HIDE DEF first, new
    <3> QED BY <3>2, <3>3, FlowAssumption
  <2>2. CASE row[q.u] # NoRow
    <3>1. row[q.u] \in Rows /\ RoleAtIdP[q.u] \in Roles
      BY <1>2, <2>2, FlowAssumption
    <3> QED BY <2>2, <3>1, FlowAssumption DEF Rows
  <2> QED BY <2>1, <2>2
<1> HIDE DEF new
<1>4. \A u \in Users : row'[u] = IF u = q.u THEN new ELSE row[u]
  BY <1>1, <1>2
<1>5. RowsGood'
  BY <1>3, <1>4 DEF RowsGood, AdminInv
<1>6. Admins \subseteq Admins' /\ (RoleAtIdP[q.u] = "admin" => q.u \in Admins')
  BY <1>2, <1>3, <1>4 DEF Admins, AdminInv, RowsGood
<1> QED BY <1>1, <1>5, <1>6 DEF AdminsKept

LEMMA UpsertAdmins ==
  ASSUME FlowInv, AdminInv, NEW t \in Threads, CallbackUpsert(t)
  PROVE  AdminInv'
<1> DEFINE q == th[t]
           r == [q EXCEPT !.pc = "store"]
<1>1. /\ q \in ThreadRecord /\ q.op = "callback" /\ q.pc = "upsert" /\ Copied(q)
      /\ sess' = sess /\ th' = [th EXCEPT ![t] = r]
  BY DEF FlowInv, TypeOK, CallbackUpsert, At, Goto, AdminInv, store
<1>2. AdminsKept /\ SessionsGood /\ (RoleAtIdP[q.u] = "admin" => HasAdmin')
  BY <1>1, UpsertKept DEF SessionsGood, HasAdmin
<1>3. r.cp = q.cp /\ r.op = "callback" /\ r.pc = "store"
  BY <1>1 DEF ThreadRecord
<1>4. q.cp # NoSession => q.cp.user = q.u
  BY <1>1 DEF FlowInv, Owned, SpeaksOf
<1> HIDE DEF r
<1>5. Continues(t, r)
  BY <1>1, <1>2, <1>3, <1>4 DEF Continues, Copied
<1> QED BY <1>2, <1>3, <1>5, AdminStep DEF AtRow

LEMMA StoreAdmins ==
  ASSUME FlowInv, AdminInv, NEW t \in Threads, CallbackStore(t)
  PROVE  AdminInv'
<1> DEFINE q == th[t]
           r == [q EXCEPT !.pc = "index"]
<1>1. /\ q \in ThreadRecord /\ q.op = "callback" /\ q.pc = "store" /\ Copied(q)
      /\ sess' = [sess EXCEPT ![q.s] = q.cp] /\ th' = [th EXCEPT ![t] = r]
      /\ UNCHANGED <<row, crossed>>
  BY DEF FlowInv, TypeOK, CallbackStore, At, Goto, AdminInv
<1>2. AdminsKept /\ HasAdmin' = HasAdmin /\ sess \in [Sids -> Stored \cup {NoSession}]
  BY <1>1, SameRows DEF FlowInv, TypeOK, StoreOK
<1>3. SessionsGood
  BY <1>1, <1>2 DEF SessionsGood, Copied, GoodRole, Vouched
<1>4. r.cp = q.cp /\ r.op = "callback" /\ r.pc = "index"
  BY <1>1 DEF ThreadRecord
<1> HIDE DEF r
<1>5. Continues(t, r)
  BY <1>1, <1>2, <1>4, KeepsCopy
<1> QED BY <1>2, <1>3, <1>4, <1>5, AdminStep DEF AtRow

LEMMA WriteBackAdmins ==
  ASSUME FlowInv, AdminInv, NEW t \in Threads, RevalidateSet(t) \/ ApproveSet(t)
  PROVE  AdminInv'
<1> DEFINE q == th[t]
<1>1. /\ q \in ThreadRecord /\ Shape(q) /\ Copied(q) /\ q.op \in {"revalidate", "approve"} /\ q.pc = "set"
      /\ UNCHANGED <<row, crossed>>
  BY DEF FlowInv, TypeOK, RevalidateSet, ApproveSet, At, AdminInv
<1>2. AdminsKept /\ HasAdmin' = HasAdmin /\ sess \in [Sids -> Stored \cup {NoSession}]
  BY <1>1, SameRows DEF FlowInv, TypeOK, StoreOK
<1>3. q.cp \in Stored /\ q.cp # NoSession /\ GoodRole(q.cp) /\ Vouched(q.cp)
  BY <1>1, FlowAssumption DEF Shape, Copied
<1>4. ASSUME NEW c, sess' = [sess EXCEPT ![q.s] = c], GoodRole(c), c.user = q.cp.user
      PROVE  SessionsGood
  BY <1>2, <1>3, <1>4 DEF SessionsGood, GoodRole, Vouched
<1>5. CASE RevalidateSet(t)
  <2>1. SessionsGood
    BY <1>3, <1>4, <1>5 DEF RevalidateSet, WriteBack
  <2>2. th' = [th EXCEPT ![t] = Idle] /\ Idle.cp = NoSession /\ ~AtRow(Idle)
    BY <1>5 DEF RevalidateSet, Done, Idle, AtRow
  <2> QED BY <1>2, <2>1, <2>2, DropsCopy, AdminStep
<1>6. CASE ApproveSet(t)
  <2> DEFINE c == [q.cp EXCEPT !.role = RoleAtIdP[q.u], !.locked = FALSE]
             r == [q EXCEPT !.pc = "get", !.todo = @ \ {q.s}]
  <2>1. q.op = "approve" /\ sess' = [sess EXCEPT ![q.s] = c] /\ th' = [th EXCEPT ![t] = r]
    BY <1>6 DEF ApproveSet, At, WriteBack
  <2>2. q.cp.user = q.u
    BY <1>1, <1>3, <2>1 DEF FlowInv, Owned, SpeaksOf, Shape
  <2>3. GoodRole(c) /\ c.user = q.cp.user
    BY <1>3, <2>2 DEF GoodRole, Stored
  <2>4. r.cp = q.cp /\ r.op = q.op /\ r.pc = "get"
    BY <1>1 DEF ThreadRecord
  <2> HIDE DEF c, r
  <2>5. SessionsGood
    BY <1>4, <2>1, <2>3
  <2>6. Continues(t, r)
    BY <1>2, <2>1, <2>4, KeepsCopy
  <2> QED BY <1>2, <2>4, <2>5, <2>6, AdminStep DEF AtRow
<1> QED BY <1>1, <1>5, <1>6 DEF RevalidateSet, ApproveSet

(* Approving and unlocking leave the roles alone.                            *)
LEMMA SameRoles ==
  ASSUME FlowInv, AdminInv, NEW u \in Users, row[u] # NoRow, crossed' = crossed,
         row' = [row EXCEPT ![u].approved = TRUE] \/ row' = [row EXCEPT ![u].locked = FALSE]
  PROVE  AdminsKept
<1>1. row[u] \in Rows /\ row \in [Users -> Rows \cup {NoRow}]
  BY DEF FlowInv, TypeOK, StoreOK
<1>2. row'[u] \in Rows /\ row'[u].role = row[u].role
  BY <1>1 DEF Rows
<1>3. \A v \in Users : v # u => row'[v] = row[v]
  BY <1>1
<1> QED BY <1>1, <1>2, <1>3, FlowAssumption DEF AdminsKept, AdminInv, RowsGood, Admins

LEMMA ApproveAdmins ==
  ASSUME FlowInv, AdminInv, NEW t \in Threads, NEW a \in Sids, NEW u \in Users, ApproveBegin(t, a, u)
  PROVE  AdminInv'
<1> DEFINE r == [Idle EXCEPT !.op = "approve", !.pc = "members", !.u = u]
<1>1. th' = [th EXCEPT ![t] = r] /\ r.cp = NoSession /\ ~AtRow(r)
  BY DEF ApproveBegin, Begin, Idle, AtRow
<1>2. AdminsKept /\ SessionsGood
  BY SameRoles DEF ApproveBegin, store, history, SessionsGood
<1> HIDE DEF r
<1> QED BY <1>1, <1>2, DropsCopy, AdminStep

(* The handlers that are over at once.                                       *)
LEMMA HandlerAdmins ==
  ASSUME FlowInv, AdminInv, AdminsKept, th' = th, crossed' = crossed,
         \A s \in Sids : sess'[s] = sess[s] \/ sess'[s] = NoSession
  PROVE  AdminInv'
<1>1. HasAdmin => HasAdmin'
  BY DEF AdminsKept, HasAdmin
<1>2. \A s \in Sids : Live(s)' => (GoodRole(sess[s]) /\ Vouched(sess[s]))'
  BY <1>1 DEF AdminInv, Live, GoodRole, Vouched
<1>3. \A t \in Threads : (Copied(th[t]) /\ Spared(th[t]))'
  BY <1>1 DEF AdminInv, Copied, Spared, AtRow, GoodRole, Vouched, AdminsKept
<1> QED BY <1>2, <1>3 DEF AdminInv, AdminsKept, AtRow

(* The guard: whoever is removed leaves another admin, or was none.          *)
LEMMA RemoveBeginAdmins ==
  ASSUME FlowInv, AdminInv, NEW t \in Threads, NEW a \in Sids, NEW u \in Users,
         NEW op \in {"lock", "delete"}, RemoveBegin(t, a, u, op)
  PROVE  AdminInv'
<1> DEFINE r == [Idle EXCEPT !.op = op, !.pc = "row", !.u = u]
<1>1. /\ th' = [th EXCEPT ![t] = r] /\ r.cp = NoSession /\ r.op = op /\ r.pc = "row" /\ r.u = u
      /\ th[t] = Idle /\ UNCHANGED <<row, sess>>
      /\ crossed' = (crossed \/ \E t2 \in Threads : AtRow(th[t2]))
  BY DEF RemoveBegin, Begin, Idle, store, AtRow
<1>2. th'[t] = r /\ \A t2 \in Threads \ {t} : th'[t2] = th[t2]
  BY <1>1 DEF FlowInv, TypeOK
<1> HIDE DEF r
<1>3. Admins' = Admins /\ RowsGood' /\ (crossed => crossed') /\ (HasAdmin => HasAdmin')
  BY <1>1 DEF Admins, RowsGood, AdminInv, HasAdmin
<1>4. crossed \/ RoleAtIdP[u] # "admin" \/ Admins \ {u} # {}
  <2> SUFFICES ASSUME RoleAtIdP[u] = "admin"
               PROVE  crossed \/ Admins \ {u} # {}
    OBVIOUS
  <2>1. HasAdmin
    <3>1. CASE Admin(a)
      BY <3>1 DEF Admin, Active, AdminInv, Live, GoodRole, Vouched
    <3>2. CASE sess[a] # NoSession /\ u = sess[a].user
      BY <3>2 DEF AdminInv, Live, Vouched
    <3> QED BY <3>1, <3>2 DEF RemoveBegin
  <2>2. CASE u \notin Admins
    BY <2>1, <2>2 DEF HasAdmin
  <2>3. CASE u \in Admins
    <3>1. Cardinality({u}) = 1
      BY FS_Singleton
    <3>2. Admins # {u}
      BY <2>3, <3>1 DEF RemoveBegin, guardAgainstLastAdmin
    <3> QED BY <2>3, <3>2
  <2> QED BY <2>2, <2>3
<1>5. \A s \in Sids : Live(s)' => (GoodRole(sess[s]) /\ Vouched(sess[s]))'
  BY <1>1, <1>3 DEF AdminInv, Live, GoodRole, Vouched
<1>6. \A t2 \in Threads : (Copied(th[t2]) /\ Spared(th[t2]))'
  <2>1. (Copied(th[t]) /\ Spared(th[t]))'
    BY <1>1, <1>2, <1>3, <1>4 DEF Copied, Spared
  <2>2. ASSUME NEW t2 \in Threads, t2 # t
        PROVE  (Copied(th[t2]) /\ Spared(th[t2]))'
    BY <1>2, <1>3, <2>2 DEF AdminInv, Copied, Spared, AtRow, GoodRole, Vouched
  <2> QED BY <2>1, <2>2
<1>7. \A t1, t2 \in Threads : (t1 # t2 /\ AtRow(th[t1])' /\ AtRow(th[t2])') => crossed'
  <2>1. \A t2 \in Threads \ {t} : AtRow(th[t2])' => AtRow(th[t2])
    BY <1>2 DEF AtRow
  <2> QED BY <1>1, <2>1
<1> QED BY <1>3, <1>5, <1>6, <1>7 DEF AdminInv

(* The removal itself, of a user that the guard let go.                      *)
LEMMA RemoveRowKept ==
  ASSUME FlowInv, AdminInv, NEW t \in Threads, RemoveRow(t)
  PROVE  RowsGood' /\ crossed' = crossed /\ (HasAdmin => HasAdmin')
<1> DEFINE q == th[t]
<1>1. AtRow(q) /\ Spared(q) /\ q.u \in Users /\ row \in [Users -> Rows \cup {NoRow}] /\ crossed' = crossed
  BY DEF RemoveRow, AtRow, AdminInv, FlowInv, TypeOK, StoreOK, Shape, history
<1>2. CASE row' = row
  BY <1>1, <1>2 DEF AdminInv, RowsGood, HasAdmin, Admins
<1>3. CASE row[q.u] # NoRow /\ row' = [row EXCEPT ![q.u] = Removed(q.op, @)]
  <2> DEFINE new == Removed(q.op, row[q.u])
  <2>1. new # NoRow => new.role = row[q.u].role
    <3>1. row[q.u] \in Rows
      BY <1>1, <1>3
    <3> QED BY <3>1 DEF Removed, Rows
  <2> HIDE DEF new
  <2>2. \A u \in Users : row'[u] = IF u = q.u THEN new ELSE row[u]
    BY <1>1, <1>3 DEF new
  <2>3. RowsGood'
    BY <1>3, <2>1, <2>2 DEF AdminInv, RowsGood
  <2>4. Admins \ {q.u} \subseteq Admins' /\ (RoleAtIdP[q.u] # "admin" => q.u \notin Admins)
    BY <1>3, <2>2 DEF Admins, AdminInv, RowsGood
  <2> QED BY <1>1, <2>3, <2>4 DEF HasAdmin, Spared
<1> QED BY <1>2, <1>3 DEF RemoveRow

LEMMA RemoveRowAdmins ==
  ASSUME FlowInv, AdminInv, NEW t \in Threads, RemoveRow(t)
  PROVE  AdminInv'
<1> DEFINE q == th[t]
           r == [q EXCEPT !.pc = "members"]
<1>1. AtRow(q) /\ q \in ThreadRecord /\ Copied(q) /\ UNCHANGED sess
  BY DEF RemoveRow, AtRow, AdminInv, FlowInv, TypeOK, store
<1>2. RowsGood' /\ crossed' = crossed /\ (HasAdmin => HasAdmin')
  BY RemoveRowKept
<1>3. ASSUME NEW r2, th' = [th EXCEPT ![t] = r2], ~AtRow(r2),
             r2.cp = NoSession \/ (r2.cp = q.cp /\ r2.op = q.op)
      PROVE  AdminInv'
  <2>1. th'[t] = r2 /\ \A t2 \in Threads \ {t} : th'[t2] = th[t2]
    BY <1>3 DEF FlowInv, TypeOK
  <2>2. \A s \in Sids : Live(s)' => (GoodRole(sess[s]) /\ Vouched(sess[s]))'
    BY <1>1, <1>2 DEF AdminInv, Live, GoodRole, Vouched
  <2>3. \A t2 \in Threads : Copied(th[t2])'
    BY <1>1, <1>2, <1>3, <2>1 DEF AdminInv, Copied, GoodRole, Vouched, AtRow
  <2>4. \A t2 \in Threads : Spared(th[t2])'
    BY <1>1, <1>2, <1>3, <2>1 DEF AdminInv, Spared, AtRow
  <2>5. \A t1, t2 \in Threads : (t1 # t2 /\ AtRow(th[t1])' /\ AtRow(th[t2])') => crossed'
    BY <1>2, <1>3, <2>1 DEF AdminInv, AtRow
  <2> QED BY <1>2, <2>2, <2>3, <2>4, <2>5 DEF AdminInv
<1>4. CASE Done(t)
  <2>1. th' = [th EXCEPT ![t] = Idle] /\ Idle.cp = NoSession /\ ~AtRow(Idle)
    BY <1>4 DEF Idle, AtRow, Done
  <2> QED BY <1>3, <2>1
<1>5. CASE Goto(t, "members")
  <2>1. th' = [th EXCEPT ![t] = r]
    BY <1>5 DEF Goto
  <2>2. r.cp = q.cp /\ r.op = q.op /\ r.pc = "members"
    BY <1>1 DEF ThreadRecord
  <2> HIDE DEF r
  <2> QED BY <1>3, <2>1, <2>2 DEF AtRow
<1> QED BY <1>4, <1>5 DEF RemoveRow

LEMMA AdminInit == Init => AdminInv
<1> SUFFICES ASSUME Init PROVE AdminInv
  OBVIOUS
<1>1. RowsGood
  BY DEF Init, RowsGood
<1>2. ASSUME NEW s \in Sids, Live(s)
      PROVE  GoodRole(sess[s]) /\ Vouched(sess[s])
  <2>1. sess[s].user \in Users /\ row[sess[s].user] # NoRow
    BY <1>2 DEF Init, Live, Stored
  <2>2. sess[s].role = IF Entitled(sess[s].user) THEN row[sess[s].user].role ELSE "pending"
    BY <1>2 DEF Init, Live
  <2> QED BY <1>1, <2>1, <2>2 DEF GoodRole, Vouched, HasAdmin, Admins, RowsGood
<1>3. \A t \in Threads : th[t].cp = NoSession /\ ~AtRow(th[t])
  BY DEF Init, Idle, AtRow
<1> QED BY <1>1, <1>2, <1>3 DEF AdminInv, Copied, Spared

LEMMA AdminNext == FlowInv /\ AdminInv /\ [Next]_vars => AdminInv'
<1> SUFFICES ASSUME FlowInv, AdminInv, [Next]_vars PROVE AdminInv'
  OBVIOUS
<1>1. CASE UNCHANGED vars
  BY <1>1, SameRows, HandlerAdmins DEF vars
<1>2. ASSUME NEW s \in Sids, LoginHandler(s) \/ LogoutHandler(s) PROVE AdminInv'
  <2>1. th' = th /\ UNCHANGED <<row, crossed>>
    BY <1>2 DEF LoginHandler, LogoutHandler, history
  <2>2. \A s2 \in Sids : sess'[s2] = sess[s2] \/ sess'[s2] = NoSession
    BY <1>2 DEF LoginHandler, LogoutHandler, store, FlowInv, TypeOK, StoreOK
  <2> QED BY <2>1, <2>2, SameRows, HandlerAdmins
<1>3. ASSUME NEW a \in Sids, NEW u \in Users, UnlockUser(a, u) PROVE AdminInv'
  BY <1>3, SameRoles, HandlerAdmins DEF UnlockUser, store, history
<1>4. ASSUME NEW t \in Threads, NEW s \in Sids,
             CallbackBegin(t, s) \/ RevalidateBegin(t, s) \/ ListBegin(t, s) \/ ListGet(t, s) \/ ApproveGet(t, s)
      PROVE  AdminInv'
  BY <1>4, PlainBegins, PlainCopies, PlainGoesOn
<1>5. ASSUME NEW t \in Threads, NEW u \in Users, CallbackExchange(t, u) PROVE AdminInv'
  BY <1>5, PlainGoesOn
<1>6. ASSUME NEW t \in Threads,
             CallbackConsume(t) \/ CallbackApproved(t) \/ CallbackLocked(t) \/ CallbackUpsert(t) \/ CreateSession(t)
      PROVE  AdminInv'
  BY <1>6, PlainDones, GateSteps, UpsertAdmins, StoreAdmins DEF CreateSession
<1>7. ASSUME NEW t \in Threads, NEW s \in Sids, NEW at \in Places, RequestBegin(t, s, at) PROVE AdminInv'
  BY <1>7, PlainBegins
<1>8. ASSUME NEW t \in Threads, AnomalyCheck(t) \/ AnomalyRecord(t) PROVE AdminInv'
  BY <1>8, PlainDones
<1>9. ASSUME NEW t \in Threads, NEW a \in Sids, NEW s \in Sids,
             revokeSessionHandler(t, a, s) \/ RevokeMySessionHandler(t, a, s)
      PROVE  AdminInv'
  BY <1>9, PlainCopies DEF revokeSessionHandler, RevokeMySessionHandler
<1>10. ASSUME NEW t \in Threads,
              \/ RevokeDel(t) \/ RevokeUnindex(t) \/ RevalidateSet(t)
              \/ Prune(t) \/ Finish(t) \/ ApproveMembers(t) \/ ApproveSet(t)
       PROVE  AdminInv'
  BY <1>10, PlainDones, PlainGoesOn, WriteBackAdmins
<1>11. ASSUME NEW t \in Threads, NEW a \in Sids, NEW u \in Users,
              \/ ApproveBegin(t, a, u)
              \/ \E op \in {"lock", "delete"} : RemoveBegin(t, a, u, op)
       PROVE  AdminInv'
  BY <1>11, ApproveAdmins, RemoveBeginAdmins
<1>12. ASSUME NEW t \in Threads, Remove(t) PROVE AdminInv'
  BY <1>12, RemoveRowAdmins, PlainGoesOn, PlainDones DEF Remove
<1> QED BY <1>1, <1>2, <1>3, <1>4, <1>5, <1>6, <1>7, <1>8, <1>9, <1>10, <1>11, <1>12 DEF Next

(* Roles are the IdP's, whoever has an admin's session was let in beside an  *)
(* admin, and a removal past the guard leaves somebody.                      *)
THEOREM AdminInvHolds == Spec => []AdminInv
<1> QED BY AdminInit, AdminNext, FlowInvHolds, PTL DEF Spec

LEMMA AdminLeft ==
  FlowInv /\ AdminInv /\ [Next]_vars => (Admins # {} => (Admins' # {} \/ crossed))
<1> SUFFICES ASSUME FlowInv, AdminInv, [Next]_vars, Admins # {} PROVE Admins' # {} \/ crossed
  OBVIOUS
<1>1. CASE row' = row
  BY <1>1 DEF Admins
<1>2. ASSUME NEW t \in Threads, CallbackUpsert(t) PROVE Admins' # {}
  BY <1>2, UpsertKept DEF AdminsKept
<1>3. ASSUME NEW t \in Threads, NEW a \in Sids, NEW u \in Users, ApproveBegin(t, a, u) PROVE Admins' # {}
  BY <1>3, SameRoles DEF ApproveBegin, history, AdminsKept
<1>4. ASSUME NEW a \in Sids, NEW u \in Users, UnlockUser(a, u) PROVE Admins' # {}
  BY <1>4, SameRoles DEF UnlockUser, history, AdminsKept
<1>5. ASSUME NEW t \in Threads, RemoveRow(t) PROVE Admins' # {} \/ crossed
  BY <1>5, RemoveRowKept DEF HasAdmin
<1>6. CASE Next
  <2>1. ASSUME NEW s \in Sids, LoginHandler(s) \/ LogoutHandler(s) PROVE row' = row
    BY <2>1 DEF LoginHandler, LogoutHandler
  <2>2. ASSUME NEW t \in Threads, NEW s \in Sids,
               CallbackBegin(t, s) \/ RevalidateBegin(t, s) \/ ListBegin(t, s) \/ ListGet(t, s) \/ ApproveGet(t, s)
        PROVE  row' = row
    BY <2>2 DEF CallbackBegin, RevalidateBegin, ListBegin, ListGet, ApproveGet
  <2>3. ASSUME NEW t \in Threads, NEW u \in Users, CallbackExchange(t, u) PROVE row' = row
    BY <2>3 DEF CallbackExchange
  <2>4. ASSUME NEW t \in Threads, CallbackConsume(t) \/ CallbackApproved(t) \/ CallbackLocked(t) \/ CreateSession(t)
        PROVE  row' = row
    BY <2>4 DEF CallbackConsume, CallbackApproved, CallbackLocked, CreateSession, CallbackStore, CallbackIndex
  <2>5. ASSUME NEW t \in Threads, NEW s \in Sids, NEW at \in Places, RequestBegin(t, s, at) PROVE row' = row
    BY <2>5 DEF RequestBegin
  <2>6. ASSUME NEW t \in Threads, AnomalyCheck(t) \/ AnomalyRecord(t) PROVE row' = row
    BY <2>6 DEF AnomalyCheck, AnomalyRecord
  <2>7. ASSUME NEW t \in Threads, NEW a \in Sids, NEW s \in Sids,
               revokeSessionHandler(t, a, s) \/ RevokeMySessionHandler(t, a, s)
        PROVE  row' = row
    BY <2>7 DEF revokeSessionHandler, RevokeMySessionHandler, RevokeBegin
  <2>8. ASSUME NEW t \in Threads,
               \/ RevokeDel(t) \/ RevokeUnindex(t) \/ RevalidateSet(t)
               \/ Prune(t) \/ Finish(t) \/ ApproveMembers(t) \/ ApproveSet(t)
        PROVE  row' = row
    BY <2>8 DEF RevokeDel, RevokeUnindex, RevalidateSet, Prune, Finish, ApproveMembers, ApproveSet
  <2>9. ASSUME NEW t \in Threads, NEW a \in Sids, NEW u \in Users,
               \E op \in {"lock", "delete"} : RemoveBegin(t, a, u, op)
        PROVE  row' = row
    BY <2>9 DEF RemoveBegin
  <2>10. ASSUME NEW t \in Threads, Remove(t) PROVE row' = row \/ RemoveRow(t)
    BY <2>10 DEF Remove, RevokeMembers, RevokeIndex, RevokeFails, RevokeUserDel
  <2> QED BY <1>1, <1>2, <1>3, <1>4, <1>5, <1>6, <2>1, <2>2, <2>3, <2>4, <2>5, <2>6, <2>7, <2>8, <2>9, <2>10 DEF Next
<1>7. CASE UNCHANGED vars
  BY <1>1, <1>7 DEF vars
<1> QED BY <1>6, <1>7

(* As long as no two removals pass the guard together, an instance that has  *)
(* an admin keeps one (guardAgainstLastAdmin).                               *)
THEOREM AdminIsKept == Spec => AdminStays
<1>1. FlowInv /\ AdminInv /\ [Next]_vars => [Admins # {} => (Admins' # {} \/ crossed)]_vars
  BY AdminLeft
<1> QED BY <1>1, FlowInvHolds, AdminInvHolds, PTL DEF Spec, AdminStays

-----------------------------------------------------------------------------
(* Moves *)

(* A step that compares nothing: nobody comes to the point of recording.     *)
NoRecord(t) == th' = [th EXCEPT ![t] = th'[t]] /\ th'[t].pc # "record"
MovesKept ==
  /\ UNCHANGED <<reported, visited>>
  /\ baseline' = baseline \/ \E s : baseline' = [baseline EXCEPT ![s] = "none"]

LEMMA MovesStay ==
  ASSUME TypeOK, MovesInv, MovesKept, th' = th \/ \E t \in Threads : NoRecord(t)
  PROVE  MovesInv'
<1>1. \A t2 \in Threads : th'[t2] = th[t2] \/ th'[t2].pc # "record"
  BY DEF TypeOK, NoRecord
<1>2. baseline' \in [Sids -> Spots \cup {"none"}] /\ \A s \in Sids : baseline'[s] \in {baseline[s], "none"}
  BY DEF MovesInv, MovesKept
<1> QED BY <1>1, <1>2 DEF MovesKept, MovesInv, MovesAreReported

LEMMA RecordsNothing ==
  ASSUME TypeOK, NEW t \in Threads,
         \/ \E s \in Sids : \/ CallbackBegin(t, s) \/ RevalidateBegin(t, s) \/ ListBegin(t, s)
                            \/ ListGet(t, s) \/ ApproveGet(t, s) \/ RevokeBegin(t, s) \/ RevokeUserDel(t, s)
         \/ \E u \in Users : CallbackExchange(t, u)
         \/ CallbackConsume(t) \/ CallbackApproved(t) \/ CallbackLocked(t)
         \/ CallbackUpsert(t) \/ CreateSession(t)
         \/ \E s \in Sids, at \in Places : RequestBegin(t, s, at)
         \/ RevokeDel(t) \/ RevokeUnindex(t) \/ RevalidateSet(t)
         \/ Prune(t) \/ Finish(t) \/ ApproveMembers(t) \/ ApproveSet(t)
         \/ \E a \in Sids, u \in Users :
              ApproveBegin(t, a, u) \/ \E op \in {"lock", "delete"} : RemoveBegin(t, a, u, op)
         \/ RemoveRow(t) \/ RevokeMembers(t) \/ RevokeIndex(t) \/ RevokeFails(t)
  PROVE  NoRecord(t)
<1>1. th[t] \in ThreadRecord /\ th \in [Threads -> ThreadRecord]
  BY DEF TypeOK
<1>2. ASSUME NEW r, th' = [th EXCEPT ![t] = r], r.pc # "record"
      PROVE  NoRecord(t)
  <2>1. th'[t] = r
    BY <1>1, <1>2
  <2> QED BY <1>2, <2>1 DEF NoRecord
<1>3. CASE Done(t)
  <2>1. th' = [th EXCEPT ![t] = Idle] /\ Idle.pc # "record"
    BY <1>3 DEF Done, Idle
  <2> QED BY <1>2, <2>1
<1>4. ASSUME NEW pc, Goto(t, pc), pc # "record"
      PROVE  NoRecord(t)
  BY <1>1, <1>4 DEF Goto, NoRecord, ThreadRecord
<1>5. ASSUME NEW s, CallbackBegin(t, s) \/ RevalidateBegin(t, s) \/ ListBegin(t, s) \/ RevokeBegin(t, s)
      PROVE  NoRecord(t)
  BY <1>1, <1>5 DEF CallbackBegin, RevalidateBegin, ListBegin, RevokeBegin, Begin, Idle, NoRecord
<1>6. ASSUME NEW s, ListGet(t, s) \/ ApproveGet(t, s) \/ RevokeUserDel(t, s)
      PROVE  NoRecord(t)
  <2>1. CASE ListGet(t, s)
    BY <1>1, <2>1 DEF ListGet, At, NoRecord, ThreadRecord
  <2>2. CASE ApproveGet(t, s)
    <3> DEFINE r == [th[t] EXCEPT !.s = s, !.cp = sess[s], !.pc = IF sess[s] = NoSession THEN "prune" ELSE "set"]
    <3>1. th' = [th EXCEPT ![t] = r] /\ r.pc # "record"
      BY <1>1, <2>2 DEF ApproveGet, ThreadRecord
    <3> HIDE DEF r
    <3> QED BY <1>2, <3>1
  <2>3. CASE RevokeUserDel(t, s)
    BY <1>1, <2>3 DEF RevokeUserDel, NoRecord, ThreadRecord
  <2> QED BY <1>6, <2>1, <2>2, <2>3
<1>7. ASSUME NEW u, CallbackExchange(t, u)
      PROVE  NoRecord(t)
  BY <1>1, <1>3, <1>7 DEF CallbackExchange, NoRecord, ThreadRecord
<1>8. CASE CallbackConsume(t) \/ CallbackUpsert(t) \/ CreateSession(t)
  BY <1>3, <1>4, <1>8 DEF CallbackConsume, CallbackUpsert, CreateSession, CallbackStore, CallbackIndex
<1>9. CASE CallbackApproved(t) \/ CallbackLocked(t)
  BY <1>1, <1>9 DEF CallbackApproved, CallbackLocked, NoRecord, ThreadRecord
<1>10. ASSUME NEW s, NEW at, RequestBegin(t, s, at)
       PROVE  NoRecord(t)
  BY <1>1, <1>10 DEF RequestBegin, Begin, Idle, NoRecord
<1>11. CASE RevokeDel(t) \/ RevokeUnindex(t) \/ RevalidateSet(t) \/ Finish(t)
           \/ RemoveRow(t) \/ RevokeIndex(t) \/ RevokeFails(t)
  BY <1>3, <1>4, <1>11 DEF RevokeDel, RevokeUnindex, RevalidateSet, Finish, RemoveRow, RevokeIndex, RevokeFails
<1>12. CASE Prune(t) \/ ApproveMembers(t) \/ ApproveSet(t) \/ RevokeMembers(t)
  <2>1. ASSUME NEW pc \in {"get", "del"}, NEW todo, th' = [th EXCEPT ![t].pc = pc, ![t].todo = todo]
        PROVE  NoRecord(t)
    BY <1>1, <2>1 DEF NoRecord, ThreadRecord
  <2>2. Done(t) \/ \E pc \in {"get", "del"} : \E todo : th' = [th EXCEPT ![t].pc = pc, ![t].todo = todo]
    BY <1>12 DEF Prune, ApproveMembers, ApproveSet, RevokeMembers
  <2> QED BY <1>3, <2>1, <2>2
<1>13. ASSUME NEW a, NEW u, ApproveBegin(t, a, u)
       PROVE  NoRecord(t)
  BY <1>1, <1>13 DEF ApproveBegin, Begin, Idle, NoRecord
<1>14. ASSUME NEW a, NEW u, NEW op, RemoveBegin(t, a, u, op)
       PROVE  NoRecord(t)
  BY <1>1, <1>14 DEF RemoveBegin, Begin, Idle, NoRecord
<1> QED BY <1>5, <1>6, <1>7, <1>8, <1>9, <1>10, <1>11, <1>12, <1>13, <1>14

(* The check reports before the place of the request counts as visited.      *)
LEMMA CheckMoves ==
  ASSUME TypeOK, MovesInv, NEW t \in Threads, AnomalyCheck(t)
  PROVE  MovesInv'
<1> DEFINE q == th[t]
           moved == Baseline(q.s) # q.at
<1>1. /\ q \in ThreadRecord /\ q.op = "request" /\ q.s \in Sids /\ baseline' = baseline
      /\ reported' = IF moved THEN reported \cup {<<q.s, q.at>>} ELSE reported
      /\ moved \/ visited' = visited \cup {<<q.s, q.at>>}
      /\ moved => visited' = visited
  BY DEF AnomalyCheck, At, TypeOK, Shape
<1>2. /\ (moved /\ th'[t].s = q.s /\ th'[t].at = q.at) \/ (~moved /\ th'[t].op = "idle")
      /\ \A t2 \in Threads \ {t} : th'[t2] = th[t2]
  BY <1>1 DEF AnomalyCheck, Goto, Done, Idle, TypeOK, ThreadRecord
<1>3. (~moved /\ q.at # "home") => <<q.s, q.at>> \in reported
  <2> SUFFICES ASSUME Baseline(q.s) = q.at, q.at # "home"
               PROVE  <<q.s, q.at>> \in reported
    OBVIOUS
  <2>1. baseline[q.s] = q.at /\ baseline[q.s] \notin {"none", "home"}
    BY DEF Baseline
  <2> QED BY <1>1, <2>1 DEF MovesInv
<1> HIDE DEF moved
<1>4. MovesAreReported'
  BY <1>1, <1>3 DEF MovesInv, MovesAreReported
<1>5. reported \subseteq reported' /\ (moved => <<q.s, q.at>> \in reported')
  BY <1>1
<1>6. \A s \in Sids : baseline'[s] \notin {"none", "home"} => <<s, baseline'[s]>> \in reported'
  BY <1>1, <1>5 DEF MovesInv
<1>7. \A t2 \in Threads : (th'[t2].op = "request" /\ th'[t2].pc = "record" /\ th'[t2].at # "home") =>
        <<th'[t2].s, th'[t2].at>> \in reported'
  BY <1>2, <1>5 DEF MovesInv
<1> QED BY <1>1, <1>4, <1>6, <1>7 DEF MovesInv

LEMMA RecordMoves ==
  ASSUME TypeOK, MovesInv, NEW t \in Threads, AnomalyRecord(t)
  PROVE  MovesInv'
<1> DEFINE q == th[t]
<1>1. /\ q.op = "request" /\ q.pc = "record" /\ q.s \in Sids /\ reported' = reported
      /\ baseline' = [baseline EXCEPT ![q.s] = q.at] /\ visited' = visited \cup {<<q.s, q.at>>}
  BY DEF AnomalyRecord, At, TypeOK, Shape
<1>0. q.at \in Spots /\ baseline \in [Sids -> Spots \cup {"none"}]
  BY DEF TypeOK, ThreadRecord, MovesInv
<1>2. q.at # "home" => <<q.s, q.at>> \in reported
  BY <1>1 DEF MovesInv
<1>3. th'[t].op = "idle" /\ \A t2 \in Threads \ {t} : th'[t2] = th[t2]
  BY DEF AnomalyRecord, Done, Idle, TypeOK
<1>4. MovesAreReported'
  BY <1>1, <1>2 DEF MovesInv, MovesAreReported
<1>5. \A s \in Sids : baseline'[s] = baseline[s] \/ (s = q.s /\ baseline'[s] = q.at)
  BY <1>0, <1>1
<1>6. \A s \in Sids : baseline'[s] \notin {"none", "home"} => <<s, baseline'[s]>> \in reported'
  BY <1>1, <1>2, <1>5 DEF MovesInv
<1>7. \A t2 \in Threads : (th'[t2].op = "request" /\ th'[t2].pc = "record" /\ th'[t2].at # "home") =>
        <<th'[t2].s, th'[t2].at>> \in reported'
  BY <1>1, <1>3 DEF MovesInv
<1>8. baseline' \in [Sids -> Spots \cup {"none"}]
  BY <1>0, <1>1
<1> QED BY <1>4, <1>6, <1>7, <1>8 DEF MovesInv

LEMMA MovesNext == FlowInv /\ MovesInv /\ [Next]_vars => MovesInv'
<1> SUFFICES ASSUME TypeOK, MovesInv, [Next]_vars PROVE MovesInv'
  BY DEF FlowInv
<1>1. CASE UNCHANGED vars
  BY <1>1, MovesStay DEF vars, MovesKept
<1>2. ASSUME NEW s \in Sids, LoginHandler(s) \/ LogoutHandler(s) PROVE MovesInv'
  <2>1. th' = th /\ MovesKept
    BY <1>2 DEF LoginHandler, LogoutHandler, places, MovesKept
  <2> QED BY <2>1, MovesStay
<1>3. ASSUME NEW a \in Sids, NEW u \in Users, UnlockUser(a, u) PROVE MovesInv'
  BY <1>3, MovesStay DEF UnlockUser, places, MovesKept
<1>4. ASSUME NEW t \in Threads, NEW s \in Sids,
             CallbackBegin(t, s) \/ RevalidateBegin(t, s) \/ ListBegin(t, s) \/ ListGet(t, s) \/ ApproveGet(t, s)
      PROVE  MovesInv'
  <2>1. MovesKept
    BY <1>4 DEF CallbackBegin, RevalidateBegin, ListBegin, ListGet, ApproveGet, places, MovesKept
  <2> QED BY <1>4, <2>1, RecordsNothing, MovesStay
<1>5. ASSUME NEW t \in Threads, NEW u \in Users, CallbackExchange(t, u) PROVE MovesInv'
  <2>1. MovesKept
    BY <1>5 DEF CallbackExchange, places, MovesKept
  <2> QED BY <1>5, <2>1, RecordsNothing, MovesStay
<1>6. ASSUME NEW t \in Threads,
             CallbackConsume(t) \/ CallbackApproved(t) \/ CallbackLocked(t) \/ CallbackUpsert(t) \/ CreateSession(t)
      PROVE  MovesInv'
  <2>1. MovesKept
    BY <1>6 DEF CallbackConsume, CallbackApproved, CallbackLocked, CallbackUpsert, CreateSession,
                CallbackStore, CallbackIndex, places, MovesKept
  <2> QED BY <1>6, <2>1, RecordsNothing, MovesStay
<1>7. ASSUME NEW t \in Threads, NEW s \in Sids, NEW at \in Places, RequestBegin(t, s, at) PROVE MovesInv'
  <2>1. MovesKept
    BY <1>7 DEF RequestBegin, places, MovesKept
  <2> QED BY <1>7, <2>1, RecordsNothing, MovesStay
<1>8. ASSUME NEW t \in Threads, AnomalyCheck(t) \/ AnomalyRecord(t) PROVE MovesInv'
  BY <1>8, CheckMoves, RecordMoves
<1>9. ASSUME NEW t \in Threads, NEW a \in Sids, NEW s \in Sids,
             revokeSessionHandler(t, a, s) \/ RevokeMySessionHandler(t, a, s)
      PROVE  MovesInv'
  <2>1. RevokeBegin(t, s) /\ MovesKept
    BY <1>9 DEF revokeSessionHandler, RevokeMySessionHandler, RevokeBegin, places, MovesKept
  <2> QED BY <2>1, RecordsNothing, MovesStay
<1>10. ASSUME NEW t \in Threads,
              \/ RevokeDel(t) \/ RevokeUnindex(t) \/ RevalidateSet(t)
              \/ Prune(t) \/ Finish(t) \/ ApproveMembers(t) \/ ApproveSet(t)
       PROVE  MovesInv'
  <2>1. MovesKept
    BY <1>10 DEF RevokeDel, RevokeUnindex, RevalidateSet, Prune, Finish, ApproveMembers, ApproveSet,
                 places, MovesKept
  <2> QED BY <1>10, <2>1, RecordsNothing, MovesStay
<1>11. ASSUME NEW t \in Threads, NEW a \in Sids, NEW u \in Users,
              \/ ApproveBegin(t, a, u)
              \/ \E op \in {"lock", "delete"} : RemoveBegin(t, a, u, op)
       PROVE  MovesInv'
  <2>1. MovesKept
    BY <1>11 DEF ApproveBegin, RemoveBegin, places, MovesKept
  <2> QED BY <1>11, <2>1, RecordsNothing, MovesStay
<1>12. ASSUME NEW t \in Threads, Remove(t) PROVE MovesInv'
  <2>1. MovesKept
    BY <1>12 DEF Remove, RemoveRow, RevokeMembers, RevokeIndex, RevokeFails, RevokeUserDel, places, MovesKept
  <2> QED BY <1>12, <2>1, RecordsNothing, MovesStay DEF Remove
<1> QED BY <1>1, <1>2, <1>3, <1>4, <1>5, <1>6, <1>7, <1>8, <1>9, <1>10, <1>11, <1>12 DEF Next

(* No move of a session goes unnoticed: once a request from another place    *)
(* than the login's has been answered, that place has been reported, however *)
(* requests from both places interleave.                                     *)
THEOREM MovesReported == Spec => []MovesAreReported
<1>1. Init => MovesInv
  BY DEF Init, MovesInv, MovesAreReported, Idle, Spots
<1>2. MovesInv => MovesAreReported
  BY DEF MovesInv
<1> QED BY <1>1, <1>2, MovesNext, FlowInvHolds, PTL DEF Spec

=============================================================================
