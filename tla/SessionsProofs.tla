--------------------------- MODULE SessionsProofs ---------------------------
(***************************************************************************)
(* The session index, the two gates and the bound on a session's life,       *)
(* proved for any set of users and sessions and any TTLs.                    *)
(*                                                                           *)
(* The three invariants are inductive together: revocation ends the sessions *)
(* of a locked or deleted account, or marks them as spared when it fails,    *)
(* because the index covers them. Each store operation gets one lemma that   *)
(* says what it keeps; the actions then follow from the lemmas without       *)
(* expanding the operations.                                                 *)
(***************************************************************************)
EXTENDS Sessions, TLAPS

StoreType == [sess : [Sids -> Stored \cup {NoSession}], index : [Users -> Indexes]]

(* IndexCoversSessions and BoundedLife for one session of a store.           *)
Covered(st, s) ==
  st.sess[s] # NoSession =>
    /\ s \in st.index[st.sess[s].user].members
    /\ st.sess[s].ttl <= st.index[st.sess[s].user].ttl
    /\ st.sess[s].age + st.sess[s].ttl <= AgeCap

(* A session of the new store was there before, for the same user and with   *)
(* the same standing.                                                        *)
Same(st, new, s) ==
  new.sess[s] # NoSession =>
    /\ st.sess[s] # NoSession
    /\ new.sess[s].user = st.sess[s].user
    /\ new.sess[s].role = st.sess[s].role
    /\ new.sess[s].locked = st.sess[s].locked

(* What every store operation except Rewritten does.                         *)
Keeps(st, new) ==
  /\ new \in StoreType
  /\ \A s \in Sids : Same(st, new, s) /\ (Covered(st, s) => Covered(new, s))

Inv == TypeOK /\ IndexCoversSessions /\ BoundedLife /\ ActiveSessionsAreEntitled

-----------------------------------------------------------------------------
LEMMA SRemType ==
  ASSUME NEW ix \in Indexes, NEW dead
  PROVE  /\ SRem(ix, dead) \in Indexes
         /\ \A t : t \in ix.members /\ t \notin dead =>
              t \in SRem(ix, dead).members /\ SRem(ix, dead).ttl = ix.ttl
  <1> DEFINE left == ix.members \ dead
  <1>1. left \in SUBSET Sids BY DEF Indexes
  <1>2. NoIndex \in Indexes BY TimeAssumption DEF NoIndex, Indexes
  <1>3. [ix EXCEPT !.members = left] \in Indexes
        /\ [ix EXCEPT !.members = left].members = left
        /\ [ix EXCEPT !.members = left].ttl = ix.ttl
    BY <1>1 DEF Indexes
  <1>4. CASE left = {} BY <1>2, <1>4 DEF SRem
  <1>5. CASE left # {} BY <1>3, <1>5 DEF SRem
  <1> QED BY <1>4, <1>5

LEMMA DropKeeps ==
  ASSUME NEW st \in StoreType, NEW s \in Sids, st.sess[s] # NoSession
  PROVE  Keeps(st, Drop(st, s))
  <1> DEFINE new == Drop(st, s)  u == st.sess[s].user  ix == st.index[u]
  <1>1. u \in Users /\ ix \in Indexes BY DEF StoreType, Stored
  <1>2. /\ SRem(ix, {s}) \in Indexes
        /\ \A t : t \in ix.members /\ t # s =>
             t \in SRem(ix, {s}).members /\ SRem(ix, {s}).ttl = ix.ttl
    BY <1>1, SRemType
  <1>3. /\ new.sess = [st.sess EXCEPT ![s] = NoSession]
        /\ new.index = [st.index EXCEPT ![u] = SRem(ix, {s})]
        /\ new = [sess |-> new.sess, index |-> new.index]
    BY DEF Drop
  <1>4. new \in StoreType BY <1>1, <1>2, <1>3 DEF StoreType
  <1>5. /\ \A t \in Sids : new.sess[t] = IF t = s THEN NoSession ELSE st.sess[t]
        /\ \A v \in Users : new.index[v] = IF v = u THEN SRem(ix, {s}) ELSE st.index[v]
    BY <1>1, <1>3 DEF StoreType
  <1> HIDE DEF new
  <1>6. ASSUME NEW t \in Sids PROVE Same(st, new, t) BY <1>5 DEF Same
  <1>7. ASSUME NEW t \in Sids, Covered(st, t) PROVE Covered(new, t)
    <2>1. CASE t = s BY <1>5, <2>1 DEF Covered
    <2>2. CASE t # s /\ st.sess[t] # NoSession
      <3>1. st.sess[t].user \in Users BY <2>2 DEF StoreType, Stored
      <3> QED BY <1>2, <1>5, <1>7, <2>2, <3>1 DEF Covered
    <2>3. CASE t # s /\ st.sess[t] = NoSession BY <1>5, <2>3 DEF Covered
    <2> QED BY <2>1, <2>2, <2>3
  <1> QED BY <1>4, <1>6, <1>7 DEF Keeps, new

LEMMA ValidatedKeeps ==
  ASSUME NEW st \in StoreType, NEW s \in Sids, st.sess[s] # NoSession
  PROVE  Keeps(st, Validated(st, s))
  <1> DEFINE new == Validated(st, s)  u == st.sess[s].user  ix == st.index[u]
  <1>1. CASE st.sess[s].age > SessionAbsoluteMaxAge BY <1>1, DropKeeps DEF Validated
  <1>2. CASE ~(st.sess[s].age > SessionAbsoluteMaxAge)
    <2>1. u \in Users /\ ix \in Indexes /\ st.sess[s] \in Stored BY DEF StoreType, Stored
    <2>2. /\ Refresh(ix) \in Indexes
          /\ Refresh(ix).members = ix.members
          /\ ix.members # {} => Refresh(ix).ttl = SessionTTL
      BY <2>1, TimeAssumption DEF Refresh, Indexes
    <2>3. /\ new.sess = [st.sess EXCEPT ![s].ttl = SessionTTL]
          /\ new.index = [st.index EXCEPT ![u] = Refresh(ix)]
          /\ new = [sess |-> new.sess, index |-> new.index]
      BY <1>2 DEF Validated
    <2>4. [st.sess[s] EXCEPT !.ttl = SessionTTL] \in Stored
      BY <2>1, TimeAssumption DEF Stored
    <2>5. new \in StoreType BY <2>1, <2>2, <2>3, <2>4 DEF StoreType
    <2>6. /\ \A t \in Sids : t # s => new.sess[t] = st.sess[t]
          /\ new.sess[s] = [st.sess[s] EXCEPT !.ttl = SessionTTL]
          /\ \A v \in Users : new.index[v] = IF v = u THEN Refresh(ix) ELSE st.index[v]
      BY <2>1, <2>3 DEF StoreType
    <2> HIDE DEF new
    <2>7. /\ new.sess[s].user = u /\ new.sess[s].role = st.sess[s].role
          /\ new.sess[s].locked = st.sess[s].locked /\ new.sess[s].age = st.sess[s].age
          /\ new.sess[s].ttl = SessionTTL
      BY <2>1, <2>6 DEF Stored
    <2>8. ASSUME NEW t \in Sids PROVE Same(st, new, t) BY <2>6, <2>7 DEF Same
    <2>9. ASSUME NEW t \in Sids, Covered(st, t) PROVE Covered(new, t)
      <3>1. CASE t = s
        <4>1. s \in ix.members BY <2>9, <3>1 DEF Covered
        <4>2. st.sess[s].age + SessionTTL <= AgeCap
          BY <1>2, <2>1, TimeAssumption DEF AgeCap, Stored
        <4>3. new.index[u] = Refresh(ix) BY <2>1, <2>6
        <4>4. new.index[u].members = ix.members /\ new.index[u].ttl = SessionTTL
          BY <2>2, <4>1, <4>3
        <4>5. s \in new.index[new.sess[s].user].members BY <2>7, <4>1, <4>4
        <4>6. new.sess[s].ttl <= new.index[new.sess[s].user].ttl
          BY <2>7, <4>4, TimeAssumption
        <4>7. new.sess[s].age + new.sess[s].ttl <= AgeCap BY <2>7, <4>2
        <4> QED BY <3>1, <4>5, <4>6, <4>7 DEF Covered
      <3>2. CASE t # s /\ st.sess[t] # NoSession
        <4>1. st.sess[t].user \in Users /\ st.sess[t].ttl \in 1 .. SessionTTL
          BY <3>2 DEF StoreType, Stored
        <4>2. /\ t \in st.index[st.sess[t].user].members
              /\ st.sess[t].ttl <= st.index[st.sess[t].user].ttl
              /\ st.sess[t].age + st.sess[t].ttl <= AgeCap
          BY <2>9, <3>2 DEF Covered
        <4>3. new.sess[t] = st.sess[t] BY <2>6, <3>2
        <4>4. CASE st.sess[t].user = u
          BY <2>2, <2>6, <4>1, <4>2, <4>3, <4>4, TimeAssumption DEF Covered
        <4>5. CASE st.sess[t].user # u
          BY <2>6, <4>1, <4>2, <4>3, <4>5 DEF Covered
        <4> QED BY <4>4, <4>5
      <3>3. CASE t # s /\ st.sess[t] = NoSession BY <2>6, <3>3 DEF Covered
      <3> QED BY <3>1, <3>2, <3>3
    <2> QED BY <2>5, <2>8, <2>9 DEF Keeps, new
  <1> QED BY <1>1, <1>2

(* Revocation also leaves none of the user's covered sessions.               *)
LEMMA RevokedKeeps ==
  ASSUME NEW st \in StoreType, NEW u \in Users
  PROVE  /\ Keeps(st, Revoked(st, u))
         /\ \A s \in Sids : Covered(st, s) /\ Revoked(st, u).sess[s] # NoSession =>
              st.sess[s].user # u
  <1> DEFINE new == Revoked(st, u)
  <1>1. NoIndex \in Indexes BY TimeAssumption DEF NoIndex, Indexes
  <1>2. /\ \A s \in Sids : new.sess[s] = IF s \in st.index[u].members THEN NoSession
                                                                     ELSE st.sess[s]
        /\ \A v \in Users : new.index[v] = IF v = u THEN NoIndex ELSE st.index[v]
    BY DEF Revoked, StoreType
  <1>3. new \in StoreType BY <1>1 DEF Revoked, StoreType
  <1> HIDE DEF new
  <1>4. ASSUME NEW s \in Sids PROVE Same(st, new, s) BY <1>2 DEF Same
  <1>5. ASSUME NEW s \in Sids, Covered(st, s), new.sess[s] # NoSession
        PROVE  st.sess[s].user # u
    BY <1>2, <1>5 DEF Covered
  <1>6. ASSUME NEW s \in Sids, Covered(st, s) PROVE Covered(new, s)
    <2>1. CASE new.sess[s] = NoSession BY <2>1 DEF Covered
    <2>2. CASE new.sess[s] # NoSession
      <3>1. new.sess[s] = st.sess[s] /\ st.sess[s] # NoSession BY <1>2, <2>2
      <3>2. st.sess[s].user \in Users BY <3>1 DEF StoreType, Stored
      <3>3. st.sess[s].user # u BY <1>5, <1>6, <2>2
      <3> QED BY <1>2, <1>6, <3>1, <3>2, <3>3 DEF Covered
    <2> QED BY <2>1, <2>2
  <1> QED BY <1>3, <1>4, <1>5, <1>6 DEF Keeps, new

(* A revocation that is cut off leaves the index as it is.                   *)
LEMMA CutOffKeeps ==
  ASSUME NEW st \in StoreType, NEW gone
  PROVE  /\ Keeps(st, CutOff(st, gone))
         /\ \A s \in Sids : CutOff(st, gone).sess[s] # NoSession => s \notin gone
  <1> DEFINE new == CutOff(st, gone)
  <1>1. /\ new.sess = [s \in Sids |-> IF s \in gone THEN NoSession ELSE st.sess[s]]
        /\ new.index = st.index /\ new = [sess |-> new.sess, index |-> new.index]
    BY DEF CutOff, StoreType
  <1>2. st.sess \in [Sids -> Stored \cup {NoSession}] /\ st.index \in [Users -> Indexes]
    BY DEF StoreType
  <1> HIDE DEF new
  <1>3. new \in StoreType BY <1>1, <1>2 DEF StoreType
  <1>4. \A s \in Sids : new.sess[s] = IF s \in gone THEN NoSession ELSE st.sess[s] BY <1>1
  <1>5. \A s \in Sids : Same(st, new, s) /\ (Covered(st, s) => Covered(new, s))
    BY <1>1, <1>4 DEF Same, Covered
  <1> QED BY <1>3, <1>4, <1>5 DEF Keeps, new

LEMMA PromotedType ==
  ASSUME NEW r \in Stored, NEW role \in Roles
  PROVE  Promoted(r, role) \in Stored
  <1>1. SessionTTL \in 1 .. SessionTTL BY TimeAssumption
  <1> QED BY <1>1 DEF Stored, Promoted

(* An approval changes only sessions of the user's index, which count as     *)
(* rewritten from then on.                                                   *)
LEMMA RewrittenKeeps ==
  ASSUME NEW st \in StoreType, NEW u \in Users, NEW role \in Roles
  PROVE  LET new == Rewritten(st, u, role)
         IN /\ new \in StoreType
            /\ \A s \in Sids : (s \in st.index[u].members => st.sess[s] = NoSession) =>
                 Same(st, new, s) /\ (Covered(st, s) => Covered(new, s))
  <1> DEFINE new == Rewritten(st, u, role)
             stale == {s \in st.index[u].members : st.sess[s] = NoSession}
             kept == st.index[u].members \ stale
             give(s) == Promoted(st.sess[s], role)
  <1>1. st.index[u] \in Indexes BY DEF StoreType
  <1>2. /\ SRem(st.index[u], stale) \in Indexes
        /\ \A t : t \in st.index[u].members /\ t \notin stale =>
             /\ t \in SRem(st.index[u], stale).members
             /\ SRem(st.index[u], stale).ttl = st.index[u].ttl
    BY <1>1, SRemType
  <1>3. \A s \in Sids : s \in kept => give(s) \in Stored
    <2> SUFFICES ASSUME NEW s \in Sids, s \in kept PROVE give(s) \in Stored OBVIOUS
    <2>1. st.sess[s] \in Stored BY DEF StoreType
    <2> QED BY <2>1, PromotedType
  <1>4. /\ new.sess = [s \in Sids |-> IF s \in kept THEN give(s) ELSE st.sess[s]]
        /\ new.index = [st.index EXCEPT ![u] = SRem(st.index[u], stale)]
        /\ new = [sess |-> new.sess, index |-> new.index]
    BY DEF Rewritten
  <1>5. new \in StoreType
    <2>1. st.sess \in [Sids -> Stored \cup {NoSession}] BY DEF StoreType
    <2>2. new.sess \in [Sids -> Stored \cup {NoSession}]
      <3> HIDE DEF kept, new
      <3> QED BY <1>3, <1>4, <2>1
    <2>3. new.index \in [Users -> Indexes]
      <3> HIDE DEF stale, new
      <3> QED BY <1>2, <1>4 DEF StoreType
    <2> HIDE DEF new
    <2> QED BY <1>4, <2>2, <2>3 DEF StoreType
  <1>6. \A v \in Users : new.index[v] = IF v = u THEN SRem(st.index[u], stale) ELSE st.index[v]
    BY <1>4 DEF StoreType
  <1>7. \A s \in Sids : s \notin kept => new.sess[s] = st.sess[s] BY <1>4
  <1> HIDE DEF new
  <1>8. ASSUME NEW s \in Sids, s \in st.index[u].members => st.sess[s] = NoSession
        PROVE  Same(st, new, s) /\ (Covered(st, s) => Covered(new, s))
    <2>1. new.sess[s] = st.sess[s] BY <1>7, <1>8
    <2>2. Same(st, new, s) BY <2>1 DEF Same
    <2>3. ASSUME Covered(st, s), st.sess[s] # NoSession PROVE Covered(new, s)
      <3>1. st.sess[s].user \in Users BY <2>3 DEF StoreType, Stored
      <3>2. st.sess[s].user # u BY <1>8, <2>3 DEF Covered
      <3> QED BY <1>6, <2>1, <2>3, <3>1, <3>2 DEF Covered
    <2> QED BY <2>1, <2>2, <2>3 DEF Covered
  <1> QED BY <1>5, <1>8 DEF new
LEMMA KeepsTransitive ==
  ASSUME NEW st, NEW mid, NEW new, Keeps(st, mid), Keeps(mid, new)
  PROVE  Keeps(st, new)
  BY DEF Keeps, Same

(* DEL of one session key.                                                   *)
LEMMA DelKeeps ==
  ASSUME NEW st \in StoreType, NEW s \in Sids
  PROVE  Keeps(st, [st EXCEPT !.sess[s] = NoSession])
  <1> DEFINE new == [st EXCEPT !.sess[s] = NoSession]
  <1>1. new \in StoreType /\ new.index = st.index
        /\ new.sess = [st.sess EXCEPT ![s] = NoSession]
    BY DEF StoreType
  <1>2. \A t \in Sids : new.sess[t] = IF t = s THEN NoSession ELSE st.sess[t]
    BY <1>1 DEF StoreType
  <1> HIDE DEF new
  <1>3. \A t \in Sids : Same(st, new, t) /\ (Covered(st, t) => Covered(new, t))
    BY <1>1, <1>2 DEF Same, Covered
  <1> QED BY <1>1, <1>3 DEF Keeps, new

(* SREM of members that have no session key any more.                        *)
LEMMA PruneKeeps ==
  ASSUME NEW st \in StoreType, NEW u \in Users, NEW dead,
         \A t \in Sids : t \in dead => st.sess[t] = NoSession
  PROVE  Keeps(st, [st EXCEPT !.index[u] = SRem(st.index[u], dead)])
  <1> DEFINE ix == SRem(st.index[u], dead)  new == [st EXCEPT !.index[u] = ix]
  <1>1. st.index[u] \in Indexes BY DEF StoreType
  <1>2. /\ ix \in Indexes
        /\ \A t : t \in st.index[u].members /\ t \notin dead =>
             t \in ix.members /\ ix.ttl = st.index[u].ttl
    BY <1>1, SRemType
  <1> HIDE DEF ix
  <1>3. new \in StoreType /\ new.sess = st.sess /\ new.index = [st.index EXCEPT ![u] = ix]
    BY <1>2 DEF StoreType
  <1>4. \A v \in Users : new.index[v] = IF v = u THEN ix ELSE st.index[v]
    BY <1>3 DEF StoreType
  <1> HIDE DEF new
  <1>5. ASSUME NEW t \in Sids, Covered(st, t) PROVE Covered(new, t)
    <2>1. CASE st.sess[t] = NoSession BY <1>3, <2>1 DEF Covered
    <2>2. CASE st.sess[t] # NoSession
      <3>1. st.sess[t].user \in Users BY <2>2 DEF StoreType, Stored
      <3>2. t \notin dead BY <2>2
      <3> QED BY <1>2, <1>3, <1>4, <1>5, <2>2, <3>1, <3>2 DEF Covered
    <2> QED BY <2>1, <2>2
  <1>6. ASSUME NEW t \in Sids PROVE Same(st, new, t) BY <1>3 DEF Same
  <1> QED BY <1>3, <1>5, <1>6 DEF Keeps, new, ix

(* An accepted request ends no session.                                      *)
LEMMA ValidatedLive ==
  ASSUME NEW st \in StoreType, NEW s \in Sids, st.sess[s] # NoSession,
         st.sess[s].age <= SessionAbsoluteMaxAge, NEW t \in Sids, st.sess[t] # NoSession
  PROVE  Validated(st, s).sess[t] # NoSession
  <1>1. st.sess[s] \in Stored /\ st.sess[t] \in Stored BY DEF StoreType
  <1>2. ~(st.sess[s].age > SessionAbsoluteMaxAge)
    BY <1>1, TimeAssumption DEF Stored, AgeCap
  <1>3. Validated(st, s).sess = [st.sess EXCEPT ![s].ttl = SessionTTL] BY <1>2 DEF Validated
  <1>4. [st.sess[s] EXCEPT !.ttl = SessionTTL] \in Stored BY <1>1, TimeAssumption DEF Stored
  <1>5. Validated(st, s).sess[t] =
          IF t = s THEN [st.sess[s] EXCEPT !.ttl = SessionTTL] ELSE st.sess[t]
    BY <1>3 DEF StoreType
  <1> QED BY <1>4, <1>5, SentinelAssumption

-----------------------------------------------------------------------------
LEMMA StoreTyped == TypeOK => store \in StoreType
  BY DEF TypeOK, store, StoreType

(* IndexCoversSessions and BoundedLife, said of the store.                   *)
LEMMA CoveredMeans ==
  (IndexCoversSessions /\ BoundedLife) <=> \A s \in Sids : s \in rewritten \/ Covered(store, s)
  BY DEF IndexCoversSessions, BoundedLife, Covered, store, Live

LEMMA CoveredMeansNext ==
  (IndexCoversSessions' /\ BoundedLife') <=>
    \A s \in Sids : s \in rewritten' \/ Covered(store', s)
  BY DEF IndexCoversSessions, BoundedLife, Covered, store, Live

Good(row) == row # NoUser /\ row.approved /\ ~row.locked

LEMMA EntitledMeans ==
  ActiveSessionsAreEntitled <=>
    \A s \in Sids : (sess[s] # NoSession /\ s \notin rewritten \cup unguarded \cup spared
                       /\ sess[s].role # "pending" /\ ~sess[s].locked) => Good(users[sess[s].user])
  BY DEF ActiveSessionsAreEntitled, Live, Active, Exists, Good

(* A step that changes the store only by operations that keep it, and the    *)
(* users only in ways that hurt no session that is left and not spared.      *)
LEMMA SparingStep ==
  ASSUME Inv, NEW new, Keeps(store, new), Stores(new), UNCHANGED <<rewritten, unguarded>>,
         users' \in [Users -> Rows \cup {NoUser}], spared \subseteq spared', spared' \subseteq Sids,
         \A s \in Sids \ spared' :
           (Covered(store, s) /\ new.sess[s] # NoSession /\ Good(users[sess[s].user]))
             => Good(users'[sess[s].user])
  PROVE  Inv'
  <1>1. /\ sess' = new.sess /\ index' = new.index
        /\ rewritten' = rewritten /\ unguarded' = unguarded
    BY DEF Stores
  <1>2. /\ new \in StoreType
        /\ \A s \in Sids : Same(store, new, s) /\ (Covered(store, s) => Covered(new, s))
    BY DEF Keeps
  <1>3. TypeOK' BY <1>1, <1>2 DEF Inv, TypeOK, StoreType
  <1>4. \A s \in Sids : s \in rewritten \/ Covered(store, s) BY CoveredMeans DEF Inv
  <1>5. \A s \in Sids : Covered(new, s) => Covered(store', s) BY <1>1 DEF Covered, store
  <1>6. IndexCoversSessions' /\ BoundedLife'
    BY <1>1, <1>2, <1>4, <1>5, CoveredMeansNext
  <1>7. ActiveSessionsAreEntitled'
    <2> SUFFICES ASSUME NEW s \in Sids, sess'[s] # NoSession,
                        s \notin rewritten' \cup unguarded' \cup spared',
                        sess'[s].role # "pending", ~sess'[s].locked
                 PROVE  LET u == sess'[s].user
                        IN users'[u] # NoUser /\ users'[u].approved /\ ~users'[u].locked
      BY DEF ActiveSessionsAreEntitled, Live, Active, Exists
    <2>1. /\ sess[s] # NoSession /\ sess'[s].user = sess[s].user
          /\ sess'[s].role = sess[s].role /\ sess'[s].locked = sess[s].locked
      BY <1>1, <1>2 DEF Same, store
    <2>2. Good(users[sess[s].user]) BY <1>1, <2>1, EntitledMeans DEF Inv
    <2>3. Covered(store, s) BY <1>1, <1>4
    <2>4. Good(users'[sess[s].user]) BY <1>1, <2>2, <2>3
    <2> QED BY <2>1, <2>4 DEF Good
  <1> QED BY <1>3, <1>6, <1>7 DEF Inv

LEMMA KeepingStep ==
  ASSUME Inv, NEW new, Keeps(store, new), Stores(new), UNCHANGED history,
         users' \in [Users -> Rows \cup {NoUser}],
         \A s \in Sids : (Covered(store, s) /\ new.sess[s] # NoSession /\ Good(users[sess[s].user]))
                           => Good(users'[sess[s].user])
  PROVE  Inv'
  <1>1. /\ UNCHANGED <<rewritten, unguarded>> /\ spared' = spared /\ spared \subseteq Sids
    BY DEF history, Inv, TypeOK
  <1> QED BY <1>1, SparingStep

-----------------------------------------------------------------------------
LEMMA InitInv == Init => Inv
  <1> SUFFICES ASSUME Init PROVE Inv OBVIOUS
  <1>1. NoIndex \in Indexes BY TimeAssumption DEF NoIndex, Indexes
  <1>2. TypeOK BY <1>1 DEF Init, TypeOK
  <1>3. IndexCoversSessions /\ BoundedLife /\ ActiveSessionsAreEntitled
    BY DEF Init, IndexCoversSessions, BoundedLife, ActiveSessionsAreEntitled, Live
  <1> QED BY <1>2, <1>3 DEF Inv

(* Requests that leave the users table alone.                                *)
LEMMA RequestsInv ==
  ASSUME Inv, NEW s \in Sids, NEW t \in Sids,
         \/ Request(s) \/ Logout(s) \/ ListOwnSessions(s) \/ RevalidateRejected(s)
         \/ RevokeOwnSessionByID(s, t) \/ RevokeSessionByID(s, t)
  PROVE  Inv'
  <1>1. store \in StoreType BY StoreTyped DEF Inv
  <1>2. store.sess = sess /\ store.index = index BY DEF store
  <1>3. sess[s] # NoSession
    BY DEF Request, Logout, ListOwnSessions, RevalidateRejected, RevokeOwnSessionByID,
           RevokeSessionByID, Live, Accepted, Admin, Recent
  <1> DEFINE mid == Validated(store, s)
  <1>4. Keeps(store, mid) /\ mid \in StoreType BY <1>1, <1>2, <1>3, ValidatedKeeps DEF Keeps
  <1>5. ASSUME NEW new, Keeps(store, new), Stores(new), UNCHANGED <<users, history>> PROVE Inv'
    <2>1. UNCHANGED history /\ users' = users BY <1>5
    <2>2. users' \in [Users -> Rows \cup {NoUser}] BY <2>1 DEF Inv, TypeOK
    <2>3. \A r \in Sids : (Covered(store, r) /\ new.sess[r] # NoSession /\ Good(users[sess[r].user]))
                            => Good(users'[sess[r].user])
      BY <2>1
    <2> QED BY <1>5, <2>1, <2>2, <2>3, KeepingStep
  <1>6. ASSUME Accepted(s), sess[t] # NoSession, Stores(Drop(mid, t)), UNCHANGED <<users, history>>
        PROVE  Inv'
    <2>1. mid.sess[t] # NoSession BY <1>1, <1>2, <1>3, <1>6, ValidatedLive DEF Accepted
    <2>2. Keeps(mid, Drop(mid, t)) BY <1>4, <2>1, DropKeeps
    <2>3. Keeps(store, Drop(mid, t)) BY <1>4, <2>2, KeepsTransitive
    <2> QED BY <1>5, <1>6, <2>3
  <1>7. CASE Request(s) BY <1>4, <1>5, <1>7 DEF Request
  <1>8. CASE Logout(s)
    <2>1. Keeps(mid, [mid EXCEPT !.sess[s] = NoSession]) BY <1>4, DelKeeps
    <2>2. Keeps(store, [mid EXCEPT !.sess[s] = NoSession]) BY <1>4, <2>1, KeepsTransitive
    <2> QED BY <1>5, <1>8, <2>2 DEF Logout
  <1>9. CASE ListOwnSessions(s)
    <2> DEFINE u == sess[s].user  dead == {r \in mid.index[u].members : ~Live(r)}
               new == [mid EXCEPT !.index[u] = SRem(mid.index[u], dead)]
    <2>1. u \in Users BY <1>3 DEF Inv, TypeOK, Stored
    <2>2. \A r \in Sids : r \in dead => mid.sess[r] = NoSession
      BY <1>2, <1>4 DEF Keeps, Same, Live
    <2>3. Keeps(mid, new) BY <1>4, <2>1, <2>2, PruneKeeps
    <2>4. Keeps(store, new) BY <1>4, <2>3, KeepsTransitive
    <2>5. Stores(new) /\ UNCHANGED <<users, history>> BY <1>9 DEF ListOwnSessions
    <2> QED BY <1>5, <2>4, <2>5
  <1>10. CASE RevalidateRejected(s)
    <2>1. Keeps(store, Drop(store, s)) BY <1>1, <1>2, <1>3, DropKeeps
    <2> QED BY <1>5, <1>10, <2>1 DEF RevalidateRejected
  <1>11. CASE RevokeOwnSessionByID(s, t)
    BY <1>6, <1>11 DEF RevokeOwnSessionByID, Live
  <1>12. CASE RevokeSessionByID(s, t)
    BY <1>6, <1>12 DEF RevokeSessionByID, Live, Admin, Recent
  <1> QED BY <1>7, <1>8, <1>9, <1>10, <1>11, <1>12

(* Time only shortens lives, and a session's not more than its index's.      *)
LEMMA TickInv == Inv /\ Tick => Inv'
  <1> SUFFICES ASSUME Inv, Tick PROVE Inv' OBVIOUS
  <1> DEFINE new == [sess |-> sess', index |-> index']
             aged(r) == [r EXCEPT !.ttl = @ - 1, !.age = IF @ < AgeCap THEN @ + 1 ELSE @]
  <1>1. AgeCap \in Nat /\ SessionTTL \in Nat BY TimeAssumption DEF AgeCap
  <1>2. \A s \in Sids : sess[s] # NoSession => sess[s] \in Stored BY DEF Inv, TypeOK
  <1>3. \A s \in Sids : sess'[s] = IF sess[s] # NoSession /\ sess[s].ttl > 1
                                   THEN aged(sess[s]) ELSE NoSession
    BY DEF Tick, Live
  <1>4. ASSUME NEW r \in Stored, r.ttl > 1
        PROVE  /\ aged(r) \in Stored /\ aged(r).user = r.user /\ aged(r).role = r.role
               /\ aged(r).locked = r.locked /\ aged(r).ttl = r.ttl - 1
               /\ r.age + r.ttl <= AgeCap => aged(r).age + aged(r).ttl <= AgeCap
    <2>1. r.ttl \in 1 .. SessionTTL /\ r.age \in 0 .. AgeCap BY DEF Stored
    <2>2. r.ttl - 1 \in 1 .. SessionTTL BY <1>1, <1>4, <2>1
    <2>3. (IF r.age < AgeCap THEN r.age + 1 ELSE r.age) \in 0 .. AgeCap BY <1>1, <2>1
    <2>4. /\ aged(r) \in Stored /\ aged(r).user = r.user /\ aged(r).role = r.role
          /\ aged(r).locked = r.locked /\ aged(r).ttl = r.ttl - 1
          /\ aged(r).age = IF r.age < AgeCap THEN r.age + 1 ELSE r.age
      BY <2>2, <2>3 DEF Stored
    <2> HIDE DEF aged
    <2> QED BY <1>1, <2>1, <2>4
  <1> HIDE DEF aged
  <1>5. \A u \in Users : /\ index'[u] = IF index[u].ttl > 1 THEN [index[u] EXCEPT !.ttl = @ - 1]
                                                           ELSE NoIndex
                         /\ index[u] \in Indexes
    BY DEF Tick, Inv, TypeOK
  <1>6. \A u \in Users : /\ index'[u] \in Indexes
                         /\ index[u].ttl > 1 => index'[u].ttl = index[u].ttl - 1
                                                /\ index'[u].members = index[u].members
    <2> TAKE u \in Users
    <2>1. index[u] \in Indexes /\ index[u].ttl \in 0 .. SessionTTL BY <1>5 DEF Indexes
    <2>2. CASE index[u].ttl > 1
      <3>1. index'[u] = [index[u] EXCEPT !.ttl = index[u].ttl - 1] BY <1>5, <2>2
      <3>2. index[u].ttl - 1 \in 0 .. SessionTTL BY <1>1, <2>1, <2>2
      <3> QED BY <2>1, <3>1, <3>2 DEF Indexes
    <2>3. CASE ~(index[u].ttl > 1)
      <3>1. index'[u] = NoIndex BY <1>5, <2>3
      <3>2. NoIndex \in Indexes BY <1>1 DEF NoIndex, Indexes
      <3> QED BY <2>3, <3>1, <3>2
    <2> QED BY <2>2, <2>3
  <1>7. new \in StoreType
    <2>1. sess' = [s \in Sids |-> sess'[s]] /\ index' = [u \in Users |-> index'[u]] BY DEF Tick
    <2>2. \A s \in Sids : sess'[s] \in Stored \cup {NoSession} BY <1>2, <1>3, <1>4
    <2> QED BY <1>6, <2>1, <2>2 DEF StoreType
  <1>8. ASSUME NEW s \in Sids PROVE Same(store, new, s) /\ (Covered(store, s) => Covered(new, s))
    <2>1. CASE sess'[s] = NoSession BY <2>1 DEF Same, Covered
    <2>2. CASE sess'[s] # NoSession
      <3>1. sess[s] \in Stored /\ sess[s] # NoSession /\ sess[s].ttl > 1 /\ sess'[s] = aged(sess[s])
        BY <1>2, <1>3, <2>2
      <3>2. /\ sess'[s].user = sess[s].user /\ sess'[s].role = sess[s].role
            /\ sess'[s].locked = sess[s].locked /\ sess'[s].ttl = sess[s].ttl - 1
            /\ sess[s].age + sess[s].ttl <= AgeCap => sess'[s].age + sess'[s].ttl <= AgeCap
        BY <1>4, <3>1
      <3>3. Same(store, new, s) BY <3>1, <3>2 DEF Same, store
      <3>4. ASSUME Covered(store, s) PROVE Covered(new, s)
        <4> DEFINE u == sess[s].user
        <4>1. u \in Users /\ sess[s].ttl \in 1 .. SessionTTL BY <3>1 DEF Stored
        <4>2. /\ s \in index[u].members /\ sess[s].ttl <= index[u].ttl
              /\ sess[s].age + sess[s].ttl <= AgeCap
          BY <3>1, <3>4 DEF Covered, store
        <4>3. index[u].ttl \in Nat
          <5>1. index[u] \in Indexes BY <1>5, <4>1
          <5>2. index[u].ttl \in 0 .. SessionTTL BY <5>1 DEF Indexes
          <5> HIDE DEF u
          <5> QED BY <1>1, <5>2
        <4>4. index[u].ttl > 1 BY <3>1, <4>1, <4>2, <4>3
        <4>5. s \in index'[u].members /\ sess'[s].ttl <= index'[u].ttl
          BY <1>6, <3>2, <4>1, <4>2, <4>3, <4>4
        <4> QED BY <3>2, <4>2, <4>5 DEF Covered
      <3> QED BY <3>3, <3>4
    <2> QED BY <2>1, <2>2
  <1>9. Keeps(store, new) BY <1>7, <1>8 DEF Keeps
  <1>10. Stores(new) /\ UNCHANGED history /\ users' = users BY DEF Stores, Tick, history
  <1>11. users' \in [Users -> Rows \cup {NoUser}] BY <1>10 DEF Inv, TypeOK
  <1> HIDE DEF new
  <1>12. \A s \in Sids : (Covered(store, s) /\ new.sess[s] # NoSession /\ Good(users[sess[s].user]))
                           => Good(users'[sess[s].user])
    BY <1>10
  <1> QED BY <1>9, <1>10, <1>11, <1>12, KeepingStep

(* Locking and deleting take the user's covered sessions along, or spare     *)
(* them.                                                                     *)
LEMMA RevocationInv ==
  ASSUME Inv, NEW a \in Sids, NEW u \in Users, NEW row \in Rows \cup {NoUser},
         sess[a] # NoSession, users' = [users EXCEPT ![u] = row],
         RevokeUserSessions(Validated(store, a), u)
  PROVE  Inv'
  <1> DEFINE mid == Validated(store, a)
  <1>1. store \in StoreType BY StoreTyped DEF Inv
  <1>2. store.sess = sess BY DEF store
  <1>3. Keeps(store, mid) /\ mid \in StoreType BY <1>1, <1>2, ValidatedKeeps DEF Keeps
  <1>4. users' \in [Users -> Rows \cup {NoUser}] BY DEF Inv, TypeOK
  <1>5. RevokeUserSessions(mid, u) OBVIOUS
  <1> HIDE DEF mid
  <1>6. ASSUME NEW new, Keeps(mid, new), Stores(new), UNCHANGED <<rewritten, unguarded>>,
               spared \subseteq spared', spared' \subseteq Sids,
               \A s \in Sids \ spared' :
                 Covered(mid, s) /\ new.sess[s] # NoSession => mid.sess[s].user # u
        PROVE  Inv'
    <2>1. Keeps(store, new) BY <1>3, <1>6, KeepsTransitive
    <2>2. ASSUME NEW s \in Sids \ spared', Covered(store, s), new.sess[s] # NoSession,
                 Good(users[sess[s].user])
          PROVE  Good(users'[sess[s].user])
      <3>1. Covered(mid, s) BY <1>3, <2>2 DEF Keeps
      <3>2. mid.sess[s].user # u BY <1>6, <2>2, <3>1
      <3>3. mid.sess[s].user = sess[s].user BY <1>2, <1>3, <1>6, <2>2 DEF Keeps, Same
      <3>4. sess[s] # NoSession BY <1>2, <2>1, <2>2 DEF Keeps, Same
      <3>5. sess[s].user \in Users BY <3>4 DEF Inv, TypeOK, Stored
      <3> QED BY <2>2, <3>2, <3>3, <3>5 DEF Inv, TypeOK
    <2> QED BY <1>4, <1>6, <2>1, <2>2, SparingStep
  <1>7. CASE Stores(Revoked(mid, u)) /\ UNCHANGED history
    <2> DEFINE new == Revoked(mid, u)
    <2>1. /\ Keeps(mid, new)
          /\ \A s \in Sids : Covered(mid, s) /\ new.sess[s] # NoSession => mid.sess[s].user # u
      BY <1>3, RevokedKeeps
    <2>2. /\ Stores(new) /\ UNCHANGED <<rewritten, unguarded>>
          /\ spared \subseteq spared' /\ spared' \subseteq Sids
      BY <1>7 DEF history, Inv, TypeOK
    <2> HIDE DEF new
    <2> QED BY <1>6, <2>1, <2>2
  <1>8. ASSUME NEW gone \in SUBSET mid.index[u].members,
               Stores(CutOff(mid, gone)), UNCHANGED <<rewritten, unguarded>>,
               spared' = spared \cup {s \in mid.index[u].members \ gone : mid.sess[s] # NoSession}
        PROVE  Inv'
    <2> DEFINE new == CutOff(mid, gone)
    <2>1. /\ Keeps(mid, new)
          /\ \A s \in Sids : new.sess[s] # NoSession => s \notin gone
      BY <1>3, CutOffKeeps
    <2>2. mid.index[u].members \subseteq Sids BY <1>3 DEF StoreType, Indexes
    <2>3. spared \subseteq spared' /\ spared' \subseteq Sids BY <1>8, <2>2 DEF Inv, TypeOK
    <2> HIDE DEF new
    <2>4. ASSUME NEW s \in Sids \ spared', Covered(mid, s), new.sess[s] # NoSession
          PROVE  mid.sess[s].user # u
      <3>1. s \notin gone /\ mid.sess[s] # NoSession BY <2>1, <2>4 DEF Keeps, Same
      <3>2. s \notin mid.index[u].members BY <1>8, <2>4, <3>1
      <3> QED BY <2>4, <3>1, <3>2 DEF Covered
    <2> QED BY <1>6, <1>8, <2>1, <2>3, <2>4 DEF new
  <1> QED BY <1>5, <1>7, <1>8 DEF RevokeUserSessions

LEMMA AccountsInv ==
  ASSUME Inv, NEW a \in Sids, NEW u \in Users,
         LockUser(a, u) \/ DeleteUser(a, u) \/ DeleteSelf(a) \/ UnlockUser(a, u)
  PROVE  Inv'
  <1>1. sess[a] # NoSession /\ sess[a].user \in Users
    BY DEF LockUser, DeleteUser, DeleteSelf, UnlockUser, Admin, Recent, Accepted, Live,
           Inv, TypeOK, Stored
  <1>2. \A v \in Users : users[v] # NoUser => users[v] \in Rows BY DEF Inv, TypeOK
  <1>3. CASE LockUser(a, u)
    <2>1. users[u] \in Rows BY <1>2, <1>3 DEF LockUser, Exists
    <2>2. [users[u] EXCEPT !.locked = TRUE] \in Rows BY <2>1 DEF Rows
    <2>3. users' = [users EXCEPT ![u] = [users[u] EXCEPT !.locked = TRUE]] BY <1>3 DEF LockUser
    <2> QED BY <1>1, <1>3, <2>2, <2>3, RevocationInv DEF LockUser
  <1>4. CASE DeleteUser(a, u) BY <1>1, <1>4, RevocationInv DEF DeleteUser
  <1>5. CASE DeleteSelf(a) BY <1>1, <1>5, RevocationInv DEF DeleteSelf
  <1>6. CASE UnlockUser(a, u)
    <2>1. users[u] \in Rows BY <1>2, <1>6 DEF UnlockUser, Exists
    <2>2. [users[u] EXCEPT !.locked = FALSE] \in Rows
          /\ [users[u] EXCEPT !.locked = FALSE].approved = users[u].approved
          /\ [users[u] EXCEPT !.locked = FALSE].locked = FALSE
      BY <2>1 DEF Rows
    <2>3. users' = [users EXCEPT ![u] = [users[u] EXCEPT !.locked = FALSE]]
          /\ Stores(Validated(store, a)) /\ UNCHANGED history
      BY <1>6 DEF UnlockUser
    <2>4. users' \in [Users -> Rows \cup {NoUser}] BY <2>2, <2>3 DEF Inv, TypeOK
    <2>5. \A v \in Users : Good(users[v]) => Good(users'[v])
      BY <2>2, <2>3, SentinelAssumption DEF Good, Inv, TypeOK
    <2>6. Keeps(store, Validated(store, a))
      <3>1. store \in StoreType /\ store.sess = sess BY StoreTyped DEF Inv, store
      <3> QED BY <1>1, <3>1, ValidatedKeeps
    <2>7. \A s \in Sids : (Covered(store, s) /\ Validated(store, a).sess[s] # NoSession
                             /\ Good(users[sess[s].user])) => Good(users'[sess[s].user])
      <3> SUFFICES ASSUME NEW s \in Sids, Validated(store, a).sess[s] # NoSession,
                          Good(users[sess[s].user])
                   PROVE  Good(users'[sess[s].user])
        OBVIOUS
      <3>1. sess[s] # NoSession BY <2>6 DEF Keeps, Same, store
      <3>2. sess[s].user \in Users BY <3>1 DEF Inv, TypeOK, Stored
      <3> QED BY <2>5, <3>2
    <2> QED BY <2>3, <2>4, <2>6, <2>7, KeepingStep
  <1> QED BY <1>3, <1>4, <1>5, <1>6

(* An approval rewrites the sessions that the index lists.                   *)
LEMMA ApproveInv ==
  ASSUME Inv, NEW a \in Sids, NEW u \in Users, ApproveUser(a, u)
  PROVE  Inv'
  <1> DEFINE mid == Validated(store, a)  new == Rewritten(mid, u, users[u].role)
             row == [users[u] EXCEPT !.approved = TRUE]
  <1>1. store \in StoreType /\ store.sess = sess /\ store.index = index
    BY StoreTyped DEF Inv, store
  <1>2. sess[a] # NoSession BY DEF ApproveUser, Admin, Recent, Accepted, Live
  <1>3. Keeps(store, mid) /\ mid \in StoreType BY <1>1, <1>2, ValidatedKeeps DEF Keeps
  <1>4. users[u] # NoUser /\ users[u] \in Rows BY DEF ApproveUser, Exists, Inv, TypeOK
  <1>5. /\ sess' = new.sess /\ index' = new.index
        /\ users' = [users EXCEPT ![u] = row]
        /\ rewritten' = rewritten \cup {s \in index[u].members : sess[s] # NoSession}
        /\ unguarded' = unguarded /\ spared' = spared
    BY DEF ApproveUser, Stores, Live
  <1>6. row \in Rows /\ row.approved /\ row.locked = users[u].locked BY <1>4 DEF Rows
  <1>7. mid.index[u].members \subseteq index[u].members
    <2>1. index[u] \in Indexes BY DEF Inv, TypeOK
    <2>2. sess[a].user \in Users BY <1>2 DEF Inv, TypeOK, Stored
    <2>3. CASE sess[a].age > SessionAbsoluteMaxAge
      <3>1. mid.index = [index EXCEPT ![sess[a].user] = SRem(index[sess[a].user], {a})]
        BY <1>1, <2>3 DEF Validated, Drop
      <3>2. mid.index[u] = IF u = sess[a].user THEN SRem(index[u], {a}) ELSE index[u]
        BY <2>2, <3>1 DEF Inv, TypeOK
      <3>3. SRem(index[u], {a}).members \subseteq index[u].members
        BY <2>1 DEF SRem, NoIndex, Indexes
      <3> QED BY <3>2, <3>3
    <2>4. CASE ~(sess[a].age > SessionAbsoluteMaxAge)
      <3>1. mid.index = [index EXCEPT ![sess[a].user] = Refresh(index[sess[a].user])]
        BY <1>1, <2>4 DEF Validated
      <3>2. mid.index[u] = IF u = sess[a].user THEN Refresh(index[u]) ELSE index[u]
        BY <2>2, <3>1 DEF Inv, TypeOK
      <3>3. Refresh(index[u]).members = index[u].members
        BY <2>1 DEF Refresh, Indexes
      <3> QED BY <3>2, <3>3
    <2> QED BY <2>3, <2>4
  <1> HIDE DEF mid
  <1>8. /\ new \in StoreType
        /\ \A s \in Sids : (s \in mid.index[u].members => mid.sess[s] = NoSession) =>
             Same(mid, new, s) /\ (Covered(mid, s) => Covered(new, s))
    <2>1. users[u].role \in Roles BY <1>4 DEF Rows
    <2> QED BY <1>3, <2>1, RewrittenKeeps
  <1> HIDE DEF new, row
  <1>9. ASSUME NEW s \in Sids, s \notin rewritten'
        PROVE  Same(store, new, s) /\ Covered(new, s)
    <2>1. s \notin index[u].members \/ sess[s] = NoSession BY <1>5, <1>9
    <2>2. s \in mid.index[u].members => mid.sess[s] = NoSession
      BY <1>1, <1>3, <1>7, <2>1 DEF Keeps, Same
    <2>3. s \in rewritten \/ Covered(store, s) BY CoveredMeans DEF Inv
    <2>4. Covered(store, s) BY <1>5, <1>9, <2>3
    <2>5. Same(store, mid, s) /\ Covered(mid, s) BY <1>3, <2>4 DEF Keeps
    <2>6. Same(mid, new, s) /\ Covered(new, s) BY <1>8, <2>2, <2>5
    <2> QED BY <2>5, <2>6 DEF Same
  <1>10. TypeOK'
    <2>1. users' \in [Users -> Rows \cup {NoUser}] BY <1>5, <1>6 DEF Inv, TypeOK
    <2>2. rewritten' \subseteq Sids BY <1>5 DEF Inv, TypeOK, Indexes
    <2>3. unguarded' \subseteq Sids /\ spared' \subseteq Sids BY <1>5 DEF Inv, TypeOK
    <2> QED BY <1>5, <1>8, <2>1, <2>2, <2>3 DEF TypeOK, StoreType
  <1>11. IndexCoversSessions' /\ BoundedLife'
    <2>1. \A s \in Sids : Covered(new, s) => Covered(store', s) BY <1>5 DEF Covered, store
    <2> QED BY <1>9, <2>1, CoveredMeansNext
  <1>12. ActiveSessionsAreEntitled'
    <2> SUFFICES ASSUME NEW s \in Sids, sess'[s] # NoSession,
                        s \notin rewritten' \cup unguarded' \cup spared',
                        sess'[s].role # "pending", ~sess'[s].locked
                 PROVE  LET v == sess'[s].user
                        IN users'[v] # NoUser /\ users'[v].approved /\ ~users'[v].locked
      BY DEF ActiveSessionsAreEntitled, Live, Active, Exists
    <2>1. /\ sess[s] # NoSession /\ sess'[s].user = sess[s].user
          /\ sess'[s].role = sess[s].role /\ sess'[s].locked = sess[s].locked
      BY <1>1, <1>5, <1>9 DEF Same
    <2>2. Good(users[sess[s].user]) BY <1>5, <2>1, EntitledMeans DEF Inv
    <2>3. sess[s].user \in Users BY <2>1 DEF Inv, TypeOK, Stored
    <2>4. users'[sess[s].user] = IF sess[s].user = u THEN row ELSE users[sess[s].user]
      BY <1>5, <2>3 DEF Inv, TypeOK
    <2> QED BY <1>6, <2>1, <2>2, <2>4, SentinelAssumption DEF Good
  <1> QED BY <1>10, <1>11, <1>12 DEF Inv

(* A login adds a covered session with the standing of its account.          *)
LEMMA CallbackInv ==
  ASSUME Inv, NEW u \in Users, NEW n \in Sids, NEW role \in Roles, Callback(u, n, role)
  PROVE  Inv'
  <1> DEFINE approved == WizardComplete => (Exists(u) /\ users[u].approved)
             locked == WizardComplete /\ Exists(u) /\ users[u].locked
             row == IF Exists(u) THEN [users[u] EXCEPT !.role = role]
                    ELSE [role |-> role, approved |-> approved, locked |-> FALSE]
             fresh == [user |-> u, locked |-> locked, age |-> 0, ttl |-> SessionTTL,
                       role |-> IF locked \/ ~approved THEN "pending" ELSE role]
             ix == [members |-> index[u].members \cup {n}, ttl |-> SessionTTL]
  <1>1. /\ users' = [users EXCEPT ![u] = row] /\ sess' = [sess EXCEPT ![n] = fresh]
        /\ index' = [index EXCEPT ![u] = ix] /\ rewritten' = rewritten \ {n}
        /\ unguarded' = IF WizardComplete THEN unguarded \ {n} ELSE unguarded \cup {n}
        /\ sess[n] = NoSession /\ spared' = spared \ {n}
    BY DEF Callback, Live
  <1>2. users[u] \in Rows \/ ~Exists(u) BY DEF Inv, TypeOK, Exists
  <1>3. /\ row \in Rows
        /\ Exists(u) => row.approved = users[u].approved /\ row.locked = users[u].locked
        /\ WizardComplete => (approved <=> row.approved)
        /\ WizardComplete => (locked <=> row.locked)
    <2>1. approved \in BOOLEAN BY <1>2 DEF Rows
    <2>2. CASE Exists(u) BY <1>2, <2>1, <2>2 DEF Rows
    <2>3. CASE ~Exists(u) BY <2>1, <2>3 DEF Rows
    <2> QED BY <2>2, <2>3
  <1>4. fresh \in Stored
    <2>1. locked \in BOOLEAN BY <1>2 DEF Rows
    <2>2. SessionTTL \in 1 .. SessionTTL /\ 0 \in 0 .. AgeCap BY TimeAssumption DEF AgeCap
    <2>3. (IF locked \/ ~approved THEN "pending" ELSE role) \in Roles \cup {"pending"} OBVIOUS
    <2> HIDE DEF approved, locked
    <2> QED BY <2>1, <2>2, <2>3 DEF Stored
  <1>5. ix \in Indexes BY TimeAssumption DEF Inv, TypeOK, Indexes
  <1>6. /\ fresh.user = u /\ fresh.age = 0 /\ fresh.ttl = SessionTTL /\ fresh.locked = locked
        /\ fresh.role # "pending" => approved /\ ~locked
    OBVIOUS
  <1>7. /\ ix.ttl = SessionTTL /\ \A s : s \in ix.members <=> s \in index[u].members \/ s = n
    OBVIOUS
  <1> HIDE DEF row, fresh, ix, approved, locked
  <1>8. /\ \A s \in Sids : sess'[s] = IF s = n THEN fresh ELSE sess[s]
        /\ \A v \in Users : index'[v] = IF v = u THEN ix ELSE index[v]
        /\ \A v \in Users : users'[v] = IF v = u THEN row ELSE users[v]
    BY <1>1 DEF Inv, TypeOK
  <1>9. TypeOK' BY <1>1, <1>3, <1>4, <1>5 DEF Inv, TypeOK
  <1>10. ASSUME NEW s \in Sids, s \notin rewritten' PROVE Covered(store', s)
    <2>1. CASE s = n
      <3>1. store'.sess[n] = fresh /\ store'.index[u] = ix BY <1>8 DEF store
      <3>2. fresh.age + fresh.ttl <= AgeCap BY <1>6, TimeAssumption DEF AgeCap
      <3>3. fresh.ttl <= ix.ttl BY <1>6, <1>7, TimeAssumption
      <3> QED BY <1>6, <1>7, <2>1, <3>1, <3>2, <3>3 DEF Covered
    <2>2. CASE s # n /\ sess[s] = NoSession BY <1>8, <2>2 DEF Covered, store
    <2>3. CASE s # n /\ sess[s] # NoSession
      <3> DEFINE v == sess[s].user
      <3>1. v \in Users /\ sess[s].ttl \in 1 .. SessionTTL BY <2>3 DEF Inv, TypeOK, Stored
      <3>2. s \in rewritten \/ Covered(store, s) BY CoveredMeans DEF Inv
      <3>3. /\ s \in index[v].members /\ sess[s].ttl <= index[v].ttl
            /\ sess[s].age + sess[s].ttl <= AgeCap
        BY <1>1, <1>10, <2>3, <3>2 DEF Covered, store
      <3>4. sess'[s] = sess[s] BY <1>8, <2>3
      <3>5. s \in index'[v].members /\ sess[s].ttl <= index'[v].ttl
        <4>1. CASE v = u BY <1>7, <1>8, <3>1, <3>3, <4>1, TimeAssumption
        <4>2. CASE v # u BY <1>8, <3>1, <3>3, <4>2
        <4> QED BY <4>1, <4>2
      <3> QED BY <3>3, <3>4, <3>5 DEF Covered, store
    <2> QED BY <2>1, <2>2, <2>3
  <1>11. IndexCoversSessions' /\ BoundedLife' BY <1>10, CoveredMeansNext
  <1>12. ActiveSessionsAreEntitled'
    <2> SUFFICES ASSUME NEW s \in Sids, sess'[s] # NoSession,
                        s \notin rewritten' \cup unguarded' \cup spared',
                        sess'[s].role # "pending", ~sess'[s].locked
                 PROVE  LET v == sess'[s].user
                        IN users'[v] # NoUser /\ users'[v].approved /\ ~users'[v].locked
      BY DEF ActiveSessionsAreEntitled, Live, Active, Exists
    <2>1. CASE s = n
      <3>1. WizardComplete BY <1>1, <2>1
      <3>2. sess'[s] = fresh BY <1>8, <2>1
      <3>3. approved /\ ~locked BY <1>6, <3>2
      <3> QED BY <1>3, <1>6, <1>8, <3>1, <3>2, <3>3, SentinelAssumption
    <2>2. CASE s # n
      <3>1. sess'[s] = sess[s] /\ s \notin rewritten \cup unguarded \cup spared BY <1>1, <1>8, <2>2
      <3>2. Good(users[sess[s].user]) BY <3>1, EntitledMeans DEF Inv
      <3>3. sess[s].user \in Users BY <3>1 DEF Inv, TypeOK, Stored
      <3>4. CASE sess[s].user = u
        BY <1>3, <1>8, <3>1, <3>2, <3>3, <3>4, SentinelAssumption DEF Good, Exists
      <3>5. CASE sess[s].user # u BY <1>8, <3>1, <3>2, <3>3, <3>5 DEF Good
      <3> QED BY <3>4, <3>5
    <2> QED BY <2>1, <2>2
  <1> QED BY <1>9, <1>11, <1>12 DEF Inv

LEMMA NextInv == Inv /\ [Next]_vars => Inv'
  <1> SUFFICES ASSUME Inv, [Next]_vars PROVE Inv' OBVIOUS
  <1>1. CASE UNCHANGED vars
    <2>1. users' = users /\ sess' = sess /\ index' = index /\ rewritten' = rewritten
          /\ unguarded' = unguarded /\ spared' = spared
      BY <1>1 DEF vars
    <2> QED BY <2>1 DEF Inv, TypeOK, IndexCoversSessions, BoundedLife,
                        ActiveSessionsAreEntitled, Live, Active, Exists
  <1>2. ASSUME NEW u \in Users, NEW s \in Sids, NEW r \in Roles, Callback(u, s, r) PROVE Inv'
    BY <1>2, CallbackInv
  <1>3. ASSUME NEW s \in Sids, Request(s) \/ Logout(s) \/ ListOwnSessions(s) \/ RevalidateRejected(s)
        PROVE  Inv'
    BY <1>3, RequestsInv
  <1>4. ASSUME NEW s \in Sids, DeleteSelf(s) PROVE Inv'
    <2>1. sess[s] # NoSession BY <1>4 DEF DeleteSelf, Recent, Accepted, Live
    <2>2. sess[s].user \in Users BY <2>1 DEF Inv, TypeOK, Stored
    <2> QED BY <1>4, <2>2, AccountsInv
  <1>5. ASSUME NEW s \in Sids, NEW t \in Sids, RevokeOwnSessionByID(s, t) \/ RevokeSessionByID(s, t)
        PROVE  Inv'
    BY <1>5, RequestsInv
  <1>6. ASSUME NEW a \in Sids, NEW u \in Users, ApproveUser(a, u) PROVE Inv'
    BY <1>6, ApproveInv
  <1>7. ASSUME NEW a \in Sids, NEW u \in Users,
               LockUser(a, u) \/ UnlockUser(a, u) \/ DeleteUser(a, u)
        PROVE  Inv'
    BY <1>7, AccountsInv
  <1>8. CASE Tick BY <1>8, TickInv
  <1> QED BY <1>1, <1>2, <1>3, <1>4, <1>5, <1>6, <1>7, <1>8 DEF Next

(* The inductive invariant holds throughout.                                 *)
THEOREM Invariance == Spec => []Inv
  BY InitInv, NextInv, PTL DEF Spec

(* Every variable keeps its type.                                            *)
THEOREM TypeCorrect == Spec => []TypeOK
  <1>1. Inv => TypeOK BY DEF Inv
  <1> QED BY Invariance, <1>1, PTL

(* RevokeUserSessions finds every session UpdateSessionsRole left alone: the *)
(* index lists it and outlives it, whatever the TTLs.                        *)
THEOREM IndexAlwaysCovers == Spec => []IndexCoversSessions
  <1>1. Inv => IndexCoversSessions BY DEF Inv
  <1> QED BY Invariance, <1>1, PTL

(* A session that is let through belongs to an approved, unlocked account,   *)
(* unless a failed RevokeUserSessions left it (or the other exemptions).     *)
THEOREM ActiveAlwaysEntitled == Spec => []ActiveSessionsAreEntitled
  <1>1. Inv => ActiveSessionsAreEntitled BY DEF Inv
  <1> QED BY Invariance, <1>1, PTL

(* A session in constant use ends within a TTL of SessionAbsoluteMaxAge.     *)
THEOREM LifeAlwaysBounded == Spec => []BoundedLife
  <1>1. Inv => BoundedLife BY DEF Inv
  <1> QED BY Invariance, <1>1, PTL
=============================================================================
