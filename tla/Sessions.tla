------------------------------ MODULE Sessions ------------------------------
(***************************************************************************)
(* Accounts and their sessions (internal/auth, db/users.go) over time: the   *)
(* users table, the session keys in Valkey and the per-user index            *)
(* usersessions:{user} that revocation relies on, both with a sliding TTL.   *)
(*                                                                           *)
(* A request is one step, from requireAdmin or SessionFromRequest to its     *)
(* answer. Time is relative: a session has an age since its login, keys      *)
(* have the time they still live; Tick lets one unit pass.                   *)
(***************************************************************************)
EXTENDS Integers, FiniteSets

CONSTANTS
  Users,          \* OIDC subjects
  Sids,           \* digests of session tokens
  NoSession, NoUser,
  SessionTTL, SessionAbsoluteMaxAge,
  ReauthWindow    \* how old a login may be for an admin action

ASSUME TimeAssumption ==
  /\ SessionTTL \in Nat \ {0}
  /\ {SessionAbsoluteMaxAge, ReauthWindow} \subseteq Nat

VARIABLES
  users,      \* the users table: a row or NoUser
  sess,       \* session:{sid}: the stored session or NoSession
  index,      \* usersessions:{user}: the members, and the time the key lives
  rewritten,  \* history: sessions that UpdateSessionsRole has rewritten
  unguarded,  \* history: sessions begun while the instance had no admin
  spared      \* history: sessions that a failed revocation left

vars == <<users, sess, index, rewritten, unguarded, spared>>
history == <<rewritten, unguarded, spared>>

Roles == {"admin", "user"}
AgeCap == SessionAbsoluteMaxAge + SessionTTL  \* bound: ages are not told apart beyond it

Rows == [role : Roles, approved : BOOLEAN, locked : BOOLEAN]
Stored == [user : Users, role : Roles \cup {"pending"}, locked : BOOLEAN,
           age : 0 .. AgeCap, ttl : 1 .. SessionTTL]
Indexes == [members : SUBSET Sids, ttl : 0 .. SessionTTL]
NoIndex == [members |-> {}, ttl |-> 0]

ASSUME SentinelAssumption == NoSession \notin Stored /\ NoUser \notin Rows

Init ==
  /\ users = [u \in Users |-> NoUser]
  /\ sess = [s \in Sids |-> NoSession]
  /\ index = [u \in Users |-> NoIndex]
  /\ rewritten = {}
  /\ unguarded = {}
  /\ spared = {}

-----------------------------------------------------------------------------
(* The store: what the session functions do to the two kinds of keys *)

store == [sess |-> sess, index |-> index]
Stores(st) == sess' = st.sess /\ index' = st.index

Live(s) == sess[s] # NoSession

(* SREM: the key goes with its last member.                                  *)
SRem(ix, dead) ==
  LET left == ix.members \ dead
  IN IF left = {} THEN NoIndex ELSE [ix EXCEPT !.members = left]

(* DEL of the session key and SREM from its user's index.                    *)
Drop(st, s) ==
  [sess  |-> [st.sess EXCEPT ![s] = NoSession],
   index |-> [st.index EXCEPT ![st.sess[s].user] = SRem(@, {s})]]

(* EXPIRE has no effect on a key that is not there.                          *)
Refresh(ix) == IF ix.members = {} THEN ix ELSE [ix EXCEPT !.ttl = SessionTTL]

(* The absolute age is not looked at.                                        *)
ValidatedMutant1(st, s) ==
  [sess |-> [st.sess EXCEPT ![s].ttl = SessionTTL],
   index |-> [st.index EXCEPT ![st.sess[s].user] = Refresh(@)]]

(* Only the session key slides.                                              *)
ValidatedMutant2(st, s) ==
  IF st.sess[s].age > SessionAbsoluteMaxAge THEN Drop(st, s)
  ELSE [st EXCEPT !.sess[s].ttl = SessionTTL]

(* validateSessionByID: too old is dropped, otherwise both keys slide.       *)
Validated(st, s) ==
  IF st.sess[s].age > SessionAbsoluteMaxAge THEN Drop(st, s)
  ELSE [sess  |-> [st.sess EXCEPT ![s].ttl = SessionTTL],
        index |-> [st.index EXCEPT ![st.sess[s].user] = Refresh(@)]]

(* The member list is deleted but the sessions are not.                      *)
RevokedMutant(st, u) == [st EXCEPT !.index[u] = NoIndex]

(* The sessions the index lists, then the index.                             *)
Revoked(st, u) ==
  [sess  |-> [s \in Sids |-> IF s \in st.index[u].members THEN NoSession ELSE st.sess[s]],
   index |-> [st.index EXCEPT ![u] = NoIndex]]

CutOff(st, gone) ==
  [st EXCEPT !.sess = [s \in Sids |-> IF s \in gone THEN NoSession ELSE st.sess[s]]]

(* RevokeUserSessions: a command that fails, the read of the index or any of *)
(* the deletions, ends it there. Its callers log the error and go on.        *)
RevokeUserSessions(st, u) ==
  \/ Stores(Revoked(st, u)) /\ UNCHANGED history
  \/ \E gone \in SUBSET st.index[u].members :
       /\ Stores(CutOff(st, gone))
       /\ spared' = spared \cup {s \in st.index[u].members \ gone : st.sess[s] # NoSession}
       /\ UNCHANGED <<rewritten, unguarded>>

Promoted(r, role) ==
  [user |-> r.user, role |-> role, locked |-> FALSE, age |-> r.age, ttl |-> SessionTTL]

(* UpdateSessionsRole: the listed sessions get the role and a full TTL,      *)
(* stale members are unindexed, the index key itself is not refreshed.       *)
Rewritten(st, u, role) ==
  LET stale == {s \in st.index[u].members : st.sess[s] = NoSession}
      kept  == st.index[u].members \ stale
  IN [sess  |-> [s \in Sids |->
                  IF s \in kept THEN Promoted(st.sess[s], role) ELSE st.sess[s]],
      index |-> [st.index EXCEPT ![u] = SRem(@, stale)]]

-----------------------------------------------------------------------------
(* Who may do what *)

Accepted(s) == Live(s) /\ sess[s].age <= SessionAbsoluteMaxAge

(* What RequireActiveSession lets through.                                   *)
Active(s) == sess[s].role # "pending" /\ ~sess[s].locked

Recent(s) == Accepted(s) /\ sess[s].age <= ReauthWindow

(* requireAdmin and requireRecentLogin have passed.                          *)
Admin(s) == Recent(s) /\ sess[s].role = "admin"

Exists(u) == users[u] # NoUser
Admins == {u \in Users : Exists(u) /\ users[u].role = "admin"}

AdminCount == Cardinality(Admins)  \* locked or not

guardAgainstLastAdmin(u) == u \in Admins /\ AdminCount <= 1

(* setup.WizardComplete, asked at every login: with OIDC and the group       *)
(* prefix configured (else nobody can log in) it is whether an admin exists. *)
WizardComplete == Admins # {}

-----------------------------------------------------------------------------
(* Logging in and out *)

(* CallbackHandler with an IdP that puts u in one of the groups (DeriveRole; *)
(* without a group the login is refused). UpsertUser keeps approved and      *)
(* locked of an existing row. CreateSession sets the key and the index.      *)
Callback(u, s, derivedRole) ==
  LET approved == WizardComplete => (Exists(u) /\ users[u].approved)
      locked   == WizardComplete /\ Exists(u) /\ users[u].locked
  IN /\ ~Live(s) /\ \A v \in Users : s \notin index[v].members  \* a fresh token
     /\ users' = [users EXCEPT ![u] =
                    IF Exists(u) THEN [@ EXCEPT !.role = derivedRole]
                    ELSE [role |-> derivedRole, approved |-> approved, locked |-> FALSE]]
     /\ sess' = [sess EXCEPT ![s] =
                   [user |-> u, locked |-> locked, age |-> 0, ttl |-> SessionTTL,
                    role |-> IF locked \/ ~approved THEN "pending" ELSE derivedRole]]
     /\ index' = [index EXCEPT ![u] = [members |-> @.members \cup {s}, ttl |-> SessionTTL]]
     /\ rewritten' = rewritten \ {s} /\ spared' = spared \ {s}
     /\ unguarded' = IF WizardComplete THEN unguarded \ {s} ELSE unguarded \cup {s}

(* Any request with the session's cookie, or with a module token of it.      *)
Request(s) ==
  /\ Live(s)
  /\ Stores(Validated(store, s))
  /\ UNCHANGED <<users, history>>

(* LogoutHandler: the session is read like in any request, then its key is   *)
(* deleted. The index keeps the member.                                      *)
Logout(s) ==
  /\ Live(s)
  /\ Stores([Validated(store, s) EXCEPT !.sess[s] = NoSession])
  /\ UNCHANGED <<users, history>>

(* ListActiveSessionsForUser: the user's own list, pruned of dead members.   *)
ListOwnSessions(s) ==
  /\ Accepted(s)
  /\ LET st == Validated(store, s) u == sess[s].user
     IN Stores([st EXCEPT !.index[u] = SRem(@, {t \in @.members : ~Live(t)})])
  /\ UNCHANGED <<users, history>>

(* RevokeOwnSessionByID: only what the user's own index lists.               *)
RevokeOwnSessionByID(s, t) ==
  /\ Accepted(s) /\ Live(t)
  /\ t \in index[sess[s].user].members /\ sess[t].user = sess[s].user
  /\ Stores(Drop(Validated(store, s), t))
  /\ UNCHANGED <<users, history>>

(* RevalidateSession, when the IdP refuses the refresh token. (When it does  *)
(* not, the session is stored again with its role and its remaining TTL.)    *)
RevalidateRejected(t) ==
  /\ Live(t)
  /\ Stores(Drop(store, t))
  /\ UNCHANGED <<users, history>>

-----------------------------------------------------------------------------
(* Administration *)

RevokeSessionByID(a, t) ==
  /\ Admin(a) /\ Live(t)
  /\ Stores(Drop(Validated(store, a), t))
  /\ UNCHANGED <<users, history>>

ApproveUser(a, u) ==
  /\ Admin(a) /\ Exists(u)
  /\ users' = [users EXCEPT ![u].approved = TRUE]
  /\ Stores(Rewritten(Validated(store, a), u, users[u].role))
  /\ rewritten' = rewritten \cup {s \in index[u].members : Live(s)}
  /\ UNCHANGED <<unguarded, spared>>

LockUser(a, u) ==
  /\ Admin(a) /\ Exists(u)
  /\ u # sess[a].user /\ ~guardAgainstLastAdmin(u)
  /\ users' = [users EXCEPT ![u].locked = TRUE]
  /\ RevokeUserSessions(Validated(store, a), u)

UnlockUser(a, u) ==
  /\ Admin(a) /\ Exists(u)
  /\ users' = [users EXCEPT ![u].locked = FALSE]
  /\ Stores(Validated(store, a))
  /\ UNCHANGED history

DeleteUser(a, u) ==
  /\ Admin(a) /\ Exists(u)
  /\ u # sess[a].user /\ ~guardAgainstLastAdmin(u)
  /\ users' = [users EXCEPT ![u] = NoUser]
  /\ RevokeUserSessions(Validated(store, a), u)

(* Open to every session, a pending or a locked one too.                     *)
DeleteSelf(s) ==
  LET u == sess[s].user
  IN /\ Recent(s) /\ Exists(u)
     /\ ~guardAgainstLastAdmin(u)
     /\ users' = [users EXCEPT ![u] = NoUser]
     /\ RevokeUserSessions(Validated(store, s), u)

-----------------------------------------------------------------------------
(* One unit of time passes: keys whose TTL runs out are gone.                *)
Tick ==
  /\ sess' = [s \in Sids |->
               IF Live(s) /\ sess[s].ttl > 1
               THEN [sess[s] EXCEPT !.ttl = @ - 1, !.age = IF @ < AgeCap THEN @ + 1 ELSE @]
               ELSE NoSession]
  /\ index' = [u \in Users |->
               IF index[u].ttl > 1 THEN [index[u] EXCEPT !.ttl = @ - 1] ELSE NoIndex]
  /\ UNCHANGED <<users, history>>

Next ==
  \/ \E u \in Users, s \in Sids, r \in Roles : Callback(u, s, r)
  \/ \E s \in Sids : Request(s) \/ Logout(s) \/ ListOwnSessions(s)
                     \/ RevalidateRejected(s) \/ DeleteSelf(s)
  \/ \E s, t \in Sids : RevokeOwnSessionByID(s, t) \/ RevokeSessionByID(s, t)
  \/ \E a \in Sids, u \in Users :
       ApproveUser(a, u) \/ LockUser(a, u) \/ UnlockUser(a, u) \/ DeleteUser(a, u)
  \/ Tick

Spec == Init /\ [][Next]_vars

-----------------------------------------------------------------------------
(* Properties *)

TypeOK ==
  /\ users \in [Users -> Rows \cup {NoUser}]
  /\ sess \in [Sids -> Stored \cup {NoSession}]
  /\ index \in [Users -> Indexes]
  /\ rewritten \subseteq Sids
  /\ unguarded \subseteq Sids
  /\ spared \subseteq Sids

(* Revocation finds what it has to: a live session is listed in its user's   *)
(* index, and the index lives at least as long as the session. The session   *)
(* TTL slides with every request, in two separate keys; only sessions that   *)
(* UpdateSessionsRole prolonged may outlive their index.                     *)
IndexCoversSessions ==
  \A s \in Sids : Live(s) /\ s \notin rewritten =>
    s \in index[sess[s].user].members /\ sess[s].ttl <= index[sess[s].user].ttl

(* Both gates at once: a session that is let through belongs to an account   *)
(* that exists, is approved and is not locked, however old the session is    *)
(* and whatever happened to the account since. Exempt are the sessions that  *)
(* an approval rewrote, those begun while no admin existed, and those that a *)
(* revocation whose failure was logged left: LockUserHandler lets these live *)
(* until they expire (BoundedLife says when).                                *)
ActiveSessionsAreEntitled ==
  \A s \in Sids : (Live(s) /\ s \notin rewritten \cup unguarded \cup spared /\ Active(s)) =>
    LET u == sess[s].user IN Exists(u) /\ users[u].approved /\ ~users[u].locked

(* SessionAbsoluteMaxAge bounds a session's life even if it is used all the  *)
(* time: no session that was not rewritten outlives it by more than a TTL.   *)
BoundedLife ==
  \A s \in Sids : Live(s) /\ s \notin rewritten => sess[s].age + sess[s].ttl <= AgeCap

(* guardAgainstLastAdmin: removing or locking an admin leaves another one.   *)
AdminRemains ==
  [][\A u \in Admins : (users'[u] = NoUser \/ (users'[u].locked /\ ~users[u].locked))
       => \E v \in Users \ {u} : users'[v] # NoUser /\ users'[v].role = "admin"]_vars

(* RevokeUserSessions "immediately invalidates every session currently       *)
(* issued to subject": locking a user leaves no session of that user, if     *)
(* nothing fails.                                                            *)
LockingEndsEverySession ==
  [][\A u \in Users : (Exists(u) /\ ~users[u].locked /\ users'[u] # NoUser /\ users'[u].locked)
       => \A s \in Sids : sess'[s] # NoSession /\ s \notin spared' => sess'[s].user # u]_vars
=============================================================================
