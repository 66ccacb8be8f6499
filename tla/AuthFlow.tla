------------------------------ MODULE AuthFlow ------------------------------
(***************************************************************************)
(* The requests of internal/auth that read and write several Valkey keys and *)
(* rows, one command at a time: logging in, using a session, logging out,    *)
(* revocation, approval, locking and deleting, and the revalidation worker.  *)
(* Module Sessions has each of them as one step, with time; here they        *)
(* overlap, and time (a TTL is months long) stands still.                    *)
(*                                                                           *)
(* A session's refresh token is named after the session. Tokens are fresh:   *)
(* a session identifier is used once.                                        *)
(***************************************************************************)
EXTENDS Integers, FiniteSets

CONSTANTS
  Users, Sids,
  Threads,       \* requests in progress, and the worker
  RoleAtIdP,     \* what DeriveRole makes of each user's groups claim
  Places,        \* countries (or devices) that a session may be used from
  NoRow, NoSession,
  MaxBegun       \* bound: operations begun

Roles == {"admin", "user", "pending"}
Rows == [role : Roles, approved : BOOLEAN, locked : BOOLEAN]
Stored == [user : Users, role : Roles, locked : BOOLEAN]

ASSUME FlowAssumption ==
  /\ RoleAtIdP \in [Users -> Roles]
  /\ MaxBegun \in Nat
  /\ NoRow \notin Rows \cup Users /\ NoSession \notin Stored \cup Sids

VARIABLES
  row,        \* the users table
  states,     \* oauthstate:{state} keys, each named after the session to be
  codes,      \* authorization codes the IdP has not redeemed yet
  sess,       \* session:{sid}
  index,      \* usersessions:{user}
  baseline,   \* sessioncountry:{sid}, sessiondevice:{sid}
  idp,        \* refresh tokens the IdP honours
  th,         \* the requests in progress
  used,       \* session identifiers that have been taken
  begun,
  reported,   \* history: the moves of sessions that were notified and audited
  visited,    \* history: the places of completed requests
  escaped,    \* history: sessions that a revocation could not see, or failed to end
  unlisted,   \* history: sessions whose index entry was lost
  crossed,    \* history: two removals have passed the guard together
  ended       \* history: how sessions were ended on purpose

vars == <<row, states, codes, sess, index, baseline, idp, th, used, begun,
          reported, visited, escaped, unlisted, crossed, ended>>
store == <<sess, index>>
login == <<states, codes, used>>
places == <<baseline, reported, visited>>
history == <<escaped, unlisted, crossed>>

-----------------------------------------------------------------------------
Idle == [op |-> "idle", pc |-> "idle", u |-> NoRow, s |-> NoSession, cp |-> NoSession, todo |-> {},
         found |-> FALSE, fresh |-> FALSE, at |-> "home"]

Active(r) == r # NoSession /\ r.role # "pending" /\ ~r.locked
Entitled(u) == row[u] # NoRow /\ row[u].approved /\ ~row[u].locked
Admins == {u \in Users : row[u] # NoRow /\ row[u].role = "admin"}
WizardComplete == Admins # {}

(* Some users were approved earlier, some of them have a session.            *)
Init ==
  /\ row \in [Users -> {NoRow} \cup {r \in Rows : r.role # "pending" /\ ~r.locked}]
  /\ \A u \in Users : row[u] # NoRow => row[u].role = RoleAtIdP[u]
  /\ Admins # {} => \E u \in Admins : row[u].approved
  /\ sess \in [Sids -> {NoSession} \cup {c \in Stored : ~c.locked}]
  /\ \A s \in Sids : sess[s] # NoSession =>
       /\ row[sess[s].user] # NoRow
       /\ sess[s].role = IF Entitled(sess[s].user) THEN row[sess[s].user].role ELSE "pending"
  /\ index = [u \in Users |-> {s \in Sids : sess[s] # NoSession /\ sess[s].user = u}]
  /\ idp = {s \in Sids : sess[s] # NoSession}
  /\ used = idp
  /\ states = {} /\ codes = {}
  /\ baseline = [s \in Sids |-> "none"]
  /\ th = [t \in Threads |-> Idle]
  /\ begun = 0
  /\ reported = {} /\ visited = {}
  /\ escaped = {} /\ unlisted = {} /\ crossed = FALSE /\ ended = [s \in Sids |-> "no"]

At(t, op, pc) == th[t].op = op /\ th[t].pc = pc
Goto(t, pc) == th' = [th EXCEPT ![t].pc = pc]
Done(t) == th' = [th EXCEPT ![t] = Idle]

Begin(t, r) ==
  /\ th[t] = Idle /\ begun < MaxBegun
  /\ begun' = begun + 1
  /\ th' = [th EXCEPT ![t] = r]

-----------------------------------------------------------------------------
(* Logging in *)

(* LoginHandler stores state, verifier and nonce; the user authenticates and *)
(* the IdP sends the browser back with a code.                               *)
LoginHandler(s) ==
  /\ s \notin used
  /\ used' = used \cup {s}
  /\ states' = states \cup {s} /\ codes' = codes \cup {s}
  /\ UNCHANGED <<row, store, idp, th, begun, places, history, ended>>

(* CallbackHandler, possibly for the second time with one state and code:    *)
(* GET of the state.                                                         *)
CallbackBegin(t, s) ==
  /\ s \in used
  /\ Begin(t, [Idle EXCEPT !.op = "callback", !.pc = "consume", !.s = s, !.found = (s \in states)])
  /\ UNCHANGED <<row, login, store, idp, places, history, ended>>

(* DEL of the state, found or not.                                           *)
CallbackConsume(t) ==
  /\ At(t, "callback", "consume")
  /\ states' = states \ {th[t].s}
  /\ IF th[t].found THEN Goto(t, "exchange") ELSE Done(t)
  /\ UNCHANGED <<row, codes, used, store, idp, begun, places, history, ended>>

(* Exchange: a code is good for once. Then the first gate, the groups.       *)
CallbackExchange(t, u) ==
  /\ At(t, "callback", "exchange")
  /\ codes' = codes \ {th[t].s}
  /\ IF th[t].s \in codes /\ RoleAtIdP[u] # "pending"
     THEN th' = [th EXCEPT ![t].pc = "approved", ![t].u = u]
     ELSE Done(t)
  /\ UNCHANGED <<row, states, used, store, idp, begun, places, history, ended>>

(* The second gate: WizardComplete and UserApproved ...                      *)
CallbackApproved(t) ==
  LET u == th[t].u
      approved == WizardComplete => row[u] # NoRow /\ row[u].approved
  IN /\ At(t, "callback", "approved")
     /\ th' = [th EXCEPT ![t].pc = IF WizardComplete THEN "locked" ELSE "upsert",
                         ![t].found = approved, ![t].fresh = approved,
                         ![t].cp = [user |-> u, locked |-> FALSE,
                                    role |-> IF approved THEN RoleAtIdP[u] ELSE "pending"]]
     /\ UNCHANGED <<row, login, store, idp, begun, places, history, ended>>

(* The lock of a user who is approved is not looked at.                      *)
CallbackLockedMutant(t) ==
  /\ At(t, "callback", "locked")
  /\ th' = [th EXCEPT ![t].pc = "upsert",
                      ![t].fresh = @ /\ ~(row[th[t].u] # NoRow /\ row[th[t].u].locked)]
  /\ UNCHANGED <<row, login, store, idp, begun, places, history, ended>>

(* ... and UserLocked. (fresh: both gates let the user in when asked.)       *)
CallbackLocked(t) ==
  LET u == th[t].u
      locked == row[u] # NoRow /\ row[u].locked
  IN /\ At(t, "callback", "locked")
     /\ th' = [th EXCEPT ![t].pc = "upsert", ![t].fresh = @ /\ ~locked,
                         ![t].cp = IF locked THEN [@ EXCEPT !.role = "pending", !.locked = TRUE]
                                   ELSE @]
     /\ UNCHANGED <<row, login, store, idp, begun, places, history, ended>>

(* UpsertUser: the row of a known user keeps its approval and its lock.      *)
CallbackUpsert(t) ==
  LET u == th[t].u
  IN /\ At(t, "callback", "upsert")
     /\ row' = [row EXCEPT ![u] =
                 IF @ # NoRow THEN [@ EXCEPT !.role = RoleAtIdP[u]]
                 ELSE [role |-> RoleAtIdP[u], approved |-> th[t].found, locked |-> FALSE]]
     /\ Goto(t, "store")
     /\ UNCHANGED <<login, store, idp, begun, places, history, ended>>

(* CreateSession: SET of the session with its refresh token. A login whose   *)
(* answers from the second gate are outdated is one that no gate can stop.   *)
CallbackStore(t) ==
  LET s == th[t].s
      late == Active(th[t].cp) /\ ~Entitled(th[t].u)
  IN /\ At(t, "callback", "store")
     /\ sess' = [sess EXCEPT ![s] = th[t].cp]
     /\ idp' = idp \cup {s}
     /\ escaped' = IF late /\ th[t].fresh THEN escaped \cup {s} ELSE escaped
     /\ Goto(t, "index")
     /\ UNCHANGED <<row, login, index, begun, places, unlisted, crossed, ended>>

(* SADD; then the cookie, the audit entry, the notification and the mails.   *)
CallbackIndex(t) ==
  /\ At(t, "callback", "index")
  /\ index' = [index EXCEPT ![th[t].u] = @ \cup {th[t].s}]
  /\ Done(t)
  /\ UNCHANGED <<row, login, sess, idp, begun, places, history, ended>>

(* The index first, then the session it names.                               *)
CreateMutant(t) ==
  \/ /\ At(t, "callback", "store")
     /\ index' = [index EXCEPT ![th[t].u] = @ \cup {th[t].s}]
     /\ Goto(t, "index")
     /\ UNCHANGED <<row, login, sess, idp, begun, places, history, ended>>
  \/ /\ At(t, "callback", "index")
     /\ sess' = [sess EXCEPT ![th[t].s] = th[t].cp]
     /\ idp' = idp \cup {th[t].s}
     /\ Done(t)
     /\ UNCHANGED <<row, login, index, begun, places, history, ended>>

CreateSession(t) == CallbackStore(t) \/ CallbackIndex(t)

-----------------------------------------------------------------------------
(* Using and ending one session *)

(* Any request with the session's cookie: validateSessionByID reads it.      *)
RequestBegin(t, s, at) ==
  /\ sess[s] # NoSession
  /\ Begin(t, [Idle EXCEPT !.op = "request", !.pc = "baseline", !.s = s, !.at = at])
  /\ UNCHANGED <<row, login, store, idp, places, history, ended>>

Baseline(s) == IF baseline[s] = "none" THEN "home" ELSE baseline[s]

(* What is remembered counts, the login's place does not.                    *)
AnomalyCheckMutant(t) ==
  /\ At(t, "request", "baseline")
  /\ reported' = IF baseline[th[t].s] \notin {"none", th[t].at}
                 THEN reported \cup {<<th[t].s, th[t].at>>} ELSE reported
  /\ Goto(t, "record")
  /\ UNCHANGED <<row, login, store, baseline, visited, idp, begun, history, ended>>

(* checkSessionCountryAnomaly and checkSessionDeviceAnomaly: compare with    *)
(* the place remembered last, or that of the login, and report a move.       *)
AnomalyCheck(t) ==
  LET moved == Baseline(th[t].s) # th[t].at
  IN /\ At(t, "request", "baseline")
     /\ reported' = IF moved THEN reported \cup {<<th[t].s, th[t].at>>} ELSE reported
     /\ IF moved THEN Goto(t, "record") /\ UNCHANGED visited
        ELSE Done(t) /\ visited' = visited \cup {<<th[t].s, th[t].at>>}
     /\ UNCHANGED <<row, login, store, baseline, idp, begun, history, ended>>

(* Then remember this one, whether or not the session is still there.        *)
AnomalyRecord(t) ==
  /\ At(t, "request", "record")
  /\ baseline' = [baseline EXCEPT ![th[t].s] = th[t].at]
  /\ visited' = visited \cup {<<th[t].s, th[t].at>>}
  /\ Done(t)
  /\ UNCHANGED <<row, login, store, reported, idp, begun, history, ended>>

(* LogoutHandler looks the stored session up under the token itself, where   *)
(* no key is, so that nothing is revoked at the IdP; then DeleteSession. The *)
(* index keeps the entry.                                                    *)
LogoutHandler(s) ==
  /\ begun < MaxBegun /\ begun' = begun + 1
  /\ sess[s] # NoSession
  /\ sess' = [sess EXCEPT ![s] = NoSession]
  /\ baseline' = [baseline EXCEPT ![s] = "none"]
  /\ ended' = [ended EXCEPT ![s] = "logout"]
  /\ UNCHANGED <<row, login, index, idp, th, reported, visited, history>>

(* RevokeSessionByID: GET, then the IdP, if it can be reached.               *)
RevokeBegin(t, s) ==
  /\ sess[s] # NoSession
  /\ Begin(t, [Idle EXCEPT !.op = "revoke", !.pc = "del", !.s = s, !.cp = sess[s]])
  /\ idp' \in {idp, idp \ {s}}
  /\ UNCHANGED <<row, login, store, places, history, ended>>

Admin(s) == Active(sess[s]) /\ sess[s].role = "admin"

(* An admin may end any session.                                             *)
revokeSessionHandler(t, a, s) == Admin(a) /\ RevokeBegin(t, s)

(* A user may end what the index lists as theirs.                            *)
RevokeMySessionHandler(t, a, s) ==
  /\ Active(sess[a]) /\ sess[s] # NoSession
  /\ s \in index[sess[a].user] /\ sess[s].user = sess[a].user
  /\ RevokeBegin(t, s)

RevokeDel(t) ==
  /\ At(t, "revoke", "del")
  /\ sess' = [sess EXCEPT ![th[t].s] = NoSession]
  /\ baseline' = [baseline EXCEPT ![th[t].s] = "none"]
  /\ ended' = [ended EXCEPT ![th[t].s] = "revoke"]
  /\ Goto(t, "unindex")
  /\ UNCHANGED <<row, login, index, idp, begun, reported, visited, history>>

RevokeUnindex(t) ==
  /\ At(t, "revoke", "unindex")
  /\ index' = [index EXCEPT ![th[t].cp.user] = @ \ {th[t].s}]
  /\ Done(t)
  /\ UNCHANGED <<row, login, sess, idp, begun, places, history, ended>>

(* RevalidateSession: GET, the IdP's answer; a refusal and an IdP that       *)
(* cannot be reached are the same to it.                                     *)
RevalidateBegin(t, s) ==
  /\ sess[s] # NoSession
  /\ \/ Begin(t, [Idle EXCEPT !.op = "revoke", !.pc = "del", !.s = s, !.cp = sess[s]])
     \/ /\ s \in idp
        /\ Begin(t, [Idle EXCEPT !.op = "revalidate", !.pc = "set", !.s = s, !.cp = sess[s]])
  /\ UNCHANGED <<row, login, store, idp, places, history, ended>>

(* Writing what was read earlier back revives a session that has gone.       *)
WriteBack(s, r) ==
  /\ sess' = [sess EXCEPT ![s] = r]
  /\ escaped' = IF sess[s] = NoSession \/ (Active(r) /\ ~Entitled(r.user)
                                             /\ ~Active(sess[s]))
                THEN escaped \cup {s} ELSE escaped
  /\ unlisted' = IF sess[s] = NoSession THEN unlisted \cup {s} ELSE unlisted

RevalidateSet(t) ==
  /\ At(t, "revalidate", "set")
  /\ WriteBack(th[t].s, th[t].cp)
  /\ Done(t)
  /\ UNCHANGED <<row, login, index, idp, begun, places, crossed, ended>>

-----------------------------------------------------------------------------
(* Administration *)

(* ListActiveSessionsForUser: SMEMBERS, then a GET of each; entries without  *)
(* a session are removed.                                                    *)
ListBegin(t, s) ==
  /\ Active(sess[s])
  /\ Begin(t, [Idle EXCEPT !.op = "list", !.pc = "get", !.u = sess[s].user,
                           !.todo = index[sess[s].user]])
  /\ UNCHANGED <<row, login, store, idp, places, history, ended>>

ListGet(t, s) ==
  /\ At(t, "list", "get") /\ s \in th[t].todo
  /\ th' = IF sess[s] = NoSession THEN [th EXCEPT ![t].pc = "prune", ![t].s = s]
           ELSE [th EXCEPT ![t].todo = @ \ {s}]
  /\ UNCHANGED <<row, login, store, idp, begun, places, history, ended>>

(* UpdateSessionsRole removes such entries in the same way.                  *)
Prune(t) ==
  /\ th[t].op \in {"list", "approve"} /\ th[t].pc = "prune"
  /\ index' = [index EXCEPT ![th[t].u] = @ \ {th[t].s}]
  /\ th' = [th EXCEPT ![t].pc = "get", ![t].todo = @ \ {th[t].s}]
  /\ UNCHANGED <<row, login, sess, idp, begun, places, history, ended>>

Finish(t) ==
  /\ th[t].op \in {"list", "approve"} /\ th[t].pc = "get" /\ th[t].todo = {}
  /\ Done(t)
  /\ UNCHANGED <<row, login, store, idp, begun, places, history, ended>>

(* ApproveUserHandler: the row, then UpdateSessionsRole with its role.       *)
ApproveBegin(t, a, u) ==
  /\ Admin(a) /\ row[u] # NoRow
  /\ row' = [row EXCEPT ![u].approved = TRUE]
  /\ Begin(t, [Idle EXCEPT !.op = "approve", !.pc = "members", !.u = u])
  /\ UNCHANGED <<login, store, idp, places, history, ended>>

ApproveMembers(t) ==
  /\ At(t, "approve", "members")
  /\ IF row[th[t].u] = NoRow THEN Done(t)
     ELSE th' = [th EXCEPT ![t].pc = "get", ![t].todo = index[th[t].u]]
  /\ UNCHANGED <<row, login, store, idp, begun, places, history, ended>>

ApproveGet(t, s) ==
  /\ At(t, "approve", "get") /\ s \in th[t].todo
  /\ th' = [th EXCEPT ![t].s = s, ![t].cp = sess[s],
                      ![t].pc = IF sess[s] = NoSession THEN "prune" ELSE "set"]
  /\ UNCHANGED <<row, login, store, idp, begun, places, history, ended>>

ApproveSet(t) ==
  /\ At(t, "approve", "set")
  /\ WriteBack(th[t].s, [th[t].cp EXCEPT !.role = RoleAtIdP[th[t].u], !.locked = FALSE])
  /\ th' = [th EXCEPT ![t].pc = "get", ![t].todo = @ \ {th[t].s}]
  /\ UNCHANGED <<row, login, index, idp, begun, places, crossed, ended>>

UnlockUser(a, u) ==
  /\ begun < MaxBegun /\ begun' = begun + 1
  /\ Admin(a) /\ row[u] # NoRow
  /\ row' = [row EXCEPT ![u].locked = FALSE]
  /\ UNCHANGED <<login, store, idp, th, places, history, ended>>

(* The users are counted instead of the admins.                              *)
guardMutant(u) == u \in Admins /\ Cardinality(Users) <= 1

guardAgainstLastAdmin(u) == u \in Admins /\ Cardinality(Admins) <= 1

(* LockUserHandler, DeleteUserHandler and DeleteSelfHandler: the guard ...   *)
RemoveBegin(t, a, u, op) ==
  /\ op \in {"lock", "delete"}
  /\ \/ Admin(a) /\ u # sess[a].user
     \/ op = "delete" /\ sess[a] # NoSession /\ u = sess[a].user
  /\ ~guardAgainstLastAdmin(u)
  /\ Begin(t, [Idle EXCEPT !.op = op, !.pc = "row", !.u = u])
  /\ crossed' = (crossed \/ \E t2 \in Threads : th[t2].op \in {"lock", "delete"} /\ th[t2].pc = "row")
  /\ UNCHANGED <<row, login, store, idp, places, escaped, unlisted, ended>>

Removed(op, r) == IF op = "lock" THEN [r EXCEPT !.locked = TRUE] ELSE NoRow

(* ... the row ...                                                           *)
RemoveRow(t) ==
  LET u == th[t].u
  IN /\ th[t].op \in {"lock", "delete"} /\ th[t].pc = "row"
     /\ IF row[u] = NoRow THEN Done(t) /\ UNCHANGED row
        ELSE row' = [row EXCEPT ![u] = Removed(th[t].op, @)] /\ Goto(t, "members")
     /\ UNCHANGED <<login, store, idp, begun, places, history, ended>>

Indexing(u) == {th[t].s : t \in {t \in Threads : At(t, "callback", "index") /\ th[t].u = u}}

(* ... and RevokeUserSessions: SMEMBERS, the IdP told of each, if it can ...  *)
RevokeMembers(t) ==
  LET u == th[t].u
  IN /\ th[t].op \in {"lock", "delete"} /\ th[t].pc = "members"
     /\ th' = [th EXCEPT ![t].pc = "del", ![t].todo = index[u]]
     /\ \E gone \in SUBSET index[u] : idp' = idp \ gone
     /\ escaped' = escaped \cup Indexing(u)
     /\ UNCHANGED <<row, login, store, begun, places, unlisted, crossed, ended>>

(* ... a DEL of each ...                                                     *)
RevokeUserDel(t, s) ==
  /\ th[t].op \in {"lock", "delete"} /\ th[t].pc = "del" /\ s \in th[t].todo
  /\ sess' = [sess EXCEPT ![s] = NoSession]
  /\ baseline' = [baseline EXCEPT ![s] = "none"]
  /\ ended' = [ended EXCEPT ![s] = "revoke"]
  /\ th' = [th EXCEPT ![t].todo = @ \ {s}]
  /\ UNCHANGED <<row, login, index, idp, begun, reported, visited, history>>

(* ... and a DEL of the index, with the entries it has by now.               *)
RevokeIndex(t) ==
  LET u == th[t].u
      lost == {s \in index[u] : sess[s] # NoSession}
  IN /\ th[t].op \in {"lock", "delete"} /\ th[t].pc = "del" /\ th[t].todo = {}
     /\ index' = [index EXCEPT ![u] = {}]
     /\ escaped' = escaped \cup lost
     /\ unlisted' = unlisted \cup lost
     /\ Done(t)
     /\ UNCHANGED <<row, login, sess, idp, begun, places, crossed, ended>>

(* Any command of a revocation may fail, or its request be over: the error   *)
(* is logged and the handler answers success. "An already-open session       *)
(* survives until it naturally expires" (admin.go).                          *)
RevokeFails(t) ==
  /\ th[t].op \in {"lock", "delete"} /\ th[t].pc \in {"members", "del"}
  /\ escaped' = escaped \cup {s \in Sids : sess[s] # NoSession /\ sess[s].user = th[t].u}
  /\ Done(t)
  /\ UNCHANGED <<row, login, store, idp, begun, places, unlisted, crossed, ended>>

(* The sessions first, then the row.                                         *)
RemoveMutant(t) ==
  LET u == th[t].u
  IN \/ /\ th[t].op \in {"lock", "delete"} /\ th[t].pc = "row"
        /\ th' = [th EXCEPT ![t].pc = "members", ![t].todo = index[u]]
        /\ sess' = [s \in Sids |-> IF s \in index[u] THEN NoSession ELSE sess[s]]
        /\ index' = [index EXCEPT ![u] = {}]
        /\ escaped' = escaped \cup Indexing(u)
        /\ UNCHANGED <<row, login, idp, begun, places, unlisted, crossed, ended>>
     \/ /\ th[t].op \in {"lock", "delete"} /\ th[t].pc = "members"
        /\ row' = [row EXCEPT ![u] = IF @ = NoRow THEN @ ELSE Removed(th[t].op, @)]
        /\ Done(t)
        /\ UNCHANGED <<login, store, idp, begun, places, history, ended>>

Remove(t) ==
  \/ RemoveRow(t) \/ RevokeMembers(t) \/ RevokeIndex(t) \/ RevokeFails(t)
  \/ \E s \in Sids : RevokeUserDel(t, s)

-----------------------------------------------------------------------------
Next ==
  \/ \E s \in Sids : LoginHandler(s) \/ LogoutHandler(s)
  \/ \E a \in Sids, u \in Users : UnlockUser(a, u)
  \/ \E t \in Threads :
       \/ \E s \in Sids : CallbackBegin(t, s) \/ RevalidateBegin(t, s) \/ ListBegin(t, s)
                          \/ ListGet(t, s) \/ ApproveGet(t, s)
       \/ \E u \in Users : CallbackExchange(t, u)
       \/ CallbackConsume(t) \/ CallbackApproved(t) \/ CallbackLocked(t)
       \/ CallbackUpsert(t) \/ CreateSession(t)
       \/ \E s \in Sids, at \in Places : RequestBegin(t, s, at)
       \/ AnomalyCheck(t) \/ AnomalyRecord(t)
       \/ \E a, s \in Sids : revokeSessionHandler(t, a, s) \/ RevokeMySessionHandler(t, a, s)
       \/ RevokeDel(t) \/ RevokeUnindex(t) \/ RevalidateSet(t)
       \/ Prune(t) \/ Finish(t) \/ ApproveMembers(t) \/ ApproveSet(t)
       \/ \E a \in Sids, u \in Users :
            \/ ApproveBegin(t, a, u)
            \/ \E op \in {"lock", "delete"} : RemoveBegin(t, a, u, op)
       \/ Remove(t)

Spec == Init /\ [][Next]_vars

-----------------------------------------------------------------------------
(* Properties *)

Removing(u) == \E t \in Threads : th[t].op \in {"lock", "delete"} /\ th[t].u = u /\ th[t].pc # "row"
Live(s) == sess[s] # NoSession

(* However requests overlap, locking, deleting or not approving a user keeps *)
(* the user out: an active session belongs to an entitled user, or the       *)
(* revocation is still running, or the session went through one of the       *)
(* windows that the handlers leave open (a gate answer outdated by the time  *)
(* the session is stored, SMEMBERS between the SET and the SADD of a login,  *)
(* an index entry deleted unseen, a copy written back, a revocation that     *)
(* failed, whose error is only logged).                                      *)
EntitledOrEscaped ==
  \A s \in Sids : (Active(sess[s]) /\ s \notin escaped) =>
    Entitled(sess[s].user) \/ Removing(sess[s].user)

(* A live session stays in its user's index, whatever prunes the index at    *)
(* the same time: only a revocation that deletes an index it has not read to *)
(* the end, and a copy written back, leave one out.                          *)
ListedOrLost ==
  \A s \in Sids : (Live(s) /\ s \notin unlisted) =>
    s \in index[sess[s].user] \cup Indexing(sess[s].user)

(* No move of a session goes unnoticed: once a request from another place    *)
(* than the login's has been answered, that place has been reported, however *)
(* requests from both places interleave.                                     *)
MovesAreReported ==
  \A s \in Sids, p \in Places : (p # "home" /\ <<s, p>> \in visited) => <<s, p>> \in reported

(* The guard does its work: as long as no two removals pass it together, an  *)
(* instance that has an admin keeps one, though the count is taken before    *)
(* the row goes and logins change the table in between.                      *)
AdminStays == [][Admins # {} => (Admins' # {} \/ crossed)]_vars

(* "Also invalidate this session's refresh token at the IdP itself": the     *)
(* refresh token of a session that the user ended is not honoured any more.  *)
LogoutRevokesAtIdP == \A s \in Sids : ended[s] = "logout" => s \notin idp
=============================================================================
