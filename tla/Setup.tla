-------------------------------- MODULE Setup --------------------------------
(***************************************************************************)
(* First-time setup: the start of the process (cmd/core/main.go) with its    *)
(* encryption migration (db/migrate_encryption.go), the bootstrap-token gate *)
(* (internal/bootstrap), and the wizard steps and admin handlers that write  *)
(* the OIDC settings one key at a time (internal/setup, internal/adminapi).  *)
(* The process may die between any two statements and be started again.      *)
(***************************************************************************)
EXTENDS Integers, Sequences, FiniteSets, SequencesExt

CONSTANTS
  Requests,                    \* goroutines that serve requests
  Addrs,                       \* client addresses
  Users,                       \* rows of users from before the migration
  Feeds,                       \* rows of news_feeds from before it
  failuresBeforeGlobalPause,
  MaxStarts,                   \* bound: starts of the process
  MaxRequests                  \* bound: requests begun

ASSUME SetupAssumption ==
  /\ IsFiniteSet(Requests) /\ IsFiniteSet(Users) /\ IsFiniteSet(Feeds)
  /\ Users \cap {"issuer", "client"} = {}
  /\ failuresBeforeGlobalPause \in Nat \ {0}
  /\ MaxStarts \in Nat /\ MaxRequests \in Nat

OidcKeys == {"issuer", "client", "secret"}
Absent == -1

VARIABLES
  phase,     \* down, v1, v2, check or serving
  todo,      \* what the running migration has yet to encrypt
  version,   \* core_encryption_version, 0 when absent
  oidc,      \* layers of encryption of each OIDC key, or Absent
  user,      \* layers of encryption of each users row
  feed,      \* layers of encryption of each news_feeds row
  prefix,    \* the group prefix is set
  admin,     \* an admin has logged in
  gate,      \* the bootstrap.Manager
  req,       \* what each request is doing
  starts, begun,
  cut        \* history: a write of the OIDC keys was not finished alone

vars == <<phase, todo, version, oidc, user, feed, prefix, admin, gate, req, starts, begun, cut>>
stored == <<version, oidc, user, feed, prefix, admin>>

-----------------------------------------------------------------------------
Idle == [pc |-> "idle", kind |-> "none", addr |-> CHOOSE a \in Addrs : TRUE,
         good |-> FALSE, keys |-> << >>]

(* New: nothing is remembered of an earlier process.                         *)
NewGate == [completed |-> FALSE, paused |-> FALSE, globalFailures |-> 0,
            failures |-> [a \in Addrs |-> 0], wait |-> [a \in Addrs |-> FALSE]]

OIDCConfigured == oidc["issuer"] # Absent
WizardComplete == OIDCConfigured /\ prefix /\ admin

(* What ResolveOIDCConfig can use: each key decrypts to what was entered.    *)
Usable == \A k \in OidcKeys : oidc[k] = 1

Layers(S, n) == [x \in S |-> n]

(* An instance from before the migration or from between its two steps,      *)
(* configured or not.                                                        *)
Init ==
  /\ phase = "down" /\ todo = << >> /\ version \in {0, 1}
  /\ user = Layers(Users, version) /\ feed = Layers(Feeds, 0)
  /\ \/ /\ oidc = [k \in OidcKeys |-> IF k = "secret" THEN 1 ELSE version]
        /\ prefix = TRUE /\ admin = TRUE
     \/ /\ oidc = [k \in OidcKeys |-> Absent]
        /\ prefix = FALSE /\ admin = FALSE
  /\ gate = NewGate
  /\ req = [r \in Requests |-> Idle]
  /\ starts = 0 /\ begun = 0 /\ cut = FALSE

-----------------------------------------------------------------------------
(* The start of the process *)

(* main up to MigrateToEncryptedStorage, which picks up where the flag says. *)
Start ==
  /\ phase = "down" /\ starts < MaxStarts
  /\ starts' = starts + 1
  /\ gate' = NewGate
  /\ CASE version >= 2 -> phase' = "check" /\ todo' = << >>
       [] version = 1 -> phase' = "v2" /\ todo' = SetToSeq(Feeds)
       [] OTHER -> phase' = "v1" /\ todo' = SetToSeq(Users) \o <<"issuer", "client">>
  /\ UNCHANGED <<stored, req, begun, cut>>

(* One more layer of encryption, unless there is nothing to encrypt.         *)
Encrypt(n) == IF n = Absent THEN Absent ELSE n + 1

(* migrateEncryptionV1 encrypts each row and key as it finds it.             *)
migrateEncryptionV1 ==
  /\ phase = "v1" /\ todo # << >>
  /\ LET x == Head(todo)
     IN IF x \in Users
          THEN user' = [user EXCEPT ![x] = Encrypt(@)] /\ UNCHANGED oidc
          ELSE oidc' = [oidc EXCEPT ![x] = Encrypt(@)] /\ UNCHANGED user
  /\ todo' = Tail(todo)
  /\ UNCHANGED <<phase, version, feed, prefix, admin, gate, req, starts, begun, cut>>

MigratedV1 ==
  /\ phase = "v1" /\ todo = << >>
  /\ phase' = "v2" /\ todo' = SetToSeq(Feeds)
  /\ UNCHANGED <<stored, gate, req, starts, begun, cut>>

(* A row that decrypts has been encrypted already.                           *)
FeedEncryptedMutant(n) == Encrypt(n)

FeedEncrypted(n) == IF n >= 1 THEN n ELSE Encrypt(n)

migrateEncryptionV2NewsFeeds ==
  /\ phase = "v2" /\ todo # << >>
  /\ feed' = [feed EXCEPT ![Head(todo)] = FeedEncrypted(@)]
  /\ todo' = Tail(todo)
  /\ UNCHANGED <<phase, version, oidc, user, prefix, admin, gate, req, starts, begun, cut>>

SetVersionFlag ==
  /\ phase = "v2" /\ todo = << >>
  /\ version' = 2 /\ phase' = "check"
  /\ UNCHANGED <<todo, oidc, user, feed, prefix, admin, gate, req, starts, begun, cut>>

(* The gate stays shut over a restart when the settings say setup is done;   *)
(* otherwise a new token is logged.                                          *)
DecideGate ==
  /\ phase = "check"
  /\ gate' = [gate EXCEPT !.completed = WizardComplete]
  /\ phase' = "serving"
  /\ UNCHANGED <<todo, stored, req, starts, begun, cut>>

Writing(r) == req[r].kind \in {"configure", "update", "delete"} /\ req[r].pc = "run"
HalfWritten(r) == req[r].kind \in {"configure", "update"} /\ req[r].pc = "run"

Crash ==
  /\ phase # "down"
  /\ phase' = "down" /\ todo' = << >>
  /\ req' = [r \in Requests |-> Idle]
  /\ cut' = (cut \/ \E r \in Requests : HalfWritten(r))
  /\ UNCHANGED <<stored, gate, starts, begun>>

-----------------------------------------------------------------------------
(* The bootstrap gate *)

Goto(r, pc) == req' = [req EXCEPT ![r].pc = pc]
Done(r) == req' = [req EXCEPT ![r] = Idle]

Begin(r, q) ==
  /\ phase = "serving" /\ req[r] = Idle /\ begun < MaxRequests
  /\ req' = [req EXCEPT ![r] = q] /\ begun' = begun + 1

WizardKinds == {"configure", "prefix", "complete"}

(* Middleware looks at completed and paused, and lets go of the lock. (A     *)
(* request it turns away changes nothing.)                                   *)
Middleware(r, a, kind, good) ==
  /\ kind \in WizardKinds
  /\ ~gate.completed /\ ~gate.paused
  /\ Begin(r, [Idle EXCEPT !.pc = "gate", !.kind = kind, !.addr = a, !.good = good])
  /\ UNCHANGED <<phase, todo, stored, gate, starts, cut>>

(* It looks at the address's backoff and block, and lets go again.           *)
blockedFor(r) ==
  /\ req[r].pc = "gate"
  /\ IF gate.wait[req[r].addr] THEN Done(r) ELSE Goto(r, "token")
  /\ UNCHANGED <<phase, todo, stored, gate, starts, begun, cut>>

(* The backoff, or the block of an hour, of an address ends.                 *)
WaitOver(a) ==
  /\ gate.wait[a]
  /\ gate' = [gate EXCEPT !.wait[a] = FALSE]
  /\ UNCHANGED <<phase, todo, stored, req, starts, begun, cut>>

recordSuccess(a) == [gate EXCEPT !.failures[a] = 0, !.wait[a] = FALSE]

(* Every failure makes the address wait, the fifth and later ones an hour    *)
(* (time is not measured: a wait ends when WaitOver says); the pause counts  *)
(* all addresses together.                                                   *)
recordFailureMutant(a) ==
  [gate EXCEPT !.failures[a] = @ + 1, !.wait[a] = TRUE,
               !.globalFailures = @ + 1,
               !.paused = @ \/ gate.failures[a] + 1 >= failuresBeforeGlobalPause]

recordFailure(a) ==
  [gate EXCEPT !.failures[a] = @ + 1, !.wait[a] = TRUE,
               !.globalFailures = @ + 1,
               !.paused = @ \/ gate.globalFailures + 1 >= failuresBeforeGlobalPause]

oidcOrder == <<"issuer", "client", "secret">>
deleteOrderMutant == <<"secret", "client", "issuer">>

deleteOrder == <<"issuer", "client", "secret">>

Validate(r) ==
  /\ req[r].pc = "token"
  /\ IF req[r].good
       THEN /\ gate' = recordSuccess(req[r].addr)
            /\ req' = [req EXCEPT ![r].pc = "run", ![r].keys = oidcOrder]
            /\ cut' = (cut \/ (req[r].kind = "configure" /\ \E q \in Requests : Writing(q)))
       ELSE gate' = recordFailure(req[r].addr) /\ Done(r) /\ UNCHANGED cut
  /\ UNCHANGED <<phase, todo, stored, starts, begun>>

-----------------------------------------------------------------------------
(* The wizard's steps and the admin panel's *)

(* OIDCUpdateHandler: a secret left empty keeps the stored one, if any.      *)
OIDCUpdate(r, keep) ==
  /\ admin
  /\ Begin(r, [Idle EXCEPT !.pc = "run", !.kind = "update",
                           !.keys = IF keep THEN <<"issuer", "client">> ELSE oidcOrder])
  /\ cut' = (cut \/ (keep /\ oidc["secret"] = Absent) \/ \E q \in Requests : Writing(q))
  /\ UNCHANGED <<phase, todo, stored, gate, starts>>

OIDCDelete(r) ==
  /\ admin
  /\ Begin(r, [Idle EXCEPT !.pc = "run", !.kind = "delete", !.keys = deleteOrder])
  /\ cut' = (cut \/ \E q \in Requests : Writing(q))
  /\ UNCHANGED <<phase, todo, stored, gate, starts>>

(* One SetSetting or DeleteSetting.                                          *)
WriteKey(r) ==
  /\ Writing(r)
  /\ oidc' = [oidc EXCEPT ![Head(req[r].keys)] = IF req[r].kind = "delete" THEN Absent ELSE 1]
  /\ LET rest == Tail(req[r].keys)
     IN req' = [req EXCEPT ![r] = IF rest = << >> THEN Idle ELSE [@ EXCEPT !.keys = rest]]
  /\ UNCHANGED <<phase, todo, version, user, feed, prefix, admin, gate, starts, begun, cut>>

(* The client leaves: the request's context is cancelled and the next query  *)
(* fails, which ends the handler.                                            *)
Cancel(r) ==
  /\ req[r].pc \in {"run", "prefix"}
  /\ cut' = (cut \/ HalfWritten(r))
  /\ Done(r)
  /\ UNCHANGED <<phase, todo, stored, gate, starts, begun>>

GroupPrefixConfigure(r) ==
  /\ req[r].pc = "run" /\ req[r].kind = "prefix"
  /\ prefix' = TRUE /\ Done(r)
  /\ UNCHANGED <<phase, todo, version, oidc, user, feed, admin, gate, starts, begun, cut>>

(* CompleteHandler: missingSteps reads the settings one after the other, and *)
(* a step that is missing ends it.                                           *)
missingSteps(r) ==
  /\ req[r].pc = "run" /\ req[r].kind = "complete"
  /\ IF OIDCConfigured THEN Goto(r, "prefix") ELSE Done(r)
  /\ UNCHANGED <<phase, todo, stored, gate, starts, begun, cut>>

missingPrefix(r) ==
  /\ req[r].pc = "prefix"
  /\ IF prefix /\ admin THEN Goto(r, "complete") ELSE Done(r)
  /\ UNCHANGED <<phase, todo, stored, gate, starts, begun, cut>>

Complete(r) ==
  /\ req[r].pc = "complete"
  /\ gate' = [gate EXCEPT !.completed = TRUE]
  /\ Done(r)
  /\ UNCHANGED <<phase, todo, stored, starts, begun, cut>>

(* The first admin's login (AuthFlow): it needs the whole OIDC configuration *)
(* and the group prefix.                                                     *)
AdminLogin ==
  /\ phase = "serving" /\ ~admin
  /\ Usable /\ prefix
  /\ admin' = TRUE
  /\ UNCHANGED <<phase, todo, version, oidc, user, feed, prefix, gate, req, starts, begun, cut>>

-----------------------------------------------------------------------------
Boot == \/ Start \/ migrateEncryptionV1 \/ MigratedV1 \/ migrateEncryptionV2NewsFeeds
        \/ SetVersionFlag \/ DecideGate \/ Crash

Serve(r) ==
  \/ \E a \in Addrs, kind \in WizardKinds, good \in BOOLEAN : Middleware(r, a, kind, good)
  \/ blockedFor(r) \/ Validate(r)
  \/ \E keep \in BOOLEAN : OIDCUpdate(r, keep)
  \/ OIDCDelete(r) \/ WriteKey(r) \/ Cancel(r)
  \/ GroupPrefixConfigure(r)
  \/ missingSteps(r) \/ missingPrefix(r) \/ Complete(r)

Next ==
  \/ Boot
  \/ AdminLogin
  \/ \E a \in Addrs : WaitOver(a)
  \/ \E r \in Requests : Serve(r)

Spec == Init /\ [][Next]_vars

-----------------------------------------------------------------------------
(* Properties *)

(* However requests from several addresses interleave in Middleware, whose   *)
(* three looks at the Manager are three critical sections, one process       *)
(* answers at most this many wrong tokens before it is paused for good: the  *)
(* limit, and one for each other request already past the check.             *)
GuessesBounded ==
  gate.globalFailures <= failuresBeforeGlobalPause - 1 + Cardinality(Requests)

(* MigrateToEncryptedStorage, interrupted anywhere and run again: once the   *)
(* process serves, no users row or OIDC key is left in plaintext, and every  *)
(* feed's URL has exactly one layer.                                         *)
EncryptedWhenServing ==
  phase = "serving" =>
    /\ \A u \in Users : user[u] >= 1
    /\ \A k \in OidcKeys : oidc[k] # 0
    /\ \A f \in Feeds : feed[f] = 1

(* OIDCConfigured looks at the issuer alone. As long as every configure and  *)
(* update ran to its end by itself, that is enough: with the wizard closed,  *)
(* an issuer that is stored has its client id and secret beside it, also     *)
(* after a delete that stopped half-way.                                     *)
IssuerSpeaksForAll ==
  (gate.completed /\ ~cut /\ OIDCConfigured /\ \A r \in Requests : ~Writing(r))
    => \A k \in OidcKeys : oidc[k] # Absent

(* What the comment on Complete says: main closes the gate at startup only   *)
(* when the database has everything a finished wizard would have persisted.  *)
CompletedIsUsable ==
  (phase = "check" /\ WizardComplete) => \A k \in OidcKeys : oidc[k] # Absent
=============================================================================
