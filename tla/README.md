# Verification of modulab-core

TLA+ models of modulab-core (Go backend under `src/backend`, React frontend
under `src/frontend`), TLC runs on small instances and TLAPS proofs for every
instance. Every definition is translated from the source lines that
`PROJECT.json` ("map") names.

## 1. The system and its parts

modulab-core is a self-hosted portal: users log in through an OIDC provider,
admins approve and lock them, modules are installed from a store and run as Deno
subprocesses, and security-relevant actions go to a hash-chained audit log.
Persistent state is in PostgreSQL and Valkey, process state in Go maps, mutexes
and channels.

| Part | State | Operations | Hard because |
|---|---|---|---|
| Connection pool of a worker (`modules/deno.go`) | channel `connPool`, `numConns`, `stopping` | `dispatch`, `getConn`, `releaseConn`, `roundTrip`, `stop` | many goroutines, error paths that must each free one slot, blocking select, kill at any time |
| Worker pool (`modules/deno.go`, its callers) | `workers` map, `startMu`, processes, the module's row | `Start`, `Stop`, `StopAll`, `ReloadEgress`, crash handler, install/restart/uninstall | slow start outside the lock, crashes, callers that do not know of each other |
| Module lifecycle (`modules/installer.go`, `updater.go`, `migrations.go`, `handlers.go`) | row, files, schema, cached ZIP | install, update, rollback, restart, uninstall | failure between any two steps, no lock per module |
| Module store (`internal/store`, `modules/status.go`) | `custom_sources`, `module_registry`, marks of the update check | sync, prune, update check, auto-update, pin, add and remove a source | sources that fail one by one, syncs that overlap each other and admins |
| Audit log (`audit/audit.go`) | table `audit_log`, id sequence, advisory lock | `Log`, `List`, `Verify` | concurrent transactions, ids before commits, two HMAC formulas over joined columns, scan limits |
| Audit page (`AdminAuditPage.tsx`) | entries, cursor, request counter, the box that hides store syncs | `runQuery`, `loadMore` | responses out of order while the log grows, rows that are loaded and not shown |
| Accounts and sessions (`internal/auth`, `db/users.go`) | `users` rows, six families of Valkey keys, refresh tokens at the IdP | login, requests, logout, revocation, admin actions, revalidation, anomaly checks | several keys with their own TTL, data copied into sessions, many actors |
| Setup and start (`internal/setup`, `internal/bootstrap`, `db/migrate_encryption.go`) | `core_settings`, the gate, layers of encryption | start, migration, wizard steps, OIDC update and delete | settings written key by key, three critical sections per request, death anywhere |
| GeoIP databases (`internal/geoip`) | settings, files, open readers | configure, delete, download, lookup | files replaced under readers, status in separate statements |
| Mail queue (`internal/mail`) | Valkey list, SMTP settings | enqueue, worker, save settings | settings written and read key by key, crash between pop and send |
| Rate limiting (`main.go`) | counter with a window, limit | hit, expiry, change of the limit | who announces the trip |
| Scheduled jobs (`modules/jobs.go`) | cron ticks, running map | `tick`, `dispatchJob` | overlap, keys that are never freed |
| Core update check (`internal/coreupdate`) | two settings | `CheckNow` | announce, then record |
| News (`internal/news`) | feeds, subscriptions, cache | read, add, import, change, delete | cache against a changed row, a semaphore for all feeds |
| Quick links (`internal/quicklinks`, `QuickLinksGrid.tsx`) | three tables, the grid | list, drag, add, delete | requests sent without waiting |
| Request router, SSE, search, AI, weather, NTP, TLS check | connections | proxies and I/O | not modelled, see section 7 |

They meet in these places: HTTP handlers call the worker pool, which calls back
into `main.go` on a crash, which writes the module's row; `Dispatch` reads the
worker map and then uses a connection pool that may be stopped meanwhile;
scheduled jobs go through the same pool with a deadline; every admin action
calls `audit.Log`; locks, deletions and approvals change the users table and
then the session keys of Valkey, one command after the other; the update check
follows every store sync and reads what installs and updates write; the setup
gate reopens or stays shut by what the wizard and the admins have stored.

What makes each part correct, and what could go wrong in a way no test would
reach, is the list "hazards" of `PROJECT.json`, each at its line.

## 2. Modules

| Module | Models | One step is |
|---|---|---|
| `ConnPool` | one worker's connection pool | a critical section of `w.mu` or a channel operation |
| `WorkerPool` | all workers, the operations on them, crashes | a critical section of `p.mu`; `startMu` held across steps |
| `AtomicLog` | what `audit.Log` promises (abstract) | one appended row |
| `AuditLog` | `Log` transactions, implementing `AtomicLog`; `Verify` as an operator | one SQL statement |
| `AuditPage` (extends `AuditLog`) | `List`'s scan loop behind the admin page | one query, one response |
| `Sessions` | accounts and sessions over time | one request |
| `AuthFlow` | the same requests overlapping, with the IdP and the anomaly checks | one Valkey command or SQL statement |
| `Lifecycle` | one module's row, directories, schema, rollback ZIP and worker | one call on the database or the file system |
| `Catalogue` | store syncs, update checks, custom sources, pins | one query or one answer of a source |
| `Setup` | start, encryption migration, bootstrap gate, wizard | one setting, one row, one critical section |
| `GeoIP` | configuration, downloads, readers, lookups | one setting or file operation |
| `Mail`, `Limiter`, `Jobs`, `CoreUpdate`, `News`, `QuickLinks` | the component of that name | one command of Valkey, the database or the map |
| `Services` (extends those six) | them in one process that dies and is restarted | a step of one of them |
| `MC*` | instances for TLC | |
| `*Proofs` | theorems about the module of that name (`AuditLogProofs` also about `AuditPage`, `ServicesProofs` about those in `Services`, `Catalogue` and `GeoIP`) | |

**ConnPool.** `pc` is the place of each `dispatch` call: `get` (first select),
`lock` (the critical section), `dial`, `undial`, `select`/`wait` (second select,
about to block and blocked), `write`/`read` (`roundTrip`), `free`
(`releaseConn(nil)`), `put` (`releaseConn(conn)`). As in Go's channels, a send
with a blocked receiver hands the connection over (`PutHandoff`), otherwise it is
buffered (`Put`). `wire` holds the requests whose response has not been read: it
is what a reused connection could get wrong. The channel is a set, for which of
the idle connections is received first is irrelevant to the properties.

**WorkerPool.** A `denoWorker` with its process is a `proc`: alive, dying,
killed or crashed, with the `stopping` flag and the state of the goroutine
that waits for its exit. `stop()` only cancels the command's context: the process
dies some time later (`Die`), and the next worker may be spawned before that. Operations are goroutines that run an install, a
restart, an egress reload or an uninstall, through the places of `Start`. A
worker that is stopped and whose goroutine has ended is forgotten, so that a
small set of identities is enough.

**AuditLog.** PostgreSQL at READ COMMITTED: ids from a sequence that rollbacks do
not return, rows visible at commit, the advisory lock held to the end of the
transaction. The HMAC is a collision-free function of the text that is fed to it,
which is the columns joined with `|`; a `|` within a column is not escaped. A text
is the sequence of the words between the `|`, so that a subject or an address
(`Targets`) may be several words, and different rows may have the same text. The
hash of a row is the sequence of the texts chained into it. `LegacyRows` rows
carry the older formula, which leaves the ciphertexts out; `Verify` accepts
either for any row. `event`, `target` and `cipher` stand for all columns of their
kind.

**AuditPage.** An admin's page with its two kinds of requests. `PatientAdmin`
says that filters stay alone while "load more" is loading. Store syncs are hidden
until the admin unticks a box (`hideSyncNoise`), and the button for older entries
is drawn only below a visible entry (`Offered`).

**Sessions.** One request is one step. Relative time: a session has an age, keys have the time they still
live, `Tick` is one unit. A revocation may be cut off at any of its commands, as
its callers log the error and go on. `rewritten`, `unguarded` and `spared` are
history variables: the sessions `UpdateSessionsRole` has rewritten, those begun
while no admin existed, and those a failed revocation has left. They mark, in the
properties, what the code does not guarantee.

**Lifecycle.** `op` is the operation each goroutine runs: its kind, its place
(`pc`) in `Install`, `Update`, `Uninstall` or the restart handler, the versions
it goes between, the ZIP it can roll back to, and whether its context is still
alive (`live`: after `Cancel` every database call of that operation fails, and
most errors are ignored or logged). `dirs` holds `{name}`, `{name}.new-V` and
`{name}.old-V`, each with the version copied into it last (none after a copy
that broke off) and the files in `storage/uploads`; `schema` holds the migration
files whose SQL is committed, `recorded` those listed in `module_migrations`.
`InstallManual` and `UpdateManual` are the same steps with `source` manual.
With `DiskFails`, copies, renames and removals may fail, also half-way; a kill
of Core within such a call is a half-way failure followed by `CoreRestart`. An
upload's directory and its file appear in one step; a module without a handler
is not distinguished, nor is a ZIP that carries its own `storage` directory.
`stored` and `upset` are history: the uploads that were written and not removed by an uninstall,
and what has happened that the code does not repair: an upload between two
moves ("upload"), a storage move that failed ("disk"), a rollback ZIP truncated
by a later download ("zip"), an ended context ("cancel"), a kill ("crash"),
two operations at once ("overlap"), and a restart, rollback or crash handler
that overwrote the status of a failure ("revived"). Each property names the
ones it needs to exclude; TLC finds a counterexample when one of them is left
out, so the list is also a record of what the code does not protect against.

**AtomicLog.** `rows` grows by one row that links to the newest. `AuditLog`
instantiates it with the committed rows: lock, read of the tip, insert and
rollback are stutters, and the commit is `AppendRow`. That a reader never sees a
lower id appear late, which `List`'s cursor relies on, is part of it.

**AuthFlow.** `th` is what each request (or the revalidation worker) is doing:
its operation, its place between two commands, and what it has read. The session
token, its digest and its refresh token share a name. Time stands still; TTLs are
`Sessions`' part. The windows the handlers leave open are history variables:
`escaped` (a session a revocation could not see, or that a failed one left), `unlisted` (a session whose
index entry was lost), `crossed` (two removals that passed the last-admin guard
together). The properties say that there are no other windows. Because a session
may escape, `AuthFlow` does not implement `Sessions`, and no refinement between
the two is claimed.

**Catalogue.** `sync` holds for each sync what its sources have answered and what
is left to write; `edit` is the admin's request between two statements. `calm`
marks a sync nobody has disturbed and no write of which has failed. Which version
a source lists is decided when it is written, for nothing looks at it earlier. An
entry of a monorepo's `registry.json` takes its repository from `release_url`;
here it is the custom source's.

**Setup.** `oidc`, `user` and `feed` count layers of encryption, 0 for plaintext.
A request is a `kind` with a place and the keys it has yet to write. `cut` is
history: a write of the OIDC keys that ended early, overlapped another or started
without a secret. Waiting times of the gate are not measured: a wait ends when
`WaitOver` says.

**GeoIP.** Files are inodes: `os.Create` truncates the one a path names,
`os.Rename` moves it, and whoever has it open keeps it. `overlapped` is history: two
downloads at once, which share their temporary file; nothing is claimed then.

**Services.** The six background components share nothing but the process, so
`part` picks one per behaviour, and `Crash` and `Restart` apply to each at every
point rather than to their product. `moved`, `misread`, `lost`, `uncounted`
(limiter), `faults`, `mixed` (update check), `loose` and the worker's `torn`
(mail), `late` (news) and `muddled` (quick links) are history that marks what the
code leaves open: a limit changed or misread within its window, a trip whose
message was lost, requests let through uncounted, reads and writes of the
notified version that failed and checks that overlapped, configurations written
or read in pieces, and requests of the grid that overtook each other.

## 3. Runs

| Run | Shows |
|---|---|
| `connpool` | `SlotsAccounted`, `OwnResponse`, and `DeadlinedReturns`: a call with a deadline always returns. Three calls on two slots: one more call than slots, so that blocking, hand-over and both error paths meet. |
| `workerpool` | `NoLeakedProcess`, `OneUnstoppedProcess`, `OnlyCrashesReported`, and `OperationsEnd`. Two operations on one module and two processes, one of which may be dying while the next one boots (a start waits at most for an identity, which a process that is told to stop gives back; the theorems prove the invariants for any number of them); modules share nothing but `p.mu`, whose critical sections are atomic here. |
| `audit` | `ChainLinked`, `VerifyAcceptsLog`, `VerifyDetectsDamage`, `GapFreeWindow`, `EndMeansEnd`, and the refinement `ImplementsAtomicLog`. Two writers, two legacy rows, ids up to 4, two events, one of them the store sync; pages of one entry, batches of two, a cap of three: every loop exit of `List` happens, and a page of hidden rows alone. Subjects with and without a separator in them, for columns that can be told apart only by where they are split; the page, which looks at ids and events, is explored over the plain ones (the constraint `PlainWhenRead`). |
| `sessions` | `IndexCoversSessions`, `ActiveSessionsAreEntitled`, `BoundedLife`. Two users, two sessions, TTL and maximal age 2. |
| `authflow` | `EntitledOrEscaped`, `ListedOrLost`, `MovesAreReported`, `AdminStays`. Three users, two of them admins at the IdP, two sessions, two requests at a time and three in all: each pair of operations overlaps at every command, after or before a third. |
| `lifecycle` | `UploadsKept`, `RecordedIsApplied`, `ActiveIsConsistent`, `CodeRecoverable`, `NoStuckInstall`. Two releases that differ in tier and migrations, two uploads, one operation at a time, three events (operations, ended contexts, crashes of the worker, kills): enough for an update that fails, is rolled back or killed, and a second operation on what it left. Overlapping operations are the theorems' part. |
| `lifecycle_uploads` (violation) | an upload during the swap of an update makes the update delete all earlier uploads |
| `catalogue` | `CatalogueMatches`, `BadgesMatch`. One module that the official, the community and one custom source list in two versions, two keys, two syncs at a time, two edits. Modules are synced independently, so one is enough for what is about entries. |
| `catalogue_outage` (violation) | a repository added twice makes a sync that nobody answered delete the cache; the instance differs in `MaxRows` 2 |
| `setup` | `GuessesBounded`, `EncryptedWhenServing`, `IssuerSpeaksForAll`. Two requests from two addresses, a pause after three failures, three starts: a migration that is cut off twice, and a gate that two requests pass together. |
| `geoip` | `WholeFiles`, `LookupIsFresh`, `StatusTellsTruth`. The scheduler and one admin, two editions, four inodes, two releases: a replacement while the old file is open, and one edition that fails. Behaviours in which downloads overlap are cut off by the constraint `NotOverlapped`, for the properties exempt them. |
| `services` | `SendsAsConfigured`, `OneToastPerTrip`, `AnnouncedOnce`, `CacheSpeaksForRow`, `ReloadShowsGrid`, and the liveness properties `JobKeyFreed` and `NewsIsAnswered`. Several actors or changes of every kind (a message against two saves after the first, two clients, two invocations of two jobs, two checkers, two editors against a reader with one place in the semaphore), and one crash. |

`audit`, `authflow`, `setup`, `services` and `catalogue` do not check deadlock, since their
bounds end behaviours and a real instance may be idle; the other runs check it.
Named bounds: `MaxId` (ids given out), `AgeCap` (ages beyond which sessions are
not told apart), one "load more" at a time (`loadMore`), `Procs` and `Inodes`
(identities in use), `MaxEvents` (operations begun, contexts ended, crashes, and
kills during an operation), `MaxBegun`, `MaxOps`, `MaxRelease`, `MaxStarts`,
`MaxRequests`, `MaxListed`, `MaxRows`, `MaxEdits`, `MaxSyncs`, and those of
`MCServices.cfg`, each commented where it is declared.

These configurations are not runs of `PROJECT.json`. The first passes; in each of
the others TLC finds the property violated, and the trace shows a weakness that
section 5 describes.

| Configuration | Property |
|---|---|
| `MCServicesMore` | with two messages: `InOrderAtMostOnce`, `JobsDoNotOverlap`, `ImportsAreNew` hold |
| `MCConnPoolBlocked` | `BlockedCallResumes` |
| `MCWorkerPoolOrphan` | `NoWorkerWithoutRow` |
| `MCAuditPageImpatient` | `ShownMatchesFilter` |
| `MCSessionsUnindexed` | `LockingEndsEverySession` |
| `MCLifecycleStale` | `WorkerRunsInstalledCode` |
| `MCGeoIPReader` | `ReadsOpenReader` |
| `MCAuthFlowLogout` | `LogoutRevokesAtIdP` |
| `MCSetupUsable` | `CompletedIsUsable` |

**Fairness.** In `ConnPool` a goroutine that can run does run, a round trip ends
because `roundTrip` always sets a deadline, and a context with a deadline ends.
Clients need not leave, processes need not die and nobody has to call `stop`. In
`WorkerPool` the steps of an operation are weakly fair, a SIGKILL is delivered, and
taking `startMu` is strongly fair, since a Go mutex in starvation mode is handed to
the longest waiter. In `Services` a job's dispatch ends (it has the deadline that `ConnPool`'s
`DeadlinedReturns` is about), a fetch ends by its HTTP client's timeout, so both
goroutines go on, and the supervisor restarts a process that died; nobody has to
visit, edit or crash. The other modules make safety claims only.

Every property of a passing run has a mutant: a plausible mistake in the modelled
code (a dropped lock, a missing decrement, an off-by-one in a cursor) with which
TLC finds it violated.

## 4. Proofs

TLAPS proves the following for every value of the constants; the assumptions are
those named in the modules (sentinels are distinct, sets are finite where they
are counted, bounds are natural numbers), and TLC evaluates them in the runs.

* `ConnPoolProofs`: all safety invariants of `connpool`, and `RoomToRelease` and
  `ConnsExclusive`. The inductive invariant adds to the exact count of slots that
  a call has a connection exactly at the places `ConnPCs`, and that a pooled or
  just opened connection has nothing outstanding on its wire; neither
  `SlotsAccounted` nor `OwnResponse` is inductive without it.
* `WorkerPoolProofs`: all safety invariants of `workerpool`, and
  `MapHoldsUnstopped`. What `startMu` guarantees is made explicit: the holder of a
  module's lock is the operation at a place between taking and releasing it, it
  sees an empty map entry between pop and insertion, and a worker is in one place
  only (`OnePlace`).
* `AuditLogProofs` (`AuditLog` and `AuditPage`): `ChainLinked`, `AppendOnly`, and
  that `AuditLog` implements `AtomicLog` (`LogIsAtomic`). The invariant says that a
  writer past the lock holds it, that what it has read is still the newest hash,
  and that its uncommitted id is above every committed one; from it a commit maps
  to `AppendRow` and every other step to a stutter. `VerifyAcceptsLog` and
  `VerifyDetectsDamage` need that every row carries the hash of its own fields and
  that hashes get longer along the log (`IntactInv`): no two rows then have the
  same hash, so the row after a missing one cannot link. For altered rows it is
  needed that texts with the same columns, each split into as many words, differ
  (`TextsDiffer`, from `LegacyTextOf` and `TextOf`, which say where in a text a
  word is found), and that a current text is one word longer than a legacy one
  of the same columns. `GapFreeWindow` and
  `EndMeansEnd` hold of every page, batch and cap size if the admin is patient
  (`PatientAdmin => ...`; without patience `MCAuditPageImpatient` shows what goes
  wrong). `PageInv` says what each request in flight owes: while it scans, all that is due down
  to its position, and once answered, all down to its last row. `PageOnlyReads`
  carries the theorems about the log over to the page.
* `SessionsProofs`: `IndexCoversSessions`, `ActiveSessionsAreEntitled` and
  `BoundedLife`, from an invariant that adds that index entries point to the
  sessions of that user. A session left by a failed revocation (`spared`) is not
  claimed to be entitled; that it ends, by `BoundedLife`, is.
* `AuthFlowProofs`: all properties of `authflow`, for any number of overlapping
  requests, users and sessions. `FlowInv` says that whatever a request has read is
  still so, or that the window through which it changed is recorded: a session has
  one owner, nobody but its callback speaks of it before it is stored, whoever
  takes an entry off an index has seen the session gone, and an active session of
  somebody not entitled is in reach of the removal under way (`EntitledOrCaught`).
  A removal whose revocation fails hands the sessions it has left to `escaped`.
  `AdminStays` is an action property; `AdminInv` adds that a removal past the
  guard leaves another admin, or another removal is past it too.
* `LifecycleProofs`: `RecordedIsApplied` and `NoStuckInstall` for any number of
  concurrent operations, releases and failures, which the run cannot enumerate.
  The first is inductive once it is known that an operation about to record has
  committed; the second with `InstallAtWork`: a row in "installing" has an
  `Install` behind it whose context is alive, unless a context ended or Core was
  killed. `Moved` is how the step of any operation looks from both. `UploadsKept`,
  `CodeRecoverable` and `ActiveIsConsistent` follow from `FilesInv`: as long as no
  two operations have overlapped, the one under way determines, place by place,
  what lies in which directory (`UploadsAt`, `CodeAt`, `RowAt`).
* `SetupProofs`: `GuessesBounded` and `EncryptedWhenServing`. For the first, the
  failures and the requests past the look at `paused` are counted together
  (`Past`): a request enters `Past` only before the pause, when fewer
  failures than the limit are counted, and leaves it as one failure at most. For the second (`EncInv`), whatever is
  still plaintext is on the list of the running migration, or the version flag
  says that a migration is yet to come; `ListsAll` shows that the list names
  every row. `IssuerSpeaksForAll` is inductive with `Whole`: a write that began
  alone leaves every key in place that it has passed or does not touch.
* `ServicesProofs`: `AnnouncedOnce`, `JobsDoNotOverlap`, `CacheSpeaksForRow`,
  `SendsAsConfigured` and `OneToastPerTrip`, over failing calls, crashes and
  restarts. A version that was announced as often as its failed reads and writes
  account for is recorded as notified, or the one check under way is about to
  record it (`InOrder`); the job of every invocation that is not over is in the
  running map; `CacheSpeaksForRow` is inductive once identifiers that were never
  given out are known to be unused. A save of the mail settings has written its
  keys but for those still to come, and an untorn configuration holds what was
  read so far (`MailInv`). In the limiter every count of a window went to one
  request, so that those let through and the counts that can still let somebody
  through make up at most the limit (`LimiterInv`), to which the requests that
  passed uncounted are added. A message that is read for while a save goes on may
  be sent with a mixture (`torn`); the theorem exempts it.
* `ServicesProofs` on `Catalogue`: `CatalogueMatches` and `BadgesMatch`. `StoreInv`
  follows a sync through its places, for as long as nothing has disturbed it: what
  it has upserted is still there, what it has yet to delete is what no source
  lists (`Pruning`), and the modules an update check is through with are marked
  right (`Comparing`). The prune is only reached rightly if `anySucceeded` is true
  whenever a source answered; that needs a count (`Customs`): once one custom
  source has answered, those that failed and those still to come are fewer than
  all. It assumes that no custom repository is the official or the community one.
* `ServicesProofs` on `GeoIP`: `WholeFiles`, `LookupIsFresh` and
  `StatusTellsTruth`. With one download at a time, the inode a download writes is
  named by the temporary path of its edition and by nothing else (`Private`), so
  that no reader sees it grow; when it is about to be renamed it is complete and
  modified after whatever a reader or a lookup has seen (`Complete`). A reader
  opened for the modification time m is then up to date as long as the file is not
  newer than m (`UpToDate`), which is all that `reader.get` compares. An error that
  outlives a success is one whose deletion failed (`uncleared`).
* `ServicesProofs` on `QuickLinks`: `ReloadShowsGrid`, over crashes and restarts.
  The property speaks of a page with nothing in flight; `Truthful` says what holds
  meanwhile: the tiles the server would list, once the order on its way has
  arrived, are those of the grid in the same order, but for the tiles whose deletion
  is not answered yet and with the one whose creation is not, and at most one order
  is on its way. A drag behind a dialog that was closed before its creation was
  answered breaks this, and is exempt. For that, `mergedTiles` has to be known of any sequences
  (`MergedWithout`, `MergedAppend`, `MergedKnown`). Those are facts by induction over
  the length of a sequence, which the provers do not do; `AllSequences` replaces it
  by the least counterexample, whose existence follows from the well-foundedness of
  inclusion among finite sets. `keep` is what `SelectSeq` with a membership test is,
  written as a recursive function because the provers do not unfold `SelectSeq`.
* `ConnPoolProofs`, `WorkerPoolProofs`, `AuditLogProofs`, `SessionsProofs` and
  `LifecycleProofs` also prove their modules' type invariants.

Only model-checked: liveness (`DeadlinedReturns`, `OperationsEnd`, `JobKeyFreed`,
`NewsIsAnswered`), which is out of the prover's reach. Every safety property of a
passing run is a theorem.

## 5. Findings

Two runs show the code losing data that it means to keep; "findings" in
`PROJECT.json` quotes the comments.

* `lifecycle_uploads`: an upload between the two moves of an update makes the
  move of the storage directory fail, and the update then deletes all others.
* `catalogue_outage`: `anySucceeded` compares a map of failures keyed by
  repository with the number of rows of `custom_sources`. A repository added
  twice is one failure against two sources, and a sync that reached nothing
  prunes the cache.

The configurations of section 3 that are not runs show these:

* a call without a deadline that blocks in `getConn` is not woken by
  `releaseConn(nil)`, although a slot is free;
* an uninstall during a start leaves the new worker running without a row;
* a late "load more" response lands in the page of the next filter;
* an approval prolongs a session beyond its index, and a later lock misses it;
* an update by ZIP upload leaves the worker on the old code;
* a lookup may use a GeoIP reader that another lookup's reopen has closed;
* logout looks the session up by the raw token instead of its digest, so the
  refresh token is not revoked at the IdP (`auth/handlers.go:1309`);
* a configure that is cut off after the issuer leaves an instance that had an
  admin complete, with the gate shut, and without a client.

Noted while reading or checking, without a configuration:

* audit log: the HMAC joins the columns with a `|` that it does not escape, and
  `Verify` accepts the older formula for any row. Text moved from one column to
  the next, or a row whose ciphertexts are moved into `target_id`, is not
  detected;
* audit page: if all loaded rows are hidden store syncs, no button for older
  entries is drawn until the box is unticked (`AdminAuditPage.tsx:744`);
* sessions: a revocation that fails (or whose request ends) is only logged, and
  the sessions it has not reached live on until they expire, as
  `auth/admin.go:672` says; a login that reads its gate answers before a lock and stores the
  session after it, or between `RevokeUserSessions`' read and its deletion, and a
  copy written back by `RevalidateSession`, survive the lock; two admins can lock
  or delete each other; `AdminCount` counts locked admins, so the last unlocked
  one may delete itself; `WizardComplete` becomes false again when the last admin
  is demoted at login, and logins are then approved automatically;
* lifecycle: a request that ends during `Install` leaves the row in "installing"
  for good, and one that ends during `UpdateManual` an active module with new
  files and the old schema; a leftover `{name}.old-V` makes every later update
  from V fail; an error of `updateInstalledModuleRecord` is returned without the
  rollback that the comment at `updater.go:19` promises; two updates that overlap
  can delete all uploads;
* catalogue: an entry whose upsert failed counts as not listed and is pruned;
* setup: the first step of the encryption migration does not tell encrypted rows
  apart, so that users and OIDC keys can get two layers after an interruption;
* news: a fetch of a feed's old address may be stored after the entry was deleted;
  a crash before that deletion loses it; an import that cannot list the existing
  feeds inserts duplicates; the semaphore is one per request, not per process;
* quick links: orders are sent without waiting and may overtake each other; the
  dialog can be closed while its creation is on its way, and the order that is
  saved when it is answered undoes a drag made since (`QuickLinksGrid.tsx:518`); a
  tile added before the list has come is followed by an order without the others;
* rate limiting: without Valkey requests pass uncounted, as documented
  (`main.go:1778`); a limit lowered within a window is never announced, nor is a
  trip whose client leaves or whose publish fails, which is only logged;
* core update: overlapping checks, a record that cannot be read (the error is
  dropped, `coreupdate.go:243`) or a crash before it is written announce a version
  again;
* GeoIP: an old error whose deletion fails stays on display after a success;
* mail: a message taken off the list while settings are saved may be sent with
  some of the old and some of the new; the SMTP conversation has no timeout of its
  own.

## 6. Plan

1. An abstract specification of `ActiveSessionsAreEntitled` that `AuthFlow`
   implements up to its named windows.
2. Two overlapping operations in the `lifecycle` run, and pins and automatic
   updates acting on its row.
3. The module request router: matching of egress hosts and the CRUD query builder
   as pure operators against a reference.

## 7. Not modelled

* Cryptography, HTTP routing, SQL text, mail wording and page layout.
* The outbound proxies (AI, search, weather, NTP, TLS check): I/O without
  protocol state of their own.
* SSE (`EventsHandler`): delivery is best effort and nothing is promised of an
  event a stream drops. That events are published is in the publishing modules.
* Of News: dates, sorting and cutting of articles, the settings for them and the
  caches of the catalogs. Of setup: the master-key step and the status handlers.
  Of accounts: mails, CSRF tokens, preferences and the data export. Of the
  lifecycle: the PII key migration and the checks of signature and manifest,
  which are a download that may fail.
* Cron expressions and weekdays: a job or a check may be due at any tick.
* Failures of single best-effort calls beyond those in the models: the renewal of
  a session's keys (`auth/session.go:807`), the fallback to a full TTL when the
  remaining one cannot be read (`auth/revalidate.go:211`), and the timestamps of a
  GeoIP check. `Mail` treats port, user name and sender as one key, so that
  a save that is cut off between these three is not told apart.

The components list of `PROJECT.json` has every part and its reason.
