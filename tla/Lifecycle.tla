------------------------------ MODULE Lifecycle ------------------------------
(***************************************************************************)
(* The life of one installed module (modules/installer.go, updater.go,       *)
(* uninstaller.go, migrations.go, handlers.go and the boot loop of main.go): *)
(* its row in installed_modules, its directories below DataDir, its schema,  *)
(* its rollback ZIP and its worker.                                          *)
(*                                                                           *)
(* Each call on the database or the file system is a step of its own: the    *)
(* handlers hold no lock over them, a request's context may end between any  *)
(* two (every later database call of that operation then fails), an upload   *)
(* may be written, and Core may be killed and started again.                 *)
(***************************************************************************)
EXTENDS Naturals, FiniteSets

CONSTANTS
  Ops,        \* goroutines that run an operation
  Versions,   \* versions of the module that releases exist of
  NoVersion,
  Files,      \* files that users upload to the module
  Scripts,    \* names of migration files
  Migrations, \* per version: the migration files in its ZIP
  Tier,       \* per version: the tier its manifest declares
  MaxEvents,  \* bound: operations begun, contexts ended, crashes
  DiskFails   \* may a call on the file system fail for a reason of its own?

ASSUME OpsAssumption == Ops # {}
ASSUME VersionAssumption == Versions # {} /\ NoVersion \notin Versions
ASSUME MigrationsAssumption == Migrations \in [Versions -> SUBSET Scripts]
ASSUME TierAssumption == Tier \in [Versions -> 1 .. 3]
ASSUME MaxEventsAssumption == MaxEvents \in Nat
ASSUME DiskFailsAssumption == DiskFails \in BOOLEAN

VARIABLES
  row,         \* the row of installed_modules; status "none": there is none
  dirs,        \* the directories {name}, {name}.new-V and {name}.old-V
  zips,        \* versions whose ZIP lies in .rollback
  schema,      \* migration files whose SQL has been committed
  recorded,    \* module_migrations
  provisioned, \* does the module's database role exist, its password on file?
  worker,      \* the version whose code the worker process loaded
  events,      \* how many of those there were
  op,          \* per goroutine: the operation it runs
  uploading,   \* uploads past ModuleProxyHandler's status check
  stored,      \* history: uploads written and not removed by an uninstall
  upset        \* history: what has happened that the code does not repair

vars == <<row, dirs, zips, schema, recorded, provisioned, worker, events, op,
          uploading, stored, upset>>
database == <<schema, recorded, provisioned>>
uploads == <<uploading, stored>>

Statuses == {"none", "installing", "active", "degraded", "failed", "isolated"}
Kinds == {"none", "install", "update", "restart", "uninstall"}
Sources == {"registry", "manual"}
PCs == {"idle", "fetch", "insert", "fill", "migrate", "crud", "start", "activate",
        "cache", "setzip", "copy", "moveold", "movenew", "storage", "discard", "record", "row",
        "zip", "stop", "isolate", "remove", "rmzip", "delete",
        "rollback", "restore", "reactivate", "fail"}
Upsets == {"upload", "disk", "zip", "cancel", "crash", "overlap", "revived"}

Dest == <<"dest", NoVersion>>
New(v) == <<"new", v>>
Old(v) == <<"old", v>>
DirNames == {Dest} \cup ({"new", "old"} \X Versions)

(* A directory: the version whose files were copied into it last (NoVersion  *)
(* if none were or the copy is incomplete) and the files in storage/uploads. *)
MaybeVersion == Versions \cup {NoVersion}
Dir == [there : BOOLEAN, code : MaybeVersion, storage : SUBSET Files]
Absent == [there |-> FALSE, code |-> NoVersion, storage |-> {}]

NoRow == [status |-> "none", version |-> NoVersion, zip |-> NoVersion, url |-> FALSE]
Idle == [pc |-> "idle", kind |-> "none", source |-> "manual", new |-> NoVersion,
         old |-> NoVersion, url |-> FALSE, zip |-> NoVersion, live |-> TRUE]

(* Core starts on a database without the module, or on one where Install has *)
(* completed before.                                                         *)
Init ==
  /\ \/ /\ row = NoRow
        /\ dirs = [d \in DirNames |-> Absent]
        /\ schema = {} /\ provisioned = FALSE /\ worker = NoVersion
     \/ \E v \in Versions, registry \in BOOLEAN :
          /\ row = [NoRow EXCEPT !.status = "active", !.version = v, !.url = registry]
          /\ dirs = [[d \in DirNames |-> Absent] EXCEPT
                       ![Dest] = [there |-> TRUE, code |-> v, storage |-> {}]]
          /\ schema = Migrations[v] /\ provisioned = TRUE
          /\ worker = IF Tier[v] >= 2 THEN v ELSE NoVersion
  /\ zips = {} /\ recorded = {}
  /\ events = 0
  /\ op = [o \in Ops |-> Idle]
  /\ uploading = {} /\ stored = {}
  /\ upset = {}

Quiet == \A o \in Ops : op[o] = Idle
Installed == row.status # "none"
At(o, k, label) == op[o].kind = k /\ op[o].pc = label
Goto(o, label) == op' = [op EXCEPT ![o].pc = label]
Return(o) == op' = [op EXCEPT ![o] = Idle]
Live(o) == op[o].live  \* the operation's context has not ended

Event == events < MaxEvents /\ events' = events + 1

(* UpdateModuleStatus, its error ignored: an UPDATE, so no row stays no row. *)
SetStatus(o, status) ==
  row' = IF Live(o) /\ Installed THEN [row EXCEPT !.status = status] ELSE row

-----------------------------------------------------------------------------
(* The file system *)

(* copyDir over what the directory holds: files are overwritten, none is     *)
(* removed, and the directory is created if it is not there.                 *)
CopyOver(d, v) ==
  [dirs EXCEPT ![d].there = TRUE, ![d].code = v]

(* copyDir that fails on the way.                                            *)
CopyPart(d) == [dirs EXCEPT ![d].there = TRUE, ![d].code = NoVersion]

(* os.Rename of a directory refuses a target that is a directory already.    *)
CanRename(d, e) == dirs[d].there /\ ~dirs[e].there
Renamed(d, e) == [dirs EXCEPT ![e] = dirs[d], ![d] = Absent]

(* What os.RemoveAll of d may make of ds: an error ends it anywhere, and     *)
(* the callers log it and go on.                                             *)
Partly(ds, d) ==
  {[ds EXCEPT ![d].code = NoVersion, ![d].storage = kept] : kept \in SUBSET ds[d].storage}
RemoveAll(ds, d) ==
  {[ds EXCEPT ![d] = Absent]} \cup (IF DiskFails THEN {ds} \cup Partly(ds, d) ELSE {})

-----------------------------------------------------------------------------
(* How operations begin: the guards of the handlers and of Install, Update,  *)
(* UpdateManual, Uninstall and RestartModuleHandler.                         *)

Overlap(o) == IF \E q \in Ops \ {o} : op[q] # Idle THEN {"overlap"} ELSE {}

(* The mark of a failure is overwritten by what does not repair it.          *)
Revived(whole) == IF row.status \in whole THEN {} ELSE {"revived"}

Begin(o, record) ==
  /\ op[o] = Idle
  /\ Event
  /\ op' = [op EXCEPT ![o] = record]
  /\ upset' = upset \cup Overlap(o)
       \cup (IF record.kind = "restart" THEN Revived({"active", "degraded"}) ELSE {})
  /\ UNCHANGED <<row, dirs, zips, database, worker, uploads>>

(* Install and InstallManual: the module is not installed yet.               *)
Install(o, v, source) ==
  /\ ~Installed
  /\ Begin(o, [Idle EXCEPT !.pc = "fetch", !.kind = "install", !.source = source,
                           !.new = v])

(* Update and UpdateManual. Only the first compares versions; the status is  *)
(* looked at by neither. (Pinned modules are refused by both.)               *)
Update(o, v, source) ==
  /\ Installed
  /\ source = "registry" => row.version # v
  /\ Begin(o, [Idle EXCEPT !.pc = IF source = "registry" THEN "cache" ELSE "fetch",
                           !.kind = "update", !.source = source, !.new = v,
                           !.old = row.version, !.url = row.url])

(* Uninstall refuses a module that is being installed.                       *)
Uninstall(o) ==
  /\ Installed
  /\ row.status # "installing"
  /\ Begin(o, [Idle EXCEPT !.pc = "isolate", !.kind = "uninstall", !.zip = row.zip])

(* RestartModuleHandler, restartModuleWorker: any status will do.            *)
Restart(o) ==
  /\ Installed
  /\ Tier[row.version] >= 2
  /\ Begin(o, [Idle EXCEPT !.pc = "stop", !.kind = "restart", !.new = row.version])

(* The context ends: the client goes away, or the database does.             *)
Cancel(o) ==
  /\ op[o] # Idle
  /\ Live(o)
  /\ Event
  /\ op' = [op EXCEPT ![o].live = FALSE]
  /\ upset' = upset \cup {"cancel"}
  /\ UNCHANGED <<row, dirs, zips, database, worker, uploads>>

-----------------------------------------------------------------------------
(* Steps that several operations share *)

(* Download, checks of hash and signature, extraction, manifest: all in a    *)
(* temporary directory, so a failure ends the operation without a trace.     *)
Fetch(o) ==
  /\ op[o].pc = "fetch"
  /\ \/ Return(o)
     \/ op[o].kind = "install" /\ Goto(o, "insert")
     \/ op[o].kind = "update" /\ Goto(o, "copy")
  /\ UNCHANGED <<row, dirs, zips, database, worker, uploads, upset, events>>

OnErrorMutant(o) ==
  IF op[o].kind = "install" THEN Return(o) ELSE Goto(o, "rollback")

(* Where an error leads: Install marks the row failed, Update rolls back.    *)
OnError(o) == Goto(o, IF op[o].kind = "install" THEN "fail" ELSE "rollback")

(* provisionSchema: the role, its password (a column of the row) and the     *)
(* schema are there, or what there was before is left.                       *)
ProvisionSchema(o) == {provisioned, (Live(o) /\ row # NoRow) \/ provisioned}

MigrateMutant(o) ==
  /\ op[o].pc = "migrate"
  /\ \/ /\ Live(o)
        /\ provisioned' = (row # NoRow)
        /\ schema' = schema \cup Migrations[op[o].new]
        /\ UNCHANGED recorded
        /\ Goto(o, IF op[o].kind = "install" THEN "crud" ELSE "record")
     \/ /\ provisioned' \in ProvisionSchema(o)
        /\ recorded' = IF op[o].kind = "update" THEN recorded \cup Migrations[op[o].new]
                       ELSE recorded
        /\ UNCHANGED schema
        /\ OnError(o)
  /\ UNCHANGED <<row, dirs, zips, worker, uploads, upset, events>>

(* runModuleMigrations, runModuleUpdateMigrations: provisionSchema, then the *)
(* files in one transaction. The update leaves out what module_migrations    *)
(* lists; the install lists nothing there.                                   *)
Migrate(o) ==
  /\ op[o].pc = "migrate"
  /\ \/ /\ Live(o)
        /\ provisioned' = (row # NoRow)
        /\ schema' = schema \cup (IF op[o].kind = "install" THEN Migrations[op[o].new]
                                  ELSE Migrations[op[o].new] \ recorded)
        /\ Goto(o, IF op[o].kind = "install" THEN "crud" ELSE "record")
     \/ /\ provisioned' \in ProvisionSchema(o)
        /\ UNCHANGED schema
        /\ OnError(o)
  /\ UNCHANGED <<row, dirs, zips, recorded, worker, uploads, upset, events>>

(* The update's bookkeeping in module_migrations, file by file and best      *)
(* effort: a context that ends within the loop leaves a part unrecorded.     *)
Record(o) ==
  /\ At(o, "update", "record")
  /\ \E done \in SUBSET Migrations[op[o].new] :
       /\ Live(o) => done = Migrations[op[o].new]
       /\ recorded' = recorded \cup done
  /\ Goto(o, "crud")
  /\ UNCHANGED <<row, dirs, zips, schema, provisioned, worker, uploads, upset, events>>

(* validateCrudTable, for tier 1 only.                                       *)
CheckCrud(o) ==
  /\ op[o].pc = "crud"
  /\ \/ /\ Tier[op[o].new] = 1 => Live(o)
        /\ Goto(o, IF op[o].kind = "update" THEN "row"
                   ELSE IF Tier[op[o].new] >= 2 THEN "start" ELSE "activate")
     \/ /\ Tier[op[o].new] = 1
        /\ OnError(o)
  /\ UNCHANGED <<row, dirs, zips, database, worker, uploads, upset, events>>

(* WorkerPool.Start. It needs a handler to run and the role's password,      *)
(* which the operation has read with its own context.                        *)
CanStart(o) == dirs[Dest].code # NoVersion /\ provisioned /\ Live(o)

(* What follows a start: Install goes on to mark the row active, and so does *)
(* restartModuleWorker; restartWorkerAfterUpdate leaves the row alone.       *)
StartWorker(o) ==
  /\ op[o].pc = "start"
  /\ \/ /\ CanStart(o)
        /\ worker' = dirs[Dest].code
        /\ IF op[o].kind = "update" THEN Return(o) ELSE Goto(o, "activate")
     \/ /\ worker' \in {worker, NoVersion}
        /\ IF op[o].kind = "install" THEN OnError(o) ELSE Return(o)
  /\ UNCHANGED <<row, dirs, zips, database, uploads, upset, events>>

(* UpdateModuleStatus "active" at the end. Install stops its worker again    *)
(* when that fails. Update's zip step follows, or for UpdateManual nothing.  *)
Activate(o) ==
  /\ op[o].pc = "activate"
  /\ SetStatus(o, "active")
  /\ worker' = IF op[o].kind = "install" /\ Tier[op[o].new] >= 2 /\ ~Live(o)
               THEN NoVersion ELSE worker
  /\ IF op[o].kind = "update" /\ op[o].source = "registry" /\ Live(o)
     THEN Goto(o, "zip") ELSE Return(o)
  /\ UNCHANGED <<dirs, zips, database, uploads, upset, events>>

(* WorkerPool.Stop. After an update the row is read again to see whether the *)
(* module still has a worker; restartModuleWorker has read it before.        *)
StopWorker(o) ==
  /\ op[o].pc = "stop"
  /\ worker' = NoVersion
  /\ \/ op[o].kind = "uninstall" /\ Goto(o, "remove")
     \/ op[o].kind = "restart" /\ Goto(o, "start")
     \/ /\ op[o].kind = "update"
        /\ IF Live(o) /\ Installed /\ Tier[row.version] >= 2 THEN Goto(o, "start")
           ELSE Return(o)
  /\ UNCHANGED <<row, dirs, zips, database, uploads, upset, events>>

(* UpdateModuleStatus "failed", and the error is returned.                   *)
MarkFailed(o) ==
  /\ op[o].pc = "fail"
  /\ SetStatus(o, "failed")
  /\ Return(o)
  /\ UNCHANGED <<dirs, zips, database, worker, uploads, upset, events>>

-----------------------------------------------------------------------------
(* Install and InstallManual *)

(* InsertInstalledModule: the name is the key, so the second of two fails.   *)
Insert(o) ==
  /\ At(o, "install", "insert")
  /\ IF Live(o) /\ ~Installed
     THEN /\ row' = [status |-> "installing", version |-> op[o].new,
                     zip |-> NoVersion, url |-> op[o].source = "registry"]
          /\ Goto(o, "fill")
     ELSE Return(o) /\ UNCHANGED row
  /\ UNCHANGED <<dirs, zips, database, worker, uploads, upset, events>>

(* MkdirAll and copyDir into {name} itself.                                  *)
Fill(o) ==
  /\ At(o, "install", "fill")
  /\ \/ dirs' = CopyOver(Dest, op[o].new) /\ Goto(o, "migrate")
     \/ DiskFails /\ dirs' \in {dirs, CopyPart(Dest)} /\ OnError(o)
  /\ UNCHANGED <<row, zips, database, worker, uploads, upset, events>>

-----------------------------------------------------------------------------
(* Update and UpdateManual *)

(* cacheCurrentZIP. A manual install has no URL to download from, and a      *)
(* download that fails may have truncated a ZIP that was there before; the   *)
(* update goes on without a ZIP to roll back to.                             *)
Cache(o) ==
  /\ At(o, "update", "cache")
  /\ \/ /\ op[o].url /\ Live(o)
        /\ zips' = zips \cup {op[o].old}
        /\ op' = [op EXCEPT ![o].pc = "setzip", ![o].zip = op[o].old]
        /\ UNCHANGED upset
     \/ /\ zips' \in {zips} \cup (IF op[o].url THEN {zips \ {op[o].old}} ELSE {})
        /\ upset' = IF zips' # zips THEN upset \cup {"zip"} ELSE upset
        /\ Goto(o, "fetch")
  /\ UNCHANGED <<row, dirs, database, worker, uploads, events>>

(* SetModuleCachedZip; an error is logged.                                   *)
SetCachedZip(o) ==
  /\ At(o, "update", "setzip")
  /\ row' = IF Live(o) /\ Installed THEN [row EXCEPT !.zip = op[o].zip] ELSE row
  /\ Goto(o, "fetch")
  /\ UNCHANGED <<dirs, zips, database, worker, uploads, upset, events>>

(* copyDir to {name}.new-V.                                                  *)
Copy(o) ==
  /\ At(o, "update", "copy")
  /\ \/ dirs' = CopyOver(New(op[o].new), op[o].new) /\ Goto(o, "moveold")
     \/ /\ DiskFails
        /\ dirs' \in {dirs} \cup RemoveAll(CopyPart(New(op[o].new)), New(op[o].new))
        /\ OnError(o)
  /\ UNCHANGED <<row, zips, database, worker, uploads, upset, events>>

MoveOldMutant(o) ==
  /\ At(o, "update", "moveold")
  /\ dirs' = [dirs EXCEPT ![Dest] = Absent] /\ Goto(o, "movenew")
  /\ UNCHANGED <<row, zips, database, worker, uploads, upset, events>>

(* os.Rename: {name} becomes {name}.old-V.                                   *)
MoveOld(o) ==
  LET old == Old(op[o].old) new == New(op[o].new) IN
  /\ At(o, "update", "moveold")
  /\ \/ CanRename(Dest, old) /\ dirs' = Renamed(Dest, old) /\ Goto(o, "movenew")
     \/ /\ DiskFails \/ ~CanRename(Dest, old)
        /\ dirs' \in RemoveAll(dirs, new)
        /\ OnError(o)
  /\ UNCHANGED <<row, zips, database, worker, uploads, upset, events>>

(* os.Rename: {name}.new-V becomes {name}; if it does not, the old directory *)
(* is moved back, which may fail too.                                        *)
MoveNew(o) ==
  LET old == Old(op[o].old) new == New(op[o].new) IN
  /\ At(o, "update", "movenew")
  /\ \/ CanRename(new, Dest) /\ dirs' = Renamed(new, Dest) /\ Goto(o, "storage")
     \/ /\ DiskFails \/ ~CanRename(new, Dest)
        /\ \/ CanRename(old, Dest) /\ dirs' \in RemoveAll(Renamed(old, Dest), new)
           \/ (DiskFails \/ ~CanRename(old, Dest)) /\ dirs' \in RemoveAll(dirs, new)
        /\ OnError(o)
  /\ UNCHANGED <<row, zips, database, worker, uploads, upset, events>>

MoveStorageMutant(o) ==
  /\ At(o, "update", "storage")
  /\ Goto(o, "discard")
  /\ UNCHANGED <<row, dirs, zips, database, worker, uploads, upset, events>>

(* The uploads are moved from the old directory to the new one. A rename     *)
(* that fails is logged, and the update goes on.                             *)
MoveStorage(o) ==
  LET old == Old(op[o].old) IN
  /\ At(o, "update", "storage")
  /\ \/ /\ dirs[old].storage # {} /\ dirs[Dest].storage = {} /\ dirs[Dest].there
        /\ dirs' = [dirs EXCEPT ![Dest].storage = dirs[old].storage, ![old].storage = {}]
        /\ UNCHANGED upset
     \/ /\ dirs[old].storage = {} \/ dirs[Dest].storage # {} \/ ~dirs[Dest].there \/ DiskFails
        /\ upset' = IF dirs[old].storage # {} /\ dirs[Dest].storage = {} /\ dirs[Dest].there
                    THEN upset \cup {"disk"} ELSE upset
        /\ UNCHANGED dirs
  /\ Goto(o, "discard")
  /\ UNCHANGED <<row, zips, database, worker, uploads, events>>

(* RemoveAll of the old directory; a failure is logged.                      *)
Discard(o) ==
  /\ At(o, "update", "discard")
  /\ dirs' \in RemoveAll(dirs, Old(op[o].old))
  /\ Goto(o, "migrate")
  /\ UNCHANGED <<row, zips, database, worker, uploads, upset, events>>

(* updateInstalledModuleRecord. Its error is returned without a rollback.    *)
UpdateRow(o) ==
  /\ At(o, "update", "row")
  /\ IF Live(o)
     THEN /\ row' = IF Installed THEN [row EXCEPT !.version = op[o].new,
                                                  !.url = op[o].source = "registry"]
                    ELSE row
          /\ Goto(o, "activate")
     ELSE Return(o) /\ UNCHANGED row
  /\ UNCHANGED <<dirs, zips, database, worker, uploads, upset, events>>

(* The rollback ZIP is removed and its column cleared; then                  *)
(* restartWorkerAfterUpdate.                                                 *)
DropZip(o) ==
  /\ At(o, "update", "zip")
  /\ IF op[o].zip = NoVersion THEN UNCHANGED <<zips, row>>
     ELSE /\ zips' \in {zips \ {op[o].zip}} \cup (IF DiskFails THEN {zips} ELSE {})
          /\ row' = IF Live(o) /\ Installed THEN [row EXCEPT !.zip = NoVersion] ELSE row
  /\ Goto(o, "stop")
  /\ UNCHANGED <<dirs, database, worker, uploads, upset, events>>

(* rollback: without a ZIP only the status says what happened.               *)
Rollback(o) ==
  /\ At(o, "update", "rollback")
  /\ IF op[o].zip = NoVersion
     THEN SetStatus(o, "failed") /\ Return(o) /\ UNCHANGED upset
     ELSE /\ SetStatus(o, "degraded") /\ Goto(o, "restore")
          /\ upset' = upset \cup Revived({"active", "degraded"})
  /\ UNCHANGED <<dirs, zips, database, worker, uploads, events>>

RestoreMutant(o) ==
  /\ At(o, "update", "restore")
  /\ Goto(o, "reactivate")
  /\ UNCHANGED <<row, dirs, zips, database, worker, uploads, upset, events>>

(* rollback: the cached ZIP is extracted and copied over {name}.             *)
Restore(o) ==
  /\ At(o, "update", "restore")
  /\ \/ /\ op[o].zip \in zips
        /\ dirs' = CopyOver(Dest, op[o].zip)
        /\ Goto(o, "reactivate")
     \/ /\ DiskFails \/ op[o].zip \notin zips
        /\ dirs' \in {dirs, CopyPart(Dest)}
        /\ Goto(o, "fail")
  /\ UNCHANGED <<row, zips, database, worker, uploads, upset, events>>

(* rollback: the module is declared active again, its worker left alone.     *)
Reactivate(o) ==
  /\ At(o, "update", "reactivate")
  /\ SetStatus(o, "active")
  /\ Return(o)
  /\ UNCHANGED <<dirs, zips, database, worker, uploads, upset, events>>

-----------------------------------------------------------------------------
(* Uninstall *)

Isolate(o) ==
  /\ At(o, "uninstall", "isolate")
  /\ SetStatus(o, "isolated")
  /\ IF Live(o) THEN Goto(o, "stop") ELSE Return(o)
  /\ UNCHANGED <<dirs, zips, database, worker, uploads, upset, events>>

(* RemoveAll of {name}, uploads included; a failure is logged.               *)
RemoveFiles(o) ==
  /\ At(o, "uninstall", "remove")
  /\ dirs' \in RemoveAll(dirs, Dest)
  /\ stored' = stored \ (dirs[Dest].storage \ dirs'[Dest].storage)
  /\ Goto(o, "rmzip")
  /\ UNCHANGED <<row, zips, database, worker, uploading, upset, events>>

(* The ZIP that the row named when Uninstall read it.                        *)
RemoveZip(o) ==
  /\ At(o, "uninstall", "rmzip")
  /\ zips' \in {zips \ {op[o].zip}} \cup (IF DiskFails THEN {zips} ELSE {})
  /\ Goto(o, "delete")
  /\ UNCHANGED <<row, dirs, database, worker, uploads, upset, events>>

(* DeleteInstalledModule: the role's password goes with the row. Schema and  *)
(* module_migrations stay.                                                   *)
DeleteRow(o) ==
  /\ At(o, "uninstall", "delete")
  /\ IF Live(o) THEN row' = NoRow /\ provisioned' = FALSE ELSE UNCHANGED <<row, provisioned>>
  /\ Return(o)
  /\ UNCHANGED <<dirs, zips, schema, recorded, worker, uploads, upset, events>>

-----------------------------------------------------------------------------
(* Users, the worker process, and Core's own end *)

(* ModuleProxyHandler has found the module active and reads the body.        *)
AcceptUpload(f) ==
  /\ row.status = "active"
  /\ Tier[row.version] >= 2
  /\ f \notin uploading \cup stored
  /\ \A d \in DirNames : f \notin dirs[d].storage
  /\ uploading' = uploading \cup {f}
  /\ UNCHANGED <<row, dirs, zips, database, worker, op, stored, upset, events>>

(* saveUploadedFile: MkdirAll of {name}/storage/uploads, then the file.      *)
SaveUpload(f) ==
  /\ f \in uploading
  /\ uploading' = uploading \ {f}
  /\ dirs' = [dirs EXCEPT ![Dest].there = TRUE, ![Dest].storage = @ \cup {f}]
  /\ stored' = stored \cup {f}
  /\ upset' = IF \E o \in Ops : op[o].kind = "update" /\ op[o].pc \in {"movenew", "storage"}
              THEN upset \cup {"upload"} ELSE upset
  /\ UNCHANGED <<row, zips, database, worker, op, events>>

(* The worker's process ends, and the crash handler says so in the row.      *)
WorkerCrash ==
  /\ worker # NoVersion
  /\ Event
  /\ worker' = NoVersion
  /\ row' = IF Installed THEN [row EXCEPT !.status = "degraded"] ELSE row
  /\ upset' = upset \cup Revived(Statuses \ {"failed"})
  /\ UNCHANGED <<dirs, zips, database, op, uploads>>

(* Core is killed and started again. (Killed within a copy, a removal or a   *)
(* download: the same as right after that step failed half-way.) The boot    *)
(* loop provisions the role and starts the worker of an active module, and   *)
(* changes nothing else.                                                     *)
CoreRestart ==
  /\ Event \/ (Quiet /\ UNCHANGED events)
  /\ op' = [o \in Ops |-> Idle]
  /\ uploading' = {}
  /\ upset' = IF Quiet THEN upset ELSE upset \cup {"crash"}
  /\ IF row.status = "active" /\ Tier[row.version] >= 2
     THEN /\ provisioned' \in {provisioned, TRUE}
          /\ worker' \in {NoVersion} \cup (IF provisioned' THEN {dirs[Dest].code} ELSE {})
     ELSE worker' = NoVersion /\ UNCHANGED provisioned
  /\ UNCHANGED <<row, dirs, zips, schema, recorded, stored>>

-----------------------------------------------------------------------------

Handlers(o) ==
  \/ \E v \in Versions, s \in Sources : Install(o, v, s) \/ Update(o, v, s)
  \/ Uninstall(o) \/ Restart(o)

Steps(o) ==
  \/ Fetch(o) \/ Insert(o) \/ Fill(o) \/ Migrate(o) \/ Record(o) \/ CheckCrud(o)
  \/ StopWorker(o) \/ StartWorker(o) \/ Activate(o) \/ MarkFailed(o)
  \/ Cache(o) \/ SetCachedZip(o) \/ Copy(o) \/ MoveOld(o) \/ MoveNew(o) \/ MoveStorage(o) \/ Discard(o)
  \/ UpdateRow(o) \/ DropZip(o) \/ Rollback(o) \/ Restore(o) \/ Reactivate(o)
  \/ Isolate(o) \/ RemoveFiles(o) \/ RemoveZip(o) \/ DeleteRow(o)

Next ==
  \/ \E o \in Ops : Handlers(o) \/ Steps(o) \/ Cancel(o)
  \/ \E f \in Files : AcceptUpload(f) \/ SaveUpload(f)
  \/ WorkerCrash
  \/ CoreRestart

Spec == Init /\ [][Next]_vars

-----------------------------------------------------------------------------
(* Properties *)

Rows == [status : Statuses, version : MaybeVersion, zip : MaybeVersion, url : BOOLEAN]
Operations == [pc : PCs, kind : Kinds, source : Sources, new : MaybeVersion,
               old : MaybeVersion, url : BOOLEAN, zip : MaybeVersion, live : BOOLEAN]

(* What an operation at a label has at hand: the version it installs, and    *)
(* for an update the version that was there.                                 *)
AtHand(r) ==
  /\ r.kind \in {"install", "update"} => r.new \in Versions
  /\ r.kind = "update" => r.old \in Versions
  /\ r.pc \in {"fetch", "migrate", "crud"} => r.kind \in {"install", "update"}
  /\ r.pc = "rollback" => r.kind = "update"
  /\ r.pc = "restore" => r.zip \in Versions

TypeOK ==
  /\ row \in Rows
  /\ Installed => row.version \in Versions
  /\ dirs \in [DirNames -> Dir]
  /\ zips \subseteq Versions
  /\ schema \subseteq Scripts /\ recorded \subseteq Scripts
  /\ provisioned \in BOOLEAN
  /\ worker \in MaybeVersion
  /\ events \in 0 .. MaxEvents
  /\ op \in [Ops -> Operations]
  /\ \A o \in Ops : AtHand(op[o])
  /\ uploading \subseteq Files /\ stored \subseteq Files
  /\ upset \subseteq Upsets

OnDisk == UNION {dirs[d].storage : d \in DirNames}

(* No update, rollback, cancellation or crash deletes a file that a user has *)
(* uploaded: it stays in some directory until Uninstall removes it, unless   *)
(* operations overlap, the move of the storage directory fails for a reason  *)
(* of its own, or an upload is written while the directories are swapped.    *)
UploadsKept ==
  upset \cap {"upload", "disk", "overlap"} = {} => stored \subseteq OnDisk

(* module_migrations never lists a file whose SQL is not committed, whatever *)
(* is cancelled or killed: a later update would leave that file out.         *)
RecordedIsApplied == recorded \subseteq schema

(* Through every failure of a download, a copy, a rename or a migration: a   *)
(* module that is declared active, with no operation under way, has the      *)
(* files of the version its row names and every migration of that version,   *)
(* as long as no operation was cancelled, killed or overlapped by another    *)
(* and the mark of a failure was not overwritten by a restart, a rollback or *)
(* the crash handler.                                                        *)
ActiveIsConsistent ==
  Quiet /\ row.status = "active"
        /\ upset \cap {"cancel", "crash", "overlap", "revived"} = {} =>
    /\ dirs[Dest].code = row.version
    /\ Migrations[row.version] \subseteq schema

(* Whatever is killed or cancelled, a module that is not failed or on its    *)
(* way in or out has complete code in one of its directories or in the       *)
(* rollback ZIP of its version, unless operations overlap or a later         *)
(* download of that ZIP broke off and truncated it.                          *)
CodeRecoverable ==
  row.status = "active" /\ upset \cap {"overlap", "zip"} = {} =>
    (\E d \in DirNames : dirs[d].code # NoVersion) \/ row.version \in zips

(* Every path out of Install and Update takes the row out of "installing",   *)
(* where neither Install nor Uninstall would touch it again, unless the      *)
(* context of an operation ended or Core was killed.                         *)
NoStuckInstall ==
  Quiet /\ row.status = "installing" => upset \cap {"cancel", "crash"} # {}

(* updater.go: the storage directory is moved "before the old directory is   *)
(* discarded", so that an update does not "delete every image/file a user    *)
(* has ever uploaded".                                                       *)
UpdateKeepsUploads == stored \subseteq OnDisk

(* updater.go: the worker is restarted "so it picks up the code" of an       *)
(* update. With nothing going wrong and no operation under way, the worker   *)
(* of an active module runs the version in its row.                          *)
WorkerRunsInstalledCode ==
  Quiet /\ upset = {} /\ row.status = "active" /\ Tier[row.version] >= 2 =>
    worker \in {row.version, NoVersion}

=============================================================================
