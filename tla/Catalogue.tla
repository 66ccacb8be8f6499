------------------------------ MODULE Catalogue ------------------------------
(***************************************************************************)
(* The module store's cache (internal/store): module_registry, filled by     *)
(* syncs from the official and community registries and from the custom      *)
(* sources admins add, and the update check that follows every sync          *)
(* (internal/modules/status.go, RunAutoUpdates). The scheduler's sync and an *)
(* admin's may overlap each other and any admin request.                     *)
(*                                                                           *)
(* Version 0 stands for none, Unknown for an empty latest_version. Which     *)
(* version a source lists is decided when it is written: nothing looks at it *)
(* before.                                                                   *)
(***************************************************************************)
EXTENDS Integers, Sequences, FiniteSets

CONSTANTS
  ModuleNames,
  Repos,         \* repositories that can be added as custom sources
  PubKeys,       \* signing keys an admin can enter for one
  Syncers,       \* goroutines that sync: the scheduler's and an admin's
  MaxListed,     \* bound: versions a source lists
  MaxRows,       \* bound: rows of custom_sources
  MaxEdits,      \* bound: admin requests
  MaxSyncs       \* bound: syncs and update checks begun

ASSUME CatalogueAssumption ==
  /\ {MaxListed, MaxRows, MaxEdits, MaxSyncs} \subseteq Nat
  /\ {"official", "community"} \cap Repos = {}

Official == [repo |-> "official", key |-> "root"]
Community == [repo |-> "community", key |-> "own"]
Unknown == MaxListed + 1

VARIABLES
  table,       \* custom_sources, oldest first
  registry,    \* module_registry by name
  installed,   \* installed_modules.version, 0 without a row
  badge,       \* installed_modules.available_version, 0 for none
  autoUpdate,  \* the modules with auto_update set
  pinned,      \* the modules with pinned set
  sync,        \* what each sync is doing
  edit,        \* what the admin's request is doing
  wiped,       \* history: a sync that no source answered deleted an entry
  edits, syncs

flags == <<autoUpdate, pinned>>
storeVars == <<table, registry, installed, badge, flags, sync, edit, wiped, edits, syncs>>

-----------------------------------------------------------------------------
NoEntry == [repo |-> "none", key |-> "none", version |-> 0]
Nothing == [n \in ModuleNames |-> 0]
NoEntries == [n \in ModuleNames |-> NoEntry]
Having(v) == {n \in ModuleNames : v[n] # 0}

(* calm (history): nobody else has written what the sync reads or writes, and *)
(* no write of its own has failed.                                           *)
(* customs: how many custom sources were read, -1 before they are.           *)
(* at: the module whose check was made and whose write comes next.           *)
(* answered, want (history): some source answered, and what the last one     *)
(* that lists a module says of it.                                           *)
NoSync == [pc |-> "idle", todo |-> << >>, row |-> Official, batch |-> {},
           seen |-> {}, failed |-> {}, customs |-> -1, stale |-> {}, at |-> {},
           rows |-> Nothing, marks |-> Nothing, updates |-> {}, entry |-> NoEntry,
           auto |-> TRUE, calm |-> TRUE, answered |-> FALSE,
           want |-> NoEntries]
NoAdminEdit == [pc |-> "idle", row |-> Official, todo |-> {}, entry |-> NoEntry]

StoreInit ==
  /\ table = << >>
  /\ registry = NoEntries
  /\ installed \in {Nothing, [n \in ModuleNames |-> 1]} /\ badge = Nothing
  /\ autoUpdate = {n \in ModuleNames : installed[n] # 0} /\ pinned = {}
  /\ sync = [p \in Syncers |-> NoSync]
  /\ edit = NoAdminEdit
  /\ wiped = FALSE
  /\ edits = 0 /\ syncs = 0

(* What a source lists, now that its maintainers may have published and      *)
(* withdrawn anything. A module whose manifest cannot be read is skipped, as *)
(* if it were not listed; a custom source without any module is an error.    *)
FetchCustomRepo == (SUBSET ModuleNames) \ {{}}
Answers(s) == IF s \in Repos THEN FetchCustomRepo ELSE SUBSET ModuleNames

(* The official registry names every version; a release of another source    *)
(* that cannot be looked up leaves the version empty.                        *)
FetchOfficialRegistry == 1 .. MaxListed
Versions(s) == IF s = "official" THEN FetchOfficialRegistry ELSE 1 .. Unknown

EntryOf(row, v) == [repo |-> row.repo, key |-> row.key, version |-> v]

(* The syncs that are under way are no longer calm once someone else has     *)
(* written.                                                                  *)
DisturbAll ==
  [q \in Syncers |-> IF sync[q] = NoSync THEN NoSync
                     ELSE [sync[q] EXCEPT !.calm = FALSE, !.want = NoEntries]]
Disturb(p, r) == [DisturbAll EXCEPT ![p] = r]
Flawed(r) == [r EXCEPT !.calm = FALSE, !.want = NoEntries]

-----------------------------------------------------------------------------
(* syncAll *)
BeginSync(p) ==
  /\ sync[p] = NoSync /\ syncs < MaxSyncs
  /\ sync' = [sync EXCEPT ![p].pc = "fetch", ![p].todo = <<Official, Community>>]
  /\ syncs' = syncs + 1
  /\ UNCHANGED <<flags, table, registry, installed, badge, edit, wiped, edits>>

FetchFails(p) ==
  /\ sync[p].pc = "fetch" /\ sync[p].todo # << >>
  /\ sync' = [sync EXCEPT ![p].todo = Tail(@), ![p].failed = @ \cup {Head(sync[p].todo).repo}]
  /\ UNCHANGED <<flags, table, registry, installed, badge, edit, wiped, edits, syncs>>

FetchSource(p) ==
  /\ sync[p].pc = "fetch" /\ sync[p].todo # << >>
  /\ LET row == Head(sync[p].todo) IN
     \E names \in Answers(row.repo) :
       sync' = [sync EXCEPT ![p].pc = "upsert", ![p].todo = Tail(@), ![p].row = row,
                  ![p].batch = names, ![p].answered = TRUE]
  /\ UNCHANGED <<flags, table, registry, installed, badge, edit, wiped, edits, syncs>>

(* Later sources replace the entries of earlier ones: a name has one row.    *)
UpsertEntry(p) ==
  /\ sync[p].pc = "upsert"
  /\ \/ /\ sync[p].batch = {}
        /\ sync' = [sync EXCEPT ![p].pc = "fetch", ![p].row = Official]
        /\ UNCHANGED registry
     \/ \E n \in sync[p].batch, v \in Versions(sync[p].row.repo) :
          LET entry == EntryOf(sync[p].row, v) IN
          /\ registry' = [registry EXCEPT ![n] = entry]
          /\ sync' = Disturb(p, [sync[p] EXCEPT !.batch = @ \ {n}, !.seen = @ \cup {n},
                                   !.want[n] = IF sync[p].calm THEN entry ELSE NoEntry])
  /\ UNCHANGED <<flags, table, installed, badge, edit, wiped, edits, syncs>>

(* A write that fails is logged, and the module is not among those seen: what *)
(* the store has of it counts as stale. One that fails in the cleanup leaves *)
(* its entry, and one that fails in the update check the module's old mark,  *)
(* as does a look at the store's entry that fails.                           *)
WriteFails(p) ==
  /\ LET r == Flawed(sync[p]) IN
     \/ /\ r.pc = "upsert"
        /\ \E n \in r.batch : sync' = [sync EXCEPT ![p] = [r EXCEPT !.batch = @ \ {n}]]
     \/ /\ r.pc = "prune"
        /\ \E n \in r.stale : sync' = [sync EXCEPT ![p] = [r EXCEPT !.stale = @ \ {n}]]
     \/ /\ r.pc = "delete"
        /\ sync' = [sync EXCEPT ![p] = [r EXCEPT !.pc = "prune", !.at = {}]]
     \/ /\ r.pc = "compare"
        /\ \E n \in Having(r.rows) : sync' = [sync EXCEPT ![p] = [r EXCEPT !.rows[n] = 0]]
     \/ /\ r.pc = "badge"
        /\ \E n \in r.at :
             sync' = [sync EXCEPT ![p] =
                        [r EXCEPT !.pc = "compare", !.rows[n] = 0, !.at = {},
                           !.updates = IF r.entry.version # 0 THEN @ \cup {n} ELSE @,
                           !.entry = NoEntry]]
  /\ UNCHANGED <<flags, table, registry, installed, badge, edit, wiped, edits, syncs>>

(* Official and community are through: the custom sources are read now. A    *)
(* row that cannot be decrypted fails the whole list, and the sync goes on   *)
(* with none.                                                                *)
ListCustomSources(p) ==
  /\ sync[p].pc = "fetch" /\ sync[p].todo = << >> /\ sync[p].customs = -1
  /\ \E rows \in {table, << >>} :
       sync' = [sync EXCEPT ![p].todo = rows, ![p].customs = Len(rows)]
  /\ UNCHANGED <<flags, table, registry, installed, badge, edit, wiped, edits, syncs>>

(* customErrs is a map by repo_url, compared with the number of rows.        *)
anySucceeded(r) ==
  \/ "official" \notin r.failed
  \/ "community" \notin r.failed
  \/ Cardinality(r.failed \cap Repos) < r.customs

staleMutant(r) == {n \in ModuleNames : registry[n] # NoEntry}

staleOf(r) == {n \in ModuleNames : registry[n] # NoEntry /\ n \notin r.seen}

pruneStaleEntries(p) ==
  /\ sync[p].pc = "fetch" /\ sync[p].todo = << >> /\ sync[p].customs >= 0
  /\ sync' = [sync EXCEPT ![p] =
                [NoSync EXCEPT !.pc = "prune",
                   !.stale = IF anySucceeded(sync[p]) THEN staleOf(sync[p]) ELSE {},
                   !.calm = sync[p].calm, !.answered = sync[p].answered, !.want = sync[p].want]]
  /\ UNCHANGED <<flags, table, registry, installed, badge, edit, wiped, edits, syncs>>

(* Installed? and DELETE are two statements.                                 *)
PruneCheck(p) ==
  /\ sync[p].pc = "prune"
  /\ \E n \in sync[p].stale :
       sync' = [sync EXCEPT ![p].stale = @ \ {n},
                            ![p].at = IF installed[n] # 0 THEN {} ELSE {n},
                            ![p].pc = IF installed[n] # 0 THEN "prune" ELSE "delete"]
  /\ UNCHANGED <<flags, table, registry, installed, badge, edit, wiped, edits, syncs>>

PruneDelete(p) ==
  /\ sync[p].pc = "delete"
  /\ \E n \in sync[p].at :
       /\ registry' = [registry EXCEPT ![n] = NoEntry]
       /\ wiped' = (wiped \/ (~sync[p].answered /\ registry[n] # NoEntry))
       /\ sync' = Disturb(p, [sync[p] EXCEPT !.pc = "prune", !.at = {}])
  /\ UNCHANGED <<flags, table, installed, badge, edit, edits, syncs>>

Pruned(r) == r.pc = "prune" /\ r.stale = {}

-----------------------------------------------------------------------------
(* onSynced: CheckUpdates, then RunAutoUpdates. CheckUpdatesHandler runs the *)
(* first alone.                                                              *)
BeginCheck(p) ==
  /\ sync[p] = NoSync /\ syncs < MaxSyncs
  /\ sync' = [sync EXCEPT ![p].pc = "compare", ![p].rows = installed,
                          ![p].marks = badge, ![p].auto = FALSE]
  /\ syncs' = syncs + 1
  /\ UNCHANGED <<flags, table, registry, installed, badge, edit, wiped, edits>>

ListInstalled(p) ==
  /\ Pruned(sync[p])
  /\ sync' = [sync EXCEPT ![p] = [NoSync EXCEPT !.pc = "compare", !.rows = installed,
                                                !.marks = badge, !.calm = sync[p].calm]]
  /\ UNCHANGED <<flags, table, registry, installed, badge, edit, wiped, edits, syncs>>

(* The store's entry of a module, NoEntry if there is none.                  *)
GetEntry(n) == registry[n]

(* What available_version ought to be for version v, or 0.                   *)
newerMutant(n, v) == IF GetEntry(n).version = v THEN 0 ELSE GetEntry(n).version

newer(n, v) == IF GetEntry(n).version \in {0, v, Unknown} THEN 0 ELSE GetEntry(n).version

CheckUpdates(p) ==
  /\ sync[p].pc = "compare"
  /\ \E n \in Having(sync[p].rows) :
       LET v == newer(n, sync[p].rows[n]) IN
       sync' = IF v = 0 /\ sync[p].marks[n] = 0
               THEN [sync EXCEPT ![p].rows[n] = 0]
               ELSE [sync EXCEPT ![p].pc = "badge", ![p].at = {n}, ![p].entry.version = v]
  /\ UNCHANGED <<flags, table, registry, installed, badge, edit, wiped, edits, syncs>>

SetModuleAvailableVersion(p) ==
  /\ sync[p].pc = "badge"
  /\ \E n \in sync[p].at :
       LET v == sync[p].entry.version IN
       /\ badge' = IF installed[n] # 0 THEN [badge EXCEPT ![n] = v] ELSE badge
       /\ sync' = Disturb(p, [sync[p] EXCEPT !.pc = "compare", !.rows[n] = 0, !.at = {},
                                             !.updates = IF v # 0 THEN @ \cup {n} ELSE @,
                                             !.entry = NoEntry])
  /\ UNCHANGED <<flags, table, registry, installed, edit, wiped, edits, syncs>>

AutoBegin(p) ==
  /\ sync[p].pc = "compare" /\ Having(sync[p].rows) = {}
  /\ sync' = [sync EXCEPT ![p].pc = "auto", ![p].marks = Nothing,
                          ![p].updates = IF sync[p].auto THEN @ ELSE {}]
  /\ UNCHANGED <<flags, table, registry, installed, badge, edit, wiped, edits, syncs>>

RunAutoUpdates(p) ==
  /\ sync[p].pc = "auto"
  /\ \E n \in sync[p].updates :
       sync' = IF n \in autoUpdate
               THEN [sync EXCEPT ![p].updates = @ \ {n},
                       ![p].at = {n}, ![p].entry = GetEntry(n), ![p].pc = "apply"]
               ELSE [sync EXCEPT ![p].updates = @ \ {n}]
  /\ UNCHANGED <<flags, table, registry, installed, badge, edit, wiped, edits, syncs>>

(* Update refuses an unknown version, and a module that is gone, pinned or   *)
(* already on that version; a download or a check may fail. (Lifecycle has   *)
(* the steps.)                                                               *)
Updatable(n, e) ==
  installed[n] # 0 /\ n \notin pinned /\ e.version \notin {0, Unknown, installed[n]}

AutoUpdate(p) ==
  /\ sync[p].pc = "apply"
  /\ \E n \in sync[p].at :
       \/ /\ Updatable(n, sync[p].entry)
          /\ installed' = [installed EXCEPT ![n] = sync[p].entry.version]
          /\ badge' = [badge EXCEPT ![n] = 0]
          /\ sync' = Disturb(p, [sync[p] EXCEPT !.pc = "auto", !.at = {}, !.entry = NoEntry])
       \/ /\ sync' = [sync EXCEPT ![p].pc = "auto", ![p].at = {}, ![p].entry = NoEntry]
          /\ UNCHANGED <<installed, badge>>
  /\ UNCHANGED <<flags, table, registry, edit, wiped, edits, syncs>>

Checked(r) == r.pc = "auto" /\ r.updates = {}

EndSync(p) ==
  /\ Checked(sync[p])
  /\ sync' = [sync EXCEPT ![p] = NoSync]
  /\ UNCHANGED <<flags, table, registry, installed, badge, edit, wiped, edits, syncs>>

(* The admin who triggered the sync leaves and what is left of it fails, or  *)
(* the process dies.                                                         *)
AbandonSync(p) ==
  /\ sync[p] # NoSync
  /\ sync' = [sync EXCEPT ![p] = NoSync]
  /\ UNCHANGED <<flags, table, registry, installed, badge, edit, wiped, edits, syncs>>

-----------------------------------------------------------------------------
(* Admin requests, one at a time. The encrypted repo_url cannot be UNIQUE:   *)
(* a repository can be added twice.                                          *)
BeginEdit(r) ==
  /\ edit = NoAdminEdit /\ edits < MaxEdits
  /\ edits' = edits + 1 /\ edit' = r

CreateCustomSource(row) == table' = Append(table, row)

AddCustomSource(repo, key) ==
  /\ Len(table) < MaxRows
  /\ BeginEdit([NoAdminEdit EXCEPT !.pc = "fetch", !.row = [repo |-> repo, key |-> key]])
  /\ CreateCustomSource([repo |-> repo, key |-> key])
  /\ UNCHANGED <<flags, registry, installed, badge, sync, wiped, syncs>>

(* The first fetch is best effort.                                           *)
AddFetch ==
  /\ edit.pc = "fetch"
  /\ \E names \in Answers(edit.row.repo) \cup {{}} :
       edit' = IF names = {} THEN NoAdminEdit ELSE [edit EXCEPT !.pc = "upsert", !.todo = names]
  /\ UNCHANGED <<flags, table, registry, installed, badge, sync, wiped, edits, syncs>>

AddUpsert ==
  /\ edit.pc = "upsert"
  /\ \E n \in edit.todo, v \in Versions(edit.row.repo) :
       /\ registry' = [registry EXCEPT ![n] = EntryOf(edit.row, v)]
       /\ edit' = IF edit.todo = {n} THEN NoAdminEdit ELSE [edit EXCEPT !.todo = @ \ {n}]
  /\ sync' = DisturbAll
  /\ UNCHANGED <<flags, table, installed, badge, wiped, edits, syncs>>

(* A new key reaches the entries with the next sync.                         *)
UpdateCustomSource(i, key) ==
  /\ edit = NoAdminEdit /\ edits < MaxEdits /\ edits' = edits + 1
  /\ key # table[i].key /\ table' = [table EXCEPT ![i].key = key]
  /\ UNCHANGED <<flags, registry, installed, badge, sync, edit, wiped, syncs>>

DeleteCustomSource(i) ==
  /\ BeginEdit([NoAdminEdit EXCEPT !.pc = "list", !.row = table[i]])
  /\ table' = SubSeq(table, 1, i - 1) \o SubSeq(table, i + 1, Len(table))
  /\ UNCHANGED <<flags, registry, installed, badge, sync, wiped, syncs>>

DeleteEntriesBySourceRepo ==
  /\ edit.pc = "list"
  /\ LET names == {n \in ModuleNames : registry[n].repo = edit.row.repo} IN
     edit' = IF names = {} THEN NoAdminEdit ELSE [edit EXCEPT !.pc = "delete", !.todo = names]
  /\ UNCHANGED <<flags, table, registry, installed, badge, sync, wiped, edits, syncs>>

DeleteEntry ==
  /\ edit.pc = "delete"
  /\ \E n \in edit.todo :
       /\ registry' = IF installed[n] # 0 THEN registry ELSE [registry EXCEPT ![n] = NoEntry]
       /\ edit' = IF edit.todo = {n} THEN NoAdminEdit ELSE [edit EXCEPT !.todo = @ \ {n}]
  /\ sync' = DisturbAll
  /\ UNCHANGED <<flags, table, installed, badge, wiped, edits, syncs>>

(* Install and update by an admin read the entry, and finish much later.     *)
BeginInstall(n) ==
  /\ GetEntry(n) # NoEntry /\ n \notin pinned
  /\ BeginEdit([NoAdminEdit EXCEPT !.pc = "install", !.todo = {n}, !.entry = GetEntry(n)])
  /\ UNCHANGED <<flags, table, registry, installed, badge, sync, wiped, syncs>>

EndInstall ==
  /\ edit.pc = "install" /\ edit.entry.version # Unknown
  /\ \E n \in edit.todo :
       /\ installed' = [installed EXCEPT ![n] = edit.entry.version]
       /\ badge' = [badge EXCEPT ![n] = 0]
  /\ edit' = NoAdminEdit
  /\ sync' = DisturbAll
  /\ UNCHANGED <<flags, table, registry, wiped, edits, syncs>>

(* A request fails, its client leaves, or the process dies.                  *)
EditFails ==
  /\ edit # NoAdminEdit /\ edit' = NoAdminEdit
  /\ UNCHANGED <<flags, table, registry, installed, badge, sync, wiped, edits, syncs>>

(* Refused while the module is pinned; the flags go with the row.            *)
Uninstall(n) ==
  /\ edit = NoAdminEdit /\ edits < MaxEdits /\ edits' = edits + 1
  /\ installed[n] # 0 /\ n \notin pinned
  /\ installed' = [installed EXCEPT ![n] = 0] /\ badge' = [badge EXCEPT ![n] = 0]
  /\ autoUpdate' = autoUpdate \ {n}
  /\ sync' = DisturbAll
  /\ UNCHANGED <<pinned, table, registry, edit, wiped, syncs>>

(* PinHandler and UnpinHandler, AutoUpdateOnHandler and AutoUpdateOffHandler *)
(* answer 404 for a module that is not installed.                            *)
Flag(n) ==
  /\ edit = NoAdminEdit /\ edits < MaxEdits /\ edits' = edits + 1
  /\ installed[n] # 0
  /\ UNCHANGED <<table, registry, installed, badge, sync, edit, wiped, syncs>>

(* One that the module has already changes nothing.                          *)
Pin(n) == Flag(n) /\ n \notin pinned /\ pinned' = pinned \cup {n} /\ UNCHANGED autoUpdate
Unpin(n) == Flag(n) /\ n \in pinned /\ pinned' = pinned \ {n} /\ UNCHANGED autoUpdate
AutoUpdateOn(n) == Flag(n) /\ n \notin autoUpdate /\ autoUpdate' = autoUpdate \cup {n} /\ UNCHANGED pinned
AutoUpdateOff(n) == Flag(n) /\ n \in autoUpdate /\ autoUpdate' = autoUpdate \ {n} /\ UNCHANGED pinned

StoreNext ==
  \/ \E p \in Syncers :
       \/ BeginSync(p) \/ FetchFails(p) \/ FetchSource(p) \/ UpsertEntry(p) \/ ListCustomSources(p)
       \/ WriteFails(p) \/ pruneStaleEntries(p) \/ PruneCheck(p) \/ PruneDelete(p)
       \/ BeginCheck(p) \/ ListInstalled(p) \/ CheckUpdates(p) \/ SetModuleAvailableVersion(p)
       \/ AutoBegin(p) \/ RunAutoUpdates(p) \/ AutoUpdate(p) \/ EndSync(p) \/ AbandonSync(p)
  \/ \E repo \in Repos, key \in PubKeys : AddCustomSource(repo, key)
  \/ \E i \in DOMAIN table, key \in PubKeys : UpdateCustomSource(i, key)
  \/ \E i \in DOMAIN table : DeleteCustomSource(i)
  \/ \E n \in ModuleNames : BeginInstall(n) \/ Uninstall(n) \/ Pin(n) \/ Unpin(n)
                               \/ AutoUpdateOn(n) \/ AutoUpdateOff(n)
  \/ AddFetch \/ AddUpsert \/ DeleteEntriesBySourceRepo \/ DeleteEntry \/ EndInstall \/ EditFails

StoreSpec == StoreInit /\ [][StoreNext]_storeVars

-----------------------------------------------------------------------------
(* After a sync that some source answered, whose writes succeeded, and that  *)
(* nobody interfered with, the store holds what the answering sources list,  *)
(* each module from the last source that lists it and with that source's     *)
(* signing key, and of the rest only what is installed.                      *)
CatalogueMatches ==
  \A p \in Syncers :
    (Pruned(sync[p]) /\ sync[p].calm /\ sync[p].answered) =>
      \A n \in ModuleNames :
        \/ registry[n] = sync[p].want[n]
        \/ sync[p].want[n] = NoEntry /\ installed[n] # 0

(* After an update check that nobody interfered with, a module is marked     *)
(* exactly when the store has another version of it, and with that version.  *)
BadgesMatch ==
  \A p \in Syncers :
    (Checked(sync[p]) /\ sync[p].calm) =>
      \A n \in ModuleNames :
        badge[n] = IF installed[n] # 0 /\ registry[n].version \notin {0, Unknown, installed[n]}
                   THEN registry[n].version ELSE 0

(* "If everything failed we have no reliable current list and must not wipe  *)
(* the cache" (sync.go).                                                     *)
OutageKeepsCache == ~wiped
=============================================================================
