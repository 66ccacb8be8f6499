-------------------------------- MODULE GeoIP --------------------------------
(***************************************************************************)
(* The GeoLite2 databases (internal/geoip, internal/setup/geoip.go): their   *)
(* configuration in core_settings, the downloads that replace the files, and *)
(* the lazily reopened readers that serve every request's lookup.            *)
(*                                                                           *)
(* A file is an inode: os.Create truncates the one that the path names,      *)
(* os.Rename moves it, and whoever has it open keeps it. clock gives         *)
(* modification times and the identities of opened readers.                  *)
(***************************************************************************)
EXTENDS Integers, Sequences

CONSTANTS
  Ops,         \* goroutines: the scheduler's and those of admin requests
  Scheduler,   \* the one of RunScheduler, a loop: one download at a time
  Lookups,     \* requests that look an address up
  Inodes,      \* identities of files on disk
  Editions,    \* the sequence of editions downloadAll goes through
  None,
  MaxOps,      \* bound: requests and scheduled downloads begun
  MaxRelease   \* bound: releases MaxMind publishes

ASSUME GeoAssumption ==
  /\ Scheduler \in Ops
  /\ None \notin Inodes
  /\ Editions \in Seq(STRING) /\ Editions # << >>
  /\ MaxOps \in Nat /\ MaxRelease \in Nat \ {0}

Names == {Editions[k] : k \in 1 .. Len(Editions)}
Keys == {"account", "license", "lastCheck", "lastUpdate", "lastError"}

VARIABLES
  settings,   \* the GeoIP keys that are set in core_settings
  release,    \* the newest release MaxMind has served
  tmp, file,  \* <edition>.mmdb.tmp and <edition>.mmdb: an inode or None
  data,       \* an inode's content: a release, or 0 for anything incomplete
  mtime,      \* an inode's modification time
  clock,
  op,         \* what each goroutine is doing
  readers,    \* cityReader and asnReader
  look,       \* what each lookup is doing
  audited,    \* the newest of the two audit events, or "none"; "uncleared" for
              \* a success after which the old error could not be deleted
  begun,
  overlapped  \* history: two downloads were under way at once

disk == <<tmp, file, data, mtime>>
geoVars == <<settings, release, disk, clock, op, readers, look, audited, begun, overlapped>>

-----------------------------------------------------------------------------
Idle == [kind |-> "idle", pc |-> "idle", todo |-> {}, ed |-> 1, rel |-> 0,
         fd |-> None, failed |-> FALSE, live |-> TRUE]

Closed == [ino |-> None, id |-> 0]
NoReader == [h |-> Closed, mtime |-> 0]
NoLook == [pc |-> "idle", ed |-> Editions[1], h |-> Closed, seen |-> 0, since |-> 0]

GeoInit ==
  /\ settings = {} /\ release = 1
  /\ tmp = [e \in Names |-> None] /\ file = [e \in Names |-> None]
  /\ data = [i \in Inodes |-> 0] /\ mtime = [i \in Inodes |-> 0]
  /\ clock = 0
  /\ op = [g \in Ops |-> Idle]
  /\ readers = [e \in Names |-> NoReader]
  /\ look = [l \in Lookups |-> NoLook]
  /\ audited = "none" /\ begun = 0 /\ overlapped = FALSE

At(g, pc) == op[g].pc = pc
Goto(g, pc) == op' = [op EXCEPT ![g].pc = pc]
Done(g) == op' = [op EXCEPT ![g] = Idle]

Downloading == {g \in Ops : op[g].pc \in {"download", "check", "fetch", "copy", "rename",
                                         "fail", "ok1", "ok2", "kept"}}

(* A SetSetting or DeleteSetting of a request whose client has left fails.   *)
Sets(g, k) == settings' = IF op[g].live THEN settings \cup {k} ELSE settings
Clears(g, k) == settings' = IF op[g].live THEN settings \ {k} ELSE settings

-----------------------------------------------------------------------------
(* Administration *)

Begin(g, o) ==
  /\ op[g] = Idle /\ begun < MaxOps
  /\ op' = [op EXCEPT ![g] = o] /\ begun' = begun + 1

(* GeoIPConfigureHandler: a new license key is optional. (The check time,    *)
(* which it also stores, is when Schedule happens.)                          *)
Configure(g, keys) ==
  /\ g # Scheduler
  /\ "account" \in keys /\ keys \subseteq {"account", "license"}
  /\ Begin(g, [Idle EXCEPT !.kind = "configure", !.todo = keys, !.pc = "save"])
  /\ UNCHANGED <<settings, release, disk, clock, readers, look, audited, overlapped>>

(* The keys in the order of a Go map, then triggerDownload; a failing write  *)
(* ends the request.                                                         *)
SaveGeoKey(g, k) ==
  /\ At(g, "save") /\ k \in op[g].todo
  /\ Sets(g, k)
  /\ LET left == op[g].todo \ {k}
     IN op' = [op EXCEPT ![g] =
                IF ~op[g].live THEN Idle
                ELSE [@ EXCEPT !.todo = left, !.pc = IF left = {} THEN "download" ELSE "save"]]
  /\ overlapped' = (overlapped \/ (op'[g].pc = "download" /\ Downloading # {}))
  /\ UNCHANGED <<release, disk, clock, readers, look, audited, begun>>

(* GeoIPDeleteHandler                                                        *)
Delete(g) ==
  /\ g # Scheduler
  /\ Begin(g, [Idle EXCEPT !.kind = "delete", !.pc = "clear", !.todo = Keys])
  /\ UNCHANGED <<settings, release, disk, clock, readers, look, audited, overlapped>>

geoDeleteOrder == <<"account", "license", "lastUpdate", "lastError", "lastCheck">>

ClearKey(g) ==
  /\ At(g, "clear")
  /\ \E k \in op[g].todo :
       /\ \A i, j \in 1 .. Len(geoDeleteOrder) :
            (i < j /\ geoDeleteOrder[j] = k) => geoDeleteOrder[i] \notin op[g].todo
       /\ Clears(g, k)
       /\ op' = [op EXCEPT ![g] =
                  IF ~op[g].live \/ op[g].todo = {k} THEN Idle
                  ELSE [op[g] EXCEPT !.todo = op[g].todo \ {k}]]
  /\ UNCHANGED <<release, disk, clock, readers, look, audited, begun, overlapped>>

(* RunScheduler reaches its time of day.                                     *)
Schedule ==
  /\ Begin(Scheduler, [Idle EXCEPT !.kind = "scheduled", !.pc = "download"])
  /\ overlapped' = (overlapped \/ Downloading # {})
  /\ UNCHANGED <<settings, release, disk, clock, readers, look, audited>>

(* The client of a request leaves: its context ends.                         *)
Cancel(g) ==
  /\ op[g].kind \in {"configure", "delete"} /\ op[g].live
  /\ op' = [op EXCEPT ![g].live = FALSE]
  /\ UNCHANGED <<settings, release, disk, clock, readers, look, audited, begun, overlapped>>

-----------------------------------------------------------------------------
(* downloadAll *)

(* GeoIPConfigured and ResolveGeoIPConfig                                    *)
Resolve(g) ==
  /\ At(g, "download")
  /\ IF op[g].live /\ "account" \in settings THEN Goto(g, "check") ELSE Done(g)
  /\ UNCHANGED <<settings, release, disk, clock, readers, look, audited, begun, overlapped>>

(* The attempt is recorded before its outcome; MkdirAll may fail.            *)
RecordCheck(g) ==
  /\ At(g, "check")
  /\ Sets(g, "lastCheck")
  /\ Goto(g, "fetch") \/ Goto(g, "fail")
  /\ UNCHANGED <<release, disk, clock, readers, look, audited, begun, overlapped>>

(* After an edition: the next one, or the outcome of all.                    *)
NextEdition(o, bad) ==
  LET failed == o.failed \/ bad
  IN IF o.ed < Len(Editions)
     THEN [o EXCEPT !.pc = "fetch", !.ed = @ + 1, !.failed = failed, !.fd = None]
     ELSE [o EXCEPT !.pc = IF failed THEN "fail" ELSE "ok1", !.failed = failed, !.fd = None]

Unused(i) ==
  /\ \A e \in Names : i \notin {tmp[e], file[e], readers[e].h.ino}
  /\ \A g \in Ops : i # op[g].fd
  /\ \A l \in Lookups : i # look[l].h.ino

(* downloadEdition: the request fails, or the archive's release goes to      *)
(* os.Create(tmpPath): the inode the path names, truncated, or a new one.    *)
FetchEdition(g) ==
  LET e == Editions[op[g].ed]
  IN /\ At(g, "fetch")
     /\ \/ /\ op' = [op EXCEPT ![g] = NextEdition(@, TRUE)]
           /\ UNCHANGED <<release, disk, clock>>
        \/ /\ op[g].live
           /\ \E i \in Inodes, r \in release .. MaxRelease :
                /\ IF tmp[e] = None THEN Unused(i) ELSE i = tmp[e]
                /\ release' = r
                /\ tmp' = [tmp EXCEPT ![e] = i]
                /\ data' = [data EXCEPT ![i] = 0]
                /\ mtime' = [mtime EXCEPT ![i] = clock + 1]
                /\ op' = [op EXCEPT ![g].pc = "copy", ![g].fd = i, ![g].rel = r]
           /\ clock' = clock + 1
           /\ UNCHANGED file
     /\ UNCHANGED <<settings, readers, look, audited, begun, overlapped>>

Sharing(g) == \E h \in Ops \ {g} : op[h].fd = op[g].fd /\ At(h, "copy")

(* io.Copy and Close. Two writers of one inode may leave a mixture. When it  *)
(* fails, whatever the path names now is removed.                            *)
Copy(g) ==
  LET e == Editions[op[g].ed]
  IN /\ At(g, "copy")
     /\ \/ /\ \E d \in (IF Sharing(g) THEN {0, op[g].rel} ELSE {op[g].rel}) :
                data' = [data EXCEPT ![op[g].fd] = d]
           /\ mtime' = [mtime EXCEPT ![op[g].fd] = clock + 1]
           /\ clock' = clock + 1
           /\ Goto(g, "rename")
           /\ UNCHANGED tmp
        \/ /\ tmp' = [tmp EXCEPT ![e] = None]
           /\ op' = [op EXCEPT ![g] = NextEdition(@, TRUE)]
           /\ UNCHANGED <<data, mtime, clock>>
     /\ UNCHANGED <<settings, release, file, readers, look, audited, begun, overlapped>>

(* The temporary file is renamed before it is complete.                      *)
RenameMutant(g) ==
  LET e == Editions[op[g].ed]
  IN /\ op[g].pc \in {"copy", "rename"} /\ tmp[e] # None
     /\ file' = [file EXCEPT ![e] = tmp[e]]
     /\ tmp' = [tmp EXCEPT ![e] = None]
     /\ op' = [op EXCEPT ![g] = NextEdition(@, FALSE)]
     /\ UNCHANGED <<settings, release, data, mtime, clock, readers, look, audited, begun, overlapped>>

Rename(g) ==
  LET e == Editions[op[g].ed]
  IN /\ At(g, "rename")
     /\ \/ /\ tmp[e] # None
           /\ file' = [file EXCEPT ![e] = tmp[e]]
           /\ tmp' = [tmp EXCEPT ![e] = None]
           /\ op' = [op EXCEPT ![g] = NextEdition(@, FALSE)]
        \/ /\ op' = [op EXCEPT ![g] = NextEdition(@, TRUE)]
           /\ UNCHANGED <<tmp, file>>
     /\ UNCHANGED <<settings, release, data, mtime, clock, readers, look, audited, begun, overlapped>>

(* recordFailure: the setting and the audit event.                           *)
recordFailure(g) ==
  /\ At(g, "fail")
  /\ Sets(g, "lastError")
  /\ audited' = IF op[g].live THEN "failed" ELSE audited
  /\ Done(g)
  /\ UNCHANGED <<release, disk, clock, readers, look, begun, overlapped>>

(* The old error is forgotten only when the next one comes.                  *)
ClearErrorMutant(g) ==
  /\ At(g, "ok1") /\ Goto(g, "ok2")
  /\ UNCHANGED <<settings, release, disk, clock, readers, look, audited, begun, overlapped>>

ClearError(g) ==
  /\ At(g, "ok1")
  /\ Clears(g, "lastError")
  /\ Goto(g, "ok2")
  /\ UNCHANGED <<release, disk, clock, readers, look, audited, begun, overlapped>>

(* Its failure is only logged: the old error stays on display.               *)
ClearErrorFails(g) ==
  /\ At(g, "ok1") /\ Goto(g, "kept")
  /\ UNCHANGED <<settings, release, disk, clock, readers, look, audited, begun, overlapped>>

RecordSuccess(g) ==
  /\ At(g, "ok2") \/ At(g, "kept")
  /\ Sets(g, "lastUpdate")
  /\ audited' = IF ~op[g].live THEN audited ELSE IF op[g].pc = "kept" THEN "uncleared" ELSE "succeeded"
  /\ Done(g)
  /\ UNCHANGED <<release, disk, clock, readers, look, begun, overlapped>>

-----------------------------------------------------------------------------
(* Lookups: reader.get and the use of what it returns *)

Content(i) == IF i = None THEN 0 ELSE data[i]

(* Under RLock: what is open, and as of when.                                *)
LookupBegin(l, e) ==
  /\ look[l].pc = "idle"
  /\ look' = [look EXCEPT ![l] = [pc |-> "stat", ed |-> e, h |-> readers[e].h,
                                  seen |-> readers[e].mtime, since |-> Content(file[e])]]
  /\ UNCHANGED <<settings, release, disk, clock, op, readers, audited, begun, overlapped>>

(* os.Stat without a lock: no file, still the one that is open, or another.  *)
LookupStat(l) ==
  LET e == look[l].ed
      i == file[e]
  IN /\ look[l].pc = "stat"
     /\ look' = [look EXCEPT ![l] =
          IF i = None THEN NoLook
          ELSE IF @.h # Closed /\ mtime[i] = @.seen THEN [@ EXCEPT !.pc = "use"]
          ELSE [@ EXCEPT !.pc = "lock", !.seen = mtime[i], !.h = Closed]]
     /\ UNCHANGED <<settings, release, disk, clock, op, readers, audited, begun, overlapped>>

(* The modification time is read after the file is opened.                   *)
LookupReopenMutant(l) ==
  LET e == look[l].ed
      i == file[e]
      h == [ino |-> i, id |-> clock + 1]
  IN /\ look[l].pc = "lock" /\ i # None
     /\ readers' = [readers EXCEPT ![e].h = IF @ = Closed THEN h ELSE @, ![e].mtime = mtime[i]]
     /\ look' = [look EXCEPT ![l].pc = "use", ![l].h = readers'[e].h]
     /\ clock' = clock + 1
     /\ UNCHANGED <<settings, release, disk, op, audited, begun, overlapped>>

(* Under the lock: somebody else has reopened it for this mtime; or the file *)
(* cannot be opened; or it is opened and the previous reader is closed.      *)
LookupReopen(l) ==
  LET e == look[l].ed
      i == file[e]
      h == [ino |-> i, id |-> clock + 1]
  IN /\ look[l].pc = "lock"
     /\ \/ /\ readers[e].h # Closed /\ readers[e].mtime = look[l].seen
           /\ look' = [look EXCEPT ![l].pc = "use", ![l].h = readers[e].h]
           /\ UNCHANGED <<readers, clock>>
        \/ /\ readers[e].h = Closed \/ readers[e].mtime # look[l].seen
           /\ IF Content(i) = 0
              THEN look' = [look EXCEPT ![l] = NoLook] /\ UNCHANGED <<readers, clock>>
              ELSE /\ readers' = [readers EXCEPT ![e] = [h |-> h, mtime |-> look[l].seen]]
                   /\ look' = [look EXCEPT ![l].pc = "use", ![l].h = h]
                   /\ clock' = clock + 1
     /\ UNCHANGED <<settings, release, disk, op, audited, begun, overlapped>>

LookupUse(l) ==
  /\ look[l].pc = "use"
  /\ look' = [look EXCEPT ![l] = NoLook]
  /\ UNCHANGED <<settings, release, disk, clock, op, readers, audited, begun, overlapped>>

-----------------------------------------------------------------------------
(* The environment *)

(* Core is killed and started again: a half-written temporary file stays.    *)
CoreRestart ==
  /\ begun < MaxOps /\ begun' = begun + 1
  /\ op' = [g \in Ops |-> Idle]
  /\ readers' = [e \in Names |-> NoReader]
  /\ look' = [l \in Lookups |-> NoLook]
  /\ UNCHANGED <<settings, release, disk, clock, audited, overlapped>>

GeoNext ==
  \/ \E g \in Ops :
       \/ \E keys \in SUBSET Keys : Configure(g, keys)
       \/ \E k \in Keys : SaveGeoKey(g, k)
       \/ Delete(g) \/ ClearKey(g) \/ Cancel(g)
       \/ Resolve(g) \/ RecordCheck(g) \/ FetchEdition(g) \/ Copy(g) \/ Rename(g)
       \/ recordFailure(g) \/ ClearError(g) \/ ClearErrorFails(g) \/ RecordSuccess(g)
  \/ Schedule \/ CoreRestart
  \/ \E l \in Lookups :
       \/ \E e \in Names : LookupBegin(l, e)
       \/ LookupStat(l) \/ LookupReopen(l) \/ LookupUse(l)

GeoSpec == GeoInit /\ [][GeoNext]_geoVars

-----------------------------------------------------------------------------
(* Properties *)

(* "A concurrent LookupCity/LookupASN call never observes a half-written     *)
(* file": as long as downloads do not overlap, what an edition's path names, *)
(* and what any lookup reads through, is one complete release.               *)
WholeFiles ==
  ~overlapped => /\ \A e \in Names : file[e] # None => data[file[e]] # 0
            /\ \A l \in Lookups : look[l].pc = "use" => data[look[l].h.ino] # 0

(* "A fresh download takes effect for the very next lookup": what a lookup   *)
(* reads is at least as new as the file was when the lookup began, however   *)
(* its stat and reopen interleave with downloads and with other lookups.     *)
LookupIsFresh ==
  ~overlapped => \A l \in Lookups : look[l].pc = "use" => data[look[l].h.ino] >= look[l].since

(* What the admin page shows is true: while nothing runs, an error is on     *)
(* display only if the newest attempt failed or the deletion of the error    *)
(* did, and a time of the last update only if there is a database of every   *)
(* edition.                                                                  *)
StatusTellsTruth ==
  (~overlapped /\ \A g \in Ops : op[g] = Idle) =>
    /\ "lastError" \in settings => audited \in {"failed", "uncleared"}
    /\ "lastUpdate" \in settings => \A e \in Names : file[e] # None

(* "Concurrent LookupCity/LookupASN calls can read through the same          *)
(* already-open *geoip2.Reader": the reader a lookup uses has not been       *)
(* closed by another lookup.                                                 *)
ReadsOpenReader ==
  \A l \in Lookups : look[l].pc = "use" => look[l].h = readers[look[l].ed].h
=============================================================================
