--------------------------- MODULE LifecycleProofs ---------------------------
(***************************************************************************)
(* What holds of Lifecycle for any number of concurrent operations,          *)
(* versions, files and migrations, and any number of failures: the types,    *)
(* that module_migrations lists only what is committed, that no path leaves  *)
(* a row in "installing", and, as long as no two operations overlap, that no *)
(* upload is lost, that an active module's code can be recovered, and that   *)
(* it has the files and migrations its row names.                            *)
(***************************************************************************)
EXTENDS Lifecycle, TLAPS

OpsTyped == op \in [Ops -> Operations] /\ \A o \in Ops : AtHand(op[o])

(* Everything of TypeOK that is not about the operations.                    *)
StateTyped ==
  /\ row \in Rows
  /\ Installed => row.version \in Versions
  /\ dirs \in [DirNames -> Dir]
  /\ zips \subseteq Versions
  /\ schema \subseteq Scripts /\ recorded \subseteq Scripts
  /\ provisioned \in BOOLEAN
  /\ worker \in MaybeVersion
  /\ events \in 0 .. MaxEvents
  /\ uploading \subseteq Files /\ stored \subseteq Files
  /\ upset \subseteq Upsets

LEMMA TypeParts == TypeOK <=> OpsTyped /\ StateTyped
  BY DEF TypeOK, OpsTyped, StateTyped

LEMMA IdleTyped == Idle \in Operations /\ AtHand(Idle)
  BY DEF Idle, Operations, AtHand, PCs, Kinds, Sources, MaybeVersion

LEMMA ReturnTyped ==
  ASSUME OpsTyped, NEW o \in Ops, Return(o)
  PROVE  OpsTyped'
  BY IdleTyped DEF OpsTyped, Return

LEMMA GotoTyped ==
  ASSUME OpsTyped, NEW o \in Ops, NEW l \in PCs, Goto(o, l),
         l \in {"fetch", "migrate", "crud"} => op[o].kind \in {"install", "update"},
         l = "rollback" => op[o].kind = "update",
         l = "restore" => op[o].zip \in Versions
  PROVE  OpsTyped'
  <1>1. op[o] \in Operations /\ AtHand(op[o]) BY DEF OpsTyped
  <1>2. [op[o] EXCEPT !.pc = l] \in Operations BY <1>1 DEF Operations
  <1>3. AtHand([op[o] EXCEPT !.pc = l]) BY <1>1 DEF Operations, AtHand
  <1> QED BY <1>2, <1>3 DEF OpsTyped, Goto

LEMMA OnErrorTyped ==
  ASSUME OpsTyped, NEW o \in Ops, op[o].kind \in {"install", "update"}, OnError(o)
  PROVE  OpsTyped'
  BY GotoTyped DEF OnError, PCs

LEMMA TypePartsNext == TypeOK' <=> OpsTyped' /\ StateTyped'
  BY DEF TypeOK, OpsTyped, StateTyped

LEMMA SetStatusTyped ==
  ASSUME StateTyped, NEW o \in Ops, NEW s \in Statuses \ {"none"}, SetStatus(o, s)
  PROVE  row' \in Rows /\ (Installed' => row'.version \in Versions)
  BY DEF StateTyped, SetStatus, Rows, Installed

LEMMA RemoveAllTyped ==
  ASSUME NEW ds \in [DirNames -> Dir], NEW d \in DirNames
  PROVE  RemoveAll(ds, d) \subseteq [DirNames -> Dir]
  <1>1. Absent \in Dir BY DEF Absent, Dir, MaybeVersion
  <1>2. [ds EXCEPT ![d] = Absent] \in [DirNames -> Dir] BY <1>1
  <1>3. Partly(ds, d) \subseteq [DirNames -> Dir] BY DEF Partly, Dir, MaybeVersion
  <1> QED BY <1>2, <1>3 DEF RemoveAll

LEMMA DirsTyped ==
  ASSUME StateTyped, NEW d \in DirNames, NEW e \in DirNames, NEW v \in MaybeVersion
  PROVE  /\ CopyOver(d, v) \in [DirNames -> Dir]
         /\ CopyPart(d) \in [DirNames -> Dir]
         /\ Renamed(d, e) \in [DirNames -> Dir]
         /\ RemoveAll(dirs, d) \subseteq [DirNames -> Dir]
  <1>1. dirs \in [DirNames -> Dir] BY DEF StateTyped
  <1>2. Absent \in Dir BY DEF Absent, Dir, MaybeVersion
  <1>3. CopyOver(d, v) \in [DirNames -> Dir] BY <1>1 DEF CopyOver, Dir
  <1>4. CopyPart(d) \in [DirNames -> Dir] BY <1>1 DEF CopyPart, Dir, MaybeVersion
  <1>5. Renamed(d, e) \in [DirNames -> Dir] BY <1>1, <1>2 DEF Renamed
  <1>6. RemoveAll(dirs, d) \subseteq [DirNames -> Dir] BY <1>1, RemoveAllTyped
  <1> QED BY <1>3, <1>4, <1>5, <1>6

LEMMA NamesTyped ==
  /\ Dest \in DirNames
  /\ \A v \in Versions : New(v) \in DirNames /\ Old(v) \in DirNames
  BY DEF DirNames, Dest, New, Old

-----------------------------------------------------------------------------
(* One step of an operation keeps the types.                                 *)
LEMMA StepsTyped ==
  ASSUME TypeOK, NEW o \in Ops, Steps(o)
  PROVE  TypeOK'
  <1> USE MigrationsAssumption
  <1>a. OpsTyped /\ StateTyped BY TypeParts
  <1>b. op[o] \in Operations /\ AtHand(op[o]) BY <1>a DEF OpsTyped
  <1>1. CASE Fetch(o)
    <2>1. OpsTyped'
      BY <1>a, <1>b, <1>1, GotoTyped, ReturnTyped
      DEF Fetch, At, AtHand, PCs
    <2>2. StateTyped'
      BY <1>a, <1>b, <1>1
      DEF Fetch, At, AtHand, StateTyped, Installed, database, uploads, Operations
    <2> QED BY <2>1, <2>2, TypePartsNext
  <1>2. CASE Insert(o)
    <2>1. OpsTyped'
      BY <1>a, <1>b, <1>2, GotoTyped, ReturnTyped
      DEF Insert, At, AtHand, PCs
    <2>a. op[o].new \in Versions BY <1>b, <1>2 DEF Insert, At, AtHand
    <2>b. [status |-> "installing", version |-> op[o].new, zip |-> NoVersion,
           url |-> op[o].source = "registry"] \in Rows
      BY <2>a DEF Rows, Statuses, MaybeVersion
    <2>c. row' \in Rows /\ (Installed' => row'.version \in Versions)
      BY <1>a, <1>2, <2>a, <2>b DEF Insert, StateTyped, Installed
    <2>2. StateTyped'
      BY <1>a, <1>2, <2>c DEF Insert, StateTyped, database, uploads
    <2> QED BY <2>1, <2>2, TypePartsNext
  <1>3. CASE Fill(o)
    <2>1. OpsTyped'
      BY <1>a, <1>b, <1>3, GotoTyped, OnErrorTyped
      DEF Fill, At, AtHand, PCs
    <2>2. StateTyped'
      BY <1>a, <1>b, <1>3, DirsTyped, NamesTyped
      DEF Fill, At, AtHand, StateTyped, Installed, database, uploads, Operations
    <2> QED BY <2>1, <2>2, TypePartsNext
  <1>4. CASE Migrate(o)
    <2>1. OpsTyped'
      BY <1>a, <1>b, <1>4, GotoTyped, OnErrorTyped
      DEF Migrate, At, AtHand, PCs
    <2>2. StateTyped'
      BY <1>a, <1>b, <1>4
      DEF Migrate, ProvisionSchema, At, AtHand, StateTyped, Installed, database, uploads, Operations
    <2> QED BY <2>1, <2>2, TypePartsNext
  <1>5. CASE Record(o)
    <2>1. OpsTyped'
      BY <1>a, <1>b, <1>5, GotoTyped
      DEF Record, At, AtHand, PCs
    <2>2. StateTyped'
      BY <1>a, <1>b, <1>5
      DEF Record, At, AtHand, StateTyped, Installed, database, uploads, Operations
    <2> QED BY <2>1, <2>2, TypePartsNext
  <1>6. CASE CheckCrud(o)
    <2>1. OpsTyped'
      BY <1>a, <1>b, <1>6, GotoTyped, OnErrorTyped
      DEF CheckCrud, At, AtHand, PCs
    <2>2. StateTyped'
      BY <1>a, <1>b, <1>6
      DEF CheckCrud, At, AtHand, StateTyped, Installed, database, uploads, Operations
    <2> QED BY <2>1, <2>2, TypePartsNext
  <1>7. CASE StopWorker(o)
    <2>1. OpsTyped'
      BY <1>a, <1>b, <1>7, GotoTyped, ReturnTyped
      DEF StopWorker, At, AtHand, PCs
    <2>2. StateTyped'
      BY <1>a, <1>b, <1>7
      DEF StopWorker, At, AtHand, StateTyped, Installed, database, uploads,
          Operations, MaybeVersion
    <2> QED BY <2>1, <2>2, TypePartsNext
  <1>8. CASE StartWorker(o)
    <2>1. OpsTyped'
      BY <1>a, <1>b, <1>8, GotoTyped, ReturnTyped, OnErrorTyped
      DEF StartWorker, At, AtHand, PCs
    <2>2. StateTyped'
      BY <1>a, <1>b, <1>8, NamesTyped
      DEF StartWorker, At, AtHand, StateTyped, Installed, database, uploads,
          Operations, MaybeVersion, Dir
    <2> QED BY <2>1, <2>2, TypePartsNext
  <1>9. CASE Activate(o)
    <2>1. OpsTyped'
      BY <1>a, <1>b, <1>9, GotoTyped, ReturnTyped
      DEF Activate, At, AtHand, PCs
    <2>2. StateTyped'
      BY <1>a, <1>b, <1>9, SetStatusTyped
      DEF Activate, At, AtHand, StateTyped, Installed, database, uploads, Operations,
          MaybeVersion, Statuses
    <2> QED BY <2>1, <2>2, TypePartsNext
  <1>10. CASE MarkFailed(o)
    <2>1. OpsTyped'
      BY <1>a, <1>b, <1>10, ReturnTyped
      DEF MarkFailed, At, AtHand, PCs
    <2>2. StateTyped'
      BY <1>a, <1>b, <1>10, SetStatusTyped
      DEF MarkFailed, At, AtHand, StateTyped, Installed, database, uploads,
          Operations, Statuses
    <2> QED BY <2>1, <2>2, TypePartsNext
  <1>11. CASE Cache(o)
    <2>a. [op[o] EXCEPT !.pc = "setzip", !.zip = op[o].old] \in Operations
      BY <1>b DEF Operations, PCs
    <2>b. AtHand([op[o] EXCEPT !.pc = "setzip", !.zip = op[o].old])
      BY <1>b, <1>11 DEF Operations, AtHand, Cache, At
    <2>1. OpsTyped'
      <3>1. CASE op' = [op EXCEPT ![o].pc = "setzip", ![o].zip = op[o].old]
        <4>1. op' = [op EXCEPT ![o] = [op[o] EXCEPT !.pc = "setzip", !.zip = op[o].old]]
          BY <1>a, <3>1 DEF OpsTyped, Operations
        <4> QED BY <1>a, <2>a, <2>b, <4>1 DEF OpsTyped
      <3>2. CASE Goto(o, "fetch")
        BY <1>a, <1>11, <3>2, GotoTyped DEF Cache, At, PCs
      <3> QED BY <1>11, <3>1, <3>2 DEF Cache
    <2>2. StateTyped'
      BY <1>a, <1>b, <1>11
      DEF Cache, At, AtHand, StateTyped, Installed, database, uploads, Upsets
    <2> QED BY <2>1, <2>2, TypePartsNext
  <1>12. CASE Copy(o)
    <2>1. OpsTyped'
      BY <1>a, <1>b, <1>12, GotoTyped, OnErrorTyped
      DEF Copy, At, AtHand, PCs
    <2>a. op[o].new \in Versions /\ New(op[o].new) \in DirNames
      BY <1>b, <1>12, NamesTyped DEF Copy, At, AtHand
    <2>b. dirs \in [DirNames -> Dir] BY <1>a DEF StateTyped
    <2>c. /\ CopyOver(New(op[o].new), op[o].new) \in [DirNames -> Dir]
          /\ CopyPart(New(op[o].new)) \in [DirNames -> Dir]
      BY <1>a, <2>a, DirsTyped DEF MaybeVersion
    <2>d. RemoveAll(CopyPart(New(op[o].new)),
        New(op[o].new)) \subseteq [DirNames -> Dir]
      BY <2>a, <2>c, RemoveAllTyped
    <2>2. StateTyped'
      BY <1>a, <1>12, <2>b, <2>c, <2>d
      DEF Copy, StateTyped, Installed, database, uploads
    <2> QED BY <2>1, <2>2, TypePartsNext
  <1>13. CASE MoveOld(o)
    <2>1. OpsTyped'
      BY <1>a, <1>b, <1>13, GotoTyped, OnErrorTyped
      DEF MoveOld, At, AtHand, PCs
    <2>2. StateTyped'
      BY <1>a, <1>b, <1>13, DirsTyped, NamesTyped
      DEF MoveOld, At, AtHand, StateTyped, Installed, database, uploads, Operations
    <2> QED BY <2>1, <2>2, TypePartsNext
  <1>14. CASE MoveNew(o)
    <2>1. OpsTyped'
      BY <1>a, <1>b, <1>14, GotoTyped, OnErrorTyped
      DEF MoveNew, At, AtHand, PCs
    <2>a. Dest \in DirNames /\ Old(op[o].old) \in DirNames /\ New(op[o].new) \in DirNames
      BY <1>b, <1>14, NamesTyped DEF MoveNew, At, AtHand
    <2>b. dirs \in [DirNames -> Dir] BY <1>a DEF StateTyped
    <2>c. /\ Renamed(New(op[o].new), Dest) \in [DirNames -> Dir]
          /\ Renamed(Old(op[o].old), Dest) \in [DirNames -> Dir]
      BY <1>a, <2>a, DirsTyped DEF MaybeVersion
    <2>d. /\ RemoveAll(Renamed(Old(op[o].old), Dest), New(op[o].new))
               \subseteq [DirNames -> Dir]
          /\ RemoveAll(dirs, New(op[o].new)) \subseteq [DirNames -> Dir]
      BY <2>a, <2>b, <2>c, RemoveAllTyped
    <2>e. dirs' \in [DirNames -> Dir] BY <1>14, <2>c, <2>d DEF MoveNew
    <2>2. StateTyped'
      BY <1>a, <1>14, <2>e DEF MoveNew, StateTyped, Installed, database, uploads
    <2> QED BY <2>1, <2>2, TypePartsNext
  <1>15. CASE MoveStorage(o)
    <2>1. OpsTyped'
      BY <1>a, <1>b, <1>15, GotoTyped
      DEF MoveStorage, At, AtHand, PCs
    <2>a. Dest \in DirNames /\ Old(op[o].old) \in DirNames
      BY <1>b, <1>15, NamesTyped DEF MoveStorage, At, AtHand
    <2>b. dirs \in [DirNames -> Dir] BY <1>a DEF StateTyped
    <2>c. [dirs EXCEPT ![Dest].storage = dirs[Old(op[o].old)].storage,
                       ![Old(op[o].old)].storage = {}] \in [DirNames -> Dir]
      BY <2>a, <2>b DEF Dir
    <2>2. StateTyped'
      BY <1>a, <1>15, <2>c DEF MoveStorage, StateTyped, Installed, database, uploads,
          Upsets
    <2> QED BY <2>1, <2>2, TypePartsNext
  <1>16. CASE Discard(o)
    <2>1. OpsTyped'
      BY <1>a, <1>b, <1>16, GotoTyped
      DEF Discard, At, AtHand, PCs
    <2>2. StateTyped'
      BY <1>a, <1>b, <1>16, DirsTyped, NamesTyped
      DEF Discard, At, AtHand, StateTyped, Installed, database, uploads, Operations
    <2> QED BY <2>1, <2>2, TypePartsNext
  <1>17. CASE UpdateRow(o)
    <2>1. OpsTyped'
      BY <1>a, <1>b, <1>17, GotoTyped, ReturnTyped
      DEF UpdateRow, At, AtHand, PCs
    <2>2. StateTyped'
      BY <1>a, <1>b, <1>17
      DEF UpdateRow, At, AtHand, StateTyped, Installed, database, uploads,
          Operations, Rows, MaybeVersion
    <2> QED BY <2>1, <2>2, TypePartsNext
  <1>18. CASE DropZip(o)
    <2>1. OpsTyped'
      BY <1>a, <1>b, <1>18, GotoTyped
      DEF DropZip, At, AtHand, PCs
    <2>2. StateTyped'
      BY <1>a, <1>b, <1>18
      DEF DropZip, At, AtHand, StateTyped, Installed, database, uploads, Operations,
          Rows, MaybeVersion
    <2> QED BY <2>1, <2>2, TypePartsNext
  <1>19. CASE Rollback(o)
    <2>1. OpsTyped'
      BY <1>a, <1>b, <1>19, GotoTyped, ReturnTyped
      DEF Rollback, At, AtHand, PCs, Operations, MaybeVersion
    <2>2. StateTyped'
      BY <1>a, <1>b, <1>19, SetStatusTyped
      DEF Rollback, At, AtHand, StateTyped, Installed, database, uploads, Operations,
          Upsets, Revived, Statuses
    <2> QED BY <2>1, <2>2, TypePartsNext
  <1>20. CASE Restore(o)
    <2>1. OpsTyped'
      BY <1>a, <1>b, <1>20, GotoTyped
      DEF Restore, At, AtHand, PCs
    <2>2. StateTyped'
      BY <1>a, <1>b, <1>20, DirsTyped, NamesTyped
      DEF Restore, At, AtHand, StateTyped, Installed, database, uploads, Operations
    <2> QED BY <2>1, <2>2, TypePartsNext
  <1>21. CASE Reactivate(o)
    <2>1. OpsTyped'
      BY <1>a, <1>b, <1>21, ReturnTyped
      DEF Reactivate, At, AtHand, PCs
    <2>2. StateTyped'
      BY <1>a, <1>b, <1>21, SetStatusTyped
      DEF Reactivate, At, AtHand, StateTyped, Installed, database, uploads,
          Operations, Statuses
    <2> QED BY <2>1, <2>2, TypePartsNext
  <1>22. CASE Isolate(o)
    <2>1. OpsTyped'
      BY <1>a, <1>b, <1>22, GotoTyped, ReturnTyped
      DEF Isolate, At, AtHand, PCs
    <2>2. StateTyped'
      BY <1>a, <1>b, <1>22, SetStatusTyped
      DEF Isolate, At, AtHand, StateTyped, Installed, database, uploads, Operations,
          Statuses
    <2> QED BY <2>1, <2>2, TypePartsNext
  <1>23. CASE RemoveFiles(o)
    <2>1. OpsTyped'
      BY <1>a, <1>b, <1>23, GotoTyped
      DEF RemoveFiles, At, AtHand, PCs
    <2>2. StateTyped'
      BY <1>a, <1>b, <1>23, DirsTyped, NamesTyped
      DEF RemoveFiles, At, AtHand, StateTyped, Installed, database, uploads, Operations
    <2> QED BY <2>1, <2>2, TypePartsNext
  <1>24. CASE RemoveZip(o)
    <2>1. OpsTyped'
      BY <1>a, <1>b, <1>24, GotoTyped
      DEF RemoveZip, At, AtHand, PCs
    <2>2. StateTyped'
      BY <1>a, <1>b, <1>24
      DEF RemoveZip, At, AtHand, StateTyped, Installed, database, uploads, Operations
    <2> QED BY <2>1, <2>2, TypePartsNext
  <1>25. CASE DeleteRow(o)
    <2>1. OpsTyped'
      BY <1>a, <1>b, <1>25, ReturnTyped
      DEF DeleteRow, At, AtHand, PCs
    <2>a. provisioned' \in BOOLEAN BY <1>a, <1>25, Zenon DEF DeleteRow, StateTyped
    <2>b. row' \in Rows /\ (Installed' => row'.version \in Versions)
      <3>1. row' = NoRow \/ row' = row BY <1>25, Zenon DEF DeleteRow
      <3>2. NoRow \in Rows /\ NoRow.status = "none"
        BY DEF NoRow, Rows, MaybeVersion, Statuses
      <3> QED BY <1>a, <3>1, <3>2 DEF StateTyped, Installed
    <2>2. StateTyped'
      BY <1>a, <1>b, <1>25, <2>a, <2>b
      DEF DeleteRow, StateTyped, Installed, uploads
    <2> QED BY <2>1, <2>2, TypePartsNext
  <1>26. CASE SetCachedZip(o)
    <2>1. OpsTyped'
      BY <1>a, <1>b, <1>26, GotoTyped DEF SetCachedZip, At, PCs
    <2>2. StateTyped'
      BY <1>a, <1>b, <1>26
      DEF SetCachedZip, StateTyped, Installed, database, uploads, Operations, Rows
    <2> QED BY <2>1, <2>2, TypePartsNext
  <1> QED
    BY <1>1, <1>2, <1>3, <1>4, <1>5, <1>6, <1>7, <1>8, <1>9, <1>10, <1>11, <1>12, <1>13,
       <1>14, <1>15, <1>16, <1>17, <1>18, <1>19, <1>20, <1>21, <1>22, <1>23, <1>24,
       <1>25, <1>26
    DEF Steps

-----------------------------------------------------------------------------
LEMMA EventTyped ==
  ASSUME StateTyped, Event
  PROVE  events' \in 0 .. MaxEvents
  BY MaxEventsAssumption DEF StateTyped, Event

LEMMA BeginTyped ==
  ASSUME TypeOK, NEW o \in Ops, NEW r \in Operations, AtHand(r), Begin(o, r)
  PROVE  TypeOK'
  <1>a. OpsTyped /\ StateTyped BY TypeParts
  <1>1. OpsTyped' BY <1>a DEF OpsTyped, Begin
  <1>2. upset' \subseteq Upsets
    BY <1>a DEF StateTyped, Begin, Upsets, Overlap, Revived
  <1>3. StateTyped'
    BY <1>a, <1>2, EventTyped DEF StateTyped, Begin, Installed, database, uploads
  <1> QED BY <1>1, <1>3, TypePartsNext

LEMMA HandlersTyped ==
  ASSUME TypeOK, NEW o \in Ops, Handlers(o)
  PROVE  TypeOK'
  <1>a. row \in Rows /\ (Installed => row.version \in Versions) BY DEF TypeOK
  <1>1. ASSUME NEW v \in Versions, NEW s \in Sources, Install(o, v, s) PROVE TypeOK'
    <2> DEFINE r == [Idle EXCEPT !.pc = "fetch", !.kind = "install", !.source = s, !.new = v]
    <2>1. r \in Operations /\ AtHand(r)
      BY DEF Idle, Operations, AtHand, PCs, Kinds, Sources, MaybeVersion
    <2>2. Begin(o, r) BY <1>1 DEF Install
    <2> HIDE DEF r
    <2> QED BY <2>1, <2>2, BeginTyped
  <1>2. ASSUME NEW v \in Versions, NEW s \in Sources, Update(o, v, s) PROVE TypeOK'
    <2> DEFINE r == [Idle EXCEPT !.pc = IF s = "registry" THEN "cache" ELSE "fetch",
                                 !.kind = "update", !.source = s, !.new = v,
                                 !.old = row.version, !.url = row.url]
    <2>1. r \in Operations /\ AtHand(r)
      BY <1>a, <1>2 DEF Idle, Operations, AtHand, PCs, Kinds, Sources, MaybeVersion,
                        Rows, Update
    <2>2. Begin(o, r) BY <1>2 DEF Update
    <2> HIDE DEF r
    <2> QED BY <2>1, <2>2, BeginTyped
  <1>3. CASE Uninstall(o)
    <2> DEFINE r == [Idle EXCEPT !.pc = "isolate", !.kind = "uninstall", !.zip = row.zip]
    <2>1. r \in Operations /\ AtHand(r)
      BY <1>a DEF Idle, Operations, AtHand, PCs, Kinds, Sources, MaybeVersion, Rows
    <2>2. Begin(o, r) BY <1>3 DEF Uninstall
    <2> HIDE DEF r
    <2> QED BY <2>1, <2>2, BeginTyped
  <1>4. CASE Restart(o)
    <2> DEFINE r == [Idle EXCEPT !.pc = "stop", !.kind = "restart", !.new = row.version]
    <2>1. r \in Operations /\ AtHand(r)
      BY <1>a DEF Idle, Operations, AtHand, PCs, Kinds, Sources, MaybeVersion, Rows
    <2>2. Begin(o, r) BY <1>4 DEF Restart
    <2> HIDE DEF r
    <2> QED BY <2>1, <2>2, BeginTyped
  <1> QED BY <1>1, <1>2, <1>3, <1>4 DEF Handlers

LEMMA InitTyped == Init => TypeOK
  <1> SUFFICES ASSUME Init PROVE TypeOK OBVIOUS
  <1>1. OpsTyped BY IdleTyped DEF Init, OpsTyped
  <1>2. row \in Rows /\ (Installed => row.version \in Versions)
    <2>1. NoRow \in Rows /\ NoRow.status = "none"
      BY DEF NoRow, Rows, Statuses, MaybeVersion
    <2>2. \A v \in Versions, b \in BOOLEAN :
            /\ [NoRow EXCEPT !.status = "active", !.version = v, !.url = b] \in Rows
            /\ [NoRow EXCEPT !.status = "active", !.version = v, !.url = b].version = v
      BY DEF NoRow, Rows, Statuses, MaybeVersion
    <2>3. CASE row = NoRow BY <2>1, <2>3 DEF Installed
    <2>4. CASE row # NoRow
      <3>1. PICK v \in Versions, b \in BOOLEAN :
              row = [NoRow EXCEPT !.status = "active", !.version = v, !.url = b]
        BY <2>4 DEF Init
      <3> QED BY <2>2, <3>1
    <2> QED BY <2>3, <2>4
  <1>3. dirs \in [DirNames -> Dir]
    <2>1. Absent \in Dir BY DEF Absent, Dir, MaybeVersion
    <2>2. \A v \in Versions : [there |-> TRUE, code |-> v, storage |-> {}] \in Dir
      BY DEF Dir, MaybeVersion
    <2> QED BY <2>1, <2>2, NamesTyped DEF Init
  <1>4. schema \subseteq Scripts /\ provisioned \in BOOLEAN /\ worker \in MaybeVersion
    <2>1. \A v \in Versions : Migrations[v] \subseteq Scripts BY MigrationsAssumption
    <2> QED BY <2>1 DEF Init, MaybeVersion
  <1>5. zips = {} /\ recorded = {} /\ events = 0 /\ uploading = {} /\ stored = {} /\ upset = {}
    BY DEF Init
  <1>6. StateTyped
    BY <1>2, <1>3, <1>4, <1>5, MaxEventsAssumption DEF StateTyped
  <1> QED BY <1>1, <1>6, TypeParts

LEMMA TypeStep == TypeOK /\ [Next]_vars => TypeOK'
  <1> SUFFICES ASSUME TypeOK, [Next]_vars PROVE TypeOK' OBVIOUS
  <1>a. OpsTyped /\ StateTyped BY TypeParts
  <1>1. ASSUME NEW o \in Ops, Handlers(o) PROVE TypeOK' BY <1>1, HandlersTyped
  <1>2. ASSUME NEW o \in Ops, Steps(o) PROVE TypeOK' BY <1>2, StepsTyped
  <1>3. ASSUME NEW o \in Ops, Cancel(o) PROVE TypeOK'
    <2>1. [op[o] EXCEPT !.live = FALSE] \in Operations BY <1>a DEF OpsTyped, Operations
    <2>2. AtHand([op[o] EXCEPT !.live = FALSE]) BY <1>a DEF OpsTyped, Operations, AtHand
    <2>3. OpsTyped' BY <1>a, <1>3, <2>1, <2>2 DEF OpsTyped, Cancel
    <2>4. StateTyped'
      BY <1>a, <1>3, EventTyped
      DEF StateTyped, Cancel, Installed, database, uploads, Upsets
    <2> QED BY <2>3, <2>4, TypePartsNext
  <1>4. ASSUME NEW f \in Files, AcceptUpload(f) PROVE TypeOK'
    <2>1. OpsTyped' BY <1>a, <1>4 DEF OpsTyped, AcceptUpload
    <2>2. StateTyped' BY <1>a, <1>4 DEF StateTyped, AcceptUpload, Installed, database
    <2> QED BY <2>1, <2>2, TypePartsNext
  <1>5. ASSUME NEW f \in Files, SaveUpload(f) PROVE TypeOK'
    <2>1. OpsTyped' BY <1>a, <1>5 DEF OpsTyped, SaveUpload
    <2>2. dirs' \in [DirNames -> Dir]
      BY <1>a, <1>5, NamesTyped DEF StateTyped, SaveUpload, Dir
    <2>3. StateTyped'
      BY <1>a, <1>5, <2>2 DEF StateTyped, SaveUpload, Installed, database, Upsets
    <2> QED BY <2>1, <2>3, TypePartsNext
  <1>6. CASE WorkerCrash
    <2>1. OpsTyped' BY <1>a, <1>6 DEF OpsTyped, WorkerCrash
    <2>2. row' \in Rows /\ (Installed' => row'.version \in Versions)
      BY <1>a, <1>6 DEF StateTyped, WorkerCrash, Installed, Rows, Statuses
    <2>3. upset' \subseteq Upsets
      BY <1>a, <1>6 DEF StateTyped, WorkerCrash, Upsets, Revived
    <2>4. StateTyped'
      BY <1>a, <1>6, <2>2, <2>3, EventTyped
      DEF StateTyped, WorkerCrash, database, uploads, MaybeVersion
    <2> QED BY <2>1, <2>4, TypePartsNext
  <1>7. CASE CoreRestart
    <2>1. OpsTyped' BY <1>7, IdleTyped DEF OpsTyped, CoreRestart
    <2>2. dirs[Dest].code \in MaybeVersion
      BY <1>a, NamesTyped DEF StateTyped, Dir
    <2>3. worker' \in MaybeVersion /\ provisioned' \in BOOLEAN
      BY <1>a, <1>7, <2>2 DEF StateTyped, CoreRestart, MaybeVersion
    <2>4. events' \in 0 .. MaxEvents BY <1>a, <1>7, EventTyped DEF StateTyped, CoreRestart
    <2>5. StateTyped'
      BY <1>a, <1>7, <2>3, <2>4 DEF StateTyped, CoreRestart, Installed, Upsets
    <2> QED BY <2>1, <2>5, TypePartsNext
  <1>8. CASE UNCHANGED vars
    BY <1>8 DEF vars, TypeOK, Installed
  <1> QED BY <1>1, <1>2, <1>3, <1>4, <1>5, <1>6, <1>7, <1>8 DEF Next

(* Every variable keeps its type, and an operation has at hand what the rest *)
(* of its code reads: the versions of an update, the ZIP of a rollback.      *)
THEOREM TypeCorrect == Spec => []TypeOK
  BY InitTyped, TypeStep, PTL DEF Spec

-----------------------------------------------------------------------------
(* Migrations and installs                                                   *)

(* RecordedIsApplied is inductive with this: what an update is about to      *)
(* record has been committed.                                                *)
CommittedFirst ==
  /\ RecordedIsApplied
  /\ \A o \in Ops : op[o].pc = "record" => Migrations[op[o].new] \subseteq schema

Installing(r) ==
  r.kind = "install" /\ r.pc \in {"fill", "migrate", "crud", "start", "activate", "fail"}

(* NoStuckInstall is inductive in this form: a row that is being installed   *)
(* has an Install at work on it, whose context is alive.                     *)
InstallAtWork ==
  /\ \A o \in Ops : ~op[o].live => "cancel" \in upset
  /\ row.status = "installing" /\ upset \cap {"cancel", "crash"} = {} =>
       \E o \in Ops : Installing(op[o])

Inv == TypeOK /\ CommittedFirst /\ InstallAtWork

LEMMA GotoIs ==
  ASSUME OpsTyped, NEW o \in Ops, NEW l, Goto(o, l)
  PROVE  /\ \A q \in Ops : q # o => op'[q] = op[q]
         /\ op'[o].pc = l /\ op'[o].kind = op[o].kind /\ op'[o].new = op[o].new
         /\ op'[o].live = op[o].live
  BY DEF OpsTyped, Operations, Goto

LEMMA ReturnIs ==
  ASSUME OpsTyped, NEW o \in Ops, Return(o)
  PROVE  /\ \A q \in Ops : q # o => op'[q] = op[q]
         /\ op'[o].pc = "idle" /\ op'[o].kind = "none" /\ op'[o].live
  BY DEF OpsTyped, Return, Idle

LEMMA SetStatusIs ==
  ASSUME StateTyped, NEW o \in Ops, NEW s, SetStatus(o, s)
  PROVE  row'.status = IF op[o].live /\ row.status # "none" THEN s ELSE row.status
  BY DEF StateTyped, Rows, SetStatus, Live, Installed

(* How the step of an operation looks from the two invariants.               *)
Moved(o) ==
  /\ \A q \in Ops : q # o => op'[q] = op[q]
  /\ op'[o].pc = "record" => Migrations[op'[o].new] \subseteq schema'
  /\ ~op'[o].live => ~op[o].live
  /\ schema \subseteq schema' /\ recorded' \subseteq schema'
  /\ upset \subseteq upset'
  /\ row'.status = "installing" => row.status = "installing" \/ Installing(op'[o])
  /\ Installing(op[o]) /\ op[o].live => Installing(op'[o]) \/ row'.status # "installing"

LEMMA MovedKeeps ==
  ASSUME Inv, NEW o \in Ops, Moved(o)
  PROVE  CommittedFirst' /\ InstallAtWork'
  <1>1. CommittedFirst' BY DEF Inv, CommittedFirst, RecordedIsApplied, Moved
  <1>2. \A q \in Ops : ~op'[q].live => "cancel" \in upset'
    BY DEF Inv, InstallAtWork, Moved
  <1>3. ASSUME row'.status = "installing", upset' \cap {"cancel", "crash"} = {}
        PROVE  \E q \in Ops : Installing(op'[q])
    <2>1. upset \cap {"cancel", "crash"} = {} /\ op[o].live
      BY <1>3 DEF Inv, InstallAtWork, Moved
    <2>2. CASE Installing(op'[o]) BY <2>2
    <2>3. CASE ~Installing(op'[o])
      <3>1. PICK q \in Ops : Installing(op[q])
        BY <1>3, <2>1, <2>3 DEF Inv, InstallAtWork, Moved
      <3>2. q # o BY <1>3, <2>1, <2>3, <3>1 DEF Moved
      <3> QED BY <3>1, <3>2 DEF Moved
    <2> QED BY <2>2, <2>3
  <1>4. InstallAtWork' BY <1>2, <1>3 DEF InstallAtWork
  <1> QED BY <1>1, <1>4

LEMMA StepsMove ==
  ASSUME Inv, NEW o \in Ops, Steps(o)
  PROVE  Moved(o)
  <1>a. OpsTyped /\ StateTyped /\ recorded \subseteq schema
    BY TypeParts DEF Inv, CommittedFirst, RecordedIsApplied
  <1>b. op[o] \in Operations /\ row \in Rows BY <1>a DEF OpsTyped, StateTyped
  <1>c. op[o].pc = "record" => Migrations[op[o].new] \subseteq schema
    BY DEF Inv, CommittedFirst
  <1> USE DEF At, Moved, Installing, database, Live, Installed, uploads
  <1>1. CASE Fetch(o)
    BY <1>a, <1>b, <1>c, <1>1, GotoIs, ReturnIs, SetStatusIs DEF Fetch
  <1>2. CASE Insert(o)
    BY <1>a, <1>b, <1>c, <1>2, GotoIs, ReturnIs, SetStatusIs DEF Insert
  <1>3. CASE Fill(o)
    BY <1>a, <1>b, <1>c, <1>3, GotoIs, ReturnIs, SetStatusIs DEF Fill, OnError
  <1>4. CASE Migrate(o)
    BY <1>a, <1>b, <1>c, <1>4, GotoIs, ReturnIs, SetStatusIs DEF Migrate, OnError
  <1>5. CASE Record(o)
    BY <1>a, <1>b, <1>c, <1>5, GotoIs, ReturnIs, SetStatusIs DEF Record
  <1>6. CASE CheckCrud(o)
    BY <1>a, <1>b, <1>c, <1>6, GotoIs, ReturnIs, SetStatusIs DEF CheckCrud, OnError
  <1>7. CASE StopWorker(o)
    BY <1>a, <1>b, <1>c, <1>7, GotoIs, ReturnIs, SetStatusIs DEF StopWorker
  <1>8. CASE StartWorker(o)
    BY <1>a, <1>b, <1>c, <1>8, GotoIs, ReturnIs, SetStatusIs DEF StartWorker, OnError
  <1>9. CASE Activate(o)
    BY <1>a, <1>b, <1>c, <1>9, GotoIs, ReturnIs, SetStatusIs DEF Activate
  <1>10. CASE MarkFailed(o)
    BY <1>a, <1>b, <1>c, <1>10, GotoIs, ReturnIs, SetStatusIs DEF MarkFailed
  <1>11. CASE Cache(o)
    <2>1. row'.status = row.status BY <1>11 DEF Cache
    <2>2. /\ \A q \in Ops : q # o => op'[q] = op[q]
          /\ op'[o].pc \in {"setzip", "fetch"} /\ op'[o].kind = op[o].kind
          /\ op'[o].live = op[o].live
      <3>1. CASE op' = [op EXCEPT ![o].pc = "setzip", ![o].zip = op[o].old]
        BY <1>a, <3>1 DEF OpsTyped, Operations
      <3>2. CASE Goto(o, "fetch") BY <1>a, <3>2, GotoIs
      <3> QED BY <1>11, <3>1, <3>2 DEF Cache
    <2> QED BY <1>a, <1>11, <2>1, <2>2 DEF Cache
  <1>12. CASE Copy(o)
    BY <1>a, <1>b, <1>c, <1>12, GotoIs, ReturnIs, SetStatusIs DEF Copy, OnError
  <1>13. CASE MoveOld(o)
    BY <1>a, <1>b, <1>c, <1>13, GotoIs, ReturnIs, SetStatusIs DEF MoveOld, OnError
  <1>14. CASE MoveNew(o)
    BY <1>a, <1>b, <1>c, <1>14, GotoIs, ReturnIs, SetStatusIs DEF MoveNew, OnError
  <1>15. CASE MoveStorage(o)
    BY <1>a, <1>b, <1>c, <1>15, GotoIs, ReturnIs, SetStatusIs DEF MoveStorage
  <1>16. CASE Discard(o)
    BY <1>a, <1>b, <1>c, <1>16, GotoIs, ReturnIs, SetStatusIs DEF Discard
  <1>17. CASE UpdateRow(o)
    <2>1. row'.status = row.status BY <1>b, <1>17 DEF UpdateRow, Rows
    <2> QED BY <1>a, <1>17, <2>1, GotoIs, ReturnIs DEF UpdateRow
  <1>18. CASE DropZip(o)
    <2>1. row'.status = row.status BY <1>b, <1>18 DEF DropZip, Rows
    <2> QED BY <1>a, <1>18, <2>1, GotoIs, ReturnIs DEF DropZip
  <1>19. CASE Rollback(o)
    BY <1>a, <1>b, <1>c, <1>19, GotoIs, ReturnIs, SetStatusIs DEF Rollback
  <1>20. CASE Restore(o)
    BY <1>a, <1>b, <1>c, <1>20, GotoIs, ReturnIs, SetStatusIs DEF Restore
  <1>21. CASE Reactivate(o)
    BY <1>a, <1>b, <1>c, <1>21, GotoIs, ReturnIs, SetStatusIs DEF Reactivate
  <1>22. CASE Isolate(o)
    BY <1>a, <1>b, <1>c, <1>22, GotoIs, ReturnIs, SetStatusIs DEF Isolate
  <1>23. CASE RemoveFiles(o)
    BY <1>a, <1>b, <1>c, <1>23, GotoIs, ReturnIs, SetStatusIs DEF RemoveFiles
  <1>24. CASE RemoveZip(o)
    BY <1>a, <1>b, <1>c, <1>24, GotoIs, ReturnIs, SetStatusIs DEF RemoveZip
  <1>25. CASE DeleteRow(o)
    BY <1>a, <1>b, <1>c, <1>25, GotoIs, ReturnIs, SetStatusIs DEF DeleteRow, NoRow
  <1>26. CASE SetCachedZip(o)
    <2>1. row'.status = row.status BY <1>b, <1>26 DEF SetCachedZip, Rows
    <2> QED BY <1>a, <1>26, <2>1, GotoIs DEF SetCachedZip
  <1> QED
    BY <1>1, <1>2, <1>3, <1>4, <1>5, <1>6, <1>7, <1>8, <1>9, <1>10, <1>11, <1>12, <1>13,
       <1>14, <1>15, <1>16, <1>17, <1>18, <1>19, <1>20, <1>21, <1>22, <1>23, <1>24,
       <1>25, <1>26
    DEF Steps

LEMMA HandlersMove ==
  ASSUME Inv, NEW o \in Ops, Handlers(o)
  PROVE  Moved(o)
  <1>1. \A r : Begin(o, r) /\ r.pc # "record" /\ r.live => Moved(o)
    <2> SUFFICES ASSUME NEW r, Begin(o, r), r.pc # "record", r.live PROVE Moved(o) OBVIOUS
    <2>1. op \in [Ops -> Operations] BY DEF Inv, TypeOK
    <2>2. op'[o] = r /\ \A q \in Ops : q # o => op'[q] = op[q] BY <2>1 DEF Begin
    <2>3. ~Installing(op[o]) BY DEF Begin, Idle, Installing
    <2>4. recorded \subseteq schema BY DEF Inv, CommittedFirst, RecordedIsApplied
    <2> QED BY <2>2, <2>3, <2>4 DEF Begin, Moved, database
  <1>2. ASSUME NEW v \in Versions, NEW s \in Sources, Install(o, v, s) PROVE Moved(o)
    BY <1>1, <1>2 DEF Install, Idle
  <1>3. ASSUME NEW v \in Versions, NEW s \in Sources, Update(o, v, s) PROVE Moved(o)
    BY <1>1, <1>3 DEF Update, Idle
  <1>4. CASE Uninstall(o) BY <1>1, <1>4 DEF Uninstall, Idle
  <1>5. CASE Restart(o) BY <1>1, <1>5 DEF Restart, Idle
  <1> QED BY <1>2, <1>3, <1>4, <1>5 DEF Handlers

LEMMA InitInv == Init => Inv
  <1> SUFFICES ASSUME Init PROVE Inv OBVIOUS
  <1>1. \A o \in Ops : op[o] = Idle /\ op[o].pc = "idle" /\ op[o].live
    BY DEF Init, Idle
  <1>2. recorded = {} BY DEF Init
  <1>3. CommittedFirst BY <1>1, <1>2 DEF CommittedFirst, RecordedIsApplied
  <1>4. row.status # "installing"
    <2>1. CASE row = NoRow BY <2>1 DEF NoRow
    <2>2. CASE row # NoRow
      <3>1. PICK v \in Versions, b \in BOOLEAN :
              row = [NoRow EXCEPT !.status = "active", !.version = v, !.url = b]
        BY <2>2 DEF Init
      <3> QED BY <3>1 DEF NoRow
    <2> QED BY <2>1, <2>2
  <1>5. InstallAtWork BY <1>1, <1>4 DEF InstallAtWork
  <1> QED BY <1>3, <1>5, InitTyped DEF Inv

LEMMA InvStep == Inv /\ [Next]_vars => Inv'
  <1> SUFFICES ASSUME Inv, [Next]_vars PROVE Inv' OBVIOUS
  <1>a. TypeOK /\ TypeOK' BY TypeStep DEF Inv
  <1>b. CommittedFirst /\ InstallAtWork BY DEF Inv
  <1>c. OpsTyped /\ StateTyped BY <1>a, TypeParts
  <1> SUFFICES CommittedFirst' /\ InstallAtWork' BY <1>a DEF Inv
  <1>1. ASSUME NEW o \in Ops, Handlers(o) PROVE CommittedFirst' /\ InstallAtWork'
    BY <1>1, HandlersMove, MovedKeeps
  <1>2. ASSUME NEW o \in Ops, Steps(o) PROVE CommittedFirst' /\ InstallAtWork'
    BY <1>2, StepsMove, MovedKeeps
  <1>3. ASSUME NEW o \in Ops, Cancel(o) PROVE CommittedFirst' /\ InstallAtWork'
    <2>1. \A q \in Ops : op'[q].pc = op[q].pc /\ op'[q].new = op[q].new
      BY <1>c, <1>3 DEF OpsTyped, Operations, Cancel
    <2>2. CommittedFirst'
      BY <1>b, <1>3, <2>1 DEF CommittedFirst, RecordedIsApplied, Cancel, database
    <2>3. "cancel" \in upset' BY <1>3 DEF Cancel
    <2> QED BY <2>2, <2>3 DEF InstallAtWork
  <1>4. ASSUME NEW f \in Files, AcceptUpload(f) \/ SaveUpload(f)
        PROVE  CommittedFirst' /\ InstallAtWork'
    <2>1. UNCHANGED <<row, schema, recorded, op>> /\ upset \subseteq upset'
      BY <1>4 DEF AcceptUpload, SaveUpload, database
    <2> QED BY <1>b, <2>1 DEF CommittedFirst, RecordedIsApplied, InstallAtWork
  <1>5. CASE WorkerCrash
    <2>1. UNCHANGED <<schema, recorded, op>> /\ upset \subseteq upset'
      BY <1>5 DEF WorkerCrash, database
    <2>2. row'.status # "installing"
      BY <1>c, <1>5 DEF WorkerCrash, StateTyped, Rows, Installed
    <2> QED BY <1>b, <2>1, <2>2 DEF CommittedFirst, RecordedIsApplied, InstallAtWork
  <1>6. CASE CoreRestart
    <2>1. \A q \in Ops : op'[q].pc = "idle" /\ op'[q].live BY <1>6 DEF CoreRestart, Idle
    <2>2. UNCHANGED <<row, schema, recorded>> BY <1>6 DEF CoreRestart
    <2>3. CommittedFirst'
      BY <1>b, <2>1, <2>2 DEF CommittedFirst, RecordedIsApplied
    <2>4. CASE Quiet
      <3>1. upset' = upset BY <1>6, <2>4 DEF CoreRestart
      <3>2. \A q \in Ops : ~Installing(op[q]) BY <2>4 DEF Quiet, Idle, Installing
      <3> QED BY <1>b, <2>1, <2>2, <2>3, <3>1, <3>2 DEF InstallAtWork
    <2>5. CASE ~Quiet
      <3>1. "crash" \in upset' BY <1>6, <2>5 DEF CoreRestart
      <3> QED BY <2>1, <2>3, <3>1 DEF InstallAtWork
    <2> QED BY <2>4, <2>5
  <1>7. CASE UNCHANGED vars
    BY <1>b, <1>7 DEF vars, CommittedFirst, RecordedIsApplied, InstallAtWork
  <1> QED BY <1>1, <1>2, <1>3, <1>4, <1>5, <1>6, <1>7 DEF Next

(* However operations interleave, are cancelled or killed: module_migrations *)
(* lists no file whose SQL was not committed.                                *)
THEOREM MigrationsRecordedAfterCommit == Spec => []RecordedIsApplied
  <1>1. Inv => RecordedIsApplied BY DEF Inv, CommittedFirst
  <1> QED BY <1>1, InitInv, InvStep, PTL DEF Spec

(* Whatever interleaves with it, Install takes its row out of "installing"   *)
(* on every path, unless its context ended or Core was killed.               *)
THEOREM InstallEnds == Spec => []NoStuckInstall
  <1>1. Inv => NoStuckInstall
    <2>1. ASSUME Quiet PROVE \A o \in Ops : ~Installing(op[o])
      BY <2>1 DEF Quiet, Idle, Installing
    <2> QED BY <2>1 DEF Inv, InstallAtWork, NoStuckInstall
  <1> QED BY <1>1, InitInv, InvStep, PTL DEF Spec

-----------------------------------------------------------------------------
(* Files, uploads and the row, as long as no two operations overlap.         *)

UpdateFirst == {"cache", "setzip", "fetch", "copy", "moveold"}
UpdateMoved == {"movenew", "storage", "discard", "migrate", "record", "crud", "row"}
UpdateBack == {"rollback", "restore", "reactivate"}
UpdateLast == {"activate", "zip", "stop", "start"}

(* Where an operation of each kind can be, and the ZIP an update goes by.    *)
OpShape(r) ==
  /\ r.kind = "none" => r = Idle
  /\ r.kind = "install" =>
       r.pc \in {"fetch", "insert", "fill", "migrate", "crud", "start", "activate", "fail"}
  /\ r.kind = "update" =>
       /\ r.pc \in UpdateFirst \cup UpdateMoved \cup UpdateBack \cup UpdateLast \cup {"fail"}
       /\ r.zip \in {NoVersion, r.old}
  /\ r.kind = "restart" => r.pc \in {"stop", "start", "activate"}
  /\ r.kind = "uninstall" => r.pc \in {"isolate", "stop", "remove", "rmzip", "delete"}

(* A directory that is not there holds nothing, and the one that an update   *)
(* fills holds no uploads.                                                   *)
Sound(ds) ==
  /\ \A d \in DirNames : ds[d].there \/ (ds[d].storage = {} /\ ds[d].code = NoVersion)
  /\ \A v \in Versions : ds[New(v)].storage = {}

(* Operation o seen from the uploads: the old directory is discarded only    *)
(* when it holds none, and they were moved to one that held none.            *)
UploadsAt(o) ==
  upset \cap {"upload", "disk"} = {} =>
    /\ stored \subseteq OnDisk
    /\ At(o, "update", "storage") => dirs[Dest].there /\ dirs[Dest].storage = {}
    /\ At(o, "update", "discard") => dirs[Old(op[o].old)].storage = {}

(* Operation o seen from the code of the module: where it is complete.       *)
Holding(r) ==
  \/ r.kind = "update" /\ r.pc \in {"storage", "discard", "migrate", "record", "crud", "row",
                                    "activate", "zip", "reactivate"}
  \/ r.kind = "install" /\ r.pc \in {"migrate", "crud", "start", "activate"}
  \/ r.kind = "restart" /\ r.pc = "activate"

Recoverable ==
  dirs[Dest].code # NoVersion \/ dirs[Old(row.version)].code # NoVersion \/ row.version \in zips

CodeAt(o) ==
  "zip" \notin upset =>
    /\ row.status = "active" => Recoverable
    /\ Holding(op[o]) => dirs[Dest].code # NoVersion
    /\ op[o].kind = "update" =>
         /\ op[o].pc \in {"moveold", "movenew"} => dirs[New(op[o].new)].code # NoVersion
         /\ op[o].pc \in UpdateFirst \cup UpdateMoved \cup {"rollback", "restore"} =>
              /\ row.version = op[o].old
              /\ op[o].zip # NoVersion => op[o].zip \in zips
    /\ At(o, "install", "fill") \/ (op[o].kind = "uninstall" /\ op[o].pc # "isolate") =>
         row.status # "active"

(* Operation o seen from the row: what it declares is there.                 *)
Consistent == dirs[Dest].code = row.version /\ Migrations[row.version] \subseteq schema
Declared == row.status \in {"active", "degraded"}
Resting == row.status \in {"active", "degraded", "failed"}

RowAt(o) ==
  /\ op[o].kind = "none" =>
       row.status \in {"none", "active", "degraded", "failed"} /\ (Declared => Consistent)
  /\ op[o].kind = "install" =>
       /\ op[o].pc \in {"fetch", "insert"} => row.status = "none"
       /\ op[o].pc \notin {"fetch", "insert"} => row.status # "none" /\ row.version = op[o].new
       /\ op[o].pc \in {"migrate", "crud", "start", "activate"} => dirs[Dest].code = op[o].new
       /\ op[o].pc \in {"crud", "start", "activate"} => Migrations[op[o].new] \subseteq schema
  /\ op[o].kind = "restart" => Declared /\ Consistent
  /\ op[o].kind = "update" =>
       /\ Resting
       /\ op[o].pc \in UpdateFirst => (Declared => Consistent)
       /\ op[o].pc \in UpdateFirst \cup UpdateMoved \cup UpdateBack =>
            row.version = op[o].old /\ (Declared => Migrations[row.version] \subseteq schema)
       /\ op[o].pc \in {"moveold", "movenew"} => dirs[New(op[o].new)].code = op[o].new
       /\ op[o].pc \in UpdateMoved \ {"movenew"} => dirs[Dest].code = op[o].new
       /\ op[o].pc \in {"record", "crud", "row"} => Migrations[op[o].new] \subseteq schema
       /\ op[o].pc \in {"restore", "reactivate"} => Declared
       /\ op[o].pc = "reactivate" => dirs[Dest].code = row.version
       /\ op[o].pc \in UpdateLast => Consistent

Undisturbed == upset \cap {"cancel", "crash", "revived"} = {}

(* The views hold of an operation that no other one overlaps; an operation   *)
(* that is not begun sees the state at rest.                                 *)
Sole(o) == \A q \in Ops : q # o => op[q] = Idle
Shaped == Sound(dirs) /\ \A o \in Ops : OpShape(op[o])
Views(o) == UploadsAt(o) /\ CodeAt(o) /\ (Undisturbed => RowAt(o))

FilesInv ==
  /\ Inv
  /\ Shaped
  /\ "overlap" \notin upset =>
       /\ \E o \in Ops : Sole(o)
       /\ \A o \in Ops : Sole(o) => Views(o)

-----------------------------------------------------------------------------
(* What the operators on directories and operations make of their fields.    *)

LEMMA NamesDistinct ==
  ASSUME NEW v, NEW w
  PROVE  Dest # New(v) /\ Dest # Old(v) /\ New(v) # Old(w)
  BY DEF Dest, New, Old

LEMMA NewDistinct ==
  ASSUME NEW v, NEW w, New(v) = New(w)
  PROVE  v = w
  BY DEF New

LEMMA CopyOverIs ==
  ASSUME dirs \in [DirNames -> Dir], NEW d \in DirNames, NEW v \in MaybeVersion
  PROVE  /\ \A e \in DirNames : e # d => CopyOver(d, v)[e] = dirs[e]
         /\ \A e \in DirNames : CopyOver(d, v)[e].storage = dirs[e].storage
         /\ CopyOver(d, v)[d].code = v
         /\ CopyOver(d, v)[d].there = TRUE
  BY DEF CopyOver, Dir

LEMMA CopyPartIs ==
  ASSUME dirs \in [DirNames -> Dir], NEW d \in DirNames
  PROVE  /\ \A e \in DirNames : e # d => CopyPart(d)[e] = dirs[e]
         /\ \A e \in DirNames : CopyPart(d)[e].storage = dirs[e].storage
         /\ CopyPart(d)[d].code = NoVersion
         /\ CopyPart(d)[d].there = TRUE
  BY DEF CopyPart, Dir

LEMMA RenamedIs ==
  ASSUME dirs \in [DirNames -> Dir], NEW d \in DirNames, NEW e \in DirNames, d # e
  PROVE  /\ Renamed(d, e)[e] = dirs[d]
         /\ Renamed(d, e)[d] = Absent
         /\ \A c \in DirNames : c \notin {d, e} => Renamed(d, e)[c] = dirs[c]
  BY DEF Renamed

LEMMA RemovedIs ==
  ASSUME NEW ds \in [DirNames -> Dir], NEW d \in DirNames, NEW es \in RemoveAll(ds, d)
  PROVE  /\ \A e \in DirNames : e # d => es[e] = ds[e]
         /\ es[d].storage \subseteq ds[d].storage
         /\ es[d].code \in {ds[d].code, NoVersion}
         /\ es[d] = Absent \/ es[d].there = ds[d].there
  <1>1. CASE es = [ds EXCEPT ![d] = Absent] BY <1>1 DEF Absent
  <1>2. CASE es = ds BY <1>2
  <1>3. CASE es \in Partly(ds, d)
    <2>1. PICK kept \in SUBSET ds[d].storage :
            es = [ds EXCEPT ![d].code = NoVersion, ![d].storage = kept]
      BY <1>3 DEF Partly
    <2> QED BY <2>1 DEF Dir
  <1> QED BY <1>1, <1>2, <1>3 DEF RemoveAll

LEMMA GotoFields ==
  ASSUME OpsTyped, NEW o \in Ops, NEW l, Goto(o, l)
  PROVE  /\ \A q \in Ops : q # o => op'[q] = op[q]
         /\ op'[o].pc = l /\ op'[o].kind = op[o].kind /\ op'[o].new = op[o].new
         /\ op'[o].old = op[o].old /\ op'[o].zip = op[o].zip /\ op'[o].live = op[o].live
  BY DEF OpsTyped, Operations, Goto

LEMMA ReturnFields ==
  ASSUME OpsTyped, NEW o \in Ops, Return(o)
  PROVE  /\ \A q \in Ops : q # o => op'[q] = op[q]
         /\ op'[o] = Idle /\ op'[o].pc = "idle" /\ op'[o].kind = "none"
  BY DEF OpsTyped, Return, Idle

LEMMA SetStatusFields ==
  ASSUME StateTyped, NEW o \in Ops, NEW s, SetStatus(o, s)
  PROVE  /\ row'.status = IF op[o].live /\ row.status # "none" THEN s ELSE row.status
         /\ row'.version = row.version
  BY DEF StateTyped, Rows, SetStatus, Live, Installed

-----------------------------------------------------------------------------
(* Where an operation goes, and what it makes of the directories.            *)

(* An operation under way is none of kind "none".                            *)
LEMMA Busy ==
  ASSUME TypeOK, NEW o \in Ops, OpShape(op[o]), op[o].pc # "idle"
  PROVE  op[o].kind \in {"install", "update", "restart", "uninstall"}
  BY DEF TypeOK, Operations, Kinds, OpShape, Idle

LEMMA StepsShape ==
  ASSUME TypeOK, Shaped, NEW o \in Ops, Steps(o)
  PROVE  OpShape(op'[o]) /\ \A q \in Ops : q # o => op'[q] = op[q]
  <1>a. OpsTyped /\ op[o] \in Operations /\ AtHand(op[o]) BY TypeParts DEF OpsTyped
  <1>b. OpShape(op[o]) /\ OpShape(Idle) BY DEF Shaped, OpShape, Idle
  <1>c. op[o].pc # "idle" => op[o].kind \in {"install", "update", "restart", "uninstall"}
    BY <1>b, Busy
  <1> USE DEF At, OpShape, AtHand, UpdateFirst, UpdateMoved, UpdateBack, UpdateLast
  <1>1. CASE Fetch(o)
    BY <1>a, <1>b, <1>c, <1>1, GotoFields, ReturnFields DEF Fetch
  <1>2. CASE Insert(o)
    BY <1>a, <1>b, <1>c, <1>2, GotoFields, ReturnFields DEF Insert
  <1>3. CASE Fill(o)
    BY <1>a, <1>b, <1>c, <1>3, GotoFields, ReturnFields DEF Fill, OnError
  <1>4. CASE Migrate(o)
    BY <1>a, <1>b, <1>c, <1>4, GotoFields, ReturnFields DEF Migrate, OnError
  <1>5. CASE Record(o)
    BY <1>a, <1>b, <1>c, <1>5, GotoFields, ReturnFields DEF Record
  <1>6. CASE CheckCrud(o)
    BY <1>a, <1>b, <1>c, <1>6, GotoFields, ReturnFields DEF CheckCrud, OnError
  <1>7. CASE StopWorker(o)
    BY <1>a, <1>b, <1>c, <1>7, GotoFields, ReturnFields DEF StopWorker
  <1>8. CASE StartWorker(o)
    BY <1>a, <1>b, <1>c, <1>8, GotoFields, ReturnFields DEF StartWorker, OnError
  <1>9. CASE Activate(o)
    BY <1>a, <1>b, <1>c, <1>9, GotoFields, ReturnFields DEF Activate
  <1>10. CASE MarkFailed(o)
    BY <1>a, <1>b, <1>c, <1>10, GotoFields, ReturnFields DEF MarkFailed
  <1>11. CASE Cache(o)
    <2>1. CASE op' = [op EXCEPT ![o].pc = "setzip", ![o].zip = op[o].old]
      BY <1>a, <1>b, <1>11, <2>1 DEF Cache, OpsTyped, Operations
    <2>2. CASE Goto(o, "fetch")
      BY <1>a, <1>b, <1>11, <2>2, GotoFields DEF Cache
    <2> QED BY <1>11, <2>1, <2>2 DEF Cache
  <1>12. CASE SetCachedZip(o)
    BY <1>a, <1>b, <1>c, <1>12, GotoFields, ReturnFields DEF SetCachedZip
  <1>13. CASE Copy(o)
    BY <1>a, <1>b, <1>c, <1>13, GotoFields, ReturnFields DEF Copy, OnError
  <1>14. CASE MoveOld(o)
    BY <1>a, <1>b, <1>c, <1>14, GotoFields, ReturnFields DEF MoveOld, OnError
  <1>15. CASE MoveNew(o)
    BY <1>a, <1>b, <1>c, <1>15, GotoFields, ReturnFields DEF MoveNew, OnError
  <1>16. CASE MoveStorage(o)
    BY <1>a, <1>b, <1>c, <1>16, GotoFields, ReturnFields DEF MoveStorage
  <1>17. CASE Discard(o)
    BY <1>a, <1>b, <1>c, <1>17, GotoFields, ReturnFields DEF Discard
  <1>18. CASE UpdateRow(o)
    BY <1>a, <1>b, <1>c, <1>18, GotoFields, ReturnFields DEF UpdateRow
  <1>19. CASE DropZip(o)
    BY <1>a, <1>b, <1>c, <1>19, GotoFields, ReturnFields DEF DropZip
  <1>20. CASE Rollback(o)
    BY <1>a, <1>b, <1>c, <1>20, GotoFields, ReturnFields DEF Rollback
  <1>21. CASE Restore(o)
    <2>1. op[o].kind = "update" /\ (Goto(o, "reactivate") \/ Goto(o, "fail"))
      BY <1>21 DEF Restore
    <2>2. CASE Goto(o, "reactivate") BY <1>a, <1>b, <2>1, <2>2, GotoFields
    <2>3. CASE Goto(o, "fail") BY <1>a, <1>b, <2>1, <2>3, GotoFields
    <2> QED BY <2>1, <2>2, <2>3
  <1>22. CASE Reactivate(o)
    BY <1>a, <1>b, <1>c, <1>22, GotoFields, ReturnFields DEF Reactivate
  <1>23. CASE Isolate(o)
    BY <1>a, <1>b, <1>c, <1>23, GotoFields, ReturnFields DEF Isolate
  <1>24. CASE RemoveFiles(o)
    BY <1>a, <1>b, <1>c, <1>24, GotoFields, ReturnFields DEF RemoveFiles
  <1>25. CASE RemoveZip(o)
    BY <1>a, <1>b, <1>c, <1>25, GotoFields, ReturnFields DEF RemoveZip
  <1>26. CASE DeleteRow(o)
    BY <1>a, <1>b, <1>c, <1>26, GotoFields, ReturnFields DEF DeleteRow
  <1> QED
    BY <1>1, <1>2, <1>3, <1>4, <1>5, <1>6, <1>7, <1>8, <1>9, <1>10, <1>11, <1>12, <1>13,
       <1>14, <1>15, <1>16, <1>17, <1>18, <1>19, <1>20, <1>21, <1>22, <1>23, <1>24, <1>25,
       <1>26
    DEF Steps

LEMMA CopiesSound ==
  ASSUME dirs \in [DirNames -> Dir], Sound(dirs), NEW d \in DirNames, NEW v \in MaybeVersion
  PROVE  Sound(CopyOver(d, v)) /\ Sound(CopyPart(d))
  <1>1. ASSUME NEW ds,
               \A e \in DirNames : e # d => ds[e] = dirs[e],
               \A e \in DirNames : ds[e].storage = dirs[e].storage,
               ds[d].there = TRUE
        PROVE  Sound(ds)
    <2>1. \A e \in DirNames : ds[e].there \/ (ds[e].storage = {} /\ ds[e].code = NoVersion)
      <3> TAKE e \in DirNames
      <3>1. CASE e = d BY <1>1, <3>1
      <3>2. CASE e # d BY <1>1, <3>2 DEF Sound
      <3> QED BY <3>1, <3>2
    <2>2. \A w \in Versions : ds[New(w)].storage = {}
      BY <1>1, NamesTyped DEF Sound
    <2> QED BY <2>1, <2>2 DEF Sound
  <1>2. Sound(CopyOver(d, v)) BY <1>1, CopyOverIs
  <1>3. Sound(CopyPart(d)) BY <1>1, CopyPartIs
  <1> QED BY <1>2, <1>3

LEMMA RenameSound ==
  ASSUME dirs \in [DirNames -> Dir], Sound(dirs), NEW d \in DirNames, NEW e \in DirNames,
         d # e, \A v \in Versions : e # New(v)
  PROVE  Sound(Renamed(d, e))
  BY RenamedIs, NamesTyped DEF Sound, Absent

LEMMA RemoveSound ==
  ASSUME NEW ds \in [DirNames -> Dir], Sound(ds), NEW d \in DirNames, NEW es \in RemoveAll(ds, d)
  PROVE  Sound(es)
  <1>1. \A e \in DirNames : es[e].there \/ (es[e].storage = {} /\ es[e].code = NoVersion)
    <2> TAKE e \in DirNames
    <2>1. CASE e # d BY <2>1, RemovedIs DEF Sound
    <2>2. CASE es[d] = Absent BY <2>1, <2>2 DEF Absent
    <2>3. CASE es[d].there = ds[d].there
      <3>1. es[d].storage \subseteq ds[d].storage /\ es[d].code \in {ds[d].code, NoVersion}
        BY RemovedIs
      <3>2. ds[d].there \/ (ds[d].storage = {} /\ ds[d].code = NoVersion) BY DEF Sound
      <3>3. es[d].there \/ (es[d].storage = {} /\ es[d].code = NoVersion)
        BY <2>3, <3>1, <3>2
      <3> QED BY <2>1, <3>3
    <2> QED BY <2>1, <2>2, <2>3, RemovedIs
  <1>2. \A v \in Versions : es[New(v)].storage = {}
    <2> TAKE v \in Versions
    <2>1. ds[New(v)].storage = {} /\ New(v) \in DirNames BY NamesTyped DEF Sound
    <2> QED BY <2>1, RemovedIs
  <1> QED BY <1>1, <1>2 DEF Sound

LEMMA StepsSound ==
  ASSUME TypeOK, Shaped, NEW o \in Ops, Steps(o)
  PROVE  Sound(dirs')
  <1>a. StateTyped /\ dirs \in [DirNames -> Dir] /\ Sound(dirs)
    BY TypeParts DEF StateTyped, Shaped
  <1>b. OpsTyped /\ AtHand(op[o]) BY TypeParts DEF OpsTyped
  <1>c. /\ op[o].kind \in {"install", "update"} => op[o].new \in Versions
        /\ op[o].kind = "update" => op[o].old \in Versions
    BY <1>b DEF AtHand
  <1>1. CASE UNCHANGED dirs BY <1>a, <1>1
  <1>2. CASE Fill(o)
    <2>1. op[o].new \in MaybeVersion BY <1>c, <1>2 DEF Fill, At, MaybeVersion
    <2> QED BY <1>a, <1>2, <2>1, CopiesSound, NamesTyped DEF Fill
  <1>3. CASE Copy(o)
    <2> DEFINE new == New(op[o].new)
    <2>1. new \in DirNames /\ op[o].new \in MaybeVersion
      BY <1>c, <1>3, NamesTyped DEF Copy, At, MaybeVersion
    <2>2. Sound(CopyOver(new, op[o].new)) /\ Sound(CopyPart(new)) BY <1>a, <2>1, CopiesSound
    <2>3. CopyPart(new) \in [DirNames -> Dir] BY <1>a, <2>1, DirsTyped DEF MaybeVersion
    <2>4. \A es \in RemoveAll(CopyPart(new), new) : Sound(es)
      BY <2>1, <2>2, <2>3, RemoveSound
    <2> QED BY <1>a, <1>3, <2>2, <2>4 DEF Copy
  <1>4. CASE MoveOld(o)
    <2> DEFINE old == Old(op[o].old)
               new == New(op[o].new)
    <2>1. old \in DirNames /\ new \in DirNames BY <1>c, <1>4, NamesTyped DEF MoveOld, At
    <2>2. Sound(Renamed(Dest, old))
      BY <1>a, <2>1, NamesTyped, NamesDistinct, RenameSound
    <2>3. \A es \in RemoveAll(dirs, new) : Sound(es) BY <1>a, <2>1, RemoveSound
    <2> QED BY <1>4, <2>2, <2>3 DEF MoveOld
  <1>5. CASE MoveNew(o)
    <2> DEFINE old == Old(op[o].old)
               new == New(op[o].new)
    <2>1. old \in DirNames /\ new \in DirNames BY <1>c, <1>5, NamesTyped DEF MoveNew, At
    <2>2. Sound(Renamed(new, Dest)) /\ Sound(Renamed(old, Dest))
      BY <1>a, <2>1, NamesTyped, NamesDistinct, RenameSound
    <2>3. \A es \in RemoveAll(dirs, new) : Sound(es) BY <1>a, <2>1, RemoveSound
    <2>4. Renamed(old, Dest) \in [DirNames -> Dir]
      BY <1>a, <2>1, NamesTyped, DirsTyped DEF MaybeVersion
    <2>5. \A es \in RemoveAll(Renamed(old, Dest), new) : Sound(es)
      BY <2>1, <2>2, <2>4, RemoveSound
    <2> QED BY <1>5, <2>2, <2>3, <2>5 DEF MoveNew
  <1>6. CASE MoveStorage(o)
    <2> DEFINE old == Old(op[o].old)
    <2>1. old \in DirNames BY <1>c, <1>6, NamesTyped DEF MoveStorage, At
    <2>2. CASE /\ dirs[Dest].there
               /\ dirs' = [dirs EXCEPT ![Dest].storage = dirs[old].storage, ![old].storage = {}]
      <3>1. \A d \in DirNames : d \notin {Dest, old} => dirs'[d] = dirs[d]
        BY <1>a, <2>2
      <3>2. dirs'[Dest].there = dirs[Dest].there /\ dirs'[old].there = dirs[old].there
        BY <1>a, <2>1, <2>2, NamesTyped, NamesDistinct DEF Dir
      <3>3. dirs'[old].code = dirs[old].code /\ dirs'[old].storage = {}
        BY <1>a, <2>1, <2>2, NamesTyped, NamesDistinct DEF Dir
      <3> QED BY <1>a, <2>1, <2>2, <3>1, <3>2, <3>3, NamesTyped, NamesDistinct DEF Sound
    <2> QED BY <1>a, <1>6, <2>2 DEF MoveStorage
  <1>7. CASE Discard(o)
    <2>1. Old(op[o].old) \in DirNames BY <1>c, <1>7, NamesTyped DEF Discard, At
    <2> QED BY <1>a, <1>7, <2>1, RemoveSound DEF Discard
  <1>8. CASE Restore(o)
    <2>1. op[o].zip \in MaybeVersion BY <1>b, <1>8 DEF Restore, At, AtHand, MaybeVersion
    <2> QED BY <1>a, <1>8, <2>1, CopiesSound, NamesTyped DEF Restore
  <1>9. CASE RemoveFiles(o) BY <1>a, <1>9, RemoveSound, NamesTyped DEF RemoveFiles
  <1> QED
    BY <1>1, <1>2, <1>3, <1>4, <1>5, <1>6, <1>7, <1>8, <1>9
    DEF Steps, Fetch, Insert, Migrate, Record, CheckCrud, StopWorker, StartWorker, Activate,
        MarkFailed, Cache, SetCachedZip, UpdateRow, DropZip, Rollback, Reactivate, Isolate,
        RemoveZip, DeleteRow

-----------------------------------------------------------------------------
(* The uploads.                                                              *)

(* Every file that lies in some directory of ds lies in one of es.           *)
Kept(ds, es) ==
  \A d \in DirNames : \A f \in ds[d].storage : \E e \in DirNames : f \in es[e].storage

LEMMA KeptOnDisk ==
  ASSUME Kept(dirs, dirs')
  PROVE  OnDisk \subseteq OnDisk'
  BY DEF Kept, OnDisk

LEMMA CopiesKept ==
  ASSUME dirs \in [DirNames -> Dir], NEW d \in DirNames, NEW v \in MaybeVersion
  PROVE  Kept(dirs, CopyOver(d, v)) /\ Kept(dirs, CopyPart(d))
  <1>1. \A e \in DirNames : CopyOver(d, v)[e].storage = dirs[e].storage BY CopyOverIs
  <1>2. \A e \in DirNames : CopyPart(d)[e].storage = dirs[e].storage BY CopyPartIs
  <1> QED BY <1>1, <1>2 DEF Kept

LEMMA KeptTwice ==
  ASSUME NEW a, NEW b, NEW c, Kept(a, b), Kept(b, c)
  PROVE  Kept(a, c)
  BY DEF Kept

LEMMA RenameKept ==
  ASSUME dirs \in [DirNames -> Dir], NEW d \in DirNames, NEW e \in DirNames,
         d # e, dirs[e].storage = {}
  PROVE  Kept(dirs, Renamed(d, e))
  <1> SUFFICES ASSUME NEW c \in DirNames, NEW f \in dirs[c].storage
               PROVE  \E b \in DirNames : f \in Renamed(d, e)[b].storage
    BY DEF Kept
  <1>1. c # e OBVIOUS
  <1>2. CASE c = d BY <1>2, RenamedIs
  <1>3. CASE c # d BY <1>1, <1>3, RenamedIs
  <1> QED BY <1>2, <1>3

LEMMA RemoveKept ==
  ASSUME NEW ds \in [DirNames -> Dir], NEW d \in DirNames, NEW es \in RemoveAll(ds, d),
         ds[d].storage = {}
  PROVE  Kept(ds, es)
  <1> SUFFICES ASSUME NEW c \in DirNames, NEW f \in ds[c].storage
               PROVE  \E b \in DirNames : f \in es[b].storage
    BY DEF Kept
  <1>1. c # d OBVIOUS
  <1> QED BY <1>1, RemovedIs

(* A step that leaves the files alone, or only moves them, but not into the  *)
(* two labels in which more is known of them.                                *)
LEMMA UploadsElsewhere ==
  ASSUME NEW o \in Ops, UploadsAt(o), op'[o].pc \notin {"storage", "discard"},
         upset \subseteq upset', OnDisk \subseteq OnDisk', stored' = stored
  PROVE  UploadsAt(o)'
  BY DEF UploadsAt, At

LEMMA StepsKeepUploads ==
  ASSUME Inv, Shaped, NEW o \in Ops, Steps(o), UploadsAt(o)
  PROVE  UploadsAt(o)'
  <1>a. OpsTyped /\ StateTyped BY TypeParts DEF Inv
  <1>b. dirs \in [DirNames -> Dir] /\ Sound(dirs) BY <1>a DEF StateTyped, Shaped
  <1>c. AtHand(op[o]) BY <1>a DEF OpsTyped
  <1>d. UNCHANGED dirs => OnDisk' = OnDisk BY DEF OnDisk
  <1> USE DEF uploads
  <1>1. CASE Fetch(o)
    <2>1. op'[o].pc \notin {"storage", "discard"}
      BY <1>a, <1>1, GotoIs, ReturnIs DEF Fetch
    <2>2. UNCHANGED <<dirs, stored>> /\ upset \subseteq upset' BY <1>1 DEF Fetch
    <2> QED BY <1>d, <2>1, <2>2, UploadsElsewhere
  <1>2. CASE Insert(o)
    <2>1. op'[o].pc \notin {"storage", "discard"}
      BY <1>a, <1>2, GotoIs, ReturnIs DEF Insert
    <2>2. UNCHANGED <<dirs, stored>> /\ upset \subseteq upset' BY <1>2 DEF Insert
    <2> QED BY <1>d, <2>1, <2>2, UploadsElsewhere
  <1>3. CASE Fill(o)
    <2>1. op'[o].pc \notin {"storage", "discard"}
      BY <1>a, <1>3, GotoIs DEF Fill, OnError
    <2>2. op[o].new \in MaybeVersion BY <1>c, <1>3 DEF Fill, At, AtHand, MaybeVersion
    <2>3. Kept(dirs, CopyOver(Dest, op[o].new)) /\ Kept(dirs, CopyPart(Dest))
      BY <1>b, <2>2, NamesTyped, CopiesKept
    <2>4. OnDisk \subseteq OnDisk' BY <1>d, <1>3, <2>3, KeptOnDisk DEF Fill
    <2>5. stored' = stored /\ upset' = upset BY <1>3 DEF Fill
    <2> QED BY <2>1, <2>4, <2>5, UploadsElsewhere
  <1>4. CASE Migrate(o)
    <2>1. op'[o].pc \notin {"storage", "discard"}
      BY <1>a, <1>4, GotoIs, ReturnIs DEF Migrate, OnError
    <2>2. UNCHANGED <<dirs, stored>> /\ upset \subseteq upset' BY <1>4 DEF Migrate
    <2> QED BY <1>d, <2>1, <2>2, UploadsElsewhere
  <1>5. CASE Record(o)
    <2>1. op'[o].pc \notin {"storage", "discard"}
      BY <1>a, <1>5, GotoIs, ReturnIs DEF Record
    <2>2. UNCHANGED <<dirs, stored>> /\ upset \subseteq upset' BY <1>5 DEF Record
    <2> QED BY <1>d, <2>1, <2>2, UploadsElsewhere
  <1>6. CASE CheckCrud(o)
    <2>1. op'[o].pc \notin {"storage", "discard"}
      BY <1>a, <1>6, GotoIs, ReturnIs DEF CheckCrud, OnError
    <2>2. UNCHANGED <<dirs, stored>> /\ upset \subseteq upset' BY <1>6 DEF CheckCrud
    <2> QED BY <1>d, <2>1, <2>2, UploadsElsewhere
  <1>7. CASE StopWorker(o)
    <2>1. op'[o].pc \notin {"storage", "discard"}
      BY <1>a, <1>7, GotoIs, ReturnIs DEF StopWorker
    <2>2. UNCHANGED <<dirs, stored>> /\ upset \subseteq upset' BY <1>7 DEF StopWorker
    <2> QED BY <1>d, <2>1, <2>2, UploadsElsewhere
  <1>8. CASE StartWorker(o)
    <2>1. op'[o].pc \notin {"storage", "discard"}
      BY <1>a, <1>8, GotoIs, ReturnIs DEF StartWorker, OnError
    <2>2. UNCHANGED <<dirs, stored>> /\ upset \subseteq upset' BY <1>8 DEF StartWorker
    <2> QED BY <1>d, <2>1, <2>2, UploadsElsewhere
  <1>9. CASE Activate(o)
    <2>1. op'[o].pc \notin {"storage", "discard"}
      BY <1>a, <1>9, GotoIs, ReturnIs DEF Activate
    <2>2. UNCHANGED <<dirs, stored>> /\ upset \subseteq upset' BY <1>9 DEF Activate
    <2> QED BY <1>d, <2>1, <2>2, UploadsElsewhere
  <1>10. CASE MarkFailed(o)
    <2>1. op'[o].pc \notin {"storage", "discard"}
      BY <1>a, <1>10, GotoIs, ReturnIs DEF MarkFailed
    <2>2. UNCHANGED <<dirs, stored>> /\ upset \subseteq upset' BY <1>10 DEF MarkFailed
    <2> QED BY <1>d, <2>1, <2>2, UploadsElsewhere
  <1>11. CASE Cache(o)
    <2>1. op'[o].pc \in {"setzip", "fetch"}
      <3>1. CASE op' = [op EXCEPT ![o].pc = "setzip", ![o].zip = op[o].old]
        BY <1>a, <3>1 DEF OpsTyped, Operations
      <3>2. CASE Goto(o, "fetch") BY <1>a, <3>2, GotoFields
      <3> QED BY <1>11, <3>1, <3>2 DEF Cache
    <2> QED BY <1>d, <1>11, <2>1, UploadsElsewhere DEF Cache
  <1>12. CASE SetCachedZip(o)
    <2>1. op'[o].pc \notin {"storage", "discard"}
      BY <1>a, <1>12, GotoIs, ReturnIs DEF SetCachedZip
    <2>2. UNCHANGED <<dirs, stored>> /\ upset \subseteq upset' BY <1>12 DEF SetCachedZip
    <2> QED BY <1>d, <2>1, <2>2, UploadsElsewhere
  <1>13. CASE Copy(o)
    <2> DEFINE new == New(op[o].new)
    <2>1. op'[o].pc \notin {"storage", "discard"}
      BY <1>a, <1>13, GotoIs DEF Copy, OnError
    <2>2. new \in DirNames /\ op[o].new \in MaybeVersion /\ dirs[new].storage = {}
      BY <1>b, <1>c, <1>13, NamesTyped DEF Copy, At, AtHand, MaybeVersion, Sound
    <2>3. CopyPart(new) \in [DirNames -> Dir] BY <1>a, <2>2, DirsTyped
    <2>4. Kept(dirs, CopyOver(new, op[o].new)) /\ Kept(dirs, CopyPart(new))
      BY <1>b, <2>2, CopiesKept
    <2>5. CopyPart(new)[new].storage = {} BY <1>b, <2>2, CopyPartIs
    <2>6. \A es \in RemoveAll(CopyPart(new), new) : Kept(dirs, es)
      BY <2>2, <2>3, <2>4, <2>5, RemoveKept, KeptTwice
    <2>7. dirs' = dirs \/ Kept(dirs, dirs') BY <1>13, <2>4, <2>6 DEF Copy
    <2>8. OnDisk \subseteq OnDisk' BY <1>d, <2>7, KeptOnDisk
    <2>9. stored' = stored /\ upset' = upset BY <1>13 DEF Copy, uploads
    <2> QED BY <2>1, <2>8, <2>9, UploadsElsewhere
  <1>14. CASE MoveOld(o)
    <2> DEFINE old == Old(op[o].old)
               new == New(op[o].new)
    <2>1. op'[o].pc \notin {"storage", "discard"}
      BY <1>a, <1>14, GotoIs DEF MoveOld, OnError
    <2>2. old \in DirNames /\ new \in DirNames /\ dirs[new].storage = {}
      BY <1>b, <1>c, <1>14, NamesTyped DEF MoveOld, At, AtHand, Sound
    <2>3. ASSUME CanRename(Dest, old) PROVE Kept(dirs, Renamed(Dest, old))
      <3>1. dirs[old].storage = {} BY <1>b, <2>2, <2>3 DEF CanRename, Sound
      <3> QED BY <1>b, <2>2, <2>3, <3>1, NamesTyped, NamesDistinct, RenameKept
    <2>4. \A es \in RemoveAll(dirs, new) : Kept(dirs, es)
      BY <1>b, <2>2, RemoveKept
    <2>5. OnDisk \subseteq OnDisk'
      <3>1. Kept(dirs, dirs') BY <1>14, <2>3, <2>4 DEF MoveOld
      <3> QED BY <3>1, KeptOnDisk
    <2>6. stored' = stored /\ upset' = upset BY <1>14 DEF MoveOld
    <2> QED BY <2>1, <2>5, <2>6, UploadsElsewhere
  <1>15. CASE MoveNew(o)
    <2> DEFINE old == Old(op[o].old)
               new == New(op[o].new)
    <2>1. /\ old \in DirNames /\ new \in DirNames /\ dirs[new].storage = {}
          /\ dirs[Dest].there \/ dirs[Dest].storage = {}
      BY <1>b, <1>c, <1>15, NamesTyped DEF MoveNew, At, AtHand, Sound
    <2>2. stored' = stored /\ upset' = upset BY <1>15 DEF MoveNew
    <2>3. CASE CanRename(new, Dest) /\ dirs' = Renamed(new, Dest) /\ Goto(o, "storage")
      <3>1. Kept(dirs, dirs')
        BY <1>b, <2>1, <2>3, NamesTyped, NamesDistinct, RenameKept DEF CanRename
      <3>2. dirs'[Dest] = dirs[new] /\ dirs[new].there
        BY <1>b, <2>1, <2>3, NamesTyped, NamesDistinct, RenamedIs DEF CanRename
      <3>3. op'[o].pc = "storage" BY <1>a, <2>3, GotoIs
      <3> QED BY <2>1, <2>2, <3>1, <3>2, <3>3, KeptOnDisk DEF UploadsAt, At
    <2>4. CASE OnError(o)
      <3>1. op'[o].pc \notin {"storage", "discard"} BY <1>a, <2>4, GotoIs DEF OnError
      <3>2. ASSUME CanRename(old, Dest), dirs' \in RemoveAll(Renamed(old, Dest), new)
            PROVE  Kept(dirs, dirs')
        <4> DEFINE back == Renamed(old, Dest)
        <4>1. Kept(dirs, back)
          BY <1>b, <2>1, <3>2, NamesTyped, NamesDistinct, RenameKept DEF CanRename
        <4>2. back \in [DirNames -> Dir] BY <1>a, <2>1, NamesTyped, DirsTyped DEF MaybeVersion
        <4>3. new \notin {old, Dest} BY NamesDistinct
        <4>4. back[new].storage = {}
          <5>1. Dest # old /\ Dest \in DirNames BY NamesTyped, NamesDistinct
          <5>2. \A c \in DirNames : c \notin {old, Dest} => back[c] = dirs[c]
            BY <1>b, <2>1, <5>1, RenamedIs
          <5>3. back[new] = dirs[new] BY <2>1, <4>3, <5>2
          <5> QED BY <2>1, <5>3
        <4>5. dirs' \in RemoveAll(back, new) BY <3>2
        <4> HIDE DEF back
        <4>6. Kept(back, dirs') BY <2>1, <4>2, <4>4, <4>5, RemoveKept
        <4> QED BY <4>1, <4>6, KeptTwice
      <3>3. ASSUME dirs' \in RemoveAll(dirs, new) PROVE Kept(dirs, dirs')
        BY <1>b, <2>1, <3>3, RemoveKept
      <3>5. CASE Kept(dirs, dirs') BY <2>2, <3>1, <3>5, KeptOnDisk, UploadsElsewhere
      <3>6. CASE Goto(o, "storage") BY <1>a, <3>1, <3>6, GotoIs
      <3> QED BY <1>15, <3>2, <3>3, <3>5, <3>6 DEF MoveNew
    <2> QED BY <1>15, <2>3, <2>4 DEF MoveNew
  <1>16. CASE MoveStorage(o)
    <2> DEFINE old == Old(op[o].old)
    <2>1. op'[o].pc = "discard" /\ op'[o].old = op[o].old /\ stored' = stored
      BY <1>a, <1>16, GotoFields DEF MoveStorage
    <2>2. old \in DirNames /\ Dest # old
      BY <1>c, <1>16, NamesTyped, NamesDistinct DEF MoveStorage, At, AtHand
    <2>3. CASE /\ dirs[Dest].storage = {}
               /\ dirs' = [dirs EXCEPT ![Dest].storage = dirs[old].storage, ![old].storage = {}]
               /\ UNCHANGED upset
      <3>1. dirs'[Dest].storage = dirs[old].storage /\ dirs'[old].storage = {}
        BY <1>b, <2>2, <2>3, NamesTyped DEF Dir
      <3>2. \A d \in DirNames : d \notin {Dest, old} => dirs'[d] = dirs[d]
        BY <1>b, <2>3
      <3>3. Kept(dirs, dirs')
        <4> SUFFICES ASSUME NEW d \in DirNames, NEW f \in dirs[d].storage
                     PROVE  \E e \in DirNames : f \in dirs'[e].storage
          BY DEF Kept
        <4>1. CASE d = old BY <3>1, <4>1, NamesTyped
        <4>2. CASE d \notin {Dest, old} BY <3>2, <4>2
        <4> QED BY <2>3, <4>1, <4>2
      <3> QED BY <2>1, <2>3, <3>1, <3>3, KeptOnDisk DEF UploadsAt, At
    <2>4. CASE /\ dirs[old].storage = {} \/ dirs[Dest].storage # {} \/ ~dirs[Dest].there \/ DiskFails
               /\ upset' = IF dirs[old].storage # {} /\ dirs[Dest].storage = {} /\ dirs[Dest].there
                           THEN upset \cup {"disk"} ELSE upset
               /\ UNCHANGED dirs
      <3>1. SUFFICES ASSUME upset' \cap {"upload", "disk"} = {}
                     PROVE  stored' \subseteq OnDisk' /\ dirs'[old].storage = {}
        BY <2>1 DEF UploadsAt, At
      <3>2. upset \cap {"upload", "disk"} = {}
            /\ ~(dirs[old].storage # {} /\ dirs[Dest].storage = {} /\ dirs[Dest].there)
        BY <2>4, <3>1
      <3>3. dirs[Dest].there /\ dirs[Dest].storage = {} /\ stored \subseteq OnDisk
        BY <1>16, <3>2 DEF UploadsAt, MoveStorage
      <3> QED BY <1>d, <2>1, <2>4, <3>2, <3>3
    <2> QED BY <1>16, <2>3, <2>4 DEF MoveStorage
  <1>17. CASE Discard(o)
    <2> DEFINE old == Old(op[o].old)
    <2>1. op'[o].pc = "migrate" /\ stored' = stored /\ upset' = upset
      BY <1>a, <1>17, GotoFields DEF Discard
    <2>2. old \in DirNames
      BY <1>c, <1>17, NamesTyped DEF Discard, At, AtHand
    <2>3. CASE dirs[old].storage = {}
      <3>1. Kept(dirs, dirs') BY <1>b, <1>17, <2>2, <2>3, RemoveKept DEF Discard
      <3> QED BY <2>1, <3>1, KeptOnDisk, UploadsElsewhere
    <2>4. CASE dirs[old].storage # {}
      BY <1>17, <2>1, <2>4 DEF Discard, UploadsAt
    <2> QED BY <2>3, <2>4
  <1>18. CASE UpdateRow(o)
    <2>1. op'[o].pc \notin {"storage", "discard"}
      BY <1>a, <1>18, GotoIs, ReturnIs DEF UpdateRow
    <2>2. UNCHANGED <<dirs, stored>> /\ upset \subseteq upset' BY <1>18 DEF UpdateRow
    <2> QED BY <1>d, <2>1, <2>2, UploadsElsewhere
  <1>19. CASE DropZip(o)
    <2>1. op'[o].pc \notin {"storage", "discard"}
      BY <1>a, <1>19, GotoIs, ReturnIs DEF DropZip
    <2>2. UNCHANGED <<dirs, stored>> /\ upset \subseteq upset' BY <1>19 DEF DropZip
    <2> QED BY <1>d, <2>1, <2>2, UploadsElsewhere
  <1>20. CASE Rollback(o)
    <2>1. op'[o].pc \notin {"storage", "discard"}
      BY <1>a, <1>20, GotoIs, ReturnIs DEF Rollback
    <2>2. UNCHANGED <<dirs, stored>> /\ upset \subseteq upset' BY <1>20 DEF Rollback
    <2> QED BY <1>d, <2>1, <2>2, UploadsElsewhere
  <1>21. CASE Restore(o)
    <2>1. op'[o].pc \notin {"storage", "discard"} BY <1>a, <1>21, GotoIs DEF Restore
    <2>2. op[o].zip \in MaybeVersion BY <1>c, <1>21 DEF Restore, At, AtHand, MaybeVersion
    <2>3. Kept(dirs, CopyOver(Dest, op[o].zip)) /\ Kept(dirs, CopyPart(Dest))
      BY <1>b, <2>2, NamesTyped, CopiesKept
    <2>4. OnDisk \subseteq OnDisk' BY <1>d, <1>21, <2>3, KeptOnDisk DEF Restore
    <2>5. stored' = stored /\ upset' = upset BY <1>21 DEF Restore
    <2> QED BY <2>1, <2>4, <2>5, UploadsElsewhere
  <1>22. CASE Reactivate(o)
    <2>1. op'[o].pc \notin {"storage", "discard"}
      BY <1>a, <1>22, GotoIs, ReturnIs DEF Reactivate
    <2>2. UNCHANGED <<dirs, stored>> /\ upset \subseteq upset' BY <1>22 DEF Reactivate
    <2> QED BY <1>d, <2>1, <2>2, UploadsElsewhere
  <1>23. CASE Isolate(o)
    <2>1. op'[o].pc \notin {"storage", "discard"}
      BY <1>a, <1>23, GotoIs, ReturnIs DEF Isolate
    <2>2. UNCHANGED <<dirs, stored>> /\ upset \subseteq upset' BY <1>23 DEF Isolate
    <2> QED BY <1>d, <2>1, <2>2, UploadsElsewhere
  <1>24. CASE RemoveFiles(o)
    <2>1. op'[o].pc = "rmzip" /\ upset' = upset BY <1>a, <1>24, GotoIs DEF RemoveFiles
    <2>2. \A d \in DirNames : d # Dest => dirs'[d] = dirs[d]
      BY <1>b, <1>24, NamesTyped, RemovedIs DEF RemoveFiles
    <2>3. stored' = stored \ (dirs[Dest].storage \ dirs'[Dest].storage)
      BY <1>24 DEF RemoveFiles
    <2>4. ASSUME stored \subseteq OnDisk PROVE stored' \subseteq OnDisk'
      <3> SUFFICES ASSUME NEW f \in stored' PROVE \E d \in DirNames : f \in dirs'[d].storage
        BY DEF OnDisk
      <3>1. PICK d \in DirNames : f \in dirs[d].storage BY <2>3, <2>4 DEF OnDisk
      <3>2. CASE d = Dest BY <2>3, <3>1, <3>2
      <3>3. CASE d # Dest BY <2>2, <3>1, <3>3
      <3> QED BY <3>2, <3>3
    <2> QED BY <2>1, <2>4 DEF UploadsAt, At
  <1>25. CASE RemoveZip(o)
    <2>1. op'[o].pc \notin {"storage", "discard"}
      BY <1>a, <1>25, GotoIs, ReturnIs DEF RemoveZip
    <2>2. UNCHANGED <<dirs, stored>> /\ upset \subseteq upset' BY <1>25 DEF RemoveZip
    <2> QED BY <1>d, <2>1, <2>2, UploadsElsewhere
  <1>26. CASE DeleteRow(o)
    <2>1. op'[o].pc \notin {"storage", "discard"}
      BY <1>a, <1>26, GotoIs, ReturnIs DEF DeleteRow
    <2>2. UNCHANGED <<dirs, stored>> /\ upset \subseteq upset' BY <1>26 DEF DeleteRow
    <2> QED BY <1>d, <2>1, <2>2, UploadsElsewhere
  <1> QED
    BY <1>1, <1>2, <1>3, <1>4, <1>5, <1>6, <1>7, <1>8, <1>9, <1>10, <1>11, <1>12, <1>13,
       <1>14, <1>15, <1>16, <1>17, <1>18, <1>19, <1>20, <1>21, <1>22, <1>23, <1>24, <1>25,
       <1>26
    DEF Steps

-----------------------------------------------------------------------------
(* The code of the module.                                                   *)

(* The rest of operation o's record stays as it is.                          *)
SameOperation(o) ==
  /\ op'[o].kind = op[o].kind /\ op'[o].new = op[o].new /\ op'[o].old = op[o].old
  /\ op'[o].zip = op[o].zip /\ op'[o].live = op[o].live

LEMMA GotoSame ==
  ASSUME OpsTyped, NEW o \in Ops, NEW l, Goto(o, l)
  PROVE  op'[o].pc = l /\ SameOperation(o)
  BY GotoFields DEF SameOperation

LEMMA StepsKeepCode ==
  ASSUME Inv, Shaped, NEW o \in Ops, Steps(o), CodeAt(o)
  PROVE  CodeAt(o)'
  <1>a. OpsTyped /\ StateTyped /\ op[o] \in Operations BY TypeParts DEF Inv, OpsTyped
  <1>b. /\ dirs \in [DirNames -> Dir] /\ Sound(dirs) /\ row \in Rows
        /\ NoVersion \notin Versions
    BY <1>a, VersionAssumption DEF StateTyped, Shaped
  <1>c. AtHand(op[o]) /\ OpShape(op[o]) BY <1>a DEF OpsTyped, Shaped
  <1>d. op[o].pc # "idle" => op[o].kind \in {"install", "update", "restart", "uninstall"}
    BY <1>a, Busy DEF Inv, Shaped
  <1> USE DEF uploads, database, At, Holding, UpdateFirst, UpdateMoved
  <1>1. CASE Fetch(o)
    <2>1. UNCHANGED <<row, dirs, zips, upset>> BY <1>1 DEF Fetch
    <2>2. CASE op'[o] = Idle BY <2>1, <2>2 DEF CodeAt, Recoverable, Idle
    <2>3. CASE op'[o] # Idle
      BY <1>a, <1>c, <1>1, <2>1, <2>3, GotoSame, ReturnFields
      DEF Fetch, CodeAt, Recoverable, SameOperation, AtHand, OpShape
    <2> QED BY <1>a, <1>1, <2>2, <2>3, GotoSame, ReturnFields DEF Fetch
  <1>2. CASE Insert(o)
    <2>1. CASE Return(o) /\ UNCHANGED row
      BY <1>a, <1>2, <2>1, ReturnFields DEF Insert, CodeAt, Recoverable
    <2>2. CASE Goto(o, "fill") /\ row'.status = "installing"
      BY <1>a, <1>2, <2>2, GotoSame DEF Insert, CodeAt, SameOperation
    <2> QED BY <1>2, <2>1, <2>2 DEF Insert
  <1>3. CASE Fill(o)
    <2>1. /\ op[o].new \in Versions /\ op[o].new \in MaybeVersion
          /\ op[o].kind = "install" /\ UNCHANGED <<row, zips, upset>>
      BY <1>c, <1>3 DEF Fill, AtHand, MaybeVersion
    <2>2. CASE dirs' = CopyOver(Dest, op[o].new) /\ Goto(o, "migrate")
      <3>1. dirs'[Dest].code = op[o].new BY <1>b, <2>1, <2>2, NamesTyped, CopyOverIs
      <3> QED BY <1>a, <1>b, <1>3, <2>1, <2>2, <3>1, GotoSame DEF Fill, CodeAt, SameOperation
    <2>3. CASE OnError(o)
      BY <1>a, <1>3, <2>1, <2>3, GotoSame DEF Fill, CodeAt, SameOperation, OnError
    <2> QED BY <1>3, <2>2, <2>3 DEF Fill
  <1>4. CASE Migrate(o)
    <2>1. UNCHANGED <<row, dirs, zips, upset>> BY <1>4 DEF Migrate
    <2>2. CASE op'[o] = Idle BY <2>1, <2>2 DEF CodeAt, Recoverable, Idle
    <2>3. CASE op'[o] # Idle
      BY <1>a, <1>c, <1>4, <2>1, <2>3, GotoSame, ReturnFields
      DEF Migrate, CodeAt, Recoverable, SameOperation, AtHand, OpShape, OnError
    <2> QED BY <1>a, <1>4, <2>2, <2>3, GotoSame, ReturnFields DEF Migrate, OnError
  <1>5. CASE Record(o)
    <2>1. UNCHANGED <<row, dirs, zips, upset>> BY <1>5 DEF Record
    <2>2. CASE op'[o] = Idle BY <2>1, <2>2 DEF CodeAt, Recoverable, Idle
    <2>3. CASE op'[o] # Idle
      BY <1>a, <1>c, <1>5, <2>1, <2>3, GotoSame, ReturnFields
      DEF Record, CodeAt, Recoverable, SameOperation, AtHand, OpShape
    <2> QED BY <1>a, <1>5, <2>2, <2>3, GotoSame, ReturnFields DEF Record
  <1>6. CASE CheckCrud(o)
    <2>1. UNCHANGED <<row, dirs, zips, upset>> BY <1>6 DEF CheckCrud
    <2>2. CASE op'[o] = Idle BY <2>1, <2>2 DEF CodeAt, Recoverable, Idle
    <2>3. CASE op'[o] # Idle
      BY <1>a, <1>c, <1>6, <2>1, <2>3, GotoSame, ReturnFields
      DEF CheckCrud, CodeAt, Recoverable, SameOperation, AtHand, OpShape, OnError
    <2> QED BY <1>a, <1>6, <2>2, <2>3, GotoSame, ReturnFields DEF CheckCrud, OnError
  <1>7. CASE StopWorker(o)
    <2>1. UNCHANGED <<row, dirs, zips, upset>> BY <1>7 DEF StopWorker
    <2>2. CASE op'[o] = Idle BY <2>1, <2>2 DEF CodeAt, Recoverable, Idle
    <2>3. CASE op'[o] # Idle
      BY <1>a, <1>c, <1>7, <2>1, <2>3, GotoSame, ReturnFields
      DEF StopWorker, CodeAt, Recoverable, SameOperation, AtHand, OpShape
    <2> QED BY <1>a, <1>7, <2>2, <2>3, GotoSame, ReturnFields DEF StopWorker
  <1>8. CASE StartWorker(o)
    <2>1. UNCHANGED <<row, dirs, zips, upset>> BY <1>8 DEF StartWorker
    <2>2. CASE op'[o] = Idle BY <2>1, <2>2 DEF CodeAt, Recoverable, Idle
    <2>3. CASE op'[o] # Idle
      BY <1>a, <1>c, <1>8, <2>1, <2>3, GotoSame, ReturnFields
      DEF StartWorker, CodeAt, Recoverable, SameOperation, AtHand, OpShape, OnError, CanStart
    <2> QED BY <1>a, <1>8, <2>2, <2>3, GotoSame, ReturnFields DEF StartWorker, OnError
  <1>9. CASE Activate(o)
    <2>1. UNCHANGED <<dirs, zips, upset>> /\ row'.version = row.version
      BY <1>a, <1>9, SetStatusFields DEF Activate
    <2>2. "zip" \notin upset => dirs[Dest].code # NoVersion
      BY <1>c, <1>d, <1>9 DEF Activate, CodeAt, OpShape
    <2>3. CASE Return(o)
      BY <1>a, <2>1, <2>2, <2>3, ReturnFields DEF CodeAt, Recoverable
    <2>4. CASE op[o].kind = "update" /\ Goto(o, "zip")
      BY <1>a, <2>1, <2>2, <2>4, GotoSame DEF CodeAt, Recoverable, SameOperation
    <2> QED BY <1>9, <2>3, <2>4 DEF Activate
  <1>10. CASE MarkFailed(o)
    <2>1. UNCHANGED <<dirs, zips, upset>> /\ row'.version = row.version
          /\ row'.status \in {row.status, "failed"}
      BY <1>a, <1>10, SetStatusFields DEF MarkFailed
    <2> QED BY <1>a, <1>10, <2>1, ReturnFields DEF MarkFailed, CodeAt, Recoverable
  <1>11. CASE Cache(o)
    <2>1. UNCHANGED <<row, dirs>> /\ op[o].kind = "update" /\ op[o].pc = "cache"
      BY <1>11 DEF Cache
    <2>2. CASE /\ zips' = zips \cup {op[o].old}
               /\ op' = [op EXCEPT ![o].pc = "setzip", ![o].zip = op[o].old]
               /\ UNCHANGED upset
      <3>1. /\ op'[o].pc = "setzip" /\ op'[o].zip = op[o].old /\ op'[o].old = op[o].old
            /\ op'[o].kind = "update"
        BY <1>a, <2>1, <2>2 DEF OpsTyped, Operations
      <3> QED BY <2>1, <2>2, <3>1 DEF CodeAt, Recoverable
    <2>3. CASE /\ zips' = zips \/ "zip" \in upset'
               /\ upset \subseteq upset'
               /\ Goto(o, "fetch")
      BY <1>a, <2>1, <2>3, GotoSame DEF CodeAt, Recoverable, SameOperation
    <2> QED BY <1>11, <2>2, <2>3 DEF Cache
  <1>12. CASE SetCachedZip(o)
    <2>1. /\ UNCHANGED <<dirs, zips, upset>> /\ row'.version = row.version
          /\ row'.status = row.status
      BY <1>b, <1>12 DEF SetCachedZip, Rows
    <2> QED BY <1>a, <1>12, <2>1, GotoSame DEF SetCachedZip, CodeAt, Recoverable, SameOperation
  <1>13. CASE Copy(o)
    <2> DEFINE new == New(op[o].new)
    <2>1. /\ UNCHANGED <<row, zips, upset>> /\ op[o].kind = "update" /\ op[o].pc = "copy"
          /\ new \in DirNames /\ op[o].new \in Versions /\ op[o].new \in MaybeVersion
      BY <1>c, <1>13, NamesTyped DEF Copy, AtHand, MaybeVersion
    <2>2. CopyPart(new) \in [DirNames -> Dir] BY <1>a, <2>1, DirsTyped
    <2>3. \A d \in DirNames : d # new => dirs'[d] = dirs[d]
      <3>1. CASE dirs' = CopyOver(new, op[o].new) BY <1>b, <2>1, <3>1, CopyOverIs, ZenonT(60)
      <3>2. CASE dirs' \in RemoveAll(CopyPart(new), new)
        <4>1. \A d \in DirNames : d # new => dirs'[d] = CopyPart(new)[d]
          BY <2>1, <2>2, <3>2, RemovedIs
        <4>2. \A d \in DirNames : d # new => CopyPart(new)[d] = dirs[d]
          BY <1>b, <2>1, CopyPartIs
        <4> QED BY <4>1, <4>2
      <3> QED BY <1>13, <3>1, <3>2 DEF Copy
    <2>4. dirs'[Dest] = dirs[Dest]
      BY <2>3, NamesTyped, NamesDistinct
    <2>5. row.version \in Versions => dirs'[Old(row.version)] = dirs[Old(row.version)]
      BY <2>3, NamesTyped, NamesDistinct
    <2>6. row.status = "active" => row.version \in Versions BY <1>a DEF StateTyped, Installed
    <2>7. CASE dirs' = CopyOver(new, op[o].new) /\ Goto(o, "moveold")
      <3>1. dirs'[new].code = op[o].new BY <1>b, <2>1, <2>7, CopyOverIs
      <3> QED BY <1>a, <1>b, <2>1, <2>4, <2>5, <2>6, <2>7, <3>1, GotoSame
              DEF CodeAt, Recoverable, SameOperation
    <2>8. CASE OnError(o)
      BY <1>a, <2>1, <2>4, <2>5, <2>6, <2>8, GotoSame
      DEF CodeAt, Recoverable, SameOperation, OnError
    <2> QED BY <1>13, <2>7, <2>8 DEF Copy
  <1>14. CASE MoveOld(o)
    <2> DEFINE old == Old(op[o].old)
               new == New(op[o].new)
    <2>1. /\ UNCHANGED <<row, zips, upset>> /\ op[o].kind = "update" /\ op[o].pc = "moveold"
          /\ new \in DirNames /\ old \in DirNames
      BY <1>c, <1>14, NamesTyped DEF MoveOld, AtHand
    <2>2. "zip" \notin upset => row.version = op[o].old BY <2>1 DEF CodeAt
    <2>3. CASE CanRename(Dest, old) /\ dirs' = Renamed(Dest, old) /\ Goto(o, "movenew")
      <3>1. dirs[old].code = NoVersion BY <1>b, <2>1, <2>3 DEF Sound, CanRename
      <3>2. dirs'[old] = dirs[Dest] /\ dirs'[new] = dirs[new]
        <4>1. Dest \in DirNames /\ Dest # old /\ new \notin {Dest, old}
          BY NamesTyped, NamesDistinct
        <4> QED BY <1>b, <2>1, <2>3, <4>1, RenamedIs
      <3> QED BY <1>a, <2>1, <2>2, <2>3, <3>1, <3>2, GotoSame
              DEF CodeAt, Recoverable, SameOperation
    <2>4. CASE dirs' \in RemoveAll(dirs, new) /\ OnError(o)
      <3>1. dirs'[Dest] = dirs[Dest] /\ dirs'[old] = dirs[old]
        BY <1>b, <2>1, <2>4, NamesTyped, NamesDistinct, RemovedIs
      <3> QED BY <1>a, <2>1, <2>2, <2>4, <3>1, GotoSame
              DEF CodeAt, Recoverable, SameOperation, OnError
    <2> QED BY <1>14, <2>3, <2>4 DEF MoveOld
  <1>15. CASE MoveNew(o)
    <2> DEFINE old == Old(op[o].old)
               new == New(op[o].new)
    <2>1. /\ UNCHANGED <<row, zips, upset>> /\ op[o].kind = "update" /\ op[o].pc = "movenew"
          /\ new \in DirNames /\ old \in DirNames /\ Dest \in DirNames
          /\ Dest # old /\ Dest # new /\ new # old
      BY <1>c, <1>15, NamesTyped, NamesDistinct DEF MoveNew, AtHand
    <2>2. "zip" \notin upset => row.version = op[o].old BY <2>1 DEF CodeAt
    <2>3. CASE CanRename(new, Dest) /\ dirs' = Renamed(new, Dest) /\ Goto(o, "storage")
      <3>1. dirs'[Dest] = dirs[new] BY <1>b, <2>1, <2>3, RenamedIs
      <3> QED BY <1>a, <2>1, <2>2, <2>3, <3>1, GotoSame
              DEF CodeAt, Recoverable, SameOperation
    <2>4. CASE CanRename(old, Dest) /\ dirs' \in RemoveAll(Renamed(old, Dest), new) /\ OnError(o)
      <3>1. dirs[Dest].code = NoVersion BY <1>b, <2>1, <2>4 DEF Sound, CanRename
      <3>2. Renamed(old, Dest)[Dest] = dirs[old] BY <1>b, <2>1, RenamedIs
      <3>3. Renamed(old, Dest) \in [DirNames -> Dir] BY <1>a, <2>1, DirsTyped DEF MaybeVersion
      <3>4. dirs'[Dest] = dirs[old] BY <2>1, <2>4, <3>2, <3>3, RemovedIs
      <3> QED BY <1>a, <2>1, <2>2, <2>4, <3>1, <3>4, GotoSame
              DEF CodeAt, Recoverable, SameOperation, OnError
    <2>5. CASE dirs' \in RemoveAll(dirs, new) /\ OnError(o)
      <3>1. dirs'[Dest] = dirs[Dest] /\ dirs'[old] = dirs[old]
        BY <1>b, <2>1, <2>5, RemovedIs
      <3> QED BY <1>a, <2>1, <2>2, <2>5, <3>1, GotoSame
              DEF CodeAt, Recoverable, SameOperation, OnError
    <2> QED BY <1>15, <2>3, <2>4, <2>5 DEF MoveNew
  <1>16. CASE MoveStorage(o)
    <2>1. /\ UNCHANGED <<row, zips>> /\ upset \subseteq upset'
          /\ op[o].kind = "update" /\ op[o].pc = "storage"
          /\ op'[o].pc = "discard" /\ SameOperation(o)
      BY <1>a, <1>16, GotoSame DEF MoveStorage
    <2>2. dirs'[Dest].code = dirs[Dest].code
      <3>1. Dest \in DirNames /\ Old(op[o].old) \in DirNames /\ Dest # Old(op[o].old)
        BY <1>c, <1>16, NamesTyped, NamesDistinct DEF MoveStorage, AtHand
      <3> QED BY <1>b, <1>16, <3>1 DEF MoveStorage, Dir
    <2> QED BY <2>1, <2>2 DEF CodeAt, Recoverable, SameOperation
  <1>17. CASE Discard(o)
    <2>1. /\ UNCHANGED <<row, zips, upset>>
          /\ op[o].kind = "update" /\ op[o].pc = "discard"
          /\ op'[o].pc = "migrate" /\ SameOperation(o)
      BY <1>a, <1>17, GotoSame DEF Discard
    <2>2. dirs'[Dest] = dirs[Dest]
      <3>1. Dest \in DirNames /\ Old(op[o].old) \in DirNames /\ Dest # Old(op[o].old)
        BY <1>c, <1>17, NamesTyped, NamesDistinct DEF Discard, AtHand
      <3> QED BY <1>b, <1>17, <3>1, RemovedIs DEF Discard
    <2> QED BY <2>1, <2>2 DEF CodeAt, Recoverable, SameOperation
  <1>18. CASE UpdateRow(o)
    <2>1. /\ UNCHANGED <<dirs, zips, upset>> /\ row'.status = row.status
          /\ op[o].kind = "update" /\ op[o].pc = "row"
      BY <1>b, <1>18 DEF UpdateRow, Rows
    <2>2. CASE Goto(o, "activate")
      BY <1>a, <2>1, <2>2, GotoSame DEF CodeAt, Recoverable, SameOperation
    <2>3. CASE Return(o) BY <1>a, <2>1, <2>3, ReturnFields DEF CodeAt, Recoverable
    <2> QED BY <1>18, <2>2, <2>3 DEF UpdateRow
  <1>19. CASE DropZip(o)
    <2>1. /\ UNCHANGED <<dirs, upset>> /\ row'.status = row.status
          /\ op[o].kind = "update" /\ op[o].pc = "zip"
          /\ op'[o].pc = "stop" /\ SameOperation(o)
      BY <1>a, <1>b, <1>19, GotoSame DEF DropZip, Rows
    <2> QED BY <2>1 DEF CodeAt, Recoverable, SameOperation
  <1>20. CASE Rollback(o)
    <2>1. /\ UNCHANGED <<dirs, zips>> /\ upset \subseteq upset' /\ row'.version = row.version
          /\ row'.status \in {row.status, "failed", "degraded"}
          /\ op[o].kind = "update" /\ op[o].pc = "rollback"
      BY <1>a, <1>20, SetStatusFields DEF Rollback
    <2>2. CASE Return(o) BY <1>a, <2>1, <2>2, ReturnFields DEF CodeAt, Recoverable
    <2>3. CASE Goto(o, "restore")
      BY <1>a, <2>1, <2>3, GotoSame DEF CodeAt, Recoverable, SameOperation
    <2> QED BY <1>20, <2>2, <2>3 DEF Rollback
  <1>21. CASE Restore(o)
    <2>1. /\ UNCHANGED <<row, zips, upset>> /\ op[o].kind = "update" /\ op[o].pc = "restore"
          /\ op[o].zip \in Versions /\ op[o].zip \in MaybeVersion /\ op[o].zip = op[o].old
      BY <1>b, <1>c, <1>21 DEF Restore, AtHand, OpShape, MaybeVersion
    <2>2. CASE dirs' = CopyOver(Dest, op[o].zip) /\ Goto(o, "reactivate")
      <3>1. dirs'[Dest].code = op[o].zip BY <1>b, <2>1, <2>2, NamesTyped, CopyOverIs
      <3> QED BY <1>a, <1>b, <2>1, <2>2, <3>1, GotoSame DEF CodeAt, Recoverable, SameOperation
    <2>3. CASE Goto(o, "fail")
      BY <1>a, <1>b, <2>1, <2>3, GotoSame DEF CodeAt, Recoverable, SameOperation
    <2> QED BY <1>21, <2>2, <2>3 DEF Restore
  <1>22. CASE Reactivate(o)
    <2>1. /\ UNCHANGED <<dirs, zips, upset>> /\ op[o].kind = "update" /\ op[o].pc = "reactivate"
      BY <1>22 DEF Reactivate
    <2> QED BY <1>a, <1>22, <2>1, ReturnFields DEF Reactivate, CodeAt, Recoverable
  <1>23. CASE Isolate(o)
    <2>1. /\ UNCHANGED <<dirs, zips, upset>> /\ row'.version = row.version
          /\ row'.status \in {row.status, "isolated"}
          /\ op[o].live => row'.status # "active"
          /\ op[o].kind = "uninstall"
      BY <1>a, <1>23, SetStatusFields DEF Isolate
    <2>2. CASE Return(o) BY <1>a, <2>1, <2>2, ReturnFields DEF CodeAt, Recoverable
    <2>3. CASE op[o].live /\ Goto(o, "stop")
      BY <1>a, <2>1, <2>3, GotoSame DEF CodeAt, SameOperation
    <2> QED BY <1>23, <2>2, <2>3 DEF Isolate, Live
  <1>24. CASE RemoveFiles(o)
    <2>1. UNCHANGED <<row, upset>> /\ op'[o].pc = "rmzip" /\ SameOperation(o)
      BY <1>a, <1>24, GotoSame DEF RemoveFiles
    <2> QED BY <1>24, <2>1 DEF RemoveFiles, CodeAt, SameOperation
  <1>25. CASE RemoveZip(o)
    <2>1. UNCHANGED <<row, upset>> /\ op'[o].pc = "delete" /\ SameOperation(o)
      BY <1>a, <1>25, GotoSame DEF RemoveZip
    <2> QED BY <1>25, <2>1 DEF RemoveZip, CodeAt, SameOperation
  <1>26. CASE DeleteRow(o)
    <2>1. UNCHANGED upset /\ row'.status \in {row.status, "none"}
      BY <1>26 DEF DeleteRow, NoRow
    <2> QED BY <1>a, <1>26, <2>1, ReturnFields DEF DeleteRow, CodeAt
  <1> QED
    BY <1>1, <1>2, <1>3, <1>4, <1>5, <1>6, <1>7, <1>8, <1>9, <1>10, <1>11, <1>12, <1>13,
       <1>14, <1>15, <1>16, <1>17, <1>18, <1>19, <1>20, <1>21, <1>22, <1>23, <1>24, <1>25,
       <1>26
    DEF Steps

-----------------------------------------------------------------------------
(* The row.                                                                  *)

LEMMA StepsKeepRow ==
  ASSUME Inv, Shaped, NEW o \in Ops, Steps(o), Undisturbed => RowAt(o), Undisturbed'
  PROVE  RowAt(o)'
  <1>a. OpsTyped /\ StateTyped /\ op[o] \in Operations BY TypeParts DEF Inv, OpsTyped
  <1>b. /\ dirs \in [DirNames -> Dir] /\ row \in Rows /\ recorded \subseteq schema
    BY <1>a DEF StateTyped, Inv, CommittedFirst, RecordedIsApplied
  <1>c. AtHand(op[o]) /\ OpShape(op[o]) BY <1>a DEF OpsTyped, Shaped
  <1>d. op[o].pc # "idle" => op[o].kind \in {"install", "update", "restart", "uninstall"}
    BY <1>a, Busy DEF Inv, Shaped
  <1>e. upset \subseteq upset' BY StepsMove DEF Moved
  <1>f. RowAt(o) /\ op[o].live
    BY <1>e DEF Undisturbed, Inv, InstallAtWork
  <1> USE DEF uploads, database, At, UpdateFirst, UpdateMoved, UpdateBack, UpdateLast,
              Declared, Consistent, Resting
  <1>1. CASE Fetch(o)
    <2>1. UNCHANGED <<row, dirs, schema>> BY <1>1 DEF Fetch
    <2>2. CASE op'[o] = Idle
      BY <1>c, <1>d, <1>f, <1>1, <2>1, <2>2 DEF Fetch, RowAt, Idle, OpShape
    <2>3. CASE op'[o] # Idle
      BY <1>a, <1>c, <1>f, <1>1, <2>1, <2>3, GotoSame, ReturnFields
      DEF Fetch, RowAt, SameOperation, AtHand, OpShape
    <2> QED BY <2>2, <2>3
  <1>2. CASE Insert(o)
    <2>1. CASE Return(o) /\ UNCHANGED row
      BY <1>a, <1>f, <1>2, <2>1, ReturnFields DEF Insert, RowAt
    <2>2. CASE /\ Goto(o, "fill")
               /\ row'.status = "installing" /\ row'.version = op[o].new
      BY <1>a, <1>2, <2>2, GotoSame DEF Insert, RowAt, SameOperation
    <2> QED BY <1>2, <2>1, <2>2 DEF Insert
  <1>3. CASE Fill(o)
    <2>1. /\ op[o].new \in MaybeVersion
          /\ op[o].kind = "install" /\ op[o].pc = "fill" /\ UNCHANGED <<row, schema>>
      BY <1>c, <1>3 DEF Fill, AtHand, MaybeVersion
    <2>2. CASE dirs' = CopyOver(Dest, op[o].new) /\ Goto(o, "migrate")
      <3>1. dirs'[Dest].code = op[o].new BY <1>b, <2>1, <2>2, NamesTyped, CopyOverIs
      <3> QED BY <1>a, <1>f, <2>1, <2>2, <3>1, GotoSame DEF RowAt, SameOperation
    <2>3. CASE OnError(o)
      BY <1>a, <1>f, <2>1, <2>3, GotoSame DEF RowAt, SameOperation, OnError
    <2> QED BY <1>3, <2>2, <2>3 DEF Fill
  <1>4. CASE Migrate(o)
    <2>1. UNCHANGED <<row, dirs>> /\ op[o].pc = "migrate" /\ op[o].kind \in {"install", "update"}
      BY <1>c, <1>4 DEF Migrate, AtHand
    <2>2. CASE /\ schema' = schema \cup (IF op[o].kind = "install" THEN Migrations[op[o].new]
                                         ELSE Migrations[op[o].new] \ recorded)
               /\ Goto(o, IF op[o].kind = "install" THEN "crud" ELSE "record")
      <3>1. schema \subseteq schema' /\ Migrations[op[o].new] \subseteq schema' BY <1>b, <2>2
      <3>2. CASE op[o].kind = "install"
        BY <1>a, <1>f, <2>1, <2>2, <3>1, <3>2, GotoSame DEF RowAt, SameOperation
      <3>3. CASE op[o].kind = "update"
        <4>1. op'[o].pc = "record" /\ SameOperation(o) BY <1>a, <2>2, <3>3, GotoSame
        <4>2. Migrations[row.version] \subseteq schema => Migrations[row.version] \subseteq schema'
          BY <3>1
        <4> QED BY <1>f, <2>1, <3>1, <3>3, <4>1, <4>2 DEF RowAt, SameOperation
      <3> QED BY <2>1, <3>2, <3>3
    <2>3. CASE schema' = schema /\ OnError(o)
      BY <1>a, <1>f, <2>1, <2>3, GotoSame DEF RowAt, SameOperation, OnError
    <2> QED BY <1>4, <2>2, <2>3 DEF Migrate
  <1>5. CASE Record(o)
    <2>1. UNCHANGED <<row, dirs, schema>> BY <1>5 DEF Record
    <2>2. CASE op'[o] = Idle
      BY <1>a, <1>c, <1>d, <1>f, <1>5, <2>1, <2>2, GotoSame
      DEF Record, RowAt, Idle, OpShape
    <2>3. CASE op'[o] # Idle
      BY <1>a, <1>c, <1>f, <1>5, <2>1, <2>3, GotoSame, ReturnFields
      DEF Record, RowAt, SameOperation, AtHand, OpShape
    <2> QED BY <2>2, <2>3
  <1>6. CASE CheckCrud(o)
    <2>1. UNCHANGED <<row, dirs, schema>> BY <1>6 DEF CheckCrud
    <2>2. CASE op'[o] = Idle
      BY <1>a, <1>c, <1>d, <1>f, <1>6, <2>1, <2>2, GotoSame
      DEF CheckCrud, OnError, RowAt, Idle, OpShape
    <2>3. CASE op'[o] # Idle
      BY <1>a, <1>c, <1>f, <1>6, <2>1, <2>3, GotoSame, ReturnFields
      DEF CheckCrud, RowAt, SameOperation, AtHand, OpShape, OnError
    <2> QED BY <2>2, <2>3
  <1>7. CASE StopWorker(o)
    <2>1. UNCHANGED <<row, dirs, schema>> BY <1>7 DEF StopWorker
    <2>2. CASE op'[o] = Idle
      BY <1>a, <1>c, <1>d, <1>f, <1>7, <2>1, <2>2, GotoSame
      DEF StopWorker, RowAt, Idle, OpShape
    <2>3. CASE op'[o] # Idle
      BY <1>a, <1>c, <1>f, <1>7, <2>1, <2>3, GotoSame, ReturnFields
      DEF StopWorker, RowAt, SameOperation, AtHand, OpShape
    <2> QED BY <2>2, <2>3
  <1>8. CASE StartWorker(o)
    <2>1. UNCHANGED <<row, dirs, schema>> BY <1>8 DEF StartWorker
    <2>2. CASE op'[o] = Idle
      BY <1>a, <1>c, <1>d, <1>f, <1>8, <2>1, <2>2, GotoSame
      DEF StartWorker, OnError, RowAt, Idle, OpShape
    <2>3. CASE op'[o] # Idle
      BY <1>a, <1>c, <1>f, <1>8, <2>1, <2>3, GotoSame, ReturnFields
      DEF StartWorker, RowAt, SameOperation, AtHand, OpShape, OnError
    <2> QED BY <2>2, <2>3
  <1>9. CASE Activate(o)
    <2>1. UNCHANGED <<dirs, schema>> /\ row'.version = row.version
      BY <1>a, <1>9, SetStatusFields DEF Activate
    <2>2. Consistent /\ row.status # "none"
      BY <1>c, <1>d, <1>f, <1>9 DEF Activate, RowAt, OpShape
    <2>3. row'.status = "active" BY <1>a, <1>f, <1>9, <2>2, SetStatusFields DEF Activate
    <2>4. CASE Return(o)
      BY <1>a, <2>1, <2>2, <2>3, <2>4, ReturnFields DEF RowAt
    <2>5. CASE op[o].kind = "update" /\ Goto(o, "zip")
      BY <1>a, <2>1, <2>2, <2>3, <2>5, GotoSame DEF RowAt, SameOperation
    <2> QED BY <1>9, <2>4, <2>5 DEF Activate
  <1>10. CASE MarkFailed(o)
    <2>1. row.status # "none" BY <1>c, <1>d, <1>f, <1>10 DEF MarkFailed, RowAt, OpShape
    <2>2. row'.status = "failed" BY <1>a, <1>f, <1>10, <2>1, SetStatusFields DEF MarkFailed
    <2> QED BY <1>a, <1>10, <2>2, ReturnFields DEF MarkFailed, RowAt
  <1>11. CASE Cache(o)
    <2>1. /\ UNCHANGED <<row, dirs, schema>> /\ op[o].kind = "update" /\ op[o].pc = "cache"
      BY <1>11 DEF Cache
    <2>2. /\ op'[o].pc \in {"setzip", "fetch"} /\ op'[o].kind = op[o].kind
          /\ op'[o].old = op[o].old
      <3>1. CASE op' = [op EXCEPT ![o].pc = "setzip", ![o].zip = op[o].old]
        BY <1>a, <3>1 DEF OpsTyped, Operations
      <3>2. CASE Goto(o, "fetch") BY <1>a, <3>2, GotoFields
      <3> QED BY <1>11, <3>1, <3>2 DEF Cache
    <2> QED BY <1>f, <2>1, <2>2 DEF RowAt
  <1>12. CASE SetCachedZip(o)
    <2>1. UNCHANGED <<dirs, schema>> /\ row'.version = row.version /\ row'.status = row.status
      BY <1>b, <1>12 DEF SetCachedZip, Rows
    <2> QED BY <1>a, <1>f, <1>12, <2>1, GotoSame DEF SetCachedZip, RowAt, SameOperation
  <1>13. CASE Copy(o)
    <2> DEFINE new == New(op[o].new)
    <2>1. /\ UNCHANGED <<row, schema>> /\ op[o].kind = "update" /\ op[o].pc = "copy"
          /\ new \in DirNames /\ op[o].new \in MaybeVersion /\ Dest \in DirNames /\ Dest # new
      BY <1>c, <1>13, NamesTyped, NamesDistinct DEF Copy, AtHand, MaybeVersion
    <2>2. CASE dirs' = CopyOver(new, op[o].new) /\ Goto(o, "moveold")
      <3>1. dirs'[new].code = op[o].new /\ dirs'[Dest] = dirs[Dest]
        BY <1>b, <2>1, <2>2, CopyOverIs
      <3> QED BY <1>a, <1>f, <2>1, <2>2, <3>1, GotoSame DEF RowAt, SameOperation
    <2>3. CASE OnError(o)
      BY <1>a, <1>f, <2>1, <2>3, GotoSame DEF RowAt, SameOperation, OnError
    <2> QED BY <1>13, <2>2, <2>3 DEF Copy
  <1>14. CASE MoveOld(o)
    <2> DEFINE old == Old(op[o].old)
               new == New(op[o].new)
    <2>1. /\ UNCHANGED <<row, schema>> /\ op[o].kind = "update" /\ op[o].pc = "moveold"
          /\ new \in DirNames /\ old \in DirNames /\ Dest \in DirNames
          /\ Dest # old /\ new \notin {Dest, old}
      BY <1>c, <1>14, NamesTyped, NamesDistinct DEF MoveOld, AtHand
    <2>2. CASE dirs' = Renamed(Dest, old) /\ Goto(o, "movenew")
      <3>1. dirs'[new] = dirs[new] BY <1>b, <2>1, <2>2, RenamedIs
      <3> QED BY <1>a, <1>f, <2>1, <2>2, <3>1, GotoSame DEF RowAt, SameOperation
    <2>3. CASE OnError(o)
      BY <1>a, <1>f, <2>1, <2>3, GotoSame DEF RowAt, SameOperation, OnError
    <2> QED BY <1>14, <2>2, <2>3 DEF MoveOld
  <1>15. CASE MoveNew(o)
    <2> DEFINE new == New(op[o].new)
    <2>1. /\ UNCHANGED <<row, schema>> /\ op[o].kind = "update" /\ op[o].pc = "movenew"
          /\ new \in DirNames /\ Dest \in DirNames /\ Dest # new
      BY <1>c, <1>15, NamesTyped, NamesDistinct DEF MoveNew, AtHand
    <2>2. CASE dirs' = Renamed(new, Dest) /\ Goto(o, "storage")
      <3>1. dirs'[Dest] = dirs[new] BY <1>b, <2>1, <2>2, RenamedIs
      <3> QED BY <1>a, <1>f, <2>1, <2>2, <3>1, GotoSame DEF RowAt, SameOperation
    <2>3. CASE OnError(o)
      BY <1>a, <1>f, <2>1, <2>3, GotoSame DEF RowAt, SameOperation, OnError
    <2> QED BY <1>15, <2>2, <2>3 DEF MoveNew
  <1>16. CASE MoveStorage(o)
    <2>1. /\ UNCHANGED <<row, schema>> /\ op[o].kind = "update" /\ op[o].pc = "storage"
          /\ op'[o].pc = "discard" /\ SameOperation(o)
      BY <1>a, <1>16, GotoSame DEF MoveStorage
    <2>2. dirs'[Dest].code = dirs[Dest].code
      <3>1. Dest \in DirNames /\ Old(op[o].old) \in DirNames /\ Dest # Old(op[o].old)
        BY <1>c, <1>16, NamesTyped, NamesDistinct DEF MoveStorage, AtHand
      <3> QED BY <1>b, <1>16, <3>1 DEF MoveStorage, Dir
    <2> QED BY <1>f, <2>1, <2>2 DEF RowAt, SameOperation
  <1>17. CASE Discard(o)
    <2>1. /\ UNCHANGED <<row, schema>> /\ op[o].kind = "update" /\ op[o].pc = "discard"
          /\ op'[o].pc = "migrate" /\ SameOperation(o)
      BY <1>a, <1>17, GotoSame DEF Discard
    <2>2. dirs'[Dest] = dirs[Dest]
      <3>1. Dest \in DirNames /\ Old(op[o].old) \in DirNames /\ Dest # Old(op[o].old)
        BY <1>c, <1>17, NamesTyped, NamesDistinct DEF Discard, AtHand
      <3> QED BY <1>b, <1>17, <3>1, RemovedIs DEF Discard
    <2> QED BY <1>f, <2>1, <2>2 DEF RowAt, SameOperation
  <1>18. CASE UpdateRow(o)
    <2>1. UNCHANGED <<dirs, schema>> /\ op[o].kind = "update" /\ op[o].pc = "row"
      BY <1>18 DEF UpdateRow
    <2>2. row'.status = row.status /\ row'.version = op[o].new /\ Goto(o, "activate")
      BY <1>b, <1>f, <1>18, <2>1 DEF UpdateRow, RowAt, Rows, Live, Installed
    <2> QED BY <1>a, <1>f, <2>1, <2>2, GotoSame DEF RowAt, SameOperation
  <1>19. CASE DropZip(o)
    <2>1. /\ UNCHANGED <<dirs, schema>> /\ row'.status = row.status /\ row'.version = row.version
          /\ op[o].kind = "update" /\ op[o].pc = "zip"
          /\ op'[o].pc = "stop" /\ SameOperation(o)
      BY <1>a, <1>b, <1>19, GotoSame DEF DropZip, Rows
    <2> QED BY <1>f, <2>1 DEF RowAt, SameOperation
  <1>20. CASE Rollback(o)
    <2>1. /\ UNCHANGED <<dirs, schema>> /\ row'.version = row.version
          /\ op[o].kind = "update" /\ op[o].pc = "rollback" /\ row.status # "none"
      BY <1>a, <1>f, <1>20, SetStatusFields DEF Rollback, RowAt
    <2>2. CASE SetStatus(o, "failed") /\ Return(o)
      <3>1. row'.status = "failed" BY <1>a, <1>f, <2>1, <2>2, SetStatusFields
      <3> QED BY <1>a, <2>2, <3>1, ReturnFields DEF RowAt
    <2>3. CASE /\ SetStatus(o, "degraded") /\ Goto(o, "restore")
               /\ upset' = upset \cup Revived({"active", "degraded"})
      <3>1. row'.status = "degraded" BY <1>a, <1>f, <2>1, <2>3, SetStatusFields
      <3>2. Declared BY <2>3 DEF Undisturbed, Revived
      <3> QED BY <1>a, <1>f, <2>1, <2>3, <3>1, <3>2, GotoSame DEF RowAt, SameOperation
    <2> QED BY <1>20, <2>2, <2>3 DEF Rollback
  <1>21. CASE Restore(o)
    <2>1. /\ UNCHANGED <<row, schema>> /\ op[o].kind = "update" /\ op[o].pc = "restore"
          /\ op[o].zip \in MaybeVersion /\ op[o].zip = op[o].old
      BY <1>c, <1>21, VersionAssumption DEF Restore, AtHand, OpShape, MaybeVersion
    <2>2. CASE dirs' = CopyOver(Dest, op[o].zip) /\ Goto(o, "reactivate")
      <3>1. dirs'[Dest].code = op[o].zip BY <1>b, <2>1, <2>2, NamesTyped, CopyOverIs
      <3> QED BY <1>a, <1>f, <2>1, <2>2, <3>1, GotoSame DEF RowAt, SameOperation
    <2>3. CASE Goto(o, "fail")
      BY <1>a, <1>f, <2>1, <2>3, GotoSame DEF RowAt, SameOperation
    <2> QED BY <1>21, <2>2, <2>3 DEF Restore
  <1>22. CASE Reactivate(o)
    <2>1. /\ UNCHANGED <<dirs, schema>> /\ row'.version = row.version
          /\ op[o].kind = "update" /\ op[o].pc = "reactivate"
      BY <1>a, <1>22, SetStatusFields DEF Reactivate
    <2>2. row'.status = "active"
      BY <1>a, <1>f, <1>22, <2>1, SetStatusFields DEF Reactivate, RowAt
    <2> QED BY <1>a, <1>f, <1>22, <2>1, <2>2, ReturnFields DEF Reactivate, RowAt
  <1>23. CASE Isolate(o)
    <2>1. op[o].kind = "uninstall" /\ Goto(o, "stop") BY <1>f, <1>23 DEF Isolate, Live
    <2> QED BY <1>a, <2>1, GotoSame DEF RowAt, SameOperation
  <1>24. CASE RemoveFiles(o)
    BY <1>a, <1>24, GotoSame DEF RemoveFiles, RowAt, SameOperation
  <1>25. CASE RemoveZip(o)
    BY <1>a, <1>25, GotoSame DEF RemoveZip, RowAt, SameOperation
  <1>26. CASE DeleteRow(o)
    <2>1. row'.status = "none" BY <1>f, <1>26 DEF DeleteRow, NoRow, Live
    <2> QED BY <1>a, <1>26, <2>1, ReturnFields DEF DeleteRow, RowAt
  <1> QED
    BY <1>1, <1>2, <1>3, <1>4, <1>5, <1>6, <1>7, <1>8, <1>9, <1>10, <1>11, <1>12, <1>13,
       <1>14, <1>15, <1>16, <1>17, <1>18, <1>19, <1>20, <1>21, <1>22, <1>23, <1>24, <1>25,
       <1>26
    DEF Steps

LEMMA StepsKeepViews ==
  ASSUME Inv, Shaped, NEW o \in Ops, Steps(o), Views(o)
  PROVE  Views(o)'
  BY StepsKeepUploads, StepsKeepCode, StepsKeepRow DEF Views

-----------------------------------------------------------------------------
(* Operations that begin, and what happens around them.                      *)

(* Operation o begins: nothing else moves, and no other one is under way     *)
(* unless the history says so.                                               *)
Began(o) ==
  /\ OpShape(op'[o]) /\ dirs' = dirs
  /\ \A q \in Ops : q # o => op'[q] = op[q]
  /\ upset \subseteq upset'
  /\ "overlap" \notin upset' => Sole(o)
  /\ Views(o) => Views(o)'

LEMMA HandlersKeep ==
  ASSUME Inv, Shaped, NEW o \in Ops, Handlers(o)
  PROVE  Began(o)
  <1>a. OpsTyped /\ StateTyped BY TypeParts DEF Inv
  <1>b. row \in Rows BY <1>a DEF StateTyped
  <1>1. ASSUME NEW r, Begin(o, r)
        PROVE  /\ op[o] = Idle /\ op'[o] = r /\ UNCHANGED <<row, dirs, zips, schema, stored>>
               /\ \A q \in Ops : q # o => op'[q] = op[q]
               /\ upset \subseteq upset'
               /\ "overlap" \notin upset' => Sole(o)
               /\ r.kind = "restart" /\ Undisturbed' => row.status \in {"active", "degraded"}
    <2>1. op'[o] = r /\ \A q \in Ops : q # o => op'[q] = op[q]
      BY <1>a, <1>1 DEF Begin, OpsTyped
    <2>2. "overlap" \notin upset' => Sole(o) BY <1>1 DEF Begin, Overlap, Sole
    <2>3. r.kind = "restart" /\ Undisturbed' => row.status \in {"active", "degraded"}
      BY <1>1 DEF Begin, Undisturbed, Revived
    <2> QED BY <1>1, <2>1, <2>2, <2>3 DEF Begin, database, uploads
  <1>2. ASSUME NEW r, Begin(o, r), OpShape(r),
               op'[o] = r => (UploadsAt(o) => UploadsAt(o)') /\ (CodeAt(o) => CodeAt(o)'),
               op'[o] = r /\ Undisturbed' /\ RowAt(o) => RowAt(o)'
        PROVE  Began(o)
    <2>1. op'[o] = r BY <1>1, <1>2
    <2>2. OpShape(op'[o]) BY <1>2, <2>1
    <2>3. Undisturbed' => Undisturbed BY <1>1, <1>2 DEF Undisturbed
    <2> QED BY <1>1, <1>2, <2>1, <2>2, <2>3 DEF Views, Began
  <1> USE DEF At, Idle, Holding, UpdateFirst, UpdateMoved, UpdateBack, UpdateLast, OpShape,
              Declared, Consistent, Resting
  <1>3. ASSUME NEW v \in Versions, NEW t \in Sources, Install(o, v, t)
        PROVE  Began(o)
    <2> DEFINE r == [Idle EXCEPT !.pc = "fetch", !.kind = "install", !.source = t, !.new = v]
    <2>1. Begin(o, r) /\ row.status = "none" BY <1>3 DEF Install, Installed
    <2>2. r.kind = "install" /\ r.pc = "fetch" OBVIOUS
    <2> HIDE DEF r
    <2>3. OpShape(r) BY <2>2
    <2>4. UNCHANGED <<row, dirs, zips, schema, stored>> /\ upset \subseteq upset'
      BY <1>1, <2>1
    <2>5. ASSUME op'[o] = r, UploadsAt(o) PROVE UploadsAt(o)'
      BY <2>2, <2>4, <2>5 DEF UploadsAt, OnDisk
    <2>6. ASSUME op'[o] = r, CodeAt(o) PROVE CodeAt(o)'
      BY <2>1, <2>2, <2>4, <2>6 DEF CodeAt
    <2>7. ASSUME op'[o] = r, RowAt(o) PROVE RowAt(o)'
      BY <2>1, <2>2, <2>4, <2>7 DEF RowAt
    <2> QED BY <1>2, <2>1, <2>3, <2>5, <2>6, <2>7
  <1>4. ASSUME NEW v \in Versions, NEW t \in Sources, Update(o, v, t)
        PROVE  Began(o)
    <2> DEFINE r == [Idle EXCEPT !.pc = IF t = "registry" THEN "cache" ELSE "fetch",
                                 !.kind = "update", !.source = t, !.new = v,
                                 !.old = row.version, !.url = row.url]
    <2>1. Begin(o, r) /\ row.status # "none" /\ op[o].kind = "none"
      BY <1>4 DEF Update, Installed, Begin
    <2>2. /\ r.kind = "update" /\ r.pc \in {"cache", "fetch"} /\ r.old = row.version
          /\ r.zip = NoVersion
      OBVIOUS
    <2> HIDE DEF r
    <2>3. OpShape(r) BY <2>2
    <2>4. UNCHANGED <<row, dirs, zips, schema, stored>> /\ upset \subseteq upset'
      BY <1>1, <2>1
    <2>5. ASSUME op'[o] = r, UploadsAt(o) PROVE UploadsAt(o)'
      BY <2>2, <2>4, <2>5 DEF UploadsAt, OnDisk
    <2>6. ASSUME op'[o] = r, CodeAt(o) PROVE CodeAt(o)'
      BY <2>1, <2>2, <2>4, <2>6 DEF CodeAt, Recoverable
    <2>7. ASSUME op'[o] = r, RowAt(o) PROVE RowAt(o)'
      BY <2>1, <2>2, <2>4, <2>7 DEF RowAt
    <2> QED BY <1>2, <2>1, <2>3, <2>5, <2>6, <2>7
  <1>5. CASE Uninstall(o)
    <2> DEFINE r == [Idle EXCEPT !.pc = "isolate", !.kind = "uninstall", !.zip = row.zip]
    <2>1. Begin(o, r) BY <1>5 DEF Uninstall
    <2>2. r.kind = "uninstall" /\ r.pc = "isolate" OBVIOUS
    <2> HIDE DEF r
    <2>3. OpShape(r) BY <2>2
    <2>4. UNCHANGED <<row, dirs, zips, schema, stored>> /\ upset \subseteq upset'
      BY <1>1, <2>1
    <2>5. ASSUME op'[o] = r, UploadsAt(o) PROVE UploadsAt(o)'
      BY <2>2, <2>4, <2>5 DEF UploadsAt, OnDisk
    <2>6. ASSUME op'[o] = r, CodeAt(o) PROVE CodeAt(o)'
      BY <2>2, <2>4, <2>6 DEF CodeAt, Recoverable
    <2>7. ASSUME op'[o] = r PROVE RowAt(o)'
      BY <2>2, <2>7 DEF RowAt
    <2> QED BY <1>2, <2>1, <2>3, <2>5, <2>6, <2>7
  <1>6. CASE Restart(o)
    <2> DEFINE r == [Idle EXCEPT !.pc = "stop", !.kind = "restart", !.new = row.version]
    <2>1. Begin(o, r) /\ op[o].kind = "none" BY <1>6 DEF Restart, Begin
    <2>2. r.kind = "restart" /\ r.pc = "stop" OBVIOUS
    <2> HIDE DEF r
    <2>3. OpShape(r) BY <2>2
    <2>4. UNCHANGED <<row, dirs, zips, schema, stored>> /\ upset \subseteq upset'
      BY <1>1, <2>1
    <2>5. ASSUME op'[o] = r, UploadsAt(o) PROVE UploadsAt(o)'
      BY <2>2, <2>4, <2>5 DEF UploadsAt, OnDisk
    <2>6. ASSUME op'[o] = r, CodeAt(o) PROVE CodeAt(o)'
      BY <2>2, <2>4, <2>6 DEF CodeAt, Recoverable
    <2>7. ASSUME op'[o] = r, Undisturbed', RowAt(o) PROVE RowAt(o)'
      <3>1. Declared BY <1>1, <2>1, <2>2, <2>7
      <3> QED BY <2>1, <2>2, <2>4, <2>7, <3>1 DEF RowAt
    <2> QED BY <1>2, <2>1, <2>3, <2>5, <2>6, <2>7
  <1> HIDE DEF OpShape
  <1> QED BY <1>3, <1>4, <1>5, <1>6 DEF Handlers

(* An upload, the end of a context or of the worker.                         *)
LEMMA OthersKeep ==
  ASSUME Inv, Shaped, NEW o \in Ops, Views(o),
         \/ \E q \in Ops : Cancel(q)
         \/ \E f \in Files : AcceptUpload(f) \/ SaveUpload(f)
         \/ WorkerCrash
  PROVE  Views(o)'
  <1>a. op \in [Ops -> Operations] /\ dirs \in [DirNames -> Dir] /\ row \in Rows
        /\ AtHand(op[o])
    BY DEF Inv, TypeOK
  <1>b. UploadsAt(o) /\ CodeAt(o) /\ (Undisturbed => RowAt(o)) BY DEF Views
  <1> USE DEF At, uploads, database, Holding, UpdateFirst, UpdateMoved, UpdateBack, UpdateLast,
              Declared, Consistent, Resting
  <1>1. ASSUME NEW q \in Ops, Cancel(q) PROVE Views(o)'
    <2>1. /\ op'[o].pc = op[o].pc /\ op'[o].kind = op[o].kind /\ op'[o].new = op[o].new
          /\ op'[o].old = op[o].old /\ op'[o].zip = op[o].zip
      BY <1>a, <1>1 DEF Cancel, Operations
    <2>2. UNCHANGED <<row, dirs, zips, schema, stored>> BY <1>1 DEF Cancel
    <2>3. upset' = upset \cup {"cancel"} BY <1>1 DEF Cancel
    <2>4. UploadsAt(o)' BY <1>b, <2>1, <2>2, <2>3 DEF UploadsAt, OnDisk
    <2>5. CodeAt(o)' BY <1>b, <2>1, <2>2, <2>3 DEF CodeAt, Recoverable
    <2>6. ~Undisturbed' BY <2>3 DEF Undisturbed
    <2> QED BY <2>4, <2>5, <2>6 DEF Views
  <1>2. ASSUME NEW f \in Files, AcceptUpload(f) PROVE Views(o)'
    <2>1. UNCHANGED <<row, dirs, zips, schema, stored, op, upset>> BY <1>2 DEF AcceptUpload
    <2>2. UploadsAt(o)' BY <1>b, <2>1 DEF UploadsAt, OnDisk
    <2>3. CodeAt(o)' BY <1>b, <2>1 DEF CodeAt, Recoverable
    <2>4. Undisturbed' => RowAt(o)' BY <1>b, <2>1 DEF Undisturbed, RowAt
    <2> QED BY <2>2, <2>3, <2>4 DEF Views
  <1>3. ASSUME NEW f \in Files, SaveUpload(f) PROVE Views(o)'
    <2>1. UNCHANGED <<row, zips, schema, op>> /\ upset \subseteq upset'
          /\ stored' = stored \cup {f}
      BY <1>3 DEF SaveUpload
    <2>2. /\ \A d \in DirNames : dirs'[d].code = dirs[d].code /\ dirs[d].storage \subseteq dirs'[d].storage
          /\ \A d \in DirNames : d # Dest => dirs'[d] = dirs[d]
          /\ f \in dirs'[Dest].storage
      BY <1>a, <1>3, NamesTyped DEF SaveUpload, Dir
    <2>3. stored \subseteq OnDisk => stored' \subseteq OnDisk'
      <3>1. OnDisk \subseteq OnDisk' BY <2>2 DEF OnDisk
      <3>2. f \in OnDisk' BY <2>2, NamesTyped DEF OnDisk
      <3> QED BY <2>1, <3>1, <3>2
    <2>4. UploadsAt(o)'
      <3>1. SUFFICES ASSUME upset' \cap {"upload", "disk"} = {} PROVE UploadsAt(o)'
        BY DEF UploadsAt
      <3>2. stored' \subseteq OnDisk' BY <1>b, <2>1, <2>3, <3>1 DEF UploadsAt
      <3>3. ~At(o, "update", "storage") BY <1>3, <3>1 DEF SaveUpload
      <3>4. At(o, "update", "discard") => dirs'[Old(op[o].old)].storage = {}
        <4>1. SUFFICES ASSUME At(o, "update", "discard") PROVE dirs'[Old(op[o].old)].storage = {}
          OBVIOUS
        <4>2. Old(op[o].old) \in DirNames /\ Old(op[o].old) # Dest
          BY <1>a, <4>1, NamesTyped, NamesDistinct DEF AtHand
        <4>3. dirs[Old(op[o].old)].storage = {} BY <1>b, <2>1, <3>1, <4>1 DEF UploadsAt
        <4> QED BY <2>2, <4>2, <4>3
      <3> QED BY <2>1, <3>2, <3>3, <3>4 DEF UploadsAt
    <2>5. /\ Dest \in DirNames
          /\ row.status = "active" => Old(row.version) \in DirNames
          /\ op[o].kind = "update" => New(op[o].new) \in DirNames
      BY <1>a, NamesTyped DEF AtHand, Inv, TypeOK, Installed
    <2>6. /\ dirs'[Dest].code = dirs[Dest].code
          /\ row.status = "active" => dirs'[Old(row.version)].code = dirs[Old(row.version)].code
          /\ op[o].kind = "update" => dirs'[New(op[o].new)].code = dirs[New(op[o].new)].code
      BY <2>2, <2>5
    <2>7. CodeAt(o)' BY <1>b, <2>1, <2>6 DEF CodeAt, Recoverable
    <2>8. Undisturbed' => RowAt(o)'
      BY <1>b, <2>1, <2>6 DEF Undisturbed, RowAt
    <2> QED BY <2>4, <2>7, <2>8 DEF Views
  <1>4. CASE WorkerCrash
    <2>1. /\ UNCHANGED <<dirs, zips, schema, stored, op>> /\ upset \subseteq upset'
          /\ row'.version = row.version
          /\ row'.status = IF row.status = "none" THEN "none" ELSE "degraded"
      BY <1>a, <1>4 DEF WorkerCrash, Rows, Installed
    <2>2. UploadsAt(o)' BY <1>b, <2>1 DEF UploadsAt, OnDisk
    <2>3. CodeAt(o)' BY <1>b, <2>1 DEF CodeAt
    <2>4. Undisturbed' => RowAt(o)'
      <3>1. SUFFICES ASSUME Undisturbed' PROVE RowAt(o)' OBVIOUS
      <3>2. row.status # "failed" BY <1>4, <3>1 DEF WorkerCrash, Undisturbed, Revived, Statuses
      <3>3. RowAt(o) BY <1>b, <2>1, <3>1 DEF Undisturbed
      <3> QED BY <2>1, <3>2, <3>3 DEF RowAt
    <2> QED BY <2>2, <2>3, <2>4 DEF Views
  <1> QED BY <1>1, <1>2, <1>3, <1>4

(* After a restart of Core every operation sees the state as it was left.    *)
LEMMA RestartKeeps ==
  ASSUME Inv, NEW p \in Ops, NEW o \in Ops, Sole(p), Views(p), CoreRestart
  PROVE  Views(o)'
  <1>1. /\ UNCHANGED <<row, dirs, zips, schema, stored>> /\ op'[o] = Idle
        /\ upset \subseteq upset'
    BY DEF CoreRestart
  <1>2. Undisturbed' => op[p] = Idle /\ Undisturbed
    <2>1. CASE Quiet BY <1>1, <2>1 DEF Quiet, Undisturbed
    <2>2. CASE ~Quiet BY <2>2 DEF CoreRestart, Undisturbed
    <2> QED BY <2>1, <2>2
  <1>3. op'[o].kind = "none" /\ op'[o].pc = "idle" BY <1>1 DEF Idle
  <1>4. UploadsAt(o)' BY <1>1, <1>3 DEF Views, UploadsAt, OnDisk, At
  <1>5. CodeAt(o)' BY <1>1, <1>3 DEF Views, CodeAt, Recoverable, At, Holding
  <1>6. Undisturbed' => RowAt(o)'
    BY <1>1, <1>2, <1>3 DEF Views, RowAt, Idle, Declared, Consistent
  <1> QED BY <1>4, <1>5, <1>6 DEF Views

-----------------------------------------------------------------------------
(* The invariant of files and rows.                                          *)

LEMMA InitFiles == Init => FilesInv
  <1> SUFFICES ASSUME Init PROVE FilesInv OBVIOUS
  <1>1. \A o \in Ops : op[o] = Idle BY DEF Init
  <1>2. stored = {} BY DEF Init
  <1>3. Sound(dirs) /\ (row.status = "none" \/ (row.status = "active" /\ Consistent
                                               /\ row.version \in Versions))
    <2>1. CASE row = NoRow /\ dirs = [d \in DirNames |-> Absent]
      BY <2>1, NamesTyped DEF Sound, Absent, NoRow
    <2>2. ASSUME NEW v \in Versions, NEW registry \in BOOLEAN,
                 row = [NoRow EXCEPT !.status = "active", !.version = v, !.url = registry],
                 dirs = [[d \in DirNames |-> Absent] EXCEPT
                            ![Dest] = [there |-> TRUE, code |-> v, storage |-> {}]],
                 schema = Migrations[v]
          PROVE  Sound(dirs) /\ row.status = "active" /\ Consistent /\ row.version \in Versions
      <3>1. row.status = "active" /\ row.version = v BY <2>2 DEF NoRow
      <3>2. dirs[Dest] = [there |-> TRUE, code |-> v, storage |-> {}] BY <2>2, NamesTyped
      <3>3. \A d \in DirNames : d # Dest => dirs[d] = Absent BY <2>2
      <3>4. \A d \in DirNames : /\ dirs[d].there \/ (dirs[d].storage = {} /\ dirs[d].code = NoVersion)
                               /\ dirs[d].storage = {}
        <4> TAKE d \in DirNames
        <4>1. CASE d = Dest BY <3>2, <4>1
        <4>2. CASE d # Dest BY <3>3, <4>2 DEF Absent
        <4> QED BY <4>1, <4>2
      <3>5. Sound(dirs) BY <3>4, NamesTyped DEF Sound
      <3> QED BY <2>2, <3>1, <3>2, <3>5 DEF Consistent
    <2> QED BY <2>1, <2>2 DEF Init
  <1>4. Shaped
    <2>1. OpShape(Idle) BY DEF OpShape, Idle
    <2> QED BY <1>1, <1>3, <2>1 DEF Shaped
  <1>5. ASSUME NEW o \in Ops PROVE Views(o)
    <2>1. op[o].kind = "none" /\ op[o].pc = "idle" BY <1>1 DEF Idle
    <2>2. UploadsAt(o) BY <1>2, <2>1 DEF UploadsAt, At
    <2>3. row.status = "active" => dirs[Dest].code # NoVersion
      BY <1>3, VersionAssumption DEF Consistent
    <2>4. CodeAt(o) BY <2>1, <2>3 DEF CodeAt, Recoverable, Holding, At
    <2>5. RowAt(o) BY <1>3, <2>1 DEF RowAt, Declared
    <2> QED BY <2>2, <2>4, <2>5 DEF Views
  <1>6. \E o \in Ops : Sole(o) BY <1>1, OpsAssumption DEF Sole
  <1> QED BY <1>4, <1>5, <1>6, InitInv DEF FilesInv

LEMMA StepsBusy ==
  ASSUME NEW o \in Ops, Steps(o)
  PROVE  op[o] # Idle
  <1>1. CASE Fetch(o) \/ Insert(o) \/ Fill(o) \/ Migrate(o) \/ Record(o) \/ CheckCrud(o)
    BY <1>1 DEF Idle, At, Fetch, Insert, Fill, Migrate, Record, CheckCrud
  <1>2. CASE StopWorker(o) \/ StartWorker(o) \/ Activate(o) \/ MarkFailed(o)
    BY <1>2 DEF Idle, At, StopWorker, StartWorker, Activate, MarkFailed
  <1>3. CASE Cache(o) \/ SetCachedZip(o) \/ Copy(o) \/ MoveOld(o) \/ MoveNew(o)
    BY <1>3 DEF Idle, At, Cache, SetCachedZip, Copy, MoveOld, MoveNew
  <1>4. CASE MoveStorage(o) \/ Discard(o) \/ UpdateRow(o) \/ DropZip(o)
    BY <1>4 DEF Idle, At, MoveStorage, Discard, UpdateRow, DropZip
  <1>5. CASE Rollback(o) \/ Restore(o) \/ Reactivate(o)
    BY <1>5 DEF Idle, At, Rollback, Restore, Reactivate
  <1>6. CASE Isolate(o) \/ RemoveFiles(o) \/ RemoveZip(o) \/ DeleteRow(o)
    BY <1>6 DEF Idle, At, Isolate, RemoveFiles, RemoveZip, DeleteRow
  <1> QED BY <1>1, <1>2, <1>3, <1>4, <1>5, <1>6 DEF Steps

(* Operation o has taken a step alone.                                       *)
LEMMA AloneKeeps ==
  ASSUME NEW o \in Ops, Sole(o), Views(o)', \A q \in Ops : q # o => op'[q] = op[q]
  PROVE  (\E p \in Ops : Sole(p))' /\ (\A q \in Ops : Sole(q) => Views(q))'
  <1>1. Sole(o)' BY DEF Sole
  <1>2. ASSUME NEW q \in Ops, Sole(q)' PROVE Views(q)'
    <2>1. op'[q] = op'[o] BY <1>1, <1>2 DEF Sole
    <2> QED BY <2>1 DEF Views, UploadsAt, CodeAt, RowAt, At
  <1> QED BY <1>1, <1>2

LEMMA FilesStep == FilesInv /\ [Next]_vars => FilesInv'
  <1> SUFFICES ASSUME FilesInv, [Next]_vars PROVE FilesInv' OBVIOUS
  <1>a. Inv /\ Inv' /\ Shaped /\ TypeOK BY InvStep DEF FilesInv, Inv
  <1>b. "overlap" \notin upset =>
          (\E o \in Ops : Sole(o)) /\ \A o \in Ops : Sole(o) => Views(o)
    BY DEF FilesInv
  <1> DEFINE Alone == (\E o \in Ops : Sole(o)) /\ \A o \in Ops : Sole(o) => Views(o)
  <1> SUFFICES Shaped' /\ ("overlap" \notin upset' => Alone') BY <1>a DEF FilesInv
  <1>1. ASSUME NEW o \in Ops, Handlers(o) PROVE Shaped' /\ ("overlap" \notin upset' => Alone')
    <2>1. Began(o) BY <1>a, <1>1, HandlersKeep DEF Began
    <2>2. Shaped' BY <1>a, <2>1 DEF Began, Shaped
    <2>3. ASSUME "overlap" \notin upset' PROVE Alone'
      <3>1. Sole(o) /\ Views(o)' BY <1>b, <2>1, <2>3 DEF Began
      <3> QED BY <2>1, <3>1, AloneKeeps DEF Began
    <2> QED BY <2>2, <2>3
  <1>2. ASSUME NEW o \in Ops, Steps(o) PROVE Shaped' /\ ("overlap" \notin upset' => Alone')
    <2>1. OpShape(op'[o]) /\ \A q \in Ops : q # o => op'[q] = op[q]
      BY <1>a, <1>2, StepsShape
    <2>2. Shaped' BY <1>a, <1>2, <2>1, StepsSound DEF Shaped
    <2>3. ASSUME "overlap" \notin upset' PROVE Alone'
      <3>1. "overlap" \notin upset BY <1>a, <1>2, <2>3, StepsMove DEF Moved
      <3>2. op[o] # Idle BY <1>2, StepsBusy
      <3>3. Sole(o) BY <1>b, <3>1, <3>2 DEF Sole
      <3>4. Views(o)' BY <1>a, <1>b, <1>2, <3>1, <3>3, StepsKeepViews
      <3> QED BY <2>1, <3>3, <3>4, AloneKeeps
    <2> QED BY <2>2, <2>3
  <1>3. CASE \/ \E q \in Ops : Cancel(q)
             \/ \E f \in Files : AcceptUpload(f) \/ SaveUpload(f)
             \/ WorkerCrash
    <2>1. \A q \in Ops : op'[q] = Idle <=> op[q] = Idle
      <3>1. ASSUME NEW p \in Ops, Cancel(p) PROVE \A q \in Ops : op'[q] = Idle <=> op[q] = Idle
        <4>1. op \in [Ops -> Operations] /\ op[p] # Idle BY <1>a, <3>1 DEF TypeOK, Cancel
        <4>2. op'[p].live = FALSE /\ \A q \in Ops : q # p => op'[q] = op[q]
          BY <3>1, <4>1 DEF Cancel, Operations
        <4>3. op'[p] # Idle BY <4>2 DEF Idle
        <4> QED BY <4>1, <4>2, <4>3
      <3>2. ASSUME NEW f \in Files, AcceptUpload(f) \/ SaveUpload(f) PROVE op' = op
        BY <3>2 DEF AcceptUpload, SaveUpload
      <3>3. WorkerCrash => op' = op BY DEF WorkerCrash
      <3> QED BY <1>3, <3>1, <3>2, <3>3
    <2>2. Shaped'
      <3>1. Sound(dirs')
        <4>1. ASSUME NEW f \in Files, SaveUpload(f) PROVE Sound(dirs')
          <5>1. dirs \in [DirNames -> Dir] /\ Sound(dirs) BY <1>a DEF TypeOK, Shaped
          <5>2. dirs' = [dirs EXCEPT ![Dest].there = TRUE, ![Dest].storage = @ \cup {f}]
            BY <4>1 DEF SaveUpload
          <5>3. dirs'[Dest].there = TRUE /\ \A d \in DirNames : d # Dest => dirs'[d] = dirs[d]
            BY <5>1, <5>2, NamesTyped DEF Dir
          <5> QED BY <5>1, <5>3, NamesTyped, NamesDistinct DEF Sound
        <4>2. dirs' = dirs \/ \E f \in Files : SaveUpload(f)
          BY <1>3 DEF Cancel, AcceptUpload, WorkerCrash
        <4> QED BY <1>a, <4>1, <4>2 DEF Shaped
      <3>2. ASSUME NEW q \in Ops PROVE OpShape(op'[q])
        <4>1. OpShape(op[q]) /\ op \in [Ops -> Operations] BY <1>a DEF Shaped, TypeOK
        <4>2. CASE op' = op BY <4>1, <4>2
        <4>3. ASSUME NEW p \in Ops, Cancel(p) PROVE OpShape(op'[q])
          <5>1. /\ op'[q].pc = op[q].pc /\ op'[q].kind = op[q].kind
                /\ op'[q].old = op[q].old /\ op'[q].zip = op[q].zip
            BY <4>1, <4>3 DEF Cancel, Operations
          <5>2. op'[q].kind = "none" => op'[q] = Idle
            BY <2>1, <4>1, <5>1 DEF OpShape
          <5> QED BY <4>1, <5>1, <5>2 DEF OpShape
        <4> QED BY <1>3, <4>2, <4>3 DEF AcceptUpload, SaveUpload, WorkerCrash
      <3> QED BY <3>1, <3>2 DEF Shaped
    <2>3. ASSUME "overlap" \notin upset' PROVE Alone'
      <3>1. upset \subseteq upset'
        BY <1>3 DEF Cancel, AcceptUpload, SaveUpload, WorkerCrash
      <3>2. (\E o \in Ops : Sole(o)) /\ \A o \in Ops : Sole(o) => Views(o)
        BY <1>b, <2>3, <3>1
      <3>3. \A o \in Ops : Sole(o)' <=> Sole(o) BY <2>1 DEF Sole
      <3>4. ASSUME NEW o \in Ops, Sole(o) PROVE Views(o)'
        BY <1>a, <1>3, <3>2, <3>4, OthersKeep
      <3> QED BY <3>2, <3>3, <3>4
    <2> QED BY <2>2, <2>3
  <1>4. CASE CoreRestart
    <2>1. \A q \in Ops : op'[q] = Idle BY <1>4 DEF CoreRestart
    <2>2. Shaped' BY <1>a, <1>4, <2>1 DEF CoreRestart, Shaped, OpShape, Idle
    <2>3. ASSUME "overlap" \notin upset' PROVE Alone'
      <3>1. "overlap" \notin upset BY <1>4, <2>3 DEF CoreRestart
      <3>2. PICK p \in Ops : Sole(p) /\ Views(p) BY <1>b, <3>1
      <3>3. \A o \in Ops : Views(o)' BY <1>a, <1>4, <3>2, RestartKeeps
      <3>4. \A o \in Ops : Sole(o)' BY <2>1 DEF Sole
      <3> QED BY <3>3, <3>4, OpsAssumption
    <2> QED BY <2>2, <2>3
  <1>5. CASE UNCHANGED vars
    BY <1>a, <1>b, <1>5
    DEF vars, Shaped, Sole, Views, UploadsAt, CodeAt, RowAt, At, Undisturbed, Recoverable,
        Declared, Consistent, Resting, OnDisk
  <1> HIDE DEF Alone
  <1> QED BY <1>1, <1>2, <1>3, <1>4, <1>5 DEF Next

LEMMA FilesInvHolds == Spec => []FilesInv
  BY InitFiles, FilesStep, PTL DEF Spec

(* Through every update, failed migration, rollback, cancellation and crash: *)
(* an uploaded file lies in some directory until Uninstall removes it, unless *)
(* operations overlapped, the move of the storage directory failed of itself *)
(* or a file was uploaded while the directories were swapped.                *)
THEOREM UploadsStay == Spec => []UploadsKept
  <1>1. FilesInv => UploadsKept
    <2> SUFFICES ASSUME FilesInv, upset \cap {"upload", "disk", "overlap"} = {}
                 PROVE  stored \subseteq OnDisk
      BY DEF UploadsKept
    <2>1. PICK o \in Ops : Views(o) BY DEF FilesInv
    <2> QED BY <2>1 DEF Views, UploadsAt
  <1> QED BY <1>1, FilesInvHolds, PTL

(* Whatever Update, its rollback and Core's end leave of the directories: an *)
(* active module has complete code in {name}, in the directory of the update *)
(* that was broken off or in its rollback ZIP.                               *)
THEOREM CodeStays == Spec => []CodeRecoverable
  <1>1. FilesInv => CodeRecoverable
    <2> SUFFICES ASSUME FilesInv, row.status = "active", upset \cap {"overlap", "zip"} = {}
                 PROVE  (\E d \in DirNames : dirs[d].code # NoVersion) \/ row.version \in zips
      BY DEF CodeRecoverable
    <2>1. PICK o \in Ops : Views(o) BY DEF FilesInv
    <2>2. Recoverable BY <2>1 DEF Views, CodeAt
    <2>3. row.version \in Versions BY DEF FilesInv, Inv, TypeOK, Installed
    <2> QED BY <2>2, <2>3, NamesTyped DEF Recoverable
  <1> QED BY <1>1, FilesInvHolds, PTL

(* Through every failure of Install, Update and restart: with no operation   *)
(* under way, an active module has the files and the migrations of the       *)
(* version in its row.                                                       *)
THEOREM ActiveMeansInstalled == Spec => []ActiveIsConsistent
  <1>1. FilesInv => ActiveIsConsistent
    <2> SUFFICES ASSUME FilesInv, Quiet, row.status = "active",
                        upset \cap {"cancel", "crash", "overlap", "revived"} = {}
                 PROVE  Consistent
      BY DEF ActiveIsConsistent, Consistent
    <2>1. PICK o \in Ops : Views(o) BY DEF FilesInv
    <2>2. op[o].kind = "none" /\ Undisturbed BY DEF Quiet, Idle, Undisturbed
    <2> QED BY <2>1, <2>2 DEF Views, RowAt, Declared
  <1> QED BY <1>1, FilesInvHolds, PTL

=============================================================================
