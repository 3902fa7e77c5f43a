------------------------------ MODULE RuntimeState ------------------------------
(***************************************************************************)
(* Private state on disk: the start of SAD, which imports the JSON file of *)
(* every document into the database and protects the database at rest      *)
(* (runtime_privacy.py, runtime_database.py, runtime_document.py), and the *)
(* backup command, a process of its own (backup_manager.py).               *)
(*                                                                         *)
(* A file is replaced in one step.  A transaction of SQLite is one step,   *)
(* but a process that ends in the middle of one leaves its journal, and a  *)
(* backup made in the middle of one copies it: the next connection to a    *)
(* database that has a journal beside it restores the pages it names.      *)
(***************************************************************************)
EXTENDS Naturals

CONSTANTS
    Doc,        \* documents: a namespace and the name of its JSON file
    Direct,     \* those that are imported by RuntimeDatabase.import_json_document
    Value,      \* what a document may hold
    None,       \* no file, no row, no document
    Bounds      \* how many saves, crashes, failing calls, dropped files, moves
                \* to another host, backups and restores a behaviour may have

Budget == [saves: Nat, crashes: Nat, faults: Nat, drops: Nat, moves: Nat,
           backups: Nat, restores: Nat]

\* A row, or an archived JSON file: sealed is protected by DPAPI.
Payload == [value: Value, sealed: BOOLEAN]

\* sealed is the metadata at_rest_scheme.
Database == [row: [Doc -> Payload \cup {None}], sealed: BOOLEAN]

\* journal is the database as its journal has it, when no process holds it.
Disk == [root: [Doc -> Value \cup {None}], legacy: [Doc -> Value \cup {None}],
         archive: [Doc -> Payload \cup {None}], db: Database \cup {None},
         journal: Database \cup {None}]

\* A backup, complete or not, with the documents that were imported while it was
\* made, and what each of them held from then on.
Container == [portable: BOOLEAN, disk: Disk,
              moved: SUBSET Doc, since: [Doc -> SUBSET (Value \cup {None})]]

ASSUME NoneIsNothing == None \notin Doc \cup Value \cup Payload \cup Database \cup Disk \cup Container
ASSUME BoundsAssumption == Bounds \subseteq Budget
ASSUME StoresAssumption == Direct \subseteq Doc /\ Doc \ Direct # {}

VARIABLES
    disk,       \* files: at the root, in local_data, imported ones, the database
    protect,    \* whether this host protects at rest
    \* SAD
    pc, cur,    \* what it does, the store it opens
    todo,       \* the stores it has not opened
    \* The backup command
    tool,
    copy,       \* the backup in the making, or the staged one
    pending,    \* rows to read, files to replace or to put back
    before,     \* the files before a restore
    backup,     \* the last backup
    \* History
    last,       \* what the user last saved of a document, or restored
    disturbed,  \* documents with two copies that have a cause
    torn,       \* a restore ended in the middle
    mixed,      \* a restore left a journal beside a database it replaced
    fresh,      \* documents that were archived as they are since the last start
    left        \* what is left of the bounds

sad     == <<pc, cur, todo>>
command == <<tool, copy, pending, before, backup>>
history == <<last, disturbed, torn, mixed, fresh>>
vars    == <<disk, protect, sad, command, history, left>>

Spend(what) ==
    /\ left[what] > 0
    /\ left' = [left EXCEPT ![what] = @ - 1]

Rows == [d \in Doc |-> None]

Fresh == [row |-> Rows, sealed |-> FALSE]

Row(x, d) == IF x.db = None THEN None ELSE x.db.row[d]

\* The value of a document by the order in which a start believes its copies.
ValueOf(x, d) ==
    IF Row(x, d) # None THEN Row(x, d).value
    ELSE IF x.legacy[d] # None THEN x.legacy[d]
    ELSE x.root[d]

\* An installation from before the database.
Init ==
    /\ \E files \in [Doc -> Value \cup {None}] :
          disk = [root |-> files, legacy |-> Rows, archive |-> Rows, db |-> None,
                  journal |-> None]
    /\ protect \in BOOLEAN
    /\ pc = "down" /\ cur = None /\ todo = {}
    /\ tool = "idle" /\ copy = None /\ pending = {} /\ before = None /\ backup = None
    /\ last = disk.root
    /\ disturbed = {} /\ torn = FALSE /\ mixed = FALSE /\ fresh = {}
    /\ left \in Bounds

-----------------------------------------------------------------------------
(* Opening the database: RuntimeDatabase._initialize.                      *)

\* Where the journal is not of this database, any of its pages may win.
Recovered(x) ==
    IF x = None THEN {Fresh}
    ELSE IF disk.journal = None THEN {x}
    ELSE {[row |-> [d \in Doc |-> IF d \in S THEN disk.journal.row[d] ELSE x.row[d]],
           sealed |-> s] : S \in SUBSET Doc, s \in {x.sealed, disk.journal.sealed}}

Refused(x) ==
    \/ x.sealed /\ ~protect
    \/ \E d \in Doc : x.row[d] # None /\ x.row[d].sealed # x.sealed /\ protect

Sealed(x) ==
    [row |-> [d \in Doc |-> IF x.row[d] = None THEN None ELSE [x.row[d] EXCEPT !.sealed = TRUE]],
     sealed |-> TRUE]

Opened(x) == IF protect THEN Sealed(x) ELSE x

-----------------------------------------------------------------------------
(* The start of SAD: one store after the other, a RuntimeJSONDocument or,  *)
(* for those of Direct, a store that uses the RuntimeDatabase itself.      *)

\* An end that keeps the store it was opening.
DownHalfway == pc' = "down" /\ todo' = {} /\ UNCHANGED cur

Down == pc' = "down" /\ cur' = None /\ todo' = {}

Start ==
    /\ pc = "down" /\ tool \notin {"restore", "undo"}
    /\ pc' = "starting" /\ todo' = Doc
    /\ fresh' = {}
    /\ UNCHANGED <<disk, protect, cur, command, last, disturbed, torn, mixed, left>>

\* A move that does not look for a file in its place.
OpenStoreOver(d) ==
    /\ pc = "starting" /\ d \in todo
    /\ pc' = "database" /\ cur' = d /\ UNCHANGED todo
    /\ disk' = IF disk.root[d] = None THEN disk
               ELSE [disk EXCEPT !.legacy[d] = disk.root[d], !.root[d] = None]
    /\ UNCHANGED <<protect, command, history, left>>

OpenStore(d) ==
    /\ pc = "starting" /\ d \in todo
    /\ disk.root[d] = None \/ disk.legacy[d] = None
    /\ pc' = "database" /\ cur' = d /\ UNCHANGED todo
    /\ disk' = IF disk.root[d] = None THEN disk
               ELSE [disk EXCEPT !.legacy[d] = disk.root[d], !.root[d] = None]
    /\ UNCHANGED <<protect, command, history, left>>

OpenStoreRefused(d) ==
    /\ pc = "starting" /\ d \in todo
    /\ disk.root[d] # None /\ disk.legacy[d] # None
    /\ Down
    /\ UNCHANGED <<disk, protect, command, history, left>>

OpenDatabase ==
    /\ pc = "database"
    /\ \E x \in Recovered(disk.db) :
          \/ /\ Refused(x)
             /\ disk' = [disk EXCEPT !.db = x, !.journal = None]
             /\ Down
          \/ /\ ~Refused(x)
             /\ disk' = [disk EXCEPT !.db = Opened(x), !.journal = None]
             /\ pc' = IF disk.legacy[cur] = None THEN "seal" ELSE "import"
             /\ UNCHANGED <<cur, todo>>
    /\ UNCHANGED <<protect, command, history, left>>

\* An import that does not look for a row.
ImportAnyway ==
    /\ pc = "import"
    /\ disk' = [disk EXCEPT !.db.row[cur] = [value |-> disk.legacy[cur], sealed |-> protect]]
    /\ pc' = "archive"
    /\ UNCHANGED <<protect, cur, todo, command, history, left>>

Import ==
    /\ pc = "import"
    /\ disk.db.row[cur] = None
    /\ disk' = [disk EXCEPT !.db.row[cur] = [value |-> disk.legacy[cur], sealed |-> protect]]
    /\ pc' = "archive"
    /\ copy' = IF tool = "rows" THEN [copy EXCEPT !.moved = @ \cup {cur}] ELSE copy
    /\ UNCHANGED <<protect, cur, todo, tool, pending, before, backup, history, left>>

ImportRefused ==
    /\ pc = "import"
    /\ disk.db.row[cur] # None
    /\ Down
    /\ UNCHANGED <<disk, protect, command, history, left>>

\* The row was read back and is the value of the file.  import_json_document
\* moves the file as it is, on every host.
Archive ==
    /\ pc = "archive"
    /\ disk.db.row[cur].value = disk.legacy[cur]
    /\ disk.archive[cur] = None
    /\ LET seals == protect /\ cur \notin Direct
           moved == [disk EXCEPT !.archive[cur] = [value |-> disk.legacy[cur], sealed |-> seals]]
       IN IF seals
            THEN disk' = moved /\ pc' = "unlink"
            ELSE disk' = [moved EXCEPT !.legacy[cur] = None] /\ pc' = "seal"
    /\ fresh' = fresh \cup ({cur} \cap Direct)
    /\ UNCHANGED <<protect, cur, todo, command, last, disturbed, torn, mixed, left>>

ArchiveRefused ==
    /\ pc = "archive"
    /\ disk.archive[cur] # None
    /\ Down
    /\ disturbed' = disturbed \cup {cur}
    /\ UNCHANGED <<disk, protect, command, last, torn, mixed, fresh, left>>

\* An archive that leaves its source.
UnlinkForgotten ==
    /\ pc = "unlink"
    /\ pc' = "seal"
    /\ UNCHANGED <<disk, protect, cur, todo, command, history, left>>

Unlink ==
    /\ pc = "unlink"
    /\ disk' = [disk EXCEPT !.legacy[cur] = None]
    /\ pc' = "seal"
    /\ UNCHANGED <<protect, cur, todo, command, history, left>>

Plain == {d \in Doc : disk.archive[d] # None /\ ~disk.archive[d].sealed}

\* protect_existing_legacy_archives, of every RuntimeJSONDocument: of the stores
\* at the start, and of the settings and preferences at every use.
SealArchive(d) ==
    /\ pc \in {"seal", "up"} /\ cur \notin Direct
    /\ protect /\ d \in Plain
    /\ disk' = [disk EXCEPT !.archive[d].sealed = TRUE]
    /\ UNCHANGED <<protect, sad, command, history, left>>

\* A start that leaves the archives of earlier versions plain.
StoreReadyPlain ==
    /\ pc = "seal"
    /\ todo' = todo \ {cur} /\ cur' = None
    /\ pc' = IF todo' = {} THEN "up" ELSE "starting"
    /\ UNCHANGED <<disk, protect, command, history, left>>

StoreReady ==
    /\ pc = "seal" /\ (protect /\ cur \notin Direct => Plain = {})
    /\ todo' = todo \ {cur} /\ cur' = None
    /\ pc' = IF todo' = {} THEN "up" ELSE "starting"
    /\ UNCHANGED <<disk, protect, command, history, left>>

-----------------------------------------------------------------------------
(* SAD when it runs, and how it ends.                                      *)

Save(d, v) ==
    /\ pc = "up"
    /\ Spend("saves")
    /\ disk' = [disk EXCEPT !.db.row[d] = [value |-> v, sealed |-> protect]]
    /\ last' = [last EXCEPT ![d] = v]
    /\ copy' = IF tool = "rows" THEN [copy EXCEPT !.since[d] = @ \cup {v}] ELSE copy
    /\ UNCHANGED <<protect, sad, tool, pending, before, backup, disturbed, torn, mixed,
                   fresh>>

\* Between the two changes of an import there are two copies.
Halfway == IF pc \in {"archive", "unlink"} THEN {cur} ELSE {}

\* A transaction that changes an existing database may be under way.
Writing ==
    \/ pc = "database" /\ protect /\ disk.db # None /\ ~disk.db.sealed
    \/ pc \in {"import", "up"}

Crash ==
    /\ pc # "down"
    /\ Spend("crashes")
    /\ \/ UNCHANGED disk
       \/ /\ Writing /\ disk.journal = None
          /\ disk' = [disk EXCEPT !.journal = disk.db]
    /\ disturbed' = disturbed \cup Halfway
    /\ Down
    /\ UNCHANGED <<protect, command, last, torn, mixed, fresh>>

StartFails ==
    /\ pc \notin {"down", "up"}
    /\ Spend("faults")
    /\ disturbed' = disturbed \cup Halfway
    /\ Down
    /\ UNCHANGED <<disk, protect, command, last, torn, mixed, fresh>>

Stop ==
    /\ pc = "up"
    /\ Down
    /\ UNCHANGED <<disk, protect, command, history, left>>

-----------------------------------------------------------------------------
(* What people do while SAD is down.                                       *)

Idle == pc = "down" /\ tool = "idle"

\* An old file comes back.
DropFile(d, v) ==
    /\ Idle
    /\ Spend("drops")
    /\ \/ /\ disk.root[d] = None
          /\ disk' = [disk EXCEPT !.root[d] = v]
       \/ /\ disk.legacy[d] = None /\ disk.root[d] = None
          /\ disk' = [disk EXCEPT !.legacy[d] = v]
    /\ last' = IF ValueOf(disk, d) = None THEN [last EXCEPT ![d] = v] ELSE last
    /\ disturbed' = disturbed \cup {d}
    /\ UNCHANGED <<protect, sad, command, torn, mixed, fresh>>

\* "reconcile them before starting SAD"
Reconcile(d) ==
    /\ Idle
    /\ \/ /\ Row(disk, d) # None /\ (disk.root[d] # None \/ disk.legacy[d] # None)
          /\ disk' = [disk EXCEPT !.root[d] = None, !.legacy[d] = None]
       \/ /\ Row(disk, d) = None /\ disk.legacy[d] # None /\ disk.root[d] # None
          /\ disk' = [disk EXCEPT !.root[d] = None]
    /\ last' = [last EXCEPT ![d] = ValueOf(disk, d)]
    /\ disturbed' = IF disk.journal = None THEN disturbed \ {d} ELSE disturbed
    /\ UNCHANGED <<protect, sad, command, torn, mixed, fresh, left>>

\* The files move to a host that protects at rest, or to one that does not.
Move ==
    /\ Idle
    /\ Spend("moves")
    /\ protect' = ~protect
    /\ UNCHANGED <<disk, sad, command, history>>

-----------------------------------------------------------------------------
(* Backups: _build_plain_backup_bytes.                                     *)

Blank == [root |-> Rows, legacy |-> Rows, archive |-> Rows, db |-> None, journal |-> None]

\* The database is opened first, if there is one; the copy of a portable backup
\* is filled row by row, without a transaction around the rows.
BackupStart(portable) ==
    /\ tool = "idle"
    /\ Spend("backups")
    /\ \E x \in IF disk.db = None THEN {None} ELSE {y \in Recovered(disk.db) : ~Refused(y)} :
          LET opened == IF x = None THEN None ELSE Opened(x)
              listed == IF x = None \/ ~portable THEN {} ELSE {d \in Doc : x.row[d] # None}
              kept   == IF x = None \/ ~portable THEN opened ELSE Fresh
          IN /\ disk' = IF x = None THEN disk
                        ELSE [disk EXCEPT !.db = opened, !.journal = None]
             /\ copy' = [portable |-> portable,
                         disk |-> [Blank EXCEPT !.db = kept], moved |-> {},
                         since |-> [d \in Doc |-> {ValueOf(disk', d)}]]
             /\ pending' = {"row"} \X listed
    /\ tool' = "rows"
    /\ UNCHANGED <<protect, sad, before, backup, history>>

BackupRefused ==
    /\ tool = "idle" /\ disk.db # None
    /\ \E x \in Recovered(disk.db) : Refused(x) /\ disk' = [disk EXCEPT !.db = x, !.journal = None]
    /\ UNCHANGED <<protect, sad, command, history, left>>

BackupRow(d) ==
    /\ tool = "rows" /\ <<"row", d>> \in pending
    /\ copy' = [copy EXCEPT !.disk.db.row[d] = [value |-> disk.db.row[d].value, sealed |-> FALSE]]
    /\ pending' = pending \ {<<"row", d>>}
    /\ UNCHANGED <<disk, protect, sad, tool, before, backup, history, left>>

\* A database that appeared after the start is copied as it is.
CopiedDb == IF copy.disk.db = None THEN disk.db ELSE copy.disk.db

\* The list of files leaves out -wal and -shm, but not a journal that is there:
\* one a crash left, or the one of a transaction under way.
Journals ==
    IF disk.journal = None /\ Writing THEN {None, disk.db} ELSE {disk.journal}

Copied ==
    {[root |-> disk.root, legacy |-> disk.legacy,
      archive |-> IF copy.portable THEN Rows ELSE disk.archive,
      db |-> CopiedDb, journal |-> j] : j \in Journals}

HostBound(x) == x # None /\ x.sealed

\* A list of files without those at the root.
BackupFilesHalf ==
    /\ tool = "rows" /\ pending = {}
    /\ ~(copy.portable /\ HostBound(CopiedDb))
    /\ \E files \in Copied : backup' = [copy EXCEPT !.disk = [files EXCEPT !.root = Rows]]
    /\ tool' = "idle" /\ copy' = None
    /\ UNCHANGED <<disk, protect, sad, pending, before, history, left>>

\* Archived files stay out of a portable backup.
BackupFiles ==
    /\ tool = "rows" /\ pending = {}
    /\ ~(copy.portable /\ HostBound(CopiedDb))
    /\ \E files \in Copied : backup' = [copy EXCEPT !.disk = files]
    /\ tool' = "idle" /\ copy' = None
    /\ UNCHANGED <<disk, protect, sad, pending, before, history, left>>

\* The verification of a portable backup finds host-bound rows in it.
BackupRefuted ==
    /\ tool = "rows" /\ pending = {}
    /\ copy.portable /\ HostBound(CopiedDb)
    /\ backup' = None
    /\ tool' = "idle" /\ copy' = None
    /\ UNCHANGED <<disk, protect, sad, pending, before, history, left>>

BackupFails ==
    /\ tool = "rows"
    /\ Spend("faults")
    /\ tool' = "idle" /\ copy' = None /\ pending' = {}
    /\ UNCHANGED <<disk, protect, sad, before, backup, history>>

-----------------------------------------------------------------------------
(* Restores: restore_backup, while SAD is stopped.                         *)

File == ({"root", "legacy", "archive"} \X Doc) \cup ({"db", "journal"} \X {None})

Held(x, f) ==
    CASE f[1] = "root"    -> x.root[f[2]]
      [] f[1] = "legacy"  -> x.legacy[f[2]]
      [] f[1] = "archive" -> x.archive[f[2]]
      [] f[1] = "db"      -> x.db
      [] f[1] = "journal" -> x.journal

\* The files x with what y has in the place f, or with nothing there.
Put(x, f, y) ==
    CASE f[1] = "root"    -> [x EXCEPT !.root[f[2]] = y.root[f[2]]]
      [] f[1] = "legacy"  -> [x EXCEPT !.legacy[f[2]] = y.legacy[f[2]]]
      [] f[1] = "archive" -> [x EXCEPT !.archive[f[2]] = y.archive[f[2]]]
      [] f[1] = "db"      -> [x EXCEPT !.db = y.db]
      [] f[1] = "journal" -> [x EXCEPT !.journal = y.journal]

\* The files of a backup, with the rows protected again for this host.
Staged(b) ==
    IF b.portable /\ b.disk.db # None THEN [b.disk EXCEPT !.db = Sealed(@)] ELSE b.disk

RestoreStart ==
    /\ Idle /\ backup # None
    /\ backup.portable => protect
    /\ Spend("restores")
    /\ tool' = "restore"
    /\ copy' = [backup EXCEPT !.disk = Staged(backup)]
    /\ pending' = {f \in File : Held(copy'.disk, f) # None}
    /\ before' = disk
    /\ UNCHANGED <<disk, protect, sad, backup, history>>

RestoreFile(f) ==
    /\ tool = "restore" /\ f \in pending
    /\ disk' = Put(disk, f, copy.disk)
    /\ pending' = pending \ {f}
    /\ UNCHANGED <<protect, sad, tool, copy, before, backup, history, left>>

\* What the backup does not have stays as it is.
RestoreDone ==
    /\ tool = "restore" /\ pending = {}
    /\ last' = [d \in Doc |-> IF ValueOf(copy.disk, d) # None THEN ValueOf(copy.disk, d)
                               ELSE ValueOf(disk, d)]
    /\ disturbed' = Doc /\ torn' = FALSE
    /\ mixed' = (disk.journal # None /\ (torn \/ mixed \/ copy.disk.db # None
                                             \/ copy.disk.journal # None))
    /\ tool' = "idle" /\ copy' = None /\ before' = None
    /\ UNCHANGED <<disk, protect, sad, pending, backup, fresh, left>>

RestoreFails ==
    /\ tool = "restore"
    /\ Spend("faults")
    /\ tool' = "undo"
    /\ pending' = {f \in File : Held(copy.disk, f) # None} \ pending
    /\ UNCHANGED <<disk, protect, sad, copy, before, backup, history>>

\* A rollback that leaves the files that were not there before.
UndoFileKept(f) ==
    /\ tool = "undo" /\ f \in pending
    /\ disk' = IF Held(before, f) = None THEN disk ELSE Put(disk, f, before)
    /\ pending' = pending \ {f}
    /\ UNCHANGED <<protect, sad, tool, copy, before, backup, history, left>>

UndoFile(f) ==
    /\ tool = "undo" /\ f \in pending
    /\ disk' = Put(disk, f, before)
    /\ pending' = pending \ {f}
    /\ UNCHANGED <<protect, sad, tool, copy, before, backup, history, left>>

UndoDone ==
    /\ tool = "undo" /\ pending = {}
    /\ tool' = "idle" /\ copy' = None /\ before' = None
    /\ UNCHANGED <<disk, protect, sad, pending, backup, history, left>>

\* The process ends, or a call fails in the rollback.
RestoreBreaks ==
    /\ tool \in {"restore", "undo"}
    /\ \/ Spend("crashes")
       \/ tool = "undo" /\ Spend("faults")
    /\ disturbed' = Doc /\ torn' = (torn \/ disk # before)
    /\ tool' = "idle" /\ copy' = None /\ pending' = {} /\ before' = None
    /\ UNCHANGED <<disk, protect, sad, backup, last, mixed, fresh>>

-----------------------------------------------------------------------------

SadNext ==
    \/ Start
    \/ \E d \in Doc : OpenStore(d) \/ OpenStoreRefused(d) \/ SealArchive(d)
    \/ OpenDatabase \/ Import \/ ImportRefused \/ Archive \/ ArchiveRefused \/ Unlink
    \/ StoreReady \/ Crash \/ StartFails \/ Stop
    \/ \E d \in Doc, v \in Value : Save(d, v)

PeopleNext ==
    \/ \E d \in Doc, v \in Value : DropFile(d, v)
    \/ \E d \in Doc : Reconcile(d)
    \/ Move

BackupNext ==
    \/ \E portable \in BOOLEAN : BackupStart(portable)
    \/ \E d \in Doc : BackupRow(d)
    \/ BackupRefused \/ BackupFiles \/ BackupRefuted \/ BackupFails

RestoreNext ==
    \/ RestoreStart \/ RestoreDone \/ RestoreFails \/ UndoDone \/ RestoreBreaks
    \/ \E f \in File : RestoreFile(f) \/ UndoFile(f)

Next == SadNext \/ PeopleNext \/ BackupNext \/ RestoreNext

Spec == Init /\ [][Next]_vars

-----------------------------------------------------------------------------
(* Properties.                                                             *)

Restoring == tool \in {"restore", "undo"}

\* Types, and which locals an operation has: the store that is opened, the copy of
\* a backup, the files before a restore.
TypeOK ==
    /\ disk \in Disk /\ protect \in BOOLEAN
    /\ pc \in {"down", "starting", "database", "import", "archive", "unlink", "seal", "up"}
    /\ todo \subseteq Doc
    /\ IF pc \in {"down", "starting", "up"} THEN cur = None ELSE cur \in todo /\ cur \in Doc
    /\ pc \in {"import", "archive", "unlink", "up"} => disk.db # None
    /\ tool \in {"idle", "rows", "restore", "undo"}
    /\ copy \in Container \cup {None} /\ (copy = None) = (tool = "idle")
    /\ before \in Disk \cup {None} /\ (before # None) = Restoring
    /\ backup \in Container \cup {None}
    /\ pending \subseteq (IF tool = "rows" THEN {"row"} \X Doc ELSE File)
    /\ last \in [Doc -> Value \cup {None}] /\ disturbed \subseteq Doc
    /\ torn \in BOOLEAN /\ mixed \in BOOLEAN /\ fresh \subseteq Direct
    /\ left \in Budget

\* No start, crash, failing import, backup or failed restore loses what the user
\* last saved: it stays in the database, in local_data or at the root (a file is
\* only archived once its value is a row).  A restore that broke off, or one that
\* leaves a journal beside the restored database, an old one or one that came with
\* the backup, is the exception.
NothingIsLost ==
    ~Restoring /\ ~torn /\ ~mixed =>
        \A d \in Doc : last[d] # None =>
            \/ disk.root[d] = last[d]
            \/ disk.legacy[d] = last[d]
            \/ Row(disk, d) # None /\ Row(disk, d).value = last[d]

Serves ==
    \A d \in Doc :
        /\ disk.root[d] = None /\ disk.legacy[d] = None
        /\ last[d] = IF Row(disk, d) = None THEN None ELSE Row(disk, d).value

\* When SAD is up, the database has every document as the user last saved or
\* restored it, and no other copy is left that a start would look at.
UpServesLast == pc = "up" /\ ~torn /\ ~mixed => Serves

\* When SAD is up on a host that protects at rest, every row and every archived file
\* is protected, whatever version, host, backup or crash they come from.  Only what a
\* store of Direct archived in this very start may be plain.
ProtectedAtRest ==
    pc = "up" /\ protect =>
        /\ disk.db.sealed
        /\ \A d \in Doc : /\ Row(disk, d) # None => Row(disk, d).sealed
                          /\ disk.archive[d] # None => disk.archive[d].sealed \/ d \in fresh

\* SAD finds two copies of a document, and refuses to start, only if a file was
\* dropped, an import ended in the middle, or a backup was restored.
ConflictHasACause ==
    pc = "down" /\ ~Restoring => \A d \in Doc \ disturbed :
        /\ disk.root[d] = None \/ disk.legacy[d] = None
        /\ Row(disk, d) # None => disk.root[d] = None /\ disk.legacy[d] = None

\* A backup has of every document a value it held while the backup was made, unless
\* SAD imported the document in the meantime.
BackupIsCurrent ==
    backup # None => \A d \in Doc \ backup.moved : ValueOf(backup.disk, d) \in backup.since[d]

\* A restore that fails and is rolled back leaves every file as it was.
FailedRestoreLeavesNothing ==
    [][tool = "undo" /\ tool' = "idle" /\ ~torn' => disk' = before]_vars
=============================================================================
