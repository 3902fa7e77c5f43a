-------------------------- MODULE RuntimeState_proofs --------------------------
(* Theorems about private state on disk, for every set of documents and    *)
(* values and every number of saves, crashes, failing calls, dropped       *)
(* files, moves, backups and restores.                                     *)
EXTENDS RuntimeState, TLAPS

\* The files as they are, or were before a restore that may be rolled back.
Files == IF Restoring THEN before ELSE disk

\* A store of this start has opened the database.
Working == pc \in {"import", "archive", "unlink", "seal", "up"}

\* Where SAD is, and what it has found there.
PlaceInv ==
    /\ Restoring => pc = "down"
    /\ Working => disk.journal = None /\ disk.db # None
    /\ pc = "up" => todo = {}
    /\ pc = "import" => disk.legacy[cur] # None
    /\ pc \in {"archive", "unlink"} =>
          /\ disk.legacy[cur] # None
          /\ Row(disk, cur) # None /\ Row(disk, cur).value = disk.legacy[cur]
    /\ tool = "rows" => \A d \in Doc : <<"row", d>> \in pending =>
          copy.disk.db # None /\ Row(disk, d) # None

TypeInv == TypeOK /\ PlaceInv

\* The stores a start is through with have no file left to import.
OpenedInv ==
    pc # "down" => \A d \in Doc :
        /\ pc = "up" \/ d \notin todo => disk.root[d] = None /\ disk.legacy[d] = None
        /\ d = cur => disk.root[d] = None
        /\ d = cur /\ pc = "seal" => disk.legacy[d] = None

\* A journal belongs to the database, unless a restore put another one in its place.
HotInv ==
    Files.journal # None => Files.journal = Files.db \/ (disturbed = Doc /\ (torn \/ mixed))

Known(x, d) ==
    IF last[d] = None
    THEN x.root[d] = None /\ x.legacy[d] = None /\ Row(x, d) = None
    ELSE \/ x.root[d] = last[d]
         \/ x.legacy[d] = last[d]
         \/ Row(x, d) # None /\ Row(x, d).value = last[d]

LastInv == ~torn /\ ~mixed => \A d \in Doc : Known(Files, d)

Single(x, d) ==
    /\ x.root[d] = None \/ x.legacy[d] = None
    /\ Row(x, d) # None => x.root[d] = None /\ x.legacy[d] = None

CauseInv == \A d \in Doc \ disturbed : Single(Files, d) \/ d \in Halfway

SealInv ==
    protect =>
        /\ Working => /\ disk.db.sealed
                      /\ \A d \in Doc : Row(disk, d) # None => Row(disk, d).sealed
        /\ pc # "down" /\ todo \subseteq Direct => Plain \subseteq fresh

\* How far a restore, or its rollback, has come.
UndoInv ==
    /\ tool = "restore" => \A f \in File :
          Held(disk, f) = IF f \in pending \/ Held(copy.disk, f) = None
                          THEN Held(before, f) ELSE Held(copy.disk, f)
    /\ tool = "restore" => \A f \in pending : Held(copy.disk, f) # None
    /\ tool = "undo" => \A f \in File :
          IF f \in pending
          THEN Held(disk, f) = Held(copy.disk, f) /\ Held(disk, f) # None
          ELSE Held(disk, f) = Held(before, f)

\* What the backup in the making has, and will have, of a document.
Taken(d) ==
    /\ ValueOf(disk, d) \in copy.since[d]
    /\ copy.disk.db # None => disk.db # None
    /\ Row(copy.disk, d) # None => Row(copy.disk, d).value \in copy.since[d]
    /\ copy.disk.db # None /\ Row(copy.disk, d) = None /\ <<"row", d>> \notin pending =>
          \/ Row(disk, d) = None
          \/ None \in copy.since[d] /\ disk.root[d] = None /\ disk.legacy[d] = None

CopyInv ==
    /\ tool = "rows" => /\ disk.journal = None \/ disk.journal = disk.db \/ disk.db = None
                        /\ \A d \in Doc \ copy.moved : Taken(d)
    /\ BackupIsCurrent

-----------------------------------------------------------------------------
(* Files, rows and databases.                                              *)

\* A value in its place, or nothing.
LEMMA DiskParts ==
    ASSUME NEW x \in Disk, NEW d \in Doc
    PROVE  /\ x.root \in [Doc -> Value \cup {None}] /\ x.root[d] \in Value \cup {None}
           /\ x.legacy \in [Doc -> Value \cup {None}] /\ x.legacy[d] \in Value \cup {None}
           /\ x.archive \in [Doc -> Payload \cup {None}] /\ x.archive[d] \in Payload \cup {None}
           /\ x.db # None => /\ x.db \in Database
                             /\ x.db.row \in [Doc -> Payload \cup {None}] /\ x.db.sealed \in BOOLEAN
           /\ x.journal \in Database \cup {None}
           /\ Row(x, d) \in Payload \cup {None}
           /\ Row(x, d) # None => Row(x, d).value \in Value /\ Row(x, d).sealed \in BOOLEAN
           /\ ValueOf(x, d) \in Value \cup {None}
<1>1. /\ x.root \in [Doc -> Value \cup {None}] /\ x.legacy \in [Doc -> Value \cup {None}]
      /\ x.archive \in [Doc -> Payload \cup {None}] /\ x.db \in Database \cup {None}
      /\ x.journal \in Database \cup {None}
  BY DEF Disk
<1>2. x.db # None => /\ x.db \in Database /\ x.db.row \in [Doc -> Payload \cup {None}]
                     /\ x.db.sealed \in BOOLEAN
  BY <1>1 DEF Database
<1>3. Row(x, d) \in Payload \cup {None}
  BY <1>2 DEF Row
<1>4. Row(x, d) # None => Row(x, d).value \in Value /\ Row(x, d).sealed \in BOOLEAN
  BY <1>3 DEF Payload
<1> QED
  BY <1>1, <1>2, <1>3, <1>4 DEF ValueOf

LEMMA NoneIsNoRecord ==
    /\ \A x \in Payload : x # None
    /\ \A x \in Database : x # None
    /\ \A x \in Disk : x # None
    /\ \A x \in Container : x # None
    /\ \A x \in Value : x # None
    /\ \A x \in Doc : x # None
  BY NoneIsNothing

WithRow(b, c, p) == [b EXCEPT !.row = [b.row EXCEPT ![c] = p]]

LEMMA SetRow ==
    ASSUME NEW b \in Database, NEW c \in Doc, NEW p \in Payload
    PROVE  /\ WithRow(b, c, p) \in Database /\ WithRow(b, c, p) # None
           /\ WithRow(b, c, p).sealed = b.sealed
           /\ \A d \in Doc : WithRow(b, c, p).row[d] = IF d = c THEN p ELSE b.row[d]
<1> DEFINE r == [b.row EXCEPT ![c] = p]
<1>1. b.row \in [Doc -> Payload \cup {None}] /\ b.sealed \in BOOLEAN
  BY DEF Database
<1>2. r \in [Doc -> Payload \cup {None}] /\ \A d \in Doc : r[d] = IF d = c THEN p ELSE b.row[d]
  BY <1>1
<1>3. WithRow(b, c, p) = [b EXCEPT !.row = r]
  BY DEF WithRow
<1> HIDE DEF r
<1>4. WithRow(b, c, p) \in Database /\ WithRow(b, c, p).row = r /\ WithRow(b, c, p).sealed = b.sealed
  BY <1>2, <1>3 DEF Database
<1> QED
  BY <1>2, <1>4, NoneIsNoRecord

\* What a connection finds after a crash.
LEMMA RecoveredParts ==
    ASSUME disk.journal \in Database \cup {None}, NEW b \in Database \cup {None}, NEW x \in Recovered(b)
    PROVE  /\ x \in Database
           /\ b # None /\ (disk.journal = None \/ disk.journal = b) => x = b
           /\ b = None => x = Fresh
<1>1. CASE b = None
  <2>1. Fresh \in Database
    BY DEF Fresh, Rows, Database
  <2> QED
    BY <1>1, <2>1 DEF Recovered
<1>2. CASE b # None /\ disk.journal = None
  BY <1>2 DEF Recovered
<1>3. CASE b # None /\ disk.journal # None
  <2>1. PICK S \in SUBSET Doc, z \in {b.sealed, disk.journal.sealed} :
          x = [row |-> [d \in Doc |-> IF d \in S THEN disk.journal.row[d] ELSE b.row[d]], sealed |-> z]
    BY <1>3 DEF Recovered
  <2>2. /\ b \in Database /\ b.row \in [Doc -> Payload \cup {None}] /\ b.sealed \in BOOLEAN
        /\ disk.journal.row \in [Doc -> Payload \cup {None}] /\ disk.journal.sealed \in BOOLEAN
    BY <1>3 DEF Database
  <2> DEFINE r == [d \in Doc |-> IF d \in S THEN disk.journal.row[d] ELSE b.row[d]]
  <2>3. r \in [Doc -> Payload \cup {None}] /\ (disk.journal = b => r = b.row)
    BY <2>2
  <2>4. x = [row |-> r, sealed |-> z] /\ z \in BOOLEAN /\ (disk.journal = b => z = b.sealed)
    BY <2>1, <2>2
  <2> HIDE DEF r
  <2>5. b = [row |-> b.row, sealed |-> b.sealed]
    BY <2>2 DEF Database
  <2>6. x \in Database
    BY <2>3, <2>4 DEF Database
  <2> QED
    BY <1>3, <2>3, <2>4, <2>5, <2>6
<1> QED
  BY <1>1, <1>2, <1>3

LEMMA OpenedParts ==
    ASSUME protect \in BOOLEAN, NEW x \in Database
    PROVE  /\ Opened(x) \in Database
           /\ \A d \in Doc : Opened(x).row[d] = None <=> x.row[d] = None
           /\ \A d \in Doc : x.row[d] # None => Opened(x).row[d].value = x.row[d].value
           /\ protect => /\ Opened(x).sealed
                         /\ \A d \in Doc : Opened(x).row[d] # None => Opened(x).row[d].sealed
<1> DEFINE r == [d \in Doc |-> IF x.row[d] = None THEN None ELSE [x.row[d] EXCEPT !.sealed = TRUE]]
<1>1. x.row \in [Doc -> Payload \cup {None}]
  BY DEF Database
<1>2. ASSUME NEW d \in Doc, x.row[d] # None
      PROVE  /\ r[d] \in Payload /\ r[d] # None
             /\ r[d].value = x.row[d].value /\ r[d].sealed
  <2>1. x.row[d] \in Payload
    BY <1>1, <1>2
  <2>2. r[d] = [x.row[d] EXCEPT !.sealed = TRUE]
    BY <1>2
  <2>3. r[d] \in Payload /\ r[d].value = x.row[d].value /\ r[d].sealed
    BY <2>1, <2>2 DEF Payload
  <2> QED
    BY <2>3, NoneIsNoRecord
<1>3. \A d \in Doc : x.row[d] = None => r[d] = None
  OBVIOUS
<1>4. r \in [Doc -> Payload \cup {None}]
  BY <1>2, <1>3
<1>5. Sealed(x) = [row |-> r, sealed |-> TRUE]
  BY DEF Sealed
<1> HIDE DEF r
<1>6. Sealed(x) \in Database /\ Sealed(x).row = r /\ Sealed(x).sealed
  BY <1>4, <1>5 DEF Database
<1> QED
  BY <1>2, <1>3, <1>6 DEF Opened

LEMMA FileKinds ==
    ASSUME NEW f \in File
    PROVE  \/ \E d \in Doc : f = <<"root", d>> \/ f = <<"legacy", d>> \/ f = <<"archive", d>>
           \/ f = <<"db", None>> \/ f = <<"journal", None>>
  BY DEF File

LEMMA PutParts ==
    ASSUME NEW x \in Disk, NEW y \in Disk, NEW f \in File
    PROVE  /\ Put(x, f, y) \in Disk
           /\ Held(Put(x, f, y), f) = Held(y, f)
           /\ \A g \in File : g # f => Held(Put(x, f, y), g) = Held(x, g)
<1>1. ASSUME NEW d \in Doc, f = <<"root", d>>
      PROVE  /\ Put(x, f, y) \in Disk
             /\ Held(Put(x, f, y), f) = Held(y, f)
             /\ \A g \in File : g # f => Held(Put(x, f, y), g) = Held(x, g)
  <2>1. /\ Put(x, f, y) \in Disk /\ Put(x, f, y).root = [x.root EXCEPT ![d] = y.root[d]]
        /\ Put(x, f, y).legacy = x.legacy /\ Put(x, f, y).archive = x.archive
        /\ Put(x, f, y).db = x.db /\ Put(x, f, y).journal = x.journal
    BY <1>1 DEF Put, Disk
  <2> HIDE DEF Put
  <2> QED
    BY <1>1, <2>1, FileKinds, DiskParts DEF Held
<1>2. ASSUME NEW d \in Doc, f = <<"legacy", d>>
      PROVE  /\ Put(x, f, y) \in Disk
             /\ Held(Put(x, f, y), f) = Held(y, f)
             /\ \A g \in File : g # f => Held(Put(x, f, y), g) = Held(x, g)
  <2>1. /\ Put(x, f, y) \in Disk /\ Put(x, f, y).legacy = [x.legacy EXCEPT ![d] = y.legacy[d]]
        /\ Put(x, f, y).root = x.root /\ Put(x, f, y).archive = x.archive
        /\ Put(x, f, y).db = x.db /\ Put(x, f, y).journal = x.journal
    BY <1>2 DEF Put, Disk
  <2> QED
    BY <1>2, <2>1, FileKinds, DiskParts DEF Held
<1>3. ASSUME NEW d \in Doc, f = <<"archive", d>>
      PROVE  /\ Put(x, f, y) \in Disk
             /\ Held(Put(x, f, y), f) = Held(y, f)
             /\ \A g \in File : g # f => Held(Put(x, f, y), g) = Held(x, g)
  <2>1. /\ Put(x, f, y) \in Disk /\ Put(x, f, y).archive = [x.archive EXCEPT ![d] = y.archive[d]]
        /\ Put(x, f, y).root = x.root /\ Put(x, f, y).legacy = x.legacy
        /\ Put(x, f, y).db = x.db /\ Put(x, f, y).journal = x.journal
    BY <1>3 DEF Put, Disk
  <2> QED
    BY <1>3, <2>1, FileKinds, DiskParts DEF Held
<1>4. ASSUME f = <<"db", None>>
      PROVE  /\ Put(x, f, y) \in Disk
             /\ Held(Put(x, f, y), f) = Held(y, f)
             /\ \A g \in File : g # f => Held(Put(x, f, y), g) = Held(x, g)
  <2>1. /\ Put(x, f, y) \in Disk /\ Put(x, f, y).db = y.db
        /\ Put(x, f, y).root = x.root /\ Put(x, f, y).legacy = x.legacy
        /\ Put(x, f, y).archive = x.archive /\ Put(x, f, y).journal = x.journal
    BY <1>4 DEF Put, Disk
  <2> QED
    BY <1>4, <2>1, FileKinds DEF Held
<1>5. ASSUME f = <<"journal", None>>
      PROVE  /\ Put(x, f, y) \in Disk
             /\ Held(Put(x, f, y), f) = Held(y, f)
             /\ \A g \in File : g # f => Held(Put(x, f, y), g) = Held(x, g)
  <2>1. /\ Put(x, f, y) \in Disk /\ Put(x, f, y).journal = y.journal
        /\ Put(x, f, y).root = x.root /\ Put(x, f, y).legacy = x.legacy
        /\ Put(x, f, y).archive = x.archive /\ Put(x, f, y).db = x.db
    BY <1>5 DEF Put, Disk
  <2> QED
    BY <1>5, <2>1, FileKinds DEF Held
<1> QED
  BY <1>1, <1>2, <1>3, <1>4, <1>5, FileKinds

\* What the places hold is all there is.
LEMMA HeldParts ==
    ASSUME NEW x \in Disk
    PROVE  /\ \A d \in Doc : /\ <<"root", d>> \in File /\ Held(x, <<"root", d>>) = x.root[d]
                             /\ <<"legacy", d>> \in File /\ Held(x, <<"legacy", d>>) = x.legacy[d]
                             /\ <<"archive", d>> \in File /\ Held(x, <<"archive", d>>) = x.archive[d]
           /\ <<"db", None>> \in File /\ Held(x, <<"db", None>>) = x.db
           /\ <<"journal", None>> \in File /\ Held(x, <<"journal", None>>) = x.journal
  BY DEF File, Held

LEMMA SameFiles ==
    ASSUME NEW x \in Disk, NEW y \in Disk, \A f \in File : Held(x, f) = Held(y, f)
    PROVE  x = y
<1>1. ASSUME NEW d \in Doc
      PROVE  x.root[d] = y.root[d] /\ x.legacy[d] = y.legacy[d] /\ x.archive[d] = y.archive[d]
  <2>1. /\ Held(x, <<"root", d>>) = Held(y, <<"root", d>>)
        /\ Held(x, <<"legacy", d>>) = Held(y, <<"legacy", d>>)
        /\ Held(x, <<"archive", d>>) = Held(y, <<"archive", d>>)
    BY DEF File
  <2> QED
    BY <2>1 DEF Held
<1>2. x.db = y.db /\ x.journal = y.journal
  BY HeldParts
<1>3. x.root = y.root /\ x.legacy = y.legacy /\ x.archive = y.archive
  BY <1>1 DEF Disk
<1> QED
  BY <1>2, <1>3 DEF Disk

-----------------------------------------------------------------------------
(* What the actions do to the files.                                       *)

\* The same documents in the same places, whatever is protected.
Alike(x, y) ==
    /\ x.root = y.root /\ x.legacy = y.legacy
    /\ \A d \in Doc : /\ Row(x, d) = None <=> Row(y, d) = None
                      /\ Row(x, d) # None => Row(x, d).value = Row(y, d).value

LEMMA OpenStoreEffect ==
    ASSUME TypeOK, NEW d \in Doc, OpenStore(d)
    PROVE  /\ disk' \in Disk /\ disk'.db = disk.db /\ disk'.archive = disk.archive
           /\ disk'.journal = disk.journal
           /\ disk'.root[d] = None
           /\ disk'.legacy[d] = IF disk.root[d] = None THEN disk.legacy[d] ELSE disk.root[d]
           /\ \A e \in Doc \ {d} : disk'.root[e] = disk.root[e] /\ disk'.legacy[e] = disk.legacy[e]
           /\ \A e \in Doc : Row(disk', e) = Row(disk, e)
<1>1. disk \in Disk
  BY DEF TypeOK
<1>2. CASE disk.root[d] = None
  BY <1>1, <1>2 DEF OpenStore, Row
<1>3. CASE disk.root[d] # None
  <2>1. disk' = [disk EXCEPT !.legacy[d] = disk.root[d], !.root[d] = None]
    BY <1>3 DEF OpenStore
  <2>2. /\ disk.root \in [Doc -> Value \cup {None}] /\ disk.legacy \in [Doc -> Value \cup {None}]
        /\ disk.root[d] \in Value \cup {None}
    BY <1>1, DiskParts
  <2> DEFINE l == [disk.legacy EXCEPT ![d] = disk.root[d]]
             r == [disk.root EXCEPT ![d] = None]
  <2>3. /\ l \in [Doc -> Value \cup {None}] /\ l[d] = disk.root[d] /\ \A e \in Doc \ {d} : l[e] = disk.legacy[e]
        /\ r \in [Doc -> Value \cup {None}] /\ r[d] = None /\ \A e \in Doc \ {d} : r[e] = disk.root[e]
    BY <2>2
  <2>4. disk' = [[disk EXCEPT !.legacy = l] EXCEPT !.root = r]
    BY <2>1, <1>1 DEF Disk
  <2> HIDE DEF l, r
  <2>5. /\ disk' \in Disk /\ disk'.root = r /\ disk'.legacy = l /\ disk'.db = disk.db
        /\ disk'.archive = disk.archive /\ disk'.journal = disk.journal
    BY <2>3, <2>4, <1>1 DEF Disk
  <2> QED
    BY <1>3, <2>3, <2>5 DEF Row
<1> QED
  BY <1>2, <1>3

\* The database replaced by another one.
LEMMA SetDb ==
    ASSUME NEW x \in Disk, NEW b \in Database \cup {None}, NEW y, y = [x EXCEPT !.db = b]
    PROVE  /\ y \in Disk /\ y.db = b /\ y.journal = x.journal
           /\ y.root = x.root /\ y.legacy = x.legacy /\ y.archive = x.archive
  BY DEF Disk

\* A crash leaves the files, and at most a journal of the database beside it.
LEMMA CrashEffect ==
    ASSUME TypeOK, Crash
    PROVE  /\ disk' \in Disk /\ disk'.db = disk.db /\ disk'.archive = disk.archive
           /\ disk'.root = disk.root /\ disk'.legacy = disk.legacy
           /\ disk'.journal = disk.journal \/ disk'.journal = disk.db
<1>1. disk \in Disk /\ disk.db \in Database \cup {None}
  BY DEF TypeOK, Disk
<1>2. CASE disk' = disk
  BY <1>1, <1>2
<1>3. CASE disk' = [disk EXCEPT !.journal = disk.db]
  BY <1>1, <1>3 DEF Disk
<1> QED
  BY <1>2, <1>3 DEF Crash

\* A connection that finds the database as it was leaves the documents alike.
LEMMA OpenedAlike ==
    ASSUME TypeOK, disk.db # None, NEW x \in Recovered(disk.db), disk.journal = None \/ disk.journal = disk.db,
           NEW y \in Disk, \/ y = [disk EXCEPT !.db = Opened(x), !.journal = None]
                          \/ y = [disk EXCEPT !.db = x, !.journal = None]
    PROVE  Alike(disk, y) /\ y.archive = disk.archive /\ y.db # None
<1>1. disk \in Disk /\ disk.journal \in Database \cup {None} /\ disk.db \in Database \cup {None} /\ protect \in BOOLEAN
  BY DEF TypeOK, Disk
<1>2. x = disk.db /\ x \in Database
  BY <1>1, RecoveredParts
<1>3. Opened(x) \in Database
  BY <1>1, <1>2, OpenedParts
<1>4. /\ y.db = Opened(x) \/ y.db = x
      /\ y.root = disk.root /\ y.legacy = disk.legacy /\ y.archive = disk.archive
  BY <1>1, <1>2, <1>3 DEF Disk
<1>5. /\ \A d \in Doc : Opened(x).row[d] = None <=> x.row[d] = None
      /\ \A d \in Doc : x.row[d] # None => Opened(x).row[d].value = x.row[d].value
  BY <1>1, <1>2, OpenedParts
<1>6. y.db # None
  BY <1>2, <1>3, <1>4, NoneIsNoRecord
<1> QED
  BY <1>2, <1>4, <1>5, <1>6 DEF Alike, Row

LEMMA OpenDatabaseEffect ==
    ASSUME TypeOK, PlaceInv, OpenDatabase
    PROVE  /\ disk' \in Disk /\ disk'.db # None /\ disk'.journal = None
           /\ disk'.root = disk.root /\ disk'.legacy = disk.legacy /\ disk'.archive = disk.archive
           /\ disk.journal = None \/ disk.journal = disk.db \/ disk.db = None => Alike(disk, disk')
           /\ \/ Down
              \/ /\ pc' = IF disk.legacy[cur] = None THEN "seal" ELSE "import"
                 /\ UNCHANGED <<cur, todo>>
                 /\ protect => /\ disk'.db.sealed
                               /\ \A d \in Doc : Row(disk', d) # None => Row(disk', d).sealed
<1>1. disk \in Disk /\ disk.journal \in Database \cup {None} /\ disk.db \in Database \cup {None} /\ protect \in BOOLEAN
  BY DEF TypeOK, Disk
<1>2. PICK x \in Recovered(disk.db) :
        \/ Refused(x) /\ disk' = [disk EXCEPT !.db = x, !.journal = None] /\ Down
        \/ /\ ~Refused(x)
           /\ disk' = [disk EXCEPT !.db = Opened(x), !.journal = None]
           /\ pc' = IF disk.legacy[cur] = None THEN "seal" ELSE "import"
           /\ UNCHANGED <<cur, todo>>
  BY DEF OpenDatabase
<1>3. x \in Database /\ (disk.db = None => x = Fresh)
  BY <1>1, RecoveredParts
<1>4. Opened(x) \in Database
  BY <1>1, <1>3, OpenedParts
<1>5. PICK b \in {x, Opened(x)} : /\ disk' = [disk EXCEPT !.db = b, !.journal = None]
                                 /\ (Refused(x) => b = x) /\ (~Refused(x) => b = Opened(x))
  BY <1>2
<1>6. b \in Database /\ b # None
  BY <1>3, <1>4, NoneIsNoRecord
<1>7. /\ disk' \in Disk /\ disk'.db = b /\ disk'.journal = None
      /\ disk'.root = disk.root /\ disk'.legacy = disk.legacy /\ disk'.archive = disk.archive
  BY <1>1, <1>5, <1>6 DEF Disk
<1>8. ASSUME disk.journal = None \/ disk.journal = disk.db \/ disk.db = None
      PROVE  Alike(disk, disk')
  <2>1. CASE disk.db # None
    <3>1. \/ disk' = [disk EXCEPT !.db = Opened(x), !.journal = None]
          \/ disk' = [disk EXCEPT !.db = x, !.journal = None]
      BY <1>5
    <3> QED
      BY <2>1, <1>7, <1>8, <3>1, OpenedAlike
  <2>2. CASE disk.db = None
    <3> x = Fresh
      BY <1>3, <2>2
    <3> x.row = Rows
      BY DEF Fresh
    <3>1. \A d \in Doc : x.row[d] = None
      BY DEF Rows
    <3>2. \A d \in Doc : b.row[d] = None
      BY <1>1, <1>3, <1>5, <3>1, OpenedParts
    <3> QED
      BY <2>2, <1>6, <1>7, <3>2 DEF Alike, Row
  <2> QED
    BY <2>1, <2>2
<1>9. ~Refused(x) /\ protect => /\ disk'.db.sealed
                               /\ \A d \in Doc : Row(disk', d) # None => Row(disk', d).sealed
  BY <1>1, <1>3, <1>5, <1>6, <1>7, OpenedParts DEF Row
<1> QED
  BY <1>2, <1>6, <1>7, <1>8, <1>9

\* The value of the file becomes the row.
LEMMA ImportEffect ==
    ASSUME TypeInv, Import
    PROVE  /\ cur \in Doc /\ disk.legacy[cur] \in Value
           /\ disk' \in Disk /\ disk'.db # None /\ disk'.db.sealed = disk.db.sealed
           /\ disk'.journal = disk.journal
           /\ disk'.root = disk.root /\ disk'.legacy = disk.legacy /\ disk'.archive = disk.archive
           /\ Row(disk, cur) = None
           /\ Row(disk', cur) \in Payload /\ Row(disk', cur) # None
           /\ Row(disk', cur).value = disk.legacy[cur] /\ Row(disk', cur).sealed = protect
           /\ \A d \in Doc \ {cur} : Row(disk', d) = Row(disk, d)
<1>1. disk \in Disk /\ disk.db # None /\ cur \in Doc /\ protect \in BOOLEAN /\ pc = "import"
  BY DEF TypeInv, TypeOK, PlaceInv, Working, Import
<1>2. disk.legacy[cur] \in Value
  BY <1>1, DiskParts DEF TypeInv, PlaceInv
<1> DEFINE p == [value |-> disk.legacy[cur], sealed |-> protect]
<1>3. p \in Payload /\ p.value = disk.legacy[cur] /\ p.sealed = protect
  BY <1>1, <1>2 DEF Payload
<1>4. disk' = [disk EXCEPT !.db.row[cur] = p]
  BY DEF Import
<1>5. Row(disk, cur) = None
  BY <1>1 DEF Import, Row
<1>6. p # None
  BY <1>3, NoneIsNoRecord
<1> HIDE DEF p
<1>7. /\ disk' \in Disk /\ disk'.root = disk.root /\ disk'.legacy = disk.legacy
      /\ disk'.journal = disk.journal
      /\ disk'.archive = disk.archive /\ disk'.db # None /\ disk'.db.sealed = disk.db.sealed
      /\ \A d \in Doc : Row(disk', d) = IF d = cur THEN p ELSE Row(disk, d)
  <2>1. disk.db \in Database
    BY <1>1 DEF Disk
  <2>2. disk' = [disk EXCEPT !.db = WithRow(disk.db, cur, p)]
    BY <1>4 DEF WithRow
  <2>3. WithRow(disk.db, cur, p) \in Database
    BY <1>1, <1>3, <2>1, SetRow
  <2>4. /\ disk' \in Disk /\ disk'.db = WithRow(disk.db, cur, p) /\ disk'.root = disk.root
        /\ disk'.legacy = disk.legacy /\ disk'.archive = disk.archive /\ disk'.journal = disk.journal
    BY <1>1, <2>2, <2>3, SetDb
  <2> QED
    BY <1>1, <1>3, <2>1, <2>4, SetRow DEF Row
<1> QED
  BY <1>1, <1>2, <1>3, <1>5, <1>6, <1>7

LEMMA SaveEffect ==
    ASSUME TypeInv, NEW c \in Doc, NEW v \in Value, Save(c, v)
    PROVE  /\ disk' \in Disk /\ disk'.db # None /\ disk'.db.sealed = disk.db.sealed
           /\ disk'.journal = disk.journal
           /\ disk'.root = disk.root /\ disk'.legacy = disk.legacy /\ disk'.archive = disk.archive
           /\ Row(disk', c) \in Payload /\ Row(disk', c) # None
           /\ Row(disk', c).value = v /\ Row(disk', c).sealed = protect
           /\ \A d \in Doc \ {c} : Row(disk', d) = Row(disk, d)
<1>1. disk \in Disk /\ disk.db # None /\ protect \in BOOLEAN
  BY DEF TypeInv, TypeOK, PlaceInv, Working, Save
<1> DEFINE p == [value |-> v, sealed |-> protect]
<1>2. p \in Payload /\ p.value = v /\ p.sealed = protect
  BY <1>1 DEF Payload
<1>3. disk' = [disk EXCEPT !.db.row[c] = p]
  BY DEF Save
<1>4. p # None
  BY <1>2, NoneIsNoRecord
<1> HIDE DEF p
<1>5. /\ disk' \in Disk /\ disk'.root = disk.root /\ disk'.legacy = disk.legacy
      /\ disk'.journal = disk.journal
      /\ disk'.archive = disk.archive /\ disk'.db # None /\ disk'.db.sealed = disk.db.sealed
      /\ \A d \in Doc : Row(disk', d) = IF d = c THEN p ELSE Row(disk, d)
  <2>1. disk.db \in Database
    BY <1>1 DEF Disk
  <2>2. disk' = [disk EXCEPT !.db = WithRow(disk.db, c, p)]
    BY <1>3 DEF WithRow
  <2>3. WithRow(disk.db, c, p) \in Database
    BY <1>2, <2>1, SetRow
  <2>4. /\ disk' \in Disk /\ disk'.db = WithRow(disk.db, c, p) /\ disk'.root = disk.root
        /\ disk'.legacy = disk.legacy /\ disk'.archive = disk.archive /\ disk'.journal = disk.journal
    BY <1>1, <2>2, <2>3, SetDb
  <2> QED
    BY <1>1, <1>2, <2>1, <2>4, SetRow DEF Row
<1> QED
  BY <1>1, <1>2, <1>4, <1>5

\* The file is copied to the archive, or, if it is archived as it is, moved there.
LEMMA ArchiveEffect ==
    ASSUME TypeInv, Archive
    PROVE  /\ cur \in Doc /\ disk' \in Disk /\ disk'.db = disk.db /\ disk'.journal = disk.journal
           /\ disk'.root = disk.root
           /\ \A d \in Doc \ {cur} : /\ disk'.legacy[d] = disk.legacy[d]
                                     /\ disk'.archive[d] = disk.archive[d]
           /\ \A d \in Doc : Row(disk', d) = Row(disk, d)
           /\ \/ pc' = "unlink" /\ disk'.legacy = disk.legacy
              \/ pc' = "seal" /\ disk'.legacy[cur] = None
<1> DEFINE seals == protect /\ cur \notin Direct
           p == [value |-> disk.legacy[cur], sealed |-> seals]
           moved == [disk EXCEPT !.archive[cur] = p]
<1>1. disk \in Disk /\ cur \in Doc /\ protect \in BOOLEAN /\ pc = "archive"
  BY DEF TypeInv, TypeOK, Archive
<1>2. disk.legacy[cur] \in Value
  BY <1>1, DiskParts DEF TypeInv, PlaceInv
<1>3. p \in Payload
  BY <1>1, <1>2 DEF Payload
<1>4. disk.archive \in [Doc -> Payload \cup {None}] /\ disk.legacy \in [Doc -> Value \cup {None}]
  BY <1>1 DEF Disk
<1>5. /\ moved \in Disk /\ moved.db = disk.db /\ moved.journal = disk.journal
      /\ moved.root = disk.root /\ moved.legacy = disk.legacy
      /\ \A d \in Doc \ {cur} : moved.archive[d] = disk.archive[d]
  <2> HIDE DEF p
  <2>1. [disk.archive EXCEPT ![cur] = p] \in [Doc -> Payload \cup {None}]
    BY <1>3, <1>4
  <2> QED
    BY <1>1, <1>4, <2>1 DEF Disk
<1>6. \/ pc' = "unlink" /\ disk' = moved
      \/ pc' = "seal" /\ disk' = [moved EXCEPT !.legacy[cur] = None]
  BY <1>1 DEF Archive
<1> HIDE DEF moved
<1>7. CASE pc' = "unlink" /\ disk' = moved
  BY <1>1, <1>5, <1>7 DEF Row
<1>8. CASE pc' = "seal" /\ disk' = [moved EXCEPT !.legacy[cur] = None]
  <2>1. [moved.legacy EXCEPT ![cur] = None] \in [Doc -> Value \cup {None}]
    BY <1>4, <1>5
  <2>2. /\ disk' \in Disk /\ disk'.db = moved.db /\ disk'.root = moved.root
        /\ disk'.archive = moved.archive /\ disk'.journal = moved.journal
        /\ disk'.legacy = [moved.legacy EXCEPT ![cur] = None]
    BY <1>5, <1>8, <2>1 DEF Disk
  <2>3. disk'.legacy[cur] = None /\ \A d \in Doc \ {cur} : disk'.legacy[d] = disk.legacy[d]
    BY <1>1, <1>4, <1>5, <2>2
  <2> QED
    BY <1>1, <1>5, <1>8, <2>2, <2>3 DEF Row
<1> QED
  BY <1>6, <1>7, <1>8

LEMMA UnlinkEffect ==
    ASSUME TypeOK, Unlink
    PROVE  /\ cur \in Doc /\ disk' \in Disk /\ disk'.db = disk.db /\ disk'.journal = disk.journal
           /\ disk'.root = disk.root /\ disk'.archive = disk.archive
           /\ disk'.legacy[cur] = None
           /\ \A d \in Doc \ {cur} : disk'.legacy[d] = disk.legacy[d]
           /\ \A d \in Doc : Row(disk', d) = Row(disk, d)
<1>1. disk \in Disk /\ cur \in Doc
  BY DEF TypeOK, Unlink
<1>2. disk.legacy \in [Doc -> Value \cup {None}]
  BY <1>1 DEF Disk
<1>3. [disk.legacy EXCEPT ![cur] = None] \in [Doc -> Value \cup {None}]
  BY <1>2
<1>4. /\ disk' \in Disk /\ disk'.db = disk.db /\ disk'.root = disk.root /\ disk'.archive = disk.archive
      /\ disk'.journal = disk.journal
      /\ disk'.legacy = [disk.legacy EXCEPT ![cur] = None]
  BY <1>1, <1>3 DEF Disk, Unlink
<1> QED
  BY <1>1, <1>2, <1>4 DEF Row

LEMMA SealArchiveEffect ==
    ASSUME TypeOK, NEW d \in Doc, SealArchive(d)
    PROVE  /\ disk' \in Disk /\ disk'.db = disk.db /\ disk'.journal = disk.journal
           /\ disk'.root = disk.root /\ disk'.legacy = disk.legacy
           /\ Plain' \subseteq Plain
<1>1. disk \in Disk /\ disk.archive[d] # None
  BY DEF TypeOK, SealArchive, Plain
<1>2. disk.archive \in [Doc -> Payload \cup {None}] /\ disk.archive[d] \in Payload
  BY <1>1 DEF Disk
<1>3. [disk.archive[d] EXCEPT !.sealed = TRUE] \in Payload
  BY <1>2 DEF Payload
<1>4. [disk.archive EXCEPT ![d] = [disk.archive[d] EXCEPT !.sealed = TRUE]] \in [Doc -> Payload \cup {None}]
  BY <1>2, <1>3
<1>5. disk' = [disk EXCEPT !.archive = [disk.archive EXCEPT ![d] = [disk.archive[d] EXCEPT !.sealed = TRUE]]]
  BY DEF SealArchive
<1>6. \A e \in Doc \ {d} : disk'.archive[e] = disk.archive[e]
  BY <1>1, <1>2, <1>5 DEF Disk
<1>7. d \in Plain
  BY DEF SealArchive
<1> QED
  BY <1>1, <1>4, <1>5, <1>6, <1>7 DEF Disk, Plain

\* A file appears in a free place; the database stays.
LEMMA DropFileEffect ==
    ASSUME TypeOK, NEW d \in Doc, NEW v \in Value, DropFile(d, v)
    PROVE  /\ disk' \in Disk /\ disk'.db = disk.db /\ disk'.journal = disk.journal
           /\ \A e \in Doc \ {d} : disk'.root[e] = disk.root[e] /\ disk'.legacy[e] = disk.legacy[e]
           /\ \A e \in Doc : Row(disk', e) = Row(disk, e)
           /\ \/ /\ disk.root[d] = None /\ disk'.root[d] = v /\ disk'.legacy[d] = disk.legacy[d]
              \/ /\ disk.root[d] = None /\ disk.legacy[d] = None
                 /\ disk'.legacy[d] = v /\ disk'.root[d] = disk.root[d]
<1>1. disk \in Disk
  BY DEF TypeOK
<1>2. disk.legacy \in [Doc -> Value \cup {None}] /\ disk.root \in [Doc -> Value \cup {None}]
  BY <1>1 DEF Disk
<1>3. /\ [disk.legacy EXCEPT ![d] = v] \in [Doc -> Value \cup {None}]
      /\ [disk.root EXCEPT ![d] = v] \in [Doc -> Value \cup {None}]
  BY <1>2
<1>4. CASE disk.root[d] = None /\ disk' = [disk EXCEPT !.root[d] = v]
  <2>1. /\ disk' \in Disk /\ disk'.db = disk.db /\ disk'.legacy = disk.legacy
        /\ disk'.journal = disk.journal
        /\ disk'.root = [disk.root EXCEPT ![d] = v]
    BY <1>1, <1>3, <1>4 DEF Disk
  <2> QED
    BY <1>2, <1>4, <2>1 DEF Row
<1>5. CASE disk.legacy[d] = None /\ disk.root[d] = None /\ disk' = [disk EXCEPT !.legacy[d] = v]
  <2>1. /\ disk' \in Disk /\ disk'.db = disk.db /\ disk'.root = disk.root
        /\ disk'.journal = disk.journal
        /\ disk'.legacy = [disk.legacy EXCEPT ![d] = v]
    BY <1>1, <1>3, <1>5 DEF Disk
  <2> QED
    BY <1>2, <1>5, <2>1 DEF Row
<1> QED
  BY <1>4, <1>5 DEF DropFile

\* One copy of a document stays, the one a start would believe.
LEMMA ReconcileEffect ==
    ASSUME TypeOK, NEW d \in Doc, Reconcile(d)
    PROVE  /\ disk' \in Disk /\ disk'.db = disk.db /\ disk'.journal = disk.journal
           /\ \A e \in Doc \ {d} : disk'.root[e] = disk.root[e] /\ disk'.legacy[e] = disk.legacy[e]
           /\ \A e \in Doc : Row(disk', e) = Row(disk, e)
           /\ disk'.root[d] = None
           /\ \/ Row(disk, d) # None /\ disk'.legacy[d] = None
              \/ /\ Row(disk, d) = None /\ disk.legacy[d] # None
                 /\ disk'.legacy[d] = disk.legacy[d]
<1>1. disk \in Disk
  BY DEF TypeOK
<1>2. disk.legacy \in [Doc -> Value \cup {None}] /\ disk.root \in [Doc -> Value \cup {None}]
  BY <1>1 DEF Disk
<1> DEFINE l == [disk.legacy EXCEPT ![d] = None]
           r == [disk.root EXCEPT ![d] = None]
<1>3. /\ l \in [Doc -> Value \cup {None}] /\ l[d] = None /\ \A e \in Doc \ {d} : l[e] = disk.legacy[e]
      /\ r \in [Doc -> Value \cup {None}] /\ r[d] = None /\ \A e \in Doc \ {d} : r[e] = disk.root[e]
  BY <1>2
<1>4. CASE Row(disk, d) # None /\ disk' = [disk EXCEPT !.root[d] = None, !.legacy[d] = None]
  <2>1. disk' = [[disk EXCEPT !.root = r] EXCEPT !.legacy = l]
    BY <1>1, <1>4 DEF Disk
  <2> HIDE DEF l, r
  <2>2. /\ disk' \in Disk /\ disk'.db = disk.db /\ disk'.journal = disk.journal
        /\ disk'.root = r /\ disk'.legacy = l
    BY <1>1, <1>3, <2>1 DEF Disk
  <2> QED
    BY <1>3, <1>4, <2>2 DEF Row
<1>5. CASE Row(disk, d) = None /\ disk.legacy[d] # None /\ disk' = [disk EXCEPT !.root[d] = None]
  <2>1. disk' = [disk EXCEPT !.root = r]
    BY <1>5
  <2> HIDE DEF l, r
  <2>2. /\ disk' \in Disk /\ disk'.db = disk.db /\ disk'.journal = disk.journal
        /\ disk'.root = r /\ disk'.legacy = disk.legacy
    BY <1>1, <1>3, <2>1 DEF Disk
  <2> QED
    BY <1>3, <1>5, <2>2 DEF Row
<1> QED
  BY <1>4, <1>5 DEF Reconcile

LEMMA BlankParts ==
    /\ Blank \in Disk /\ Blank.db = None /\ Blank.journal = None /\ Blank.root = Rows /\ Blank.legacy = Rows
    /\ Rows \in [Doc -> Value \cup {None}] /\ Rows \in [Doc -> Payload \cup {None}]
    /\ Fresh \in Database /\ Fresh # None /\ \A d \in Doc : Fresh.row[d] = None
<1>1. /\ Rows \in [Doc -> Value \cup {None}] /\ Rows \in [Doc -> Payload \cup {None}]
      /\ \A d \in Doc : Rows[d] = None
  BY DEF Rows
<1>2. Fresh \in Database /\ Fresh.row = Rows
  BY <1>1 DEF Fresh, Database
<1>3. Fresh # None
  BY <1>2, NoneIsNoRecord
<1> QED
  BY <1>1, <1>2, <1>3 DEF Blank, Disk

LEMMA BackupStartEffect ==
    ASSUME TypeInv, HotInv, NEW portable \in BOOLEAN, BackupStart(portable)
    PROVE  /\ tool = "idle" /\ disk' \in Disk
           /\ disk'.journal = None \/ (disk.db = None /\ disk' = disk)
           /\ disk'.root = disk.root /\ disk'.legacy = disk.legacy /\ disk'.archive = disk.archive
           /\ disk'.db = None <=> disk.db = None
           /\ disk.journal = None \/ disk.journal = disk.db \/ disk.db = None => Alike(disk, disk')
           /\ protect /\ disk.db # None =>
                 /\ disk'.db.sealed
                 /\ \A d \in Doc : Row(disk', d) # None => Row(disk', d).sealed
           /\ copy' \in Container /\ copy'.moved = {}
           /\ copy'.since = [d \in Doc |-> {ValueOf(disk', d)}]
           /\ copy'.disk.db = IF disk.db = None THEN None
                             ELSE IF portable THEN Fresh ELSE disk'.db
           /\ pending' = {"row"} \X (IF disk.db = None \/ ~portable THEN {}
                                     ELSE {d \in Doc : Row(disk', d) # None})
<1>1. /\ disk \in Disk /\ disk.journal \in Database \cup {None} /\ disk.db \in Database \cup {None}
      /\ protect \in BOOLEAN /\ tool = "idle"
  BY DEF TypeInv, TypeOK, Disk, BackupStart
<1>3. PICK x \in IF disk.db = None THEN {None} ELSE {y \in Recovered(disk.db) : ~Refused(y)} :
        LET opened == IF x = None THEN None ELSE Opened(x)
            listed == IF x = None \/ ~portable THEN {} ELSE {d \in Doc : x.row[d] # None}
            kept   == IF x = None \/ ~portable THEN opened ELSE Fresh
        IN /\ disk' = IF x = None THEN disk
                      ELSE [disk EXCEPT !.db = opened, !.journal = None]
           /\ copy' = [portable |-> portable,
                       disk |-> [Blank EXCEPT !.db = kept], moved |-> {},
                       since |-> [d \in Doc |-> {ValueOf(disk', d)}]]
           /\ pending' = {"row"} \X listed
  BY DEF BackupStart
<1> DEFINE opened == IF x = None THEN None ELSE Opened(x)
           kept   == IF x = None \/ ~portable THEN opened ELSE Fresh
<1>4. disk.db # None => x \in Database /\ x \in Recovered(disk.db) /\ x # None
  BY <1>1, <1>3, RecoveredParts, NoneIsNoRecord
<1>5. disk.db = None => x = None
  BY <1>3
<1>6. opened \in Database \cup {None} /\ (opened = None <=> disk.db = None)
  BY <1>1, <1>4, <1>5, OpenedParts, NoneIsNoRecord
<1>7. /\ disk' \in Disk /\ disk'.db = opened
      /\ disk'.root = disk.root /\ disk'.legacy = disk.legacy /\ disk'.archive = disk.archive
      /\ disk'.journal = None \/ (disk.db = None /\ disk' = disk)
  <2>1. CASE disk.db = None
    BY <1>1, <1>3, <1>5, <2>1
  <2>2. CASE disk.db # None
    <3>1. disk' = [disk EXCEPT !.db = opened, !.journal = None]
      BY <1>3, <1>4, <2>2
    <3> HIDE DEF opened
    <3> QED
      BY <1>1, <1>6, <3>1 DEF Disk
  <2> QED
    BY <2>1, <2>2
<1>8. kept \in Database \cup {None}
  BY <1>6, BlankParts
<1>9. /\ copy'.disk \in Disk /\ copy'.disk.db = kept /\ copy'.portable = portable
      /\ copy'.moved = {} /\ copy'.since = [d \in Doc |-> {ValueOf(disk', d)}]
      /\ copy' = [portable |-> copy'.portable, disk |-> copy'.disk, moved |-> copy'.moved, since |-> copy'.since]
  <2> DEFINE k == [Blank EXCEPT !.db = kept]
  <2>1. k \in Disk /\ k.db = kept
    <3> HIDE DEF kept
    <3> QED
      BY <1>8, BlankParts, SetDb
  <2>2. copy' = [portable |-> portable, disk |-> k, moved |-> {},
                 since |-> [d \in Doc |-> {ValueOf(disk', d)}]]
    BY <1>3
  <2> HIDE DEF k
  <2> QED
    BY <2>1, <2>2
<1>10. copy' \in Container
  <2>1. \A d \in Doc : ValueOf(disk', d) \in Value \cup {None}
    BY <1>7, DiskParts
  <2>2. copy'.since \in [Doc -> SUBSET (Value \cup {None})]
    BY <1>9, <2>1
  <2> QED
    BY <1>9, <2>2 DEF Container
<1>11. disk.db # None => \A d \in Doc : Row(disk', d) = None <=> x.row[d] = None
  BY <1>1, <1>4, <1>6, <1>7, OpenedParts DEF Row
<1>12. pending' = {"row"} \X (IF disk.db = None \/ ~portable THEN {}
                              ELSE {d \in Doc : Row(disk', d) # None})
  <2>1. pending' = {"row"} \X (IF x = None \/ ~portable THEN {} ELSE {d \in Doc : x.row[d] # None})
    BY <1>3
  <2>2. CASE disk.db = None \/ ~portable
    BY <1>4, <1>5, <2>1, <2>2
  <2>3. CASE disk.db # None /\ portable
    <3>1. {d \in Doc : x.row[d] # None} = {d \in Doc : Row(disk', d) # None}
      BY <1>11, <2>3
    <3> QED
      BY <1>4, <2>1, <2>3, <3>1
  <2> QED
    BY <2>2, <2>3
<1>13. disk.journal = None \/ disk.journal = disk.db \/ disk.db = None => Alike(disk, disk')
  <2>1. CASE disk.db = None
    BY <1>6, <1>7, <2>1 DEF Alike, Row
  <2>2. CASE disk.db # None /\ (disk.journal = None \/ disk.journal = disk.db)
    <3>1. disk' = [disk EXCEPT !.db = Opened(x), !.journal = None] /\ x \in Recovered(disk.db)
      BY <1>3, <1>4, <2>2
    <3> QED
      BY <1>7, <2>2, <3>1, OpenedAlike DEF TypeInv
  <2> QED
    BY <2>1, <2>2
<1>14. protect /\ disk.db # None =>
          /\ disk'.db.sealed
          /\ \A d \in Doc : Row(disk', d) # None => Row(disk', d).sealed
  BY <1>1, <1>4, <1>6, <1>7, OpenedParts DEF Row
<1>16. disk.db # None /\ ~portable => copy'.disk.db = disk'.db
  BY <1>4, <1>7, <1>9
<1>17. disk.db = None => copy'.disk.db = None
  BY <1>5, <1>9
<1>18. disk.db # None /\ portable => copy'.disk.db = Fresh
  BY <1>4, <1>9
<1> HIDE DEF opened, kept
<1> QED
  BY <1>1, <1>6, <1>7, <1>9, <1>10, <1>12, <1>13, <1>14, <1>16, <1>17, <1>18

LEMMA BackupRefusedEffect ==
    ASSUME TypeOK, BackupRefused
    PROVE  /\ disk' \in Disk /\ disk.db # None /\ disk'.db # None /\ disk'.journal = None
           /\ disk'.root = disk.root /\ disk'.legacy = disk.legacy /\ disk'.archive = disk.archive
           /\ disk.journal = None => disk' = disk
           /\ disk.journal = None \/ disk.journal = disk.db => Alike(disk, disk')
<1>1. /\ disk \in Disk /\ disk.journal \in Database \cup {None} /\ disk.db \in Database /\ disk.db # None
  BY DEF TypeOK, Disk, BackupRefused
<1>2. PICK x \in Recovered(disk.db) : disk' = [disk EXCEPT !.db = x, !.journal = None]
  BY DEF BackupRefused
<1>3. x \in Database /\ x # None /\ (disk.journal = None \/ disk.journal = disk.db => x = disk.db)
  BY <1>1, RecoveredParts, NoneIsNoRecord
<1>4. /\ disk' \in Disk /\ disk'.db = x /\ disk'.journal = None
      /\ disk'.root = disk.root /\ disk'.legacy = disk.legacy /\ disk'.archive = disk.archive
  BY <1>1, <1>2, <1>3 DEF Disk
<1>5. x = disk.db /\ disk.journal = None => disk' = disk
  BY <1>1, <1>4 DEF Disk
<1> QED
  BY <1>1, <1>3, <1>4, <1>5 DEF BackupRefused, Alike, Row

LEMMA BackupRowEffect ==
    ASSUME TypeInv, NEW d \in Doc, BackupRow(d)
    PROVE  /\ copy \in Container /\ copy' \in Container
           /\ copy'.moved = copy.moved /\ copy'.since = copy.since /\ copy'.portable = copy.portable
           /\ copy'.disk.db # None /\ copy.disk.db # None
           /\ Row(copy'.disk, d) # None /\ Row(copy'.disk, d).value = Row(disk, d).value
           /\ \A e \in Doc \ {d} : Row(copy'.disk, e) = Row(copy.disk, e)
<1>1. /\ disk \in Disk /\ copy \in Container /\ tool = "rows"
      /\ copy.disk.db # None /\ Row(disk, d) # None
  BY DEF TypeInv, TypeOK, PlaceInv, BackupRow
<1>2. /\ copy.disk \in Disk /\ copy.disk.db \in Database
      /\ copy = [portable |-> copy.portable, disk |-> copy.disk, moved |-> copy.moved, since |-> copy.since]
  BY <1>1 DEF Container, Disk
<1>3. Row(disk, d) = disk.db.row[d]
  BY <1>1 DEF Row
<1> DEFINE p == [value |-> disk.db.row[d].value, sealed |-> FALSE]
           b == WithRow(copy.disk.db, d, p)
           k == [copy.disk EXCEPT !.db = b]
<1>4. p \in Payload /\ p.value = Row(disk, d).value /\ p # None
  <2>1. p \in Payload
    BY <1>1, <1>3, DiskParts DEF Payload
  <2> QED
    BY <1>3, <2>1, NoneIsNoRecord
<1>5. copy' = [copy EXCEPT !.disk = k]
  BY <1>1, <1>2 DEF BackupRow, WithRow
<1> HIDE DEF p
<1>6. /\ b \in Database /\ b # None /\ \A e \in Doc : b.row[e] = IF e = d THEN p ELSE copy.disk.db.row[e]
  BY <1>2, <1>4, SetRow
<1> HIDE DEF b
<1>7. k \in Disk /\ k.db = b
  BY <1>2, <1>6, SetDb
<1> HIDE DEF k
<1>8. /\ copy' \in Container /\ copy'.disk = k
      /\ copy'.moved = copy.moved /\ copy'.since = copy.since /\ copy'.portable = copy.portable
  BY <1>1, <1>5, <1>7 DEF Container
<1> QED
  BY <1>1, <1>4, <1>6, <1>7, <1>8 DEF Row

LEMMA CopiedParts ==
    ASSUME TypeOK, tool = "rows", NEW files \in Copied
    PROVE  /\ files \in Disk /\ files.root = disk.root /\ files.legacy = disk.legacy
           /\ files.db = CopiedDb
<1>1. /\ disk \in Disk /\ copy.disk \in Disk
  BY DEF TypeOK, Container
<1> DEFINE a == IF copy.portable THEN Rows ELSE disk.archive
<1>2. /\ disk.db \in Database \cup {None} /\ disk.journal \in Database \cup {None}
      /\ CopiedDb \in Database \cup {None}
  BY <1>1 DEF Disk, CopiedDb
<1>3. /\ a \in [Doc -> Payload \cup {None}]
      /\ disk.root \in [Doc -> Value \cup {None}] /\ disk.legacy \in [Doc -> Value \cup {None}]
  BY <1>1, BlankParts DEF Disk
<1>4. PICK j \in Journals : files = [root |-> disk.root, legacy |-> disk.legacy, archive |-> a,
                                    db |-> CopiedDb, journal |-> j]
  BY DEF Copied
<1>5. j \in Database \cup {None}
  BY <1>2, <1>4 DEF Journals
<1> HIDE DEF a
<1> QED
  BY <1>2, <1>3, <1>4, <1>5 DEF Disk

-----------------------------------------------------------------------------
(* Type correctness.                                                       *)

LEMMA SpendType ==
    ASSUME left \in Budget,
           NEW what \in {"saves", "crashes", "faults", "drops", "moves", "backups", "restores"},
           Spend(what)
    PROVE  left' \in Budget
  BY DEF Budget, Spend

\* The steps of a start that only change where it is.
Turns ==
    \/ Start
    \/ \E d \in Doc : OpenStoreRefused(d)
    \/ ImportRefused \/ ArchiveRefused
    \/ StoreReady \/ Crash \/ StartFails \/ Stop

\* The steps of a start that change files.
Moves ==
    \/ \E d \in Doc : OpenStore(d) \/ SealArchive(d)
    \/ OpenDatabase \/ Import \/ Archive \/ Unlink

LEMMA SadSteps ==
    SadNext <=> Turns \/ Moves \/ \E d \in Doc, v \in Value : Save(d, v)
  BY DEF SadNext, Turns, Moves

\* Such a step changes no file but the journal.
LEMMA TurnsEffect ==
    ASSUME TypeInv, Turns
    PROVE  /\ disk' \in Disk /\ disk'.db = disk.db /\ disk'.archive = disk.archive
           /\ disk'.root = disk.root /\ disk'.legacy = disk.legacy
           /\ disk'.journal = disk.journal \/ disk'.journal = disk.db
<1>1. CASE Crash
  BY <1>1, CrashEffect DEF TypeInv
<1>2. CASE ~Crash
  BY <1>2
  DEF Turns, Start, OpenStoreRefused, ImportRefused, ArchiveRefused, StoreReady, StartFails, Stop,
      TypeInv, TypeOK
<1> QED
  BY <1>1, <1>2

LEMMA TypeTurns ==
    ASSUME TypeInv, Turns
    PROVE  TypeInv'
<1> USE DEF TypeInv, TypeOK, PlaceInv, Restoring, Working, Row, command, history
<1>1. CASE Start
  BY <1>1 DEF Start
<1>2. ASSUME NEW d \in Doc, OpenStoreRefused(d)
      PROVE  TypeInv'
  BY <1>2 DEF OpenStoreRefused, Down
<1>3. CASE ImportRefused
  BY <1>3 DEF ImportRefused, Down
<1>4. CASE ArchiveRefused
  BY <1>4 DEF ArchiveRefused, Down
<1>5. CASE StoreReady
  BY <1>5 DEF StoreReady
<1>6. CASE Crash
  <2>1. left' \in Budget
    BY <1>6, SpendType DEF Crash
  <2>2. disk' \in Disk /\ disk'.db = disk.db
    BY <1>6, CrashEffect
  <2>3. pc' = "down" /\ cur' = None /\ todo' = {} /\ disturbed' \subseteq Doc
        /\ UNCHANGED <<protect, command, last, torn, mixed, fresh>>
    BY <1>6 DEF Crash, Down, Halfway
  <2> QED
    BY <2>1, <2>2, <2>3
<1>7. CASE StartFails
  <2>1. left' \in Budget
    BY <1>7, SpendType DEF StartFails
  <2> QED
    BY <1>7, <2>1 DEF StartFails, Down, Halfway
<1>8. CASE Stop
  BY <1>8 DEF Stop, Down
<1> QED
  BY <1>1, <1>2, <1>3, <1>4, <1>5, <1>6, <1>7, <1>8 DEF Turns

LEMMA TypeMoves ==
    ASSUME TypeInv, HotInv, CopyInv, Moves
    PROVE  TypeInv'
<1>1. ASSUME NEW d \in Doc, OpenStore(d)
      PROVE  TypeInv'
  <2>1. /\ disk' \in Disk /\ disk'.db = disk.db /\ disk'.journal = disk.journal
        /\ \A e \in Doc : Row(disk', e) = Row(disk, e)
    BY <1>1, OpenStoreEffect DEF TypeInv
  <2> QED
    BY <1>1, <2>1 DEF OpenStore, TypeInv, TypeOK, PlaceInv, Restoring, Working, command, history
<1>2. ASSUME NEW d \in Doc, SealArchive(d)
      PROVE  TypeInv'
  <2>1. /\ disk' \in Disk /\ disk'.db = disk.db /\ disk'.journal = disk.journal
        /\ disk'.legacy = disk.legacy
    BY <1>2, SealArchiveEffect DEF TypeInv
  <2> QED
    BY <1>2, <2>1 DEF SealArchive, TypeInv, TypeOK, PlaceInv, Restoring, Working, sad, command, history, Row
<1>3. CASE OpenDatabase
  <2>1. /\ disk' \in Disk /\ disk'.db # None /\ disk'.journal = None
        /\ disk'.legacy = disk.legacy
        /\ disk.journal = None \/ disk.journal = disk.db \/ disk.db = None => Alike(disk, disk')
        /\ \/ Down
           \/ /\ pc' = IF disk.legacy[cur] = None THEN "seal" ELSE "import"
              /\ UNCHANGED <<cur, todo>>
    BY <1>3, OpenDatabaseEffect DEF TypeInv
  <2>2. /\ pc = "database" /\ cur \in todo /\ cur \in Doc
        /\ UNCHANGED <<protect, command, history, left>>
    BY <1>3 DEF OpenDatabase, TypeInv, TypeOK
  <2>3. TypeOK'
    BY <2>1, <2>2 DEF TypeInv, TypeOK, Down, Restoring, command, history
  <2>4. tool = "rows" => \A d \in Doc : Row(disk, d) # None => Row(disk', d) # None
    BY <2>1 DEF CopyInv, Alike
  <2>5. pc' \in {"down", "seal", "import"} /\ (pc' = "import" => disk'.legacy[cur'] # None)
    BY <2>1, <2>2 DEF Down
  <2>6. PlaceInv'
    BY <2>1, <2>2, <2>4, <2>5 DEF TypeInv, PlaceInv, Restoring, Working, command
  <2> QED
    BY <2>3, <2>6 DEF TypeInv
<1>4. CASE Import
  <2>1. /\ cur \in Doc /\ disk.legacy[cur] \in Value
        /\ disk' \in Disk /\ disk'.db # None /\ disk'.legacy = disk.legacy
        /\ Row(disk', cur) # None /\ Row(disk', cur).value = disk.legacy[cur]
        /\ \A d \in Doc \ {cur} : Row(disk', d) = Row(disk, d)
    BY <1>4, ImportEffect
  <2>2. /\ pc = "import" /\ pc' = "archive" /\ disk'.journal = disk.journal
        /\ UNCHANGED <<protect, cur, todo, tool, pending, before, backup, history, left>>
    BY <1>4, ImportEffect DEF Import
  <2>3. copy' \in Container \cup {None} /\ (copy' = None <=> copy = None)
        /\ (tool = "rows" => copy'.disk = copy.disk)
    <3>1. CASE tool = "rows"
      <4>1. copy \in Container /\ copy' = [copy EXCEPT !.moved = @ \cup {cur}]
        BY <1>4, <3>1 DEF Import, TypeInv, TypeOK
      <4>2. copy' \in Container /\ copy'.disk = copy.disk
        BY <2>1, <4>1 DEF Container
      <4> QED
        BY <4>1, <4>2, NoneIsNoRecord
    <3>2. CASE tool # "rows"
      BY <1>4, <3>2 DEF Import, TypeInv, TypeOK
    <3> QED
      BY <3>1, <3>2
  <2>4. TypeOK'
    BY <2>1, <2>2, <2>3 DEF TypeInv, TypeOK, Restoring, history
  <2>5. PlaceInv'
    BY <2>1, <2>2, <2>3, NoneIsNoRecord DEF TypeInv, PlaceInv, Restoring, Working
  <2> QED
    BY <2>4, <2>5 DEF TypeInv
<1>5. CASE Archive
  <2>1. /\ cur \in Doc /\ disk' \in Disk /\ disk'.db = disk.db /\ disk'.journal = disk.journal
        /\ \A d \in Doc : Row(disk', d) = Row(disk, d)
        /\ \/ pc' = "unlink" /\ disk'.legacy = disk.legacy
           \/ pc' = "seal"
    BY <1>5, ArchiveEffect
  <2>2. fresh' \subseteq Direct
    BY <1>5 DEF Archive, TypeInv, TypeOK
  <2> QED
    BY <1>5, <2>1, <2>2 DEF Archive, TypeInv, TypeOK, PlaceInv, Restoring, Working, command
<1>6. CASE Unlink
  <2>1. /\ disk' \in Disk /\ disk'.db = disk.db /\ disk'.journal = disk.journal
        /\ \A d \in Doc : Row(disk', d) = Row(disk, d)
    BY <1>6, UnlinkEffect DEF TypeInv
  <2> QED
    BY <1>6, <2>1 DEF Unlink, TypeInv, TypeOK, PlaceInv, Restoring, Working, command, history
<1> QED
  BY <1>1, <1>2, <1>3, <1>4, <1>5, <1>6 DEF Moves

LEMMA TypeSave ==
    ASSUME TypeInv, NEW c \in Doc, NEW v \in Value, Save(c, v)
    PROVE  TypeInv'
<1>1. /\ disk' \in Disk /\ disk'.db # None
      /\ Row(disk', c) # None
      /\ \A d \in Doc \ {c} : Row(disk', d) = Row(disk, d)
  BY SaveEffect
<1>2. /\ pc = "up" /\ disk'.journal = disk.journal /\ last' = [last EXCEPT ![c] = v]
      /\ UNCHANGED <<protect, sad, tool, pending, before, backup, disturbed, torn, mixed, fresh>>
  BY SaveEffect DEF Save
<1>3. left' \in Budget
  BY SpendType DEF TypeInv, TypeOK, Save
<1>4. copy' \in Container \cup {None} /\ (copy' = None <=> copy = None)
      /\ (tool = "rows" => copy'.disk = copy.disk)
  <2>1. CASE tool = "rows"
    <3>1. copy \in Container /\ copy' = [copy EXCEPT !.since[c] = @ \cup {v}]
      BY <2>1 DEF Save, TypeInv, TypeOK
    <3>2. copy.since \in [Doc -> SUBSET (Value \cup {None})]
      BY <3>1 DEF Container
    <3>3. [copy.since EXCEPT ![c] = @ \cup {v}] \in [Doc -> SUBSET (Value \cup {None})]
      BY <3>2
    <3>4. copy' \in Container /\ copy'.disk = copy.disk
      BY <3>1, <3>3 DEF Container
    <3> QED
      BY <3>1, <3>4, NoneIsNoRecord
  <2>2. CASE tool # "rows"
    BY <2>2 DEF Save, TypeInv, TypeOK
  <2> QED
    BY <2>1, <2>2
<1>5. TypeOK'
  BY <1>1, <1>2, <1>3, <1>4 DEF TypeInv, TypeOK, Restoring, sad
<1>6. PlaceInv'
  BY <1>1, <1>2, <1>4 DEF TypeInv, PlaceInv, Restoring, Working, sad
<1> QED
  BY <1>5, <1>6 DEF TypeInv

LEMMA TypePeople ==
    ASSUME TypeInv, PeopleNext
    PROVE  TypeInv'
<1>1. ASSUME NEW d \in Doc, NEW v \in Value, DropFile(d, v)
      PROVE  TypeInv'
  <2>1. disk' \in Disk /\ disk'.db = disk.db /\ disk'.journal = disk.journal
    BY <1>1, DropFileEffect DEF TypeInv
  <2>2. left' \in Budget
    BY <1>1, SpendType DEF TypeInv, TypeOK, DropFile
  <2>3. last' \in [Doc -> Value \cup {None}] /\ disturbed' \subseteq Doc
    BY <1>1 DEF TypeInv, TypeOK, DropFile
  <2> QED
    BY <1>1, <2>1, <2>2, <2>3
    DEF DropFile, Idle, TypeInv, TypeOK, PlaceInv, Restoring, Working, sad, command
<1>2. ASSUME NEW d \in Doc, Reconcile(d)
      PROVE  TypeInv'
  <2>1. disk' \in Disk /\ disk'.db = disk.db /\ disk'.journal = disk.journal
    BY <1>2, ReconcileEffect DEF TypeInv
  <2>2. ValueOf(disk, d) \in Value \cup {None}
    BY DiskParts DEF TypeInv, TypeOK
  <2>3. last' \in [Doc -> Value \cup {None}] /\ disturbed' \subseteq Doc
    BY <1>2, <2>2 DEF TypeInv, TypeOK, Reconcile
  <2> QED
    BY <1>2, <2>1, <2>3
    DEF Reconcile, Idle, TypeInv, TypeOK, PlaceInv, Restoring, Working, sad, command
<1>3. CASE Move
  <2>1. left' \in Budget
    BY <1>3, SpendType DEF TypeInv, TypeOK, Move
  <2> QED
    BY <1>3, <2>1
    DEF Move, Idle, TypeInv, TypeOK, PlaceInv, Restoring, Working, sad, command, history
<1> QED
  BY <1>1, <1>2, <1>3 DEF PeopleNext

LEMMA TypeBackup ==
    ASSUME TypeInv, HotInv, BackupNext
    PROVE  TypeInv'
<1>1. ASSUME NEW portable \in BOOLEAN, BackupStart(portable)
      PROVE  TypeInv'
  <2>1. /\ tool = "idle" /\ disk' \in Disk
        /\ disk'.journal = None \/ (disk.db = None /\ disk' = disk)
        /\ disk'.legacy = disk.legacy
        /\ disk'.db = None <=> disk.db = None
        /\ disk.journal = None => Alike(disk, disk')
        /\ copy' \in Container
        /\ copy'.disk.db = IF disk.db = None THEN None
                          ELSE IF portable THEN Fresh ELSE disk'.db
        /\ pending' = {"row"} \X (IF disk.db = None \/ ~portable THEN {}
                                  ELSE {d \in Doc : Row(disk', d) # None})
    BY <1>1, BackupStartEffect
  <2>2. left' \in Budget /\ tool' = "rows" /\ UNCHANGED <<protect, sad, before, backup, history>>
    BY <1>1, SpendType DEF TypeInv, TypeOK, BackupStart
  <2>3. copy' # None
    BY <2>1, NoneIsNoRecord
  <2>4. pending' \subseteq {"row"} \X Doc
    BY <2>1
  <2>5. TypeOK'
    BY <2>1, <2>2, <2>3, <2>4 DEF TypeInv, TypeOK, Restoring, sad, history
  <2>6. \A d \in Doc : <<"row", d>> \in pending' => copy'.disk.db # None /\ Row(disk', d) # None
    BY <2>1, BlankParts
  <2>7. Working => Alike(disk, disk')
    BY <2>1 DEF TypeInv, PlaceInv
  <2>8. pc \in {"archive", "unlink"} => cur \in Doc
    BY DEF TypeInv, TypeOK
  <2>9. PlaceInv'
    BY <2>1, <2>2, <2>6, <2>7, <2>8 DEF TypeInv, PlaceInv, Restoring, Working, sad, Alike
  <2> QED
    BY <2>5, <2>9 DEF TypeInv
<1>2. CASE BackupRefused
  <2>1. /\ disk' \in Disk /\ disk'.db # None /\ disk'.journal = None
        /\ disk'.legacy = disk.legacy
        /\ disk.journal = None => disk' = disk
    BY <1>2, BackupRefusedEffect DEF TypeInv
  <2>2. tool = "idle" /\ UNCHANGED <<protect, sad, command, history, left>>
    BY <1>2 DEF BackupRefused
  <2>3. TypeOK'
    BY <2>1, <2>2 DEF TypeInv, TypeOK, Restoring, sad, command, history
  <2>4. PlaceInv'
    BY <2>1, <2>2 DEF TypeInv, PlaceInv, Restoring, Working, sad, command, Row
  <2> QED
    BY <2>3, <2>4 DEF TypeInv
<1>3. ASSUME NEW d \in Doc, BackupRow(d)
      PROVE  TypeInv'
  <2>1. copy' \in Container /\ copy'.disk.db # None
    BY <1>3, BackupRowEffect
  <2>2. copy' # None
    BY <2>1, NoneIsNoRecord
  <2> QED
    BY <1>3, <2>1, <2>2
    DEF BackupRow, TypeInv, TypeOK, PlaceInv, Restoring, Working, sad, history, Row
<1>4. CASE BackupFiles
  <2>1. copy \in Container /\ \E files \in Copied : backup' = [copy EXCEPT !.disk = files]
    BY <1>4 DEF TypeInv, TypeOK, BackupFiles
  <2>2. backup' \in Container
    BY <1>4, <2>1, CopiedParts DEF TypeInv, BackupFiles, Container
  <2> QED
    BY <1>4, <2>2
    DEF BackupFiles, TypeInv, TypeOK, PlaceInv, Restoring, Working, sad, history, Row
<1>5. CASE BackupRefuted
  BY <1>5
  DEF BackupRefuted, TypeInv, TypeOK, PlaceInv, Restoring, Working, sad, history, Row
<1>6. CASE BackupFails
  <2>1. left' \in Budget
    BY <1>6, SpendType DEF TypeInv, TypeOK, BackupFails
  <2> QED
    BY <1>6, <2>1
    DEF BackupFails, TypeInv, TypeOK, PlaceInv, Restoring, Working, sad, history, Row
<1> QED
  BY <1>1, <1>2, <1>3, <1>4, <1>5, <1>6 DEF BackupNext

LEMMA StagedParts ==
    ASSUME NEW b \in Container
    PROVE  Staged(b) \in Disk
<1>1. b.disk \in Disk
  BY DEF Container
<1>2. CASE b.portable /\ b.disk.db # None
  <2>1. b.disk.db \in Database
    BY <1>1, <1>2 DEF Disk
  <2> DEFINE r == [d \in Doc |-> IF b.disk.db.row[d] = None THEN None
                                ELSE [b.disk.db.row[d] EXCEPT !.sealed = TRUE]]
  <2>2. b.disk.db.row \in [Doc -> Payload \cup {None}]
    BY <2>1 DEF Database
  <2>3. r \in [Doc -> Payload \cup {None}]
    BY <2>2 DEF Payload
  <2>4. Sealed(b.disk.db) = [row |-> r, sealed |-> TRUE]
    BY DEF Sealed
  <2> HIDE DEF r
  <2>5. Sealed(b.disk.db) \in Database
    BY <2>3, <2>4 DEF Database
  <2>6. Staged(b) = [b.disk EXCEPT !.db = Sealed(b.disk.db)]
    BY <1>2 DEF Staged
  <2> QED
    BY <1>1, <2>5, <2>6, SetDb
<1> QED
  BY <1>1, <1>2 DEF Staged

LEMMA TypeRestore ==
    ASSUME TypeInv, UndoInv, RestoreNext
    PROVE  TypeInv'
<1>1. CASE RestoreStart
  <2>1. /\ backup \in Container /\ copy' = [backup EXCEPT !.disk = Staged(backup)]
        /\ left' \in Budget
    BY <1>1, SpendType DEF TypeInv, TypeOK, RestoreStart
  <2>2. copy' \in Container
    BY <2>1, StagedParts DEF Container
  <2>3. copy' # None /\ before' # None /\ before' = disk
    BY <1>1, <2>2, NoneIsNoRecord DEF RestoreStart, TypeInv, TypeOK
  <2>4. pending' \subseteq File
    BY <1>1 DEF RestoreStart
  <2> QED
    BY <1>1, <2>1, <2>2, <2>3, <2>4
    DEF RestoreStart, Idle, TypeInv, TypeOK, PlaceInv, Restoring, Working, sad, history, Row
<1>2. ASSUME NEW f \in File, RestoreFile(f)
      PROVE  TypeInv'
  <2>1. copy.disk \in Disk /\ before \in Disk /\ disk \in Disk
    BY <1>2 DEF RestoreFile, TypeInv, TypeOK, Container, Restoring
  <2>2. disk' \in Disk
    BY <1>2, <2>1, PutParts DEF RestoreFile
  <2>3. pc = "down"
    BY <1>2 DEF RestoreFile, TypeInv, PlaceInv, Restoring
  <2> QED
    BY <1>2, <2>2, <2>3
    DEF RestoreFile, TypeInv, TypeOK, PlaceInv, Restoring, Working, sad, history, Row
<1>3. ASSUME NEW f \in File, UndoFile(f)
      PROVE  TypeInv'
  <2>1. before \in Disk /\ disk \in Disk
    BY <1>3 DEF UndoFile, TypeInv, TypeOK, Restoring
  <2>2. disk' \in Disk
    BY <1>3, <2>1, PutParts DEF UndoFile
  <2>3. pc = "down"
    BY <1>3 DEF UndoFile, TypeInv, PlaceInv, Restoring
  <2> QED
    BY <1>3, <2>2, <2>3
    DEF UndoFile, TypeInv, TypeOK, PlaceInv, Restoring, Working, sad, history, Row
<1>4. CASE RestoreDone
  <2>1. disk \in Disk /\ before \in Disk /\ copy.disk \in Disk /\ tool = "restore" /\ pending = {}
    BY <1>4 DEF RestoreDone, TypeInv, TypeOK, Container, Restoring
  <2>2. \A d \in Doc : ValueOf(copy.disk, d) \in Value \cup {None} /\ ValueOf(disk, d) \in Value \cup {None}
    BY <2>1, DiskParts
  <2>3. last' \in [Doc -> Value \cup {None}]
    BY <1>4, <2>2 DEF RestoreDone
  <2>4. mixed' \in BOOLEAN
    BY <1>4 DEF RestoreDone, TypeInv, TypeOK
  <2>5. TypeOK'
    <3>1. /\ disturbed' = Doc /\ torn' = FALSE
          /\ tool' = "idle" /\ copy' = None /\ before' = None
          /\ UNCHANGED <<disk, protect, pc, cur, todo, pending, backup, fresh, left>>
      BY <1>4 DEF RestoreDone, sad
    <3> QED
      <4>1. /\ disk' \in Disk /\ fresh' \subseteq Direct /\ protect' \in BOOLEAN
            /\ backup' \in Container \cup {None} /\ left' \in Budget /\ ~Restoring'
            /\ copy' \in Container \cup {None} /\ before' \in Disk \cup {None}
            /\ disturbed' \subseteq Doc /\ torn' \in BOOLEAN /\ pending' = {}
        BY <2>1, <3>1 DEF TypeInv, TypeOK, Restoring
      <4>2. /\ pc' \in {"down", "starting", "database", "import", "archive", "unlink", "seal", "up"}
            /\ todo' \subseteq Doc
            /\ IF pc' \in {"down", "starting", "up"} THEN cur' = None ELSE cur' \in todo' /\ cur' \in Doc
            /\ pc' \in {"import", "archive", "unlink", "up"} => disk'.db # None
        BY <3>1 DEF TypeInv, TypeOK
      <4> QED
        BY <2>3, <2>4, <3>1, <4>1, <4>2 DEF TypeOK, Restoring
  <2>6. pc = "down"
    BY <2>1 DEF TypeInv, PlaceInv, Restoring
  <2>7. PlaceInv'
    BY <1>4, <2>6 DEF RestoreDone, PlaceInv, Restoring, Working, sad
  <2> QED
    BY <2>5, <2>7 DEF TypeInv
<1>5. CASE RestoreFails
  <2>1. left' \in Budget
    BY <1>5, SpendType DEF TypeInv, TypeOK, RestoreFails
  <2>2. pending' \subseteq File
    BY <1>5 DEF RestoreFails
  <2> QED
    BY <1>5, <2>1, <2>2
    DEF RestoreFails, TypeInv, TypeOK, PlaceInv, Restoring, Working, sad, history, Row
<1>6. CASE UndoDone
  <2>1. disk = before
    <3>1. disk \in Disk /\ before \in Disk /\ \A f \in File : Held(disk, f) = Held(before, f)
      BY <1>6 DEF UndoDone, UndoInv, TypeInv, TypeOK, Restoring
    <3> QED
      BY <3>1, SameFiles
  <2> QED
    BY <1>6, <2>1
    DEF UndoDone, TypeInv, TypeOK, PlaceInv, Restoring, Working, sad, history, Row
<1>7. CASE RestoreBreaks
  <2>1. left' \in Budget
    BY <1>7, SpendType DEF TypeInv, TypeOK, RestoreBreaks
  <2> QED
    BY <1>7, <2>1
    DEF RestoreBreaks, TypeInv, TypeOK, PlaceInv, Restoring, Working, sad, Row
<1> QED
  BY <1>1, <1>2, <1>3, <1>4, <1>5, <1>6, <1>7 DEF RestoreNext

LEMMA TypeStep ==
    ASSUME TypeInv, HotInv, CopyInv, UndoInv, [Next]_vars
    PROVE  TypeInv'
<1>1. CASE UNCHANGED vars
  BY <1>1
  DEF vars, sad, command, history, TypeInv, TypeOK, PlaceInv, Restoring, Working, Row
<1>2. CASE Next
  BY <1>2, SadSteps, TypeTurns, TypeMoves, TypeSave, TypePeople, TypeBackup, TypeRestore DEF Next
<1> QED
  BY <1>1, <1>2

-----------------------------------------------------------------------------
(* Restores, and the journal.                                              *)

\* Nothing else happens while a restore runs.
LEMMA Apart ==
    ASSUME TypeInv, SadNext \/ PeopleNext \/ BackupNext
    PROVE  ~Restoring /\ ~Restoring'
<1>1. CASE Turns
  BY <1>1 DEF Turns, Start, OpenStoreRefused, ImportRefused, ArchiveRefused, StoreReady, Crash,
              StartFails, Stop, TypeInv, PlaceInv, Restoring, command
<1>2. CASE Moves
  BY <1>2 DEF Moves, OpenStore, SealArchive, OpenDatabase, Import, Archive, Unlink,
              TypeInv, PlaceInv, Restoring, command
<1>3. ASSUME NEW d \in Doc, NEW v \in Value, Save(d, v)
      PROVE  ~Restoring /\ ~Restoring'
  BY <1>3 DEF Save, TypeInv, PlaceInv, Restoring
<1>4. CASE PeopleNext
  BY <1>4 DEF PeopleNext, DropFile, Reconcile, Move, Idle, Restoring, command
<1>5. CASE BackupNext
  BY <1>5 DEF BackupNext, BackupStart, BackupRefused, BackupRow, BackupFiles, BackupRefuted,
              BackupFails, Restoring, command
<1> QED
  BY <1>1, <1>2, <1>3, <1>4, <1>5, SadSteps

LEMMA UndoStep ==
    ASSUME TypeInv, UndoInv, [Next]_vars
    PROVE  UndoInv'
<1>1. CASE UNCHANGED vars
  <2>1. UNCHANGED <<disk, tool, copy, pending, before>>
    BY <1>1 DEF vars, command
  <2> QED
    BY <2>1 DEF UndoInv
<1>2. CASE SadNext \/ PeopleNext \/ BackupNext
  BY <1>2, Apart DEF UndoInv, Restoring
<1>3. CASE RestoreStart
  BY <1>3 DEF RestoreStart, UndoInv
<1>4. ASSUME NEW f \in File, RestoreFile(f)
      PROVE  UndoInv'
  <2>1. copy.disk \in Disk /\ before \in Disk /\ disk \in Disk
    BY <1>4 DEF RestoreFile, TypeInv, TypeOK, Container, Restoring
  <2>2. /\ Held(disk', f) = Held(copy.disk, f)
        /\ \A g \in File : g # f => Held(disk', g) = Held(disk, g)
    BY <1>4, <2>1, PutParts DEF RestoreFile
  <2>3. pending' = pending \ {f} /\ tool = "restore" /\ UNCHANGED <<tool, copy, before>>
    BY <1>4 DEF RestoreFile
  <2>4. \A g \in File : Held(disk, g) = IF g \in pending \/ Held(copy.disk, g) = None
                                        THEN Held(before, g) ELSE Held(copy.disk, g)
    BY <2>3 DEF UndoInv
  <2>5. f \in pending /\ \A g \in pending : Held(copy.disk, g) # None
    BY <1>4, <2>3 DEF RestoreFile, UndoInv
  <2> HIDE DEF Held
  <2>6. \A g \in File : Held(disk', g) = IF g \in pending' \/ Held(copy'.disk, g) = None
                                         THEN Held(before', g) ELSE Held(copy'.disk, g)
    BY <2>2, <2>3, <2>4, <2>5
  <2> QED
    BY <2>3, <2>5, <2>6 DEF UndoInv
<1>5. ASSUME NEW f \in File, UndoFile(f)
      PROVE  UndoInv'
  <2>1. before \in Disk /\ disk \in Disk
    BY <1>5 DEF UndoFile, TypeInv, TypeOK, Restoring
  <2>2. /\ Held(disk', f) = Held(before, f)
        /\ \A g \in File : g # f => Held(disk', g) = Held(disk, g)
    BY <1>5, <2>1, PutParts DEF UndoFile
  <2>3. pending' = pending \ {f} /\ tool = "undo" /\ UNCHANGED <<tool, copy, before>>
    BY <1>5 DEF UndoFile
  <2> QED
    BY <2>2, <2>3 DEF UndoInv
<1>6. CASE RestoreFails
  <2>1. /\ tool = "restore" /\ tool' = "undo"
        /\ pending' = {f \in File : Held(copy.disk, f) # None} \ pending
        /\ UNCHANGED <<disk, copy, before>>
    BY <1>6 DEF RestoreFails
  <2> QED
    BY <2>1 DEF UndoInv
<1>7. CASE RestoreDone \/ UndoDone \/ RestoreBreaks
  BY <1>7 DEF RestoreDone, UndoDone, RestoreBreaks, UndoInv
<1> QED
  BY <1>1, <1>2, <1>3, <1>4, <1>5, <1>6, <1>7 DEF Next, RestoreNext

\* A start has put every file it is done with, or is at, out of the way.
LEMMA OpenedStep ==
    ASSUME TypeInv, HotInv, OpenedInv, [Next]_vars
    PROVE  OpenedInv'
<1>1. CASE UNCHANGED vars
  BY <1>1 DEF vars, sad, OpenedInv
<1>2. CASE Turns
  BY <1>2, NoneIsNoRecord
  DEF Turns, Start, OpenStoreRefused, ImportRefused, ArchiveRefused, StoreReady, Crash, StartFails,
      Stop, Down, TypeInv, TypeOK, OpenedInv
<1>3. ASSUME NEW d \in Doc, OpenStore(d)
      PROVE  OpenedInv'
  <2>1. /\ disk'.root[d] = None
        /\ \A e \in Doc \ {d} : disk'.root[e] = disk.root[e] /\ disk'.legacy[e] = disk.legacy[e]
    BY <1>3, OpenStoreEffect DEF TypeInv
  <2> QED
    BY <1>3, <2>1 DEF OpenStore, OpenedInv
<1>4. ASSUME NEW d \in Doc, SealArchive(d)
      PROVE  OpenedInv'
  <2>1. disk'.root = disk.root /\ disk'.legacy = disk.legacy
    BY <1>4, SealArchiveEffect DEF TypeInv
  <2> QED
    BY <1>4, <2>1 DEF SealArchive, sad, OpenedInv
<1>5. CASE OpenDatabase
  <2>1. disk'.root = disk.root /\ disk'.legacy = disk.legacy
    BY <1>5, OpenDatabaseEffect DEF TypeInv
  <2> QED
    BY <1>5, <2>1 DEF OpenDatabase, Down, OpenedInv
<1>6. CASE Import
  <2>1. disk'.root = disk.root /\ disk'.legacy = disk.legacy
    BY <1>6, ImportEffect
  <2> QED
    BY <1>6, <2>1 DEF Import, OpenedInv
<1>7. CASE Archive
  <2>1. /\ disk'.root = disk.root
        /\ \A d \in Doc \ {cur} : disk'.legacy[d] = disk.legacy[d]
        /\ pc' = "unlink" \/ disk'.legacy[cur] = None
    BY <1>7, ArchiveEffect
  <2> QED
    BY <1>7, <2>1 DEF Archive, TypeInv, TypeOK, OpenedInv
<1>8. CASE Unlink
  <2>1. /\ disk'.root = disk.root /\ disk'.legacy[cur] = None
        /\ \A d \in Doc \ {cur} : disk'.legacy[d] = disk.legacy[d]
    BY <1>8, UnlinkEffect DEF TypeInv
  <2> QED
    BY <1>8, <2>1 DEF Unlink, TypeInv, TypeOK, OpenedInv
<1>9. ASSUME NEW d \in Doc, NEW v \in Value, Save(d, v)
      PROVE  OpenedInv'
  <2>1. disk'.root = disk.root /\ disk'.legacy = disk.legacy
    BY <1>9, SaveEffect
  <2> QED
    BY <1>9, <2>1 DEF Save, sad, OpenedInv
<1>10. CASE PeopleNext
  BY <1>10 DEF PeopleNext, DropFile, Reconcile, Move, Idle, sad, OpenedInv
<1>11. ASSUME NEW portable \in BOOLEAN, BackupStart(portable)
       PROVE  OpenedInv'
  <2>1. disk'.root = disk.root /\ disk'.legacy = disk.legacy
    BY <1>11, BackupStartEffect
  <2> QED
    BY <1>11, <2>1 DEF BackupStart, sad, OpenedInv
<1>12. CASE BackupRefused
  <2>1. disk'.root = disk.root /\ disk'.legacy = disk.legacy
    BY <1>12, BackupRefusedEffect DEF TypeInv
  <2> QED
    BY <1>12, <2>1 DEF BackupRefused, sad, OpenedInv
<1>13. CASE BackupFiles \/ BackupRefuted \/ BackupFails \/ \E d \in Doc : BackupRow(d)
  BY <1>13 DEF BackupFiles, BackupRefuted, BackupFails, BackupRow, sad, OpenedInv
<1>14. CASE RestoreNext
  <2>1. pc = "down" /\ UNCHANGED sad
    BY <1>14 DEF RestoreNext, RestoreStart, RestoreDone, RestoreFails, UndoDone, RestoreBreaks,
                 RestoreFile, UndoFile, Idle, Restoring, TypeInv, PlaceInv
  <2> QED
    BY <2>1 DEF sad, OpenedInv
<1> QED
  BY <1>1, <1>2, <1>3, <1>4, <1>5, <1>6, <1>7, <1>8, <1>9, <1>10, <1>11, <1>12, <1>13, <1>14, SadSteps
  DEF Next, Moves, BackupNext

\* Restores: what the database is afterwards, and when nothing has changed.
LEMMA RestoredParts ==
    ASSUME TypeInv, UndoInv
    PROVE  /\ UndoDone => disk = before
           /\ RestoreDone =>
                 /\ disk.db = IF copy.disk.db = None THEN before.db ELSE copy.disk.db
                 /\ disk.journal = IF copy.disk.journal = None THEN before.journal
                                                                ELSE copy.disk.journal
<1>1. ASSUME UndoDone
      PROVE  disk = before
  <2>1. disk \in Disk /\ before \in Disk /\ \A f \in File : Held(disk, f) = Held(before, f)
    BY <1>1 DEF UndoDone, UndoInv, TypeInv, TypeOK, Restoring
  <2> QED
    BY <2>1, SameFiles
<1>2. ASSUME RestoreDone
      PROVE  /\ disk.db = IF copy.disk.db = None THEN before.db ELSE copy.disk.db
             /\ disk.journal = IF copy.disk.journal = None THEN before.journal
                                                            ELSE copy.disk.journal
  <2>1. /\ disk \in Disk /\ before \in Disk /\ copy.disk \in Disk
        /\ \A f \in File : Held(disk, f) = IF Held(copy.disk, f) = None THEN Held(before, f)
                                           ELSE Held(copy.disk, f)
    BY <1>2 DEF RestoreDone, UndoInv, TypeInv, TypeOK, Container, Restoring
  <2>2. /\ <<"db", None>> \in File /\ <<"journal", None>> \in File
        /\ Held(disk, <<"db", None>>) = disk.db /\ Held(disk, <<"journal", None>>) = disk.journal
        /\ Held(before, <<"db", None>>) = before.db
        /\ Held(before, <<"journal", None>>) = before.journal
        /\ Held(copy.disk, <<"db", None>>) = copy.disk.db
        /\ Held(copy.disk, <<"journal", None>>) = copy.disk.journal
    BY <2>1, HeldParts
  <2> QED
    BY <2>1, <2>2
<1> QED
  BY <1>1, <1>2

LEMMA HotStep ==
    ASSUME TypeInv, UndoInv, HotInv, [Next]_vars
    PROVE  HotInv'
<1>1. CASE UNCHANGED vars
  BY <1>1 DEF vars, command, history, HotInv, Files, Restoring
<1>2. SUFFICES ASSUME Next
               PROVE  HotInv'
  BY <1>1
<1>3. CASE Turns
  <2>1. ~Restoring /\ ~Restoring' /\ UNCHANGED <<torn, mixed>>
    BY <1>3, Apart, SadSteps
    DEF Turns, Start, OpenStoreRefused, ImportRefused, ArchiveRefused, StoreReady, Crash,
        StartFails, Stop, history
  <2>2. disturbed = Doc => disturbed' = Doc
    BY <1>3
    DEF Turns, Start, OpenStoreRefused, ImportRefused, ArchiveRefused, StoreReady, Crash,
        StartFails, Stop, history, Halfway, TypeInv, TypeOK
  <2>3. /\ disk'.db = disk.db
        /\ disk'.journal = disk.journal \/ disk'.journal = disk.db
    BY <1>3, TurnsEffect
  <2> QED
    BY <2>1, <2>2, <2>3 DEF HotInv, Files
<1>4. CASE Moves
  <2>1. ~Restoring /\ ~Restoring'
    BY <1>4, Apart, SadSteps
  <2>2. UNCHANGED <<disturbed, torn, mixed>>
    BY <1>4 DEF Moves, OpenStore, SealArchive, OpenDatabase, Import, Archive, Unlink, history
  <2>3. disk'.journal = None \/ (disk'.journal = disk.journal /\ disk'.db = disk.db)
    <3>1. ASSUME NEW d \in Doc, OpenStore(d) \/ SealArchive(d)
          PROVE  disk'.journal = disk.journal /\ disk'.db = disk.db
      BY <3>1, OpenStoreEffect, SealArchiveEffect DEF TypeInv
    <3>2. CASE OpenDatabase
      BY <3>2, OpenDatabaseEffect DEF TypeInv
    <3>3. CASE Import
      BY <3>3, ImportEffect DEF Import, TypeInv, PlaceInv, Working
    <3>4. CASE Archive \/ Unlink
      BY <3>4, ArchiveEffect, UnlinkEffect DEF TypeInv
    <3> QED
      BY <1>4, <3>1, <3>2, <3>3, <3>4 DEF Moves
  <2> QED
    BY <2>1, <2>2, <2>3 DEF HotInv, Files
<1>5. ASSUME NEW d \in Doc, NEW v \in Value, Save(d, v)
      PROVE  HotInv'
  <2>1. ~Restoring'
    BY <1>5, Apart, SadSteps
  <2>2. disk.journal = None
    BY <1>5 DEF Save, TypeInv, PlaceInv, Working
  <2> QED
    BY <1>5, <2>1, <2>2, SaveEffect DEF HotInv, Files
<1>6. CASE PeopleNext
  <2>1. ~Restoring /\ ~Restoring'
    BY <1>6, Apart
  <2>2. disk'.db = disk.db /\ disk'.journal = disk.journal
    BY <1>6, DropFileEffect, ReconcileEffect DEF PeopleNext, Move, TypeInv
  <2>3. /\ UNCHANGED <<torn, mixed>>
        /\ disk.journal # None /\ disturbed = Doc => disturbed' = Doc
    BY <1>6 DEF PeopleNext, DropFile, Reconcile, Move, history
  <2> QED
    BY <2>1, <2>2, <2>3 DEF HotInv, Files
<1>7. CASE BackupNext
  <2>1. ~Restoring /\ ~Restoring'
    BY <1>7, Apart
  <2>2. UNCHANGED history
    BY <1>7 DEF BackupNext, BackupStart, BackupRefused, BackupRow, BackupFiles, BackupRefuted, BackupFails
  <2>3. disk'.journal = None \/ UNCHANGED disk
    <3>1. ASSUME NEW portable \in BOOLEAN, BackupStart(portable)
          PROVE  disk'.journal = None \/ UNCHANGED disk
      BY <3>1, BackupStartEffect
    <3>2. CASE BackupRefused
      BY <3>2, BackupRefusedEffect DEF TypeInv
    <3> QED
      BY <1>7, <3>1, <3>2 DEF BackupNext, BackupRow, BackupFiles, BackupRefuted, BackupFails
  <2> QED
    BY <2>1, <2>2, <2>3 DEF HotInv, Files, history
<1>8. CASE RestoreDone
  <2>1. /\ disk' = disk /\ Restoring /\ ~Restoring' /\ disturbed' = Doc
        /\ mixed' = (disk.journal # None /\ (torn \/ mixed \/ copy.disk.db # None
                                                           \/ copy.disk.journal # None))
    BY <1>8 DEF RestoreDone, Restoring
  <2>2. /\ disk.db = IF copy.disk.db = None THEN before.db ELSE copy.disk.db
        /\ disk.journal = IF copy.disk.journal = None THEN before.journal ELSE copy.disk.journal
    BY <1>8, RestoredParts
  <2> QED
    BY <2>1, <2>2 DEF HotInv, Files
<1>9. CASE UndoDone
  <2>1. disk = before
    BY <1>9, RestoredParts
  <2> QED
    BY <1>9, <2>1 DEF UndoDone, HotInv, Files, Restoring, history
<1>10. CASE RestoreBreaks
  BY <1>10 DEF RestoreBreaks, HotInv, Files, Restoring
<1>11. CASE RestoreStart \/ RestoreFails \/ \E f \in File : RestoreFile(f) \/ UndoFile(f)
  <2>1. Files' = Files /\ UNCHANGED <<disturbed, torn, mixed>>
    BY <1>11 DEF RestoreStart, RestoreFails, RestoreFile, UndoFile, Idle, Files, Restoring, history
  <2> QED
    BY <2>1 DEF HotInv
<1> QED
  BY <1>2, <1>3, <1>4, <1>5, <1>6, <1>7, <1>8, <1>9, <1>10, <1>11, SadSteps DEF Next, RestoreNext

-----------------------------------------------------------------------------
(* What the user last saved.                                               *)

\* A connection finds the documents as they were.
LEMMA ConnectionAlike ==
    ASSUME TypeInv, HotInv, OpenDatabase \/ BackupRefused \/ \E portable \in BOOLEAN : BackupStart(portable)
    PROVE  /\ ~Restoring /\ ~Restoring' /\ disk \in Disk /\ disk' \in Disk
           /\ Alike(disk, disk') \/ (disturbed = Doc /\ (torn \/ mixed))
           /\ UNCHANGED history
           /\ disk'.archive = disk.archive
           /\ disk.db # None => disk'.db # None
<1>1. ~Restoring /\ ~Restoring' /\ disk \in Disk
  BY Apart, SadSteps DEF Moves, BackupNext, TypeInv, TypeOK
<1>2. disk.journal = None \/ disk.journal = disk.db \/ (disturbed = Doc /\ (torn \/ mixed))
  BY <1>1 DEF HotInv, Files
<1>3. CASE OpenDatabase
  BY <1>1, <1>2, <1>3, OpenDatabaseEffect DEF TypeInv, OpenDatabase
<1>4. CASE BackupRefused
  BY <1>1, <1>2, <1>4, BackupRefusedEffect DEF TypeInv, BackupRefused
<1>5. ASSUME NEW portable \in BOOLEAN, BackupStart(portable)
      PROVE  /\ disk' \in Disk /\ (Alike(disk, disk') \/ (disturbed = Doc /\ (torn \/ mixed)))
             /\ UNCHANGED history
             /\ disk'.archive = disk.archive
             /\ disk.db # None => disk'.db # None
  BY <1>2, <1>5, BackupStartEffect DEF BackupStart
<1> QED
  BY <1>1, <1>3, <1>4, <1>5

LEMMA LastStep ==
    ASSUME TypeInv, UndoInv, HotInv, LastInv, [Next]_vars
    PROVE  LastInv'
<1>1. CASE UNCHANGED vars
  <2>1. UNCHANGED <<disk, tool, before, last, torn, mixed>>
    BY <1>1 DEF vars, command, history
  <2> QED
    BY <2>1 DEF LastInv, Known, Row, Files, Restoring
<1>2. SUFFICES ASSUME Next
               PROVE  LastInv'
  BY <1>1
<1>3. CASE Turns
  <2>1. ~Restoring /\ ~Restoring' /\ UNCHANGED <<last, torn, mixed>>
    BY <1>3, Apart, SadSteps
    DEF Turns, Start, OpenStoreRefused, ImportRefused, ArchiveRefused, StoreReady, Crash,
        StartFails, Stop, history
  <2>2. disk'.root = disk.root /\ disk'.legacy = disk.legacy /\ disk'.db = disk.db
    BY <1>3, TurnsEffect
  <2> QED
    BY <2>1, <2>2 DEF LastInv, Known, Row, Files
<1>4. CASE Moves \/ BackupNext
  <2>1. ~Restoring /\ ~Restoring'
    BY <1>4, Apart, SadSteps
  <2>2. UNCHANGED <<last, torn, mixed>>
    BY <1>4
    DEF Moves, OpenStore, SealArchive, OpenDatabase, Import, Archive, Unlink, history,
        BackupNext, BackupStart, BackupRefused, BackupRow, BackupFiles, BackupRefuted, BackupFails
  <2>3. SUFFICES ASSUME ~torn, ~mixed, NEW e \in Doc, Known(disk, e)
                 PROVE  Known(disk, e)'
    BY <2>1, <2>2 DEF LastInv, Files
  <2>4. ASSUME NEW d \in Doc, OpenStore(d)
        PROVE  Known(disk, e)'
    <3>1. disk.root[d] = None \/ disk.legacy[d] = None
      BY <2>4 DEF OpenStore
    <3> QED
      BY <2>2, <2>3, <2>4, <3>1, OpenStoreEffect DEF TypeInv, Known
  <2>5. ASSUME NEW d \in Doc, SealArchive(d)
        PROVE  Known(disk, e)'
    BY <2>2, <2>3, <2>5, SealArchiveEffect DEF TypeInv, Known, Row
  <2>6. CASE OpenDatabase \/ BackupRefused \/ \E portable \in BOOLEAN : BackupStart(portable)
    <3>1. Alike(disk, disk')
      BY <2>3, <2>6, ConnectionAlike
    <3> QED
      BY <2>2, <2>3, <3>1 DEF Alike, Known
  <2>7. CASE Import
    BY <2>2, <2>3, <2>7, ImportEffect, NoneIsNoRecord DEF Known
  <2>8. CASE Archive
    <3>1. Row(disk, cur) # None /\ Row(disk, cur).value = disk.legacy[cur]
      BY <2>8 DEF Archive, TypeInv, PlaceInv
    <3> QED
      BY <2>2, <2>3, <2>8, <3>1, ArchiveEffect DEF Known
  <2>9. CASE Unlink
    <3>1. Row(disk, cur) # None /\ Row(disk, cur).value = disk.legacy[cur]
      BY <2>9 DEF Unlink, TypeInv, PlaceInv
    <3> QED
      BY <2>2, <2>3, <2>9, <3>1, UnlinkEffect DEF TypeInv, Known
  <2>10. CASE BackupFiles \/ BackupRefuted \/ BackupFails \/ \E d \in Doc : BackupRow(d)
    <3>1. disk' = disk
      BY <2>10 DEF BackupFiles, BackupRefuted, BackupFails, BackupRow
    <3> QED
      BY <2>2, <2>3, <3>1 DEF Known, Row
  <2> QED
    BY <1>4, <2>4, <2>5, <2>6, <2>7, <2>8, <2>9, <2>10 DEF Moves, BackupNext
<1>5. ASSUME NEW d \in Doc, NEW v \in Value, Save(d, v)
      PROVE  LastInv'
  <2>1. ~Restoring /\ ~Restoring'
    BY <1>5, Apart, SadSteps
  <2>2. UNCHANGED <<torn, mixed>> /\ last' = [last EXCEPT ![d] = v]
        /\ last \in [Doc -> Value \cup {None}]
    BY <1>5 DEF Save, TypeInv, TypeOK
  <2> QED
    BY <1>5, <2>1, <2>2, SaveEffect, NoneIsNoRecord DEF LastInv, Known, Files
<1>6. ASSUME NEW d \in Doc, NEW v \in Value, DropFile(d, v)
      PROVE  LastInv'
  <2>1. ~Restoring /\ ~Restoring'
    BY <1>6, Apart DEF PeopleNext
  <2>2. /\ UNCHANGED <<torn, mixed>>
        /\ last' = IF ValueOf(disk, d) = None THEN [last EXCEPT ![d] = v] ELSE last
        /\ last \in [Doc -> Value \cup {None}]
    BY <1>6 DEF DropFile, TypeInv, TypeOK
  <2>3. SUFFICES ASSUME ~torn, ~mixed, \A e \in Doc : Known(disk, e)
                 PROVE  \A e \in Doc : Known(disk, e)'
    BY <2>1, <2>2 DEF LastInv, Files
  <2>4. \A e \in Doc \ {d} : Known(disk, e)'
    BY <1>6, <2>2, <2>3, DropFileEffect DEF TypeInv, Known
  <2>5. Row(disk, d) # None => Row(disk, d).value \in Value
    BY DiskParts DEF TypeInv, TypeOK
  <2>6. CASE ValueOf(disk, d) = None
    <3>1. last'[d] = v
      BY <2>2, <2>6
    <3> QED
      BY <1>6, <2>4, <3>1, DropFileEffect, NoneIsNoRecord DEF TypeInv, Known
  <2>7. CASE ValueOf(disk, d) # None
    <3>1. last' = last
      BY <2>2, <2>7
    <3>2. last[d] # None
      BY <2>3, <2>7 DEF Known, ValueOf
    <3> QED
      BY <1>6, <2>3, <2>4, <3>1, <3>2, DropFileEffect DEF TypeInv, Known
  <2> QED
    BY <2>6, <2>7
<1>7. ASSUME NEW d \in Doc, Reconcile(d)
      PROVE  LastInv'
  <2>1. ~Restoring /\ ~Restoring'
    BY <1>7, Apart DEF PeopleNext
  <2>2. /\ UNCHANGED <<torn, mixed>>
        /\ last' = [last EXCEPT ![d] = ValueOf(disk, d)]
        /\ last \in [Doc -> Value \cup {None}]
    BY <1>7 DEF Reconcile, TypeInv, TypeOK
  <2>3. Row(disk, d) # None => Row(disk, d).value \in Value
    BY DiskParts DEF TypeInv, TypeOK
  <2>4. Known(disk, d)'
    BY <1>7, <2>2, <2>3, ReconcileEffect, NoneIsNoRecord DEF TypeInv, Known, ValueOf
  <2>5. ~torn /\ ~mixed => \A e \in Doc \ {d} : Known(disk, e)'
    BY <1>7, <2>1, <2>2, ReconcileEffect DEF TypeInv, LastInv, Files, Known
  <2> QED
    BY <2>1, <2>2, <2>4, <2>5 DEF LastInv, Files
<1>8. CASE Move
  <2>1. ~Restoring /\ ~Restoring' /\ UNCHANGED <<disk, last, torn, mixed>>
    BY <1>8, Apart DEF PeopleNext, Move, history
  <2> QED
    BY <2>1 DEF LastInv, Known, Row, Files
<1>9. CASE RestoreDone
  <2>1. /\ disk \in Disk /\ before \in Disk /\ copy.disk \in Disk
        /\ \A f \in File : Held(copy.disk, f) # None => Held(disk, f) = Held(copy.disk, f)
    BY <1>9 DEF RestoreDone, UndoInv, TypeInv, TypeOK, Container, Restoring
  <2>2. /\ copy.disk.db # None => disk.db = copy.disk.db
        /\ \A d \in Doc : /\ copy.disk.root[d] # None => disk.root[d] = copy.disk.root[d]
                          /\ copy.disk.legacy[d] # None => disk.legacy[d] = copy.disk.legacy[d]
    <3>1. /\ <<"db", None>> \in File
          /\ Held(disk, <<"db", None>>) = disk.db /\ Held(copy.disk, <<"db", None>>) = copy.disk.db
      BY <2>1, HeldParts
    <3>2. ASSUME NEW d \in Doc
          PROVE  /\ <<"root", d>> \in File /\ <<"legacy", d>> \in File
                 /\ Held(disk, <<"root", d>>) = disk.root[d]
                 /\ Held(copy.disk, <<"root", d>>) = copy.disk.root[d]
                 /\ Held(disk, <<"legacy", d>>) = disk.legacy[d]
                 /\ Held(copy.disk, <<"legacy", d>>) = copy.disk.legacy[d]
      BY <2>1, HeldParts
    <3> QED
      BY <2>1, <3>1, <3>2
  <2>3. /\ disk' = disk /\ ~Restoring'
        /\ last' = [d \in Doc |-> IF ValueOf(copy.disk, d) # None THEN ValueOf(copy.disk, d)
                                  ELSE ValueOf(disk, d)]
    BY <1>9 DEF RestoreDone, Restoring
  <2>4. ASSUME NEW d \in Doc
        PROVE  Known(disk, d)'
    <3>1. Row(disk, d) # None => Row(disk, d).value # None
      BY <2>1, DiskParts, NoneIsNoRecord
    <3>2. CASE ValueOf(copy.disk, d) # None
      <4>1. last'[d] = ValueOf(copy.disk, d)
        BY <2>3, <3>2
      <4>2. \/ disk.root[d] = last'[d] \/ disk.legacy[d] = last'[d]
            \/ Row(disk, d) # None /\ Row(disk, d).value = last'[d]
        BY <2>2, <3>2, <4>1 DEF ValueOf, Row
      <4> QED
        BY <2>3, <3>2, <4>1, <4>2 DEF Known, Row
    <3>3. CASE ValueOf(copy.disk, d) = None
      <4>1. last'[d] = ValueOf(disk, d)
        BY <2>3, <3>3
      <4> QED
        BY <2>3, <3>1, <4>1 DEF Known, ValueOf, Row
    <3> QED
      BY <3>2, <3>3
  <2> QED
    BY <2>3, <2>4 DEF LastInv, Files
<1>10. CASE UndoDone
  <2>1. disk = before
    BY <1>10, RestoredParts
  <2>2. Restoring /\ ~Restoring' /\ UNCHANGED <<disk, last, torn, mixed>>
    BY <1>10 DEF UndoDone, Restoring, history
  <2> QED
    BY <2>1, <2>2 DEF LastInv, Known, Row, Files
<1>11. CASE RestoreBreaks
  <2>1. /\ Restoring /\ ~Restoring' /\ UNCHANGED <<disk, last, mixed>>
        /\ torn' = (torn \/ disk # before)
    BY <1>11 DEF RestoreBreaks, Restoring
  <2> QED
    BY <2>1 DEF LastInv, Known, Row, Files
<1>12. CASE RestoreStart \/ RestoreFails \/ \E f \in File : RestoreFile(f) \/ UndoFile(f)
  <2>1. Files' = Files /\ UNCHANGED <<last, torn, mixed>>
    BY <1>12 DEF RestoreStart, RestoreFails, RestoreFile, UndoFile, Idle, Files, Restoring, history
  <2> QED
    BY <2>1 DEF LastInv, Known, Row
<1> QED
  BY <1>2, <1>3, <1>4, <1>5, <1>6, <1>7, <1>8, <1>9, <1>10, <1>11, <1>12, SadSteps
  DEF Next, RestoreNext, PeopleNext

-----------------------------------------------------------------------------
(* Two copies of a document.                                               *)

LEMMA CauseStep ==
    ASSUME TypeInv, OpenedInv, UndoInv, HotInv, CauseInv, [Next]_vars
    PROVE  CauseInv'
<1>1. CASE UNCHANGED vars
  <2>1. UNCHANGED <<disk, tool, before, disturbed, pc, cur>>
    BY <1>1 DEF vars, sad, command, history
  <2> QED
    BY <2>1 DEF CauseInv, Single, Row, Files, Restoring, Halfway
<1>2. SUFFICES ASSUME Next
               PROVE  CauseInv'
  BY <1>1
<1>3. CASE Turns
  <2>1. /\ ~Restoring /\ ~Restoring'
        /\ disk'.root = disk.root /\ disk'.legacy = disk.legacy /\ disk'.db = disk.db
    BY <1>3, Apart, SadSteps, TurnsEffect
  <2>2. disturbed \cup Halfway \subseteq disturbed'
    BY <1>3
    DEF Turns, Start, OpenStoreRefused, ImportRefused, ArchiveRefused, StoreReady, Crash,
        StartFails, Stop, Halfway, history
  <2> QED
    BY <2>1, <2>2 DEF CauseInv, Single, Row, Files
<1>4. CASE Moves
  <2>1. ~Restoring /\ ~Restoring' /\ disturbed' = disturbed
    BY <1>4, Apart, SadSteps
    DEF Moves, OpenStore, SealArchive, OpenDatabase, Import, Archive, Unlink, history
  <2>2. SUFFICES ASSUME NEW e \in Doc \ disturbed, Single(disk, e) \/ e \in Halfway
                 PROVE  Single(disk, e)' \/ e \in Halfway'
    BY <2>1 DEF CauseInv, Files
  <2>3. ASSUME NEW d \in Doc, OpenStore(d)
        PROVE  Single(disk, e)'
    <3>1. (disk.root[d] = None \/ disk.legacy[d] = None) /\ Halfway = {}
      BY <2>3 DEF OpenStore, Halfway
    <3> QED
      BY <2>2, <2>3, <3>1, OpenStoreEffect DEF TypeInv, Single
  <2>4. ASSUME NEW d \in Doc, SealArchive(d)
        PROVE  Single(disk, e)'
    <3>1. Halfway = {}
      BY <2>4 DEF SealArchive, Halfway
    <3> QED
      BY <2>2, <2>4, <3>1, SealArchiveEffect DEF TypeInv, Single, Row
  <2>5. CASE OpenDatabase
    <3>1. Halfway = {}
      BY <2>5 DEF OpenDatabase, Halfway
    <3>2. Alike(disk, disk')
      BY <2>2, <2>5, ConnectionAlike
    <3> QED
      BY <2>2, <3>1, <3>2 DEF Alike, Single
  <2>6. CASE Import
    <3>1. Halfway = {} /\ Halfway' = {cur}
      BY <2>6 DEF Import, Halfway
    <3> QED
      BY <2>2, <2>6, <3>1, ImportEffect DEF Single
  <2>7. CASE Archive
    <3>1. Halfway = {cur} /\ disk.root[cur] = None
      BY <2>7 DEF Archive, Halfway, OpenedInv, TypeInv, TypeOK
    <3>2. cur' = cur
      BY <2>7 DEF Archive
    <3>3. CASE pc' = "unlink"
      <4>1. Halfway' = {cur}
        BY <3>2, <3>3 DEF Halfway
      <4> QED
        BY <2>2, <2>7, <3>1, <4>1, ArchiveEffect DEF Single
    <3>4. CASE pc' # "unlink"
      BY <2>2, <2>7, <3>1, <3>4, ArchiveEffect DEF Single
    <3> QED
      BY <3>3, <3>4
  <2>8. CASE Unlink
    <3>1. Halfway = {cur} /\ disk.root[cur] = None
      BY <2>8 DEF Unlink, Halfway, OpenedInv, TypeInv, TypeOK
    <3> QED
      BY <2>2, <2>8, <3>1, UnlinkEffect DEF TypeInv, Single
  <2> QED
    BY <1>4, <2>3, <2>4, <2>5, <2>6, <2>7, <2>8 DEF Moves
<1>5. ASSUME NEW d \in Doc, NEW v \in Value, Save(d, v)
      PROVE  CauseInv'
  <2>1. ~Restoring' /\ disturbed' = disturbed
    BY <1>5, Apart, SadSteps DEF Save
  <2>2. \A e \in Doc : disk.root[e] = None /\ disk.legacy[e] = None
    BY <1>5 DEF Save, OpenedInv
  <2> QED
    BY <1>5, <2>1, <2>2, SaveEffect DEF CauseInv, Single, Files
<1>6. ASSUME NEW d \in Doc, NEW v \in Value, DropFile(d, v)
      PROVE  CauseInv'
  <2>1. ~Restoring /\ ~Restoring'
    BY <1>6, Apart DEF PeopleNext
  <2>2. Halfway = {} /\ disturbed' = disturbed \cup {d}
    BY <1>6 DEF DropFile, Idle, Halfway
  <2> QED
    BY <1>6, <2>1, <2>2, DropFileEffect DEF TypeInv, CauseInv, Single, Files
<1>7. ASSUME NEW d \in Doc, Reconcile(d)
      PROVE  CauseInv'
  <2>1. ~Restoring /\ ~Restoring'
    BY <1>7, Apart DEF PeopleNext
  <2>2. Halfway = {} /\ disturbed \ {d} \subseteq disturbed'
    BY <1>7 DEF Reconcile, Idle, Halfway
  <2> QED
    BY <1>7, <2>1, <2>2, ReconcileEffect DEF TypeInv, CauseInv, Single, Files
<1>8. CASE Move
  <2>1. ~Restoring /\ ~Restoring' /\ UNCHANGED <<disk, disturbed, pc, cur>>
    BY <1>8, Apart DEF PeopleNext, Move, history, sad
  <2> QED
    BY <2>1 DEF CauseInv, Single, Row, Files, Halfway
<1>9. CASE BackupNext
  <2>1. ~Restoring /\ ~Restoring' /\ UNCHANGED <<pc, cur, disturbed>>
    BY <1>9, Apart
    DEF BackupNext, BackupStart, BackupRefused, BackupRow, BackupFiles, BackupRefuted, BackupFails,
        history, sad
  <2>2. disk' = disk \/ Alike(disk, disk') \/ disturbed = Doc
    <3>1. CASE BackupRefused \/ \E portable \in BOOLEAN : BackupStart(portable)
      BY <3>1, ConnectionAlike
    <3> QED
      BY <1>9, <3>1 DEF BackupNext, BackupRow, BackupFiles, BackupRefuted, BackupFails
  <2> QED
    BY <2>1, <2>2 DEF CauseInv, Single, Alike, Row, Files, Halfway
<1>10. CASE RestoreDone \/ RestoreBreaks
  BY <1>10 DEF RestoreDone, RestoreBreaks, CauseInv
<1>11. CASE UndoDone
  <2>1. disk = before
    BY <1>11, RestoredParts
  <2>2. Restoring /\ ~Restoring' /\ UNCHANGED <<disk, disturbed, pc, cur>>
    BY <1>11 DEF UndoDone, Restoring, history, sad
  <2> QED
    BY <2>1, <2>2 DEF CauseInv, Single, Row, Files, Halfway
<1>12. CASE RestoreStart \/ RestoreFails \/ \E f \in File : RestoreFile(f) \/ UndoFile(f)
  <2>1. Files' = Files /\ UNCHANGED <<disturbed, pc, cur>>
    BY <1>12
    DEF RestoreStart, RestoreFails, RestoreFile, UndoFile, Idle, Files, Restoring, history, sad
  <2> QED
    BY <2>1 DEF CauseInv, Single, Row, Halfway
<1> QED
  BY <1>2, <1>3, <1>4, <1>5, <1>6, <1>7, <1>8, <1>9, <1>10, <1>11, <1>12, SadSteps
  DEF Next, RestoreNext, PeopleNext

-----------------------------------------------------------------------------
(* Protection at rest.                                                     *)

LEMMA SealStep ==
    ASSUME TypeInv, HotInv, SealInv, [Next]_vars
    PROVE  SealInv'
<1>1. CASE UNCHANGED vars
  <2>1. UNCHANGED <<disk, pc, todo, protect, fresh>>
    BY <1>1 DEF vars, sad, history
  <2> QED
    BY <2>1 DEF SealInv, Working, Row, Plain
<1>2. SUFFICES ASSUME Next, protect'
               PROVE  SealInv'
  BY <1>1 DEF SealInv
<1>3. CASE Turns
  <2>1. UNCHANGED protect /\ disk'.db = disk.db /\ Plain' = Plain
    BY <1>3, TurnsEffect
    DEF Turns, Start, OpenStoreRefused, ImportRefused, ArchiveRefused, StoreReady, Crash, StartFails,
        Stop, Plain
  <2>2. CASE pc' = "down"
    BY <2>2 DEF SealInv, Working
  <2>3. CASE pc' # "down"
    <3>1. Start \/ StoreReady
      BY <1>3, <2>3
      DEF Turns, OpenStoreRefused, ImportRefused, ArchiveRefused, Crash, StartFails, Stop, Down
    <3>2. CASE Start
      <4>1. pc' = "starting" /\ ~(todo' \subseteq Direct)
        BY <3>2, StoresAssumption DEF Start
      <4> QED
        BY <4>1 DEF SealInv, Working
    <3>3. CASE StoreReady
      <4>1. /\ pc = "seal" /\ pc' \in {"up", "starting"} /\ fresh' = fresh
            /\ todo' = todo \ {cur} /\ (cur \notin Direct => Plain = {})
        BY <1>2, <2>1, <3>3 DEF StoreReady, history
      <4>2. cur \in Direct /\ todo' \subseteq Direct => todo \subseteq Direct
        BY <4>1
      <4>3. todo' \subseteq Direct => Plain \subseteq fresh
        BY <1>2, <2>1, <4>1, <4>2 DEF SealInv
      <4> QED
        BY <1>2, <2>1, <4>1, <4>3 DEF SealInv, Working, Row
    <3> QED
      BY <3>1, <3>2, <3>3
  <2> QED
    BY <2>2, <2>3
<1>4. ASSUME NEW d \in Doc, OpenStore(d)
      PROVE  SealInv'
  <2>1. Plain' = Plain
    BY <1>4, OpenStoreEffect DEF TypeInv, Plain
  <2> QED
    BY <1>2, <1>4, <2>1 DEF OpenStore, SealInv, Working, history
<1>5. ASSUME NEW d \in Doc, SealArchive(d)
      PROVE  SealInv'
  <2>1. UNCHANGED <<protect, pc, todo, fresh>>
    BY <1>5 DEF SealArchive, sad, history
  <2> QED
    BY <1>2, <1>5, <2>1, SealArchiveEffect DEF TypeInv, SealInv, Working, Row
<1>6. CASE OpenDatabase
  <2>1. UNCHANGED <<protect, fresh>> /\ pc = "database" /\ (pc' = "down" \/ UNCHANGED todo)
    BY <1>6 DEF OpenDatabase, Down, history
  <2>2. Working' => /\ disk'.db.sealed
                    /\ \A d \in Doc : Row(disk', d) # None => Row(disk', d).sealed
    BY <1>2, <1>6, <2>1, OpenDatabaseEffect DEF TypeInv, Down, Working
  <2>3. Plain' = Plain
    BY <1>6, OpenDatabaseEffect DEF TypeInv, Plain
  <2> QED
    BY <1>2, <2>1, <2>2, <2>3 DEF SealInv
<1>7. CASE Import
  <2>1. UNCHANGED <<protect, todo, fresh>> /\ pc = "import" /\ pc' = "archive"
    BY <1>7 DEF Import, history
  <2>2. Plain' = Plain
    BY <1>7, ImportEffect DEF Plain
  <2> QED
    BY <1>2, <1>7, <2>1, <2>2, ImportEffect DEF SealInv, Working
<1>8. CASE Archive
  <2>1. /\ UNCHANGED <<protect, todo>> /\ pc = "archive" /\ pc' \in {"unlink", "seal"}
        /\ fresh' = fresh \cup ({cur} \cap Direct) /\ cur \in todo
    BY <1>8, ArchiveEffect DEF Archive, TypeInv, TypeOK
  <2>2. Plain' \subseteq Plain \cup {cur}
    BY <1>8, ArchiveEffect DEF Plain
  <2>3. todo' \subseteq Direct => Plain' \subseteq fresh'
    BY <1>2, <2>1, <2>2 DEF SealInv
  <2> QED
    BY <1>2, <1>8, <2>1, <2>3, ArchiveEffect DEF SealInv, Working
<1>9. CASE Unlink
  <2>1. UNCHANGED <<protect, todo, fresh>> /\ pc = "unlink" /\ pc' = "seal"
    BY <1>9 DEF Unlink, history
  <2>2. Plain' = Plain
    BY <1>9, UnlinkEffect DEF TypeInv, Plain
  <2> QED
    BY <1>2, <1>9, <2>1, <2>2, UnlinkEffect DEF TypeInv, SealInv, Working
<1>10. ASSUME NEW d \in Doc, NEW v \in Value, Save(d, v)
       PROVE  SealInv'
  <2>1. UNCHANGED <<protect, pc, todo, fresh>> /\ pc = "up"
    BY <1>10 DEF Save, sad
  <2>2. Plain' = Plain
    BY <1>10, SaveEffect DEF Plain
  <2> QED
    BY <1>2, <1>10, <2>1, <2>2, SaveEffect DEF SealInv, Working
<1>11. CASE PeopleNext \/ RestoreNext
  <2>1. pc' = "down"
    BY <1>11
    DEF PeopleNext, DropFile, Reconcile, Move, Idle, sad, RestoreNext, RestoreStart, RestoreDone,
        RestoreFails, UndoDone, RestoreBreaks, RestoreFile, UndoFile, Restoring, TypeInv, PlaceInv
  <2> QED
    BY <2>1 DEF SealInv, Working
<1>12. ASSUME NEW portable \in BOOLEAN, BackupStart(portable)
       PROVE  SealInv'
  <2>1. UNCHANGED <<protect, pc, todo, fresh>>
    BY <1>12 DEF BackupStart, sad, history
  <2>2. Plain' = Plain
    BY <1>12, BackupStartEffect DEF Plain
  <2>3. Working => disk.db # None
    BY DEF TypeInv, PlaceInv
  <2> QED
    BY <1>2, <1>12, <2>1, <2>2, <2>3, BackupStartEffect DEF SealInv, Working
<1>13. CASE BackupRefused
  <2>1. UNCHANGED <<protect, pc, todo, fresh>>
    BY <1>13 DEF BackupRefused, sad, history
  <2>2. Plain' = Plain /\ (Working => disk' = disk)
    BY <1>13, BackupRefusedEffect DEF TypeInv, PlaceInv, Plain
  <2> QED
    BY <1>2, <2>1, <2>2 DEF SealInv, Working, Row
<1>14. CASE BackupFiles \/ BackupRefuted \/ BackupFails \/ \E d \in Doc : BackupRow(d)
  <2>1. UNCHANGED <<disk, protect, pc, todo, fresh>>
    BY <1>14 DEF BackupFiles, BackupRefuted, BackupFails, BackupRow, sad, history
  <2> QED
    BY <2>1 DEF SealInv, Working, Plain, Row
<1> QED
  BY <1>2, <1>3, <1>4, <1>5, <1>6, <1>7, <1>8, <1>9, <1>10, <1>11, <1>12, <1>13, <1>14, SadSteps
  DEF Next, Moves, BackupNext

-----------------------------------------------------------------------------
(* Backups.                                                                *)

\* What a step of SAD does to the backup in the making.
LEMMA TakenBySad ==
    ASSUME TypeInv, OpenedInv, HotInv, SadNext, tool = "rows",
           disk.journal = None \/ disk.journal = disk.db \/ disk.db = None,
           \A d \in Doc \ copy.moved : Taken(d)
    PROVE  /\ disk'.journal = None \/ disk'.journal = disk'.db \/ disk'.db = None
           /\ \A d \in Doc \ copy'.moved : Taken(d)'
<1>1. CASE Turns
  <2>1. UNCHANGED <<copy, pending>>
    BY <1>1
    DEF Turns, Start, OpenStoreRefused, ImportRefused, ArchiveRefused, StoreReady, Crash,
        StartFails, Stop, command
  <2>2. /\ disk'.root = disk.root /\ disk'.legacy = disk.legacy /\ disk'.db = disk.db
        /\ disk'.journal = disk.journal \/ disk'.journal = disk.db
    BY <1>1, TurnsEffect
  <2> QED
    BY <2>1, <2>2 DEF Taken, Row, ValueOf
<1>2. CASE Moves
  <2>1. disk \in Disk /\ UNCHANGED pending
    BY <1>2
    DEF Moves, OpenStore, SealArchive, OpenDatabase, Import, Archive, Unlink, command, TypeInv, TypeOK
  <2>2. ASSUME NEW d \in Doc, OpenStore(d), NEW e \in Doc, Taken(e)
        PROVE  Taken(e)'
    <3>1. (disk.root[d] = None \/ disk.legacy[d] = None) /\ UNCHANGED <<copy, pending>>
      BY <2>2 DEF OpenStore, command
    <3>2. ValueOf(disk', e) = ValueOf(disk, e)
      BY <2>2, <3>1, OpenStoreEffect DEF TypeInv, ValueOf
    <3> QED
      BY <2>2, <3>1, <3>2, OpenStoreEffect DEF TypeInv, Taken
  <2>3. ASSUME NEW d \in Doc, OpenStore(d) \/ SealArchive(d)
        PROVE  disk'.journal = disk.journal /\ disk'.db = disk.db /\ copy' = copy
    BY <2>3, OpenStoreEffect, SealArchiveEffect DEF TypeInv, OpenStore, SealArchive, command
  <2>4. ASSUME NEW d \in Doc, SealArchive(d), NEW e \in Doc, Taken(e)
        PROVE  Taken(e)'
    BY <2>1, <2>3, <2>4, SealArchiveEffect DEF TypeInv, Taken, Row, ValueOf
  <2>5. CASE OpenDatabase
    <3>1. disk'.journal = None /\ disk'.db # None /\ Alike(disk, disk')
      BY <2>5, OpenDatabaseEffect DEF TypeInv
    <3>2. UNCHANGED copy
      BY <2>5 DEF OpenDatabase, command
    <3> QED
      BY <2>1, <3>1, <3>2 DEF Taken, Alike, ValueOf
  <2>6. CASE Import
    <3>1. disk'.journal = disk.journal /\ disk.journal = None
      BY <2>6, ImportEffect DEF Import, TypeInv, PlaceInv, Working
    <3>2. copy \in Container /\ copy' = [copy EXCEPT !.moved = copy.moved \cup {cur}]
      BY <2>6 DEF Import, TypeInv, TypeOK
    <3>3. copy'.moved = copy.moved \cup {cur} /\ copy'.disk = copy.disk /\ copy'.since = copy.since
      BY <3>2 DEF Container
    <3>4. ASSUME NEW e \in Doc \ {cur}
          PROVE  ValueOf(disk', e) = ValueOf(disk, e) /\ Row(disk', e) = Row(disk, e)
      BY <2>6, ImportEffect DEF ValueOf
    <3>5. disk'.db # None /\ disk'.root = disk.root /\ disk'.legacy = disk.legacy
      BY <2>6, ImportEffect
    <3>6. Row(copy'.disk, cur) = Row(copy.disk, cur) /\ \A e \in Doc : Row(copy'.disk, e) = Row(copy.disk, e)
      BY <3>3 DEF Row
    <3> QED
      BY <2>1, <3>1, <3>3, <3>4, <3>5, <3>6 DEF Taken
  <2>7. CASE Archive \/ Unlink
    <3>1. /\ disk'.journal = disk.journal /\ copy' = copy /\ cur \in Doc
          /\ Row(disk, cur) # None /\ disk.legacy[cur] # None
      BY <2>7, ArchiveEffect, UnlinkEffect DEF Archive, Unlink, TypeInv, TypeOK, PlaceInv, command
    <3>2. /\ disk'.db = disk.db /\ disk'.root = disk.root
          /\ \A e \in Doc \ {cur} : disk'.legacy[e] = disk.legacy[e]
          /\ \A e \in Doc : Row(disk', e) = Row(disk, e)
      BY <2>7, ArchiveEffect, UnlinkEffect DEF TypeInv
    <3>3. \A e \in Doc : ValueOf(disk', e) = ValueOf(disk, e)
      BY <3>1, <3>2 DEF ValueOf
    <3>4. ASSUME NEW e \in Doc, Taken(e)
          PROVE  Taken(e)'
      BY <2>1, <3>1, <3>2, <3>3, <3>4 DEF Taken
    <3> QED
      BY <3>1, <3>2, <3>4
  <2> QED
    BY <1>2, <2>2, <2>3, <2>4, <2>5, <2>6, <2>7 DEF Moves
<1>3. ASSUME NEW c \in Doc, NEW v \in Value, Save(c, v)
      PROVE  /\ disk'.journal = None \/ disk'.journal = disk'.db \/ disk'.db = None
             /\ \A d \in Doc \ copy'.moved : Taken(d)'
  <2>1. /\ disk'.journal = disk.journal /\ disk.journal = None /\ UNCHANGED pending
        /\ \A d \in Doc : disk.root[d] = None /\ disk.legacy[d] = None
    BY <1>3, SaveEffect DEF Save, TypeInv, PlaceInv, Working, OpenedInv
  <2>2. copy \in Container /\ copy' = [copy EXCEPT !.since[c] = @ \cup {v}]
    BY <1>3 DEF Save, TypeInv, TypeOK
  <2>3. /\ copy'.moved = copy.moved /\ copy'.disk = copy.disk
        /\ copy'.since = [copy.since EXCEPT ![c] = @ \cup {v}]
        /\ copy.since \in [Doc -> SUBSET (Value \cup {None})]
    BY <2>2 DEF Container
  <2>4. copy'.since[c] = copy.since[c] \cup {v} /\ \A d \in Doc \ {c} : copy'.since[d] = copy.since[d]
    BY <2>3
  <2>5. ValueOf(disk', c) = v /\ \A d \in Doc \ {c} : ValueOf(disk', d) = ValueOf(disk, d)
    BY <1>3, SaveEffect DEF ValueOf
  <2>6. \A d \in Doc : Row(copy'.disk, d) = Row(copy.disk, d)
    BY <2>3 DEF Row
  <2>7. Row(disk, c) = None => ValueOf(disk, c) = None
    BY <2>1 DEF ValueOf
  <2>8. ASSUME NEW d \in Doc, Taken(d)
        PROVE  Taken(d)'
    BY <1>3, <2>1, <2>3, <2>4, <2>5, <2>6, <2>7, <2>8, SaveEffect DEF Taken
  <2> QED
    BY <2>1, <2>3, <2>8
<1> QED
  BY <1>1, <1>2, <1>3, SadSteps

LEMMA CopyStep ==
    ASSUME TypeInv, OpenedInv, HotInv, CopyInv, [Next]_vars
    PROVE  CopyInv'
<1>1. CASE UNCHANGED vars
  <2>1. UNCHANGED <<disk, tool, copy, pending, backup>>
    BY <1>1 DEF vars, command
  <2> QED
    BY <2>1 DEF CopyInv, Taken, Row, ValueOf, BackupIsCurrent
<1>2. SUFFICES ASSUME Next
               PROVE  CopyInv'
  BY <1>1
<1>3. CASE SadNext
  <2>1. UNCHANGED <<tool, backup>>
    BY <1>3
    DEF SadNext, Start, OpenStore, OpenStoreRefused, SealArchive, OpenDatabase, Import, ImportRefused,
        Archive, ArchiveRefused, Unlink, StoreReady, Crash, StartFails, Stop, Save, command
  <2>2. CASE tool = "rows"
    BY <1>3, <2>1, <2>2, TakenBySad DEF CopyInv, BackupIsCurrent, ValueOf, Row
  <2>3. CASE tool # "rows"
    BY <2>1, <2>3 DEF CopyInv, BackupIsCurrent, ValueOf, Row
  <2> QED
    BY <2>2, <2>3
<1>4. CASE PeopleNext
  <2>1. tool' = "idle" /\ UNCHANGED backup
    BY <1>4 DEF PeopleNext, DropFile, Reconcile, Move, Idle, command
  <2> QED
    BY <2>1 DEF CopyInv, BackupIsCurrent, ValueOf, Row
<1>5. CASE RestoreNext
  <2>1. tool' # "rows" /\ UNCHANGED backup
    BY <1>5
    DEF RestoreNext, RestoreStart, RestoreDone, RestoreFails, UndoDone, RestoreBreaks, RestoreFile, UndoFile
  <2> QED
    BY <2>1 DEF CopyInv, BackupIsCurrent, ValueOf, Row
<1>6. ASSUME NEW portable \in BOOLEAN, BackupStart(portable)
      PROVE  CopyInv'
  <2>1. backup' = backup /\ disk' \in Disk /\ (disk'.journal = None \/ disk'.db = None)
    BY <1>6, BackupStartEffect DEF BackupStart
  <2>2. ASSUME NEW d \in Doc
        PROVE  Taken(d)'
    <3>1. /\ copy'.since[d] = {ValueOf(disk', d)}
          /\ copy'.disk.db = IF disk.db = None THEN None ELSE IF portable THEN Fresh ELSE disk'.db
          /\ disk'.db = None <=> disk.db = None
          /\ pending' = {"row"} \X (IF disk.db = None \/ ~portable THEN {}
                                    ELSE {e \in Doc : Row(disk', e) # None})
      BY <1>6, BackupStartEffect
    <3>2. Fresh # None /\ Fresh.row[d] = None
      BY BlankParts
    <3>3. CASE disk.db = None
      BY <3>1, <3>3 DEF Taken, Row
    <3>4. CASE disk.db # None /\ portable
      BY <3>1, <3>2, <3>4 DEF Taken, Row
    <3>5. CASE disk.db # None /\ ~portable
      BY <3>1, <3>5 DEF Taken, Row, ValueOf
    <3> QED
      BY <3>3, <3>4, <3>5
  <2> QED
    BY <2>1, <2>2 DEF CopyInv, BackupIsCurrent, ValueOf, Row
<1>7. CASE BackupRefused \/ BackupFails \/ BackupRefuted
  <2>1. tool' = "idle" /\ backup' \in {None, backup}
    BY <1>7 DEF BackupRefused, BackupFails, BackupRefuted, command
  <2> QED
    BY <2>1 DEF CopyInv, BackupIsCurrent, ValueOf, Row
<1>8. ASSUME NEW d \in Doc, BackupRow(d)
      PROVE  CopyInv'
  <2>1. /\ tool = "rows" /\ pending' = pending \ {<<"row", d>>} /\ <<"row", d>> \in pending
        /\ UNCHANGED <<disk, backup>>
    BY <1>8 DEF BackupRow
  <2>2. Row(disk, d) # None
    BY <1>8, <2>1 DEF TypeInv, PlaceInv
  <2>3. ASSUME NEW e \in Doc, Taken(e)
        PROVE  Taken(e)'
    <3>1. /\ copy'.since = copy.since /\ copy'.disk.db # None /\ copy.disk.db # None
          /\ Row(copy'.disk, d) # None /\ Row(copy'.disk, d).value = Row(disk, d).value
          /\ \A g \in Doc \ {d} : Row(copy'.disk, g) = Row(copy.disk, g)
      BY <1>8, BackupRowEffect
    <3>2. UNCHANGED <<ValueOf(disk, e), Row(disk, e)>>
      BY <2>1 DEF ValueOf, Row
    <3>3. CASE e = d
      <4>1. ValueOf(disk, d) = Row(disk, d).value
        BY <2>2 DEF ValueOf
      <4> QED
        BY <2>1, <2>3, <3>1, <3>2, <3>3, <4>1 DEF Taken
    <3>4. CASE e # d
      <4>1. <<"row", e>> \in pending' <=> <<"row", e>> \in pending
        BY <2>1, <3>4
      <4> QED
        BY <2>1, <2>3, <3>1, <3>2, <3>4, <4>1 DEF Taken
    <3> QED
      BY <3>3, <3>4
  <2>4. copy'.moved = copy.moved
    BY <1>8, BackupRowEffect
  <2> QED
    BY <2>1, <2>3, <2>4 DEF CopyInv, BackupIsCurrent, ValueOf, Row
<1>9. CASE BackupFiles
  <2>1. /\ tool = "rows" /\ tool' = "idle" /\ pending = {} /\ copy \in Container
    BY <1>9 DEF BackupFiles, TypeInv, TypeOK
  <2> PICK files \in Copied : backup' = [copy EXCEPT !.disk = files]
    BY <1>9 DEF BackupFiles
  <2>2. /\ files.root = disk.root /\ files.legacy = disk.legacy
        /\ files.db = IF copy.disk.db = None THEN disk.db ELSE copy.disk.db
    BY <2>1, CopiedParts DEF TypeInv, CopiedDb
  <2>3. backup'.disk = files /\ backup'.moved = copy.moved /\ backup'.since = copy.since
    BY <2>1 DEF Container
  <2>4. ASSUME NEW d \in Doc \ copy.moved
        PROVE  ValueOf(files, d) \in copy.since[d]
    <3>1. Taken(d)
      BY <2>1 DEF CopyInv
    <3>2. CASE copy.disk.db = None
      <4>1. ValueOf(files, d) = ValueOf(disk, d)
        BY <2>2, <3>2 DEF ValueOf, Row
      <4> QED
        BY <3>1, <4>1 DEF Taken
    <3>3. CASE copy.disk.db # None
      <4>1. Row(files, d) = Row(copy.disk, d)
        BY <2>2, <3>3 DEF Row
      <4>2. CASE Row(copy.disk, d) # None
        BY <3>1, <4>1, <4>2 DEF Taken, ValueOf
      <4>3. CASE Row(copy.disk, d) = None
        BY <2>1, <2>2, <3>1, <3>3, <4>1, <4>3 DEF Taken, ValueOf
      <4> QED
        BY <4>2, <4>3
    <3> QED
      BY <3>2, <3>3
  <2>5. BackupIsCurrent'
    <3>1. \A d \in Doc \ backup'.moved : ValueOf(backup'.disk, d) \in backup'.since[d]
      BY <2>3, <2>4
    <3> QED
      BY <3>1 DEF BackupIsCurrent, ValueOf, Row
  <2> QED
    BY <2>1, <2>5 DEF CopyInv
<1> QED
  BY <1>2, <1>3, <1>4, <1>5, <1>6, <1>7, <1>8, <1>9 DEF Next, BackupNext

-----------------------------------------------------------------------------
(* The theorems.                                                           *)

\* What every reachable state satisfies.
Inv == TypeInv /\ OpenedInv /\ HotInv /\ LastInv /\ CauseInv /\ SealInv /\ UndoInv /\ CopyInv

LEMMA InitInv ==
    ASSUME Init
    PROVE  Inv
<1>1. PICK files \in [Doc -> Value \cup {None}] :
        disk = [root |-> files, legacy |-> Rows, archive |-> Rows, db |-> None, journal |-> None]
  BY DEF Init
<1>2. /\ disk \in Disk /\ disk.db = None /\ disk.journal = None /\ disk.root = files
      /\ \A d \in Doc : disk.legacy[d] = None /\ disk.archive[d] = None
  BY <1>1, BlankParts DEF Disk, Rows
<1>3. /\ protect \in BOOLEAN /\ pc = "down" /\ cur = None /\ todo = {}
      /\ tool = "idle" /\ copy = None /\ pending = {} /\ before = None /\ backup = None
      /\ last = disk.root /\ disturbed = {} /\ torn = FALSE /\ mixed = FALSE /\ fresh = {}
      /\ left \in Budget
  BY BoundsAssumption DEF Init
<1>4. TypeInv
  <2>1. PlaceInv
    BY <1>3 DEF PlaceInv, Working, Restoring
  <2>2. last \in [Doc -> Value \cup {None}]
    BY <1>2, <1>3
  <2>3. (copy = None) = (tool = "idle") /\ (before # None) = Restoring
    BY <1>3 DEF Restoring
  <2>4. TypeOK
    BY <1>2, <1>3, <2>2, <2>3 DEF TypeOK
  <2> QED
    BY <2>1, <2>4 DEF TypeInv
<1>5. OpenedInv /\ HotInv /\ SealInv /\ UndoInv /\ CopyInv
  BY <1>2, <1>3 DEF OpenedInv, HotInv, Files, Restoring, SealInv, Working, UndoInv, CopyInv, BackupIsCurrent
<1>6. \A d \in Doc : Row(disk, d) = None
  BY <1>2 DEF Row
<1>7. LastInv /\ CauseInv
  BY <1>2, <1>3, <1>6 DEF LastInv, Known, CauseInv, Single, Files, Restoring
<1> QED
  BY <1>4, <1>5, <1>7 DEF Inv

LEMMA NextInv ==
    ASSUME Inv, [Next]_vars
    PROVE  Inv'
  BY TypeStep, OpenedStep, HotStep, LastStep, CauseStep, SealStep, UndoStep, CopyStep DEF Inv

\* The invariant holds of every state, initially, and after every step.
THEOREM Invariance == Spec => []Inv
<1>1. Init => Inv
  BY InitInv
<1>2. Inv /\ [Next]_vars => Inv'
  BY NextInv
<1> QED
  BY <1>1, <1>2, PTL DEF Spec

\* The types are right, and an operation has its locals exactly while it runs.
THEOREM TypeCorrect == Spec => []TypeOK
<1>1. Inv => TypeOK
  BY DEF Inv, TypeInv
<1> QED
  BY <1>1, Invariance, PTL

\* Whatever starts, ends in the middle, fails, is backed up or is rolled back, what the
\* user last saved is in the database, in local_data or at the root, unless a restore
\* broke off, or left a journal beside the restored database.
THEOREM NothingLost == Spec => []NothingIsLost
<1>1. Inv => NothingIsLost
  BY DEF Inv, LastInv, Known, Files, NothingIsLost
<1> QED
  BY <1>1, Invariance, PTL

\* SAD that is up serves each document as it was last saved or restored, with the same
\* two exceptions.
THEOREM ServesLast == Spec => []UpServesLast
<1>1. Inv => UpServesLast
  <2>1. SUFFICES ASSUME Inv, pc = "up", ~torn, ~mixed
                 PROVE  Serves
    BY DEF UpServesLast
  <2>2. ~Restoring /\ disk \in Disk
    BY <2>1 DEF Inv, TypeInv, TypeOK, PlaceInv
  <2>3. ASSUME NEW d \in Doc
        PROVE  /\ disk.root[d] = None /\ disk.legacy[d] = None
               /\ last[d] = IF Row(disk, d) = None THEN None ELSE Row(disk, d).value
    <3>1. disk.root[d] = None /\ disk.legacy[d] = None
      BY <2>1 DEF Inv, OpenedInv
    <3>2. Known(disk, d)
      BY <2>1, <2>2 DEF Inv, LastInv, Files
    <3> QED
      BY <3>1, <3>2 DEF Known
  <2> QED
    BY <2>3 DEF Serves
<1> QED
  BY <1>1, Invariance, PTL

\* On a host that protects at rest, SAD that is up has no plain row, and no plain archive
\* but what the stores of Direct archived in this very start.
THEOREM Protected == Spec => []ProtectedAtRest
<1>1. Inv => ProtectedAtRest
  BY DEF Inv, TypeInv, PlaceInv, SealInv, Working, Plain, ProtectedAtRest
<1> QED
  BY <1>1, Invariance, PTL

\* Two copies of a document have a cause.
THEOREM ConflictsExplained == Spec => []ConflictHasACause
<1>1. Inv => ConflictHasACause
  BY DEF Inv, CauseInv, Single, Halfway, Files, ConflictHasACause
<1> QED
  BY <1>1, Invariance, PTL

\* A backup is a copy of what was there while it was made.
THEOREM BackupsCurrent == Spec => []BackupIsCurrent
<1>1. Inv => BackupIsCurrent
  BY DEF Inv, CopyInv
<1> QED
  BY <1>1, Invariance, PTL

\* A rolled back restore changes no file.
THEOREM FailedRestoreUndone == Spec => FailedRestoreLeavesNothing
<1>1. ASSUME Inv, [Next]_vars, tool = "undo", tool' = "idle", ~torn'
      PROVE  disk' = before
  <2>1. ~UNCHANGED vars
    BY <1>1 DEF vars, command
  <2>2. ~(SadNext \/ PeopleNext \/ BackupNext)
    BY <1>1, Apart DEF Inv, Restoring
  <2>3. UndoDone \/ RestoreBreaks
    BY <1>1, <2>1, <2>2
    DEF Next, RestoreNext, RestoreStart, RestoreDone, RestoreFails, RestoreFile, UndoFile, Idle
  <2>4. CASE UndoDone
    BY <1>1, <2>4, RestoredParts DEF Inv, UndoDone
  <2>5. CASE RestoreBreaks
    BY <1>1, <2>5 DEF RestoreBreaks
  <2> QED
    BY <2>3, <2>4, <2>5
<1>2. Inv /\ [Next]_vars => [tool = "undo" /\ tool' = "idle" /\ ~torn' => disk' = before]_vars
  BY <1>1
<1> QED
  BY <1>2, Invariance, PTL DEF Spec, FailedRestoreLeavesNothing
=============================================================================
