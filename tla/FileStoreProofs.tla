--------------------------- MODULE FileStoreProofs ---------------------------
(***************************************************************************)
(* Proofs about FileStore, for any number of workers, contents, downloads  *)
(* and crashes.                                                            *)
(***************************************************************************)
EXTENDS FileStore, TLAPS

\* A worker inside the call has a download.
HasDownload == \A w \in Workers : pc[w] # "idle" => file[w] \in Download

\* writer[c] is exactly the worker that is about to commit c.
WriterHolds ==
    /\ \A w \in Workers : pc[w] = "commit" => writer[file[w].content] = w
    /\ \A c \in Contents : \A w \in Workers :
          writer[c] = w => pc[w] = "commit" /\ file[w].content = c

\* What SELECT said still holds where it matters: UPDATE has a row, and the
\* worker that holds the lock inserts only where there is none.
FoundHolds ==
    \A w \in Workers :
        /\ pc[w] = "update" => found[w] # NoRow /\ Recorded(file[w].content)
        /\ pc[w] = "insert" => found[w] = NoRow
        /\ pc[w] = "commit" =>
              (found[w] = NoRow <=> rows[file[w].content] = NoRow)

AfterCopy == {"fill", "select", "update", "insert", "commit"}

\* Past copy_file's first step the worker's own destination exists.
PlaceExists ==
    \A w \in Workers : pc[w] \in AfterCopy => disk[Place(w)] # "absent"

\* A partial copy has a worker that fills it, or was cut short.
NoOrphans ==
    \A p \in Places : disk[p] = "partial" =>
        p \in cut \/ \E w \in Workers : pc[w] = "fill" /\ Place(w) = p

\* Names are only recorded with a row.
NamesHaveRow == \A c \in Contents : named[c] # {} => Recorded(c)

Inv == /\ TypeOK
       /\ HasDownload
       /\ WriterHolds
       /\ FoundHolds
       /\ PlaceExists
       /\ NoOrphans
       /\ RecordedIsStored
       /\ HitsAreExact
       /\ NamesHaveRow
       /\ NameIsKnown

USE BoundsAssumption, FailuresAssumption, NoRowAssumption, NoWorkerAssumption

\* An empty directory and an empty table satisfy the invariant.
LEMMA InitInv == Init => Inv
<1> SUFFICES ASSUME Init PROVE Inv
  OBVIOUS
<1> USE DEF Init
<1>1. TypeOK
  BY DEF TypeOK, PCs, Results
<1>2. HasDownload /\ WriterHolds /\ FoundHolds /\ PlaceExists
  BY DEF HasDownload, WriterHolds, FoundHolds, PlaceExists, AfterCopy
<1>3. NoOrphans
  BY DEF NoOrphans
<1>4. RecordedIsStored /\ HitsAreExact /\ NamesHaveRow /\ NameIsKnown
  BY DEF RecordedIsStored, HitsAreExact, NamesHaveRow, NameIsKnown,
       Recorded
<1> QED
  BY <1>1, <1>2, <1>3, <1>4 DEF Inv

\* A worker's move within the hash and copy part, to the program counter q: the
\* table and the other workers stay as they are, and the tree only grows.
LEMMA LocalStep ==
    ASSUME Inv,
           NEW w \in Workers, NEW q \in PCs \ {"update", "insert", "commit"},
           pc[w] \notin {"commit"},
           pc' = [pc EXCEPT ![w] = q],
           file'[w] \in Download \/ q = "idle",
           \A u \in Workers : u # w => file'[u] = file[u],
           file' \in [Workers -> Download \cup {NoFile}],
           found' \in [Workers -> Row \cup {NoRow}],
           \A u \in Workers : u # w => found'[u] = found[u],
           result' \in [Workers -> Results],
           disk' \in [Places -> {"absent", "partial", "whole"}],
           \A p \in Places : disk'[p] = "absent" => disk[p] = "absent",
           q \in AfterCopy => disk'[Place(w)'] # "absent",
           stores' \in 0 .. MaxStores,
           cut' \subseteq Places,
           UNCHANGED <<rows, writer, crashes, commits, named>>
    PROVE  /\ TypeOK'
           /\ HasDownload'
           /\ WriterHolds'
           /\ FoundHolds'
           /\ PlaceExists'
           /\ RecordedIsStored'
           /\ HitsAreExact'
           /\ NamesHaveRow' /\ NameIsKnown'
<1> USE DEF Inv
<1>1. TypeOK'
  BY DEF TypeOK, PCs
<1>2. HasDownload'
  BY DEF HasDownload, TypeOK
<1>3. WriterHolds'
  BY DEF WriterHolds, TypeOK
<1>4. FoundHolds'
  BY DEF FoundHolds, TypeOK, Recorded
<1>5. PlaceExists'
  <2> SUFFICES ASSUME NEW u \in Workers, pc'[u] \in AfterCopy
               PROVE  disk'[Place(u)'] # "absent"
    BY DEF PlaceExists
  <2>1. CASE u = w
    BY <2>1 DEF TypeOK
  <2>2. CASE u # w
    <3>1. pc[u] \in AfterCopy /\ file'[u] = file[u]
      BY <2>2 DEF TypeOK
    <3>2. Place(u)' = Place(u) /\ disk[Place(u)] # "absent"
      BY <3>1 DEF Place, PlaceExists
    <3>3. Place(u) \in Places
      BY <3>1 DEF Place, Places, HasDownload, Download, AfterCopy
    <3> QED
      BY <3>2, <3>3
  <2> QED
    BY <2>1, <2>2
<1>6. RecordedIsStored'
  <2> SUFFICES ASSUME NEW c \in Contents, Recorded(c)
               PROVE  disk'[RowPlace(c)] # "absent"
    BY DEF RecordedIsStored, Recorded, RowPlace
  <2>1. RowPlace(c) \in Places
    BY DEF RowPlace, Places, Recorded, TypeOK, Row
  <2> QED
    BY <2>1 DEF RecordedIsStored
<1>7. HitsAreExact' /\ NamesHaveRow' /\ NameIsKnown'
  BY DEF HitsAreExact, NamesHaveRow, NameIsKnown,
       Recorded
<1> QED
  BY <1>1, <1>2, <1>3, <1>4, <1>5, <1>6, <1>7

\* Leaving the call without having written anything.
LEMMA ReturnStep ==
    ASSUME Inv,
           NEW w \in Workers, NEW r \in Results,
           pc[w] # "commit",
           Return(w, r),
           cut' = IF pc[w] = "fill" THEN cut \cup {Place(w)} ELSE cut,
           UNCHANGED <<disk, rows, writer, stores, crashes, commits, named>>
    PROVE  Inv'
<1>1. NoOrphans'
  BY DEF NoOrphans, Inv, TypeOK, Return, Place
<1>2. cut' \subseteq Places
  BY DEF Inv, TypeOK, HasDownload, Download, Place, Places
<1> QED
  BY <1>1, <1>2, LocalStep DEF Inv, TypeOK, Return, PCs, AfterCopy

\* The worker that holds the lock of c is the only one that is about to commit c.
LEMMA OneCommitter ==
    ASSUME Inv, NEW w \in Workers, NEW u \in Workers, u # w,
           pc[w] = "commit", pc[u] = "commit"
    PROVE  file[w].content # file[u].content
BY DEF Inv, WriterHolds

\* The server commits, and the worker leaves the call with result r.
LEMMA CommitsStep ==
    ASSUME Inv, NEW w \in Workers, NEW r \in Results, Commits(w), Return(w, r)
    PROVE  Inv'
<1> USE DEF Inv, Commits, Return
<1> DEFINE c == file[w].content
<1>1. c \in Contents /\ file[w] \in Download
  BY DEF HasDownload, Download
<1>2. writer[c] = w /\ (found[w] = NoRow <=> rows[c] = NoRow)
  BY DEF WriterHolds, FoundHolds
<1>3. /\ Written(w) \in Row
      /\ rows[c] = NoRow => Written(w) = [ext |-> file[w].ext,
                                         name |-> file[w].name, hits |-> 1]
      /\ rows[c] # NoRow =>
            /\ Written(w).ext = rows[c].ext
            /\ Written(w).hits = rows[c].hits + 1
            /\ Written(w).name = IF rows[c].name = "" THEN file[w].name
                                                    ELSE rows[c].name
  <2>1. CASE rows[c] = NoRow
    BY <1>1, <1>2, <2>1 DEF Written, Row, Download
  <2>2. CASE rows[c] # NoRow
    <3>1. rows[c] \in Row
      BY <1>1, <2>2 DEF TypeOK
    <3> DEFINE nm == IF rows[c].name = "" THEN file[w].name ELSE rows[c].name
    <3>2. Written(w) = [ext |-> rows[c].ext, name |-> nm, hits |-> rows[c].hits + 1]
      BY <1>2, <2>2 DEF Written
    <3>3. rows[c].ext \in Exts /\ rows[c].name \in Names /\ rows[c].hits \in Nat
      BY <3>1 DEF Row
    <3>4. nm \in Names
      BY <1>1, <3>3 DEF Download
    <3>5. /\ Written(w) \in Row /\ Written(w).ext = rows[c].ext
          /\ Written(w).hits = rows[c].hits + 1 /\ Written(w).name = nm
      <4> HIDE DEF c, nm
      <4> QED
        BY <3>2, <3>3, <3>4 DEF Row
    <3> QED
      BY <2>2, <3>5
  <2> QED
    BY <2>1, <2>2
<1>4. Written(w) # NoRow
  BY <1>3
<1>5. /\ rows'[c] = Written(w)
      /\ \A d \in Contents : d # c => rows'[d] = rows[d]
      /\ rows' \in [Contents -> Row \cup {NoRow}]
  BY <1>1, <1>3 DEF TypeOK
<1>6. \A u \in Workers : u # w => pc'[u] = pc[u] /\ file'[u] = file[u]
                                /\ found'[u] = found[u]
  BY DEF TypeOK
<1>7. pc'[w] = "idle"
  BY DEF TypeOK
<1>8. \A d \in Contents : writer'[d] = IF d = c THEN NoWorker ELSE writer[d]
  BY <1>1, <1>2 DEF Unlock, WriterHolds
<1>9. TypeOK'
  <2>1. writer' \in [Contents -> Workers \cup {NoWorker}]
    BY DEF Unlock, TypeOK
  <2>2. named' \in [Contents -> SUBSET Names]
    BY <1>1 DEF TypeOK, Download
  <2>3. commits' \in [Contents -> Nat]
    BY <1>1 DEF TypeOK
  <2> QED
    BY <1>5, <2>1, <2>2, <2>3 DEF TypeOK, PCs
<1>10. HasDownload'
  BY <1>6, <1>7 DEF HasDownload
<1>11. WriterHolds'
  <2>1. \A u \in Workers : pc'[u] = "commit" => writer'[file'[u].content] = u
    <3> SUFFICES ASSUME NEW u \in Workers, pc'[u] = "commit"
                 PROVE  writer'[file'[u].content] = u
      OBVIOUS
    <3>1. u # w /\ pc[u] = "commit" /\ file'[u] = file[u]
      BY <1>6, <1>7
    <3>2. file[u].content \in Contents /\ file[u].content # c
      BY <3>1, OneCommitter DEF HasDownload, Download
    <3> QED
      BY <1>8, <3>1, <3>2 DEF WriterHolds
  <2>2. \A d \in Contents : \A u \in Workers :
           writer'[d] = u => pc'[u] = "commit" /\ file'[u].content = d
    BY <1>1, <1>2, <1>6, <1>8 DEF WriterHolds
  <2> QED
    BY <2>1, <2>2 DEF WriterHolds
<1>12. FoundHolds'
  <2> SUFFICES ASSUME NEW u \in Workers, u # w, pc'[u] # "idle"
               PROVE  /\ pc'[u] = "update" =>
                            found'[u] # NoRow /\ Recorded(file[u].content)'
                      /\ pc'[u] = "insert" => found'[u] = NoRow
                      /\ pc'[u] = "commit" =>
                            (found'[u] = NoRow <=> rows'[file[u].content] = NoRow)
    BY <1>6, <1>7 DEF FoundHolds, Recorded
  <2>1. file[u].content \in Contents
    BY <1>6 DEF HasDownload, Download
  <2>2. pc[u] = "commit" => file[u].content # c
    BY OneCommitter
  <2>3. rows[file[u].content] # NoRow => rows'[file[u].content] # NoRow
    BY <1>4, <1>5, <2>1
  <2> QED
    BY <1>5, <1>6, <2>1, <2>2, <2>3 DEF FoundHolds, Recorded
<1>13. PlaceExists'
  BY <1>6, <1>7 DEF PlaceExists, Place, AfterCopy
<1>14. NoOrphans'
  BY <1>6 DEF NoOrphans, Place
<1>15. RecordedIsStored'
  <2> SUFFICES ASSUME NEW d \in Contents, rows'[d] # NoRow
               PROVE  disk[<<d, rows'[d].ext>>] # "absent"
    BY DEF RecordedIsStored, RowPlace, Recorded
  <2>1. CASE d # c \/ rows[c] # NoRow
    BY <1>1, <1>3, <1>5, <2>1 DEF RecordedIsStored, RowPlace, Recorded
  <2>2. CASE d = c /\ rows[c] = NoRow
    BY <1>3, <1>5, <2>2 DEF PlaceExists, Place, AfterCopy
  <2> QED
    BY <2>1, <2>2
<1>16. HitsAreExact'
  <2> SUFFICES ASSUME NEW d \in Contents
               PROVE  commits'[d] = IF rows'[d] # NoRow THEN rows'[d].hits ELSE 0
    BY DEF HitsAreExact, Recorded
  <2>1. CASE d # c
    BY <1>1, <1>5, <2>1 DEF HitsAreExact, Recorded, TypeOK
  <2>2. CASE d = c
    <3>1. commits'[c] = commits[c] + 1
      BY <1>1 DEF TypeOK
    <3>2. commits[c] = IF rows[c] # NoRow THEN rows[c].hits ELSE 0
      BY <1>1 DEF HitsAreExact, Recorded
    <3>3. Written(w).hits = commits[c] + 1
      <4>1. CASE rows[c] = NoRow
        BY <1>3, <3>2, <4>1
      <4>2. CASE rows[c] # NoRow
        BY <1>3, <3>2, <4>2
      <4> QED
        BY <4>1, <4>2
    <3> QED
      BY <1>4, <1>5, <2>2, <3>1, <3>3
  <2> QED
    BY <2>1, <2>2
<1>17. NameIsKnown'
  <2> SUFFICES ASSUME NEW d \in Contents, rows'[d] # NoRow
               PROVE  /\ rows'[d].name \in named'[d]
                      /\ (\E n \in named'[d] : n # "") => rows'[d].name # ""
    BY DEF NameIsKnown, Recorded
  <2>1. CASE d # c
    BY <1>1, <1>5, <2>1 DEF NameIsKnown, Recorded, TypeOK
  <2>2. CASE d = c /\ rows[c] # NoRow
    BY <1>1, <1>3, <1>5, <2>2 DEF NameIsKnown, Recorded, TypeOK
  <2>3. CASE d = c /\ rows[c] = NoRow
    <3>1. named[c] = {}
      BY <1>1, <2>3 DEF NamesHaveRow, Recorded
    <3>2. named'[c] = {file[w].name}
      BY <1>1, <3>1 DEF TypeOK
    <3>3. rows'[c].name = file[w].name
      BY <1>3, <1>5, <2>3
    <3> QED
      BY <2>3, <3>2, <3>3
  <2> QED
    BY <2>1, <2>2, <2>3
<1>18. NamesHaveRow'
  BY <1>1, <1>4, <1>5 DEF NamesHaveRow, Recorded, TypeOK
<1> QED
  BY <1>18, <1>9, <1>10, <1>11, <1>12, <1>13, <1>14, <1>15, <1>16, <1>17

\* Every step of a worker preserves the invariant.
LEMMA StepInv == Inv /\ [Next]_vars => Inv'
<1> SUFFICES ASSUME Inv, [Next]_vars PROVE Inv'
  OBVIOUS
<1>1. CASE UNCHANGED vars
  <2> USE <1>1 DEF vars, Inv
  <2>1. TypeOK'
    BY DEF TypeOK
  <2>2. HasDownload' /\ WriterHolds' /\ FoundHolds'
    BY DEF HasDownload, WriterHolds, FoundHolds, Recorded
  <2>3. PlaceExists' /\ NoOrphans'
    BY DEF PlaceExists, NoOrphans, Place
  <2>4. RecordedIsStored' /\ HitsAreExact' /\ NamesHaveRow' /\ NameIsKnown'
    BY DEF RecordedIsStored, HitsAreExact, NamesHaveRow, NameIsKnown, Recorded,
           RowPlace
  <2> QED
    BY <2>1, <2>2, <2>3, <2>4
<1>2. CASE Crash
  <2> USE <1>2 DEF Crash, Inv
  <2>0. cut' \subseteq Places
    BY DEF TypeOK, HasDownload, Download, Place, Places
  <2>1. TypeOK'
    <3>1. crashes' \in 0 .. MaxCrashes
      BY DEF TypeOK
    <3> QED
      BY <2>0, <3>1 DEF TypeOK, PCs, Results
  <2>2. HasDownload' /\ FoundHolds' /\ PlaceExists'
    BY DEF HasDownload, FoundHolds, PlaceExists, AfterCopy
  <2>3. WriterHolds'
    BY DEF WriterHolds
  <2>4. NoOrphans'
    BY DEF NoOrphans, TypeOK
  <2>5. RecordedIsStored' /\ HitsAreExact' /\ NamesHaveRow' /\ NameIsKnown'
    BY DEF RecordedIsStored, HitsAreExact, NamesHaveRow, NameIsKnown,
       Recorded, RowPlace
  <2> QED
    BY <2>1, <2>2, <2>3, <2>4, <2>5
<1>3. ASSUME NEW w \in Workers, NEW d \in Download, Begin(w, d)
      PROVE  Inv'
  <2> USE <1>3 DEF Begin
  <2>1. NoOrphans'
    BY DEF NoOrphans, Inv, TypeOK, Place
  <2>2. /\ result' \in [Workers -> Results] /\ stores' \in 0 .. MaxStores
        /\ file' \in [Workers -> Download \cup {NoFile}] /\ file'[w] \in Download
        /\ \A u \in Workers : u # w => file'[u] = file[u]
    BY DEF Inv, TypeOK, Results
  <2> QED
    BY <2>1, <2>2, LocalStep DEF Inv, TypeOK, PCs, AfterCopy
<1>4. ASSUME NEW w \in Workers, Step(w)
      PROVE  Inv'
  <2>0. /\ TypeOK /\ pc[w] \in PCs
        /\ pc[w] # "idle" => /\ file[w] \in Download
                             /\ file[w].content \in Contents
                             /\ Place(w) \in Places
    BY DEF Inv, TypeOK, HasDownload, Download, Place, Places
  <2>1. CASE Hash(w)
    <3> USE <2>1 DEF Hash
    <3>1. NoOrphans'
      BY DEF NoOrphans, Inv, TypeOK, Place
    <3> QED
      BY <2>0, <3>1, LocalStep DEF Inv, TypeOK, PCs, AfterCopy
  <2>2. CASE HashFails(w)
    BY <2>2, ReturnStep DEF HashFails, Results
  <2>3. CASE CopySkip(w)
    <3> USE <2>3 DEF CopySkip
    <3>1. NoOrphans'
      BY DEF NoOrphans, Inv, TypeOK, Place
    <3>2. disk'[Place(w)'] # "absent"
      BY DEF Place
    <3> QED
      BY <2>0, <3>1, <3>2, LocalStep DEF Inv, TypeOK, PCs, AfterCopy
  <2>4. CASE CopyCreate(w)
    <3> USE <2>4 DEF CopyCreate
    <3>1. Place(w)' = Place(w) /\ disk'[Place(w)] = "partial"
      BY <2>0 DEF Place, TypeOK
    <3>2. /\ disk' \in [Places -> {"absent", "partial", "whole"}]
          /\ \A p \in Places : p # Place(w) => disk'[p] = disk[p]
      BY <2>0 DEF TypeOK
    <3>3. NoOrphans'
      <4> SUFFICES ASSUME NEW p \in Places, p \notin cut, disk'[p] = "partial"
                   PROVE  \E u \in Workers : pc'[u] = "fill" /\ Place(u)' = p
        BY DEF NoOrphans
      <4>1. CASE p = Place(w)
        BY <2>0, <3>1, <4>1 DEF TypeOK
      <4>2. CASE p # Place(w)
        <5>1. PICK u \in Workers : pc[u] = "fill" /\ Place(u) = p
          BY <3>2, <4>2 DEF Inv, NoOrphans
        <5>2. u # w /\ Place(u)' = Place(u)
          BY <5>1 DEF Place
        <5> QED
          BY <5>1, <5>2 DEF Inv, TypeOK
      <4> QED
        BY <4>1, <4>2
    <3> QED
      BY <2>0, <3>1, <3>2, <3>3, LocalStep DEF Inv, TypeOK, PCs, AfterCopy
  <2>5. CASE CopyFill(w)
    <3> USE <2>5 DEF CopyFill
    <3>1. Place(w)' = Place(w) /\ disk'[Place(w)] = "whole"
      BY <2>0 DEF Place, TypeOK
    <3>2. /\ disk' \in [Places -> {"absent", "partial", "whole"}]
          /\ \A p \in Places : p # Place(w) => disk'[p] = disk[p]
      BY <2>0 DEF TypeOK
    <3>3. NoOrphans'
      <4> SUFFICES ASSUME NEW p \in Places, p \notin cut, disk'[p] = "partial"
                   PROVE  \E u \in Workers : pc'[u] = "fill" /\ Place(u)' = p
        BY DEF NoOrphans
      <4>1. p # Place(w) /\ disk[p] = "partial"
        BY <3>1, <3>2
      <4>2. PICK u \in Workers : pc[u] = "fill" /\ Place(u) = p
        BY <4>1 DEF Inv, NoOrphans
      <4>3. u # w /\ Place(u)' = Place(u)
        BY <4>1, <4>2 DEF Place
      <4> QED
        BY <4>2, <4>3 DEF Inv, TypeOK
    <3> QED
      BY <2>0, <3>1, <3>2, <3>3, LocalStep DEF Inv, TypeOK, PCs, AfterCopy
  <2>6. CASE CopyFails(w)
    BY <2>6, ReturnStep DEF CopyFails, Results
  <2>7. CASE Select(w)
    <3> USE <2>7 DEF Select, Inv
    <3>1. /\ pc'[w] = IF rows[file[w].content] # NoRow THEN "update" ELSE "insert"
          /\ found'[w] = rows[file[w].content]
          /\ \A u \in Workers : u # w => pc'[u] = pc[u] /\ found'[u] = found[u]
      BY <2>0 DEF TypeOK
    <3>2. TypeOK'
      BY <2>0 DEF TypeOK, PCs
    <3>3. HasDownload' /\ WriterHolds'
      BY <3>1 DEF HasDownload, WriterHolds
    <3>4. FoundHolds'
      BY <3>1 DEF FoundHolds, Recorded
    <3>5. PlaceExists' /\ NoOrphans'
      BY <3>1 DEF PlaceExists, NoOrphans, AfterCopy, Place
    <3>6. RecordedIsStored' /\ HitsAreExact' /\ NamesHaveRow' /\ NameIsKnown'
      BY DEF RecordedIsStored, HitsAreExact, NamesHaveRow, NameIsKnown,
       Recorded, RowPlace
    <3> QED
      BY <3>2, <3>3, <3>4, <3>5, <3>6
  <2>8. CASE Update(w) \/ Insert(w)
    <3> USE <2>8 DEF Update, Insert, Inv
    <3>1. /\ pc[w] \in {"update", "insert"} /\ pc'[w] = "commit"
          /\ \A u \in Workers : u # w => pc'[u] = pc[u]
          /\ UNCHANGED <<file, found, result, disk, rows, stores, crashes, commits,
                         named, cut>>
          /\ pc' \in [Workers -> PCs]
      BY <2>0 DEF TypeOK, PCs
    <3>2. /\ writer[file[w].content] = NoWorker
          /\ writer' = [writer EXCEPT ![file[w].content] = w]
      OBVIOUS
    <3>3. /\ file[w].content \in Contents
          /\ writer'[file[w].content] = w
          /\ \A c \in Contents : c # file[w].content => writer'[c] = writer[c]
      BY <2>0, <3>1, <3>2 DEF TypeOK
    <3>4. TypeOK'
      BY <3>1, <3>2 DEF TypeOK
    <3>5. HasDownload'
      BY <3>1, <2>0 DEF HasDownload
    <3>6. WriterHolds'
      <4>1. \A u \in Workers : pc'[u] = "commit" => writer'[file'[u].content] = u
        <5> SUFFICES ASSUME NEW u \in Workers, pc'[u] = "commit", u # w
                     PROVE  writer'[file[u].content] = u
          BY <3>1, <3>3
        <5>1. writer[file[u].content] = u /\ file[u].content \in Contents
          BY <3>1 DEF WriterHolds, HasDownload, Download
        <5> QED
          BY <3>2, <3>3, <5>1
      <4>2. \A c \in Contents : \A u \in Workers :
               writer'[c] = u => pc'[u] = "commit" /\ file'[u].content = c
        BY <3>1, <3>2, <3>3 DEF WriterHolds
      <4> QED
        BY <4>1, <4>2 DEF WriterHolds
    <3>7. FoundHolds'
      <4>1. found[w] = NoRow <=> rows[file[w].content] = NoRow
        BY DEF FoundHolds, Recorded
      <4> QED
        BY <3>1, <4>1 DEF FoundHolds, Recorded
    <3>8. PlaceExists' /\ NoOrphans'
      BY <3>1 DEF PlaceExists, NoOrphans, AfterCopy, Place
    <3>9. RecordedIsStored' /\ HitsAreExact' /\ NamesHaveRow' /\ NameIsKnown'
      BY <3>1 DEF RecordedIsStored, HitsAreExact, NamesHaveRow, NameIsKnown,
       Recorded, RowPlace
    <3> QED
      BY <3>4, <3>5, <3>6, <3>7, <3>8, <3>9
  <2>9. CASE InsertDuplicate(w)
    BY <2>9, ReturnStep DEF InsertDuplicate, Results
  <2>10. CASE Commit(w)
    BY <2>10, CommitsStep DEF Commit, Results
  <2>11. CASE CommitLost(w)
    BY <2>11, CommitsStep DEF CommitLost, Results
  <2>12. CASE TransactionFails(w)
    <3> USE <2>12 DEF TransactionFails
    <3>1. CASE pc[w] # "commit"
      <4>1. \A c \in Contents : writer[c] # w
        BY <3>1 DEF Inv, WriterHolds
      <4>2. writer' = writer
        BY <4>1, <2>0 DEF Unlock, TypeOK
      <4> QED
        BY <3>1, <4>2, ReturnStep DEF Results
    <3>2. CASE pc[w] = "commit"
      <4> USE <3>2 DEF Inv, Return
      <4>1. /\ pc'[w] = "idle"
            /\ \A u \in Workers : u # w => pc'[u] = pc[u] /\ file'[u] = file[u]
                                         /\ found'[u] = found[u]
        BY <2>0 DEF TypeOK
      <4>2. \A c \in Contents :
               writer'[c] = IF c = file[w].content THEN NoWorker ELSE writer[c]
        BY <2>0 DEF Unlock, WriterHolds
      <4>3. TypeOK'
        BY <2>0 DEF TypeOK, Unlock, PCs, Results
      <4>4. HasDownload' /\ FoundHolds' /\ PlaceExists'
        BY <4>1 DEF HasDownload, FoundHolds, PlaceExists, AfterCopy, Place, Recorded
      <4>5. WriterHolds'
        <5>1. \A u \in Workers : pc'[u] = "commit" =>
                 writer'[file'[u].content] = u
          <6> SUFFICES ASSUME NEW u \in Workers, pc'[u] = "commit"
                       PROVE  writer'[file'[u].content] = u
            OBVIOUS
          <6>1. u # w /\ pc[u] = "commit" /\ file'[u] = file[u]
            BY <4>1
          <6>2. file[u].content \in Contents /\ file[u].content # file[w].content
            BY <6>1, OneCommitter DEF HasDownload, Download
          <6> QED
            BY <4>2, <6>1, <6>2 DEF WriterHolds
        <5>2. \A c \in Contents : \A u \in Workers :
                 writer'[c] = u => pc'[u] = "commit" /\ file'[u].content = c
          BY <2>0, <4>1, <4>2 DEF WriterHolds
        <5> QED
          BY <5>1, <5>2 DEF WriterHolds
      <4>6. NoOrphans'
        BY <4>1 DEF NoOrphans, Place
      <4>7. RecordedIsStored' /\ HitsAreExact' /\ NamesHaveRow' /\ NameIsKnown'
        BY DEF RecordedIsStored, HitsAreExact, NamesHaveRow, NameIsKnown,
       Recorded, RowPlace
      <4> QED
        BY <4>3, <4>4, <4>5, <4>6, <4>7
    <3> QED
      BY <3>1, <3>2
  <2> QED
    BY <1>4, <2>1, <2>2, <2>3, <2>4, <2>5, <2>6, <2>7, <2>8, <2>9, <2>10, <2>11,
       <2>12 DEF Step, Proceed, Fail
<1> QED
  BY <1>1, <1>2, <1>3, <1>4 DEF Next

\* The invariant holds in every reachable state.
LEMMA Invariance == Spec => []Inv
BY InitInv, StepInv, PTL DEF Spec

\* Every reachable state is well typed, for any number of workers, downloads and
\* crashes.
THEOREM TypeCorrect == Spec => []TypeOK
BY Invariance, PTL DEF Inv

\* storeDownloadedFile copies before it records: whatever fails and whenever the
\* daemon is killed, a row never names a file that does not exist.
THEOREM RecordedExists == Spec => []RecordedIsStored
BY Invariance, PTL DEF Inv

\* The file of a row is whole, or being written by a worker, or its copy was cut
\* short: the race that skip_existing leaves open heals by itself.
THEOREM RecordedIsCopied == Spec => []RecordedIsBeingCopied
<1>1. Inv => RecordedIsBeingCopied
  <2> SUFFICES ASSUME Inv, NEW c \in Contents, Recorded(c), RowPlace(c) \notin cut
               PROVE  \/ disk[RowPlace(c)] = "whole"
                      \/ \E w \in Workers : pc[w] = "fill" /\ Place(w) = RowPlace(c)
    BY DEF RecordedIsBeingCopied
  <2>1. RowPlace(c) \in Places
    BY DEF Inv, TypeOK, RowPlace, Places, Recorded, Row
  <2>2. disk[RowPlace(c)] \in {"partial", "whole"}
    BY <2>1 DEF Inv, TypeOK, RecordedIsStored
  <2> QED
    BY <2>1, <2>2 DEF Inv, NoOrphans
<1> QED
  BY <1>1, Invariance, PTL

\* hit_count counts every committed transaction of a content exactly once.
THEOREM HitsCount == Spec => []HitsAreExact
BY Invariance, PTL DEF Inv

\* A content that was once committed with a name has one of its names.
THEOREM NameKnown == Spec => []NameIsKnown
BY Invariance, PTL DEF Inv

\* A row's name, once there is one, and its extension never change, although
\* the statement that writes them was chosen by an earlier SELECT.
THEOREM NameKept == Spec => NameIsKept
<1> DEFINE Kept == \A c \in Contents : Recorded(c) =>
                     /\ rows'[c].ext = rows[c].ext
                     /\ rows[c].name # "" => rows'[c].name = rows[c].name
<1>1. ASSUME Inv, [Next]_vars PROVE [Kept]_vars
  <2>1. CASE rows' = rows
    BY <2>1
  <2>2. ASSUME NEW w \in Workers, Commits(w) PROVE Kept
    <3> SUFFICES ASSUME NEW c \in Contents, Recorded(c)
                 PROVE  /\ rows'[c].ext = rows[c].ext
                        /\ rows[c].name # "" => rows'[c].name = rows[c].name
      OBVIOUS
    <3>1. CASE c # file[w].content
      BY <1>1, <2>2, <3>1 DEF Inv, TypeOK, Commits
    <3>2. CASE c = file[w].content
      <4>1. rows'[c] = Written(w) /\ found[w] # NoRow
        BY <1>1, <2>2, <3>2 DEF Inv, TypeOK, Commits, FoundHolds, Recorded
      <4>2. /\ Written(w).ext = rows[c].ext
            /\ Written(w).name = IF rows[c].name = "" THEN file[w].name
                                                     ELSE rows[c].name
        BY <3>2, <4>1 DEF Written
      <4> QED
        BY <4>1, <4>2
    <3> QED
      BY <3>1, <3>2
  <2>3. rows' = rows \/ \E w \in Workers : Commits(w)
    BY <1>1 DEF Next, vars, Crash, Begin, Step, Proceed, Fail, Hash, HashFails,
                CopySkip, CopyCreate, CopyFill, CopyFails, Select, Update, Insert,
                InsertDuplicate, Commit, CommitLost, TransactionFails
  <2> QED
    BY <2>1, <2>2, <2>3
<1> QED
  BY <1>1, Invariance, PTL DEF Spec, NameIsKept
=============================================================================
