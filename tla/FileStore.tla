------------------------------ MODULE FileStore ------------------------------
(***************************************************************************)
(* storeDownloadedFile() as the workers of files_ run it, in parallel:     *)
(* hash the download, copy it to its content-addressed place under         *)
(* storage_dir_, and count it in the files table, one row per SHA-256.     *)
(*                                                                         *)
(* Two things are shared: the directory tree, where std::filesystem::      *)
(* copy_file first creates the destination and then fills it, and the      *)
(* table, where each worker runs upsertFile's SELECT and INSERT or UPDATE  *)
(* in a transaction of its own, on a connection of its own.  Locks are     *)
(* InnoDB's: a statement that writes a row waits for the transaction that  *)
(* has written it, SELECT does not wait and sees what is committed.        *)
(*                                                                         *)
(* SHA-256 is taken to be injective: a content is its own digest.  The     *)
(* other unique key of the table, tg_file_id, is not kept: two contents    *)
(* without a remote id have the same one, the second INSERT throws like    *)
(* any other statement that fails, and TransactionFails covers it.         *)
(***************************************************************************)
EXTENDS Naturals

CONSTANTS Workers,     \* the threads of files_
          Contents,    \* what a download can contain, and so the digests
          Exts,        \* lower-case extensions of local_path, "" for none
          Names,       \* values of orig_file_name, "" for none
          NoRow,       \* no row has this digest
          NoFile,      \* the worker has no download
          NoWorker,    \* no transaction has written the row
          MaxStores,   \* bound: downloads that are handed to the workers
          MaxCrashes,  \* bound: how often the daemon is killed and restarted
          Failures     \* environment: hashing, directories, copies and
                       \* transactions may fail

ASSUME BoundsAssumption == MaxStores \in Nat /\ MaxCrashes \in Nat
ASSUME FailuresAssumption == Failures \in BOOLEAN
ASSUME NoWorkerAssumption == NoWorker \notin Workers

Download == [content : Contents, ext : Exts, name : Names]

Row == [ext : Exts, name : Names, hits : Nat]

ASSUME NoRowAssumption == NoRow \notin Row

\* <storage_dir_>/xx/xx/xx/xx/xx/<sha256>[.ext]
Places == Contents \X Exts

\* "idle": waiting for a download; "hash": in sha256_file_hex or
\* create_directories; "copy": about to call copy_file; "fill": copy_file has
\* created the destination and is writing to it; "select", "update", "insert",
\* "commit": about to execute that statement of upsertFile's transaction.
PCs == {"idle", "hash", "copy", "fill", "select", "update", "insert", "commit"}

\* How the last call of storeDownloadedFile ended.
Results == {"none", "id", "nullopt", "thrown", "duplicate"}

VARIABLES pc,       \* pc[w]: where worker w is
          file,     \* file[w]: its download
          found,    \* found[w]: what its SELECT returned
          result,   \* result[w]: how its last call ended
          disk,     \* disk[p]: what is at place p
          rows,     \* rows[c]: the committed row with digest c
          writer,   \* writer[c]: the worker whose open transaction has written c
          stores,   \* how many downloads were handed out
          crashes,  \* how often the daemon was killed
          commits,  \* history: commits[c], the transactions that counted c
          named,    \* history: the names committed with c, a set
          cut       \* history: the places at which a copy was cut short

vars == <<pc, file, found, result, disk, rows, writer, stores, crashes, commits,
          named, cut>>

TypeOK ==
    /\ pc \in [Workers -> PCs]
    /\ file \in [Workers -> Download \cup {NoFile}]
    /\ found \in [Workers -> Row \cup {NoRow}]
    /\ result \in [Workers -> Results]
    /\ disk \in [Places -> {"absent", "partial", "whole"}]
    /\ rows \in [Contents -> Row \cup {NoRow}]
    /\ writer \in [Contents -> Workers \cup {NoWorker}]
    /\ stores \in 0 .. MaxStores
    /\ crashes \in 0 .. MaxCrashes
    /\ commits \in [Contents -> Nat]
    /\ named \in [Contents -> SUBSET Names]
    /\ cut \subseteq Places

Init ==
    /\ pc = [w \in Workers |-> "idle"]
    /\ file = [w \in Workers |-> NoFile]
    /\ found = [w \in Workers |-> NoRow]
    /\ result = [w \in Workers |-> "none"]
    /\ disk = [p \in Places |-> "absent"]
    /\ rows = [c \in Contents |-> NoRow]
    /\ writer = [c \in Contents |-> NoWorker]
    /\ stores = 0
    /\ crashes = 0
    /\ commits = [c \in Contents |-> 0]
    /\ named = [c \in Contents |-> {}]
    /\ cut = {}

Place(w) == <<file[w].content, file[w].ext>>

\* The call ends: the worker forgets its download, and its transaction, if it
\* had one open, is over.
Return(w, r) ==
    /\ pc' = [pc EXCEPT ![w] = "idle"]
    /\ file' = [file EXCEPT ![w] = NoFile]
    /\ found' = [found EXCEPT ![w] = NoRow]
    /\ result' = [result EXCEPT ![w] = r]

Unlock(w) == writer' = [c \in Contents |-> IF writer[c] = w THEN NoWorker ELSE writer[c]]

-----------------------------------------------------------------------------
(* storeDownloadedFile: hash and copy *)

Begin(w, d) ==
    /\ pc[w] = "idle"
    /\ stores < MaxStores
    /\ stores' = stores + 1
    /\ pc' = [pc EXCEPT ![w] = "hash"]
    /\ file' = [file EXCEPT ![w] = d]
    /\ result' = [result EXCEPT ![w] = "none"]
    /\ UNCHANGED <<found, disk, rows, writer, crashes, commits, named, cut>>

\* sha256_file_hex has read the download, and the directories exist.
Hash(w) ==
    /\ pc[w] = "hash"
    /\ pc' = [pc EXCEPT ![w] = "copy"]
    /\ UNCHANGED <<file, found, result, disk, rows, writer, stores, crashes,
                   commits, named, cut>>

\* The download cannot be read, or a directory cannot be made.
HashFails(w) ==
    /\ Failures
    /\ pc[w] = "hash"
    /\ Return(w, "nullopt")
    /\ UNCHANGED <<disk, rows, writer, stores, crashes, commits, named, cut>>

\* copy_options::skip_existing: there is something at the destination.
CopySkip(w) ==
    /\ pc[w] = "copy"
    /\ disk[Place(w)] # "absent"
    /\ pc' = [pc EXCEPT ![w] = "select"]
    /\ UNCHANGED <<file, found, result, disk, rows, writer, stores, crashes,
                   commits, named, cut>>

\* open(dest, O_CREAT | O_EXCL)
CopyCreate(w) ==
    /\ pc[w] = "copy"
    /\ disk[Place(w)] = "absent"
    /\ disk' = [disk EXCEPT ![Place(w)] = "partial"]
    /\ pc' = [pc EXCEPT ![w] = "fill"]
    /\ UNCHANGED <<file, found, result, rows, writer, stores, crashes, commits,
                   named, cut>>

\* Mutant: the copy ends short of the last block.
CopyFill_Short(w) ==
    /\ pc[w] = "fill"
    /\ pc' = [pc EXCEPT ![w] = "select"]
    /\ UNCHANGED <<file, found, result, disk, rows, writer, stores, crashes,
                   commits, named, cut>>

CopyFill(w) ==
    /\ pc[w] = "fill"
    /\ disk' = [disk EXCEPT ![Place(w)] = "whole"]
    /\ pc' = [pc EXCEPT ![w] = "select"]
    /\ UNCHANGED <<file, found, result, rows, writer, stores, crashes, commits,
                   named, cut>>

\* Mutant: the error code of copy_file is not examined.
CopyFails_Ignored(w) ==
    /\ Failures
    /\ pc[w] \in {"copy", "fill"}
    /\ pc' = [pc EXCEPT ![w] = "select"]
    /\ UNCHANGED <<file, found, result, disk, rows, writer, stores, crashes,
                   commits, named, cut>>

\* copy_file reports an error, before or after it has created the destination;
\* what it has written stays there.
CopyFails(w) ==
    /\ Failures
    /\ pc[w] \in {"copy", "fill"}
    /\ Return(w, "nullopt")
    /\ cut' = IF pc[w] = "fill" THEN cut \cup {Place(w)} ELSE cut
    /\ UNCHANGED <<disk, rows, writer, stores, crashes, commits, named>>

-----------------------------------------------------------------------------
(* upsertFile *)

\* A plain SELECT reads the last committed state and takes no lock.
Select(w) ==
    /\ pc[w] = "select"
    /\ found' = [found EXCEPT ![w] = rows[file[w].content]]
    /\ pc' = [pc EXCEPT ![w] =
                 IF rows[file[w].content] # NoRow THEN "update" ELSE "insert"]
    /\ UNCHANGED <<file, result, disk, rows, writer, stores, crashes, commits,
                   named, cut>>

\* UPDATE ... WHERE id = ? waits for the row's lock.
Update(w) ==
    /\ pc[w] = "update"
    /\ writer[file[w].content] = NoWorker
    /\ writer' = [writer EXCEPT ![file[w].content] = w]
    /\ pc' = [pc EXCEPT ![w] = "commit"]
    /\ UNCHANGED <<file, found, result, disk, rows, stores, crashes, commits,
                   named, cut>>

\* INSERT waits for a transaction that has inserted the same sha256.
Insert(w) ==
    /\ pc[w] = "insert"
    /\ writer[file[w].content] = NoWorker
    /\ rows[file[w].content] = NoRow
    /\ writer' = [writer EXCEPT ![file[w].content] = w]
    /\ pc' = [pc EXCEPT ![w] = "commit"]
    /\ UNCHANGED <<file, found, result, disk, rows, stores, crashes, commits,
                   named, cut>>

\* Mutant: INSERT ... ON DUPLICATE KEY UPDATE with the values of the new row.
InsertDuplicate_Replaces(w) ==
    /\ pc[w] = "insert"
    /\ writer[file[w].content] = NoWorker
    /\ rows[file[w].content] # NoRow
    /\ writer' = [writer EXCEPT ![file[w].content] = w]
    /\ pc' = [pc EXCEPT ![w] = "commit"]
    /\ UNCHANGED <<file, found, result, disk, rows, stores, crashes, commits,
                   named, cut>>

\* uq_files_sha256: another worker has committed the row since the SELECT.
InsertDuplicate(w) ==
    /\ pc[w] = "insert"
    /\ writer[file[w].content] = NoWorker
    /\ rows[file[w].content] # NoRow
    /\ Return(w, "duplicate")
    /\ UNCHANGED <<disk, rows, writer, stores, crashes, commits, named, cut>>

\* Mutant: the new values are computed from what the SELECT returned.
Written_FromSelect(w) ==
    IF found[w] = NoRow
    THEN [ext |-> file[w].ext, name |-> file[w].name, hits |-> 1]
    ELSE [found[w] EXCEPT !.hits = @ + 1,
                          !.name = IF @ = "" THEN file[w].name ELSE @]

\* The row as w's transaction has left it.  UPDATE computes hit_count + 1 and
\* IF(orig_file_name = '', ...) from the row it has locked.
Written(w) ==
    LET row == rows[file[w].content] IN
    IF found[w] = NoRow
    THEN [ext |-> file[w].ext, name |-> file[w].name, hits |-> 1]
    ELSE [ext |-> row.ext,
          name |-> IF row.name = "" THEN file[w].name ELSE row.name,
          hits |-> row.hits + 1]

\* The server's side of COMMIT.
Commits(w) ==
    /\ pc[w] = "commit"
    /\ rows' = [rows EXCEPT ![file[w].content] = Written(w)]
    /\ commits' = [commits EXCEPT ![file[w].content] = @ + 1]
    /\ named' = [named EXCEPT ![file[w].content] = @ \cup {file[w].name}]
    /\ Unlock(w)
    /\ UNCHANGED <<disk, stores, crashes, cut>>

\* Mutant: the transaction stays open when the connection goes back to the pool.
Commit_Open(w) ==
    /\ pc[w] = "commit"
    /\ Return(w, "id")
    /\ UNCHANGED <<disk, rows, writer, stores, crashes, commits, named, cut>>

Commit(w) == Commits(w) /\ Return(w, "id")

\* The connection breaks after the server has committed.
CommitLost(w) == Failures /\ Commits(w) /\ Return(w, "thrown")

\* Any statement fails or the connection breaks: the transaction is rolled back.
TransactionFails(w) ==
    /\ Failures
    /\ pc[w] \in {"select", "update", "insert", "commit"}
    /\ Return(w, "thrown")
    /\ Unlock(w)
    /\ UNCHANGED <<disk, rows, stores, crashes, commits, named, cut>>

-----------------------------------------------------------------------------

\* The daemon is killed and started again: the server rolls back what is open,
\* the directory tree stays as it is.
Crash ==
    /\ crashes < MaxCrashes
    /\ crashes' = crashes + 1
    /\ pc' = [w \in Workers |-> "idle"]
    /\ file' = [w \in Workers |-> NoFile]
    /\ found' = [w \in Workers |-> NoRow]
    /\ result' = [w \in Workers |-> "none"]
    /\ writer' = [c \in Contents |-> NoWorker]
    /\ cut' = cut \cup {Place(w) : w \in {u \in Workers : pc[u] = "fill"}}
    /\ UNCHANGED <<disk, rows, stores, commits, named>>

Proceed(w) == \/ Hash(w)
              \/ CopySkip(w) \/ CopyCreate(w) \/ CopyFill(w)
              \/ Select(w) \/ Update(w) \/ Insert(w) \/ InsertDuplicate(w)
              \/ Commit(w)

Fail(w) == HashFails(w) \/ CopyFails(w) \/ CommitLost(w) \/ TransactionFails(w)

Step(w) == Proceed(w) \/ Fail(w)

Next == \/ Crash
        \/ \E w \in Workers : \/ \E d \in Download : Begin(w, d)
                              \/ Step(w)

\* A worker that can go on does: system calls return, and the server answers.
\* A lock is given to each of those who wait for it (strong fairness), as InnoDB
\* queues them.  Nothing has to fail.
Fairness == \A w \in Workers : SF_vars(Proceed(w))

Spec == Init /\ [][Next]_vars /\ Fairness

-----------------------------------------------------------------------------
(* Properties *)

Recorded(c) == rows[c] # NoRow

RowPlace(c) == <<c, rows[c].ext>>

\* The file that a row names, by its digest and its own extension, is on disk in
\* some form whatever fails and whenever the daemon is killed: no worker records
\* a content before a copy under that extension was begun, and a later download
\* with another extension does not redirect the row.
RecordedIsStored ==
    \A c \in Contents : Recorded(c) => disk[RowPlace(c)] # "absent"

\* The file that a row names is whole, or a worker is at this moment copying it, or
\* its copy was cut short by an error or by the end of the daemon: skip_existing
\* alone never leaves a fragment.
RecordedIsBeingCopied ==
    \A c \in Contents : Recorded(c) =>
        \/ disk[RowPlace(c)] = "whole"
        \/ \E w \in Workers : pc[w] = "fill" /\ Place(w) = RowPlace(c)
        \/ RowPlace(c) \in cut

\* hit_count is exact: it counts the committed transactions of this content,
\* those included whose answer was lost, and none twice.
HitsAreExact ==
    \A c \in Contents :
        commits[c] = IF Recorded(c) THEN rows[c].hits ELSE 0

\* A content that was ever committed with a name has one, one of those that were
\* committed.
NameIsKnown ==
    \A c \in Contents : Recorded(c) =>
        /\ rows[c].name \in named[c]
        /\ (\E n \in named[c] : n # "") => rows[c].name # ""

\* Once set, a row's name and extension never change.
NameIsKept ==
    [][\A c \in Contents : Recorded(c) =>
          /\ rows'[c].ext = rows[c].ext
          /\ rows[c].name # "" => rows'[c].name = rows[c].name]_vars

\* upsertFile as documented in DB.hpp: an id in both cases, so no call fails
\* because another has inserted the same content.
UpsertReturnsId == \A w \in Workers : result[w] # "duplicate"

\* Every call of storeDownloadedFile ends, so that the worker is free again: the
\* transactions of other workers cannot block one forever.
StoreReturns == \A w \in Workers : pc[w] # "idle" ~> pc[w] = "idle"
=============================================================================
