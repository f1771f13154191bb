------------------------------ MODULE TgLoggerd ------------------------------
(***************************************************************************)
(* The daemon's persistence pipeline.  The event loop (TgLoggerd::start)   *)
(* receives one TDLib update at a time and its handlers only post jobs:    *)
(* database upserts to serial_, downloaded media to files_.  A file worker *)
(* hashes, copies and records the file, then posts the row -> file link to *)
(* serial_.  On SIGINT/SIGTERM, or when TDLib has closed, the loop ends    *)
(* and start() drains files_ and then serial_.                             *)
(*                                                                         *)
(* Both pools are instances of Executor, which ThreadPool implements.  An  *)
(* entity is whatever owns a row that a file can be linked to: a user or a *)
(* group (its photo) or a message (its attachment).                        *)
(***************************************************************************)
EXTENDS Naturals, Sequences, FiniteSets

CONSTANTS FileWorkers,   \* the threads of files_ (TG_FILE_THREADS)
          SerialWorker,  \* the thread of serial_
          QueueMax,      \* TG_QUEUE_MAX: the capacity of both queues
          Entities,      \* the users, groups and messages
          Groups,        \* those that are groups
          MaxUpdates,    \* bound: how many updates the loop receives
          NoJob

ASSUME QueueMaxAssumption == QueueMax \in Nat
ASSUME GroupsAssumption == Groups \subseteq Entities
ASSUME MaxUpdatesAssumption == MaxUpdates \in Nat
ASSUME FileWorkersAssumption == IsFiniteSet(FileWorkers) /\ FileWorkers # {}

\* upsert(e, n): the n-th upsert of e's row.  file(e, n), link(e, n): the n-th
\* file that the loop hands to files_ for e, and its link update.
Nums == 1 .. MaxUpdates
Job(kind, e, n) == [kind |-> kind, e |-> e, n |-> n]
FileJobs == [kind : {"file"}, e : Entities, n : Nums]
SerialJobs == [kind : {"upsert", "link"}, e : Entities, n : Nums]

ASSUME NoJobAssumption == NoJob \notin FileJobs \cup SerialJobs

VARIABLES
    fPending, fRunning, fDone, fOpen, fStopped,  \* files_
    sPending, sRunning, sDone, sOpen, sStopped,  \* serial_
    lpc,       \* where start() is
    out,       \* the posts that the current handler still has to make
    received,  \* how many updates the loop has received
    upserts,   \* upserts[e]: how many upserts of e have been emitted
    files,     \* files[e]: how many files of e have been emitted
    awaiting,  \* awaiting[e]: downloads for e that TDLib has not completed
    stored,    \* stored[w]: file worker w has stored its file, not yet posted
    stop,      \* g_tgld_stop, or TDLib reports authorizationStateClosed
    rows,      \* the entities that have a row in the database
    link       \* link[e]: the n of the file linked to e's row, 0 for NULL

fVars == <<fPending, fRunning, fDone, fOpen, fStopped>>
sVars == <<sPending, sRunning, sDone, sOpen, sStopped>>
loopVars == <<lpc, out, received, upserts, files, awaiting>>
vars == <<fVars, sVars, loopVars, stored, stop, rows, link>>

Files == INSTANCE Executor
            WITH Workers <- FileWorkers, Jobs <- FileJobs, Cap <- QueueMax,
                 pending <- fPending, running <- fRunning, done <- fDone,
                 open <- fOpen, stopped <- fStopped

Serial == INSTANCE Executor
            WITH Workers <- {SerialWorker}, Jobs <- SerialJobs, Cap <- QueueMax,
                 pending <- sPending, running <- sRunning, done <- sDone,
                 open <- sOpen, stopped <- sStopped

TypeOK == /\ Files!TypeOK
          /\ Serial!TypeOK
          /\ lpc \in {"loop", "close_files", "join_files", "close_serial",
                      "join_serial", "returned"}
          /\ out \in Seq(FileJobs \cup SerialJobs)
          /\ received \in 0 .. MaxUpdates
          /\ upserts \in [Entities -> 0 .. MaxUpdates]
          /\ files \in [Entities -> 0 .. MaxUpdates]
          /\ awaiting \in [Entities -> 0 .. MaxUpdates]
          /\ stored \in [FileWorkers -> BOOLEAN]
          /\ stop \in BOOLEAN
          /\ rows \subseteq Entities
          /\ link \in [Entities -> 0 .. MaxUpdates]

Init == /\ Files!Init
        /\ Serial!Init
        /\ lpc = "loop"
        /\ out = <<>>
        /\ received = 0
        /\ upserts = [e \in Entities |-> 0]
        /\ files = [e \in Entities |-> 0]
        /\ awaiting = [e \in Entities |-> 0]
        /\ stored = [w \in FileWorkers |-> FALSE]
        /\ stop = FALSE
        /\ rows = {}
        /\ link = [e \in Entities |-> 0]

-----------------------------------------------------------------------------
(* The event loop *)

\* while (!isStopped() && !g_tgld_stop) loop(10): one more update is received.
ReceiveUpdate == /\ lpc = "loop"
                 /\ out = <<>>
                 /\ ~stop
                 /\ received < MaxUpdates
                 /\ received' = received + 1

UpsertOf(e) == Job("upsert", e, upserts[e] + 1)
FileOf(e) == Job("file", e, files[e] + 1)

\* The media of e is already on disk, so its file is emitted at once.
EmitFile(e) == /\ files' = [files EXCEPT ![e] = @ + 1]
               /\ UNCHANGED awaiting

\* downloadFile is requested, and the file id remembered as pending.
RequestDownload(e) == /\ awaiting' = [awaiting EXCEPT ![e] = @ + 1]
                      /\ UNCHANGED files

\* Mutant: the file is handed over before the row.
OnEntity_FileFirst(e) ==
    /\ ReceiveUpdate
    /\ upserts' = [upserts EXCEPT ![e] = @ + 1]
    /\ \/ out' = <<UpsertOf(e)>> /\ UNCHANGED <<files, awaiting>>
       \/ out' = <<FileOf(e), UpsertOf(e)>> /\ EmitFile(e)
       \/ out' = <<UpsertOf(e)>> /\ RequestDownload(e)
    /\ UNCHANGED <<fVars, sVars, lpc, stored, stop, rows, link>>

\* An update about e without media, with media that TDLib has downloaded
\* already, or with media whose download it starts.  The row's upsert is always
\* handed to its handler first.
OnEntity(e) ==
    /\ ReceiveUpdate
    /\ upserts' = [upserts EXCEPT ![e] = @ + 1]
    /\ \/ out' = <<UpsertOf(e)>> /\ UNCHANGED <<files, awaiting>>
       \/ out' = <<UpsertOf(e), FileOf(e)>> /\ EmitFile(e)
       \/ out' = <<UpsertOf(e)>> /\ RequestDownload(e)
    /\ UNCHANGED <<fVars, sVars, lpc, stored, stop, rows, link>>

\* updateChatPhoto: a photo and no upsert, for a chat that chat_to_group_ knows
\* (which it does from the moment the group was first emitted).
OnGroupPhoto(e) ==
    /\ ReceiveUpdate
    /\ e \in Groups
    /\ upserts[e] > 0
    /\ \/ out' = <<FileOf(e)>> /\ EmitFile(e)
       \/ out' = <<>> /\ RequestDownload(e)
    /\ UNCHANGED <<fVars, sVars, lpc, upserts, stored, stop, rows, link>>

\* updateFile: a download has completed.
OnFile(e) ==
    /\ ReceiveUpdate
    /\ awaiting[e] > 0
    /\ awaiting' = [awaiting EXCEPT ![e] = @ - 1]
    /\ out' = <<FileOf(e)>>
    /\ files' = [files EXCEPT ![e] = @ + 1]
    /\ UNCHANGED <<fVars, sVars, lpc, upserts, stored, stop, rows, link>>

\* Mutant: a full queue drops the job instead of blocking.
PostNext_Drop ==
    /\ out # <<>>
    /\ IF Head(out).kind = "file"
       THEN /\ IF Files!HasRoom THEN Files!Accept(Head(out)) ELSE UNCHANGED fVars
            /\ UNCHANGED sVars
       ELSE /\ IF Serial!HasRoom THEN Serial!Accept(Head(out)) ELSE UNCHANGED sVars
            /\ UNCHANGED fVars
    /\ out' = Tail(out)
    /\ UNCHANGED <<lpc, received, upserts, files, awaiting, stored, stop, rows, link>>

\* The handler posts; while the queue is full it blocks, and the loop with it.
PostNext ==
    /\ out # <<>>
    /\ IF Head(out).kind = "file"
       THEN Files!Accept(Head(out)) /\ UNCHANGED sVars
       ELSE Serial!Accept(Head(out)) /\ UNCHANGED fVars
    /\ out' = Tail(out)
    /\ UNCHANGED <<lpc, received, upserts, files, awaiting, stored, stop, rows, link>>

\* The signal handler, or authorizationStateClosed: at any time.
Stop ==
    /\ ~stop
    /\ stop' = TRUE
    /\ UNCHANGED <<fVars, sVars, loopVars, stored, rows, link>>

LeaveLoop ==
    /\ lpc = "loop"
    /\ out = <<>>
    /\ stop
    /\ lpc' = "close_files"
    /\ UNCHANGED <<fVars, sVars, out, received, upserts, files, awaiting,
                   stored, stop, rows, link>>

\* Mutant: files_ is told to drain but not waited for.
ShutdownFiles_NoJoin ==
    /\ lpc = "close_files" /\ Files!Close /\ lpc' = "close_serial"
    /\ UNCHANGED <<sVars, out, received, upserts, files, awaiting,
                   stored, stop, rows, link>>

\* files_->shutdown(), then serial_->shutdown(); each drains, then joins.
ShutdownFiles ==
    /\ \/ lpc = "close_files" /\ Files!Close /\ lpc' = "join_files"
       \/ lpc = "join_files" /\ Files!Stop /\ lpc' = "close_serial"
    /\ UNCHANGED <<sVars, out, received, upserts, files, awaiting,
                   stored, stop, rows, link>>

ShutdownSerial ==
    /\ \/ lpc = "close_serial" /\ Serial!Close /\ lpc' = "join_serial"
       \/ lpc = "join_serial" /\ Serial!Stop /\ lpc' = "returned"
    /\ UNCHANGED <<fVars, out, received, upserts, files, awaiting,
                   stored, stop, rows, link>>

-----------------------------------------------------------------------------
(* A files_ worker: onProfilePhoto, onGroupPhoto, onMessageFile *)

StartFile(w) ==
    /\ Files!Start(w)
    /\ UNCHANGED <<sVars, loopVars, stored, stop, rows, link>>

\* storeDownloadedFile() returns an id.
StoreFile(w) ==
    /\ fRunning[w] # NoJob
    /\ ~stored[w]
    /\ stored' = [stored EXCEPT ![w] = TRUE]
    /\ UNCHANGED <<fVars, sVars, loopVars, stop, rows, link>>

\* It returns nullopt or throws: the error is logged and the job ends.
StoreFileFails(w) ==
    /\ ~stored[w]
    /\ Files!Finish(w)
    /\ UNCHANGED <<sVars, loopVars, stored, stop, rows, link>>

LinkOf(w) == Job("link", fRunning[w].e, fRunning[w].n)

\* serial_->post(link): blocks while serial_ is full, is dropped when closed.
PostLink(w) ==
    /\ stored[w]
    /\ IF sOpen THEN Serial!Accept(LinkOf(w)) ELSE UNCHANGED sVars
    /\ Files!Finish(w)
    /\ stored' = [stored EXCEPT ![w] = FALSE]
    /\ UNCHANGED <<loopVars, stop, rows, link>>

-----------------------------------------------------------------------------
(* The serial_ worker *)

\* Mutant: the worker takes no job once the daemon is told to stop.
StartSerial_UnlessStop ==
    /\ ~stop
    /\ Serial!Start(SerialWorker)
    /\ UNCHANGED <<fVars, loopVars, stored, stop, rows, link>>

StartSerial ==
    /\ Serial!Start(SerialWorker)
    /\ UNCHANGED <<fVars, loopVars, stored, stop, rows, link>>

\* The statement succeeds.  An upsert keeps the link; a link is an UPDATE that
\* changes nothing when the row is not there.
RunSerial ==
    /\ Serial!Finish(SerialWorker)
    /\ LET job == sRunning[SerialWorker]
       IN  \/ /\ job.kind = "upsert"
              /\ rows' = rows \cup {job.e}
              /\ UNCHANGED link
           \/ /\ job.kind = "link"
              /\ link' = IF job.e \in rows THEN [link EXCEPT ![job.e] = job.n] ELSE link
              /\ UNCHANGED rows
    /\ UNCHANGED <<fVars, loopVars, stored, stop>>

\* The transaction throws: it is rolled back and logged.
RunSerialFails ==
    /\ Serial!Finish(SerialWorker)
    /\ UNCHANGED <<fVars, loopVars, stored, stop, rows, link>>

-----------------------------------------------------------------------------
\* Not a step of the code: start() has returned.
Terminated == lpc = "returned" /\ stop /\ UNCHANGED vars

LoopStep == PostNext \/ LeaveLoop \/ ShutdownFiles \/ ShutdownSerial

FileStep(w) == StartFile(w) \/ StoreFile(w) \/ StoreFileFails(w) \/ PostLink(w)

SerialStep == StartSerial \/ RunSerial \/ RunSerialFails

Next == \/ \E e \in Entities : OnEntity(e) \/ OnGroupPhoto(e) \/ OnFile(e)
        \/ Stop
        \/ LoopStep
        \/ \E w \in FileWorkers : FileStep(w)
        \/ SerialStep
        \/ Terminated

Spec == Init /\ [][Next]_vars

\* Threads that can run do, and hashing, copying and statements come to an end.
\* Nothing obliges TDLib to send updates or anybody to send a signal.
Fairness == /\ WF_vars(LoopStep)
            /\ \A w \in FileWorkers : WF_vars(FileStep(w))
            /\ WF_vars(SerialStep)

FairSpec == Spec /\ Fairness

-----------------------------------------------------------------------------
(* Properties *)

\* When serial_ executes a link, the upsert of the row it refers to has been
\* executed before it (successfully or not): "ordered after the entity/message
\* row was written", although the link takes the way through another pool.
RowBeforeLink ==
    LET job == sRunning[SerialWorker]
    IN  job # NoJob /\ job.kind = "link" =>
            \E i \in 1 .. Len(sDone) : sDone[i].kind = "upsert" /\ sDone[i].e = job.e

\* files_ is drained before serial_ is closed: a worker that has stored a file
\* never finds serial_ closed and never has its link dropped.
LinkIsAccepted == (\E w \in FileWorkers : stored[w]) => sOpen

\* When start() returns, every upsert and every file that the loop emitted has
\* been through its pool, and no job is left in either.
DrainedOnReturn ==
    lpc = "returned" =>
        /\ fPending = <<>> /\ Files!Idle /\ sPending = <<>> /\ Serial!Idle
        /\ \A e \in Entities :
              /\ \A n \in 1 .. upserts[e] :
                    \E i \in 1 .. Len(sDone) : sDone[i] = Job("upsert", e, n)
              /\ \A n \in 1 .. files[e] :
                    \E i \in 1 .. Len(fDone) : fDone[i] = Job("file", e, n)

\* A daemon that is told to stop returns from start(), whichever queues are full
\* and whoever blocks on them.
StopReturns == stop ~> lpc = "returned"
=============================================================================
