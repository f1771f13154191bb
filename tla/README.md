# Verification of tgloggerd

tgloggerd is a daemon that logs a Telegram account into MySQL: users, groups,
administrators, messages with their edits and deletions, and media. This
directory holds TLA+ models of its concurrent core, of its database layer, of
its message, file, user and group stores and of the client that feeds them, the
TLC runs that check them on small instances, and TLAPS proofs of the results that
should hold for every size. `PROJECT.json` is the machine-readable index: which definition models which lines, which run checks which property,
which mutated definition each property rejects.

Paths below are relative to the repository (`src/tgloggerd/...`,
`src/mysql/...`); in `PROJECT.json` they carry the prefix under which the
repository is kept.

## 1. Inventory

| Component | State | Operations | Hard part |
| --- | --- | --- | --- |
| `ThreadPool` | `q_`, `draining_`, two condition variables, worker threads | `post`, `run`, `shutdown` | blocked posters, notifications after the unlock, draining |
| `mysql::ConnectionPool` | `idle_`, `created_`, `mtx_`, `create_mtx_`, `cv_` | `acquire`, `create`, `release` | slots reserved before they exist, failing connects, a wait without a predicate |
| `mysql::Database`, `Transaction` | the autocommit mode of a borrowed connection | `execute`, `query`, `insert`, `transaction` | failures of commit, rollback, `setAutoCommit` |
| `TgLoggerd` | `serial_`, `files_`, `db_`, `g_tgld_stop` | handlers, `onProfilePhoto`, `onGroupPhoto`, `onMessageFile`, `storeDownloadedFile`, the loop and the drain of `start` | order across two pools, backpressure across two pools, shutdown |
| Message store (`models/Message`, `PrivateMessage`, `GroupMessage`) | two message tables, two edit tables, two forward-info tables | upsert, file link, reply link | edits, deletions, rebuilds and links in any order |
| File store (`storeDownloadedFile`, `models/File`) | content-addressed directory, `files` | hash, copy, `upsertFile` | workers with equal content, a crash in a copy |
| User, group, admin stores | `users`, `groups`, usernames, history tables, admin lists | upserts, `syncUsernames`, `syncGroupAdmins`, photo history | diffs against the stored rows; two notions of equality for usernames |
| `TDLib` client | caches of users, groups and supergroups, pending queries, pending downloads, reply dedup set, poll queue | `process_update` and its handlers, answers to queries | answers that arrive later than what they were asked for |
| `main`, C interface, helpers | the stop flag | start-up, signals, logging | - |

Interaction: the event loop (one thread) receives TDLib updates and answers;
the handlers turn them into models and post jobs. Row upserts go to `serial_`
(one worker). Media go to `files_` (several workers), which hash, copy and
record the file and then post the row -> file link to `serial_`. All jobs use
the database through the connection pool. A signal or TDLib's closing ends the
loop; `start()` then drains `files_` and after it `serial_`.

What makes the parts correct, in a sentence each:

* a pool loses, duplicates and reorders no job, never hangs, and `shutdown`
  drains;
* the connection pool never lends a connection twice, never loses a slot, and
  always serves a waiter;
* a link is written after its row and is not lost at shutdown; a stop always
  ends;
* the tables keep every content that the daemon got to see, flag deletions
  exactly (unless the job of one throws), and never undo a link;
* a row of `files` names a file that exists, counts its stores exactly and keeps
  its name, whatever fails in between;
* a transaction is durable as a whole or not at all, and a pooled connection
  carries nothing over to its next user;
* a group is handed on whole and up to date whatever order its pieces come in,
  and its administrators are polled for as long as it is tracked;
* what the client remembers as known has been posted before anything that refers
  to it, and every reply that is stored is linked in the end unless its job throws;
* a username's row names whoever was last told to have it, and histories and
  event logs tell the same story as the tables.

`PROJECT.json` lists the hazards behind these sentences, each with its line.

## 2. Modules and how they correspond to the code

`Executor` - what a pool promises: accept in order while open and not full,
start the oldest, finish, close, stop when closed and empty. No mutex and no
program counter.

`ThreadPool` - the implementation. A critical section under `mtx_` is one step
(everything between lock and wait or unlock is invisible to the others);
notifications issued after an unlock (`run`'s `not_full_.notify_one`, both
`notify_all`s of `shutdown`) are steps of their own; `post`'s notification is
inside the critical section and part of `PostEnqueue`. Waiting threads wake by
notification or spuriously. `accepted`, `started`, `completed` are history
variables; a job is named by its poster and number. `ThreadPool` states
`ImplementsExecutor` with the mapping pending <- `q_`, running <- the local
`job`, open <- not `draining_`, stopped <- every worker has left `run`.

`ConnectionPool` - `acquire`'s loop, the reservation, `create()` in three steps
(`create_mtx_`, `connect`, session setup) with a failure possible at each, the
catch block, `release` with its late notification. A thread borrows and returns
as `ScopedConnection` does.

`TgLoggerd` - composes two instances of `Executor`: `Files` and `Serial`. The
posts that one handler makes are a sequence `out`, emptied post by post, so that
the loop can block in the middle of a handler. An entity stands for a user, a
group or a message: whatever has a row to which a file is linked. A job carries
a number so that properties can tell files of the same row apart. An upsert
that throws, or that has nothing to write (the deletion of an unknown message),
is `RunSerialFails`; a file that cannot be stored is `StoreFileFails`.

`MessageStore` - both message tables, edits, forward info. Its four operations
run one after another on `serial_`, each in one transaction, so each is one
step. Telegram is the environment: it holds the true content and edit date of
each message. `Store` upserts what Telegram holds when the daemon looks (a new
message, an edit it hears of, the target of a reply), so versions can be
missed. (content_type, text) is one value; the default-constructed content of a
deletion is `Blank`. Columns that no operation reads back are left out. Two
constants describe the environment: `SameSecondEdits` (the messages that can be
edited twice within the resolution of `edit_date`) and `CacheDeletes` (those of
which `updateDeleteMessages` may come without `is_permanent`, a flag that
`handle_delete_messages` ignores). The messages in neither set are `Steady`. A job
that throws is logged and dropped. A store or link that throws changes nothing, so
it is a behaviour without that step; a deletion that throws is not, since Telegram
has deleted the message and does not say so again: `Delete` has both outcomes, and
`missed` remembers the second. Since everything between TDLib's queue and
the tables is FIFO (`process_response`, `serial_`), reading Telegram's copy at
the moment of the upsert loses no behaviour.

`FileStore` - `storeDownloadedFile` and `upsertFile`, as several workers run
them at the same time. `Hash` stands for hashing and `create_directories`. The
copy is two steps, because `copy_file` creates the destination and then fills
it: `CopyCreate`, `CopyFill`; `CopySkip` is `skip_existing`. `Select`, `Update`,
`Insert`, `Commit` are the statements of the transaction; a statement that
writes waits for the transaction that holds the row, as in InnoDB, and `SELECT`
does not. `InsertDuplicate` is the unique key rejecting the second of two
inserts; the key of `tg_file_id`, which may be empty (`TDLib.cpp:1324`), is not kept,
and an insert that it rejects is one of the failures of `TransactionFails`. With
`Failures` every step may fail, and `Crash` kills the daemon:
open transactions roll back, half-written files stay. `commits`, `named` and
`cut` are history variables.

`Database` - `transaction()` and single statements on borrowed connections:
`setAutoCommit(false)`, the statements of `fn`, `commit`, `setAutoCommit(true)`,
and the catch blocks with their best-effort `rollback` and `setAutoCommit(true)`.
A session may end at any moment (`Disconnect`); nothing revives its connection.
A statement can be rejected on a live session, an answer to `COMMIT` can be
lost. The pool is a set here; `ConnectionPool` has its inside, and theorem
`LendingIsAtomic` says that this is all its users see of it.

`GroupTracker` - the part of `TDLib::Impl` that assembles a group from
`updateNewChat`, `updateSupergroup`, the full infos and the answers to `getChat`,
and polls administrators. It runs on the loop's thread, so each update and each
answer is one step; the nondeterminism is the order in which they come, and the
answers of Telegram. `group` is `group_state_` and `cached` is `supergroups_`, both by
raw id: `id` says which id each group has, and a basic group and a supergroup may
have the same one. They then share one `GroupState`, which belongs to the chat that
came last (`chat`, which is `chat_id` and `chat_seen`), and `emitted` is by that chat.
`chats` is the domain of `chat_to_group_`, `alarms` the unanswered `setAlarm`
requests. `PollAdminBatch` gives in closed form what the loop of
`poll_admin_batch` leaves in the queue: `Scanned` is how far the loop gets, `Nth(j)`
the position of the j-th tracked group on the way, and `Front` the groups it puts
back. (Positions and cardinalities instead of a filter over the sequence: the
library's `SelectSeq` is recursive, and nothing could be proved about it.) `told`,
`denied` and `polled` are history variables; `told` has what Telegram said of the
groups that are `Alone` with their id. A channel is a supergroup with another type.

`EventLoop` - the rest of `TDLib::Impl`: how updates and answers about messages,
users, chats and files become jobs. A handler runs to its end on the loop's
thread and is one step, with everything it posts to `serial_` and asks Telegram
for: `Posted` and `Requested` are what `handle_message_for_*_chat` does, from the
forward origin (`resolve_forward_origin`) over the message to the reply
(`resolve_reply_message` with the dedup set `resolved` and `kMaxReplyDepth`).
Requests are a bag; their answers, an error among them, come in any order, with
updates between. `serial` is the queue of the serial pool, which keeps the order
(theorem `Serial`); a job is one transaction. Any job may throw (`JobThrows`: no
connection, a lost session, a deadlock); the handler's `catch` logs that and the job
is gone (`failed`). `SaveMessage` always throws when a foreign key (chat, sender, user
of the forward origin) finds no row: the message is `lost`, for the entities in
`missing`. `LinkReply` finds a target only in the table of the reply (`SameTable`), as
the LEFT JOIN does. `known` is `users_` and `chat_to_group_`. The messages of a behaviour are
one of the `Shapes`; `EventLoopMC` lists them. `sure` and `fetched` in a job, and
`failed`, `lost`, `dangling`, `wanting`, are history. A user's photo and full info are left
out: they change nothing of what is kept here.
`HandlerPromises`, which `EventLoop` extends, states the two safety properties of
the handlers on the jobs that threw (`failed`), failed on a foreign key (`lost`) or
found no target (`dangling`).

`EntityStore` - the tables of users, groups, usernames and administrators with
their histories. Each operation is one transaction on `serial_` and one step; a
transaction that throws changes nothing. User and group differ in their columns
only (`Columns`), and `syncGroupUsernames` is the same diff as `syncUsernames` on
another table (`UserNames` and `GroupNames` are disjoint). A username is the set of
its spellings: the tables have the collation `utf8mb4_0900_ai_ci`, so the unique
key and `WHERE username = ?` ignore case, while `old_map` and `new_map` compare
bytes. `Claimed` keeps the spelling of the first insert, as `ON DUPLICATE KEY
UPDATE` does. The event log is modelled by its last event per entity and
spelling; `logged` has the spellings with an event in the last transaction.
`seen` and `holder` are history variables.

`ThreadPoolProofs`, `ConnectionPoolProofs`, `MessageStoreProofs`,
`FileStoreProofs`, `DatabaseProofs`, `EntityStoreProofs`, `GroupTrackerProofs`,
`TgLoggerdProofs` - the theorems, each about the module it is named after.
`TgLoggerdProofs` has those about `EventLoop` too, which feeds the pipeline: both are
about jobs that must not overtake each other on their way through `serial_`, and share
the lemmas on sequences. It extends `HandlerPromises` and instantiates `EventLoop` as
`Loop`, so the assumptions of `EventLoop` are hypotheses of these theorems; TLC evaluates them in the runs `events`
and `events_files`.

The definitions whose names contain an underscore (`RunExit_Early`, ...) are
mutants: copies of the definition that follows them with one plausible defect.
No specification uses them; `PROJECT.json` says which property rejects which.

## 3. Runs

| Run | Instance | Shows |
| --- | --- | --- |
| `threadpool` | 2 workers, 2 posters x 2 posts, 1 slot, 2 shutdowns | drain, no lost wakeup, `post` and `shutdown` return, refinement of `Executor` |
| `connections` | 3 threads x 2 calls, 2 connections | exclusive lending, accounting under failures, no lost wakeup, `acquire` returns |
| `pipeline` | 2 file workers, 1 slot per queue, 2 entities, 3 updates | row before link, no link dropped at shutdown, everything drained, a stop ends |
| `messages` | 1 steady message, 1 with cache deletions, 2 contents, 3 seconds | complete history of the steady one, exact flags of both though a deletion's job may throw, links of both survive, references resolve |
| `messages_redelete` | 1 message, cache deletions | violation: content lost (finding) |
| `files` | 2 workers, 4 downloads of 1 content, 2 extensions, any failure, 1 crash | rows name files that exist or are being copied, exact hit counts, names kept, calls return |
| `files_duplicate` | 2 workers, no failures | violation: the second insert of a content fails (finding) |
| `database` | 2 threads, 2 connections, 3 calls of up to 2 statements | atomicity, durability, rollback, clean connections |
| `groups` | 1 basic group and 1 channel, with one raw id and with two, 2 titles, 2 usernames, any order, eviction after 2 refusals | what is handed on is current and never early; one alarm, exact queue, eviction only for refusals, polling for ever |
| `entities` | 2 users, 2 groups, 5 usernames, lists of up to 2, 3 values per column, 2 standings | owners, histories and event logs agree with what was told |
| `events` | 2 users, 1 group, up to 3 messages in 6 shapes, 1 file, depth cap 1, dedup set of 1, 1 job that throws | known entities are stored first, fetched targets are found, every stored reply is linked, but for what the job that threw was to do |
| `events_files` | 2 messages with one file | violation: only one of them is handed over (finding) |

Bounds. With one slot and two posters both can block, be overtaken and be woken
by a drain (the order within a longer queue is theorem `Fifo`); with two workers
one can hold a job while the other leaves; the second shutdown is the
destructor's. Two connections for three threads make one wait while either of the
others fails, and two calls per thread let a returned connection be used again.
Three updates give a row two files (or two rows one each) while both one-slot
queues are full. Two contents and three seconds give A -> B -> A edits and missed
versions; both messages are private, so that they can refer to each other, and
references across the two tables are covered by theorem `ReferencesHold`. One
content is enough for `FileStore`, because workers with different contents share no
place and no row; all they can do to each other is to make an insert throw (on the key
of `tg_file_id`), which any step may do here; four downloads let each of two workers meet a row that
the other has changed. Three calls on two connections let a connection that one
job has spoilt be reused by another. Two groups with one request per alarm compete
for it, and are of two kinds so that their ids may coincide; `MaxMiss` is 2 instead of 3, and `MaxInFlight` 2 lets answers for one group
overtake each other.

In `EntityStore` usernames of different accounts, columns and administrators do not
meet in any operation, so `Varieties` confines a behaviour to one concern: the
profile of a user or of a group, two users with two usernames, two users with one
username in two spellings, one user with both, two groups with a plain and a
collectible username, the administrators of a group. Two users and lists of two
have takeovers, releases, swaps and reorders in one transaction; three values per
column have A -> B -> A. In `EventLoop` a chain of three messages is longer than
the depth cap of 1 (128 in the code), and the dedup set (a million in the code)
overflows at its second target; the bag of requests lets the same target be asked
for by two replies at once. One job that throws (`MaxThrows`; which one is open, and it
throws as often as it is posted) is enough, since each property relates a loss to the
one job that caused it. What the bounds cannot show, the theorems of section 4
do for every size.

Deadlock is checked wherever threads run (a `Terminated` step marks the proper
end). It is switched off where the environment may fall silent or has used up
its bound and the component has no thread that must end: `MessageStore`,
`FileStore`, `Database`, `GroupTracker`, `EntityStore`, `EventLoop`.

Fairness. Weak fairness of each thread's steps: the operating system schedules
every runnable thread, a mutex is eventually obtained, jobs, statements,
copies and `connect()` end or throw. Nothing obliges posters to post, TDLib to
send updates, anybody to send a signal or call `shutdown`, or a condition
variable to wake spuriously, so no liveness property depends on these.
`FileStore` has strong fairness of each worker's next step that does not fail,
because InnoDB queues the waiters for a row lock and each is served.
`GroupTracker` has weak fairness of the alarm and of each group's answers, and
`EventLoop` of the answer to each request and of the worker of `serial_`: TDLib
answers every request, perhaps with an error. Neither assumes an update, a login
or a successful answer.

Findings (details and quotations in `PROJECT.json`):

1. `messages_redelete`: a second deletion of a message overwrites its content
   with an empty one.
2. `files_duplicate`: two workers with the same new content collide in
   `upsertFile`, and the second one's file is not linked.
3. `events_files`: of two messages whose common file is still downloading, only
   the second is handed over; the first one's row never gets its file.

Observations that the models show and no run is spent on:

* *Link order* (`src/tgloggerd/TgLoggerd.cpp:431`). With several file workers, an
  older file can be linked after a newer one of the same row, and stays:
  `TgLoggerd` orders a link after its row (`RowBeforeLink`), not after another
  link. With one file thread it cannot happen (theorem `OneWorkerKeepsOrder`).
* *Partial copies* (`TgLoggerd.cpp:493-497`). `skip_existing` takes a file that
  another worker is still writing for a finished one, and its row is written
  before the file is whole. This heals (`RecordedIsBeingCopied`) unless that copy
  is cut short.
* *Same-second edits* (`models/Message.cpp:77`). The content stored between two
  edits of one second is overwritten without a snapshot; hence `Steady`.
* *First sight of a group* (`TDLib.cpp:1477`). A group of which the full info, or
  the answer to `getChat`, comes before its `updateNewChat` is never tracked
  (`MayTrack`). Likewise a user who first became known through the answer to
  `getUser` (`TDLib.cpp:1251`) is not first seen at `updateUser` and its full info
  is not requested.
* *Shared group ids* (`TDLib.cpp:496, 692, 706, 715, 1439-1456`). `basic_group_id_` and
  `supergroup_id_` are separate numberings, but index the same `group_state_` and
  `supergroups_`. Of a basic group and a supergroup with one id, the state belongs to
  the chat that came last: the other's new title, usernames, kind, description or
  administrators are then handed on for that chat, and at most one of the two is ever
  tracked. The model has all of this. `EmittedIsCurrent` says that a group is
  current if it is alone with its id, and of two that share one only that the owner
  of the state was handed on with what the state has; nothing in the documentation
  says more.
* *Dropped jobs* (`TgLoggerd.cpp:206-332`). A job that throws is logged and dropped, and
  no handler repeats it: an entity stays in the caches without a row and the messages
  that refer to it are lost until the entity is posted again, a message is missing, a
  reply stays unlinked, a deleted message unflagged. `KnownIsStored`, `FetchedIsFound`,
  `EveryReplyLinked` and `FlagIsExact` say that this is the only way.
* *Unknown entities* (`TDLib.cpp:1213`). `ensure_user_saved` of an unknown user
  answers later than the message is posted, which is then lost to a foreign key
  (`lost` with `sure` false). TDLib announces users and chats before messages that
  mention them, so this needs an entity it does not announce.
* *Unlinked targets* (`TDLib.cpp:1055, 1063`). `TDLib.hpp:74` says of a reply
  "Emitted only after the replied message has been saved"; it is also emitted when
  the target is unavailable, beyond the depth cap, in the other table, or was lost;
  `reply_to_id` is then NULL and stays so. `FetchedIsFound` says when the target is
  there.
* *Takeovers* (`models/User.cpp:259`). A username that moves to another user
  without having been released first gets no "removed" event for the previous
  owner, so only an owner's log tells the truth (`LogReplays`).
* *Spellings* (`models/User.cpp:226`). When only the case of a username changes, the
  row keeps the old spelling, and every later upsert records an "added" of the new
  and a "removed" of the old one. The owner stays right (`OwnerIsLastTold`).
* *Collectible usernames* (`models/User.cpp:215`). They are listed twice, as active
  or disabled and as collectible; the row keeps the second kind, so every later
  upsert records a change. Hence `Plain` in `LogReplays` and `RecordedExactly`.
  Since known entities are upserted again with every forward and admin list
  (`TDLib.cpp:1217` calls that idempotent), the log grows with each.
* *First values* (`models/User.cpp:132`). A history has the first value twice once
  it is replaced, as `PastIsRecorded` spells out; the bio's history does not.

## 4. Proofs

Assumptions on constants are the named `ASSUME`s of the modules (finite,
non-empty worker sets; a pool size of at least 1, which the constructor
enforces; disjoint tables; and so on). All theorems hold for every value that
satisfies them. `RepliesAssumption` of `EventLoop` is about Telegram: a message that
is replied to exists, and one that is not available is answered with an error.

`ThreadPoolProofs`. The inductive invariant `Inv` joins `Control` (types, "a
busy worker holds a job and nobody else does"), `FifoOrder`, "a worker that has
left saw draining and an empty queue", "a shutdown past its first step has set
draining", and the count started = completed + busy. From it: `TypeCorrect`,
`Fifo`, `ShutdownDrains`. `Serial` adds `SerialOrder`, inductive given the
control part. `WakeupsArrive` proves `NoLostWakeup` as three inductive parts
with cardinalities: as long as somebody sleeps, there are at least as many
workers on their way to the mutex as queued jobs, and at least as many
announcers and examiners as free slots. `Refinement` shows step by step that the
pool implements `Executor`; the interesting step is the last worker's exit.

`ConnectionPoolProofs`. `CreatedIsCounted` (accounting), `ExclusiveUse`,
`WakeupsArrive`, `SizingSuffices`, `LendingIsAtomic`. `SizingSuffices` follows from
accounting: somebody who waits excludes itself from those that hold or create.
`LendingIsAtomic`, an action property, says what is left of the pool when its inside
is hidden: each step that is visible to the borrowers gives one of them a connection
that nobody holds, or takes its own back. It follows from `Exclusive` after the step:
a connection that somebody held before would then have two holders.

`MessageStoreProofs`. `LinksAreKept`, `ReferencesHold` and `DeletionIsExact` hold of
every message: rows never disappear, no upsert touches file, reply or reply id, and
only a message that can still be fetched is stored, so nothing lifts the flag once
the deletion is final (`FlagInv`). `HistoryIsComplete` and `EditsAscend` are about the
`Steady` messages (no second edit within a second, deletions permanent) beside others that
are not; both halves are needed (section 3). Their invariant `HistoryInv` says that
a row is an earlier version or the current one and that the edit dates tell which:
equal dates mean equal contents. That is what makes the date test of
`snapshotMessageEditIfChanged` right, and it is not part of any of the three
properties.

`FileStoreProofs`. `RecordedExists`, `HitsCount`, `NameKnown`, `NameKept`,
`RecordedIsCopied`, for any number of workers, downloads and crashes. The
invariant adds what the workers know: a worker past its copy has something at
its place (`PlaceExists`), one whose transaction has written holds the row
(`WriterHolds`), one whose `SELECT` found a row still finds it (`FoundHolds`:
rows are never deleted), and a file that is not whole has somebody filling it
or was cut short (`NoOrphans`).

`DatabaseProofs`. `AllOrNothing`, `ReturnMeansDurable`, `ThrowMeansRolledBack`,
`PoolIsClean`, for any threads, connections and statements. The invariant ties
each connection to its only user (`Owned`), says that an open transaction holds
exactly the writes of the job that uses the connection (`InStep`, `Traces`), and
that a dead session holds nothing (`DeadIsEmpty`). The point of the argument is
the order in the catch blocks: `setAutoCommit(true)` would commit what is open,
so it must find nothing.

`EntityStoreProofs`. `OwnerCorrect`, `LogCorrect`, `RecordsCorrect`, `PastCorrect`,
`AdminsCorrect`, for any number of users, groups, usernames and spellings and lists
of any length. Three independent parts, each inductive on its own beside the types:

* usernames. `OwnerIsLastTold` needs `SpelledIn` (a row's spelling is one of its
  username's), since `syncUsernames` looks up the old rows by their spelling and
  the unique key by the username. `RowAfter` says what a transaction leaves in a
  row: what the new lists claim, no owner if the entity has released it, else what
  was there. `PlainStep` is the heart of `LogReplays` and
  `RecordedExactly`: for a username with one spelling that is listed once, the diff
  of `old_map` and `new_map` finds a change exactly when the row will change, and
  the event it records has the place that the row will have.
* profiles. `PastIsRecorded` is preserved column by column (`ColumnStep`), given
  that a column of `seen` starts with the row (`SeenFromRow`); the three operations
  that write a row differ in which columns they touch.
* administrators. `AdminLogReplays` is inductive as it stands.

`GroupTrackerProofs`. `EmittedCorrect`, `QuietBeforeChat`, `AlarmCorrect`,
`QueueCorrect`, `EvictionCorrect`, for any groups, batch size and miss limit.
Two conjuncts carry the assembly. `Owned` says of every id that its state, once a chat
has set it, belongs to a chat that is known, has that id and was handed on with all of
the state; it needs nothing of the other group that may have the id. `Agree` relates,
for a group that is alone with its id, the state, the entry of `supergroups_` and what
was told; the point is that a state that the full info created before the chat has the
newest description and either the newest usernames or none, because `supergroups_` has
them and `handle_new_chat` merges them. `EmittedCorrect` joins the two: the state of a
group that is alone can belong to no other chat. `OnlyKnown` says that whatever is
tracked, queued, asked about or has administrators has its chat in `chat_to_group_`,
which by `Assembled` has a state: that is why a group that `MayTrack`
is not in the queue yet, an evicted one included. `QueueCorrect` rests on
`NthFacts`: the ranks of the tracked positions among the scanned ones are a
bijection (an injection between finite sets of one size is onto), so `Rotated` is a
permutation of what it keeps. `EvictionCorrect`, an action property, needs
`MissIsDenied`.

`TgLoggerdProofs`. `LinkAfterRow`, `LinksAccepted`, `DrainComplete`, for any number
of file workers, entities and updates and any queue size (0, unbounded, included).
`InOrder(e)` follows a row through the pipeline: at each station - the loop's hands,
`files_`, the queue of `serial_`, its worker - a file or link of e has an upsert of
e ahead of it, either within the same sequence (`Precedes`) or at a later station.
It is not enough to say so of links: the file must already be behind the upsert
when the loop posts it, and a download that completes later must find the row
posted (`Kept` and the last conjunct of `InOrder`). `Control` ties the pools to where
`start()` is; `LinksAccepted` follows because a worker with a file keeps `files_`
from stopping and `serial_` is closed only after that. `Kept` says that what was
emitted is in the loop's hands or in a pool, and gives `DrainComplete`.

`PoolsAreExecutors` closes the composition: every step of the pipeline is, for each
of the two pools, a step of `Executor` or none. Together with `Refinement` it says that
the pipeline relies on nothing that `ThreadPool` does not do.

`OneWorkerKeepsOrder`, an action property, says when links do not go back. Its invariant
`InTurn` numbers the files of a row by their emission and looks at the six `Stations` on
their way (linked, at the worker of `serial_`, in its queue, at the worker of `files_`, in
its queue, in the handler's hands): numbers at an earlier station are greater, and both
queues and the handler's posts ascend. A step moves the least number of a station to the
next (`MoveOn`), drops one (`DropOut`: a failure) or adds the greatest (`Emerge`). With a
second worker the fourth station would hold two numbers, and the greater might move first;
TLC finds the step that goes back.

`TgLoggerdProofs` on `EventLoop`. `KnownBeforeSaved` and `FetchedBeforeLinked`, for any
users, chats, messages, files and reply graphs, any depth and dedup cap, and every order
of updates, answers and errors. `LoopInv` joins the types of messages and requests with

* `Queue`: an upsert of every entity in `users_` and `chat_to_group_` has run, has thrown
  or is in the queue; a save that counts on a row of e is behind an upsert of e; a link
  that counts on a row of t is behind a save of t. Each unless the row is there or the
  job has been tried (`Tried`, for a save `Settled`: stored, lost or thrown);
* `Fetched`: a target enters `resolved_reply_targets_` only when its save is posted, so
  forgetting targets when the set is full costs requests but never order.

What one handler posts is a concatenation of up to five sequences (`Posted`), which are
appended one at a time, each keeping `Queue`. The order within a handler is
what the proof rests on: forward origin, message, then reply.

`RepliesRemembered` is the safety half of `EveryReplyLinked`: a reply with a row is
linked, has a link in the queue, its target is being fetched, or its link job threw
(`Linked` is the first or the last). The invariant
`ReplyInv` says so of every save in the queue as well (`Follows`: a link comes after it). `DownloadsServed`
says what is left of the third finding: a file that has completed was handed over with
one of its messages at least.

Induction. The least-number principle is not cited as an induction theorem with an
operator parameter but derived in the form of sets (`LeastNatural`), from the
well-foundedness of the finite subsets of a set; `Max` and `Min` of the community
modules need it.

Proved only, with no run of their own: `TypeCorrect` of seven modules and
`HandlersTyped`, `Fifo`, `Serial` (a pool of one worker finishes in the order of
acceptance), `SizingSuffices`, `LendingIsAtomic`, `EditsAscend`, `NameKnown`,
`PoolsAreExecutors`, `OneWorkerKeepsOrder`, `RepliesRemembered` and `DownloadsServed`. The
inductive invariants of `EntityStoreProofs`, `GroupTrackerProofs` and `TgLoggerdProofs`
were checked with TLC on small instances before they were proved (`InTurn` with one file
worker, queues of two and four updates).

Only model-checked: the liveness properties (`PostReturns`, `ShutdownReturns`,
`AcquireReturns`, `StopReturns`, `StoreReturns`, `PolledForever`, `EveryReplyLinked`), which
need fairness and `ENABLED`, out of the prover's reach. Every safety property that a
passing run checks is also proved.

## 5. Not modelled, and the plan

The plan is carried out: the pools, the database layer, the stores, the client and
their composition are modelled, and their safety is proved. What could be added is a
refinement from `EventLoop` to `TgLoggerd`, whose entities and files are the users,
groups and messages of the former.

Not modelled:

* the authorization dialogue (terminal I/O steered by TDLib; its outcomes reach the
  rest as `Stop`, and as `Ready`, `LoggingOut` and `Close` of `GroupTracker`);
* the request for a user's full info, and the two maps of pending photos, which work
  like `pending_message_file_` and have one owner per file id;
* option parsing and construction in `main.c` and `start()`, logging, string helpers,
  hashing (SHA-256 is a function of the content), the binding of parameters and the
  wording of SQL: sequential code or pure conversions without state;
* ON DELETE and ON UPDATE rules of the schema: nothing deletes a referenced row.
