---------------------------- MODULE MessageStore ----------------------------
(***************************************************************************)
(* The message tables (private_messages, group_messages), their edit and   *)
(* forward-info tables, and the four operations of DB that write them:     *)
(* upsert, delete, file link and reply link.  All of them run one after    *)
(* the other on serial_, each in a transaction of its own; a transaction   *)
(* that throws is rolled back and the job dropped: of a store or a link    *)
(* nothing is left, of a deletion that Telegram does not repeat it.        *)
(*                                                                         *)
(* Telegram is the environment: it holds the true content of each message. *)
(* The event loop asks for a message and stores what it gets when the      *)
(* message is new, when it hears of an edit, and when another message      *)
(* replies to it, so a Store may come at any time and see any of the       *)
(* message's versions; two edits may lie between two Stores.               *)
(***************************************************************************)
EXTENDS Naturals, Sequences

CONSTANTS PrivateMessages,  \* messages of one-to-one chats
          GroupMessages,    \* messages of groups, supergroups and channels
          Forwarded,        \* those that carry forward info
          Contents,         \* what (content_type, text) of a message can be
          Blank,            \* (Unknown, NULL): the default-constructed content, which
                            \* is also that of every kind of message the code does
                            \* not know
          FileIds,          \* files.id
          None,             \* SQL NULL
          NoRow,            \* the message has no row
          MaxTime,          \* bound: seconds that may pass
          SameSecondEdits,  \* environment: the messages that may be edited twice
                            \* in one second
          CacheDeletes      \* environment: the messages whose deletion TDLib may
                            \* report although it is not permanent (they can be
                            \* fetched again)

Messages == PrivateMessages \cup GroupMessages

ASSUME TablesAssumption == PrivateMessages \cap GroupMessages = {}
ASSUME ForwardedAssumption == Forwarded \subseteq Messages
ASSUME NullAssumption == None \notin Messages \cup FileIds
ASSUME TimeAssumption == MaxTime \in Nat
ASSUME EnvironmentAssumption ==
    SameSecondEdits \subseteq Messages /\ CacheDeletes \subseteq Messages

\* The messages whose edits lie seconds apart and whose deletion is permanent.
Steady == Messages \ (SameSecondEdits \cup CacheDeletes)

Times == 0 .. MaxTime

Row == [content   : Contents \cup {Blank},
        edit_date : Times,
        deleted   : BOOLEAN,
        forwarded : BOOLEAN,
        file      : FileIds \cup {None},
        reply     : Messages \cup {None},   \* reply_to_chat_id, reply_to_msg_id
        reply_id  : Messages \cup {None}]   \* reply_to_id

ASSUME NoRowAssumption == NoRow \notin Row

Edit == [content : Contents \cup {Blank}, file : FileIds \cup {None},
         edit_date : Times]

\* What a handler passes to the upsert.
Message == [content : Contents \cup {Blank}, edit_date : Times,
            deleted : BOOLEAN, forwarded : BOOLEAN]

VARIABLES now,     \* Telegram's clock, in seconds
          tg,      \* tg[m]: the message as Telegram has it
          rows,    \* rows[m]: its row
          edits,   \* edits[m]: its snapshots, oldest first
          fwd,     \* the messages with a row in *_message_fwd_info
          seen,    \* history: the contents stored for m, without repetitions
          linked,  \* history: the last file and reply linked to m's row
          missed   \* history: the messages whose deletion Telegram told of once
                   \* and for all and whose job threw

tables == <<rows, edits, fwd>>
vars == <<now, tg, rows, edits, fwd, seen, linked, missed>>

TypeOK ==
    /\ now \in Times
    /\ tg \in [Messages -> [content : Contents \cup {Blank}, edit_date : Times,
                            state : {"unsent", "alive", "deleted"}]]
    /\ rows \in [Messages -> Row \cup {NoRow}]
    /\ edits \in [Messages -> Seq(Edit)]
    /\ fwd \subseteq Messages
    /\ seen \in [Messages -> Seq(Contents)]
    /\ linked \in [Messages -> [file : FileIds \cup {None},
                                reply : Messages \cup {None}]]
    /\ missed \subseteq Messages

Init ==
    /\ now = 0
    /\ tg = [m \in Messages |-> [content |-> Blank, edit_date |-> 0,
                                 state |-> "unsent"]]
    /\ rows = [m \in Messages |-> NoRow]
    /\ edits = [m \in Messages |-> <<>>]
    /\ fwd = {}
    /\ seen = [m \in Messages |-> <<>>]
    /\ linked = [m \in Messages |-> [file |-> None, reply |-> None]]
    /\ missed = {}

-----------------------------------------------------------------------------
(* upsertPrivateMessage, upsertGroupMessage *)

HasRow(m) == rows[m] # NoRow

\* Idempotent: a message has at most one row of forward info.
InsertForwardInfo(m, msg) == fwd' = IF msg.forwarded THEN fwd \cup {m} ELSE fwd

\* First time seeing this message.
InsertMessage(m, msg) ==
    /\ ~HasRow(m)
    /\ ~msg.deleted
    /\ rows' = [rows EXCEPT ![m] =
                  [content |-> msg.content, edit_date |-> msg.edit_date,
                   deleted |-> FALSE, forwarded |-> msg.forwarded,
                   file |-> None, reply |-> None, reply_id |-> None]]
    /\ InsertForwardInfo(m, msg)
    /\ UNCHANGED edits

\* A deletion of a message that was never stored.
SkipUnknown(m, msg) == /\ ~HasRow(m)
                       /\ msg.deleted
                       /\ UNCHANGED tables

\* Mutant: the UPDATE matches no row.
FlagDeleted_NoMatch(m, msg) ==
    /\ HasRow(m)
    /\ msg.deleted /\ ~rows[m].deleted
    /\ UNCHANGED tables

FlagDeleted(m, msg) ==
    /\ HasRow(m)
    /\ msg.deleted /\ ~rows[m].deleted
    /\ rows' = [rows EXCEPT ![m].deleted = TRUE]
    /\ UNCHANGED <<edits, fwd>>

\* Mutant: a later edit_date alone makes a snapshot.
IsEdit_DateOnly(old, msg) == msg.edit_date > old.edit_date

\* The condition of snapshotMessageEditIfChanged.
IsEdit(old, msg) == /\ msg.edit_date > old.edit_date
                    /\ msg.content # old.content

Snapshot(old, msg) ==
    [content |-> old.content, file |-> old.file, edit_date |-> msg.edit_date]

\* Mutant: the upsert writes file_id too, which no builder knows.
OverwriteMessage_ResetsFile(m, msg) ==
    /\ HasRow(m)
    /\ ~(msg.deleted /\ ~rows[m].deleted)
    /\ edits' = IF IsEdit(rows[m], msg)
                THEN [edits EXCEPT ![m] = Append(@, Snapshot(rows[m], msg))]
                ELSE edits
    /\ rows' = [rows EXCEPT ![m].content = msg.content,
                            ![m].edit_date = msg.edit_date,
                            ![m].deleted = msg.deleted,
                            ![m].forwarded = msg.forwarded,
                            ![m].file = None]
    /\ InsertForwardInfo(m, msg)

\* Every other upsert of an existing row: snapshot, then overwrite all columns
\* but the file and the reply.
OverwriteMessage(m, msg) ==
    /\ HasRow(m)
    /\ ~(msg.deleted /\ ~rows[m].deleted)
    /\ edits' = IF IsEdit(rows[m], msg)
                THEN [edits EXCEPT ![m] = Append(@, Snapshot(rows[m], msg))]
                ELSE edits
    /\ rows' = [rows EXCEPT ![m].content = msg.content,
                            ![m].edit_date = msg.edit_date,
                            ![m].deleted = msg.deleted,
                            ![m].forwarded = msg.forwarded]
    /\ InsertForwardInfo(m, msg)

Upsert(m, msg) == \/ InsertMessage(m, msg)
                  \/ SkipUnknown(m, msg)
                  \/ FlagDeleted(m, msg)
                  \/ OverwriteMessage(m, msg)

-----------------------------------------------------------------------------
(* What the event loop makes of updates *)

\* extract_message_content: the kind of a message and, of a text message, its
\* text.  This is all of the content that tg keeps: captions, media and whatever
\* else Telegram holds make no difference here.
ContentOf(m) == tg[m].content

\* extract_forward_info: a message is sent as a forward or it is not; an edit
\* does not change that.
HasForwardInfo(m) == m \in Forwarded

\* build_private_message, build_group_message
Built(m) == [content |-> ContentOf(m), edit_date |-> tg[m].edit_date,
             deleted |-> FALSE, forwarded |-> HasForwardInfo(m)]

\* handle_delete_messages: nothing but the key and the flag is filled in.
Deletion == [content |-> Blank, edit_date |-> 0, deleted |-> TRUE,
             forwarded |-> FALSE]

\* updateNewMessage, the answer to getMessage after updateMessageEdited, and the
\* answer to getMessage for a replied message.
Store(m) ==
    /\ tg[m].state = "alive"
    /\ Upsert(m, Built(m))
    /\ seen' = IF seen[m] # <<>> /\ seen[m][Len(seen[m])] = tg[m].content
               THEN seen
               ELSE [seen EXCEPT ![m] = Append(@, tg[m].content)]
    /\ UNCHANGED <<now, tg, linked, missed>>

\* updateDeleteMessages with is_permanent: the job runs, or it throws, is logged and
\* dropped.  Telegram does not repeat it, and serial_ runs it behind every earlier
\* job of the message.
Delete(m) ==
    /\ tg[m].state = "alive"
    /\ tg' = [tg EXCEPT ![m].state = "deleted"]
    /\ \/ Upsert(m, Deletion) /\ UNCHANGED missed
       \/ UNCHANGED tables /\ missed' = missed \cup {m}
    /\ UNCHANGED <<now, seen, linked>>

\* updateDeleteMessages without is_permanent, a flag the handler ignores.  A
\* deletion that is followed by a refetch can add a snapshot: MaxTime bounds them.
DeleteFromCache(m) ==
    /\ m \in CacheDeletes
    /\ Len(edits[m]) < MaxTime
    /\ tg[m].state = "alive"
    /\ Upsert(m, Deletion)
    /\ UNCHANGED <<now, tg, seen, linked, missed>>

\* setPrivateMessageFile, setGroupMessageFile: an UPDATE, without effect when
\* the row is missing.
SetFile(m, f) ==
    /\ HasRow(m)
    /\ rows' = [rows EXCEPT ![m].file = f]
    /\ linked' = [linked EXCEPT ![m].file = f]
    /\ UNCHANGED <<now, tg, edits, fwd, seen, missed>>

SameTable(m, r) == m \in PrivateMessages <=> r \in PrivateMessages

\* Mutant: reply_to_id is set without looking for the replied row.
SetReply_Unresolved(m, r) ==
    /\ HasRow(m)
    /\ rows' = [rows EXCEPT ![m].reply = r, ![m].reply_id = r]
    /\ linked' = [linked EXCEPT ![m].reply = r]
    /\ UNCHANGED <<now, tg, edits, fwd, seen, missed>>

\* setPrivateMessageReply, setGroupMessageReply: the LEFT JOIN finds the replied
\* message only in the same table and only if it has been stored.
SetReply(m, r) ==
    /\ HasRow(m)
    /\ rows' = [rows EXCEPT ![m].reply = r,
                            ![m].reply_id =
                                IF SameTable(m, r) /\ HasRow(r) THEN r ELSE None]
    /\ linked' = [linked EXCEPT ![m].reply = r]
    /\ UNCHANGED <<now, tg, edits, fwd, seen, missed>>

-----------------------------------------------------------------------------
(* Telegram *)

Tick == /\ now < MaxTime
        /\ now' = now + 1
        /\ UNCHANGED <<tg, rows, edits, fwd, seen, linked, missed>>

TgSend(m, c) ==
    /\ tg[m].state = "unsent"
    /\ tg' = [tg EXCEPT ![m].content = c, ![m].state = "alive"]
    /\ UNCHANGED <<now, rows, edits, fwd, seen, linked, missed>>

\* An edit may leave the kind and the text as they were, and change a caption.
TgEdit(m, c) ==
    /\ tg[m].state = "alive"
    /\ m \in SameSecondEdits \/ now > tg[m].edit_date
    /\ now > 0
    /\ tg' = [tg EXCEPT ![m].content = c, ![m].edit_date = now]
    /\ UNCHANGED <<now, rows, edits, fwd, seen, linked, missed>>

Next == \/ Tick
        \/ \E m \in Messages :
              \/ \E c \in Contents : TgSend(m, c) \/ TgEdit(m, c)
              \/ Store(m)
              \/ Delete(m)
              \/ DeleteFromCache(m)
              \/ \E f \in FileIds : SetFile(m, f)
              \/ \E r \in Messages \ {m} : SetReply(m, r)

Spec == Init /\ [][Next]_vars

-----------------------------------------------------------------------------
(* Properties *)

EditedContents(m) == [i \in 1 .. Len(edits[m]) |-> edits[m][i].content]

\* The tables hold the whole history of what the daemon got to see of a steady
\* message, whatever happens to the others, in order and without repetitions: the
\* snapshots followed by the row are exactly the contents that were stored, also
\* after a deletion.
HistoryComplete ==
    \A m \in Steady :
        HasRow(m) => seen[m] = Append(EditedContents(m), rows[m].content)

\* No content that was ever stored is lost: it is in the row or in a snapshot.
ContentKept ==
    \A m \in Messages : HasRow(m) =>
        \A i \in 1 .. Len(seen[m]) :
            \/ seen[m][i] = rows[m].content
            \/ \E j \in 1 .. Len(edits[m]) : seen[m][i] = edits[m][j].content

\* The file and the reply linked to a row survive every later edit rebuild,
\* deletion and refetch of the message.
LinksSurvive ==
    \A m \in Messages : HasRow(m) =>
        linked[m] = [file |-> rows[m].file, reply |-> rows[m].reply]

\* Snapshots carry the edit_date that triggered them: their dates ascend, and
\* the last one is not later than the row's.
EditDatesAscend ==
    \A m \in Steady : HasRow(m) =>
        /\ \A i, j \in 1 .. Len(edits[m]) :
              i < j => edits[m][i].edit_date < edits[m][j].edit_date
        /\ \A i \in 1 .. Len(edits[m]) :
              edits[m][i].edit_date <= rows[m].edit_date

\* A stored message that Telegram has deleted is flagged unless the job of the
\* deletion threw, whatever edits, refetches and passing deletions came before; and a
\* flagged one has been deleted, for good or (is_permanent is ignored) from the cache.
FlagIsExact ==
    \A m \in Messages : HasRow(m) =>
        /\ tg[m].state = "deleted" => rows[m].deleted \/ m \in missed
        /\ rows[m].deleted => tg[m].state = "deleted" \/ m \in CacheDeletes

\* reply_to_id is the replied message of reply_to_msg_id, it refers to a row of
\* the same table, and is_forwarded implies recorded forward info.
ReferencesResolve ==
    \A m \in Messages : HasRow(m) =>
        /\ rows[m].reply_id # None =>
              /\ rows[m].reply_id = rows[m].reply
              /\ HasRow(rows[m].reply_id)
              /\ SameTable(m, rows[m].reply_id)
        /\ rows[m].forwarded => m \in fwd
=============================================================================
