----------------------------- MODULE EventLoop -----------------------------
(***************************************************************************)
(* How the TDLib client turns updates into jobs for serial_: users and     *)
(* chats, messages with the entities they refer to, the messages they      *)
(* reply to and their files.  A handler runs to its end on the event       *)
(* loop's thread; what it needs to know it asks Telegram for, and the      *)
(* answers come in any order, with other updates between.  The jobs it     *)
(* posts run one after the other on serial_: any of them may throw, which  *)
(* is logged and the job dropped, and a message whose foreign keys do not  *)
(* resolve always does.                                                    *)
(*                                                                         *)
(* The content of the rows is the matter of modules MessageStore and       *)
(* EntityStore, photos that of TgLoggerd, the pieces of a group and its    *)
(* administrators that of GroupTracker.  A user's photo and full info,     *)
(* which updateUser asks for, change nothing of what is kept here.         *)
(***************************************************************************)
EXTENDS Naturals, Sequences, FiniteSets, Bags, HandlerPromises

CONSTANTS Chats,         \* groups, supergroups and channels
          Messages,
          FileIds,       \* TDLib's file ids
          None,
          Shapes,        \* what the messages of a behaviour can be, or None
          MaxReplyDepth, \* kMaxReplyDepth
          ReplyDedupCap, \* kReplyDedupCap
          MaxThrows      \* bound: how many different jobs throw

Entities == Users \cup Chats

\* chat: the private chat's peer or the group; outgoing: sent by this account;
\* origin: of a forward; reply: the replied message; edits: how often it is edited.
Message == [chat : Entities, sender : Entities, outgoing : BOOLEAN,
            origin : Entities \cup {None}, reply : Messages \cup {None},
            file : FileIds \cup {None}, edits : Nat]

ASSUME EntitiesAssumption == Users \cap Chats = {} /\ None \notin Entities \cup Messages
ASSUME ShapesAssumption == Shapes \subseteq [Messages -> Message \cup {None}]
\* A reply is to a message that exists; one that is unavailable is answered with an error.
ASSUME RepliesAssumption ==
    \A s \in Shapes : \A m \in Messages :
        s[m] # None => s[m].reply = None \/ s[s[m].reply] # None
ASSUME BoundsAssumption ==
    MaxReplyDepth \in Nat /\ ReplyDedupCap \in Nat \ {0} /\ MaxThrows \in Nat

VARIABLES known,     \* users_ and chat_to_group_
          asked,     \* handlers_: the requests without an answer
          resolved,  \* resolved_reply_targets_
          pending,   \* pending_message_file_
          complete,  \* the files that are downloaded
          told,      \* told[m]: how often Telegram told of m (new, edited)
          serial,    \* the jobs posted to serial_
          rows,      \* the users and groups with a row
          stored,    \* the messages with a row
          linked,    \* the messages whose row has its reply columns set
          served,    \* the messages handed to message_file_handler_
          wanting    \* history: the messages that asked for a download

tables == <<rows, stored, linked, failed, lost, dangling>>
downloads == <<pending, complete, served, wanting>>
vars == <<message, known, asked, resolved, pending, complete, told, serial,
          rows, stored, linked, served, failed, lost, dangling, wanting>>

Request == [type : {"user", "chat"}, id : Entities]
             \cup [type : {"edited"}, id : Messages]
             \cup [type : {"replied"}, id : Messages, depth : 0 .. MaxReplyDepth]

\* sure: every entity the message refers to was known when the job was posted;
\* fetched: the replied message was fetched before.
Save == [op : {"save"}, id : Messages, sure : BOOLEAN]
Link == [op : {"link"}, id : Messages, fetched : BOOLEAN]
Job == [op : {"upsert"}, id : Entities] \cup Save \cup Link

\* missing: the entities of a save's foreign keys that had no row.
Lost == [op : {"save"}, id : Messages, sure : BOOLEAN, missing : SUBSET Entities]

TypeOK ==
    /\ message \in Shapes
    /\ known \subseteq Entities
    /\ IsABag(asked) /\ DOMAIN asked \subseteq Request
    /\ resolved \subseteq Messages
    /\ pending \in [FileIds -> Messages \cup {None}]
    /\ complete \subseteq FileIds
    /\ told \in [Messages -> Nat]
    /\ serial \in Seq(Job)
    /\ rows \subseteq Entities
    /\ stored \subseteq Messages
    /\ linked \subseteq Messages
    /\ served \subseteq Messages
    /\ wanting \subseteq Messages
    /\ failed \subseteq Job
    /\ lost \subseteq Lost
    /\ dangling \subseteq Link

Init ==
    /\ message \in Shapes
    /\ known = {}
    /\ asked = EmptyBag
    /\ resolved = {}
    /\ pending = [f \in FileIds |-> None]
    /\ complete = {}
    /\ told = [m \in Messages |-> 0]
    /\ serial = <<>>
    /\ rows = {}
    /\ stored = {}
    /\ linked = {}
    /\ served = {}
    /\ failed = {}
    /\ lost = {}
    /\ dangling = {}
    /\ wanting = {}

-----------------------------------------------------------------------------
(* What a message refers to *)

\* The rows that the foreign keys of a message's row and of its forward info need:
\* the chat, the sender (NULL in the private messages of this account) and the user
\* it was forwarded from (origin_chat_id has no foreign key).
References(m) ==
    LET msg == message[m]
        sender == IF msg.outgoing /\ msg.chat \in Users THEN {} ELSE {msg.sender}
    IN  {msg.chat} \cup sender \cup ({msg.origin} \cap Users)

\* The messages of this behaviour, and the entities they mention.
Sent == {m \in Messages : message[m] # None}
Mentioned == (UNION {{message[m].chat, message[m].sender, message[m].origin} : m \in Sent})
               \ {None}

\* ensure_user_saved, ensure_chat_saved: what is known is posted again at once,
\* what is not is asked for.
Resaved(e) == IF e \in known THEN <<Upsert(e)>> ELSE <<>>
AskFor(e) ==
    IF e \in Entities \ known
      THEN SetToBag({[type |-> IF e \in Users THEN "user" ELSE "chat", id |-> e]})
      ELSE EmptyBag

-----------------------------------------------------------------------------
(* Messages *)

\* reply_target in resolve_reply_message: the link needs no fetch when the replied
\* message was fetched already or the chain is as long as it may become.
NoFetch(m, depth, done) == Replied(m) \in done \/ depth >= MaxReplyDepth

LinkOf(m, fetched) == [op |-> "link", id |-> m, fetched |-> fetched]

\* What handle_message_for_*_chat posts: the forward origin, if it is known, the
\* message, and the link of a reply that needs no fetch.
Posted(m, depth, done) ==
    Resaved(message[m].origin)
      \o <<[op |-> "save", id |-> m, sure |-> References(m) \subseteq known]>>
      \o IF Replied(m) # None /\ NoFetch(m, depth, done)
           THEN <<LinkOf(m, Replied(m) \in done)>> ELSE <<>>

\* ... and what it asks for: an unknown origin, and the replied message.
Requested(m, depth, done) ==
    AskFor(message[m].origin)
      (+) IF Replied(m) # None /\ ~NoFetch(m, depth, done)
            THEN SetToBag({[type |-> "replied", id |-> m, depth |-> depth]})
            ELSE EmptyBag

\* maybe_download_message_file: a file that is complete is handed on, any other is
\* requested and the message remembered for it.
DownloadFile(m) ==
    LET f == message[m].file
    IN  \/ /\ f = None
           /\ UNCHANGED downloads
        \/ /\ f \in complete
           /\ served' = served \cup {m}
           /\ UNCHANGED <<pending, complete, wanting>>
        \/ /\ f \in FileIds \ complete
           /\ pending' = [pending EXCEPT ![f] = m]
           /\ wanting' = wanting \cup {m}
           /\ UNCHANGED <<complete, served>>

\* updateNewMessage.
NewMessage(m) ==
    /\ told[m] = 0
    /\ told' = [told EXCEPT ![m] = 1]
    /\ serial' = serial \o Posted(m, 0, resolved)
    /\ asked' = asked (+) Requested(m, 0, resolved)
    /\ DownloadFile(m)
    /\ UNCHANGED <<message, known, resolved>> /\ UNCHANGED tables

\* updateMessageEdited: the whole message is asked for.
MessageEdited(m) ==
    /\ told[m] \in 1 .. message[m].edits
    /\ told' = [told EXCEPT ![m] = @ + 1]
    /\ asked' = asked (+) SetToBag({[type |-> "edited", id |-> m]})
    /\ UNCHANGED <<message, known, resolved, serial>>
    /\ UNCHANGED downloads /\ UNCHANGED tables

Answered(r) == asked (-) SetToBag({r})

EditedAnswer(r) ==
    /\ r.type = "edited"
    /\ serial' = serial \o Posted(r.id, 0, resolved)
    /\ asked' = Answered(r) (+) Requested(r.id, 0, resolved)
    /\ DownloadFile(r.id)
    /\ UNCHANGED <<message, known, resolved, told>> /\ UNCHANGED tables

\* mark_reply_resolved: the set is emptied when it is full.
MarkReplyResolved(t) ==
    (IF Cardinality(resolved) >= ReplyDedupCap THEN {} ELSE resolved) \cup {t}

\* Mutant: the link is posted before the replied message is handled.
RepliedAnswer_LinkFirst(r) ==
    LET t == Replied(r.id)
        done == MarkReplyResolved(t)
        chat == message[t].chat
        sender == message[t].sender
    IN  /\ r.type = "replied"
        /\ resolved' = done
        /\ serial' = serial \o <<LinkOf(r.id, TRUE)>> \o Resaved(chat) \o Resaved(sender)
                       \o Posted(t, r.depth + 1, done)
        /\ asked' = Answered(r) (+) AskFor(chat) (+) AskFor(sender)
                      (+) Requested(t, r.depth + 1, done)
        /\ DownloadFile(t)
        /\ UNCHANGED <<message, known, told>> /\ UNCHANGED tables

\* The replied message arrives: ensure_message_entities, the message is handled as
\* if it were new, one level deeper, and then the link is posted.
RepliedAnswer(r) ==
    LET t == Replied(r.id)
        done == MarkReplyResolved(t)
        chat == message[t].chat
        sender == message[t].sender
    IN  /\ r.type = "replied"
        /\ resolved' = done
        /\ serial' = serial \o Resaved(chat) \o Resaved(sender)
                       \o Posted(t, r.depth + 1, done) \o <<LinkOf(r.id, TRUE)>>
        /\ asked' = Answered(r) (+) AskFor(chat) (+) AskFor(sender)
                      (+) Requested(t, r.depth + 1, done)
        /\ DownloadFile(t)
        /\ UNCHANGED <<message, known, told>> /\ UNCHANGED tables

\* Mutant: nothing is recorded of a reply to an unavailable message.
ErrorAnswer_Silent(r) ==
    /\ asked' = Answered(r)
    /\ UNCHANGED <<message, known, resolved, told, serial>>
    /\ UNCHANGED downloads /\ UNCHANGED tables

\* An error: a reply is linked anyway, nothing else is done.
ErrorAnswer(r) ==
    /\ asked' = Answered(r)
    /\ serial' = IF r.type = "replied" THEN Append(serial, LinkOf(r.id, FALSE)) ELSE serial
    /\ UNCHANGED <<message, known, resolved, told>>
    /\ UNCHANGED downloads /\ UNCHANGED tables

-----------------------------------------------------------------------------
(* Users, chats and files *)

\* Mutant: the entity is remembered but not posted.
Learn_CacheOnly(e) ==
    /\ known' = known \cup {e}
    /\ UNCHANGED serial

\* The entity is posted, then remembered.
Learn(e) ==
    /\ serial' = Append(serial, Upsert(e))
    /\ known' = known \cup {e}

\* updateUser, updateNewChat.
UpdateEntity(e) ==
    /\ e \notin known   \* bound: the first one; the others are posted alike
    /\ Learn(e)
    /\ UNCHANGED <<message, asked, resolved, told>>
    /\ UNCHANGED downloads /\ UNCHANGED tables

\* The answer of ensure_user_saved, ensure_chat_saved.
EntityAnswer(r) ==
    /\ r.type \in {"user", "chat"}
    /\ asked' = Answered(r)
    /\ Learn(r.id)
    /\ UNCHANGED <<message, resolved, told>>
    /\ UNCHANGED downloads /\ UNCHANGED tables

\* handle_file_update for a download that is complete.
FileUpdate(f) ==
    /\ f \notin complete
    /\ \E m \in wanting : message[m].file = f
    /\ complete' = complete \cup {f}
    /\ served' = served \cup ({pending[f]} \ {None})
    /\ pending' = [pending EXCEPT ![f] = None]
    /\ UNCHANGED <<message, known, asked, resolved, told, serial, wanting>>
    /\ UNCHANGED tables

-----------------------------------------------------------------------------
(* serial_ *)

UpsertEntity(j) ==
    /\ j.op = "upsert"
    /\ rows' = rows \cup {j.id}
    /\ UNCHANGED <<stored, linked, lost, dangling>>

\* A transaction whose foreign keys do not resolve is rolled back.
SaveMessage(j) ==
    LET missing == References(j.id) \ rows
    IN  /\ j.op = "save"
        /\ IF missing = {}
             THEN stored' = stored \cup {j.id} /\ UNCHANGED lost
             ELSE /\ lost' = lost \cup {[op |-> "save", id |-> j.id, sure |-> j.sure,
                                         missing |-> missing]}
                  /\ UNCHANGED stored
        /\ UNCHANGED <<rows, linked, dangling>>

\* The UPDATE of a message without a row matches nothing; its LEFT JOIN looks for
\* the replied message in the table of the reply.
LinkReply(j) ==
    /\ j.op = "link"
    /\ linked' = linked \cup ({j.id} \cap stored)
    /\ dangling' = IF /\ j.id \in stored
                      /\ ~(Replied(j.id) \in stored /\ SameTable(j.id, Replied(j.id)))
                     THEN dangling \cup {j} ELSE dangling
    /\ UNCHANGED <<rows, stored, lost>>

JobSucceeds(j) ==
    /\ UpsertEntity(j) \/ SaveMessage(j) \/ LinkReply(j)
    /\ UNCHANGED failed

\* Any other exception (no connection, a lost session, a deadlock): it is logged and
\* the job is gone.
JobThrows(j) ==
    /\ Cardinality(failed \cup {j}) <= MaxThrows
    /\ failed' = failed \cup {j}
    /\ UNCHANGED <<rows, stored, linked, lost, dangling>>

RunSerial ==
    /\ serial # <<>>
    /\ JobSucceeds(Head(serial)) \/ JobThrows(Head(serial))
    /\ serial' = Tail(serial)
    /\ UNCHANGED <<message, known, asked, resolved, told>> /\ UNCHANGED downloads

-----------------------------------------------------------------------------

Answer(r) ==
    /\ BagIn(r, asked)
    /\ EditedAnswer(r) \/ RepliedAnswer(r) \/ EntityAnswer(r) \/ ErrorAnswer(r)

Next == \/ \E m \in Sent : NewMessage(m) \/ MessageEdited(m)
        \/ \E r \in BagToSet(asked) : Answer(r)
        \/ \E e \in Mentioned : UpdateEntity(e)
        \/ \E f \in FileIds : FileUpdate(f)
        \/ RunSerial

\* TDLib answers every request, with an error if it must; the worker of serial_
\* runs what is posted (module ThreadPool).
Fairness == /\ WF_vars(RunSerial)
            /\ \A r \in Request : WF_vars(Answer(r))

Spec == Init /\ [][Next]_vars /\ Fairness

-----------------------------------------------------------------------------
(* Properties, beside KnownIsStored and FetchedIsFound of HandlerPromises *)

\* Every reply with a row has its reply columns set in the end unless the job that
\* sets them threw, although its target may be unavailable, beyond the depth cap, or
\* requested for several replies at once, and whatever else arrives meanwhile
\* (resolve_reply_message emits on every path: "Replied message unavailable; record
\* anyway"; that the target has a row then is FetchedIsFound's matter).
EveryReplyLinked ==
    \A m \in Messages :
        (m \in stored /\ Replied(m) # None)
          ~> (m \in linked \/ \E j \in failed : j.op = "link" /\ j.id = m)

\* Every message that asked for a file is handed over once the file is complete
\* (setMessageFileHandler: "invoked when a message's media attachment has finished
\* downloading, so it can be stored and linked").
NoDownloadForgotten ==
    \A m \in wanting : message[m].file \in complete => m \in served

=============================================================================
