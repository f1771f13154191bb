-------------------------- MODULE HandlerPromises --------------------------
(***************************************************************************)
(* What the handlers of the TDLib client promise about the jobs they post, *)
(* stated on the jobs that came to nothing on serial_.  Module EventLoop   *)
(* has the handlers and the jobs; the promises stand apart because its     *)
(* runs check them and module TgLoggerdProofs proves them.                 *)
(***************************************************************************)

CONSTANT Users

VARIABLES message,   \* the messages, as Telegram has them
          failed,    \* history: the jobs that threw, logged and dropped
          lost,      \* history: the saves that failed on a foreign key
          dangling   \* history: the link jobs that did not find the replied message

Replied(m) == message[m].reply

\* private_messages or group_messages: by the kind of the chat.
SameTable(m, t) == (message[m].chat \in Users) <=> (message[t].chat \in Users)

Upsert(e) == [op |-> "upsert", id |-> e]

\* A message all of whose entities were known when it was handled is lost to a
\* foreign key only over entities whose own upsert threw: an entity is posted before
\* it is remembered, by whatever path it became known, and what is remembered is
\* never overtaken on serial_ (updateUser, ensure_user_saved, ensure_chat_saved).
KnownIsStored ==
    \A j \in lost : j.sure => \A e \in j.missing : Upsert(e) \in failed

\* The link of a reply whose target was fetched finds the target's row if that is in
\* the reply's own table, whether the target was fetched for this reply or for an
\* earlier one, unless the target's save threw or was lost to a foreign key
\* (resolve_reply_message: mark, handle, then emit).
FetchedIsFound ==
    \A j \in dangling :
        j.fetched /\ SameTable(j.id, Replied(j.id))
          => \E k \in lost \cup failed : k.op = "save" /\ k.id = Replied(j.id)
=============================================================================
