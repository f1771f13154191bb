---------------------------- MODULE EventLoopMC ----------------------------
(***************************************************************************)
(* Messages for the runs of EventLoop.                                     *)
(***************************************************************************)
EXTENDS EventLoop

CONSTANTS u1, u2, c1, m1, m2, m3, f1

\* u2 is this account.
Msg(chat, sender, origin, reply, file, edits) ==
    [chat |-> chat, sender |-> sender, outgoing |-> sender = u2, origin |-> origin,
     reply |-> reply, file |-> file, edits |-> edits]

Shape(a, b, c) == [m \in {m1, m2, m3} |-> CASE m = m1 -> a [] m = m2 -> b [] OTHER -> c]

\* A chain of replies among the posts of a channel, longer than the depth cap.
Chain == Shape(Msg(c1, c1, None, None, None, 0),
               Msg(c1, c1, None, m1, None, 0),
               Msg(c1, c1, None, m2, None, 0))

\* Two replies to one message, one of them by another sender.
Fork == Shape(Msg(c1, c1, None, None, None, 0),
              Msg(c1, c1, None, m1, None, 0),
              Msg(c1, u1, None, m1, None, 0))

\* A reply of this account to a message of its chat with itself, edited once.
Cross == Shape(Msg(u2, u2, None, None, None, 0),
               Msg(u1, u2, None, m1, None, 1),
               None)

\* A reply of this account to a message forwarded from itself.
Forward == Shape(Msg(u1, u1, u2, None, None, 0),
                 Msg(u1, u2, None, m1, None, 0),
                 None)

\* Two messages with one file; the second, forwarded from a channel, replies to
\* the first.
SameFile == Shape(Msg(u1, u1, None, None, f1, 0),
                  Msg(u1, u1, c1, m1, f1, 0),
                  None)

\* A reply in a private chat to a message of a group.
Tables == Shape(Msg(c1, u1, None, None, None, 0),
                Msg(u1, u1, None, m1, None, 0),
                None)

AllShapes == {Chain, Fork, Cross, Forward, SameFile, Tables}
FileShapes == {SameFile}

=============================================================================
