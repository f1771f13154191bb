----------------------------- MODULE GroupTracker -----------------------------
(***************************************************************************)
(* The part of the TDLib client that assembles groups and keeps track of   *)
(* their administrators: group_state_, supergroups_, chat_to_group_ and    *)
(* the admin_poll_* members of TDLib::Impl.  All of it runs on the event   *)
(* loop's thread, one update or answer at a time; what is unknown is in    *)
(* which order Telegram sends them.                                        *)
(*                                                                         *)
(* What is known of a group comes in pieces: the chat has the title, the   *)
(* supergroup the usernames, the full info the description.  A group is    *)
(* handed to group_handler_ whenever a piece changes, once the chat is     *)
(* known.  Administrators are fetched when a group is first seen and then  *)
(* polled, a batch per alarm, round-robin.                                 *)
(*                                                                         *)
(* Photos (module TgLoggerd) and the saving of the administrators' users   *)
(* are left out, and so is the request for the full info, which may come   *)
(* at any time here.                                                       *)
(*                                                                         *)
(* group_state_ and supergroups_ are indexed by the id of a basic group or *)
(* by that of a supergroup, two spaces of numbers that overlap: a basic    *)
(* group and a supergroup may have one id, and then they share a state.    *)
(* Everything else is indexed by the chat, of which every group has its    *)
(* own; a group stands for its chat here.                                  *)
(***************************************************************************)
EXTENDS Naturals, Sequences, FiniteSetsExt

CONSTANTS BasicGroups,  \* basic groups: administrators come with the full info
          Supergroups,  \* supergroups and channels: getSupergroupMembers
          Channels,     \* those of them that are channels
          Titles,       \* titles
          Usernames,    \* usernames, those of a supergroup taken together
          Abouts,       \* descriptions
          AdminLists,   \* the lists of administrators a group can have
          None,         \* nothing yet
          Batch,        \* admin_poll_batch_
          MaxMiss,      \* kAdminPollMaxMiss
          MaxInFlight   \* bound: unanswered getSupergroupMembers of a group

Groups == BasicGroups \cup Supergroups

ASSUME KindsAssumption ==
    BasicGroups \cap Supergroups = {} /\ Channels \subseteq Supergroups
ASSUME BatchAssumption == Batch \in Nat \ {0}
ASSUME MissAssumption == MaxMiss \in Nat \ {0} /\ MaxInFlight \in Nat \ {0}
ASSUME ListsAssumption == {} \notin AdminLists

Fields == [title : Titles \cup {None}, about : Abouts \cup {None},
           names : Usernames \cup {None}]

Kinds == {"basic", "super", "channel"}

\* GroupState: chat_id and, once it is set, chat_seen.
GroupState == [chat : Groups \cup {None}, type : Kinds,
               title : Titles \cup {None}, about : Abouts \cup {None},
               names : Usernames \cup {None}]

SgInfo == [names : Usernames, is_channel : BOOLEAN]

\* What group_handler_ is given.
Group == [type : Kinds, title : Titles, about : Abouts \cup {None},
          names : Usernames \cup {None}]

ASSUME NoneAssumption ==
    /\ None \notin Titles \cup Usernames \cup Abouts \cup Groups
    /\ None \notin GroupState /\ None \notin SgInfo

VARIABLES id,          \* id[g]: its basic_group_id_ or supergroup_id_, named after a
                       \* group that has it; it never changes
          group,       \* group_state_, by id
          cached,      \* supergroups_, by id: kept until the chat comes
          chats,       \* the groups whose chat is in chat_to_group_
          fetching,    \* chats asked for with getChat
          emitted,     \* emitted[g]: what group_handler_ was given last for the
                       \* chat of g; emitted[None] for chat_id 0
          tracked,     \* admin_poll_set_
          queue,       \* admin_poll_queue_
          miss,        \* admin_poll_miss_
          requests,    \* requests[g]: unanswered getSupergroupMembers
          admins,      \* admins[g]: what group_admins_handler_ was given last
          alarms,      \* unanswered setAlarm requests
          started,     \* admin_poll_started_
          authorized,  \* is_authorized_
          ending,      \* closing_ or stopped_
          told,        \* history: the last title, description and usernames
                       \* that Telegram has sent of a group alone with its id
          denied,      \* history: permission errors since the last member list
          polled       \* history: the groups the last step has polled

groups == <<id, group, cached, chats, fetching, emitted, told>>
polling == <<tracked, queue, miss, requests, admins, denied>>
session == <<alarms, started, authorized, ending>>
vars == <<groups, polling, session, polled>>

TypeOK ==
    /\ id \in [Groups -> Groups]
    /\ group \in [Groups -> GroupState \cup {None}]
    /\ cached \in [Groups -> SgInfo \cup {None}]
    /\ chats \subseteq Groups
    /\ fetching \subseteq Groups
    /\ emitted \in [Groups \cup {None} -> Group \cup {None}]
    /\ tracked \subseteq Groups
    /\ queue \in Seq(Groups)
    /\ miss \in [Groups -> Nat]
    /\ requests \in [Groups -> Nat]
    /\ admins \in [Groups -> AdminLists \cup {None}]
    /\ alarms \in Nat
    /\ started \in BOOLEAN /\ authorized \in BOOLEAN /\ ending \in BOOLEAN
    /\ told \in [Groups -> Fields]
    /\ denied \in [Groups -> Nat]
    /\ polled \subseteq Groups

\* The ids that groups can have: the same id only across the two kinds.
IdMaps == {f \in [Groups -> Groups] :
              /\ \A g \in BasicGroups : f[g] = g
              /\ \A g \in Supergroups : f[g] \in BasicGroups \cup {g}
              /\ \A g, h \in Supergroups : f[g] = f[h] => g = h}

Init ==
    /\ id \in IdMaps
    /\ group = [g \in Groups |-> None]
    /\ cached = [g \in Groups |-> None]
    /\ chats = {}
    /\ fetching = {}
    /\ emitted = [g \in Groups \cup {None} |-> None]
    /\ tracked = {}
    /\ queue = <<>>
    /\ miss = [g \in Groups |-> 0]
    /\ requests = [g \in Groups |-> 0]
    /\ admins = [g \in Groups |-> None]
    /\ alarms = 0
    /\ started = FALSE /\ authorized = FALSE /\ ending = FALSE
    /\ told = [g \in Groups |-> [title |-> None, about |-> None, names |-> None]]
    /\ denied = [g \in Groups |-> 0]
    /\ polled = {}

KindOf(g) == IF g \in BasicGroups THEN "basic"
             ELSE IF g \in Channels THEN "channel" ELSE "super"

\* group_state_ has an entry for the id of g, be it that of another group.
Known(g) == group[id[g]] # None

\* What group_state_ has for the id of g, or is created with.
StateOf(g) == IF Known(g) THEN group[id[g]]
              ELSE [chat |-> None, type |-> "basic", title |-> None,
                    about |-> None, names |-> None]

\* No other group has the id of g.
Alone(g) == \A h \in Groups \ {g} : id[h] # id[g]

\* History: Telegram has sent a piece of g, which makes it f.
Tell(g, f) == told' = IF Alone(g) THEN [told EXCEPT ![g] = f] ELSE told

Handed(st) == [type |-> st.type, title |-> st.title, about |-> st.about,
               names |-> st.names]

\* Mutant: a group is handed on although its chat is not known yet.
EmitGroup_Unseen(st) == emitted' = [emitted EXCEPT ![st.chat] = Handed(st)]

\* emit_group, for a state: the chat it is handed on for is the state's.
EmitGroup(st) ==
    emitted' = IF st.chat # None THEN [emitted EXCEPT ![st.chat] = Handed(st)]
                                 ELSE emitted

SetGroup(g, st) == group' = [group EXCEPT ![id[g]] = st]

-----------------------------------------------------------------------------
(* Chats *)

\* First sight of a group of the chat list: track it and fetch its administrators.
StartTracking(g) ==
    /\ tracked' = tracked \cup {g}
    /\ queue' = Append(queue, g)
    /\ requests' = IF g \in Supergroups THEN [requests EXCEPT ![g] = @ + 1]
                   ELSE requests
    /\ UNCHANGED <<miss, admins, denied>>

\* Mutant: a group that is announced again is tracked again.
MayTrack_Again(g, from_chat_list) == from_chat_list

\* A group of whose id something else was heard first is never tracked.
MayTrack(g, from_chat_list) == from_chat_list /\ ~Known(g) /\ g \notin tracked

\* Mutant: usernames that came before the chat are forgotten.
MergedNames_Dropped(g) == StateOf(g).names

MergedNames(g) ==
    IF cached[id[g]] # None THEN cached[id[g]].names ELSE StateOf(g).names

MergedType(g) ==
    IF cached[id[g]] # None /\ cached[id[g]].is_channel THEN "channel" ELSE KindOf(g)

HandleNewChat(g, title, from_chat_list) ==
    LET st == [StateOf(g) EXCEPT !.chat = g, !.type = MergedType(g),
                                 !.title = title, !.names = MergedNames(g)]
    IN  /\ SetGroup(g, st)
        /\ chats' = chats \cup {g}
        /\ EmitGroup(st)
        /\ Tell(g, [told[g] EXCEPT !.title = title])
        /\ IF MayTrack(g, from_chat_list) THEN StartTracking(g)
                                          ELSE UNCHANGED polling
        /\ polled' = {}
        /\ UNCHANGED <<id, cached, session>>

\* updateNewChat
NewChat(g, title) ==
    /\ HandleNewChat(g, title, TRUE)
    /\ UNCHANGED fetching

\* ensure_chat_saved, for a forward or a reply that refers to g.
EnsureChatSaved(g) ==
    /\ IF g \in chats THEN EmitGroup(StateOf(g)) /\ UNCHANGED fetching
                       ELSE fetching' = fetching \cup {g} /\ UNCHANGED emitted
    /\ polled' = {}
    /\ UNCHANGED <<id, group, cached, chats, told, polling, session>>

\* The answer to getChat.
ChatAnswer(g, title) ==
    /\ g \in fetching
    /\ fetching' = fetching \ {g}
    /\ HandleNewChat(g, title, FALSE)

\* updateChatTitle
ChatTitle(g, title) ==
    /\ Tell(g, [told[g] EXCEPT !.title = title])
    /\ IF g \in chats
       THEN LET st == [StateOf(g) EXCEPT !.title = title] IN
            SetGroup(g, st) /\ EmitGroup(st)
       ELSE UNCHANGED <<group, emitted>>
    /\ polled' = {}
    /\ UNCHANGED <<id, cached, chats, fetching, polling, session>>

\* updateSupergroup, which Telegram sends before the chat.
Supergroup(g, names) ==
    /\ g \in Supergroups
    /\ cached' = [cached EXCEPT ![id[g]] = [names |-> names,
                                            is_channel |-> g \in Channels]]
    /\ Tell(g, [told[g] EXCEPT !.names = names])
    /\ IF Known(g)
       THEN LET st == [group[id[g]] EXCEPT !.names = names, !.type = KindOf(g)] IN
            SetGroup(g, st) /\ EmitGroup(st)
       ELSE UNCHANGED <<group, emitted>>
    /\ polled' = {}
    /\ UNCHANGED <<id, chats, fetching, polling, session>>

\* updateSupergroupFullInfo
SupergroupFullInfo(g, about) ==
    LET st == [StateOf(g) EXCEPT !.about = about] IN
    /\ g \in Supergroups
    /\ Tell(g, [told[g] EXCEPT !.about = about])
    /\ SetGroup(g, st)
    /\ EmitGroup(st)
    /\ polled' = {}
    /\ UNCHANGED <<id, cached, chats, fetching, polling, session>>

\* updateBasicGroupFullInfo, whose members may hold no administrator (list = {}).
\* The administrators are handed on for the chat of the state.
BasicGroupFullInfo(g, about, list) ==
    LET st == [StateOf(g) EXCEPT !.about = about] IN
    /\ g \in BasicGroups
    /\ Tell(g, [told[g] EXCEPT !.about = about])
    /\ SetGroup(g, st)
    /\ EmitGroup(st)
    /\ admins' = IF st.chat \in tracked /\ list # {}
                 THEN [admins EXCEPT ![st.chat] = list] ELSE admins
    /\ polled' = {}
    /\ UNCHANGED <<id, cached, chats, fetching, tracked, queue, miss, requests, denied,
                   session>>

-----------------------------------------------------------------------------
(* The answer to getSupergroupMembers *)

Answered(g) == /\ requests[g] > 0
               /\ requests' = [requests EXCEPT ![g] = @ - 1]
               /\ polled' = {}
               /\ UNCHANGED <<groups, queue, session>>

\* Mutant: a member list does not clear the misses.
MemberList_KeepsMisses(g, list) ==
    /\ Answered(g)
    /\ miss' = miss
    /\ denied' = [denied EXCEPT ![g] = 0]
    /\ admins' = IF list # {} THEN [admins EXCEPT ![g] = list] ELSE admins
    /\ UNCHANGED tracked

\* A member list, in which there may be no administrator (list = {}).
MemberList(g, list) ==
    /\ Answered(g)
    /\ miss' = [miss EXCEPT ![g] = 0]
    /\ denied' = [denied EXCEPT ![g] = 0]
    /\ admins' = IF list # {} THEN [admins EXCEPT ![g] = list] ELSE admins
    /\ UNCHANGED tracked

\* Error 400 or 403.  The bound on miss[g] is that of the requests.
PermissionError(g) ==
    /\ Answered(g)
    /\ miss' = [miss EXCEPT ![g] = @ + 1]
    /\ denied' = [denied EXCEPT ![g] = @ + 1]
    /\ tracked' = IF miss[g] + 1 >= MaxMiss THEN tracked \ {g} ELSE tracked
    /\ UNCHANGED admins

\* FLOOD_WAIT, a server error, or an answer of another type.
TransientError(g) ==
    /\ Answered(g)
    /\ UNCHANGED <<tracked, miss, admins, denied>>

-----------------------------------------------------------------------------
(* The alarm *)

\* The tracked groups among the first k of the queue, by position.
TrackedAmong(k) == {i \in 1 .. k : queue[i] \in tracked}

\* How far poll_admin_batch scans: to the tracked group that completes the batch,
\* or through the whole queue.
Scanned == Min({k \in 0 .. Len(queue) : Cardinality(TrackedAmong(k)) = Batch}
                 \cup {Len(queue)})

\* The position of the j-th tracked group.
Nth(j) == CHOOSE i \in TrackedAmong(Len(queue)) : Cardinality(TrackedAmong(i)) = j

\* The tracked groups of the scanned part, in their order.
Front == [j \in 1 .. Cardinality(TrackedAmong(Scanned)) |-> queue[Nth(j)]]

InFront == {Front[i] : i \in 1 .. Len(Front)}

\* Those of them that getSupergroupMembers is asked about: the kind is the one of
\* the state.
Refetched == {g \in InFront : StateOf(g).type # "basic"}

\* Mutant: the groups go back to the head of the queue.
PollAdminBatch_NoRotation ==
    /\ polled' = InFront
    /\ queue' = Front \o SubSeq(queue, Scanned + 1, Len(queue))
    /\ requests' = [g \in Groups |-> IF g \in Refetched
                                     THEN requests[g] + 1 ELSE requests[g]]

\* Evicted groups are dropped from the scanned part, the others are asked about
\* and go to the rear.  (A tracked group always has a chat and a state.)
PollAdminBatch ==
    /\ polled' = InFront
    /\ queue' = SubSeq(queue, Scanned + 1, Len(queue)) \o Front
    /\ requests' = [g \in Groups |-> IF g \in Refetched
                                     THEN requests[g] + 1 ELSE requests[g]]

\* The answer to setAlarm.
OnAdminAlarm ==
    /\ alarms > 0
    /\ \A g \in Groups : requests[g] < MaxInFlight
    /\ IF ending
       THEN /\ alarms' = alarms - 1
            /\ polled' = {}
            /\ UNCHANGED <<queue, requests>>
       ELSE /\ UNCHANGED alarms
            /\ IF authorized
               THEN PollAdminBatch
               ELSE polled' = {} /\ UNCHANGED <<queue, requests>>
    /\ UNCHANGED <<groups, tracked, miss, admins, denied, started, authorized, ending>>

-----------------------------------------------------------------------------
(* Authorization *)

\* Mutant: every login arms an alarm.
Ready_Rearms ==
    /\ ~ending
    /\ authorized' = TRUE
    /\ started' = TRUE
    /\ alarms' = alarms + 1
    /\ polled' = {}
    /\ UNCHANGED <<groups, polling, ending>>

\* authorizationStateReady, with polling enabled (interval > 0).
Ready ==
    /\ ~ending
    /\ authorized' = TRUE
    /\ started' = TRUE
    /\ alarms' = IF started THEN alarms ELSE alarms + 1
    /\ polled' = {}
    /\ UNCHANGED <<groups, polling, ending>>

\* authorizationStateLoggingOut
LoggingOut ==
    /\ authorized
    /\ authorized' = FALSE
    /\ polled' = {}
    /\ UNCHANGED <<groups, polling, alarms, started, ending>>

\* close(), or authorizationStateClosed.
Close ==
    /\ ~ending
    /\ ending' = TRUE
    /\ authorized' \in {authorized, FALSE}
    /\ polled' = {}
    /\ UNCHANGED <<groups, polling, alarms, started>>

-----------------------------------------------------------------------------

Answer(g) == \/ \E list \in AdminLists \cup {{}} : MemberList(g, list)
             \/ PermissionError(g)
             \/ TransientError(g)

Update(g) == \/ \E t \in Titles : NewChat(g, t) \/ ChatTitle(g, t) \/ ChatAnswer(g, t)
             \/ \E n \in Usernames : Supergroup(g, n)
             \/ \E a \in Abouts : SupergroupFullInfo(g, a)
             \/ \E a \in Abouts, list \in AdminLists \cup {{}} :
                   BasicGroupFullInfo(g, a, list)
             \/ EnsureChatSaved(g)

Next == \/ \E g \in Groups : Update(g) \/ Answer(g)
        \/ OnAdminAlarm
        \/ Ready \/ LoggingOut \/ Close

\* TDLib answers every request, setAlarm included, and the event loop processes
\* what it receives.  Telegram owes us no update.
Fairness == /\ WF_vars(OnAdminAlarm)
            /\ \A g \in Groups : WF_vars(Answer(g))

Spec == Init /\ [][Next]_vars /\ Fairness

-----------------------------------------------------------------------------
(* Properties *)

\* Whatever the order in which chat, supergroup and full info arrive, a group that
\* is known by its chat and shares its id with no other was last handed on with the
\* newest title, description and usernames, and with its kind.  Of two that share an
\* id the one that owns the state was handed on with all that the state has got to.
EmittedIsCurrent ==
    \A g \in chats :
        /\ Alone(g) => emitted[g] = [type |-> KindOf(g), title |-> told[g].title,
                                     about |-> told[g].about, names |-> told[g].names]
        /\ StateOf(g).chat = g => emitted[g] = Handed(StateOf(g))

\* Before its chat is known nothing is handed on of a group, not even when another
\* group has its id: neither its row nor administrators, which refer to that row.
\* Nothing is ever handed on for chat_id 0.
NothingBeforeChat ==
    /\ \A g \in (Groups \cup {None}) \ chats : emitted[g] = None
    /\ \A g \in Groups \ chats : admins[g] = None /\ g \notin tracked

\* "Exactly one alarm is in flight at any time": from the first login until the
\* client is closed, whatever logins and logouts come in between.
OneAlarm == alarms <= 1 /\ (started /\ ~ending => alarms = 1)

\* The poll queue has every tracked group, and none twice.
QueueHoldsTracked ==
    /\ \A g \in tracked : \E i \in 1 .. Len(queue) : queue[i] = g
    /\ \A i, j \in 1 .. Len(queue) : queue[i] = queue[j] => i = j

\* A group is dropped only when Telegram has refused its members MaxMiss times
\* without a member list in between.
EvictedForMisses ==
    [][\A g \in tracked : g \notin tracked' => denied'[g] >= MaxMiss]_vars

\* While the client is logged in a group that stays tracked is polled again and
\* again.
PolledForever ==
    \A g \in Groups :
        <>[](g \in tracked /\ authorized /\ ~ending) => []<>(g \in polled)
=============================================================================
