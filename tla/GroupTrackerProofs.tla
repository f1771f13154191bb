-------------------------- MODULE GroupTrackerProofs --------------------------
(***************************************************************************)
(* Proofs about GroupTracker, for every set of groups, titles, usernames   *)
(* and lists, every batch size and every limit on misses.                  *)
(***************************************************************************)
EXTENDS GroupTracker, SequenceTheorems, FiniteSetTheorems, TLAPS

-----------------------------------------------------------------------------
(* The inductive invariant *)

\* What is known of g when no other group has its id: its state st, the entry n of
\* supergroups_, and what was last told.  (Of a group that shares its id neither the
\* state nor the entry needs to be its own.)
Agree(g, st, n, t) ==
    /\ n = None => t.names = None
    /\ n # None => n.names = t.names /\ (n.is_channel <=> g \in Channels)
    /\ st = None => t.about = None
    /\ st # None => st.about = t.about /\ st.names \in {t.names, None}
    /\ st # None /\ st.chat = g =>
          st.type = KindOf(g) /\ st.title = t.title /\ st.names = t.names

\* The state st of the id i: the chat it belongs to is known, has that id, and was
\* handed on with all that the state has.
Owned(i, st) ==
    st # None /\ st.chat # None =>
        st.chat \in chats /\ id[st.chat] = i /\ emitted[st.chat] = Handed(st)

GroupTypes ==
    /\ id \in [Groups -> Groups]
    /\ group \in [Groups -> GroupState \cup {None}]
    /\ cached \in [Groups -> SgInfo \cup {None}]
    /\ chats \subseteq Groups
    /\ fetching \subseteq Groups
    /\ emitted \in [Groups \cup {None} -> Group \cup {None}]
    /\ told \in [Groups -> Fields]

Assembled ==
    /\ GroupTypes
    /\ \A i \in Groups : Owned(i, group[i])
    /\ \A i \in Groups : group[i] # None /\ group[i].chat # None => group[i].title \in Titles
    /\ \A g \in chats : group[id[g]] # None /\ group[id[g]].chat # None
    /\ \A g \in (Groups \cup {None}) \ chats : emitted[g] = None
    /\ \A g \in Groups : Alone(g) => Agree(g, group[id[g]], cached[id[g]], told[g])

PollTypes ==
    /\ tracked \subseteq Groups
    /\ queue \in Seq(Groups)
    /\ miss \in [Groups -> Nat]
    /\ requests \in [Groups -> Nat]
    /\ admins \in [Groups -> AdminLists \cup {None}]
    /\ denied \in [Groups -> Nat]
    /\ polled \subseteq Groups

\* Only groups whose chat is known are tracked, queued, asked about or have
\* administrators.  (An evicted group stays in the queue for a while.)
OnlyKnown ==
    /\ \A g \in Groups :
          g \in tracked \/ requests[g] > 0 \/ admins[g] # None => g \in chats
    /\ \A i \in 1 .. Len(queue) : queue[i] \in chats

\* The code counts the permission errors since the last member list.
MissIsDenied == \A g \in Groups : miss[g] = denied[g]

Polling == PollTypes /\ OnlyKnown /\ QueueHoldsTracked /\ MissIsDenied

Session == /\ alarms \in Nat
           /\ started \in BOOLEAN /\ authorized \in BOOLEAN /\ ending \in BOOLEAN
           /\ OneAlarm
           /\ ~started => alarms = 0

Inv == Assembled /\ Polling /\ Session

-----------------------------------------------------------------------------
(* Steps that assemble a group *)

\* The id of g gets the state st and the entry n, and is handed on; the other ids
\* stay.  The chat of the state may be new, but it is never taken back.
LEMMA StateStep ==
    ASSUME Assembled, NEW g \in Groups,
           NEW st \in GroupState, NEW n \in SgInfo \cup {None}, NEW t \in Fields,
           id' = id,
           group' = [group EXCEPT ![id[g]] = st],
           cached' = [cached EXCEPT ![id[g]] = n],
           EmitGroup(st),
           Tell(g, t),
           fetching' \subseteq Groups,
           chats' = chats \/ (chats' = chats \cup {g} /\ st.chat = g),
           st.chat # None => st.chat \in chats' /\ id[st.chat] = id[g] /\ st.title \in Titles,
           Known(g) /\ group[id[g]].chat # None => st.chat # None,
           Alone(g) => Agree(g, st, n, t)
    PROVE  Assembled' /\ chats \subseteq chats'
  <1>1. GroupTypes /\ id[g] \in Groups /\ None \notin Groups
    BY NoneAssumption DEF Assembled, GroupTypes
  <1>2. /\ group' \in [Groups -> GroupState \cup {None}] /\ group'[id[g]] = st
        /\ cached' \in [Groups -> SgInfo \cup {None}] /\ cached'[id[g]] = n
        /\ \A i \in Groups : i # id[g] => group'[i] = group[i] /\ cached'[i] = cached[i]
    BY <1>1 DEF GroupTypes
  <1>3. /\ chats' \subseteq Groups /\ chats \subseteq chats'
    BY <1>1 DEF GroupTypes
  <1>4. st # None
    BY NoneAssumption
  <1>5. st.chat # None => Handed(st) \in Group
    BY DEF Handed, Group, GroupState
  <1>6. /\ emitted' \in [Groups \cup {None} -> Group \cup {None}]
        /\ st.chat # None => emitted'[st.chat] = Handed(st)
        /\ \A h \in Groups \cup {None} : h # st.chat => emitted'[h] = emitted[h]
    <2>1. CASE st.chat # None
      <3>1. emitted' = [emitted EXCEPT ![st.chat] = Handed(st)] /\ st.chat \in Groups
        BY <1>3, <2>1 DEF EmitGroup
      <3> QED
        BY <1>1, <1>5, <2>1, <3>1 DEF GroupTypes
    <2>2. CASE st.chat = None
      BY <1>1, <2>2 DEF EmitGroup, GroupTypes
    <2> QED
      BY <2>1, <2>2
  <1>7. /\ told' \in [Groups -> Fields]
        /\ Alone(g) => told'[g] = t
        /\ \A h \in Groups : h # g \/ ~Alone(g) => told'[h] = told[h]
    BY <1>1 DEF Tell, GroupTypes
  <1>8. GroupTypes'
    BY <1>1, <1>2, <1>3, <1>6, <1>7 DEF GroupTypes
  <1>9. ASSUME NEW i \in Groups, group'[i] # None, group'[i].chat # None
        PROVE  /\ group'[i].chat \in chats' /\ id'[group'[i].chat] = i
               /\ emitted'[group'[i].chat] = Handed(group'[i])
               /\ group'[i].title \in Titles
    <2>1. CASE i = id[g]
      BY <1>2, <1>6, <1>9, <2>1
    <2>2. CASE i # id[g]
      <3>1. group'[i] = group[i]
        BY <1>2, <2>2
      <3>2. /\ group[i].chat \in chats /\ id[group[i].chat] = i
            /\ emitted[group[i].chat] = Handed(group[i]) /\ group[i].title \in Titles
        BY <1>9, <3>1 DEF Assembled, Owned
      <3>3. group[i].chat # st.chat /\ group[i].chat \in Groups
        BY <1>1, <2>2, <3>2 DEF GroupTypes
      <3> QED
        BY <1>3, <1>6, <3>1, <3>2, <3>3
    <2> QED
      BY <2>1, <2>2
  <1>10. ASSUME NEW h \in chats'
         PROVE  group'[id'[h]] # None /\ group'[id'[h]].chat # None
    <2>1. h \in Groups /\ id[h] \in Groups
      BY <1>1, <1>3 DEF GroupTypes
    <2>2. CASE h \in chats
      <3>1. group[id[h]] # None /\ group[id[h]].chat # None
        BY <2>2 DEF Assembled
      <3>2. CASE id[h] = id[g]
        BY <1>2, <1>4, <3>1, <3>2 DEF Known
      <3>3. CASE id[h] # id[g]
        BY <1>2, <2>1, <3>1, <3>3
      <3> QED
        BY <3>2, <3>3
    <2>3. CASE h \notin chats
      <3>1. h = g /\ st.chat = g
        BY <2>3
      <3> QED
        BY <1>1, <1>2, <1>4, <3>1
    <2> QED
      BY <2>2, <2>3
  <1>11. ASSUME NEW h \in (Groups \cup {None}) \ chats' PROVE emitted'[h] = None
    <2>1. h \notin chats /\ emitted[h] = None
      BY <1>3 DEF Assembled
    <2>2. CASE h # st.chat
      BY <1>6, <2>1, <2>2
    <2>3. CASE h = st.chat
      <3>1. st.chat = None
        BY <2>3
      <3> QED
        BY <2>1, <2>3, <3>1 DEF EmitGroup
    <2> QED
      BY <2>2, <2>3
  <1>12. ASSUME NEW h \in Groups, Alone(h)
         PROVE  Agree(h, group'[id[h]], cached'[id[h]], told'[h])
    <2>1. CASE h = g
      BY <1>2, <1>7, <1>12, <2>1
    <2>2. CASE h # g
      <3>1. id[h] # id[g] /\ id[h] \in Groups
        BY <1>1, <1>12, <2>2 DEF Alone, GroupTypes
      <3>2. Agree(h, group[id[h]], cached[id[h]], told[h])
        BY <1>12 DEF Assembled
      <3> QED
        BY <1>2, <1>7, <2>2, <3>1, <3>2
    <2> QED
      BY <2>1, <2>2
  <1>13. \A h \in Groups : Alone(h)' => Alone(h)
    BY DEF Alone
  <1>14. \A h \in Groups : Alone(h)' => Agree(h, group[id[h]], cached[id[h]], told[h])'
    BY <1>12, <1>13 DEF Agree, KindOf
  <1>15. \A i \in Groups : Owned(i, group[i])'
    BY <1>9 DEF Owned, Handed
  <1> QED
    BY <1>3, <1>8, <1>9, <1>10, <1>11, <1>14, <1>15 DEF Assembled

\* The state of g, created if need be.
LEMMA StateFacts ==
    ASSUME Assembled, NEW g \in Groups
    PROVE  /\ StateOf(g) \in GroupState /\ StateOf(g) # None
           /\ StateOf(g).chat # None =>
                /\ StateOf(g).chat \in chats /\ id[StateOf(g).chat] = id[g]
                /\ StateOf(g).title \in Titles
           /\ Known(g) /\ group[id[g]].chat # None => StateOf(g).chat # None
           /\ g \in chats => Known(g) /\ StateOf(g).chat # None
           /\ cached[id[g]] \in SgInfo \cup {None} /\ told[g] \in Fields
           /\ id[g] \in Groups /\ MergedType(g) \in Kinds /\ KindOf(g) \in Kinds
           /\ MergedNames(g) \in Usernames \cup {None}
  <1>1. /\ group[id[g]] \in GroupState \cup {None} /\ told[g] \in Fields
        /\ id[g] \in Groups /\ cached[id[g]] \in SgInfo \cup {None}
    BY DEF Assembled, GroupTypes
  <1>2. g \in chats => Known(g) /\ group[id[g]].chat # None
    BY DEF Assembled, Known
  <1>3. /\ StateOf(g) \in GroupState
        /\ StateOf(g).chat # None =>
                /\ StateOf(g).chat \in chats /\ id[StateOf(g).chat] = id[g]
                /\ StateOf(g).title \in Titles
        /\ Known(g) => StateOf(g) = group[id[g]]
    <2>1. CASE Known(g)
      <3>1. StateOf(g) = group[id[g]] /\ group[id[g]] \in GroupState
        BY <1>1, <2>1 DEF StateOf, Known
      <3> QED
        BY <1>1, <2>1, <3>1 DEF Assembled, Owned, Known
    <2>2. CASE ~Known(g)
      <3>1. StateOf(g) = [chat |-> None, type |-> "basic", title |-> None,
                          about |-> None, names |-> None]
        BY <2>2 DEF StateOf
      <3> QED
        BY <2>2, <3>1 DEF GroupState, Kinds
    <2> QED
      BY <2>1, <2>2
  <1>4. KindOf(g) \in Kinds /\ MergedType(g) \in Kinds
    BY DEF KindOf, MergedType, Kinds
  <1>5. MergedNames(g) \in Usernames \cup {None}
    BY <1>1, <1>3 DEF MergedNames, SgInfo, GroupState
  <1>6. StateOf(g) # None
    BY <1>3, NoneAssumption
  <1> QED
    BY <1>1, <1>2, <1>3, <1>4, <1>5, <1>6

\* The state of a group that is alone with its id.
LEMMA AloneFacts ==
    ASSUME Assembled, NEW g \in Groups, Alone(g)
    PROVE  /\ StateOf(g).chat \in {g, None}
           /\ StateOf(g).about = told[g].about
           /\ StateOf(g).names \in {told[g].names, None}
           /\ StateOf(g).chat = g =>
                /\ StateOf(g).type = KindOf(g) /\ StateOf(g).title = told[g].title
                /\ StateOf(g).names = told[g].names
           /\ MergedNames(g) = told[g].names /\ MergedType(g) = KindOf(g)
           /\ cached[id[g]] = None => told[g].names = None
           /\ cached[id[g]] # None =>
                /\ cached[id[g]].names = told[g].names
                /\ cached[id[g]].is_channel <=> g \in Channels
  <1>1. Agree(g, group[id[g]], cached[id[g]], told[g])
    BY DEF Assembled
  <1>2. StateOf(g).chat \in {g, None}
    <2>1. StateOf(g).chat # None =>
             StateOf(g).chat \in Groups /\ id[StateOf(g).chat] = id[g]
      BY StateFacts DEF Assembled, GroupTypes
    <2> QED
      BY <2>1 DEF Alone
  <1>3. /\ StateOf(g).about = told[g].about
        /\ StateOf(g).names \in {told[g].names, None}
        /\ StateOf(g).chat = g =>
                /\ StateOf(g).type = KindOf(g) /\ StateOf(g).title = told[g].title
                /\ StateOf(g).names = told[g].names
    <2>1. CASE Known(g)
      BY <1>1, <2>1 DEF Agree, StateOf, Known
    <2>2. CASE ~Known(g)
      <3>1. StateOf(g) = [chat |-> None, type |-> "basic", title |-> None,
                          about |-> None, names |-> None]
        BY <2>2 DEF StateOf
      <3>2. g # None
        BY NoneAssumption
      <3> QED
        BY <1>1, <2>2, <3>1, <3>2 DEF Agree, Known
    <2> QED
      BY <2>1, <2>2
  <1>4. MergedNames(g) = told[g].names
    BY <1>1, <1>3 DEF Agree, MergedNames
  <1>5. MergedType(g) = KindOf(g)
    BY <1>1, KindsAssumption DEF Agree, MergedType, KindOf
  <1> QED
    BY <1>1, <1>2, <1>3, <1>4, <1>5 DEF Agree

\* handle_new_chat makes a group known by its chat, with every piece known so far.
LEMMA NewChatAssembled ==
    ASSUME Assembled, NEW g \in Groups, NEW title \in Titles, NEW from \in BOOLEAN,
           HandleNewChat(g, title, from), fetching' \subseteq Groups
    PROVE  Assembled' /\ g \in chats' /\ chats \subseteq chats'
  <1> DEFINE st == [StateOf(g) EXCEPT !.chat = g, !.type = MergedType(g),
                                      !.title = title, !.names = MergedNames(g)]
             t == [told[g] EXCEPT !.title = title]
  <1>1. /\ group' = [group EXCEPT ![id[g]] = st]
        /\ chats' = chats \cup {g}
        /\ EmitGroup(st)
        /\ Tell(g, t)
        /\ cached' = cached /\ id' = id
    BY DEF HandleNewChat, SetGroup
  <1>2. /\ StateOf(g) \in GroupState /\ told[g] \in Fields /\ MergedType(g) \in Kinds
        /\ MergedNames(g) \in Usernames \cup {None}
        /\ cached[id[g]] \in SgInfo \cup {None}
    BY StateFacts
  <1>3. /\ st \in GroupState /\ st.chat = g /\ st.type = MergedType(g) /\ st.title = title
        /\ st.about = StateOf(g).about /\ st.names = MergedNames(g)
    BY <1>2 DEF GroupState
  <1>4. t \in Fields /\ t.title = title /\ t.about = told[g].about /\ t.names = told[g].names
    BY <1>2 DEF Fields
  <1> HIDE DEF st, t
  <1>5. cached' = [cached EXCEPT ![id[g]] = cached[id[g]]]
    BY <1>1 DEF Assembled, GroupTypes
  <1>6. Alone(g) => Agree(g, st, cached[id[g]], t)
    BY <1>3, <1>4, AloneFacts, NoneAssumption DEF Agree
  <1>7. st.chat # None /\ st.chat \in chats' /\ id[st.chat] = id[g] /\ st.title \in Titles
    BY <1>1, <1>3, NoneAssumption
  <1>8. Assembled' /\ chats \subseteq chats'
    BY <1>1, <1>2, <1>3, <1>4, <1>5, <1>6, <1>7, StateStep
  <1> QED
    BY <1>1, <1>8

-----------------------------------------------------------------------------
(* The actions that assemble a group *)

\* A piece of which the state takes nothing changes what was told only.
LEMMA ToldStep ==
    ASSUME Assembled, NEW g \in Groups, NEW t \in Fields, NEW n \in SgInfo \cup {None},
           UNCHANGED <<id, group, chats, emitted, fetching>>,
           cached' = [cached EXCEPT ![id[g]] = n],
           Tell(g, t),
           Alone(g) => Agree(g, group[id[g]], n, t)
    PROVE  Assembled' /\ chats \subseteq chats'
  <1>1. GroupTypes /\ id[g] \in Groups
    BY DEF Assembled, GroupTypes
  <1>2. /\ cached' \in [Groups -> SgInfo \cup {None}] /\ cached'[id[g]] = n
        /\ \A i \in Groups : i # id[g] => cached'[i] = cached[i]
    BY <1>1 DEF GroupTypes
  <1>3. /\ told' \in [Groups -> Fields]
        /\ Alone(g) => told'[g] = t
        /\ \A h \in Groups : h # g \/ ~Alone(g) => told'[h] = told[h]
    BY <1>1 DEF Tell, GroupTypes
  <1>4. ASSUME NEW h \in Groups, Alone(h)
        PROVE  Agree(h, group[id[h]], cached'[id[h]], told'[h])
    <2>1. CASE h = g
      BY <1>2, <1>3, <1>4, <2>1
    <2>2. CASE h # g
      <3>1. id[h] # id[g] /\ id[h] \in Groups
        BY <1>1, <1>4, <2>2 DEF Alone, GroupTypes
      <3>2. Agree(h, group[id[h]], cached[id[h]], told[h])
        BY <1>4 DEF Assembled
      <3> QED
        BY <1>2, <1>3, <2>2, <3>1, <3>2
    <2> QED
      BY <2>1, <2>2
  <1>5. \A h \in Groups : Alone(h)' => Alone(h)
    BY DEF Alone
  <1>6. \A h \in Groups : Alone(h)' => Agree(h, group[id[h]], cached[id[h]], told[h])'
    BY <1>4, <1>5 DEF Agree, KindOf
  <1>7. GroupTypes'
    BY <1>1, <1>2, <1>3 DEF GroupTypes
  <1>8. \A i \in Groups : Owned(i, group[i])'
    BY DEF Assembled, Owned, Handed
  <1> QED
    BY <1>6, <1>7, <1>8 DEF Assembled

\* updateChatTitle, which is ignored before the chat is known.
LEMMA ChatTitleAssembled ==
    ASSUME Assembled, NEW g \in Groups, NEW title \in Titles, ChatTitle(g, title)
    PROVE  Assembled' /\ chats \subseteq chats'
  <1> DEFINE t == [told[g] EXCEPT !.title = title]
             st == [StateOf(g) EXCEPT !.title = title]
  <1>1. /\ Tell(g, t) /\ cached' = cached /\ id' = id /\ chats' = chats
        /\ fetching' = fetching
    BY DEF ChatTitle
  <1>2. StateOf(g) \in GroupState /\ told[g] \in Fields /\ cached[id[g]] \in SgInfo \cup {None}
    BY StateFacts
  <1>3. t \in Fields /\ t.title = title /\ t.about = told[g].about /\ t.names = told[g].names
    BY <1>2 DEF Fields
  <1>4. /\ st \in GroupState /\ st.chat = StateOf(g).chat /\ st.type = StateOf(g).type
        /\ st.title = title /\ st.about = StateOf(g).about /\ st.names = StateOf(g).names
    BY <1>2 DEF GroupState
  <1>5. cached' = [cached EXCEPT ![id[g]] = cached[id[g]]] /\ fetching' \subseteq Groups
    BY <1>1 DEF Assembled, GroupTypes
  <1>6. CASE g \in chats
    <2>1. group' = [group EXCEPT ![id[g]] = st] /\ EmitGroup(st)
      BY <1>6 DEF ChatTitle, SetGroup
    <2> HIDE DEF st, t
    <2>2. Alone(g) => Agree(g, st, cached[id[g]], t)
      BY <1>3, <1>4, AloneFacts, NoneAssumption DEF Agree
    <2>3. /\ st.chat # None => st.chat \in chats' /\ id[st.chat] = id[g] /\ st.title \in Titles
          /\ Known(g) /\ group[id[g]].chat # None => st.chat # None
      BY <1>1, <1>4, StateFacts
    <2> QED
      BY <1>1, <1>2, <1>3, <1>4, <1>5, <2>1, <2>2, <2>3, StateStep
  <1>7. CASE g \notin chats
    <2>1. group' = group /\ emitted' = emitted
      BY <1>7 DEF ChatTitle
    <2>2. ASSUME Alone(g) PROVE Agree(g, group[id[g]], cached[id[g]], t)
      <3>1. group[id[g]] # None => group[id[g]].chat # g
        BY <1>7, NoneAssumption DEF Assembled, Owned, GroupTypes
      <3>2. Agree(g, group[id[g]], cached[id[g]], told[g])
        BY <2>2 DEF Assembled
      <3> HIDE DEF t
      <3> QED
        BY <1>3, <3>1, <3>2 DEF Agree
    <2> HIDE DEF t
    <2> QED
      BY <1>1, <1>2, <1>3, <1>5, <2>1, <2>2, ToldStep
  <1> QED
    BY <1>6, <1>7

\* updateSupergroup, whose usernames wait in supergroups_ for the chat.
LEMMA SupergroupAssembled ==
    ASSUME Assembled, NEW g \in Groups, NEW names \in Usernames, Supergroup(g, names)
    PROVE  Assembled' /\ chats \subseteq chats'
  <1> DEFINE t == [told[g] EXCEPT !.names = names]
             n == [names |-> names, is_channel |-> g \in Channels]
             st == [StateOf(g) EXCEPT !.names = names, !.type = KindOf(g)]
  <1>1. /\ Tell(g, t) /\ cached' = [cached EXCEPT ![id[g]] = n] /\ id' = id
        /\ chats' = chats /\ fetching' = fetching
    BY DEF Supergroup
  <1>2. StateOf(g) \in GroupState /\ told[g] \in Fields /\ KindOf(g) \in Kinds
    BY StateFacts
  <1>3. t \in Fields /\ t.title = told[g].title /\ t.about = told[g].about /\ t.names = names
    BY <1>2 DEF Fields
  <1>4. /\ st \in GroupState /\ st.chat = StateOf(g).chat /\ st.type = KindOf(g)
        /\ st.title = StateOf(g).title /\ st.about = StateOf(g).about /\ st.names = names
    BY <1>2 DEF GroupState
  <1>5. n \in SgInfo /\ n # None /\ n.names = names /\ (n.is_channel <=> g \in Channels)
    <2>1. CASE g \in Channels
      <3>1. n = [names |-> names, is_channel |-> TRUE]
        BY <2>1
      <3> HIDE DEF n
      <3>2. n \in SgInfo
        BY <3>1 DEF SgInfo
      <3>3. n.names = names /\ n.is_channel = TRUE
        BY <3>1
      <3> QED
        BY <2>1, <3>2, <3>3, NoneAssumption
    <2>2. CASE g \notin Channels
      <3>1. (g \in Channels) = FALSE
        BY <2>2
      <3>2. n = [names |-> names, is_channel |-> FALSE]
        BY <3>1, Zenon
      <3> HIDE DEF n
      <3>3. n \in SgInfo
        BY <3>2 DEF SgInfo
      <3>4. n.names = names /\ n.is_channel = FALSE
        BY <3>2
      <3> QED
        BY <2>2, <3>3, <3>4, NoneAssumption
    <2> QED
      BY <2>1, <2>2
  <1>6. fetching' \subseteq Groups
    BY <1>1 DEF Assembled, GroupTypes
  <1>7. CASE Known(g)
    <2>1. group' = [group EXCEPT ![id[g]] = st] /\ EmitGroup(st)
      BY <1>7 DEF Supergroup, SetGroup, StateOf
    <2> HIDE DEF st, t, n
    <2>2. Alone(g) => Agree(g, st, n, t)
      BY <1>2, <1>3, <1>4, <1>5, AloneFacts, NoneAssumption DEF Agree
    <2>3. /\ st.chat # None => st.chat \in chats' /\ id[st.chat] = id[g] /\ st.title \in Titles
          /\ Known(g) /\ group[id[g]].chat # None => st.chat # None
      BY <1>1, <1>4, StateFacts
    <2> QED
      BY <1>1, <1>2, <1>3, <1>4, <1>5, <1>6, <2>1, <2>2, <2>3, StateStep
  <1>8. CASE ~Known(g)
    <2>1. group' = group /\ emitted' = emitted
      BY <1>8 DEF Supergroup
    <2> HIDE DEF t, n
    <2>2. ASSUME Alone(g) PROVE Agree(g, group[id[g]], n, t)
      <3>1. Agree(g, group[id[g]], cached[id[g]], told[g]) /\ group[id[g]] = None
        BY <1>8, <2>2 DEF Assembled, Known
      <3> QED
        BY <1>3, <1>5, <3>1 DEF Agree
    <2> QED
      BY <1>1, <1>3, <1>5, <2>1, <2>2, ToldStep
  <1> QED
    BY <1>7, <1>8

\* Either full info, whose description creates the state of a group if need be.
FullInfo(g, a, st) ==
    /\ st = [StateOf(g) EXCEPT !.about = a]
    /\ Tell(g, [told[g] EXCEPT !.about = a])
    /\ SetGroup(g, st) /\ EmitGroup(st) /\ UNCHANGED <<id, cached, chats, fetching>>

\* A full info before or after the chat.
LEMMA FullInfoAssembled ==
    ASSUME Assembled, NEW g \in Groups, NEW a \in Abouts, NEW st, FullInfo(g, a, st)
    PROVE  Assembled' /\ chats \subseteq chats'
  <1> DEFINE t == [told[g] EXCEPT !.about = a]
  <1>1. /\ Tell(g, t) /\ group' = [group EXCEPT ![id[g]] = st] /\ EmitGroup(st)
        /\ UNCHANGED <<id, cached, chats, fetching>>
    BY DEF FullInfo, SetGroup
  <1>2. StateOf(g) \in GroupState /\ told[g] \in Fields /\ cached[id[g]] \in SgInfo \cup {None}
    BY StateFacts
  <1>3. /\ st \in GroupState /\ st.chat = StateOf(g).chat /\ st.type = StateOf(g).type
        /\ st.title = StateOf(g).title /\ st.about = a /\ st.names = StateOf(g).names
    BY <1>2 DEF FullInfo, GroupState
  <1>4. t \in Fields /\ t.title = told[g].title /\ t.about = a /\ t.names = told[g].names
    BY <1>2 DEF Fields
  <1>5. cached' = [cached EXCEPT ![id[g]] = cached[id[g]]] /\ fetching' \subseteq Groups
    BY <1>1 DEF Assembled, GroupTypes
  <1> HIDE DEF t
  <1>6. Alone(g) => Agree(g, st, cached[id[g]], t)
    BY <1>3, <1>4, AloneFacts, NoneAssumption DEF Agree
  <1>7. /\ st.chat # None => st.chat \in chats' /\ id[st.chat] = id[g] /\ st.title \in Titles
        /\ Known(g) /\ group[id[g]].chat # None => st.chat # None
    BY <1>1, <1>3, StateFacts
  <1> QED
    BY <1>1, <1>2, <1>3, <1>4, <1>5, <1>6, <1>7, StateStep

\* A group whose chat is known has its state handed on again as it is.
LEMMA EnsureAssembled ==
    ASSUME Assembled, NEW g \in Groups, EnsureChatSaved(g)
    PROVE  Assembled' /\ chats \subseteq chats'
  <1>1. UNCHANGED <<id, group, cached, chats, told>>
    BY DEF EnsureChatSaved
  <1>2. fetching' \subseteq Groups
    BY DEF EnsureChatSaved, Assembled, GroupTypes
  <1>3. emitted' = emitted
    <2>1. CASE g \in chats
      <3> DEFINE st == StateOf(g)
      <3>1. EmitGroup(st)
        BY <2>1 DEF EnsureChatSaved
      <3>2. st = group[id[g]] /\ id[g] \in Groups /\ st # None
        BY <2>1, StateFacts DEF StateOf
      <3>3. st.chat # None => st.chat \in Groups /\ emitted[st.chat] = Handed(st)
        BY <3>2 DEF Assembled, Owned, GroupTypes
      <3> QED
        BY <3>1, <3>3 DEF EmitGroup, Assembled, GroupTypes
    <2>2. CASE g \notin chats
      BY <2>2 DEF EnsureChatSaved
    <2> QED
      BY <2>1, <2>2
  <1>4. GroupTypes'
    BY <1>1, <1>2, <1>3 DEF Assembled, GroupTypes
  <1>5. \A i \in Groups : Owned(i, group[i])'
    BY <1>1, <1>3 DEF Assembled, Owned, Handed
  <1>6. \A h \in Groups : Alone(h)' => Agree(h, group[id[h]], cached[id[h]], told[h])'
    BY <1>1 DEF Assembled, Agree, Alone, KindOf
  <1> QED
    BY <1>1, <1>3, <1>4, <1>5, <1>6 DEF Assembled

-----------------------------------------------------------------------------
(* The poll queue *)

\* The least-number principle, from the well-foundedness of finite subsets: the
\* intervals 0 .. n of a set of numbers have one that contains no other.
LEMMA LeastNatural ==
    ASSUME NEW S \in SUBSET Nat, S # {}
    PROVE  \E m \in S : \A k \in S : m <= k
  <1> DEFINE T == {0 .. n : n \in S}
  <1>1. T \subseteq FiniteSubsetsOf(Nat) /\ T # {}
    <2>1. ASSUME NEW n \in S PROVE IsFiniteSet(0 .. n) /\ 0 .. n \in SUBSET Nat
      <3>1. n \in Int /\ 0 \in Int
        OBVIOUS
      <3>2. IsFiniteSet(0 .. n)
        BY <3>1, FS_Interval
      <3> QED
        BY <3>1, <3>2
    <2>2. \A x \in T : IsFiniteSet(x) /\ x \in SUBSET Nat
      BY <2>1
    <2> QED
      BY <2>2 DEF FiniteSubsetsOf
  <1>2. PICK x \in T : \A y \in T : ~(<<y, x>> \in StrictSubsetOrdering(Nat))
    BY <1>1, FS_StrictSubsetOrderingWellFounded, WFMin
  <1>3. PICK m \in S : x = 0 .. m
    OBVIOUS
  <1>4. ASSUME NEW k \in S, ~(m <= k) PROVE FALSE
    <2>1. 0 .. k \in T /\ 0 .. k \subseteq x /\ 0 .. k # x
      BY <1>3, <1>4
    <2>2. <<0 .. k, x>> \in StrictSubsetOrdering(Nat)
      BY <1>3, <2>1 DEF StrictSubsetOrdering
    <2> QED
      BY <1>2, <2>1, <2>2
  <1> QED
    BY <1>4

\* The scan stays within the queue.
LEMMA ScannedRange ==
    ASSUME PollTypes
    PROVE  Scanned \in 0 .. Len(queue)
  <1> DEFINE S == {k \in 0 .. Len(queue) : Cardinality(TrackedAmong(k)) = Batch}
                    \cup {Len(queue)}
  <1>1. Len(queue) \in Nat
    BY DEF PollTypes
  <1>2. S \in SUBSET Nat /\ S # {} /\ S \subseteq 0 .. Len(queue)
    BY <1>1
  <1>3. \E m \in S : \A k \in S : m <= k
    BY <1>2, LeastNatural
  <1> HIDE DEF S
  <1>4. Min(S) \in S
    BY <1>3 DEF Min
  <1> QED
    BY <1>2, <1>4 DEF Scanned, S

\* The rank of a tracked position, among those up to it, grows with the position.
LEMMA RankFacts ==
    ASSUME PollTypes, NEW n \in 0 .. Len(queue)
    PROVE  /\ IsFiniteSet(TrackedAmong(n)) /\ Cardinality(TrackedAmong(n)) \in Nat
           /\ \A i \in TrackedAmong(n) :
                 Cardinality(TrackedAmong(i)) \in 1 .. Cardinality(TrackedAmong(n))
           /\ \A i, j \in TrackedAmong(n) :
                 Cardinality(TrackedAmong(i)) = Cardinality(TrackedAmong(j)) => i = j
  <1>1. n \in Nat /\ Len(queue) \in Nat
    BY DEF PollTypes
  <1>2. ASSUME NEW k \in 0 .. n
        PROVE  /\ TrackedAmong(k) \subseteq TrackedAmong(n)
               /\ IsFiniteSet(TrackedAmong(k)) /\ Cardinality(TrackedAmong(k)) \in Nat
    <2>1. k \in Int /\ 1 \in Int
      BY <1>1
    <2>2. IsFiniteSet(1 .. k)
      BY <2>1, FS_Interval
    <2>3. TrackedAmong(k) \in SUBSET (1 .. k)
      BY DEF TrackedAmong
    <2>4. IsFiniteSet(TrackedAmong(k))
      BY <2>2, <2>3, FS_Subset
    <2>5. TrackedAmong(k) \subseteq TrackedAmong(n)
      BY <1>1 DEF TrackedAmong
    <2> QED
      BY <2>4, <2>5, FS_CardinalityType
  <1>3. n \in 0 .. n
    BY <1>1
  <1>4. ASSUME NEW i \in TrackedAmong(n)
        PROVE  Cardinality(TrackedAmong(i)) \in 1 .. Cardinality(TrackedAmong(n))
    <2>1. i \in 1 .. n /\ i \in 0 .. n /\ i \in TrackedAmong(i)
      BY <1>1 DEF TrackedAmong
    <2>2. Cardinality(TrackedAmong(i)) # 0
      BY <1>2, <2>1, FS_EmptySet
    <2>3. Cardinality(TrackedAmong(i)) <= Cardinality(TrackedAmong(n))
      BY <1>2, <1>3, <2>1, FS_Subset
    <2> QED
      BY <1>2, <1>3, <2>1, <2>2, <2>3
  <1>5. ASSUME NEW i \in TrackedAmong(n), NEW j \in TrackedAmong(n),
               Cardinality(TrackedAmong(i)) = Cardinality(TrackedAmong(j)), i < j
        PROVE  FALSE
    <2>1. i \in 1 .. n /\ j \in 1 .. n /\ j \in 0 .. n
      BY <1>1 DEF TrackedAmong
    <2>2. TrackedAmong(i) \in SUBSET TrackedAmong(j)
      BY <1>5, <2>1 DEF TrackedAmong
    <2>3. TrackedAmong(j) = TrackedAmong(i)
      BY <1>2, <1>5, <2>1, <2>2, FS_Subset
    <2>4. j \in TrackedAmong(j) /\ j \notin TrackedAmong(i)
      BY <1>5, <2>1 DEF TrackedAmong
    <2> QED
      BY <2>3, <2>4
  <1>6. ASSUME NEW i \in TrackedAmong(n), NEW j \in TrackedAmong(n),
               Cardinality(TrackedAmong(i)) = Cardinality(TrackedAmong(j))
        PROVE  i = j
    <2>1. i \in Int /\ j \in Int
      BY <1>1 DEF TrackedAmong
    <2> QED
      BY <1>5, <1>6, <2>1
  <1> QED
    BY <1>2, <1>3, <1>4, <1>6

\* The j-th tracked group of the queue exists, for every j up to their number among
\* the first n: ranks are a bijection.
LEMMA NthFacts ==
    ASSUME PollTypes, NEW n \in 0 .. Len(queue)
    PROVE  /\ \A j \in 1 .. Cardinality(TrackedAmong(n)) :
                 Nth(j) \in TrackedAmong(n) /\ Cardinality(TrackedAmong(Nth(j))) = j
           /\ \A i \in TrackedAmong(n) :
                 \E j \in 1 .. Cardinality(TrackedAmong(n)) : Nth(j) = i
  <1> DEFINE P == TrackedAmong(n)
             c == Cardinality(P)
             rank == [i \in P |-> Cardinality(TrackedAmong(i))]
  <1>1. /\ IsFiniteSet(P) /\ c \in Nat
        /\ \A i \in P : Cardinality(TrackedAmong(i)) \in 1 .. c
        /\ \A i, j \in P : Cardinality(TrackedAmong(i)) = Cardinality(TrackedAmong(j)) => i = j
    BY RankFacts
  <1>2. Len(queue) \in 0 .. Len(queue) /\ P \subseteq TrackedAmong(Len(queue))
    BY DEF PollTypes, TrackedAmong
  <1>3. \A i, j \in TrackedAmong(Len(queue)) :
            Cardinality(TrackedAmong(i)) = Cardinality(TrackedAmong(j)) => i = j
    BY <1>2, RankFacts
  <1>4. rank \in Injection(P, 1 .. c)
    <2>1. rank \in [P -> 1 .. c]
      BY <1>1
    <2>2. \A i, j \in P : rank[i] = rank[j] => i = j
      BY <1>1
    <2> HIDE DEF rank, c, P
    <2> QED
      BY <2>1, <2>2 DEF Injection, IsInjective
  <1>5. IsFiniteSet(1 .. c) /\ Cardinality(1 .. c) = c
    <2>1. 1 \in Int /\ c \in Int
      BY <1>1
    <2>2. IsFiniteSet(1 .. c) /\ Cardinality(1 .. c) = IF 1 > c THEN 0 ELSE c - 1 + 1
      BY <2>1, FS_Interval
    <2> HIDE DEF c
    <2> QED
      BY <1>1, <2>2
  <1>6. rank \in Surjection(P, 1 .. c)
    <2> HIDE DEF rank
    <2> QED
      BY <1>4, <1>5, FS_Injection
  <1>7. ASSUME NEW j \in 1 .. c
        PROVE  Nth(j) \in P /\ Cardinality(TrackedAmong(Nth(j))) = j
    <2>1. PICK i \in P : rank[i] = j
      BY <1>6 DEF Surjection
    <2>2. i \in TrackedAmong(Len(queue)) /\ Cardinality(TrackedAmong(i)) = j
      BY <1>2, <2>1
    <2>3. Nth(j) \in TrackedAmong(Len(queue)) /\ Cardinality(TrackedAmong(Nth(j))) = j
      BY <2>2 DEF Nth
    <2>4. Nth(j) = i
      BY <1>3, <2>2, <2>3
    <2> QED
      BY <2>1, <2>3, <2>4
  <1>8. ASSUME NEW i \in P PROVE \E j \in 1 .. c : Nth(j) = i
    <2> DEFINE j == Cardinality(TrackedAmong(i))
    <2>1. j \in 1 .. c
      BY <1>1
    <2>2. Nth(j) \in P /\ Cardinality(TrackedAmong(Nth(j))) = j
      BY <1>7, <2>1
    <2>3. Nth(j) = i
      BY <1>1, <2>2
    <2> QED
      BY <2>1, <2>3
  <1> QED
    BY <1>7, <1>8

\* Front has the tracked groups of the scanned part, each from one position.
LEMMA FrontFacts ==
    ASSUME PollTypes
    PROVE  /\ Front \in Seq(Groups)
           /\ Len(Front) = Cardinality(TrackedAmong(Scanned))
           /\ \A j \in 1 .. Len(Front) :
                 /\ Nth(j) \in 1 .. Scanned
                 /\ Front[j] = queue[Nth(j)] /\ Front[j] \in tracked
           /\ \A i, j \in 1 .. Len(Front) : Nth(i) = Nth(j) => i = j
           /\ \A i \in TrackedAmong(Scanned) : \E j \in 1 .. Len(Front) : Nth(j) = i
  <1> DEFINE n == Scanned
             c == Cardinality(TrackedAmong(n))
  <1>1. n \in 0 .. Len(queue)
    BY ScannedRange
  <1>2. c \in Nat
    BY <1>1, RankFacts
  <1>3. /\ \A j \in 1 .. c : Nth(j) \in TrackedAmong(n) /\ Cardinality(TrackedAmong(Nth(j))) = j
        /\ \A i \in TrackedAmong(n) : \E j \in 1 .. c : Nth(j) = i
    BY <1>1, NthFacts
  <1>4. Front = [j \in 1 .. c |-> queue[Nth(j)]]
    BY DEF Front
  <1>5. ASSUME NEW j \in 1 .. c
        PROVE  Nth(j) \in 1 .. n /\ queue[Nth(j)] \in tracked /\ queue[Nth(j)] \in Groups
    BY <1>3 DEF TrackedAmong, PollTypes
  <1> HIDE DEF c, n
  <1>6. Front \in Seq(Groups) /\ Len(Front) = c
    BY <1>2, <1>4, <1>5
  <1>7. \A i, j \in 1 .. c : Nth(i) = Nth(j) => i = j
    BY <1>3
  <1>8. \A j \in 1 .. c : Front[j] = queue[Nth(j)]
    BY <1>4
  <1> QED
    BY <1>3, <1>5, <1>6, <1>7, <1>8 DEF c, n

\* The queue after a batch: what was not scanned, then Front.
LEMMA Rotated ==
    ASSUME PollTypes, PollAdminBatch
    PROVE  /\ queue' \in Seq(Groups)
           /\ Len(queue') = Len(queue) - Scanned + Len(Front)
           /\ \A i \in 1 .. Len(queue') :
                 queue'[i] = IF i <= Len(queue) - Scanned THEN queue[Scanned + i]
                                                         ELSE Front[i - (Len(queue) - Scanned)]
  <1> DEFINE n == Scanned
             rest == SubSeq(queue, n + 1, Len(queue))
  <1>1. n \in 0 .. Len(queue) /\ Len(queue) \in Nat
    BY ScannedRange DEF PollTypes
  <1>2. /\ rest \in Seq(Groups) /\ Len(rest) = Len(queue) - n
        /\ \A i \in 1 .. Len(rest) : rest[i] = queue[n + i]
    <2>1. n + 1 \in Int /\ Len(queue) \in Int
      BY <1>1
    <2>2. \A i \in n + 1 .. Len(queue) : queue[i] \in Groups
      BY <1>1 DEF PollTypes
    <2>3. /\ rest \in Seq(Groups)
          /\ Len(rest) = IF n + 1 <= Len(queue) THEN Len(queue) - (n + 1) + 1 ELSE 0
          /\ \A i \in 1 .. Len(queue) - (n + 1) + 1 : rest[i] = queue[(n + 1) + i - 1]
      BY <2>1, <2>2, SubSeqProperties
    <2> HIDE DEF rest, n
    <2>4. Len(rest) = Len(queue) - n
      BY <1>1, <2>3
    <2> QED
      BY <1>1, <2>3, <2>4
  <1>3. Front \in Seq(Groups)
    BY FrontFacts
  <1>4. queue' = rest \o Front
    BY DEF PollAdminBatch
  <1> HIDE DEF rest, n
  <1>5. /\ rest \o Front \in Seq(Groups)
        /\ Len(rest \o Front) = Len(rest) + Len(Front)
        /\ \A i \in 1 .. Len(rest) + Len(Front) :
              (rest \o Front)[i] = IF i <= Len(rest) THEN rest[i] ELSE Front[i - Len(rest)]
    BY <1>2, <1>3, ConcatProperties
  <1>6. ASSUME NEW i \in 1 .. Len(queue')
        PROVE  queue'[i] = IF i <= Len(queue) - n THEN queue[n + i]
                                                 ELSE Front[i - (Len(queue) - n)]
    <2>1. Len(Front) \in Nat /\ Len(rest) \in Nat
      BY <1>2, <1>3
    <2> QED
      BY <1>2, <1>4, <1>5, <2>1
  <1>7. Len(queue') = Len(queue) - n + Len(Front)
    BY <1>2, <1>4, <1>5
  <1> QED
    BY <1>4, <1>5, <1>6, <1>7 DEF n

\* The rotation loses no tracked group and doubles none.
LEMMA BatchQueue ==
    ASSUME PollTypes, QueueHoldsTracked, PollAdminBatch, tracked' = tracked
    PROVE  QueueHoldsTracked'
  <1> DEFINE n == Scanned
             m == Len(queue) - n
             l == Len(Front)
  <1>1. n \in 0 .. Len(queue) /\ Len(queue) \in Nat /\ n \in Nat /\ m \in Nat
    BY ScannedRange DEF PollTypes
  <1>2. /\ Len(queue') = m + l
        /\ \A i \in 1 .. Len(queue') :
              queue'[i] = IF i <= m THEN queue[n + i] ELSE Front[i - m]
    BY Rotated
  <1>3. /\ \A j \in 1 .. l : Nth(j) \in 1 .. n /\ Front[j] = queue[Nth(j)]
        /\ \A i, j \in 1 .. l : Nth(i) = Nth(j) => i = j
        /\ \A i \in TrackedAmong(n) : \E j \in 1 .. l : Nth(j) = i
        /\ l \in Nat
    BY FrontFacts
  <1>4. Len(queue) = n + m
    BY <1>1
  <1> HIDE DEF n, m, l
  <1> DEFINE old(i) == IF i <= m THEN n + i ELSE Nth(i - m)
  <1>5. ASSUME NEW i \in 1 .. m + l
        PROVE  queue'[i] = queue[old(i)] /\ old(i) \in 1 .. Len(queue)
    <2>1. CASE i <= m
      BY <1>1, <1>2, <1>3, <1>4, <2>1
    <2>2. CASE ~(i <= m)
      <3>1. i - m \in 1 .. l
        BY <1>1, <1>3, <2>2
      <3>2. Nth(i - m) \in 1 .. n /\ Front[i - m] = queue[Nth(i - m)]
        BY <1>3, <3>1
      <3>3. queue'[i] = Front[i - m]
        BY <1>2, <2>2
      <3>4. Nth(i - m) \in 1 .. Len(queue)
        BY <1>1, <1>4, <3>2
      <3> QED
        BY <2>2, <3>2, <3>3, <3>4
    <2> QED
      BY <2>1, <2>2
  <1>6. ASSUME NEW i \in 1 .. m + l, NEW j \in 1 .. m + l, old(i) = old(j)
        PROVE  i = j
    <2>1. i \in Int /\ j \in Int
      BY <1>1, <1>3
    <2>2. CASE i <= m /\ j <= m
      BY <1>1, <1>6, <2>1, <2>2
    <2>3. CASE i > m /\ j > m
      <3>1. i - m \in 1 .. l /\ j - m \in 1 .. l
        BY <1>1, <1>3, <2>3
      <3>2. Nth(i - m) = Nth(j - m)
        BY <1>1, <1>6, <2>1, <2>3
      <3>3. i - m = j - m
        BY <1>3, <3>1, <3>2
      <3> QED
        BY <1>1, <2>1, <3>3
    <2>4. CASE i <= m /\ j > m
      <3>1. j - m \in 1 .. l
        BY <1>1, <1>3, <2>4
      <3>2. Nth(j - m) \in 1 .. n
        BY <1>3, <3>1
      <3>3. n + i = Nth(j - m)
        BY <1>1, <1>6, <2>1, <2>4
      <3> QED
        BY <1>1, <3>2, <3>3
    <2>5. CASE i > m /\ j <= m
      <3>1. i - m \in 1 .. l
        BY <1>1, <1>3, <2>5
      <3>2. Nth(i - m) \in 1 .. n
        BY <1>3, <3>1
      <3>3. n + j = Nth(i - m)
        BY <1>1, <1>6, <2>1, <2>5
      <3> QED
        BY <1>1, <3>2, <3>3
    <2> QED
      BY <1>1, <2>1, <2>2, <2>3, <2>4, <2>5
  <1> HIDE DEF old
  <1>7. ASSUME NEW i \in 1 .. Len(queue'), NEW j \in 1 .. Len(queue'), queue'[i] = queue'[j]
        PROVE  i = j
    <2>1. /\ queue[old(i)] = queue[old(j)]
          /\ old(i) \in 1 .. Len(queue) /\ old(j) \in 1 .. Len(queue)
      BY <1>2, <1>5, <1>7
    <2>2. old(i) = old(j)
      BY <2>1 DEF QueueHoldsTracked
    <2> QED
      BY <1>2, <1>6, <2>2
  <1>8. ASSUME NEW g \in tracked PROVE \E i \in 1 .. Len(queue') : queue'[i] = g
    <2>1. PICK k \in 1 .. Len(queue) : queue[k] = g
      BY DEF QueueHoldsTracked
    <2>2. CASE k <= n
      <3>1. k \in TrackedAmong(n)
        BY <1>1, <2>1, <2>2 DEF TrackedAmong
      <3>2. PICK j \in 1 .. l : Nth(j) = k
        BY <1>3, <3>1
      <3>3. m + j \in 1 .. m + l /\ ~(m + j <= m) /\ (m + j) - m = j
        BY <1>1, <1>3
      <3>4. queue'[m + j] = Front[j] /\ Front[j] = queue[k]
        BY <1>2, <1>3, <3>2, <3>3
      <3> QED
        BY <1>2, <2>1, <3>3, <3>4
    <2>3. CASE k > n
      <3>1. k - n \in 1 .. m /\ n + (k - n) = k /\ k - n \in 1 .. m + l
        BY <1>1, <1>3, <1>4, <2>3
      <3>2. queue'[k - n] = queue[k]
        BY <1>2, <3>1
      <3> QED
        BY <1>2, <2>1, <3>1, <3>2
    <2> QED
      BY <1>1, <2>2, <2>3
  <1> QED
    BY <1>7, <1>8 DEF QueueHoldsTracked

-----------------------------------------------------------------------------
(* The steps of the polling part *)

\* chats only grows, so a step that leaves the poll alone keeps its invariant.
LEMMA PollingFrame ==
    ASSUME Polling, UNCHANGED polling, polled' = {},
           chats \subseteq chats'
    PROVE  Polling'
  <1>1. /\ tracked' = tracked /\ queue' = queue /\ miss' = miss /\ requests' = requests
        /\ admins' = admins /\ denied' = denied
    BY DEF polling
  <1>2. PollTypes' /\ QueueHoldsTracked' /\ MissIsDenied'
    BY <1>1 DEF Polling, PollTypes, QueueHoldsTracked, MissIsDenied
  <1>3. \A i \in 1 .. Len(queue) : queue[i] \in Groups
    BY DEF Polling, PollTypes
  <1>4. OnlyKnown'
    BY <1>1, <1>3 DEF Polling, OnlyKnown
  <1> QED
    BY <1>2, <1>4 DEF Polling

\* At first sight a group is in no queue yet, so it joins once.
LEMMA StartTrackingStep ==
    ASSUME Polling, NEW g \in Groups, g \notin chats, StartTracking(g), polled' = {},
           g \in chats', chats \subseteq chats'
    PROVE  Polling'
  <1>1. /\ tracked' = tracked \cup {g} /\ queue' = Append(queue, g)
        /\ requests' = IF g \in Supergroups THEN [requests EXCEPT ![g] = @ + 1] ELSE requests
        /\ miss' = miss /\ admins' = admins /\ denied' = denied
    BY DEF StartTracking
  <1>2. /\ tracked \subseteq Groups /\ queue \in Seq(Groups) /\ requests \in [Groups -> Nat]
        /\ Len(queue) \in Nat
    BY DEF Polling, PollTypes
  <1>3. /\ queue' \in Seq(Groups) /\ Len(queue') = Len(queue) + 1
        /\ \A i \in 1 .. Len(queue) : queue'[i] = queue[i]
        /\ queue'[Len(queue) + 1] = g
    BY <1>1, <1>2, AppendProperties
  <1>4. requests' \in [Groups -> Nat] /\ \A h \in Groups : h # g => requests'[h] = requests[h]
    BY <1>1, <1>2
  <1>5. \A i \in 1 .. Len(queue) : queue[i] # g /\ queue[i] \in Groups
    BY <1>2 DEF Polling, OnlyKnown
  <1>6. PollTypes'
    BY <1>1, <1>2, <1>3, <1>4 DEF Polling, PollTypes
  <1>7. \A i \in 1 .. Len(queue') : i \in 1 .. Len(queue) \/ i = Len(queue) + 1
    BY <1>2, <1>3
  <1>8. OnlyKnown'
    <2>1. ASSUME NEW h \in Groups, h \in tracked' \/ requests'[h] > 0 \/ admins'[h] # None
          PROVE  h \in chats'
      <3>1. CASE h = g
        BY <3>1
      <3>2. CASE h # g
        BY <1>1, <1>4, <2>1, <3>2 DEF Polling, OnlyKnown
      <3> QED
        BY <3>1, <3>2
    <2>2. ASSUME NEW i \in 1 .. Len(queue') PROVE queue'[i] \in chats'
      <3>1. CASE i \in 1 .. Len(queue)
        <4>1. queue[i] \in chats /\ queue[i] \in Groups /\ queue'[i] = queue[i]
          BY <1>3, <1>5, <3>1 DEF Polling, OnlyKnown
        <4> QED
          BY <4>1
      <3>2. CASE i = Len(queue) + 1
        BY <1>3, <3>2
      <3> QED
        BY <1>7, <3>1, <3>2
    <2> QED
      BY <2>1, <2>2 DEF OnlyKnown
  <1>9. QueueHoldsTracked'
    <2>1. ASSUME NEW h \in tracked' PROVE \E i \in 1 .. Len(queue') : queue'[i] = h
      <3>1. CASE h = g
        BY <1>2, <1>3, <3>1
      <3>2. CASE h \in tracked
        <4>1. PICK i \in 1 .. Len(queue) : queue[i] = h
          BY <3>2 DEF Polling, QueueHoldsTracked
        <4>2. i \in 1 .. Len(queue')
          BY <1>2, <1>3
        <4> QED
          BY <1>3, <4>1, <4>2
      <3> QED
        BY <1>1, <3>1, <3>2
    <2>2. ASSUME NEW i \in 1 .. Len(queue'), NEW j \in 1 .. Len(queue'), queue'[i] = queue'[j]
          PROVE  i = j
      <3>1. CASE i \in 1 .. Len(queue) /\ j \in 1 .. Len(queue)
        BY <1>3, <2>2, <3>1 DEF Polling, QueueHoldsTracked
      <3>2. CASE i = Len(queue) + 1 /\ j \in 1 .. Len(queue)
        BY <1>3, <1>5, <2>2, <3>2
      <3>3. CASE j = Len(queue) + 1 /\ i \in 1 .. Len(queue)
        BY <1>3, <1>5, <2>2, <3>3
      <3> QED
        BY <1>7, <3>1, <3>2, <3>3
    <2> QED
      BY <2>1, <2>2 DEF QueueHoldsTracked
  <1>10. MissIsDenied'
    BY <1>1 DEF Polling, MissIsDenied
  <1> QED
    BY <1>6, <1>8, <1>9, <1>10 DEF Polling

\* handle_new_chat, with or without the start of tracking.
LEMMA HandleNewChatStep ==
    ASSUME Assembled, Polling, NEW g \in Groups, NEW title \in Titles, NEW from \in BOOLEAN,
           HandleNewChat(g, title, from), fetching' \subseteq Groups
    PROVE  Assembled' /\ Polling'
  <1>1. Assembled' /\ g \in chats' /\ chats \subseteq chats'
    BY NewChatAssembled
  <1>2. polled' = {}
    BY DEF HandleNewChat
  <1>3. CASE MayTrack(g, from)
    <2>1. StartTracking(g) /\ g \notin chats
      BY <1>3 DEF HandleNewChat, MayTrack, Assembled, Known
    <2> QED
      BY <1>1, <1>2, <2>1, StartTrackingStep
  <1>4. CASE ~MayTrack(g, from)
    <2>1. UNCHANGED polling
      BY <1>4 DEF HandleNewChat
    <2> QED
      BY <1>1, <1>2, <2>1, PollingFrame
  <1> QED
    BY <1>3, <1>4

\* A full info leaves the poll alone, but for the administrators of a tracked group.
LEMMA FullInfoPolling ==
    ASSUME Polling, polled' = {},
           UNCHANGED <<tracked, queue, miss, requests, denied>>,
           chats \subseteq chats',
           NEW list \in AdminLists \cup {{}}, NEW c,
           admins' = IF c \in tracked /\ list # {}
                     THEN [admins EXCEPT ![c] = list] ELSE admins
    PROVE  Polling'
  <1>1. CASE admins' = admins
    BY <1>1, PollingFrame DEF polling
  <1>2. CASE c \in tracked /\ list # {} /\ admins' = [admins EXCEPT ![c] = list]
    <2>1. list \in AdminLists
      BY <1>2
    <2>2. admins' \in [Groups -> AdminLists \cup {None}]
      BY <1>2, <2>1 DEF Polling, PollTypes
    <2>3. PollTypes' /\ QueueHoldsTracked' /\ MissIsDenied'
      BY <2>2 DEF Polling, PollTypes, QueueHoldsTracked, MissIsDenied
    <2>4. c \in chats'
      BY <1>2 DEF Polling, PollTypes, OnlyKnown
    <2>5. \A h \in Groups : h # c => admins'[h] = admins[h]
      BY <1>2 DEF Polling, PollTypes
    <2>6. \A i \in 1 .. Len(queue) : queue[i] \in Groups
      BY DEF Polling, PollTypes
    <2>7. \A h \in Groups : h \in tracked' \/ requests'[h] > 0 \/ admins'[h] # None => h \in chats'
      BY <2>4, <2>5 DEF Polling, OnlyKnown
    <2>8. \A i \in 1 .. Len(queue') : queue'[i] \in chats'
      BY <2>6 DEF Polling, OnlyKnown
    <2> QED
      BY <2>3, <2>7, <2>8 DEF Polling, OnlyKnown
  <1> QED
    BY <1>1, <1>2

\* Every update about a group preserves the invariant.
LEMMA UpdateStep ==
    ASSUME Inv, NEW g \in Groups, Update(g)
    PROVE  Inv'
  <1>1. Assembled /\ Polling /\ Session
    BY DEF Inv
  <1>2. UNCHANGED session
    BY DEF Update, NewChat, ChatTitle, ChatAnswer, HandleNewChat, Supergroup,
           SupergroupFullInfo, BasicGroupFullInfo, EnsureChatSaved
  <1>3. Session'
    BY <1>1, <1>2 DEF session, Session, OneAlarm
  <1>4. ASSUME NEW t \in Titles, NewChat(g, t) PROVE Assembled' /\ Polling'
    <2>1. HandleNewChat(g, t, TRUE) /\ fetching' \subseteq Groups
      BY <1>1, <1>4 DEF NewChat, Assembled, GroupTypes
    <2> QED
      BY <1>1, <2>1, HandleNewChatStep
  <1>5. ASSUME NEW t \in Titles, ChatAnswer(g, t) PROVE Assembled' /\ Polling'
    <2>1. HandleNewChat(g, t, FALSE) /\ fetching' \subseteq Groups
      BY <1>1, <1>5 DEF ChatAnswer, Assembled, GroupTypes
    <2> QED
      BY <1>1, <2>1, HandleNewChatStep
  <1>6. ASSUME NEW t \in Titles, ChatTitle(g, t) PROVE Assembled' /\ Polling'
    <2>1. Assembled' /\ chats \subseteq chats'
      BY <1>1, <1>6, ChatTitleAssembled
    <2>2. UNCHANGED polling /\ polled' = {}
      BY <1>6 DEF ChatTitle
    <2> QED
      BY <1>1, <2>1, <2>2, PollingFrame
  <1>7. ASSUME NEW n \in Usernames, Supergroup(g, n) PROVE Assembled' /\ Polling'
    <2>1. Assembled' /\ chats \subseteq chats'
      BY <1>1, <1>7, SupergroupAssembled
    <2>2. UNCHANGED polling /\ polled' = {}
      BY <1>7 DEF Supergroup
    <2> QED
      BY <1>1, <2>1, <2>2, PollingFrame
  <1>8. ASSUME NEW a \in Abouts, SupergroupFullInfo(g, a) PROVE Assembled' /\ Polling'
    <2> DEFINE st == [StateOf(g) EXCEPT !.about = a]
    <2>1. FullInfo(g, a, st)
      BY <1>8 DEF SupergroupFullInfo, FullInfo
    <2> HIDE DEF st
    <2>2. Assembled' /\ chats \subseteq chats'
      BY <1>1, <2>1, FullInfoAssembled
    <2>3. UNCHANGED polling /\ polled' = {}
      BY <1>8 DEF SupergroupFullInfo
    <2> QED
      BY <1>1, <2>2, <2>3, PollingFrame
  <1>9. ASSUME NEW a \in Abouts, NEW list \in AdminLists \cup {{}},
               BasicGroupFullInfo(g, a, list)
        PROVE  Assembled' /\ Polling'
    <2> DEFINE st == [StateOf(g) EXCEPT !.about = a]
    <2>1. FullInfo(g, a, st)
      BY <1>9 DEF BasicGroupFullInfo, FullInfo
    <2>2. /\ admins' = IF st.chat \in tracked /\ list # {}
                       THEN [admins EXCEPT ![st.chat] = list] ELSE admins
          /\ polled' = {} /\ UNCHANGED <<tracked, queue, miss, requests, denied>>
      BY <1>9 DEF BasicGroupFullInfo
    <2> HIDE DEF st
    <2>3. Assembled' /\ chats \subseteq chats'
      BY <1>1, <2>1, FullInfoAssembled
    <2>4. Polling'
      BY <1>1, <2>2, <2>3, FullInfoPolling
    <2> QED
      BY <2>3, <2>4
  <1>10. ASSUME EnsureChatSaved(g) PROVE Assembled' /\ Polling'
    <2>1. Assembled' /\ chats \subseteq chats'
      BY <1>1, <1>10, EnsureAssembled
    <2>2. UNCHANGED polling /\ polled' = {}
      BY <1>10 DEF EnsureChatSaved
    <2> QED
      BY <1>1, <2>1, <2>2, PollingFrame
  <1> QED
    BY <1>3, <1>4, <1>5, <1>6, <1>7, <1>8, <1>9, <1>10 DEF Update, Inv

\* Groups and session stay.
LEMMA GroupsFrame ==
    ASSUME Assembled, UNCHANGED groups
    PROVE  Assembled' /\ chats' = chats
  BY DEF groups, Assembled, GroupTypes, Owned, Agree, Alone, Handed, KindOf

\* Every answer to getSupergroupMembers preserves the invariant.
LEMMA AnswerStep ==
    ASSUME Inv, NEW g \in Groups, Answer(g)
    PROVE  Inv'
  <1>1. Assembled /\ Polling /\ Session
    BY DEF Inv
  <1>2. Answered(g)
    BY DEF Answer, MemberList, PermissionError, TransientError
  <1>3. /\ UNCHANGED groups /\ queue' = queue /\ UNCHANGED session /\ polled' = {}
        /\ requests[g] > 0 /\ requests' = [requests EXCEPT ![g] = @ - 1]
    BY <1>2 DEF Answered
  <1>4. Assembled' /\ chats' = chats
    BY <1>1, <1>3, GroupsFrame
  <1>5. Session'
    BY <1>1, <1>3 DEF session, Session, OneAlarm
  <1>6. requests \in [Groups -> Nat] /\ miss \in [Groups -> Nat] /\ denied \in [Groups -> Nat]
        /\ admins \in [Groups -> AdminLists \cup {None}] /\ tracked \subseteq Groups
        /\ queue \in Seq(Groups)
    BY <1>1 DEF Polling, PollTypes
  <1>7. requests' \in [Groups -> Nat] /\ \A h \in Groups : requests'[h] <= requests[h]
    BY <1>3, <1>6
  <1>8. tracked' \subseteq tracked
    BY DEF Answer, MemberList, PermissionError, TransientError
  <1>9. /\ miss' \in [Groups -> Nat] /\ denied' \in [Groups -> Nat]
        /\ \A h \in Groups : miss'[h] = denied'[h]
    <2>1. \A h \in Groups : miss[h] = denied[h]
      BY <1>1 DEF Polling, MissIsDenied
    <2>2. \/ miss' = [miss EXCEPT ![g] = 0] /\ denied' = [denied EXCEPT ![g] = 0]
          \/ miss' = [miss EXCEPT ![g] = @ + 1] /\ denied' = [denied EXCEPT ![g] = @ + 1]
          \/ miss' = miss /\ denied' = denied
      BY DEF Answer, MemberList, PermissionError, TransientError
    <2>3. CASE miss' = [miss EXCEPT ![g] = 0] /\ denied' = [denied EXCEPT ![g] = 0]
      BY <1>6, <2>1, <2>3
    <2>4. CASE miss' = [miss EXCEPT ![g] = @ + 1] /\ denied' = [denied EXCEPT ![g] = @ + 1]
      BY <1>6, <2>1, <2>4
    <2>5. CASE miss' = miss /\ denied' = denied
      BY <1>6, <2>1, <2>5
    <2> QED
      BY <2>2, <2>3, <2>4, <2>5
  <1>10. /\ admins' \in [Groups -> AdminLists \cup {None}]
         /\ \A h \in Groups : h # g => admins'[h] = admins[h]
    <2>1. \/ admins' = admins
          \/ \E list \in AdminLists : admins' = [admins EXCEPT ![g] = list]
      BY DEF Answer, MemberList, PermissionError, TransientError
    <2> QED
      BY <1>6, <2>1
  <1>11. PollTypes'
    BY <1>3, <1>6, <1>7, <1>8, <1>9, <1>10 DEF PollTypes
  <1>12. QueueHoldsTracked'
    BY <1>1, <1>3, <1>8 DEF Polling, QueueHoldsTracked
  <1>13. g \in chats
    BY <1>1, <1>3 DEF Polling, OnlyKnown
  <1>14. ASSUME NEW h \in Groups, h \in tracked' \/ requests'[h] > 0 \/ admins'[h] # None
         PROVE  h \in chats
    <2>1. requests'[h] > 0 => requests[h] > 0
      BY <1>6, <1>7
    <2> QED
      BY <1>1, <1>8, <1>10, <1>13, <1>14, <2>1 DEF Polling, OnlyKnown
  <1>15. \A i \in 1 .. Len(queue) : queue[i] \in chats /\ queue[i] \in Groups
    BY <1>1, <1>6 DEF Polling, OnlyKnown
  <1>16. \A i \in 1 .. Len(queue') : queue'[i] \in chats'
    BY <1>3, <1>4, <1>15
  <1>17. OnlyKnown'
    BY <1>4, <1>14, <1>16 DEF OnlyKnown
  <1> QED
    BY <1>4, <1>5, <1>9, <1>11, <1>12, <1>17 DEF Inv, Polling, MissIsDenied

\* A batch asks only about groups that are seen, and keeps the queue right.
LEMMA BatchPolling ==
    ASSUME Polling, PollAdminBatch, UNCHANGED <<groups, tracked, miss, admins, denied>>
    PROVE  Polling'
  <1>1. PollTypes /\ OnlyKnown /\ QueueHoldsTracked
    BY DEF Polling
  <1>2. QueueHoldsTracked'
    BY <1>1, BatchQueue
  <1>3. /\ Front \in Seq(Groups)
        /\ \A j \in 1 .. Len(Front) : Front[j] \in tracked
    BY <1>1, FrontFacts
  <1>4. InFront \subseteq tracked /\ tracked \subseteq Groups
    BY <1>1, <1>3 DEF InFront, PollTypes
  <1>5. /\ requests' \in [Groups -> Nat]
        /\ \A h \in Groups : h \notin tracked => requests'[h] = requests[h]
    BY <1>1, <1>4 DEF PollAdminBatch, Refetched, PollTypes
  <1>6. /\ queue' \in Seq(Groups)
        /\ Len(queue') = Len(queue) - Scanned + Len(Front)
        /\ \A i \in 1 .. Len(queue') :
              queue'[i] = IF i <= Len(queue) - Scanned THEN queue[Scanned + i]
                                                      ELSE Front[i - (Len(queue) - Scanned)]
    BY <1>1, Rotated
  <1>7. Scanned \in 0 .. Len(queue) /\ Len(queue) \in Nat /\ Len(Front) \in Nat
    BY <1>1, <1>3, ScannedRange DEF PollTypes
  <1>8. chats' = chats
    BY DEF groups
  <1>9. ASSUME NEW i \in 1 .. Len(queue') PROVE queue'[i] \in chats'
    <2> DEFINE m == Len(queue) - Scanned
    <2>1. CASE i <= m
      <3>1. Scanned + i \in 1 .. Len(queue) /\ queue'[i] = queue[Scanned + i]
        BY <1>6, <1>7, <2>1
      <3>2. queue[Scanned + i] \in chats /\ queue[Scanned + i] \in Groups
        BY <1>1, <3>1 DEF OnlyKnown, PollTypes
      <3> QED
        BY <1>8, <3>1, <3>2
    <2>2. CASE ~(i <= m)
      <3>1. i - m \in 1 .. Len(Front) /\ queue'[i] = Front[i - m]
        <4>1. queue'[i] = Front[i - m]
          BY <1>6, <2>2
        <4>2. m \in Nat /\ i \in 1 .. m + Len(Front)
          BY <1>6, <1>7
        <4> HIDE DEF m
        <4>3. i - m \in 1 .. Len(Front)
          BY <1>7, <2>2, <4>2
        <4> QED
          BY <4>1, <4>3
      <3>2. Front[i - m] \in tracked
        BY <1>3, <3>1
      <3>3. Front[i - m] \in chats
        BY <1>1, <1>4, <3>2 DEF OnlyKnown
      <3> QED
        BY <1>8, <3>1, <3>3, Zenon
    <2> QED
      BY <2>1, <2>2
  <1>10. OnlyKnown'
    BY <1>1, <1>5, <1>8, <1>9 DEF OnlyKnown
  <1>11. PollTypes'
    BY <1>1, <1>4, <1>5, <1>6 DEF PollTypes, PollAdminBatch
  <1>12. MissIsDenied'
    BY DEF Polling, MissIsDenied
  <1> QED
    BY <1>2, <1>10, <1>11, <1>12 DEF Polling

\* on_admin_alarm, which arms the next alarm unless the client is ending.
LEMMA AlarmStep ==
    ASSUME Inv, OnAdminAlarm
    PROVE  Inv'
  <1>1. Assembled /\ Polling /\ Session
    BY DEF Inv
  <1>2. UNCHANGED groups /\ UNCHANGED <<tracked, miss, admins, denied>>
    BY DEF OnAdminAlarm
  <1>3. Assembled' /\ chats' = chats
    BY <1>1, <1>2, GroupsFrame
  <1>4. Session'
    BY <1>1 DEF OnAdminAlarm, Session, OneAlarm
  <1>5. CASE PollAdminBatch
    BY <1>1, <1>2, <1>3, <1>4, <1>5, BatchPolling DEF Inv
  <1>6. CASE polled' = {} /\ UNCHANGED <<queue, requests>>
    <2>1. UNCHANGED polling
      BY <1>2, <1>6 DEF polling
    <2>2. Polling'
      BY <1>1, <1>3, <1>6, <2>1, PollingFrame
    <2> QED
      BY <1>3, <1>4, <2>2 DEF Inv
  <1> QED
    BY <1>5, <1>6 DEF OnAdminAlarm

\* Login, logout and close: only the first login arms an alarm.
LEMMA SessionStep ==
    ASSUME Inv, Ready \/ LoggingOut \/ Close
    PROVE  Inv'
  <1>1. Assembled /\ Polling /\ Session
    BY DEF Inv
  <1>2. UNCHANGED groups /\ UNCHANGED polling /\ polled' = {}
    BY DEF Ready, LoggingOut, Close
  <1>3. Assembled' /\ chats' = chats
    BY <1>1, <1>2, GroupsFrame
  <1>4. Polling'
    BY <1>1, <1>2, <1>3, PollingFrame
  <1>5. Session'
    <2>1. CASE Ready
      <3>1. ~ending /\ ending' = ending /\ authorized' = TRUE /\ started' = TRUE
        BY <2>1 DEF Ready
      <3>2. alarms' = 1
        <4>1. CASE started
          BY <1>1, <2>1, <3>1, <4>1 DEF Session, OneAlarm, Ready
        <4>2. CASE ~started
          BY <1>1, <2>1, <4>2 DEF Session, Ready
        <4> QED
          BY <4>1, <4>2
      <3>3. alarms' \in Nat /\ alarms' <= 1
        BY <3>2
      <3>4. started' \in BOOLEAN /\ authorized' \in BOOLEAN /\ ending' \in BOOLEAN
        BY <1>1, <3>1 DEF Session
      <3> QED
        BY <3>1, <3>2, <3>3, <3>4 DEF Session, OneAlarm
    <2>2. CASE LoggingOut
      <3>1. authorized' = FALSE /\ alarms' = alarms /\ started' = started /\ ending' = ending
        BY <2>2 DEF LoggingOut
      <3> QED
        BY <1>1, <3>1 DEF Session, OneAlarm
    <2>3. CASE Close
      <3>1. ending' = TRUE /\ authorized' \in BOOLEAN
        BY <1>1, <2>3 DEF Close, Session
      <3>2. alarms' = alarms /\ started' = started
        BY <2>3 DEF Close
      <3> QED
        BY <1>1, <3>1, <3>2 DEF Session, OneAlarm
    <2> QED
      BY <2>1, <2>2, <2>3
  <1> QED
    BY <1>3, <1>4, <1>5 DEF Inv

\* A new client satisfies the invariant.
LEMMA InitInv == Init => Inv
  <1> SUFFICES ASSUME Init PROVE Inv
    OBVIOUS
  <1>1. Assembled
    <2>1. \A g \in Groups : /\ group[g] = None /\ cached[g] = None
                            /\ told[g] = [title |-> None, about |-> None, names |-> None]
      BY DEF Init
    <2>2. id \in [Groups -> Groups]
      BY DEF Init, IdMaps
    <2>3. GroupTypes
      BY <2>2 DEF Init, GroupTypes, Fields
    <2>4. \A g \in Groups : id[g] \in Groups
      BY <2>2
    <2>5. \A g \in Groups : Agree(g, group[id[g]], cached[id[g]], told[g])
      BY <2>1, <2>4 DEF Agree
    <2>6. /\ \A i \in Groups : Owned(i, group[i])
          /\ chats = {} /\ \A g \in Groups \cup {None} : emitted[g] = None
      BY <2>1 DEF Init, Owned
    <2> QED
      BY <2>1, <2>3, <2>5, <2>6 DEF Assembled
  <1>2. Polling
    BY DEF Init, Polling, PollTypes, OnlyKnown, QueueHoldsTracked, MissIsDenied
  <1>3. Session
    <2>1. alarms \in Nat /\ alarms <= 1 /\ alarms = 0 /\ ~started
      BY DEF Init
    <2>2. started \in BOOLEAN /\ authorized \in BOOLEAN /\ ending \in BOOLEAN
      BY DEF Init
    <2> QED
      BY <2>1, <2>2 DEF Session, OneAlarm
  <1> QED
    BY <1>1, <1>2, <1>3 DEF Inv

\* A stuttering step keeps the invariant.
LEMMA StutterStep ==
    ASSUME Inv, UNCHANGED vars
    PROVE  Inv'
  <1>1. UNCHANGED groups /\ UNCHANGED polling /\ UNCHANGED session /\ polled' = polled
    BY DEF vars
  <1>2. Assembled' /\ chats' = chats
    BY <1>1, GroupsFrame DEF Inv
  <1>3. Polling'
    BY <1>1 DEF Inv, Polling, PollTypes, OnlyKnown, QueueHoldsTracked, MissIsDenied, polling,
                groups
  <1>4. Session'
    BY <1>1 DEF Inv, Session, OneAlarm, session
  <1> QED
    BY <1>2, <1>3, <1>4 DEF Inv

\* Every step preserves the invariant.
LEMMA NextStep == Inv /\ [Next]_vars => Inv'
  BY UpdateStep, AnswerStep, AlarmStep, SessionStep, StutterStep DEF Next

-----------------------------------------------------------------------------
(* Theorems *)

\* What the client knows of every group, its poll queue and its alarm satisfy the
\* inductive invariant in every reachable state.
THEOREM Invariance == Spec => []Inv
  BY InitInv, NextStep, PTL DEF Spec

\* Every member of TDLib::Impl modelled here keeps its type.
THEOREM TypeCorrect == Spec => []TypeOK
  <1>1. Inv => TypeOK
    BY DEF Inv, Assembled, GroupTypes, Polling, PollTypes, Session, TypeOK
  <1> QED
    BY <1>1, Invariance, PTL

\* handle_new_chat, updateChatTitle, updateSupergroup and the full infos, in any
\* order, hand a group that is alone with its id on with the newest of every piece,
\* and any other with all that the state it owns has got to.
THEOREM EmittedCorrect == Spec => []EmittedIsCurrent
  <1>1. Inv => EmittedIsCurrent
    <2> SUFFICES ASSUME Inv, NEW g \in chats
                 PROVE  /\ Alone(g) =>
                              emitted[g] = [type |-> KindOf(g), title |-> told[g].title,
                                            about |-> told[g].about, names |-> told[g].names]
                        /\ StateOf(g).chat = g => emitted[g] = Handed(StateOf(g))
      BY DEF EmittedIsCurrent
    <2>1. Assembled /\ g \in Groups
      BY DEF Inv, Assembled, GroupTypes
    <2>2. StateOf(g).chat # None /\ Known(g) /\ id[g] \in Groups
      BY <2>1, StateFacts
    <2>3. StateOf(g).chat = g => emitted[g] = Handed(StateOf(g))
      BY <2>1, <2>2 DEF StateOf, Known, Assembled, Owned
    <2>4. ASSUME Alone(g)
          PROVE  emitted[g] = [type |-> KindOf(g), title |-> told[g].title,
                               about |-> told[g].about, names |-> told[g].names]
      <3>1. /\ StateOf(g).chat = g /\ StateOf(g).type = KindOf(g)
            /\ StateOf(g).title = told[g].title /\ StateOf(g).names = told[g].names
            /\ StateOf(g).about = told[g].about
        BY <2>1, <2>2, <2>4, AloneFacts
      <3> QED
        BY <2>3, <3>1 DEF Handed
    <2> QED
      BY <2>3, <2>4
  <1> QED
    BY <1>1, Invariance, PTL

\* emit_group, fetch_group_admins and emit_basic_group_admins hand nothing on of a
\* group until its chat is known, and it is not polled before that.
THEOREM QuietBeforeChat == Spec => []NothingBeforeChat
  <1>1. Inv => NothingBeforeChat
    BY DEF Inv, Assembled, GroupTypes, Polling, OnlyKnown, NothingBeforeChat
  <1> QED
    BY <1>1, Invariance, PTL

\* However often the client logs in and out, one alarm is in flight.
THEOREM AlarmCorrect == Spec => []OneAlarm
  <1>1. Inv => OneAlarm
    BY DEF Inv, Session
  <1> QED
    BY <1>1, Invariance, PTL

\* poll_admin_batch loses no tracked group and polls none twice in a round, for
\* every batch size and any eviction in between.
THEOREM QueueCorrect == Spec => []QueueHoldsTracked
  <1>1. Inv => QueueHoldsTracked
    BY DEF Inv, Polling
  <1> QED
    BY <1>1, Invariance, PTL

\* Only the answer to fetch_group_admins evicts a group, and only after MaxMiss
\* refusals in a row.
THEOREM EvictionCorrect == Spec => EvictedForMisses
  <1> DEFINE Kept == \A g \in tracked : g \notin tracked' => denied'[g] >= MaxMiss
  <1>1. ASSUME Inv, Next PROVE Kept
    <2>1. ASSUME NEW h \in Groups, PermissionError(h) PROVE Kept
      <3>1. /\ denied' = [denied EXCEPT ![h] = @ + 1] /\ denied[h] = miss[h]
            /\ tracked' = IF miss[h] + 1 >= MaxMiss THEN tracked \ {h} ELSE tracked
            /\ denied \in [Groups -> Nat]
        BY <1>1, <2>1 DEF Inv, Polling, PollTypes, MissIsDenied, PermissionError
      <3> QED
        BY <3>1
    <2>2. ASSUME NEW h \in Groups, Answer(h) PROVE Kept
      <3>1. PermissionError(h) \/ tracked' = tracked
        BY <2>2 DEF Answer, MemberList, TransientError
      <3> QED
        BY <2>1, <3>1
    <2>3. ASSUME NEW h \in Groups, Update(h) PROVE tracked \subseteq tracked'
      BY <2>3 DEF Update, NewChat, ChatTitle, ChatAnswer, HandleNewChat, Supergroup,
           SupergroupFullInfo, BasicGroupFullInfo, EnsureChatSaved, StartTracking, polling
    <2>4. ASSUME OnAdminAlarm \/ Ready \/ LoggingOut \/ Close PROVE tracked' = tracked
      BY <2>4 DEF OnAdminAlarm, Ready, LoggingOut, Close, polling
    <2> QED
      BY <1>1, <2>2, <2>3, <2>4 DEF Next
  <1> QED
    BY <1>1, Invariance, PTL DEF Spec, EvictedForMisses
===============================================================================
