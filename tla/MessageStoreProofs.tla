------------------------- MODULE MessageStoreProofs -------------------------
(***************************************************************************)
(* Proofs about MessageStore, for every set of messages, contents and      *)
(* files: type correctness, the survival of links, and the complete edit   *)
(* history of every message whose edits Telegram's clock separates and     *)
(* whose deletion is permanent (Steady), whatever happens to the others.   *)
(***************************************************************************)
EXTENDS MessageStore, SequenceTheorems, TLAPS

-----------------------------------------------------------------------------
(* Types *)

\* Telegram's copy of a message that was sent has real content.
SentHasContent ==
    \A m \in Messages : tg[m].state # "unsent" => tg[m].content \in Contents

\* What the handlers build is well typed.
LEMMA BuiltType ==
    ASSUME TypeOK, NEW m \in Messages
    PROVE  Built(m) \in Message /\ Deletion \in Message
  BY TimeAssumption DEF TypeOK, Built, ContentOf, HasForwardInfo, Deletion, Message,
                        Times

\* An upsert of any well-typed message keeps the tables well typed.
LEMMA UpsertType ==
    ASSUME TypeOK, NEW m \in Messages, NEW msg \in Message, Upsert(m, msg)
    PROVE  /\ rows' \in [Messages -> Row \cup {NoRow}]
           /\ edits' \in [Messages -> Seq(Edit)]
           /\ fwd' \subseteq Messages
  <1> USE DEF TypeOK, Message
  <1>1. CASE InsertMessage(m, msg)
    BY <1>1 DEF InsertMessage, InsertForwardInfo, Row
  <1>2. CASE SkipUnknown(m, msg)
    BY <1>2 DEF SkipUnknown, tables
  <1>3. CASE FlagDeleted(m, msg)
    <2>1. rows[m] \in Row
      BY <1>3 DEF FlagDeleted, HasRow
    <2>2. [rows[m] EXCEPT !.deleted = TRUE] \in Row
      BY <2>1 DEF Row
    <2>3. QED
      BY <1>3, <2>2 DEF FlagDeleted
  <1>4. CASE OverwriteMessage(m, msg)
    <2>1. rows[m] \in Row
      BY <1>4 DEF OverwriteMessage, HasRow
    <2>2. Snapshot(rows[m], msg) \in Edit
      BY <2>1 DEF Snapshot, Row, Edit
    <2>3. edits' \in [Messages -> Seq(Edit)]
      <3>1. CASE IsEdit(rows[m], msg)
        <4>1. Append(edits[m], Snapshot(rows[m], msg)) \in Seq(Edit)
          BY <2>2, AppendProperties
        <4>2. QED
          BY <1>4, <3>1, <4>1 DEF OverwriteMessage
      <3>2. CASE ~IsEdit(rows[m], msg)
        BY <1>4, <3>2 DEF OverwriteMessage
      <3>3. QED
        BY <3>1, <3>2
    <2>4. rows' \in [Messages -> Row \cup {NoRow}]
      BY <1>4, <2>1 DEF OverwriteMessage, Row
    <2>5. fwd' \subseteq Messages
      BY <1>4 DEF OverwriteMessage, InsertForwardInfo
    <2>6. QED
      BY <2>3, <2>4, <2>5
  <1>5. QED
    BY <1>1, <1>2, <1>3, <1>4 DEF Upsert

\* Every step keeps every variable in its type.
LEMMA TypeInductive ==
    TypeOK /\ SentHasContent /\ [Next]_vars => TypeOK' /\ SentHasContent'
  <1> SUFFICES ASSUME TypeOK, SentHasContent, [Next]_vars
               PROVE  TypeOK' /\ SentHasContent'
    OBVIOUS
  <1> USE TimeAssumption DEF TypeOK, SentHasContent, Times
  <1>1. CASE Tick
    BY <1>1 DEF Tick
  <1>2. ASSUME NEW m \in Messages, NEW c \in Contents, TgSend(m, c)
        PROVE  TypeOK' /\ SentHasContent'
    BY <1>2 DEF TgSend
  <1>3. ASSUME NEW m \in Messages, NEW c \in Contents, TgEdit(m, c)
        PROVE  TypeOK' /\ SentHasContent'
    BY <1>3 DEF TgEdit
  <1>4. ASSUME NEW m \in Messages, Store(m)
        PROVE  TypeOK' /\ SentHasContent'
    <2>1. /\ rows' \in [Messages -> Row \cup {NoRow}]
          /\ edits' \in [Messages -> Seq(Edit)]
          /\ fwd' \subseteq Messages
      BY <1>4, BuiltType, UpsertType DEF Store
    <2>2. seen' \in [Messages -> Seq(Contents)]
      <3>1. tg[m].content \in Contents
        BY <1>4 DEF Store
      <3>2. Append(seen[m], tg[m].content) \in Seq(Contents)
        BY <3>1, AppendProperties
      <3>3. QED
        BY <1>4, <3>2 DEF Store
    <2>3. QED
      BY <1>4, <2>1, <2>2 DEF Store
  <1>5. ASSUME NEW m \in Messages, Delete(m)
        PROVE  TypeOK' /\ SentHasContent'
    <2>1. /\ rows' \in [Messages -> Row \cup {NoRow}]
          /\ edits' \in [Messages -> Seq(Edit)]
          /\ fwd' \subseteq Messages
      <3>1. CASE Upsert(m, Deletion)
        BY <3>1, BuiltType, UpsertType
      <3>2. CASE UNCHANGED tables
        BY <3>2 DEF tables
      <3>3. QED
        BY <1>5, <3>1, <3>2 DEF Delete
    <2>2. missed' \subseteq Messages
      BY <1>5 DEF Delete
    <2>3. QED
      BY <1>5, <2>1, <2>2 DEF Delete
  <1>6. ASSUME NEW m \in Messages, DeleteFromCache(m)
        PROVE  TypeOK' /\ SentHasContent'
    <2>1. /\ rows' \in [Messages -> Row \cup {NoRow}]
          /\ edits' \in [Messages -> Seq(Edit)]
          /\ fwd' \subseteq Messages
      BY <1>6, BuiltType, UpsertType DEF DeleteFromCache
    <2>2. QED
      BY <1>6, <2>1 DEF DeleteFromCache
  <1>7. ASSUME NEW m \in Messages, NEW f \in FileIds, SetFile(m, f)
        PROVE  TypeOK' /\ SentHasContent'
    <2>1. rows[m] \in Row
      BY <1>7 DEF SetFile, HasRow
    <2>2. [rows[m] EXCEPT !.file = f] \in Row
      BY <2>1 DEF Row
    <2>3. linked' \in [Messages -> [file : FileIds \cup {None},
                                    reply : Messages \cup {None}]]
      BY <1>7 DEF SetFile
    <2>4. QED
      BY <1>7, <2>2, <2>3 DEF SetFile
  <1>8. ASSUME NEW m \in Messages, NEW r \in Messages \ {m}, SetReply(m, r)
        PROVE  TypeOK' /\ SentHasContent'
    <2>1. rows[m] \in Row
      BY <1>8 DEF SetReply, HasRow
    <2> DEFINE id == IF SameTable(m, r) /\ HasRow(r) THEN r ELSE None
    <2>2. [rows[m] EXCEPT !.reply = r, !.reply_id = id] \in Row
      BY <2>1 DEF Row
    <2>3. linked' \in [Messages -> [file : FileIds \cup {None},
                                    reply : Messages \cup {None}]]
      BY <1>8 DEF SetReply
    <2>4. rows' = [rows EXCEPT ![m] = [rows[m] EXCEPT !.reply = r, !.reply_id = id]]
      BY <1>8 DEF SetReply
    <2>5. QED
      BY <1>8, <2>2, <2>3, <2>4 DEF SetReply
  <1>9. CASE UNCHANGED vars
    BY <1>9 DEF vars
  <1>10. QED
    BY <1>1, <1>2, <1>3, <1>4, <1>5, <1>6, <1>7, <1>8, <1>9 DEF Next

\* TypeOK holds in every environment.
THEOREM TypeCorrect == Spec => [](TypeOK /\ SentHasContent)
  <1>1. Init => TypeOK /\ SentHasContent
    <2> SUFFICES ASSUME Init PROVE TypeOK /\ SentHasContent
      OBVIOUS
    <2>1. edits \in [Messages -> Seq(Edit)] /\ seen \in [Messages -> Seq(Contents)]
      BY DEF Init
    <2>2. QED
      BY <2>1, TimeAssumption DEF Init, TypeOK, SentHasContent, Times
  <1>2. QED
    BY <1>1, TypeInductive, PTL DEF Spec
-----------------------------------------------------------------------------
(* Links and references, in any environment *)

\* The links of a stored message are the last ones made; one that is not stored
\* has none.
LinkRecord(m) == IF HasRow(m) THEN [file |-> rows[m].file, reply |-> rows[m].reply]
                              ELSE [file |-> None, reply |-> None]

LinkInv == \A m \in Messages : linked[m] = LinkRecord(m)

\* What an upsert does to the links, references and forward info of any row n:
\* it keeps those of a row that was there and gives a new one none.
LEMMA UpsertKeepsLinks ==
    ASSUME TypeOK, NEW m \in Messages, NEW msg \in Message, Upsert(m, msg),
           NEW n \in Messages
    PROVE  /\ HasRow(n) =>
                /\ rows'[n] # NoRow
                /\ rows'[n].file = rows[n].file
                /\ rows'[n].reply = rows[n].reply
                /\ rows'[n].reply_id = rows[n].reply_id
           /\ ~HasRow(n) /\ rows'[n] # NoRow =>
                /\ rows'[n].file = None
                /\ rows'[n].reply = None
                /\ rows'[n].reply_id = None
           /\ fwd \subseteq fwd'
           /\ rows'[n] # NoRow /\ rows'[n].forwarded =>
                n \in fwd' \/ (HasRow(n) /\ rows[n].forwarded)
  <1> USE NoRowAssumption DEF TypeOK, Message, HasRow
  <1>1. rows' \in [Messages -> Row \cup {NoRow}]
    BY UpsertType
  <1>2. CASE InsertMessage(m, msg)
    BY <1>2 DEF InsertMessage, InsertForwardInfo, Row
  <1>3. CASE SkipUnknown(m, msg)
    BY <1>3 DEF SkipUnknown, tables
  <1>4. CASE FlagDeleted(m, msg)
    <2> DEFINE new == [rows[m] EXCEPT !.deleted = TRUE]
    <2>1. rows[m] \in Row
      BY <1>4 DEF FlagDeleted
    <2>2. rows' = [rows EXCEPT ![m] = new] /\ fwd' = fwd
      BY <1>4 DEF FlagDeleted
    <2>3. /\ new \in Row
          /\ new.file = rows[m].file
          /\ new.reply = rows[m].reply
          /\ new.reply_id = rows[m].reply_id
          /\ new.forwarded = rows[m].forwarded
      BY <2>1 DEF Row
    <2> HIDE DEF new
    <2>4. QED
      BY <2>1, <2>2, <2>3
  <1>5. CASE OverwriteMessage(m, msg)
    <2> DEFINE new == [rows[m] EXCEPT !.content = msg.content,
                                      !.edit_date = msg.edit_date,
                                      !.deleted = msg.deleted,
                                      !.forwarded = msg.forwarded]
    <2>1. rows[m] \in Row
      BY <1>5 DEF OverwriteMessage
    <2>2. rows' = [rows EXCEPT ![m] = new]
      BY <1>5 DEF OverwriteMessage
    <2>3. /\ new \in Row
          /\ new.file = rows[m].file
          /\ new.reply = rows[m].reply
          /\ new.reply_id = rows[m].reply_id
          /\ new.forwarded = msg.forwarded
      BY <2>1 DEF Row
    <2>4. fwd' = IF msg.forwarded THEN fwd \cup {m} ELSE fwd
      BY <1>5 DEF OverwriteMessage, InsertForwardInfo
    <2> HIDE DEF new
    <2>5. CASE n = m
      BY <2>1, <2>2, <2>3, <2>4, <2>5
    <2>6. CASE n # m
      BY <2>2, <2>4, <2>6
    <2>7. QED
      BY <2>5, <2>6
  <1>6. QED
    BY <1>2, <1>3, <1>4, <1>5 DEF Upsert

\* Neither an upsert nor a link update breaks the link records.
LEMMA LinkInductive ==
    TypeOK /\ LinkInv /\ ReferencesResolve /\ [Next]_vars
        => LinkInv' /\ ReferencesResolve'
  <1> SUFFICES ASSUME TypeOK, LinkInv, ReferencesResolve, [Next]_vars
               PROVE  LinkInv' /\ ReferencesResolve'
    OBVIOUS
  <1> USE DEF LinkInv, LinkRecord, ReferencesResolve
  <1>1. ASSUME rows' = rows, fwd' = fwd, linked' = linked
        PROVE  LinkInv' /\ ReferencesResolve'
    BY <1>1 DEF HasRow, SameTable
  <1>2. ASSUME NEW m \in Messages, NEW msg \in Message, Upsert(m, msg),
               linked' = linked
        PROVE  LinkInv' /\ ReferencesResolve'
    <2>1. LinkInv'
      <3> SUFFICES ASSUME NEW n \in Messages PROVE linked'[n] = LinkRecord(n)'
        OBVIOUS
      <3>1. QED
        BY <1>2, UpsertKeepsLinks DEF HasRow
    <2>2. ReferencesResolve'
      <3> SUFFICES ASSUME NEW n \in Messages, rows'[n] # NoRow
                   PROVE  /\ rows'[n].reply_id # None =>
                              /\ rows'[n].reply_id = rows'[n].reply
                              /\ rows'[rows'[n].reply_id] # NoRow
                              /\ SameTable(n, rows'[n].reply_id)
                          /\ rows'[n].forwarded => n \in fwd'
        BY DEF HasRow, SameTable
      <3>1. rows'[n].forwarded => n \in fwd'
        BY <1>2, UpsertKeepsLinks
      <3>2. CASE ~HasRow(n)
        BY <1>2, <3>1, <3>2, UpsertKeepsLinks
      <3>3. CASE HasRow(n) /\ rows[n].reply_id # None
        <4>1. rows[n] \in Row
          BY <3>3 DEF HasRow, TypeOK
        <4>2. rows[n].reply_id \in Messages
          BY <3>3, <4>1 DEF Row
        <4>3. /\ rows[n].reply_id = rows[n].reply
              /\ HasRow(rows[n].reply_id)
              /\ SameTable(n, rows[n].reply_id)
          BY <3>3
        <4>4. rows'[rows[n].reply_id] # NoRow
          BY <1>2, <4>2, <4>3, UpsertKeepsLinks
        <4>5. rows'[n].reply_id = rows[n].reply_id /\ rows'[n].reply = rows[n].reply
          BY <1>2, <3>3, UpsertKeepsLinks
        <4>6. QED
          BY <3>1, <4>3, <4>4, <4>5
      <3>4. CASE HasRow(n) /\ rows[n].reply_id = None
        BY <1>2, <3>1, <3>4, UpsertKeepsLinks
      <3>5. QED
        BY <3>2, <3>3, <3>4
    <2>3. QED
      BY <2>1, <2>2
  <1>3. ASSUME NEW m \in Messages, NEW f \in FileIds, SetFile(m, f)
        PROVE  LinkInv' /\ ReferencesResolve'
    <2> DEFINE new == [rows[m] EXCEPT !.file = f]
    <2>1. rows[m] \in Row
      BY <1>3 DEF SetFile, HasRow, TypeOK
    <2>2. rows' = [rows EXCEPT ![m] = new]
      BY <1>3 DEF SetFile
    <2>3. /\ new \in Row
          /\ new.file = f
          /\ new.reply = rows[m].reply
          /\ new.reply_id = rows[m].reply_id
          /\ new.forwarded = rows[m].forwarded
      BY <2>1 DEF Row
    <2>4. linked' = [linked EXCEPT ![m] = [file |-> f, reply |-> linked[m].reply]]
      <3>1. linked[m] \in [file : FileIds \cup {None}, reply : Messages \cup {None}]
        BY DEF TypeOK
      <3>2. [linked[m] EXCEPT !.file = f] = [file |-> f, reply |-> linked[m].reply]
        BY <3>1
      <3>3. linked' = [linked EXCEPT ![m] = [linked[m] EXCEPT !.file = f]]
        BY <1>3 DEF SetFile
      <3>4. QED
        BY <3>2, <3>3
    <2>5. HasRow(m) /\ fwd' = fwd
      BY <1>3 DEF SetFile
    <2> HIDE DEF new
    <2>6. LinkInv'
      BY <2>1, <2>2, <2>3, <2>4, <2>5, NoRowAssumption DEF HasRow, TypeOK
    <2>7. \A n \in Messages : rows'[n] = NoRow <=> rows[n] = NoRow
      BY <2>1, <2>2, <2>3, NoRowAssumption DEF TypeOK
    <2>8. \A n \in Messages : HasRow(n) =>
              /\ rows'[n].reply_id = rows[n].reply_id
              /\ rows'[n].reply = rows[n].reply
              /\ rows'[n].forwarded = rows[n].forwarded
      BY <2>1, <2>2, <2>3 DEF TypeOK
    <2>9. ReferencesResolve'
      <3> SUFFICES ASSUME NEW n \in Messages, rows'[n] # NoRow
                   PROVE  /\ rows'[n].reply_id # None =>
                              /\ rows'[n].reply_id = rows'[n].reply
                              /\ rows'[rows'[n].reply_id] # NoRow
                              /\ SameTable(n, rows'[n].reply_id)
                          /\ rows'[n].forwarded => n \in fwd'
        BY DEF HasRow, SameTable
      <3>1. HasRow(n) /\ rows[n] \in Row
        BY <2>7 DEF HasRow, TypeOK
      <3>2. rows[n].reply_id \in Messages \cup {None}
        BY <3>1 DEF Row
      <3>3. QED
        BY <2>5, <2>7, <2>8, <3>1, <3>2 DEF HasRow
    <2>10. QED
      BY <2>6, <2>9
  <1>4. ASSUME NEW m \in Messages, NEW r \in Messages \ {m}, SetReply(m, r)
        PROVE  LinkInv' /\ ReferencesResolve'
    <2> DEFINE id == IF SameTable(m, r) /\ HasRow(r) THEN r ELSE None
               new == [rows[m] EXCEPT !.reply = r, !.reply_id = id]
    <2>1. rows[m] \in Row
      BY <1>4 DEF SetReply, HasRow, TypeOK
    <2>2. rows' = [rows EXCEPT ![m] = new]
      BY <1>4 DEF SetReply
    <2>3. /\ new \in Row
          /\ new.file = rows[m].file
          /\ new.reply = r
          /\ new.reply_id = id
          /\ new.forwarded = rows[m].forwarded
      BY <2>1 DEF Row
    <2>4. linked' = [linked EXCEPT ![m] = [file |-> linked[m].file, reply |-> r]]
      <3>1. linked[m] \in [file : FileIds \cup {None}, reply : Messages \cup {None}]
        BY DEF TypeOK
      <3>2. [linked[m] EXCEPT !.reply = r] = [file |-> linked[m].file, reply |-> r]
        BY <3>1
      <3>3. linked' = [linked EXCEPT ![m] = [linked[m] EXCEPT !.reply = r]]
        BY <1>4 DEF SetReply
      <3>4. QED
        BY <3>2, <3>3
    <2>5. HasRow(m) /\ fwd' = fwd
      BY <1>4 DEF SetReply
    <2>6. id # None => id = r /\ HasRow(r) /\ SameTable(m, r)
      OBVIOUS
    <2> HIDE DEF new, id
    <2>7. LinkInv'
      BY <2>1, <2>2, <2>3, <2>4, <2>5, NoRowAssumption DEF HasRow, TypeOK
    <2>8. \A n \in Messages : rows'[n] = NoRow <=> rows[n] = NoRow
      BY <2>1, <2>2, <2>3, NoRowAssumption DEF TypeOK
    <2>9. ReferencesResolve'
      <3> SUFFICES ASSUME NEW n \in Messages, rows'[n] # NoRow
                   PROVE  /\ rows'[n].reply_id # None =>
                              /\ rows'[n].reply_id = rows'[n].reply
                              /\ rows'[rows'[n].reply_id] # NoRow
                              /\ SameTable(n, rows'[n].reply_id)
                          /\ rows'[n].forwarded => n \in fwd'
        BY DEF HasRow, SameTable
      <3>1. HasRow(n) /\ rows[n] \in Row
        BY <2>8 DEF HasRow, TypeOK
      <3>2. rows[n].reply_id \in Messages \cup {None}
        BY <3>1 DEF Row
      <3>3. CASE n = m
        BY <2>1, <2>2, <2>3, <2>5, <2>6, <2>8, <3>1, <3>3 DEF HasRow, TypeOK
      <3>4. CASE n # m
        BY <2>2, <2>5, <2>8, <3>1, <3>2, <3>4 DEF HasRow, TypeOK
      <3>5. QED
        BY <3>3, <3>4
    <2>10. QED
      BY <2>7, <2>9
  <1>5. CASE Tick
    BY <1>1, <1>5 DEF Tick
  <1>6. ASSUME NEW m \in Messages, NEW c \in Contents, TgSend(m, c) \/ TgEdit(m, c)
        PROVE  LinkInv' /\ ReferencesResolve'
    BY <1>1, <1>6 DEF TgSend, TgEdit
  <1>7. ASSUME NEW m \in Messages, Store(m)
        PROVE  LinkInv' /\ ReferencesResolve'
    BY <1>2, <1>7, BuiltType DEF Store
  <1>8. ASSUME NEW m \in Messages, Delete(m) \/ DeleteFromCache(m)
        PROVE  LinkInv' /\ ReferencesResolve'
    <2>1. linked' = linked /\ (Upsert(m, Deletion) \/ UNCHANGED tables)
      BY <1>8 DEF Delete, DeleteFromCache
    <2>2. CASE Upsert(m, Deletion)
      BY <1>2, <2>1, <2>2, BuiltType
    <2>3. CASE UNCHANGED tables
      BY <1>1, <2>1, <2>3 DEF tables
    <2>4. QED
      BY <2>1, <2>2, <2>3
  <1>9. CASE UNCHANGED vars
    BY <1>1, <1>9 DEF vars
  <1>10. QED
    BY <1>3, <1>4, <1>5, <1>6, <1>7, <1>8, <1>9 DEF Next

\* setPrivateMessageFile, setGroupMessageFile and the reply updates are never
\* undone by an upsert, in any environment.
THEOREM LinksAreKept == Spec => []LinksSurvive
  <1>1. Init => LinkInv /\ ReferencesResolve
    BY DEF Init, LinkInv, LinkRecord, ReferencesResolve, HasRow
  <1>2. LinkInv => LinksSurvive
    BY DEF LinkInv, LinkRecord, LinksSurvive
  <1>3. QED
    BY <1>1, <1>2, TypeCorrect, LinkInductive, PTL DEF Spec

\* reply_to_id always refers to a stored message of the same table, and a row
\* marked as forwarded has its forward info, in any environment.
THEOREM ReferencesHold == Spec => []ReferencesResolve
  <1>1. Init => LinkInv /\ ReferencesResolve
    BY DEF Init, LinkInv, LinkRecord, ReferencesResolve, HasRow
  <1>2. QED
    BY <1>1, TypeCorrect, LinkInductive, PTL DEF Spec
-----------------------------------------------------------------------------
(* The history, when edits are a second apart and deletions permanent *)

ContentsOf(es) == [i \in 1 .. Len(es) |-> es[i].content]

\* The entries of a sequence of snapshots.
LEMMA EditType ==
    ASSUME NEW es \in Seq(Edit)
    PROVE  /\ \A i \in 1 .. Len(es) : es[i].content \in Contents \cup {Blank}
           /\ \A i \in 1 .. Len(es) : es[i].edit_date \in Nat
  <1>1. \A i \in 1 .. Len(es) : es[i] \in Edit
    BY ElementOfSeq
  <1>2. Edit \subseteq [content : Contents \cup {Blank}, file : FileIds \cup {None},
                       edit_date : Nat]
    BY TimeAssumption DEF Edit, Times
  <1>3. QED
    BY <1>1, <1>2

\* Appending a snapshot appends its content to the sequence of contents.
LEMMA ContentsOfAppend ==
    ASSUME NEW es \in Seq(Edit), NEW e \in Edit
    PROVE  ContentsOf(Append(es, e)) = Append(ContentsOf(es), e.content)
  <1>1. Len(Append(es, e)) = Len(es) + 1 /\ Len(es) \in Nat
    BY AppendProperties, LenProperties
  <1>2. \A i \in 1 .. Len(es) : Append(es, e)[i] = es[i]
    BY AppendProperties
  <1>3. Append(es, e)[Len(es) + 1] = e
    BY AppendProperties
  <1>4. ContentsOf(es) \in Seq(Contents \cup {Blank}) /\ Len(ContentsOf(es)) = Len(es)
    <2>1. \A i \in 1 .. Len(es) : es[i].content \in Contents \cup {Blank}
      BY EditType
    <2>2. ContentsOf(es) \in [1 .. Len(es) -> Contents \cup {Blank}]
      BY <2>1 DEF ContentsOf
    <2>3. QED
      BY <1>1, <2>2, LenProperties
  <1>5. e.content \in Contents \cup {Blank}
    BY DEF Edit
  <1>6. Append(ContentsOf(es), e.content) =
            [i \in 1 .. Len(es) + 1 |->
                IF i = Len(es) + 1 THEN e.content ELSE ContentsOf(es)[i]]
    BY <1>1, <1>4, <1>5
  <1>7. \A i \in 1 .. Len(es) + 1 :
            Append(es, e)[i].content =
                IF i = Len(es) + 1 THEN e.content ELSE ContentsOf(es)[i]
    BY <1>1, <1>2, <1>3 DEF ContentsOf
  <1>8. QED
    BY <1>1, <1>6, <1>7 DEF ContentsOf

\* A row, its snapshots and the contents stored agree with each other and with
\* Telegram's copy t: the row is an earlier version or the current one, and the
\* edit dates tell which.
Faithful(row, t, es, sn) ==
    /\ t.state # "unsent"
    /\ row.content \in Contents
    /\ row.edit_date <= t.edit_date
    /\ row.edit_date = t.edit_date => row.content = t.content
    /\ row.deleted => t.state = "deleted"
    /\ sn = Append(ContentsOf(es), row.content)
    /\ \A i, j \in 1 .. Len(es) : i < j => es[i].edit_date < es[j].edit_date
    /\ \A i \in 1 .. Len(es) : es[i].edit_date <= row.edit_date

Recorded(row, t, es, sn) ==
    IF row = NoRow THEN es = <<>> /\ sn = <<>> ELSE Faithful(row, t, es, sn)

HistoryInv ==
    \A m \in Steady : /\ tg[m].edit_date <= now
                      /\ Recorded(rows[m], tg[m], edits[m], seen[m])

\* An upsert touches no other message.
LEMMA UpsertFrame ==
    ASSUME TypeOK, NEW m \in Messages, NEW msg \in Message, Upsert(m, msg),
           NEW n \in Messages, n # m
    PROVE  rows'[n] = rows[n] /\ edits'[n] = edits[n]
  BY DEF Upsert, InsertMessage, SkipUnknown, FlagDeleted, OverwriteMessage, tables,
         TypeOK

\* Storing the current version of a message keeps its record faithful.
LEMMA StoreRecorded ==
    ASSUME TypeOK, SentHasContent, HistoryInv, NEW m \in Steady, Store(m)
    PROVE  Recorded(rows'[m], tg[m], edits'[m], seen'[m])
  <1> m \in Messages
    BY DEF Steady
  <1> DEFINE msg == Built(m)
             t == tg[m]
  <1>1. /\ msg.content = t.content /\ msg.edit_date = t.edit_date
        /\ msg.deleted = FALSE
        /\ msg \in Message
    BY BuiltType DEF Built, ContentOf
  <1>2. /\ t.content \in Contents /\ t.edit_date \in Nat /\ t.state = "alive"
    BY TimeAssumption DEF Store, SentHasContent, TypeOK, Times
  <1>3. /\ edits[m] \in Seq(Edit) /\ seen[m] \in Seq(Contents)
        /\ Recorded(rows[m], t, edits[m], seen[m])
    BY DEF TypeOK, HistoryInv
  <1>4. seen' = IF seen[m] # <<>> /\ seen[m][Len(seen[m])] = t.content
                THEN seen
                ELSE [seen EXCEPT ![m] = Append(seen[m], t.content)]
    BY DEF Store
  <1>5. seen \in [Messages -> Seq(Contents)]
    BY DEF TypeOK
  <1>6. Upsert(m, msg)
    BY DEF Store
  <1>7. rows \in [Messages -> Row \cup {NoRow}] /\ edits \in [Messages -> Seq(Edit)]
    BY DEF TypeOK
  <1> SUFFICES Recorded(rows'[m], t, edits'[m], seen'[m])
    OBVIOUS
  <1> HIDE DEF msg, t
  <1>8. CASE rows[m] = NoRow
    <2>1. InsertMessage(m, msg)
      BY <1>1, <1>6, <1>8 DEF Upsert, SkipUnknown, FlagDeleted, OverwriteMessage, HasRow
    <2>2. edits[m] = <<>> /\ seen[m] = <<>>
      BY <1>3, <1>8 DEF Recorded
    <2>3. seen'[m] = Append(<<>>, t.content) /\ edits'[m] = <<>>
      BY <1>4, <1>5, <2>1, <2>2 DEF InsertMessage
    <2>4. /\ rows'[m].content = t.content
          /\ rows'[m].edit_date = t.edit_date
          /\ rows'[m].deleted = FALSE
          /\ rows'[m] # NoRow
      <3>1. rows'[m] = [content |-> msg.content, edit_date |-> msg.edit_date,
                        deleted |-> FALSE, forwarded |-> msg.forwarded,
                        file |-> None, reply |-> None, reply_id |-> None]
        BY <1>7, <2>1 DEF InsertMessage
      <3>2. rows'[m] \in Row
        BY <1>1, <3>1 DEF Row, Message
      <3>3. rows'[m] # NoRow
        BY <3>2, NoRowAssumption
      <3>4. QED
        BY <1>1, <3>1, <3>3
    <2>5. ContentsOf(<<>>) = <<>>
      BY DEF ContentsOf
    <2>6. QED
      BY <1>2, <2>3, <2>4, <2>5 DEF Recorded, Faithful
  <1>9. CASE rows[m] # NoRow
    <2> DEFINE new == [rows[m] EXCEPT !.content = msg.content,
                                      !.edit_date = msg.edit_date,
                                      !.deleted = msg.deleted,
                                      !.forwarded = msg.forwarded]
    <2>1. OverwriteMessage(m, msg)
      BY <1>1, <1>6, <1>9 DEF Upsert, InsertMessage, SkipUnknown, FlagDeleted, HasRow
    <2>2. rows[m] \in Row /\ Faithful(rows[m], t, edits[m], seen[m])
      BY <1>3, <1>7, <1>9 DEF Recorded
    <2>3. rows'[m] = new
      BY <1>7, <2>1 DEF OverwriteMessage
    <2>4. /\ new \in Row
          /\ new.content = t.content
          /\ new.edit_date = t.edit_date
          /\ new.deleted = FALSE
      BY <1>1, <2>2 DEF Row, Message
    <2> HIDE DEF new
    <2>5. /\ ContentsOf(edits[m]) \in Seq(Contents \cup {Blank})
          /\ rows[m].content \in Contents
      <3>1. \A i \in 1 .. Len(edits[m]) : edits[m][i].content \in Contents \cup {Blank}
        BY <1>3, EditType
      <3>2. ContentsOf(edits[m]) \in [1 .. Len(edits[m]) -> Contents \cup {Blank}]
        BY <3>1 DEF ContentsOf
      <3>3. QED
        BY <1>3, <2>2, <3>2, LenProperties DEF Faithful
    <2>6. seen[m] # <<>> /\ seen[m][Len(seen[m])] = rows[m].content
      <3>1. seen[m] = Append(ContentsOf(edits[m]), rows[m].content)
        BY <2>2 DEF Faithful
      <3>2. QED
        BY <2>5, <3>1, AppendProperties
    <2>7. rows[m].edit_date \in Nat
      BY <2>2, TimeAssumption DEF Row, Times
    <2>8. CASE IsEdit(rows[m], msg)
      <3> DEFINE e == Snapshot(rows[m], msg)
      <3>1. /\ e \in Edit /\ e.content = rows[m].content /\ e.edit_date = t.edit_date
        BY <1>1, <2>2 DEF Snapshot, Edit, Row, Message
      <3>2. edits'[m] = Append(edits[m], e)
        BY <1>7, <2>1, <2>8 DEF OverwriteMessage
      <3>3. t.content # rows[m].content /\ rows[m].edit_date < t.edit_date
        BY <1>1, <1>2, <2>7, <2>8 DEF IsEdit
      <3>4. seen'[m] = Append(seen[m], t.content)
        BY <1>4, <1>5, <2>6, <3>3
      <3> HIDE DEF e
      <3>5. ContentsOf(edits'[m]) = Append(ContentsOf(edits[m]), rows[m].content)
        BY <1>3, <3>1, <3>2, ContentsOfAppend
      <3>6. seen'[m] = Append(ContentsOf(edits'[m]), t.content)
        BY <2>2, <3>4, <3>5 DEF Faithful
      <3>7. /\ Len(edits'[m]) = Len(edits[m]) + 1 /\ Len(edits[m]) \in Nat
            /\ \A i \in 1 .. Len(edits[m]) : edits'[m][i] = edits[m][i]
            /\ edits'[m][Len(edits[m]) + 1] = e
        BY <1>3, <3>1, <3>2, AppendProperties, LenProperties
      <3>8. \A i \in 1 .. Len(edits[m]) :
                edits[m][i].edit_date \in Nat /\ edits[m][i].edit_date < t.edit_date
        <4>1. \A i \in 1 .. Len(edits[m]) : edits[m][i].edit_date \in Nat
          BY <1>3, EditType
        <4>2. \A i \in 1 .. Len(edits[m]) : edits[m][i].edit_date <= rows[m].edit_date
          BY <2>2 DEF Faithful
        <4>3. QED
          BY <1>2, <2>7, <3>3, <4>1, <4>2
      <3>9. \A i, j \in 1 .. Len(edits'[m]) :
                i < j => edits'[m][i].edit_date < edits'[m][j].edit_date
        <4> SUFFICES ASSUME NEW i \in 1 .. Len(edits'[m]), NEW j \in 1 .. Len(edits'[m]),
                            i < j
                     PROVE  edits'[m][i].edit_date < edits'[m][j].edit_date
          OBVIOUS
        <4>1. i \in 1 .. Len(edits[m]) /\ edits'[m][i] = edits[m][i]
          BY <3>7
        <4>2. CASE j = Len(edits[m]) + 1
          BY <3>1, <3>7, <3>8, <4>1, <4>2
        <4>3. CASE j # Len(edits[m]) + 1
          <5>1. j \in 1 .. Len(edits[m]) /\ edits'[m][j] = edits[m][j]
            BY <3>7, <4>3
          <5>2. QED
            BY <2>2, <4>1, <5>1 DEF Faithful
        <4>4. QED
          BY <4>2, <4>3
      <3>10. \A i \in 1 .. Len(edits'[m]) : edits'[m][i].edit_date <= t.edit_date
        <4> SUFFICES ASSUME NEW i \in 1 .. Len(edits'[m])
                     PROVE  edits'[m][i].edit_date <= t.edit_date
          OBVIOUS
        <4>1. CASE i = Len(edits[m]) + 1
          BY <1>2, <3>1, <3>7, <4>1
        <4>2. CASE i # Len(edits[m]) + 1
          <5>1. i \in 1 .. Len(edits[m]) /\ edits'[m][i] = edits[m][i]
            BY <3>7, <4>2
          <5>2. QED
            BY <1>2, <3>8, <5>1
        <4>3. QED
          BY <4>1, <4>2
      <3>11. QED
        BY <1>2, <2>3, <2>4, <3>6, <3>9, <3>10, NoRowAssumption DEF Recorded, Faithful
    <2>9. CASE ~IsEdit(rows[m], msg)
      <3>1. edits'[m] = edits[m]
        BY <2>1, <2>9 DEF OverwriteMessage
      <3>2. t.content = rows[m].content
        BY <1>1, <1>2, <2>2, <2>7, <2>9 DEF IsEdit, Faithful
      <3>3. seen'[m] = seen[m]
        BY <1>4, <2>6, <3>2
      <3>4. \A i \in 1 .. Len(edits[m]) : edits[m][i].edit_date <= t.edit_date
        <4>1. \A i \in 1 .. Len(edits[m]) : edits[m][i].edit_date \in Nat
          BY <1>3, EditType
        <4>2. QED
          BY <1>2, <2>2, <2>7, <4>1 DEF Faithful
      <3>5. QED
        BY <1>2, <2>2, <2>3, <2>4, <3>1, <3>2, <3>3, <3>4, NoRowAssumption
        DEF Recorded, Faithful
    <2>10. QED
      BY <2>8, <2>9
  <1>10. QED
    BY <1>8, <1>9

\* A deletion flags the row, whose content and snapshots stay, or its job throws
\* and everything stays.
LEMMA DeleteRecorded ==
    ASSUME TypeOK, HistoryInv, NEW m \in Steady, Delete(m)
    PROVE  Recorded(rows'[m], tg'[m], edits'[m], seen'[m])
  <1> m \in Messages
    BY DEF Steady
  <1>1. tg'[m].state = "deleted" /\ tg'[m].content = tg[m].content
        /\ tg'[m].edit_date = tg[m].edit_date /\ tg[m].state = "alive"
    BY DEF Delete, TypeOK
  <1>2. seen' = seen /\ (Upsert(m, Deletion) \/ UNCHANGED <<rows, edits>>)
    BY DEF Delete, tables
  <1>3. Deletion.deleted = TRUE
    BY DEF Deletion
  <1>4. rows \in [Messages -> Row \cup {NoRow}] /\ Recorded(rows[m], tg[m], edits[m], seen[m])
    BY DEF TypeOK, HistoryInv
  <1>5. CASE rows[m] = NoRow
    <2>1. rows' = rows /\ edits' = edits
      BY <1>2, <1>3, <1>5 DEF Upsert, InsertMessage, FlagDeleted, OverwriteMessage,
                              SkipUnknown, HasRow, tables
    <2>2. QED
      BY <1>2, <1>4, <1>5, <2>1 DEF Recorded
  <1>6. CASE rows[m] # NoRow /\ UNCHANGED <<rows, edits>>
    BY <1>1, <1>2, <1>4, <1>6 DEF Recorded, Faithful
  <1>7. CASE rows[m] # NoRow /\ Upsert(m, Deletion)
    <2> DEFINE new == [rows[m] EXCEPT !.deleted = TRUE]
    <2>1. rows[m] \in Row /\ Faithful(rows[m], tg[m], edits[m], seen[m])
      BY <1>4, <1>7 DEF Recorded
    <2>2. ~rows[m].deleted
      BY <1>1, <2>1 DEF Faithful
    <2>3. FlagDeleted(m, Deletion)
      BY <1>3, <1>7, <2>2 DEF Upsert, InsertMessage, SkipUnknown,
                                    OverwriteMessage, HasRow
    <2>4. rows'[m] = new /\ edits' = edits
      BY <1>4, <2>3 DEF FlagDeleted
    <2>5. /\ new \in Row /\ new.deleted = TRUE
          /\ new.content = rows[m].content /\ new.edit_date = rows[m].edit_date
      BY <2>1 DEF Row
    <2> HIDE DEF new
    <2>6. QED
      BY <1>1, <1>2, <2>1, <2>4, <2>5, NoRowAssumption DEF Recorded, Faithful
  <1>8. QED
    BY <1>2, <1>5, <1>6, <1>7

\* A link update changes neither content, nor dates, nor the flag.
LEMMA LinkRecorded ==
    ASSUME HistoryInv, NEW m \in Steady, NEW row \in Row, rows[m] # NoRow,
           row.content = rows[m].content, row.edit_date = rows[m].edit_date,
           row.deleted = rows[m].deleted
    PROVE  Recorded(row, tg[m], edits[m], seen[m])
  BY NoRowAssumption DEF HistoryInv, Recorded, Faithful

\* HistoryInv is inductive.
LEMMA HistoryInductive ==
    ASSUME TypeOK, SentHasContent, HistoryInv, [Next]_vars
    PROVE  HistoryInv'
  <1> SUFFICES ASSUME NEW n \in Steady
               PROVE  /\ tg'[n].edit_date <= now'
                      /\ Recorded(rows'[n], tg'[n], edits'[n], seen'[n])
    BY DEF HistoryInv, Recorded, Faithful, ContentsOf
  <1> n \in Messages
    BY DEF Steady
  <1>1. /\ tg[n].edit_date <= now /\ tg[n].edit_date \in Nat /\ now \in Nat
        /\ Recorded(rows[n], tg[n], edits[n], seen[n])
    BY TimeAssumption DEF HistoryInv, TypeOK, Times
  <1>2. CASE Tick
    BY <1>1, <1>2 DEF Tick
  <1>3. ASSUME NEW m \in Messages, NEW c \in Contents, TgSend(m, c)
        PROVE  /\ tg'[n].edit_date <= now'
               /\ Recorded(rows'[n], tg'[n], edits'[n], seen'[n])
    <2>1. UNCHANGED <<now, rows, edits, seen>>
      BY <1>3 DEF TgSend
    <2>2. CASE n = m
      <3>1. tg[n].state = "unsent" /\ tg'[n].edit_date = tg[n].edit_date
        BY <1>3, <2>2 DEF TgSend, TypeOK
      <3>2. rows[n] = NoRow
        BY <1>1, <3>1 DEF Recorded, Faithful
      <3>3. QED
        BY <1>1, <2>1, <3>1, <3>2 DEF Recorded
    <2>3. CASE n # m
      <3>1. tg'[n] = tg[n]
        BY <1>3, <2>3 DEF TgSend, TypeOK
      <3>2. QED
        BY <1>1, <2>1, <3>1
    <2>4. QED
      BY <2>2, <2>3
  <1>4. ASSUME NEW m \in Messages, NEW c \in Contents, TgEdit(m, c)
        PROVE  /\ tg'[n].edit_date <= now'
               /\ Recorded(rows'[n], tg'[n], edits'[n], seen'[n])
    <2>1. UNCHANGED <<now, rows, edits, seen>>
      BY <1>4 DEF TgEdit
    <2>2. CASE n = m
      <3>1. /\ tg'[n].edit_date = now /\ tg'[n].state = tg[n].state
            /\ tg[n].edit_date < now
        BY <1>4, <2>2 DEF TgEdit, TypeOK, Steady
      <3>2. CASE rows[n] = NoRow
        BY <1>1, <2>1, <3>1, <3>2 DEF Recorded
      <3>3. CASE rows[n] # NoRow
        <4>1. Faithful(rows[n], tg[n], edits[n], seen[n])
          BY <1>1, <3>3 DEF Recorded
        <4>2. rows[n].edit_date \in Nat
          BY <3>3, TimeAssumption DEF TypeOK, Row, Times
        <4>3. rows[n].edit_date < tg'[n].edit_date
          BY <1>1, <3>1, <4>1, <4>2 DEF Faithful
        <4>4. Faithful(rows[n], tg'[n], edits[n], seen[n])
          BY <1>1, <3>1, <4>1, <4>2, <4>3 DEF Faithful
        <4>5. QED
          BY <1>1, <2>1, <3>1, <3>3, <4>4 DEF Recorded
      <3>4. QED
        BY <3>2, <3>3
    <2>3. CASE n # m
      <3>1. tg'[n] = tg[n]
        BY <1>4, <2>3 DEF TgEdit, TypeOK
      <3>2. QED
        BY <1>1, <2>1, <3>1
    <2>4. QED
      BY <2>2, <2>3
  <1>5. ASSUME NEW m \in Messages, Store(m)
        PROVE  /\ tg'[n].edit_date <= now'
               /\ Recorded(rows'[n], tg'[n], edits'[n], seen'[n])
    <2>1. tg' = tg /\ now' = now
      BY <1>5 DEF Store
    <2>2. CASE n = m
      BY <1>1, <1>5, <2>1, <2>2, StoreRecorded
    <2>3. CASE n # m
      <3>1. rows'[n] = rows[n] /\ edits'[n] = edits[n]
        BY <1>5, <2>3, UpsertFrame, BuiltType DEF Store
      <3>2. seen'[n] = seen[n]
        BY <1>5, <2>3 DEF Store, TypeOK
      <3>3. QED
        BY <1>1, <2>1, <3>1, <3>2
    <2>4. QED
      BY <2>2, <2>3
  <1>6. ASSUME NEW m \in Messages, Delete(m)
        PROVE  /\ tg'[n].edit_date <= now'
               /\ Recorded(rows'[n], tg'[n], edits'[n], seen'[n])
    <2>1. tg'[n].edit_date = tg[n].edit_date /\ now' = now /\ seen' = seen
      BY <1>6 DEF Delete, TypeOK
    <2>2. CASE n = m
      BY <1>1, <1>6, <2>1, <2>2, DeleteRecorded
    <2>3. CASE n # m
      <3>1. rows'[n] = rows[n] /\ edits'[n] = edits[n]
        <4>1. CASE Upsert(m, Deletion)
          BY <2>3, <4>1, UpsertFrame, BuiltType
        <4>2. CASE UNCHANGED tables
          BY <4>2 DEF tables
        <4>3. QED
          BY <1>6, <4>1, <4>2 DEF Delete
      <3>2. tg'[n] = tg[n]
        BY <1>6, <2>3 DEF Delete, TypeOK
      <3>3. QED
        BY <1>1, <2>1, <3>1, <3>2
    <2>4. QED
      BY <2>2, <2>3
  <1>7. ASSUME NEW m \in Messages, DeleteFromCache(m)
        PROVE  /\ tg'[n].edit_date <= now'
               /\ Recorded(rows'[n], tg'[n], edits'[n], seen'[n])
    <2>1. UNCHANGED <<now, tg, seen>> /\ Upsert(m, Deletion) /\ n # m
      BY <1>7 DEF DeleteFromCache, Steady
    <2>2. rows'[n] = rows[n] /\ edits'[n] = edits[n]
      BY <2>1, UpsertFrame, BuiltType
    <2>3. QED
      BY <1>1, <2>1, <2>2
  <1>8. ASSUME NEW m \in Messages, NEW f \in FileIds, SetFile(m, f)
        PROVE  /\ tg'[n].edit_date <= now'
               /\ Recorded(rows'[n], tg'[n], edits'[n], seen'[n])
    <2> DEFINE new == [rows[m] EXCEPT !.file = f]
    <2>1. UNCHANGED <<now, tg, edits, seen>> /\ rows[m] # NoRow
      BY <1>8 DEF SetFile, HasRow
    <2>2. rows[m] \in Row
      BY <2>1 DEF TypeOK
    <2>3. /\ new \in Row
          /\ new.content = rows[m].content
          /\ new.edit_date = rows[m].edit_date
          /\ new.deleted = rows[m].deleted
      BY <2>2 DEF Row
    <2>4. rows' = [rows EXCEPT ![m] = new]
      BY <1>8 DEF SetFile
    <2> HIDE DEF new
    <2>5. CASE n = m
      <3>1. Recorded(new, tg[n], edits[n], seen[n])
        BY <2>1, <2>3, <2>5, LinkRecorded
      <3>2. QED
        BY <1>1, <2>1, <2>4, <2>5, <3>1 DEF TypeOK
    <2>6. CASE n # m
      BY <1>1, <2>1, <2>4, <2>6 DEF TypeOK
    <2>7. QED
      BY <2>5, <2>6
  <1>9. ASSUME NEW m \in Messages, NEW r \in Messages \ {m}, SetReply(m, r)
        PROVE  /\ tg'[n].edit_date <= now'
               /\ Recorded(rows'[n], tg'[n], edits'[n], seen'[n])
    <2> DEFINE id == IF SameTable(m, r) /\ HasRow(r) THEN r ELSE None
               new == [rows[m] EXCEPT !.reply = r, !.reply_id = id]
    <2>1. UNCHANGED <<now, tg, edits, seen>> /\ rows[m] # NoRow
      BY <1>9 DEF SetReply, HasRow
    <2>2. rows[m] \in Row
      BY <2>1 DEF TypeOK
    <2>3. /\ new \in Row
          /\ new.content = rows[m].content
          /\ new.edit_date = rows[m].edit_date
          /\ new.deleted = rows[m].deleted
      BY <2>2 DEF Row
    <2>4. rows' = [rows EXCEPT ![m] = new]
      BY <1>9 DEF SetReply
    <2> HIDE DEF new
    <2>5. CASE n = m
      <3>1. Recorded(new, tg[n], edits[n], seen[n])
        BY <2>1, <2>3, <2>5, LinkRecorded
      <3>2. QED
        BY <1>1, <2>1, <2>4, <2>5, <3>1 DEF TypeOK
    <2>6. CASE n # m
      BY <1>1, <2>1, <2>4, <2>6 DEF TypeOK
    <2>7. QED
      BY <2>5, <2>6
  <1>10. CASE UNCHANGED vars
    BY <1>1, <1>10 DEF vars
  <1>11. QED
    BY <1>2, <1>3, <1>4, <1>5, <1>6, <1>7, <1>8, <1>9, <1>10 DEF Next

\* HistoryInv holds in every state.
LEMMA HistoryInvariance == Spec => []HistoryInv
  <1>1. Init => HistoryInv
    BY DEF Init, HistoryInv, Recorded, Steady
  <1>2. TypeOK /\ SentHasContent /\ HistoryInv /\ [Next]_vars => HistoryInv'
    BY HistoryInductive
  <1>3. QED
    BY <1>1, <1>2, TypeCorrect, PTL DEF Spec

\* For a message whose edits are at least a second apart and whose deletion is
\* permanent, the row and its snapshots are the complete history of what the
\* daemon stored, whatever the order of stores, deletions and link updates.
THEOREM HistoryIsComplete == Spec => []HistoryComplete
  <1>1. HistoryInv => HistoryComplete
    BY DEF HistoryInv, Recorded, Faithful, HistoryComplete, HasRow, EditedContents,
           ContentsOf
  <1>2. QED
    BY <1>1, HistoryInvariance, PTL

\* The snapshots of such a message are dated in ascending order.
THEOREM EditsAscend == Spec => []EditDatesAscend
  <1>1. HistoryInv => EditDatesAscend
    BY DEF HistoryInv, Recorded, Faithful, EditDatesAscend, HasRow
  <1>2. QED
    BY <1>1, HistoryInvariance, PTL

-----------------------------------------------------------------------------
(* The flag, in any environment *)

\* A stored message has been sent, and its flag tells of a deletion.
FlagInv == FlagIsExact /\ \A m \in Messages : HasRow(m) => tg[m].state # "unsent"

\* An upsert leaves the flag it was given in the row it wrote, and a deletion makes
\* no row.
LEMMA UpsertFlag ==
    ASSUME TypeOK, NEW m \in Messages, NEW msg \in Message, Upsert(m, msg)
    PROVE  rows'[m] # NoRow => /\ rows'[m].deleted = msg.deleted
                               /\ HasRow(m) \/ ~msg.deleted
  <1> USE DEF TypeOK, Message, HasRow
  <1>1. CASE InsertMessage(m, msg)
    BY <1>1 DEF InsertMessage
  <1>2. CASE SkipUnknown(m, msg)
    BY <1>2 DEF SkipUnknown, tables
  <1>3. CASE FlagDeleted(m, msg)
    <2>1. rows[m] \in Row
      BY <1>3 DEF FlagDeleted
    <2>2. [rows[m] EXCEPT !.deleted = TRUE].deleted = TRUE
      BY <2>1 DEF Row
    <2>3. QED
      BY <1>3, <2>2 DEF FlagDeleted
  <1>4. CASE OverwriteMessage(m, msg)
    <2> DEFINE new == [rows[m] EXCEPT !.content = msg.content,
                                      !.edit_date = msg.edit_date,
                                      !.deleted = msg.deleted,
                                      !.forwarded = msg.forwarded]
    <2>1. rows[m] \in Row
      BY <1>4 DEF OverwriteMessage
    <2>2. rows' = [rows EXCEPT ![m] = new]
      BY <1>4 DEF OverwriteMessage
    <2>3. new.deleted = msg.deleted
      BY <2>1 DEF Row
    <2>4. HasRow(m)
      BY <1>4 DEF OverwriteMessage
    <2> HIDE DEF new
    <2>5. QED
      BY <2>2, <2>3, <2>4
  <1>5. QED
    BY <1>1, <1>2, <1>3, <1>4 DEF Upsert

\* FlagInv is inductive.
LEMMA FlagInductive ==
    ASSUME TypeOK, FlagInv, [Next]_vars
    PROVE  FlagInv'
  <1> DEFINE Exact(row, t, n, gone) ==
        row # NoRow =>
            /\ t.state = "deleted" => row.deleted \/ n \in gone
            /\ row.deleted => t.state = "deleted" \/ n \in CacheDeletes
            /\ t.state # "unsent"
  <1> SUFFICES ASSUME NEW n \in Messages
               PROVE  Exact(rows'[n], tg'[n], n, missed')
    BY DEF FlagInv, FlagIsExact, HasRow
  <1>1. Exact(rows[n], tg[n], n, missed)
    BY DEF FlagInv, FlagIsExact, HasRow
  <1>2. CASE Tick
    BY <1>1, <1>2 DEF Tick
  <1>3. ASSUME NEW m \in Messages, NEW c \in Contents, TgSend(m, c)
        PROVE  Exact(rows'[n], tg'[n], n, missed')
    BY <1>1, <1>3 DEF TgSend, TypeOK
  <1>4. ASSUME NEW m \in Messages, NEW c \in Contents, TgEdit(m, c)
        PROVE  Exact(rows'[n], tg'[n], n, missed')
    BY <1>1, <1>4 DEF TgEdit, TypeOK
  <1>5. ASSUME NEW m \in Messages, Store(m)
        PROVE  Exact(rows'[n], tg'[n], n, missed')
    <2>1. /\ tg' = tg /\ missed' = missed /\ tg[m].state = "alive"
          /\ Upsert(m, Built(m)) /\ Built(m) \in Message /\ Built(m).deleted = FALSE
      BY <1>5, BuiltType DEF Store, Built
    <2>2. CASE n = m
      BY <2>1, <2>2, UpsertFlag
    <2>3. CASE n # m
      BY <1>1, <2>1, <2>3, UpsertFrame
    <2>4. QED
      BY <2>2, <2>3
  <1>6. ASSUME NEW m \in Messages, Delete(m)
        PROVE  Exact(rows'[n], tg'[n], n, missed')
    <2>1. /\ tg[m].state = "alive" /\ tg' = [tg EXCEPT ![m].state = "deleted"]
          /\ missed \subseteq missed'
          /\ Deletion \in Message /\ Deletion.deleted = TRUE
      BY <1>6, BuiltType DEF Delete, Deletion
    <2>2. CASE UNCHANGED tables /\ missed' = missed \cup {m}
      BY <1>1, <2>1, <2>2 DEF tables, TypeOK
    <2>3. CASE Upsert(m, Deletion) /\ n = m
      BY <1>1, <2>1, <2>3, UpsertFlag DEF TypeOK
    <2>4. CASE Upsert(m, Deletion) /\ n # m
      BY <1>1, <2>1, <2>4, UpsertFrame DEF TypeOK
    <2>5. QED
      BY <1>6, <2>2, <2>3, <2>4 DEF Delete
  <1>7. ASSUME NEW m \in Messages, DeleteFromCache(m)
        PROVE  Exact(rows'[n], tg'[n], n, missed')
    <2>1. /\ tg' = tg /\ missed' = missed /\ tg[m].state = "alive"
          /\ m \in CacheDeletes
          /\ Upsert(m, Deletion) /\ Deletion \in Message
      BY <1>7, BuiltType DEF DeleteFromCache
    <2>2. CASE n = m
      BY <2>1, <2>2
    <2>3. CASE n # m
      BY <1>1, <2>1, <2>3, UpsertFrame
    <2>4. QED
      BY <2>2, <2>3
  <1>8. ASSUME NEW m \in Messages, NEW f \in FileIds, SetFile(m, f)
        PROVE  Exact(rows'[n], tg'[n], n, missed')
    <2> DEFINE new == [rows[m] EXCEPT !.file = f]
    <2>1. tg' = tg /\ missed' = missed /\ rows[m] # NoRow /\ rows[m] \in Row
      BY <1>8 DEF SetFile, HasRow, TypeOK
    <2>2. new.deleted = rows[m].deleted
      BY <2>1 DEF Row
    <2>3. rows' = [rows EXCEPT ![m] = new]
      BY <1>8 DEF SetFile
    <2> HIDE DEF new
    <2>4. QED
      BY <1>1, <2>1, <2>2, <2>3 DEF TypeOK
  <1>9. ASSUME NEW m \in Messages, NEW r \in Messages \ {m}, SetReply(m, r)
        PROVE  Exact(rows'[n], tg'[n], n, missed')
    <2> DEFINE id == IF SameTable(m, r) /\ HasRow(r) THEN r ELSE None
               new == [rows[m] EXCEPT !.reply = r, !.reply_id = id]
    <2>1. tg' = tg /\ missed' = missed /\ rows[m] # NoRow /\ rows[m] \in Row
      BY <1>9 DEF SetReply, HasRow, TypeOK
    <2>2. new.deleted = rows[m].deleted
      BY <2>1 DEF Row
    <2>3. rows' = [rows EXCEPT ![m] = new]
      BY <1>9 DEF SetReply
    <2> HIDE DEF new
    <2>4. QED
      BY <1>1, <2>1, <2>2, <2>3 DEF TypeOK
  <1>10. CASE UNCHANGED vars
    BY <1>1, <1>10 DEF vars
  <1>11. QED
    BY <1>2, <1>3, <1>4, <1>5, <1>6, <1>7, <1>8, <1>9, <1>10 DEF Next

\* is_deleted of every stored message: set once Telegram has deleted it unless the job
\* of that deletion threw, and never set of a message that was not deleted, be it from
\* TDLib's cache only.
THEOREM DeletionIsExact == Spec => []FlagIsExact
  <1>1. Init => FlagInv
    BY DEF Init, FlagInv, FlagIsExact, HasRow
  <1>2. TypeOK /\ FlagInv /\ [Next]_vars => FlagInv'
    BY FlagInductive
  <1>3. FlagInv => FlagIsExact
    BY DEF FlagInv
  <1>4. QED
    BY <1>1, <1>2, <1>3, TypeCorrect, PTL DEF Spec
=============================================================================
