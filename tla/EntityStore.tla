---------------------------- MODULE EntityStore ----------------------------
(***************************************************************************)
(* The tables of users and groups, of their usernames, of their            *)
(* attributes' history and of the groups' administrators, and the          *)
(* operations of DB that write them.  All of them run one after the other  *)
(* on serial_, each in a transaction of its own; a transaction that throws *)
(* is rolled back and the job is dropped, which here is a step that        *)
(* changes nothing.                                                        *)
(*                                                                         *)
(* A username is the SET of its spellings: the tables compare usernames    *)
(* with a collation that ignores case (utf8mb4_0900_ai_ci), the code       *)
(* compares them byte by byte.                                             *)
(***************************************************************************)
EXTENDS Naturals, Sequences, FiniteSetsExt

CONSTANTS Users, Groups,
          UserNames,    \* the usernames users may have, each a set of spellings
          GroupNames,   \* the usernames groups may have
          Collectible,  \* the spellings of collectible usernames
          Values,       \* what a name, a phone number, a bio, a title or a
                        \* description can be
          Empty,        \* the empty string, which is one of them
          Photos,       \* files.id of photos
          Null,         \* SQL NULL
          NoRow,        \* the entity or username has no row
          Removed,      \* the event that a username is gone
          Standings,    \* what (status, title, rights) of an administrator can be
          MaxList,      \* bound: usernames in one of the lists of an entity
          MaxChanges,   \* bound: values that a column goes through
          Varieties     \* bound: the entities and the spellings that occur in a
                        \* behaviour, and which of "profile" and "admins" vary in it

Entities == Users \cup Groups
Usernames == UserNames \cup GroupNames
Spellings == UNION Usernames

ASSUME EntitiesAssumption == Users \cap Groups = {}
ASSUME NamespaceAssumption ==
    /\ UserNames \cap GroupNames = {}
    /\ \A k, l \in Usernames : k # {} /\ (k # l => k \cap l = {})
ASSUME ValuesAssumption == Empty \in Values
ASSUME NullAssumption == Null \notin Entities \cup Photos \cup Standings
ASSUME BoundsAssumption == MaxList \in Nat /\ MaxChanges \in Nat
ASSUME VarietiesAssumption == 
    \A v \in Varieties : v \subseteq Entities \cup Spellings \cup {"profile", "admins"}

\* The columns with a history table of their own.
Columns(o) == IF o \in Users THEN {"name", "phone", "bio", "photo"}
                             ELSE {"title", "description", "photo"}

\* Those of the user and group objects; bio comes with the full info and photo
\* once it is downloaded.
Main(o) == Columns(o) \ {"bio", "photo"}

\* Those whose history begins with the first value.
FirstIsRecorded(o) == Columns(o) \ {"bio"}

Kinds == {"active", "disabled", "collectible"}

VARIABLES row,       \* row[o]: the columns of o's row
          hist,      \* hist[o][c]: the rows of c's history table for o
          names,     \* names[k]: the row of username k
          log,       \* log[o][n]: the last username event of o and spelling n
          logged,    \* the spellings with an event in the last transaction
          admins,    \* admins[g][u]: the row of administrator u of g
          adminLog,  \* adminLog[g][u]: the last administrator event of g and u
          seen,      \* history: the values of column c of o stored, without repetitions
          holder,    \* history: the entity that was last told to have username k
          varies     \* the one of Varieties that this behaviour is confined to

profile == <<row, hist, seen>>
usernames == <<names, log, logged, holder>>
administrators == <<admins, adminLog>>
vars == <<row, hist, names, log, logged, admins, adminLog, seen, holder, varies>>

Value == Values \cup Photos \cup {Null}
UsernameRow == [spelling : Spellings, owner : Entities \cup {Null},
                kind : Kinds, position : 0 .. MaxList]
UsernameEvent == [kind : Kinds, position : 0 .. MaxList]
AdminEvent == [action : {"added", "updated", "removed"}, standing : Standings]

ASSUME NoRowAssumption ==
    NoRow \notin UsernameRow /\ \A o \in Entities : NoRow \notin [Columns(o) -> Value]
ASSUME NoEventAssumption ==
    Removed # Null /\ {Removed, Null} \cap UsernameEvent = {} /\ Null \notin AdminEvent

TypeOK ==
    /\ \A o \in Entities : row[o] \in [Columns(o) -> Value] \cup {NoRow}
    /\ \A o \in Entities : hist[o] \in [Columns(o) -> Seq(Value)]
    /\ \A o \in Entities : seen[o] \in [Columns(o) -> Seq(Value)]
    /\ names \in [Usernames -> UsernameRow \cup {NoRow}]
    /\ log \in [Entities -> [Spellings -> UsernameEvent \cup {Removed, Null}]]
    /\ logged \subseteq Spellings
    /\ admins \in [Groups -> [Users -> Standings \cup {Null}]]
    /\ adminLog \in [Groups -> [Users -> AdminEvent \cup {Null}]]
    /\ holder \in [Usernames -> Entities \cup {Null}]
    /\ varies \in Varieties

Init ==
    /\ row = [o \in Entities |-> NoRow]
    /\ hist = [o \in Entities |-> [c \in Columns(o) |-> <<>>]]
    /\ seen = [o \in Entities |-> [c \in Columns(o) |-> <<>>]]
    /\ names = [k \in Usernames |-> NoRow]
    /\ log = [o \in Entities |-> [n \in Spellings |-> Null]]
    /\ logged = {}
    /\ holder = [k \in Usernames |-> Null]
    /\ admins = [g \in Groups |-> [u \in Users |-> Null]]
    /\ adminLog = [g \in Groups |-> [u \in Users |-> Null]]
    /\ varies \in Varieties

HasRow(o) == row[o] # NoRow

-----------------------------------------------------------------------------
(* What Telegram may tell *)

MainValues(o) == IF "profile" \in varies THEN [Main(o) -> Values]
                                         ELSE {[c \in Main(o) |-> Empty]}

\* collect(): the entries of one of the lists.
Collect(s, kind) ==
    [i \in DOMAIN s |-> [name |-> s[i], kind |-> kind, position |-> i - 1]]

\* new_list: the entries of the three lists, in order.
NewList(x) == Collect(x.active, "active") \o Collect(x.disabled, "disabled")
                \o Collect(x.collectible, "collectible")

InList(s) == {s[i] : i \in DOMAIN s}

\* The usernames an entity may have: each once, in one spelling, active or
\* disabled; the collectible ones are listed a second time.
UsernameLists(space) ==
    LET Lists == UNION {[1 .. i -> UNION space] : i \in 0 .. MaxList}
    IN  {NewList(x) : x \in
          {x \in [active : Lists, disabled : Lists, collectible : Lists] :
             LET all == x.active \o x.disabled
             IN  /\ \A i, j \in DOMAIN all :
                       i # j => \A k \in space : ~({all[i], all[j]} \subseteq k)
                 /\ InList(x.collectible) = Collectible \cap InList(all)
                 /\ Len(x.collectible) = Cardinality(InList(x.collectible))}}

AllUserLists == UsernameLists(UserNames)
AllGroupLists == UsernameLists(GroupNames)

-----------------------------------------------------------------------------
(* Histories of the columns *)

\* History: column c of o now holds v.
Seen(o, c, v) ==
    LET s == seen[o][c]
    IN  IF s # <<>> /\ s[Len(s)] = v THEN s ELSE Append(s, v)

\* Bound: no column goes through more than MaxChanges values.
MayHold(o, c, v) == Len(Seen(o, c, v)) <= MaxChanges

\* What the upsert appends to the history of column c: the first value, then
\* every value that is replaced.
Recorded(o, c, v) ==
    CASE ~HasRow(o) -> Append(hist[o][c], v)
      [] HasRow(o) /\ row[o][c] # v -> Append(hist[o][c], row[o][c])
      [] OTHER -> hist[o][c]

NewRow(o) == [c \in Columns(o) |-> IF c = "bio" THEN Empty ELSE Null]

\* Mutant: the row is replaced, bio and photo included.
UpsertRow_Replace(o, x) ==
    /\ \A c \in Main(o) : MayHold(o, c, x[c])
    /\ LET old == NewRow(o)
       IN  row' = [row EXCEPT ![o] =
                     [c \in Columns(o) |-> IF c \in Main(o) THEN x[c] ELSE old[c]]]
    /\ hist' = [hist EXCEPT ![o] =
                  [c \in Columns(o) |-> IF c \in Main(o) THEN Recorded(o, c, x[c])
                                                         ELSE hist[o][c]]]
    /\ seen' = [seen EXCEPT ![o] =
                  [c \in Columns(o) |->
                     CASE c \in Main(o) -> Seen(o, c, x[c])
                       [] c = "bio" /\ ~HasRow(o) -> <<Empty>>
                       [] OTHER -> seen[o][c]]]

\* INSERT ... ON DUPLICATE KEY UPDATE of the main columns, and their histories.
UpsertRow(o, x) ==
    /\ \A c \in Main(o) : MayHold(o, c, x[c])
    /\ LET old == IF HasRow(o) THEN row[o] ELSE NewRow(o)
       IN  row' = [row EXCEPT ![o] =
                     [c \in Columns(o) |-> IF c \in Main(o) THEN x[c] ELSE old[c]]]
    /\ hist' = [hist EXCEPT ![o] =
                  [c \in Columns(o) |-> IF c \in Main(o) THEN Recorded(o, c, x[c])
                                                         ELSE hist[o][c]]]
    /\ seen' = [seen EXCEPT ![o] =
                  [c \in Columns(o) |->
                     CASE c \in Main(o) -> Seen(o, c, x[c])
                       [] c = "bio" /\ ~HasRow(o) -> <<Empty>>
                       [] OTHER -> seen[o][c]]]

\* The row's photo goes into the history when it is replaced, and the first one
\* when it is set.
TrackPhotoChange(o, f) ==
    hist' = [hist EXCEPT ![o]["photo"] =
               CASE row[o]["photo"] = Null -> Append(@, f)
                 [] row[o]["photo"] \notin {Null, f} -> Append(@, row[o]["photo"])
                 [] OTHER -> @]

\* Without a row there is nothing to record and the UPDATE matches nothing.
SetPhoto(o, f) ==
    /\ HasRow(o)
    /\ MayHold(o, "photo", f)
    /\ TrackPhotoChange(o, f)
    /\ row' = [row EXCEPT ![o]["photo"] = f]
    /\ seen' = [seen EXCEPT ![o]["photo"] = Seen(o, "photo", f)]
    /\ logged' = {}
    /\ UNCHANGED <<names, log, holder, admins, adminLog, varies>>

-----------------------------------------------------------------------------
(* syncUsernames, syncGroupUsernames *)

\* old_map: the usernames that o owns.
OldMap(o) == {k \in Usernames : names[k] # NoRow /\ names[k].owner = o}

\* o's entry of that very spelling, as a set of at most one row.
OldEntry(o, n) == {names[k] : k \in {l \in OldMap(o) : names[l].spelling = n}}

\* Mutant: a move within the list is no change.
IsChange_KindOnly(o, e) == \A r \in OldEntry(o, e.name) : r.kind # e.kind

\* An entry is an event (added, kind_changed or reordered) unless o has it in this
\* kind and position.
IsChange(o, e) ==
    \A r \in OldEntry(o, e.name) : r.kind # e.kind \/ r.position # e.position

\* The spellings in a list of entries (new_map).
NewMap(list) == {list[i].name : i \in DOMAIN list}

Changed(o, list) == {list[i].name : i \in {j \in DOMAIN list : IsChange(o, list[j])}}

\* The spellings o has and the list does not.
Released(o, list) == {names[k].spelling : k \in OldMap(o)} \ NewMap(list)

\* The kind and position of the last of the entries that are changes of n.
LastPlace(o, list, n) ==
    LET last == Max({i \in DOMAIN list : list[i].name = n /\ IsChange(o, list[i])})
    IN  [kind |-> list[last].kind, position |-> list[last].position]

\* Mutant: no event for a username that is gone.
RecordUsernameEvents_NoRemoval(o, list) ==
    LET changed == Changed(o, list)
    IN  /\ log' = [log EXCEPT ![o] =
                     [n \in Spellings |->
                        IF n \in changed THEN LastPlace(o, list, n)
                                         ELSE log[o][n]]]
        /\ logged' = changed

\* One event for each entry that is a change, with the new kind and position, and
\* one for each username that is released.
RecordUsernameEvents(o, list) ==
    LET changed == Changed(o, list)
        released == Released(o, list)
    IN  /\ log' = [log EXCEPT ![o] =
                     [n \in Spellings |->
                        CASE n \in changed -> LastPlace(o, list, n)
                          [] n \in released -> Removed
                          [] OTHER -> log[o][n]]]
        /\ logged' = changed \cup released

\* The list has the username, in whatever spelling.
Claims(list, k) == NewMap(list) \cap k # {}

\* The row of username k after the list's entries of it are upserted in order: the
\* last one stays, and a row keeps the spelling it was inserted with.
Claimed(o, list, k) ==
    LET at == {i \in DOMAIN list : list[i].name \in k}
        last == list[Max(at)]
    IN  [spelling |-> IF names[k] = NoRow THEN list[Min(at)].name ELSE names[k].spelling,
         owner |-> o, kind |-> last.kind, position |-> last.position]

\* Mutant: the removals come after the upserts.
WriteUsernames_ReleaseLast(o, list) ==
    LET released == Released(o, list)
    IN  names' = [k \in Usernames |->
                    CASE released \cap k # {} -> [names[k] EXCEPT !.owner = Null]
                      [] released \cap k = {} /\ Claims(list, k) -> Claimed(o, list, k)
                      [] OTHER -> names[k]]

\* The released usernames lose their owner; then the listed ones are upserted.
WriteUsernames(o, list) ==
    LET released == Released(o, list)
    IN  names' = [k \in Usernames |->
                    CASE Claims(list, k) -> Claimed(o, list, k)
                      [] ~Claims(list, k) /\ released \cap k # {} ->
                           [names[k] EXCEPT !.owner = Null]
                      [] OTHER -> names[k]]

\* History: who was last told to have the username.
Hold(o, list) ==
    holder' = [k \in Usernames |-> CASE Claims(list, k) -> o
                                     [] ~Claims(list, k) /\ holder[k] = o -> Null
                                     [] OTHER -> holder[k]]

SyncUsernames(o, list) ==
    /\ RecordUsernameEvents(o, list)
    /\ WriteUsernames(o, list)
    /\ Hold(o, list)

-----------------------------------------------------------------------------
(* The operations on users *)

UpsertUser(u) ==
    /\ \E x \in MainValues(u) : UpsertRow(u, x)
    /\ \E list \in {l \in AllUserLists : NewMap(l) \subseteq varies} :
          SyncUsernames(u, list)
    /\ UNCHANGED <<admins, adminLog, varies>>

SetUserProfilePhoto(u) ==
    /\ "profile" \in varies
    /\ \E f \in Photos : SetPhoto(u, f)

\* The user row is made by upsertUser; without it the full info is skipped.
UpsertUserFullInfo(u) ==
    /\ "profile" \in varies
    /\ HasRow(u)
    /\ \E v \in Values :
          /\ MayHold(u, "bio", v)
          /\ hist' = [hist EXCEPT ![u]["bio"] =
                        IF row[u]["bio"] # v THEN Append(@, row[u]["bio"]) ELSE @]
          /\ row' = [row EXCEPT ![u]["bio"] = v]
          /\ seen' = [seen EXCEPT ![u]["bio"] = Seen(u, "bio", v)]
    /\ logged' = {}
    /\ UNCHANGED <<names, log, holder, admins, adminLog, varies>>

-----------------------------------------------------------------------------
(* The operations on groups *)

\* The same diff, on group_usernames.
SyncGroupUsernames(g, list) == SyncUsernames(g, list)

UpsertGroup(g) ==
    /\ \E x \in MainValues(g) : UpsertRow(g, x)
    /\ \E list \in {l \in AllGroupLists : NewMap(l) \subseteq varies} :
          SyncGroupUsernames(g, list)
    /\ UNCHANGED <<admins, adminLog, varies>>

SetGroupPhoto(g) ==
    /\ "profile" \in varies
    /\ \E f \in Photos : SetPhoto(g, f)

\* What a group's list of administrators can be.  The callers drop an empty one.
AdminLists == UNION {[s -> Standings] : s \in (SUBSET Users) \ {{}}}

\* The rows that the foreign keys of group_admins refer to; if one is missing the
\* transaction fails.
AdminRowsExist(g, list) == HasRow(g) /\ \A u \in DOMAIN list : HasRow(u)

\* Mutant: an administrator who stays is not compared with the stored one.
AdminEventOf_AddedOnly(g, u, list) ==
    CASE u \in DOMAIN list /\ admins[g][u] = Null ->
           [action |-> "added", standing |-> list[u]]
      [] u \notin DOMAIN list /\ admins[g][u] # Null ->
           [action |-> "removed", standing |-> admins[g][u]]
      [] OTHER -> adminLog[g][u]

\* The events snapshot the new standing, that of a removal the old one.
AdminEventOf(g, u, list) ==
    CASE u \in DOMAIN list /\ admins[g][u] = Null ->
           [action |-> "added", standing |-> list[u]]
      [] u \in DOMAIN list /\ admins[g][u] \notin {Null, list[u]} ->
           [action |-> "updated", standing |-> list[u]]
      [] u \notin DOMAIN list /\ admins[g][u] # Null ->
           [action |-> "removed", standing |-> admins[g][u]]
      [] OTHER -> adminLog[g][u]

SyncGroupAdmins(g) ==
    /\ "admins" \in varies
    /\ \E list \in AdminLists :
          /\ AdminRowsExist(g, list)
          /\ admins' = [admins EXCEPT ![g] =
                          [u \in Users |-> IF u \in DOMAIN list THEN list[u] ELSE Null]]
          /\ adminLog' = [adminLog EXCEPT ![g] =
                            [u \in Users |-> AdminEventOf(g, u, list)]]
    /\ logged' = {}
    /\ UNCHANGED <<row, hist, seen, names, log, holder, varies>>

-----------------------------------------------------------------------------

Next == \/ \E u \in Users \cap varies : UpsertUser(u)
        \/ \E u \in Users \cap varies : SetUserProfilePhoto(u)
        \/ \E u \in Users \cap varies : UpsertUserFullInfo(u)
        \/ \E g \in Groups \cap varies : UpsertGroup(g)
        \/ \E g \in Groups \cap varies : SetGroupPhoto(g)
        \/ \E g \in Groups \cap varies : SyncGroupAdmins(g)

Spec == Init /\ [][Next]_vars

-----------------------------------------------------------------------------
(* Properties *)

\* A username's row names the entity that was last told to have it, and none once
\* that entity was told without it: whatever releases, takeovers and changes of
\* spelling lie between, and although an upsert releases and claims in one
\* transaction (syncUsernames: the removals, then the upserts by the unique key).
OwnerIsLastTold ==
    \A k \in Usernames :
        IF names[k] = NoRow THEN holder[k] = Null ELSE names[k].owner = holder[k]

\* The usernames that are listed once and spelled one way.
Plain == {n \in Spellings : {n} \in Usernames /\ n \notin Collectible}

\* The event log says what the table says: an owner's last event gives the row's
\* kind and position, one who never had the username or whose last event is its
\* removal is not the owner, and of a username without an owner somebody's last
\* event is the removal (syncUsernames computes the events from the rows before it
\* writes them).
LogReplays ==
    \A n \in Plain :
        /\ \A o \in Entities :
              LET owns == {n} \in OldMap(o)
                  last == log[o][n]
              IN  IF last \in {Null, Removed}
                    THEN ~owns
                    ELSE owns => /\ last.kind = names[{n}].kind
                                 /\ last.position = names[{n}].position
        /\ names[{n}] # NoRow /\ names[{n}].owner = Null =>
              \E o \in Entities : log[o][n] = Removed

\* A transaction records an event of a username when it changes the username's
\* row, and only then: telling the same again is silent, and no change is
\* (the diff of syncUsernames against old_map).
RecordedExactly ==
    [][\A n \in Plain : n \in logged' <=> names'[{n}] # names[{n}]]_vars

\* The history of a column is its past: the first value (but for the bio, which
\* starts empty) and every value that was replaced, in order, and the row holds the
\* last one, although three operations that know nothing of each other write the
\* columns of a row (upsertUser, setUserProfilePhoto, upsertUserFullInfo).
PastIsRecorded ==
    \A o \in Entities : \A c \in Columns(o) :
        LET s == seen[o][c]
            past == SubSeq(s, 1, Len(s) - 1)
        IN  IF s = <<>>
              THEN hist[o][c] = <<>>
              ELSE /\ row[o][c] = s[Len(s)]
                   /\ hist[o][c] = IF c \in FirstIsRecorded(o) THEN <<s[1]>> \o past
                                                               ELSE past

\* The administrators of a group are those whose last event is an addition or an
\* update, with the standing of that event, whatever lists came before and whichever
\* of them were refused (syncGroupAdmins).
AdminLogReplays ==
    \A g \in Groups, u \in Users :
        LET last == adminLog[g][u]
        IN  IF admins[g][u] = Null
              THEN last = Null \/ last.action = "removed"
              ELSE /\ last # Null /\ last.action \in {"added", "updated"}
                   /\ last.standing = admins[g][u]

=============================================================================
