-------------------------- MODULE EntityStoreProofs --------------------------
(***************************************************************************)
(* Proofs about EntityStore, for every set of users, groups, usernames and *)
(* standings and for lists of any length.                                  *)
(***************************************************************************)
EXTENDS EntityStore, SequenceTheorems, FiniteSetTheorems, TLAPS

-----------------------------------------------------------------------------
(* First and last entries *)

\* The least-number principle, from the well-foundedness of finite subsets: the
\* intervals 0 .. n of a set of numbers have one that contains no other.
LEMMA LeastNatural ==
    ASSUME NEW S \in SUBSET Nat, S # {}
    PROVE  \E m \in S : \A k \in S : m <= k
  <1> DEFINE T == {0 .. n : n \in S}
  <1>1. T \subseteq FiniteSubsetsOf(Nat) /\ T # {}
    <2>1. ASSUME NEW n \in S PROVE IsFiniteSet(0 .. n) /\ 0 .. n \in SUBSET Nat
      <3>1. n \in Int /\ 0 \in Int
        OBVIOUS
      <3>2. IsFiniteSet(0 .. n)
        BY <3>1, FS_Interval
      <3> QED
        BY <3>1, <3>2
    <2>2. \A x \in T : IsFiniteSet(x) /\ x \in SUBSET Nat
      BY <2>1
    <2> QED
      BY <2>2 DEF FiniteSubsetsOf
  <1>2. PICK x \in T : \A y \in T : ~(<<y, x>> \in StrictSubsetOrdering(Nat))
    BY <1>1, FS_StrictSubsetOrderingWellFounded, WFMin
  <1>3. PICK m \in S : x = 0 .. m
    OBVIOUS
  <1>4. ASSUME NEW k \in S, ~(m <= k) PROVE FALSE
    <2>1. 0 .. k \in T /\ 0 .. k \subseteq x /\ 0 .. k # x
      BY <1>3, <1>4
    <2>2. <<0 .. k, x>> \in StrictSubsetOrdering(Nat)
      BY <1>3, <2>1 DEF StrictSubsetOrdering
    <2> QED
      BY <1>2, <2>1, <2>2
  <1> QED
    BY <1>4

\* A set of positions that is not empty has a first and a last one.
LEMMA FirstAndLast ==
    ASSUME NEW n \in Nat, NEW S \in SUBSET (1 .. n), S # {}
    PROVE  Min(S) \in S /\ Max(S) \in S
  <1>1. \E m \in S : \A k \in S : m <= k
    BY LeastNatural
  <1>2. \E m \in S : \A k \in S : m >= k
    <2> DEFINE T == {n - i : i \in S}
    <2>1. T \in SUBSET Nat /\ T # {}
      <3>1. \A i \in S : n - i \in Nat
        OBVIOUS
      <3> QED
        BY <3>1
    <2>2. PICK t \in T : \A u \in T : t <= u
      BY <2>1, LeastNatural
    <2>3. PICK m \in S : t = n - m
      OBVIOUS
    <2>4. ASSUME NEW k \in S PROVE m >= k
      <3>1. n - m <= n - k
        BY <2>2, <2>3
      <3> QED
        BY <3>1
    <2> QED
      BY <2>4
  <1>3. Min(S) \in S
    BY <1>1 DEF Min
  <1>4. Max(S) \in S
    BY <1>2 DEF Max
  <1> QED
    BY <1>3, <1>4

\* The only position is the last one.
LEMMA OnlyIsLast == ASSUME NEW i \in Int PROVE Max({i}) = i
  BY DEF Max

-----------------------------------------------------------------------------
(* The lists of usernames *)

Entry == [name : Spellings, kind : Kinds, position : 0 .. MaxList]

Lists(space) == UNION {[1 .. i -> UNION space] : i \in 0 .. MaxList}

\* What syncUsernames is given: entries, among which a plain username occurs once.
IsList(list) ==
    /\ list \in Seq(Entry)
    /\ \A n \in Plain : \A i, j \in DOMAIN list :
          list[i].name = n /\ list[j].name = n => i = j

\* collect() yields one entry per username of the list, in its order.
LEMMA CollectType ==
    ASSUME NEW space \in SUBSET Usernames, NEW s \in Lists(space), NEW kind \in Kinds
    PROVE  /\ s \in Seq(Spellings)
           /\ Collect(s, kind) \in Seq(Entry)
           /\ Len(Collect(s, kind)) = Len(s)
           /\ \A i \in 1 .. Len(s) : Collect(s, kind)[i].name = s[i]
  <1>1. PICK m \in 0 .. MaxList : s \in [1 .. m -> UNION space]
    BY DEF Lists
  <1>2. m \in Nat /\ m <= MaxList
    BY <1>1, BoundsAssumption
  <1>3. UNION space \subseteq Spellings
    BY DEF Spellings
  <1>4. s \in Seq(Spellings) /\ Len(s) = m /\ DOMAIN s = 1 .. m
    BY <1>1, <1>2, <1>3
  <1>5. \A i \in 1 .. m : [name |-> s[i], kind |-> kind, position |-> i - 1] \in Entry
    BY <1>1, <1>2, <1>3, <1>4, BoundsAssumption DEF Entry
  <1>6. Collect(s, kind) = [i \in 1 .. m |-> [name |-> s[i], kind |-> kind, position |-> i - 1]]
    BY <1>4 DEF Collect
  <1> QED
    BY <1>2, <1>4, <1>5, <1>6

\* What Telegram may tell is such a list.
LEMMA ListsAreLists ==
    ASSUME NEW space, space = UserNames \/ space = GroupNames,
           NEW list \in UsernameLists(space)
    PROVE  IsList(list)
  <1>1. space \in SUBSET Usernames
    BY DEF Usernames
  <1>2. PICK x \in [active : Lists(space), disabled : Lists(space),
                    collectible : Lists(space)] :
          /\ list = NewList(x)
          /\ \A i, j \in DOMAIN (x.active \o x.disabled) :
                i # j => \A k \in space :
                    ~({(x.active \o x.disabled)[i], (x.active \o x.disabled)[j]} \subseteq k)
          /\ InList(x.collectible) = Collectible \cap InList(x.active \o x.disabled)
    BY DEF UsernameLists, Lists
  <1> DEFINE a == x.active
             d == x.disabled
             c == x.collectible
             A == Collect(a, "active")
             D == Collect(d, "disabled")
             C == Collect(c, "collectible")
  <1>3. a \in Lists(space) /\ d \in Lists(space) /\ c \in Lists(space)
    OBVIOUS
  <1>4. {"active", "disabled", "collectible"} \subseteq Kinds
    BY DEF Kinds
  <1>5. /\ a \in Seq(Spellings) /\ A \in Seq(Entry) /\ Len(A) = Len(a)
        /\ \A i \in 1 .. Len(a) : A[i].name = a[i]
    BY <1>1, <1>3, <1>4, CollectType
  <1>6. /\ d \in Seq(Spellings) /\ D \in Seq(Entry) /\ Len(D) = Len(d)
        /\ \A i \in 1 .. Len(d) : D[i].name = d[i]
    BY <1>1, <1>3, <1>4, CollectType
  <1>7. /\ c \in Seq(Spellings) /\ C \in Seq(Entry) /\ Len(C) = Len(c)
        /\ \A i \in 1 .. Len(c) : C[i].name = c[i]
    BY <1>1, <1>3, <1>4, CollectType
  <1>8. list = A \o D \o C
    BY <1>2 DEF NewList
  <1>9. /\ \A i, j \in 1 .. Len(a) + Len(d) :
             i # j => \A k \in space : ~({(a \o d)[i], (a \o d)[j]} \subseteq k)
        /\ \A i \in 1 .. Len(c) : c[i] \in Collectible
        /\ \A i \in 1 .. Len(a) + Len(d) : (a \o d)[i] \in UNION space
    <2>1. DOMAIN (a \o d) = 1 .. Len(a) + Len(d) /\ DOMAIN c = 1 .. Len(c)
      BY <1>5, <1>6, <1>7
    <2>2. \A i \in 1 .. Len(a) : a[i] \in UNION space
      BY <1>3 DEF Lists
    <2>3. \A i \in 1 .. Len(d) : d[i] \in UNION space
      BY <1>3 DEF Lists
    <2>4. \A i \in 1 .. Len(c) : c[i] \in Collectible
      BY <1>2, <2>1 DEF InList
    <2>5. \A i \in 1 .. Len(a) + Len(d) : (a \o d)[i] \in UNION space
      BY <1>5, <1>6, <2>2, <2>3
    <2>6. \A i, j \in DOMAIN (a \o d) :
             i # j => \A k \in space : ~({(a \o d)[i], (a \o d)[j]} \subseteq k)
      BY <1>2
    <2> HIDE DEF a, d
    <2>7. \A i, j \in 1 .. Len(a) + Len(d) :
             i # j => \A k \in space : ~({(a \o d)[i], (a \o d)[j]} \subseteq k)
      <3> SUFFICES ASSUME NEW i \in 1 .. Len(a) + Len(d), NEW j \in 1 .. Len(a) + Len(d),
                          i # j, NEW k \in space
                   PROVE  ~({(a \o d)[i], (a \o d)[j]} \subseteq k)
        BY Zenon
      <3>1. i \in DOMAIN (a \o d) /\ j \in DOMAIN (a \o d)
        BY <2>1, Zenon
      <3> QED
        BY <2>6, <3>1
    <2> QED
      BY <2>4, <2>5, <2>7
  <1> HIDE DEF a, d, c, A, D, C
  <1>10. list \in Seq(Entry)
    BY <1>5, <1>6, <1>7, <1>8
  <1>11. ASSUME NEW n \in Plain, NEW i \in 1 .. Len(list), list[i].name = n
         PROVE  i \in 1 .. Len(a) + Len(d) /\ (a \o d)[i] = n
    <2>1. Len(list) = Len(a) + Len(d) + Len(c)
      <3>1. A \o D \in Seq(Entry) /\ Len(A \o D) = Len(A) + Len(D)
        BY <1>5, <1>6, ConcatProperties
      <3>2. Len((A \o D) \o C) = Len(A \o D) + Len(C)
        BY <1>7, <3>1, ConcatProperties
      <3> QED
        BY <1>5, <1>6, <1>7, <1>8, <3>1, <3>2
    <2>2. CASE i <= Len(a)
      <3>1. list[i] = A[i] /\ (a \o d)[i] = a[i]
        BY <1>5, <1>6, <1>7, <1>8, <2>2
      <3> QED
        BY <1>5, <1>6, <1>11, <2>2, <3>1
    <2>3. CASE i > Len(a) /\ i <= Len(a) + Len(d)
      <3>1. list[i] = D[i - Len(a)] /\ (a \o d)[i] = d[i - Len(a)]
        BY <1>5, <1>6, <1>7, <1>8, <2>3
      <3> QED
        BY <1>5, <1>6, <1>11, <2>3, <3>1
    <2>4. CASE i > Len(a) + Len(d)
      <3>1. list[i] = C[i - (Len(a) + Len(d))] /\ i - (Len(a) + Len(d)) \in 1 .. Len(c)
        BY <1>5, <1>6, <1>7, <1>8, <2>1, <2>4
      <3>2. list[i].name \in Collectible
        BY <1>7, <1>9, <3>1
      <3> QED
        BY <1>11, <3>2 DEF Plain
    <2> QED
      BY <1>5, <1>6, <2>2, <2>3, <2>4
  <1>12. ASSUME NEW n \in Plain, NEW i \in 1 .. Len(list), NEW j \in 1 .. Len(list),
                list[i].name = n, list[j].name = n
         PROVE  i = j
    <2>1. /\ i \in 1 .. Len(a) + Len(d) /\ (a \o d)[i] = n
          /\ j \in 1 .. Len(a) + Len(d) /\ (a \o d)[j] = n
      BY <1>11, <1>12
    <2>2. PICK k \in space : n \in k
      BY <1>9, <2>1
    <2> QED
      BY <1>9, <2>1, <2>2
  <1> QED
    BY <1>10, <1>12 DEF IsList

-----------------------------------------------------------------------------
(* Usernames: types and spellings *)

UsernameTypes ==
    /\ names \in [Usernames -> UsernameRow \cup {NoRow}]
    /\ log \in [Entities -> [Spellings -> UsernameEvent \cup {Removed, Null}]]
    /\ logged \subseteq Spellings
    /\ holder \in [Usernames -> Entities \cup {Null}]

\* A row keeps the spelling it was inserted with, one of those of its username.
SpelledIn == \A k \in Usernames : names[k] # NoRow => names[k].spelling \in k

\* Usernames do not share spellings.
LEMMA OneUsername ==
    ASSUME NEW k \in Usernames, NEW l \in Usernames, NEW n, n \in k, n \in l
    PROVE  k = l
  BY NamespaceAssumption

\* The upserts of the listed entries leave a row of o, in one of k's spellings.
LEMMA ClaimedType ==
    ASSUME UsernameTypes, SpelledIn, NEW o \in Entities, NEW list, IsList(list),
           NEW k \in Usernames, Claims(list, k)
    PROVE  /\ Claimed(o, list, k) \in UsernameRow
           /\ Claimed(o, list, k) # NoRow
           /\ Claimed(o, list, k).owner = o
           /\ Claimed(o, list, k).spelling \in k
  <1> DEFINE at == {i \in DOMAIN list : list[i].name \in k}
  <1>1. list \in Seq(Entry) /\ Len(list) \in Nat /\ DOMAIN list = 1 .. Len(list)
    BY DEF IsList
  <1>2. at # {} /\ at \in SUBSET (1 .. Len(list))
    BY <1>1 DEF Claims, NewMap
  <1>3. Min(at) \in at /\ Max(at) \in at
    BY <1>1, <1>2, FirstAndLast
  <1>4. /\ list[Max(at)] \in Entry
        /\ list[Min(at)].name \in k
    BY <1>1, <1>3
  <1> DEFINE sp == IF names[k] = NoRow THEN list[Min(at)].name ELSE names[k].spelling
  <1>5. Claimed(o, list, k) = [spelling |-> sp, owner |-> o, kind |-> list[Max(at)].kind,
                               position |-> list[Max(at)].position]
    BY DEF Claimed
  <1>6. sp \in k /\ sp \in Spellings
    BY <1>4 DEF SpelledIn, Spellings
  <1>7. list[Max(at)].kind \in Kinds /\ list[Max(at)].position \in 0 .. MaxList
    BY <1>4 DEF Entry
  <1> HIDE DEF sp, at
  <1> QED
    BY <1>5, <1>6, <1>7, NoRowAssumption DEF UsernameRow

\* The event of a changed username is well formed.
LEMMA LastPlaceType ==
    ASSUME NEW o \in Entities, NEW list, IsList(list), NEW n \in Changed(o, list)
    PROVE  LastPlace(o, list, n) \in UsernameEvent
  <1> DEFINE at == {i \in DOMAIN list : list[i].name = n /\ IsChange(o, list[i])}
  <1>1. list \in Seq(Entry) /\ Len(list) \in Nat /\ DOMAIN list = 1 .. Len(list)
    BY DEF IsList
  <1>2. at # {} /\ at \in SUBSET (1 .. Len(list))
    BY <1>1 DEF Changed
  <1>3. Max(at) \in at
    BY <1>1, <1>2, FirstAndLast
  <1>4. list[Max(at)] \in Entry
    BY <1>1, <1>3
  <1>5. LastPlace(o, list, n) = [kind |-> list[Max(at)].kind,
                                 position |-> list[Max(at)].position]
    BY DEF LastPlace
  <1> HIDE DEF at
  <1> QED
    BY <1>4, <1>5 DEF Entry, UsernameEvent

\* The listed spellings, the changed ones among them, and the released ones.
LEMMA MapsOf ==
    ASSUME UsernameTypes, NEW o \in Entities, NEW list, IsList(list)
    PROVE  /\ NewMap(list) \subseteq Spellings
           /\ Changed(o, list) \subseteq NewMap(list)
           /\ Released(o, list) \subseteq Spellings
           /\ Released(o, list) \cap NewMap(list) = {}
  <1>1. list \in Seq(Entry) /\ DOMAIN list = 1 .. Len(list)
    BY DEF IsList
  <1>2. NewMap(list) \subseteq Spellings
    <2>1. \A i \in DOMAIN list : list[i] \in Entry
      BY <1>1
    <2>2. \A i \in DOMAIN list : list[i].name \in Spellings
      BY <2>1 DEF Entry
    <2> QED
      BY <2>2 DEF NewMap
  <1>3. Changed(o, list) \subseteq NewMap(list)
    BY DEF Changed, NewMap
  <1>4. Released(o, list) \subseteq Spellings
    BY DEF Released, OldMap, UsernameTypes, UsernameRow
  <1>5. Released(o, list) \cap NewMap(list) = {}
    BY DEF Released
  <1> QED
    BY <1>2, <1>3, <1>4, <1>5

\* A username that o owns and the list does not claim is exactly one of those that
\* are released.
LEMMA ReleasedOwned ==
    ASSUME UsernameTypes, SpelledIn, NEW o \in Entities, NEW list, IsList(list),
           NEW k \in Usernames, ~Claims(list, k)
    PROVE  Released(o, list) \cap k # {} <=> k \in OldMap(o)
  <1>1. ASSUME NEW n, n \in Released(o, list), n \in k PROVE k \in OldMap(o)
    <2>1. PICK l \in OldMap(o) : n = names[l].spelling
      BY <1>1 DEF Released
    <2>2. l \in Usernames /\ n \in l
      BY <2>1 DEF OldMap, SpelledIn
    <2> QED
      BY <1>1, <2>1, <2>2, OneUsername
  <1>2. ASSUME k \in OldMap(o) PROVE names[k].spelling \in Released(o, list) \cap k
    <2>1. names[k].spelling \in k
      BY <1>2 DEF OldMap, SpelledIn
    <2> QED
      BY <1>2, <2>1 DEF Released, Claims
  <1> QED
    BY <1>1, <1>2

\* What syncUsernames does to the row of one username.
LEMMA RowAfter ==
    ASSUME UsernameTypes, SpelledIn, NEW o \in Entities, NEW list, IsList(list),
           SyncUsernames(o, list), NEW k \in Usernames
    PROVE  /\ Claims(list, k) => names'[k] = Claimed(o, list, k) /\ holder'[k] = o
           /\ ~Claims(list, k) /\ k \in OldMap(o) =>
                 names'[k] = [names[k] EXCEPT !.owner = Null]
           /\ ~Claims(list, k) /\ k \notin OldMap(o) => names'[k] = names[k]
           /\ ~Claims(list, k) => holder'[k] = IF holder[k] = o THEN Null ELSE holder[k]
  <1>1. ~Claims(list, k) => (Released(o, list) \cap k # {} <=> k \in OldMap(o))
    BY ReleasedOwned
  <1>2. names'[k] = CASE Claims(list, k) -> Claimed(o, list, k)
                      [] ~Claims(list, k) /\ Released(o, list) \cap k # {} ->
                           [names[k] EXCEPT !.owner = Null]
                      [] OTHER -> names[k]
    BY DEF SyncUsernames, WriteUsernames
  <1>3. holder'[k] = CASE Claims(list, k) -> o
                       [] ~Claims(list, k) /\ holder[k] = o -> Null
                       [] OTHER -> holder[k]
    BY DEF SyncUsernames, Hold
  <1> QED
    BY <1>1, <1>2, <1>3

\* A released row is the old one without its owner.
LEMMA ReleasedRow ==
    ASSUME UsernameTypes, NEW o \in Entities, NEW k \in OldMap(o)
    PROVE  LET r == [names[k] EXCEPT !.owner = Null]
           IN  /\ r \in UsernameRow /\ r # NoRow /\ r # names[k]
               /\ r.owner = Null /\ r.spelling = names[k].spelling
  <1>1. names[k] \in UsernameRow /\ names[k].owner = o
    BY DEF OldMap, UsernameTypes
  <1> QED
    BY <1>1, NoRowAssumption, NullAssumption DEF UsernameRow

\* syncUsernames keeps the types of rows and events.
LEMMA SyncTypes ==
    ASSUME UsernameTypes, SpelledIn, NEW o \in Entities, NEW list, IsList(list),
           SyncUsernames(o, list)
    PROVE  UsernameTypes' /\ SpelledIn'
  <1>1. ASSUME NEW k \in Usernames
        PROVE  /\ names'[k] \in UsernameRow \cup {NoRow}
               /\ names'[k] # NoRow => names'[k].spelling \in k
    <2>1. CASE Claims(list, k)
      <3>1. names'[k] = Claimed(o, list, k)
        <4>1. Claims(list, k) => names'[k] = Claimed(o, list, k) /\ holder'[k] = o
          BY RowAfter
        <4> QED
          BY <2>1, <4>1
      <3>2. /\ Claimed(o, list, k) \in UsernameRow
            /\ Claimed(o, list, k).spelling \in k
        BY <2>1, ClaimedType
      <3> QED
        BY <3>1, <3>2
    <2>2. CASE ~Claims(list, k) /\ k \in OldMap(o)
      <3>1. names'[k] = [names[k] EXCEPT !.owner = Null]
        BY <2>2, RowAfter
      <3>2. names[k] # NoRow
        BY <2>2 DEF OldMap
      <3> QED
        BY <2>2, <3>1, <3>2, ReleasedRow DEF SpelledIn
    <2>3. CASE ~Claims(list, k) /\ k \notin OldMap(o)
      <3>1. names'[k] = names[k]
        BY <2>3, RowAfter
      <3> QED
        BY <3>1 DEF SpelledIn, UsernameTypes
    <2> QED
      BY <2>1, <2>2, <2>3
  <1>2. names' \in [Usernames -> UsernameRow \cup {NoRow}]
    <2>1. names' = [k \in Usernames |-> names'[k]]
      BY DEF SyncUsernames, WriteUsernames
    <2> QED
      BY <1>1, <2>1
  <1>3. /\ Changed(o, list) \subseteq Spellings /\ Released(o, list) \subseteq Spellings
        /\ Changed(o, list) \cap Released(o, list) = {}
    BY MapsOf
  <1>4. log' \in [Entities -> [Spellings -> UsernameEvent \cup {Removed, Null}]]
    <2> DEFINE new == [n \in Spellings |->
                         CASE n \in Changed(o, list) -> LastPlace(o, list, n)
                           [] n \in Released(o, list) -> Removed
                           [] OTHER -> log[o][n]]
    <2>1. log' = [log EXCEPT ![o] = new]
      BY DEF SyncUsernames, RecordUsernameEvents
    <2>2. \A n \in Spellings : log[o][n] \in UsernameEvent \cup {Removed, Null}
      BY DEF UsernameTypes
    <2>3. \A n \in Changed(o, list) : LastPlace(o, list, n) \in UsernameEvent
      BY LastPlaceType
    <2>4. new \in [Spellings -> UsernameEvent \cup {Removed, Null}]
      BY <1>3, <2>2, <2>3
    <2> HIDE DEF new
    <2> QED
      BY <2>1, <2>4 DEF UsernameTypes
  <1>5. logged' \subseteq Spellings
    BY <1>3 DEF SyncUsernames, RecordUsernameEvents
  <1>6. holder' \in [Usernames -> Entities \cup {Null}]
    <2>1. holder' = [k \in Usernames |-> CASE Claims(list, k) -> o
                                           [] ~Claims(list, k) /\ holder[k] = o -> Null
                                           [] OTHER -> holder[k]]
      BY DEF SyncUsernames, Hold
    <2>2. \A k \in Usernames : holder[k] \in Entities \cup {Null}
      BY DEF UsernameTypes
    <2> QED
      BY <2>1, <2>2
  <1> QED
    BY <1>1, <1>2, <1>4, <1>5, <1>6 DEF UsernameTypes, SpelledIn

-----------------------------------------------------------------------------
(* Usernames: owners and events *)

\* A list settles who has the usernames it claims and those it leaves out.
LEMMA SyncOwner ==
    ASSUME UsernameTypes, SpelledIn, OwnerIsLastTold, NEW o \in Entities,
           NEW list, IsList(list), SyncUsernames(o, list)
    PROVE  OwnerIsLastTold'
  <1> SUFFICES ASSUME NEW k \in Usernames
               PROVE  IF names'[k] = NoRow THEN holder'[k] = Null
                                           ELSE names'[k].owner = holder'[k]
    BY DEF OwnerIsLastTold
  <1>1. IF names[k] = NoRow THEN holder[k] = Null ELSE names[k].owner = holder[k]
    BY DEF OwnerIsLastTold
  <1>2. o # Null
    BY NullAssumption
  <1>3. CASE Claims(list, k)
    <2>1. Claims(list, k) => names'[k] = Claimed(o, list, k) /\ holder'[k] = o
      BY RowAfter
    <2>2. Claimed(o, list, k) # NoRow /\ Claimed(o, list, k).owner = o
      BY <1>3, ClaimedType
    <2> QED
      BY <1>3, <2>1, <2>2
  <1>4. CASE ~Claims(list, k)
    <2>1. holder'[k] = IF holder[k] = o THEN Null ELSE holder[k]
      BY <1>4, RowAfter
    <2>2. k \in OldMap(o) <=> holder[k] = o
      BY <1>1, <1>2 DEF OldMap
    <2>3. CASE k \in OldMap(o)
      <3>1. names'[k] = [names[k] EXCEPT !.owner = Null]
        BY <1>4, <2>3, RowAfter
      <3>2. names'[k] # NoRow /\ names'[k].owner = Null
        BY <2>3, <3>1, ReleasedRow
      <3> QED
        BY <2>1, <2>2, <2>3, <3>2
    <2>4. CASE k \notin OldMap(o)
      <3>1. names'[k] = names[k]
        BY <1>4, <2>4, RowAfter
      <3> QED
        BY <1>1, <2>1, <2>2, <2>4, <3>1
    <2> QED
      BY <2>3, <2>4
  <1> QED
    BY <1>3, <1>4

\* What o's row of a plain username says to the diff.
LEMMA PlainOld ==
    ASSUME UsernameTypes, SpelledIn, NEW o \in Entities, NEW list, IsList(list),
           NEW n \in Plain
    PROVE  /\ {n} \in Usernames /\ n \in Spellings
           /\ Claims(list, {n}) <=> n \in NewMap(list)
           /\ names[{n}] # NoRow => names[{n}].spelling = n
           /\ {n} \in OldMap(o) => OldEntry(o, n) = {names[{n}]}
           /\ {n} \notin OldMap(o) => OldEntry(o, n) = {}
           /\ n \in Released(o, list) <=> {n} \in OldMap(o) /\ ~Claims(list, {n})
  <1>1. {n} \in Usernames /\ n \in Spellings
    BY DEF Plain
  <1>2. Claims(list, {n}) <=> n \in NewMap(list)
    BY DEF Claims
  <1>3. names[{n}] # NoRow => names[{n}].spelling = n
    BY <1>1 DEF SpelledIn
  <1>4. ASSUME NEW l \in OldMap(o) PROVE names[l].spelling = n <=> l = {n}
    <2>1. l \in Usernames /\ names[l].spelling \in l /\ names[l] # NoRow
      BY <1>4 DEF OldMap, SpelledIn
    <2>2. ASSUME names[l].spelling = n PROVE l = {n}
      <3>1. n \in l /\ n \in {n}
        BY <2>1, <2>2
      <3> QED
        BY <1>1, <2>1, <3>1, OneUsername
    <2> QED
      BY <1>3, <2>1, <2>2
  <1>5. {n} \in OldMap(o) => OldEntry(o, n) = {names[{n}]}
    BY <1>4 DEF OldEntry
  <1>6. {n} \notin OldMap(o) => OldEntry(o, n) = {}
    BY <1>4 DEF OldEntry
  <1>7. n \in Released(o, list) <=> {n} \in OldMap(o) /\ ~Claims(list, {n})
    BY <1>2, <1>4 DEF Released
  <1> QED
    BY <1>1, <1>2, <1>3, <1>5, <1>6, <1>7

Same(r, e) == r.kind = e.kind /\ r.position = e.position

BecomesRow(o, list, n, e) ==
    /\ Claimed(o, list, {n}) = [spelling |-> n, owner |-> o, kind |-> e.kind,
                                position |-> e.position]
    /\ n \in Changed(o, list) <=> ~({n} \in OldMap(o) /\ Same(names[{n}], e))
    /\ n \in Changed(o, list) =>
          LastPlace(o, list, n) = [kind |-> e.kind, position |-> e.position]

\* A plain username that the list claims has one entry e, which becomes its row; it
\* is an event, with the place of e, unless o's row has that place already.
LEMMA PlainClaimed ==
    ASSUME UsernameTypes, SpelledIn, NEW o \in Entities, NEW list, IsList(list),
           NEW n \in Plain, Claims(list, {n})
    PROVE  \E e \in Entry : BecomesRow(o, list, n, e)
  <1>1. list \in Seq(Entry) /\ Len(list) \in Nat /\ DOMAIN list = 1 .. Len(list)
    BY DEF IsList
  <1>2. PICK i \in DOMAIN list : list[i].name = n
    <2>1. n \in NewMap(list)
      BY PlainOld
    <2> QED
      BY <2>1 DEF NewMap
  <1>3. list[i] \in Entry /\ i \in Int
    BY <1>1, <1>2
  <1>4. \A j \in DOMAIN list : list[j].name = n => j = i
    BY <1>2 DEF IsList
  <1>5. {j \in DOMAIN list : list[j].name \in {n}} = {i}
    BY <1>2, <1>4
  <1>6. Max({i}) = i /\ Min({i}) = i
    BY <1>3, OnlyIsLast DEF Min
  <1>7. Claimed(o, list, {n}) = [spelling |-> n, owner |-> o, kind |-> list[i].kind,
                                 position |-> list[i].position]
    <2>1. Claimed(o, list, {n}) =
            [spelling |-> IF names[{n}] = NoRow THEN list[i].name ELSE names[{n}].spelling,
             owner |-> o, kind |-> list[i].kind, position |-> list[i].position]
      BY <1>5, <1>6 DEF Claimed
    <2>2. (IF names[{n}] = NoRow THEN list[i].name ELSE names[{n}].spelling) = n
      BY <1>2, PlainOld
    <2> QED
      BY <2>1, <2>2
  <1>8. n \in Changed(o, list) <=> IsChange(o, list[i])
    BY <1>2, <1>4 DEF Changed
  <1>9. IsChange(o, list[i]) <=> ~({n} \in OldMap(o) /\ Same(names[{n}], list[i]))
    <2>1. CASE {n} \in OldMap(o)
      <3>1. OldEntry(o, list[i].name) = {names[{n}]}
        BY <1>2, <2>1, PlainOld
      <3> QED
        BY <2>1, <3>1 DEF IsChange, Same
    <2>2. CASE {n} \notin OldMap(o)
      <3>1. OldEntry(o, list[i].name) = {}
        BY <1>2, <2>2, PlainOld
      <3> QED
        BY <2>2, <3>1 DEF IsChange
    <2> QED
      BY <2>1, <2>2
  <1>10. ASSUME n \in Changed(o, list)
         PROVE  LastPlace(o, list, n) = [kind |-> list[i].kind, position |-> list[i].position]
    <2>1. {j \in DOMAIN list : list[j].name = n /\ IsChange(o, list[j])} = {i}
      BY <1>2, <1>4, <1>8, <1>10
    <2> QED
      BY <1>6, <2>1 DEF LastPlace
  <1> QED
    BY <1>3, <1>7, <1>8, <1>9, <1>10 DEF BecomesRow

\* What syncUsernames does to a plain username: it is claimed with a new place, or
\* with the place it has, or released, or left alone.
LEMMA PlainStep ==
    ASSUME UsernameTypes, SpelledIn, NEW o \in Entities, NEW list, IsList(list),
           SyncUsernames(o, list), NEW n \in Plain
    PROVE  /\ \/ \E e \in Entry :
                    /\ ~({n} \in OldMap(o) /\ Same(names[{n}], e))
                    /\ names'[{n}] = [spelling |-> n, owner |-> o, kind |-> e.kind,
                                      position |-> e.position]
                    /\ log'[o][n] = [kind |-> e.kind, position |-> e.position]
                    /\ n \in logged'
              \/ /\ {n} \in OldMap(o)
                 /\ names'[{n}] = [names[{n}] EXCEPT !.owner = Null]
                 /\ log'[o][n] = Removed
                 /\ n \in logged'
              \/ /\ names'[{n}] = names[{n}]
                 /\ log'[o][n] = log[o][n]
                 /\ n \notin logged'
           /\ \A p \in Entities : p # o => log'[p] = log[p]
  <1>1. {n} \in Usernames /\ n \in Spellings
    BY PlainOld
  <1>2. /\ Changed(o, list) \subseteq NewMap(list)
        /\ Released(o, list) \cap NewMap(list) = {}
    BY MapsOf
  <1>3. /\ n \in Changed(o, list) => log'[o][n] = LastPlace(o, list, n)
        /\ n \in Released(o, list) => log'[o][n] = Removed
        /\ n \notin Changed(o, list) \cup Released(o, list) => log'[o][n] = log[o][n]
        /\ \A p \in Entities : p # o => log'[p] = log[p]
        /\ logged' = Changed(o, list) \cup Released(o, list)
    <2> DEFINE new == [m \in Spellings |->
                         CASE m \in Changed(o, list) -> LastPlace(o, list, m)
                           [] m \in Released(o, list) -> Removed
                           [] OTHER -> log[o][m]]
    <2>1. log' = [log EXCEPT ![o] = new] /\ logged' = Changed(o, list) \cup Released(o, list)
      BY DEF SyncUsernames, RecordUsernameEvents
    <2>2. /\ n \in Changed(o, list) => new[n] = LastPlace(o, list, n)
          /\ n \in Released(o, list) => new[n] = Removed
          /\ n \notin Changed(o, list) \cup Released(o, list) => new[n] = log[o][n]
      BY <1>1, <1>2
    <2> HIDE DEF new
    <2>3. log'[o] = new /\ \A p \in Entities : p # o => log'[p] = log[p]
      BY <2>1 DEF UsernameTypes
    <2> QED
      BY <2>1, <2>2, <2>3
  <1>4. CASE Claims(list, {n})
    <2>1. PICK e \in Entry : BecomesRow(o, list, n, e)
      BY <1>4, PlainClaimed
    <2> USE DEF BecomesRow
    <2>2. Claims(list, {n}) => names'[{n}] = Claimed(o, list, {n}) /\ holder'[{n}] = o
      BY <1>1, RowAfter
    <2>3. n \notin Released(o, list)
      BY <1>4, PlainOld
    <2>4. CASE n \in Changed(o, list)
      BY <1>3, <1>4, <2>1, <2>2, <2>4
    <2>5. CASE n \notin Changed(o, list)
      <3>1. names[{n}] \in UsernameRow /\ names[{n}].owner = o /\ names[{n}].spelling = n
        BY <1>1, <2>1, <2>5, PlainOld DEF OldMap, UsernameTypes
      <3>2. names[{n}].kind = e.kind /\ names[{n}].position = e.position
        BY <2>1, <2>5 DEF Same
      <3>3. names[{n}] = [spelling |-> n, owner |-> o, kind |-> e.kind, position |-> e.position]
        BY <3>1, <3>2 DEF UsernameRow
      <3>4. names'[{n}] = names[{n}]
        BY <1>4, <2>1, <2>2, <3>3
      <3> QED
        BY <1>3, <2>3, <2>5, <3>4
    <2> QED
      BY <2>4, <2>5
  <1>5. CASE ~Claims(list, {n}) /\ {n} \in OldMap(o)
    <2>1. names'[{n}] = [names[{n}] EXCEPT !.owner = Null]
      BY <1>1, <1>5, RowAfter
    <2>2. n \in Released(o, list)
      BY <1>5, PlainOld
    <2> QED
      BY <1>3, <1>5, <2>1, <2>2
  <1>6. CASE ~Claims(list, {n}) /\ {n} \notin OldMap(o)
    <2>1. names'[{n}] = names[{n}]
      BY <1>1, <1>6, RowAfter
    <2>2. n \notin Released(o, list) /\ n \notin Changed(o, list)
      BY <1>2, <1>6, PlainOld
    <2> QED
      BY <1>3, <2>1, <2>2
  <1> QED
    BY <1>4, <1>5, <1>6

\* The last event of every entity still says what the row says.
LEMMA SyncLog ==
    ASSUME UsernameTypes, SpelledIn, LogReplays, NEW o \in Entities,
           NEW list, IsList(list), SyncUsernames(o, list)
    PROVE  LogReplays'
  <1>1. ASSUME NEW n \in Plain, NEW p \in Entities
        PROVE  IF log'[p][n] \in {Null, Removed}
                 THEN ~({n} \in OldMap(p)')
                 ELSE {n} \in OldMap(p)' => /\ log'[p][n].kind = names'[{n}].kind
                                            /\ log'[p][n].position = names'[{n}].position
    <2> DEFINE Agrees ==
                 IF log'[p][n] \in {Null, Removed}
                   THEN ~({n} \in OldMap(p)')
                   ELSE {n} \in OldMap(p)' => /\ log'[p][n].kind = names'[{n}].kind
                                              /\ log'[p][n].position = names'[{n}].position
    <2> SUFFICES Agrees
      OBVIOUS
    <2>1. IF log[p][n] \in {Null, Removed}
            THEN ~({n} \in OldMap(p))
            ELSE {n} \in OldMap(p) => /\ log[p][n].kind = names[{n}].kind
                                      /\ log[p][n].position = names[{n}].position
      BY DEF LogReplays
    <2>2. {n} \in Usernames
      BY DEF Plain
    <2>3. /\ {n} \in OldMap(p) <=> names[{n}] # NoRow /\ names[{n}].owner = p
          /\ {n} \in OldMap(p)' <=> names'[{n}] # NoRow /\ names'[{n}].owner = p
      BY <2>2 DEF OldMap
    <2>4. p # Null
      BY NullAssumption
    <2>5. p # o => log'[p] = log[p]
      BY PlainStep
    <2>6. ASSUME NEW e \in Entry,
                 names'[{n}] = [spelling |-> n, owner |-> o, kind |-> e.kind,
                                position |-> e.position],
                 log'[o][n] = [kind |-> e.kind, position |-> e.position]
          PROVE  Agrees
      <3>1. names'[{n}].owner = o /\ names'[{n}].kind = e.kind
               /\ names'[{n}].position = e.position
        BY <2>6
      <3>2. p # o => {n} \notin OldMap(p)'
        BY <2>3, <3>1
      <3>3. [kind |-> e.kind, position |-> e.position] \in UsernameEvent
        BY DEF Entry, UsernameEvent
      <3>4. log'[o][n] \notin {Null, Removed} /\ log'[o][n].kind = e.kind
               /\ log'[o][n].position = e.position
        BY <2>6, <3>3, NoEventAssumption
      <3> QED
        BY <3>1, <3>2, <3>4
    <2>7. ASSUME {n} \in OldMap(o), names'[{n}] = [names[{n}] EXCEPT !.owner = Null]
          PROVE  Agrees
      BY <2>3, <2>4, <2>7, ReleasedRow
    <2>8. ASSUME names'[{n}] = names[{n}], log'[o][n] = log[o][n]
          PROVE  Agrees
      <3>1. log'[p][n] = log[p][n]
        BY <2>5, <2>8
      <3> QED
        BY <2>1, <2>3, <2>8, <3>1
    <2>9. \/ \E e \in Entry :
                /\ names'[{n}] = [spelling |-> n, owner |-> o, kind |-> e.kind,
                                  position |-> e.position]
                /\ log'[o][n] = [kind |-> e.kind, position |-> e.position]
          \/ {n} \in OldMap(o) /\ names'[{n}] = [names[{n}] EXCEPT !.owner = Null]
          \/ names'[{n}] = names[{n}] /\ log'[o][n] = log[o][n]
      BY PlainStep
    <2> HIDE DEF Agrees
    <2> QED
      BY <2>6, <2>7, <2>8, <2>9
  <1>2. ASSUME NEW n \in Plain, names'[{n}] # NoRow, names'[{n}].owner = Null
        PROVE  \E p \in Entities : log'[p][n] = Removed
    <2>1. o # Null
      BY NullAssumption
    <2>2. \A p \in Entities : p # o => log'[p] = log[p]
      BY PlainStep
    <2>3. ASSUME NEW e \in Entry,
                 names'[{n}] = [spelling |-> n, owner |-> o, kind |-> e.kind,
                                position |-> e.position]
          PROVE  FALSE
      BY <1>2, <2>1, <2>3
    <2>4. ASSUME names'[{n}] = names[{n}], log'[o][n] = log[o][n]
          PROVE  \E p \in Entities : log'[p][n] = Removed
      <3>1. PICK p \in Entities : log[p][n] = Removed
        BY <1>2, <2>4 DEF LogReplays
      <3> QED
        BY <2>2, <2>4, <3>1
    <2> QED
      BY <2>3, <2>4, PlainStep
  <1> QED
    BY <1>1, <1>2 DEF LogReplays

\* A plain username has an event exactly when its row changes.
LEMMA SyncRecords ==
    ASSUME UsernameTypes, SpelledIn, NEW o \in Entities,
           NEW list, IsList(list), SyncUsernames(o, list), NEW n \in Plain
    PROVE  n \in logged' <=> names'[{n}] # names[{n}]
  <1>1. {n} \in Usernames
    BY DEF Plain
  <1>2. ASSUME NEW e \in Entry,
               ~({n} \in OldMap(o) /\ Same(names[{n}], e)),
               names'[{n}] = [spelling |-> n, owner |-> o, kind |-> e.kind,
                              position |-> e.position]
        PROVE  names'[{n}] # names[{n}]
    <2> SUFFICES ASSUME names'[{n}] = names[{n}] PROVE FALSE
      OBVIOUS
    <2>1. /\ names[{n}].owner = o /\ names[{n}].kind = e.kind
          /\ names[{n}].position = e.position
      BY <1>2
    <2>2. e.kind \in Kinds /\ e.position \in 0 .. MaxList /\ n \in Spellings
      BY DEF Entry, Plain
    <2>3. names[{n}] \in UsernameRow
      BY <1>2, <2>2 DEF UsernameRow
    <2> QED
      BY <1>1, <1>2, <2>1, <2>3, NoRowAssumption DEF OldMap, Same
  <1>3. ASSUME {n} \in OldMap(o), names'[{n}] = [names[{n}] EXCEPT !.owner = Null]
        PROVE  names'[{n}] # names[{n}]
    BY <1>3, ReleasedRow
  <1> QED
    BY <1>2, <1>3, PlainStep

-----------------------------------------------------------------------------
(* The histories of the columns *)

ProfileTypes ==
    /\ row = [o \in Entities |-> row[o]]
    /\ hist = [o \in Entities |-> hist[o]]
    /\ seen = [o \in Entities |-> seen[o]]
    /\ \A o \in Entities : row[o] \in [Columns(o) -> Value] \cup {NoRow}
    /\ \A o \in Entities : hist[o] \in [Columns(o) -> Seq(Value)]
    /\ \A o \in Entities : seen[o] \in [Columns(o) -> Seq(Value)]

\* Nothing was seen of an entity without a row; one with a row has a value in every
\* column, but perhaps no photo yet.
SeenFromRow(o) ==
    /\ ~HasRow(o) => \A c \in Columns(o) : seen[o][c] = <<>>
    /\ HasRow(o) => /\ \A c \in Columns(o) \ {"photo"} : seen[o][c] # <<>>
                    /\ row[o]["photo"] = Null <=> seen[o]["photo"] = <<>>

\* The history h of a column that went through s and now holds r.
Past(first, s, h, r) ==
    IF s = <<>>
      THEN h = <<>>
      ELSE /\ r = s[Len(s)]
           /\ h = IF first THEN <<s[1]>> \o SubSeq(s, 1, Len(s) - 1)
                           ELSE SubSeq(s, 1, Len(s) - 1)

PastOf(o) == \A c \in Columns(o) :
                Past(c \in FirstIsRecorded(o), seen[o][c], hist[o][c], row[o][c])

\* PastIsRecorded, entity by entity.
LEMMA PastForm == PastIsRecorded <=> \A o \in Entities : PastOf(o)
  BY DEF PastIsRecorded, PastOf, Past

\* The first value of a column, recorded at once or not.
LEMMA PastFirst ==
    ASSUME NEW v \in Value
    PROVE  Past(TRUE, <<v>>, <<v>>, v) /\ Past(FALSE, <<v>>, <<>>, v)
  <1>1. SubSeq(<<v>>, 1, 0) = <<>>
    OBVIOUS
  <1>2. <<v>> # <<>> /\ Len(<<v>>) = 1 /\ <<v>>[1] = v /\ <<v>> \o <<>> = <<v>>
    OBVIOUS
  <1> QED
    BY <1>1, <1>2 DEF Past

\* A value is replaced: it goes to the history, and the new one is seen.
LEMMA PastReplaced ==
    ASSUME NEW first \in BOOLEAN, NEW s \in Seq(Value), s # <<>>, NEW h, NEW r,
           Past(first, s, h, r), NEW v \in Value
    PROVE  Past(first, Append(s, v), Append(h, r), v)
  <1> DEFINE past == SubSeq(s, 1, Len(s) - 1)
             t == Append(s, v)
  <1>1. Len(s) \in Nat \ {0} /\ s[1] \in Value
    OBVIOUS
  <1>2. /\ t \in Seq(Value) /\ t # <<>> /\ Len(t) = Len(s) + 1
        /\ t[Len(t)] = v /\ t[1] = s[1]
    BY <1>1
  <1>3. SubSeq(t, 1, Len(t) - 1) = s
    BY <1>1, <1>2
  <1>4. past \in Seq(Value) /\ Append(past, s[Len(s)]) = s
    BY <1>1
  <1>5. r = s[Len(s)] /\ h = IF first THEN <<s[1]>> \o past ELSE past
    BY DEF Past
  <1>6. <<s[1]>> \o Append(past, r) = Append(<<s[1]>> \o past, r)
    BY <1>1, <1>4, <1>5
  <1>7. Append(h, r) = IF first THEN <<s[1]>> \o s ELSE s
    BY <1>4, <1>5, <1>6
  <1> HIDE DEF t, past
  <1>8. Past(first, t, Append(h, r), v)
    BY <1>2, <1>3, <1>7 DEF Past
  <1> QED
    BY <1>8 DEF t

\* Telling a column of an entity with a row the value v.
LEMMA ColumnStep ==
    ASSUME ProfileTypes, NEW o \in Entities, HasRow(o), PastOf(o),
           NEW c \in Columns(o), seen[o][c] # <<>>, NEW v \in Value
    PROVE  /\ Past(c \in FirstIsRecorded(o), Seen(o, c, v),
                   IF row[o][c] # v THEN Append(hist[o][c], row[o][c]) ELSE hist[o][c], v)
           /\ Seen(o, c, v) \in Seq(Value) /\ Seen(o, c, v) # <<>>
  <1> DEFINE s == seen[o][c]
             h == hist[o][c]
             r == row[o][c]
             first == c \in FirstIsRecorded(o)
  <1>1. s \in Seq(Value) /\ s # <<>> /\ first \in BOOLEAN /\ Past(first, s, h, r)
    BY DEF ProfileTypes, PastOf
  <1>2. r = s[Len(s)]
    BY <1>1 DEF Past
  <1>3. Seen(o, c, v) = IF s[Len(s)] = v THEN s ELSE Append(s, v)
    BY <1>1 DEF Seen
  <1> HIDE DEF s, h, r, first
  <1>4. CASE r = v
    <2>1. Seen(o, c, v) = s
      BY <1>2, <1>3, <1>4
    <2>2. Past(first, Seen(o, c, v), IF r # v THEN Append(h, r) ELSE h, v)
      BY <1>1, <1>4, <2>1
    <2> QED
      BY <1>1, <2>1, <2>2 DEF s, h, r, first
  <1>5. CASE r # v
    <2>1. Seen(o, c, v) = Append(s, v)
      BY <1>2, <1>3, <1>5
    <2>2. Past(first, Append(s, v), Append(h, r), v)
      BY <1>1, PastReplaced
    <2>3. Past(first, Seen(o, c, v), IF r # v THEN Append(h, r) ELSE h, v)
      BY <1>5, <2>1, <2>2
    <2>4. Seen(o, c, v) \in Seq(Value) /\ Seen(o, c, v) # <<>>
      BY <1>1, <2>1
    <2> QED
      BY <2>3, <2>4 DEF s, h, r, first
  <1> QED
    BY <1>4, <1>5

Profile == /\ ProfileTypes
           /\ \A o \in Entities : SeenFromRow(o)
           /\ \A o \in Entities : PastOf(o)

\* The columns, histories and past of o become R, H and S, those of the others stay.
LEMMA ProfileFrame ==
    ASSUME Profile, NEW o \in Entities,
           NEW R \in [Columns(o) -> Value],
           NEW H \in [Columns(o) -> Seq(Value)],
           NEW S \in [Columns(o) -> Seq(Value)],
           row' = [row EXCEPT ![o] = R],
           hist' = [hist EXCEPT ![o] = H],
           seen' = [seen EXCEPT ![o] = S],
           \A c \in Columns(o) : Past(c \in FirstIsRecorded(o), S[c], H[c], R[c]),
           \A c \in Columns(o) \ {"photo"} : S[c] # <<>>,
           R["photo"] = Null <=> S["photo"] = <<>>
    PROVE  Profile'
  <1>1. /\ row'[o] = R /\ hist'[o] = H /\ seen'[o] = S
        /\ \A p \in Entities : p # o => row'[p] = row[p] /\ hist'[p] = hist[p] /\ seen'[p] = seen[p]
        /\ row' = [p \in Entities |-> row'[p]] /\ hist' = [p \in Entities |-> hist'[p]]
        /\ seen' = [p \in Entities |-> seen'[p]]
    BY DEF Profile, ProfileTypes
  <1>2. ProfileTypes'
    BY <1>1 DEF Profile, ProfileTypes
  <1>3. ASSUME NEW p \in Entities PROVE SeenFromRow(p)' /\ PastOf(p)'
    <2>1. CASE p = o
      <3>1. R # NoRow
        BY NoRowAssumption
      <3>2. SeenFromRow(o)'
        BY <1>1, <3>1 DEF SeenFromRow, HasRow
      <3>3. PastOf(o)'
        BY <1>1 DEF PastOf
      <3> QED
        BY <2>1, <3>2, <3>3
    <2>2. CASE p # o
      <3>1. row'[p] = row[p] /\ hist'[p] = hist[p] /\ seen'[p] = seen[p]
        BY <1>1, <2>2
      <3>2. SeenFromRow(p) /\ PastOf(p)
        BY DEF Profile
      <3> QED
        BY <3>1, <3>2 DEF SeenFromRow, HasRow, PastOf
    <2> QED
      BY <2>1, <2>2
  <1> QED
    BY <1>2, <1>3 DEF Profile

\* The columns of users and of groups.
LEMMA ColumnFacts ==
    ASSUME NEW o \in Entities
    PROVE  /\ "photo" \in Columns(o) /\ Main(o) \subseteq Columns(o)
           /\ Columns(o) \subseteq Main(o) \cup {"bio", "photo"}
           /\ "bio" \notin Main(o) /\ "photo" \notin Main(o)
           /\ Main(o) \subseteq FirstIsRecorded(o) /\ "photo" \in FirstIsRecorded(o)
           /\ "bio" \notin FirstIsRecorded(o)
           /\ o \in Users => "bio" \in Columns(o)
  BY DEF Columns, Main, FirstIsRecorded

\* upsertUser, upsertGroup: the main columns.
LEMMA UpsertProfile ==
    ASSUME Profile, NEW o \in Entities, NEW x \in [Main(o) -> Values], UpsertRow(o, x)
    PROVE  Profile'
  <1> DEFINE old == IF HasRow(o) THEN row[o] ELSE NewRow(o)
             R == [c \in Columns(o) |-> IF c \in Main(o) THEN x[c] ELSE old[c]]
             H == [c \in Columns(o) |-> IF c \in Main(o) THEN Recorded(o, c, x[c])
                                                         ELSE hist[o][c]]
             S == [c \in Columns(o) |->
                     CASE c \in Main(o) -> Seen(o, c, x[c])
                       [] c = "bio" /\ ~HasRow(o) -> <<Empty>>
                       [] OTHER -> seen[o][c]]
  <1>1. /\ row' = [row EXCEPT ![o] = R] /\ hist' = [hist EXCEPT ![o] = H]
        /\ seen' = [seen EXCEPT ![o] = S]
    BY DEF UpsertRow
  <1>2. Values \subseteq Value /\ Empty \in Value /\ Null \in Value
    BY ValuesAssumption DEF Value
  <1>3. /\ hist[o] \in [Columns(o) -> Seq(Value)] /\ seen[o] \in [Columns(o) -> Seq(Value)]
        /\ SeenFromRow(o) /\ PastOf(o) /\ ProfileTypes
    BY DEF Profile, ProfileTypes
  <1>4. HasRow(o) => row[o] \in [Columns(o) -> Value]
    BY DEF Profile, ProfileTypes, HasRow
  <1>5. ASSUME NEW c \in Main(o)
        PROVE  /\ R[c] = x[c] /\ x[c] \in Value /\ H[c] = Recorded(o, c, x[c])
               /\ S[c] = Seen(o, c, x[c]) /\ c \in Columns(o)
    BY <1>2, ColumnFacts
  <1>6. ASSUME NEW c \in Columns(o) \ Main(o)
        PROVE  /\ R[c] = old[c] /\ H[c] = hist[o][c]
               /\ S[c] = IF c = "bio" /\ ~HasRow(o) THEN <<Empty>> ELSE seen[o][c]
    OBVIOUS
  <1>7. CASE ~HasRow(o)
    <2>1. \A c \in Columns(o) : seen[o][c] = <<>> /\ hist[o][c] = <<>>
      BY <1>3, <1>7 DEF SeenFromRow, PastOf, Past
    <2>2. ASSUME NEW c \in Main(o)
          PROVE  R[c] = x[c] /\ x[c] \in Value /\ H[c] = <<x[c]>> /\ S[c] = <<x[c]>>
      <3>1. Recorded(o, c, x[c]) = Append(<<>>, x[c]) /\ Seen(o, c, x[c]) = Append(<<>>, x[c])
        BY <1>5, <1>7, <2>1 DEF Recorded, Seen
      <3> QED
        BY <1>5, <3>1
    <2>3. /\ R["photo"] = Null /\ H["photo"] = <<>> /\ S["photo"] = <<>>
      BY <1>6, <1>7, <2>1, ColumnFacts DEF NewRow
    <2>4. "bio" \in Columns(o) =>
            R["bio"] = Empty /\ H["bio"] = <<>> /\ S["bio"] = <<Empty>>
      BY <1>6, <1>7, <2>1, ColumnFacts DEF NewRow
    <2> HIDE DEF R, H, S
    <2>5. \A c \in Columns(o) : c \in Main(o) \/ c = "bio" \/ c = "photo"
      BY ColumnFacts
    <2>6. \A c \in Columns(o) : R[c] \in Value /\ H[c] \in Seq(Value) /\ S[c] \in Seq(Value)
      <3> SUFFICES ASSUME NEW c \in Columns(o)
                   PROVE  R[c] \in Value /\ H[c] \in Seq(Value) /\ S[c] \in Seq(Value)
        OBVIOUS
      <3>1. CASE c \in Main(o)
        <4>1. R[c] = x[c] /\ x[c] \in Value /\ H[c] = <<x[c]>> /\ S[c] = <<x[c]>>
          BY <2>2, <3>1
        <4> QED
          BY <4>1
      <3>2. CASE c = "bio"
        <4>1. R[c] = Empty /\ H[c] = <<>> /\ S[c] = <<Empty>>
          BY <2>4, <3>2
        <4> QED
          BY <1>2, <4>1
      <3>3. CASE c = "photo"
        <4>1. R[c] = Null /\ H[c] = <<>> /\ S[c] = <<>>
          BY <2>3, <3>3
        <4> QED
          BY <1>2, <4>1
      <3> QED
        BY <2>5, <3>1, <3>2, <3>3
    <2>7. ASSUME NEW c \in Columns(o)
          PROVE  Past(c \in FirstIsRecorded(o), S[c], H[c], R[c])
      <3>1. CASE c \in Main(o)
        <4>1. Past(TRUE, <<x[c]>>, <<x[c]>>, x[c]) /\ c \in FirstIsRecorded(o)
          BY <2>2, <3>1, PastFirst, ColumnFacts
        <4> QED
          BY <2>2, <3>1, <4>1
      <3>2. CASE c = "bio"
        <4>1. Past(FALSE, <<Empty>>, <<>>, Empty)
          BY <1>2, PastFirst
        <4>2. (c \in FirstIsRecorded(o)) = FALSE
          BY <3>2, ColumnFacts
        <4>3. R[c] = Empty /\ H[c] = <<>> /\ S[c] = <<Empty>>
          BY <2>4, <3>2
        <4> QED
          BY <4>1, <4>2, <4>3
      <3>3. CASE c = "photo"
        BY <2>3, <3>3 DEF Past
      <3> QED
        BY <2>5, <3>1, <3>2, <3>3
    <2>8. \A c \in Columns(o) \ {"photo"} : S[c] # <<>>
      BY <2>2, <2>4, <2>5
    <2>9. R["photo"] = Null <=> S["photo"] = <<>>
      BY <2>3
    <2>10. /\ R \in [Columns(o) -> Value] /\ H \in [Columns(o) -> Seq(Value)]
           /\ S \in [Columns(o) -> Seq(Value)]
      BY <2>6 DEF R, H, S
    <2> QED
      BY <1>1, <2>7, <2>8, <2>9, <2>10, ProfileFrame
  <1>8. CASE HasRow(o)
    <2>1. ASSUME NEW c \in Main(o)
          PROVE  /\ Past(c \in FirstIsRecorded(o), S[c], H[c], R[c])
                 /\ S[c] \in Seq(Value) /\ S[c] # <<>>
      <3>1. seen[o][c] # <<>>
        BY <1>3, <1>5, <1>8, ColumnFacts DEF SeenFromRow
      <3>2. Recorded(o, c, x[c]) = IF row[o][c] # x[c] THEN Append(hist[o][c], row[o][c])
                                                     ELSE hist[o][c]
        BY <1>8 DEF Recorded
      <3> HIDE DEF R, H, S
      <3>3. /\ Past(c \in FirstIsRecorded(o), Seen(o, c, x[c]),
                    IF row[o][c] # x[c] THEN Append(hist[o][c], row[o][c]) ELSE hist[o][c],
                    x[c])
            /\ Seen(o, c, x[c]) \in Seq(Value) /\ Seen(o, c, x[c]) # <<>>
        <4>1. c \in Columns(o) /\ x[c] \in Value
          BY <1>5
        <4> QED
          BY <1>3, <1>8, <3>1, <4>1, ColumnStep
      <3>4. R[c] = x[c] /\ H[c] = Recorded(o, c, x[c]) /\ S[c] = Seen(o, c, x[c])
        BY <1>5
      <3> QED
        BY <3>2, <3>3, <3>4
    <2>2. ASSUME NEW c \in Columns(o) \ Main(o)
          PROVE  R[c] = row[o][c] /\ H[c] = hist[o][c] /\ S[c] = seen[o][c]
      BY <1>6, <1>8
    <2>3. ASSUME NEW c \in Columns(o) \ Main(o)
          PROVE  Past(c \in FirstIsRecorded(o), S[c], H[c], R[c])
      <3> HIDE DEF R, H, S
      <3> QED
        BY <1>3, <2>2 DEF PastOf
    <2>4. ASSUME NEW c \in Main(o) PROVE H[c] \in Seq(Value)
      <3>1. row[o][c] \in Value /\ hist[o][c] \in Seq(Value)
        BY <1>3, <1>4, <1>5, <1>8
      <3>2. Append(hist[o][c], row[o][c]) \in Seq(Value)
        BY <3>1
      <3>3. Recorded(o, c, x[c]) \in Seq(Value)
        BY <1>8, <3>1, <3>2 DEF Recorded
      <3> HIDE DEF H
      <3> QED
        BY <1>5, <3>3
    <2> HIDE DEF R, H, S
    <2>5. \A c \in Columns(o) : R[c] \in Value /\ H[c] \in Seq(Value) /\ S[c] \in Seq(Value)
      BY <1>3, <1>4, <1>5, <1>8, <2>1, <2>2, <2>4
    <2>6. /\ R \in [Columns(o) -> Value] /\ H \in [Columns(o) -> Seq(Value)]
          /\ S \in [Columns(o) -> Seq(Value)]
      BY <2>5 DEF R, H, S
    <2>7. \A c \in Columns(o) \ {"photo"} : S[c] # <<>>
      BY <1>3, <1>8, <2>1, <2>2 DEF SeenFromRow
    <2>8. R["photo"] = Null <=> S["photo"] = <<>>
      BY <1>3, <1>8, <2>2, ColumnFacts DEF SeenFromRow
    <2>9. \A c \in Columns(o) : Past(c \in FirstIsRecorded(o), S[c], H[c], R[c])
      BY <2>1, <2>3
    <2> QED
      BY <1>1, <2>6, <2>7, <2>8, <2>9, ProfileFrame
  <1> QED
    BY <1>7, <1>8

\* One column c of an entity with a row becomes v, its history h and its past s.
LEMMA OneColumn ==
    ASSUME Profile, NEW o \in Entities, HasRow(o), NEW c \in Columns(o),
           NEW v \in Value, NEW h \in Seq(Value), NEW s \in Seq(Value),
           row' = [row EXCEPT ![o][c] = v],
           hist' = [hist EXCEPT ![o][c] = h],
           seen' = [seen EXCEPT ![o][c] = s],
           Past(c \in FirstIsRecorded(o), s, h, v),
           s # <<>>, c = "photo" => v # Null
    PROVE  Profile'
  <1> DEFINE R == [row[o] EXCEPT ![c] = v]
             H == [hist[o] EXCEPT ![c] = h]
             S == [seen[o] EXCEPT ![c] = s]
  <1>1. /\ row[o] \in [Columns(o) -> Value] /\ hist[o] \in [Columns(o) -> Seq(Value)]
        /\ seen[o] \in [Columns(o) -> Seq(Value)] /\ SeenFromRow(o) /\ PastOf(o)
    BY DEF Profile, ProfileTypes, HasRow
  <1>2. /\ R \in [Columns(o) -> Value] /\ H \in [Columns(o) -> Seq(Value)]
        /\ S \in [Columns(o) -> Seq(Value)]
    BY <1>1
  <1>3. /\ row' = [row EXCEPT ![o] = R] /\ hist' = [hist EXCEPT ![o] = H]
        /\ seen' = [seen EXCEPT ![o] = S]
    OBVIOUS
  <1>4. /\ R[c] = v /\ H[c] = h /\ S[c] = s
        /\ \A d \in Columns(o) : d # c => R[d] = row[o][d] /\ H[d] = hist[o][d] /\ S[d] = seen[o][d]
    BY <1>1
  <1> HIDE DEF R, H, S
  <1>5. \A d \in Columns(o) : Past(d \in FirstIsRecorded(o), S[d], H[d], R[d])
    <2> SUFFICES ASSUME NEW d \in Columns(o)
                 PROVE  Past(d \in FirstIsRecorded(o), S[d], H[d], R[d])
      OBVIOUS
    <2>1. CASE d = c
      BY <1>4, <2>1
    <2>2. CASE d # c
      <3>1. Past(d \in FirstIsRecorded(o), seen[o][d], hist[o][d], row[o][d])
        BY <1>1 DEF PastOf
      <3> QED
        BY <1>4, <2>2, <3>1
    <2> QED
      BY <2>1, <2>2
  <1>6. \A d \in Columns(o) \ {"photo"} : S[d] # <<>>
    BY <1>1, <1>4 DEF SeenFromRow
  <1>7. R["photo"] = Null <=> S["photo"] = <<>>
    BY <1>1, <1>4, ColumnFacts DEF SeenFromRow
  <1> QED
    BY <1>2, <1>3, <1>5, <1>6, <1>7, ProfileFrame

\* setUserProfilePhoto, setGroupPhoto.
LEMMA PhotoProfile ==
    ASSUME Profile, NEW o \in Entities, NEW f \in Photos, SetPhoto(o, f)
    PROVE  Profile'
  <1> DEFINE r == row[o]["photo"]
             h0 == hist[o]["photo"]
             s0 == seen[o]["photo"]
             h == CASE r = Null -> Append(h0, f)
                    [] r \notin {Null, f} -> Append(h0, r)
                    [] OTHER -> h0
             s == Seen(o, "photo", f)
  <1>1. HasRow(o) /\ f \in Value /\ f # Null
    BY NullAssumption DEF SetPhoto, Value
  <1>2. "photo" \in Columns(o) /\ "photo" \in FirstIsRecorded(o)
    BY ColumnFacts
  <1>3. /\ r \in Value /\ h0 \in Seq(Value) /\ s0 \in Seq(Value) /\ PastOf(o)
        /\ r = Null <=> s0 = <<>>
    BY <1>1, <1>2 DEF Profile, ProfileTypes, SeenFromRow, HasRow
  <1>4. /\ row' = [row EXCEPT ![o]["photo"] = f]
        /\ hist' = [hist EXCEPT ![o]["photo"] = h]
        /\ seen' = [seen EXCEPT ![o]["photo"] = s]
    BY DEF SetPhoto, TrackPhotoChange
  <1>5. CASE s0 = <<>>
    <2>1. h0 = <<>>
      BY <1>2, <1>3, <1>5 DEF PastOf, Past
    <2>2. h = Append(<<>>, f) /\ s = Append(<<>>, f)
      BY <1>3, <1>5, <2>1 DEF Seen
    <2> HIDE DEF h, s
    <2>3. h = <<f>> /\ s = <<f>> /\ Past(TRUE, <<f>>, <<f>>, f)
      <3>1. Past(TRUE, <<f>>, <<f>>, f)
        BY <1>1, PastFirst
      <3>2. Append(<<>>, f) = <<f>>
        OBVIOUS
      <3> QED
        BY <2>2, <3>1, <3>2
    <2>4. h \in Seq(Value) /\ s \in Seq(Value) /\ s # <<>>
      BY <1>1, <2>3
    <2>5. ("photo" \in FirstIsRecorded(o)) = TRUE
      BY <1>2
    <2>6. Past("photo" \in FirstIsRecorded(o), s, h, f)
      BY <2>3, <2>5
    <2> QED
      BY <1>1, <1>2, <1>4, <2>4, <2>6, OneColumn
  <1>6. CASE s0 # <<>>
    <2>1. h = IF r # f THEN Append(h0, r) ELSE h0
      BY <1>1, <1>3, <1>6
    <2>2. /\ Past("photo" \in FirstIsRecorded(o), s, IF r # f THEN Append(h0, r) ELSE h0, f)
          /\ s \in Seq(Value) /\ s # <<>>
      <3>1. ProfileTypes
        BY DEF Profile
      <3> QED
        BY <1>1, <1>2, <1>3, <1>6, <3>1, ColumnStep
    <2>3. (IF r # f THEN Append(h0, r) ELSE h0) \in Seq(Value)
      BY <1>3
    <2> HIDE DEF h, s
    <2> QED
      BY <1>1, <1>2, <1>4, <2>1, <2>2, <2>3, OneColumn
  <1> QED
    BY <1>5, <1>6

\* upsertUserFullInfo.
LEMMA BioProfile ==
    ASSUME Profile, NEW u \in Users, UpsertUserFullInfo(u)
    PROVE  Profile'
  <1>1. HasRow(u) /\ u \in Entities
    BY DEF UpsertUserFullInfo, Entities
  <1> DEFINE r == row[u]["bio"]
             h0 == hist[u]["bio"]
  <1>2. PICK v \in Values :
          /\ hist' = [hist EXCEPT ![u]["bio"] = IF r # v THEN Append(h0, r) ELSE h0]
          /\ row' = [row EXCEPT ![u]["bio"] = v]
          /\ seen' = [seen EXCEPT ![u]["bio"] = Seen(u, "bio", v)]
    BY DEF UpsertUserFullInfo
  <1>3. "bio" \in Columns(u) /\ v \in Value
    BY <1>1, ColumnFacts DEF Value
  <1>4. seen[u]["bio"] # <<>> /\ r \in Value /\ h0 \in Seq(Value) /\ PastOf(u) /\ ProfileTypes
    BY <1>1, <1>3 DEF Profile, ProfileTypes, SeenFromRow, HasRow
  <1>5. /\ Past("bio" \in FirstIsRecorded(u), Seen(u, "bio", v),
                IF r # v THEN Append(h0, r) ELSE h0, v)
        /\ Seen(u, "bio", v) \in Seq(Value) /\ Seen(u, "bio", v) # <<>>
    BY <1>1, <1>3, <1>4, ColumnStep
  <1>6. (IF r # v THEN Append(h0, r) ELSE h0) \in Seq(Value)
    BY <1>4
  <1> QED
    BY <1>1, <1>2, <1>3, <1>5, <1>6, OneColumn

-----------------------------------------------------------------------------
(* Administrators *)

AdminTypes ==
    /\ admins \in [Groups -> [Users -> Standings \cup {Null}]]
    /\ adminLog \in [Groups -> [Users -> AdminEvent \cup {Null}]]

\* syncGroupAdmins keeps rows and log of the administrators in agreement.
LEMMA AdminStep ==
    ASSUME AdminTypes, AdminLogReplays, NEW g \in Groups, SyncGroupAdmins(g)
    PROVE  AdminTypes' /\ AdminLogReplays'
  <1>1. PICK list \in AdminLists :
          /\ admins' = [admins EXCEPT ![g] =
                          [u \in Users |-> IF u \in DOMAIN list THEN list[u] ELSE Null]]
          /\ adminLog' = [adminLog EXCEPT ![g] = [u \in Users |-> AdminEventOf(g, u, list)]]
    BY DEF SyncGroupAdmins
  <1>2. PICK s \in (SUBSET Users) \ {{}} : list \in [s -> Standings]
    BY DEF AdminLists
  <1>3. \A u \in DOMAIN list : list[u] \in Standings /\ list[u] # Null
    BY <1>2, NullAssumption
  <1>4. ASSUME NEW u \in Users
        PROVE  /\ admins[g][u] \in Standings \cup {Null}
               /\ adminLog[g][u] \in AdminEvent \cup {Null}
               /\ IF admins[g][u] = Null
                    THEN adminLog[g][u] = Null \/ adminLog[g][u].action = "removed"
                    ELSE /\ adminLog[g][u] # Null
                         /\ adminLog[g][u].action \in {"added", "updated"}
                         /\ adminLog[g][u].standing = admins[g][u]
    BY DEF AdminTypes, AdminLogReplays
  <1>5. ASSUME NEW u \in Users
        PROVE  LET new == IF u \in DOMAIN list THEN list[u] ELSE Null
                   last == AdminEventOf(g, u, list)
               IN  /\ last \in AdminEvent \cup {Null}
                   /\ IF new = Null
                        THEN last = Null \/ last.action = "removed"
                        ELSE /\ last # Null /\ last.action \in {"added", "updated"}
                             /\ last.standing = new
    <2>1. CASE u \in DOMAIN list /\ admins[g][u] = Null
      <3>1. AdminEventOf(g, u, list) = [action |-> "added", standing |-> list[u]]
        BY <2>1 DEF AdminEventOf
      <3>2. [action |-> "added", standing |-> list[u]] \in AdminEvent
        BY <1>3, <2>1 DEF AdminEvent
      <3> QED
        BY <1>3, <2>1, <3>1, <3>2, NoEventAssumption
    <2>2. CASE u \in DOMAIN list /\ admins[g][u] \notin {Null, list[u]}
      <3>1. AdminEventOf(g, u, list) = [action |-> "updated", standing |-> list[u]]
        BY <2>2 DEF AdminEventOf
      <3>2. [action |-> "updated", standing |-> list[u]] \in AdminEvent
        BY <1>3, <2>2 DEF AdminEvent
      <3> QED
        BY <1>3, <2>2, <3>1, <3>2, NoEventAssumption
    <2>3. CASE u \notin DOMAIN list /\ admins[g][u] # Null
      <3>1. AdminEventOf(g, u, list) = [action |-> "removed", standing |-> admins[g][u]]
        BY <2>3 DEF AdminEventOf
      <3>2. [action |-> "removed", standing |-> admins[g][u]] \in AdminEvent
        BY <1>4, <2>3 DEF AdminEvent
      <3> QED
        BY <2>3, <3>1, <3>2
    <2>4. CASE \/ u \in DOMAIN list /\ admins[g][u] = list[u] /\ admins[g][u] # Null
               \/ u \notin DOMAIN list /\ admins[g][u] = Null
      <3>1. AdminEventOf(g, u, list) = adminLog[g][u]
        BY <2>4 DEF AdminEventOf
      <3> QED
        BY <1>4, <2>4, <3>1
    <2> QED
      BY <2>1, <2>2, <2>3, <2>4
  <1>6. /\ admins'[g] = [u \in Users |-> IF u \in DOMAIN list THEN list[u] ELSE Null]
        /\ adminLog'[g] = [u \in Users |-> AdminEventOf(g, u, list)]
        /\ \A h \in Groups : h # g => admins'[h] = admins[h] /\ adminLog'[h] = adminLog[h]
    BY <1>1 DEF AdminTypes
  <1>7. AdminTypes'
    <2>1. [u \in Users |-> IF u \in DOMAIN list THEN list[u] ELSE Null]
            \in [Users -> Standings \cup {Null}]
      BY <1>3
    <2>2. [u \in Users |-> AdminEventOf(g, u, list)] \in [Users -> AdminEvent \cup {Null}]
      BY <1>5
    <2> QED
      BY <1>1, <2>1, <2>2 DEF AdminTypes
  <1>8. ASSUME NEW h \in Groups, NEW u \in Users
        PROVE  IF admins'[h][u] = Null
                 THEN adminLog'[h][u] = Null \/ adminLog'[h][u].action = "removed"
                 ELSE /\ adminLog'[h][u] # Null
                      /\ adminLog'[h][u].action \in {"added", "updated"}
                      /\ adminLog'[h][u].standing = admins'[h][u]
    <2>1. CASE h = g
      BY <1>5, <1>6, <2>1
    <2>2. CASE h # g
      BY <1>6, <2>2 DEF AdminLogReplays
    <2> QED
      BY <2>1, <2>2
  <1> QED
    BY <1>7, <1>8 DEF AdminLogReplays

-----------------------------------------------------------------------------
(* The specification *)

Inv == /\ UsernameTypes /\ SpelledIn /\ OwnerIsLastTold /\ LogReplays
       /\ Profile
       /\ AdminTypes /\ AdminLogReplays
       /\ varies \in Varieties

\* Empty tables satisfy the invariant.
LEMMA InitInv == Init => Inv
  <1> SUFFICES ASSUME Init PROVE Inv
    OBVIOUS
  <1> USE DEF Init
  <1>1. UsernameTypes /\ SpelledIn /\ OwnerIsLastTold
    BY DEF UsernameTypes, SpelledIn, OwnerIsLastTold
  <1>2. LogReplays
    <2>1. \A n \in Plain : {n} \in Usernames /\ n \in Spellings
      BY DEF Plain
    <2>2. \A o \in Entities : OldMap(o) = {}
      BY DEF OldMap
    <2> QED
      BY <2>1, <2>2 DEF LogReplays
  <1>3. ProfileTypes
    BY DEF ProfileTypes
  <1>4. ASSUME NEW o \in Entities PROVE SeenFromRow(o) /\ PastOf(o)
    BY DEF SeenFromRow, HasRow, PastOf, Past
  <1>5. AdminTypes /\ AdminLogReplays
    BY DEF AdminTypes, AdminLogReplays
  <1> QED
    BY <1>1, <1>2, <1>3, <1>4, <1>5 DEF Inv, Profile

\* The parts of Inv about the usernames, in a step that leaves them alone.
LEMMA SameUsernames ==
    ASSUME UsernameTypes, SpelledIn, OwnerIsLastTold, LogReplays,
           names' = names, log' = log, holder' = holder,
           logged' \in {logged, {}}
    PROVE  UsernameTypes' /\ SpelledIn' /\ OwnerIsLastTold' /\ LogReplays'
  <1>1. UsernameTypes'
    BY DEF UsernameTypes
  <1>2. SpelledIn' /\ OwnerIsLastTold'
    BY DEF SpelledIn, OwnerIsLastTold
  <1>3. LogReplays'
    BY DEF LogReplays, OldMap
  <1> QED
    BY <1>1, <1>2, <1>3

\* An operation that writes no profile keeps the profiles right.
LEMMA SameProfile == Profile /\ UNCHANGED <<row, hist, seen>> => Profile'
  BY DEF Profile, ProfileTypes, SeenFromRow, PastOf, HasRow

\* An operation that writes no administrators keeps them right.
LEMMA SameAdmins ==
    AdminTypes /\ AdminLogReplays /\ UNCHANGED <<admins, adminLog>>
        => AdminTypes' /\ AdminLogReplays'
  BY DEF AdminTypes, AdminLogReplays

\* upsertUser and upsertGroup: the row, then the usernames.
LEMMA UpsertStep ==
    ASSUME Inv, NEW o \in Entities, NEW x \in MainValues(o), UpsertRow(o, x),
           NEW list, IsList(list), SyncUsernames(o, list),
           UNCHANGED <<admins, adminLog, varies>>
    PROVE  /\ Inv'
           /\ \A n \in Plain : n \in logged' <=> names'[{n}] # names[{n}]
  <1>1. x \in [Main(o) -> Values]
    BY ValuesAssumption DEF MainValues
  <1>2. Profile'
    BY <1>1, UpsertProfile DEF Inv
  <1>3. UsernameTypes' /\ SpelledIn'
    BY SyncTypes DEF Inv
  <1>4. OwnerIsLastTold'
    BY SyncOwner DEF Inv
  <1>5. LogReplays'
    BY SyncLog DEF Inv
  <1>6. AdminTypes' /\ AdminLogReplays'
    BY SameAdmins DEF Inv
  <1>7. \A n \in Plain : n \in logged' <=> names'[{n}] # names[{n}]
    BY SyncRecords DEF Inv
  <1> QED
    BY <1>2, <1>3, <1>4, <1>5, <1>6, <1>7 DEF Inv

\* A step of another operation: no username, and no event of one.
LEMMA OtherStep ==
    ASSUME Inv, names' = names, log' = log, holder' = holder, logged' = {},
           varies' = varies,
           Profile', AdminTypes', AdminLogReplays'
    PROVE  /\ Inv'
           /\ \A n \in Plain : n \in logged' <=> names'[{n}] # names[{n}]
  BY SameUsernames DEF Inv

\* Every step preserves the invariant and records exactly what it changes.
LEMMA NextStep ==
    Inv /\ Next => Inv' /\ \A n \in Plain : n \in logged' <=> names'[{n}] # names[{n}]
  <1> SUFFICES ASSUME Inv, Next
               PROVE  Inv' /\ \A n \in Plain : n \in logged' <=> names'[{n}] # names[{n}]
    OBVIOUS
  <1> DEFINE Goal == Inv' /\ \A n \in Plain : n \in logged' <=> names'[{n}] # names[{n}]
  <1> SUFFICES Goal
    OBVIOUS
  <1>1. Users \subseteq Entities /\ Groups \subseteq Entities
    BY DEF Entities
  <1>2. ASSUME NEW u \in Users, UpsertUser(u) PROVE Goal
    <2>1. PICK x \in MainValues(u) : UpsertRow(u, x)
      BY <1>2 DEF UpsertUser
    <2>2. PICK list \in AllUserLists : SyncUsernames(u, list)
      BY <1>2 DEF UpsertUser
    <2>3. IsList(list)
      BY ListsAreLists DEF AllUserLists
    <2>4. UNCHANGED <<admins, adminLog, varies>>
      BY <1>2 DEF UpsertUser
    <2> QED
      BY <1>1, <2>1, <2>2, <2>3, <2>4, UpsertStep
  <1>3. ASSUME NEW u \in Users, SetUserProfilePhoto(u) PROVE Goal
    <2>1. PICK f \in Photos : SetPhoto(u, f)
      BY <1>3 DEF SetUserProfilePhoto
    <2>2. Profile'
      BY <1>1, <2>1, PhotoProfile DEF Inv
    <2>3. AdminTypes' /\ AdminLogReplays'
      BY <2>1, SameAdmins DEF Inv, SetPhoto
    <2> QED
      BY <2>1, <2>2, <2>3, OtherStep DEF SetPhoto
  <1>4. ASSUME NEW u \in Users, UpsertUserFullInfo(u) PROVE Goal
    <2>1. Profile'
      BY <1>4, BioProfile DEF Inv
    <2>2. AdminTypes' /\ AdminLogReplays'
      BY <1>4, SameAdmins DEF Inv, UpsertUserFullInfo
    <2> QED
      BY <1>4, <2>1, <2>2, OtherStep DEF UpsertUserFullInfo
  <1>5. ASSUME NEW g \in Groups, UpsertGroup(g) PROVE Goal
    <2>1. PICK x \in MainValues(g) : UpsertRow(g, x)
      BY <1>5 DEF UpsertGroup
    <2>2. PICK list \in AllGroupLists : SyncUsernames(g, list)
      BY <1>5 DEF UpsertGroup, SyncGroupUsernames
    <2>3. IsList(list)
      BY ListsAreLists DEF AllGroupLists
    <2>4. UNCHANGED <<admins, adminLog, varies>>
      BY <1>5 DEF UpsertGroup
    <2> QED
      BY <1>1, <2>1, <2>2, <2>3, <2>4, UpsertStep
  <1>6. ASSUME NEW g \in Groups, SetGroupPhoto(g) PROVE Goal
    <2>1. PICK f \in Photos : SetPhoto(g, f)
      BY <1>6 DEF SetGroupPhoto
    <2>2. Profile'
      BY <1>1, <2>1, PhotoProfile DEF Inv
    <2>3. AdminTypes' /\ AdminLogReplays'
      BY <2>1, SameAdmins DEF Inv, SetPhoto
    <2> QED
      BY <2>1, <2>2, <2>3, OtherStep DEF SetPhoto
  <1>7. ASSUME NEW g \in Groups, SyncGroupAdmins(g) PROVE Goal
    <2>1. AdminTypes' /\ AdminLogReplays'
      BY <1>7, AdminStep DEF Inv
    <2>2. Profile'
      BY <1>7, SameProfile DEF Inv, SyncGroupAdmins
    <2> QED
      BY <1>7, <2>1, <2>2, OtherStep DEF SyncGroupAdmins
  <1> QED
    BY <1>2, <1>3, <1>4, <1>5, <1>6, <1>7 DEF Next

\* A stuttering step keeps the invariant.
LEMMA Stutter == Inv /\ UNCHANGED vars => Inv'
  <1> SUFFICES ASSUME Inv, UNCHANGED vars PROVE Inv'
    OBVIOUS
  <1> USE DEF vars
  <1>1. UsernameTypes' /\ SpelledIn' /\ OwnerIsLastTold' /\ LogReplays'
    BY SameUsernames DEF Inv
  <1>2. Profile' /\ AdminTypes' /\ AdminLogReplays'
    BY SameProfile, SameAdmins DEF Inv
  <1> QED
    BY <1>1, <1>2 DEF Inv

\* Every operation of DB on users, groups and administrators preserves Inv.
THEOREM Invariance == Spec => []Inv
  <1>1. Inv /\ [Next]_vars => Inv'
    BY NextStep, Stutter
  <1> QED
    BY InitInv, <1>1, PTL DEF Spec

\* The tables and the history variables keep their types: rows and histories have
\* the columns of their entity, username rows and events a place in a list.
THEOREM TypeCorrect == Spec => []TypeOK
  <1>1. Inv => TypeOK
    BY DEF Inv, TypeOK, UsernameTypes, Profile, ProfileTypes, AdminTypes
  <1> QED
    BY Invariance, <1>1, PTL

\* Whatever releases, takeovers and changes of spelling syncUsernames goes through,
\* a username's row names the entity that was last told to have it.
THEOREM OwnerCorrect == Spec => []OwnerIsLastTold
  <1>1. Inv => OwnerIsLastTold
    BY DEF Inv
  <1> QED
    BY Invariance, <1>1, PTL

\* The event log of the plain usernames says what their rows say.
THEOREM LogCorrect == Spec => []LogReplays
  <1>1. Inv => LogReplays
    BY DEF Inv
  <1> QED
    BY Invariance, <1>1, PTL

\* The diff of syncUsernames records an event of a plain username exactly when it
\* changes the username's row.
THEOREM RecordsCorrect == Spec => RecordedExactly
  <1>1. Inv /\ [Next]_vars =>
          [\A n \in Plain : n \in logged' <=> names'[{n}] # names[{n}]]_vars
    BY NextStep
  <1> QED
    BY Invariance, <1>1, PTL DEF Spec, RecordedExactly

\* Histories are the past of their columns, although three operations write a row.
THEOREM PastCorrect == Spec => []PastIsRecorded
  <1>1. Inv => PastIsRecorded
    BY PastForm DEF Inv, Profile
  <1> QED
    BY Invariance, <1>1, PTL

\* The administrators are those whose last event is an addition or an update.
THEOREM AdminsCorrect == Spec => []AdminLogReplays
  <1>1. Inv => AdminLogReplays
    BY DEF Inv
  <1> QED
    BY Invariance, <1>1, PTL
==============================================================================
