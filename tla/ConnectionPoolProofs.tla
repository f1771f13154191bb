------------------------ MODULE ConnectionPoolProofs ------------------------
(***************************************************************************)
(* Proofs about ConnectionPool, for every set of threads, every pool_size  *)
(* and every number of calls.                                              *)
(***************************************************************************)
EXTENDS ConnectionPool, SequenceTheorems, FiniteSetTheorems, TLAPS

(* The inductive invariant *)

\* A thread owns a connection exactly while it is using the database.
OwnsWhileUsing == \A t \in Threads : conn[t] # Null <=> pc[t] = "using"

\* Each reservation in created_ is an opened connection or a create() under way.
ReservationsMade == created = opened + Cardinality(Creating)

Inv == TypeOK /\ OwnsWhileUsing /\ Accounting /\ ReservationsMade

\* The sets that the invariants count are finite, in this state and the next.
LEMMA CountsAreNat ==
    /\ IsFiniteSet(Holders) /\ Cardinality(Holders) \in Nat
    /\ IsFiniteSet(Creating) /\ Cardinality(Creating) \in Nat
    /\ IsFiniteSet(Arriving) /\ Cardinality(Arriving) \in Nat
    /\ IsFiniteSet(Holders') /\ Cardinality(Holders') \in Nat
    /\ IsFiniteSet(Creating') /\ Cardinality(Creating') \in Nat
    /\ IsFiniteSet(Arriving') /\ Cardinality(Arriving') \in Nat
  <1>1. IsFiniteSet(Holders) /\ IsFiniteSet(Creating) /\ IsFiniteSet(Arriving)
    BY ThreadsAssumption, FS_Subset DEF Holders, Creating, Arriving
  <1>2. IsFiniteSet(Holders') /\ IsFiniteSet(Creating') /\ IsFiniteSet(Arriving')
    BY ThreadsAssumption, FS_Subset DEF Holders, Creating, Arriving
  <1>3. QED
    BY <1>1, <1>2, FS_CardinalityType

\* What waking a waiter does to the counted sets: it only adds to those arriving.
LEMMA NotifyOneMoves ==
    ASSUME NEW t \in Threads, NEW next \in PCs, TypeOK, pc[t] # "wait",
           NotifyOne(t, next)
    PROVE  /\ pc' \in [Threads -> PCs]
           /\ pc'[t] = next
           /\ \A u \in Threads \ {t} :
                 pc'[u] = pc[u] \/ (pc[u] = "wait" /\ pc'[u] = "lock")
  BY DEF NotifyOne, Waiting, TypeOK, PCs

-----------------------------------------------------------------------------
(* Counting *)

\* Every step keeps created_ equal to what it stands for.
LEMMA CountInductive ==
    TypeOK /\ Accounting /\ ReservationsMade /\ [Next]_vars
        => Accounting' /\ ReservationsMade'
  <1> SUFFICES ASSUME TypeOK, Accounting, ReservationsMade, [Next]_vars
               PROVE  Accounting' /\ ReservationsMade'
    OBVIOUS
  <1>0. /\ Len(idle) \in Nat /\ created \in Int /\ opened \in Int
        /\ Cardinality(Holders) \in Nat /\ Cardinality(Creating) \in Nat
    BY CountsAreNat DEF TypeOK
  <1>a. ASSUME NEW t \in Threads, t \notin Holders, Holders' = Holders \cup {t}
        PROVE  Cardinality(Holders') = Cardinality(Holders) + 1
    BY <1>a, CountsAreNat, FS_AddElement
  <1>b. ASSUME NEW t \in Holders, Holders' = Holders \ {t}
        PROVE  Cardinality(Holders') = Cardinality(Holders) - 1
    BY <1>b, CountsAreNat, FS_RemoveElement
  <1>c. ASSUME NEW t \in Threads, t \notin Creating, Creating' = Creating \cup {t}
        PROVE  Cardinality(Creating') = Cardinality(Creating) + 1
    BY <1>c, CountsAreNat, FS_AddElement
  <1>d. ASSUME NEW t \in Creating, Creating' = Creating \ {t}
        PROVE  Cardinality(Creating') = Cardinality(Creating) - 1
    BY <1>d, CountsAreNat, FS_RemoveElement
  <1> USE DEF Accounting, ReservationsMade
  <1>1. ASSUME NEW t \in Threads, CallAcquire(t) PROVE Accounting' /\ ReservationsMade'
    <2>1. Holders' = Holders /\ Creating' = Creating
      BY <1>1 DEF CallAcquire, Holders, Creating, TypeOK
    <2>2. UNCHANGED <<idle, created, opened>>
      BY <1>1 DEF CallAcquire
    <2> HIDE DEF TypeOK
    <2>3. QED
      BY <2>1, <2>2
  <1>2. ASSUME NEW t \in Threads, AcquireIdle(t) PROVE Accounting' /\ ReservationsMade'
    <2>1. t \notin Holders /\ Holders' = Holders \cup {t} /\ Creating' = Creating
      BY <1>2 DEF AcquireIdle, Holders, Creating, TypeOK
    <2>2. Cardinality(Holders') = Cardinality(Holders) + 1
      BY <1>a, <2>1
    <2>3. Len(idle') = Len(idle) - 1 /\ UNCHANGED <<created, opened>>
      BY <1>2, HeadTailProperties DEF AcquireIdle, TypeOK
    <2>4. QED
      BY <1>0, <2>1, <2>2, <2>3
  <1>3. ASSUME NEW t \in Threads, AcquireReserve(t) PROVE Accounting' /\ ReservationsMade'
    <2>1. t \notin Creating /\ Creating' = Creating \cup {t} /\ Holders' = Holders
      BY <1>3 DEF AcquireReserve, Holders, Creating, TypeOK
    <2>2. Cardinality(Creating') = Cardinality(Creating) + 1
      BY <1>c, <2>1
    <2>3. created' = created + 1 /\ UNCHANGED <<idle, opened>>
      BY <1>3 DEF AcquireReserve
    <2>4. Len(idle') = Len(idle) /\ Cardinality(Holders') = Cardinality(Holders)
      BY <2>1, <2>3
    <2> HIDE DEF TypeOK
    <2>5. QED
      BY <1>0, <2>2, <2>3, <2>4
  <1>4. ASSUME NEW t \in Threads, AcquireWait(t) PROVE Accounting' /\ ReservationsMade'
    <2>1. Holders' = Holders /\ Creating' = Creating
      BY <1>4 DEF AcquireWait, Holders, Creating, TypeOK
    <2>2. UNCHANGED <<idle, created, opened>>
      BY <1>4 DEF AcquireWait
    <2> HIDE DEF TypeOK
    <2>3. QED
      BY <2>1, <2>2
  <1>5. ASSUME NEW t \in Threads, CreateLock(t) PROVE Accounting' /\ ReservationsMade'
    <2>1. Holders' = Holders /\ Creating' = Creating
      BY <1>5 DEF CreateLock, Holders, Creating, TypeOK
    <2>2. UNCHANGED <<idle, created, opened>>
      BY <1>5 DEF CreateLock
    <2> HIDE DEF TypeOK
    <2>3. QED
      BY <2>1, <2>2
  <1>6. ASSUME NEW t \in Threads, CreateConnect(t) PROVE Accounting' /\ ReservationsMade'
    <2>1. Holders' = Holders /\ Creating' = Creating
      BY <1>6 DEF CreateConnect, Holders, Creating, TypeOK
    <2>2. UNCHANGED <<idle, created, opened>>
      BY <1>6 DEF CreateConnect
    <2> HIDE DEF TypeOK
    <2>3. QED
      BY <2>1, <2>2
  <1>7. ASSUME NEW t \in Threads, CreateReturn(t) PROVE Accounting' /\ ReservationsMade'
    <2>1. /\ t \notin Holders /\ Holders' = Holders \cup {t}
          /\ t \in Creating /\ Creating' = Creating \ {t}
      BY <1>7 DEF CreateReturn, Holders, Creating, TypeOK
    <2>2. /\ Cardinality(Holders') = Cardinality(Holders) + 1
          /\ Cardinality(Creating') = Cardinality(Creating) - 1
      BY <1>a, <1>d, <2>1
    <2>3. opened' = opened + 1 /\ UNCHANGED <<idle, created>>
      BY <1>7 DEF CreateReturn
    <2>4. QED
      BY <1>0, <2>2, <2>3
  <1>8. ASSUME NEW t \in Threads, CreateSetupFails(t) PROVE Accounting' /\ ReservationsMade'
    <2>1. Holders' = Holders /\ Creating' = Creating
      BY <1>8 DEF CreateSetupFails, Holders, Creating, TypeOK
    <2>2. UNCHANGED <<idle, created, opened>>
      BY <1>8 DEF CreateSetupFails
    <2> HIDE DEF TypeOK
    <2>3. QED
      BY <2>1, <2>2
  <1>9. ASSUME NEW t \in Threads, AcquireUnreserve(t) PROVE Accounting' /\ ReservationsMade'
    <2>1. pc[t] = "failed" /\ pc'[t] = "out"
          /\ \A u \in Threads \ {t} :
                pc'[u] = pc[u] \/ (pc[u] = "wait" /\ pc'[u] = "lock")
      BY <1>9, NotifyOneMoves DEF AcquireUnreserve, PCs
    <2>2. t \in Creating /\ Creating' = Creating \ {t} /\ Holders' = Holders
      BY <2>1 DEF Holders, Creating
    <2>3. Cardinality(Creating') = Cardinality(Creating) - 1
      BY <1>d, <2>2
    <2>4. created' = created - 1 /\ UNCHANGED <<idle, opened>>
      BY <1>9 DEF AcquireUnreserve
    <2>5. QED
      BY <1>0, <2>2, <2>3, <2>4
  <1>10. ASSUME NEW t \in Threads, Release(t) PROVE Accounting' /\ ReservationsMade'
    <2>1. t \in Holders /\ Holders' = Holders \ {t} /\ Creating' = Creating
      BY <1>10 DEF Release, Holders, Creating, TypeOK
    <2>2. Cardinality(Holders') = Cardinality(Holders) - 1
      BY <1>b, <2>1
    <2>3. Len(idle') = Len(idle) + 1 /\ UNCHANGED <<created, opened>>
      BY <1>10, AppendProperties DEF Release, TypeOK
    <2>4. QED
      BY <1>0, <2>1, <2>2, <2>3
  <1>11. ASSUME NEW t \in Threads, ReleaseNotify(t) PROVE Accounting' /\ ReservationsMade'
    <2>1. pc[t] = "notify" /\ pc'[t] = "out"
          /\ \A u \in Threads \ {t} :
                pc'[u] = pc[u] \/ (pc[u] = "wait" /\ pc'[u] = "lock")
      BY <1>11, NotifyOneMoves DEF ReleaseNotify, PCs
    <2>2. Holders' = Holders /\ Creating' = Creating
      BY <2>1 DEF Holders, Creating
    <2>3. UNCHANGED <<idle, created, opened>>
      BY <1>11 DEF ReleaseNotify
    <2>4. QED
      BY <2>2, <2>3
  <1>12. ASSUME NEW t \in Threads, SpuriousWakeup(t) PROVE Accounting' /\ ReservationsMade'
    <2>1. Holders' = Holders /\ Creating' = Creating
      BY <1>12 DEF SpuriousWakeup, Holders, Creating, TypeOK
    <2>2. UNCHANGED <<idle, created, opened>>
      BY <1>12 DEF SpuriousWakeup
    <2> HIDE DEF TypeOK
    <2>3. QED
      BY <2>1, <2>2
  <1>13. CASE Terminated \/ UNCHANGED vars
    BY <1>13 DEF Terminated, vars, Holders, Creating
  <1> QED
    BY <1>1, <1>2, <1>3, <1>4, <1>5, <1>6, <1>7,
       <1>8, <1>9, <1>10, <1>11, <1>12, <1>13
    DEF Next, ThreadStep

\* Every variable stays in its type; that opened never passes pool_size follows
\* from the counting.
LEMMA TypeInductive == Inv /\ [Next]_vars => TypeOK' /\ OwnsWhileUsing'
  <1> SUFFICES ASSUME Inv, [Next]_vars PROVE TypeOK' /\ OwnsWhileUsing'
    OBVIOUS
  <1>0. ASSUME NEW t \in Creating PROVE opened + 1 <= created /\ created <= PoolSize
    <2>1. Cardinality(Creating) # 0
      BY CountsAreNat, FS_EmptySet
    <2>2. QED
      BY <2>1, CountsAreNat, PoolSizeAssumption DEF Inv, TypeOK, ReservationsMade
  <1> USE PoolSizeAssumption, MaxCallsAssumption
      DEF Inv, TypeOK, OwnsWhileUsing, PCs, Connections, Null
  <1>1. ASSUME NEW t \in Threads, CallAcquire(t) PROVE TypeOK' /\ OwnsWhileUsing'
    BY <1>1 DEF CallAcquire
  <1>2. ASSUME NEW t \in Threads, AcquireIdle(t) PROVE TypeOK' /\ OwnsWhileUsing'
    <2>1. Head(idle) \in Connections /\ Tail(idle) \in Seq(Connections)
      BY <1>2, HeadTailProperties DEF AcquireIdle
    <2>2. QED
      BY <1>2, <2>1 DEF AcquireIdle
  <1>3. ASSUME NEW t \in Threads, AcquireReserve(t) PROVE TypeOK' /\ OwnsWhileUsing'
    BY <1>3 DEF AcquireReserve
  <1>4. ASSUME NEW t \in Threads, AcquireWait(t) PROVE TypeOK' /\ OwnsWhileUsing'
    BY <1>4 DEF AcquireWait
  <1>5. ASSUME NEW t \in Threads, CreateLock(t) PROVE TypeOK' /\ OwnsWhileUsing'
    BY <1>5 DEF CreateLock
  <1>6. ASSUME NEW t \in Threads, CreateConnect(t) PROVE TypeOK' /\ OwnsWhileUsing'
    BY <1>6 DEF CreateConnect
  <1>7. ASSUME NEW t \in Threads, CreateReturn(t) PROVE TypeOK' /\ OwnsWhileUsing'
    <2>1. opened + 1 \in 1 .. PoolSize
      BY <1>7, <1>0 DEF CreateReturn, Creating
    <2>2. QED
      BY <1>7, <2>1 DEF CreateReturn
  <1>8. ASSUME NEW t \in Threads, CreateSetupFails(t) PROVE TypeOK' /\ OwnsWhileUsing'
    BY <1>8 DEF CreateSetupFails
  <1>9. ASSUME NEW t \in Threads, AcquireUnreserve(t) PROVE TypeOK' /\ OwnsWhileUsing'
    <2>1. created - 1 \in 0 .. PoolSize
      BY <1>9, <1>0 DEF AcquireUnreserve, Creating
    <2>2. /\ pc' \in [Threads -> PCs]
          /\ \A u \in Threads : pc'[u] = "using" <=> pc[u] = "using"
      BY <1>9, NotifyOneMoves DEF AcquireUnreserve
    <2>3. QED
      BY <1>9, <2>1, <2>2 DEF AcquireUnreserve
  <1>10. ASSUME NEW t \in Threads, Release(t) PROVE TypeOK' /\ OwnsWhileUsing'
    BY <1>10 DEF Release
  <1>11. ASSUME NEW t \in Threads, ReleaseNotify(t) PROVE TypeOK' /\ OwnsWhileUsing'
    <2>1. /\ pc' \in [Threads -> PCs]
          /\ \A u \in Threads : pc'[u] = "using" <=> pc[u] = "using"
      BY <1>11, NotifyOneMoves DEF ReleaseNotify
    <2>2. QED
      BY <1>11, <2>1 DEF ReleaseNotify
  <1>12. ASSUME NEW t \in Threads, SpuriousWakeup(t) PROVE TypeOK' /\ OwnsWhileUsing'
    BY <1>12 DEF SpuriousWakeup
  <1>13. CASE Terminated \/ UNCHANGED vars
    BY <1>13 DEF Terminated, vars
  <1> QED
    BY <1>1, <1>2, <1>3, <1>4, <1>5, <1>6, <1>7,
       <1>8, <1>9, <1>10, <1>11, <1>12, <1>13
    DEF Next, ThreadStep

\* Inv holds in every state of every behaviour of the connection pool.
THEOREM Invariance == Spec => []Inv
  <1>1. Init => Inv
    <2> SUFFICES ASSUME Init PROVE Inv
      OBVIOUS
    <2>1. TypeOK
      <3>1. idle \in Seq(Connections)
        BY DEF Init
      <3>2. QED
        BY <3>1, PoolSizeAssumption, MaxCallsAssumption DEF Init, TypeOK, PCs, Null
    <2>2. Holders = {} /\ Creating = {}
      BY DEF Init, Holders, Creating
    <2>3. Cardinality(Holders) = 0 /\ Cardinality(Creating) = 0
      BY <2>2, FS_EmptySet
    <2>4. QED
      BY <2>1, <2>3 DEF Init, Inv, OwnsWhileUsing, Accounting, ReservationsMade
  <1>2. Inv /\ [Next]_vars => Inv'
    BY CountInductive, TypeInductive DEF Inv
  <1>3. QED
    BY <1>1, <1>2, PTL DEF Spec

\* created_ always counts the idle, the lent and the half-made connections.
THEOREM CreatedIsCounted == Spec => []Accounting
  BY Invariance, PTL DEF Inv

-----------------------------------------------------------------------------
(* Exclusive use of connections *)

\* A connection moves between idle_ and one thread, and a new one is distinct
\* from all before it.
LEMMA ExclusiveInductive == Inv /\ Exclusive /\ [Next]_vars => Exclusive'
  <1> SUFFICES ASSUME Inv, Exclusive, [Next]_vars PROVE Exclusive'
    OBVIOUS
  <1>0. ASSUME UNCHANGED <<idle, conn, opened>>, Holders' = Holders PROVE Exclusive'
    BY <1>0 DEF Exclusive
  <1> USE DEF Inv, TypeOK, Exclusive, Holders
  <1>1. ASSUME NEW t \in Threads, CallAcquire(t) PROVE Exclusive'
    BY <1>1, <1>0 DEF CallAcquire
  <1>2. ASSUME NEW t \in Threads, AcquireIdle(t) PROVE Exclusive'
    <2>1. /\ Tail(idle) \in Seq(Connections) /\ Len(Tail(idle)) = Len(idle) - 1
          /\ \A i \in 1 .. Len(Tail(idle)) : Tail(idle)[i] = idle[i + 1]
          /\ Len(idle) \in Nat \ {0} /\ Head(idle) = idle[1]
      BY <1>2, HeadTailProperties DEF AcquireIdle
    <2>2. /\ idle' = Tail(idle) /\ Holders' = Holders \cup {t} /\ t \notin Holders
          /\ conn'[t] = idle[1]
          /\ \A u \in Holders : conn'[u] = conn[u]
          /\ opened' = opened
      BY <1>2, <2>1 DEF AcquireIdle
    <2> HIDE DEF Inv, TypeOK, Holders
    <2>3. \A u, v \in Holders' : conn'[u] = conn'[v] => u = v
      BY <2>1, <2>2
    <2>4. \A u \in Holders', i \in 1 .. Len(idle') : conn'[u] # idle'[i]
      BY <2>1, <2>2
    <2>5. \A i, j \in 1 .. Len(idle') : idle'[i] = idle'[j] => i = j
      BY <2>1, <2>2
    <2>6. 1 .. opened' = {conn'[u] : u \in Holders'} \cup {idle'[i] : i \in 1 .. Len(idle')}
      <3>1. {conn'[u] : u \in Holders'} = {conn[u] : u \in Holders} \cup {idle[1]}
        BY <2>2
      <3>2. {idle[i] : i \in 1 .. Len(idle)}
                = {idle'[i] : i \in 1 .. Len(idle')} \cup {idle[1]}
        <4>1. \A i \in 1 .. Len(idle) : i = 1 \/ (i - 1 \in 1 .. Len(idle')
                                                /\ idle[i] = idle'[i - 1])
          BY <2>1, <2>2
        <4>2. \A i \in 1 .. Len(idle') : i + 1 \in 1 .. Len(idle) /\ idle'[i] = idle[i + 1]
          BY <2>1, <2>2
        <4>3. 1 \in 1 .. Len(idle)
          BY <2>1
        <4>4. QED
          BY <4>1, <4>2, <4>3
      <3>3. QED
        BY <2>2, <3>1, <3>2
    <2>7. QED
      BY <2>3, <2>4, <2>5, <2>6
  <1>3. ASSUME NEW t \in Threads, AcquireReserve(t) PROVE Exclusive'
    BY <1>3, <1>0 DEF AcquireReserve
  <1>4. ASSUME NEW t \in Threads, AcquireWait(t) PROVE Exclusive'
    BY <1>4, <1>0 DEF AcquireWait
  <1>5. ASSUME NEW t \in Threads, CreateLock(t) PROVE Exclusive'
    BY <1>5, <1>0 DEF CreateLock
  <1>6. ASSUME NEW t \in Threads, CreateConnect(t) PROVE Exclusive'
    BY <1>6, <1>0 DEF CreateConnect
  <1>7. ASSUME NEW t \in Threads, CreateReturn(t) PROVE Exclusive'
    <2>1. /\ idle' = idle /\ Holders' = Holders \cup {t} /\ t \notin Holders
          /\ conn'[t] = opened + 1
          /\ \A u \in Holders : conn'[u] = conn[u]
          /\ opened' = opened + 1
          /\ opened \in Nat
      BY <1>7 DEF CreateReturn
    <2> HIDE DEF Inv, TypeOK, Holders
    <2>2. /\ \A u \in Holders : conn[u] \in 1 .. opened
          /\ \A i \in 1 .. Len(idle) : idle[i] \in 1 .. opened
      OBVIOUS
    <2>3. \A u, v \in Holders' : conn'[u] = conn'[v] => u = v
      BY <2>1, <2>2
    <2>4. \A u \in Holders', i \in 1 .. Len(idle') : conn'[u] # idle'[i]
      BY <2>1, <2>2
    <2>5. 1 .. opened' = {conn'[u] : u \in Holders'} \cup {idle'[i] : i \in 1 .. Len(idle')}
      <3>1. 1 .. opened' = (1 .. opened) \cup {opened + 1}
        BY <2>1
      <3>2. {conn'[u] : u \in Holders'} = {conn[u] : u \in Holders} \cup {opened + 1}
        BY <2>1
      <3>3. QED
        BY <2>1, <3>1, <3>2
    <2>6. QED
      BY <2>1, <2>3, <2>4, <2>5
  <1>8. ASSUME NEW t \in Threads, CreateSetupFails(t) PROVE Exclusive'
    BY <1>8, <1>0 DEF CreateSetupFails
  <1>9. ASSUME NEW t \in Threads, AcquireUnreserve(t) PROVE Exclusive'
    <2>1. \A u \in Threads : pc'[u] = "using" <=> pc[u] = "using"
      BY <1>9, NotifyOneMoves DEF AcquireUnreserve, PCs
    <2>2. Holders' = Holders
      BY <2>1
    <2>3. QED
      BY <1>9, <1>0, <2>2 DEF AcquireUnreserve
  <1>10. ASSUME NEW t \in Threads, Release(t) PROVE Exclusive'
    <2>0. conn[t] \in Connections
      BY <1>10, PoolSizeAssumption DEF Release, OwnsWhileUsing
    <2>1. /\ Len(idle') = Len(idle) + 1 /\ Len(idle) \in Nat
          /\ \A i \in 1 .. Len(idle) : idle'[i] = idle[i]
          /\ idle'[Len(idle) + 1] = conn[t]
      BY <1>10, <2>0, AppendProperties DEF Release
    <2>2. /\ t \in Holders /\ Holders' = Holders \ {t}
          /\ \A u \in Holders' : conn'[u] = conn[u]
          /\ opened' = opened
      BY <1>10 DEF Release
    <2> HIDE DEF Inv, TypeOK, Holders
    <2>3. \A u, v \in Holders' : conn'[u] = conn'[v] => u = v
      BY <2>2
    <2>4. \A u \in Holders', i \in 1 .. Len(idle') : conn'[u] # idle'[i]
      BY <2>1, <2>2
    <2>5. \A i, j \in 1 .. Len(idle') : idle'[i] = idle'[j] => i = j
      BY <2>1, <2>2
    <2>6. 1 .. opened' = {conn'[u] : u \in Holders'} \cup {idle'[i] : i \in 1 .. Len(idle')}
      <3>1. {conn[u] : u \in Holders} = {conn'[u] : u \in Holders'} \cup {conn[t]}
        BY <2>2
      <3>2. {idle'[i] : i \in 1 .. Len(idle')}
                = {idle[i] : i \in 1 .. Len(idle)} \cup {conn[t]}
        BY <2>1
      <3>3. QED
        BY <2>2, <3>1, <3>2
    <2>7. QED
      BY <2>3, <2>4, <2>5, <2>6
  <1>11. ASSUME NEW t \in Threads, ReleaseNotify(t) PROVE Exclusive'
    <2>1. \A u \in Threads : pc'[u] = "using" <=> pc[u] = "using"
      BY <1>11, NotifyOneMoves DEF ReleaseNotify, PCs
    <2>2. Holders' = Holders
      BY <2>1
    <2>3. QED
      BY <1>11, <1>0, <2>2 DEF ReleaseNotify
  <1>12. ASSUME NEW t \in Threads, SpuriousWakeup(t) PROVE Exclusive'
    BY <1>12, <1>0 DEF SpuriousWakeup
  <1>13. CASE Terminated \/ UNCHANGED vars
    BY <1>13, <1>0 DEF Terminated, vars
  <1> QED
    BY <1>1, <1>2, <1>3, <1>4, <1>5, <1>6, <1>7,
       <1>8, <1>9, <1>10, <1>11, <1>12, <1>13
    DEF Next, ThreadStep

\* No connection is shared and none is leaked.
THEOREM ExclusiveUse == Spec => []Exclusive
  <1>1. Init => Exclusive
    BY DEF Init, Exclusive, Holders
  <1>2. QED
    BY <1>1, ExclusiveInductive, Invariance, PTL DEF Spec

\* What a step does to who owns what: one thread takes a connection that nobody else
\* owns, or gives up its own.
Lends(t) == conn[t] = Null /\ conn'[t] \in Connections /\ \A u \in Threads : conn[u] # conn'[t]
TakesBack(t) == conn[t] # Null /\ conn'[t] = Null
OneChangesHands ==
    \E t \in Threads : /\ Lends(t) \/ TakesBack(t)
                       /\ \A u \in Threads \ {t} : conn'[u] = conn[u]

\* acquire() and release() are, seen from the threads, the lending of a free connection
\* and its return, one at a time and whatever happens inside: Database may take the
\* pool for a set of connections.
THEOREM LendingIsAtomic == Spec => [][OneChangesHands]_conn
  <1>1. Inv /\ Inv' /\ Exclusive /\ Exclusive' /\ [Next]_vars => [OneChangesHands]_conn
    <2> SUFFICES ASSUME Inv, Inv', Exclusive, Exclusive', [Next]_vars, conn' # conn
                 PROVE  OneChangesHands
      OBVIOUS
    <2> USE DEF Inv, TypeOK
    <2>1. ASSUME NEW t \in Threads, AcquireIdle(t) \/ CreateReturn(t)
          PROVE  OneChangesHands
      <3>1. /\ pc[t] # "using" /\ pc'[t] = "using"
            /\ \A u \in Threads \ {t} : conn'[u] = conn[u] /\ pc'[u] = pc[u]
        BY <2>1 DEF AcquireIdle, CreateReturn
      <3>2. conn[t] = Null /\ conn'[t] # Null
        BY <3>1 DEF OwnsWhileUsing
      <3>3. conn'[t] \in Connections
        BY <3>2
      <3>4. ASSUME NEW u \in Threads, conn[u] = conn'[t] PROVE FALSE
        <4>1. u # t /\ conn[u] # Null
          BY <3>2, <3>4
        <4>2. conn'[u] = conn'[t] /\ pc'[u] = "using"
          BY <3>1, <3>4, <4>1 DEF OwnsWhileUsing
        <4> QED
          BY <3>1, <4>1, <4>2 DEF Exclusive, Holders
      <3> QED
        BY <3>1, <3>2, <3>3, <3>4 DEF OneChangesHands, Lends
    <2>2. ASSUME NEW t \in Threads, Release(t) PROVE OneChangesHands
      BY <2>2 DEF Release, OwnsWhileUsing, OneChangesHands, TakesBack
    <2>3. QED
      BY <2>1, <2>2
      DEF Next, ThreadStep, vars, CallAcquire, AcquireReserve, AcquireWait, CreateLock,
          CreateConnect, CreateSetupFails, AcquireUnreserve, ReleaseNotify,
          SpuriousWakeup, Terminated
  <1>2. QED
    BY <1>1, Invariance, ExclusiveUse, PTL DEF Spec

-----------------------------------------------------------------------------
(* Waiting *)

\* A thread waits only when nothing is free, and everything that becomes free
\* is announced to a waiter.
LEMMA WakeupInductive == Inv /\ NoLostWakeup /\ [Next]_vars => NoLostWakeup'
  <1> SUFFICES ASSUME Inv, NoLostWakeup, [Next]_vars PROVE NoLostWakeup'
    OBVIOUS
  <1>0. Len(idle) \in Nat /\ created \in Int /\ PoolSize \in Nat
    BY PoolSizeAssumption DEF Inv, TypeOK
  <1>a. ASSUME NEW t \in Threads, t \notin Arriving, Arriving' = Arriving \cup {t}
        PROVE  Cardinality(Arriving') = Cardinality(Arriving) + 1
    BY <1>a, CountsAreNat, FS_AddElement
  <1>b. ASSUME NEW t \in Arriving, Arriving' = Arriving \ {t}
        PROVE  Cardinality(Arriving') = Cardinality(Arriving) - 1
    BY <1>b, CountsAreNat, FS_RemoveElement
  <1>c. ASSUME UNCHANGED <<idle, created>>, Arriving' = Arriving, Waiting' = Waiting
        PROVE  NoLostWakeup'
    BY <1>c DEF NoLostWakeup
  <1> USE DEF NoLostWakeup
  <1>1. ASSUME NEW t \in Threads, CallAcquire(t) PROVE NoLostWakeup'
    <2>1. /\ t \notin Arriving /\ Arriving' = Arriving \cup {t}
          /\ Waiting' = Waiting /\ UNCHANGED <<idle, created>>
      BY <1>1 DEF CallAcquire, Inv, TypeOK, Arriving, Waiting
    <2>2. Cardinality(Arriving') = Cardinality(Arriving) + 1
      BY <1>a, <2>1
    <2>3. QED
      BY <1>0, <2>1, <2>2, CountsAreNat
  <1>2. ASSUME NEW t \in Threads, AcquireIdle(t) PROVE NoLostWakeup'
    <2>1. /\ t \in Arriving /\ Arriving' = Arriving \ {t}
          /\ Waiting' = Waiting /\ UNCHANGED created
      BY <1>2 DEF AcquireIdle, Inv, TypeOK, Arriving, Waiting
    <2>2. Cardinality(Arriving') = Cardinality(Arriving) - 1
      BY <1>b, <2>1
    <2>3. Len(idle') = Len(idle) - 1
      BY <1>2, HeadTailProperties DEF AcquireIdle, Inv, TypeOK
    <2>4. QED
      BY <1>0, <2>1, <2>2, <2>3, CountsAreNat
  <1>3. ASSUME NEW t \in Threads, AcquireReserve(t) PROVE NoLostWakeup'
    <2>1. /\ t \in Arriving /\ Arriving' = Arriving \ {t}
          /\ Waiting' = Waiting /\ UNCHANGED idle /\ created' = created + 1
      BY <1>3 DEF AcquireReserve, Inv, TypeOK, Arriving, Waiting
    <2>2. Cardinality(Arriving') = Cardinality(Arriving) - 1
      BY <1>b, <2>1
    <2>3. QED
      BY <1>0, <2>1, <2>2, CountsAreNat
  <1>4. ASSUME NEW t \in Threads, AcquireWait(t) PROVE NoLostWakeup'
    <2>1. Len(idle') = 0 /\ created' >= PoolSize /\ created' = created
      BY <1>4, <1>0 DEF AcquireWait
    <2>2. QED
      BY <1>0, <2>1, CountsAreNat
  <1>5. ASSUME NEW t \in Threads, CreateLock(t) PROVE NoLostWakeup'
    BY <1>5, <1>c DEF CreateLock, Inv, TypeOK, Arriving, Waiting
  <1>6. ASSUME NEW t \in Threads, CreateConnect(t) PROVE NoLostWakeup'
    BY <1>6, <1>c DEF CreateConnect, Inv, TypeOK, Arriving, Waiting
  <1>7. ASSUME NEW t \in Threads, CreateReturn(t) PROVE NoLostWakeup'
    BY <1>7, <1>c DEF CreateReturn, Inv, TypeOK, Arriving, Waiting
  <1>8. ASSUME NEW t \in Threads, CreateSetupFails(t) PROVE NoLostWakeup'
    BY <1>8, <1>c DEF CreateSetupFails, Inv, TypeOK, Arriving, Waiting
  <1>9. ASSUME NEW t \in Threads, AcquireUnreserve(t) PROVE NoLostWakeup'
    <2>1. created' = created - 1 /\ idle' = idle /\ pc[t] = "failed"
      BY <1>9 DEF AcquireUnreserve
    <2>2. CASE Waiting = {}
      BY <1>9, <2>2 DEF AcquireUnreserve, NotifyOne, Waiting, Inv, TypeOK
    <2>3. CASE Waiting # {}
      <3>1. PICK u \in Waiting : pc' = [pc EXCEPT ![t] = "out", ![u] = "lock"]
        BY <1>9, <2>3 DEF AcquireUnreserve, NotifyOne
      <3>2. u \in Threads /\ u \notin Arriving /\ Arriving' = Arriving \cup {u}
        BY <2>1, <3>1 DEF Waiting, Arriving, Inv, TypeOK
      <3>3. Cardinality(Arriving') = Cardinality(Arriving) + 1
        BY <1>a, <3>2
      <3>4. QED
        BY <1>0, <2>1, <2>3, <3>3, CountsAreNat
    <2>4. QED
      BY <2>2, <2>3
  <1>10. ASSUME NEW t \in Threads, Release(t) PROVE NoLostWakeup'
    <2>1. /\ t \notin Arriving /\ Arriving' = Arriving \cup {t}
          /\ Waiting' = Waiting /\ UNCHANGED created
      BY <1>10 DEF Release, Inv, TypeOK, Arriving, Waiting
    <2>2. Cardinality(Arriving') = Cardinality(Arriving) + 1
      BY <1>a, <2>1
    <2>3. Len(idle') = Len(idle) + 1
      <3>1. conn[t] \in Connections
        BY <1>10 DEF Release, Inv, TypeOK, OwnsWhileUsing
      <3>2. QED
        BY <1>10, <3>1, AppendProperties DEF Release, Inv, TypeOK
    <2>4. QED
      BY <1>0, <2>1, <2>2, <2>3, CountsAreNat
  <1>11. ASSUME NEW t \in Threads, ReleaseNotify(t) PROVE NoLostWakeup'
    <2>1. UNCHANGED <<idle, created>> /\ pc[t] = "notify"
      BY <1>11 DEF ReleaseNotify
    <2>2. CASE Waiting = {}
      BY <1>11, <2>2 DEF ReleaseNotify, NotifyOne, Waiting, Inv, TypeOK
    <2>3. CASE Waiting # {}
      <3>1. PICK u \in Waiting : pc' = [pc EXCEPT ![t] = "out", ![u] = "lock"]
        BY <1>11, <2>3 DEF ReleaseNotify, NotifyOne
      <3>2. /\ u \in Threads /\ u \notin Arriving /\ u # t
            /\ t \in Arriving /\ Arriving' = (Arriving \cup {u}) \ {t}
        BY <2>1, <3>1 DEF Waiting, Arriving, Inv, TypeOK
      <3>3. /\ IsFiniteSet(Arriving \cup {u})
            /\ Cardinality(Arriving \cup {u}) = Cardinality(Arriving) + 1
        BY <3>2, CountsAreNat, FS_AddElement
      <3>4. Cardinality(Arriving') = Cardinality(Arriving)
        <4>1. Cardinality((Arriving \cup {u}) \ {t}) = Cardinality(Arriving \cup {u}) - 1
          BY <3>2, <3>3, FS_RemoveElement
        <4>2. QED
          BY <3>2, <3>3, <4>1, CountsAreNat
      <3>5. QED
        BY <2>1, <2>3, <3>4
    <2>4. QED
      BY <2>2, <2>3
  <1>12. ASSUME NEW t \in Threads, SpuriousWakeup(t) PROVE NoLostWakeup'
    <2>1. /\ t \notin Arriving /\ Arriving' = Arriving \cup {t}
          /\ Waiting # {} /\ UNCHANGED <<idle, created>>
      BY <1>12 DEF SpuriousWakeup, Inv, TypeOK, Arriving, Waiting
    <2>2. Cardinality(Arriving') = Cardinality(Arriving) + 1
      BY <1>a, <2>1
    <2>3. QED
      BY <1>0, <2>1, <2>2, CountsAreNat
  <1>13. CASE Terminated \/ UNCHANGED vars
    BY <1>13, <1>c DEF Terminated, vars, Arriving, Waiting
  <1> QED
    BY <1>1, <1>2, <1>3, <1>4, <1>5, <1>6, <1>7,
       <1>8, <1>9, <1>10, <1>11, <1>12, <1>13
    DEF Next, ThreadStep

\* No wakeup is lost, for every number of threads and connections.
THEOREM WakeupsArrive == Spec => []NoLostWakeup
  <1>1. Init => NoLostWakeup
    BY DEF Init, NoLostWakeup, Waiting
  <1>2. QED
    BY <1>1, WakeupInductive, Invariance, PTL DEF Spec

\* With at least one connection per thread nobody ever blocks in acquire(),
\* whatever fails: the sizing rule of TgLoggerd::start is sufficient.
THEOREM SizingSuffices == Spec => []NobodyWaits
  <1>1. Init => NobodyWaits
    BY DEF Init, NobodyWaits, Waiting
  <1>2. Inv /\ NobodyWaits /\ [Next]_vars => NobodyWaits'
    <2> SUFFICES ASSUME Inv, NobodyWaits, [Next]_vars,
                        Cardinality(Threads) <= PoolSize
                 PROVE  Waiting' = {}
      BY DEF NobodyWaits
    <2>1. Waiting = {}
      BY DEF NobodyWaits
    <2>2. ASSUME NEW t \in Threads, AcquireWait(t) PROVE FALSE
      <3>1. created = Cardinality(Holders) + Cardinality(Creating) /\ created >= PoolSize
        BY <2>2, CountsAreNat DEF AcquireWait, Inv, Accounting
      <3>2. Holders \cap Creating = {} /\ Holders \cup Creating \subseteq Threads \ {t}
        BY <2>2 DEF AcquireWait, Holders, Creating
      <3>3. Cardinality(Holders \cup Creating) = Cardinality(Holders) + Cardinality(Creating)
        <4>1. Cardinality(Holders \cap Creating) = 0
          BY <3>2, FS_EmptySet
        <4>2. Cardinality(Holders \cup Creating) =
                  Cardinality(Holders) + Cardinality(Creating)
                    - Cardinality(Holders \cap Creating)
          BY FS_Union, CountsAreNat
        <4>3. QED
          BY <4>1, <4>2, CountsAreNat
      <3>4. /\ IsFiniteSet(Threads \ {t})
            /\ Cardinality(Threads \ {t}) = Cardinality(Threads) - 1
        BY ThreadsAssumption, FS_RemoveElement
      <3>5. Cardinality(Holders \cup Creating) <= Cardinality(Threads \ {t})
        BY <3>2, <3>4, FS_Subset
      <3>6. Cardinality(Threads) \in Nat
        BY ThreadsAssumption, FS_CardinalityType
      <3>7. QED
        BY <3>1, <3>3, <3>4, <3>5, <3>6, CountsAreNat, PoolSizeAssumption
    <2>3. ASSUME NEW t \in Threads, AcquireUnreserve(t) \/ ReleaseNotify(t)
          PROVE  Waiting' = {}
      BY <2>1, <2>3 DEF AcquireUnreserve, ReleaseNotify, NotifyOne, Waiting, Inv, TypeOK
    <2>4. QED
      BY <2>1, <2>2, <2>3
      DEF Waiting, Inv, TypeOK, Next, ThreadStep, vars, CallAcquire, AcquireIdle,
          AcquireReserve, CreateLock, CreateConnect, CreateReturn, CreateSetupFails,
          Release, SpuriousWakeup, Terminated
  <1>3. QED
    BY <1>1, <1>2, Invariance, PTL DEF Spec
=============================================================================
