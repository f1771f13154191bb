--------------------------- MODULE ConnectionPool ---------------------------
(***************************************************************************)
(* mysql::ConnectionPool and the ScopedConnection through which every      *)
(* statement and transaction of mysql::Database borrows a connection.      *)
(*                                                                         *)
(* As in ThreadPool, a critical section under mtx_ is one step and what    *)
(* happens after the unlock is a step of its own.  A connection is named   *)
(* by the order in which it was opened; the code never closes one before   *)
(* the pool is destroyed.                                                  *)
(***************************************************************************)
EXTENDS Naturals, Sequences, FiniteSets

CONSTANTS Threads,   \* the threads that use the database
          PoolSize,  \* cfg_.pool_size
          MaxCalls   \* bound: how often each thread borrows a connection

\* The constructor raises a pool_size of 0 to 1.
ASSUME PoolSizeAssumption == PoolSize \in Nat \ {0}
ASSUME MaxCallsAssumption == MaxCalls \in Nat
ASSUME ThreadsAssumption == IsFiniteSet(Threads)

Null == 0
Connections == 1 .. PoolSize

VARIABLES idle,     \* idle_
          created,  \* created_
          creator,  \* the threads that hold create_mtx_ (at most one)
          pc,       \* pc[t]: where thread t is
          conn,     \* conn[t]: the connection thread t owns, or Null
          calls,    \* calls[t]: how often t has called acquire()
          opened    \* how many connections driver->connect() and the session
                    \* setup have produced

vars == <<idle, created, creator, pc, conn, calls, opened>>

\* "out": not using the database; "lock": about to take mtx_ at the top of
\* acquire()'s loop; "wait": blocked on cv_; "create": about to take create_mtx_;
\* "connect": in driver->connect(); "setup": setSchema and the SET statements;
\* "failed": in the catch block, before lock.lock(); "using": owns a connection;
\* "notify": in release(), after the unlock.
PCs == {"out", "lock", "wait", "create", "connect", "setup", "failed", "using",
        "notify"}

TypeOK == /\ idle \in Seq(Connections)
          /\ created \in 0 .. PoolSize
          /\ creator \subseteq Threads
          /\ pc \in [Threads -> PCs]
          /\ conn \in [Threads -> Connections \cup {Null}]
          /\ calls \in [Threads -> 0 .. MaxCalls]
          /\ opened \in 0 .. PoolSize

Init == /\ idle = <<>>
        /\ created = 0
        /\ creator = {}
        /\ pc = [t \in Threads |-> "out"]
        /\ conn = [t \in Threads |-> Null]
        /\ calls = [t \in Threads |-> 0]
        /\ opened = 0

Waiting == {t \in Threads : pc[t] = "wait"}

\* cv_.notify_one() by thread t, which goes on to `next`.
NotifyOne(t, next) ==
    IF Waiting = {}
    THEN pc' = [pc EXCEPT ![t] = next]
    ELSE \E u \in Waiting : pc' = [pc EXCEPT ![t] = next, ![u] = "lock"]

-----------------------------------------------------------------------------
(* acquire() *)

CallAcquire(t) ==
    /\ pc[t] = "out"
    /\ calls[t] < MaxCalls
    /\ calls' = [calls EXCEPT ![t] = @ + 1]
    /\ pc' = [pc EXCEPT ![t] = "lock"]
    /\ UNCHANGED <<idle, created, creator, conn, opened>>

\* Mutant: the connection stays in idle_.
AcquireIdle_NoPop(t) ==
    /\ pc[t] = "lock"
    /\ idle # <<>>
    /\ conn' = [conn EXCEPT ![t] = Head(idle)]
    /\ pc' = [pc EXCEPT ![t] = "using"]
    /\ UNCHANGED <<idle, created, creator, calls, opened>>

AcquireIdle(t) ==
    /\ pc[t] = "lock"
    /\ idle # <<>>
    /\ conn' = [conn EXCEPT ![t] = Head(idle)]
    /\ idle' = Tail(idle)
    /\ pc' = [pc EXCEPT ![t] = "using"]
    /\ UNCHANGED <<created, creator, calls, opened>>

AcquireReserve(t) ==
    /\ pc[t] = "lock"
    /\ idle = <<>>
    /\ created < PoolSize
    /\ created' = created + 1
    /\ pc' = [pc EXCEPT ![t] = "create"]
    /\ UNCHANGED <<idle, creator, conn, calls, opened>>

AcquireWait(t) ==
    /\ pc[t] = "lock"
    /\ idle = <<>>
    /\ created >= PoolSize
    /\ pc' = [pc EXCEPT ![t] = "wait"]
    /\ UNCHANGED <<idle, created, creator, conn, calls, opened>>

-----------------------------------------------------------------------------
(* create(), outside mtx_ *)

CreateLock(t) ==
    /\ pc[t] = "create"
    /\ creator = {}
    /\ creator' = {t}
    /\ pc' = [pc EXCEPT ![t] = "connect"]
    /\ UNCHANGED <<idle, created, conn, calls, opened>>

\* driver->connect() returns or throws; the lock_guard releases create_mtx_.
CreateConnect(t) ==
    /\ pc[t] = "connect"
    /\ creator' = creator \ {t}
    /\ \E next \in {"setup", "failed"} : pc' = [pc EXCEPT ![t] = next]
    /\ UNCHANGED <<idle, created, conn, calls, opened>>

\* The session is set up and acquire() returns the new connection.
CreateReturn(t) ==
    /\ pc[t] = "setup"
    /\ opened' = opened + 1
    /\ conn' = [conn EXCEPT ![t] = opened + 1]
    /\ pc' = [pc EXCEPT ![t] = "using"]
    /\ UNCHANGED <<idle, created, creator, calls>>

\* setSchema or a SET statement throws: the half-made connection is destroyed.
CreateSetupFails(t) ==
    /\ pc[t] = "setup"
    /\ pc' = [pc EXCEPT ![t] = "failed"]
    /\ UNCHANGED <<idle, created, creator, conn, calls, opened>>

\* Mutant: the catch block keeps the reservation.
AcquireUnreserve_Leak(t) ==
    /\ pc[t] = "failed"
    /\ NotifyOne(t, "out")
    /\ UNCHANGED <<idle, created, creator, conn, calls, opened>>

\* Mutant: the catch block wakes nobody.
AcquireUnreserve_NoNotify(t) ==
    /\ pc[t] = "failed"
    /\ created' = created - 1
    /\ pc' = [pc EXCEPT ![t] = "out"]
    /\ UNCHANGED <<idle, creator, conn, calls, opened>>

\* The catch block of acquire(): give the reservation back, wake one waiter,
\* rethrow to the caller.
AcquireUnreserve(t) ==
    /\ pc[t] = "failed"
    /\ created' = created - 1
    /\ NotifyOne(t, "out")
    /\ UNCHANGED <<idle, creator, conn, calls, opened>>

-----------------------------------------------------------------------------
(* release(), from the destructor of ScopedConnection *)

Release(t) ==
    /\ pc[t] = "using"
    /\ idle' = Append(idle, conn[t])
    /\ conn' = [conn EXCEPT ![t] = Null]
    /\ pc' = [pc EXCEPT ![t] = "notify"]
    /\ UNCHANGED <<created, creator, calls, opened>>

\* Mutant: release() wakes nobody.
ReleaseNotify_None(t) ==
    /\ pc[t] = "notify"
    /\ pc' = [pc EXCEPT ![t] = "out"]
    /\ UNCHANGED <<idle, created, creator, conn, calls, opened>>

ReleaseNotify(t) ==
    /\ pc[t] = "notify"
    /\ NotifyOne(t, "out")
    /\ UNCHANGED <<idle, created, creator, conn, calls, opened>>

-----------------------------------------------------------------------------
SpuriousWakeup(t) ==
    /\ pc[t] = "wait"
    /\ pc' = [pc EXCEPT ![t] = "lock"]
    /\ UNCHANGED <<idle, created, creator, conn, calls, opened>>

\* Not a step of the code: nobody will use the database again.
Terminated == /\ \A t \in Threads : pc[t] = "out" /\ calls[t] = MaxCalls
              /\ UNCHANGED vars

ThreadStep(t) ==
    \/ AcquireIdle(t) \/ AcquireReserve(t) \/ AcquireWait(t)
    \/ CreateLock(t) \/ CreateConnect(t) \/ CreateReturn(t) \/ CreateSetupFails(t)
    \/ AcquireUnreserve(t)
    \/ Release(t) \/ ReleaseNotify(t)

Next == \/ \E t \in Threads : CallAcquire(t) \/ ThreadStep(t) \/ SpuriousWakeup(t)
        \/ Terminated

Spec == Init /\ [][Next]_vars

\* Threads that can run do; connect() and the statements return or throw.
Fairness == \A t \in Threads : WF_vars(ThreadStep(t))

FairSpec == Spec /\ Fairness

-----------------------------------------------------------------------------
(* Properties *)

Holders == {t \in Threads : pc[t] = "using"}
Creating == {t \in Threads : pc[t] \in {"create", "connect", "setup", "failed"}}

\* No connection is lent to two threads, or lent while it is in idle_, or in
\* idle_ twice: a sql::Connection must not be used concurrently.  And none is
\* leaked: every opened connection is lent or idle.
Exclusive ==
    /\ \A t, u \in Holders : conn[t] = conn[u] => t = u
    /\ \A t \in Holders, i \in 1 .. Len(idle) : conn[t] # idle[i]
    /\ \A i, j \in 1 .. Len(idle) : idle[i] = idle[j] => i = j
    /\ 1 .. opened = {conn[t] : t \in Holders} \cup {idle[i] : i \in 1 .. Len(idle)}

\* created_ counts exactly the idle connections, the lent ones and the ones
\* being created: a failed create() gives its slot back once and only once, so
\* the pool neither shrinks nor exceeds pool_size.
Accounting ==
    created = Len(idle) + Cardinality(Holders) + Cardinality(Creating)

Arriving == {t \in Threads : pc[t] \in {"lock", "notify"}}

\* No wakeup is lost: while a thread waits for a connection, each idle
\* connection and each free slot has a thread on its way to it or about to wake
\* somebody, although release() notifies after the unlock and cv_.wait() has no
\* predicate of its own.
NoLostWakeup ==
    Waiting # {} => Len(idle) + PoolSize <= created + Cardinality(Arriving)

\* TgLoggerd::start sizes the pool so that no database thread ever blocks in
\* acquire(): with a connection per thread nobody waits.
NobodyWaits == Cardinality(Threads) <= PoolSize => Waiting = {}

\* acquire() returns a connection or throws: no caller is left waiting while
\* the others stop using the database, also when every create() fails.
AcquireReturns ==
    \A t \in Threads : pc[t] \notin {"out", "using"} ~> pc[t] \in {"out", "using"}
=============================================================================
