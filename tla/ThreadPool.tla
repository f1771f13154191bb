----------------------------- MODULE ThreadPool -----------------------------
(***************************************************************************)
(* tgloggerd::ThreadPool: a bounded FIFO of jobs, a fixed set of worker    *)
(* threads, posters that block while the queue is full, and a shutdown     *)
(* that drains the queue before it joins the workers.                      *)
(*                                                                         *)
(* A critical section under mtx_ is one step.  A thread at "lock" is about *)
(* to acquire mtx_ and evaluate the predicate of its wait; a thread at     *)
(* "not_empty" or "not_full" is blocked on that condition variable, and    *)
(* only a notification or a spurious wakeup takes it back to "lock".       *)
(* Notifications that the code issues after the unlock are steps of their  *)
(* own.  A job is the pair <<poster, how many posts it had made>>; what a  *)
(* job does is left to the modules that compose pools.                     *)
(***************************************************************************)
EXTENDS Naturals, Sequences, FiniteSets

CONSTANTS Workers,       \* the threads_ of the pool
          Posters,       \* the threads that call post()
          Cap,           \* cap_, 0 for unbounded
          MaxPosts,      \* bound: how often each poster calls post()
          MaxShutdowns,  \* bound: how often shutdown() is called
          NoJob          \* the empty std::function of an idle worker

Jobs == Posters \X (1 .. MaxPosts)

ASSUME PoolAssumption == /\ Cap \in Nat
                         /\ MaxPosts \in Nat
                         /\ MaxShutdowns \in Nat
                         /\ NoJob \notin Jobs
\* The constructor raises a thread count of 0 to 1.
ASSUME WorkersAssumption == IsFiniteSet(Workers) /\ Workers # {}
ASSUME PostersAssumption == IsFiniteSet(Posters)

VARIABLES q,          \* q_
          draining,   \* draining_
          ppc,        \* ppc[p]: where poster p is in post()
          posted,     \* posted[p]: how many times p has called post()
          wpc,        \* wpc[w]: where worker w is in run()
          cur,        \* cur[w]: the local `job` of worker w
          spc,        \* where the caller of shutdown() is
          shutdowns,  \* how often shutdown() has been called
          accepted,   \* history: jobs pushed onto q_, in that order
          started,    \* history: jobs popped from q_, in that order
          completed   \* history: jobs that returned or threw, in that order

vars == <<q, draining, ppc, posted, wpc, cur, spc, shutdowns,
          accepted, started, completed>>

TypeOK == /\ q \in Seq(Jobs)
          /\ draining \in BOOLEAN
          /\ ppc \in [Posters -> {"idle", "lock", "not_full"}]
          /\ posted \in [Posters -> 0 .. MaxPosts]
          /\ wpc \in [Workers -> {"lock", "not_empty", "notify", "job", "exited"}]
          /\ cur \in [Workers -> Jobs \cup {NoJob}]
          /\ spc \in {"idle", "wake_workers", "wake_posters", "join", "returned"}
          /\ shutdowns \in 0 .. MaxShutdowns
          /\ accepted \in Seq(Jobs)
          /\ started \in Seq(Jobs)
          /\ completed \in Seq(Jobs)

Init == /\ q = <<>>
        /\ draining = FALSE
        /\ ppc = [p \in Posters |-> "idle"]
        /\ posted = [p \in Posters |-> 0]
        /\ wpc = [w \in Workers |-> "lock"]
        /\ cur = [w \in Workers |-> NoJob]
        /\ spc = "idle"
        /\ shutdowns = 0
        /\ accepted = <<>>
        /\ started = <<>>
        /\ completed = <<>>

WaitingWorkers == {w \in Workers : wpc[w] = "not_empty"}
WaitingPosters == {p \in Posters : ppc[p] = "not_full"}
AllExited == \A w \in Workers : wpc[w] = "exited"

-----------------------------------------------------------------------------
(* post() *)

CallPost(p) ==
    /\ ppc[p] = "idle"
    /\ posted[p] < MaxPosts
    /\ ppc' = [ppc EXCEPT ![p] = "lock"]
    /\ posted' = [posted EXCEPT ![p] = @ + 1]
    /\ UNCHANGED <<q, draining, wpc, cur, spc, shutdowns,
                   accepted, started, completed>>

\* The predicate of not_full_.wait; with cap_ = 0 there is no wait.
MayProceed == Cap = 0 \/ Len(q) < Cap \/ draining

PostWait(p) ==
    /\ ppc[p] = "lock"
    /\ ~MayProceed
    /\ ppc' = [ppc EXCEPT ![p] = "not_full"]
    /\ UNCHANGED <<q, draining, posted, wpc, cur, spc, shutdowns,
                   accepted, started, completed>>

PostDrop(p) ==
    /\ ppc[p] = "lock"
    /\ draining
    /\ ppc' = [ppc EXCEPT ![p] = "idle"]
    /\ UNCHANGED <<q, draining, posted, wpc, cur, spc, shutdowns,
                   accepted, started, completed>>

\* not_empty_.notify_one(): some waiting worker, if there is one.
NotifyOneWorker ==
    IF WaitingWorkers = {}
    THEN UNCHANGED wpc
    ELSE \E w \in WaitingWorkers : wpc' = [wpc EXCEPT ![w] = "lock"]

\* Mutant: draining_ is not examined again after the wait.
PostEnqueue_Late(p) ==
    /\ ppc[p] = "lock"
    /\ MayProceed
    /\ q' = Append(q, <<p, posted[p]>>)
    /\ accepted' = Append(accepted, <<p, posted[p]>>)
    /\ ppc' = [ppc EXCEPT ![p] = "idle"]
    /\ NotifyOneWorker
    /\ UNCHANGED <<draining, posted, cur, spc, shutdowns, started, completed>>

PostEnqueue(p) ==
    /\ ppc[p] = "lock"
    /\ MayProceed
    /\ ~draining
    /\ q' = Append(q, <<p, posted[p]>>)
    /\ accepted' = Append(accepted, <<p, posted[p]>>)
    /\ ppc' = [ppc EXCEPT ![p] = "idle"]
    /\ NotifyOneWorker
    /\ UNCHANGED <<draining, posted, cur, spc, shutdowns, started, completed>>

-----------------------------------------------------------------------------
(* run() *)

RunWait(w) ==
    /\ wpc[w] = "lock"
    /\ q = <<>>
    /\ ~draining
    /\ wpc' = [wpc EXCEPT ![w] = "not_empty"]
    /\ UNCHANGED <<q, draining, ppc, posted, cur, spc, shutdowns,
                   accepted, started, completed>>

\* Mutant: a worker leaves as soon as the pool drains.
RunExit_Early(w) ==
    /\ wpc[w] = "lock"
    /\ draining
    /\ wpc' = [wpc EXCEPT ![w] = "exited"]
    /\ UNCHANGED <<q, draining, ppc, posted, cur, spc, shutdowns,
                   accepted, started, completed>>

RunExit(w) ==
    /\ wpc[w] = "lock"
    /\ q = <<>>
    /\ draining
    /\ wpc' = [wpc EXCEPT ![w] = "exited"]
    /\ UNCHANGED <<q, draining, ppc, posted, cur, spc, shutdowns,
                   accepted, started, completed>>

RunTake(w) ==
    /\ wpc[w] = "lock"
    /\ q # <<>>
    /\ cur' = [cur EXCEPT ![w] = Head(q)]
    /\ started' = Append(started, Head(q))
    /\ q' = Tail(q)
    /\ wpc' = [wpc EXCEPT ![w] = "notify"]
    /\ UNCHANGED <<draining, ppc, posted, spc, shutdowns, accepted, completed>>

\* Mutant: no not_full_.notify_one().
RunNotify_None(w) ==
    /\ wpc[w] = "notify"
    /\ wpc' = [wpc EXCEPT ![w] = "job"]
    /\ UNCHANGED <<q, draining, ppc, posted, cur, spc, shutdowns,
                   accepted, started, completed>>

\* not_full_.notify_one(), after the unlock.
RunNotify(w) ==
    /\ wpc[w] = "notify"
    /\ wpc' = [wpc EXCEPT ![w] = "job"]
    /\ IF WaitingPosters = {}
       THEN UNCHANGED ppc
       ELSE \E p \in WaitingPosters : ppc' = [ppc EXCEPT ![p] = "lock"]
    /\ UNCHANGED <<q, draining, posted, cur, spc, shutdowns,
                   accepted, started, completed>>

\* job() returns, or throws and is caught: the worker goes on either way.
RunJob(w) ==
    /\ wpc[w] = "job"
    /\ completed' = Append(completed, cur[w])
    /\ cur' = [cur EXCEPT ![w] = NoJob]
    /\ wpc' = [wpc EXCEPT ![w] = "lock"]
    /\ UNCHANGED <<q, draining, ppc, posted, spc, shutdowns, accepted, started>>

-----------------------------------------------------------------------------
(* shutdown(): called by the owner, and once more by the destructor *)

ShutdownFlag ==
    /\ spc \in {"idle", "returned"}
    /\ shutdowns < MaxShutdowns
    /\ shutdowns' = shutdowns + 1
    /\ draining' = TRUE
    /\ spc' = "wake_workers"
    /\ UNCHANGED <<q, ppc, posted, wpc, cur, accepted, started, completed>>

\* Mutant: no not_empty_.notify_all().
ShutdownNotifyWorkers_None ==
    /\ spc = "wake_workers"
    /\ spc' = "wake_posters"
    /\ UNCHANGED <<q, draining, ppc, posted, wpc, cur, shutdowns,
                   accepted, started, completed>>

ShutdownNotifyWorkers ==
    /\ spc = "wake_workers"
    /\ wpc' = [w \in Workers |-> IF wpc[w] = "not_empty" THEN "lock" ELSE wpc[w]]
    /\ spc' = "wake_posters"
    /\ UNCHANGED <<q, draining, ppc, posted, cur, shutdowns,
                   accepted, started, completed>>

\* Mutant: no not_full_.notify_all().
ShutdownNotifyPosters_None ==
    /\ spc = "wake_posters"
    /\ spc' = "join"
    /\ UNCHANGED <<q, draining, ppc, posted, wpc, cur, shutdowns,
                   accepted, started, completed>>

ShutdownNotifyPosters ==
    /\ spc = "wake_posters"
    /\ ppc' = [p \in Posters |-> IF ppc[p] = "not_full" THEN "lock" ELSE ppc[p]]
    /\ spc' = "join"
    /\ UNCHANGED <<q, draining, posted, wpc, cur, shutdowns,
                   accepted, started, completed>>

\* join() of a thread that was joined before is skipped by joinable().
ShutdownJoin ==
    /\ spc = "join"
    /\ AllExited
    /\ spc' = "returned"
    /\ UNCHANGED <<q, draining, ppc, posted, wpc, cur, shutdowns,
                   accepted, started, completed>>

-----------------------------------------------------------------------------
\* A condition variable may wake a waiter that nobody notified.
SpuriousWakeup ==
    /\ \/ /\ \E w \in WaitingWorkers : wpc' = [wpc EXCEPT ![w] = "lock"]
          /\ UNCHANGED ppc
       \/ /\ \E p \in WaitingPosters : ppc' = [ppc EXCEPT ![p] = "lock"]
          /\ UNCHANGED wpc
    /\ UNCHANGED <<q, draining, posted, cur, spc, shutdowns,
                   accepted, started, completed>>

\* Not a step of the code: all threads have ended.
Terminated ==
    /\ AllExited
    /\ spc = "returned"
    /\ shutdowns = MaxShutdowns
    /\ \A p \in Posters : ppc[p] = "idle" /\ posted[p] = MaxPosts
    /\ UNCHANGED vars

PosterStep(p) == PostWait(p) \/ PostDrop(p) \/ PostEnqueue(p)

WorkerStep(w) ==
    RunWait(w) \/ RunExit(w) \/ RunTake(w) \/ RunNotify(w) \/ RunJob(w)

ShutdownStep == ShutdownNotifyWorkers \/ ShutdownNotifyPosters \/ ShutdownJoin

Next == \/ \E p \in Posters : CallPost(p) \/ PosterStep(p)
        \/ \E w \in Workers : WorkerStep(w)
        \/ ShutdownFlag
        \/ ShutdownStep
        \/ SpuriousWakeup
        \/ Terminated

Spec == Init /\ [][Next]_vars

\* The operating system runs every thread that can run, and jobs terminate.
\* Nobody is obliged to call post() or shutdown(), or to wake spuriously.
Fairness == /\ \A p \in Posters : WF_vars(PosterStep(p))
            /\ \A w \in Workers : WF_vars(WorkerStep(w))
            /\ WF_vars(ShutdownStep)

FairSpec == Spec /\ Fairness

-----------------------------------------------------------------------------
(* Properties *)

\* post() and run() lose, duplicate and reorder nothing between push_back and
\* pop_front: what has been accepted is what was started followed by what is
\* still queued.
FifoOrder == accepted = started \o q

\* With one thread the pool is the "strict serial executor" ThreadPool.hpp
\* promises: jobs finish exactly in the order in which they were accepted, and
\* at most one is between the two.
SerialOrder ==
    \A w \in Workers :
        Workers = {w} =>
            started = IF cur[w] = NoJob THEN completed ELSE Append(completed, cur[w])

\* shutdown() returns (the first time and every time after) only when each
\* accepted job has run to its end and no worker is left: "drains everything
\* already queued, then joins".
DrainedOnReturn ==
    spc = "returned" =>
        /\ q = <<>>
        /\ AllExited
        /\ \A w \in Workers : cur[w] = NoJob
        /\ Len(completed) = Len(accepted)

AtLock == {w \in Workers : wpc[w] = "lock"}
Announcing == {w \in Workers : wpc[w] = "notify"}
Examining == {p \in Posters : ppc[p] = "lock"}

WorkerIsWoken == WaitingWorkers # {} => Len(q) <= Cardinality(AtLock)

PosterIsWoken ==
    WaitingPosters # {} /\ ~draining =>
        Cap <= Len(q) + Cardinality(Announcing) + Cardinality(Examining)

DrainWakesAll ==
    /\ draining /\ spc # "wake_workers" => WaitingWorkers = {}
    /\ draining /\ spc \notin {"wake_workers", "wake_posters"} => WaitingPosters = {}

\* No notification is lost.  While a worker is blocked on not_empty_, each
\* queued job has a worker on its way to mtx_ to take it; while a poster is
\* blocked on not_full_, each free slot is being announced by a worker or about
\* to be examined by a poster; and once shutdown() has notified a condition
\* variable nobody blocks on it again.  This is what lets post() and run() use
\* notify_one(), and run() notify after the unlock.
NoLostWakeup == WorkerIsWoken /\ PosterIsWoken /\ DrainWakesAll

\* A blocked post() returns: backpressure never turns into a hang, also when
\* shutdown() begins while the poster waits for a slot.
PostReturns == \A p \in Posters : ppc[p] # "idle" ~> ppc[p] = "idle"

\* shutdown() returns, whatever was queued or blocked when it was called.
ShutdownReturns == spc = "wake_workers" ~> spc = "returned"

\* The pool implements the abstract executor.  The last worker to leave run()
\* is the step at which the executor has stopped.
Exec == INSTANCE Executor
            WITH pending <- q, running <- cur, done <- completed,
                 open <- ~draining, stopped <- AllExited

\* Every step of the pool's threads is a step of the executor or changes
\* nothing the executor's callers can see.
ImplementsExecutor == Exec!Spec
=============================================================================
