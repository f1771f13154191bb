-------------------------- MODULE ThreadPoolProofs --------------------------
(***************************************************************************)
(* Proofs about ThreadPool, for every set of workers and posters, every    *)
(* capacity and every number of calls: it is FIFO, it is serial when it    *)
(* has one worker, shutdown() drains it, and it implements Executor.       *)
(***************************************************************************)
EXTENDS ThreadPool, SequenceTheorems, FiniteSetTheorems, TLAPS

(* Two facts about sequences that FifoOrder turns on. *)

\* Pushing at the back of q_ is appending to everything accepted so far.
LEMMA AppendAfterConcat ==
    ASSUME NEW S, NEW s \in Seq(S), NEW t \in Seq(S), NEW x \in S
    PROVE  s \o Append(t, x) = Append(s \o t, x)
  OBVIOUS

\* Popping the front of q_ moves the boundary between started and queued jobs.
LEMMA MoveHead ==
    ASSUME NEW S, NEW s \in Seq(S), NEW t \in Seq(S), t # <<>>
    PROVE  Append(s, Head(t)) \o Tail(t) = s \o t
  OBVIOUS

-----------------------------------------------------------------------------
(* The inductive invariant *)

\* A worker holds a job exactly between the pop and the end of the job.
BusyWorkers == \A w \in Workers : cur[w] # NoJob <=> wpc[w] \in {"notify", "job"}

\* A worker leaves run() only after shutdown() began and with nothing queued.
ExitedAfterDrain == \A w \in Workers : wpc[w] = "exited" => draining /\ q = <<>>

\* shutdown() has set draining_ before it does anything else, and it returns
\* after the joins.
ShutdownPhase == /\ spc # "idle" => draining
                 /\ spc = "returned" => AllExited

\* Every popped job is finished or in the hands of one worker.
Busy == {w \in Workers : cur[w] # NoJob}
StartedIsCounted == Len(started) = Len(completed) + Cardinality(Busy)

\* A poster inside post() has been counted, so its job is one of Jobs.
CallCounted == \A p \in Posters : ppc[p] # "idle" => posted[p] \in 1 .. MaxPosts

\* What each thread holds agrees with where it is.
Control == TypeOK /\ CallCounted /\ BusyWorkers

Inv == /\ Control
       /\ FifoOrder
       /\ ExitedAfterDrain
       /\ ShutdownPhase
       /\ StartedIsCounted

-----------------------------------------------------------------------------
(* Types and program counters *)

\* Every variable of the pool stays in its type, and every thread holds what
\* its program counter says.
LEMMA ControlInductive == Control /\ [Next]_vars => Control'
  <1> SUFFICES ASSUME Control, [Next]_vars PROVE Control'
    OBVIOUS
  <1> USE PoolAssumption DEF Control, TypeOK, CallCounted, BusyWorkers, vars
  <1>1. ASSUME NEW p \in Posters, CallPost(p) PROVE Control'
    BY <1>1 DEF CallPost
  <1>2. ASSUME NEW p \in Posters, PostWait(p) PROVE Control'
    BY <1>2 DEF PostWait
  <1>3. ASSUME NEW p \in Posters, PostDrop(p) PROVE Control'
    BY <1>3 DEF PostDrop
  <1>4. ASSUME NEW p \in Posters, PostEnqueue(p) PROVE Control'
    <2>1. <<p, posted[p]>> \in Jobs
      BY <1>4 DEF PostEnqueue, Jobs
    <2>2. q' \in Seq(Jobs) /\ accepted' \in Seq(Jobs)
      BY <1>4, <2>1 DEF PostEnqueue
    <2>3. wpc' \in [Workers -> {"lock", "not_empty", "notify", "job", "exited"}]
      BY <1>4 DEF PostEnqueue, NotifyOneWorker, WaitingWorkers
    <2>4. BusyWorkers'
      BY <1>4 DEF PostEnqueue, NotifyOneWorker, WaitingWorkers
    <2>5. QED
      BY <1>4, <2>2, <2>3, <2>4 DEF PostEnqueue
  <1>5. ASSUME NEW w \in Workers, RunWait(w) PROVE Control'
    BY <1>5 DEF RunWait
  <1>6. ASSUME NEW w \in Workers, RunExit(w) PROVE Control'
    BY <1>6 DEF RunExit
  <1>7. ASSUME NEW w \in Workers, RunTake(w) PROVE Control'
    <2>1. Head(q) \in Jobs /\ Tail(q) \in Seq(Jobs)
      BY <1>7, HeadTailProperties DEF RunTake
    <2>2. QED
      BY <1>7, <2>1 DEF RunTake
  <1>8. ASSUME NEW w \in Workers, RunNotify(w) PROVE Control'
    BY <1>8 DEF RunNotify, WaitingPosters
  <1>9. ASSUME NEW w \in Workers, RunJob(w) PROVE Control'
    BY <1>9 DEF RunJob
  <1>10. CASE ShutdownFlag
    BY <1>10 DEF ShutdownFlag
  <1>11. CASE ShutdownNotifyWorkers
    BY <1>11 DEF ShutdownNotifyWorkers
  <1>12. CASE ShutdownNotifyPosters
    BY <1>12 DEF ShutdownNotifyPosters
  <1>13. CASE ShutdownJoin
    BY <1>13 DEF ShutdownJoin
  <1>14. CASE SpuriousWakeup
    BY <1>14 DEF SpuriousWakeup, WaitingWorkers, WaitingPosters
  <1>15. CASE Terminated \/ UNCHANGED vars
    BY <1>15 DEF Terminated
  <1> QED
    BY <1>1, <1>2, <1>3, <1>4, <1>5, <1>6, <1>7, <1>8, <1>9, <1>10, <1>11,
       <1>12, <1>13, <1>14, <1>15
    DEF Next, PosterStep, WorkerStep, ShutdownStep

-----------------------------------------------------------------------------
(* The queue *)

\* Only push_back and pop_front touch the queue and its histories, and both
\* keep what was accepted equal to what was started followed by the queue.
LEMMA FifoInductive == Control /\ FifoOrder /\ [Next]_vars => FifoOrder'
  <1> SUFFICES ASSUME Control, FifoOrder, [Next]_vars PROVE FifoOrder'
    OBVIOUS
  <1> USE DEF FifoOrder, vars
  <1>1. ASSUME NEW p \in Posters, CallPost(p) PROVE FifoOrder'
    BY <1>1 DEF CallPost
  <1>2. ASSUME NEW p \in Posters, PostWait(p) PROVE FifoOrder'
    BY <1>2 DEF PostWait
  <1>3. ASSUME NEW p \in Posters, PostDrop(p) PROVE FifoOrder'
    BY <1>3 DEF PostDrop
  <1>4. ASSUME NEW p \in Posters, PostEnqueue(p) PROVE FifoOrder'
    <2>1. <<p, posted[p]>> \in Jobs
      BY <1>4 DEF PostEnqueue, Control, TypeOK, CallCounted, Jobs
    <2>2. QED
      <3> DEFINE job == <<p, posted[p]>>
      <3>1. /\ started \in Seq(Jobs) /\ q \in Seq(Jobs) /\ job \in Jobs
            /\ accepted' = Append(accepted, job)
            /\ q' = Append(q, job)
            /\ started' = started
        BY <1>4, <2>1 DEF PostEnqueue, Control, TypeOK
      <3> HIDE DEF job
      <3>2. started \o Append(q, job) = Append(started \o q, job)
        BY <3>1, AppendAfterConcat
      <3>3. QED
        BY <3>1, <3>2
  <1>5. ASSUME NEW w \in Workers, RunWait(w) PROVE FifoOrder'
    BY <1>5 DEF RunWait
  <1>6. ASSUME NEW w \in Workers, RunExit(w) PROVE FifoOrder'
    BY <1>6 DEF RunExit
  <1>7. ASSUME NEW w \in Workers, RunTake(w) PROVE FifoOrder'
    BY <1>7, MoveHead DEF RunTake, Control, TypeOK
  <1>8. ASSUME NEW w \in Workers, RunNotify(w) PROVE FifoOrder'
    BY <1>8 DEF RunNotify
  <1>9. ASSUME NEW w \in Workers, RunJob(w) PROVE FifoOrder'
    BY <1>9 DEF RunJob
  <1>10. CASE ShutdownFlag
    BY <1>10 DEF ShutdownFlag
  <1>11. CASE ShutdownNotifyWorkers
    BY <1>11 DEF ShutdownNotifyWorkers
  <1>12. CASE ShutdownNotifyPosters
    BY <1>12 DEF ShutdownNotifyPosters
  <1>13. CASE ShutdownJoin
    BY <1>13 DEF ShutdownJoin
  <1>14. CASE SpuriousWakeup
    BY <1>14 DEF SpuriousWakeup
  <1>15. CASE Terminated \/ UNCHANGED vars
    BY <1>15 DEF Terminated
  <1> QED
    BY <1>1, <1>2, <1>3, <1>4, <1>5, <1>6, <1>7, <1>8, <1>9, <1>10, <1>11,
       <1>12, <1>13, <1>14, <1>15
    DEF Next, PosterStep, WorkerStep, ShutdownStep

\* Nobody enqueues once draining_ is set, so a worker that saw an empty queue
\* while draining was right to leave; and the joins wait for all of them.
LEMMA DrainInductive ==
    Control /\ ExitedAfterDrain /\ ShutdownPhase /\ [Next]_vars
        => ExitedAfterDrain' /\ ShutdownPhase'
  <1> SUFFICES ASSUME Control, ExitedAfterDrain, ShutdownPhase, [Next]_vars
               PROVE  ExitedAfterDrain' /\ ShutdownPhase'
    OBVIOUS
  <1> USE DEF Control, TypeOK, ExitedAfterDrain, ShutdownPhase, AllExited, vars
  <1>1. ASSUME NEW p \in Posters, CallPost(p) PROVE ExitedAfterDrain' /\ ShutdownPhase'
    BY <1>1 DEF CallPost
  <1>2. ASSUME NEW p \in Posters, PostWait(p) PROVE ExitedAfterDrain' /\ ShutdownPhase'
    BY <1>2 DEF PostWait
  <1>3. ASSUME NEW p \in Posters, PostDrop(p) PROVE ExitedAfterDrain' /\ ShutdownPhase'
    BY <1>3 DEF PostDrop
  <1>4. ASSUME NEW p \in Posters, PostEnqueue(p) PROVE ExitedAfterDrain' /\ ShutdownPhase'
    BY <1>4 DEF PostEnqueue, NotifyOneWorker, WaitingWorkers
  <1>5. ASSUME NEW w \in Workers, RunWait(w) PROVE ExitedAfterDrain' /\ ShutdownPhase'
    BY <1>5 DEF RunWait
  <1>6. ASSUME NEW w \in Workers, RunExit(w) PROVE ExitedAfterDrain' /\ ShutdownPhase'
    BY <1>6 DEF RunExit
  <1>7. ASSUME NEW w \in Workers, RunTake(w) PROVE ExitedAfterDrain' /\ ShutdownPhase'
    BY <1>7 DEF RunTake
  <1>8. ASSUME NEW w \in Workers, RunNotify(w) PROVE ExitedAfterDrain' /\ ShutdownPhase'
    BY <1>8 DEF RunNotify, WaitingPosters
  <1>9. ASSUME NEW w \in Workers, RunJob(w) PROVE ExitedAfterDrain' /\ ShutdownPhase'
    BY <1>9 DEF RunJob
  <1>10. CASE ShutdownFlag
    BY <1>10 DEF ShutdownFlag
  <1>11. CASE ShutdownNotifyWorkers
    BY <1>11 DEF ShutdownNotifyWorkers
  <1>12. CASE ShutdownNotifyPosters
    BY <1>12 DEF ShutdownNotifyPosters
  <1>13. CASE ShutdownJoin
    BY <1>13 DEF ShutdownJoin
  <1>14. CASE SpuriousWakeup
    BY <1>14 DEF SpuriousWakeup, WaitingWorkers, WaitingPosters
  <1>15. CASE Terminated \/ UNCHANGED vars
    BY <1>15 DEF Terminated
  <1> QED
    BY <1>1, <1>2, <1>3, <1>4, <1>5, <1>6, <1>7, <1>8, <1>9, <1>10, <1>11,
       <1>12, <1>13, <1>14, <1>15
    DEF Next, PosterStep, WorkerStep, ShutdownStep

-----------------------------------------------------------------------------
(* Counting *)

\* A pop adds one busy worker and the end of a job removes one.
LEMMA CountInductive ==
    Control /\ StartedIsCounted /\ [Next]_vars => StartedIsCounted'
  <1> SUFFICES ASSUME Control, StartedIsCounted, [Next]_vars
               PROVE  StartedIsCounted'
    OBVIOUS
  <1>0. IsFiniteSet(Busy) /\ Cardinality(Busy) \in Nat
    BY WorkersAssumption, FS_Subset, FS_CardinalityType DEF Busy
  <1> USE DEF StartedIsCounted
  <1>1. ASSUME NEW p \in Posters, CallPost(p) PROVE StartedIsCounted'
    BY <1>1 DEF CallPost, Busy
  <1>2. ASSUME NEW p \in Posters, PostWait(p) PROVE StartedIsCounted'
    BY <1>2 DEF PostWait, Busy
  <1>3. ASSUME NEW p \in Posters, PostDrop(p) PROVE StartedIsCounted'
    BY <1>3 DEF PostDrop, Busy
  <1>4. ASSUME NEW p \in Posters, PostEnqueue(p) PROVE StartedIsCounted'
    BY <1>4 DEF PostEnqueue, Busy
  <1>5. ASSUME NEW w \in Workers, RunWait(w) PROVE StartedIsCounted'
    BY <1>5 DEF RunWait, Busy
  <1>6. ASSUME NEW w \in Workers, RunExit(w) PROVE StartedIsCounted'
    BY <1>6 DEF RunExit, Busy
  <1>7. ASSUME NEW w \in Workers, RunTake(w) PROVE StartedIsCounted'
    <2>1. Head(q) \in Jobs /\ Head(q) # NoJob
      BY <1>7, HeadTailProperties, PoolAssumption DEF RunTake, Control, TypeOK
    <2>2. w \notin Busy /\ Busy' = Busy \cup {w}
      BY <1>7, <2>1 DEF RunTake, Busy, Control, TypeOK, BusyWorkers
    <2>3. Cardinality(Busy') = Cardinality(Busy) + 1
      BY <1>0, <2>2, FS_AddElement
    <2>4. Len(started') = Len(started) + 1 /\ completed' = completed
      BY <1>7, <2>1 DEF RunTake, Control, TypeOK
    <2>5. Len(completed) \in Nat
      BY DEF Control, TypeOK
    <2>6. QED
      BY <1>0, <2>3, <2>4, <2>5
  <1>8. ASSUME NEW w \in Workers, RunNotify(w) PROVE StartedIsCounted'
    BY <1>8 DEF RunNotify, Busy
  <1>9. ASSUME NEW w \in Workers, RunJob(w) PROVE StartedIsCounted'
    <2>1. w \in Busy /\ Busy' = Busy \ {w} /\ cur[w] \in Jobs
      BY <1>9, PoolAssumption DEF RunJob, Busy, Control, TypeOK, BusyWorkers
    <2>2. Cardinality(Busy') = Cardinality(Busy) - 1
      BY <1>0, <2>1, FS_RemoveElement
    <2>3. Len(completed') = Len(completed) + 1 /\ started' = started
      BY <1>9, <2>1 DEF RunJob, Control, TypeOK
    <2>4. Len(completed) \in Nat
      BY DEF Control, TypeOK
    <2>5. QED
      BY <1>0, <2>2, <2>3, <2>4
  <1>10. CASE ShutdownFlag
    BY <1>10 DEF ShutdownFlag, Busy
  <1>11. CASE ShutdownNotifyWorkers
    BY <1>11 DEF ShutdownNotifyWorkers, Busy
  <1>12. CASE ShutdownNotifyPosters
    BY <1>12 DEF ShutdownNotifyPosters, Busy
  <1>13. CASE ShutdownJoin
    BY <1>13 DEF ShutdownJoin, Busy
  <1>14. CASE SpuriousWakeup
    BY <1>14 DEF SpuriousWakeup, Busy
  <1>15. CASE Terminated \/ UNCHANGED vars
    BY <1>15 DEF Terminated, Busy, vars
  <1> QED
    BY <1>1, <1>2, <1>3, <1>4, <1>5, <1>6, <1>7, <1>8, <1>9, <1>10, <1>11,
       <1>12, <1>13, <1>14, <1>15
    DEF Next, PosterStep, WorkerStep, ShutdownStep

-----------------------------------------------------------------------------
(* The safety theorems *)

\* Inv holds in every state of every behaviour of the pool.
THEOREM Invariance == Spec => []Inv
  <1>1. Init => Inv
    <2> SUFFICES ASSUME Init PROVE Inv
      OBVIOUS
    <2>1. Control
      <3>1. TypeOK
        <4>1. posted \in [Posters -> 0 .. MaxPosts] /\ shutdowns \in 0 .. MaxShutdowns
          BY PoolAssumption DEF Init
        <4>2. cur \in [Workers -> Jobs \cup {NoJob}]
          BY DEF Init
        <4>3. q \in Seq(Jobs) /\ accepted \in Seq(Jobs)
              /\ started \in Seq(Jobs) /\ completed \in Seq(Jobs)
          BY DEF Init
        <4>4. ppc \in [Posters -> {"idle", "lock", "not_full"}]
          BY DEF Init
        <4>5. wpc \in [Workers -> {"lock", "not_empty", "notify", "job", "exited"}]
          BY DEF Init
        <4>6. QED
          BY <4>1, <4>2, <4>3, <4>4, <4>5 DEF Init, TypeOK
      <3>2. CallCounted /\ BusyWorkers
        BY DEF Init, CallCounted, BusyWorkers
      <3>3. QED
        BY <3>1, <3>2 DEF Control
    <2>2. Cardinality(Busy) = 0
      <3>1. Busy = {}
        BY DEF Init, Busy
      <3>2. QED
        BY <3>1, FS_EmptySet
    <2>3. QED
      BY <2>1, <2>2, WorkersAssumption
      DEF Init, Inv, FifoOrder, ExitedAfterDrain, ShutdownPhase, StartedIsCounted
  <1>2. Inv /\ [Next]_vars => Inv'
    BY ControlInductive, FifoInductive, DrainInductive, CountInductive DEF Inv
  <1>3. QED
    BY <1>1, <1>2, PTL DEF Spec

\* Type correctness of the pool.
THEOREM TypeCorrect == Spec => []TypeOK
  BY Invariance, PTL DEF Inv, Control

\* The pool is FIFO: nothing is lost, duplicated or reordered between post()
\* and the worker that pops it.
THEOREM Fifo == Spec => []FifoOrder
  BY Invariance, PTL DEF Inv

\* When shutdown() has returned, everything that was accepted has run.
THEOREM ShutdownDrains == Spec => []DrainedOnReturn
  <1>1. Inv => DrainedOnReturn
    <2> SUFFICES ASSUME Inv, spc = "returned" PROVE DrainedOnReturn
      BY DEF DrainedOnReturn
    <2> USE DEF Inv, Control
    <2>1. AllExited /\ q = <<>>
      BY WorkersAssumption DEF ShutdownPhase, ExitedAfterDrain, AllExited
    <2>2. \A w \in Workers : cur[w] = NoJob
      BY <2>1 DEF BusyWorkers, AllExited, TypeOK
    <2>3. Cardinality(Busy) = 0
      <3>1. Busy = {}
        BY <2>2 DEF Busy
      <3>2. QED
        BY <3>1, FS_EmptySet
    <2>4. accepted = started
      BY <2>1, ConcatEmptySeq DEF FifoOrder, TypeOK
    <2>5. Len(completed) = Len(accepted)
      BY <2>3, <2>4 DEF StartedIsCounted, TypeOK
    <2>6. QED
      BY <2>1, <2>2, <2>5 DEF DrainedOnReturn
  <1>2. QED
    BY <1>1, Invariance, PTL

\* With one thread, jobs finish in the order in which they were accepted.
THEOREM Serial == Spec => []SerialOrder
  <1>1. Init => SerialOrder
    BY DEF Init, SerialOrder
  <1>2. Control /\ SerialOrder /\ [Next]_vars => SerialOrder'
    <2> SUFFICES ASSUME Control, SerialOrder, [Next]_vars,
                        NEW v \in Workers, Workers = {v}
                 PROVE  started' = IF cur'[v] = NoJob
                                   THEN completed'
                                   ELSE Append(completed', cur'[v])
      BY DEF SerialOrder
    <2>1. started = IF cur[v] = NoJob THEN completed ELSE Append(completed, cur[v])
      BY DEF SerialOrder
    <2>2. ASSUME NEW w \in Workers, RunTake(w)
          PROVE  cur[v] = NoJob /\ cur'[v] # NoJob /\ started' = Append(started, cur'[v])
      <3>1. w = v
        OBVIOUS
      <3>2. Head(q) \in Jobs
        BY <2>2, HeadTailProperties DEF RunTake, Control, TypeOK
      <3>3. QED
        BY <2>2, <3>1, <3>2, PoolAssumption DEF RunTake, Control, TypeOK, BusyWorkers
    <2>3. ASSUME NEW w \in Workers, RunJob(w)
          PROVE  cur[v] # NoJob /\ cur'[v] = NoJob /\ completed' = Append(completed, cur[v])
      <3>1. w = v
        OBVIOUS
      <3>2. QED
        BY <2>3, <3>1 DEF RunJob, Control, TypeOK, BusyWorkers
    <2>4. CASE \E w \in Workers : RunTake(w)
      BY <2>1, <2>2, <2>4 DEF RunTake
    <2>5. CASE \E w \in Workers : RunJob(w)
      BY <2>1, <2>3, <2>5 DEF RunJob
    <2>6. CASE UNCHANGED <<started, cur, completed>>
      BY <2>1, <2>6
    <2>7. (\E w \in Workers : RunTake(w) \/ RunJob(w))
              \/ UNCHANGED <<started, cur, completed>>
      BY DEF Next, vars, PosterStep, WorkerStep, ShutdownStep, CallPost, PostWait,
             PostDrop, PostEnqueue, RunWait, RunExit, RunNotify, ShutdownFlag,
             ShutdownNotifyWorkers, ShutdownNotifyPosters, ShutdownJoin,
             SpuriousWakeup, Terminated
    <2>8. QED
      BY <2>4, <2>5, <2>6, <2>7
  <1>3. QED
    BY <1>1, <1>2, Invariance, PTL DEF Spec, Inv

-----------------------------------------------------------------------------
(* Notifications *)

\* The sets that NoLostWakeup counts are finite.
LEMMA CountsAreNat ==
    /\ IsFiniteSet(AtLock) /\ Cardinality(AtLock) \in Nat
    /\ IsFiniteSet(Announcing) /\ Cardinality(Announcing) \in Nat
    /\ IsFiniteSet(Examining) /\ Cardinality(Examining) \in Nat
  BY WorkersAssumption, PostersAssumption, FS_Subset, FS_CardinalityType
  DEF AtLock, Announcing, Examining

\* A worker blocks only on an empty queue, and each push wakes one of the
\* blocked workers: no job waits for a worker that sleeps.
LEMMA WorkerWokenInductive ==
    Control /\ WorkerIsWoken /\ [Next]_vars => WorkerIsWoken'
  <1> SUFFICES ASSUME Control, WorkerIsWoken, [Next]_vars PROVE WorkerIsWoken'
    OBVIOUS
  <1>0. /\ IsFiniteSet(AtLock) /\ Cardinality(AtLock) \in Nat
        /\ Len(q) \in Nat
        /\ Cardinality(AtLock') \in Nat
    <2>1. IsFiniteSet(AtLock')
      BY WorkersAssumption, FS_Subset DEF AtLock
    <2>2. QED
      BY <2>1, CountsAreNat, FS_CardinalityType DEF Control, TypeOK
  <1>a. ASSUME NEW v \in Workers, v \notin AtLock, AtLock' = AtLock \cup {v}
        PROVE  Cardinality(AtLock') = Cardinality(AtLock) + 1
    BY <1>0, <1>a, FS_AddElement
  <1>b. ASSUME NEW v \in AtLock, AtLock' = AtLock \ {v}
        PROVE  Cardinality(AtLock') = Cardinality(AtLock) - 1
    BY <1>0, <1>b, FS_RemoveElement
  <1> USE DEF WorkerIsWoken, WaitingWorkers, AtLock, Control, TypeOK
  <1>1. ASSUME NEW p \in Posters, CallPost(p) PROVE WorkerIsWoken'
    BY <1>1 DEF CallPost
  <1>2. ASSUME NEW p \in Posters, PostWait(p) PROVE WorkerIsWoken'
    BY <1>2 DEF PostWait
  <1>3. ASSUME NEW p \in Posters, PostDrop(p) PROVE WorkerIsWoken'
    BY <1>3 DEF PostDrop
  <1>4. ASSUME NEW p \in Posters, PostEnqueue(p) PROVE WorkerIsWoken'
    <2>1. Len(q') = Len(q) + 1
      <3>1. <<p, posted[p]>> \in Jobs
        BY <1>4 DEF PostEnqueue, CallCounted, Jobs
      <3>2. QED
        BY <1>4, <3>1 DEF PostEnqueue
    <2>2. CASE WaitingWorkers = {}
      BY <1>4, <2>2 DEF PostEnqueue, NotifyOneWorker
    <2>3. CASE WaitingWorkers # {}
      <3>1. PICK v \in WaitingWorkers : wpc' = [wpc EXCEPT ![v] = "lock"]
        BY <1>4, <2>3 DEF PostEnqueue, NotifyOneWorker
      <3>2. v \notin AtLock /\ AtLock' = AtLock \cup {v}
        BY <3>1
      <3>3. Cardinality(AtLock') = Cardinality(AtLock) + 1
        BY <1>a, <3>1, <3>2
      <3>4. QED
        BY <1>0, <2>1, <2>3, <3>3
    <2>4. QED
      BY <2>2, <2>3
  <1>5. ASSUME NEW w \in Workers, RunWait(w) PROVE WorkerIsWoken'
    BY <1>5, <1>0 DEF RunWait
  <1>6. ASSUME NEW w \in Workers, RunExit(w) PROVE WorkerIsWoken'
    BY <1>6, <1>0 DEF RunExit
  <1>7. ASSUME NEW w \in Workers, RunTake(w) PROVE WorkerIsWoken'
    <2>1. w \in AtLock /\ AtLock' = AtLock \ {w} /\ WaitingWorkers' = WaitingWorkers
      BY <1>7 DEF RunTake
    <2>2. Cardinality(AtLock') = Cardinality(AtLock) - 1
      BY <1>b, <2>1
    <2>3. Len(q') = Len(q) - 1
      BY <1>7, HeadTailProperties DEF RunTake
    <2>4. QED
      BY <1>0, <2>1, <2>2, <2>3
  <1>8. ASSUME NEW w \in Workers, RunNotify(w) PROVE WorkerIsWoken'
    <2>1. AtLock' = AtLock /\ WaitingWorkers' = WaitingWorkers /\ q' = q
      BY <1>8 DEF RunNotify
    <2>2. QED
      BY <2>1
  <1>9. ASSUME NEW w \in Workers, RunJob(w) PROVE WorkerIsWoken'
    <2>1. w \notin AtLock /\ AtLock' = AtLock \cup {w}
      BY <1>9 DEF RunJob
    <2>2. Cardinality(AtLock') = Cardinality(AtLock) + 1
      BY <1>a, <2>1
    <2>3. q' = q /\ WaitingWorkers' = WaitingWorkers
      BY <1>9 DEF RunJob
    <2>4. QED
      BY <1>0, <2>2, <2>3
  <1>10. CASE ShutdownFlag
    BY <1>10 DEF ShutdownFlag
  <1>11. CASE ShutdownNotifyWorkers
    BY <1>11 DEF ShutdownNotifyWorkers
  <1>12. CASE ShutdownNotifyPosters
    BY <1>12 DEF ShutdownNotifyPosters
  <1>13. CASE ShutdownJoin
    BY <1>13 DEF ShutdownJoin
  <1>14. CASE SpuriousWakeup
    <2>1. q' = q
      BY <1>14 DEF SpuriousWakeup
    <2>2. CASE UNCHANGED wpc
      BY <2>1, <2>2
    <2>3. CASE \E v \in WaitingWorkers : wpc' = [wpc EXCEPT ![v] = "lock"]
      <3>1. PICK v \in WaitingWorkers : wpc' = [wpc EXCEPT ![v] = "lock"]
        BY <2>3
      <3>2. v \notin AtLock /\ AtLock' = AtLock \cup {v} /\ WaitingWorkers # {}
        BY <3>1
      <3>3. Cardinality(AtLock') = Cardinality(AtLock) + 1
        BY <1>a, <3>1, <3>2
      <3>4. QED
        BY <1>0, <2>1, <3>2, <3>3
    <2>4. QED
      BY <1>14, <2>2, <2>3 DEF SpuriousWakeup
  <1>15. CASE Terminated \/ UNCHANGED vars
    BY <1>15 DEF Terminated, vars
  <1> QED
    BY <1>1, <1>2, <1>3, <1>4, <1>5, <1>6, <1>7, <1>8, <1>9, <1>10, <1>11,
       <1>12, <1>13, <1>14, <1>15
    DEF Next, PosterStep, WorkerStep, ShutdownStep

\* A poster blocks only on a full queue, each pop announces the slot it freed,
\* and each announcement reaches one of the blocked posters.
LEMMA PosterWokenInductive ==
    Control /\ ShutdownPhase /\ PosterIsWoken /\ [Next]_vars => PosterIsWoken'
  <1> SUFFICES ASSUME Control, ShutdownPhase, PosterIsWoken, [Next]_vars
               PROVE  PosterIsWoken'
    OBVIOUS
  <1>0. /\ IsFiniteSet(Announcing) /\ Cardinality(Announcing) \in Nat
        /\ IsFiniteSet(Examining) /\ Cardinality(Examining) \in Nat
        /\ Cardinality(Announcing') \in Nat
        /\ Cardinality(Examining') \in Nat
        /\ Len(q) \in Nat
        /\ Cap \in Nat
    <2>1. IsFiniteSet(Announcing') /\ IsFiniteSet(Examining')
      BY WorkersAssumption, PostersAssumption, FS_Subset DEF Announcing, Examining
    <2>2. QED
      BY <2>1, CountsAreNat, FS_CardinalityType, PoolAssumption DEF Control, TypeOK
  <1>a. ASSUME NEW p \in Posters, p \notin Examining, Examining' = Examining \cup {p}
        PROVE  Cardinality(Examining') = Cardinality(Examining) + 1
    BY <1>0, <1>a, FS_AddElement
  <1>b. ASSUME NEW p \in Examining, Examining' = Examining \ {p}
        PROVE  Cardinality(Examining') = Cardinality(Examining) - 1
    BY <1>0, <1>b, FS_RemoveElement
  <1>c. ASSUME NEW w \in Workers, w \notin Announcing, Announcing' = Announcing \cup {w}
        PROVE  Cardinality(Announcing') = Cardinality(Announcing) + 1
    BY <1>0, <1>c, FS_AddElement
  <1>d. ASSUME NEW w \in Announcing, Announcing' = Announcing \ {w}
        PROVE  Cardinality(Announcing') = Cardinality(Announcing) - 1
    BY <1>0, <1>d, FS_RemoveElement
  <1> USE DEF PosterIsWoken, WaitingPosters, Announcing, Examining, Control, TypeOK
  <1>1. ASSUME NEW p \in Posters, CallPost(p) PROVE PosterIsWoken'
    <2>1. p \notin Examining /\ Examining' = Examining \cup {p}
      BY <1>1 DEF CallPost
    <2>2. Cardinality(Examining') = Cardinality(Examining) + 1
      BY <1>a, <2>1
    <2>3. /\ WaitingPosters' = WaitingPosters /\ Announcing' = Announcing
          /\ q' = q /\ draining' = draining
      BY <1>1 DEF CallPost
    <2> HIDE DEF Announcing, Examining, WaitingPosters, Control, TypeOK
    <2>4. QED
      BY <1>0, <2>2, <2>3
  <1>2. ASSUME NEW p \in Posters, PostWait(p) PROVE PosterIsWoken'
    <2>1. Cap <= Len(q) /\ q' = q
      BY <1>2, <1>0 DEF PostWait, MayProceed
    <2>2. QED
      BY <1>0, <2>1
  <1>3. ASSUME NEW p \in Posters, PostDrop(p) PROVE PosterIsWoken'
    BY <1>3 DEF PostDrop
  <1>4. ASSUME NEW p \in Posters, PostEnqueue(p) PROVE PosterIsWoken'
    <2>1. Len(q') = Len(q) + 1
      <3>1. <<p, posted[p]>> \in Jobs
        BY <1>4 DEF PostEnqueue, CallCounted, Jobs
      <3>2. QED
        BY <1>4, <3>1 DEF PostEnqueue
    <2>2. p \in Examining /\ Examining' = Examining \ {p}
      BY <1>4 DEF PostEnqueue
    <2>3. Cardinality(Examining') = Cardinality(Examining) - 1
      BY <1>b, <2>2
    <2>4. Announcing' = Announcing
      BY <1>4 DEF PostEnqueue, NotifyOneWorker, WaitingWorkers
    <2>5. WaitingPosters' = WaitingPosters /\ draining' = draining
      BY <1>4 DEF PostEnqueue
    <2> HIDE DEF Announcing, Examining, WaitingPosters, Control, TypeOK
    <2>6. QED
      BY <1>0, <2>1, <2>3, <2>4, <2>5
  <1>5. ASSUME NEW w \in Workers, RunWait(w) PROVE PosterIsWoken'
    <2>1. /\ Announcing' = Announcing /\ Examining' = Examining
          /\ WaitingPosters' = WaitingPosters /\ q' = q /\ draining' = draining
      BY <1>5 DEF RunWait
    <2>2. QED
      BY <2>1
  <1>6. ASSUME NEW w \in Workers, RunExit(w) PROVE PosterIsWoken'
    <2>1. draining /\ draining' = draining
      BY <1>6 DEF RunExit
    <2>2. QED
      BY <2>1
  <1>7. ASSUME NEW w \in Workers, RunTake(w) PROVE PosterIsWoken'
    <2>1. w \notin Announcing /\ Announcing' = Announcing \cup {w}
      BY <1>7 DEF RunTake
    <2>2. Cardinality(Announcing') = Cardinality(Announcing) + 1
      BY <1>c, <2>1
    <2>3. Len(q') = Len(q) - 1
      BY <1>7, HeadTailProperties DEF RunTake
    <2>4. /\ Examining' = Examining /\ WaitingPosters' = WaitingPosters
          /\ draining' = draining
      BY <1>7 DEF RunTake
    <2> HIDE DEF Announcing, Examining, WaitingPosters, Control, TypeOK
    <2>5. QED
      BY <1>0, <2>2, <2>3, <2>4
  <1>8. ASSUME NEW w \in Workers, RunNotify(w) PROVE PosterIsWoken'
    <2>1. w \in Announcing /\ Announcing' = Announcing \ {w}
      BY <1>8 DEF RunNotify
    <2>2. Cardinality(Announcing') = Cardinality(Announcing) - 1
      BY <1>d, <2>1
    <2>3. q' = q /\ draining' = draining
      BY <1>8 DEF RunNotify
    <2>4. CASE WaitingPosters = {}
      BY <1>8, <2>4 DEF RunNotify
    <2>5. CASE WaitingPosters # {}
      <3>1. PICK p \in WaitingPosters : ppc' = [ppc EXCEPT ![p] = "lock"]
        BY <1>8, <2>5 DEF RunNotify
      <3>2. p \in Posters /\ p \notin Examining /\ Examining' = Examining \cup {p}
        BY <3>1
      <3>3. Cardinality(Examining') = Cardinality(Examining) + 1
        BY <1>a, <3>2
      <3> HIDE DEF Announcing, Examining, WaitingPosters, Control, TypeOK
      <3>4. QED
        BY <1>0, <2>2, <2>3, <2>5, <3>3
    <2>6. QED
      BY <2>4, <2>5
  <1>9. ASSUME NEW w \in Workers, RunJob(w) PROVE PosterIsWoken'
    <2>1. /\ Announcing' = Announcing /\ Examining' = Examining
          /\ WaitingPosters' = WaitingPosters /\ q' = q /\ draining' = draining
      BY <1>9 DEF RunJob
    <2>2. QED
      BY <2>1
  <1>10. CASE ShutdownFlag
    BY <1>10 DEF ShutdownFlag
  <1>11. CASE ShutdownNotifyWorkers
    BY <1>11 DEF ShutdownNotifyWorkers, ShutdownPhase
  <1>12. CASE ShutdownNotifyPosters
    BY <1>12 DEF ShutdownNotifyPosters
  <1>13. CASE ShutdownJoin
    BY <1>13 DEF ShutdownJoin
  <1>14. CASE SpuriousWakeup
    <2>1. q' = q /\ draining' = draining
      BY <1>14 DEF SpuriousWakeup
    <2>2. CASE \E v \in WaitingWorkers : wpc' = [wpc EXCEPT ![v] = "lock"] /\ UNCHANGED ppc
      <3>1. Announcing' = Announcing
        BY <2>2 DEF WaitingWorkers
      <3>2. Examining' = Examining /\ WaitingPosters' = WaitingPosters
        BY <2>2
      <3>3. QED
        BY <2>1, <3>1, <3>2
    <2>3. CASE UNCHANGED wpc /\ \E p \in WaitingPosters : ppc' = [ppc EXCEPT ![p] = "lock"]
      <3>1. PICK p \in WaitingPosters : ppc' = [ppc EXCEPT ![p] = "lock"]
        BY <2>3
      <3>2. p \in Posters /\ p \notin Examining /\ Examining' = Examining \cup {p}
            /\ WaitingPosters # {} /\ Announcing' = Announcing
        BY <2>3, <3>1
      <3>3. Cardinality(Examining') = Cardinality(Examining) + 1
        BY <1>a, <3>2
      <3> HIDE DEF Announcing, Examining, WaitingPosters, Control, TypeOK
      <3>4. QED
        BY <1>0, <2>1, <3>2, <3>3
    <2>4. QED
      BY <1>14, <2>2, <2>3 DEF SpuriousWakeup
  <1>15. CASE Terminated \/ UNCHANGED vars
    BY <1>15 DEF Terminated, vars
  <1> QED
    BY <1>1, <1>2, <1>3, <1>4, <1>5, <1>6, <1>7, <1>8, <1>9, <1>10, <1>11,
       <1>12, <1>13, <1>14, <1>15
    DEF Next, PosterStep, WorkerStep, ShutdownStep

\* Both condition variables are notified after draining_ is set, and neither
\* predicate lets a thread block once it is.
LEMMA DrainWakesInductive ==
    Control /\ ShutdownPhase /\ DrainWakesAll /\ [Next]_vars => DrainWakesAll'
  <1> SUFFICES ASSUME Control, ShutdownPhase, DrainWakesAll, [Next]_vars
               PROVE  DrainWakesAll'
    OBVIOUS
  <1> USE DEF DrainWakesAll, WaitingWorkers, WaitingPosters, Control, TypeOK
  <1>1. ASSUME NEW p \in Posters, CallPost(p) PROVE DrainWakesAll'
    BY <1>1 DEF CallPost
  <1>2. ASSUME NEW p \in Posters, PostWait(p) PROVE DrainWakesAll'
    BY <1>2 DEF PostWait, MayProceed
  <1>3. ASSUME NEW p \in Posters, PostDrop(p) PROVE DrainWakesAll'
    BY <1>3 DEF PostDrop
  <1>4. ASSUME NEW p \in Posters, PostEnqueue(p) PROVE DrainWakesAll'
    BY <1>4 DEF PostEnqueue, NotifyOneWorker
  <1>5. ASSUME NEW w \in Workers, RunWait(w) PROVE DrainWakesAll'
    BY <1>5 DEF RunWait
  <1>6. ASSUME NEW w \in Workers, RunExit(w) PROVE DrainWakesAll'
    BY <1>6 DEF RunExit
  <1>7. ASSUME NEW w \in Workers, RunTake(w) PROVE DrainWakesAll'
    BY <1>7 DEF RunTake
  <1>8. ASSUME NEW w \in Workers, RunNotify(w) PROVE DrainWakesAll'
    BY <1>8 DEF RunNotify
  <1>9. ASSUME NEW w \in Workers, RunJob(w) PROVE DrainWakesAll'
    BY <1>9 DEF RunJob
  <1>10. CASE ShutdownFlag
    BY <1>10 DEF ShutdownFlag
  <1>11. CASE ShutdownNotifyWorkers
    BY <1>11 DEF ShutdownNotifyWorkers
  <1>12. CASE ShutdownNotifyPosters
    BY <1>12 DEF ShutdownNotifyPosters
  <1>13. CASE ShutdownJoin
    BY <1>13 DEF ShutdownJoin
  <1>14. CASE SpuriousWakeup
    BY <1>14 DEF SpuriousWakeup
  <1>15. CASE Terminated \/ UNCHANGED vars
    BY <1>15 DEF Terminated, vars
  <1> QED
    BY <1>1, <1>2, <1>3, <1>4, <1>5, <1>6, <1>7, <1>8, <1>9, <1>10, <1>11,
       <1>12, <1>13, <1>14, <1>15
    DEF Next, PosterStep, WorkerStep, ShutdownStep

\* No wakeup is lost, for every number of workers, posters and slots.
THEOREM WakeupsArrive == Spec => []NoLostWakeup
  <1>1. Init => NoLostWakeup
    BY DEF Init, NoLostWakeup, WorkerIsWoken, PosterIsWoken, DrainWakesAll,
           WaitingWorkers, WaitingPosters
  <1>2. Inv /\ NoLostWakeup /\ [Next]_vars => NoLostWakeup'
    BY WorkerWokenInductive, PosterWokenInductive, DrainWakesInductive
    DEF Inv, NoLostWakeup
  <1>3. QED
    BY <1>1, <1>2, Invariance, PTL DEF Spec

-----------------------------------------------------------------------------
(* Refinement *)

\* Only a worker that leaves run() changes which workers have ended.
LEMMA ExitOnlyByRunExit ==
    ASSUME Control, [Next]_vars, \A w \in Workers : ~RunExit(w)
    PROVE  AllExited' = AllExited
  <1> SUFFICES \A w \in Workers : wpc'[w] = "exited" <=> wpc[w] = "exited"
    BY DEF AllExited
  <1> DEFINE Same == \A w \in Workers : wpc'[w] = "exited" <=> wpc[w] = "exited"
  <1> USE DEF Control, TypeOK
  <1>1. ASSUME NEW p \in Posters, CallPost(p) PROVE Same
    BY <1>1 DEF CallPost
  <1>2. ASSUME NEW p \in Posters, PostWait(p) PROVE Same
    BY <1>2 DEF PostWait
  <1>3. ASSUME NEW p \in Posters, PostDrop(p) PROVE Same
    BY <1>3 DEF PostDrop
  <1>4. ASSUME NEW p \in Posters, PostEnqueue(p) PROVE Same
    BY <1>4 DEF PostEnqueue, NotifyOneWorker, WaitingWorkers
  <1>5. ASSUME NEW w \in Workers, RunWait(w) PROVE Same
    BY <1>5 DEF RunWait
  <1>6. ASSUME NEW w \in Workers, RunExit(w) PROVE Same
    BY <1>6
  <1>7. ASSUME NEW w \in Workers, RunTake(w) PROVE Same
    BY <1>7 DEF RunTake
  <1>8. ASSUME NEW w \in Workers, RunNotify(w) PROVE Same
    BY <1>8 DEF RunNotify, WaitingPosters
  <1>9. ASSUME NEW w \in Workers, RunJob(w) PROVE Same
    BY <1>9 DEF RunJob
  <1>10. CASE ShutdownFlag
    BY <1>10 DEF ShutdownFlag
  <1>11. CASE ShutdownNotifyWorkers
    BY <1>11 DEF ShutdownNotifyWorkers
  <1>12. CASE ShutdownNotifyPosters
    BY <1>12 DEF ShutdownNotifyPosters
  <1>13. CASE ShutdownJoin
    BY <1>13 DEF ShutdownJoin
  <1>14. CASE SpuriousWakeup
    BY <1>14 DEF SpuriousWakeup, WaitingWorkers, WaitingPosters
  <1>15. CASE Terminated \/ UNCHANGED vars
    BY <1>15 DEF Terminated, vars
  <1> QED
    BY <1>1, <1>2, <1>3, <1>4, <1>5, <1>6, <1>7, <1>8, <1>9, <1>10, <1>11,
       <1>12, <1>13, <1>14, <1>15
    DEF Next, PosterStep, WorkerStep, ShutdownStep

\* The initial state and every step of the pool map to the executor's.
THEOREM Refinement == Spec => ImplementsExecutor
  <1>1. Init => Exec!Init
    BY WorkersAssumption DEF Init, Exec!Init, AllExited
  <1>2. Inv /\ [Next]_vars => [Exec!Next]_(Exec!vars)
    <2> SUFFICES ASSUME Inv, [Next]_vars PROVE [Exec!Next]_(Exec!vars)
      OBVIOUS
    <2> USE DEF Inv, Control
    <2>1. ASSUME NEW w \in Workers, RunExit(w) PROVE [Exec!Next]_(Exec!vars)
      <3>1. UNCHANGED <<q, cur, completed, draining>>
        BY <2>1 DEF RunExit
      <3>2. CASE AllExited' = AllExited
        BY <3>1, <3>2 DEF Exec!vars
      <3>3. CASE AllExited' # AllExited
        <4>1. ~AllExited /\ AllExited'
          BY <2>1, <3>3 DEF RunExit, AllExited, TypeOK
        <4>2. \A v \in Workers : wpc[v] \in {"exited", "lock"}
          BY <2>1, <4>1 DEF RunExit, AllExited, TypeOK
        <4>3. Exec!Idle
          BY <4>2 DEF BusyWorkers, Exec!Idle
        <4>4. Exec!Stop
          BY <2>1, <3>1, <4>1, <4>3 DEF RunExit, Exec!Stop
        <4>5. QED
          BY <4>4 DEF Exec!Next
      <3>4. QED
        BY <3>2, <3>3
    <2>2. CASE \A w \in Workers : ~RunExit(w)
      <3>0. AllExited' = AllExited
        BY <2>2, ExitOnlyByRunExit
      <3>1. ASSUME NEW p \in Posters, PostEnqueue(p) PROVE Exec!Next
        <4>1. <<p, posted[p]>> \in Jobs
          BY <3>1 DEF PostEnqueue, CallCounted, TypeOK, Jobs
        <4>2. Exec!Accept(<<p, posted[p]>>)
          BY <3>0, <3>1 DEF PostEnqueue, MayProceed, Exec!Accept, Exec!HasRoom
        <4>3. QED
          BY <4>1, <4>2 DEF Exec!Next
      <3>2. ASSUME NEW w \in Workers, RunTake(w) PROVE Exec!Next
        <4>1. cur[w] = NoJob
          BY <3>2 DEF RunTake, BusyWorkers
        <4>2. Exec!Start(w)
          BY <3>0, <3>2, <4>1 DEF RunTake, Exec!Start
        <4>3. QED
          BY <4>2 DEF Exec!Next
      <3>3. ASSUME NEW w \in Workers, RunJob(w) PROVE Exec!Next
        <4>1. cur[w] # NoJob
          BY <3>3 DEF RunJob, BusyWorkers
        <4>2. Exec!Finish(w)
          BY <3>0, <3>3, <4>1 DEF RunJob, Exec!Finish
        <4>3. QED
          BY <4>2 DEF Exec!Next
      <3>4. CASE ShutdownFlag
        <4>1. CASE draining
          BY <3>0, <3>4, <4>1 DEF ShutdownFlag, Exec!vars
        <4>2. CASE ~draining
          BY <3>0, <3>4, <4>2 DEF ShutdownFlag, Exec!Close, Exec!Next
        <4>3. QED
          BY <4>1, <4>2
      <3>5. CASE UNCHANGED <<q, cur, completed, draining>>
        BY <3>0, <3>5 DEF Exec!vars
      <3>6. \/ \E p \in Posters : PostEnqueue(p)
            \/ \E w \in Workers : RunTake(w) \/ RunJob(w)
            \/ ShutdownFlag
            \/ UNCHANGED <<q, cur, completed, draining>>
        BY <2>2
        DEF Next, vars, PosterStep, WorkerStep, ShutdownStep, CallPost, PostWait,
            PostDrop, RunWait, RunNotify, ShutdownNotifyWorkers,
            ShutdownNotifyPosters, ShutdownJoin, SpuriousWakeup, Terminated
      <3>7. QED
        BY <3>1, <3>2, <3>3, <3>4, <3>5, <3>6
    <2>3. QED
      BY <2>1, <2>2
  <1>3. QED
    BY <1>1, <1>2, Invariance, PTL DEF Spec, ImplementsExecutor, Exec!Spec
=============================================================================
