---------------------------- MODULE DatabaseProofs ----------------------------
(***************************************************************************)
(* Proofs about Database, for any number of threads, connections, calls    *)
(* and statements.                                                         *)
(***************************************************************************)
EXTENDS Database, TLAPS

Busy(t) == pc[t] # "out"

\* A thread in a call has a job and a connection of its own.
Owned ==
    /\ \A t \in Threads : Busy(t) => /\ job[t] \in 1 .. jobs
                                     /\ outcome[job[t]] = "none"
                                     /\ conn[t] \in Connections \ pool
    /\ \A t, u \in Threads : Busy(t) /\ Busy(u) /\ t # u =>
          conn[t] # conn[u] /\ job[t] # job[u]

\* Jobs that are still to come have left no trace, and every write is known by
\* its job.
Traces ==
    /\ \A j \in Jobs : j > jobs => /\ wrote[j] = {}
                                   /\ outcome[j] = "none"
                                   /\ j \notin threw
    /\ \A j \in Jobs : wrote[j] \subseteq {j} \X (1 .. MaxStatements)
    /\ \A j \in Jobs : \A i \in 1 .. MaxStatements :
          <<j, i>> \in durable => <<j, i>> \in wrote[j]

\* The server keeps no transaction of a session that has ended.
DeadIsEmpty == \A c \in Connections : ~alive[c] => open[c] = {}

\* The session of a thread is as far as the thread is.
InStep ==
    \A t \in Threads :
        /\ pc[t] \in {"single", "begin"} =>
              /\ job[t] \notin threw
              /\ wrote[job[t]] = {}
              /\ alive[conn[t]] => auto[conn[t]] /\ open[conn[t]] = {}
        /\ pc[t] \in {"fn", "commit"} =>
              /\ job[t] \notin threw
              /\ durable \cap wrote[job[t]] = {}
              /\ alive[conn[t]] => ~auto[conn[t]] /\ open[conn[t]] = wrote[job[t]]
        /\ pc[t] = "restore" =>
              /\ wrote[job[t]] \subseteq durable
              /\ open[conn[t]] = {}
        /\ pc[t] = "clean" => open[conn[t]] = {}

Inv == /\ TypeOK
       /\ Owned
       /\ Traces
       /\ DeadIsEmpty
       /\ InStep
       /\ Atomicity
       /\ ReturnedIsDurable
       /\ ThrownIsRolledBack
       /\ CleanInPool

USE BoundsAssumption, NoneAssumption

\* Before any thread has called the pool is clean and nothing is written.
LEMMA InitInv == Init => Inv
<1> SUFFICES ASSUME Init PROVE Inv
  OBVIOUS
<1> USE DEF Init
<1>1. TypeOK
  BY DEF TypeOK, PCs, Jobs
<1>2. Owned /\ Traces /\ DeadIsEmpty /\ InStep
  BY DEF Owned, Busy, Traces, DeadIsEmpty, InStep, Jobs
<1>3. Atomicity /\ ReturnedIsDurable /\ ThrownIsRolledBack /\ CleanInPool
  BY DEF Atomicity, ReturnedIsDurable, ThrownIsRolledBack, CleanInPool
<1> QED
  BY <1>1, <1>2, <1>3 DEF Inv

\* Steps that leave the writes alone: what is proved about jobs carries over.
LEMMA QuietStep ==
    ASSUME Inv, UNCHANGED <<durable, wrote>>,
           Traces', threw \subseteq threw',
           \A j \in threw' \ threw : durable \cap wrote[j] = {},
           \A j \in Jobs : outcome'[j] = "returned" =>
               outcome[j] = "returned" \/ wrote[j] \subseteq durable
    PROVE  /\ Atomicity'
           /\ ReturnedIsDurable'
           /\ ThrownIsRolledBack'
BY DEF Inv, Atomicity, ReturnedIsDurable, ThrownIsRolledBack

\* acquire() lends a clean connection.
LEMMA AcquireStep ==
    ASSUME Inv, NEW t \in Threads, NEW q \in {"single", "begin"}, Acquire(t, q)
    PROVE  Inv'
<1> USE DEF Inv, Acquire
<1>1. PICK c \in pool : conn' = [conn EXCEPT ![t] = c] /\ pool' = pool \ {c}
  OBVIOUS
<1>2. /\ c \in Connections /\ c # None
      /\ pc'[t] = q /\ conn'[t] = c /\ job'[t] = jobs + 1 /\ jobs' = jobs + 1
      /\ \A u \in Threads : u # t => /\ pc'[u] = pc[u] /\ conn'[u] = conn[u]
                                     /\ job'[u] = job[u]
      /\ jobs \in Nat /\ jobs + 1 \in Jobs
  BY <1>1 DEF TypeOK, Jobs
<1>3. TypeOK'
  BY <1>1, <1>2 DEF TypeOK, PCs, Jobs
<1>4. Owned'
  <2>1. \A u \in Threads : Busy(u)' => /\ job'[u] \in 1 .. jobs'
                                       /\ outcome'[job'[u]] = "none"
                                       /\ conn'[u] \in Connections \ pool'
    BY <1>1, <1>2 DEF Owned, Busy, Traces, TypeOK
  <2>2. \A u \in Threads : u # t /\ Busy(u)' => conn'[u] # c /\ job'[u] # jobs + 1
    BY <1>1, <1>2 DEF Owned, Busy, TypeOK
  <2>3. \A u, v \in Threads : Busy(u)' /\ Busy(v)' /\ u # v =>
           conn'[u] # conn'[v] /\ job'[u] # job'[v]
    BY <1>2, <2>2 DEF Owned, Busy
  <2> QED
    BY <2>1, <2>3 DEF Owned
<1>5. Traces'
  BY <1>2 DEF Traces, Jobs, TypeOK
<1>6. DeadIsEmpty' /\ CleanInPool'
  BY <1>1 DEF DeadIsEmpty, CleanInPool
<1>7. InStep'
  BY <1>1, <1>2 DEF InStep, CleanInPool, Traces, TypeOK, Jobs
<1> QED
  BY <1>3, <1>4, <1>5, <1>6, <1>7, QuietStep

\* A thread moves on inside its call.  What happens to the session of its own
\* connection is said by the assumptions; nobody else's is touched.
LEMMA GotoStep ==
    ASSUME Inv, NEW t \in Threads, NEW q \in PCs \ {"out"}, Busy(t),
           pc' = [pc EXCEPT ![t] = q],
           UNCHANGED <<conn, job, jobs, pool, outcome>>,
           alive' \in [Connections -> BOOLEAN],
           auto' \in [Connections -> BOOLEAN],
           open' \in [Connections -> SUBSET Writes],
           durable' \in SUBSET Writes,
           wrote' \in [Jobs -> SUBSET Writes],
           threw' \in SUBSET Jobs,
           \A c \in Connections : c # conn[t] =>
               alive'[c] = alive[c] /\ auto'[c] = auto[c] /\ open'[c] = open[c],
           ~alive'[conn[t]] => open'[conn[t]] = {},
           \A j \in Jobs : j # job[t] => wrote'[j] = wrote[j],
           wrote'[job[t]] \subseteq {job[t]} \X (1 .. MaxStatements),
           \A j \in Jobs : \A i \in 1 .. MaxStatements : j # job[t] =>
               (<<j, i>> \in durable' <=> <<j, i>> \in durable),
           \A i \in 1 .. MaxStatements :
               <<job[t], i>> \in durable' => <<job[t], i>> \in wrote'[job[t]],
           \A j \in Jobs : j # job[t] => (j \in threw' <=> j \in threw),
           job[t] \in threw' => durable' \cap wrote'[job[t]] = {},
           durable' \cap wrote'[job[t]] \in {{}, wrote'[job[t]]},
           q \in {"fn", "commit"} =>
              /\ job[t] \notin threw'
              /\ durable' \cap wrote'[job[t]] = {}
              /\ alive'[conn[t]] =>
                    ~auto'[conn[t]] /\ open'[conn[t]] = wrote'[job[t]],
           q = "restore" => wrote'[job[t]] \subseteq durable' /\ open'[conn[t]] = {},
           q = "clean" => open'[conn[t]] = {},
           q \notin {"single", "begin"}
    PROVE  Inv'
<1> USE DEF Inv
<1>1. /\ pc'[t] = q
      /\ \A u \in Threads : u # t => pc'[u] = pc[u]
      /\ \A u \in Threads : Busy(u)' <=> Busy(u)
  BY DEF TypeOK, Busy
<1>2. /\ job[t] \in Jobs /\ job[t] \in 1 .. jobs /\ conn[t] \in Connections
      /\ conn[t] \notin pool /\ jobs \in Nat /\ outcome[job[t]] = "none"
  BY DEF Owned, TypeOK, Jobs
<1>3. TypeOK'
  BY <1>1 DEF TypeOK, Busy
<1>4. Owned'
  BY <1>1 DEF Owned, Busy
<1>5. Traces'
  <2>1. \A j \in Jobs : j > jobs => j # job[t]
    BY <1>2 DEF Jobs
  <2>2. \A j \in Jobs : j > jobs' => /\ wrote'[j] = {}
                                     /\ outcome'[j] = "none"
                                     /\ j \notin threw'
    BY <2>1 DEF Traces
  <2>3. \A j \in Jobs : wrote'[j] \subseteq {j} \X (1 .. MaxStatements)
    BY DEF Traces
  <2>4. \A j \in Jobs : \A i \in 1 .. MaxStatements :
           <<j, i>> \in durable' => <<j, i>> \in wrote'[j]
    BY DEF Traces
  <2> QED
    BY <2>2, <2>3, <2>4 DEF Traces
<1>6. DeadIsEmpty' /\ CleanInPool'
  BY <1>2 DEF DeadIsEmpty, CleanInPool, TypeOK
<1>7. \A j \in Jobs : j # job[t] => durable' \cap wrote'[j] = durable \cap wrote[j]
  <2> SUFFICES ASSUME NEW j \in Jobs, j # job[t]
               PROVE  durable' \cap wrote[j] = durable \cap wrote[j]
    OBVIOUS
  <2>1. \A x \in wrote[j] : \E i \in 1 .. MaxStatements : x = <<j, i>>
    BY DEF Traces
  <2> QED
    BY <2>1
<1>8. InStep'
  <2> SUFFICES ASSUME NEW u \in Threads
               PROVE  InStep!(u)'
    BY DEF InStep
  <2>1. CASE u = t
    BY <1>1, <2>1
  <2>2. CASE u # t /\ ~Busy(u)
    BY <1>1, <2>2 DEF Busy
  <2>3. CASE u # t /\ Busy(u)
    <3>1. /\ job[u] # job[t] /\ conn[u] # conn[t]
          /\ job[u] \in Jobs /\ conn[u] \in Connections
      BY <2>3, <1>2 DEF Owned, TypeOK, Jobs
    <3>2. /\ wrote'[job'[u]] = wrote[job[u]]
          /\ durable' \cap wrote'[job'[u]] = durable \cap wrote[job[u]]
          /\ job'[u] \in threw' <=> job[u] \in threw
          /\ alive'[conn'[u]] = alive[conn[u]] /\ auto'[conn'[u]] = auto[conn[u]]
          /\ open'[conn'[u]] = open[conn[u]]
          /\ pc'[u] = pc[u]
      BY <1>1, <1>7, <2>3, <3>1
    <3>3. wrote[job[u]] \subseteq durable => wrote'[job'[u]] \subseteq durable'
      BY <3>2
    <3> QED
      BY <3>2, <3>3 DEF InStep
  <2> QED
    BY <2>1, <2>2, <2>3
<1>9. Atomicity'
  BY <1>7 DEF Atomicity
<1>10. ReturnedIsDurable'
  <2> SUFFICES ASSUME NEW j \in Jobs, outcome[j] = "returned"
               PROVE  wrote'[j] \subseteq durable'
    BY DEF ReturnedIsDurable
  <2>1. j # job[t]
    BY <1>2
  <2>2. wrote[j] \subseteq durable /\ wrote'[j] = wrote[j]
    BY <2>1 DEF ReturnedIsDurable
  <2> QED
    BY <1>7, <2>1, <2>2
<1>11. ThrownIsRolledBack'
  BY <1>7 DEF ThrownIsRolledBack
<1> QED
  BY <1>3, <1>4, <1>5, <1>6, <1>8, <1>9, <1>10, <1>11

\* A call ends and its connection, dead or clean, goes back to the pool.
LEMMA ReleaseStep ==
    ASSUME Inv, NEW t \in Threads, Busy(t), NEW r \in {"returned", "thrown"},
           Release(t, r),
           alive' \in [Connections -> BOOLEAN],
           auto' \in [Connections -> BOOLEAN],
           open' \in [Connections -> SUBSET Writes],
           durable' \in SUBSET Writes,
           wrote' \in [Jobs -> SUBSET Writes],
           UNCHANGED threw,
           \A c \in Connections : c # conn[t] =>
               alive'[c] = alive[c] /\ auto'[c] = auto[c] /\ open'[c] = open[c],
           open'[conn[t]] = {},
           alive'[conn[t]] => auto'[conn[t]],
           \A j \in Jobs : j # job[t] => wrote'[j] = wrote[j],
           wrote'[job[t]] \subseteq {job[t]} \X (1 .. MaxStatements),
           \A j \in Jobs : \A i \in 1 .. MaxStatements : j # job[t] =>
               (<<j, i>> \in durable' <=> <<j, i>> \in durable),
           \A i \in 1 .. MaxStatements :
               <<job[t], i>> \in durable' => <<job[t], i>> \in wrote'[job[t]],
           job[t] \in threw => durable' \cap wrote'[job[t]] = {},
           durable' \cap wrote'[job[t]] \in {{}, wrote'[job[t]]},
           r = "returned" => wrote'[job[t]] \subseteq durable'
    PROVE  Inv'
<1> USE DEF Inv, Release
<1>1. /\ pc'[t] = "out" /\ conn'[t] = None
      /\ \A u \in Threads : u # t => pc'[u] = pc[u] /\ conn'[u] = conn[u]
  BY DEF TypeOK
<1>2. /\ job[t] \in Jobs /\ job[t] \in 1 .. jobs /\ conn[t] \in Connections
      /\ jobs \in Nat
      /\ outcome'[job[t]] = r
      /\ \A j \in Jobs : j # job[t] => outcome'[j] = outcome[j]
  BY DEF Owned, TypeOK, Jobs
<1>3. TypeOK'
  <2>1. \A u \in Threads : pc'[u] = "out" <=> conn'[u] = None
    BY <1>1 DEF TypeOK
  <2>2. /\ pc' \in [Threads -> PCs] /\ conn' \in [Threads -> Connections \cup {None}]
        /\ pool' \subseteq Connections
        /\ outcome' \in [Jobs -> {"none", "returned", "thrown"}]
    BY <1>2 DEF TypeOK, PCs
  <2> QED
    BY <2>1, <2>2 DEF TypeOK
<1>4. Owned'
  <2> SUFFICES ASSUME NEW u \in Threads, Busy(u)'
               PROVE  /\ job[u] \in 1 .. jobs
                      /\ outcome'[job[u]] = "none"
                      /\ conn'[u] \in Connections \ pool'
                      /\ \A v \in Threads : Busy(v)' /\ v # u =>
                            conn'[u] # conn'[v] /\ job[u] # job[v]
    BY DEF Owned
  <2>1. u # t /\ Busy(u) /\ conn'[u] = conn[u]
    BY <1>1 DEF Busy
  <2>2. job[u] \in 1 .. jobs /\ job[u] # job[t] /\ conn[u] # conn[t]
    BY <2>1 DEF Owned
  <2>3. outcome'[job[u]] = "none" /\ conn[u] \in Connections \ pool'
    BY <1>2, <2>1, <2>2 DEF Owned, TypeOK, Jobs
  <2> QED
    BY <1>1, <2>1, <2>2, <2>3 DEF Owned, Busy
<1>5. Traces'
  <2>1. \A j \in Jobs : j > jobs => j # job[t]
    BY <1>2 DEF Jobs
  <2>2. \A j \in Jobs : j > jobs' => /\ wrote'[j] = {}
                                     /\ outcome'[j] = "none"
                                     /\ j \notin threw'
    BY <1>2, <2>1 DEF Traces
  <2>3. \A j \in Jobs : wrote'[j] \subseteq {j} \X (1 .. MaxStatements)
    BY DEF Traces
  <2>4. \A j \in Jobs : \A i \in 1 .. MaxStatements :
           <<j, i>> \in durable' => <<j, i>> \in wrote'[j]
    BY DEF Traces
  <2> QED
    BY <2>2, <2>3, <2>4 DEF Traces
<1>6. DeadIsEmpty' /\ CleanInPool'
  BY <1>2 DEF DeadIsEmpty, CleanInPool, TypeOK
<1>7. \A j \in Jobs : j # job[t] => durable' \cap wrote'[j] = durable \cap wrote[j]
  <2> SUFFICES ASSUME NEW j \in Jobs, j # job[t]
               PROVE  durable' \cap wrote[j] = durable \cap wrote[j]
    OBVIOUS
  <2>1. \A x \in wrote[j] : \E i \in 1 .. MaxStatements : x = <<j, i>>
    BY DEF Traces
  <2> QED
    BY <2>1
<1>8. InStep'
  <2> SUFFICES ASSUME NEW u \in Threads, Busy(u)'
               PROVE  InStep!(u)'
    BY DEF InStep, Busy
  <2>1. u # t /\ Busy(u)
    BY <1>1 DEF Busy
  <2>2. /\ job[u] # job[t] /\ conn[u] # conn[t]
        /\ job[u] \in Jobs /\ conn[u] \in Connections
    BY <2>1, <1>2 DEF Owned, TypeOK, Jobs
  <2>3. /\ wrote'[job'[u]] = wrote[job[u]]
        /\ durable' \cap wrote'[job'[u]] = durable \cap wrote[job[u]]
        /\ job'[u] \in threw' <=> job[u] \in threw
        /\ alive'[conn'[u]] = alive[conn[u]] /\ auto'[conn'[u]] = auto[conn[u]]
        /\ open'[conn'[u]] = open[conn[u]]
        /\ pc'[u] = pc[u]
    BY <1>1, <1>7, <2>1, <2>2
  <2>4. wrote[job[u]] \subseteq durable => wrote'[job'[u]] \subseteq durable'
    BY <2>3
  <2> QED
    BY <2>3, <2>4 DEF InStep
<1>9. Atomicity'
  BY <1>7 DEF Atomicity
<1>10. ReturnedIsDurable'
  <2> SUFFICES ASSUME NEW j \in Jobs, outcome'[j] = "returned"
               PROVE  wrote'[j] \subseteq durable'
    BY DEF ReturnedIsDurable
  <2>1. CASE j = job[t]
    BY <1>2, <2>1
  <2>2. CASE j # job[t]
    <3>1. wrote[j] \subseteq durable /\ wrote'[j] = wrote[j]
      BY <1>2, <2>2 DEF ReturnedIsDurable
    <3> QED
      BY <1>7, <2>2, <3>1
  <2> QED
    BY <2>1, <2>2
<1>11. ThrownIsRolledBack'
  BY <1>7 DEF ThrownIsRolledBack, TypeOK
<1> QED
  BY <1>3, <1>4, <1>5, <1>6, <1>8, <1>9, <1>10, <1>11

\* A session that ends takes its open transaction with it.
LEMMA DisconnectStep ==
    ASSUME Inv, NEW c \in Connections, Disconnect(c)
    PROVE  Inv'
<1> USE DEF Inv, Disconnect
<1>1. /\ ~alive'[c] /\ open'[c] = {}
      /\ \A d \in Connections : d # c => alive'[d] = alive[d] /\ open'[d] = open[d]
  BY DEF TypeOK
<1>2. TypeOK'
  BY DEF TypeOK
<1>3. Owned' /\ Traces'
  BY DEF Owned, Busy, Traces
<1>4. DeadIsEmpty' /\ CleanInPool'
  BY <1>1 DEF DeadIsEmpty, CleanInPool, TypeOK
<1>5. InStep'
  <2> SUFFICES ASSUME NEW t \in Threads, Busy(t)
               PROVE  InStep!(t)'
    BY DEF InStep, Busy
  <2>1. conn[t] \in Connections
    BY DEF Owned
  <2> QED
    BY <1>1, <2>1 DEF InStep
<1> QED
  BY <1>2, <1>3, <1>4, <1>5, QuietStep

\* What the steps of a thread inside a call may rely on.
LEMMA InCall ==
    ASSUME Inv, NEW t \in Threads, Busy(t)
    PROVE  /\ job[t] \in Jobs /\ conn[t] \in Connections
           /\ open[conn[t]] \subseteq Writes
           /\ wrote[job[t]] \subseteq {job[t]} \X (1 .. MaxStatements)
           /\ \A i \in 1 .. MaxStatements :
                 <<job[t], i>> \in durable => <<job[t], i>> \in wrote[job[t]]
           /\ durable \cap wrote[job[t]] \in {{}, wrote[job[t]]}
           /\ job[t] \in threw => durable \cap wrote[job[t]] = {}
           /\ ~alive[conn[t]] => open[conn[t]] = {}
<1>1. job[t] \in Jobs /\ conn[t] \in Connections
  BY DEF Inv, Owned, TypeOK, Jobs
<1> QED
  BY <1>1 DEF Inv, TypeOK, Traces, Atomicity, ThrownIsRolledBack, DeadIsEmpty

\* A statement outside a transaction, with autocommit on.
LEMMA SingleStep ==
    ASSUME Inv, NEW t \in Threads,
           Single(t) \/ SingleFails(t) \/ SingleLost(t)
    PROVE  Inv'
<1>1. Busy(t) /\ pc[t] = "single"
  BY DEF Busy, Single, SingleFails, SingleLost
<1>2. /\ job[t] \notin threw /\ wrote[job[t]] = {}
      /\ alive[conn[t]] => auto[conn[t]]
      /\ open[conn[t]] = {}
      /\ 1 \in 1 .. MaxStatements
      /\ <<job[t], 1>> \in Writes
  BY <1>1, InCall DEF Inv, InStep, Writes
<1>3. \A i \in 1 .. MaxStatements : <<job[t], i>> \notin durable
  BY <1>1, <1>2, InCall
<1>4. CASE SingleFails(t)
  BY <1>1, <1>2, <1>4, InCall, ReleaseStep DEF SingleFails, Inv, TypeOK
<1>5. CASE Single(t) \/ SingleLost(t)
  <2>1. /\ wrote' = [wrote EXCEPT ![job[t]] = {<<job[t], 1>>}]
        /\ durable' = durable \cup {<<job[t], 1>>}
        /\ alive[conn[t]] /\ UNCHANGED <<auto, threw>>
        /\ Release(t, "returned") \/ Release(t, "thrown")
    BY <1>2, <1>5 DEF Single, SingleLost, ExecuteOn
  <2>2. /\ open' \in [Connections -> SUBSET Writes] /\ open'[conn[t]] = {}
        /\ alive' \in [Connections -> BOOLEAN]
        /\ \A c \in Connections : c # conn[t] =>
              alive'[c] = alive[c] /\ open'[c] = open[c]
    <3>1. CASE Single(t)
      BY <1>1, <1>2, <2>1, <3>1, InCall DEF Inv, TypeOK, Single, ExecuteOn
    <3>2. CASE SingleLost(t)
      BY <1>1, <3>2, InCall DEF Inv, TypeOK, SingleLost
    <3> QED
      BY <1>5, <3>1, <3>2
  <2>3. /\ wrote' \in [Jobs -> SUBSET Writes]
        /\ wrote'[job[t]] = {<<job[t], 1>>}
        /\ \A j \in Jobs : j # job[t] => wrote'[j] = wrote[j]
        /\ durable' \in SUBSET Writes
        /\ job[t] \in Jobs /\ conn[t] \in Connections
    BY <1>1, <1>2, <2>1, InCall DEF Inv, TypeOK
  <2>4. durable' \cap wrote'[job[t]] = wrote'[job[t]]
    BY <2>1, <2>3
  <2>5. wrote'[job[t]] \subseteq {job[t]} \X (1 .. MaxStatements)
    BY <1>2, <2>3
  <2>6. /\ \A j \in Jobs : \A i \in 1 .. MaxStatements : j # job[t] =>
              (<<j, i>> \in durable' <=> <<j, i>> \in durable)
        /\ \A i \in 1 .. MaxStatements :
              <<job[t], i>> \in durable' => <<job[t], i>> \in wrote'[job[t]]
    BY <1>3, <2>1, <2>3
  <2> QED
    BY <1>1, <1>2, <2>1, <2>2, <2>3, <2>4, <2>5, <2>6, ReleaseStep DEF Inv, TypeOK
<1> QED
  BY <1>4, <1>5

\* The statements of a transaction, its commit and its rollback.
LEMMA TransactionStep ==
    ASSUME Inv, NEW t \in Threads,
           \/ BeginTransaction(t) \/ CallFails(t) \/ Statement(t) \/ FnThrows(t)
           \/ FnReturns(t) \/ Commit(t) \/ CommitLost(t) \/ Restore(t)
           \/ Rollback(t) \/ Clean(t) \/ CleanupFails(t)
    PROVE  Inv'
<1>0. Busy(t)
  BY DEF Busy, BeginTransaction, CallFails, Statement, FnThrows, FnReturns, Commit,
         CommitLost, Restore, Rollback, Clean, CleanupFails
<1> DEFINE c == conn[t]
           j == job[t]
<1>a. /\ j \in Jobs /\ c \in Connections
      /\ open[c] \subseteq Writes
      /\ wrote[j] \subseteq {j} \X (1 .. MaxStatements)
      /\ \A i \in 1 .. MaxStatements : <<j, i>> \in durable => <<j, i>> \in wrote[j]
      /\ durable \cap wrote[j] \in {{}, wrote[j]}
      /\ j \in threw => durable \cap wrote[j] = {}
      /\ ~alive[c] => open[c] = {}
  BY <1>0, InCall
<1>b. /\ alive \in [Connections -> BOOLEAN] /\ auto \in [Connections -> BOOLEAN]
      /\ open \in [Connections -> SUBSET Writes] /\ durable \in SUBSET Writes
      /\ wrote \in [Jobs -> SUBSET Writes] /\ threw \in SUBSET Jobs
  BY DEF Inv, TypeOK
<1>1. CASE BeginTransaction(t)
  <2> USE <1>1 DEF BeginTransaction, Goto
  <2>1. wrote[j] = {} /\ j \notin threw /\ open[c] = {}
    BY <1>a DEF Inv, InStep
  <2>2. /\ auto' \in [Connections -> BOOLEAN] /\ ~auto'[c]
        /\ \A d \in Connections : d # c => auto'[d] = auto[d]
        /\ durable \cap wrote[j] = {}
    BY <1>a, <1>b, <2>1
  <2>3. /\ pc' = [pc EXCEPT ![t] = "fn"] /\ "fn" \in PCs \ {"out"}
        /\ UNCHANGED <<conn, job, jobs, pool, outcome, alive, open, durable, wrote,
                       threw>>
    BY DEF PCs
  <2> HIDE <1>1 DEF BeginTransaction, Goto
  <2> QED
    BY <1>0, <1>a, <1>b, <2>1, <2>2, <2>3, GotoStep
<1>2. CASE CallFails(t)
  <2>1. /\ pc' = [pc EXCEPT ![t] = "rollback"] /\ "rollback" \in PCs \ {"out"}
        /\ UNCHANGED <<conn, job, jobs, pool, outcome, alive, auto, open, durable,
                       wrote, threw>>
    BY <1>2 DEF CallFails, Goto, PCs
  <2> QED
    BY <1>0, <1>a, <1>b, <2>1, GotoStep
<1>3. CASE Statement(t)
  <2> USE <1>3 DEF Statement
  <2>1. PICK i \in 1 .. MaxStatements :
           /\ <<j, i>> \notin wrote[j]
           /\ ExecuteOn(c, <<j, i>>)
           /\ wrote' = [wrote EXCEPT ![j] = @ \cup {<<j, i>>}]
    OBVIOUS
  <2>2. /\ j \notin threw /\ durable \cap wrote[j] = {}
        /\ ~auto[c] /\ open[c] = wrote[j]
    BY DEF Inv, InStep
  <2>3. /\ durable' = durable
        /\ open' = [open EXCEPT ![c] = @ \cup {<<j, i>>}]
    BY <2>1, <2>2 DEF ExecuteOn
  <2>4. <<j, i>> \in Writes /\ <<j, i>> \notin durable
    BY <1>a, <2>1 DEF Writes
  <2>5. /\ wrote'[j] = wrote[j] \cup {<<j, i>>}
        /\ open'[c] = open[c] \cup {<<j, i>>}
        /\ wrote' \in [Jobs -> SUBSET Writes]
        /\ open' \in [Connections -> SUBSET Writes]
        /\ \A k \in Jobs : k # j => wrote'[k] = wrote[k]
        /\ \A d \in Connections : d # c => open'[d] = open[d]
    BY <1>a, <1>b, <2>1, <2>3, <2>4
  <2>6. /\ wrote'[j] \subseteq {j} \X (1 .. MaxStatements)
        /\ durable' \cap wrote'[j] = {}
        /\ open'[c] = wrote'[j]
    <3>1. wrote'[j] \subseteq {j} \X (1 .. MaxStatements)
      BY <1>a, <2>5
    <3>2. durable \cap (wrote[j] \cup {<<j, i>>}) = {}
      BY <2>2, <2>4
    <3> QED
      BY <2>2, <2>3, <2>5, <3>1, <3>2
  <2>7. pc' = [pc EXCEPT ![t] = "fn"]
    BY DEF Inv, TypeOK
  <2> QED
    BY <1>0, <1>a, <1>b, <2>1, <2>2, <2>3, <2>5, <2>6, <2>7, GotoStep DEF PCs
<1>4. CASE FnThrows(t)
  <2> USE <1>4 DEF FnThrows, Goto
  <2>1. /\ open' \in [Connections -> SUBSET Writes]
        /\ ~alive[c] => open'[c] = {}
        /\ \A d \in Connections : d # c => open'[d] = open[d]
    BY <1>a, <1>b
  <2>2. durable \cap wrote[j] = {}
    BY DEF Inv, InStep
  <2>3. /\ pc' = [pc EXCEPT ![t] = "rollback"] /\ "rollback" \in PCs \ {"out"}
        /\ UNCHANGED <<conn, job, jobs, pool, outcome, alive, auto, durable, wrote>>
        /\ threw' \in SUBSET Jobs
        /\ \A k \in Jobs : k # j => (k \in threw' <=> k \in threw)
    BY <1>a, <1>b DEF PCs
  <2> HIDE <1>4 DEF FnThrows, Goto
  <2> QED
    BY <1>0, <1>a, <1>b, <2>1, <2>2, <2>3, GotoStep
<1>5. CASE FnReturns(t)
  <2> USE <1>5 DEF FnReturns, Goto
  <2>1. /\ j \notin threw /\ durable \cap wrote[j] = {}
        /\ alive[c] => ~auto[c] /\ open[c] = wrote[j]
    BY DEF Inv, InStep
  <2>2. /\ pc' = [pc EXCEPT ![t] = "commit"] /\ "commit" \in PCs \ {"out"}
        /\ UNCHANGED <<conn, job, jobs, pool, outcome, alive, auto, open, durable,
                       wrote, threw>>
    BY DEF PCs
  <2> HIDE <1>5 DEF FnReturns, Goto
  <2> QED
    BY <1>0, <1>a, <1>b, <2>1, <2>2, GotoStep
<1>6. CASE Commit(t) \/ CommitLost(t)
  <2> USE <1>6 DEF Commit, CommitLost, Goto
  <2>1. j \notin threw /\ open[c] = wrote[j]
    BY DEF Inv, InStep
  <2>2. durable' = durable \cup wrote[j] /\ open' = [open EXCEPT ![c] = {}]
    BY <2>1
  <2>3. /\ open' \in [Connections -> SUBSET Writes] /\ open'[c] = {}
        /\ \A d \in Connections : d # c => open'[d] = open[d]
        /\ durable' \in SUBSET Writes /\ durable' \cap wrote[j] = wrote[j]
        /\ wrote[j] \subseteq durable'
    BY <1>a, <1>b, <2>2
  <2>4. /\ \A k \in Jobs : \A i \in 1 .. MaxStatements : k # j =>
              (<<k, i>> \in durable' <=> <<k, i>> \in durable)
        /\ \A i \in 1 .. MaxStatements :
              <<j, i>> \in durable' => <<j, i>> \in wrote[j]
    BY <1>a, <2>2
  <2>5. /\ alive' \in [Connections -> BOOLEAN]
        /\ \A d \in Connections : d # c => alive'[d] = alive[d]
        /\ UNCHANGED <<conn, job, jobs, pool, outcome, auto, wrote, threw>>
        /\ \E q \in {"restore", "rollback"} : pc' = [pc EXCEPT ![t] = q]
    BY <1>a, <1>b
  <2> QED
    BY <1>0, <1>a, <1>b, <2>1, <2>3, <2>4, <2>5, GotoStep DEF PCs
<1>7. CASE Rollback(t)
  <2> USE <1>7 DEF Rollback, Goto
  <2>1. /\ open' \in [Connections -> SUBSET Writes] /\ open'[c] = {}
        /\ \A d \in Connections : d # c => open'[d] = open[d]
    BY <1>a, <1>b
  <2>2. /\ pc' = [pc EXCEPT ![t] = "clean"] /\ "clean" \in PCs \ {"out"}
        /\ UNCHANGED <<conn, job, jobs, pool, outcome, alive, auto, durable, wrote,
                       threw>>
    BY DEF PCs
  <2> HIDE <1>7 DEF Rollback, Goto
  <2> QED
    BY <1>0, <1>a, <1>b, <2>1, <2>2, GotoStep
<1>8. CASE Restore(t) \/ Clean(t)
  <2> USE <1>8 DEF Restore, Clean, AutoCommitOn
  <2>1. open[c] = {} /\ (pc[t] = "restore" => wrote[j] \subseteq durable)
    BY DEF Inv, InStep
  <2>2. durable' = durable /\ UNCHANGED <<alive, wrote, threw>>
    BY <2>1
  <2>3. /\ open' \in [Connections -> SUBSET Writes] /\ open'[c] = {}
        /\ auto' \in [Connections -> BOOLEAN] /\ auto'[c]
        /\ \A d \in Connections : d # c => open'[d] = open[d] /\ auto'[d] = auto[d]
    BY <1>a, <1>b
  <2>4. PICK r \in {"returned", "thrown"} :
           /\ Release(t, r)
           /\ r = "returned" => wrote[j] \subseteq durable
    BY <2>1
  <2> QED
    BY <1>0, <1>a, <1>b, <2>2, <2>3, <2>4, ReleaseStep
<1>9. CASE CleanupFails(t)
  BY <1>0, <1>9, <1>a, <1>b, ReleaseStep DEF CleanupFails
<1> QED
  BY <1>1, <1>2, <1>3, <1>4, <1>5, <1>6, <1>7, <1>8, <1>9

\* Every step preserves the invariant.
LEMMA StepInv == Inv /\ [Next]_vars => Inv'
<1> SUFFICES ASSUME Inv, [Next]_vars PROVE Inv'
  OBVIOUS
<1>1. CASE UNCHANGED vars
  <2> USE <1>1 DEF vars, Inv
  <2>1. TypeOK' /\ Owned' /\ Traces'
    BY DEF TypeOK, Owned, Busy, Traces
  <2>2. DeadIsEmpty' /\ InStep' /\ CleanInPool'
    BY DEF DeadIsEmpty, InStep, CleanInPool
  <2> QED
    BY <2>1, <2>2, QuietStep
<1>2. ASSUME NEW t \in Threads, CallSingle(t) \/ CallTransaction(t) PROVE Inv'
  BY <1>2, AcquireStep DEF CallSingle, CallTransaction
<1> QED
  BY <1>1, <1>2, DisconnectStep, SingleStep, TransactionStep DEF Next

\* The invariant holds in every reachable state.
LEMMA Invariance == Spec => []Inv
BY InitInv, StepInv, PTL DEF Spec

\* Every reachable state is well typed, and a thread holds a connection exactly
\* while it is in a call.
THEOREM TypeCorrect == Spec => []TypeOK
BY Invariance, PTL DEF Inv

\* transaction() is all or nothing, whatever statement, call or session fails.
THEOREM AllOrNothing == Spec => []Atomicity
BY Invariance, PTL DEF Inv

\* What a call of Database has returned for is durable.
THEOREM ReturnMeansDurable == Spec => []ReturnedIsDurable
BY Invariance, PTL DEF Inv

\* A transaction whose fn throws stays rolled back, as Database.hpp documents.
THEOREM ThrowMeansRolledBack == Spec => []ThrownIsRolledBack
BY Invariance, PTL DEF Inv

\* A connection in the pool is dead or as good as new.
THEOREM PoolIsClean == Spec => []CleanInPool
BY Invariance, PTL DEF Inv
=============================================================================
