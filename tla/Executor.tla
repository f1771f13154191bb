------------------------------ MODULE Executor ------------------------------
(***************************************************************************)
(* What a job executor promises its callers, with no mutex, no condition   *)
(* variable and no program counter: jobs are accepted in order while the   *)
(* executor is open, every worker starts the oldest accepted job, and the  *)
(* executor stops only when it has been closed and has nothing left.       *)
(* ThreadPool implements this specification; TgLoggerd composes two        *)
(* instances of it (the files_ and serial_ pools of the daemon).           *)
(***************************************************************************)
EXTENDS Naturals, Sequences

CONSTANTS Workers,  \* the worker threads
          Jobs,     \* what may be posted
          Cap,      \* queue capacity, 0 for unbounded
          NoJob     \* an idle worker's running[w]

VARIABLES pending,  \* accepted jobs that no worker has started
          running,  \* running[w]: the job worker w executes
          done,     \* the jobs that have finished, in that order
          open,     \* new jobs are accepted
          stopped   \* every worker thread has ended

vars == <<pending, running, done, open, stopped>>

TypeOK == /\ pending \in Seq(Jobs)
          /\ running \in [Workers -> Jobs \cup {NoJob}]
          /\ done \in Seq(Jobs)
          /\ open \in BOOLEAN
          /\ stopped \in BOOLEAN

Idle == \A w \in Workers : running[w] = NoJob

Init == /\ pending = <<>>
        /\ running = [w \in Workers |-> NoJob]
        /\ done = <<>>
        /\ open = TRUE
        /\ stopped = FALSE

HasRoom == Cap = 0 \/ Len(pending) < Cap

Accept(j) == /\ open
             /\ HasRoom
             /\ pending' = Append(pending, j)
             /\ UNCHANGED <<running, done, open, stopped>>

Start(w) == /\ running[w] = NoJob
            /\ pending # <<>>
            /\ running' = [running EXCEPT ![w] = Head(pending)]
            /\ pending' = Tail(pending)
            /\ UNCHANGED <<done, open, stopped>>

Finish(w) == /\ running[w] # NoJob
             /\ done' = Append(done, running[w])
             /\ running' = [running EXCEPT ![w] = NoJob]
             /\ UNCHANGED <<pending, open, stopped>>

Close == /\ open
         /\ open' = FALSE
         /\ UNCHANGED <<pending, running, done, stopped>>

Stop == /\ ~open
        /\ ~stopped
        /\ pending = <<>>
        /\ Idle
        /\ stopped' = TRUE
        /\ UNCHANGED <<pending, running, done, open>>

Next == \/ \E j \in Jobs : Accept(j)
        \/ \E w \in Workers : Start(w) \/ Finish(w)
        \/ Close
        \/ Stop

Spec == Init /\ [][Next]_vars
=============================================================================
