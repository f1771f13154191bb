------------------------------- MODULE Database -------------------------------
(***************************************************************************)
(* mysql::Database: transaction() and the single statements execute(),     *)
(* insert() and query(), on connections borrowed from the pool, against a  *)
(* server on which a session may end at any moment.                        *)
(*                                                                         *)
(* A session that ends takes its open transaction with it, and its         *)
(* connection stays dead: nothing reconnects or replaces it, every later   *)
(* call on it throws.  On a live session the calls setAutoCommit(),        *)
(* commit() and rollback() succeed, while a statement may be rejected (a   *)
(* key, a lock wait, a deadlock, for which the server rolls the whole      *)
(* transaction back).  SET autocommit = 1 commits what is open.            *)
(*                                                                         *)
(* The pool is module ConnectionPool's; here it is the set of connections  *)
(* that nobody has borrowed.  One that is yet to be created is no          *)
(* different from one that has not been used.                              *)
(***************************************************************************)
EXTENDS Naturals

CONSTANTS Threads,        \* the threads that use the database
          Connections,    \* the connections of the pool
          None,           \* no connection
          MaxJobs,        \* bound: calls of Database in a behaviour
          MaxStatements   \* bound: writing statements of one transaction

ASSUME BoundsAssumption == MaxJobs \in Nat /\ MaxStatements \in Nat \ {0}
ASSUME NoneAssumption == None \notin Connections

Jobs == 1 .. MaxJobs

\* The writing statements of all jobs.  Statements that only read change nothing
\* and are left out.
Writes == Jobs \X (1 .. MaxStatements)

\* "out": not in a call; "single": about to execute a single statement; "begin":
\* about to call setAutoCommit(false); "fn": in fn(txn); "commit", "restore":
\* about to call commit(), setAutoCommit(true); "rollback", "clean": about to call
\* rollback(), setAutoCommit(true) in a catch block.
PCs == {"out", "single", "begin", "fn", "commit", "restore", "rollback", "clean"}

VARIABLES pc,       \* pc[t]: where thread t is
          conn,     \* conn[t]: the connection it has borrowed
          job,      \* job[t]: the number of its call
          pool,     \* the connections that are not borrowed
          alive,    \* alive[c]: c's session exists
          auto,     \* auto[c]: autocommit of c's session
          open,     \* open[c]: the writes of c's open transaction
          durable,  \* the writes that are committed
          jobs,     \* how many calls were made
          wrote,    \* history: the writes that job j made
          outcome,  \* history: how job j ended
          threw     \* history: the transactions whose fn threw

vars == <<pc, conn, job, pool, alive, auto, open, durable, jobs, wrote, outcome,
          threw>>

TypeOK ==
    /\ pc \in [Threads -> PCs]
    /\ conn \in [Threads -> Connections \cup {None}]
    /\ \A t \in Threads : pc[t] = "out" <=> conn[t] = None
    /\ job \in [Threads -> 0 .. MaxJobs]
    /\ pool \subseteq Connections
    /\ alive \in [Connections -> BOOLEAN]
    /\ auto \in [Connections -> BOOLEAN]
    /\ open \in [Connections -> SUBSET Writes]
    /\ durable \subseteq Writes
    /\ jobs \in 0 .. MaxJobs
    /\ wrote \in [Jobs -> SUBSET Writes]
    /\ outcome \in [Jobs -> {"none", "returned", "thrown"}]
    /\ threw \subseteq Jobs

Init ==
    /\ pc = [t \in Threads |-> "out"]
    /\ conn = [t \in Threads |-> None]
    /\ job = [t \in Threads |-> 0]
    /\ pool = Connections
    /\ alive = [c \in Connections |-> TRUE]
    /\ auto = [c \in Connections |-> TRUE]
    /\ open = [c \in Connections |-> {}]
    /\ durable = {}
    /\ jobs = 0
    /\ wrote = [j \in Jobs |-> {}]
    /\ outcome = [j \in Jobs |-> "none"]
    /\ threw = {}

-----------------------------------------------------------------------------
(* The borrowed connection *)

\* ScopedConnection's constructor; q is where the call goes on.
Acquire(t, q) ==
    /\ pc[t] = "out"
    /\ jobs < MaxJobs
    /\ jobs' = jobs + 1
    /\ job' = [job EXCEPT ![t] = jobs + 1]
    /\ \E c \in pool : /\ conn' = [conn EXCEPT ![t] = c]
                       /\ pool' = pool \ {c}
    /\ pc' = [pc EXCEPT ![t] = q]
    /\ UNCHANGED <<alive, auto, open, durable, wrote, outcome, threw>>

\* The call ends, and ScopedConnection's destructor gives the connection back,
\* in whatever state it is.
Release(t, result) ==
    /\ pc' = [pc EXCEPT ![t] = "out"]
    /\ conn' = [conn EXCEPT ![t] = None]
    /\ pool' = pool \cup {conn[t]}
    /\ outcome' = [outcome EXCEPT ![job[t]] = result]
    /\ UNCHANGED <<job, jobs>>

Goto(t, q) ==
    /\ pc' = [pc EXCEPT ![t] = q]
    /\ UNCHANGED <<conn, job, jobs, pool, outcome>>

\* What the server makes of a write on c.
ExecuteOn(c, write) ==
    /\ open' = [open EXCEPT ![c] = IF auto[c] THEN @ ELSE @ \cup {write}]
    /\ durable' = IF auto[c] THEN durable \cup {write} ELSE durable

-----------------------------------------------------------------------------
(* execute(), insert() and query() *)

CallSingle(t) == Acquire(t, "single")

Single(t) ==
    /\ pc[t] = "single"
    /\ alive[conn[t]]
    /\ ExecuteOn(conn[t], <<job[t], 1>>)
    /\ wrote' = [wrote EXCEPT ![job[t]] = {<<job[t], 1>>}]
    /\ Release(t, "returned")
    /\ UNCHANGED <<alive, auto, threw>>

\* The statement is rejected, or the connection is dead.
SingleFails(t) ==
    /\ pc[t] = "single"
    /\ Release(t, "thrown")
    /\ UNCHANGED <<alive, auto, open, durable, wrote, threw>>

-----------------------------------------------------------------------------
(* transaction() *)

CallTransaction(t) == Acquire(t, "begin")

\* setAutoCommit(false)
BeginTransaction(t) ==
    /\ pc[t] = "begin"
    /\ alive[conn[t]]
    /\ auto' = [auto EXCEPT ![conn[t]] = FALSE]
    /\ Goto(t, "fn")
    /\ UNCHANGED <<alive, open, durable, wrote, threw>>

\* Any of the calls outside fn meets a dead connection and throws.
CallFails(t) ==
    /\ pc[t] \in {"begin", "commit", "restore"}
    /\ ~alive[conn[t]]
    /\ Goto(t, "rollback")
    /\ UNCHANGED <<alive, auto, open, durable, wrote, threw>>

Statement(t) ==
    /\ pc[t] = "fn"
    /\ alive[conn[t]]
    /\ \E i \in 1 .. MaxStatements :
          LET write == <<job[t], i>> IN
          /\ write \notin wrote[job[t]]
          /\ ExecuteOn(conn[t], write)
          /\ wrote' = [wrote EXCEPT ![job[t]] = @ \cup {write}]
    /\ UNCHANGED <<pc, conn, job, jobs, pool, alive, auto, outcome, threw>>

\* Mutant: fn catches the exception of a statement and goes on.
FnThrows_Swallowed(t) ==
    /\ pc[t] = "fn"
    /\ \E left \in {open[conn[t]], {}} : open' = [open EXCEPT ![conn[t]] = left]
    /\ Goto(t, "fn")
    /\ UNCHANGED <<alive, auto, durable, wrote, threw>>

\* A statement is rejected, which may have rolled back the transaction on the
\* server, or the connection is dead, or fn throws for a reason of its own.
FnThrows(t) ==
    /\ pc[t] = "fn"
    /\ threw' = threw \cup {job[t]}
    /\ \E left \in {open[conn[t]], {}} : open' = [open EXCEPT ![conn[t]] = left]
    /\ Goto(t, "rollback")
    /\ UNCHANGED <<alive, auto, durable, wrote>>

FnReturns(t) ==
    /\ pc[t] = "fn"
    /\ Goto(t, "commit")
    /\ UNCHANGED <<alive, auto, open, durable, wrote, threw>>

Commit(t) ==
    /\ pc[t] = "commit"
    /\ alive[conn[t]]
    /\ durable' = durable \cup open[conn[t]]
    /\ open' = [open EXCEPT ![conn[t]] = {}]
    /\ Goto(t, "restore")
    /\ UNCHANGED <<alive, auto, wrote, threw>>

\* The session ends between the server's commit and its answer.
CommitLost(t) ==
    /\ pc[t] = "commit"
    /\ alive[conn[t]]
    /\ durable' = durable \cup open[conn[t]]
    /\ open' = [open EXCEPT ![conn[t]] = {}]
    /\ alive' = [alive EXCEPT ![conn[t]] = FALSE]
    /\ Goto(t, "rollback")
    /\ UNCHANGED <<auto, wrote, threw>>

\* SET autocommit = 1 commits what is open.
AutoCommitOn(c) ==
    /\ auto' = [auto EXCEPT ![c] = TRUE]
    /\ durable' = durable \cup open[c]
    /\ open' = [open EXCEPT ![c] = {}]

\* Mutant: transaction() returns without switching autocommit on again.
Restore_None(t) ==
    /\ pc[t] = "restore"
    /\ alive[conn[t]]
    /\ Release(t, "returned")
    /\ UNCHANGED <<alive, auto, open, durable, wrote, threw>>

Restore(t) ==
    /\ pc[t] = "restore"
    /\ alive[conn[t]]
    /\ AutoCommitOn(conn[t])
    /\ Release(t, "returned")
    /\ UNCHANGED <<alive, wrote, threw>>

\* Mutant: the catch block leaves the rollback to setAutoCommit(true).
Rollback_None(t) ==
    /\ pc[t] = "rollback"
    /\ alive[conn[t]]
    /\ Goto(t, "clean")
    /\ UNCHANGED <<alive, auto, open, durable, wrote, threw>>

Rollback(t) ==
    /\ pc[t] = "rollback"
    /\ alive[conn[t]]
    /\ open' = [open EXCEPT ![conn[t]] = {}]
    /\ Goto(t, "clean")
    /\ UNCHANGED <<alive, auto, durable, wrote, threw>>

\* Mutant: the catch block rolls back and does not restore autocommit.
Clean_None(t) ==
    /\ pc[t] = "clean"
    /\ alive[conn[t]]
    /\ Release(t, "thrown")
    /\ UNCHANGED <<alive, auto, open, durable, wrote, threw>>

Clean(t) ==
    /\ pc[t] = "clean"
    /\ alive[conn[t]]
    /\ AutoCommitOn(conn[t])
    /\ Release(t, "thrown")
    /\ UNCHANGED <<alive, wrote, threw>>

\* rollback() or setAutoCommit(true) throws in the catch block, which ignores it
\* and rethrows the first exception.
CleanupFails(t) ==
    /\ pc[t] \in {"rollback", "clean"}
    /\ ~alive[conn[t]]
    /\ Release(t, "thrown")
    /\ UNCHANGED <<alive, auto, open, durable, wrote, threw>>

-----------------------------------------------------------------------------

\* The session of c ends (the server restarts, wait_timeout, the network).
Disconnect(c) ==
    /\ alive[c]
    /\ alive' = [alive EXCEPT ![c] = FALSE]
    /\ open' = [open EXCEPT ![c] = {}]
    /\ UNCHANGED <<pc, conn, job, pool, auto, durable, jobs, wrote, outcome, threw>>

\* The session ends between the execution of a single statement and its answer.
SingleLost(t) ==
    /\ pc[t] = "single"
    /\ alive[conn[t]]
    /\ durable' = IF auto[conn[t]] THEN durable \cup {<<job[t], 1>>} ELSE durable
    /\ open' = [open EXCEPT ![conn[t]] = {}]
    /\ alive' = [alive EXCEPT ![conn[t]] = FALSE]
    /\ wrote' = [wrote EXCEPT ![job[t]] = {<<job[t], 1>>}]
    /\ Release(t, "thrown")
    /\ UNCHANGED <<auto, threw>>

Next == \/ \E c \in Connections : Disconnect(c)
        \/ \E t \in Threads :
              \/ CallSingle(t) \/ Single(t) \/ SingleFails(t) \/ SingleLost(t)
              \/ CallTransaction(t) \/ BeginTransaction(t) \/ CallFails(t)
              \/ Statement(t) \/ FnThrows(t) \/ FnReturns(t)
              \/ Commit(t) \/ CommitLost(t) \/ Restore(t)
              \/ Rollback(t) \/ Clean(t) \/ CleanupFails(t)

Spec == Init /\ [][Next]_vars

-----------------------------------------------------------------------------
(* Properties *)

\* All or nothing: of the writes of a job either none or all are durable, after
\* any rejected statement, lost session, lost commit, and whatever later jobs do
\* with the connection.
Atomicity ==
    \A j \in Jobs : durable \cap wrote[j] \in {{}, wrote[j]}

\* A call that returns has made its writes durable; a single statement does not
\* end up in a transaction that an earlier job has left open.
ReturnedIsDurable ==
    \A j \in Jobs : outcome[j] = "returned" => wrote[j] \subseteq durable

\* When fn throws, the transaction is rolled back for good: no later job on the
\* connection commits what it left.
ThrownIsRolledBack ==
    \A j \in threw : durable \cap wrote[j] = {}

\* A connection in the pool carries nothing over to its next user: it is dead, or
\* its session commits by itself and has no open transaction.
CleanInPool ==
    \A c \in pool : alive[c] => auto[c] /\ open[c] = {}
=============================================================================
