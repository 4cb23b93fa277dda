---------------------------- MODULE ConnectionPool ----------------------------
(***************************************************************************)
(* The MySQL connection pool: getConn polls for a connection and pings it  *)
(* under the pool's mutex, the ConnectionGuard it returns gives the        *)
(* connection back when the query is done, close() may come at any time    *)
(* (main() after the loop, or the destructor of the singleton when the     *)
(* process exits with its sub-reactors running).  The callers are the      *)
(* threads that run User::login and User::reg.                             *)
(***************************************************************************)
EXTENDS Naturals, Sequences, FiniteSets

CONSTANTS
  Threads,     (* the threads that call getConn                            *)
  MaxConn,     (* max_conn of init                                         *)
  MaxHandles,  (* bound: connections the database ever accepts             *)
  CanFail,     (* TRUE: pings and connects may fail                        *)
  None         (* nullptr, or no thread                                    *)

ASSUME PoolAssumption ==
  /\ IsFiniteSet(Threads)
  /\ MaxConn \in Nat /\ MaxHandles \in Nat
  /\ CanFail \in BOOLEAN
  /\ None \notin Threads \cup Nat

Handles == 1 .. MaxHandles      \* a MYSQL*: the n-th connection that was opened

VARIABLES
  attempts,  (* connections that init() has tried to open                  *)
  pool,      (* pool_                                                      *)
  created,   (* connections opened so far                                  *)
  closedH,   (* connections given to mysql_close                           *)
  owner,     (* the thread that holds mtx_ across a blocking call          *)
  pc,        (* idle, wait, check, ping, create, query, return; dead: crash *)
  conn,      (* the connection in the hands of a thread                    *)
  closed     (* closed_                                                    *)

Pooled == {pool[i] : i \in DOMAIN pool}
Held == {conn[t] : t \in Threads} \ {None}

vars == <<attempts, pool, created, closedH, owner, pc, conn, closed>>

Pc == {"idle", "wait", "check", "ping", "create", "query", "return", "dead"}

TypeOK ==
  /\ attempts \in 0 .. MaxConn
  /\ pool \in Seq(Handles) /\ created \in 0 .. MaxHandles /\ closedH \subseteq Handles
  /\ owner \in Threads \cup {None}
  /\ pc \in [Threads -> Pc]
  /\ conn \in [Threads -> Handles \cup {None}]
  /\ closed \in BOOLEAN

Init ==
  /\ attempts = 0 /\ pool = <<>> /\ created = 0 /\ closedH = {}
  /\ owner = None /\ pc = [t \in Threads |-> "idle"]
  /\ conn = [t \in Threads |-> None] /\ closed = FALSE

\* mysql_real_connect succeeds or fails.
Connects == created < MaxHandles /\ created' = created + 1
FailsToConnect == CanFail /\ created' = created

Goto(t, at) == pc' = [pc EXCEPT ![t] = at]

Initialised == attempts = MaxConn

\* Mutant of InitConn: one attempt too many.
InitConnOneMore ==
  /\ attempts <= MaxConn
  /\ attempts' = attempts + 1
  /\ Connects /\ pool' = Append(pool, created')
  /\ UNCHANGED <<closedH, owner, pc, conn, closed>>

\* init(): one connection of the batch; a failure is skipped.  The server starts
\* when the batch is done, whatever init returned: with max_conn = 0 it starts at once,
\* without a connection.  The names that main passes are not empty.
InitConn ==
  /\ attempts < MaxConn
  /\ attempts' = attempts + 1
  /\ \/ Connects /\ pool' = Append(pool, created')
     \/ FailsToConnect /\ pool' = pool
  /\ UNCHANGED <<closedH, owner, pc, conn, closed>>

CallGetConn(t) ==
  /\ Initialised /\ pc[t] = "idle" /\ Goto(t, "wait")
  /\ UNCHANGED <<attempts, pool, created, closedH, owner, conn, closed>>

\* The mutex is taken, at first or after the 5 ms sleep.
Lock(t) ==
  /\ pc[t] = "wait" /\ owner = None
  /\ Goto(t, "check") /\ owner' = t
  /\ UNCHANGED <<attempts, pool, created, closedH, conn, closed>>

\* Mutant of Empty: the last connection is not given away.
EmptyButOne == Len(pool) <= 1

\* pool_.empty()
Empty == pool = <<>>

\* Mutant of SleepWhileEmpty: the thread sleeps with the mutex held.
SleepWithLock(t) ==
  /\ pc[t] = "check" /\ Empty
  /\ UNCHANGED vars

\* The pool is empty: unlock, sleep, and try again.
SleepWhileEmpty(t) ==
  /\ pc[t] = "check" /\ Empty
  /\ Goto(t, "wait") /\ owner' = None
  /\ UNCHANGED <<attempts, pool, created, closedH, conn, closed>>

\* Mutant of Pop: front() without pop().
PeekOnly(t) ==
  /\ pc[t] = "check" /\ ~Empty
  /\ Goto(t, "ping")
  /\ conn' = [conn EXCEPT ![t] = Head(pool)] /\ pool' = pool
  /\ UNCHANGED <<attempts, created, closedH, owner, closed>>

Pop(t) ==
  /\ pc[t] = "check" /\ ~Empty
  /\ Goto(t, "ping")
  /\ conn' = [conn EXCEPT ![t] = Head(pool)] /\ pool' = Tail(pool)
  /\ UNCHANGED <<attempts, created, closedH, owner, closed>>

\* mysql_ping answers: the guard goes to the caller.
PingAnswers(t) ==
  /\ pc[t] = "ping"
  /\ Goto(t, "query") /\ owner' = None
  /\ UNCHANGED <<attempts, pool, created, closedH, conn, closed>>

\* Mutant of PingFails: the dead connection goes back to the pool.
PingFailsPutsBack(t) ==
  /\ CanFail /\ pc[t] = "ping"
  /\ Goto(t, "create")
  /\ pool' = Append(pool, conn[t]) /\ conn' = [conn EXCEPT ![t] = None]
  /\ UNCHANGED <<attempts, closedH, created, owner, closed>>

\* The connection is dead: it is closed, with the mutex held.
PingFails(t) ==
  /\ CanFail /\ pc[t] = "ping"
  /\ Goto(t, "create")
  /\ closedH' = closedH \cup {conn[t]} /\ conn' = [conn EXCEPT ![t] = None]
  /\ UNCHANGED <<attempts, pool, created, owner, closed>>

\* createConn, with the mutex held; its nullptr goes into the guard like a
\* connection.
Recreate(t) ==
  /\ pc[t] = "create"
  /\ Goto(t, "query") /\ owner' = None
  /\ \/ Connects /\ conn' = [conn EXCEPT ![t] = created']
     \/ FailsToConnect /\ conn' = conn
  /\ UNCHANGED <<attempts, pool, closedH, closed>>

\* The guard of t holds a null pointer: its destructor gives nothing back.
GuardIsEmpty(t) == conn[t] = None

\* mysql_query, and what the caller reads of its result.
Query(t) ==
  /\ pc[t] = "query" /\ ~GuardIsEmpty(t)
  /\ Goto(t, "return")
  /\ UNCHANGED <<attempts, pool, created, closedH, owner, conn, closed>>

\* login and reg test the guard, which is never null, and not the connection in it:
\* mysql_query of a null pointer fails, and the guard ends without a release, or the
\* process dies with all its threads.
QueryNull(t) ==
  /\ pc[t] = "query" /\ GuardIsEmpty(t)
  /\ \/ Goto(t, "idle") /\ UNCHANGED owner
     \/ pc' = [u \in Threads |-> "dead"] /\ owner' = None
  /\ UNCHANGED <<attempts, pool, created, closedH, conn, closed>>

\* Mutant of Release: closed_ is not looked at.
ReleaseAlways(t) ==
  /\ pc[t] = "return" /\ owner = None
  /\ Goto(t, "idle")
  /\ pool' = Append(pool, conn[t]) /\ closedH' = closedH
  /\ conn' = [conn EXCEPT ![t] = None]
  /\ UNCHANGED <<attempts, created, owner, closed>>

\* Mutant of Release: a guard that gives nothing back.
ReleaseForgets(t) ==
  /\ pc[t] = "return" /\ owner = None
  /\ Goto(t, "idle")
  /\ conn' = [conn EXCEPT ![t] = None]
  /\ UNCHANGED <<attempts, pool, created, closedH, owner, closed>>

\* The guard's release function, one short critical section.
Release(t) ==
  /\ pc[t] = "return" /\ owner = None
  /\ Goto(t, "idle")
  /\ IF closed THEN pool' = pool /\ closedH' = closedH \cup {conn[t]}
               ELSE pool' = Append(pool, conn[t]) /\ closedH' = closedH
  /\ conn' = [conn EXCEPT ![t] = None]
  /\ UNCHANGED <<attempts, created, owner, closed>>

\* close(): every pooled connection is closed, in one critical section.
Close ==
  /\ Initialised /\ owner = None /\ ~closed /\ \A t \in Threads : pc[t] # "dead"
  /\ closed' = TRUE /\ closedH' = closedH \cup Pooled /\ pool' = <<>>
  /\ UNCHANGED <<attempts, created, owner, pc, conn>>

Step(t) == \/ Lock(t) \/ SleepWhileEmpty(t) \/ Pop(t) \/ PingAnswers(t) \/ PingFails(t)
           \/ Recreate(t) \/ Query(t) \/ QueryNull(t) \/ Release(t)

Next == InitConn \/ Close \/ \E t \in Threads : CallGetConn(t) \/ Step(t)

Spec == Init /\ [][Next]_vars

\* Threads run; a thread that wants the mutex gets it in the end, for the polling
\* ones leave it alone while they sleep; MySQL answers, or fails, in the end.
FairSpec ==
  /\ Spec /\ WF_vars(InitConn)
  /\ \A t \in Threads : /\ SF_vars(Lock(t)) /\ SF_vars(Release(t))
                        /\ WF_vars(SleepWhileEmpty(t) \/ Pop(t))
                        /\ WF_vars(PingAnswers(t) \/ PingFails(t))
                        /\ WF_vars(Recreate(t)) /\ WF_vars(Query(t) \/ QueryNull(t))

-----------------------------------------------------------------------------
(* What the pool keeps true *)

\* No connection is lost: each one ever opened is in the pool, in the hands of a
\* thread, or was given to mysql_close, and only one of the three.
AllAccounted ==
  /\ 1 .. created = Pooled \cup Held \cup closedH
  /\ Pooled \cap Held = {} /\ (Pooled \cup Held) \cap closedH = {}

\* After close() nothing comes back into the pool, however late a guard dies.
ClosedIsDrained == closed => pool = <<>>

\* Threads with a connection in their hands, making one anew for a dead one, or with
\* the null pointer of one that could not be made.
Busy == {t \in Threads : conn[t] # None \/ pc[t] \in {"create", "query"}}

\* How many connections the pool and the threads have.
Capacity == Len(pool) + Cardinality(Busy)

\* The pool and the threads together never have more than max_conn connections,
\* although getConn makes new ones, and each null connection in use, which may
\* crash the process, stands for one that was lost.
NeverOverfull == Capacity <= MaxConn

Lease == INSTANCE ConnLease WITH free <- Pooled, lease <- conn, dead <- closedH

\* The pool implements the abstract lease: a live connection is free or with one
\* thread, and no thread is ever given one that was closed.
ImplementsLease == Lease!LeaseSpec

\* A thread polls in vain only while others are served: as long as it does, connections
\* go on being given out, although pings fail and guards give back late, unless every
\* connection is lost, the pool closed or the process dead.
SomeoneServed ==
  \A t \in Threads :
    pc[t] = "wait" ~> \/ \E u \in Threads : pc[u] = "query" /\ conn[u] # None
                      \/ pc[t] \in {"query", "dead"} \/ closed \/ Capacity = 0

\* With a connection for each thread, nobody can be outrun: a thread that asks gets its
\* turn, though it only polls and the others ask again and again.  With fewer it may
\* find the pool empty at each look.
EveryWaiterServed ==
  \A t \in Threads :
    pc[t] = "wait" ~> \/ pc[t] \in {"query", "dead"}
                      \/ closed \/ Capacity < Cardinality(Threads)

-----------------------------------------------------------------------------
(* The inductive invariant of the proofs *)

\* A queue of pointers: no connection is in it twice.
NoDuplicates == \A i, j \in DOMAIN pool : pool[i] = pool[j] => i = j

\* The mutex is held by the thread that is between Lock and the guard, and by no other.
OwnerIsInside == \A t \in Threads : owner = t <=> pc[t] \in {"check", "ping", "create"}

\* What a thread has in its hands depends on where it is.
HandsFollowPc ==
  \A t \in Threads : /\ pc[t] \in {"idle", "wait", "check", "create"} => conn[t] = None
                     /\ pc[t] \in {"ping", "return"} => conn[t] # None

NotShared == \A t, u \in Threads : conn[t] # None /\ conn[t] = conn[u] => t = u

\* Each attempt of init gave the pool one connection at most.
CapacityBound == Capacity <= attempts

\* The pool is closed after init.
ClosedLate == closed => Initialised

\* What needs no counting.
Discipline ==
  /\ TypeOK /\ NoDuplicates /\ OwnerIsInside /\ HandsFollowPc /\ NotShared /\ ClosedLate
  /\ AllAccounted /\ ClosedIsDrained

\* The inductive invariant of the proofs.
IInv == Discipline /\ CapacityBound
=============================================================================
