------------------------------ MODULE ThreadPool ------------------------------
(***************************************************************************)
(* The worker pool: workers wait on one condition variable, addTask pushes *)
(* and wakes one of them under the mutex, the destructor sets stop_ under  *)
(* the mutex, wakes everybody after it and joins the workers in order.     *)
(* The server builds one and never gives it a task; the tasks are those of *)
(* any threads that would.                                                 *)
(***************************************************************************)
EXTENDS Naturals, Sequences, FiniteSets

CONSTANTS
  NumThreads,  (* numThreads of the constructor                            *)
  Tasks,       (* bound: the tasks that are ever given to addTask          *)
  None         (* no task                                                  *)

ASSUME ThreadPoolAssumption == NumThreads \in Nat \ {0} /\ None \notin Tasks

Workers == 1 .. NumThreads

VARIABLES
  tasks,     (* tasks_                                                     *)
  stop,      (* stop_                                                      *)
  pc,        (* a worker: test, asleep in wait, run, exited                *)
  task,      (* the task a worker holds                                    *)
  owner,     (* the thread that owns the pool: built, started, stopped,    *)
             (* joining, gone                                              *)
  joined,    (* workers joined by the destructor                           *)
  offered,   (* tasks given to addTask                                     *)
  accepted,  (* history: those pushed, in order                            *)
  begun,     (* history: those taken from the queue, in order              *)
  ended      (* history: those that returned                               *)

vars == <<tasks, stop, pc, task, owner, joined, offered, accepted, begun, ended>>
history == <<offered, accepted, begun, ended>>

TypeOK ==
  /\ tasks \in Seq(Tasks) /\ stop \in BOOLEAN
  /\ pc \in [Workers -> {"test", "asleep", "run", "exited"}]
  /\ task \in [Workers -> Tasks \cup {None}]
  /\ owner \in {"built", "started", "stopped", "joining", "gone"}
  /\ joined \in 0 .. NumThreads
  /\ offered \subseteq Tasks /\ ended \subseteq Tasks
  /\ accepted \in Seq(Tasks) /\ begun \in Seq(Tasks)

Init ==
  /\ tasks = <<>> /\ stop = FALSE
  /\ pc = [w \in Workers |-> "test"] /\ task = [w \in Workers |-> None]
  /\ owner = "built" /\ joined = 0
  /\ offered = {} /\ accepted = <<>> /\ begun = <<>> /\ ended = {}

Asleep == {w \in Workers : pc[w] = "asleep"}

\* notify_one: one sleeping worker, any one, goes back to its test.
NotifyOne ==
  IF Asleep = {} THEN pc' = pc ELSE \E w \in Asleep : pc' = [pc EXCEPT ![w] = "test"]

NotifyAll == pc' = [w \in Workers |-> IF pc[w] = "asleep" THEN "test" ELSE pc[w]]

-----------------------------------------------------------------------------
(* The workers; each step is one critical section, or one task *)

\* The predicate of wait is false: the mutex is released and the worker sleeps.
Sleep(w) ==
  /\ pc[w] = "test" /\ ~stop /\ tasks = <<>>
  /\ pc' = [pc EXCEPT ![w] = "asleep"]
  /\ UNCHANGED <<tasks, stop, task, owner, joined, history>>

\* Mutant of Take: the task is not popped.
TakeNoPop(w) ==
  /\ pc[w] = "test" /\ tasks # <<>>
  /\ pc' = [pc EXCEPT ![w] = "run"]
  /\ task' = [task EXCEPT ![w] = Head(tasks)] /\ tasks' = tasks
  /\ begun' = Append(begun, Head(tasks))
  /\ UNCHANGED <<stop, owner, joined, offered, accepted, ended>>

\* A task is taken, even from a pool that is stopping.
Take(w) ==
  /\ pc[w] = "test" /\ tasks # <<>>
  /\ pc' = [pc EXCEPT ![w] = "run"]
  /\ task' = [task EXCEPT ![w] = Head(tasks)] /\ tasks' = Tail(tasks)
  /\ begun' = Append(begun, Head(tasks))
  /\ UNCHANGED <<stop, owner, joined, offered, accepted, ended>>

\* Mutant of Exit: a worker leaves as soon as the pool stops.
ExitAtOnce(w) ==
  /\ pc[w] = "test" /\ stop
  /\ pc' = [pc EXCEPT ![w] = "exited"]
  /\ UNCHANGED <<tasks, stop, task, owner, joined, history>>

\* Stopped, and nothing left to do.
Exit(w) ==
  /\ pc[w] = "test" /\ stop /\ tasks = <<>>
  /\ pc' = [pc EXCEPT ![w] = "exited"]
  /\ UNCHANGED <<tasks, stop, task, owner, joined, history>>

\* The task returns, run without the mutex.
Run(w) ==
  /\ pc[w] = "run"
  /\ pc' = [pc EXCEPT ![w] = "test"] /\ task' = [task EXCEPT ![w] = None]
  /\ ended' = ended \cup {task[w]}
  /\ UNCHANGED <<tasks, stop, owner, joined, offered, accepted, begun>>

\* A condition variable may wake without a notification.
WakeSpuriously(w) ==
  /\ pc[w] = "asleep"
  /\ pc' = [pc EXCEPT ![w] = "test"]
  /\ UNCHANGED <<tasks, stop, task, owner, joined, history>>

-----------------------------------------------------------------------------
(* The users of the pool *)

\* Mutant of AddTask: nobody is woken when the queue was not empty.
AddTaskWakesFirst(k) ==
  /\ owner # "gone" /\ k \notin offered
  /\ offered' = offered \cup {k}
  /\ IF stop
       THEN UNCHANGED <<tasks, accepted, pc>>
       ELSE /\ tasks' = Append(tasks, k) /\ accepted' = Append(accepted, k)
            /\ IF tasks = <<>> THEN NotifyOne ELSE pc' = pc
  /\ UNCHANGED <<stop, task, owner, joined, begun, ended>>

\* Mutant of AddTask: the function is pushed after it was moved from.
AddTaskMovedFrom(k) ==
  /\ owner # "gone" /\ k \notin offered /\ ~stop
  /\ offered' = offered \cup {k}
  /\ tasks' = Append(tasks, None) /\ accepted' = Append(accepted, k) /\ NotifyOne
  /\ UNCHANGED <<stop, task, owner, joined, begun, ended>>

\* addTask(k): refused by a pool that was stopped.
AddTask(k) ==
  /\ owner # "gone" /\ k \notin offered
  /\ offered' = offered \cup {k}
  /\ IF stop
       THEN UNCHANGED <<tasks, accepted, pc>>
       ELSE tasks' = Append(tasks, k) /\ accepted' = Append(accepted, k) /\ NotifyOne
  /\ UNCHANGED <<stop, task, owner, joined, begun, ended>>

-----------------------------------------------------------------------------
(* The thread that owns the pool *)

\* start(), which writes stop_ without the mutex.
Start ==
  /\ owner = "built" /\ owner' = "started" /\ stop' = FALSE
  /\ UNCHANGED <<tasks, pc, task, joined, history>>

\* ~ThreadPool: stop_ is set under the mutex.  The constructor of EchoServer
\* destroys its first pool without start().
Stop ==
  /\ owner \in {"built", "started"} /\ owner' = "stopped" /\ stop' = TRUE
  /\ UNCHANGED <<tasks, pc, task, joined, history>>

\* Mutant of WakeAll: notify_one.
WakeOneOnly ==
  /\ owner = "stopped" /\ owner' = "joining" /\ NotifyOne
  /\ UNCHANGED <<tasks, stop, task, joined, history>>

WakeAll ==
  /\ owner = "stopped" /\ owner' = "joining" /\ NotifyAll
  /\ UNCHANGED <<tasks, stop, task, joined, history>>

\* The workers are joined one after the other.
Join ==
  /\ owner = "joining" /\ joined < NumThreads /\ pc[joined + 1] = "exited"
  /\ joined' = joined + 1
  /\ UNCHANGED <<tasks, stop, pc, task, owner, history>>

\* The members are destroyed: the queue is freed with what is left in it.
Destroy ==
  /\ owner = "joining" /\ joined = NumThreads /\ owner' = "gone"
  /\ UNCHANGED <<tasks, stop, pc, task, joined, history>>

Worker(w) == Sleep(w) \/ Take(w) \/ Exit(w) \/ Run(w)
Owner == Start \/ Stop \/ WakeAll \/ Join \/ Destroy

Next == \/ Owner \/ \E w \in Workers : Worker(w) \/ WakeSpuriously(w)
        \/ \E k \in Tasks : AddTask(k)

Spec == Init /\ [][Next]_vars

\* Threads run, and a task returns; nobody counts on a spurious wake-up, and
\* nobody has to call addTask or to destroy the pool.
FairSpec == /\ Spec /\ \A w \in Workers : WF_vars(Worker(w))
            /\ WF_vars(WakeAll \/ Join \/ Destroy)

-----------------------------------------------------------------------------
(* What the pool keeps true *)

Testing == {w \in Workers : pc[w] = "test"}

\* No wake-up is lost: while a worker sleeps every task in the queue has an awake
\* worker of its own about to look for it, though addTask wakes one worker only and
\* a worker goes to sleep between other threads' pushes; and none sleeps through
\* the join of the destructor.
NoLostWakeup ==
  /\ Asleep # {} => Len(tasks) <= Cardinality(Testing)
  /\ owner \in {"joining", "gone"} => Asleep = {}

TasksIn(s) == {s[i] : i \in DOMAIN s}

\* A worker leaves an empty queue only, and it stays empty: what was accepted
\* has begun when the first worker is gone and has ended when the pool is.
DrainedAtExit ==
  /\ (\E w \in Workers : pc[w] = "exited") => stop /\ tasks = <<>> /\ begun = accepted
  /\ owner = "gone" => ended = TasksIn(accepted)

-----------------------------------------------------------------------------
(* The inductive invariant of the proofs *)

\* The queue is what was accepted and has not begun.
InOrder == accepted = begun \o tasks

\* Nothing is accepted that was not offered.
OnlyOffered == TasksIn(accepted) \subseteq offered

\* What has begun is running or has ended.
BegunOnce ==
  /\ \A w \in Workers : pc[w] = "run" => task[w] \in TasksIn(begun)
  /\ \A k \in TasksIn(begun) : k \in ended \/ \E w \in Workers : pc[w] = "run" /\ task[w] = k
  /\ ended \subseteq TasksIn(begun)

\* stop_ says where the destructor is; a worker exits from a stopped, empty pool.
StopFollowsOwner == stop <=> owner \in {"stopped", "joining", "gone"}
ExitsAreLate == \A w \in Workers : pc[w] = "exited" => stop /\ tasks = <<>>

\* The destructor joined the workers below its index, all of them in the end.
JoinedExited ==
  /\ \A w \in Workers : w <= joined => pc[w] = "exited"
  /\ owner = "gone" => joined = NumThreads

\* The inductive invariant of the proofs.
IInv ==
  /\ TypeOK /\ InOrder /\ OnlyOffered /\ BegunOnce /\ StopFollowsOwner /\ ExitsAreLate
  /\ JoinedExited /\ NoLostWakeup

-----------------------------------------------------------------------------
(* The abstract specification, and liveness *)

Queue == INSTANCE TaskQueue WITH gone <- (owner = "gone")

\* The pool implements the abstract task queue: exactly once, in order, drained.
ImplementsQueue == Queue!QueueSpec

\* Every accepted task is run, whether the pool is stopped or not.
AcceptedIsRun == \A k \in Tasks : k \in TasksIn(accepted) ~> k \in ended

\* The destructor returns: no worker is left asleep for its join.
DestructorReturns == owner = "stopped" ~> owner = "gone"
=============================================================================
