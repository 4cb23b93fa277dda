--------------------------- MODULE ThreadPoolProofs ---------------------------
(***************************************************************************)
(* ThreadPool for any number of workers and tasks: no wake-up is lost,     *)
(* tasks begin in order, none is left when a worker exits, and the pool    *)
(* implements the abstract task queue.                                     *)
(***************************************************************************)
EXTENDS ThreadPool, FiniteSetTheorems, TLAPS

-----------------------------------------------------------------------------
(* Queues *)

LEMMA PushInOrder ==
  ASSUME NEW S, NEW s \in Seq(S), NEW t \in Seq(S), NEW k \in S
  PROVE  /\ Append(s \o t, k) = s \o Append(t, k)
         /\ Append(s \o t, k) \in Seq(S) /\ Append(t, k) \in Seq(S)
         /\ Len(Append(t, k)) = Len(t) + 1
BY SMTT(30)

LEMMA PopInOrder ==
  ASSUME NEW S, NEW s \in Seq(S), NEW t \in Seq(S), t # <<>>
  PROVE  /\ s \o t = Append(s, Head(t)) \o Tail(t)
         /\ Len(s) < Len(s \o t) /\ (s \o t)[Len(s) + 1] = Head(t)
         /\ Head(t) \in S /\ Tail(t) \in Seq(S) /\ Append(s, Head(t)) \in Seq(S)
         /\ Len(Tail(t)) = Len(t) - 1
BY SMTT(30)

\* The tasks of a queue after a push.
LEMMA TasksInAppend ==
  ASSUME NEW S, NEW s \in Seq(S), NEW k \in S
  PROVE  TasksIn(Append(s, k)) = TasksIn(s) \cup {k}
<1> DEFINE q == Append(s, k)
<1>1. DOMAIN s = 1 .. Len(s) /\ Len(s) \in Nat
  BY SMT
<1>2. Len(s) + 1 \in DOMAIN q /\ q[Len(s) + 1] = k
  BY SMT
<1>3. \A i \in DOMAIN s : i \in DOMAIN q /\ q[i] = s[i]
  BY SMT
<1>4. \A i \in DOMAIN q : i \in DOMAIN s \/ i = Len(s) + 1
  BY SMT
<1> QED BY <1>2, <1>3, <1>4 DEF TasksIn

-----------------------------------------------------------------------------
(* Counting the awake workers *)

LEMMA WorkersFinite ==
  /\ IsFiniteSet(Testing) /\ Cardinality(Testing) \in Nat
  /\ IsFiniteSet(Testing') /\ Cardinality(Testing') \in Nat
<1>1. IsFiniteSet(Workers)
  BY FS_Interval, ThreadPoolAssumption DEF Workers, ThreadPoolAssumption
<1>2. Testing \subseteq Workers /\ Testing' \subseteq Workers
  BY DEF Testing
<1> QED BY <1>1, <1>2, FS_Subset, FS_CardinalityType

\* One worker leaves its test.
LEMMA OneLeaves ==
  ASSUME NEW w \in Workers, pc \in [Workers -> {"test", "asleep", "run", "exited"}],
         pc[w] = "test", NEW at, at # "test", pc' = [pc EXCEPT ![w] = at]
  PROVE  Cardinality(Testing') = Cardinality(Testing) - 1
<1>1. Testing' = Testing \ {w} /\ w \in Testing
  BY DEF Testing
<1> QED BY <1>1, WorkersFinite, FS_RemoveElement

\* One worker comes back to its test.
LEMMA OneReturns ==
  ASSUME NEW w \in Workers, pc \in [Workers -> {"test", "asleep", "run", "exited"}],
         pc[w] # "test", pc' = [pc EXCEPT ![w] = "test"]
  PROVE  Cardinality(Testing') = Cardinality(Testing) + 1
<1>1. Testing' = Testing \cup {w} /\ w \notin Testing
  BY DEF Testing
<1> QED BY <1>1, WorkersFinite, FS_AddElement

-----------------------------------------------------------------------------
(* Each operation keeps the invariant *)

LEMMA InitInv == Init => IInv
<1> SUFFICES ASSUME Init PROVE IInv
  OBVIOUS
<1>1. TypeOK
  <2>1. tasks \in Seq(Tasks) /\ accepted \in Seq(Tasks) /\ begun \in Seq(Tasks) /\ joined \in 0 .. NumThreads
    BY ThreadPoolAssumption, SMT DEF Init, ThreadPoolAssumption
  <2>2. stop \in BOOLEAN
    BY Zenon DEF Init
  <2> QED BY <2>1, <2>2 DEF Init, TypeOK
<1>2. InOrder /\ TasksIn(accepted) = {} /\ TasksIn(begun) = {}
  BY SMT DEF Init, InOrder, TasksIn
<1>3. NoLostWakeup
  BY DEF Init, NoLostWakeup, Asleep
<1>4. JoinedExited
  BY SMT DEF Init, JoinedExited, Workers
<1> QED BY <1>1, <1>2, <1>3, <1>4 DEF Init, IInv, OnlyOffered, BegunOnce, StopFollowsOwner, ExitsAreLate

LEMMA StutterStep == ASSUME IInv, UNCHANGED vars PROVE IInv'
<1>1. TypeOK' /\ InOrder' /\ OnlyOffered' /\ BegunOnce'
  BY DEF vars, history, IInv, TypeOK, InOrder, OnlyOffered, BegunOnce, TasksIn
<1>2. StopFollowsOwner' /\ ExitsAreLate' /\ JoinedExited'
  BY DEF vars, IInv, StopFollowsOwner, ExitsAreLate, JoinedExited
<1>3. NoLostWakeup'
  BY DEF vars, IInv, NoLostWakeup, Asleep, Testing
<1> QED BY <1>1, <1>2, <1>3 DEF IInv

\* A worker that is not running a task sleeps, exits or wakes: the queue and its
\* history stay as they are.
LEMMA RestStep ==
  ASSUME IInv, NEW w \in Workers, Sleep(w) \/ Exit(w) \/ WakeSpuriously(w)
  PROVE  IInv'
<1>1. /\ UNCHANGED <<tasks, stop, task, owner, joined, offered, accepted, begun, ended>>
      /\ pc[w] # "run" /\ pc[w] # "exited"
  BY DEF Sleep, Exit, WakeSpuriously, history
<1>2. PICK at \in {"asleep", "exited", "test"} : pc' = [pc EXCEPT ![w] = at]
  BY DEF Sleep, Exit, WakeSpuriously
<1>3. \A u \in Workers : pc'[u] = IF u = w THEN at ELSE pc[u]
  BY <1>2 DEF IInv, TypeOK
<1>4. TypeOK' /\ InOrder' /\ OnlyOffered'
  BY <1>1, <1>2 DEF IInv, TypeOK, InOrder, OnlyOffered, TasksIn
<1>5. BegunOnce'
  BY <1>1, <1>2, <1>3 DEF IInv, BegunOnce, TasksIn
<1>6. ExitsAreLate'
  BY <1>1, <1>3 DEF Sleep, Exit, WakeSpuriously, IInv, TypeOK, ExitsAreLate
<1>7. StopFollowsOwner' /\ JoinedExited'
  BY <1>1, <1>3 DEF IInv, StopFollowsOwner, JoinedExited
<1>8. NoLostWakeup'
  <2>1. CASE Sleep(w)
    <3>1. Len(tasks') = 0
      BY <2>1, <1>1 DEF Sleep
    <3>2. owner' \notin {"joining", "gone"}
      BY <2>1, <1>1 DEF Sleep, IInv, StopFollowsOwner
    <3> QED BY <3>1, <3>2, WorkersFinite, SMT DEF NoLostWakeup
  <2>2. CASE Exit(w)
    <3>1. Len(tasks') = 0 /\ Asleep' = Asleep \ {w}
      BY <2>2, <1>1, <1>3 DEF Exit, Asleep
    <3> QED BY <3>1, <1>1, WorkersFinite, SMT DEF NoLostWakeup, IInv
  <2>3. CASE WakeSpuriously(w)
    <3>1. Cardinality(Testing') = Cardinality(Testing) + 1
      BY <2>3, OneReturns DEF WakeSpuriously, IInv, TypeOK
    <3>2. Asleep' \subseteq Asleep
      BY <2>3, <1>3 DEF WakeSpuriously, Asleep
    <3> QED BY <3>1, <3>2, <1>1, WorkersFinite DEF NoLostWakeup, IInv, TypeOK
  <2> QED BY <2>1, <2>2, <2>3
<1> QED BY <1>4, <1>5, <1>6, <1>7, <1>8 DEF IInv

LEMMA TakeStep == ASSUME IInv, NEW w \in Workers, Take(w) PROVE IInv'
<1> DEFINE k == Head(tasks)
<1>1. /\ accepted = Append(begun, k) \o Tail(tasks) /\ k \in Tasks
      /\ Tail(tasks) \in Seq(Tasks) /\ Append(begun, k) \in Seq(Tasks)
      /\ Len(Tail(tasks)) = Len(tasks) - 1 /\ TasksIn(Append(begun, k)) = TasksIn(begun) \cup {k}
  BY PopInOrder, TasksInAppend DEF Take, IInv, TypeOK, InOrder
<1> HIDE DEF k
<1>2. /\ pc[w] = "test" /\ tasks # <<>> /\ pc' = [pc EXCEPT ![w] = "run"]
      /\ task' = [task EXCEPT ![w] = k] /\ tasks' = Tail(tasks) /\ begun' = Append(begun, k)
      /\ UNCHANGED <<stop, owner, joined, offered, accepted, ended>>
  BY DEF Take, k
<1>3. /\ \A u \in Workers : pc'[u] = IF u = w THEN "run" ELSE pc[u]
      /\ \A u \in Workers : task'[u] = IF u = w THEN k ELSE task[u]
      /\ TasksIn(begun') = TasksIn(begun) \cup {k}
  BY <1>1, <1>2 DEF IInv, TypeOK
<1>4. TypeOK' /\ InOrder' /\ OnlyOffered'
  BY <1>1, <1>2 DEF IInv, TypeOK, InOrder, OnlyOffered, TasksIn
<1>5. BegunOnce'
  BY <1>2, <1>3 DEF IInv, BegunOnce
<1>6. ExitsAreLate' /\ StopFollowsOwner' /\ JoinedExited'
  BY <1>2, <1>3 DEF IInv, ExitsAreLate, StopFollowsOwner, JoinedExited
<1>7. NoLostWakeup'
  <2>1. Cardinality(Testing') = Cardinality(Testing) - 1
    BY <1>2, OneLeaves DEF IInv, TypeOK
  <2>2. Asleep' = Asleep /\ Len(tasks') = Len(tasks) - 1 /\ Len(tasks) \in Nat
    BY <1>1, <1>2, <1>3 DEF Asleep, IInv, TypeOK
  <2> QED BY <2>1, <2>2, <1>2, WorkersFinite, SMT DEF NoLostWakeup, IInv
<1> QED BY <1>4, <1>5, <1>6, <1>7 DEF IInv

LEMMA RunStep == ASSUME IInv, NEW w \in Workers, Run(w) PROVE IInv'
<1>1. task[w] \in TasksIn(begun) /\ TasksIn(begun) \subseteq Tasks
  <2>1. TasksIn(begun) \subseteq Tasks
    BY SMT DEF TasksIn, IInv, TypeOK
  <2> QED BY <2>1 DEF Run, IInv, BegunOnce
<1>2. /\ \A u \in Workers : pc'[u] = IF u = w THEN "test" ELSE pc[u]
      /\ \A u \in Workers : task'[u] = IF u = w THEN None ELSE task[u]
      /\ TasksIn(begun') = TasksIn(begun)
  BY DEF Run, IInv, TypeOK, TasksIn
<1>3. TypeOK' /\ InOrder' /\ OnlyOffered'
  BY <1>1 DEF Run, IInv, TypeOK, InOrder, OnlyOffered, TasksIn
<1>4. BegunOnce'
  BY <1>1, <1>2 DEF Run, IInv, BegunOnce
<1>5. ExitsAreLate' /\ StopFollowsOwner' /\ JoinedExited'
  BY <1>2 DEF Run, IInv, ExitsAreLate, StopFollowsOwner, JoinedExited
<1>6. NoLostWakeup'
  <2>1. Cardinality(Testing') = Cardinality(Testing) + 1
    BY OneReturns DEF Run, IInv, TypeOK
  <2>2. Asleep' = Asleep
    BY <1>2 DEF Run, Asleep
  <2> QED BY <2>1, <2>2, WorkersFinite DEF Run, NoLostWakeup, IInv, TypeOK
<1> QED BY <1>3, <1>4, <1>5, <1>6 DEF IInv

LEMMA AddTaskStep == ASSUME IInv, NEW k \in Tasks, AddTask(k) PROVE IInv'
<1>1. CASE stop
  <2>1. UNCHANGED <<tasks, stop, pc, task, owner, joined, accepted, begun, ended>>
        /\ offered' = offered \cup {k}
    BY <1>1 DEF AddTask
  <2>2. TypeOK' /\ InOrder' /\ OnlyOffered' /\ BegunOnce'
    <3>1. TasksIn(accepted') = TasksIn(accepted) /\ TasksIn(begun') = TasksIn(begun)
      BY <2>1 DEF TasksIn
    <3>2. TypeOK' /\ InOrder'
      BY <2>1 DEF IInv, TypeOK, InOrder
    <3>3. OnlyOffered' /\ BegunOnce'
      BY <2>1, <3>1 DEF IInv, OnlyOffered, BegunOnce
    <3> QED BY <3>2, <3>3
  <2>3. ExitsAreLate' /\ StopFollowsOwner' /\ JoinedExited' /\ NoLostWakeup'
    BY <2>1 DEF IInv, ExitsAreLate, StopFollowsOwner, JoinedExited, NoLostWakeup, Asleep, Testing
  <2> QED BY <2>2, <2>3 DEF IInv
<1>2. CASE ~stop
  <2>1. /\ tasks' = Append(tasks, k) /\ accepted' = Append(accepted, k) /\ NotifyOne
        /\ offered' = offered \cup {k} /\ UNCHANGED <<stop, task, owner, joined, begun, ended>>
    BY <1>2 DEF AddTask
  <2>2. /\ InOrder' /\ tasks' \in Seq(Tasks) /\ accepted' \in Seq(Tasks)
        /\ Len(tasks') = Len(tasks) + 1 /\ TasksIn(accepted') = TasksIn(accepted) \cup {k}
    <3>1. tasks \in Seq(Tasks) /\ begun \in Seq(Tasks) /\ accepted \in Seq(Tasks)
      BY DEF IInv, TypeOK
    <3>2. /\ Append(begun \o tasks, k) = begun \o Append(tasks, k)
          /\ Append(begun \o tasks, k) \in Seq(Tasks) /\ Append(tasks, k) \in Seq(Tasks)
          /\ Len(Append(tasks, k)) = Len(tasks) + 1
      BY <3>1, PushInOrder, Zenon
    <3>3. TasksIn(Append(accepted, k)) = TasksIn(accepted) \cup {k}
      BY <3>1, TasksInAppend, Zenon
    <3> QED BY <2>1, <3>2, <3>3, Zenon DEF IInv, InOrder
  <2>3. /\ pc' \in [Workers -> {"test", "asleep", "run", "exited"}]
        /\ \A u \in Workers : pc'[u] = pc[u] \/ (pc[u] = "asleep" /\ pc'[u] = "test")
    BY <2>1 DEF NotifyOne, Asleep, IInv, TypeOK
  <2>4. TypeOK' /\ OnlyOffered'
    BY <2>1, <2>2, <2>3 DEF IInv, TypeOK, OnlyOffered
  <2>5. BegunOnce'
    <3>1. \A u \in Workers : pc'[u] = "run" <=> pc[u] = "run"
      BY <2>3
    <3> QED BY <2>1, <3>1 DEF IInv, BegunOnce, TasksIn
  <2>6. ExitsAreLate' /\ StopFollowsOwner' /\ JoinedExited'
    BY <1>2, <2>1, <2>3, SMT DEF IInv, ExitsAreLate, StopFollowsOwner, JoinedExited
  <2>7. NoLostWakeup'
    <3>1. owner' \notin {"joining", "gone"}
      BY <1>2, <2>1 DEF IInv, StopFollowsOwner
    <3>2. CASE Asleep = {}
      BY <2>1, <3>1, <3>2 DEF NotifyOne, NoLostWakeup, Asleep
    <3>3. CASE Asleep # {}
      <4>1. Cardinality(Testing') = Cardinality(Testing) + 1
        BY <2>1, <3>3, OneReturns DEF NotifyOne, Asleep, IInv, TypeOK
      <4>2. Len(tasks) \in Nat /\ Len(tasks) <= Cardinality(Testing)
        BY <3>3 DEF IInv, TypeOK, NoLostWakeup
      <4> QED BY <2>2, <3>1, <4>1, <4>2, WorkersFinite, SMT DEF NoLostWakeup
    <3> QED BY <3>2, <3>3
  <2> QED BY <2>2, <2>4, <2>5, <2>6, <2>7 DEF IInv
<1> QED BY <1>1, <1>2 DEF IInv, TypeOK

LEMMA OwnerStep == ASSUME IInv, Owner PROVE IInv'
<1>1. UNCHANGED <<tasks, task, offered, accepted, begun, ended>>
  BY DEF Owner, Start, Stop, WakeAll, Join, Destroy, history
<1>2. /\ pc' \in [Workers -> {"test", "asleep", "run", "exited"}]
      /\ \A u \in Workers : pc'[u] = pc[u] \/ (pc[u] = "asleep" /\ pc'[u] = "test")
  BY DEF Owner, Start, Stop, WakeAll, Join, Destroy, NotifyAll, IInv, TypeOK
<1>3. joined' \in 0 .. NumThreads
  BY ThreadPoolAssumption, SMT DEF Owner, Start, Stop, WakeAll, Join, Destroy, IInv, TypeOK,
     ThreadPoolAssumption
<1>4. stop' \in BOOLEAN /\ owner' \in {"built", "started", "stopped", "joining", "gone"}
  BY Zenon DEF Owner, Start, Stop, WakeAll, Join, Destroy, IInv, TypeOK
<1>5. TypeOK' /\ InOrder' /\ OnlyOffered'
  BY <1>1, <1>2, <1>3, <1>4 DEF IInv, TypeOK, InOrder, OnlyOffered, TasksIn
<1>6. BegunOnce'
  <2>1. \A u \in Workers : pc'[u] = "run" <=> pc[u] = "run"
    BY <1>2
  <2> QED BY <1>1, <2>1 DEF IInv, BegunOnce, TasksIn
<1>7. StopFollowsOwner' /\ ExitsAreLate'
  BY <1>1, <1>2 DEF Owner, Start, Stop, WakeAll, Join, Destroy, IInv, TypeOK, StopFollowsOwner,
     ExitsAreLate
<1>8. JoinedExited'
  <2>1. CASE Join
    BY <2>1, <1>3, SMT DEF Join, IInv, TypeOK, JoinedExited, Workers
  <2>2. CASE joined' = joined /\ owner' # "gone"
    BY <2>2, <1>2 DEF IInv, JoinedExited
  <2>3. CASE Destroy
    BY <2>3 DEF Destroy, IInv, JoinedExited
  <2> QED BY <2>1, <2>2, <2>3 DEF Owner, Start, Stop, WakeAll
<1>9. NoLostWakeup'
  <2>1. CASE Start \/ Stop
    BY <2>1, <1>1 DEF Start, Stop, IInv, NoLostWakeup, Asleep, Testing
  <2>2. CASE WakeAll
    BY <2>2 DEF WakeAll, NotifyAll, NoLostWakeup, Asleep, IInv, TypeOK
  <2>3. CASE Join \/ Destroy
    BY <2>3 DEF Join, Destroy, IInv, NoLostWakeup, Asleep, Testing
  <2> QED BY <2>1, <2>2, <2>3 DEF Owner
<1> QED BY <1>5, <1>6, <1>7, <1>8, <1>9 DEF IInv

LEMMA Inductive == IInv /\ [Next]_vars => IInv'
BY StutterStep, RestStep, TakeStep, RunStep, AddTaskStep, OwnerStep DEF Next, Worker

-----------------------------------------------------------------------------
(* What the invariant says *)

\* An empty queue: all that was accepted has begun.
LEMMA EmptyQueue == ASSUME IInv, tasks = <<>> PROVE begun = accepted
<1>1. begun \in Seq(Tasks) /\ accepted = begun \o <<>>
  BY DEF IInv, TypeOK, InOrder
<1>2. \A s \in Seq(Tasks) : s \o <<>> = s
  BY SMT
<1> QED BY <1>1, <1>2, Zenon

\* The workers have left: all that has begun has ended.
LEMMA AllEnded ==
  ASSUME IInv, (owner = "joining" /\ joined = NumThreads) \/ owner = "gone"
  PROVE  ended = TasksIn(accepted)
<1>1. joined = NumThreads /\ \A w \in Workers : w <= joined
  BY ThreadPoolAssumption, SMT DEF IInv, JoinedExited, Workers, ThreadPoolAssumption
<1>2. \A w \in Workers : pc[w] = "exited"
  BY <1>1 DEF IInv, JoinedExited
<1>3. 1 \in Workers
  BY ThreadPoolAssumption, SMT DEF Workers, ThreadPoolAssumption
<1>4. tasks = <<>>
  BY <1>2, <1>3 DEF IInv, ExitsAreLate
<1>5. begun = accepted
  BY <1>4, EmptyQueue
<1>6. \A k \in TasksIn(begun) : k \in ended
  BY <1>2 DEF IInv, BegunOnce
<1> QED BY <1>5, <1>6 DEF IInv, BegunOnce

LEMMA Drained == IInv => DrainedAtExit
<1> SUFFICES ASSUME IInv PROVE DrainedAtExit
  OBVIOUS
<1>1. (\E w \in Workers : pc[w] = "exited") => stop /\ tasks = <<>> /\ begun = accepted
  BY EmptyQueue DEF IInv, ExitsAreLate
<1>2. owner = "gone" => ended = TasksIn(accepted)
  BY AllEnded
<1> QED BY <1>1, <1>2 DEF DrainedAtExit

-----------------------------------------------------------------------------
(* The refinement of the abstract queue *)

LEMMA SameTasks == \A s : Queue!In(s) = TasksIn(s)
BY DEF Queue!In, TasksIn

LEMMA QueueInits == Init => Queue!QueueInit
BY DEF Init, Queue!QueueInit

LEMMA QueueSteps ==
  ASSUME IInv, [Next]_vars
  PROVE  [Queue!Accept \/ Queue!Begin \/ Queue!End \/ Queue!Destroy]_Queue!queueVars
<1> DEFINE Goal == [Queue!Accept \/ Queue!Begin \/ Queue!End \/ Queue!Destroy]_Queue!queueVars
<1>1. CASE UNCHANGED vars
  BY <1>1 DEF vars, history, Queue!queueVars
<1>2. CASE Start \/ Stop \/ WakeAll \/ Join
  BY <1>2 DEF Start, Stop, WakeAll, Join, history, Queue!queueVars
<1>3. CASE Destroy
  <2>1. ended = TasksIn(accepted)
    BY <1>3, AllEnded DEF Destroy
  <2> QED BY <1>3, <2>1, SameTasks DEF Destroy, history, Queue!Destroy
<1>4. ASSUME NEW k \in Tasks, AddTask(k) PROVE Goal
  <2>1. CASE stop
    BY <1>4, <2>1 DEF AddTask, Queue!queueVars
  <2>2. CASE ~stop
    <3>1. k \in Tasks \ Queue!In(accepted)
      BY <1>4, SameTasks DEF AddTask, IInv, OnlyOffered
    <3>2. (owner = "gone") = FALSE /\ (owner' = "gone") = FALSE
      BY <1>4 DEF AddTask
    <3> QED BY <1>4, <2>2, <3>1, <3>2 DEF AddTask, Queue!Accept
  <2> QED BY <2>1, <2>2 DEF IInv, TypeOK
<1>5. ASSUME NEW w \in Workers, Worker(w) \/ WakeSpuriously(w) PROVE Goal
  <2>1. CASE Sleep(w) \/ Exit(w) \/ WakeSpuriously(w)
    BY <2>1 DEF Sleep, Exit, WakeSpuriously, history, Queue!queueVars
  <2>2. CASE Take(w)
    <3>1. tasks \in Seq(Tasks) /\ begun \in Seq(Tasks) /\ tasks # <<>>
      BY <2>2 DEF Take, IInv, TypeOK
    <3>2. Len(begun) < Len(begun \o tasks) /\ (begun \o tasks)[Len(begun) + 1] = Head(tasks)
      BY <3>1, PopInOrder, Zenon
    <3>3. Len(begun) < Len(accepted) /\ accepted[Len(begun) + 1] = Head(tasks)
      BY <3>2, Zenon DEF IInv, InOrder
    <3> QED BY <2>2, <3>3 DEF Take, Queue!Begin
  <2>3. CASE Run(w)
    <3>1. task[w] \in Queue!In(begun)
      BY <2>3, SameTasks DEF Run, IInv, BegunOnce
    <3>2. CASE task[w] \in ended
      BY <2>3, <3>2 DEF Run, Queue!queueVars
    <3>3. CASE task[w] \notin ended
      BY <2>3, <3>1, <3>3 DEF Run, Queue!End
    <3> QED BY <3>2, <3>3
  <2> QED BY <1>5, <2>1, <2>2, <2>3 DEF Worker
<1> QED BY <1>1, <1>2, <1>3, <1>4, <1>5 DEF Next, Owner

-----------------------------------------------------------------------------
(* The theorems *)

\* The pool is always in a state of the inductive invariant.
THEOREM Invariance == Spec => []IInv
<1>1. IInv /\ [Next]_vars => IInv'
  BY Inductive
<1> QED BY InitInv, <1>1, PTL DEF Spec

\* The queue, the workers and the owner are always well formed.
THEOREM TypeCorrect == Spec => []TypeOK
<1>1. IInv => TypeOK
  BY DEF IInv
<1> QED BY <1>1, Invariance, PTL

\* While a worker sleeps, every queued task has an awake worker about to look.
THEOREM WakeupsSuffice == Spec => []NoLostWakeup
<1>1. IInv => NoLostWakeup
  BY DEF IInv
<1> QED BY <1>1, Invariance, PTL

\* Workers leave a drained queue, and a destroyed pool has run all it accepted.
THEOREM DrainsBeforeExit == Spec => []DrainedAtExit
<1>1. IInv => DrainedAtExit
  BY Drained
<1> QED BY <1>1, Invariance, PTL

\* The pool implements the abstract task queue.
THEOREM Refinement == Spec => ImplementsQueue
<1>1. Init => Queue!QueueInit
  BY QueueInits
<1>2. IInv /\ [Next]_vars
        => [Queue!Accept \/ Queue!Begin \/ Queue!End \/ Queue!Destroy]_Queue!queueVars
  BY QueueSteps
<1> QED BY <1>1, <1>2, Invariance, PTL DEF Spec, ImplementsQueue, Queue!QueueSpec
=============================================================================
