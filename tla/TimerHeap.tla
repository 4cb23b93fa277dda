------------------------------- MODULE TimerHeap ------------------------------
(***************************************************************************)
(* TimerManager: a binary heap of deadlines in a vector, built by a sift-up*)
(* of its own and taken apart by std::pop_heap, with a mutex that callers  *)
(* of EventLoop::runAfter and the thread of the loop compete for.          *)
(*                                                                         *)
(* heap[i] stands for heap_[i - 1].  One step of the loop of siftUp is one *)
(* action; the mutex is held while idx # 0 (addTimer) or cutoff # NoTime   *)
(* (handleExpiredTimers).                                                  *)
(***************************************************************************)
EXTENDS Integers, Sequences

CONSTANTS
  Timers,      (* timers; one that fired may be armed again                *)
  Delays,      (* delays passed to runAfter, in milliseconds               *)
  TicksPerMs,  (* the clock is finer than the milliseconds of epoll_wait   *)
  MaxTime      (* bound: the clock stops here                              *)

ASSUME TimerHeapAssumption ==
  /\ Delays \subseteq Nat /\ TicksPerMs \in Nat \ {0} /\ MaxTime \in Nat

NoTime == -1

VARIABLES
  now,      (* steady_clock                                                *)
  expire,   (* expire_ of a timer                                          *)
  calling,  (* timers whose runAfter has not got the mutex of addTimer yet *)
  heap,     (* heap_                                                       *)
  idx,      (* idx of siftUp, from 1; 0 when nobody is in addTimer         *)
  cutoff,   (* now of handleExpiredTimers; NoTime when nobody is in it     *)
  waitMs    (* the last result of getNextExpireMs                          *)

vars == <<now, expire, calling, heap, idx, cutoff, waitMs>>

Elems(h) == {h[i] : i \in 1 .. Len(h)}

TypeOK ==
  /\ now \in Nat /\ expire \in [Timers -> Nat] /\ calling \in SUBSET Timers
  /\ heap \in Seq(Timers) /\ idx \in 0 .. Len(heap)
  /\ cutoff \in Nat \cup {NoTime} /\ waitMs \in Nat \cup {NoTime}

Init == /\ now = 0 /\ expire = [t \in Timers |-> 0] /\ calling = {}
        /\ heap = <<>> /\ idx = 0 /\ cutoff = NoTime /\ waitMs = NoTime

MutexFree == idx = 0 /\ cutoff = NoTime

Tick == /\ now < MaxTime /\ now' = now + 1
        /\ UNCHANGED <<expire, calling, heap, idx, cutoff, waitMs>>

-----------------------------------------------------------------------------
(* Arming a timer, from any thread                                         *)

\* runAfter: the deadline is computed before the mutex is asked for.
RunAfter(t, delay) ==
  /\ t \notin calling \cup Elems(heap)
  /\ expire' = [expire EXCEPT ![t] = now + delay * TicksPerMs]
  /\ calling' = calling \cup {t}
  /\ UNCHANGED <<now, heap, idx, cutoff, waitMs>>

\* addTimer: push_back, then siftUp from the last place.
AddTimer(t) ==
  /\ MutexFree /\ t \in calling
  /\ calling' = calling \ {t}
  /\ heap' = Append(heap, t) /\ idx' = Len(heap) + 1
  /\ UNCHANGED <<now, expire, cutoff, waitMs>>

Parent(i) == i \div 2

Misplaced(i) == i > 1 /\ expire[heap[i]] < expire[heap[Parent(i)]]

\* Mutant of SiftUp: the parent is copied down and the timer itself forgotten.
SiftUpCopies ==
  /\ idx # 0 /\ Misplaced(idx)
  /\ heap' = [heap EXCEPT ![idx] = heap[Parent(idx)]]
  /\ idx' = Parent(idx)
  /\ UNCHANGED <<now, expire, calling, cutoff, waitMs>>

Swapped(h, i, j) == [h EXCEPT ![i] = h[j], ![j] = h[i]]

SiftUp ==
  /\ idx # 0 /\ Misplaced(idx)
  /\ heap' = Swapped(heap, idx, Parent(idx))
  /\ idx' = Parent(idx)
  /\ UNCHANGED <<now, expire, calling, cutoff, waitMs>>

EndSift ==
  /\ idx # 0 /\ ~Misplaced(idx) /\ idx' = 0
  /\ UNCHANGED <<now, expire, calling, heap, cutoff, waitMs>>

-----------------------------------------------------------------------------
(* A round of the loop: handleExpiredTimers, then getNextExpireMs          *)

Children(h, i) == {2 * i, 2 * i + 1} \cap 1 .. Len(h)
HeapOrdered(h) ==
  \A i \in 1 .. Len(h) : \A c \in Children(h, i) : expire[h[i]] <= expire[h[c]]
RootLeast(h) == \A i \in 1 .. Len(h) : expire[h[1]] <= expire[h[i]]
Distinct(h)  == \A i, j \in 1 .. Len(h) : h[i] = h[j] => i = j

\* std::pop_heap and pop_back: some heap of the other timers.  Given a vector
\* that is not a heap they leave the others in any order.
PopHeap(h) ==
  {g \in [1 .. Len(h) - 1 -> Elems(h) \ {h[1]}] :
     /\ Distinct(g) /\ Elems(g) = Elems(h) \ {h[1]}
     /\ HeapOrdered(h) => HeapOrdered(g) /\ RootLeast(g)}

BeginRound ==
  /\ MutexFree /\ cutoff' = now
  /\ UNCHANGED <<now, expire, calling, heap, idx, waitMs>>

Due == heap # <<>> /\ expire[heap[1]] <= cutoff

\* The root has expired: its callback runs, then it is popped.
FireRoot ==
  /\ cutoff # NoTime /\ Due
  /\ heap' \in PopHeap(heap)
  /\ UNCHANGED <<now, expire, calling, idx, cutoff, waitMs>>

EndRound ==
  /\ cutoff # NoTime /\ ~Due /\ cutoff' = NoTime
  /\ UNCHANGED <<now, expire, calling, heap, idx, waitMs>>

\* Mutant of RemainingMs: an overdue timer gives a negative wait.
RemainingUnclamped(e) == (e - now) \div TicksPerMs

\* The cast to milliseconds drops the rest.
RemainingMs(e) == IF e > now THEN (e - now) \div TicksPerMs ELSE 0

GetNextExpireMs ==
  /\ MutexFree
  /\ waitMs' = IF heap = <<>> THEN NoTime ELSE RemainingMs(expire[heap[1]])
  /\ UNCHANGED <<now, expire, calling, heap, idx, cutoff>>

-----------------------------------------------------------------------------
(* siftDown, which nothing calls: delTimer is empty, and the pop is that of *)
(* the library.  One round of its loop.                                     *)

Lesser(h, i, c) == IF c <= Len(h) /\ expire[h[c]] < expire[h[i]] THEN c ELSE i

\* smallest: the left child wins against idx, the right one against both.
Smallest(h, i) == Lesser(h, Lesser(h, i, 2 * i), 2 * i + 1)

SiftedDown(h, i) == Swapped(h, i, Smallest(h, i))

\* Only the timer at i may be greater than its children.
OrderedButAt(h, i) ==
  /\ \A k \in 1 .. Len(h) \ {i} : \A c \in Children(h, k) : expire[h[k]] <= expire[h[c]]
  /\ i > 1 => \A c \in Children(h, i) : expire[h[Parent(i)]] <= expire[h[c]]

-----------------------------------------------------------------------------
Next == \/ Tick
        \/ \E t \in Timers : AddTimer(t) \/ \E delay \in Delays : RunAfter(t, delay)
        \/ SiftUp \/ EndSift
        \/ BeginRound \/ FireRoot \/ EndRound \/ GetNextExpireMs

Spec == Init /\ [][Next]_vars

-----------------------------------------------------------------------------
\* In the middle of siftUp only the timer at idx may be out of order, and its
\* children would be in order below its parent.
SiftInvariant ==
  /\ \A i \in 1 .. Len(heap) : \A c \in Children(heap, i) \ {idx} :
       expire[heap[i]] <= expire[heap[c]]
  /\ idx > 1 => \A c \in Children(heap, idx) :
       expire[heap[Parent(idx)]] <= expire[heap[c]]

\* The root is the earliest but perhaps for the timer that is being sifted up.
RootInvariant ==
  \A i \in 1 .. Len(heap) : i # idx => expire[heap[1]] <= expire[heap[i]]

\* No timer is in the vector twice or waits for the mutex and is in it, and one
\* thread at a time is at work on it.
Bookkeeping ==
  /\ Distinct(heap) /\ calling \cap Elems(heap) = {}
  /\ idx = 0 \/ cutoff = NoTime

\* The heap is well formed at each step of siftUp, std::pop_heap and their
\* interleaving with the threads that arm timers.
IInv == SiftInvariant /\ RootInvariant /\ Bookkeeping

\* siftUp and std::pop_heap agree on the order: the heap behaves as a set of
\* timers that fires all that is due, the earliest first and nothing else, and
\* whose wait is neither too long nor a millisecond too short.
Set == INSTANCE TimerSet WITH armed <- Elems(heap)
ImplementsSet == Set!SetSpec
=============================================================================
