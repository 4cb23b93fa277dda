---------------------------- MODULE TimerHeapProofs ---------------------------
(***************************************************************************)
(* TimerHeap for any timers, delays and resolution of the clock: the vector*)
(* is a heap whenever the mutex is free, no timer is lost or duplicated,   *)
(* and the heap implements the abstract set of timers.                     *)
(***************************************************************************)
EXTENDS TimerHeap, TLAPS

Inv == TypeOK /\ IInv

-----------------------------------------------------------------------------
(* Operators on the vector *)

\* Facts about lengths and elements of a vector of timers.
LEMMA HeapFacts ==
  ASSUME NEW h \in Seq(Timers)
  PROVE  /\ Len(h) \in Nat /\ \A i \in 1 .. Len(h) : h[i] \in Timers
         /\ Elems(h) \subseteq Timers
BY SMT DEF Elems

\* push_back.
LEMMA PushBack ==
  ASSUME NEW h \in Seq(Timers), NEW t \in Timers
  PROVE  /\ Append(h, t) \in Seq(Timers) /\ Len(Append(h, t)) = Len(h) + 1
         /\ \A i \in 1 .. Len(h) : Append(h, t)[i] = h[i]
         /\ Append(h, t)[Len(h) + 1] = t
         /\ Elems(Append(h, t)) = Elems(h) \cup {t}
<1> DEFINE g == Append(h, t)
<1>1. /\ g \in Seq(Timers) /\ Len(g) = Len(h) + 1 /\ Len(h) \in Nat
      /\ \A i \in 1 .. Len(h) : g[i] = h[i]
      /\ g[Len(h) + 1] = t
  BY SMT
<1>2. Elems(g) = Elems(h) \cup {t}
  <2>1. 1 .. Len(g) = 1 .. Len(h) \cup {Len(h) + 1}
    BY <1>1, SMT
  <2> HIDE DEF g
  <2> QED BY <1>1, <2>1 DEF Elems
<1> QED BY <1>1, <1>2

\* A timer and its parent change places.
LEMMA Swap ==
  ASSUME NEW h \in Seq(Timers), NEW i \in 1 .. Len(h), NEW j \in 1 .. Len(h), i # j
  PROVE  /\ Swapped(h, i, j) \in Seq(Timers) /\ Len(Swapped(h, i, j)) = Len(h)
         /\ Swapped(h, i, j)[i] = h[j] /\ Swapped(h, i, j)[j] = h[i]
         /\ \A k \in 1 .. Len(h) : k # i /\ k # j => Swapped(h, i, j)[k] = h[k]
         /\ Elems(Swapped(h, i, j)) = Elems(h)
         /\ Distinct(h) => Distinct(Swapped(h, i, j))
<1> DEFINE g == Swapped(h, i, j)
<1>1. /\ g \in Seq(Timers) /\ Len(g) = Len(h)
      /\ g[i] = h[j] /\ g[j] = h[i]
      /\ \A k \in 1 .. Len(h) : k # i /\ k # j => g[k] = h[k]
  BY SMT DEF Swapped
<1> HIDE DEF g
<1>2. Elems(g) = Elems(h)
  BY <1>1 DEF Elems
<1>3. Distinct(h) => Distinct(g)
  BY <1>1 DEF Distinct
<1> QED BY <1>1, <1>2, <1>3 DEF g

LEMMA ParentAndChildren ==
  ASSUME NEW i \in Nat, i > 1
  PROVE  /\ Parent(i) \in Nat /\ 0 < Parent(i) /\ Parent(i) < i
         /\ \A k \in Nat : (i = 2 * k \/ i = 2 * k + 1) <=> k = Parent(i)
BY SMT DEF Parent

\* What std::pop_heap leaves.
LEMMA Popped ==
  ASSUME NEW h \in Seq(Timers), Len(h) > 0, NEW g \in PopHeap(h)
  PROVE  /\ g \in Seq(Timers) /\ Len(g) = Len(h) - 1
         /\ Distinct(g) /\ Elems(g) = Elems(h) \ {h[1]}
         /\ HeapOrdered(h) => HeapOrdered(g) /\ RootLeast(g)
<1>1. g \in [1 .. Len(h) - 1 -> Timers] /\ Len(h) - 1 \in Nat
  BY HeapFacts, SMT DEF PopHeap
<1>2. g \in Seq(Timers) /\ Len(g) = Len(h) - 1
  BY <1>1, SMT
<1> QED BY <1>2 DEF PopHeap

-----------------------------------------------------------------------------
(* The wait *)

\* The milliseconds of a wait: not past the deadline, less than one too few.
LEMMA WaitOfDeadline ==
  ASSUME NEW e \in Nat, NEW n \in Nat, NEW k \in Nat \ {0}, e > n
  PROVE  /\ (e - n) \div k \in Nat
         /\ n + ((e - n) \div k) * k <= e
         /\ e < n + ((e - n) \div k) * k + k
BY SMT

-----------------------------------------------------------------------------
(* The inductive invariant *)

LEMMA InitInv == Init => Inv
<1> SUFFICES ASSUME Init PROVE Inv
  OBVIOUS
<1>1. TypeOK
  BY SMT DEF Init, TypeOK, NoTime
<1>2. IInv
  BY SMT DEF Init, IInv, SiftInvariant, RootInvariant, Bookkeeping, Distinct, Elems,
             Children, NoTime
<1> QED BY <1>1, <1>2 DEF Inv

\* A deadline is fixed for a timer that is not in the vector.
LEMMA RunAfterInv ==
  ASSUME Inv, NEW t \in Timers, NEW delay \in Delays, RunAfter(t, delay)
  PROVE  Inv'
<1>1. delay * TicksPerMs \in Nat /\ now + delay * TicksPerMs \in Nat
  BY TimerHeapAssumption, SMT DEF TimerHeapAssumption, Inv, TypeOK
<1>2. TypeOK'
  BY <1>1 DEF Inv, TypeOK, RunAfter
<1>3. \A i \in 1 .. Len(heap) : expire'[heap[i]] = expire[heap[i]]
  BY HeapFacts DEF Inv, TypeOK, RunAfter, Elems
<1>4. \A i \in 1 .. Len(heap) : Children(heap, i) \subseteq 1 .. Len(heap)
  BY DEF Children
<1>5. SiftInvariant'
  <2>1. idx > 1 => Parent(idx) \in 1 .. Len(heap) /\ idx \in 1 .. Len(heap)
    BY ParentAndChildren, HeapFacts, SMT DEF Inv, TypeOK
  <2>2. heap' = heap /\ idx' = idx
    BY DEF RunAfter
  <2>3. \A i \in 1 .. Len(heap) : \A c \in Children(heap, i) \ {idx} :
          expire'[heap[i]] <= expire'[heap[c]]
    BY <1>3, <1>4 DEF Inv, IInv, SiftInvariant
  <2>4. idx > 1 => \A c \in Children(heap, idx) :
          expire'[heap[Parent(idx)]] <= expire'[heap[c]]
    BY <1>3, <1>4, <2>1 DEF Inv, IInv, SiftInvariant
  <2> QED BY <2>2, <2>3, <2>4 DEF SiftInvariant
<1>6. RootInvariant'
  <2>1. \A i \in 1 .. Len(heap) : 1 \in 1 .. Len(heap)
    BY HeapFacts, SMT DEF Inv, TypeOK
  <2> QED BY <1>3, <2>1 DEF Inv, IInv, RootInvariant, RunAfter
<1>7. Bookkeeping'
  BY DEF Inv, IInv, Bookkeeping, RunAfter
<1> QED BY <1>2, <1>5, <1>6, <1>7 DEF Inv, IInv

\* push_back puts the timer where siftUp begins.
LEMMA AddTimerInv ==
  ASSUME Inv, NEW t \in Timers, AddTimer(t)
  PROVE  Inv'
<1> DEFINE n == Len(heap) + 1
<1>1. /\ heap \in Seq(Timers) /\ Len(heap) \in Nat /\ heap' \in Seq(Timers)
      /\ Len(heap') = n /\ idx' = n
      /\ \A i \in 1 .. Len(heap) : heap'[i] = heap[i] /\ heap[i] \in Timers
      /\ heap'[n] = t /\ Elems(heap') = Elems(heap) \cup {t}
  BY PushBack, HeapFacts DEF AddTimer, Inv, TypeOK
<1>2. TypeOK'
  BY <1>1, SMT DEF Inv, TypeOK, AddTimer
<1>3. expire' = expire /\ idx = 0 /\ expire \in [Timers -> Nat]
  BY DEF AddTimer, MutexFree, Inv, TypeOK
<1>4. SiftInvariant'
  <2>1. ASSUME NEW i \in 1 .. n, NEW c \in Children(heap', i), c # n
        PROVE  expire[heap'[i]] <= expire[heap'[c]]
    <3>1. i \in 1 .. Len(heap) /\ c \in Children(heap, i)
      BY <1>1, <2>1, SMT DEF Children
    <3>2. c # idx /\ c \in 1 .. Len(heap)
      BY <1>3, <3>1, <1>1, SMT DEF Children
    <3> QED BY <1>1, <3>1, <3>2 DEF Inv, IInv, SiftInvariant
  <2>2. Children(heap', n) = {}
    BY <1>1, SMT DEF Children
  <2> QED BY <1>1, <1>3, <2>1, <2>2 DEF SiftInvariant
<1>5. RootInvariant'
  <2>1. ASSUME NEW i \in 1 .. n, i # n
        PROVE  expire[heap'[1]] <= expire[heap'[i]]
    <3>1. i \in 1 .. Len(heap) /\ 1 \in 1 .. Len(heap) /\ i # idx
      BY <1>1, <1>3, <2>1, SMT
    <3> QED BY <1>1, <3>1 DEF Inv, IInv, RootInvariant
  <2> QED BY <1>1, <1>3, <2>1 DEF RootInvariant
<1>6. Bookkeeping'
  <2>1. t \notin Elems(heap) /\ calling' \cap Elems(heap') = {}
    BY <1>1 DEF Inv, IInv, Bookkeeping, AddTimer
  <2>2. Distinct(heap')
    <3> SUFFICES ASSUME NEW i \in 1 .. n, NEW j \in 1 .. n, heap'[i] = heap'[j]
                 PROVE  i = j
      BY <1>1 DEF Distinct
    <3>1. \A k \in 1 .. Len(heap) : heap'[k] # t
      BY <1>1, <2>1 DEF Elems
    <3>2. (i \in 1 .. Len(heap) \/ i = n) /\ (j \in 1 .. Len(heap) \/ j = n)
      BY <1>1, SMT
    <3> QED BY <1>1, <3>1, <3>2 DEF Inv, IInv, Bookkeeping, Distinct
  <2> QED BY <2>1, <2>2 DEF Bookkeeping, AddTimer, MutexFree
<1> QED BY <1>2, <1>4, <1>5, <1>6 DEF Inv, IInv

\* One swap: the timer that goes up is less than all below its new place, the
\* one that goes down is not greater than those below its own.
LEMMA SiftUpInv ==
  ASSUME Inv, SiftUp
  PROVE  Inv'
<1> DEFINE p == Parent(idx)
<1>1. /\ heap \in Seq(Timers) /\ Len(heap) \in Nat /\ idx \in 1 .. Len(heap) /\ idx > 1
      /\ expire \in [Timers -> Nat] /\ expire' = expire /\ idx' = p
      /\ \A k \in 1 .. Len(heap) : heap[k] \in Timers
      /\ expire[heap[idx]] < expire[heap[p]]
  BY HeapFacts, SMT DEF SiftUp, Misplaced, Inv, TypeOK
<1>2. p \in 1 .. Len(heap) /\ p < idx
  BY <1>1, ParentAndChildren, SMT
<1>3. /\ heap' \in Seq(Timers) /\ Len(heap') = Len(heap)
      /\ heap'[idx] = heap[p] /\ heap'[p] = heap[idx]
      /\ \A k \in 1 .. Len(heap) : k # idx /\ k # p => heap'[k] = heap[k]
      /\ Elems(heap') = Elems(heap) /\ (Distinct(heap) => Distinct(heap'))
  <2>1. heap' = Swapped(heap, idx, p)
    BY DEF SiftUp
  <2>2. idx # p
    BY <1>1, <1>2, SMT
  <2> HIDE DEF p
  <2> QED BY <1>1, <1>2, <2>1, <2>2, Swap
<1>4. \A k \in 1 .. Len(heap) : expire[heap[k]] \in Nat
  BY <1>1
<1>5. \A k \in 1 .. Len(heap) : \A c \in Children(heap, k) :
        /\ Children(heap', k) = Children(heap, k)
        /\ c \in 1 .. Len(heap) /\ k < c /\ c > 1 /\ Parent(c) = k
  BY <1>3, ParentAndChildren, SMT DEF Children
<1>6. idx \in Children(heap, p)
  <2>1. idx = 2 * p \/ idx = 2 * p + 1
    BY <1>1, <1>2, SMT DEF Parent
  <2> QED BY <1>1, <2>1 DEF Children
<1>7. TypeOK'
  BY <1>1, <1>2, <1>3, SMT DEF Inv, TypeOK, SiftUp
<1>8. \A k \in 1 .. Len(heap) : \A c \in Children(heap, k) \ {idx} :
        expire[heap[k]] <= expire[heap[c]]
  BY DEF Inv, IInv, SiftInvariant
<1>9. \A c \in Children(heap, idx) : expire[heap[p]] <= expire[heap[c]]
  BY <1>1 DEF Inv, IInv, SiftInvariant
<1>10. SiftInvariant'
  <2>1. ASSUME NEW k \in 1 .. Len(heap), NEW c \in Children(heap, k), c # p
        PROVE  expire[heap'[k]] <= expire[heap'[c]]
    <3>1. c \in 1 .. Len(heap) /\ k < c /\ Parent(c) = k
      BY <1>5
    <3>2. CASE c = idx
      BY <3>1, <3>2, <1>1, <1>2, <1>3, <1>4, SMT
    <3>3. CASE c # idx /\ k = idx
      BY <3>1, <3>3, <2>1, <1>3, <1>9
    <3>4. CASE c # idx /\ k = p
      <4>1. expire[heap[p]] <= expire[heap[c]]
        BY <3>4, <1>8
      <4> QED BY <4>1, <3>1, <3>4, <2>1, <1>1, <1>2, <1>3, <1>4, SMT
    <3>5. CASE c # idx /\ k # idx /\ k # p
      BY <3>1, <3>5, <2>1, <1>3, <1>8
    <3> QED BY <3>2, <3>3, <3>4, <3>5
  <2>2. ASSUME p > 1, NEW c \in Children(heap, p)
        PROVE  expire[heap'[Parent(p)]] <= expire[heap'[c]]
    <3> DEFINE q == Parent(p)
    <3>1. q \in 1 .. Len(heap) /\ q # p /\ q # idx
      BY <1>1, <1>2, <2>2, ParentAndChildren, SMT
    <3>2. p \in Children(heap, q)
      BY <1>1, <1>2, <2>2, ParentAndChildren, SMT DEF Children
    <3>3. expire[heap[q]] <= expire[heap[p]] /\ heap'[q] = heap[q]
      BY <3>1, <3>2, <1>2, <1>3, <1>8, SMT
    <3>4. c \in 1 .. Len(heap) /\ c # p
      BY <1>2, <1>5
    <3>5. CASE c = idx
      BY <3>3, <3>5, <1>3
    <3>6. CASE c # idx
      <4>1. expire[heap[p]] <= expire[heap[c]] /\ heap'[c] = heap[c]
        BY <3>4, <3>6, <1>2, <1>3, <1>8
      <4> QED BY <4>1, <3>1, <3>3, <3>4, <1>2, <1>4, SMT
    <3> QED BY <3>5, <3>6
  <2>3. \A k \in 1 .. Len(heap) : Children(heap', k) = Children(heap, k)
    BY <1>3 DEF Children
  <2> QED BY <2>1, <2>2, <2>3, <1>1, <1>2, <1>3 DEF SiftInvariant
<1>11. RootInvariant'
  <2>1. \A k \in 1 .. Len(heap) : k # idx => expire[heap[1]] <= expire[heap[k]]
    BY DEF Inv, IInv, RootInvariant
  <2>2. 1 \in 1 .. Len(heap) /\ idx # 1
    BY <1>1, SMT
  <2>3. ASSUME NEW k \in 1 .. Len(heap), k # p
        PROVE  expire[heap'[1]] <= expire[heap'[k]]
    <3>1. expire[heap[1]] <= expire[heap'[k]] /\ expire[heap'[k]] \in Nat
      BY <2>1, <2>3, <1>2, <1>3, <1>4, SMT
    <3>2. expire[heap'[1]] <= expire[heap[1]] /\ expire[heap'[1]] \in Nat
      <4> HIDE DEF p
      <4>1. CASE p = 1
        <5>1. expire[heap'[1]] = expire[heap[idx]] /\ expire[heap[idx]] < expire[heap[1]]
          BY <4>1, <1>1, <1>3
        <5> QED BY <5>1, <2>2, <1>1, <1>4, SMT
      <4>2. CASE p # 1
        <5>1. expire[heap'[1]] = expire[heap[1]]
          BY <4>2, <2>2, <1>3
        <5> QED BY <5>1, <2>2, <1>4, SMT
      <4> QED BY <4>1, <4>2
    <3>3. expire[heap[1]] \in Nat
      BY <2>2, <1>4
    <3> QED BY <3>1, <3>2, <3>3, SMT
  <2> QED BY <2>3, <1>1, <1>3 DEF RootInvariant
<1>12. Bookkeeping'
  BY <1>1, <1>3 DEF Inv, IInv, Bookkeeping, SiftUp
<1> QED BY <1>7, <1>10, <1>11, <1>12 DEF Inv, IInv

\* siftUp ends with the whole vector in order.
LEMMA EndSiftInv ==
  ASSUME Inv, EndSift
  PROVE  Inv'
<1>1. /\ heap \in Seq(Timers) /\ Len(heap) \in Nat /\ idx \in 1 .. Len(heap)
      /\ heap' = heap /\ expire' = expire /\ idx' = 0
      /\ \A k \in 1 .. Len(heap) : expire[heap[k]] \in Nat
  BY HeapFacts, SMT DEF EndSift, Inv, TypeOK
<1>2. idx > 1 => /\ Parent(idx) \in 1 .. Len(heap) /\ Parent(idx) # idx
                 /\ expire[heap[Parent(idx)]] <= expire[heap[idx]]
  BY <1>1, ParentAndChildren, SMT DEF EndSift, Misplaced
<1>3. TypeOK'
  BY <1>1, SMT DEF Inv, TypeOK, EndSift
<1>4. SiftInvariant'
  <2>1. ASSUME NEW k \in 1 .. Len(heap), NEW c \in Children(heap, k)
        PROVE  expire[heap[k]] <= expire[heap[c]]
    <3>1. CASE c # idx
      BY <3>1 DEF Inv, IInv, SiftInvariant
    <3>2. CASE c = idx
      <4>1. idx > 1 /\ Parent(idx) = k
        BY <3>2, <1>1, ParentAndChildren, SMT DEF Children
      <4> QED BY <4>1, <3>2, <1>2
    <3> QED BY <3>1, <3>2
  <2>2. ~ (idx' > 1)
    BY <1>1, SMT
  <2> QED BY <2>1, <2>2, <1>1 DEF SiftInvariant
<1>5. RootInvariant'
  <2>1. \A k \in 1 .. Len(heap) : k # idx => expire[heap[1]] <= expire[heap[k]]
    BY DEF Inv, IInv, RootInvariant
  <2>2. expire[heap[1]] <= expire[heap[idx]]
    <3>1. CASE idx = 1
      BY <3>1, <1>1, SMT
    <3>2. CASE idx > 1
      BY <3>2, <2>1, <1>1, <1>2, SMT
    <3> QED BY <3>1, <3>2, <1>1, SMT
  <2> QED BY <2>1, <2>2, <1>1 DEF RootInvariant
<1>6. Bookkeeping'
  BY <1>1 DEF Inv, IInv, Bookkeeping, EndSift
<1> QED BY <1>3, <1>4, <1>5, <1>6 DEF Inv, IInv

\* With the mutex free, or held by handleExpiredTimers, the vector is a heap.
LEMMA Heap ==
  ASSUME Inv, idx = 0
  PROVE  HeapOrdered(heap) /\ RootLeast(heap)
<1>1. \A i \in 1 .. Len(heap) : i # 0 /\ 0 \notin Children(heap, i)
  BY HeapFacts, SMT DEF Inv, TypeOK, Children
<1> QED BY <1>1 DEF Inv, IInv, SiftInvariant, RootInvariant, HeapOrdered, RootLeast

\* The root is popped.
LEMMA FireRootInv ==
  ASSUME Inv, FireRoot
  PROVE  Inv'
<1>1. /\ heap \in Seq(Timers) /\ Len(heap) \in Nat /\ Len(heap) > 0
      /\ expire' = expire /\ idx' = idx /\ idx = 0 /\ heap' \in PopHeap(heap)
  BY SMT DEF FireRoot, Due, Inv, TypeOK, IInv, Bookkeeping
<1>2. /\ heap' \in Seq(Timers) /\ Distinct(heap') /\ Elems(heap') = Elems(heap) \ {heap[1]}
      /\ HeapOrdered(heap') /\ RootLeast(heap')
  BY <1>1, Popped, Heap
<1>3. TypeOK'
  BY <1>1, <1>2, HeapFacts, SMT DEF Inv, TypeOK, FireRoot
<1>4. SiftInvariant' /\ RootInvariant'
  <2>1. ~ (idx' > 1)
    BY <1>1, SMT
  <2> QED BY <1>1, <1>2, <2>1 DEF SiftInvariant, RootInvariant, HeapOrdered, RootLeast
<1>5. Bookkeeping'
  BY <1>1, <1>2 DEF Inv, IInv, Bookkeeping, FireRoot
<1> QED BY <1>3, <1>4, <1>5 DEF Inv, IInv

LEMMA RemainingIsNat ==
  ASSUME Inv, heap # <<>>
  PROVE  RemainingMs(expire[heap[1]]) \in Nat
<1>1. expire[heap[1]] \in Nat /\ now \in Nat /\ TicksPerMs \in Nat \ {0}
  <2>1. 1 \in 1 .. Len(heap)
    BY SMT DEF Inv, TypeOK
  <2> QED BY <2>1, HeapFacts, TimerHeapAssumption DEF Inv, TypeOK, TimerHeapAssumption
<1> QED BY <1>1, WaitOfDeadline DEF RemainingMs

\* Steps that leave the vector and the deadlines alone.
LEMMA QuietInv ==
  ASSUME Inv, Tick \/ BeginRound \/ EndRound \/ GetNextExpireMs \/ UNCHANGED vars
  PROVE  Inv'
<1>1. heap' = heap /\ expire' = expire /\ idx' = idx /\ calling' = calling
  BY DEF Tick, BeginRound, EndRound, GetNextExpireMs, vars
<1>2. TypeOK'
  <2>1. CASE Tick
    BY <2>1, <1>1, SMT DEF Inv, TypeOK, Tick
  <2>2. CASE BeginRound
    BY <2>2, <1>1 DEF Inv, TypeOK, BeginRound
  <2>3. CASE EndRound
    BY <2>3, <1>1 DEF Inv, TypeOK, EndRound
  <2>4. CASE GetNextExpireMs
    BY <2>4, <1>1, RemainingIsNat DEF Inv, TypeOK, GetNextExpireMs
  <2>5. CASE UNCHANGED vars
    BY <2>5 DEF Inv, TypeOK, vars
  <2> QED BY <2>1, <2>2, <2>3, <2>4, <2>5
<1>3. SiftInvariant' /\ RootInvariant'
  BY <1>1 DEF Inv, IInv, SiftInvariant, RootInvariant
<1>4. Bookkeeping'
  <2>1. idx' = 0 \/ cutoff' = NoTime
    BY <1>1 DEF Inv, IInv, Bookkeeping, Tick, BeginRound, MutexFree, EndRound,
                GetNextExpireMs, vars
  <2> QED BY <2>1, <1>1 DEF Inv, IInv, Bookkeeping
<1> QED BY <1>2, <1>3, <1>4 DEF Inv, IInv

LEMMA NextInv == Inv /\ [Next]_vars => Inv'
BY RunAfterInv, AddTimerInv, SiftUpInv, EndSiftInv, FireRootInv, QuietInv DEF Next

\* In every state the vector is a heap but for the timer being sifted up, holds
\* no timer twice, and has at most one thread at work on it.
THEOREM Invariance == Spec => []IInv
<1>1. Inv => IInv
  BY DEF Inv
<1> QED BY InitInv, NextInv, <1>1, PTL DEF Spec

\* The vector, the index of siftUp, the deadlines and the wait are well formed.
THEOREM TypeCorrect == Spec => []TypeOK
<1>1. Inv => TypeOK
  BY DEF Inv
<1> QED BY InitInv, NextInv, <1>1, PTL DEF Spec

-----------------------------------------------------------------------------
(* siftDown *)

\* smallest is the place of the least of a timer and its children.
LEMMA SmallestIsLeast ==
  ASSUME NEW h \in Seq(Timers), expire \in [Timers -> Nat], NEW i \in 1 .. Len(h)
  PROVE  LET s == Smallest(h, i)
         IN  /\ s \in Children(h, i) \cup {i}
             /\ s # i => expire[h[s]] < expire[h[i]]
             /\ \A c \in Children(h, i) \cup {i} : expire[h[s]] <= expire[h[c]]
<1> DEFINE l == Lesser(h, i, 2 * i)
           s == Smallest(h, i)
<1>1. Len(h) \in Nat /\ \A k \in 1 .. Len(h) : expire[h[k]] \in Nat
  BY HeapFacts
<1>2. /\ l \in {i, 2 * i} /\ l \in 1 .. Len(h)
      /\ l # i => expire[h[l]] < expire[h[i]]
      /\ 2 * i <= Len(h) => expire[h[l]] <= expire[h[2 * i]]
  BY <1>1, SMT DEF Lesser
<1> HIDE DEF l
<1>3. /\ s \in {l, 2 * i + 1} /\ s \in 1 .. Len(h)
      /\ s # l => expire[h[s]] < expire[h[l]]
      /\ 2 * i + 1 <= Len(h) => expire[h[s]] <= expire[h[2 * i + 1]]
  BY <1>1, <1>2, SMT DEF Lesser, Smallest, l
<1> HIDE DEF s
<1>4. expire[h[s]] <= expire[h[l]] /\ expire[h[l]] <= expire[h[i]]
  BY <1>1, <1>2, <1>3, SMT
<1>5. s \in Children(h, i) \cup {i}
  BY <1>1, <1>2, <1>3, SMT DEF Children
<1>6. s # i => expire[h[s]] < expire[h[i]]
  BY <1>1, <1>2, <1>3, <1>4, SMT
<1>7. \A c \in Children(h, i) \cup {i} : expire[h[s]] <= expire[h[c]]
  <2> SUFFICES ASSUME NEW c \in Children(h, i) \cup {i}
               PROVE  expire[h[s]] <= expire[h[c]]
    OBVIOUS
  <2>1. c \in 1 .. Len(h) /\ c <= Len(h) /\ (c = i \/ c = 2 * i \/ c = 2 * i + 1)
    BY <1>1, SMT DEF Children
  <2>2. /\ expire[h[s]] \in Nat /\ expire[h[l]] \in Nat /\ expire[h[c]] \in Nat
    BY <1>1, <1>2, <1>3, <2>1
  <2>3. CASE c = i
    BY <1>4, <2>2, <2>3, SMT
  <2>4. CASE c = 2 * i
    <3>1. expire[h[l]] <= expire[h[c]]
      BY <1>2, <2>1, <2>4
    <3> QED BY <1>4, <2>2, <3>1, SMT
  <2>5. CASE c = 2 * i + 1
    BY <1>3, <2>1, <2>5
  <2> QED BY <2>1, <2>3, <2>4, <2>5
<1> QED BY <1>5, <1>6, <1>7 DEF s

\* A round of siftDown that swaps moves the only timer out of order further down
\* and loses none; a round that does not leaves a heap.  Since the place grows
\* and stays in the vector, the loop ends, with the order siftUp relies on.
THEOREM SiftDownRound ==
  ASSUME NEW h \in Seq(Timers), expire \in [Timers -> Nat], NEW i \in 1 .. Len(h),
         OrderedButAt(h, i)
  PROVE  LET s == Smallest(h, i)
         IN  /\ s = i => HeapOrdered(h)
             /\ s # i => /\ s \in 1 .. Len(h) /\ s > i
                         /\ SiftedDown(h, i) \in Seq(Timers)
                         /\ Elems(SiftedDown(h, i)) = Elems(h)
                         /\ OrderedButAt(SiftedDown(h, i), s)
<1> DEFINE s == Smallest(h, i)
           g == SiftedDown(h, i)
<1>1. /\ Len(h) \in Nat /\ i \in Nat /\ i > 0
      /\ \A k \in 1 .. Len(h) : expire[h[k]] \in Nat
  BY HeapFacts, SMT
<1>2. /\ s \in Children(h, i) \cup {i}
      /\ s # i => expire[h[s]] < expire[h[i]]
      /\ \A c \in Children(h, i) \cup {i} : expire[h[s]] <= expire[h[c]]
  BY SmallestIsLeast
<1>3. \A k \in 1 .. Len(h) : \A c \in Children(h, k) :
        c \in 1 .. Len(h) /\ k < c /\ c > 1 /\ Parent(c) = k
  BY <1>1, ParentAndChildren, SMT DEF Children
<1>4. \A k \in 1 .. Len(h) \ {i} : \A c \in Children(h, k) : expire[h[k]] <= expire[h[c]]
  BY DEF OrderedButAt
<1>5. ASSUME s = i PROVE HeapOrdered(h)
  BY <1>2, <1>4, <1>5 DEF HeapOrdered
<1>6. ASSUME s # i
      PROVE  /\ s \in 1 .. Len(h) /\ s > i /\ g \in Seq(Timers) /\ Elems(g) = Elems(h)
             /\ OrderedButAt(g, s)
  <2>1. s \in Children(h, i) /\ s \in 1 .. Len(h) /\ i < s /\ s > 1 /\ Parent(s) = i
    BY <1>2, <1>3, <1>6
  <2>2. /\ g \in Seq(Timers) /\ Len(g) = Len(h) /\ Elems(g) = Elems(h)
        /\ g[i] = h[s] /\ g[s] = h[i]
        /\ \A k \in 1 .. Len(h) : k # i /\ k # s => g[k] = h[k]
    <3> HIDE DEF s
    <3> QED BY <1>6, <2>1, Swap DEF SiftedDown, s
  <2>3. \A k \in 1 .. Len(h) : Children(g, k) = Children(h, k)
    BY <2>2 DEF Children
  <2> HIDE DEF s, g
  <2>4. ASSUME NEW k \in 1 .. Len(h) \ {s}, NEW c \in Children(h, k)
        PROVE  expire[g[k]] <= expire[g[c]]
    <3>1. c \in 1 .. Len(h) /\ k < c /\ c > 1 /\ Parent(c) = k
      BY <1>3
    <3>2. CASE k = i
      <4>1. CASE c = s
        BY <1>1, <1>2, <1>6, <2>1, <2>2, <3>2, <4>1, SMT
      <4>2. CASE c # s
        <5>1. g[k] = h[s] /\ g[c] = h[c]
          BY <1>1, <2>2, <3>1, <3>2, <4>2, SMT
        <5> QED BY <1>2, <3>2, <5>1
      <4> QED BY <4>1, <4>2
    <3>3. CASE k # i
      <4>1. g[k] = h[k] /\ c # s
        BY <2>1, <2>2, <2>4, <3>1, <3>3
      <4>2. CASE c = i
        <5>1. i > 1 /\ Parent(i) = k
          BY <3>1, <4>2
        <5> QED BY <2>1, <2>2, <4>1, <4>2, <5>1 DEF OrderedButAt
      <4>3. CASE c # i
        BY <1>4, <2>2, <3>1, <3>3, <4>1, <4>3
      <4> QED BY <4>2, <4>3
    <3> QED BY <3>2, <3>3
  <2>5. ASSUME NEW c \in Children(h, s)
        PROVE  expire[g[i]] <= expire[g[c]]
    <3>1. c \in 1 .. Len(h) /\ c # s /\ c # i
      BY <1>1, <1>3, <2>1, SMT
    <3> QED BY <1>4, <1>6, <2>1, <2>2, <3>1
  <2>6. OrderedButAt(g, s)
    BY <2>1, <2>2, <2>3, <2>4, <2>5 DEF OrderedButAt
  <2> QED BY <1>1, <2>1, <2>2, <2>6, SMT
<1> QED BY <1>5, <1>6

-----------------------------------------------------------------------------
(* The heap implements the set of timers *)

LEMMA InitMaps == Init => Set!SetInit
BY SMT DEF Init, Set!SetInit, Elems

\* A wait handed out fits the earliest of all the timers, not only the root.
LEMMA WaitMaps ==
  ASSUME Inv, GetNextExpireMs
  PROVE  Set!AskWait
<1>1. /\ heap \in Seq(Timers) /\ Len(heap) \in Nat /\ idx = 0 /\ now \in Nat
      /\ TicksPerMs \in Nat \ {0} /\ RootLeast(heap)
      /\ \A k \in 1 .. Len(heap) : expire[heap[k]] \in Nat
  BY Heap, HeapFacts, TimerHeapAssumption
  DEF Inv, TypeOK, GetNextExpireMs, MutexFree, TimerHeapAssumption
<1>2. CASE heap = <<>>
  <2>1. Elems(heap) = {}
    BY <1>2, SMT DEF Elems
  <2> QED BY <2>1, <1>2 DEF GetNextExpireMs, MutexFree, Set!AskWait
<1>3. CASE heap # <<>>
  <2> DEFINE e == expire[heap[1]]
  <2>1. 1 \in 1 .. Len(heap) /\ heap[1] \in Elems(heap)
    BY <1>1, <1>3, SMT DEF Elems
  <2>2. waitMs' = RemainingMs(e) /\ e \in Nat
    BY <1>1, <1>3, <2>1 DEF GetNextExpireMs
  <2>3. \A t \in Elems(heap) : e <= expire[t] /\ expire[t] \in Nat
    BY <1>1 DEF Elems, RootLeast
  <2>4. /\ waitMs' \in Nat
        /\ (e < now + waitMs' * TicksPerMs => waitMs' = 0)
        /\ e < now + waitMs' * TicksPerMs + TicksPerMs
        /\ now + waitMs' * TicksPerMs \in Nat
    <3>1. CASE e > now
      <4>1. waitMs' = (e - now) \div TicksPerMs
        BY <3>1, <2>2 DEF RemainingMs
      <4> DEFINE w == (e - now) \div TicksPerMs
      <4>2. w \in Nat /\ now + w * TicksPerMs <= e /\ e < now + w * TicksPerMs + TicksPerMs
        BY <3>1, <1>1, <2>2, WaitOfDeadline
      <4> HIDE DEF w, e
      <4> QED BY <4>1, <4>2, <2>2, <1>1, SMT DEF w
    <3>2. CASE ~ (e > now)
      <4>1. waitMs' = 0
        BY <3>2, <2>2 DEF RemainingMs
      <4> QED BY <4>1, <3>2, <2>2, <1>1, SMT
    <3> QED BY <3>1, <3>2
  <2> HIDE DEF e
  <2>5. \A t \in Elems(heap) : expire[t] < now + waitMs' * TicksPerMs => waitMs' = 0
    BY <2>2, <2>3, <2>4, SMT
  <2>6. \E t \in Elems(heap) : expire[t] < now + waitMs' * TicksPerMs + TicksPerMs
    BY <2>1, <2>4 DEF e
  <2> QED BY <2>1, <2>4, <2>5, <2>6
      DEF GetNextExpireMs, MutexFree, Set!AskWait, Set!WaitEnd
<1> QED BY <1>2, <1>3

LEMMA StepMaps == Inv /\ [Next]_vars => [Set!SetNext]_Set!setVars
<1> SUFFICES ASSUME Inv, [Next]_vars PROVE [Set!SetNext]_Set!setVars
  OBVIOUS
<1>1. CASE Tick
  BY <1>1 DEF Tick, Set!SetNext, Set!Advance
<1>2. ASSUME NEW t \in Timers, NEW delay \in Delays, RunAfter(t, delay)
      PROVE  Set!SetNext
  <2>1. delay * TicksPerMs \in Nat
    BY TimerHeapAssumption, SMT DEF TimerHeapAssumption
  <2>2. expire'[t] = now + delay * TicksPerMs /\ t \in Timers \ Elems(heap)
    BY <1>2 DEF RunAfter, Inv, TypeOK
  <2>3. expire'[t] \in Nat /\ expire'[t] >= now
    BY <2>1, <2>2, SMT DEF Inv, TypeOK
  <2>4. expire' = [expire EXCEPT ![t] = expire'[t]]
    BY <1>2, <2>2 DEF RunAfter
  <2>5. heap' = heap /\ cutoff' = cutoff /\ waitMs' = waitMs /\ now' = now
    BY <1>2 DEF RunAfter
  <2> QED BY <2>2, <2>3, <2>4, <2>5 DEF Set!SetNext, Set!Plan
<1>3. ASSUME NEW t \in Timers, AddTimer(t)
      PROVE  Set!SetNext
  <2>1. t \in Timers \ Elems(heap) /\ Elems(heap') = Elems(heap) \cup {t}
    BY <1>3, PushBack DEF AddTimer, Inv, TypeOK, IInv, Bookkeeping
  <2> QED BY <1>3, <2>1 DEF AddTimer, MutexFree, Set!SetNext, Set!Arm
<1>4. CASE SiftUp
  <2>1. idx \in 1 .. Len(heap) /\ Parent(idx) \in 1 .. Len(heap) /\ Parent(idx) # idx
    BY <1>4, ParentAndChildren, HeapFacts, SMT DEF SiftUp, Misplaced, Inv, TypeOK
  <2>2. /\ heap' = Swapped(heap, idx, Parent(idx))
        /\ heap \in Seq(Timers)
    BY <1>4 DEF SiftUp, Inv, TypeOK
  <2>3. Elems(heap') = Elems(heap)
    BY <2>1, <2>2, Swap
  <2> QED BY <1>4, <2>3 DEF SiftUp, Set!setVars
<1>5. CASE EndSift
  BY <1>5 DEF EndSift, Set!setVars
<1>6. CASE BeginRound
  BY <1>6 DEF BeginRound, MutexFree, Set!SetNext, Set!BeginRound
<1>7. CASE FireRoot
  <2>1. /\ heap \in Seq(Timers) /\ Len(heap) > 0 /\ idx = 0
        /\ 1 \in 1 .. Len(heap) /\ heap' \in PopHeap(heap)
    BY <1>7, SMT DEF FireRoot, Due, Inv, TypeOK, IInv, Bookkeeping
  <2>2. Elems(heap') = Elems(heap) \ {heap[1]} /\ heap[1] \in Elems(heap)
    BY <2>1, Popped DEF Elems
  <2>3. \A u \in Elems(heap) : expire[heap[1]] <= expire[u]
    BY <2>1, Heap DEF RootLeast, Elems
  <2> QED BY <1>7, <2>2, <2>3 DEF FireRoot, Due, Set!SetNext, Set!Fire
<1>8. CASE EndRound
  <2>1. \A t \in Elems(heap) : expire[t] > cutoff
    <3> SUFFICES ASSUME NEW k \in 1 .. Len(heap) PROVE expire[heap[k]] > cutoff
      BY DEF Elems
    <3>1. /\ heap # <<>> /\ 1 \in 1 .. Len(heap) /\ idx = 0 /\ cutoff \in Nat
          /\ expire[heap[1]] \in Nat /\ expire[heap[k]] \in Nat
      BY <1>8, HeapFacts, SMT DEF EndRound, Inv, TypeOK, IInv, Bookkeeping
    <3>2. expire[heap[1]] <= expire[heap[k]]
      BY <3>1, Heap DEF RootLeast
    <3> QED BY <1>8, <3>1, <3>2, SMT DEF EndRound, Due
  <2> QED BY <1>8, <2>1 DEF EndRound, Set!SetNext, Set!EndRound
<1>9. CASE GetNextExpireMs
  BY <1>9, WaitMaps DEF Set!SetNext
<1>10. CASE UNCHANGED vars
  BY <1>10 DEF vars, Set!setVars
<1> QED BY <1>1, <1>2, <1>3, <1>4, <1>5, <1>6, <1>7, <1>8, <1>9, <1>10 DEF Next

\* TimerManager fires what is due, the earliest first and nothing else, loses no
\* timer, and its wait is neither too long nor a millisecond too short.
THEOREM Refinement == Spec => ImplementsSet
<1>1. Spec => []Inv
  BY InitInv, NextInv, PTL DEF Spec
<1> QED BY <1>1, InitMaps, StepMaps, PTL DEF Spec, ImplementsSet, Set!SetSpec
=============================================================================
