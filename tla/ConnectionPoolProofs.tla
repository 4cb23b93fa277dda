------------------------- MODULE ConnectionPoolProofs -------------------------
(***************************************************************************)
(* ConnectionPool for any number of threads, connections and queries: no   *)
(* connection is lost, duplicated or shared, a closed pool stays empty,    *)
(* and the pool implements the abstract lease.                             *)
(***************************************************************************)
EXTENDS ConnectionPool, FiniteSetTheorems, TLAPS

SetOf(s) == {s[i] : i \in DOMAIN s}

\* Pushing a pointer that is not in the queue.
LEMMA Push ==
  ASSUME NEW S, NEW s \in Seq(S), NEW h \in S, h \notin SetOf(s),
         \A i, j \in DOMAIN s : s[i] = s[j] => i = j
  PROVE  /\ Append(s, h) \in Seq(S)
         /\ SetOf(Append(s, h)) = SetOf(s) \cup {h}
         /\ \A i, j \in DOMAIN Append(s, h) : Append(s, h)[i] = Append(s, h)[j] => i = j
<1> DEFINE q == Append(s, h)
<1>1. q \in Seq(S) /\ DOMAIN q = 1 .. Len(s) + 1 /\ DOMAIN s = 1 .. Len(s) /\ Len(s) \in Nat
  BY SMT
<1>2. /\ q[Len(s) + 1] = h
      /\ \A i \in DOMAIN s : i \in DOMAIN q /\ q[i] = s[i]
  BY SMT
<1>3. \A i \in DOMAIN q : i \in DOMAIN s \/ i = Len(s) + 1
  BY <1>1, SMT
<1>4. Len(s) + 1 \in DOMAIN q
  BY <1>1, SMT
<1>5. SetOf(q) = SetOf(s) \cup {h}
  BY <1>2, <1>3, <1>4 DEF SetOf
<1>6. ASSUME NEW i \in DOMAIN q, NEW j \in DOMAIN q, q[i] = q[j] PROVE i = j
  BY <1>2, <1>3, <1>6 DEF SetOf
<1> QED BY <1>1, <1>5, <1>6

\* Popping the oldest pointer of a queue without duplicates.
LEMMA PopFront ==
  ASSUME NEW S, NEW s \in Seq(S), s # <<>>,
         \A i, j \in DOMAIN s : s[i] = s[j] => i = j
  PROVE  /\ Tail(s) \in Seq(S) /\ Head(s) \in S /\ Head(s) \in SetOf(s)
         /\ SetOf(Tail(s)) = SetOf(s) \ {Head(s)}
         /\ \A i, j \in DOMAIN Tail(s) : Tail(s)[i] = Tail(s)[j] => i = j
<1> DEFINE q == Tail(s)
<1>1. /\ q \in Seq(S) /\ Len(s) \in Nat \ {0} /\ DOMAIN s = 1 .. Len(s)
      /\ DOMAIN q = 1 .. Len(s) - 1 /\ Head(s) = s[1]
  BY SMT
<1>2. \A i \in DOMAIN q : i + 1 \in DOMAIN s /\ q[i] = s[i + 1] /\ i + 1 # 1
  BY SMT
<1>3. 1 \in DOMAIN s
  BY <1>1, SMT
<1>4. Head(s) \in S /\ Head(s) \in SetOf(s)
  BY <1>1, <1>3, SMT DEF SetOf
<1>5. \A i \in DOMAIN s : i = 1 \/ (i - 1 \in DOMAIN q /\ q[i - 1] = s[i])
  BY <1>1, SMT
<1>6. SetOf(q) \subseteq SetOf(s) \ {Head(s)}
  BY <1>1, <1>2, <1>3 DEF SetOf
<1>7. SetOf(s) \ {Head(s)} \subseteq SetOf(q)
  BY <1>1, <1>5 DEF SetOf
<1>8. ASSUME NEW i \in DOMAIN q, NEW j \in DOMAIN q, q[i] = q[j] PROVE i = j
  <2>1. i + 1 = j + 1
    BY <1>2, <1>8
  <2> QED BY <2>1, <1>1, SMT
<1> QED BY <1>1, <1>4, <1>6, <1>7, <1>8

LEMMA PooledIsSet == Pooled = SetOf(pool)
BY DEF Pooled, SetOf

\* A thread is not None, and neither is a connection.
LEMMA NoneFresh == None \notin Threads /\ None \notin Handles
BY PoolAssumption, SMT DEF PoolAssumption, Handles

\* What is in the hands of the threads when t takes h in place of what it had.
LEMMA Hands ==
  ASSUME TypeOK, NotShared, NEW t \in Threads, NEW h \in Handles \cup {None},
         h \notin Held, conn' = [conn EXCEPT ![t] = h]
  PROVE  /\ conn' \in [Threads -> Handles \cup {None}] /\ NotShared'
         /\ Held' = (Held \ {conn[t]}) \cup ({h} \ {None})
<1>1. /\ conn' \in [Threads -> Handles \cup {None}]
      /\ \A u \in Threads : conn'[u] = IF u = t THEN h ELSE conn[u]
  BY DEF TypeOK
<1>2. NotShared'
  BY <1>1 DEF NotShared, Held
<1>3. Held' = (Held \ {conn[t]}) \cup ({h} \ {None})
  BY <1>1, NoneFresh DEF NotShared, Held
<1> QED BY <1>1, <1>2, <1>3

\* The mutex follows the thread: t goes where its holding of the mutex is the same
\* as before, takes it when it is free, or gives it up.
LEMMA Moves ==
  ASSUME TypeOK, OwnerIsInside, NEW t \in Threads, NEW at \in Pc, Goto(t, at),
         \/ owner' = owner /\ (pc[t] \in {"check", "ping", "create"} <=> at \in {"check", "ping", "create"})
         \/ owner = None /\ owner' = t /\ at \in {"check", "ping", "create"}
         \/ owner = t /\ owner' = None /\ at \notin {"check", "ping", "create"}
  PROVE  /\ pc' \in [Threads -> Pc] /\ owner' \in Threads \cup {None} /\ OwnerIsInside'
         /\ \A u \in Threads : pc'[u] = IF u = t THEN at ELSE pc[u]
<1>1. \A u \in Threads : pc'[u] = IF u = t THEN at ELSE pc[u]
  BY DEF TypeOK, Goto
<1>2. pc' \in [Threads -> Pc] /\ owner' \in Threads \cup {None}
  BY DEF TypeOK, Goto
<1>3. \A u \in Threads : owner' = u <=> pc'[u] \in {"check", "ping", "create"}
  BY <1>1, NoneFresh DEF OwnerIsInside
<1> QED BY <1>1, <1>2, <1>3 DEF OwnerIsInside

\* What a thread has in its hands was opened, is not in the pool, and is live.
LEMMA HandsAreLive ==
  ASSUME Discipline, NEW t \in Threads, conn[t] # None
  PROVE  conn[t] \in Handles /\ conn[t] \in Held /\ conn[t] \notin Pooled
         /\ conn[t] \notin closedH /\ conn[t] \in 1 .. created
BY DEF Discipline, TypeOK, AllAccounted, Held

\* A new connection has a number nobody has seen.
LEMMA NewHandle ==
  ASSUME Discipline, Connects
  PROVE  /\ created' \in Handles /\ created' \in 0 .. MaxHandles
         /\ 1 .. created' = (1 .. created) \cup {created'}
         /\ created' \notin Pooled /\ created' \notin Held /\ created' \notin closedH
         /\ created' # None
<1>1. created' \notin 1 .. created /\ created' \in Handles /\ created' \in 0 .. MaxHandles
      /\ 1 .. created' = (1 .. created) \cup {created'}
  BY PoolAssumption, SMT DEF Discipline, TypeOK, Connects, PoolAssumption, Handles
<1> QED BY <1>1, NoneFresh DEF Discipline, AllAccounted

LEMMA FailedConnect ==
  ASSUME TypeOK, FailsToConnect
  PROVE  created' = created /\ created' \in 0 .. MaxHandles
BY DEF TypeOK, FailsToConnect

\* The pool after a push.
LEMMA PushPool ==
  ASSUME Discipline, NEW h \in Handles, h \notin Pooled, pool' = Append(pool, h)
  PROVE  pool' \in Seq(Handles) /\ NoDuplicates' /\ Pooled' = Pooled \cup {h}
<1> DEFINE q == Append(pool, h)
<1>1. pool \in Seq(Handles) /\ \A i, j \in DOMAIN pool : pool[i] = pool[j] => i = j
  BY DEF Discipline, TypeOK, NoDuplicates
<1>2. h \notin SetOf(pool)
  BY PooledIsSet
<1>3. /\ q \in Seq(Handles) /\ SetOf(q) = SetOf(pool) \cup {h}
      /\ \A i, j \in DOMAIN q : q[i] = q[j] => i = j
  BY <1>1, <1>2, Push
<1> HIDE DEF q
<1>4. pool' = q
  BY DEF q
<1> QED BY <1>3, <1>4 DEF NoDuplicates, Pooled, SetOf

\* The pool after a pop.
LEMMA PopPool ==
  ASSUME Discipline, pool # <<>>, pool' = Tail(pool)
  PROVE  /\ pool' \in Seq(Handles) /\ NoDuplicates' /\ Pooled' = Pooled \ {Head(pool)}
         /\ Head(pool) \in Pooled /\ Head(pool) \in Handles
<1> DEFINE q == Tail(pool)
<1>1. pool \in Seq(Handles) /\ \A i, j \in DOMAIN pool : pool[i] = pool[j] => i = j
  BY DEF Discipline, TypeOK, NoDuplicates
<1>2. /\ q \in Seq(Handles) /\ SetOf(q) = SetOf(pool) \ {Head(pool)}
      /\ Head(pool) \in SetOf(pool) /\ Head(pool) \in Handles
      /\ \A i, j \in DOMAIN q : q[i] = q[j] => i = j
  BY <1>1, PopFront
<1> HIDE DEF q
<1>3. pool' = q
  BY DEF q
<1> QED BY <1>2, <1>3 DEF NoDuplicates, Pooled, SetOf

-----------------------------------------------------------------------------
(* Each operation keeps the invariant *)

LEMMA InitInv == Init => Discipline
<1> SUFFICES ASSUME Init PROVE Discipline
  OBVIOUS
<1>1. TypeOK
  <2>1. attempts \in 0 .. MaxConn /\ created \in 0 .. MaxHandles
    BY PoolAssumption, SMT DEF Init, PoolAssumption
  <2>2. pool \in Seq(Handles)
    BY SMT DEF Init
  <2>3. closed \in BOOLEAN
    BY Zenon DEF Init
  <2> QED BY <2>1, <2>2, <2>3 DEF Init, TypeOK, Pc
<1>2. Pooled = {} /\ Held = {} /\ 1 .. created = {}
  BY SMT DEF Init, Pooled, Held
<1>3. NoDuplicates /\ OwnerIsInside /\ HandsFollowPc /\ NotShared /\ ClosedLate /\ ClosedIsDrained
  BY NoneFresh DEF Init, NoDuplicates, OwnerIsInside, HandsFollowPc, NotShared, ClosedLate,
     ClosedIsDrained
<1> QED BY <1>1, <1>2, <1>3 DEF Discipline, AllAccounted, Init

LEMMA InitConnStep == ASSUME Discipline, InitConn PROVE Discipline'
<1>1. attempts' \in 0 .. MaxConn /\ ~closed
  BY PoolAssumption, SMT DEF Discipline, TypeOK, InitConn, ClosedLate, Initialised, PoolAssumption
<1>2. Held' = Held /\ OwnerIsInside' /\ HandsFollowPc' /\ NotShared' /\ ~closed'
  BY <1>1 DEF InitConn, Discipline, Held, OwnerIsInside, HandsFollowPc, NotShared
<1>3. CASE Connects /\ pool' = Append(pool, created')
  <2>1. pool' \in Seq(Handles) /\ NoDuplicates' /\ Pooled' = Pooled \cup {created'}
    BY <1>3, NewHandle, PushPool
  <2>2. TypeOK'
    BY <1>1, <2>1, <1>3, NewHandle DEF InitConn, Discipline, TypeOK
  <2>3. AllAccounted'
    BY <1>2, <1>3, <2>1, NewHandle DEF InitConn, Discipline, AllAccounted
  <2> QED BY <1>2, <2>1, <2>2, <2>3 DEF Discipline, ClosedLate, ClosedIsDrained
<1>4. CASE FailsToConnect /\ pool' = pool
  <2>1. TypeOK' /\ NoDuplicates' /\ Pooled' = Pooled
    BY <1>1, <1>4, FailedConnect DEF InitConn, Discipline, TypeOK, NoDuplicates, Pooled
  <2>2. AllAccounted'
    BY <1>2, <1>4, <2>1, FailedConnect DEF InitConn, Discipline, AllAccounted
  <2> QED BY <1>2, <2>1, <2>2 DEF Discipline, ClosedLate, ClosedIsDrained
<1> QED BY <1>3, <1>4 DEF InitConn

\* Steps that move a thread, and the mutex, and nothing else.
LEMMA MoveStep ==
  ASSUME Discipline, NEW t \in Threads,
         CallGetConn(t) \/ Lock(t) \/ SleepWhileEmpty(t) \/ PingAnswers(t) \/ Query(t)
  PROVE  Discipline'
<1>1. OwnerIsInside' /\ pc' \in [Threads -> Pc] /\ owner' \in Threads \cup {None}
      /\ HandsFollowPc'
  <2>1. CASE CallGetConn(t)
    BY <2>1, Moves DEF Discipline, CallGetConn, Pc, HandsFollowPc
  <2>2. CASE Lock(t)
    BY <2>2, Moves DEF Discipline, Lock, Pc, HandsFollowPc
  <2>3. CASE SleepWhileEmpty(t)
    BY <2>3, Moves DEF Discipline, SleepWhileEmpty, Pc, HandsFollowPc, OwnerIsInside
  <2>4. CASE PingAnswers(t)
    BY <2>4, Moves DEF Discipline, PingAnswers, Pc, HandsFollowPc, OwnerIsInside
  <2>5. CASE Query(t)
    BY <2>5, Moves DEF Discipline, Query, GuardIsEmpty, Pc, HandsFollowPc, OwnerIsInside
  <2> QED BY <2>1, <2>2, <2>3, <2>4, <2>5
<1>2. UNCHANGED <<attempts, pool, created, closedH, conn, closed>>
  BY DEF CallGetConn, Lock, SleepWhileEmpty, PingAnswers, Query, GuardIsEmpty
<1>3. TypeOK'
  BY <1>1, <1>2 DEF Discipline, TypeOK
<1>4. NoDuplicates' /\ NotShared' /\ ClosedLate' /\ AllAccounted' /\ ClosedIsDrained'
  BY <1>2 DEF Discipline, NoDuplicates, NotShared, ClosedLate, Initialised, AllAccounted, Pooled, Held,
     ClosedIsDrained
<1> QED BY <1>1, <1>3, <1>4 DEF Discipline

\* A null pointer is used: the thread goes on, or the process is dead.
LEMMA QueryNullStep == ASSUME Discipline, NEW t \in Threads, QueryNull(t) PROVE Discipline'
<1>1. UNCHANGED <<attempts, pool, created, closedH, conn, closed>>
  BY DEF QueryNull
<1>2. OwnerIsInside' /\ pc' \in [Threads -> Pc] /\ owner' \in Threads \cup {None}
      /\ HandsFollowPc'
  <2>1. CASE Goto(t, "idle") /\ UNCHANGED owner
    BY <1>1, <2>1, Moves DEF Discipline, QueryNull, GuardIsEmpty, Pc, HandsFollowPc, OwnerIsInside
  <2>2. CASE pc' = [u \in Threads |-> "dead"] /\ owner' = None
    BY <1>1, <2>2, NoneFresh DEF Discipline, Pc, HandsFollowPc, OwnerIsInside
  <2> QED BY <2>1, <2>2 DEF QueryNull
<1>3. TypeOK'
  BY <1>1, <1>2 DEF Discipline, TypeOK
<1>4. NoDuplicates' /\ NotShared' /\ ClosedLate' /\ AllAccounted' /\ ClosedIsDrained'
  BY <1>1 DEF Discipline, NoDuplicates, NotShared, ClosedLate, Initialised, AllAccounted, Pooled, Held,
     ClosedIsDrained
<1> QED BY <1>2, <1>3, <1>4 DEF Discipline

LEMMA PopStep == ASSUME Discipline, NEW t \in Threads, Pop(t) PROVE Discipline'
<1> DEFINE h == Head(pool)
<1>1. /\ pool' \in Seq(Handles) /\ NoDuplicates' /\ Pooled' = Pooled \ {h}
      /\ h \in Pooled /\ h \in Handles
  BY PopPool DEF Pop, Empty
<1>2. conn[t] = None /\ h \notin Held /\ h # None /\ h \in 1 .. created /\ h \notin closedH
  BY <1>1, NoneFresh DEF Pop, Discipline, HandsFollowPc, AllAccounted
<1> HIDE DEF h
<1>3. conn' = [conn EXCEPT ![t] = h]
  BY DEF Pop, h
<1>4. conn' \in [Threads -> Handles \cup {None}] /\ NotShared' /\ Held' = Held \cup {h}
  BY <1>1, <1>2, <1>3, Hands DEF Discipline, Held
<1>5. /\ OwnerIsInside' /\ pc' \in [Threads -> Pc] /\ owner' \in Threads \cup {None}
      /\ \A u \in Threads : pc'[u] = IF u = t THEN "ping" ELSE pc[u]
  BY Moves DEF Pop, Discipline, Pc
<1>6. HandsFollowPc'
  BY <1>2, <1>3, <1>5 DEF Discipline, TypeOK, HandsFollowPc
<1>7. TypeOK' /\ ClosedLate' /\ ClosedIsDrained'
  BY <1>1, <1>4, <1>5 DEF Pop, Discipline, TypeOK, ClosedLate, Initialised, ClosedIsDrained
<1>8. AllAccounted'
  BY <1>1, <1>2, <1>4 DEF Pop, Discipline, AllAccounted
<1> QED BY <1>1, <1>4, <1>5, <1>6, <1>7, <1>8 DEF Discipline

LEMMA PingFailsStep == ASSUME Discipline, NEW t \in Threads, PingFails(t) PROVE Discipline'
<1>1. conn[t] # None
  BY DEF PingFails, Discipline, HandsFollowPc
<1>2. conn[t] \in Handles /\ conn[t] \in Held /\ conn[t] \notin Pooled /\ conn[t] \in 1 .. created
  BY <1>1, HandsAreLive
<1>3. conn' = [conn EXCEPT ![t] = None] /\ None \notin Held
  BY DEF PingFails, Held
<1>4. conn' \in [Threads -> Handles \cup {None}] /\ NotShared' /\ Held' = Held \ {conn[t]}
  BY <1>3, Hands DEF Discipline
<1>5. /\ OwnerIsInside' /\ pc' \in [Threads -> Pc] /\ owner' \in Threads \cup {None}
      /\ \A u \in Threads : pc'[u] = IF u = t THEN "create" ELSE pc[u]
  BY Moves DEF PingFails, Discipline, Pc
<1>6. HandsFollowPc'
  BY <1>3, <1>5 DEF Discipline, TypeOK, HandsFollowPc
<1>7. TypeOK' /\ ClosedLate' /\ ClosedIsDrained' /\ NoDuplicates' /\ Pooled' = Pooled
  BY <1>2, <1>4, <1>5 DEF PingFails, Discipline, TypeOK, ClosedLate, Initialised, ClosedIsDrained,
     NoDuplicates, Pooled
<1>8. AllAccounted'
  BY <1>2, <1>4, <1>7 DEF PingFails, Discipline, AllAccounted
<1> QED BY <1>4, <1>5, <1>6, <1>7, <1>8 DEF Discipline

LEMMA RecreateStep == ASSUME Discipline, NEW t \in Threads, Recreate(t) PROVE Discipline'
<1>1. conn[t] = None /\ owner = t
  BY DEF Recreate, Discipline, HandsFollowPc, OwnerIsInside
<1>2. /\ OwnerIsInside' /\ pc' \in [Threads -> Pc] /\ owner' \in Threads \cup {None}
      /\ \A u \in Threads : pc'[u] = IF u = t THEN "query" ELSE pc[u]
  BY <1>1, Moves DEF Recreate, Discipline, Pc
<1>3. Pooled' = Pooled /\ NoDuplicates' /\ ClosedLate' /\ ClosedIsDrained'
  BY DEF Recreate, Discipline, Pooled, NoDuplicates, ClosedLate, Initialised, ClosedIsDrained
<1>4. CASE Connects /\ conn' = [conn EXCEPT ![t] = created']
  <2>1. conn' \in [Threads -> Handles \cup {None}] /\ NotShared' /\ Held' = Held \cup {created'}
    <3>1. created' \in Handles /\ created' \notin Held /\ created' # None /\ None \notin Held
      BY <1>4, NewHandle DEF Held
    <3> DEFINE h == created'
    <3> HIDE DEF h
    <3>2. h \in Handles \cup {None} /\ h \notin Held /\ conn' = [conn EXCEPT ![t] = h]
      BY <1>4, <3>1 DEF h
    <3>3. /\ conn' \in [Threads -> Handles \cup {None}] /\ NotShared'
          /\ Held' = (Held \ {conn[t]}) \cup ({h} \ {None})
      BY <3>2, Hands DEF Discipline
    <3> QED BY <1>1, <3>1, <3>3 DEF h
  <2>2. TypeOK'
    BY <1>2, <1>4, <2>1, NewHandle DEF Recreate, Discipline, TypeOK
  <2>3. HandsFollowPc'
    BY <1>2, <1>4 DEF Discipline, TypeOK, HandsFollowPc
  <2>4. AllAccounted'
    BY <1>3, <1>4, <2>1, NewHandle DEF Recreate, Discipline, AllAccounted
  <2> QED BY <1>2, <1>3, <2>1, <2>2, <2>3, <2>4 DEF Discipline
<1>5. CASE FailsToConnect /\ conn' = conn
  <2>1. TypeOK' /\ HandsFollowPc' /\ NotShared' /\ Held' = Held
    BY <1>2, <1>5, FailedConnect DEF Recreate, Discipline, TypeOK, HandsFollowPc, NotShared, Held
  <2>2. AllAccounted'
    BY <1>3, <1>5, <2>1, FailedConnect DEF Recreate, Discipline, AllAccounted
  <2> QED BY <1>2, <1>3, <2>1, <2>2 DEF Discipline
<1> QED BY <1>4, <1>5 DEF Recreate

LEMMA ReleaseStep == ASSUME Discipline, NEW t \in Threads, Release(t) PROVE Discipline'
<1>1. conn[t] # None
  BY DEF Release, Discipline, HandsFollowPc
<1>2. /\ conn[t] \in Handles /\ conn[t] \in Held /\ conn[t] \notin Pooled
      /\ conn[t] \notin closedH /\ conn[t] \in 1 .. created
  BY <1>1, HandsAreLive
<1>3. conn' = [conn EXCEPT ![t] = None] /\ None \notin Held
  BY DEF Release, Held
<1>4. conn' \in [Threads -> Handles \cup {None}] /\ NotShared' /\ Held' = Held \ {conn[t]}
  BY <1>3, Hands DEF Discipline
<1>5. /\ OwnerIsInside' /\ pc' \in [Threads -> Pc] /\ owner' \in Threads \cup {None}
      /\ \A u \in Threads : pc'[u] = IF u = t THEN "idle" ELSE pc[u]
  BY Moves DEF Release, Discipline, Pc
<1>6. HandsFollowPc'
  BY <1>3, <1>5 DEF Discipline, TypeOK, HandsFollowPc
<1>7. CASE closed
  <2>1. TypeOK' /\ ClosedLate' /\ ClosedIsDrained' /\ NoDuplicates' /\ Pooled' = Pooled
    BY <1>2, <1>4, <1>5, <1>7 DEF Release, Discipline, TypeOK, ClosedLate, Initialised,
       ClosedIsDrained, NoDuplicates, Pooled
  <2>2. AllAccounted'
    BY <1>2, <1>4, <1>7, <2>1 DEF Release, Discipline, AllAccounted
  <2> QED BY <1>4, <1>5, <1>6, <2>1, <2>2 DEF Discipline
<1>8. CASE ~closed
  <2>1. pool' \in Seq(Handles) /\ NoDuplicates' /\ Pooled' = Pooled \cup {conn[t]}
    BY <1>2, <1>8, PushPool DEF Release
  <2>2. TypeOK' /\ ClosedLate' /\ ClosedIsDrained'
    BY <1>4, <1>5, <1>8, <2>1 DEF Release, Discipline, TypeOK, ClosedLate, ClosedIsDrained
  <2>3. AllAccounted'
    BY <1>2, <1>4, <1>8, <2>1 DEF Release, Discipline, AllAccounted
  <2> QED BY <1>4, <1>5, <1>6, <2>1, <2>2, <2>3 DEF Discipline
<1> QED BY <1>7, <1>8 DEF Discipline, TypeOK

LEMMA CloseStep == ASSUME Discipline, Close PROVE Discipline'
<1>1. pool' \in Seq(Handles) /\ Pooled' = {} /\ NoDuplicates'
  BY SMT DEF Close, Pooled, NoDuplicates
<1>2. Held' = Held /\ Pooled \subseteq Handles
  BY DEF Close, Held, Pooled, Discipline, TypeOK
<1>3. TypeOK'
  BY <1>1, <1>2, Zenon DEF Close, Discipline, TypeOK
<1>4. OwnerIsInside' /\ HandsFollowPc' /\ NotShared' /\ ClosedLate' /\ ClosedIsDrained'
  BY DEF Close, Discipline, OwnerIsInside, HandsFollowPc, NotShared, ClosedLate, Initialised,
     ClosedIsDrained
<1>5. AllAccounted'
  BY <1>1, <1>2 DEF Close, Discipline, AllAccounted
<1> QED BY <1>1, <1>3, <1>4, <1>5 DEF Discipline

-----------------------------------------------------------------------------
(* Counting *)

LEMMA BusyFinite ==
  /\ IsFiniteSet(Busy) /\ Cardinality(Busy) \in Nat
  /\ IsFiniteSet(Busy') /\ Cardinality(Busy') \in Nat
<1>1. Busy \subseteq Threads /\ Busy' \subseteq Threads
  BY DEF Busy
<1> QED BY <1>1, PoolAssumption, FS_Subset, FS_CardinalityType DEF PoolAssumption

\* A step that moves t changes at most the membership of t.
LEMMA BusyMoves ==
  ASSUME TypeOK, NEW t \in Threads, NEW at \in Pc, Goto(t, at),
         NEW h, conn' = [conn EXCEPT ![t] = h]
  PROVE  Busy' = IF h # None \/ at \in {"create", "query"} THEN Busy \cup {t} ELSE Busy \ {t}
<1>1. \A u \in Threads : pc'[u] = (IF u = t THEN at ELSE pc[u]) /\ conn'[u] = (IF u = t THEN h ELSE conn[u])
  BY DEF TypeOK, Goto
<1> QED BY <1>1 DEF Busy

\* At most max_conn connections: each push follows a pop or an attempt of init.
LEMMA CapacityStep == ASSUME Discipline, CapacityBound, [Next]_vars PROVE CapacityBound'
<1> USE BusyFinite
<1>1. /\ Len(pool) \in Nat /\ attempts \in Nat /\ MaxConn \in Nat
      /\ Len(pool) + Cardinality(Busy) <= attempts
  BY PoolAssumption, SMT DEF Discipline, TypeOK, CapacityBound, Capacity, PoolAssumption
<1>2. CASE UNCHANGED vars
  BY <1>1, <1>2 DEF vars, CapacityBound, Capacity, Busy
<1>3. CASE InitConn
  <2>1. Busy' = Busy /\ attempts' = attempts + 1
    BY <1>3 DEF InitConn, Busy
  <2>2. CASE Connects /\ pool' = Append(pool, created')
    <3>1. Len(pool') = Len(pool) + 1
      BY <2>2 DEF Discipline, TypeOK
    <3> QED BY <1>1, <2>1, <3>1 DEF CapacityBound, Capacity
  <2>3. CASE pool' = pool
    BY <1>1, <2>1, <2>3 DEF CapacityBound, Capacity
  <2> QED BY <1>3, <2>2, <2>3 DEF InitConn
<1>4. CASE Close
  <2>1. Busy' = Busy /\ attempts' = attempts /\ Len(pool') = 0
    BY <1>4 DEF Close, Busy
  <2> QED BY <1>1, <2>1 DEF CapacityBound, Capacity
<1>5. ASSUME NEW t \in Threads, CallGetConn(t) \/ Step(t) PROVE CapacityBound'
  <2>1. attempts' = attempts
    BY <1>5 DEF CallGetConn, Step, Lock, SleepWhileEmpty, Pop, PingAnswers, PingFails, Recreate,
       Query, QueryNull, Release
  <2>2. CASE CallGetConn(t) \/ Lock(t) \/ SleepWhileEmpty(t) \/ PingAnswers(t) \/ Query(t)
    <3>1. Busy' = Busy /\ pool' = pool
      BY <2>2 DEF CallGetConn, Lock, SleepWhileEmpty, PingAnswers, Query, GuardIsEmpty, Goto, Busy,
         Discipline, TypeOK, HandsFollowPc
    <3> QED BY <1>1, <2>1, <3>1 DEF CapacityBound, Capacity
  <2>3. CASE Pop(t)
    <3>1. t \notin Busy
      BY <2>3 DEF Pop, Discipline, HandsFollowPc, Busy
    <3>2. Len(pool') = Len(pool) - 1
      BY <2>3 DEF Pop, Empty, Discipline, TypeOK
    <3>3. Cardinality(Busy') <= Cardinality(Busy) + 1
      <4>1. Busy' = Busy \cup {t} \/ Busy' = Busy \ {t}
        BY <2>3, BusyMoves DEF Pop, Discipline, Pc
      <4> QED BY <3>1, <4>1, FS_AddElement, FS_RemoveElement
    <3> QED BY <1>1, <2>1, <3>2, <3>3 DEF CapacityBound, Capacity
  <2>6. CASE QueryNull(t)
    <3>1. Busy' \subseteq Busy /\ pool' = pool
      BY <2>6 DEF QueryNull, GuardIsEmpty, Goto, Busy, Discipline, TypeOK
    <3>2. Cardinality(Busy') <= Cardinality(Busy)
      BY <3>1, FS_Subset
    <3> QED BY <1>1, <2>1, <3>1, <3>2 DEF CapacityBound, Capacity
  <2>4. CASE PingFails(t) \/ Recreate(t)
    <3>1. t \in Busy
      BY <2>4 DEF PingFails, Recreate, Discipline, HandsFollowPc, Busy
    <3>2. Busy' \subseteq Busy /\ pool' = pool
      BY <2>4, <3>1 DEF PingFails, Recreate, Goto, Busy, Discipline, TypeOK
    <3>3. Cardinality(Busy') <= Cardinality(Busy)
      BY <3>2, FS_Subset
    <3> QED BY <1>1, <2>1, <3>2, <3>3 DEF CapacityBound, Capacity
  <2>5. CASE Release(t)
    <3>1. t \in Busy
      BY <2>5 DEF Release, Discipline, HandsFollowPc, Busy
    <3>2. Busy' = Busy \ {t}
      BY <2>5, BusyMoves DEF Release, Discipline, Pc
    <3>3. Cardinality(Busy') = Cardinality(Busy) - 1
      BY <3>1, <3>2, FS_RemoveElement
    <3>4. Len(pool') <= Len(pool) + 1 /\ Len(pool') \in Nat
      BY <2>5 DEF Release, Discipline, TypeOK
    <3> QED BY <1>1, <2>1, <3>3, <3>4 DEF CapacityBound, Capacity
  <2> QED BY <1>5, <2>2, <2>3, <2>4, <2>5, <2>6 DEF Step
<1> QED BY <1>2, <1>3, <1>4, <1>5 DEF Next

\* What needs no counting is kept by every step.
LEMMA DisciplineStep == Discipline /\ [Next]_vars => Discipline'
<1> SUFFICES ASSUME Discipline, [Next]_vars PROVE Discipline'
  OBVIOUS
<1>1. CASE UNCHANGED vars
  <2>1. TypeOK' /\ NoDuplicates' /\ NotShared' /\ Pooled' = Pooled /\ Held' = Held
    BY <1>1 DEF vars, Discipline, TypeOK, NoDuplicates, NotShared, Pooled, Held
  <2>2. OwnerIsInside' /\ HandsFollowPc' /\ ClosedLate' /\ ClosedIsDrained' /\ AllAccounted'
    BY <1>1, <2>1 DEF vars, Discipline, OwnerIsInside, HandsFollowPc, ClosedLate, Initialised,
       ClosedIsDrained, AllAccounted
  <2> QED BY <2>1, <2>2 DEF Discipline
<1>2. CASE \E t \in Threads : CallGetConn(t) \/ Step(t)
  BY <1>2, MoveStep, QueryNullStep, PopStep, PingFailsStep, RecreateStep, ReleaseStep DEF Step
<1> QED BY <1>1, <1>2, InitConnStep, CloseStep DEF Next

-----------------------------------------------------------------------------
(* The refinement of the abstract lease *)

LEMMA LeaseInits == Init => Lease!LeaseInit
BY DEF Init, Lease!LeaseInit, Pooled

\* A connection that was just opened is one the abstract pool has never seen.
LEMMA Unseen == ASSUME Discipline, Connects PROVE created' \in Lease!Unborn
BY NewHandle DEF Lease!Unborn, Lease!Leased, Held

LEMMA LeaseSteps ==
  ASSUME Discipline, [Next]_vars
  PROVE  [Lease!LeaseNext]_Lease!leaseVars
<1>1. CASE UNCHANGED vars
  BY <1>1 DEF vars, Lease!leaseVars, Pooled
<1>2. CASE InitConn
  <2>1. CASE Connects /\ pool' = Append(pool, created')
    <3>1. Pooled' = Pooled \cup {created'} /\ created' \in Lease!Unborn
      BY <2>1, NewHandle, PushPool, Unseen
    <3> QED BY <1>2, <3>1 DEF InitConn, Lease!LeaseNext, Lease!Open
  <2>2. CASE pool' = pool
    BY <1>2, <2>2 DEF InitConn, Lease!leaseVars, Pooled
  <2> QED BY <1>2, <2>1, <2>2 DEF InitConn
<1>3. CASE Close
  BY <1>3 DEF Close, Pooled, Lease!LeaseNext, Lease!Drain
<1>4. ASSUME NEW t \in Threads, CallGetConn(t) \/ Step(t)
      PROVE  [Lease!LeaseNext]_Lease!leaseVars
  <2>1. CASE CallGetConn(t) \/ Lock(t) \/ SleepWhileEmpty(t) \/ PingAnswers(t) \/ Query(t)
    BY <2>1 DEF CallGetConn, Lock, SleepWhileEmpty, PingAnswers, Query, Lease!leaseVars, Pooled
  <2>6. CASE QueryNull(t)
    BY <2>6 DEF QueryNull, Lease!leaseVars, Pooled
  <2>2. CASE Pop(t)
    <3>1. conn[t] = None /\ Head(pool) \in Pooled /\ Pooled' = Pooled \ {Head(pool)}
      BY <2>2, PopPool DEF Pop, Empty, Discipline, HandsFollowPc
    <3> QED BY <2>2, <3>1 DEF Pop, Lease!LeaseNext, Lease!Take
  <2>3. CASE PingFails(t)
    <3>1. conn[t] # None /\ Pooled' = Pooled
      BY <2>3 DEF PingFails, Discipline, HandsFollowPc, Pooled
    <3> QED BY <2>3, <3>1 DEF PingFails, Lease!LeaseNext, Lease!Discard
  <2>4. CASE Recreate(t)
    <3>1. conn[t] = None /\ Pooled' = Pooled /\ closedH' = closedH
      BY <2>4 DEF Recreate, Discipline, HandsFollowPc, Pooled
    <3>2. CASE Connects /\ conn' = [conn EXCEPT ![t] = created']
      <4>1. created' \in Lease!Unborn
        BY <3>2, Unseen
      <4> QED BY <3>1, <3>2, <4>1 DEF Lease!LeaseNext, Lease!Supply
    <3>3. CASE conn' = conn
      BY <3>1, <3>3 DEF Lease!leaseVars
    <3> QED BY <2>4, <3>2, <3>3 DEF Recreate
  <2>5. CASE Release(t)
    <3>1. conn[t] # None
      BY <2>5 DEF Release, Discipline, HandsFollowPc
    <3>2. CASE closed
      <4>1. Pooled' = Pooled
        BY <2>5, <3>2 DEF Release, Pooled
      <4> QED BY <2>5, <3>1, <3>2, <4>1 DEF Release, Lease!LeaseNext, Lease!Discard
    <3>3. CASE ~closed
      <4>1. Pooled' = Pooled \cup {conn[t]}
        BY <2>5, <3>1, <3>3, HandsAreLive, PushPool DEF Release
      <4> QED BY <2>5, <3>1, <3>3, <4>1 DEF Release, Lease!LeaseNext, Lease!GiveBack
    <3> QED BY <3>2, <3>3 DEF Discipline, TypeOK
  <2> QED BY <1>4, <2>1, <2>2, <2>3, <2>4, <2>5, <2>6 DEF Step
<1> QED BY <1>1, <1>2, <1>3, <1>4 DEF Next

-----------------------------------------------------------------------------
(* The theorems *)

\* The pool is always in a state of the inductive invariant.
THEOREM Invariance == Spec => []IInv
<1>1. Init => IInv
  <2> SUFFICES ASSUME Init PROVE CapacityBound
    BY InitInv DEF IInv
  <2>1. Busy = {} /\ Len(pool) = 0 /\ attempts = 0
    BY DEF Init, Busy
  <2> QED BY <2>1, FS_EmptySet DEF CapacityBound, Capacity
<1>2. IInv /\ [Next]_vars => IInv'
  BY DisciplineStep, CapacityStep DEF IInv
<1> QED BY <1>1, <1>2, PTL DEF Spec

\* The pool, the mutex and the threads are always well formed.
THEOREM TypeCorrect == Spec => []TypeOK
<1>1. IInv => TypeOK
  BY DEF IInv, Discipline
<1> QED BY <1>1, Invariance, PTL

\* No connection is ever lost, or in two places.
THEOREM NothingLost == Spec => []AllAccounted
<1>1. IInv => AllAccounted
  BY DEF IInv, Discipline
<1> QED BY <1>1, Invariance, PTL

\* There are never more than max_conn connections.
THEOREM NeverTooMany == Spec => []NeverOverfull
<1>1. IInv => NeverOverfull
  BY BusyFinite, PoolAssumption, SMT DEF IInv, Discipline, TypeOK, CapacityBound, Capacity,
     NeverOverfull, PoolAssumption
<1> QED BY <1>1, Invariance, PTL

\* The pool implements the abstract lease: initial states and steps map to its own.
THEOREM Refinement == Spec => ImplementsLease
<1>1. Init => Lease!LeaseInit
  BY LeaseInits
<1>2. IInv /\ [Next]_vars => [Lease!LeaseNext]_Lease!leaseVars
  BY LeaseSteps DEF IInv
<1> QED BY <1>1, <1>2, Invariance, PTL DEF Spec, ImplementsLease, Lease!LeaseSpec

\* A closed pool stays empty, however late the guards give back.
THEOREM StaysDrained == Spec => []ClosedIsDrained
<1>1. IInv => ClosedIsDrained
  BY DEF IInv, Discipline
<1> QED BY <1>1, Invariance, PTL
=============================================================================
