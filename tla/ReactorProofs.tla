----------------------------- MODULE ReactorProofs -----------------------------
(***************************************************************************)
(* Reactor for any number of connections, descriptors and sub-reactors,    *)
(* level- or edge-triggered: its type invariant, what it keeps true        *)
(* between timers, descriptors and epoll instances, and that answers go    *)
(* astray only after a timer outlived its connection.                      *)
(***************************************************************************)
EXTENDS ReactorInv, TLAPS

\* The marker None is not a connection, a descriptor or a loop.
LEMMA NoneFresh == None \notin Conns /\ None \notin Fds /\ None \notin Loops
<1>1. None \notin Conns /\ None \notin Nat /\ Fds \subseteq Nat /\ NumLoops \in Nat \ {0}
  BY ReactorAssumption DEF ReactorAssumption
<1>2. \A l \in Loops : l \in Nat
  BY <1>1, SMT DEF Loops
<1> QED BY <1>1, <1>2

\* The round robin of handleNewConnection always names a sub-reactor.
LEMMA NextLoop == ASSUME NEW n \in Nat PROVE n % NumLoops \in Loops
BY ReactorAssumption, SMT DEF ReactorAssumption, Loops

\* The server as the constructor and start() leave it.
LEMMA InitInv == Init => IInv
<1> SUFFICES ASSUME Init PROVE IInv
  OBVIOUS
<1> USE DEF Listening, EmptyEpolls, LoopsAtStart
<1>1. TypeOK
  <2>1. FlagTypeOK
    BY Zenon DEF Init, FlagTypeOK
  <2>2. KernelTypeOK
    BY DEF Init, KernelTypeOK
  <2>3. AcceptorTypeOK
    BY DEF Init, AcceptorTypeOK, AcceptorPc
  <2>4. LoopTypeOK
    BY ReactorAssumption DEF Init, LoopTypeOK, LoopPc, ReactorAssumption
  <2> QED BY <2>1, <2>2, <2>3, <2>4 DEF TypeOK
<1>2. FdInv /\ BacklogInv /\ FreshInv /\ AcceptInv /\ TimerInv
  BY NoneFresh DEF Init, FdInv, BacklogInv, FreshInv, AcceptInv, TimerInv, Arrived,
     Arming
<1>3. WatchInv /\ CurInv /\ DeadlineInv /\ WaitInv /\ OwnInv
  BY ReactorAssumption, NoneFresh DEF Init, WatchInv, OpenConnRegistered, CurInv,
     Handling, HasReq, DeadlineInv, WaitInv, Covers, OwnInv, Pending,
     ReactorAssumption
<1>4. OpenConnHasTimer /\ MisdeliveryNeedsStaleTimer
  BY DEF Init, OpenConnHasTimer, MisdeliveryNeedsStaleTimer, AnswersOwn
<1>5. ArrivingInv /\ NoLostEdge
  BY DEF Init, ArrivingInv, NoLostEdge
<1> QED BY <1>1, <1>2, <1>3, <1>4, <1>5 DEF IInv

-----------------------------------------------------------------------------
(* Types *)

\* Inside handleMessage there is a channel, and its callback has a descriptor.
LEMMA HandlerTyped ==
  ASSUME TypeOK, CurInv, NEW l \in Loops, lpc[l] \in Handling
  PROVE  /\ cur[l] \in Conns /\ chanFd[cur[l]] \in Fds
         /\ Target(l) \in Conns \cup {None}
BY DEF TypeOK, KernelTypeOK, AcceptorTypeOK, LoopTypeOK, CurInv, Target

\* close leaves the kernel's tables well formed, whatever the descriptor.
LEMMA CloseFdTyped ==
  ASSUME KernelTypeOK, NEW f, CloseFd(f)
  PROVE  /\ backlog' \in Seq(Conns)
         /\ sock' \in [Conns -> {"new", "queued", "open", "closed"}]
         /\ fin' \in SUBSET Conns /\ shut' \in SUBSET Conns /\ edge' \in SUBSET Conns
         /\ fdt' \in [Fds -> Conns \cup {None}]
         /\ interest' \in [Loops -> SUBSET Conns]
<1>1. sock' \in [Conns -> {"new", "queued", "open", "closed"}]
  BY DEF KernelTypeOK, CloseFd
<1>2. fdt' \in [Fds -> Conns \cup {None}]
  BY DEF KernelTypeOK, CloseFd
<1>3. interest' \in [Loops -> SUBSET Conns]
  BY DEF KernelTypeOK, CloseFd
<1> QED BY <1>1, <1>2, <1>3 DEF KernelTypeOK, CloseFd

\* Every step keeps the kernel's tables well formed.
LEMMA KernelTypeStep == IInv /\ [Next]_vars => KernelTypeOK'
<1> SUFFICES ASSUME IInv, [Next]_vars PROVE  KernelTypeOK'
  OBVIOUS
<1> USE NoneFresh DEF IInv
<1>1. CASE UNCHANGED <<now, backlog, sock, data, fin, shut, edge, fdt, interest>>
  BY <1>1 DEF KernelTypeOK, TypeOK
<1>2. ASSUME NEW c \in Conns, Connect(c) PROVE  KernelTypeOK'
  BY <1>2 DEF KernelTypeOK, Connect, TypeOK, kernelVars
<1>3. ASSUME NEW c \in Conns, NEW k \in Kinds, SendRequest(c, k) PROVE  KernelTypeOK'
  BY <1>3 DEF KernelTypeOK, SendRequest, TypeOK, SignalEdge
<1>4. ASSUME NEW c \in Conns, Disconnect(c) PROVE  KernelTypeOK'
  BY <1>4 DEF KernelTypeOK, Disconnect, TypeOK, SignalEdge
<1>5. CASE Tick
  BY <1>5 DEF KernelTypeOK, Tick, TypeOK, kernelVars
<1>6. CASE Accept
  BY <1>6 DEF KernelTypeOK, Accept, TypeOK, FreeFds
<1>7. CASE UpdateChannel
  <2>1. aconn \in Conns
    BY <1>7 DEF TypeOK, AcceptorTypeOK, AcceptInv, Arrived, UpdateChannel
  <2>2. interest' \in [Loops -> SUBSET Conns]
    BY <1>7, <2>1 DEF TypeOK, KernelTypeOK, UpdateChannel, EpollAdd, KqueueAdd
  <2>3. edge' \in SUBSET Conns
    BY <1>7, <2>1 DEF TypeOK, KernelTypeOK, UpdateChannel, EpollAdd, KqueueAdd
  <2> QED BY <1>7, <2>2, <2>3 DEF TypeOK, KernelTypeOK, UpdateChannel
<1>8. ASSUME NEW l \in Loops, FireTimer(l) PROVE  KernelTypeOK'
  <2>1. KernelTypeOK /\ now' = now /\ data' = data
    BY <1>8 DEF FireTimer, TypeOK
  <2>2. PICK c \in Conns : CloseFd(chanFd[c])
    BY <1>8 DEF FireTimer
  <2> QED BY <2>1, <2>2, CloseFdTyped DEF KernelTypeOK
<1>9. ASSUME NEW l \in Loops, EpollWait(l) PROVE  KernelTypeOK'
  BY <1>9 DEF KernelTypeOK, EpollWait, At, Goto, TypeOK, Ready, EdgeReady, LevelReady
<1>10. ASSUME NEW l \in Loops, ReadRequest(l) PROVE  KernelTypeOK'
  BY <1>10, HandlerTyped DEF KernelTypeOK, ReadRequest, Route, At, Goto, TypeOK,
     kernelVars, Handling
<1>11. ASSUME NEW l \in Loops, ShutdownWrite(l) PROVE  KernelTypeOK'
  BY <1>11, HandlerTyped DEF KernelTypeOK, ShutdownWrite, At, Goto, TypeOK, Handling
<1>12. ASSUME NEW l \in Loops, CloseClient(l) PROVE  KernelTypeOK'
  BY <1>12, CloseFdTyped DEF KernelTypeOK, CloseClient, At, Goto, TypeOK
<1>13. ASSUME NEW l \in Loops, BlockedReadRequest(l) PROVE  KernelTypeOK'
  <2>1. req[l] \in Conns
    BY <1>13 DEF BlockedReadRequest, At, CurInv, HasReq, TypeOK, LoopTypeOK
  <2> QED BY <1>13, <2>1 DEF BlockedReadRequest, Route, KernelTypeOK, TypeOK,
             kernelVars
<1> QED
  BY <1>1, <1>2, <1>3, <1>4, <1>5, <1>6, <1>7, <1>8, <1>9, <1>10, <1>11, <1>12, <1>13
  DEF Next, Client, Acceptor, SubReactor, HandleMessage, Read, AcceptorWake,
      AcceptFails, SetNonBlock, RunAfter, AddTimer, BeginExpire, EndExpire,
      GetNextExpireMs, EnterWait, HandleRead, EndBatch, ReadNothing, BlockInRead,
      BlockedReadEnds, GetConn, QueryAndRelease, QueryNull, SendResponse, vars,
      kernelVars, acceptVars, chanVars, timerVars, loopVars, histVars

\* Every step keeps the accepting thread, the channels and the timers well formed.
LEMMA AcceptorTypeStep == IInv /\ [Next]_vars => AcceptorTypeOK'
<1> SUFFICES ASSUME IInv, [Next]_vars PROVE  AcceptorTypeOK'
  OBVIOUS
<1> USE NoneFresh DEF IInv
<1>1. CASE UNCHANGED <<apc, acfd, aconn, next, chanFd, home, missed, timers,
                    expire>>
  BY <1>1 DEF AcceptorTypeOK, TypeOK
<1>2. CASE AcceptorWake
  BY <1>2 DEF AcceptorTypeOK, AcceptorWake, TypeOK, AcceptorPc, chanVars, timerVars
<1>3. CASE Accept
  BY <1>3 DEF AcceptorTypeOK, Accept, TypeOK, AcceptorPc, KernelTypeOK, FreeFds,
     chanVars, timerVars
<1>4. CASE AcceptFails
  BY <1>4 DEF AcceptorTypeOK, AcceptFails, TypeOK, AcceptorPc, acceptVars, chanVars,
     timerVars
<1>5. CASE RunAfter
  <2>1. next % NumLoops \in Loops /\ next + 1 \in Nat
    BY NextLoop DEF TypeOK, AcceptorTypeOK
  <2>2. now + Timeout \in Nat
    BY ReactorAssumption DEF TypeOK, KernelTypeOK, ReactorAssumption
  <2> QED BY <1>5, <2>1, <2>2 DEF TypeOK, AcceptorTypeOK, RunAfter, AcceptorPc
<1>6. CASE AddTimer
  BY <1>6 DEF AcceptorTypeOK, AddTimer, TypeOK, AcceptorPc, AcceptInv, Arrived
<1>7. CASE UpdateChannel
  BY <1>7 DEF AcceptorTypeOK, UpdateChannel, TypeOK, AcceptorPc, chanVars, timerVars
<1>8. ASSUME NEW l \in Loops, FireTimer(l) PROVE  AcceptorTypeOK'
  BY <1>8 DEF AcceptorTypeOK, FireTimer, At, Goto, TypeOK, acceptVars, chanVars
<1>9. CASE SetNonBlock
  BY <1>9 DEF AcceptorTypeOK, SetNonBlock, TypeOK, AcceptorPc, chanVars, timerVars
<1>10. ASSUME NEW l \in Loops, EpollWait(l) PROVE  AcceptorTypeOK'
  BY <1>10 DEF AcceptorTypeOK, EpollWait, TypeOK, acceptVars, timerVars
<1> QED
  BY <1>1, <1>2, <1>3, <1>4, <1>5, <1>6, <1>7, <1>8, <1>9, <1>10 DEF Next, Client, Acceptor,
     SubReactor, HandleMessage, Read, Connect, SendRequest, Disconnect, Tick,
     BeginExpire, EndExpire, GetNextExpireMs, EnterWait, EpollWait, HandleRead,
     EndBatch, ReadRequest, BlockedReadRequest, Route, ReadNothing, BlockInRead,
     BlockedReadEnds, GetConn, QueryAndRelease, QueryNull, SendResponse,
     ShutdownWrite, CloseClient, CloseFd, vars, kernelVars, acceptVars, chanVars,
     timerVars, loopVars, histVars

\* Every step keeps the sub-reactors well formed.
LEMMA LoopTypeStep == IInv /\ [Next]_vars => LoopTypeOK'
<1> SUFFICES ASSUME IInv, [Next]_vars PROVE  LoopTypeOK'
  OBVIOUS
<1> USE NoneFresh DEF IInv
<1>1. CASE UNCHANGED <<lpc, cutoff, waitVars, active, cur, req, poolVars, got>>
  BY <1>1 DEF LoopTypeOK, TypeOK, waitVars, poolVars
<1>2. ASSUME NEW l \in Loops, BeginExpire(l) PROVE  LoopTypeOK'
  BY <1>2 DEF LoopTypeOK, BeginExpire, At, Goto, TypeOK, LoopPc, loopVars, waitVars,
     poolVars, histVars, KernelTypeOK
<1>3. ASSUME NEW l \in Loops, FireTimer(l) PROVE  LoopTypeOK'
  BY <1>3 DEF LoopTypeOK, FireTimer, At, Goto, TypeOK, LoopPc, loopVars, waitVars,
     poolVars, histVars
<1>4. ASSUME NEW l \in Loops, EndExpire(l) PROVE  LoopTypeOK'
  BY <1>4 DEF LoopTypeOK, EndExpire, At, Goto, TypeOK, LoopPc, loopVars, waitVars,
     poolVars, histVars
<1>5. ASSUME NEW l \in Loops, GetNextExpireMs(l) PROVE  LoopTypeOK'
  <2>1. \A c \in Conns : TimeLeft(c) \in Nat
    BY DEF TimeLeft, TypeOK, KernelTypeOK, AcceptorTypeOK
  <2>2. waitMs' \in [Loops -> Nat \cup {Forever}] /\ asked' \in [Loops -> Nat]
    <3>1. /\ waitMs \in [Loops -> Nat \cup {Forever}] /\ asked \in [Loops -> Nat]
          /\ now \in Nat
      BY DEF TypeOK, KernelTypeOK, LoopTypeOK
    <3>2. CASE waitMs' = [waitMs EXCEPT ![l] = Forever] /\ asked' = asked
      BY <3>1, <3>2
    <3>3. CASE \E c \in Conns : /\ waitMs' = [waitMs EXCEPT ![l] = TimeLeft(c)]
                               /\ asked' = [asked EXCEPT ![l] = now]
      BY <2>1, <3>1, <3>3
    <3> QED BY <1>5, <3>2, <3>3 DEF GetNextExpireMs
  <2>3. /\ lpc' = [lpc EXCEPT ![l] = "enter"]
        /\ UNCHANGED <<cutoff, until, late, active, cur, req, poolFree, lost, got>>
    BY <1>5 DEF GetNextExpireMs, Goto, poolVars, histVars
  <2> QED BY <2>2, <2>3 DEF TypeOK, LoopTypeOK, LoopPc
<1>6. ASSUME NEW l \in Loops, EpollWait(l) PROVE  LoopTypeOK'
  BY <1>6 DEF LoopTypeOK, EpollWait, At, Goto, TypeOK, LoopPc, loopVars, waitVars,
     poolVars, histVars, KernelTypeOK, Ready, EdgeReady, LevelReady
<1>7. ASSUME NEW l \in Loops, HandleRead(l) PROVE  LoopTypeOK'
  BY <1>7 DEF LoopTypeOK, HandleRead, At, Goto, TypeOK, LoopPc, loopVars, waitVars,
     poolVars, histVars
<1>8. ASSUME NEW l \in Loops, EndBatch(l) PROVE  LoopTypeOK'
  BY <1>8 DEF LoopTypeOK, EndBatch, At, Goto, TypeOK, LoopPc, loopVars, waitVars,
     poolVars, histVars
<1>9. ASSUME NEW l \in Loops, ReadRequest(l) PROVE  LoopTypeOK'
  BY <1>9, HandlerTyped DEF LoopTypeOK, ReadRequest, Route, At, Goto, TypeOK, LoopPc,
     loopVars, waitVars, poolVars, histVars, Handling
<1>10. ASSUME NEW l \in Loops, ReadNothing(l) PROVE  LoopTypeOK'
  BY <1>10 DEF LoopTypeOK, ReadNothing, At, Goto, TypeOK, LoopPc, loopVars, waitVars,
     poolVars, histVars
<1>11. ASSUME NEW l \in Loops, GetConn(l) PROVE  LoopTypeOK'
  BY <1>11 DEF LoopTypeOK, GetConn, At, Goto, TypeOK, LoopPc, loopVars, waitVars,
     poolVars, histVars
<1>12. ASSUME NEW l \in Loops, QueryAndRelease(l) PROVE  LoopTypeOK'
  BY <1>12 DEF LoopTypeOK, QueryAndRelease, At, Goto, TypeOK, LoopPc, loopVars,
     waitVars, poolVars, histVars
<1>13. ASSUME NEW l \in Loops, SendResponse(l) PROVE  LoopTypeOK'
  <2>1. req[l] \in Conns
    BY <1>13 DEF SendResponse, At, CurInv, HasReq, TypeOK, LoopTypeOK
  <2>2. got' \in [Conns -> SUBSET Conns]
    BY <1>13, <2>1 DEF SendResponse, TypeOK, LoopTypeOK
  <2>3. /\ lpc' = [lpc EXCEPT ![l] = "shutdown"]
        /\ UNCHANGED <<cutoff, waitVars, active, cur, req, poolFree, lost>>
    BY <1>13 DEF SendResponse, Goto, loopVars, poolVars
  <2> QED BY <2>2, <2>3 DEF TypeOK, LoopTypeOK, LoopPc, waitVars
<1>14. ASSUME NEW l \in Loops, ShutdownWrite(l) PROVE  LoopTypeOK'
  BY <1>14 DEF LoopTypeOK, ShutdownWrite, At, Goto, TypeOK, LoopPc, loopVars,
     waitVars, poolVars, histVars
<1>15. ASSUME NEW l \in Loops, CloseClient(l) PROVE  LoopTypeOK'
  BY <1>15 DEF LoopTypeOK, CloseClient, At, Goto, TypeOK, LoopPc, loopVars, waitVars,
     poolVars, histVars
<1>16. ASSUME NEW l \in Loops, EnterWait(l) PROVE  LoopTypeOK'
  <2>1. now - asked[l] \in Nat
    BY <1>16 DEF EnterWait, At, WaitInv, TypeOK, KernelTypeOK, LoopTypeOK
  <2>2. waitMs[l] # Forever => now + waitMs[l] \in Nat
    BY DEF TypeOK, KernelTypeOK, LoopTypeOK
  <2>3. until' \in [Loops -> Nat \cup {Forever}] /\ late' \in [Loops -> Nat]
    BY <1>16, <2>1, <2>2 DEF EnterWait, TypeOK, LoopTypeOK
  <2>4. /\ lpc' = [lpc EXCEPT ![l] = "wait"]
        /\ waitMs' = [waitMs EXCEPT ![l] = 0] /\ asked' = [asked EXCEPT ![l] = 0]
        /\ UNCHANGED <<cutoff, active, cur, req, poolFree, lost, got>>
    BY <1>16 DEF EnterWait, Goto, poolVars, histVars
  <2> QED BY <2>3, <2>4 DEF TypeOK, LoopTypeOK, LoopPc
<1>17. ASSUME NEW l \in Loops, BlockInRead(l) PROVE  LoopTypeOK'
  BY <1>17, HandlerTyped DEF LoopTypeOK, BlockInRead, Blocks, At, Goto, TypeOK,
     LoopPc, loopVars, waitVars, poolVars, histVars, Handling
<1>18. ASSUME NEW l \in Loops, BlockedReadRequest(l) PROVE  LoopTypeOK'
  BY <1>18 DEF LoopTypeOK, BlockedReadRequest, Route, At, Goto, TypeOK, LoopPc,
     loopVars, waitVars, poolVars, histVars
<1>19. ASSUME NEW l \in Loops, BlockedReadEnds(l) PROVE  LoopTypeOK'
  BY <1>19 DEF LoopTypeOK, BlockedReadEnds, At, Goto, TypeOK, LoopPc, loopVars,
     waitVars, poolVars, histVars
<1>20. ASSUME NEW l \in Loops, QueryNull(l) PROVE  LoopTypeOK'
  BY <1>20 DEF LoopTypeOK, QueryNull, At, Goto, TypeOK, LoopPc, loopVars, waitVars,
     poolVars, histVars
<1> QED
  BY <1>1, <1>2, <1>3, <1>4, <1>5, <1>6, <1>7, <1>8, <1>9, <1>10, <1>11, <1>12, <1>13,
     <1>14, <1>15, <1>16, <1>17, <1>18, <1>19, <1>20 DEF Next, Client, Acceptor,
     SubReactor, HandleMessage, Read, Connect, SendRequest, Disconnect, Tick,
     AcceptorWake, Accept, AcceptFails, SetNonBlock, RunAfter, AddTimer,
     UpdateChannel, vars, kernelVars, acceptVars, chanVars, timerVars, loopVars,
     waitVars, poolVars, histVars

\* Every step keeps the flags Boolean.
LEMMA FlagTypeStep == IInv /\ [Next]_vars => FlagTypeOK'
<1> SUFFICES ASSUME IInv, [Next]_vars PROVE  FlagTypeOK'
  OBVIOUS
<1> USE NoneFresh DEF IInv
<1>1. CASE UNCHANGED <<lsnEdge, exited, stale>>
  BY <1>1 DEF FlagTypeOK, TypeOK
<1>2. ASSUME NEW c \in Conns, Connect(c) PROVE  FlagTypeOK'
  BY <1>2, ReactorAssumption, Zenon DEF FlagTypeOK, Connect, TypeOK,
     ReactorAssumption, acceptVars, histVars
<1>3. CASE AcceptorWake
  BY <1>3, Zenon DEF FlagTypeOK, AcceptorWake, TypeOK, histVars
<1>4. CASE UpdateChannel
  BY <1>4, Zenon DEF FlagTypeOK, UpdateChannel, TypeOK, histVars
<1>5. ASSUME NEW l \in Loops, FireTimer(l) PROVE  FlagTypeOK'
  BY <1>5, Zenon DEF FlagTypeOK, FireTimer, At, Goto, TypeOK, CloseFd, acceptVars
<1>6. ASSUME NEW l \in Loops, QueryNull(l) PROVE  FlagTypeOK'
  BY <1>6, Zenon DEF FlagTypeOK, QueryNull, At, Goto, TypeOK, kernelVars, histVars
<1> QED
  BY <1>1, <1>2, <1>3, <1>4, <1>5, <1>6 DEF Next, Client, Acceptor, SubReactor,
     HandleMessage, Read, SendRequest, Disconnect, Tick, Accept, AcceptFails,
     SetNonBlock, RunAfter, AddTimer, BeginExpire, EndExpire, GetNextExpireMs,
     EnterWait, EpollWait, HandleRead, EndBatch, ReadRequest, BlockedReadRequest,
     Route, ReadNothing, BlockInRead, BlockedReadEnds, GetConn, QueryAndRelease,
     SendResponse, ShutdownWrite, CloseClient, CloseFd, vars, kernelVars, acceptVars,
     chanVars, timerVars, loopVars, histVars

-----------------------------------------------------------------------------
(* Descriptors, the listen queue, and the hand-over to a sub-reactor *)

\* What close(f) does, once the table and the sockets agree.
LEMMA Closing ==
  ASSUME KernelTypeOK, NEW f \in Fds, CloseFd(f)
  PROVE  /\ \A c \in Conns : sock'[c] = IF c = fdt[f] THEN "closed" ELSE sock[c]
         /\ \A g \in Fds : fdt'[g] = IF g = f THEN None ELSE fdt[g]
         /\ \A l \in Loops : interest'[l] = interest[l] \ {fdt[f]}
         /\ \A c \in Conns : c # fdt[f] => (c \in fin' <=> c \in fin)
         /\ backlog' = backlog
<1>1. \A c \in Conns : sock'[c] = IF c = fdt[f] THEN "closed" ELSE sock[c]
  BY NoneFresh DEF KernelTypeOK, CloseFd
<1>2. \A g \in Fds : fdt'[g] = IF g = f THEN None ELSE fdt[g]
  BY DEF KernelTypeOK, CloseFd
<1>3. \A l \in Loops : interest'[l] = interest[l] \ {fdt[f]}
  BY NoneFresh DEF KernelTypeOK, CloseFd
<1> QED BY <1>1, <1>2, <1>3 DEF CloseFd

\* A timer that fires closes a descriptor of the table.
LEMMA Firing ==
  ASSUME TypeOK, TimerInv, NEW l \in Loops, FireTimer(l)
  PROVE  \E c \in timers[l] :
           /\ c \in Conns /\ chanFd[c] \in Fds /\ home[c] = l /\ CloseFd(chanFd[c])
           /\ timers' = [timers EXCEPT ![l] = @ \ {c}]
           /\ expire[c] <= cutoff[l]
           /\ ~stale' => ~stale /\ fdt[chanFd[c]] \in {c, None}
BY DEF TypeOK, AcceptorTypeOK, TimerInv, FireTimer, Earliest

\* The connection that accept returns comes from the queue.
LEMMA HeadQueued ==
  ASSUME KernelTypeOK, BacklogInv, backlog # <<>>
  PROVE  Head(backlog) \in Conns /\ sock[Head(backlog)] = "queued"
BY DEF KernelTypeOK, BacklogInv

\* The descriptor table and the open sockets stay in step.
LEMMA FdStep == IInv /\ [Next]_vars => FdInv'
<1> SUFFICES ASSUME IInv, [Next]_vars PROVE  FdInv'
  OBVIOUS
<1> USE NoneFresh DEF IInv
<1>1. CASE UNCHANGED <<fdt, sock, chanFd>>
  BY <1>1 DEF FdInv, TypeOK
<1>2. ASSUME NEW c \in Conns, Connect(c) PROVE  FdInv'
  BY <1>2 DEF FdInv, Connect, TypeOK, KernelTypeOK, chanVars
<1>3. CASE Accept
  <2>1. Head(backlog) \in Conns /\ sock[Head(backlog)] = "queued"
    BY <1>3, HeadQueued DEF Accept, TypeOK
  <2>2. PICK f \in Fds : /\ fdt[f] = None
                         /\ fdt' = [fdt EXCEPT ![f] = Head(backlog)]
                         /\ chanFd' = [chanFd EXCEPT ![Head(backlog)] = f]
    BY <1>3 DEF Accept, FreeFds
  <2>3. sock' = [sock EXCEPT ![Head(backlog)] = "open"]
    BY <1>3 DEF Accept
  <2> QED BY <2>1, <2>2, <2>3 DEF TypeOK, KernelTypeOK, AcceptorTypeOK, FdInv
<1>4. ASSUME NEW l \in Loops, FireTimer(l) PROVE  FdInv'
  <2>1. PICK c \in timers[l] :
          /\ c \in Conns /\ chanFd[c] \in Fds /\ home[c] = l /\ CloseFd(chanFd[c])
          /\ timers' = [timers EXCEPT ![l] = @ \ {c}]
    BY <1>4, Firing
  <2>2. chanFd' = chanFd
    BY <1>4 DEF FireTimer, CloseFd, acceptVars, chanVars, loopVars, TypeOK
  <2> QED BY <2>1, <2>2, Closing DEF TypeOK, KernelTypeOK, AcceptorTypeOK, FdInv
<1>5. ASSUME NEW l \in Loops, CloseClient(l) PROVE  FdInv'
  <2>1. cur[l] \in Conns /\ chanFd[cur[l]] \in Fds
    BY <1>5, HandlerTyped DEF CloseClient, At, Handling
  <2>2. CloseFd(chanFd[cur[l]]) /\ chanFd' = chanFd
    BY <1>5 DEF CloseClient, CloseFd, At, acceptVars, chanVars, timerVars, loopVars,
       TypeOK
  <2> QED BY <2>1, <2>2, Closing DEF TypeOK, KernelTypeOK, AcceptorTypeOK, FdInv
<1> QED
  BY <1>1, <1>2, <1>3, <1>4, <1>5 DEF Next, Client, Acceptor, SubReactor,
     HandleMessage, Read, SendRequest, Disconnect, Tick, AcceptorWake, AcceptFails,
     SetNonBlock, RunAfter, AddTimer, UpdateChannel, BeginExpire, EndExpire,
     GetNextExpireMs, EnterWait, EpollWait, HandleRead, EndBatch, ReadRequest,
     BlockedReadRequest, Route, ReadNothing, BlockInRead, BlockedReadEnds, GetConn,
     QueryAndRelease, QueryNull, SendResponse, ShutdownWrite, vars, kernelVars,
     acceptVars, chanVars, timerVars, loopVars, histVars

\* Closing a descriptor leaves the listen queue as it is.
LEMMA QueuedKept ==
  ASSUME KernelTypeOK, FdInv, BacklogInv, NEW f \in Fds, CloseFd(f)
  PROVE  BacklogInv'
<1>1. backlog' = backlog
  BY Closing
<1>2. \A c \in Conns : sock[c] = "queued" => sock'[c] = "queued"
  BY Closing, NoneFresh DEF FdInv
<1>3. \A i \in DOMAIN backlog : backlog[i] \in Conns
  BY DEF KernelTypeOK
<1> QED BY <1>1, <1>2, <1>3 DEF BacklogInv

\* The listen queue holds the queued connections, each once.
LEMMA BacklogStep == IInv /\ [Next]_vars => BacklogInv'
<1> SUFFICES ASSUME IInv, [Next]_vars PROVE  BacklogInv'
  OBVIOUS
<1> USE NoneFresh DEF IInv
<1>1. CASE UNCHANGED <<backlog, sock>>
  BY <1>1 DEF BacklogInv, TypeOK
<1>2. ASSUME NEW c \in Conns, Connect(c) PROVE  BacklogInv'
  BY <1>2 DEF BacklogInv, Connect, TypeOK, KernelTypeOK
<1>3. CASE Accept
  <2>1. Head(backlog) \in Conns /\ sock[Head(backlog)] = "queued"
    BY <1>3, HeadQueued DEF Accept, TypeOK
  <2>2. backlog' = Tail(backlog) /\ sock' = [sock EXCEPT ![Head(backlog)] = "open"]
    BY <1>3 DEF Accept
  <2>3. 1 \in DOMAIN backlog /\ Head(backlog) = backlog[1]
    BY <1>3 DEF Accept, TypeOK, KernelTypeOK
  <2>4. \A i \in DOMAIN backlog' : 
          i + 1 \in DOMAIN backlog /\ i + 1 # 1 /\ backlog'[i] = backlog[i + 1]
    BY <2>2, <2>3 DEF TypeOK, KernelTypeOK
  <2>5. \A i \in DOMAIN backlog' : backlog'[i] \in Conns /\ backlog'[i] # Head(backlog)
    BY <2>3, <2>4 DEF TypeOK, KernelTypeOK, BacklogInv
  <2> QED BY <2>1, <2>2, <2>4, <2>5 DEF TypeOK, KernelTypeOK, BacklogInv
<1>4. ASSUME NEW l \in Loops, FireTimer(l) PROVE  BacklogInv'
  <2>1. PICK c \in timers[l] : chanFd[c] \in Fds /\ CloseFd(chanFd[c])
    BY <1>4, Firing
  <2> QED BY <2>1, QueuedKept DEF TypeOK
<1>5. ASSUME NEW l \in Loops, CloseClient(l) PROVE  BacklogInv'
  <2>1. chanFd[cur[l]] \in Fds /\ CloseFd(chanFd[cur[l]])
    BY <1>5, HandlerTyped DEF CloseClient, At, Handling
  <2> QED BY <2>1, QueuedKept DEF TypeOK
<1> QED
  BY <1>1, <1>2, <1>3, <1>4, <1>5 DEF Next, Client, Acceptor, SubReactor,
     HandleMessage, Read, SendRequest, Disconnect, Tick, AcceptorWake, AcceptFails,
     SetNonBlock, RunAfter, AddTimer, UpdateChannel, BeginExpire, EndExpire,
     GetNextExpireMs, EnterWait, EpollWait, HandleRead, EndBatch, ReadRequest,
     BlockedReadRequest, Route, ReadNothing, BlockInRead, BlockedReadEnds, GetConn,
     QueryAndRelease, QueryNull, SendResponse, ShutdownWrite, vars, kernelVars,
     acceptVars, chanVars, timerVars, loopVars, histVars

\* A connection that was not accepted has no loop, timer or channel.
LEMMA FreshStep == IInv /\ [Next]_vars => FreshInv'
<1> SUFFICES ASSUME IInv, [Next]_vars PROVE  FreshInv'
  OBVIOUS
<1> USE NoneFresh DEF IInv
<1>1. CASE UNCHANGED <<sock, aconn, home, timers, interest>>
  BY <1>1 DEF FreshInv, TypeOK
<1>2. ASSUME NEW c \in Conns, Connect(c) PROVE  FreshInv'
  BY <1>2 DEF FreshInv, Connect, TypeOK, KernelTypeOK, acceptVars, chanVars, timerVars
<1>3. CASE Accept
  <2>1. Head(backlog) \in Conns /\ sock[Head(backlog)] = "queued"
    BY <1>3, HeadQueued DEF Accept, TypeOK
  <2>2. /\ sock' = [sock EXCEPT ![Head(backlog)] = "open"] /\ aconn' = Head(backlog)
        /\ home' = home /\ timers' = timers /\ interest' = interest
    BY <1>3 DEF Accept, timerVars
  <2> QED BY <2>1, <2>2 DEF TypeOK, KernelTypeOK, FreshInv
<1>4. CASE RunAfter
  BY <1>4 DEF FreshInv, RunAfter, TypeOK, AcceptInv, Arrived, AcceptorTypeOK,
     kernelVars
<1>5. CASE AddTimer
  BY <1>5 DEF FreshInv, AddTimer, TypeOK, AcceptInv, Arrived, AcceptorTypeOK,
     kernelVars, chanVars
<1>6. CASE UpdateChannel
  <2>1. aconn \in Conns /\ home[aconn] \in Loops /\ aconn' = None
    BY <1>6 DEF UpdateChannel, TypeOK, AcceptorTypeOK, AcceptInv, Arrived
  <2>2. \A l \in Loops : interest'[l] \subseteq interest[l] \cup {aconn}
    BY <1>6, <2>1 DEF UpdateChannel, EpollAdd, KqueueAdd, TypeOK, KernelTypeOK
  <2>3. sock' = sock /\ home' = home /\ timers' = timers
    BY <1>6 DEF UpdateChannel, chanVars, timerVars
  <2> QED BY <2>1, <2>2, <2>3 DEF FreshInv
<1>7. ASSUME NEW l \in Loops, FireTimer(l) PROVE  FreshInv'
  <2>1. PICK c \in timers[l] :
          /\ c \in Conns /\ chanFd[c] \in Fds /\ home[c] = l /\ CloseFd(chanFd[c])
          /\ timers' = [timers EXCEPT ![l] = @ \ {c}]
    BY <1>7, Firing
  <2>2. home' = home /\ aconn' = aconn
    BY <1>7 DEF FireTimer, CloseFd, acceptVars, chanVars, loopVars, TypeOK
  <2> QED BY <2>1, <2>2, Closing DEF TypeOK, KernelTypeOK, AcceptorTypeOK, FreshInv,
             FdInv
<1>8. ASSUME NEW l \in Loops, CloseClient(l) PROVE  FreshInv'
  <2>1. cur[l] \in Conns /\ chanFd[cur[l]] \in Fds
    BY <1>8, HandlerTyped DEF CloseClient, At, Handling
  <2>2. CloseFd(chanFd[cur[l]]) /\ home' = home /\ aconn' = aconn /\ timers' = timers
    BY <1>8 DEF CloseClient, CloseFd, At, acceptVars, chanVars, timerVars, loopVars,
       TypeOK
  <2> QED BY <2>1, <2>2, Closing DEF TypeOK, KernelTypeOK, AcceptorTypeOK, FreshInv,
             FdInv
<1> QED
  BY <1>1, <1>2, <1>3, <1>4, <1>5, <1>6, <1>7, <1>8 DEF Next, Client, Acceptor,
     SubReactor, HandleMessage, Read, SendRequest, Disconnect, Tick, AcceptorWake,
     AcceptFails, SetNonBlock, BeginExpire, EndExpire, GetNextExpireMs, EnterWait,
     EpollWait, HandleRead, EndBatch, ReadRequest, BlockedReadRequest, Route,
     ReadNothing, BlockInRead, BlockedReadEnds, GetConn, QueryAndRelease, QueryNull,
     SendResponse, ShutdownWrite, vars, kernelVars, acceptVars, chanVars, timerVars,
     loopVars, histVars

\* The connection being handed over is in no one else's hands.
LEMMA AcceptStep == IInv /\ [Next]_vars => AcceptInv'
<1> SUFFICES ASSUME IInv, [Next]_vars PROVE  AcceptInv'
  OBVIOUS
<1> USE NoneFresh DEF IInv
<1>1. CASE UNCHANGED <<apc, aconn, acfd, chanFd, fdt, home, interest, timers>>
  BY <1>1 DEF AcceptInv, TypeOK, Arrived, Arming
<1>2. CASE AcceptorWake
  BY <1>2 DEF AcceptInv, AcceptorWake, TypeOK, Arrived, Arming, AcceptorTypeOK,
     KernelTypeOK, chanVars, timerVars
<1>3. CASE Accept
  <2>1. Head(backlog) \in Conns /\ sock[Head(backlog)] = "queued"
    BY <1>3, HeadQueued DEF Accept, TypeOK
  <2>2. PICK f \in Fds : /\ fdt[f] = None
                         /\ fdt' = [fdt EXCEPT ![f] = Head(backlog)]
                         /\ chanFd' = [chanFd EXCEPT ![Head(backlog)] = f]
                         /\ acfd' = f
    BY <1>3 DEF Accept, FreeFds
  <2>3. /\ apc' = "setNonBlock" /\ aconn' = Head(backlog)
        /\ home' = home /\ timers' = timers /\ interest' = interest
    BY <1>3 DEF Accept, timerVars
  <2>4. /\ home[Head(backlog)] = None
        /\ \A l \in Loops : /\ Head(backlog) \notin timers[l]
                            /\ Head(backlog) \notin interest[l]
    BY <2>1 DEF FreshInv
  <2> QED BY <2>1, <2>2, <2>3, <2>4 DEF AcceptInv, TypeOK, KernelTypeOK,
             AcceptorTypeOK, Arrived, Arming
<1>4. CASE AcceptFails
  BY <1>4 DEF AcceptInv, AcceptFails, TypeOK, Arrived, Arming, AcceptorTypeOK,
     KernelTypeOK, kernelVars, chanVars, timerVars
<1>5. CASE RunAfter
  <2>1. next % NumLoops \in Loops
    BY NextLoop DEF TypeOK, AcceptorTypeOK
  <2> QED BY <1>5, <2>1 DEF RunAfter, AcceptInv, TypeOK, AcceptorTypeOK, Arrived,
             Arming, kernelVars
<1>6. CASE AddTimer
  BY <1>6 DEF AcceptInv, AddTimer, TypeOK, Arrived, Arming, AcceptorTypeOK,
     KernelTypeOK, kernelVars, chanVars
<1>7. CASE UpdateChannel
  BY <1>7 DEF AcceptInv, UpdateChannel, TypeOK, Arrived, Arming, AcceptorTypeOK,
     KernelTypeOK, chanVars, timerVars
<1>8. ASSUME NEW l \in Loops, FireTimer(l) PROVE  AcceptInv'
  <2>1. PICK c \in timers[l] :
          /\ c \in Conns /\ chanFd[c] \in Fds /\ home[c] = l /\ CloseFd(chanFd[c])
          /\ timers' = [timers EXCEPT ![l] = @ \ {c}]
    BY <1>8, Firing
  <2>2. chanFd' = chanFd /\ home' = home /\ aconn' = aconn /\ acfd' = acfd /\ apc' = apc
    BY <1>8 DEF FireTimer, CloseFd, acceptVars, chanVars, loopVars, TypeOK
  <2> QED BY <2>1, <2>2, Closing DEF TypeOK, KernelTypeOK, AcceptorTypeOK, AcceptInv,
             Arming
<1>9. ASSUME NEW l \in Loops, CloseClient(l) PROVE  AcceptInv'
  <2>1. cur[l] \in Conns /\ chanFd[cur[l]] \in Fds
    BY <1>9, HandlerTyped DEF CloseClient, At, Handling
  <2>2. /\ CloseFd(chanFd[cur[l]])
        /\ UNCHANGED <<chanFd, home, aconn, acfd, apc>>
        /\ timers' = timers
    BY <1>9 DEF CloseClient, CloseFd, At, acceptVars, chanVars, timerVars, loopVars,
       TypeOK
  <2> QED BY <2>1, <2>2, Closing DEF TypeOK, KernelTypeOK, AcceptorTypeOK, AcceptInv,
             Arming
<1>10. CASE SetNonBlock
  BY <1>10 DEF AcceptInv, SetNonBlock, TypeOK, Arrived, Arming, AcceptorTypeOK,
     KernelTypeOK, kernelVars, chanVars, timerVars
<1> QED
  BY <1>1, <1>2, <1>3, <1>4, <1>5, <1>6, <1>7, <1>8, <1>9, <1>10 DEF Next, Client,
     Acceptor, SubReactor, HandleMessage, Read, Connect, SendRequest, Disconnect,
     Tick, BeginExpire, EndExpire, GetNextExpireMs, EnterWait, EpollWait, HandleRead,
     EndBatch, ReadRequest, BlockedReadRequest, Route, ReadNothing, BlockInRead,
     BlockedReadEnds, GetConn, QueryAndRelease, QueryNull, SendResponse,
     ShutdownWrite, vars, kernelVars, acceptVars, chanVars, timerVars, loopVars,
     histVars

\* Timers stay in the heap of their connection's loop.
LEMMA TimerStep == IInv /\ [Next]_vars => TimerInv'
<1> SUFFICES ASSUME IInv, [Next]_vars PROVE  TimerInv'
  OBVIOUS
<1> USE NoneFresh DEF IInv
<1>1. CASE UNCHANGED <<timers, home, chanFd>>
  BY <1>1 DEF TimerInv, TypeOK
<1>2. CASE Accept
  <2>1. Head(backlog) \in Conns /\ sock[Head(backlog)] = "queued"
    BY <1>2, HeadQueued DEF Accept, TypeOK
  <2>2. \E f \in Fds : chanFd' = [chanFd EXCEPT ![Head(backlog)] = f]
    BY <1>2 DEF Accept, FreeFds
  <2>3. timers' = timers /\ home' = home
    BY <1>2 DEF Accept, timerVars
  <2> QED BY <2>1, <2>2, <2>3 DEF TimerInv, TypeOK, AcceptorTypeOK
<1>3. CASE RunAfter
  BY <1>3 DEF TimerInv, RunAfter, TypeOK, AcceptorTypeOK, AcceptInv, Arrived, Arming
<1>4. CASE AddTimer
  BY <1>4 DEF TimerInv, AddTimer, TypeOK, AcceptorTypeOK, AcceptInv, Arrived, Arming,
     chanVars
<1>5. ASSUME NEW l \in Loops, FireTimer(l) PROVE  TimerInv'
  <2>1. PICK c \in timers[l] :
          /\ c \in Conns /\ chanFd[c] \in Fds /\ home[c] = l /\ CloseFd(chanFd[c])
          /\ timers' = [timers EXCEPT ![l] = @ \ {c}]
    BY <1>5, Firing
  <2>2. chanFd' = chanFd /\ home' = home
    BY <1>5 DEF FireTimer, CloseFd, acceptVars, chanVars, loopVars, TypeOK
  <2> QED BY <2>1, <2>2, Closing DEF TypeOK, KernelTypeOK, AcceptorTypeOK, TimerInv
<1> QED
  BY <1>1, <1>2, <1>3, <1>4, <1>5 DEF Next, Client, Acceptor, SubReactor,
     HandleMessage, Read, Connect, SendRequest, Disconnect, Tick, AcceptorWake,
     AcceptFails, SetNonBlock, UpdateChannel, BeginExpire, EndExpire, GetNextExpireMs,
     EnterWait, EpollWait, HandleRead, EndBatch, ReadRequest, BlockedReadRequest,
     Route, ReadNothing, BlockInRead, BlockedReadEnds, GetConn, QueryAndRelease,
     QueryNull, SendResponse, ShutdownWrite, CloseClient, CloseFd, vars, kernelVars,
     acceptVars, chanVars, timerVars, loopVars, histVars

\* Open connections stay watched by their own loop, closed ones by none.
LEMMA WatchStep == IInv /\ [Next]_vars => WatchInv'
<1> SUFFICES ASSUME IInv, [Next]_vars PROVE  WatchInv'
  OBVIOUS
<1> USE NoneFresh DEF IInv
<1>1. CASE UNCHANGED <<sock, aconn, interest, home, active, chanFd>>
  BY <1>1 DEF WatchInv, OpenConnRegistered
<1>2. ASSUME NEW c \in Conns, Connect(c) PROVE  WatchInv'
  BY <1>2 DEF WatchInv, Connect, OpenConnRegistered, KernelTypeOK, acceptVars,
     chanVars, loopVars
<1>3. CASE Accept
  <2>1. Head(backlog) \in Conns /\ sock[Head(backlog)] = "queued"
    BY <1>3, HeadQueued DEF Accept, TypeOK
  <2>2. \E f \in Fds : chanFd' = [chanFd EXCEPT ![Head(backlog)] = f]
    BY <1>3 DEF Accept, FreeFds
  <2>3. /\ sock' = [sock EXCEPT ![Head(backlog)] = "open"] /\ aconn' = Head(backlog)
        /\ home' = home /\ interest' = interest /\ active' = active /\ aconn = None
    BY <1>3 DEF Accept, loopVars, AcceptInv, Arrived
  <2> QED BY <2>1, <2>2, <2>3 DEF WatchInv, OpenConnRegistered, TypeOK,
             AcceptorTypeOK, KernelTypeOK, LoopTypeOK
<1>4. CASE RunAfter
  <2>1. aconn \in Conns /\ \A l \in Loops : aconn \notin interest[l]
    BY <1>4 DEF RunAfter, TypeOK, AcceptorTypeOK, AcceptInv, Arrived
  <2> QED BY <1>4, <2>1 DEF RunAfter, WatchInv, OpenConnRegistered, TypeOK,
             AcceptorTypeOK, kernelVars, loopVars
<1>5. CASE UpdateChannel
  <2>1. /\ aconn \in Conns /\ acfd = chanFd[aconn] /\ acfd \in Fds /\ home[aconn] \in Loops
        /\ fdt[acfd] \in {aconn, None}
    BY <1>5 DEF UpdateChannel, TypeOK, AcceptorTypeOK, AcceptInv, Arrived
  <2>2. /\ aconn' = None /\ sock' = sock /\ home' = home /\ chanFd' = chanFd
        /\ active' = active
    BY <1>5 DEF UpdateChannel, chanVars, loopVars
  <2>3. CASE fdt[acfd] = None
    <3>1. sock[aconn] # "open" /\ interest' = interest
      BY <1>5, <2>1, <2>3 DEF UpdateChannel, FdInv
    <3> QED BY <2>2, <3>1 DEF WatchInv, OpenConnRegistered
  <2>4. CASE fdt[acfd] = aconn
    <3>1. /\ sock[aconn] = "open"
          /\ interest' = [interest EXCEPT ![home[aconn]] = @ \cup {aconn}]
      BY <1>5, <2>1, <2>4 DEF UpdateChannel, EpollAdd, KqueueAdd, FdInv
    <3> QED BY <2>1, <2>2, <3>1 DEF WatchInv, OpenConnRegistered, TypeOK, KernelTypeOK
  <2> QED BY <2>1, <2>3, <2>4
<1>6. ASSUME NEW l \in Loops, FireTimer(l) PROVE  WatchInv'
  <2>1. PICK c \in timers[l] :
          /\ c \in Conns /\ chanFd[c] \in Fds /\ home[c] = l /\ CloseFd(chanFd[c])
          /\ timers' = [timers EXCEPT ![l] = @ \ {c}]
    BY <1>6, Firing
  <2>2. chanFd' = chanFd /\ home' = home /\ aconn' = aconn /\ active' = active
    BY <1>6 DEF FireTimer, CloseFd, acceptVars, chanVars, loopVars, TypeOK
  <2> QED BY <2>1, <2>2, Closing DEF TypeOK, KernelTypeOK, AcceptorTypeOK, WatchInv,
             OpenConnRegistered
<1>7. ASSUME NEW l \in Loops, EpollWait(l) PROVE  WatchInv'
  BY <1>7 DEF WatchInv, EpollWait, At, Goto, OpenConnRegistered, TypeOK, LoopTypeOK,
     Ready, EdgeReady, LevelReady, acceptVars, chanVars
<1>8. ASSUME NEW l \in Loops, HandleRead(l) PROVE  WatchInv'
  BY <1>8 DEF WatchInv, HandleRead, At, Goto, OpenConnRegistered, TypeOK, LoopTypeOK,
     acceptVars, chanVars, kernelVars
<1>9. ASSUME NEW l \in Loops, CloseClient(l) PROVE  WatchInv'
  <2>1. cur[l] \in Conns /\ chanFd[cur[l]] \in Fds
    BY <1>9, HandlerTyped DEF CloseClient, At, Handling
  <2>2. CloseFd(chanFd[cur[l]]) /\ UNCHANGED <<chanFd, home, aconn, active>>
    BY <1>9 DEF CloseClient, CloseFd, At, acceptVars, chanVars, timerVars, loopVars,
       TypeOK
  <2> QED BY <2>1, <2>2, Closing DEF TypeOK, KernelTypeOK, AcceptorTypeOK, WatchInv,
             OpenConnRegistered
<1> QED
  BY <1>1, <1>2, <1>3, <1>4, <1>5, <1>6, <1>7, <1>8, <1>9 DEF Next, Client, Acceptor,
     SubReactor, HandleMessage, Read, SendRequest, Disconnect, Tick, AcceptorWake,
     AcceptFails, SetNonBlock, AddTimer, BeginExpire, EndExpire, GetNextExpireMs,
     EnterWait, EndBatch, ReadRequest, BlockedReadRequest, Route, ReadNothing,
     BlockInRead, BlockedReadEnds, GetConn, QueryAndRelease, QueryNull, SendResponse,
     ShutdownWrite, vars, kernelVars, acceptVars, chanVars, timerVars, loopVars,
     histVars

-----------------------------------------------------------------------------
(* The sub-reactors and their timers *)

\* A sub-reactor holds a channel exactly inside handleMessage.
LEMMA CurStep == IInv /\ [Next]_vars => CurInv'
<1> SUFFICES ASSUME IInv, [Next]_vars PROVE  CurInv'
  OBVIOUS
<1> USE NoneFresh DEF IInv
<1>1. CASE UNCHANGED <<lpc, cur, req, chanFd, active>>
  BY <1>1 DEF CurInv
<1>2. CASE Accept
  <2>1. \E c \in Conns, f \in Fds : chanFd' = [chanFd EXCEPT ![c] = f]
    BY <1>2, HeadQueued DEF Accept, FreeFds, TypeOK
  <2>2. UNCHANGED <<lpc, cur, req, active>>
    BY <1>2 DEF Accept, loopVars
  <2> QED BY <2>1, <2>2 DEF CurInv, TypeOK, AcceptorTypeOK, LoopTypeOK
<1>3. ASSUME NEW l \in Loops, BeginExpire(l) PROVE  CurInv'
  BY <1>3 DEF CurInv, BeginExpire, At, Goto, TypeOK, LoopTypeOK, Handling, HasReq,
     loopVars, acceptVars, chanVars
<1>4. ASSUME NEW l \in Loops, EndExpire(l) PROVE  CurInv'
  BY <1>4 DEF CurInv, EndExpire, At, Goto, TypeOK, LoopTypeOK, Handling, HasReq,
     loopVars, acceptVars, chanVars
<1>5. ASSUME NEW l \in Loops, GetNextExpireMs(l) PROVE  CurInv'
  BY <1>5 DEF CurInv, GetNextExpireMs, At, Goto, TypeOK, LoopTypeOK, Handling, HasReq,
     loopVars, acceptVars, chanVars
<1>6. ASSUME NEW l \in Loops, EpollWait(l) PROVE  CurInv'
  BY <1>6 DEF CurInv, EpollWait, At, Goto, TypeOK, LoopTypeOK, Handling, HasReq,
     loopVars, acceptVars, chanVars
<1>7. ASSUME NEW l \in Loops, HandleRead(l) PROVE  CurInv'
  BY <1>7 DEF CurInv, HandleRead, At, Goto, TypeOK, LoopTypeOK, Handling, HasReq,
     loopVars, acceptVars, chanVars, WatchInv
<1>8. ASSUME NEW l \in Loops, EndBatch(l) PROVE  CurInv'
  BY <1>8 DEF CurInv, EndBatch, At, Goto, TypeOK, LoopTypeOK, Handling, HasReq,
     loopVars, acceptVars, chanVars
<1>9. ASSUME NEW l \in Loops, ReadRequest(l) PROVE  CurInv'
  BY <1>9 DEF CurInv, ReadRequest, Route, At, Goto, TypeOK, LoopTypeOK, Handling,
     HasReq, loopVars, acceptVars, chanVars
<1>10. ASSUME NEW l \in Loops, ReadNothing(l) PROVE  CurInv'
  BY <1>10 DEF CurInv, ReadNothing, At, Goto, TypeOK, LoopTypeOK, Handling, HasReq,
     loopVars, acceptVars, chanVars
<1>11. ASSUME NEW l \in Loops, GetConn(l) PROVE  CurInv'
  BY <1>11 DEF CurInv, GetConn, At, Goto, TypeOK, LoopTypeOK, Handling, HasReq,
     loopVars, acceptVars, chanVars
<1>12. ASSUME NEW l \in Loops, QueryAndRelease(l) PROVE  CurInv'
  BY <1>12 DEF CurInv, QueryAndRelease, At, Goto, TypeOK, LoopTypeOK, Handling,
     HasReq, loopVars, acceptVars, chanVars
<1>13. ASSUME NEW l \in Loops, SendResponse(l) PROVE  CurInv'
  BY <1>13 DEF CurInv, SendResponse, At, Goto, TypeOK, LoopTypeOK, Handling, HasReq,
     loopVars, acceptVars, chanVars
<1>14. ASSUME NEW l \in Loops, ShutdownWrite(l) PROVE  CurInv'
  BY <1>14 DEF CurInv, ShutdownWrite, At, Goto, TypeOK, LoopTypeOK, Handling, HasReq,
     loopVars, acceptVars, chanVars
<1>15. ASSUME NEW l \in Loops, CloseClient(l) PROVE  CurInv'
  BY <1>15 DEF CurInv, CloseClient, At, Goto, TypeOK, LoopTypeOK, Handling, HasReq,
     loopVars, acceptVars, chanVars
<1>16. ASSUME NEW l \in Loops, EnterWait(l) PROVE  CurInv'
  BY <1>16 DEF CurInv, EnterWait, At, Goto, TypeOK, LoopTypeOK, Handling, HasReq,
     loopVars, acceptVars, chanVars
<1>17. ASSUME NEW l \in Loops, BlockInRead(l) PROVE  CurInv'
  BY <1>17 DEF CurInv, BlockInRead, Blocks, At, Goto, TypeOK, LoopTypeOK, Handling,
     HasReq, loopVars, acceptVars, chanVars
<1>18. ASSUME NEW l \in Loops, BlockedReadRequest(l) PROVE  CurInv'
  BY <1>18 DEF CurInv, BlockedReadRequest, Route, At, Goto, TypeOK, LoopTypeOK,
     Handling, HasReq, loopVars, acceptVars, chanVars
<1>19. ASSUME NEW l \in Loops, BlockedReadEnds(l) PROVE  CurInv'
  BY <1>19 DEF CurInv, BlockedReadEnds, At, Goto, TypeOK, LoopTypeOK, Handling,
     HasReq, loopVars, acceptVars, chanVars
<1>20. ASSUME NEW l \in Loops, QueryNull(l) PROVE  CurInv'
  BY <1>20 DEF CurInv, QueryNull, At, Goto, TypeOK, LoopTypeOK, Handling, HasReq,
     loopVars, acceptVars, chanVars
<1> QED
  BY <1>1, <1>2, <1>3, <1>4, <1>5, <1>6, <1>7, <1>8, <1>9, <1>10, <1>11, <1>12, <1>13,
     <1>14, <1>15, <1>16, <1>17, <1>18, <1>19, <1>20 DEF Next, Client, Acceptor,
     SubReactor, HandleMessage, Read, Connect, SendRequest, Disconnect, Tick,
     AcceptorWake, AcceptFails, SetNonBlock, RunAfter, AddTimer, UpdateChannel,
     FireTimer, CloseFd, vars, kernelVars, acceptVars, chanVars, timerVars, loopVars,
     histVars

\* No deadline is further away than Timeout, and they come in the order of arming.
LEMMA DeadlineStep == IInv /\ [Next]_vars => DeadlineInv'
<1> SUFFICES ASSUME IInv, [Next]_vars PROVE  DeadlineInv'
  OBVIOUS
<1> USE NoneFresh DEF IInv
<1>1. CASE UNCHANGED <<now, cutoff, timers, expire, apc, aconn>>
  BY <1>1 DEF DeadlineInv
<1>2. CASE Tick
  <2>1. now \in Nat /\ Timeout \in Nat /\ now' = now + 1
    BY <1>2, ReactorAssumption DEF Tick, TypeOK, KernelTypeOK, ReactorAssumption
  <2>2. UNCHANGED <<cutoff, timers, expire, apc, aconn>>
    BY <1>2 DEF Tick, acceptVars, timerVars, loopVars
  <2>3. /\ \A c \in Conns : expire[c] \in Nat
        /\ \A m \in Loops : cutoff[m] \in Nat /\ timers[m] \subseteq Conns
    BY DEF TypeOK, AcceptorTypeOK, LoopTypeOK
  <2>4. apc = "addTimer" => aconn \in Conns
    BY DEF TypeOK, AcceptorTypeOK, AcceptInv, Arrived
  <2> QED BY <2>1, <2>2, <2>3, <2>4 DEF DeadlineInv
<1>3. CASE AcceptorWake \/ Accept \/ AcceptFails \/ SetNonBlock \/ UpdateChannel
  <2>1. apc' # "addTimer" /\ UNCHANGED <<now, cutoff, timers, expire>>
    BY <1>3 DEF AcceptorWake, Accept, AcceptFails, SetNonBlock, UpdateChannel,
       timerVars, loopVars
  <2> QED BY <2>1 DEF DeadlineInv
<1>4. CASE RunAfter
  BY <1>4, ReactorAssumption DEF DeadlineInv, RunAfter, ReactorAssumption, TypeOK,
     LoopTypeOK, AcceptorTypeOK, KernelTypeOK, loopVars, AcceptInv, Arrived, Arming
<1>5. CASE AddTimer
  BY <1>5 DEF DeadlineInv, AddTimer, TypeOK, LoopTypeOK, AcceptorTypeOK, KernelTypeOK,
     loopVars, AcceptInv, Arrived, chanVars
<1>6. ASSUME NEW l \in Loops, BeginExpire(l) PROVE  DeadlineInv'
  BY <1>6 DEF DeadlineInv, BeginExpire, At, Goto, TypeOK, LoopTypeOK, AcceptorTypeOK,
     KernelTypeOK, loopVars, acceptVars, timerVars
<1>7. ASSUME NEW l \in Loops, FireTimer(l) PROVE  DeadlineInv'
  BY <1>7 DEF DeadlineInv, FireTimer, At, Goto, TypeOK, LoopTypeOK, AcceptorTypeOK,
     KernelTypeOK, loopVars, acceptVars
<1>8. ASSUME NEW l \in Loops, EndExpire(l) PROVE  DeadlineInv'
  BY <1>8 DEF DeadlineInv, EndExpire, At, Goto, TypeOK, LoopTypeOK, AcceptorTypeOK,
     KernelTypeOK, loopVars, acceptVars, timerVars
<1> QED
  BY <1>1, <1>2, <1>3, <1>4, <1>5, <1>6, <1>7, <1>8 DEF Next, Client, Acceptor,
     SubReactor, HandleMessage, Read, Connect, SendRequest, Disconnect,
     GetNextExpireMs, EnterWait, EpollWait, HandleRead, EndBatch, ReadRequest,
     BlockedReadRequest, Route, ReadNothing, BlockInRead, BlockedReadEnds, GetConn,
     QueryAndRelease, QueryNull, SendResponse, ShutdownWrite, CloseClient, vars,
     kernelVars, acceptVars, chanVars, timerVars, loopVars, histVars

\* A timer that fires leaves no open connection without one.
LEMMA TimerKeptStep == IInv /\ [Next]_vars => OpenConnHasTimer'
<1> SUFFICES ASSUME IInv, [Next]_vars PROVE  OpenConnHasTimer'
  OBVIOUS
<1> USE NoneFresh DEF IInv
<1>1. CASE UNCHANGED <<sock, home, timers, aconn, apc>>
  BY <1>1 DEF OpenConnHasTimer, Armed, Arming
<1>2. ASSUME NEW c \in Conns, Connect(c) PROVE  OpenConnHasTimer'
  BY <1>2 DEF OpenConnHasTimer, Armed, Connect, Arming, TypeOK, KernelTypeOK,
     acceptVars, chanVars, timerVars
<1>3. CASE AcceptorWake
  BY <1>3 DEF OpenConnHasTimer, Armed, AcceptorWake, Arming, AcceptInv, Arrived,
     chanVars, timerVars
<1>4. CASE Accept
  <2>1. Head(backlog) \in Conns /\ sock[Head(backlog)] = "queued"
    BY <1>4, HeadQueued DEF Accept, TypeOK
  <2>2. /\ sock' = [sock EXCEPT ![Head(backlog)] = "open"] /\ aconn' = Head(backlog)
        /\ home' = home /\ timers' = timers /\ apc' = "setNonBlock" /\ aconn = None
    BY <1>4 DEF Accept, timerVars, AcceptInv, Arrived
  <2> QED BY <2>1, <2>2 DEF OpenConnHasTimer, Armed, Arming, TypeOK, KernelTypeOK
<1>5. CASE AcceptFails
  BY <1>5 DEF OpenConnHasTimer, Armed, AcceptFails, Arming, AcceptInv, Arrived,
     chanVars, timerVars, kernelVars
<1>6. CASE RunAfter
  BY <1>6 DEF OpenConnHasTimer, Armed, RunAfter, Arming, TypeOK, AcceptorTypeOK,
     AcceptInv, Arrived, kernelVars
<1>7. CASE AddTimer
  BY <1>7 DEF OpenConnHasTimer, Armed, AddTimer, Arming, TypeOK, AcceptorTypeOK,
     AcceptInv, Arrived, kernelVars, chanVars
<1>8. CASE UpdateChannel
  BY <1>8 DEF OpenConnHasTimer, Armed, UpdateChannel, Arming, chanVars, timerVars
<1>9. ASSUME NEW l \in Loops, FireTimer(l) PROVE  OpenConnHasTimer'
  <2>1. PICK d \in timers[l] :
          /\ d \in Conns /\ chanFd[d] \in Fds /\ home[d] = l /\ CloseFd(chanFd[d])
          /\ timers' = [timers EXCEPT ![l] = @ \ {d}]
    BY <1>9, Firing
  <2>2. chanFd' = chanFd /\ home' = home /\ aconn' = aconn /\ apc' = apc
    BY <1>9 DEF FireTimer, acceptVars, chanVars
  <2>3. \A c \in Conns : sock'[c] = "open" => sock[c] = "open" /\ c # d
    BY <2>1, Closing DEF TypeOK, FdInv
  <2> QED BY <2>1, <2>2, <2>3 DEF OpenConnHasTimer, Armed, Arming, TypeOK,
             AcceptorTypeOK
<1>10. ASSUME NEW l \in Loops, CloseClient(l) PROVE  OpenConnHasTimer'
  <2>1. cur[l] \in Conns /\ chanFd[cur[l]] \in Fds
    BY <1>10, HandlerTyped DEF CloseClient, At, Handling
  <2>2. CloseFd(chanFd[cur[l]]) /\ UNCHANGED <<aconn, apc, home, timers>>
    BY <1>10 DEF CloseClient, CloseFd, At, acceptVars, chanVars, timerVars, loopVars,
       TypeOK
  <2> QED BY <2>1, <2>2, Closing DEF TypeOK, KernelTypeOK, AcceptorTypeOK,
             OpenConnHasTimer, Armed, Arming
<1>11. CASE SetNonBlock
  BY <1>11 DEF OpenConnHasTimer, Armed, SetNonBlock, Arming, kernelVars, chanVars,
     timerVars
<1> QED
  BY <1>1, <1>2, <1>3, <1>4, <1>5, <1>6, <1>7, <1>8, <1>9, <1>10, <1>11 DEF Next,
     Client, Acceptor, SubReactor, HandleMessage, Read, SendRequest, Disconnect, Tick,
     BeginExpire, EndExpire, GetNextExpireMs, EnterWait, EpollWait, HandleRead,
     EndBatch, ReadRequest, BlockedReadRequest, Route, ReadNothing, BlockInRead,
     BlockedReadEnds, GetConn, QueryAndRelease, QueryNull, SendResponse,
     ShutdownWrite, vars, kernelVars, acceptVars, chanVars, timerVars, loopVars,
     histVars

\* A step of a loop that leaves the clock and the timers alone is a matter of its own
\* wait only.
LEMMA OwnWait ==
  ASSUME WaitInv, NEW l \in Loops, UNCHANGED <<now, timers, expire, apc, aconn>>,
         \A m \in Loops \ {l} : /\ lpc'[m] = lpc[m] /\ waitMs'[m] = waitMs[m]
                                /\ asked'[m] = asked[m] /\ until'[m] = until[m]
                                /\ late'[m] = late[m],
         asked'[l] <= now,
         \A c \in timers[l] : Covers(l, expire[c])',
         apc = "addTimer" => Covers(l, expire[aconn])',
         Covers(l, now + Timeout)'
  PROVE  WaitInv'
<1> SUFFICES ASSUME NEW m \in Loops
             PROVE  /\ asked'[m] <= now'
                    /\ \A c \in timers'[m] : Covers(m, expire[c])'
                    /\ apc' = "addTimer" => Covers(m, expire[aconn])'
                    /\ Covers(m, now + Timeout)'
  BY DEF WaitInv
<1>1. CASE m = l
  BY <1>1
<1>2. CASE m # l
  BY <1>2 DEF WaitInv, Covers
<1> QED BY <1>1, <1>2

\* A wait never outlasts a timer, those armed meanwhile included, but for the time the
\* loop was held up before it.
LEMMA WaitStep == IInv /\ [Next]_vars => WaitInv'
<1> SUFFICES ASSUME IInv, [Next]_vars PROVE  WaitInv'
  OBVIOUS
<1> USE NoneFresh DEF IInv
<1>a. /\ now \in Nat /\ Timeout \in Nat /\ (apc = "addTimer" => aconn \in Conns)
      /\ \A c \in Conns : expire[c] \in Nat
      /\ \A m \in Loops : /\ timers[m] \subseteq Conns /\ lpc[m] \in LoopPc
                          /\ waitMs[m] \in Int /\ until[m] \in Int
                          /\ asked[m] \in Nat /\ late[m] \in Nat
  BY ReactorAssumption DEF TypeOK, KernelTypeOK, AcceptorTypeOK, LoopTypeOK, Forever,
     ReactorAssumption, AcceptInv, Arrived
<1>b. \A m \in Loops : Covers(m, now + Timeout)
  BY DEF WaitInv
<1>1. CASE UNCHANGED <<now, lpc, waitVars, timers, expire, apc, aconn>>
  BY <1>1 DEF WaitInv, Covers, waitVars
<1>2. CASE Tick
  <2>1. UNCHANGED <<lpc, waitVars, timers, expire, apc, aconn>> /\ now' = now + 1
    BY <1>2 DEF Tick, acceptVars, timerVars, loopVars
  <2> QED BY <1>a, <2>1 DEF WaitInv, Covers, waitVars
<1>3. CASE AcceptorWake \/ Accept \/ AcceptFails \/ SetNonBlock \/ UpdateChannel
  <2>1. apc' # "addTimer" /\ UNCHANGED <<now, lpc, waitVars, timers, expire>>
    BY <1>3 DEF AcceptorWake, Accept, AcceptFails, SetNonBlock, UpdateChannel,
       timerVars, loopVars
  <2> QED BY <2>1 DEF WaitInv, Covers, waitVars
<1>4. CASE RunAfter
  <2>1. /\ aconn \in Conns /\ \A m \in Loops : aconn \notin timers[m]
        /\ expire' = [expire EXCEPT ![aconn] = now + Timeout]
        /\ UNCHANGED <<now, lpc, waitVars, timers, aconn>>
    BY <1>4 DEF RunAfter, TypeOK, AcceptorTypeOK, AcceptInv, Arrived, Arming, loopVars
  <2>2. /\ \A m \in Loops : \A c \in timers[m] : expire'[c] = expire[c]
        /\ expire'[aconn] = now + Timeout
    BY <1>a, <2>1 DEF TypeOK, AcceptorTypeOK
  <2> QED BY <2>1, <2>2 DEF WaitInv, Covers, waitVars
<1>5. CASE AddTimer
  <2>1. /\ aconn \in Conns /\ home[aconn] \in Loops /\ apc = "addTimer"
        /\ timers' = [timers EXCEPT ![home[aconn]] = @ \cup {aconn}] /\ apc' = "register"
        /\ UNCHANGED <<now, lpc, waitVars, expire, aconn>>
    BY <1>5 DEF AddTimer, TypeOK, AcceptorTypeOK, AcceptInv, Arrived, loopVars
  <2>2. \A m \in Loops : timers'[m] \subseteq timers[m] \cup {aconn}
    BY <2>1 DEF TypeOK, AcceptorTypeOK
  <2> QED BY <2>1, <2>2 DEF WaitInv, Covers, waitVars
<1>6. ASSUME NEW l \in Loops, FireTimer(l) PROVE  WaitInv'
  <2>1. /\ UNCHANGED <<now, lpc, waitVars, expire, apc, aconn>>
        /\ \A m \in Loops : timers'[m] \subseteq timers[m]
    BY <1>6 DEF FireTimer, acceptVars, loopVars, TypeOK, AcceptorTypeOK
  <2> QED BY <2>1 DEF WaitInv, Covers, waitVars
<1>7. ASSUME NEW l \in Loops, GetNextExpireMs(l) PROVE  WaitInv'
  <2>1. /\ UNCHANGED <<now, until, late, timers, expire, apc, aconn>> /\ lpc'[l] = "enter"
        /\ \A m \in Loops \ {l} : /\ lpc'[m] = lpc[m] /\ waitMs'[m] = waitMs[m]
                                 /\ asked'[m] = asked[m]
    BY <1>7 DEF GetNextExpireMs, Goto, timerVars, acceptVars, TypeOK, LoopTypeOK
  <2>2. CASE timers[l] = {} /\ waitMs'[l] = Forever
    <3>2. \A t \in Nat : Covers(l, t)'
      BY <2>1, <2>2 DEF Covers, Forever
    <3>3. asked' = asked
      BY <1>7, <2>2, <1>a DEF GetNextExpireMs, TimeLeft, Forever, TypeOK, LoopTypeOK,
         Earliest
    <3> QED BY <1>a, <2>1, <2>2, <3>2, <3>3, OwnWait DEF WaitInv
  <2>3. CASE \E c \in Conns : Earliest(l, c) /\ waitMs' = [waitMs EXCEPT ![l] = TimeLeft(c)]
                            /\ asked' = [asked EXCEPT ![l] = now]
    <3>1. PICK c \in timers[l] : /\ \A d \in timers[l] : expire[c] <= expire[d]
                                /\ waitMs'[l] = TimeLeft(c) /\ asked'[l] = now
      BY <2>3 DEF Earliest, TypeOK, LoopTypeOK
    <3>2. expire[c] \in Nat /\ expire[c] <= now + Timeout
      BY <1>a, <3>1 DEF DeadlineInv
    <3>3. apc = "addTimer" => expire[c] <= expire[aconn] /\ expire[aconn] \in Nat
      BY <1>a, <3>1 DEF DeadlineInv
    <3>4. \A t \in Nat : expire[c] <= t => Covers(l, t)'
      BY <1>a, <2>1, <3>1, <3>2 DEF Covers, TimeLeft
    <3>5. \A d \in timers[l] : Covers(l, expire[d])'
      BY <1>a, <2>1, <3>1, <3>4
    <3>6. apc = "addTimer" => Covers(l, expire[aconn])'
      BY <2>1, <3>3, <3>4
    <3>7. Covers(l, now + Timeout)'
      BY <1>a, <2>1, <3>2, <3>4
    <3> QED BY <1>a, <2>1, <3>1, <3>5, <3>6, <3>7, OwnWait
  <2> QED BY <1>7, <2>2, <2>3 DEF GetNextExpireMs, TypeOK, LoopTypeOK
<1>8. ASSUME NEW l \in Loops, EnterWait(l) PROVE  WaitInv'
  <2>1. /\ UNCHANGED <<now, timers, expire, apc, aconn>>
        /\ lpc[l] = "enter" /\ lpc'[l] = "wait"
        /\ \A m \in Loops \ {l} : /\ lpc'[m] = lpc[m] /\ waitMs'[m] = waitMs[m]
                                 /\ asked'[m] = asked[m] /\ until'[m] = until[m]
                                 /\ late'[m] = late[m]
    BY <1>8 DEF EnterWait, At, Goto, timerVars, acceptVars, TypeOK, LoopTypeOK
  <2>2. \/ until'[l] = Forever
        \/ until'[l] = now + waitMs[l] /\ late'[l] = now - asked[l]
    BY <1>8 DEF EnterWait, TypeOK, LoopTypeOK
  <2>3. \A t \in Int : Covers(l, t) => Covers(l, t)'
    BY <1>a, <2>1, <2>2 DEF Covers, Forever
  <2>4. now + Timeout \in Int
    BY <1>a
  <2>5. asked'[l] <= now
    BY <1>8, <1>a DEF EnterWait, TypeOK, LoopTypeOK
  <2> QED BY <1>a, <2>1, <2>3, <2>4, <2>5, OwnWait DEF WaitInv
<1>9. ASSUME NEW l \in Loops, EpollWait(l) PROVE  WaitInv'
  <2>1. /\ UNCHANGED <<now, timers, expire, apc, aconn, waitMs, asked>>
        /\ lpc'[l] = "dispatch"
        /\ \A m \in Loops \ {l} : /\ lpc'[m] = lpc[m] /\ until'[m] = until[m]
                                 /\ late'[m] = late[m]
    BY <1>9 DEF EpollWait, At, Goto, timerVars, acceptVars, TypeOK, LoopTypeOK
  <2>2. asked'[l] <= now
    BY <2>1 DEF WaitInv
  <2> QED BY <2>1, <2>2, OwnWait DEF Covers
<1>10. ASSUME NEW l \in Loops, UNCHANGED <<now, waitVars, timers, expire, apc, aconn>>,
              lpc[l] \notin {"enter", "wait"} \/ lpc' = lpc,
              \E pc \in LoopPc \ {"enter", "wait"} :
                lpc' = [lpc EXCEPT ![l] = pc] \/ lpc' = lpc
       PROVE  WaitInv'
  <2>1. CASE lpc' = lpc
    BY <1>1, <1>10, <2>1 DEF waitVars
  <2>2. CASE lpc' # lpc
    <3>1. /\ lpc'[l] \notin {"enter", "wait"}
          /\ \A m \in Loops \ {l} : lpc'[m] = lpc[m]
      BY <1>10, <2>2 DEF TypeOK, LoopTypeOK
    <3>2. asked'[l] <= now
      BY <1>10 DEF WaitInv, waitVars
    <3> QED BY <1>10, <3>1, <3>2, OwnWait DEF waitVars, Covers
  <2> QED BY <2>1, <2>2
<1>11. ASSUME NEW l \in Loops, BeginExpire(l) \/ EndExpire(l) \/ HandleRead(l) \/ EndBatch(l)
       PROVE  WaitInv'
  BY <1>10, <1>11 DEF BeginExpire, EndExpire, HandleRead, EndBatch, At, Goto, LoopPc,
     timerVars, acceptVars, loopVars
<1>12. ASSUME NEW l \in Loops, Read(l) PROVE  WaitInv'
  BY <1>10, <1>12 DEF Read, ReadRequest, BlockedReadRequest, Route, ReadNothing,
     BlockInRead, BlockedReadEnds, At, Goto, LoopPc, timerVars, acceptVars, loopVars
<1>13. ASSUME NEW l \in Loops, GetConn(l) \/ QueryAndRelease(l) \/ QueryNull(l)
       PROVE  WaitInv'
  BY <1>10, <1>13 DEF GetConn, QueryAndRelease, QueryNull, At, Goto, LoopPc,
     timerVars, acceptVars, loopVars
<1>14. ASSUME NEW l \in Loops, SendResponse(l) \/ ShutdownWrite(l) \/ CloseClient(l)
       PROVE  WaitInv'
  BY <1>10, <1>14 DEF SendResponse, ShutdownWrite, CloseClient, At, Goto, LoopPc,
     timerVars, acceptVars, loopVars
<1>15. CASE Client
  BY <1>1, <1>15 DEF Client, Connect, SendRequest, Disconnect, acceptVars, timerVars,
     loopVars
<1>16. CASE UNCHANGED vars
  BY <1>1, <1>16 DEF vars, acceptVars, timerVars, loopVars
<1> QED BY <1>2, <1>3, <1>4, <1>5, <1>6, <1>7, <1>8, <1>9, <1>11, <1>12, <1>13, <1>14,
           <1>15, <1>16 DEF Next, Acceptor, SubReactor, HandleMessage

\* Without a stale timer, SendResponse answers the connection it read from.
LEMMA AnswerStep == IInv /\ [Next]_vars => MisdeliveryNeedsStaleTimer'
<1> SUFFICES ASSUME IInv, [Next]_vars PROVE  MisdeliveryNeedsStaleTimer'
  OBVIOUS
<1> USE NoneFresh DEF IInv
<1>1. CASE UNCHANGED <<stale, got>>
  BY <1>1 DEF MisdeliveryNeedsStaleTimer, AnswersOwn
<1>2. ASSUME NEW l \in Loops, FireTimer(l) PROVE  MisdeliveryNeedsStaleTimer'
  <2>1. got' = got /\ (~stale' => ~stale)
    BY <1>2, Firing DEF FireTimer
  <2> QED BY <2>1 DEF MisdeliveryNeedsStaleTimer, AnswersOwn
<1>3. ASSUME NEW l \in Loops, SendResponse(l) PROVE  MisdeliveryNeedsStaleTimer'
  <2>1. cur[l] \in Conns /\ chanFd[cur[l]] \in Fds /\ cur[l] # None
    BY <1>3, HandlerTyped DEF SendResponse, At, Handling
  <2>2. stale' = stale
    BY <1>3 DEF SendResponse
  <2>3. ~stale => req[l] = cur[l] /\ Target(l) = cur[l]
    BY <1>3, <2>1 DEF SendResponse, At, OwnInv, HasReq, Target, WatchInv,
       OpenConnRegistered, FdInv
  <2>4. ~stale => \A c \in Conns : got'[c] \subseteq got[c] \cup {c}
    BY <1>3, <2>3 DEF SendResponse
  <2> QED BY <2>2, <2>4 DEF MisdeliveryNeedsStaleTimer, AnswersOwn
<1> QED
  BY <1>1, <1>2, <1>3 DEF Next, Client, Acceptor, SubReactor, HandleMessage, Read,
     Connect, SendRequest, Disconnect, Tick, AcceptorWake, Accept, AcceptFails,
     SetNonBlock, RunAfter, AddTimer, UpdateChannel, BeginExpire, EndExpire,
     GetNextExpireMs, EnterWait, EpollWait, HandleRead, EndBatch, ReadRequest,
     BlockedReadRequest, Route, ReadNothing, BlockInRead, BlockedReadEnds, GetConn,
     QueryAndRelease, QueryNull, ShutdownWrite, CloseClient, CloseFd, vars,
     kernelVars, acceptVars, chanVars, timerVars, loopVars, histVars

-----------------------------------------------------------------------------
(* Handlers and their connections *)

\* Without a stale timer, a handler works on an open connection of its own loop.
LEMMA OwnStep == IInv /\ [Next]_vars => OwnInv'
<1> SUFFICES ASSUME IInv, [Next]_vars PROVE  OwnInv'
  OBVIOUS
<1> USE NoneFresh DEF IInv
<1>1. CASE UNCHANGED <<stale, active, interest, cur, data, fin, lpc, req>>
  BY <1>1 DEF OwnInv, Pending
<1>2. ASSUME NEW c \in Conns, NEW k \in Kinds, SendRequest(c, k) PROVE  OwnInv'
  BY <1>2 DEF OwnInv, SendRequest, Pending, TypeOK, LoopTypeOK, KernelTypeOK,
     WatchInv, OpenConnRegistered, CurInv, Handling, HasReq, loopVars, histVars
<1>3. ASSUME NEW c \in Conns, Disconnect(c) PROVE  OwnInv'
  BY <1>3 DEF OwnInv, Disconnect, Pending, TypeOK, LoopTypeOK, KernelTypeOK, WatchInv,
     OpenConnRegistered, CurInv, Handling, HasReq, loopVars, histVars
<1>4. CASE UpdateChannel
  <2>1. \A l \in Loops : interest[l] \subseteq interest'[l]
    BY <1>4 DEF UpdateChannel, EpollAdd, KqueueAdd, TypeOK, KernelTypeOK
  <2>2. UNCHANGED <<stale, active, cur, data, fin, lpc, req>>
    BY <1>4 DEF UpdateChannel, loopVars, histVars
  <2> QED BY <2>1, <2>2 DEF OwnInv, Pending
<1>5. ASSUME NEW l \in Loops, BeginExpire(l) PROVE  OwnInv'
  BY <1>5 DEF OwnInv, BeginExpire, At, Goto, Pending, TypeOK, LoopTypeOK,
     KernelTypeOK, WatchInv, OpenConnRegistered, CurInv, Handling, HasReq, loopVars,
     histVars, kernelVars
<1>6. ASSUME NEW l \in Loops, FireTimer(l) PROVE  OwnInv'
  <2> SUFFICES ASSUME ~stale' PROVE OwnInv'
    BY DEF OwnInv
  <2>1. PICK d \in timers[l] :
          /\ d \in Conns /\ chanFd[d] \in Fds /\ home[d] = l /\ CloseFd(chanFd[d])
          /\ ~stale' => ~stale /\ fdt[chanFd[d]] \in {d, None}
    BY <1>6, Firing
  <2>2. UNCHANGED <<active, cur, data, lpc, req>> /\ lpc[l] = "expire"
    BY <1>6 DEF FireTimer, At, loopVars
  <2>3. active[l] = {} /\ cur[l] = None
    BY <2>2 DEF CurInv, Handling, HasReq
  <2>4. \A m \in Loops : \A c \in interest[m] :
          m # l => c \in interest'[m] /\ (c \in fin <=> c \in fin')
    BY <2>1, Closing DEF TypeOK, KernelTypeOK, WatchInv, OpenConnRegistered
  <2>5. ASSUME NEW m \in Loops, m # l
        PROVE  /\ active'[m] \subseteq interest'[m] \ {cur'[m]}
               /\ \A c \in active'[m] : Pending(c)'
               /\ cur'[m] # None => cur'[m] \in interest'[m]
               /\ lpc'[m] # "blocked" /\ (lpc'[m] = "read" => Pending(cur[m])')
               /\ lpc'[m] \in HasReq => req'[m] = cur'[m]
               /\ lpc'[m] \in Handling \ {"read"} => data'[cur'[m]] = "read" \/ cur'[m] \in fin'
    BY <2>1, <2>2, <2>4, <2>5 DEF OwnInv, Pending, CurInv, Handling, HasReq
  <2> QED BY <2>2, <2>3, <2>5 DEF OwnInv, Pending, Handling, HasReq
<1>7. ASSUME NEW l \in Loops, EndExpire(l) PROVE  OwnInv'
  BY <1>7 DEF OwnInv, EndExpire, At, Goto, Pending, TypeOK, LoopTypeOK, KernelTypeOK,
     WatchInv, OpenConnRegistered, CurInv, Handling, HasReq, loopVars, histVars,
     kernelVars
<1>8. ASSUME NEW l \in Loops, GetNextExpireMs(l) PROVE  OwnInv'
  BY <1>8 DEF OwnInv, GetNextExpireMs, At, Goto, Pending, TypeOK, LoopTypeOK,
     KernelTypeOK, WatchInv, OpenConnRegistered, CurInv, Handling, HasReq, loopVars,
     histVars, kernelVars
<1>9. ASSUME NEW l \in Loops, EpollWait(l) PROVE  OwnInv'
  BY <1>9 DEF OwnInv, EpollWait, At, Goto, Pending, TypeOK, LoopTypeOK, KernelTypeOK,
     WatchInv, OpenConnRegistered, CurInv, Handling, HasReq, loopVars, histVars,
     Ready, EdgeReady, LevelReady
<1>10. ASSUME NEW l \in Loops, HandleRead(l) PROVE  OwnInv'
  BY <1>10 DEF OwnInv, HandleRead, At, Goto, Pending, TypeOK, LoopTypeOK,
     KernelTypeOK, WatchInv, OpenConnRegistered, CurInv, Handling, HasReq, loopVars,
     histVars, kernelVars
<1>11. ASSUME NEW l \in Loops, EndBatch(l) PROVE  OwnInv'
  BY <1>11 DEF OwnInv, EndBatch, At, Goto, Pending, TypeOK, LoopTypeOK, KernelTypeOK,
     WatchInv, OpenConnRegistered, CurInv, Handling, HasReq, loopVars, histVars,
     kernelVars
<1>12. ASSUME NEW l \in Loops, ReadRequest(l) PROVE  OwnInv'
  <2> SUFFICES ASSUME ~stale PROVE OwnInv'
    BY <1>12 DEF OwnInv, ReadRequest, Route, histVars
  <2>1. cur[l] \in Conns /\ chanFd[cur[l]] \in Fds /\ cur[l] # None
    BY <1>12, HandlerTyped DEF ReadRequest, At, Handling
  <2>2. Target(l) = cur[l]
    BY <1>12, <2>1 DEF ReadRequest, At, OwnInv, Target, WatchInv, OpenConnRegistered,
       FdInv
  <2>3. /\ data' = [data EXCEPT ![cur[l]] = "read"] /\ req' = [req EXCEPT ![l] = cur[l]]
        /\ \E pc \in {"getConn", "send"} : lpc' = [lpc EXCEPT ![l] = pc]
        /\ UNCHANGED <<stale, active, interest, cur, fin>> /\ lpc[l] = "read"
    BY <1>12, <2>2 DEF ReadRequest, Route, At, Goto, kernelVars, histVars
  <2>4. \A m \in Loops \ {l} : cur[l] \notin interest[m]
    BY <2>1 DEF OwnInv, WatchInv, OpenConnRegistered
  <2>5. ASSUME NEW m \in Loops, m # l
        PROVE  \A c \in active[m] \cup {cur[m]} : c # None => data'[c] = data[c]
    BY <2>3, <2>4, <2>5 DEF OwnInv, TypeOK, KernelTypeOK, LoopTypeOK
  <2>6. \A c \in active[l] : data'[c] = data[c]
    BY <2>3 DEF OwnInv, TypeOK, KernelTypeOK, LoopTypeOK
  <2> QED BY <2>1, <2>3, <2>5, <2>6 DEF OwnInv, Pending, Handling, HasReq, TypeOK,
             KernelTypeOK, LoopTypeOK, CurInv
<1>13. ASSUME NEW l \in Loops, ReadNothing(l) PROVE  OwnInv'
  <2> SUFFICES ASSUME ~stale PROVE OwnInv'
    BY <1>13 DEF OwnInv, ReadNothing, histVars
  <2>1. cur[l] \in Conns /\ chanFd[cur[l]] \in Fds /\ cur[l] # None
    BY <1>13, HandlerTyped DEF ReadNothing, At, Handling, HasReq
  <2>2. Target(l) = cur[l]
    BY <1>13, <2>1 DEF ReadNothing, At, OwnInv, Target, WatchInv, OpenConnRegistered,
       FdInv
  <2>3. cur[l] \in fin
    BY <1>13, <2>1, <2>2 DEF ReadNothing, At, OwnInv, Pending
  <2> QED BY <1>13, <2>3 DEF ReadNothing, At, Goto, OwnInv, Pending, Handling, HasReq,
             TypeOK, LoopTypeOK, kernelVars, loopVars, histVars
<1>14. ASSUME NEW l \in Loops, GetConn(l) PROVE  OwnInv'
  BY <1>14 DEF OwnInv, GetConn, At, Goto, Pending, TypeOK, LoopTypeOK, KernelTypeOK,
     WatchInv, OpenConnRegistered, CurInv, Handling, HasReq, loopVars, histVars,
     kernelVars
<1>15. ASSUME NEW l \in Loops, QueryAndRelease(l) PROVE  OwnInv'
  BY <1>15 DEF OwnInv, QueryAndRelease, At, Goto, Pending, TypeOK, LoopTypeOK,
     KernelTypeOK, WatchInv, OpenConnRegistered, CurInv, Handling, HasReq, loopVars,
     histVars, kernelVars
<1>16. ASSUME NEW l \in Loops, SendResponse(l) PROVE  OwnInv'
  BY <1>16 DEF OwnInv, SendResponse, At, Goto, Pending, TypeOK, LoopTypeOK,
     KernelTypeOK, WatchInv, OpenConnRegistered, CurInv, Handling, HasReq, loopVars,
     histVars, kernelVars
<1>17. ASSUME NEW l \in Loops, ShutdownWrite(l) PROVE  OwnInv'
  BY <1>17 DEF OwnInv, ShutdownWrite, At, Goto, Pending, TypeOK, LoopTypeOK,
     KernelTypeOK, WatchInv, OpenConnRegistered, CurInv, Handling, HasReq, loopVars,
     histVars, kernelVars
<1>18. ASSUME NEW l \in Loops, CloseClient(l) PROVE  OwnInv'
  <2> SUFFICES ASSUME ~stale PROVE OwnInv'
    BY <1>18 DEF OwnInv, CloseClient, histVars
  <2>1. cur[l] \in Conns /\ chanFd[cur[l]] \in Fds /\ cur[l] # None
    BY <1>18, HandlerTyped DEF CloseClient, At, Handling, HasReq
  <2>2. cur[l] \in interest[l] /\ home[cur[l]] = l /\ fdt[chanFd[cur[l]]] = cur[l]
    BY <2>1 DEF OwnInv, WatchInv, OpenConnRegistered, FdInv
  <2>3. /\ \A m \in Loops : interest'[m] = interest[m] \ {cur[l]}
        /\ \A c \in Conns : c # cur[l] => (c \in fin' <=> c \in fin)
    BY <1>18, <2>1, <2>2, Closing DEF CloseClient, TypeOK
  <2>4. \A m \in Loops \ {l} : cur[l] \notin interest[m]
    BY <2>2 DEF WatchInv, OpenConnRegistered
  <2>5. /\ lpc' = [lpc EXCEPT ![l] = "dispatch"] /\ cur' = [cur EXCEPT ![l] = None]
        /\ req' = [req EXCEPT ![l] = None] /\ UNCHANGED <<stale, active, data>>
    BY <1>18 DEF CloseClient, Goto, histVars
  <2> QED BY <2>1, <2>3, <2>4, <2>5 DEF OwnInv, Pending, Handling, HasReq, TypeOK,
             KernelTypeOK, LoopTypeOK
<1>19. ASSUME NEW l \in Loops, EnterWait(l) PROVE  OwnInv'
  BY <1>19 DEF OwnInv, EnterWait, At, Goto, Pending, TypeOK, LoopTypeOK, KernelTypeOK,
     WatchInv, OpenConnRegistered, CurInv, Handling, HasReq, loopVars, histVars,
     kernelVars
<1>20. ASSUME NEW l \in Loops, BlockInRead(l) PROVE  OwnInv'
  <2> SUFFICES ASSUME ~stale PROVE FALSE
    BY <1>20 DEF OwnInv, BlockInRead, histVars
  <2>1. cur[l] \in Conns /\ chanFd[cur[l]] \in Fds /\ cur[l] # None
    BY <1>20, HandlerTyped DEF BlockInRead, At, Handling
  <2>2. Target(l) = cur[l]
    BY <1>20, <2>1 DEF BlockInRead, At, OwnInv, Target, WatchInv, OpenConnRegistered,
       FdInv
  <2> QED BY <1>20, <2>1, <2>2 DEF BlockInRead, Blocks, At, OwnInv
<1>21. ASSUME NEW l \in Loops, BlockedReadRequest(l) \/ BlockedReadEnds(l) PROVE  OwnInv'
  <2>1. stale
    BY <1>21 DEF BlockedReadRequest, BlockedReadEnds, At, OwnInv
  <2>2. stale' = stale
    BY <1>21 DEF BlockedReadRequest, BlockedReadEnds, Route, histVars
  <2> QED BY <2>1, <2>2 DEF OwnInv
<1>22. ASSUME NEW l \in Loops, QueryNull(l) PROVE  OwnInv'
  BY <1>22 DEF OwnInv, QueryNull, At, Goto, Pending, TypeOK, LoopTypeOK, KernelTypeOK,
     WatchInv, OpenConnRegistered, CurInv, Handling, HasReq, loopVars, histVars,
     kernelVars
<1> QED
  BY <1>1, <1>2, <1>3, <1>4, <1>5, <1>6, <1>7, <1>8, <1>9, <1>10, <1>11, <1>12, <1>13,
     <1>14, <1>15, <1>16, <1>17, <1>18, <1>19, <1>20, <1>21, <1>22 DEF Next, Client,
     Acceptor, SubReactor, HandleMessage, Read, Connect, Tick, AcceptorWake, Accept,
     AcceptFails, SetNonBlock, RunAfter, AddTimer, vars, kernelVars, acceptVars,
     chanVars, timerVars, loopVars, histVars

\* A descriptor that is being registered is closed by its own overdue timer only.
LEMMA ArrivingStep == IInv /\ [Next]_vars => ArrivingInv'
<1> SUFFICES ASSUME IInv, [Next]_vars, ~stale', aconn' # None, fdt'[acfd'] = None
             PROVE  apc' = "register" /\ expire'[aconn'] <= now'
  BY DEF ArrivingInv
<1> USE NoneFresh DEF IInv
<1>1. CASE UNCHANGED <<stale, aconn, acfd, apc, fdt, expire, now>>
  BY <1>1 DEF ArrivingInv
<1>2. CASE Tick
  <2>1. UNCHANGED <<stale, aconn, acfd, apc, fdt, expire>> /\ now' = now + 1
    BY <1>2 DEF Tick, histVars, acceptVars, kernelVars, timerVars
  <2>2. apc = "register" /\ expire[aconn] <= now
    BY <2>1 DEF ArrivingInv
  <2>3. expire[aconn] \in Nat /\ now \in Nat
    BY <2>1 DEF TypeOK, KernelTypeOK, AcceptorTypeOK
  <2> QED BY <2>1, <2>2, <2>3
<1>3. CASE Accept
  <2>1. PICK f \in FreeFds : fdt' = [fdt EXCEPT ![f] = Head(backlog)] /\ acfd' = f
    BY <1>3 DEF Accept
  <2>2. Head(backlog) \in Conns
    BY <1>3, HeadQueued DEF Accept, TypeOK
  <2> QED BY <2>1, <2>2 DEF FreeFds, TypeOK, KernelTypeOK
<1>4. CASE RunAfter
  <2>1. UNCHANGED <<stale, aconn, acfd, fdt>> /\ apc = "runAfter"
    BY <1>4 DEF RunAfter, histVars, kernelVars
  <2> QED BY <2>1 DEF ArrivingInv
<1>5. CASE AddTimer
  <2>1. UNCHANGED <<stale, aconn, acfd, fdt>> /\ apc = "addTimer"
    BY <1>5 DEF AddTimer, histVars, kernelVars
  <2> QED BY <2>1 DEF ArrivingInv
<1>6. CASE UpdateChannel
  BY <1>6 DEF UpdateChannel
<1>7. ASSUME NEW l \in Loops, FireTimer(l)
      PROVE  apc' = "register" /\ expire'[aconn'] <= now'
  <2>1. PICK d \in timers[l] :
          /\ d \in Conns /\ chanFd[d] \in Fds /\ CloseFd(chanFd[d])
          /\ expire[d] <= cutoff[l] /\ ~stale /\ fdt[chanFd[d]] \in {d, None}
    BY <1>7, Firing
  <2>2. UNCHANGED <<aconn, acfd, apc, expire, now>>
    BY <1>7 DEF FireTimer, acceptVars
  <2>3. CASE fdt[acfd] = None
    BY <2>1, <2>2, <2>3 DEF ArrivingInv
  <2>4. CASE fdt[acfd] # None
    <3>1. acfd \in Fds /\ fdt[acfd] = aconn /\ aconn \in Conns
      BY <2>2, <2>4 DEF AcceptInv, TypeOK, AcceptorTypeOK
    <3>2. acfd = chanFd[d] /\ aconn = d
      BY <2>1, <2>2, <2>4, <3>1 DEF CloseFd, TypeOK, KernelTypeOK
    <3>3. apc = "register"
      BY <2>1, <2>2, <3>2 DEF AcceptInv, Arrived, Arming
    <3>4. expire[d] \in Nat /\ cutoff[l] \in Nat /\ now \in Nat /\ cutoff[l] <= now
      BY <2>1 DEF TypeOK, KernelTypeOK, AcceptorTypeOK, LoopTypeOK, DeadlineInv
    <3>5. expire[d] <= now
      BY <2>1, <3>4
    <3> QED BY <2>2, <3>2, <3>3, <3>5
  <2> QED BY <2>3, <2>4
<1>8. ASSUME NEW l \in Loops, CloseClient(l)
      PROVE  apc' = "register" /\ expire'[aconn'] <= now'
  <2>1. /\ cur[l] \in Conns /\ chanFd[cur[l]] \in Fds /\ cur[l] # None
        /\ CloseFd(chanFd[cur[l]]) /\ ~stale
    BY <1>8, HandlerTyped DEF CloseClient, At, Handling, histVars
  <2>2. UNCHANGED <<aconn, acfd, apc, expire, now>>
    BY <1>8 DEF CloseClient, acceptVars, timerVars
  <2>3. cur[l] \in interest[l] /\ fdt[chanFd[cur[l]]] = cur[l]
    BY <2>1 DEF OwnInv, WatchInv, OpenConnRegistered, FdInv
  <2>4. aconn # cur[l] /\ fdt[acfd] \in {aconn, None} /\ acfd \in Fds
    BY <2>2, <2>3 DEF AcceptInv
  <2>5. acfd # chanFd[cur[l]]
    BY <2>1, <2>3, <2>4
  <2>6. fdt'[acfd] = fdt[acfd]
    BY <2>1, <2>4, <2>5 DEF CloseFd, TypeOK, KernelTypeOK
  <2> QED BY <2>1, <2>2, <2>6 DEF ArrivingInv
<1>9. CASE SetNonBlock
  <2>1. UNCHANGED <<stale, aconn, acfd, fdt>> /\ apc = "setNonBlock"
    BY <1>9 DEF SetNonBlock, histVars, kernelVars
  <2> QED BY <2>1 DEF ArrivingInv
<1>14. CASE Client
  BY <1>1, <1>14 DEF Client, Connect, SendRequest, Disconnect, kernelVars, acceptVars,
     timerVars, histVars
<1>10. CASE Acceptor
  BY <1>3, <1>4, <1>5, <1>6, <1>9, <1>10 DEF Acceptor, AcceptorWake, AcceptFails,
     AcceptInv, Arrived
<1>11. ASSUME NEW l \in Loops, HandleMessage(l)
       PROVE  apc' = "register" /\ expire'[aconn'] <= now'
  BY <1>1, <1>8, <1>11 DEF HandleMessage, Read, ReadRequest, BlockedReadRequest,
     Route, ReadNothing, BlockInRead, BlockedReadEnds, GetConn, QueryAndRelease,
     QueryNull, SendResponse, ShutdownWrite, kernelVars, acceptVars, timerVars,
     histVars
<1>12. ASSUME NEW l \in Loops, SubReactor(l)
       PROVE  apc' = "register" /\ expire'[aconn'] <= now'
  BY <1>1, <1>7, <1>11, <1>12 DEF SubReactor, BeginExpire, EndExpire, GetNextExpireMs,
     EnterWait, EpollWait, HandleRead, EndBatch, kernelVars, acceptVars, timerVars,
     histVars
<1>13. CASE UNCHANGED vars
  BY <1>1, <1>13 DEF vars, kernelVars, acceptVars, timerVars, histVars
<1> QED BY <1>2, <1>10, <1>12, <1>13, <1>14 DEF Next

\* Closing a descriptor leaves no registered socket without its edge.
LEMMA EdgeClosing ==
  ASSUME TypeOK, NoLostEdge, NEW f, CloseFd(f), NEW l \in Loops, NEW c \in interest'[l],
         Pending(c)'
  PROVE  c \in interest[l] /\ (c \in edge' \cup active[l] \cup {cur[l]} \/ data' # data)
<1>1. c \in interest[l] \ ({fdt[f]} \ {None})
  BY DEF CloseFd, TypeOK, KernelTypeOK
<1>2. c \in fin' => c \in fin
  BY DEF CloseFd
<1> QED BY <1>1, <1>2 DEF NoLostEdge, Pending, CloseFd

\* Edge-triggered, every step leaves unread input with an edge or in a batch.
LEMMA EdgeStep == IInv /\ [Next]_vars => (EdgeTriggered => NoLostEdge)'
<1> SUFFICES ASSUME IInv, [Next]_vars, EdgeTriggered PROVE  NoLostEdge'
  OBVIOUS
<1> USE NoneFresh DEF IInv
<1>1. CASE UNCHANGED <<interest, data, fin, edge, active, cur>>
  BY <1>1 DEF NoLostEdge, Pending
<1>2. ASSUME NEW c \in Conns, NEW k \in Kinds, SendRequest(c, k) PROVE  NoLostEdge'
  <2>1. /\ UNCHANGED <<interest, fin, active, cur>>
        /\ data' = [data EXCEPT ![c] = k]
        /\ edge' = IF Registered(c) THEN edge \cup {c} ELSE edge
    BY <1>2 DEF SendRequest, SignalEdge, loopVars
  <2> QED BY <2>1 DEF NoLostEdge, Pending, Registered, TypeOK, KernelTypeOK
<1>3. ASSUME NEW c \in Conns, Disconnect(c) PROVE  NoLostEdge'
  <2>1. /\ UNCHANGED <<interest, data, active, cur>>
        /\ fin' = fin \cup {c}
        /\ edge' = IF Registered(c) THEN edge \cup {c} ELSE edge
    BY <1>3 DEF Disconnect, SignalEdge, loopVars
  <2> QED BY <2>1 DEF NoLostEdge, Pending, Registered
<1>4. CASE UpdateChannel
  <2>1. UNCHANGED <<data, fin, active, cur>>
    BY <1>4 DEF UpdateChannel, loopVars
  <2>2. CASE fdt[acfd] = None
    BY <1>4, <2>1, <2>2 DEF UpdateChannel, NoLostEdge, Pending
  <2>3. CASE fdt[acfd] # None
    <3>1. /\ interest' = [interest EXCEPT ![home[aconn]] = @ \cup {aconn}]
          /\ edge' = IF Pending(aconn) THEN edge \cup {aconn} ELSE edge
      BY <1>4, <2>3 DEF UpdateChannel, EpollAdd
    <3>2. \A l \in Loops : interest'[l] \subseteq interest[l] \cup {aconn}
      BY <3>1 DEF TypeOK, KernelTypeOK
    <3> QED BY <2>1, <3>1, <3>2 DEF NoLostEdge, Pending
  <2> QED BY <2>2, <2>3
<1>5. ASSUME NEW l \in Loops, FireTimer(l) PROVE  NoLostEdge'
  <2>1. UNCHANGED <<data, active, cur>>
    BY <1>5 DEF FireTimer, loopVars
  <2>2. PICK d \in Conns : CloseFd(chanFd[d])
    BY <1>5 DEF FireTimer
  <2> QED BY <2>1, <2>2, EdgeClosing DEF NoLostEdge
<1>6. ASSUME NEW l \in Loops, EpollWait(l) PROVE  NoLostEdge'
  <2>1. /\ UNCHANGED <<interest, data, fin, cur>> /\ lpc[l] = "wait"
        /\ active' = [active EXCEPT ![l] = Ready(l)] /\ edge' = edge \ Ready(l)
    BY <1>6 DEF EpollWait, At
  <2>2. active[l] = {}
    BY <2>1 DEF CurInv, Handling
  <2>3. \A m \in Loops \ {l} : interest[m] \cap interest[l] = {}
    BY DEF WatchInv, OpenConnRegistered
  <2>4. Ready(l) \subseteq interest[l]
    BY DEF Ready, EdgeReady, LevelReady
  <2>5. \A m \in Loops : active'[m] = IF m = l THEN Ready(l) ELSE active[m]
    BY <2>1 DEF TypeOK, LoopTypeOK
  <2> QED BY <2>1, <2>2, <2>3, <2>4, <2>5 DEF NoLostEdge, Pending
<1>7. ASSUME NEW l \in Loops, HandleRead(l) PROVE  NoLostEdge'
  <2>1. UNCHANGED <<interest, data, fin, edge>> /\ cur[l] = None
    BY <1>7 DEF HandleRead, At, kernelVars, CurInv, Handling
  <2>2. PICK c \in active[l] : /\ cur' = [cur EXCEPT ![l] = c]
                              /\ active' = [active EXCEPT ![l] = @ \ {c}]
    BY <1>7 DEF HandleRead
  <2>3. \A m \in Loops : active[m] \cup {cur[m]} \subseteq
                          active'[m] \cup {cur'[m], None}
    BY <2>1, <2>2 DEF TypeOK, LoopTypeOK
  <2>4. \A m \in Loops : interest[m] \subseteq Conns
    BY DEF TypeOK, KernelTypeOK
  <2> QED BY <2>1, <2>3, <2>4 DEF NoLostEdge, Pending
<1>8. ASSUME NEW l \in Loops, ReadRequest(l) PROVE  NoLostEdge'
  <2>1. UNCHANGED <<interest, fin, edge, active, cur>>
    BY <1>8 DEF ReadRequest, Route, kernelVars
  <2>2. data' = [data EXCEPT ![Target(l)] = "read"]
    BY <1>8 DEF ReadRequest, Route
  <2>3. \A c \in Conns : data'[c] \in Kinds => data[c] \in Kinds
    BY <2>2 DEF TypeOK, KernelTypeOK, Kinds
  <2>4. \A m \in Loops : interest[m] \subseteq Conns
    BY DEF TypeOK, KernelTypeOK
  <2> QED BY <2>1, <2>3, <2>4 DEF NoLostEdge, Pending
<1>9. ASSUME NEW l \in Loops, CloseClient(l) PROVE  NoLostEdge'
  <2>1. UNCHANGED <<data, active>> /\ cur' = [cur EXCEPT ![l] = None]
    BY <1>9 DEF CloseClient
  <2>2. cur[l] \in Conns /\ chanFd[cur[l]] \in Fds /\ CloseFd(chanFd[cur[l]])
    BY <1>9, HandlerTyped DEF CloseClient, At, Handling
  <2>3. \A m \in Loops : cur[l] \notin interest'[m]
    <3> SUFFICES ASSUME NEW m \in Loops, cur[l] \in interest[m]
                 PROVE  cur[l] \notin interest'[m]
      BY <2>2 DEF CloseFd, TypeOK, KernelTypeOK
    <3>1. fdt[chanFd[cur[l]]] = cur[l]
      BY <2>2 DEF WatchInv, OpenConnRegistered, FdInv
    <3> QED BY <2>2, <3>1 DEF CloseFd, TypeOK, KernelTypeOK
  <2>4. ASSUME NEW m \in Loops, NEW c \in interest'[m], Pending(c)'
        PROVE  c \in edge' \cup active'[m] \cup {cur'[m]}
    <3>1. c \in edge' \cup active[m] \cup {cur[m]} /\ c # cur[l]
      BY <2>1, <2>2, <2>3, <2>4, EdgeClosing
    <3> QED BY <2>1, <3>1 DEF TypeOK, LoopTypeOK
  <2> QED BY <2>4 DEF NoLostEdge
<1>10. ASSUME NEW l \in Loops, BlockedReadRequest(l) PROVE  NoLostEdge'
  <2>1. UNCHANGED <<interest, fin, edge, active, cur>> /\ data' = [data EXCEPT ![req[l]] = "read"]
    BY <1>10 DEF BlockedReadRequest, Route, kernelVars
  <2>2. \A c \in Conns : data'[c] \in Kinds => data[c] \in Kinds
    BY <2>1 DEF TypeOK, KernelTypeOK, Kinds
  <2>3. \A m \in Loops : interest[m] \subseteq Conns
    BY DEF TypeOK, KernelTypeOK
  <2> QED BY <2>1, <2>2, <2>3 DEF NoLostEdge, Pending
<1> QED
  BY <1>1, <1>2, <1>3, <1>4, <1>5, <1>6, <1>7, <1>8, <1>9, <1>10 DEF Next, Client,
     Acceptor, SubReactor, HandleMessage, Read, Connect, Tick, AcceptorWake, Accept,
     AcceptFails, SetNonBlock, RunAfter, AddTimer, BeginExpire, EndExpire,
     GetNextExpireMs, EnterWait, EndBatch, ReadNothing, BlockInRead, BlockedReadEnds,
     GetConn, QueryAndRelease, QueryNull, SendResponse, ShutdownWrite, vars,
     kernelVars, loopVars

\* The process goes down for a stale timer, an overdue registration or a query on a
\* null connection only.
LEMMA ExitReason == IInv /\ [Next]_vars => [ExitStep]_vars
<1> SUFFICES ASSUME IInv, Next, ~exited, exited' PROVE ExitStep
  BY DEF ExitStep
<1>1. CASE UpdateChannel
  BY <1>1 DEF UpdateChannel, ExitStep, IInv, ArrivingInv, AcceptInv, Arrived
<1>2. CASE UNCHANGED exited
  BY <1>2
<1>3. ASSUME NEW l \in Loops, QueryNull(l) PROVE ExitStep
  BY <1>3 DEF QueryNull, At, ExitStep
<1> QED
  BY <1>1, <1>2, <1>3 DEF Next, Client, Acceptor, SubReactor, HandleMessage, Read,
     Connect, SendRequest, Disconnect, Tick, AcceptorWake, Accept, AcceptFails,
     SetNonBlock, RunAfter, AddTimer, BeginExpire, FireTimer, EndExpire,
     GetNextExpireMs, EnterWait, EpollWait, HandleRead, EndBatch, ReadRequest,
     BlockedReadRequest, Route, ReadNothing, BlockInRead, BlockedReadEnds, GetConn,
     QueryAndRelease, SendResponse, ShutdownWrite, CloseClient, acceptVars

\* Without a stale timer, every close has a reason.
LEMMA ReasonStep == IInv /\ [Next]_vars => [ReasonedStep]_vars
<1> SUFFICES ASSUME IInv, Next PROVE  ReasonedStep
  BY DEF vars
<1> USE NoneFresh DEF IInv
<1>1. ASSUME NEW l \in Loops, FireTimer(l) PROVE  ReasonedStep
  <2> SUFFICES ASSUME NEW c \in Conns, Closes(c), ~stale' PROVE  HasReason(c)
    BY DEF ReasonedStep
  <2>1. PICK d \in timers[l] :
          /\ d \in Conns /\ chanFd[d] \in Fds /\ home[d] = l /\ CloseFd(chanFd[d])
          /\ expire[d] <= cutoff[l] /\ fdt[chanFd[d]] \in {d, None}
    BY <1>1, Firing
  <2>2. c = d
    BY <2>1, Closing DEF Closes, TypeOK
  <2>3. expire[d] \in Nat /\ cutoff[l] \in Nat /\ now \in Nat /\ cutoff[l] <= now
    BY <2>1 DEF TypeOK, KernelTypeOK, AcceptorTypeOK, LoopTypeOK, DeadlineInv
  <2>4. expire[d] <= now
    BY <2>1, <2>3
  <2> QED BY <2>1, <2>2, <2>4 DEF HasReason
<1>2. ASSUME NEW l \in Loops, CloseClient(l) PROVE  ReasonedStep
  <2> SUFFICES ASSUME NEW c \in Conns, Closes(c), ~stale' PROVE  HasReason(c)
    BY DEF ReasonedStep
  <2>1. /\ cur[l] \in Conns /\ chanFd[cur[l]] \in Fds /\ cur[l] # None
        /\ lpc[l] = "close" /\ CloseFd(chanFd[cur[l]]) /\ ~stale
    BY <1>2, HandlerTyped DEF CloseClient, At, Handling, histVars
  <2>2. fdt[chanFd[cur[l]]] = cur[l]
    BY <2>1 DEF OwnInv, WatchInv, OpenConnRegistered, FdInv
  <2>3. c = cur[l]
    BY <2>1, <2>2, Closing DEF Closes, TypeOK
  <2> QED BY <2>1, <2>3 DEF HasReason, OwnInv, Handling
<1>3. CASE UNCHANGED sock
  BY <1>3 DEF ReasonedStep, Closes
<1>4. ASSUME NEW c \in Conns, Connect(c) PROVE  ReasonedStep
  BY <1>4 DEF Connect, ReasonedStep, Closes, TypeOK, KernelTypeOK
<1>5. CASE Accept
  BY <1>5 DEF Accept, ReasonedStep, Closes, TypeOK, KernelTypeOK
<1> QED
  BY <1>1, <1>2, <1>3, <1>4, <1>5 DEF Next, Client, Acceptor, SubReactor,
     HandleMessage, Read, SendRequest, Disconnect, Tick, AcceptorWake, AcceptFails,
     SetNonBlock, RunAfter, AddTimer, UpdateChannel, BeginExpire, EndExpire,
     GetNextExpireMs, EnterWait, EpollWait, HandleRead, EndBatch, ReadRequest,
     BlockedReadRequest, Route, ReadNothing, BlockInRead, BlockedReadEnds, GetConn,
     QueryAndRelease, QueryNull, SendResponse, ShutdownWrite, kernelVars

-----------------------------------------------------------------------------
(* The theorems *)

\* The inductive invariant: every step of the server preserves it.
LEMMA Inductive == IInv /\ [Next]_vars => IInv'
BY KernelTypeStep, AcceptorTypeStep, LoopTypeStep, FlagTypeStep, FdStep, BacklogStep,
   FreshStep, AcceptStep, TimerStep, WatchStep, CurStep, DeadlineStep, OwnStep,
   ArrivingStep, TimerKeptStep, WaitStep, AnswerStep, EdgeStep DEF IInv, TypeOK

\* The server is always in a state of the inductive invariant.
THEOREM Invariance == Spec => []IInv
<1>1. Init => IInv
  BY InitInv
<1>2. IInv /\ [Next]_vars => IInv'
  BY Inductive
<1> QED BY <1>1, <1>2, PTL DEF Spec

\* Kernel tables, threads, channels and timers are always well formed.
THEOREM TypeCorrect == Spec => []TypeOK
<1>1. IInv => TypeOK
  BY DEF IInv
<1> QED BY <1>1, Invariance, PTL

\* No open connection is ever without its close timer, once armed.
THEOREM TimersKept == Spec => []OpenConnHasTimer
<1>1. IInv => OpenConnHasTimer
  BY DEF IInv
<1> QED BY <1>1, Invariance, PTL

\* Open connections are watched by their own loop and no closed one is watched.
THEOREM Watched == Spec => []OpenConnRegistered
<1>1. IInv => OpenConnRegistered
  BY DEF IInv, WatchInv
<1> QED BY <1>1, Invariance, PTL

\* A sub-reactor that waits with a bound oversleeps no timer of its heap by more than it
\* was itself held up between computing the wait and making it.
THEOREM WaitsBounded == Spec => []OversleepBounded
<1>1. IInv => OversleepBounded
  BY DEF IInv, WaitInv, Covers, OversleepBounded
<1> QED BY <1>1, Invariance, PTL

\* An answer goes astray only after a timer outlived its connection.
THEOREM Misdelivery == Spec => []MisdeliveryNeedsStaleTimer
<1>1. IInv => MisdeliveryNeedsStaleTimer
  BY DEF IInv
<1> QED BY <1>1, Invariance, PTL

\* A connection is closed for a reason of its own, unless a timer is stale.
THEOREM ReasonedCloses == Spec => ClosedForAReason
<1>1. IInv /\ [Next]_vars => [ReasonedStep]_vars
  BY ReasonStep
<1> QED BY <1>1, Invariance, PTL DEF Spec, ClosedForAReason

\* The process goes down for a stale timer, an overdue registration or a query on a
\* null connection only.
THEOREM ReasonedExit == Spec => ExitedForAReason
<1>1. IInv /\ [Next]_vars => [ExitStep]_vars
  BY ExitReason
<1> QED BY <1>1, Invariance, PTL DEF Spec, ExitedForAReason

\* Edge-triggered, no unread input is ever left without an event to come.
THEOREM EdgesKept == ASSUME EdgeTriggered PROVE Spec => []NoLostEdge
<1>1. IInv => NoLostEdge
  BY DEF IInv
<1> QED BY <1>1, Invariance, PTL

-----------------------------------------------------------------------------
(* The timers of a loop *)

\* What the timer set of l sees of a step that is none of its own.
SameTimers(l) ==
  /\ UNCHANGED <<now, expire>> /\ timers'[l] = timers[l] /\ cutoff'[l] = cutoff[l]
  /\ waitMs'[l] = waitMs[l]
  /\ lpc'[l] = "expire" <=> lpc[l] = "expire"
  /\ lpc'[l] = "enter" <=> lpc[l] = "enter"

\* Steps that are none of the timers': the clock, deadlines, heaps and rounds stay.
LEMMA OtherSteps ==
  ASSUME IInv, [Next]_vars, NEW l \in Loops,
         ~ Tick, ~ RunAfter, ~ AddTimer, ~ BeginExpire(l), ~ FireTimer(l), ~ EndExpire(l),
         ~ GetNextExpireMs(l), ~ EnterWait(l)
  PROVE  SameTimers(l)
<1> USE DEF IInv, SameTimers
<1>1. CASE Client
  BY <1>1 DEF Client, Connect, SendRequest, Disconnect, timerVars, loopVars, waitVars
<1>2. CASE Acceptor
  BY <1>2 DEF Acceptor, AcceptorWake, Accept, AcceptFails, SetNonBlock, UpdateChannel,
     timerVars, loopVars, waitVars
<1>3. ASSUME NEW m \in Loops, m # l,
             BeginExpire(m) \/ EndExpire(m) \/ GetNextExpireMs(m) \/ EnterWait(m)
      PROVE SameTimers(l)
  BY <1>3 DEF BeginExpire, EndExpire, GetNextExpireMs, EnterWait, Goto, timerVars,
     waitVars, TypeOK, LoopTypeOK
<1>4. ASSUME NEW m \in Loops, m # l, FireTimer(m) PROVE SameTimers(l)
  BY <1>4 DEF FireTimer, loopVars, waitVars, TypeOK, AcceptorTypeOK
<1>5. ASSUME NEW m \in Loops, UNCHANGED <<now, expire, timers, cutoff, waitMs>>,
             lpc[m] \notin {"expire", "enter"}, \E pc \in LoopPc \ {"expire", "enter"} :
               lpc' = [lpc EXCEPT ![m] = pc] \/ lpc' = lpc
      PROVE SameTimers(l)
  BY <1>5 DEF TypeOK, LoopTypeOK
<1>6. ASSUME NEW m \in Loops, EpollWait(m) \/ HandleRead(m) \/ EndBatch(m)
      PROVE SameTimers(l)
  BY <1>5, <1>6 DEF EpollWait, HandleRead, EndBatch, At, Goto, LoopPc, timerVars,
     loopVars, waitVars
<1>7. ASSUME NEW m \in Loops, Read(m) PROVE SameTimers(l)
  BY <1>5, <1>7 DEF Read, ReadRequest, BlockedReadRequest, Route, ReadNothing,
     BlockInRead, BlockedReadEnds, At, Goto, LoopPc, timerVars, loopVars, waitVars
<1>8. ASSUME NEW m \in Loops, GetConn(m) \/ QueryAndRelease(m) \/ QueryNull(m)
      PROVE SameTimers(l)
  BY <1>5, <1>8 DEF GetConn, QueryAndRelease, QueryNull, At, Goto, LoopPc, timerVars,
     loopVars, waitVars
<1>9. ASSUME NEW m \in Loops, SendResponse(m) \/ ShutdownWrite(m) \/ CloseClient(m)
      PROVE SameTimers(l)
  BY <1>5, <1>9 DEF SendResponse, ShutdownWrite, CloseClient, At, Goto, LoopPc,
     timerVars, loopVars, waitVars
<1>10. CASE UNCHANGED vars
  BY <1>10 DEF vars, timerVars, loopVars, waitVars
<1> QED BY <1>1, <1>2, <1>3, <1>4, <1>6, <1>7, <1>8, <1>9, <1>10 DEF Next, SubReactor,
           HandleMessage

\* Each step is one of the timer set of l, or leaves it alone.
LEMMA TimerSetStep ==
  ASSUME IInv, [Next]_vars, NEW l \in Loops
  PROVE  [TimersOf(l)!SetNext]_(TimersOf(l)!setVars)
<1> USE DEF IInv, TimersOf!SetNext, TimersOf!setVars
<1>1. CASE Tick
  BY <1>1 DEF Tick, timerVars, loopVars, waitVars, TimersOf!Advance
<1>2. CASE RunAfter
  <2>1. /\ aconn \in Conns /\ aconn \notin timers[l] /\ now \in Nat /\ now + Timeout \in Nat
        /\ now + Timeout >= now
    BY <1>2, ReactorAssumption DEF RunAfter, AcceptInv, Arrived, Arming, TypeOK,
       AcceptorTypeOK, KernelTypeOK, ReactorAssumption
  <2>2. /\ expire' = [expire EXCEPT ![aconn] = now + Timeout] /\ expire'[aconn] = now + Timeout
        /\ UNCHANGED <<now, timers, lpc, cutoff, waitMs>>
    BY <1>2, <2>1 DEF RunAfter, loopVars, waitVars, TypeOK, AcceptorTypeOK
  <2>3. TimersOf(l)!Plan
    BY <2>1, <2>2 DEF TimersOf!Plan
  <2> QED BY <2>3
<1>3. CASE AddTimer
  <2>1. /\ aconn \in Conns /\ aconn \notin timers[l] /\ UNCHANGED <<now, expire, lpc, cutoff, waitMs>>
        /\ lpc[home[aconn]] # "expire"
        /\ timers' = [timers EXCEPT ![home[aconn]] = @ \cup {aconn}]
    BY <1>3 DEF AddTimer, AcceptInv, Arrived, Arming, TypeOK, AcceptorTypeOK,
       loopVars, waitVars
  <2>2. CASE home[aconn] = l
    <3>1. timers'[l] = timers[l] \cup {aconn}
      BY <2>1, <2>2 DEF TypeOK, AcceptorTypeOK
    <3>2. TimersOf(l)!Arm
      BY <2>1, <2>2, <3>1 DEF TimersOf!Arm
    <3> QED BY <3>2
  <2>3. CASE home[aconn] # l
    <3>1. timers'[l] = timers[l]
      BY <2>1, <2>3 DEF TypeOK, AcceptorTypeOK
    <3> QED BY <2>1, <3>1
  <2> QED BY <2>2, <2>3
<1>4. CASE BeginExpire(l)
  <2>1. /\ lpc[l] = "timers" /\ lpc'[l] = "expire" /\ cutoff'[l] = now
        /\ UNCHANGED <<now, expire, timers, waitMs>>
    BY <1>4 DEF BeginExpire, At, Goto, timerVars, waitVars, TypeOK, LoopTypeOK
  <2>2. TimersOf(l)!BeginRound
    BY <2>1 DEF TimersOf!BeginRound
  <2> QED BY <2>2
<1>5. CASE FireTimer(l)
  <2>1. PICK c \in timers[l] :
          /\ c \in Conns /\ expire[c] <= cutoff[l] /\ (\A d \in timers[l] : expire[c] <= expire[d])
          /\ timers' = [timers EXCEPT ![l] = @ \ {c}]
    BY <1>5 DEF FireTimer, Earliest
  <2>2. /\ lpc[l] = "expire" /\ UNCHANGED <<now, expire, lpc, cutoff, waitMs>>
        /\ timers'[l] = timers[l] \ {c} /\ cutoff[l] # Forever
    BY <1>5, <2>1 DEF FireTimer, At, loopVars, waitVars, TypeOK, AcceptorTypeOK,
       LoopTypeOK, Forever
  <2>3. TimersOf(l)!Fire
    BY <2>1, <2>2 DEF TimersOf!Fire
  <2> QED BY <2>3
<1>6. CASE EndExpire(l)
  <2>1. /\ lpc[l] = "expire" /\ lpc'[l] = "timeout" /\ cutoff[l] # Forever
        /\ \A c \in timers[l] : expire[c] > cutoff[l]
        /\ UNCHANGED <<now, expire, timers, waitMs>>
    BY <1>6 DEF EndExpire, At, Goto, timerVars, waitVars, TypeOK, LoopTypeOK, Forever
  <2>2. TimersOf(l)!EndRound
    BY <2>1 DEF TimersOf!EndRound
  <2> QED BY <2>2
<1>7. CASE GetNextExpireMs(l)
  <2>1. /\ lpc[l] = "timeout" /\ lpc'[l] = "enter" /\ now \in Nat
        /\ \A c \in timers[l] : expire[c] \in Nat
        /\ UNCHANGED <<now, expire, timers, cutoff>>
    BY <1>7 DEF GetNextExpireMs, At, Goto, timerVars, TypeOK, KernelTypeOK,
       AcceptorTypeOK, LoopTypeOK
  <2>2. CASE timers[l] = {} /\ waitMs'[l] = Forever
    <3>1. TimersOf(l)!AskWait
      BY <2>1, <2>2 DEF TimersOf!AskWait
    <3> QED BY <3>1
  <2>3. CASE \E c \in Conns : Earliest(l, c) /\ waitMs'[l] = TimeLeft(c)
    <3>1. PICK c \in timers[l] : /\ \A d \in timers[l] : expire[c] <= expire[d]
                                /\ waitMs'[l] = TimeLeft(c)
      BY <2>3 DEF Earliest
    <3>2. /\ waitMs'[l] \in Nat
          /\ \A d \in timers[l] : expire[d] < now + waitMs'[l] * 1 => waitMs'[l] = 0
          /\ expire[c] < now + waitMs'[l] * 1 + 1
      BY <2>1, <3>1 DEF TimeLeft
    <3>3. TimersOf(l)!AskWait
      BY <2>1, <3>1, <3>2 DEF TimersOf!AskWait, TimersOf!WaitEnd
    <3> QED BY <3>3
  <2> QED BY <1>7, <2>2, <2>3 DEF GetNextExpireMs, TypeOK, LoopTypeOK
<1>8. CASE EnterWait(l)
  <2>1. /\ lpc[l] = "enter" /\ lpc'[l] = "wait"
        /\ UNCHANGED <<now, expire, timers, cutoff>>
    BY <1>8 DEF EnterWait, At, Goto, timerVars, TypeOK, LoopTypeOK
  <2>2. TimersOf(l)!Taken
    BY <2>1 DEF TimersOf!Taken
  <2> QED BY <2>2
<1>9. CASE /\ ~ Tick /\ ~ RunAfter /\ ~ AddTimer /\ ~ BeginExpire(l) /\ ~ FireTimer(l)
           /\ ~ EndExpire(l) /\ ~ GetNextExpireMs(l) /\ ~ EnterWait(l)
  BY <1>9, OtherSteps DEF SameTimers
<1> QED BY <1>1, <1>2, <1>3, <1>4, <1>5, <1>6, <1>7, <1>8, <1>9

\* The timers of each loop are used, and behave, as TimerSet has it, which TimerHeap
\* implements: the set of timers in Reactor stands for the heap of TimerManager.
THEOREM TimersAsPromised == Spec => ImplementsTimers
<1> SUFFICES ASSUME NEW l \in Loops PROVE Spec => TimersOf(l)!SetSpec
  BY DEF ImplementsTimers
<1>1. Init => TimersOf(l)!SetInit
  BY DEF Init, LoopsAtStart, TimersOf!SetInit
<1>2. IInv /\ [Next]_vars => [TimersOf(l)!SetNext]_(TimersOf(l)!setVars)
  BY TimerSetStep
<1> QED BY <1>1, <1>2, Invariance, PTL DEF Spec, TimersOf!SetSpec
=============================================================================
