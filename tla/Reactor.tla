------------------------------- MODULE Reactor -------------------------------
(***************************************************************************)
(* The running HTTP server: one accepting thread (the main EventLoop, with *)
(* EchoServer::handleNewConnection as the callback of the listening        *)
(* channel) and the threads of the sub-reactors, each an EventLoop with an *)
(* Epoll instance and a TimerManager of its own.  They share the process's *)
(* descriptor table: a descriptor number is an integer captured by value   *)
(* in the read callback of a channel and in a close timer, and the kernel  *)
(* hands the number out again as soon as it is closed.                     *)
(*                                                                         *)
(* One action is one system call, one critical section of a TimerManager,  *)
(* or one step of the kernel, of the clock or of a client.                 *)
(***************************************************************************)
EXTENDS Integers, Sequences, FiniteSets

CONSTANTS
  Conns,          (* the client connections, numbered as they are made     *)
  Fds,            (* the descriptor numbers left to client sockets         *)
  Asks,           (* the kinds of requests each client may send            *)
  NumLoops,       (* number of sub-reactors (3 in the constructor)         *)
  Timeout,        (* delay of the close timer (10000 ms), in clock ticks   *)
  MaxTime,        (* bound: the clock stops here, unless a wait is running *)
  Backlog,        (* length of the listen queue (Socket::listen)           *)
  PoolSize,       (* MySQL connections that init() managed to open         *)
  EdgeTriggered,  (* TRUE: the Linux Epoll, FALSE: the macOS kqueue one    *)
  None            (* no connection, no descriptor, no loop                 *)

Kinds == {"static", "api"}      \* a page or a wrong path; register or login

ASSUME ReactorAssumption ==
  /\ Conns \subseteq Nat /\ Fds \subseteq Nat
  /\ Asks \in [Conns -> SUBSET Kinds] /\ NumLoops \in Nat \ {0}
  /\ Timeout \in Nat \ {0} /\ MaxTime \in Nat
  /\ Backlog \in Nat \ {0} /\ PoolSize \in Nat
  /\ EdgeTriggered \in BOOLEAN
  /\ None \notin Nat

Loops   == 0 .. NumLoops - 1
Forever == -1       \* getNextExpireMs() without a timer: wait without a bound

VARIABLES
  (* kernel and clients *)
  now,       (* steady_clock                                               *)
  backlog,   (* connections waiting for accept, in order of arrival        *)
  sock,      (* server side of a connection: new, queued, open, closed     *)
  data,      (* request of a client: unsent, static, api (unread), read    *)
  fin,       (* sockets whose client closed its side                       *)
  shut,      (* sockets whose sending side was shut down                   *)
  fdt,       (* the descriptor table: connection behind a number, or None  *)
  interest,  (* channels registered with the epoll instance of each loop   *)
  edge,      (* channels with an unreported edge   (edge-triggered only)   *)
  lsnEdge,   (* the listening socket has one       (edge-triggered only)   *)
  (* the accepting thread *)
  apc, acfd, aconn, next, exited,
  (* a Channel: the descriptor its callback captured, the loop it is for   *)
  chanFd, home,
  missed,    (* history: armed while their loop was in its present, unbounded wait *)
  (* timers of each loop, by the connection they were armed for            *)
  timers, expire,
  (* the sub-reactor threads *)
  lpc, cutoff, active, cur, req,
  waitMs,    (* timeout of loop(): how long the next epoll_wait may block  *)
  asked,     (* when a bounded one was computed: now in getNextExpireMs    *)
  until,     (* when the running epoll_wait times out                      *)
  poolFree,  (* connections in the MySQL pool                              *)
  (* history *)
  got,       (* got[c]: whose answers were written to c                    *)
  stale,     (* a timer closed a descriptor that is another connection's   *)
  lost,      (* how many reconnections to MySQL failed                     *)
  late       (* time a thread was held up before the running epoll_wait    *)

kernelVars == <<backlog, sock, fin, shut, fdt, interest, edge, lsnEdge>>
acceptVars == <<apc, acfd, aconn, next, exited>>
chanVars   == <<chanFd, home, missed>>
timerVars  == <<timers, expire>>
waitVars   == <<waitMs, asked, until, late>>
loopVars   == <<cutoff, waitVars, active, cur, req>>
poolVars   == <<poolFree, lost>>
histVars   == <<got, stale>>
vars == <<now, kernelVars, data, acceptVars, chanVars, timerVars, lpc, loopVars,
          poolVars, histVars>>

AcceptorPc == {"wait", "accept", "setNonBlock", "runAfter", "addTimer", "register"}
LoopPc == {"timers", "expire", "timeout", "enter", "wait", "dispatch", "read", "blocked",
           "getConn", "query", "queryNull", "send", "shutdown", "close"}

KernelTypeOK ==
  /\ now \in Nat /\ backlog \in Seq(Conns)
  /\ sock \in [Conns -> {"new", "queued", "open", "closed"}]
  /\ data \in [Conns -> {"unsent", "read"} \cup Kinds]
  /\ fin \in SUBSET Conns /\ shut \in SUBSET Conns /\ edge \in SUBSET Conns
  /\ fdt \in [Fds -> Conns \cup {None}]
  /\ interest \in [Loops -> SUBSET Conns]

AcceptorTypeOK ==
  /\ apc \in AcceptorPc /\ next \in Nat
  /\ acfd \in Fds \cup {None} /\ aconn \in Conns \cup {None}
  /\ chanFd \in [Conns -> Fds \cup {None}]
  /\ home \in [Conns -> Loops \cup {None}] /\ missed \in SUBSET Conns
  /\ timers \in [Loops -> SUBSET Conns]
  /\ expire \in [Conns -> Nat]

LoopTypeOK ==
  /\ lpc \in [Loops -> LoopPc]
  /\ cutoff \in [Loops -> Nat]
  /\ waitMs \in [Loops -> Nat \cup {Forever}]
  /\ until \in [Loops -> Nat \cup {Forever}]
  /\ asked \in [Loops -> Nat] /\ late \in [Loops -> Nat]
  /\ active \in [Loops -> SUBSET Conns]
  /\ cur \in [Loops -> Conns \cup {None}]
  /\ req \in [Loops -> Conns \cup {None}]
  /\ poolFree \in Nat /\ lost \in Nat
  /\ got \in [Conns -> SUBSET Conns]

FlagTypeOK == lsnEdge \in BOOLEAN /\ exited \in BOOLEAN /\ stale \in BOOLEAN

TypeOK == KernelTypeOK /\ AcceptorTypeOK /\ LoopTypeOK /\ FlagTypeOK

\* The listening socket: nobody has connected yet.
Listening == backlog = <<>> /\ lsnEdge = FALSE

\* The epoll instances watch no client.
EmptyEpolls == interest = [l \in Loops |-> {}] /\ edge = {}

\* Every sub-reactor is before its first round, without a timer.
LoopsAtStart ==
  /\ timers = [l \in Loops |-> {}] /\ expire = [c \in Conns |-> 0]
  /\ lpc = [l \in Loops |-> "timers"]
  /\ cutoff = [l \in Loops |-> 0] /\ waitMs = [l \in Loops |-> 0]
  /\ asked = [l \in Loops |-> 0]
  /\ until = [l \in Loops |-> 0] /\ late = [l \in Loops |-> 0]
  /\ active = [l \in Loops |-> {}]
  /\ cur = [l \in Loops |-> None] /\ req = [l \in Loops |-> None]

\* After the constructor and start(): the listening channel is registered and
\* the sub-reactors run.
Init ==
  /\ now = 0 /\ Listening /\ EmptyEpolls /\ LoopsAtStart
  /\ sock = [c \in Conns |-> "new"] /\ data = [c \in Conns |-> "unsent"]
  /\ fin = {} /\ shut = {} /\ fdt = [f \in Fds |-> None]
  /\ apc = "wait" /\ acfd = None /\ aconn = None /\ next = 0 /\ exited = FALSE
  /\ chanFd = [c \in Conns |-> None] /\ home = [c \in Conns |-> None]
  /\ missed = {} /\ poolFree = PoolSize /\ lost = 0
  /\ got = [c \in Conns |-> {}] /\ stale = FALSE

-----------------------------------------------------------------------------
(* The kernel *)

Registered(c) == \E l \in Loops : c \in interest[l]

Pending(c) == data[c] \in Kinds \/ c \in fin

\* kevent with EV_ADD alone: every watched socket with something to report.
LevelReady(l) == {c \in interest[l] : Pending(c)}

\* epoll_wait with EPOLLET: those with an edge that was not reported yet.
EdgeReady(l) == LevelReady(l) \cap edge

\* What the epoll instance of l would report now.
Ready(l) == IF EdgeTriggered THEN EdgeReady(l) ELSE LevelReady(l)

\* Something arrived on the socket of c: an edge, if c is being watched.
SignalEdge(c) ==
  edge' = IF EdgeTriggered /\ Registered(c) THEN edge \cup {c} ELSE edge

\* Mutant of CloseFd: the epoll instances keep watching the closed connection.
CloseFdStaysWatched(f) ==
  LET gone == {fdt[f]} \ {None}
  IN  /\ sock' = [c \in Conns |-> IF c \in gone THEN "closed" ELSE sock[c]]
      /\ fdt' = [fdt EXCEPT ![f] = None]
      /\ fin' = fin \ gone /\ shut' = shut \ gone
      /\ UNCHANGED <<backlog, interest, edge, lsnEdge>>

\* close(f): the connection behind f, if any, is closed, and closing the last
\* descriptor of a socket takes it out of every interest list.  The state of the
\* socket goes with it.
CloseFd(f) ==
  LET gone == {fdt[f]} \ {None}
  IN  /\ sock' = [c \in Conns |-> IF c \in gone THEN "closed" ELSE sock[c]]
      /\ fdt' = [fdt EXCEPT ![f] = None]
      /\ interest' = [l \in Loops |-> interest[l] \ gone]
      /\ edge' = edge \ gone /\ fin' = fin \ gone /\ shut' = shut \ gone
      /\ UNCHANGED <<backlog, lsnEdge>>

-----------------------------------------------------------------------------
(* Clients and the clock *)

Connect(c) ==
  /\ ~exited /\ sock[c] = "new" /\ Len(backlog) < Backlog
  /\ \A d \in Conns : sock[d] = "new" => c <= d
  /\ sock' = [sock EXCEPT ![c] = "queued"]
  /\ backlog' = Append(backlog, c)
  /\ lsnEdge' = EdgeTriggered
  /\ UNCHANGED <<now, data, fin, shut, fdt, interest, edge, acceptVars, chanVars,
                 timerVars, lpc, loopVars, poolVars, histVars>>

\* Linux keeps a socket that was closed alive under the thread that reads it; macOS
\* wakes that thread up.
HeldOpen(c) == EdgeTriggered /\ \E l \in Loops : lpc[l] = "blocked" /\ req[l] = c

\* Its client can still do something about c.
Connected(c) == sock[c] \in {"queued", "open"} \/ HeldOpen(c)

SendRequest(c, kind) ==
  /\ ~exited /\ kind \in Asks[c]
  /\ Connected(c) /\ data[c] = "unsent" /\ c \notin fin
  /\ data' = [data EXCEPT ![c] = kind]
  /\ SignalEdge(c)
  /\ UNCHANGED <<now, backlog, sock, fin, shut, fdt, interest, lsnEdge, acceptVars,
                 chanVars, timerVars, lpc, loopVars, poolVars, histVars>>

Disconnect(c) ==
  /\ ~exited /\ Connected(c) /\ c \notin fin
  /\ fin' = fin \cup {c}
  /\ SignalEdge(c)
  /\ UNCHANGED <<now, data, backlog, sock, shut, fdt, interest, lsnEdge, acceptVars,
                 chanVars, timerVars, lpc, loopVars, poolVars, histVars>>

\* A sub-reactor is blocked in epoll_wait until a moment to come.
Awaited == \E l \in Loops : lpc[l] = "wait" /\ now < until[l]

Tick ==
  /\ ~exited
  /\ now < MaxTime \/ Awaited
  /\ now' = now + 1
  /\ UNCHANGED <<kernelVars, data, acceptVars, chanVars, timerVars, lpc, loopVars,
                 poolVars, histVars>>

-----------------------------------------------------------------------------
(* The accepting thread: EventLoop::loop of the main loop, which has no    *)
(* timers, and EchoServer::handleNewConnection                             *)

ListenerReady == backlog # <<>> /\ (EdgeTriggered => lsnEdge)

AcceptorWake ==
  /\ ~exited /\ apc = "wait" /\ ListenerReady
  /\ apc' = "accept" /\ lsnEdge' = FALSE
  /\ UNCHANGED <<now, backlog, sock, fin, shut, fdt, interest, edge, data, acfd,
                 aconn, next, exited, chanVars, timerVars, lpc, loopVars, poolVars,
                 histVars>>

FreeFds == {f \in Fds : fdt[f] = None}

\* One accept per event; the kernel gives the lowest number that is free.
Accept ==
  /\ ~exited /\ apc = "accept" /\ backlog # <<>>
  /\ \E f \in FreeFds :
       /\ \A g \in FreeFds : f <= g
       /\ fdt' = [fdt EXCEPT ![f] = Head(backlog)]
       /\ acfd' = f
       /\ chanFd' = [chanFd EXCEPT ![Head(backlog)] = f]
  /\ sock' = [sock EXCEPT ![Head(backlog)] = "open"]
  /\ aconn' = Head(backlog)
  /\ backlog' = Tail(backlog)
  /\ apc' = "setNonBlock"
  /\ UNCHANGED <<now, fin, shut, interest, edge, lsnEdge, data, next, exited, home,
                 missed, timerVars, lpc, loopVars, poolVars, histVars>>

\* accept fails for want of a descriptor: logged, back to the loop.
AcceptFails ==
  /\ ~exited /\ apc = "accept" /\ FreeFds = {}
  /\ apc' = "wait"
  /\ UNCHANGED <<now, kernelVars, data, acfd, aconn, next, exited, chanVars,
                 timerVars, lpc, loopVars, poolVars, histVars>>

\* A new socket blocks until the accepting thread has set O_NONBLOCK: whoever else has
\* its number, from an earlier connection, may be caught in a read meanwhile.
Blocking(c) == c = aconn /\ apc = "setNonBlock"

\* fcntl; on a number that was closed meanwhile it fails, and the result is ignored.
SetNonBlock ==
  /\ ~exited /\ apc = "setNonBlock"
  /\ apc' = "runAfter"
  /\ UNCHANGED <<now, kernelVars, data, acfd, aconn, next, exited, chanVars, timerVars,
                 lpc, loopVars, poolVars, histVars>>

\* The loop is chosen in turn and the deadline computed, before any lock.
RunAfter ==
  /\ ~exited /\ apc = "runAfter"
  /\ expire' = [expire EXCEPT ![aconn] = now + Timeout]
  /\ home' = [home EXCEPT ![aconn] = next % NumLoops]
  /\ next' = next + 1
  /\ apc' = "addTimer"
  /\ UNCHANGED <<now, kernelVars, data, acfd, aconn, exited, chanFd, missed, timers,
                 lpc, loopVars, poolVars, histVars>>

\* The thread of l blocks without a bound, or is about to.
WaitsForever(l) == \/ lpc[l] = "enter" /\ waitMs[l] = Forever
                   \/ lpc[l] = "wait" /\ until[l] = Forever

\* Mutant of AddTimer: the loop is looked up again after next++.
AddTimerOnNextLoop ==
  /\ ~exited /\ apc = "addTimer" /\ lpc[next % NumLoops] # "expire"
  /\ timers' = [timers EXCEPT ![next % NumLoops] = @ \cup {aconn}]
  /\ apc' = "register"
  /\ UNCHANGED <<now, kernelVars, data, acfd, aconn, next, exited, chanVars, expire,
                 lpc, loopVars, poolVars, histVars>>

\* addTimer waits for the mutex, which handleExpiredTimers holds through all its
\* callbacks.  The thread of the loop is not woken.
AddTimer ==
  LET l == home[aconn]
  IN  /\ ~exited /\ apc = "addTimer" /\ lpc[l] # "expire"
      /\ timers' = [timers EXCEPT ![l] = @ \cup {aconn}]
      /\ missed' = IF WaitsForever(l) THEN missed \cup {aconn} ELSE missed
      /\ apc' = "register"
      /\ UNCHANGED <<now, kernelVars, data, acfd, aconn, next, exited, chanFd, home,
                     expire, lpc, loopVars, poolVars, histVars>>

\* EV_ADD of kqueue: the socket is watched for input.
KqueueAdd(l, c) ==
  /\ interest' = [interest EXCEPT ![l] = @ \cup {c}]
  /\ UNCHANGED edge

\* Mutant of EpollAdd: what arrived before the registration is not reported.
EpollAddNewInputOnly(l, c) == KqueueAdd(l, c)

\* EPOLL_CTL_ADD with EPOLLET: an edge at once if there is something to read.
EpollAdd(l, c) ==
  /\ interest' = [interest EXCEPT ![l] = @ \cup {c}]
  /\ edge' = IF Pending(c) THEN edge \cup {c} ELSE edge

\* Epoll::updateChannel of a channel not yet in epoll.  A closed descriptor is
\* refused, upon which the process exits.
UpdateChannel ==
  /\ ~exited /\ apc = "register"
  /\ IF fdt[acfd] = None
     THEN exited' = TRUE /\ UNCHANGED <<interest, edge>>
     ELSE /\ IF EdgeTriggered THEN EpollAdd(home[aconn], aconn)
                              ELSE KqueueAdd(home[aconn], aconn)
          /\ UNCHANGED exited
  /\ apc' = "wait" /\ acfd' = None /\ aconn' = None
  /\ UNCHANGED <<now, backlog, sock, fin, shut, fdt, lsnEdge, data, next, chanVars,
                 timerVars, lpc, loopVars, poolVars, histVars>>

-----------------------------------------------------------------------------
(* A sub-reactor: EventLoop::loop                                          *)

At(l, pc) == ~exited /\ lpc[l] = pc

Goto(l, pc) == lpc' = [lpc EXCEPT ![l] = pc]

\* handleExpiredTimers takes the mutex and reads the clock once.
BeginExpire(l) ==
  /\ At(l, "timers") /\ Goto(l, "expire")
  /\ cutoff' = [cutoff EXCEPT ![l] = now]
  /\ UNCHANGED <<now, kernelVars, data, acceptVars, chanVars, timerVars, waitVars,
                 active, cur, req, poolVars, histVars>>

\* Mutant of Earliest: the far end of the heap instead of its root.
Latest(l, c) == c \in timers[l] /\ \A d \in timers[l] : expire[c] >= expire[d]

\* c is a timer the heap of l may have at its root.
Earliest(l, c) == c \in timers[l] /\ \A d \in timers[l] : expire[c] <= expire[d]

\* Mutant of FireTimer: the root fires without a look at its deadline.
FireTimerEarly(l) ==
  /\ At(l, "expire")
  /\ \E c \in Conns :
       /\ Earliest(l, c)
       /\ CloseFd(chanFd[c])
       /\ stale' = (stale \/ fdt[chanFd[c]] \notin {c, None})
       /\ timers' = [timers EXCEPT ![l] = @ \ {c}]
  /\ UNCHANGED <<now, data, acceptVars, chanVars, expire, lpc, loopVars, poolVars, got>>

\* The root has expired: its callback closes the descriptor captured when the
\* connection was accepted, then the root is popped.
FireTimer(l) ==
  /\ At(l, "expire")
  /\ \E c \in Conns :
       /\ Earliest(l, c) /\ expire[c] <= cutoff[l]
       /\ CloseFd(chanFd[c])
       /\ stale' = (stale \/ fdt[chanFd[c]] \notin {c, None})
       /\ timers' = [timers EXCEPT ![l] = @ \ {c}]
  /\ UNCHANGED <<now, data, acceptVars, chanVars, expire, lpc, loopVars, poolVars, got>>

EndExpire(l) ==
  /\ At(l, "expire") /\ Goto(l, "timeout")
  /\ \A c \in timers[l] : expire[c] > cutoff[l]
  /\ cutoff' = [cutoff EXCEPT ![l] = 0]
  /\ UNCHANGED <<now, kernelVars, data, acceptVars, chanVars, timerVars, waitVars, active,
                 cur, req, poolVars, histVars>>

\* Mutant of GetNextExpireMs: epoll_wait always blocks without a bound.
AlwaysForever(l) ==
  /\ At(l, "timeout") /\ Goto(l, "enter")
  /\ waitMs' = [waitMs EXCEPT ![l] = Forever]
  /\ UNCHANGED <<now, kernelVars, data, acceptVars, chanVars, timerVars, cutoff, asked,
                 until, late, active, cur, req, poolVars, histVars>>

\* How long until the timer of c is due.
TimeLeft(c) == IF expire[c] > now THEN expire[c] - now ELSE 0

\* getNextExpireMs: how long epoll_wait may block, counted from now.
GetNextExpireMs(l) ==
  /\ At(l, "timeout") /\ Goto(l, "enter")
  /\ \/ /\ timers[l] = {}
        /\ waitMs' = [waitMs EXCEPT ![l] = Forever] /\ asked' = asked
     \/ \E c \in Conns : /\ Earliest(l, c)
                         /\ waitMs' = [waitMs EXCEPT ![l] = TimeLeft(c)]
                         /\ asked' = [asked EXCEPT ![l] = now]
  /\ UNCHANGED <<now, kernelVars, data, acceptVars, chanVars, timerVars, cutoff, until,
                 late, active, cur, req, poolVars, histVars>>

\* epoll_wait is called, any time later, and counts the wait from then.
EnterWait(l) ==
  /\ At(l, "enter") /\ Goto(l, "wait")
  /\ \/ waitMs[l] = Forever /\ until' = [until EXCEPT ![l] = Forever] /\ late' = late
     \/ /\ waitMs[l] # Forever
        /\ until' = [until EXCEPT ![l] = now + waitMs[l]]
        /\ late' = [late EXCEPT ![l] = now - asked[l]]
  /\ waitMs' = [waitMs EXCEPT ![l] = 0] /\ asked' = [asked EXCEPT ![l] = 0]
  /\ UNCHANGED <<now, kernelVars, data, acceptVars, chanVars, timerVars, cutoff, active,
                 cur, req, poolVars, histVars>>

\* The wait of l has a bound, and it is over.
TimedOut(l) == until[l] # Forever /\ until[l] <= now

\* Epoll::wait returns on readiness or on timeout; nothing else wakes it.
EpollWait(l) ==
  /\ At(l, "wait") /\ Goto(l, "dispatch")
  /\ Ready(l) # {} \/ TimedOut(l)
  /\ active' = [active EXCEPT ![l] = Ready(l)]
  /\ until' = [until EXCEPT ![l] = 0] /\ late' = [late EXCEPT ![l] = 0]
  /\ edge' = edge \ Ready(l)
  /\ missed' = missed \ timers[l]
  /\ UNCHANGED <<now, backlog, sock, fin, shut, fdt, interest, lsnEdge, data, acceptVars,
                 chanFd, home, timerVars, cutoff, waitMs, asked, cur, req, poolVars, histVars>>

\* The next channel of the batch: Channel::handleRead calls handleMessage.
HandleRead(l) ==
  /\ At(l, "dispatch") /\ Goto(l, "read")
  /\ \E c \in active[l] :
       /\ cur' = [cur EXCEPT ![l] = c]
       /\ active' = [active EXCEPT ![l] = @ \ {c}]
  /\ UNCHANGED <<now, kernelVars, data, acceptVars, chanVars, timerVars, cutoff,
                 waitVars, req, poolVars, histVars>>

EndBatch(l) ==
  /\ At(l, "dispatch") /\ active[l] = {} /\ Goto(l, "timers")
  /\ UNCHANGED <<now, kernelVars, data, acceptVars, chanVars, timerVars, loopVars,
                 poolVars, histVars>>

-----------------------------------------------------------------------------
(* EchoServer::handleMessage, on the thread of the sub-reactor             *)

\* The connection now behind the descriptor the handler works on, or None.
Target(l) == fdt[chanFd[cur[l]]]

\* read returned the request of c: parse it and route it.  A page, or the 404
\* answer, is made here from the local disk; an API request needs the pool.
Route(l, c) ==
  /\ data[c] \in Kinds
  /\ Goto(l, IF data[c] = "api" THEN "getConn" ELSE "send")
  /\ req' = [req EXCEPT ![l] = c]
  /\ data' = [data EXCEPT ![c] = "read"]
  /\ UNCHANGED <<now, kernelVars, acceptVars, chanVars, timerVars, cutoff, waitVars,
                 active, cur, poolVars, histVars>>

ReadRequest(l) == At(l, "read") /\ Target(l) # None /\ Route(l, Target(l))

\* The read finds a socket that still blocks, and nothing to read in it.
Blocks(l) == Target(l) # None /\ Blocking(Target(l)) /\ ~Pending(Target(l))

\* read returned 0 (end of stream) or -1 (EAGAIN, EBADF): straight to close.
ReadNothing(l) ==
  /\ At(l, "read") /\ ~Blocks(l) /\ ~ (Target(l) # None /\ data[Target(l)] \in Kinds)
  /\ Goto(l, "close")
  /\ UNCHANGED <<now, kernelVars, data, acceptVars, chanVars, timerVars, loopVars,
                 poolVars, histVars>>

\* The thread of the sub-reactor sleeps in read, on a connection that is not its own.
BlockInRead(l) ==
  /\ At(l, "read") /\ Blocks(l) /\ Goto(l, "blocked")
  /\ req' = [req EXCEPT ![l] = Target(l)]
  /\ UNCHANGED <<now, kernelVars, data, acceptVars, chanVars, timerVars, cutoff, waitVars,
                 active, cur, poolVars, histVars>>

\* Setting O_NONBLOCK does not wake it; a request does.
BlockedReadRequest(l) == At(l, "blocked") /\ Route(l, req[l])

\* So does the end of the stream, and close on macOS.
BlockedReadEnds(l) ==
  /\ At(l, "blocked") /\ data[req[l]] \notin Kinds
  /\ req[l] \in fin \/ (sock[req[l]] = "closed" /\ ~EdgeTriggered)
  /\ Goto(l, "close")
  /\ UNCHANGED <<now, kernelVars, data, acceptVars, chanVars, timerVars, loopVars,
                 poolVars, histVars>>

\* Mutant of GetConn: an empty pool is not waited for.
GetConnWithoutWaiting(l) ==
  /\ At(l, "getConn")
  /\ Goto(l, "query") \/ Goto(l, "queryNull")
  /\ poolFree' = poolFree - 1 /\ lost' = lost
  /\ UNCHANGED <<now, kernelVars, data, acceptVars, chanVars, timerVars, loopVars,
                 histVars>>

\* User::reg and User::login: getConn polls until the pool has a connection.  It
\* answers the ping or is made anew; or the guard has a null connection, and the
\* place in the pool is lost.
GetConn(l) ==
  /\ At(l, "getConn")
  /\ poolFree > 0 /\ poolFree' = poolFree - 1
  /\ \/ Goto(l, "query") /\ lost' = lost
     \/ Goto(l, "queryNull") /\ lost' = lost + 1
  /\ UNCHANGED <<now, kernelVars, data, acceptVars, chanVars, timerVars, loopVars,
                 histVars>>

\* The guard gives the connection back when the query is done.
QueryAndRelease(l) ==
  /\ At(l, "query") /\ Goto(l, "send")
  /\ poolFree' = poolFree + 1 /\ lost' = lost
  /\ UNCHANGED <<now, kernelVars, data, acceptVars, chanVars, timerVars, loopVars,
                 histVars>>

\* The query of a null connection fails, and the guard gives nothing back; or the
\* process dies of it.
QueryNull(l) ==
  /\ At(l, "queryNull")
  /\ \/ Goto(l, "send") /\ exited' = exited
     \/ lpc' = lpc /\ exited' = TRUE
  /\ UNCHANGED <<now, kernelVars, data, apc, acfd, aconn, next, chanVars, timerVars,
                 loopVars, poolVars, histVars>>

\* send fails silently on a closed descriptor or on a socket already shut down.
SendResponse(l) ==
  /\ At(l, "send") /\ Goto(l, "shutdown")
  /\ got' = [c \in Conns |-> IF c = Target(l) /\ c \notin shut
                             THEN got[c] \cup {req[l]} ELSE got[c]]
  /\ UNCHANGED <<now, kernelVars, data, acceptVars, chanVars, timerVars, loopVars,
                 poolVars, stale>>

\* Mutant of ShutdownWrite: the first of two closes.
ShutdownCloses(l) ==
  /\ At(l, "shutdown") /\ Goto(l, "close")
  /\ CloseFd(chanFd[cur[l]])
  /\ UNCHANGED <<now, data, acceptVars, chanVars, timerVars, loopVars, poolVars,
                 histVars>>

ShutdownWrite(l) ==
  /\ At(l, "shutdown") /\ Goto(l, "close")
  /\ shut' = shut \cup ({Target(l)} \ {None})
  /\ UNCHANGED <<now, backlog, sock, fin, fdt, interest, edge, lsnEdge, data,
                 acceptVars, chanVars, timerVars, loopVars, poolVars, histVars>>

\* Mutant of CloseClient: the connection is kept alive after one read.
KeepAlive(l) ==
  /\ At(l, "close") /\ Goto(l, "dispatch")
  /\ cur' = [cur EXCEPT ![l] = None]
  /\ req' = [req EXCEPT ![l] = None]
  /\ UNCHANGED <<now, kernelVars, data, acceptVars, chanVars, timerVars, cutoff, waitVars,
                 active, poolVars, histVars>>

CloseClient(l) ==
  /\ At(l, "close") /\ Goto(l, "dispatch")
  /\ CloseFd(chanFd[cur[l]])
  /\ cur' = [cur EXCEPT ![l] = None]
  /\ req' = [req EXCEPT ![l] = None]
  /\ UNCHANGED <<now, data, acceptVars, chanVars, timerVars, cutoff, waitVars, active,
                 poolVars, histVars>>

-----------------------------------------------------------------------------
Client == \E c \in Conns :
            Connect(c) \/ (\E k \in Kinds : SendRequest(c, k)) \/ Disconnect(c)

Acceptor == AcceptorWake \/ Accept \/ AcceptFails \/ SetNonBlock \/ RunAfter
            \/ AddTimer \/ UpdateChannel

Read(l) == \/ ReadRequest(l) \/ ReadNothing(l) \/ BlockInRead(l)
           \/ BlockedReadRequest(l) \/ BlockedReadEnds(l)

HandleMessage(l) == \/ Read(l) \/ GetConn(l) \/ QueryAndRelease(l) \/ QueryNull(l)
                    \/ SendResponse(l) \/ ShutdownWrite(l) \/ CloseClient(l)

SubReactor(l) == \/ BeginExpire(l) \/ FireTimer(l) \/ EndExpire(l)
                 \/ GetNextExpireMs(l) \/ EnterWait(l) \/ EpollWait(l)
                 \/ HandleRead(l) \/ EndBatch(l) \/ HandleMessage(l)

Next == Client \/ Tick \/ Acceptor \/ \E l \in Loops : SubReactor(l)

Spec == Init /\ [][Next]_vars

\* The threads are scheduled and the clock advances; clients owe nothing.
FairSpec == /\ Spec
            /\ WF_vars(Tick) /\ WF_vars(Acceptor)
            /\ \A l \in Loops : WF_vars(SubReactor(l))

-----------------------------------------------------------------------------
(* What the server keeps true *)

\* The accepting thread has not yet armed the timer of c.
Arming(c) == aconn = c /\ apc \in {"setNonBlock", "runAfter", "addTimer"}

\* The timer of c is in the heap of its loop.
Armed(c) == home[c] \in Loops /\ c \in timers[home[c]]

\* Every open connection has its close timer in the heap of its own loop, from
\* the moment handleNewConnection has armed it: whatever the other timers, the
\* handlers and the reuse of descriptors do, none is ever lost by firing for
\* another connection.
OpenConnHasTimer == \A c \in Conns : sock[c] = "open" /\ ~Arming(c) => Armed(c)

\* An open connection is watched by the epoll instance of the loop its timer
\* lives in and by no other, and a closed one by none, so that the callbacks of
\* one connection never run on two threads.
OpenConnRegistered ==
  /\ \A c \in Conns : sock[c] = "open" /\ aconn # c =>
       home[c] \in Loops /\ c \in interest[home[c]]
  /\ \A l \in Loops : \A c \in interest[l] : sock[c] = "open" /\ home[c] = l

\* A sub-reactor blocked in epoll_wait with a bound oversleeps no timer of its heap by
\* more than the time it was itself held up between getNextExpireMs and epoll_wait, the
\* timers included that were armed after it computed the wait, though runAfter wakes no
\* one: every delay is the same, and the clock and the accepting thread only move
\* forward.
OversleepBounded ==
  \A l \in Loops : lpc[l] = "wait" /\ now < until[l] =>
    \A c \in timers[l] : until[l] <= expire[c] + late[l]

\* A client is never sent the answer to another client's request.
AnswersOwn == \A c \in Conns : got[c] \subseteq {c}

\* However many sub-reactors there are, an answer reaches the wrong client only
\* after some close timer outlived its connection and closed a descriptor that
\* had been handed out again.
MisdeliveryNeedsStaleTimer == ~stale => AnswersOwn

\* c is closed by this step.
Closes(c) == sock[c] = "open" /\ sock'[c] = "closed"

\* Its request was read, its client left, or its own timer is due.
HasReason(c) ==
  data[c] = "read" \/ c \in fin \/ (home[c] \in Loops /\ expire[c] <= now)

ReasonedStep == \A c \in Conns : Closes(c) /\ ~stale' => HasReason(c)

\* Until a timer outlives its connection, a connection is closed only for a
\* reason of its own: its request was read, its client left, or its timer is due.
ClosedForAReason == [][ReasonedStep]_vars

\* The process exits in this step.
ExitStep ==
  ~exited /\ exited' => \/ stale \/ (apc = "register" /\ expire[aconn] <= now)
                        \/ \E l \in Loops : lpc[l] = "queryNull"

\* The whole process goes down, by a failed registration or a query on a null
\* connection, only if a timer outlived its connection, or the accepting thread took
\* longer than the timeout of the connection it was registering, or a reconnection
\* failed: neither the handlers nor the timers of other connections, on whatever
\* thread, close its descriptor before.
ExitedForAReason == [][ExitStep]_vars

\* Edge-triggered and with a single read per event, the server still never
\* sleeps on unread input of an open connection: the edge is unreported, or its
\* channel is in a batch that is being handled.
NoLostEdge ==
  \A l \in Loops : \A c \in interest[l] :
    Pending(c) => c \in edge \cup active[l] \cup {cur[l]}

\* Fewer connections to MySQL are left than there are sub-reactors, so that getConn may
\* have to poll, and with none left for ever.  Nothing brings one back.
Scarce == PoolSize - lost < NumLoops

\* A sub-reactor sleeps in a read of a socket that was not yet non-blocking.
ReadBlocks == \E l \in Loops : lpc[l] = "blocked"

\* Its client has said something, and it is not closed yet; once so, it stays so until
\* it is closed.
Unserved(c) == sock[c] \in {"queued", "open"} /\ data[c] # "unsent"

\* No client that has sent its request stays unserved for ever, whatever the other
\* clients and their timers do: unless the process is gone, or reconnections to MySQL
\* have failed until it is scarce, or the client is not taken from the queue, for want
\* of a descriptor, or a silent client holds a sub-reactor whose handler read the socket
\* before O_NONBLOCK was set.  Needs level-triggered events.
EveryClientServed ==
  \A c \in Conns :
    ~ <>[](/\ Unserved(c) /\ ~ (sock[c] = "queued" /\ FreeFds = {})
           /\ ~ (exited \/ Scarce \/ ReadBlocks))

\* No timer stays in its heap for ever, unless it was armed while its loop was in, or on
\* the way into, a wait without a bound, and that wait does not end; with the same
\* exceptions: the process is gone, getConn may be polling on the thread of a loop, or a
\* read holds one.
DueTimerFires ==
  \A c \in Conns :
    ~ <>[](/\ Armed(c) /\ c \notin missed
           /\ ~ (exited \/ Scarce \/ ReadBlocks))

-----------------------------------------------------------------------------
(* What the comments of the code promise *)

\* EchoServer.cpp:80-81: the timer closes a connection once its 10 seconds are
\* over; one that still waits for its request is not closed before.
NotCutEarly == [][\A c \in Conns : Closes(c) => HasReason(c)]_vars

\* EchoServer.cpp:80: a connection is closed when its 10 seconds are over, even
\* if its client never says anything.
SilentConnClosed ==
  \A c \in Conns :
    (sock[c] = "open" /\ home[c] \in Loops /\ expire[c] <= MaxTime)
      ~> (sock[c] = "closed" \/ exited)
=============================================================================
