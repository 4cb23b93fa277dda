------------------------------ MODULE ReactorInv ------------------------------
(***************************************************************************)
(* The inductive invariant of Reactor: what the safety properties rest on. *)
(* TLC checks it on small instances, ReactorProofs proves it.              *)
(***************************************************************************)
EXTENDS Reactor

Handling == {"read", "blocked", "getConn", "query", "queryNull", "send", "shutdown",
             "close"}
HasReq   == {"blocked", "getConn", "query", "queryNull", "send"}
Arrived  == {"setNonBlock", "runAfter", "addTimer", "register"}

\* The descriptor table and the open sockets are two views of one bijection.
FdInv ==
  /\ \A f \in Fds : fdt[f] # None => sock[fdt[f]] = "open" /\ chanFd[fdt[f]] = f
  /\ \A c \in Conns : sock[c] = "open" => chanFd[c] \in Fds /\ fdt[chanFd[c]] = c

\* The listen queue holds the queued connections, each once.
BacklogInv ==
  /\ \A i \in DOMAIN backlog : sock[backlog[i]] = "queued"
  /\ \A i, j \in DOMAIN backlog : backlog[i] = backlog[j] => i = j

\* A connection not accepted yet is known nowhere.
FreshInv ==
  \A c \in Conns : sock[c] \in {"new", "queued"} =>
    /\ aconn # c /\ home[c] = None
    /\ \A l \in Loops : c \notin timers[l] /\ c \notin interest[l]

\* The connection in the hands of the accepting thread.
AcceptInv ==
  /\ apc \in Arrived <=> aconn # None
  /\ aconn # None => /\ acfd = chanFd[aconn] /\ acfd \in Fds
                     /\ fdt[acfd] \in {aconn, None}
                     /\ home[aconn] \in Loops <=> apc \in {"addTimer", "register"}
                     /\ \A l \in Loops : aconn \notin interest[l]
                     /\ Arming(aconn) => \A l \in Loops : aconn \notin timers[l]

\* Timers live in the heap of their connection's loop, with a descriptor.
TimerInv ==
  \A l \in Loops : \A c \in timers[l] : home[c] = l /\ chanFd[c] \in Fds

\* Channels are watched by their connection's loop, with a descriptor.
WatchInv ==
  /\ OpenConnRegistered
  /\ \A l \in Loops : \A c \in interest[l] \cup active[l] : chanFd[c] \in Fds

\* A sub-reactor is handling a channel exactly while it is in handleMessage.
CurInv ==
  \A l \in Loops :
    /\ lpc[l] \in Handling <=> cur[l] # None
    /\ cur[l] # None => chanFd[cur[l]] \in Fds
    /\ lpc[l] \in HasReq => req[l] # None
    /\ lpc[l] \notin Handling \cup {"dispatch"} => active[l] = {}

\* Deadlines: never further away than Timeout, and in the order of arming.
DeadlineInv ==
  /\ \A l \in Loops :
       /\ cutoff[l] <= now
       /\ \A c \in timers[l] : /\ expire[c] <= now + Timeout
                               /\ apc = "addTimer" => expire[c] <= expire[aconn]
  /\ apc = "addTimer" => expire[aconn] <= now + Timeout

\* The wait that l is about to make, were it made when it was computed, and the wait
\* that it makes, but for the time l was held up, go past no timer due at t.
Covers(l, t) ==
  /\ lpc[l] = "enter" /\ waitMs[l] > 0 => asked[l] + waitMs[l] <= t
  /\ lpc[l] = "wait" /\ now < until[l] => until[l] <= t + late[l]

\* Nor past the timer that is being armed, or any that is armed from now on.
WaitInv ==
  \A l \in Loops :
    /\ asked[l] <= now
    /\ \A c \in timers[l] : Covers(l, expire[c])
    /\ apc = "addTimer" => Covers(l, expire[aconn])
    /\ Covers(l, now + Timeout)

\* As long as no timer outlived its connection, a handler works on an open connection
\* of its own loop, which had something to read, and answers it.
OwnInv ==
  ~stale => \A l \in Loops :
    /\ active[l] \subseteq interest[l] \ {cur[l]}
    /\ \A c \in active[l] : Pending(c)
    /\ cur[l] # None => cur[l] \in interest[l]
    /\ lpc[l] # "blocked" /\ (lpc[l] = "read" => Pending(cur[l]))
    /\ lpc[l] \in HasReq => req[l] = cur[l]
    /\ lpc[l] \in Handling \ {"read"} => data[cur[l]] = "read" \/ cur[l] \in fin

\* As long as no timer outlived its connection, the descriptor in the hands of the
\* accepting thread is open, or its own timer was overdue and closed it.
ArrivingInv ==
  ~stale /\ aconn # None /\ fdt[acfd] = None => apc = "register" /\ expire[aconn] <= now

IInv == /\ TypeOK /\ FdInv /\ BacklogInv /\ FreshInv /\ AcceptInv /\ TimerInv
        /\ WatchInv /\ CurInv /\ DeadlineInv /\ WaitInv /\ OwnInv /\ ArrivingInv
        /\ OpenConnHasTimer /\ MisdeliveryNeedsStaleTimer
        /\ (EdgeTriggered => NoLostEdge)

-----------------------------------------------------------------------------
\* The timers of a loop, as a TimerManager promises them (TimerHeap keeps the promise):
\* a round is in progress while the loop runs its callbacks, and the wait handed out is
\* the loop's until it goes to wait.
TimersOf(l) ==
  INSTANCE TimerSet WITH
    Timers <- Conns, TicksPerMs <- 1, NoTime <- Forever, armed <- timers[l],
    cutoff <- IF lpc[l] = "expire" THEN cutoff[l] ELSE Forever,
    waitMs <- IF lpc[l] = "enter" THEN waitMs[l] ELSE Forever

\* Each loop arms and fires its timers as the promise has it: a round fires what is due
\* of its own timers, the earliest first and nothing else, no timer is armed, and no
\* deadline of an armed timer moved, in the middle of a round, and a wait handed out
\* ends no later than the earliest timer of that moment.
ImplementsTimers == \A l \in Loops : TimersOf(l)!SetSpec
=============================================================================
