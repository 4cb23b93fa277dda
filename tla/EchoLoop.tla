------------------------------ MODULE EchoLoop ------------------------------
(***************************************************************************)
(* The two stand-alone kqueue echo servers of the study notes: one thread, *)
(* one event loop, blocking sockets with level-triggered events            *)
(* (IO多路复用/基础知识+简单epoll.cpp), or non-blocking sockets with EV_CLEAR and   *)
(* loops on accept and on read (IO多路复用/ET epoll.cpp).                         *)
(* et says which of the two programs runs.                                 *)
(*                                                                         *)
(* One action is one system call, or one step of a client or the kernel.   *)
(* A byte is the pair of the client that sent it and its place in what     *)
(* that client sent.  The loop never leaves a batch for lack of space:     *)
(* fewer than MAX_EVENTS descriptors are watched.                          *)
(***************************************************************************)
EXTENDS Integers, Sequences, FiniteSets

CONSTANTS
  Clients,   (* each has one connection at a time                          *)
  Fds,       (* the descriptors left to client sockets                     *)
  MaxSend,   (* bound: bytes of a client that are numbered apart           *)
  BufSize,   (* bytes one read takes, BUF_SIZE - 1                         *)
  Room,      (* bytes on the way to a client that has not read them        *)
  Backlog,   (* length of the listen queue                                 *)
  Listen,    (* the listening socket                                       *)
  None       (* no client, no descriptor                                   *)

ASSUME EchoAssumption ==
  /\ MaxSend \in Nat /\ BufSize \in Nat \ {0}
  /\ Room \in Nat \ {0} /\ Backlog \in Nat \ {0}
  /\ None \notin Clients \cup Fds \cup {Listen} /\ Listen \notin Fds

VARIABLES
  et,        (* the program: edge-triggered, or level-triggered            *)
  pc,        (* where it is                                                *)
  batch,     (* events of the last kevent not handled yet                  *)
  cur,       (* client_fd or fd, the descriptor being handled              *)
  buf,       (* bytes read and not written yet                             *)
  fdt,       (* the client behind a descriptor, or None                    *)
  interest,  (* client descriptors with an event in the kqueue             *)
  fired,     (* sources activated since they were reported  (EV_CLEAR)     *)
  queue,     (* clients waiting for accept                                 *)
  phase,     (* idle, queued, aborted (while queued), open, closed         *)
  end,       (* how the client ended its sending: no, fin, rst             *)
  inbox,     (* number of bytes received and not read                      *)
  taken,     (* number of bytes the server has read, since all was echoed  *)
  echo,      (* the bytes sent back to the client                          *)
  got,       (* how many of them the client has read                       *)
  short,     (* history: clients to which a write was cut short            *)
  refused    (* history: the last accept failed                            *)

clientVars == <<phase, end, inbox, got>>
sockVars   == <<fdt, interest, fired, queue>>
histVars   == <<short, refused>>
serverVars == <<et, pc, batch, cur, buf, taken, echo, histVars>>
vars == <<serverVars, sockVars, clientVars>>

Sources == Fds \cup {Listen}
Bytes   == Clients \X Nat
Gone    == pc \in {"exited", "killed"}
Running == ~Gone /\ pc # "start"

LoopTypeOK ==
  /\ et \in BOOLEAN /\ refused \in BOOLEAN /\ short \in SUBSET Clients
  /\ pc \in {"start", "loop", "accept", "register", "read", "write", "exited", "killed"}
  /\ batch \in SUBSET Sources /\ fired \in SUBSET Sources
  /\ cur \in Fds \cup {None} /\ interest \in SUBSET Fds

SocketTypeOK ==
  /\ fdt \in [Fds -> Clients \cup {None}]
  /\ queue \in Seq(Clients)
  /\ phase \in [Clients -> {"idle", "queued", "aborted", "open", "closed"}]
  /\ end \in [Clients -> {"no", "fin", "rst"}]

DataTypeOK ==
  /\ inbox \in [Clients -> Nat] /\ taken \in [Clients -> Nat]
  /\ got \in [Clients -> Nat]
  /\ buf \in Seq(Bytes) /\ echo \in [Clients -> Seq(Bytes)]

TypeOK == LoopTypeOK /\ SocketTypeOK /\ DataTypeOK

Init ==
  /\ et \in BOOLEAN /\ pc = "start"
  /\ batch = {} /\ cur = None /\ buf = <<>>
  /\ fdt = [f \in Fds |-> None] /\ interest = {} /\ fired = {} /\ queue = <<>>
  /\ phase = [c \in Clients |-> "idle"] /\ end = [c \in Clients |-> "no"]
  /\ inbox = [c \in Clients |-> 0] /\ taken = [c \in Clients |-> 0]
  /\ echo = [c \in Clients |-> <<>>] /\ got = [c \in Clients |-> 0]
  /\ short = {} /\ refused = FALSE

-----------------------------------------------------------------------------
(* The kernel *)

\* read would not block; or, for the listening socket, accept would not.
Ready(s) == \/ s = Listen /\ queue # <<>>
            \/ s \in interest /\ (inbox[fdt[s]] > 0 \/ end[fdt[s]] # "no")

\* Something happened to the connection of c.
Activate(c) == fired' = IF et THEN fired \cup {f \in interest : fdt[f] = c} ELSE fired

FreeFds == {f \in Fds : fdt[f] = None}

\* EV_DELETE and close(f): what was not read is gone.
CloseFd(f) ==
  /\ phase' = [phase EXCEPT ![fdt[f]] = "closed"]
  /\ inbox' = [inbox EXCEPT ![fdt[f]] = 0]
  /\ fdt' = [fdt EXCEPT ![f] = None]
  /\ interest' = interest \ {f} /\ fired' = fired \ {f}
  /\ UNCHANGED <<queue, end, got>>

-----------------------------------------------------------------------------
(* Clients *)

\* The bytes of c are numbered from 1 again.
NumberAnew(c) ==
  /\ taken' = [taken EXCEPT ![c] = 0] /\ echo' = [echo EXCEPT ![c] = <<>>]
  /\ got' = [got EXCEPT ![c] = 0] /\ short' = short \ {c}

\* A new client, or one that was closed and comes back.
Connect(c) ==
  /\ Running /\ phase[c] \in {"idle", "closed"} /\ Len(queue) < Backlog
  /\ phase' = [phase EXCEPT ![c] = "queued"] /\ end' = [end EXCEPT ![c] = "no"]
  /\ queue' = Append(queue, c)
  /\ fired' = IF et THEN fired \cup {Listen} ELSE fired
  /\ NumberAnew(c)
  /\ UNCHANGED <<et, pc, batch, cur, buf, refused, fdt, interest, inbox>>

\* A client may send before it is accepted.
Send(c) ==
  /\ Running /\ phase[c] \in {"queued", "open"} /\ end[c] = "no"
  /\ taken[c] + inbox[c] < MaxSend
  /\ inbox' = [inbox EXCEPT ![c] = @ + 1]
  /\ Activate(c)
  /\ UNCHANGED <<serverVars, fdt, interest, queue, phase, end, got>>

Finish(c) ==
  /\ Running /\ phase[c] \in {"queued", "open"} /\ end[c] = "no"
  /\ end' = [end EXCEPT ![c] = "fin"]
  /\ Activate(c)
  /\ UNCHANGED <<serverVars, fdt, interest, queue, phase, inbox, got>>

\* The connection is reset; what was not read yet may be lost with it.
Reset(c) ==
  /\ Running /\ phase[c] = "open" /\ end[c] # "rst"
  /\ end' = [end EXCEPT ![c] = "rst"]
  /\ inbox' \in {inbox, [inbox EXCEPT ![c] = 0]}
  /\ Activate(c)
  /\ UNCHANGED <<serverVars, fdt, interest, queue, phase, got>>

\* The sequence q without its i-th element.
Without(q, i) == [j \in 1 .. Len(q) - 1 |-> IF j < i THEN q[j] ELSE q[j + 1]]

\* A reset before accept: the kernel takes the connection off the queue, or
\* leaves it there for accept to fail on.
Abort(c) ==
  /\ Running /\ phase[c] = "queued"
  /\ phase' = [phase EXCEPT ![c] = "aborted"]
  /\ \/ UNCHANGED queue
     \/ \E i \in DOMAIN queue : queue[i] = c /\ queue' = Without(queue, i)
  /\ UNCHANGED <<serverVars, fdt, interest, fired, end, inbox, got>>

\* The server has bytes of c in its buffer.
Buffered(c) == pc \in {"write", "killed"} /\ fdt[cur] = c

\* One more byte of the echo.  Once nothing of what the server read is on its way any
\* more, the count starts anew: there is no end to what a client may send.
Receive(c) ==
  /\ Running /\ phase[c] = "open" /\ got[c] < Len(echo[c])
  /\ IF got[c] + 1 = Len(echo[c]) /\ ~Buffered(c)
     THEN NumberAnew(c)
     ELSE got' = [got EXCEPT ![c] = @ + 1] /\ UNCHANGED <<taken, echo, short>>
  /\ UNCHANGED <<et, pc, batch, cur, buf, refused, sockVars, phase, end, inbox>>

-----------------------------------------------------------------------------
(* The event loop, the same in both programs but for the kernel's reports  *)

\* socket, bind, listen, kqueue and EV_ADD of the listening socket.
StartLevel ==
  /\ pc = "start" /\ ~et /\ pc' = "loop"
  /\ UNCHANGED <<et, batch, cur, buf, sockVars, clientVars, taken, echo, histVars>>

StartEdge ==
  /\ pc = "start" /\ et /\ pc' = "loop"
  /\ UNCHANGED <<et, batch, cur, buf, sockVars, clientVars, taken, echo, histVars>>

\* Any of these calls, or kevent in the loop, fails: what is open is closed and
\* main returns.
Exit ==
  /\ pc = "start" \/ (pc = "loop" /\ batch = {})
  /\ pc' = "exited"
  /\ UNCHANGED <<et, batch, cur, buf, sockVars, clientVars, taken, echo, histVars>>

\* Level-triggered: kevent returns every source that is ready.
WaitLevel ==
  /\ pc = "loop" /\ batch = {} /\ ~et
  /\ batch' = {s \in Sources : Ready(s)} /\ batch' # {}
  /\ UNCHANGED <<et, pc, cur, buf, sockVars, clientVars, taken, echo, histVars>>

\* EV_CLEAR: it returns those that were activated since they were last returned
\* and are ready, and forgets that they were.
WaitEdge ==
  /\ pc = "loop" /\ batch = {} /\ et
  /\ batch' = {s \in fired : Ready(s)} /\ batch' # {}
  /\ fired' = {}
  /\ UNCHANGED <<et, pc, cur, buf, fdt, interest, queue, clientVars, taken, echo,
                 histVars>>

\* The next event of the batch.
Dispatch ==
  /\ pc = "loop"
  /\ \E s \in batch :
       /\ batch' = batch \ {s}
       /\ IF s = Listen THEN pc' = "accept" /\ cur' = None
                        ELSE pc' = "read" /\ cur' = s
  /\ UNCHANGED <<et, buf, sockVars, clientVars, taken, echo, histVars>>

-----------------------------------------------------------------------------
(* A new client *)

\* accept hands out a free descriptor for the first client in the queue.
AcceptHead ==
  /\ pc = "accept" /\ queue # <<>> /\ phase[Head(queue)] = "queued"
  /\ \E f \in FreeFds : cur' = f /\ fdt' = [fdt EXCEPT ![f] = Head(queue)]
  /\ phase' = [phase EXCEPT ![Head(queue)] = "open"]
  /\ queue' = Tail(queue)
  /\ pc' = "register" /\ refused' = FALSE
  /\ UNCHANGED <<et, batch, buf, interest, fired, end, inbox, got, taken, echo,
                 short>>

\* accept fails: the process or the system has no descriptor to give, or the
\* client is gone.  Both programs go back to the loop.
AcceptError ==
  /\ pc = "accept" /\ queue # <<>> /\ pc' = "loop" /\ refused' = TRUE
  /\ \/ UNCHANGED queue
     \/ phase[Head(queue)] = "aborted" /\ queue' = Tail(queue)
  /\ UNCHANGED <<et, batch, cur, buf, fdt, interest, fired, clientVars, taken, echo,
                 short>>

\* Level-triggered: one accept for an event, which blocks on an empty queue.
AcceptOne == ~et /\ AcceptHead

AcceptOneFails == ~et /\ AcceptError

\* Edge-triggered: accept until there is no one left, or until any error.
AcceptAll == et /\ AcceptHead

AcceptAllFails == et /\ AcceptError

AcceptedAll ==
  /\ et /\ pc = "accept" /\ queue = <<>>
  /\ pc' = "loop" /\ refused' = FALSE
  /\ UNCHANGED <<et, batch, cur, buf, sockVars, clientVars, taken, echo, short>>

\* Mutant of Register: the new descriptor is never added to the kqueue.
NotRegistered(next) ==
  /\ pc = "register" /\ pc' = next /\ cur' = None
  /\ UNCHANGED <<et, batch, buf, sockVars, clientVars, taken, echo, histVars>>

\* EV_ADD of the new descriptor, which activates it if there is something to
\* read; if it fails the client is closed.
Register(next) ==
  /\ pc = "register" /\ pc' = next /\ cur' = None
  /\ \/ /\ interest' = interest \cup {cur}
        /\ fired' = IF et /\ (inbox[fdt[cur]] > 0 \/ end[fdt[cur]] # "no")
                    THEN fired \cup {cur} ELSE fired
        /\ UNCHANGED <<fdt, queue, clientVars>>
     \/ CloseFd(cur)
  /\ UNCHANGED <<et, batch, buf, taken, echo, histVars>>

RegisterOne == ~et /\ Register("loop")
RegisterAll == et /\ Register("accept")

-----------------------------------------------------------------------------
(* A client with something to read *)

Smaller(m, n) == IF m < n THEN m ELSE n

\* Mutant of ReadBytes: every read is taken to fill the buffer.
ReadBytesFull ==
  LET c == fdt[cur]
      n == BufSize
  IN  /\ pc = "read" /\ inbox[c] > 0 /\ pc' = "write"
      /\ buf' = [i \in 1 .. n |-> <<c, taken[c] + i>>]
      /\ inbox' = [inbox EXCEPT ![c] = @ - n]
      /\ taken' = [taken EXCEPT ![c] = @ + n]
      /\ UNCHANGED <<et, batch, cur, sockVars, phase, end, got, echo, histVars>>

\* read takes what fits into the buffer.
ReadBytes ==
  LET c == fdt[cur]
      n == Smaller(inbox[c], BufSize)
  IN  /\ pc = "read" /\ inbox[c] > 0 /\ pc' = "write"
      /\ buf' = [i \in 1 .. n |-> <<c, taken[c] + i>>]
      /\ inbox' = [inbox EXCEPT ![c] = @ - n]
      /\ taken' = [taken EXCEPT ![c] = @ + n]
      /\ UNCHANGED <<et, batch, cur, sockVars, phase, end, got, echo, histVars>>

\* End of stream, or an error: the client is closed.
ReadEnd ==
  /\ pc = "read" /\ inbox[fdt[cur]] = 0 /\ end[fdt[cur]] # "no"
  /\ CloseFd(cur) /\ cur' = None /\ pc' = "loop"
  /\ UNCHANGED <<et, batch, buf, taken, echo, histVars>>

\* Level-triggered: one read for an event, which blocks if there is nothing.
ReadOnce == ~et /\ (ReadBytes \/ ReadEnd)

\* Edge-triggered: read until EAGAIN.
ReadAgain == et /\ (ReadBytes \/ ReadEnd)

ReadAll ==
  /\ et /\ pc = "read" /\ inbox[fdt[cur]] = 0 /\ end[fdt[cur]] = "no"
  /\ pc' = "loop" /\ cur' = None
  /\ UNCHANGED <<et, batch, buf, sockVars, clientVars, taken, echo, histVars>>

Space(c) == Room - (Len(echo[c]) - got[c])

\* Puts the first n bytes of the buffer on their way to c.
Put(c, n) == echo' = [echo EXCEPT ![c] = @ \o SubSeq(buf, 1, n)]

\* Mutant of WriteAll: what is left is written from the start of the buffer.
WriteAllFromStart ==
  LET c == fdt[cur]
      n == Smaller(Len(buf), Space(c))
  IN  /\ ~et /\ pc = "write" /\ end[c] # "rst" /\ n > 0
      /\ Put(c, n)
      /\ buf' = SubSeq(buf, 1, Len(buf) - n)
      /\ IF n = Len(buf) THEN pc' = "loop" /\ cur' = None ELSE UNCHANGED <<pc, cur>>
      /\ UNCHANGED <<et, batch, sockVars, clientVars, taken, histVars>>

\* Mutant of WriteAll: the program reads on, as with a non-blocking socket.
WriteAllThenRead ==
  LET c == fdt[cur]
      n == Smaller(Len(buf), Space(c))
  IN  /\ ~et /\ pc = "write" /\ end[c] # "rst" /\ n > 0
      /\ Put(c, n)
      /\ buf' = SubSeq(buf, n + 1, Len(buf))
      /\ IF n = Len(buf) THEN pc' = "read" ELSE UNCHANGED pc
      /\ UNCHANGED <<et, batch, cur, sockVars, clientVars, taken, histVars>>

\* Level-triggered: the write blocks until the client has made room for all.
WriteAll ==
  LET c == fdt[cur]
      n == Smaller(Len(buf), Space(c))
  IN  /\ ~et /\ pc = "write" /\ end[c] # "rst" /\ n > 0
      /\ Put(c, n)
      /\ buf' = SubSeq(buf, n + 1, Len(buf))
      /\ IF n = Len(buf) THEN pc' = "loop" /\ cur' = None ELSE UNCHANGED <<pc, cur>>
      /\ UNCHANGED <<et, batch, sockVars, clientVars, taken, histVars>>

\* Mutant of WriteSome: one read for an event though events come once.
WriteSomeOnce ==
  LET c == fdt[cur]
      n == Smaller(Len(buf), Space(c))
  IN  /\ et /\ pc = "write" /\ end[c] # "rst"
      /\ Put(c, n)
      /\ short' = IF n < Len(buf) THEN short \cup {c} ELSE short
      /\ buf' = <<>> /\ pc' = "loop" /\ cur' = None
      /\ UNCHANGED <<et, batch, sockVars, clientVars, taken, refused>>

\* Edge-triggered: the write takes what there is room for, and its result is
\* ignored; then the next read.
WriteSome ==
  LET c == fdt[cur]
      n == Smaller(Len(buf), Space(c))
  IN  /\ et /\ pc = "write" /\ end[c] # "rst"
      /\ Put(c, n)
      /\ short' = IF n < Len(buf) THEN short \cup {c} ELSE short
      /\ buf' = <<>> /\ pc' = "read"
      /\ UNCHANGED <<et, batch, cur, sockVars, clientVars, taken, refused>>

\* A write on a connection that was reset raises SIGPIPE, which no one handles.
BrokenPipe ==
  /\ pc = "write" /\ end[fdt[cur]] = "rst"
  /\ pc' = "killed"
  /\ UNCHANGED <<et, batch, cur, buf, sockVars, clientVars, taken, echo, histVars>>

-----------------------------------------------------------------------------
Client == \E c \in Clients : \/ Connect(c) \/ Send(c) \/ Finish(c) \/ Reset(c)
                             \/ Abort(c) \/ Receive(c)

Level == \/ StartLevel \/ WaitLevel \/ AcceptOne \/ AcceptOneFails \/ RegisterOne
         \/ ReadOnce \/ WriteAll

Edge == \/ StartEdge \/ WaitEdge \/ AcceptAll \/ AcceptAllFails \/ AcceptedAll
        \/ RegisterAll \/ ReadAgain \/ ReadAll \/ WriteSome

Server == Level \/ Edge \/ Dispatch \/ BrokenPipe

Next == Client \/ Server \/ Exit

Spec == Init /\ [][Next]_vars

\* The program is scheduled; clients owe nothing and kevent need not fail.
FairSpec == Spec /\ WF_vars(Server)

-----------------------------------------------------------------------------
(* What the programs keep true *)

\* The bytes of s are c's, in the order sent, and among the first k.
InOrder(c, s, k) ==
  \A i \in 1 .. Len(s) : /\ s[i][1] = c /\ s[i][2] \in 1 .. k
                         /\ \A j \in 1 .. i - 1 : s[j][2] < s[i][2]

\* The bytes of s are those that c sent after the first k, without a gap.
FromOn(c, s, k) == \A i \in 1 .. Len(s) : s[i] = <<c, k + i>>

\* Whatever arrives, closes and is accepted in between, the bytes a client gets
\* back are its own, in the order it sent them; and as long as no write to it was
\* cut short, they are everything the server read, without a gap.
EchoIsFaithful ==
  \A c \in Clients :
    /\ InOrder(c, echo[c], taken[c])
    /\ c \notin short =>
         /\ FromOn(c, echo[c], 0)
         /\ Len(echo[c]) = taken[c] \/ Buffered(c)

\* What the program is doing about s already.
Serving(s) == \/ s \in batch
              \/ s = Listen /\ pc \in {"accept", "register"}
              \/ s = cur /\ pc \in {"read", "write"}

\* Edge-triggered events are told once, yet the loop never sleeps on a client with
\* something to read, nor on a waiting one unless accept failed: it is watched,
\* and its event is still to come, in the batch, or being handled.
NothingForgotten ==
  Running =>
    /\ \A f \in Fds : fdt[f] # None => f \in interest \/ (pc = "register" /\ f = cur)
    /\ et => \A f \in interest : Ready(f) => f \in fired \/ Serving(f)
    /\ et /\ ~refused /\ Ready(Listen) => Listen \in fired \/ Serving(Listen)

\* An event is still true when its turn comes, though other clients of the batch
\* were closed and new ones got their descriptors meanwhile: so the blocking read
\* never blocks the loop, and the blocking accept only if a client took back its
\* connection while it was queued.
EventsStayTrue ==
  /\ \A f \in batch \ {Listen} : Ready(f)
  /\ ~et /\ pc = "read" => Ready(cur)
  /\ ~et /\ pc = "accept" /\ queue = <<>> => \E c \in Clients : phase[c] = "aborted"

\* The single thread sits in a blocking call.
Held == ~et /\ \/ pc = "accept" /\ queue = <<>>
               \/ pc = "write" /\ Space(fdt[cur]) = 0 /\ end[fdt[cur]] # "rst"

\* The edge-triggered thread is in its loop over accept, or over read.
InInnerLoop == et /\ pc \in {"accept", "register", "read", "write"}

\* Bytes of c were read just now.
Heard(c) == pc = "write" /\ fdt[cur] = c

\* However much the others send, and however often they come back, a client that sends
\* is read and a waiting one is accepted: unless one of them holds the blocking server,
\* or feeds a loop over read or accept of the other one, for ever, or the program is
\* gone, or accept failed.
EveryoneHeard ==
  \/ <>[]Held \/ <>[]InInnerLoop
  \/ \A c \in Clients :
       /\ (phase[c] = "open" /\ inbox[c] > 0) ~> (Heard(c) \/ inbox[c] = 0 \/ Gone)
       /\ (phase[c] = "queued") ~> (phase[c] # "queued" \/ refused \/ Gone)

-----------------------------------------------------------------------------
(* The inductive invariant                                                 *)

\* The descriptors of the clients, and the clients in the queue, each once.
SocketInv ==
  /\ \A f \in Fds : fdt[f] # None => phase[fdt[f]] = "open"
  /\ \A f, g \in Fds : fdt[f] # None /\ fdt[f] = fdt[g] => f = g
  /\ \A i \in DOMAIN queue : phase[queue[i]] \in {"queued", "aborted"}
  /\ \A i, j \in DOMAIN queue : queue[i] = queue[j] => i = j

\* What is watched, activated, reported and being handled.
LoopInv ==
  /\ pc = "start" => queue = <<>> /\ \A f \in Fds : fdt[f] = None
  /\ \A f \in interest : fdt[f] # None
  /\ fired \subseteq interest \cup {Listen} /\ batch \subseteq interest \cup {Listen}
  /\ cur # None <=> pc \in {"register", "read", "write", "killed"}
  /\ cur # None => fdt[cur] # None /\ cur \notin batch
  /\ cur \in interest <=> pc \in {"read", "write", "killed"}
  /\ pc \in {"accept", "register"} => Listen \notin batch
  /\ pc \in {"start", "exited"} => batch = {}

\* The buffer holds the last bytes read, and what was written comes before them.
BufferInv ==
  pc \in {"write", "killed"} =>
    LET c == fdt[cur]
        done == taken[c] - Len(buf)
    IN  /\ done \in Nat /\ FromOn(c, buf, done) /\ InOrder(c, echo[c], done)
        /\ c \notin short => Len(echo[c]) = done

\* No more is on its way to a client than there is room for.
WindowInv == \A c \in Clients : Len(echo[c]) - got[c] \in 0 .. Room

\* A blocking accept was called for a client that was in the queue.
AcceptInv ==
  ~et /\ (Listen \in batch \/ pc = "accept") /\ queue = <<>> =>
    \E c \in Clients : phase[c] = "aborted"

IInv == /\ TypeOK /\ SocketInv /\ LoopInv /\ BufferInv /\ WindowInv /\ AcceptInv
        /\ EchoIsFaithful /\ NothingForgotten /\ EventsStayTrue
=============================================================================
