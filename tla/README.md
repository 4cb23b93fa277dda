# A TLA+ model of EchoServer

This directory holds TLA+ specifications of the C++ HTTP server in this
repository, the TLC configurations that check them, and TLAPS proofs of their
main properties. Paths such as `EchoServer.cpp:82` are relative to `src/src/`.

| module | what it is |
|---|---|
| `Reactor` | the running server: accept, three sub-reactors, close timers, descriptors, request handler |
| `ReactorInv`, `ReactorProofs` | its inductive invariant, and the proofs |
| `ConnectionPool` | the MySQL pool: `init`, `getConn`, the guard, `close` |
| `ConnLease`, `ConnectionPoolProofs` | what the pool promises, and the proofs |
| `ThreadPool` | workers, `addTask`, the destructor |
| `TaskQueue`, `ThreadPoolProofs` | what the worker pool promises, and the proofs |
| `TimerHeap` | `TimerManager`: the binary heap and its mutex |
| `TimerSet`, `TimerHeapProofs` | what the timer manager promises, and the proofs |
| `HttpRequest`, `HttpRequestProofs` | the incremental parser, and the proofs |
| `HttpExchange`, `HttpExchangeProofs` | one connection from its first byte to its close: read, parse, route, answer, send; and the proofs |
| `Buffer` | the network buffer: a vector and two indices |
| `ByteQueue`, `BufferProofs` | what the buffer promises, and the proofs |
| `EchoLoop`, `EchoLoopProofs` | the two stand-alone kqueue echo servers of the study notes, and the proofs |
| `MC*` | what TLC needs besides: symmetry sets, sets of inputs |

`HttpExchange` extends `HttpRequest`: its handler runs the parser's own actions.
`Reactor` uses the timer managers as `TimerSet` describes them (`TimersAsPromised` in
section 5), the MySQL pool as a counter that failed
reconnections lower, and requests as a kind; `TimerHeap`,
`ConnectionPool` and `HttpExchange` have them in full.

## 1. Inventory

### Components and their state

| component | state | operations | correct when |
|---|---|---|---|
| **EchoServer** (`EchoServer.cpp`) | the three sub-loops, the static counter `next`; a descriptor number captured in two closures per connection | `handleNewConnection` on the main thread, `handleMessage` on a sub-reactor | each client gets the answer to its own request and is closed once: after its answer or after 10 s |
| **EventLoop, Epoll, Channel** | an interest list per loop | `loop`, `runAfter`, `updateChannel`, `wait` | the callbacks of one connection run on one thread; no wait sleeps past a timer or past unread input |
| **TimerManager** (`Timer.cpp`) | a vector kept as a binary heap, a mutex | `addTimer`, `handleExpiredTimers`, `getNextExpireMs` | every timer due fires, the earliest first, none early, none lost |
| **ConnectionPool, ConnectionGuard** | a queue of `MYSQL*`, `closed_`, a mutex | `init`, `getConn`, release by the guard, `close` | a connection is free, or with one thread, or closed |
| **User** | none | `login`, `reg`: one guarded query | the guard is given back on every path |
| **ThreadPool** | task queue, `stop_`, a mutex and a condition variable | `addTask`, `start`, destructor | accepted tasks run once each, in order, before the destructor returns |
| **HttpRequest** | parser state, buffered text, lines, body | `parse`, `reset` | the result does not depend on how the input was cut |
| **HttpResponse** | status, headers, body, the content of a file | `loadFile`, `toString` | the head announces what follows; no file stays open |
| **Buffer** | a vector and two indices | `readFd`, `writeFd`, `append`, `retrieve` | what is read out is what was put in |
| **Echo servers** (`knowledge/网络编程相关内容/IO多路复用/`) | the kqueue, a batch of events, one buffer | one loop: accept, read, write, close | a client gets back what it sent; no client is forgotten |
| **Socket, InetAddress, Log** | none that outlives a call | thin system calls, lines on stdout | – |

### How they interact

`main` initialises the pool, builds the server, starts three detached threads
(one `EventLoop::loop` each) and runs the accepting loop itself. The accepting
thread calls into a sub-loop twice for each client: `runAfter` (under the mutex
of that loop's timer manager) and `updateChannel` (a system call on its epoll
instance). Neither wakes the sub-loop. A sub-loop runs expired timers, computes
its wait, waits, and runs the read callbacks of a batch; a callback runs the
whole of `handleMessage`, which blocks in `getConn` and in MySQL for an API
request. All threads share the descriptor table of the process. The worker
`ThreadPool` is built and started but is never given a task.

### What is hard here

- A descriptor is an *integer* in two closures, and the kernel hands the lowest
  free number out again. Timers are never cancelled (`delTimer` is empty), so a
  timer outlives its connection by up to ten seconds.
- Timers of one loop, handlers of another and the accepting thread work on the
  same descriptors without a lock.
- `runAfter` on another thread's loop does not interrupt its `epoll_wait`.
- The pool is polled on I/O threads; pings and reconnections run under its mutex
  and may fail; `close()` races with guards.
- Condition-variable wake-ups, one per task, against a stop.
- A heap maintained half by hand and half by the standard library.
- A parser fed with pieces, and a handler that reads and parses once whatever came.
- Calls that fail half-way or do less than asked: a file that changes between
  `open`, `fstat` and `read`; a non-blocking `send` or `write` whose result is
  ignored; a reconnection that leaves a null pointer in a guard.
- Edge-triggered events, which are told once, and blocking calls in a loop that
  many clients share.

The list with lines and properties is `hazards` in `PROJECT.json`.

## 2. The models

### Reactor

One action is one system call, one critical section of a timer manager, or one
step of the kernel, the clock or a client.

- *Kernel*: `fdt` is the descriptor table (number to connection), `sock` the life
  of a connection, `interest[l]` the channels registered with loop `l`'s epoll
  instance, `edge` those with an unreported edge. `CloseFd` is `close(2)`: the
  last descriptor of a socket takes it out of every interest list. `Accept` takes
  the lowest free number. These are external; the map marks them so.
- *Accepting thread* `apc`: wait → accept → setNonBlock → runAfter → addTimer →
  register. A socket blocks from `Accept` to `SetNonBlock` (`Blocking`). `RunAfter`
  computes the deadline and chooses the loop before the lock, `AddTimer` waits for the
  mutex that `handleExpiredTimers` holds through its callbacks, `UpdateChannel` ends
  the process if the descriptor is gone (`Epoll.cpp:128-131`).
- *Sub-reactor* `lpc[l]`: timers → expire → timeout → enter → wait → dispatch, and for
  each channel of the batch read → (getConn → query) → send → shutdown → close.
  Each of these looks its descriptor up again (`Target`), as the system calls do.
  The wait is relative, as in the code: `GetNextExpireMs` leaves a length of time in
  `waitMs`, and `EnterWait`, any time later, counts it from then.
- *The detours of a handler.* A read may hit a socket that still blocks, through a
  number that a stale timer freed and `accept` handed out again: the thread is then
  `blocked` (`BlockInRead`) until that client speaks or leaves, or, on macOS, the
  socket is closed. On Linux a thread keeps the socket it reads alive (`HeldOpen`).
  `GetConn` may end in a failed reconnection: the handler goes on with a null
  connection (`queryNull`), which gives nothing back (`lost`) and may kill the process.
- `waitMs`, `until`, `cutoff`, `active`, `cur`, `req` are the locals of `loop`,
  `handleExpiredTimers` and `handleMessage`; `asked` is when the wait was computed.
- History: `got` and `stale` say whose answers a client got and whether a timer
  has ever closed a descriptor that belonged to another connection; `lost` counts
  failed reconnections, `late` is the time a thread was held up before its wait, and
  `missed` are the timers armed while their loop was in its present unbounded wait.

The build supports macOS only (`CMakeLists.txt`), where the kqueue version
of Epoll is level-triggered; the Linux version in `Epoll.cpp:1-59` is
edge-triggered. `EdgeTriggered` selects between the two.

Left out: the text of requests (a request is *static* or *api*; `Asks` says what each
client may send) and the length of answers, which are in `HttpExchange`, so that a
`send` on a socket caught in the blocking window takes the answer at once (the one page
of `www/` has 5845 bytes); the descriptors of files and MySQL connections (numbers in
`fdt` are those the kernel has left for clients); and clients that reset rather than
close. A connection is used once, so `next` is bounded by `Conns`; they are numbered in
the order they are made. The clock stops at `MaxTime`, but not while a bounded wait is
running, since nothing else would end it. The set-up of the listening socket is the
initial state; the code ignores the result of `bind`, and a server that failed there is
one nobody reaches.

### ConnectionPool and ConnLease

`pool` is the queue, `owner` the thread that holds the mutex across the blocking
calls `mysql_ping` and `mysql_real_connect`, `conn[t]` what a thread or its guard
holds. `SleepWhileEmpty` gives the mutex up, and the thread tries again. A failed
reconnection puts a null pointer in the guard, as line 71 does. `login` and `reg`
test the guard and not what is in it, so the query is sent on the null pointer:
in `QueryNull` it fails and the guard ends without a release, or the process dies
with all its threads. `Close` may come at any time after
`init`: in `main` it follows a loop that never returns, but the destructor of the
singleton runs it when `exit` is called on any thread. `ConnLease` is the
promise: a live connection is free or leased to one thread, a closed one is never
seen again. Threads ask for connections without end; only the connections ever made are
bounded (`MaxHandles`). `MaxConn = 0` is `init` refusing its arguments, which opens
nothing. What a thread does after the singleton is destroyed is undefined and
not modelled.

### ThreadPool and TaskQueue

Each worker step is one critical section or one task; a worker between `test` and
`asleep` releases the mutex and sleeps in one step, as a condition variable does.
`WakeSpuriously` is allowed and nothing relies on it. The destructor sets `stop`
under the mutex, then wakes everybody in a step of its own, then joins.
`start()` writes `stop_` without the mutex, a data race with the workers; the
value it writes is the one `stop_` has, so the outcomes coincide. `TaskQueue` is
the promise: accepted tasks begin in order, each once, and none is left when the
pool is gone.

### TimerHeap and TimerSet

`heap[i]` is `heap_[i-1]`. Each turn of the loop of `siftUp` is an action, with
other threads free to compute deadlines, and the clock to advance, in between.
`PopHeap` is the contract of `std::pop_heap`: *any* heap of the other timers, and
any order at all if the vector was not a heap. Parents are computed as `siftUp`
does (`Parent`) and children as the standard library does (`Children`), so that
their agreement is checked and not assumed. The clock has `TicksPerMs` ticks in a
millisecond, since `getNextExpireMs` casts nanoseconds down. `TimerSet` is the
promise, with no heap: rounds fire what is due, the earliest first, and a wait
passes no timer and is less than a millisecond short of the earliest. `Reactor`
uses the timer managers in this abstract form (`Earliest`, `GetNextExpireMs`).

In the program all delays are equal and one thread arms timers, so that `siftUp`
never swaps; `TimerHeap` allows any delays and any number of callers, which is
what the class offers. `delTimer` does nothing. `siftDown` has no caller, hence no
action; a round of its loop is an operator (`Smallest`, `SiftedDown`), and a theorem
shows that it would restore the heap.

### HttpRequest

The input is a sequence of tokens (a request line, a header line, a
`Content-Length`, `\r`, `\n`, other characters) cut anywhere; one action is the
entry of `parse` or one turn of its loop, with the early returns, the `break`
after the empty line, and errors that stick. The same file defines what the
whole input *means*, with no parser state: `ParsedAsWhole` compares the two, the
body of a finished request (`DoneHasBody`) included. The ends of the lines are the
newlines by their rank (`Ends`), so that no recursion over the text is needed. A
request line is one of three words, and a `\r` parts words as a space does, since
`iss >>` takes it for white space (`WordStarts`).

### HttpExchange

One connection, as `handleMessage` treats it: one `read`, one `parse` (every turn
of it is an action of `HttpRequest`), the routing by the first line, `reg` or
`login` or `loadFile`, `toString`, one `send`, `shutdown`, `close`. Around it the
client sends further pieces, ends its side, leaves or reads, and between the system
calls of `loadFile` others put another file in the place of the name, or take it away
(`ReplaceFile`), or write to the file and cut it (`RewriteFile`): the descriptor stays
with the file that was opened, whatever happens to its name. Lengths stand
for texts: the head of an answer has length 1, a file its size. `Extension` is what
`getContentType` takes from a path. A path that no request line of the model has
(the words of a malformed line) may have any type and any fate but that of an API.
The descriptor is the handler's own throughout; `Reactor` has what becomes of a
descriptor that a timer closes meanwhile.

### Buffer and ByteQueue

The vector with its cells, `readIndex_` and `writeIndex_` as the code counts them.
`readFd` is two actions: what arrived fits into the vector, or the rest went to the
64 KiB on the stack and is appended. `append` is modelled as it is, an insertion at
the *end of the vector* that advances `writeIndex_`: `AppendAt` takes the place and
the index, and `ReadSpills` shows that its one caller fills the vector first.
`ByteQueue` is the promise. No code of the server calls `readFd` or `writeFd`: each
event allocates a `Buffer`, passes it on and deletes it.

### EchoLoop

Both programs in one module: `et` says which one runs. The level-triggered one
has blocking sockets and makes one `accept` or `read` for each event; the
edge-triggered one (`EV_CLEAR`) has non-blocking sockets and loops until `EAGAIN`.
A byte is the pair of its sender and its place in what was sent, so that
`EchoIsFaithful` can tell bytes of two clients apart. Clients may reset, take back
a connection that is still in the queue, and not read; system calls fail where the
code has a branch for it. A blocking call that cannot go on is a state without a
step of the server. A write to a connection that was reset raises SIGPIPE, which
ends the program. The copies of the same servers for epoll stand in comments of the
same files and are not modelled. Clients send, leave and come back without end: once all
that a client sent was echoed and read, the numbers of its bytes begin anew
(`NumberAnew`), so `MaxSend` bounds only the bytes that must be told apart.

## 3. What is checked

All runs finish; the largest has five million states. Each passing run checks the
safety and liveness properties below, and, as a property, the abstract module
where there is one.

| run | bounds | states | question |
|---|---|---|---|
| `reactor_safety` | 3 clients, 2 descriptors, 2 loops, timeout 1, 1 MySQL connection, edge-triggered | 5.1 M | do timers, interest lists, descriptors and unread input stay consistent; how far does a wait oversleep; does nothing go astray, and does the process not exit, before a timer is stale? |
| `reactor_served` | 3 clients, 1 descriptor, 2 loops, 2 MySQL connections, level-triggered, fair | 1.0 M | is a client that has spoken closed in the end, and does a due timer fire? |
| `pool` | 3 threads that ask without end, 3 connections, 5 ever made, failures, close at any time, fair | 29 k | is a connection ever lost, shared, revived or in excess? do polling threads get one? |
| `threads` | 3 workers, 3 tasks, stop at any time, fair | 8 k | are wake-ups enough, tasks in order, and does the destructor return? |
| `timers` | 4 timers, delays 0–2 ms, 2 ticks per ms, clock to 4 | 634 k | does the vector act as the abstract set, in each interleaving of sift-ups, pops and callers? |
| `http_parse` | any text to 5 tokens; requests to 2 headers and 3 characters after them; any cuts | HTTPSTATES | does the result depend on the cuts? is the body right? |
| `exchange` | 8 requests in any pieces, a read of 8 characters, room for 2, files to size 2, fair | 2.0 M | what do one read, one parse and one send still guarantee? does the handler come to its end? |
| `buffer` | 14 bytes, a vector of 4, an overflow of 3 | 680 | is the buffer a queue of bytes, within its vector? |
| `echo` | 2 clients that send and come back without end, 2 descriptors, 3 bytes told apart, reads of 2, room for 1, both programs, fair | 546 k | is the echo what was sent? is a client or an event forgotten? who can keep the others unheard? |
| `reactor_cut_early`, `reactor_silent`, `exchange_post` | see the configurations | – | counterexamples to what comments and documents say (section 4) |

What the less obvious properties mean:

- `OversleepBounded`: a bounded wait ends at most `late` after each timer of the loop,
  those armed meanwhile included: by the time the thread was itself held up between
  `getNextExpireMs` and `epoll_wait`, and no more. `late` is not zero in general: the
  code passes a length of time and not a moment.
- `ExitedForAReason`: a registration fails, and takes the process down, only after
  a stale timer or if the accepting thread took longer than the timeout; else the
  process dies of a null connection only.
- `NoLostEdge`: edge-triggered with one read per event, unread input of a watched
  connection has its edge unreported or its channel in a batch.
- `NeverOverfull`: connections in the pool, in hands and *null connections in use*
  together never exceed `max_conn`.
- `EveryClientServed`, `DueTimerFires`: no client stays unserved for ever, and no timer
  in its heap, with the exceptions that the code has: the process is gone; failed
  reconnections have left fewer MySQL connections than sub-reactors (`Scarce`); a
  silent client holds a thread that read its socket before `fcntl` (`ReadBlocks`); a
  client in the queue finds no descriptor; a timer was armed in an unbounded wait that
  does not end (`missed`). Without `Scarce` both are violated in `reactor_served`, and
  `DueTimerFires` is also violated without `ReadBlocks` or `missed`: the instance
  reaches these cases. `ReadBlocks` in `EveryClientServed` takes a fourth connection,
  one that waits behind the thread that is held, to be needed; `main`'s pool has 10
  connections for 3 loops, so that `Scarce` takes 8 losses.
- `SomeoneServed`: while connections are left, polling threads go on getting them,
  whoever they are. `EveryWaiterServed`: a single thread is certain to get one only if
  there is one for each thread (`Capacity`); with fewer, the others may ask again and
  again and take each connection before it tries, for it sleeps 5 ms between attempts.
  TLC finds that behaviour when the exception is narrowed to an empty pool.
- `AnsweredByFirstLine`: the database is asked, and a content type chosen, by the
  first line as it came in the first piece; errors and cuts behind it do not matter.
- `FileAsItWas`: an answer with a file announces a length that the *opened* file had at
  some moment, and no more than that file held when it was read; never the length of
  another file under the same name. The answer may still be cut off by `send`.
- `OnePieceIsSafe`: what is left for a client whose request is one piece that fits
  into one read: it is read whole and not reset, and answered whole if there is room.
- `NothingForgotten`, `EventsStayTrue` (`EchoLoop`): an event told once is in the
  kernel, in the batch or being handled; an event in the batch is still true when
  its turn comes, though descriptors were closed and reused before.
- `EveryoneHeard`: unless a client holds the blocking program for ever in one call
  (`Held`: a client that does not read, or one that took back its connection before
  `accept`), or feeds an inner loop of the edge-triggered one for ever (`InInnerLoop`:
  a client that keeps sending while the program reads until `EAGAIN`, or one that keeps
  coming back while its registration fails). Without either exception TLC finds the
  client that is never heard.

Why the bounds suffice. Two loops are what the hazards between loops need, and a
third is another of the same. Three clients on two descriptors make a number be
reused while both an old timer and another handler are alive, with a second connection
open at the same time; on one descriptor they make the third connection take the number
under the handler of the second, which is what the blocking window needs. One tick
separates "before" from "due", and bounded waits make the clock go further. Of three
clients one asks for a page or for the API and two for the API, whose handlers take
every step that a page's takes and more; the counterexample runs let all ask for
anything. Three threads for three connections that can be lost make one poll while two
work, and three poll for one. Four timers give a heap of three levels, so that a sift-up swaps
twice and a parent has two children. Fourteen bytes fill the vector of four, spill,
and spill again into a vector that has grown. Eight requests are whole ones, ones
that break off at each stage of the parser, and ones longer than a read. Two
clients and three bytes with a window of one make writes short, blocked and cut;
two descriptors let one be reused within a batch. Timers are interchangeable where
the configuration uses symmetry; runs with liveness use none.
`CHECK_DEADLOCK FALSE` is set where the system really may come to rest: all
clients gone and the clock at its bound, the pool closed or destroyed, the process
or the connection gone, all bytes written, a blocking call that nobody answers.

Fairness. `Reactor!FairSpec`: the accepting thread and each sub-reactor are
scheduled and the clock advances; clients owe nothing, so a client that never
speaks is allowed, and so is one that holds a thread in a read. Nothing is assumed of
MySQL beyond its calls coming to an end, nor of which thread finds a connection in the
pool. `ConnectionPool!FairSpec`: each thread is
scheduled and MySQL answers or fails in the end; `SF` on `Lock` and `Release`
because a polling thread leaves the mutex alone for 5 ms between its short visits,
so that a thread waiting for it finds it free again and again; that it then finds the
pool not empty is not promised, and `EveryWaiterServed` does without. `ThreadPool!FairSpec`:
workers run, tasks return, and an owner who has begun to destroy the pool goes
on; neither new tasks nor spurious wake-ups are owed. `HttpExchange!FairExSpec`: the
handler's thread runs, and the database answers; clients and files do as they like.
`EchoLoop!FairSpec`: the single thread runs whenever it is not blocked; clients owe
nothing, so they need not read.

Each property has a mutant, a plausible slip in the code (a missing wait, a heap
turned round, a release that forgets) under which TLC finds the property violated.
The mutants stand in the modules, before what they mutate.

## 4. What the checks found

Listed as findings, each with its counterexample run:

1. **A connection is closed by another's timer** (`reactor_cut_early`). The timer
   keeps the number; the number goes to a new client; the new client is cut off.
   The same with many clients is an everyday event: numbers are reused at once.
2. **A silent client is never closed** (`reactor_silent`): its timer is armed while
   its loop waits without a bound. A timer may be late for three more reasons, which
   `DueTimerFires` and `OversleepBounded` name: a handler of its loop polls an
   exhausted MySQL pool, a handler is blocked in a read (finding 4), or the thread is
   held up between computing its wait and making it.
3. **The body of a POST is never parsed** (`exchange_post`): the `break` at
   `HttpRequest.cpp:46` leaves the body to a second call of `parse`, and
   `handleMessage` makes one. With the `\r\n` of a real request the empty line is
   even taken for a malformed header. Registration and login see empty names.

Three further counterexamples that TLC gives are kept as the exceptions that passing
properties name, so that each property says both what can go wrong and that nothing
else can:

4. **An answer is sent to the wrong client.** A stale timer of one loop closes the
   descriptor another loop's handler works on, the number is handed out, and `send`
   writes to the new client: `AnswersOwn` alone is violated, and
   `MisdeliveryNeedsStaleTimer` shows that nothing but a stale timer begins this. If
   the handler's `read` comes before the `fcntl` at `EchoServer.cpp:74`, it blocks, and
   a silent client holds the sub-reactor with all its other clients and timers.
5. **The process exits** when a stale timer hits between accept and registration, or
   when registration takes longer than the timeout (`ExitedForAReason`).
6. **The pool shrinks** by one for each reconnection that fails, down to nothing,
   whereupon `getConn` polls for ever on the I/O threads (the exception of
   `SomeoneServed`, the `Scarce` of `EveryClientServed`); and the null connection it hands
   out may crash the process.

Noticed on the way, without a run of their own:

- Edge-triggered (Linux), one `accept` per event loses the second of two clients
  that arrive together: `EveryClientServed` fails with `EdgeTriggered = TRUE`.
- A thread that is held up between `getNextExpireMs` and `epoll_wait` sleeps past its
  timers by that time (`late`), because the wait is a length of time.
- The loops of the edge-triggered echo server end at `EAGAIN` only: a client that sends
  faster than the program echoes has it for itself (`InInnerLoop`).
- `main` ignores the result of `init`. With no connection opened the server runs
  and the first API request of each loop stops that loop, timers included. The
  constructor ignores the result of `bind` in the same way.
- A request whose second piece arrives after the read is answered all the same, and
  closed with input unread: the connection is reset and the answer may be lost with
  it (the `pieces = 1` of `OnePieceIsSafe`).
- `Buffer.cpp:24` says that `readFd` takes all there is; beyond the vector's room and
  64 KiB it does not, and an edge-triggered caller would have to call again. It
  returns 0 both for `EAGAIN` and for the end of the stream. It has no caller.
- The edge-triggered echo server loses bytes from the middle of an echo when a write
  is short (`short` in `EchoIsFaithful`), and stops accepting until the next event
  when `accept` fails (`refused` in `NothingForgotten`). Either echo server is killed
  by SIGPIPE.

## 5. What is proved

TLAPS checks the following for *every* value of the constants that satisfies the
`ASSUME` of the module: any number of clients, descriptors, loops, threads, workers
and timers, any timeout.

| theorem | says |
|---|---|
| `ReactorProofs!Invariance`, `TypeCorrect` | `IInv`, `TypeOK` always hold |
| `TimersKept`, `Watched`, `WaitsBounded` | `OpenConnHasTimer`, `OpenConnRegistered`, `OversleepBounded` |
| `TimersAsPromised` | the timers of each loop of `Reactor` implement `TimerSet` |
| `Misdelivery`, `ReasonedCloses`, `ReasonedExit` | nothing goes astray, nothing is closed without a reason of its own and the process does not exit, before a timer is stale |
| `EdgesKept` | `NoLostEdge`, for the edge-triggered build |
| `ConnectionPoolProofs!Invariance`, `TypeCorrect`, `NothingLost`, `StaysDrained`, `NeverTooMany` | the pool's invariants |
| `ConnectionPoolProofs!Refinement` | `Spec` implements `ConnLease` |
| `ThreadPoolProofs!Invariance`, `TypeCorrect`, `WakeupsSuffice`, `DrainsBeforeExit`, `Refinement` | the worker pool's invariants; it implements `TaskQueue` |
| `TimerHeapProofs!Invariance`, `TypeCorrect`, `Refinement` | the heap's invariant; it implements `TimerSet` |
| `TimerHeapProofs!SiftDownRound` | a round of `siftDown` leaves a heap or moves the one timer out of order down, and loses none |
| `BufferProofs!Invariance`, `TypeCorrect`, `NothingReused`, `Refinement` | the buffer's invariants; it implements `ByteQueue`, for any sizes |
| `HttpRequestProofs!ParserInvariant`, `ParserTypeCorrect`, `CutsDoNotMatter` | the parser's invariant, its types, and `ParsedAsWhole`, for any inputs and cuts |
| `HttpRequestProofs!LoopEnds` | each turn of the loop of `parse` shortens the buffer or is the last |
| `HttpExchangeProofs!ExInvariant`, `Released`, `FileServed`, `OnePieceServed` | `EverythingReleased`, `FileAsItWas`, `OnePieceIsSafe`, for any inputs and sizes |
| `ExParserInvariant`, `ExTypeCorrect`, `FirstLineDecides` | the parser's invariant inside a connection, `ExTypeOK`, `AnsweredByFirstLine` |
| `HandlerEnds` | the handler takes at most `ReadSize + 9` steps, whatever the client and the file system do |
| `EchoLoopProofs!Invariance`, `TypeCorrect`, `EchoFaithful`, `NoneForgotten`, `EventsTrue` | the echo servers' invariants |

The arguments.

- *Reactor.* The properties are not inductive: that a timer survives depends on
  whose number it fires for. `FdInv` makes the descriptor table and the open
  sockets two views of one bijection, so that closing a number closes one known
  connection; `FreshInv` and `AcceptInv` say what is known of a connection before
  it is registered; `TimerInv`, `WatchInv`, `CurInv` keep each connection with its
  one loop. A timer that fires removes the entry of its own connection only, and
  if that is open the number is its own and it is closed: hence
  `OpenConnHasTimer`. `DeadlineInv` orders deadlines by arming, which is why a wait
  computed earlier covers timers armed later: all delays are equal, and the
  invariant would fail without that. `WaitInv` follows a wait from where it is
  computed, when it ends no later than the earliest timer, through `EnterWait`, which
  moves its end by exactly the time that has passed since: hence `OversleepBounded`.
  `OwnInv` says that before the first stale
  timer a handler works on an open connection of its own loop, which had input, and is
  not blocked in a read.
  `ArrivingInv` ties the descriptor of the connection being registered to its timer:
  as long as its deadline is not over and no timer is stale it is open, which is what
  `ExitedForAReason` needs. The timers of a loop
  implement `TimerSet` step by step: a timer is armed by the one thread whose connection
  has none (`AcceptInv`), outside a round, and the wait handed out is that of
  `getNextExpireMs`; what becomes of it afterwards is `OversleepBounded`.
  `NoLostEdge` is inductive together with `WatchInv`, for
  what is registered, and with the fact that a handler ends by closing.
- *ConnectionPool.* Only the mutex owner is between `Lock` and the guard
  (`OwnerIsInside`), what a thread holds follows from where it is
  (`HandsFollowPc`), and queue, hands and closed connections partition those ever
  opened. `CapacityBound` counts the pool and the busy threads against the
  attempts of `init`; the proof counts with cardinalities of sets of threads.
- *ThreadPool.* While a worker sleeps, the queued tasks are no more than the
  workers about to test the queue; taking a task and a wake-up per push keep this,
  and no worker goes to sleep with a task queued or a stop requested.
- *TimerHeap.* During a sift-up every pair of parent and child is ordered but the
  one above `idx`, and the children of `idx` are ordered against its parent; the
  root is least but for the timer at `idx`. That the root of a heap is least would
  take an induction; carried along as an invariant it needs none. `siftDown` keeps the
  mirror image (`OrderedButAt`): the one timer may be greater than its children.
- *Buffer.* No index is ever reset, so `readIndex = kCheapPrepend + Len(out)`; the
  refinement compares the readable part of the vector before and after each step,
  element by element. A spill is the one step that needs the vector to be full.
- *HttpRequest.* What the input means is defined by the ranks of its newlines, and
  `RankIsBijection` shows by counting that these are 1 to n in order; so `Ends` lists
  all of them, and the first newline after line k is the end of line k + 1 (`NextLine`).
  With that the invariant says that the buffer is the input after the lines taken
  (`BufferIsRest`), that those are good lines of the input, and what came after them
  (`StateFollowsLines`). More input moves no end and changes no line (`EndsOfLonger`,
  `LinesOfLonger`), which is why cuts do not matter. `GoodLines` is a maximum whose
  witness is the number of lines accepted: the next one is missing, empty or bad.
- *HttpExchange.* Everything follows from how far the handler has come
  (`AnswerFollowsPc`, `FileFollowsPc`, `EndFollowsPc`, `PiecesFollowPc`): an answer is
  made once, and the size that `fstat` gave is one the opened file had, until the read
  finds that much or fails, which gives `FileAsItWas`; before the read the parser was fed
  nothing; and with one piece that fits, the read empties the socket
  (`OnePieceFollowsPc`), so the close does not reset. The parser's invariant holds
  inside the connection, since only `Read` calls it, with a part of what arrived
  (`ParserStep`); once it has returned, the first line accepted is the first of the
  input if that makes a request (`FirstLine`), and `RouteFollowsLines` carries it
  through the routing to the answer. `StepsLeft` is the measure behind `HandlerEnds`:
  the part of `HandlerReturns` that needs no fairness.
- *EchoLoop.* The buffer holds the last bytes read, and what was written comes before
  them (`BufferInv`), which gives the order of the echo. A descriptor in the batch is
  watched (`LoopInv`); only the descriptor being handled is ever closed, and it has
  left the batch, so the events behind it stay true though the number may be reused. When
  a client's bytes are numbered anew, all of them were echoed and read, so that no byte
  in the buffer or on its way has an old number (`Anew`).

The inductive invariants are those named `IInv` (`ExIInv`, `ExParserInv`); TLC checked each of them
before it was proved. The proofs assume the `ASSUME`s of the modules and nothing else.

Every invariant and every action property that a passing run checks is a theorem, and
so is each refinement.
Only model-checked: liveness (`EveryClientServed`, `DueTimerFires`,
`SomeoneServed`, `EveryWaiterServed`, `AcceptedIsRun`, `DestructorReturns`, `HandlerReturns`,
`EveryoneHeard`), since the prover has no rule for fairness here, and the
counterexamples.

## 6. Not modelled, and what comes next

Not modelled:

- `Log`, `InetAddress`, the SQL text and the wording of answers: they are text, and no
  other component's state depends on it. `Socket` appears as the listening socket of
  the initial state; its `accept` and `setNonBlock` have no caller.
- `TimerManager::delTimer` and `EPOLL_CTL_MOD`: no caller, or no effect.
- More than 1024 ready channels, at which the event array doubles and the macOS
  `epoll_wait` would overrun its own array, and 2^31 connections, at which `next`
  turns negative: out of reach of a small instance.
- What threads do after the pool singleton is destroyed: undefined.
- Survival of SIGPIPE: the echo servers do not survive it, and nothing says they do.
- The other study notes under `knowledge/` (smart pointers, move semantics, virtual
  functions, the heap and the stack, two demonstrations of deadlock avoidance) and
  `www/`: language examples that nothing else calls. Of these the banker's algorithm
  is the one with a property worth checking, a greedy search for a safe sequence
  against the existence of one.

Next, in this order:

1. A repaired server as a second specification: timers cancelled when their
   connection ends, and the accepting thread waking the loop. `NotCutEarly`,
   `AnswersOwn`, `SilentConnClosed` should then hold of it, and the process should
   not exit, which shows that the causes named in section 4 are the only ones.
2. `Reactor` composed with `ConnectionPool` in place of the counter `poolFree`,
   so that the mutex, the pings and `close` are seen on the loops too.
3. The banker's algorithm, against its reference definition.
