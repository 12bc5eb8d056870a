# A TLA+ model of HighPerformanceWebServer

The program (`src/WebServer`) is a C++ HTTP server in the style of muduo: an
event loop per thread on epoll, a main loop that accepts connections and hands
them to a pool of io loops, timers on a timerfd, an asynchronous logger and an
HTTP/1.1 parser. This directory holds TLA+ modules for its parts, TLC
configurations that check them on small instances, and TLAPS proofs of the
results that matter most for every instance. Line numbers are those of `src/`.

The code is modelled as built with `NDEBUG` (its `assert`s do nothing); what an
`assert` says is stated as a property instead.

## 1. The system

| Part | State | Operations | Talks to |
|---|---|---|---|
| EventLoop, EpollPoller (`EventLoop.cpp`, `EpollPoller.cpp`) | `quit_`, `callingPendingFunctor_`, `pendingFunctors_` (mutex), `activeChannels_`, the eventfd | `loop`, `quit`, `runInLoop`, `queueInLoop`, `weakup`, `handleRead`, `doPendingFunctors` | everybody: work is moved between threads only by `queueInLoop` |
| EventLoopThread, -Pool | `loop_`, latch, `next_` | `startLoop`, destructor, `getNextLoop` | owns an EventLoop on the stack of its thread |
| Channel, TcpConnection | interest set and `index`, `state_`, `reading_`, input and output Buffer | `send`, `shutdown`, `forceClose`, `startRead`/`stopRead`, the four event handlers | EpollPoller by raw pointer, TcpServer by `closeCallback_`, application callbacks |
| TcpServer, Acceptor | `connections_`, `threadPool_` | `newConnection`, `removeConnection`, `removeConnectionInLoop` | main loop and io loops |
| TimerQueue, Timer | `timers_`, `cancelingTimers_`, `callingExpiredTimers_`, the timerfd | `addTimer`, `handleRead`, `getExpired`, `reset` | EventLoop, two clocks |
| Buffer | a vector and two indices | append, retrieve, prepend, `readFd`, `shrink`, integers | TcpConnection |
| HttpServer, HttpParser | per connection: input, `pos_`, check state, `connecting_`; per loop: a timing wheel | `onMessage`, `process` and its parse functions, `onTimer` | TcpConnection, files |
| AsyncLogging, LogFile, Logger | four kinds of buffers (mutex), the backend thread, the open file | `append`, `threadFunc`, `stop`, roll and flush | every thread |
| LogStream, Logger | a fixed buffer and its fill | `operator<<` for every type, head and tail of a line | AsyncLogging |
| Connector, TcpClient | `connect_`, `state_`, `retryDelayMs_`, `channel_`, a timer, descriptors | `start`, `stop`, `restart`, `handleWrite`, `handleError`, `retry` | EventLoop, poller, timers; not used by the server |
| ThreadPool | `queue_` and `running_` (mutex, condition) | `start`, `run`, `take`, `stop` | its workers; not used by the server |
| Timestamp, Socket, addresses, pthread wrappers, WebBench | | | without state of their own, or third-party |

What is hard in it, and hard to test: a functor pushed while its loop is between
poll and swap; a connection that is closed on its loop, erased on the main loop
and destroyed on its loop again while events and functors are in flight;
callbacks queued before a close and run after it; a one-shot timerfd that must
be set again; two clocks; buffers that travel between the logger's threads;
requests cut by TCP; a partial `::send` followed by more data and a FIN; a
connect attempt that is answered, retried and stopped at the same time; a wait
on a condition without its mutex. `PROJECT.json` lists the chief hazards line by
line; smaller ones that no property covers are in section 6.

What makes each part correct:

- EventLoop: no wakeup is lost; functors run once, in order; functors that queue
  functors cannot starve the poller; `quit` ends a running loop.
- EventLoopThread: a destructor returns and, unless somebody else ended the
  loop, leaves no thread behind.
- TcpConnection, TcpServer: closed, removed and destroyed once; the channel gone
  from the poller first; no handler on a dead object; bytes in order; FIN last; a
  paused connection is resumed; a reset connection is cleaned up.
- TimerQueue: the timerfd is never late; no timer leaked; timers fire.
- Buffer: a queue of bytes. HttpParser: each request answered once, in order.
- LogStream: numbers read back, lines cut without writing past the buffer.
- AsyncLogging: no line lost, doubled or overtaken; each round finds its spare
  buffers; lines reach the disk; `stop` returns.
- Connector: its assertions, each descriptor closed once or handed over, the
  channel gone from the poller before it is destroyed, retries until success,
  nothing left after `stop`. ThreadPool: a task that was queued is run.

## 2. Modules

| Module | Models | Used by |
|---|---|---|
| `FunctorQueue` | abstract: functors are handed in, and run once each in order | refined by `EventLoop` |
| `EventLoop` | one loop, its own callbacks and any number of other threads | `EventLoopThread` |
| `EventLoopThread` | EXTENDS `EventLoop`: the thread, the latch, the owner, the callers | `MCEventLoopThread`, `EventLoopThreadProofs` |
| `TcpConnection` | a connection and its channel as operators on a record, no variables | `TcpServer` |
| `TcpServer` | connections, main and io loops, pool, peers and kernel | `MCTcpServer`, `TcpServerProofs`, `TcpServerCallsProofs` |
| `TimerQueue` | timers, timerfd, both clocks | `MCTimerQueue`, `TimerQueueProofs` |
| `SequenceUtil` | operators on sequences as recursive functions: a filter, a sum, the numbers up to n | `TcpServer`, `LogStream` |
| `SequenceFacts` | no model: induction on numbers and sequences, and what those operators compute | `AsyncLoggingProofs`, `TcpServerCallsProofs` |
| `LogStream` | operators: how a line is formatted, and how long it is | `AsyncLogging` |
| `AsyncLogging` | EXTENDS `LogStream`: front end, backend thread, LogFile, disk, FATAL and stop | `MCAsyncLogging`, `AsyncLoggingProofs` |
| `ByteQueue`, `Buffer` | abstract queue of bytes, and the vector with two indices | `MCBuffer`, `BufferProofs` |
| `HttpParser` | parser and `onMessage` for one connection | `MCHttpParser` |
| `Connector` | a Connector, its loop, its application and the kernel's answers | `MCConnector`, `ConnectorProofs` |
| `ThreadPool` | workers, callers of `run`, `stop`, the mutex and the condition | `MCThreadPool` |

`PROJECT.json` ("map") gives the source lines of every definition. Definitions
named `X_Something` are deliberately wrong variants of `X`, used to show that
the properties notice the mistake; no specification refers to them.

**EventLoop.** `pc` is where `loop()` stands; `list` is the vector that
`doPendingFunctors` swapped out, less what has run; `weakupFd` the eventfd;
`caller` says which other threads are between their push (or `quit_ = true`) and
the `weakup()` that follows. A mutex-protected block is one step, anything else
that another thread can see between is not: push and `weakup()` are two steps,
and so are `quit_ = true` and its `weakup()`. `submitted` and `executed` are
history. A failing `epoll_wait`, which the code only logs, is left out.

**EventLoopThread.** `thread` follows `threadFunc`: the EventLoop is built, `loop_`
is set (`PublishLoop`, line 42), the latch counted down (`CountDown`, 43), on
which the owner's `startLoop` waits, then `loop()` runs, whose first statement is
`quit_ = false`; when it returns `loop_` is set to null (`LoopReset`, 47), and only
after that the EventLoop is destroyed and the thread ends (`LoopDestroyed`). The
destructor tests `loop_`, sets `quit_`, wakes and joins, four steps. After a
`quit()` of somebody else it may find `loop_` null while the thread is on its way
out; it then does not join and `~Thread` detaches (`Destroy`). Or `loop_` becomes
null between the test and the call at line 20, where a build may read it again
(`DestroyDereferencesNull`) or not (`DestroyQuits`). `othersQuit` is history. The owner is one of the loop's threads: it
queues functors (hands connections over) once `startLoop` has returned, and its
`quit()` is `EventLoop`'s `Quit` and `Weakup`. Other threads call the loop while
it exists; a call begun in time finishes after it, as in the code.

**TcpConnection and TcpServer.** Handlers are operators from record to record;
what they queue and whether they called `closeCallback_` is in the record and
takes effect in `Commit`, so an action is the whole handler with every call it
makes. A loop turns through poll, events and functors; the snapshot of ready
channels is taken at poll and may be stale when a handler runs. Ownership is
explicit: `Alive(c)` lists who holds a `TcpConnectionPtr` (the map, queued
functors bound to `shared_from_this`, the functors of this turn until its list
is destroyed, a calling thread); a functor bound to raw `this` does not count.
`pool` is chosen at the start (`setThreadNum`); with an empty pool `runInLoop`
is a plain call and the close happens within its own handler. Output bytes are
numbered; what `::send` returns is any number up to the room, or an error, which
the unsigned `nwrote` turns into a huge number as in the code. `failed` is history:
such an error, or a message that was gone, has put a stray byte into the output.
A `::send` on a connection that is broken may also raise SIGPIPE, which ends the
process (`SignalPipe`, `killed`): it does where our FIN was sent or the error of a
reset was fetched before, by `readv` or `getSocketError` of the same event or of an
earlier one (`Broken`, `Fetched`), and it may at any `::send`, since the peer may
close and reset while a handler runs. The message callback's replies, one `send`
for each request of a message in HttpParser, are one `send` here. Peers and the
kernel's side of a socket are external. The Buffer is used by its promise.
A failing `accept` (`AcceptFails`) either gives the descriptor back through
`idleFd_`, which refuses the peer, or leaves it in the backlog.
A call of another thread (`ForeignTests`, `ForeignSets`, `ForeignQueues`) tests
`state_`, sets it and queues its functor in three steps; `send` sets nothing, and
the functor it queues is bound to raw `this` and to a view of a string that may
be gone, in which case `RunSend` sends bytes nobody gave it (`Garbage`).
`CallerSets` names the combinations of callers a run allows besides the loop:
the HTTP timing wheel (`idle`), a delayed `forceClose` (`delay`), another thread
that sends (`sender`) or that closes (`closer`).
Connections share no state but `connections_`, `next_` and the loops' queues.

**TimerQueue.** Times are relative to the present, in ticks; `Tick` moves both
clocks and `ClockSetBack` only the wall clock, which is never set forward. `RunAt` may be given a time that
is already past; `RunEvery` starts one interval from now. `cancel()` cannot be reached
(`runAt`, `runAfter` and `runEvery` return nothing).

**LogStream and AsyncLogging.** `Format` folds the pieces of a statement into
the stream's buffer, as the chain of `<<` does: a text needs more room than its
length, a number more than `MaxNumericSize`, a pointer at least that, and what
does not fit is left out as a whole. Digits are modelled, texts are lengths.
Lines are numbered and have the length `Format` gives them; `append` and the
locked part of a round are one step each, the timed wait lies between and may
end at any moment. A write may fail (`AppendFileFails`): some lines were taken,
their bytes are counted twice as in the code, and the rest is in `lost`.

**Connector.** Handlers are operators on one record; what they queue takes
effect in `Commit`. Descriptors are numbers and `socket()` gives the lowest free
one. `createNonblockingOrDie` opens one and does not return it (section 6):
`NewFd` is what a build without optimisation makes of it, and the result "dies"
what an optimised one does. The Channel object lives until `resetChannel` runs,
while the poller has forgotten it before. Since `retry` passes seconds as a point
in time to `runAt`, its timer has always expired; it fires when the timerfd is
handled, and any timer of the loop may bring that about in the same turn. A
connection that was handed over ends with `connectDestroyed`, a functor, so that
its descriptor is still open when `restart()` makes the next one
(`HandedCloses`). `misuse` records a failed assertion or a second close. The
handler in which that happens is modelled to its end; what the program does
after it is not followed, since from there on it works on a Channel that is gone
or on somebody else's descriptor.

**ThreadPool.** `take()` waits without holding the mutex, which POSIX leaves
undefined. The model follows glibc for a default mutex: the wait unlocks the
mutex whoever holds it and returns with it locked, and the guard after it then
blocks its own thread.

**Buffer.** Bytes are numbered as they come in, so the queue's content tells
which byte is where. `Compaction` says whether calls that make `makeSpace` move
the readable bytes to the front are allowed. Operations are called when their
assertions hold; `ReadInt` therefore needs more bytes than the integer it looks at
has (section 6). The sizes of integers are those of
the code; the swap of their bytes between hosts is left out.

**HttpParser.** A line's text is one symbol, CR and LF are symbols of their own.
`Fragments` says whether a message may end within a request; it then may end
between any two symbols. The text of responses is reduced to status, kind of
body and the Connection header.

## 3. Runs

| Run | Shows |
|---|---|
| `EventLoopThread` | loop, io thread, owner and another caller together: `NoLostWeakup`, `ImplementsFunctorQueue` (refinement), `BatchFixedAtSwap`, `NoThreadLeftBehind`; `FunctorsAreRun`, `QuitStopsRunningLoop` and `JoinReturns` (once `loop()` has been entered) as liveness |
| `TcpServerHttp` | what the HTTP server does with a connection: `ClosedOnce` (also removed once, and one connection callback up and one down), `ClosedStaysClosed`, `NoUseAfterDestroy`, `FinAfterData`, `PausedIsResumed`; `ResetIsCleanedUp` and `ShutdownCompletes` as liveness |
| `TcpServerCalls` | with `forceClose`, delayed `forceClose` and another thread that sends or closes as well: `StreamInOrder`, `NoDanglingChannel` |
| `TimerQueue` | `ArmedInTime`, `NoneLeftExpired`; `OnlyTimerFires` as liveness |
| `TimerQueueTwo` | violation of `TimersFire` |
| `AsyncLogging` | `LinesLegible`, `LinesConserved`, `SpareBuffersReady`, `StopWritesSwapped`; `LinesReachDisk` and `StopReturns` as liveness |
| `Buffer` | `ImplementsByteQueue` (refinement), without compaction |
| `BufferCompaction` | violation of `SpaceKeepsReadable` |
| `HttpParser` | `AnsweredInOrder`, `ShutAsAnnounced` for messages of whole requests |
| `HttpParserFragments` | violation of `IncompleteIsContinued` |
| `Connector` | `AssertionsHold` (two of the four always, two outside one window), and until an assertion fails `NoDanglingChannel`, `DescriptorsOwned`, `StopEndsAttempt`; `RetriesUntilConnected` as liveness |
| `ThreadPool` | violation of `TasksAreRun` |

Deadlock is checked except for `Buffer` and `HttpParser`, which end when their
bounded input is used up, and for `ThreadPool`, which may be stopped.

**Bounds.** EventLoopThread: the owner, another thread and three functors give
every overlap of two pushes and a quit with a turn of the loop, and functors
queued by functors; the proofs cover all sizes. TcpServer: one connection, since
connections are independent but for the queues. In `TcpServerHttp` three bytes
in messages of up to two and a high-water mark of one, so that a message is
taken whole, in part or not at all, output stands below, at and above the mark,
and a second message meets a non-empty buffer. In `TcpServerCalls` two bytes
in one message, which `::send` may split, or in two, and two further calls, so
that a delayed and a foreign call, or two of a kind, overlap; a sender and a closer are not combined (section 6).
TimerQueue: three timers of delays up to two, lateness up
to three ticks, one clock step; a callback may add a timer while two
expired ones are waiting. AsyncLogging: the stream's buffer has 160 bytes
and a large one 240, so that two or three lines fill it; a backlog limit of two
buffers, files of 250 bytes, a flush every third write, one failing write; seven
lines are enough for a backlog to be dropped and for a round after it. The
statements that `LinesLegible` looks at end at every position around the end of
the stream's buffer, a number and a pointer behind each. Buffer: an initial size
of three and chunks of up to four, so that
each append may fit, just fit or grow the vector. HttpParser: three requests of
five kinds, with and without body and keep-alive, in any grouping. Connector:
three descriptors, so that an attempt, a connection handed over and a leaked one
can be told apart; two stops, so that one meets the other; delays from 2 to 7, so
that the limit is met in between; any number of retries. ThreadPool: two workers
and two tasks, with room for both.

**Symmetry** is not used, because the runs check liveness too.

**Fairness.**
- A loop's thread is scheduled (weak fairness of its steps). In
  `EventLoopThread` a poll with nothing readable may sleep for ever: the
  ten-second timeout is an action but has no fairness, so that liveness does not
  lean on it. A thread within `queueInLoop` or `quit` goes on to `weakup()`.
- `TcpServer`: the loops run (`epoll_wait` has a timeout, so `Poll` is always
  possible); `PeersRead`, strong fairness of "writable" and of a write that takes
  something, says that the peer goes on reading. `ResetIsCleanedUp` does not need
  it; `ShutdownCompletes` does, as the code has no timeout of its own there. Both
  end with the process, should a SIGPIPE end it.
- `TimerQueue`: time passes and the loop runs. `AsyncLogging`: the backend runs,
  its wait is a timed one (`waitForSeconds`), and `join` returns when the thread
  has ended.
- `Connector`: the loop runs and a `stop` begun on another thread goes on.
  Strong fairness of an attempt being accepted by the kernel, and of it being
  answered with success, says that the server can be reached; without it nobody
  could promise a connection.
- `ThreadPool`: threads are scheduled, `run` and `stop` go on once begun, and a
  mutex that is free again and again is got (strong fairness), so that the
  violation is not one of an unfair mutex.

## 4. Proofs

Checked by `tlapm`; for every value of the constants that satisfies the named
assumptions.

- `EventLoopThreadProofs`, the loop. `TypeCorrect`: `FieldsOK` and `CallingFlagOK` together are
  inductive; the flag alone is not, since its meaning depends on `pc`.
  `NoWeakupIsLost`: `NoLostWeakup` speaks about the moment of polling and is not
  inductive: a loop that reads its eventfd and then runs its batch has neither
  readable eventfd nor sleeping loop. `WeakupInv` follows the obligation through
  the turn: whenever functors or a quit are pending, the eventfd is readable, or
  a caller is about to write it, or the loop is at a point from which it must
  still pass the swap or the test of `quit_`. `ListInvariant`: outside the batch
  the swapped-out list is empty. `Refinement`: with the queue mapped to
  `list \o pendingFunctors` every step is a step or a stutter of `FunctorQueue`;
  the lemmas say what append, head and swap do to the concatenation.
  `BatchesAreFixed`: no step lengthens a batch.
- `EventLoopThreadProofs`, the thread. `ThreadImplementsLoop`: every step of thread, owner
  and callers is a step or a stutter of `EventLoop`, so that `ThreadLosesNoWeakup`
  and `ThreadRefinement` follow from the loop's own theorems; the assumption is
  that the owner is one of the threads. `ThreadTypeCorrect` relates `loop_`, the
  latch and the lines of `threadFunc`. `DestructorEndsThread`: `NoThreadLeftBehind`
  is not inductive, since nothing in it says why the destructor found `loop_` set
  or null. `OwnerInv` does: from the return of `startLoop` on, the latch is open,
  so the thread was started and loops, leaves or has ended; a thread that leaves
  has a loop that stopped; and as long as nobody else called `quit()`, a loop does
  not stop before the destructor calls its own.
- `TimerQueueProofs`. Lemma `Steps` reduces `RunAt` and `RunEvery` to `AddTimer`.
  `TypeCorrect` with the ranges of all times.
  `TimerfdInTime`: `ArmedInTime` together with the types; the case that needs
  work is `reset()`, which restarts several timers at once and arms for one of
  them. `LeastElement` gives the least of the restarted times (a set of
  integers that is bounded below, by the well-foundedness of `<`), `FirstRestartLeast` and
  `RestartedBound` what it means for `armed`. `NoTimerLeaked`: `ExpiredInv`.
  The assumption is `TimerQueueAssumption` (bounds on delays and lateness).
- `SequenceFacts`. The library states induction for predicates, which the
  provers cannot instantiate. `NumberInduction` and `SequenceInduction` state it
  for sets instead: a set that has 0 and with n also n + 1 has every number, a
  set that has the empty sequence and is closed under `Append` every sequence.
  Each lemma puts what it claims into such a set. `BuiltFrom` says that a
  recursive function has the values its definition gives, and from there on
  `Without` and `SumSeq` are described by what they make of `Append`, of a
  concatenation and of `UpTo`.
- `AsyncLoggingProofs`. The assumptions are `AsyncLoggingAssumption` (the backlog
  limit is at least two, a large buffer is not smaller than a stream's), `LogStreamAssumption`
  and `StatementsAssumption` (a number has at most 21 characters, as 64 bits
  give).

  `LogTypeCorrect`: `TypeOK` bounds the fill of the current buffer, a sum over its
  lines, and the bytes written since the file was rolled. `LogTypes` adds what
  that rests on: the shape of the file, and that buffers are handed to it only
  within the writing part of a round.

  `LogLegible`: for every number, whatever its length, the digits that `convert`
  and `convertHex` write read back as the number (`Lsd` unfolds to the last digit
  and the digits of the quotient, by induction on the number; reversal and
  reading are then done digit by digit). For every statement, `Good` is kept by
  each `<<`: the stream ends within its buffer, is not longer than its pieces,
  and is complete as long as the pieces leave room for one more number. It says
  more than `Legible`: a buffer is never quite full, without which the NUL behind
  a number might lie outside.

  `RoundsHaveBuffers`: at the start of each round both spare buffers are there.
  `SpareInv` says how many buffers the round holds at each point: what the swap
  gave away it can take back, also after `Keep` dropped a backlog (`KeepTwo`).

  `LogConserves`: `LinesConserved` speaks of the file, of the buffers of the
  back end and of those of the front end. `InFlight` puts it as one equation:
  written, then in hand, then waiting are the lines appended so far without those
  given up, in the order of `append`. It is inductive with the types and
  `SpareInv` (at the swap nothing else is in hand). A backlog that is dropped, or
  a write that fails, cuts a piece out of the middle; the numbers in the equation
  increase, so that the piece is told by its elements (`Increasing`, `CutOut`).

  `StopKeepsLines`: `StopWritesSwapped` needs `EndInv` (when the back end has
  ended it holds no buffer and has flushed all it wrote) and `InFlight`.

- `TcpServerProofs`. `ServerTypeCorrect` needs no hypothesis: `TypeInv` adds to
  `TypeOK` the shape of records, queues and calls, for any callers. The
  assumptions are that a pool is a sequence of io loops without the main loop,
  and that the length of a message is a `size_t` (`SizeLimit` is its range in the
  model).

  The other theorems are about `HttpCalls`, the calls HttpServer makes: message
  callbacks reply and shut down, and only the timing wheel calls from elsewhere.
  With `forceClose` or with other threads most of them are false, as section 6
  says. None of the properties is inductive. `LifeInv` is, and its parts lean on
  one another: `Sound` relates the fields of one connection between two handlers
  (writing is enabled exactly while output waits; a closed channel is disabled;
  the callbacks were called as often as `state_` says). `SnapshotsFresh` says that
  the snapshot of a loop is never stale: who is in it is open, and its loop is
  handling events; this holds because a connection is closed only by its own
  handler. `FunctorsInTime` and `FunctorsOnce` say that each functor that waits
  finds its connection in the state it is meant for, and that establishing and
  removing wait once at most; this is why a callback cannot meet a closed
  connection. That in turn needs `CallbacksInTurn`: the write-complete and
  high-water callbacks are queued by handlers and run in the same turn, before
  another event of the connection can be handled. `Owned` says who holds a
  pointer until the channel has been removed, and `Resumed` that a pause is
  followed by its resumption in the queue, for which the order of the queue
  matters (`Followed`).

  The proof has a lemma for each handler (what it does to a record), lemmas on
  sequences (what append, concatenation and tail do to `Once` and `Followed`),
  `StepOfOne`, which reduces a step of a connection to that connection, and one
  lemma for each action. `LivesOnce`, `StaysClosed`, `NothingUsedAfterDestroy`,
  `FinComesLast` and `PausesEnd` follow from `LifeInvariant`.
- `TcpServerCallsProofs`. `ChannelsOutliveCalls`: `NoDanglingChannel` for any
  message callback and any callers but a thread that sends together with one that
  closes (`CallersApart`; with both it is false, as section 6 says). Here a
  connection may be closed twice, its snapshot may be stale, and its functors may
  meet it closed or even destroyed, so `LifeInv` does not hold. `CallInv` says
  less: `connections_` holds a connection until it is closed, and from then on
  `removeConnectionInLoop` or `connectDestroyed` waits in a queue as long as the
  poller knows the channel (`Managed`). This is not inductive by itself, since a
  callback that runs after `connectDestroyed` would give the channel back to the
  poller. A closed connection queues no callback any more, because nothing is
  written on it and it is never Connected (`ChannelOK`), so the callbacks that
  still wait are all in front of `connectDestroyed` (`Before`, the order of the
  queue again); and a channel in a snapshot is known to the poller
  (`SnapshotsKnown`), because functors run when the snapshot has been handled. A
  thread that closes may set the state of a closed connection back to
  DisConnecting; a `sendInLoop` would then write on it, which is the case that
  `CallersApart` excludes. The proof uses the record and sequence lemmas of
  `TcpServerProofs`; `Going` and `Ended` say what a handler may make of a record,
  `CallCommit` what `Commit` then does, `CallOfOne` that one connection is enough.

  `StreamsKeepOrder`: `StreamInOrder` for any message callback and any callers,
  a sender with a closer too. With the types it is inductive; the work is in
  `sendInLoop`. `SendNumbers` gives its arithmetic with the unsigned `nwrote`: an
  error of `::send` makes `remaining` one larger than the message. `SendStream`
  says what becomes of a message (`Parts`): some bytes go to the kernel, which is
  offered a message only when no output waits, and the rest is appended to the
  output, after an error with the byte in front of the message. `BytesParts` and
  `BytesFromZero` put the parts together again, and `StreamExtended` says what
  that leaves of the stream without such bytes. As long as the history `failed`
  says that there was no error, the parts are the message and nothing else
  (`InOrder`, second conjunct).
  `WriteOrder` does the same for `handleWrite`, which moves bytes from the output
  to the wire, and `QuietHandlers` for the handlers that send nothing.
- `ConnectorProofs`, with `ConnectorAssumption` (there is a descriptor; the delays
  are positive and in order) and no restriction of what overlaps. `AssertionsHold`,
  `DescriptorsOwned`, `NoDanglingChannel` and `StopEndsAttempt` are about different
  fields, and each is preserved only because of the others. `IInv` has the types,
  and as long as no assertion has failed: `Fits`, which says for each value of
  `state_` what goes with it (channel, poller, descriptor, timer), and that a
  Connector at rest has a Channel exactly while a `resetChannel` waits, which is
  the window of `AssertionsHold`; `QueuesOK`, that it never waits twice; `CallsOK`,
  that an attempt under way is wanted or about to be stopped, and that before the
  first `restart()` the Connector is as it was made; `TurnOK`, that what
  `epoll_wait` reported is still there in its turn. Each handler has a lemma that
  says which assertion it can fail and what it leaves of `Fits`; `StepOK` and `IInv`
  together give the theorems.
- `BufferProofs`, under `~Compaction` (the branch that a run refutes).
  `BufferTypeCorrect`: `readIndex_` and `writeIndex_` stay in order and within
  the vector. `BufferRefinement`:
  `ImplementsByteQueue` with the queue mapped to the bytes between the indices;
  `BufferInv` is `Good(buf)` (indices in order and within the vector, which has
  room for the prependable part) with the range of `fresh` and the type of `got`,
  and the lemmas say what append, prepend, growth and retrieving do to
  that segment. Here `"int64" \notin Kinds`, as `readInt64` returns another
  number than was written (section 6).

Only model-checked:

- all liveness: temporal reasoning with fairness is out of the prover's reach;
- `TypeOK`, `AnsweredInOrder` and `ShutAsAnnounced` of HttpParser: `process()`
  and the functions it calls are RECURSIVE operators there, about which the
  prover has no backend.

## 5. Not modelled

- The timing wheel's buckets (the end of an Entry is modelled, see section 6):
  the wheel that turns is a copy that holds no entry.
- The destructors of TcpServer and Acceptor: they run at the end of a program
  that `Main.cpp` never ends in order.
- TimerQueue calls from other threads, which are data races on a `std::set`.
- A wall clock that is set forward: the timerfd, armed on the monotonic clock,
  is then later than the first timer, which `ArmedInTime` denies.
- What a Connector does after one of its assertions has failed, and what peers
  do after a SIGPIPE has ended the process.
- The init callback of an EventLoopThread, which HttpServer uses to start a timer
  on the loop before anybody else knows it.
- The order of several replies within one message callback (one `send` each, in
  a row, on the loop thread).
- A failing `fflush`, which the code does not look at; exceptions of tasks in
  ThreadPool, which end the program; wake-ups of a condition without a
  notification in ThreadPool.
- TcpClient's own `newConnection` and destructor: the first dereferences a null
  pointer, so the second never has a connection.
- Timestamp's text, sockets, addresses and pthread wrappers, which have no state
  of their own; WebBench, a third-party load generator.

## 6. Where code and text disagree

Shown by a run:

- `TimerQueueTwo`: `reset()` (`TimerQueue.cpp:171`) arms the timerfd only if an
  insertion of its own changed the earliest entry; when only one-shot timers
  expired, the remaining timers never fire. A loop with one timer, as the HTTP
  server has it, is not affected (`OnlyTimerFires`).
- `BufferCompaction`: `makeSpace` (`Buffer.cpp:338`) subtracts
  `prependableBytes()` twice, the second time after it has become zero. This is
  why the `Buffer` run leaves such calls out.
- `HttpParserFragments`: an incomplete request makes `process()` return
  `connecting_`, false until a keep-alive header was seen, and the connection is
  shut down; `hasData()` is inverted as well. This is why the `HttpParser` run
  uses messages of whole requests.
- `ThreadPool`: `take()` (`ThreadPool.cpp:60-62`) tests the queue and waits
  without the mutex, so that a `notify` may come between the two and the task
  stays in the queue. When the notification is received, the worker returns from
  the wait with the mutex locked and locks it again at line 66.

Met while modelling, built into the models where they are part of the control,
and not covered by a run:

- `EventLoop.cpp:56`: `loop()` overwrites a `quit()` that came between the
  publication of the loop and `loop()`; the destructor of EventLoopThread then
  waits for ever. `JoinReturns` therefore speaks of a loop that was entered.
- `EventLoopThread.cpp:18`: after a `quit()` of another thread `loop_` may be null
  while the thread still runs; the destructor does not join it, and `~Thread`
  detaches it (`base/Thread.cpp:21`). Line 20 reads `loop_` again, which may have
  become null. `NoThreadLeftBehind` says that without such a `quit()` neither
  happens. In the server nobody but the destructor calls `quit()`.
- `EventLoop.cpp:84`: between `quit_ = true` and `weakup()` the loop may return
  and be destroyed on its thread's stack.
- `TcpConnection.cpp:234, 252`: `shutdown()` and `forceClose()` from another
  thread test and set `state_` without synchronisation and may overwrite
  DisConnected. `TcpServerCalls` includes these calls and checks only what
  survives them.
- `TcpConnection.cpp:281`: `startReadInLoop` enables reading in any state, so a
  write completion queued behind `forceClose` re-enables a closed channel and the
  connection is closed twice, against the assertion at line 215. The HTTP server
  does not call `forceClose`; `ClosedOnce` is checked for what it does.
- `TcpConnection.cpp:91, 254`: with `send` on one foreign thread and `forceClose`
  on another, the `state_` of a closed connection is overwritten, the queued
  `sendInLoop` runs, and its write completion puts the removed channel back into
  the poller. `TcpServerCalls` has each kind of thread, not both.
- `TcpConnection.cpp:91`: the message of a foreign `send` is a view of a string
  passed by value, which is gone when `sendInLoop` runs. `StreamInOrder` speaks
  of the bytes that are left.
- `TcpConnection.cpp:263`: the timer of `forceCloseWithDelay` holds a raw pointer.
- `TcpConnection.cpp:112`: `nwrote` is unsigned, so `nwrote >= 0` also holds after
  an error, and `remaining` becomes larger than the message, against the
  assertion at line 134: a byte from in front of the message is sent with it.
  `StreamInOrder` says that the bytes of the messages are in order all the same,
  and that there is no other byte among them until this happens.
- `TcpConnection.cpp:111, 185`: `::send` without `MSG_NOSIGNAL`, and nothing in
  `src/` ignores SIGPIPE: a peer's reset ends the process when its error was
  fetched before the `::send`, for example by `handleRead` of the same event.
  `ResetIsCleanedUp` and `ShutdownCompletes` speak of a process that lives.
- `TcpConnection.cpp:139`: output that reaches the high-water mark exactly and
  then exceeds it queues no callback.
- `TimerQueue.cpp:23`: expirations are wall-clock times, the timerfd is
  monotonic; when the wall clock was set back the timerfd fires early, nothing
  has expired and it is not set again. `OnlyTimerFires` excepts this case; a clock
  set forward, which makes the timerfd late, is not modelled.
- `TimerQueue.cpp:83`: `addTimer` is called thread-safe by `TimerQueue.h:21` and
  takes no lock.
- `base/AsyncLogging.cpp:74`: lines appended after the last swap are not written
  by `stop()`. `StopWritesSwapped` says what is.
- `base/LogStream.cpp:38`: of a negative number only the last digit is written,
  with a sign if there were more. `LinesLegible` speaks of the others.
- `base/LogStream.h:23`: a piece that does not fit is dropped and later ones may
  follow; the newline goes when exactly one byte is left.
- `base/Timestamp.cpp:46` adds 1990 to `tm_year`, against the example at
  `base/Logging.cpp:67`.
- `base/FileUtil.cpp:33, 41`: the bytes of a failed write are counted twice, so
  the file is rolled early.
- `base/Logging.cpp:62`: a FATAL line is still in memory at `abort()`.
- `Buffer.cpp:172, 180, 188`: looking at an int32, int16 or int8 asserts that there
  are more bytes than it has, so that the last integer of a buffer cannot be read;
  line 163, for an int64, has `>=`. The model keeps to the assertions.
- `Buffer.cpp:135`: `readInt64` takes eight bytes and returns an int16; the
  `Buffer` run reads the other kinds.
- `http/HttpParser.cpp:98`: on a kept connection a bad line is not skipped and
  `process()` meets it again and again (`hung` in the model).
- `http/HttpParser.cpp:225`: the condition meant for HEAD is always true, so a
  HEAD response has a body. `AnsweredInOrder` asks only for its status.
- `http/HttpServer.cpp:91`: the timer turns a copy of the wheel that connections
  are entered in, so idle connections are not shut down. `IdleShutdown` in
  `TcpServer` lets it happen at any time all the same.
- `Connector.cpp:27`: `connect_ == true` compares, so `start()`, and with it
  `TcpClient::connect`, never connects; only `restart()` does. And
  `TcpCLient.cpp:69` reads `connection_` before it is made.
- `Connector.cpp:206`: `runAt` gets a number of seconds instead of a time, so
  every retry is made at once; `Connector.h:64` promises 0.5 s, 1 s, 2 s, ... 30 s.
- `Connector.cpp:189`: `handleError` asserts but does not test the state. When a
  handler of the same turn has called `stop()`, the assertion fails and the
  descriptor is closed twice.
- `Connector.cpp:119`: `restart()` after a `stop()` in the same turn, and a retry
  whose timerfd another timer has made ready, find the old channel not yet reset;
  the reset then destroys the new one, which the poller still has. Both windows
  are between `removeAndResetChannel` and `resetChannel`; `AssertionsHold` says
  that there is no other.
- `SocketsOps.cpp:6-14`: `createNonblockingOrDie` has no return statement. g++ at
  -O2 and -O3 (the Makefile's) takes the path on which `socket()` succeeded for
  impossible and runs into `LOG_SYSFATAL` always, so that a Connector aborts at its
  first attempt; at -O0 the descriptor is left in the register of the result. The
  model allows both.
- `ThreadPool.cpp:52`: `maxQueueSize_` is 0 until it is set, and `run` drops every
  task.
- `Acceptor.cpp:55`: `if(EMFILE)` is always true, so any failing `accept` gives
  the spare descriptor away.

## 7. Plan

Done, in order of importance: EventLoop and its proofs; TcpConnection and
TcpServer; TimerQueue, AsyncLogging and their proofs; Buffer; EventLoopThread
composed with its callers, and its proofs; HttpParser; calls from other threads
on a connection; LogStream under AsyncLogging, with a full disk; Connector;
ThreadPool; the proofs about Connector, Buffer and TcpServer,
the latter also for calls from other threads; the proofs that need induction
over data, about AsyncLogging, LogStream and the stream of bytes.

Next, proofs: HttpParser, once its loops are written as recursive functions.

Next, models: TcpServer's destructor; the timing wheel.
