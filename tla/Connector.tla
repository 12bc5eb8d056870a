----------------------------- MODULE Connector -----------------------------
(***************************************************************************)
(* Connector (Connector.cpp): non-blocking connects with retries, on one   *)
(* event loop.  A descriptor that is being connected sits in channel_,     *)
(* which is watched for writability; when the answer comes the channel is  *)
(* taken from the poller at once, its object destroyed by a functor later  *)
(* (its own handler is still running), and the descriptor handed to        *)
(* newConnetionCallback_, or closed and a retry scheduled.                 *)
(*                                                                         *)
(* The handlers are operators on the Connector's record k, so that each    *)
(* action is a whole handler; the loop turns through poll, events and      *)
(* functors as in EventLoop.tla.                                           *)
(*                                                                         *)
(* retry() calls runAt(retryDelayMs_ / 1000.0): a number of seconds taken  *)
(* for a point in time, which lies in 1970.  The timer has therefore       *)
(* always expired, and fires as soon as the timerfd is handled.            *)
(*                                                                         *)
(* start() does not set connect_ (line 27 compares), so an application     *)
(* gets a connection only by restart().  The Connector is not destroyed    *)
(* while its loop runs.                                                    *)
(*                                                                         *)
(* The loop has other channels and timers, and restart() and stop() come   *)
(* from their handlers and from other threads at any time.  Two of the     *)
(* assertions then fail, and a descriptor may be closed twice: the handler *)
(* in which that happens is modelled to its end, as in a build without     *)
(* assertions, and what the program does after it is not.                  *)
(***************************************************************************)
EXTENDS Integers, Sequences, FiniteSets, Functions

CONSTANTS
    Fds,                \* bound: descriptors, numbers from 1
    InitRetryDelay,     \* InitRetryDelayMs
    MaxRetryDelay,      \* MaxRetryDelayMs
    MaxStarts,          \* bound: calls of start()
    MaxStops            \* bound: calls of stop()

ASSUME ConnectorAssumption ==
    /\ Fds \subseteq Nat \ {0} /\ Fds # {}
    /\ InitRetryDelay \in Nat \ {0}
    /\ MaxRetryDelay \in Nat /\ InitRetryDelay <= MaxRetryDelay
    /\ MaxStarts \in Nat /\ MaxStops \in Nat

VARIABLES
    k,              \* the Connector, with what it holds in loop and kernel
    phase,          \* of the loop: poll, events, functors
    active,         \* the snapshot: the descriptor whose channel is ready
    answer,         \* the kernel's answer to its connect
    timerReady,     \* the timerfd is in the snapshot
    peerGone,       \* so is the end of the connection handed over
    pending,        \* pendingFunctors_
    list,           \* the functors of this turn still to run
    app,            \* which call the application begins with
    stopper,        \* the thread in the middle of stop()
    starts, stops   \* calls so far

vars == <<k, phase, active, answer, timerReady, peerGone, pending, list, app,
          stopper, starts, stops>>
loopVars == <<phase, active, answer, timerReady, peerGone, list>>
callVars == <<app, stopper, starts, stops>>

None == 0           \* no descriptor, channel_ is null

States == {"Disconnected", "Connecting", "Connected"}
FunctorNames == {"startInLoop", "stopInLoop", "resetChannel",
                 "connectDestroyed"}

\* connect(2) is under way; it failed in a way that is tried again; or in a
\* way that is not.  Or createNonblockingOrDie() ended the process.
Results == {"inProgress", "again", "fatal", "dies"}

\* How the attempt ends: established; to itself; with an error that epoll
\* reports; with one that was not there yet when epoll_wait returned.
Answers == {"ok", "self", "error", "lateError"}

Init ==
    /\ k = [connect |-> FALSE,      \* connect_
            state |-> "Disconnected",
            delay |-> InitRetryDelay,
            channel |-> None,       \* the descriptor of channel_'s object
            poller |-> {},          \* descriptors the poller has a Channel* of
            own |-> {},             \* open descriptors of the Connector
            handed |-> {},          \* open descriptors handed over
            timers |-> 0,           \* timers bound to startInLoop
            queued |-> <<>>,        \* functors queued by the handler that runs
            dead |-> FALSE,         \* the process was aborted
            gaveUp |-> FALSE,       \* history: the last connect was fatal
            misuse |-> {}]          \* history: assertions that would fail, and
                                    \* "close": a descriptor closed twice
    /\ phase = "poll"
    /\ active = None
    /\ answer = "ok"
    /\ timerReady = FALSE
    /\ peerGone = FALSE
    /\ pending = <<>>
    /\ list = <<>>
    /\ app \in {"start", "restart"}
    /\ stopper = FALSE
    /\ starts = 0
    /\ stops = 0

-----------------------------------------------------------------------------
(* The Connector's functions                                               *)

\* assert(), which the build removes.
Assert(c, holds, name) ==
    IF holds THEN c ELSE [c EXCEPT !.misuse = @ \union {name}]

\* sockets::close.
Close(c, fd) ==
    [Assert(c, fd \in c.own, "close") EXCEPT !.own = @ \ {fd}]

\* Mutant: the delay is doubled without a limit.
NextDelay_Unlimited(d) == 2 * d

\* min(retryDelayMs_ * 2, MaxRetryDelayMs)
NextDelay(d) == IF 2 * d < MaxRetryDelay THEN 2 * d ELSE MaxRetryDelay

\* Mutant: a retry does not close the descriptor of the attempt before.
Retry_KeepsSocket(c, fd) ==
    LET d == [c EXCEPT !.state = "Disconnected"]
    IN  IF d.connect
        THEN [d EXCEPT !.timers = @ + 1, !.delay = NextDelay(@)]
        ELSE d

\* Mutant: the retry is announced, but no timer is set.
Retry_NeverTimer(c, fd) == [Close(c, fd) EXCEPT !.state = "Disconnected"]

\* retry(sockfd): close, and try again later unless stop() was called.
Retry(c, fd) ==
    LET d == [Close(c, fd) EXCEPT !.state = "Disconnected"]
    IN  IF d.connect
        THEN [d EXCEPT !.timers = @ + 1, !.delay = NextDelay(@)]
        ELSE d

\* Mutant: the channel is destroyed later, but the poller keeps its pointer.
RemoveAndResetChannel_NoRemove(c) ==
    [c EXCEPT !.queued = Append(@, "resetChannel")]

\* removeAndResetChannel(): the descriptor it returns is c.channel.
RemoveAndResetChannel(c) ==
    [c EXCEPT !.poller = @ \ {c.channel},
              !.queued = Append(@, "resetChannel")]

ResetChannel(c) == [c EXCEPT !.channel = None]

\* The last functor of a connection that was handed over: with it the
\* TcpConnection goes, and its Socket closes the descriptor.
ConnectDestroyed(c) == [c EXCEPT !.handed = {}]

\* connecting(sockfd): a new Channel takes the place of whatever was in
\* channel_, and the poller watches it.
Connecting(c, fd) ==
    [Assert(c, c.channel = None, "connecting") EXCEPT
        !.state = "Connecting", !.channel = fd, !.poller = @ \union {fd}]

\* sockets::createNonblockingOrDie() has no return statement.  An optimised
\* build takes the path without one for impossible, drops the test of sockfd
\* and always runs into LOG_SYSFATAL, which aborts; a plain one returns the
\* descriptor, left in the register of the result, and aborts if there is none.
FreeFds(c) == Fds \ (c.own \union c.handed)
NewFd(c) == CHOOSE fd \in FreeFds(c) : \A other \in FreeFds(c) : fd <= other

\* connect()
Connect(c, result) ==
    IF result = "dies" \/ FreeFds(c) = {}
    THEN [c EXCEPT !.dead = TRUE]
    ELSE LET fd == NewFd(c)
             d == [c EXCEPT !.own = @ \union {fd}, !.gaveUp = result = "fatal"]
         IN  CASE result = "inProgress" -> Connecting(d, fd)
               [] result = "again" -> Retry(d, fd)
               [] result = "fatal" -> Close(d, fd)

StartInLoop(c, result) ==
    LET d == Assert(c, c.state = "Disconnected", "startInLoop")
    IN  IF d.connect THEN Connect(d, result) ELSE d

\* Mutant: stop() leaves an attempt that is under way alone.
StopInLoop_Lets(c) == c

StopInLoop(c) ==
    IF c.state = "Connecting"
    THEN Retry(RemoveAndResetChannel([c EXCEPT !.state = "Disconnected"]),
               c.channel)
    ELSE c

Restart(c, result) ==
    StartInLoop([c EXCEPT !.state = "Disconnected", !.delay = InitRetryDelay,
                          !.connect = TRUE], result)

\* handleWrite(); newConnetionCallback_ takes the descriptor.
HandleWrite(c, ans) ==
    IF c.state # "Connecting"
    THEN Assert(c, c.state = "Disconnected", "handleWrite")
    ELSE LET d == RemoveAndResetChannel(c)
             up == [d EXCEPT !.state = "Connected"]
         IN  CASE ans # "ok" -> Retry(d, c.channel)
               [] ans = "ok" /\ c.connect ->
                     [up EXCEPT !.own = @ \ {c.channel},
                                !.handed = @ \union {c.channel}]
               [] OTHER -> Close(up, c.channel)

HandleError(c) ==
    Retry(RemoveAndResetChannel(Assert(c, c.state = "Connecting",
                                       "handleError")), c.channel)

\* Mutant: the write callback acts on what the error callback has finished.
HandleEvent_Twice(c, ans) ==
    IF ans = "error" THEN HandleError(HandleError(c)) ELSE HandleWrite(c, ans)

\* Channel::handleEvent: the error callback, then the write callback.  The
\* Connector sets no close and no read callback.
HandleEvent(c, ans) ==
    HandleWrite(IF ans = "error" THEN HandleError(c) ELSE c, ans)

-----------------------------------------------------------------------------
(* The loop                                                                *)

\* What a handler has left: its functors join the queue.
Commit(c) ==
    /\ k' = [c EXCEPT !.queued = <<>>]
    /\ pending' = pending \o c.queued

\* epoll_wait returns, woken or by its timeout.
Poll(ready, ans) ==
    /\ phase = "poll"
    /\ phase' = "events"
    /\ active' = IF ready /\ k.poller # {} THEN CHOOSE fd \in k.poller : TRUE
                 ELSE None
    /\ answer' = IF active' = None THEN answer ELSE ans
    /\ timerReady' \in {k.timers > 0, TRUE}
    /\ peerGone' \in {FALSE, k.handed # {}}
    /\ UNCHANGED <<k, pending, list, callVars>>

\* The channel's weak pointer to the Connector can be locked.
HandleChannel ==
    /\ phase = "events"
    /\ active # None
    /\ Commit(HandleEvent(k, answer))
    /\ active' = None
    /\ UNCHANGED <<phase, answer, timerReady, peerGone, list, callVars>>

\* TimerQueue::handleRead, which other timers bring about too: all of the
\* Connector's timers have expired, and one callback after the other is called.
HandleTimers(result) ==
    /\ phase = "events"
    /\ timerReady
    /\ IF k.timers = 0
       THEN UNCHANGED <<k, pending>>
       ELSE Commit(StartInLoop([k EXCEPT !.timers = @ - 1], result))
    /\ timerReady' = (k.timers > 1)
    /\ UNCHANGED <<phase, active, answer, peerGone, list, callVars>>

EventsDone ==
    /\ phase = "events"
    /\ active = None
    /\ ~timerReady /\ ~peerGone
    /\ phase' = "functors"
    /\ list' = pending
    /\ pending' = <<>>
    /\ UNCHANGED <<k, active, answer, timerReady, peerGone, callVars>>

RunFunctor(result) ==
    /\ phase = "functors"
    /\ list # <<>>
    /\ Commit(CASE Head(list) = "startInLoop" -> StartInLoop(k, result)
                [] Head(list) = "stopInLoop" -> StopInLoop(k)
                [] Head(list) = "resetChannel" -> ResetChannel(k)
                [] Head(list) = "connectDestroyed" -> ConnectDestroyed(k))
    /\ list' = Tail(list)
    /\ UNCHANGED <<phase, active, answer, timerReady, peerGone, callVars>>

FunctorsDone ==
    /\ phase = "functors"
    /\ list = <<>>
    /\ phase' = "poll"
    /\ UNCHANGED <<k, active, answer, timerReady, peerGone, pending, list,
                   callVars>>

-----------------------------------------------------------------------------
(* Calls of the application                                                *)

\* start(), which compares connect_ instead of setting it.
Start ==
    /\ app = "start"
    /\ starts < MaxStarts
    /\ starts' = starts + 1
    /\ pending' = Append(pending, "startInLoop")
    /\ UNCHANGED <<k, loopVars, app, stopper, stops>>

\* A call of stop() that has not got to stopInLoop.
StopUnderWay ==
    stopper \/ "stopInLoop" \in Range(pending) \union Range(list)

\* restart() on the loop thread, for the first attempt.
FirstRestart(result) ==
    /\ app = "restart"
    /\ phase # "poll"
    /\ k.state = "Disconnected" /\ ~k.connect /\ stops = 0
    /\ Commit(Restart(k, result))
    /\ UNCHANGED <<loopVars, callVars>>

\* The connection that was handed over ends (TcpClient::removeConnection):
\* connectDestroyed is queued, and the application lets it go at that or
\* calls restart(), with the old descriptor still open.
HandedCloses(result) ==
    /\ phase = "events"
    /\ peerGone
    /\ peerGone' = FALSE
    /\ LET c == [k EXCEPT !.queued = Append(@, "connectDestroyed")]
       IN  Commit(c) \/ Commit(Restart(c, result))
    /\ UNCHANGED <<phase, active, answer, timerReady, list, callVars>>

\* stop() by another thread: connect_ = false, then the functor.
StopSets ==
    /\ ~stopper
    /\ stops < MaxStops
    /\ stops' = stops + 1
    /\ stopper' = TRUE
    /\ k' = [k EXCEPT !.connect = FALSE]
    /\ UNCHANGED <<loopVars, pending, app, starts>>

StopQueues ==
    /\ stopper
    /\ stopper' = FALSE
    /\ pending' = Append(pending, "stopInLoop")
    /\ UNCHANGED <<k, loopVars, app, starts, stops>>

\* stop() on the loop thread, where runInLoop is a plain call; the channel
\* may be among those that are ready.
StopHere ==
    /\ phase # "poll"
    /\ stops < MaxStops
    /\ stops' = stops + 1
    /\ Commit(StopInLoop([k EXCEPT !.connect = FALSE]))
    /\ UNCHANGED <<loopVars, app, stopper, starts>>

-----------------------------------------------------------------------------

\* The process was aborted, or an assertion has failed.
Over == k.dead \/ k.misuse # {}

LoopStep ==
    /\ ~Over
    /\ \/ \E ready \in BOOLEAN, ans \in Answers : Poll(ready, ans)
       \/ HandleChannel
       \/ \E result \in Results :
             HandleTimers(result) \/ HandedCloses(result) \/ RunFunctor(result)
       \/ EventsDone
       \/ FunctorsDone

CallStep ==
    /\ ~Over
    /\ \/ Start
       \/ \E result \in Results : FirstRestart(result)
       \/ StopSets \/ StopQueues \/ StopHere

Next ==
    \/ LoopStep
    \/ CallStep
    \/ Over /\ UNCHANGED vars

Spec == Init /\ [][Next]_vars

\* The loop runs, a call of stop() goes on, and the server can be reached: an
\* attempt made again and again is at some time under way, and one that is
\* under way again and again is at some time answered.
FairSpec ==
    /\ Spec
    /\ WF_vars(LoopStep)
    /\ WF_vars(~Over /\ StopQueues)
    /\ SF_vars(~Over /\ HandleTimers("inProgress") /\ k.timers > 0)
    /\ SF_vars(~Over /\ Poll(TRUE, "ok") /\ k.poller # {})

-----------------------------------------------------------------------------
(* Properties                                                              *)

\* Types; the delay is the initial one, doubled up to the limit.
TypeOK ==
    /\ k.connect \in BOOLEAN
    /\ k.state \in States
    /\ k.delay \in InitRetryDelay..MaxRetryDelay
    /\ k.channel \in Fds \union {None}
    /\ k.poller \subseteq Fds /\ k.own \subseteq Fds /\ k.handed \subseteq Fds
    /\ k.timers \in Nat
    /\ k.queued = <<>>
    /\ k.dead \in BOOLEAN
    /\ phase \in {"poll", "events", "functors"}
    /\ active \in Fds \union {None}
    /\ answer \in Answers
    /\ timerReady \in BOOLEAN /\ peerGone \in BOOLEAN
    /\ pending \in Seq(FunctorNames) /\ list \in Seq(FunctorNames)
    /\ app \in {"start", "restart"}
    /\ stopper \in BOOLEAN
    /\ starts \in 0..MaxStarts /\ stops \in 0..MaxStops

\* The functors that have not run yet.
Waiting == Range(pending) \union Range(list)

\* The assertions of startInLoop (line 35) and handleWrite (line 182) hold
\* always.  Those of connecting (line 119) and handleError (line 189) can fail,
\* and with the latter a descriptor be closed twice, but only in one window:
\* between removeAndResetChannel() and the resetChannel functor it queued, by a
\* retry whose timer fires in it or a stop() before the channel's own handler.
AssertionsHold ==
    [][k.misuse = {} /\ k.misuse' # {} =>
          /\ k.misuse' \subseteq {"connecting", "handleError", "close"}
          /\ "resetChannel" \in Waiting]_vars

\* As long as no assertion has failed, the poller has no pointer to a Channel
\* that was destroyed, and what epoll_wait reported is not destroyed either,
\* although the object outlives its attempt until a functor resets it.
NoDanglingChannel ==
    k.misuse = {} =>
        /\ k.poller \subseteq {k.channel} \ {None}
        /\ active \in {None, k.channel}

\* As long as no assertion has failed, no descriptor is leaked or closed twice,
\* over any number of retries: the Connector's open descriptor is the one the
\* poller watches, it is gone when no attempt is under way, and the one handed
\* over is another.
DescriptorsOwned ==
    k.misuse \subseteq {"close"} =>
        /\ k.misuse = {}
        /\ k.own = k.poller
        /\ k.own # {} => k.state = "Connecting"
        /\ k.own \intersect k.handed = {}
        /\ Cardinality(k.handed) <= 1

\* An attempt is retried until it succeeds, unless it is stopped or fails in
\* a way that is not retried; the server must be reachable, and the process
\* alive.
RetriesUntilConnected ==
    k.connect ~> k.state = "Connected" \/ ~k.connect \/ k.gaveUp \/ Over

\* stop() ends what it finds under way, wherever the loop was when connect_
\* was cleared: once stopInLoop has run, the attempt's descriptor is closed,
\* and no timer brings up another attempt, unless restart() was called, which
\* sets connect_ again, or an assertion has failed.
StopEndsAttempt ==
    k.misuse = {} /\ stops > 0 /\ ~k.connect /\ ~StopUnderWay =>
        k.own = {} /\ k.poller = {}
=============================================================================
