----------------------------- MODULE TimerQueue -----------------------------
(***************************************************************************)
(* TimerQueue (TimerQueue.cpp, Timer.cpp) with its timerfd.  The queue     *)
(* keeps Timer objects ordered by expiration and arms the one-shot timerfd *)
(* for the earliest; when the timerfd fires, the expired timers are taken  *)
(* out, run, and restarted or deleted.                                     *)
(*                                                                         *)
(* Time is counted in ticks and kept relative to the present: due[i] is    *)
(* how far timer i's expiration lies ahead on the wall clock               *)
(* (Timestamp::now), armed how far the timerfd's lies ahead on the         *)
(* monotonic clock.  The 100 microseconds that howMuchTImeFromNow waits at *)
(* least are less than a tick.                                             *)
(*                                                                         *)
(* cancel() is left out: EventLoop's runAt, runAfter and runEvery return   *)
(* nothing, so no caller can have a TimerId.                               *)
(***************************************************************************)
EXTENDS Integers

CONSTANTS
    Timers,         \* the Timer objects that may be created
    MaxDelay,       \* bound: longest delay and interval, in ticks
    MaxLate,        \* bound: ticks that callbacks and scheduling may cost
    MaxClockSteps   \* how often the wall clock is set back, one tick each

ASSUME TimerQueueAssumption ==
    MaxDelay \in Nat \ {0} /\ MaxLate \in Nat /\ MaxClockSteps \in Nat

VARIABLES
    place,          \* of each timer: none, queued (timers_), expired (the
                    \* expired vector of handleRead), deleted
    due,            \* its expiration, in ticks from now
    interval,       \* interval_, 0 for a one-shot timer
    armed,          \* ticks until the timerfd fires, 0 when it is readable
    ready,          \* the timerfd's channel is in the loop's snapshot
    calling,        \* callingExpiredTimers_
    toRun,          \* expired timers whose callbacks have not run yet
    sinceRead,      \* ticks since handleRead took the time
    clockSteps      \* how often the clock was set back

vars == <<place, due, interval, armed, ready, calling, toRun, sinceRead,
          clockSteps>>

Disarmed == -1

Queued == {i \in Timers : place[i] = "queued"}
Expired == {i \in Timers : place[i] = "expired"}

DueRange == -MaxLate..(MaxDelay + MaxClockSteps)

\* Type correctness: the timerfd is never set to a time in the past, and
\* relative times stay within what delays and lateness allow.
TypeOK ==
    /\ place \in [Timers -> {"none", "queued", "expired", "deleted"}]
    /\ due \in [Timers -> DueRange]
    /\ interval \in [Timers -> 0..MaxDelay]
    /\ armed \in Disarmed..(MaxDelay + MaxClockSteps)
    /\ ready \in BOOLEAN
    /\ calling \in BOOLEAN
    /\ toRun \subseteq Timers
    /\ sinceRead \in -MaxClockSteps..MaxLate
    /\ clockSteps \in 0..MaxClockSteps

Init ==
    /\ place = [i \in Timers |-> "none"]
    /\ due = [i \in Timers |-> 0]
    /\ interval = [i \in Timers |-> 0]
    /\ armed = Disarmed
    /\ ready = FALSE
    /\ calling = FALSE
    /\ toRun = {}
    /\ sinceRead = 0
    /\ clockSteps = 0

\* Mutant: howMuchTImeFromNow without its lower bound.
NotNegative_Unclamped(n) == n

\* howMuchTImeFromNow waits a little when the time has already passed.
NotNegative(n) == IF n < 0 THEN 0 ELSE n

AtLeast(n, low) == IF n < low THEN low ELSE n

-----------------------------------------------------------------------------
(* addTimer                                                                *)

\* Mutant: the comparison is the wrong way round.
EarliestChanged_Reversed(d) ==
    Queued = {} \/ \E i \in Queued : d > due[i]

\* insert's answer: a timer due at d will be the first of timers_.
EarliestChanged(d) == \A i \in Queued : d < due[i]

\* addTimer on the loop thread, from any handler, functor or timer callback.
\* From another thread it would race with the loop for timers_, a std::set
\* without a lock (TimerQueue.cpp:83).
AddTimer(i, d, every) ==
    /\ place[i] = "none"
    /\ place' = [place EXCEPT ![i] = "queued"]
    /\ due' = [due EXCEPT ![i] = d]
    /\ interval' = [interval EXCEPT ![i] = every]
    /\ armed' = IF EarliestChanged(d) THEN NotNegative(d) ELSE armed
    /\ UNCHANGED <<ready, calling, toRun, sinceRead, clockSteps>>

\* runAt and runAfter; the time given to runAt may have passed.
RunAt(i, d) == AddTimer(i, d, 0)

RunEvery(i, d) == AddTimer(i, d, d)

-----------------------------------------------------------------------------
(* handleRead                                                              *)

\* epoll_wait reports the timerfd.
Poll ==
    /\ ~calling /\ ~ready
    /\ armed = 0
    /\ ready' = TRUE
    /\ UNCHANGED <<place, due, interval, armed, calling, toRun, sinceRead,
                   clockSteps>>

\* Mutant: getExpired leaves the expired entries in timers_.
HandleRead_KeepsEntries ==
    /\ ready
    /\ ready' = FALSE
    /\ armed' = IF armed = 0 THEN Disarmed ELSE armed
    /\ toRun' = {i \in Queued : due[i] <= 0}
    /\ calling' = TRUE
    /\ sinceRead' = 0
    /\ UNCHANGED <<place, due, interval, clockSteps>>

\* readTimerfd and getExpired.  A timer added between epoll_wait and this
\* handler may have re-armed the timerfd, which is then not readable and
\* stays armed.
HandleRead ==
    /\ ready
    /\ ready' = FALSE
    /\ armed' = IF armed = 0 THEN Disarmed ELSE armed
    /\ toRun' = {i \in Queued : due[i] <= 0}
    /\ place' = [i \in Timers |-> IF i \in toRun' THEN "expired" ELSE place[i]]
    /\ calling' = TRUE
    /\ sinceRead' = 0
    /\ UNCHANGED <<due, interval, clockSteps>>

\* One callback; it may call addTimer, which is AddTimer above.
RunTimer(i) ==
    /\ calling
    /\ i \in toRun
    /\ \A j \in toRun : due[i] <= due[j]
    /\ toRun' = toRun \ {i}
    /\ UNCHANGED <<place, due, interval, armed, ready, calling, sinceRead,
                   clockSteps>>

\* The due time restart(now) gives to i, now being handleRead's.
Restarted(i) == AtLeast(interval[i] - sinceRead, -MaxLate)

Restarting == {i \in Expired : interval[i] > 0}

\* Mutant: reset() never sets the timerfd again.
Reset_NoRearm ==
    /\ calling
    /\ toRun = {}
    /\ calling' = FALSE
    /\ place' = [i \in Timers |->
          IF i \notin Expired THEN place[i]
          ELSE IF i \in Restarting THEN "queued" ELSE "deleted"]
    /\ due' = [i \in Timers |->
          IF i \in Restarting THEN Restarted(i) ELSE due[i]]
    /\ sinceRead' = 0
    /\ UNCHANGED <<interval, armed, ready, toRun, clockSteps>>

\* timers_.begin()->first once a restarted timer has become the earliest.
FirstRestart ==
    CHOOSE d \in {Restarted(i) : i \in Restarting} :
        \A i \in Restarting : d <= Restarted(i)

\* reset(): repeating timers are restarted and inserted, the others deleted;
\* the timerfd is set again only if an insertion changed the earliest entry.
Reset ==
    /\ calling
    /\ toRun = {}
    /\ calling' = FALSE
    /\ place' = [i \in Timers |->
          IF i \notin Expired THEN place[i]
          ELSE IF i \in Restarting THEN "queued" ELSE "deleted"]
    /\ due' = [i \in Timers |->
          IF i \in Restarting THEN Restarted(i) ELSE due[i]]
    /\ armed' = IF \E i \in Restarting : EarliestChanged(Restarted(i))
                THEN NotNegative(FirstRestart) ELSE armed
    /\ sinceRead' = 0
    /\ UNCHANGED <<interval, ready, toRun, clockSteps>>

-----------------------------------------------------------------------------
(* The clocks (external)                                                   *)

Tick ==
    /\ calling => sinceRead < MaxLate
    /\ due' = [i \in Timers |-> IF place[i] \in {"queued", "expired"}
                                THEN AtLeast(due[i] - 1, -MaxLate) ELSE due[i]]
    /\ armed' = IF armed > 0 THEN armed - 1 ELSE armed
    /\ sinceRead' = IF calling THEN sinceRead + 1 ELSE sinceRead
    /\ UNCHANGED <<place, interval, ready, calling, toRun, clockSteps>>

\* The wall clock is set back by a tick; the monotonic clock is not.  A wall
\* clock set forward, which leaves an armed timerfd late for every timer in
\* the queue, is not modelled.
ClockSetBack ==
    /\ clockSteps < MaxClockSteps
    /\ clockSteps' = clockSteps + 1
    /\ due' = [i \in Timers |-> IF place[i] \in {"queued", "expired"}
                                THEN due[i] + 1 ELSE due[i]]
    /\ sinceRead' = IF calling THEN sinceRead - 1 ELSE sinceRead
    /\ UNCHANGED <<place, interval, armed, ready, calling, toRun>>

LoopStep == Poll \/ HandleRead \/ (\E i \in Timers : RunTimer(i)) \/ Reset

Next ==
    \/ \E i \in Timers, d \in -MaxLate..MaxDelay : RunAt(i, d)
    \/ \E i \in Timers, d \in 1..MaxDelay : RunEvery(i, d)
    \/ LoopStep
    \/ Tick
    \/ ClockSetBack

Spec == Init /\ [][Next]_vars

\* Time passes and the loop thread is scheduled.
FairSpec == Spec /\ WF_vars(Tick) /\ WF_vars(LoopStep)

-----------------------------------------------------------------------------
(* Properties                                                              *)

\* Whenever the timerfd is armed it fires no later than the first timer in
\* the queue is due, even when the wall clock is set back: insertions from
\* handlers and from timer callbacks, and restarts, all keep it so.  It does
\* not hold of a wall clock set forward, see ClockSetBack.
ArmedInTime ==
    armed # Disarmed => \A i \in Queued : armed <= NotNegative(due[i])

\* Between two firings every timer that was taken out has been put back or
\* deleted: none is leaked and none that is queued is also being run.
NoneLeftExpired ==
    /\ ~calling => Expired = {}
    /\ toRun \subseteq Expired

\* A loop's only timer, which is all the HTTP server has (HttpServer.cpp:91),
\* fires every time it is queued, unless the wall clock was set back.
OnlyTimerFires ==
    \A i \in Timers :
        place[i] = "queued" /\ (\A j \in Timers \ {i} : place[j] = "none")
            ~> \/ place[i] = "expired" \/ clockSteps > 0
               \/ \E j \in Timers \ {i} : place[j] # "none"

\* Timers fire ("在指定时间点运行回调cb", "每隔interval sec周期执行回调",
\* EventLoop.h:34-38): a queued timer expires, every time it is queued.
TimersFire == \A i \in Timers : place[i] = "queued" ~> place[i] = "expired"
=============================================================================
