-------------------------- MODULE TimerQueueProofs --------------------------
(***************************************************************************)
(* Proofs about TimerQueue, for any set of timers, any delays and any      *)
(* lateness of the loop.                                                   *)
(***************************************************************************)
EXTENDS TimerQueue, WellFoundedInduction, TLAPS

-----------------------------------------------------------------------------
(* The steps                                                               *)

\* Timers come in by addTimer, whichever interface function calls it.
LEMMA Steps ==
  ASSUME [Next]_vars
  PROVE  \/ \E i \in Timers, d \in -MaxLate..MaxDelay, every \in 0..MaxDelay :
               AddTimer(i, d, every)
         \/ LoopStep \/ Tick \/ ClockSetBack \/ UNCHANGED vars
<1>1. ASSUME NEW i \in Timers, NEW d \in -MaxLate..MaxDelay, RunAt(i, d)
      PROVE  \E every \in 0..MaxDelay : AddTimer(i, d, every)
  BY <1>1, TimerQueueAssumption DEF RunAt
<1>2. ASSUME NEW i \in Timers, NEW d \in 1..MaxDelay, RunEvery(i, d)
      PROVE  d \in -MaxLate..MaxDelay /\ d \in 0..MaxDelay /\ AddTimer(i, d, d)
  BY <1>2, TimerQueueAssumption DEF RunEvery
<1> QED
  BY <1>1, <1>2 DEF Next

-----------------------------------------------------------------------------
(* The earliest of the restarted timers                                    *)

\* A set of integers that is bounded below has a least element.
LEMMA LeastElement ==
  ASSUME NEW S \in SUBSET Int, S # {}, NEW low \in Int, \A x \in S : low <= x
  PROVE  \E x \in S : \A y \in S : x <= y
<1> DEFINE T == {x - low : x \in S}
<1>1. \A x \in S : x \in Int /\ x - low \in Nat
  OBVIOUS
<1>2. T \subseteq Nat
  BY <1>1
<1>3. PICK s \in S : TRUE
  OBVIOUS
<1>4. s - low \in T
  BY <1>3
<1>5. PICK t \in T : \A u \in T : ~(<<u, t>> \in OpToRel(<, Nat))
  <2> HIDE DEF T
  <2> QED
    BY <1>2, <1>4, WFMin, NatLessThanWellFounded
<1>6. \A u \in T : ~(u < t)
  <2> TAKE u \in T
  <2>1. <<u, t>> \in Nat \X Nat
    BY <1>2
  <2> QED
    BY <1>5, <2>1 DEF OpToRel
<1>7. PICK x \in S : t = x - low
  BY <1>5
<1>8. \A y \in S : x <= y
  <2> TAKE y \in S
  <2>1. ~(y - low < x - low)
    BY <1>6, <1>7
  <2> QED
    BY <1>1, <2>1
<1> QED
  BY <1>8

\* AtLeast is the larger of the two.
LEMMA AtLeastBound ==
  ASSUME NEW n \in Int, NEW low \in Int
  PROVE  /\ AtLeast(n, low) \in Int
         /\ AtLeast(n, low) >= low
         /\ AtLeast(n, low) >= n
         /\ AtLeast(n, low) = n \/ AtLeast(n, low) = low
  BY DEF AtLeast

\* FirstRestart is the earliest due time among the restarted timers.
LEMMA FirstRestartLeast ==
  ASSUME interval \in [Timers -> Int], sinceRead \in Int, Restarting # {}
  PROVE  /\ FirstRestart \in Int
         /\ \E i \in Restarting : FirstRestart = Restarted(i)
         /\ \A i \in Restarting : FirstRestart <= Restarted(i)
<1> DEFINE S == {Restarted(i) : i \in Restarting}
<1>1. \A i \in Restarting : Restarted(i) \in Int /\ -MaxLate <= Restarted(i)
  <2> TAKE i \in Restarting
  <2>1. interval[i] - sinceRead \in Int /\ -MaxLate \in Int
    BY TimerQueueAssumption DEF Restarting, Expired
  <2> QED
    BY <2>1, AtLeastBound DEF Restarted
<1>2. S \in SUBSET Int /\ S # {} /\ -MaxLate \in Int /\ \A x \in S : -MaxLate <= x
  BY <1>1, TimerQueueAssumption
<1>3. \E x \in S : \A y \in S : x <= y
  <2> HIDE DEF S
  <2> QED
    BY <1>2, LeastElement
<1>4. \E x \in S : \A i \in Restarting : x <= Restarted(i)
  BY <1>3
<1>5. FirstRestart \in S /\ \A i \in Restarting : FirstRestart <= Restarted(i)
  BY <1>4 DEF FirstRestart
<1> QED
  BY <1>1, <1>5

-----------------------------------------------------------------------------
(* Type correctness                                                        *)

\* TypeOK made inductive: the wall clock has been set back clockSteps times,
\* so no due time and no callback lies further ahead than that allows.
TypeInv ==
    /\ TypeOK
    /\ sinceRead >= -clockSteps
    /\ \A i \in Timers : due[i] <= MaxDelay + clockSteps

\* A restarted timer is due within the bounds of TypeInv.
LEMMA RestartedBound ==
  ASSUME TypeInv, NEW i \in Timers
  PROVE  Restarted(i) \in -MaxLate..(MaxDelay + clockSteps)
<1>1. /\ interval[i] \in 0..MaxDelay /\ clockSteps \in Nat
      /\ sinceRead \in Int /\ sinceRead >= -clockSteps
  BY TimerQueueAssumption DEF TypeInv, TypeOK
<1> QED
  BY <1>1, TimerQueueAssumption DEF Restarted, AtLeast

\* The type invariant of the timer queue.
THEOREM TypeCorrect == Spec => []TypeOK
<1>0. /\ 0 \in DueRange /\ 0 \in -MaxClockSteps..MaxLate
      /\ Disarmed \in Disarmed..(MaxDelay + MaxClockSteps)
  BY TimerQueueAssumption DEF DueRange, Disarmed
<1>1. Init => TypeInv
  <2> SUFFICES ASSUME Init PROVE TypeInv
    OBVIOUS
  <2>1. /\ due = [i \in Timers |-> 0] /\ interval = [i \in Timers |-> 0]
        /\ place = [i \in Timers |-> "none"] /\ armed = Disarmed
        /\ ready = FALSE /\ calling = FALSE /\ toRun = {}
        /\ sinceRead = 0 /\ clockSteps = 0
    BY DEF Init
  <2>2. \A i \in Timers : due[i] = 0
    BY <2>1
  <2>3. \A i \in Timers : due[i] <= MaxDelay + clockSteps
    <3>1. 0 <= MaxDelay + 0
      BY TimerQueueAssumption
    <3> QED
      BY <2>1, <2>2, <3>1
  <2>4. /\ place \in [Timers -> {"none", "queued", "expired", "deleted"}]
        /\ ready \in BOOLEAN /\ calling \in BOOLEAN /\ toRun \subseteq Timers
    BY <2>1
  <2>5. due \in [Timers -> DueRange] /\ interval \in [Timers -> 0..MaxDelay]
    BY <1>0, <2>1, TimerQueueAssumption
  <2>6. /\ armed \in Disarmed..(MaxDelay + MaxClockSteps)
        /\ sinceRead \in -MaxClockSteps..MaxLate /\ sinceRead >= -clockSteps
        /\ clockSteps \in 0..MaxClockSteps
    BY <1>0, <2>1, TimerQueueAssumption
  <2> QED
    BY <2>3, <2>4, <2>5, <2>6 DEF TypeInv, TypeOK
<1>2. TypeInv /\ [Next]_vars => TypeInv'
  <2> SUFFICES ASSUME TypeInv, [Next]_vars PROVE TypeInv'
    OBVIOUS
  <2> USE TimerQueueAssumption DEF DueRange, Disarmed
  <2>1. ASSUME NEW i \in Timers, NEW d \in -MaxLate..MaxDelay,
               NEW every \in 0..MaxDelay, AddTimer(i, d, every)
        PROVE  TypeInv'
    BY <2>1 DEF AddTimer, TypeInv, TypeOK, NotNegative
  <2>2. CASE Poll
    BY <2>2 DEF Poll, TypeInv, TypeOK
  <2>3. CASE HandleRead
    <3>1. toRun' \subseteq Timers
      BY <2>3 DEF HandleRead, Queued
    <3>2. place' \in [Timers -> {"none", "queued", "expired", "deleted"}]
      BY <2>3 DEF HandleRead, TypeInv, TypeOK
    <3>3. sinceRead' \in -MaxClockSteps..MaxLate /\ sinceRead' >= -clockSteps'
      BY <2>3 DEF HandleRead, TypeInv, TypeOK
    <3>4. armed' \in Disarmed..(MaxDelay + MaxClockSteps)
      BY <2>3 DEF HandleRead, TypeInv, TypeOK
    <3> QED
      BY <2>3, <3>1, <3>2, <3>3, <3>4 DEF HandleRead, TypeInv, TypeOK
  <2>4. ASSUME NEW i \in Timers, RunTimer(i) PROVE TypeInv'
    BY <2>4 DEF RunTimer, TypeInv, TypeOK
  <2>5. CASE Reset
    <3>1. due' \in [Timers -> DueRange]
          /\ \A i \in Timers : due'[i] <= MaxDelay + clockSteps
      BY <2>5, RestartedBound DEF Reset, TypeInv, TypeOK
    <3>2. place' \in [Timers -> {"none", "queued", "expired", "deleted"}]
      BY <2>5 DEF Reset, TypeInv, TypeOK
    <3>3. armed' \in Disarmed..(MaxDelay + MaxClockSteps)
      <4>1. CASE \E i \in Restarting : EarliestChanged(Restarted(i))
        <5>1. interval \in [Timers -> Int] /\ sinceRead \in Int
          BY DEF TypeInv, TypeOK
        <5>2. PICK i \in Restarting : FirstRestart = Restarted(i)
          BY <4>1, <5>1, FirstRestartLeast
        <5>3. FirstRestart \in -MaxLate..(MaxDelay + clockSteps)
          BY <5>2, RestartedBound DEF Restarting, Expired
        <5>4. clockSteps \in 0..MaxClockSteps
          BY DEF TypeInv, TypeOK
        <5>5. NotNegative(FirstRestart) \in Disarmed..(MaxDelay + MaxClockSteps)
          BY <5>3, <5>4 DEF NotNegative
        <5> QED
          BY <2>5, <4>1, <5>5 DEF Reset
      <4>2. CASE ~\E i \in Restarting : EarliestChanged(Restarted(i))
        BY <2>5, <4>2 DEF Reset, TypeInv, TypeOK
      <4> QED
        BY <4>1, <4>2
    <3>4. sinceRead' \in -MaxClockSteps..MaxLate /\ sinceRead' >= -clockSteps'
      BY <2>5 DEF Reset, TypeInv, TypeOK
    <3> QED
      BY <2>5, <3>1, <3>2, <3>3, <3>4 DEF Reset, TypeInv, TypeOK
  <2>6. CASE Tick
    <3>1. due' \in [Timers -> DueRange]
          /\ \A i \in Timers : due'[i] <= MaxDelay + clockSteps
      BY <2>6 DEF Tick, TypeInv, TypeOK, AtLeast
    <3> QED
      BY <2>6, <3>1 DEF Tick, TypeInv, TypeOK
  <2>7. CASE ClockSetBack
    <3>1. due' \in [Timers -> DueRange]
          /\ \A i \in Timers : due'[i] <= MaxDelay + clockSteps'
      BY <2>7 DEF ClockSetBack, TypeInv, TypeOK
    <3> QED
      BY <2>7, <3>1 DEF ClockSetBack, TypeInv, TypeOK
  <2>8. CASE UNCHANGED vars
    BY <2>8 DEF vars, TypeInv, TypeOK
  <2> QED
    BY <2>1, <2>2, <2>3, <2>4, <2>5, <2>6, <2>7, <2>8, Steps DEF LoopStep
<1> QED
  BY <1>1, <1>2, PTL DEF Spec, TypeInv
-----------------------------------------------------------------------------
(* The timerfd                                                             *)

\* Whenever the timerfd is armed it fires in time for every queued timer:
\* AddTimer compares with all of them, a restart with all that stayed, and
\* the two clocks advance together.
THEOREM TimerfdInTime == Spec => []ArmedInTime
<1>1. Init => ArmedInTime
  BY DEF Init, ArmedInTime
<1>2. TypeOK /\ ArmedInTime /\ [Next]_vars => ArmedInTime'
  <2> SUFFICES ASSUME TypeOK, ArmedInTime, [Next]_vars,
                      armed' # Disarmed, NEW j \in Timers, place'[j] = "queued"
               PROVE  armed' <= NotNegative(due'[j])
    BY DEF ArmedInTime, Queued
  <2>0. /\ due \in [Timers -> Int] /\ interval \in [Timers -> Int]
        /\ armed \in Int /\ armed >= -1 /\ sinceRead \in Int
        /\ DOMAIN place = Timers
    BY TimerQueueAssumption DEF TypeOK, DueRange, Disarmed
  <2> USE DEF NotNegative
  <2>1. ASSUME NEW i \in Timers, NEW d \in -MaxLate..MaxDelay,
               NEW every \in 0..MaxDelay, AddTimer(i, d, every)
        PROVE  armed' <= NotNegative(due'[j])
    <3>1. CASE EarliestChanged(d)
      BY <2>0, <2>1, <3>1 DEF AddTimer, EarliestChanged, Queued
    <3>2. CASE ~EarliestChanged(d)
      <4>1. PICK k \in Queued : ~(d < due[k])
        BY <3>2 DEF EarliestChanged
      <4>2. armed' = armed /\ armed <= NotNegative(due[k])
        BY <2>1, <3>2, <4>1 DEF AddTimer, ArmedInTime
      <4>3. CASE j = i
        BY <2>0, <2>1, <4>1, <4>2, <4>3 DEF AddTimer, Queued
      <4>4. CASE j # i
        BY <2>0, <2>1, <4>2, <4>4 DEF AddTimer, ArmedInTime, Queued
      <4> QED
        BY <4>3, <4>4
    <3> QED
      BY <3>1, <3>2
  <2>2. CASE HandleRead
    BY <2>0, <2>2 DEF HandleRead, ArmedInTime, Queued
  <2>3. CASE Reset
    <3>1. CASE \E i \in Restarting : EarliestChanged(Restarted(i))
      <4>1. PICK i \in Restarting : EarliestChanged(Restarted(i))
        BY <3>1
      <4>2. /\ FirstRestart \in Int
            /\ \A k \in Restarting : FirstRestart <= Restarted(k)
            /\ armed' = NotNegative(FirstRestart)
        BY <2>0, <2>3, <3>1, FirstRestartLeast DEF Reset
      <4>3. Restarted(i) \in Int
        BY <2>0, <4>1, TimerQueueAssumption
        DEF Restarted, AtLeast, Restarting, Expired
      <4>4. CASE j \in Restarting
        <5>1. due'[j] = Restarted(j) /\ Restarted(j) \in Int
          BY <2>0, <2>3, <4>4, TimerQueueAssumption
          DEF Reset, Restarted, AtLeast
        <5> QED
          BY <4>2, <4>4, <5>1
      <4>5. CASE j \notin Restarting
        <5>1. due'[j] = due[j] /\ j \in Queued
          BY <2>3, <4>5 DEF Reset, Queued, Expired
        <5>2. Restarted(i) < due[j]
          BY <4>1, <5>1 DEF EarliestChanged
        <5> QED
          BY <2>0, <4>1, <4>2, <4>3, <5>1, <5>2
      <4> QED
        BY <4>4, <4>5
    <3>2. CASE ~\E i \in Restarting : EarliestChanged(Restarted(i))
      <4>1. armed' = armed
        BY <2>3, <3>2 DEF Reset
      <4>2. CASE j \in Restarting
        <5>1. PICK k \in Queued : ~(Restarted(j) < due[k])
          BY <3>2, <4>2 DEF EarliestChanged
        <5>2. armed <= NotNegative(due[k])
          BY <4>1, <5>1 DEF ArmedInTime
        <5>3. due'[j] = Restarted(j) /\ Restarted(j) \in Int
          BY <2>0, <2>3, <4>2, TimerQueueAssumption
          DEF Reset, Restarted, AtLeast
        <5> QED
          BY <2>0, <4>1, <5>1, <5>2, <5>3 DEF Queued
      <4>3. CASE j \notin Restarting
        <5>1. due'[j] = due[j] /\ j \in Queued
          BY <2>3, <4>3 DEF Reset, Queued, Expired
        <5> QED
          BY <4>1, <5>1 DEF ArmedInTime
      <4> QED
        BY <4>2, <4>3
    <3> QED
      BY <3>1, <3>2
  <2>4. CASE Tick
    <3>1. j \in Queued
      BY <2>4 DEF Tick, Queued
    <3>2. due'[j] = AtLeast(due[j] - 1, -MaxLate) /\ due'[j] \in Int
          /\ due'[j] >= due[j] - 1
      BY <2>0, <2>4, <3>1, TimerQueueAssumption DEF Tick, Queued, AtLeast
    <3> QED
      BY <2>0, <2>4, <3>1, <3>2 DEF Tick, ArmedInTime, Disarmed
  <2>5. CASE ClockSetBack
    BY <2>0, <2>5 DEF ClockSetBack, ArmedInTime, Queued
  <2>6. CASE Poll \/ (\E i \in Timers : RunTimer(i)) \/ UNCHANGED vars
    BY <2>6 DEF Poll, RunTimer, vars, ArmedInTime, Queued
  <2> QED
    BY <2>1, <2>2, <2>3, <2>4, <2>5, <2>6, Steps DEF LoopStep
<1> QED
  BY <1>1, <1>2, TypeCorrect, PTL DEF Spec

-----------------------------------------------------------------------------
(* Expired timers                                                          *)

\* NoneLeftExpired made inductive: the loop does not poll during a handler,
\* so handleRead never starts while expired timers are still being run.
ExpiredInv == NoneLeftExpired /\ (ready => ~calling)

\* Every timer that getExpired takes out is restarted or deleted before the
\* next firing, and only taken-out timers are run.
THEOREM NoTimerLeaked == Spec => []NoneLeftExpired
<1>1. Init => ExpiredInv
  BY DEF Init, ExpiredInv, NoneLeftExpired, Expired
<1>2. TypeOK /\ ExpiredInv /\ [Next]_vars => ExpiredInv'
  <2> SUFFICES ASSUME TypeOK, ExpiredInv, [Next]_vars PROVE ExpiredInv'
    OBVIOUS
  <2> USE DEF ExpiredInv, NoneLeftExpired, Expired
  <2>0. DOMAIN place = Timers
    BY DEF TypeOK
  <2>1. ASSUME NEW i \in Timers, NEW d \in -MaxLate..MaxDelay,
               NEW every \in 0..MaxDelay, AddTimer(i, d, every)
        PROVE  ExpiredInv'
    BY <2>0, <2>1 DEF AddTimer
  <2>2. CASE Poll \/ Tick \/ ClockSetBack
    BY <2>2 DEF Poll, Tick, ClockSetBack
  <2>3. CASE HandleRead
    BY <2>0, <2>3 DEF HandleRead, Queued
  <2>4. ASSUME NEW i \in Timers, RunTimer(i) PROVE ExpiredInv'
    BY <2>4 DEF RunTimer
  <2>5. CASE Reset
    BY <2>0, <2>5 DEF Reset, Restarting
  <2>6. CASE UNCHANGED vars
    BY <2>6 DEF vars
  <2> QED
    BY <2>1, <2>2, <2>3, <2>4, <2>5, <2>6, Steps DEF LoopStep
<1> QED
  BY <1>1, <1>2, TypeCorrect, PTL DEF Spec, ExpiredInv
=============================================================================
