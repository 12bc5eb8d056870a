-------------------------- MODULE ConnectorProofs --------------------------
(***************************************************************************)
(* Proofs about Connector, for any descriptors, delays and numbers of      *)
(* calls, on a loop with other timers and with restart() and stop() at any *)
(* time.                                                                   *)
(***************************************************************************)
EXTENDS Connector, SequenceTheorems, FiniteSetTheorems, WellFoundedInduction,
        TLAPS

-----------------------------------------------------------------------------
(* The inductive invariant                                                 *)

\* The assertions, and the second close of a descriptor.
Misuses == {"startInLoop", "connecting", "handleWrite", "handleError", "close"}

\* The Connector's record.
Records ==
    [connect : BOOLEAN, state : States, delay : InitRetryDelay..MaxRetryDelay,
     channel : Fds \union {None}, poller : SUBSET Fds, own : SUBSET Fds,
     handed : SUBSET Fds, timers : Nat, queued : Seq(FunctorNames),
     dead : BOOLEAN, gaveUp : BOOLEAN, misuse : SUBSET Misuses]

\* The variables other than the Connector's record.
FlagsOK == timerReady \in BOOLEAN /\ peerGone \in BOOLEAN /\ stopper \in BOOLEAN
OthersOK ==
    /\ phase \in {"poll", "events", "functors"}
    /\ active \in Fds \union {None}
    /\ answer \in Answers
    /\ pending \in Seq(FunctorNames) /\ list \in Seq(FunctorNames)
    /\ app \in {"start", "restart"}
    /\ starts \in 0..MaxStarts /\ stops \in 0..MaxStops
Types == k \in Records /\ k.queued = <<>> /\ FlagsOK /\ OthersOK

\* How the Connector fits the functors w that wait.  While an attempt is under
\* way its descriptor, and nothing else of the Connector's, is open and
\* watched, and no resetChannel waits that would destroy its Channel.
\* Otherwise nothing is open or watched, and a Channel is left exactly until
\* the resetChannel that waits for it.  A timer is one of a Connector at rest,
\* and what is handed over is at the application or on its way to be destroyed.
Fits(c, w) ==
    /\ c.state = "Connecting" =>
          /\ c.channel # None
          /\ c.own = {c.channel} /\ c.poller = {c.channel}
          /\ c.timers = 0 /\ "resetChannel" \notin w
    /\ c.state # "Connecting" =>
          /\ c.own = {} /\ c.poller = {}
          /\ c.channel # None <=> "resetChannel" \in w
    /\ c.timers \in {0, 1} /\ (c.timers = 1 => c.state = "Disconnected")
    /\ c.handed = {} \/ \E fd \in Fds : c.handed = {fd}
    /\ c.handed # {} => c.state = "Connected" \/ "connectDestroyed" \in w
    /\ c.own \intersect c.handed = {}

\* resetChannel does not wait twice.
NoRepeat(q) ==
    \A i, j \in DOMAIN q : q[i] = "resetChannel" /\ q[j] = "resetChannel" => i = j
QueuesOK ==
    /\ NoRepeat(list) /\ NoRepeat(pending)
    /\ ~("resetChannel" \in Range(list) /\ "resetChannel" \in Range(pending))

\* What the calls of start(), restart() and stop() have left: an attempt under
\* way is wanted or about to be stopped, and before the first restart() the
\* Connector is as it was made.
CallsOK ==
    /\ StopUnderWay => stops # 0
    /\ k.state = "Connecting" => k.connect \/ StopUnderWay
    /\ ~k.connect /\ (stops = 0 \/ app = "start") =>
          k.state = "Disconnected" /\ k.channel = None /\ k.timers = 0
    /\ app = "start" => ~k.connect
    /\ "startInLoop" \in Waiting => app = "start"

\* What epoll_wait reported is still there in its turn, and what is queued in
\* the events of a turn runs in its functors.
TurnOK ==
    /\ active # None =>
          phase = "events" /\ active = k.channel /\ k.state # "Connected"
    /\ peerGone =>
          /\ phase = "events" /\ k.handed # {} /\ k.state = "Connected"
          /\ "connectDestroyed" \notin Waiting
    /\ phase # "functors" => list = <<>>
    /\ "connectDestroyed" \in Range(pending) => phase = "events" /\ active = None

Good == Fits(k, Waiting) /\ QueuesOK /\ CallsOK /\ TurnOK

\* The whole invariant: the types hold whatever happened, the rest until an
\* assertion fails.
IInv ==
    /\ Types
    /\ k.misuse = {} => Good
    /\ k.misuse # {} => ~(k.misuse \subseteq {"close"})

\* What is shown of each step taken before an assertion has failed.
StepOK ==
    /\ Types'
    /\ k'.misuse \subseteq {"connecting", "handleError", "close"}
    /\ k'.misuse # {} =>
          "resetChannel" \in Waiting /\ ~(k'.misuse \subseteq {"close"})
    /\ k'.misuse = {} => Good'

-----------------------------------------------------------------------------
(* The functions of the Connector                                          *)

\* A descriptor is found where one is free.
LEMMA NewFdFree ==
  ASSUME NEW c, FreeFds(c) # {}
  PROVE  NewFd(c) \in FreeFds(c)
<1> DEFINE F == FreeFds(c)
<1>1. F \subseteq Nat
  BY ConnectorAssumption DEF FreeFds
<1>2. PICK x \in F : TRUE
  OBVIOUS
<1> HIDE DEF F
<1>3. PICK least \in F : \A y \in F : ~(<<y, least>> \in OpToRel(<, Nat))
  BY <1>1, <1>2, WFMin, NatLessThanWellFounded
<1>4. \A y \in F : least <= y
  <2> TAKE y \in F
  <2>1. <<y, least>> \in Nat \X Nat /\ ~(y < least)
    BY <1>1, <1>3 DEF OpToRel
  <2> QED
    BY <1>1, <2>1
<1> QED
  BY <1>4 DEF NewFd, F

\* The delay stays within its limits.
LEMMA NextDelayBounded ==
  ASSUME NEW d \in InitRetryDelay..MaxRetryDelay
  PROVE  NextDelay(d) \in InitRetryDelay..MaxRetryDelay
  BY ConnectorAssumption DEF NextDelay

\* close() of an open descriptor.
LEMMA CloseFields ==
  ASSUME NEW c \in Records, NEW fd \in c.own
  PROVE  LET d == Close(c, fd)
         IN  /\ d \in Records /\ d.own = c.own \ {fd}
             /\ d.state = c.state /\ d.timers = c.timers
             /\ d.connect = c.connect /\ d.channel = c.channel
             /\ d.poller = c.poller /\ d.handed = c.handed
             /\ d.queued = c.queued /\ d.misuse = c.misuse
             /\ d.delay = c.delay
<1>1. Close(c, fd) = [c EXCEPT !.own = @ \ {fd}]
  BY DEF Close, Assert
<1> QED
  BY <1>1 DEF Records

\* retry() closes the descriptor it is given, and sets a timer unless the
\* Connector was stopped.
LEMMA RetryFields ==
  ASSUME NEW c \in Records, NEW fd \in c.own
  PROVE  LET d == Retry(c, fd)
         IN  /\ d \in Records
             /\ d.state = "Disconnected" /\ d.own = c.own \ {fd}
             /\ d.timers = IF c.connect THEN c.timers + 1 ELSE c.timers
             /\ d.connect = c.connect /\ d.channel = c.channel
             /\ d.poller = c.poller /\ d.handed = c.handed
             /\ d.queued = c.queued /\ d.misuse = c.misuse
<1> DEFINE b == Close(c, fd)
           d == [b EXCEPT !.state = "Disconnected"]
           e == [d EXCEPT !.timers = @ + 1, !.delay = NextDelay(@)]
<1>1. Retry(c, fd) = IF d.connect THEN e ELSE d
  BY DEF Retry
<1>2. /\ b \in Records /\ b.own = c.own \ {fd} /\ b.timers = c.timers
      /\ b.connect = c.connect /\ b.channel = c.channel
      /\ b.poller = c.poller /\ b.handed = c.handed
      /\ b.queued = c.queued /\ b.misuse = c.misuse
  BY CloseFields
<1> HIDE DEF b
<1>3. /\ d \in Records /\ d.own = c.own \ {fd} /\ d.timers = c.timers
      /\ d.connect = c.connect /\ d.channel = c.channel
      /\ d.poller = c.poller /\ d.handed = c.handed
      /\ d.queued = c.queued /\ d.misuse = c.misuse
      /\ d.state = "Disconnected"
  BY <1>2 DEF Records, States
<1> HIDE DEF d
<1>4. NextDelay(d.delay) \in InitRetryDelay..MaxRetryDelay
  BY <1>3, NextDelayBounded DEF Records
<1>5. /\ e \in Records /\ e.own = c.own \ {fd} /\ e.timers = c.timers + 1
      /\ e.connect = c.connect /\ e.channel = c.channel
      /\ e.poller = c.poller /\ e.handed = c.handed
      /\ e.queued = c.queued /\ e.misuse = c.misuse
      /\ e.state = "Disconnected"
  <2>1. d.timers + 1 \in Nat
    BY <1>3 DEF Records
  <2>2. e \in Records
    BY <1>3, <1>4, <2>1 DEF Records
  <2>3. /\ e.own = d.own /\ e.timers = d.timers + 1
        /\ e.connect = d.connect /\ e.channel = d.channel
        /\ e.poller = d.poller /\ e.handed = d.handed
        /\ e.queued = d.queued /\ e.misuse = d.misuse /\ e.state = d.state
    BY <1>3 DEF Records
  <2> HIDE DEF e
  <2> QED
    BY <1>3, <2>2, <2>3
<1> HIDE DEF e
<1>6. CASE d.connect
  BY <1>1, <1>3, <1>5, <1>6
<1>7. CASE ~d.connect
  BY <1>1, <1>3, <1>7
<1> QED
  BY <1>6, <1>7

\* removeAndResetChannel() takes the channel from the poller, and leaves the
\* object to a functor.
LEMMA RemoveFields ==
  ASSUME NEW c \in Records
  PROVE  LET d == RemoveAndResetChannel(c)
         IN  /\ d \in Records
             /\ d.poller = c.poller \ {c.channel}
             /\ d.queued = Append(c.queued, "resetChannel")
             /\ d.state = c.state /\ d.own = c.own /\ d.timers = c.timers
             /\ d.connect = c.connect /\ d.channel = c.channel
             /\ d.handed = c.handed /\ d.misuse = c.misuse
<1>1. Append(c.queued, "resetChannel") \in Seq(FunctorNames)
  BY AppendProperties DEF Records, FunctorNames
<1> QED
  BY <1>1 DEF RemoveAndResetChannel, Records

\* connecting() takes over a descriptor; its assertion is that the last
\* Channel is gone.
LEMMA ConnectingFields ==
  ASSUME NEW c \in Records, NEW fd \in Fds
  PROVE  LET d == Connecting(c, fd)
         IN  /\ d \in Records /\ d.state = "Connecting" /\ d.channel = fd
             /\ d.poller = c.poller \union {fd} /\ d.own = c.own
             /\ d.timers = c.timers /\ d.connect = c.connect
             /\ d.handed = c.handed /\ d.queued = c.queued
             /\ d.misuse = IF c.channel = None THEN c.misuse
                           ELSE c.misuse \union {"connecting"}
<1> DEFINE a == Assert(c, c.channel = None, "connecting")
           m == IF c.channel = None THEN c.misuse
                ELSE c.misuse \union {"connecting"}
<1>1. a = IF c.channel = None THEN c ELSE [c EXCEPT !.misuse = m]
  BY DEF Assert, Records
<1>2. m \in SUBSET Misuses
  BY DEF Records, Misuses
<1>3. [c EXCEPT !.misuse = m] \in Records
  BY <1>2 DEF Records
<1>4. /\ a \in Records /\ a.poller = c.poller /\ a.own = c.own
      /\ a.timers = c.timers /\ a.connect = c.connect
      /\ a.handed = c.handed /\ a.queued = c.queued /\ a.misuse = m
  <2>1. CASE c.channel = None
    BY <1>1, <2>1
  <2>2. CASE c.channel # None
    <3> HIDE DEF m
    <3> QED
      BY <1>1, <1>2, <1>3, <2>2 DEF Records
  <2> QED
    BY <2>1, <2>2
<1>5. Connecting(c, fd) =
        [a EXCEPT !.state = "Connecting", !.channel = fd,
                  !.poller = @ \union {fd}]
  BY DEF Connecting
<1> HIDE DEF a, m
<1>6. Connecting(c, fd) \in Records
  <2>1. a.poller \union {fd} \in SUBSET Fds
    BY <1>4 DEF Records
  <2>2. "Connecting" \in States /\ fd \in Fds \union {None}
    BY DEF States
  <2> QED
    BY <1>4, <1>5, <2>1, <2>2 DEF Records
<1>7. LET d == Connecting(c, fd)
      IN  /\ d.state = "Connecting" /\ d.channel = fd
          /\ d.poller = a.poller \union {fd} /\ d.own = a.own
          /\ d.timers = a.timers /\ d.connect = a.connect
          /\ d.handed = a.handed /\ d.queued = a.queued
          /\ d.misuse = a.misuse
  BY <1>4, <1>5 DEF Records
<1> QED
  BY <1>4, <1>6, <1>7 DEF m

\* startInLoop() at rest begins an attempt, sets a timer, gives up or ends the
\* process.  Its assertion holds; that of connecting() fails where the last
\* Channel waits for its resetChannel.
LEMMA StartFields ==
  ASSUME NEW c \in Records, NEW w, NEW result \in Results, Fits(c, w),
         c.state = "Disconnected", c.connect, c.timers = 0, c.misuse = {}
  PROVE  LET d == StartInLoop(c, result)
         IN  /\ d \in Records
             /\ d.connect = c.connect /\ d.queued = c.queued
             /\ d.handed = c.handed
             /\ d.misuse \in {{}, {"connecting"}}
             /\ d.misuse # {} => "resetChannel" \in w
             /\ d.misuse = {} =>
                   /\ Fits(d, w) /\ d.state # "Connected"
                   /\ d.channel = c.channel \/ c.channel = None
<1>1. StartInLoop(c, result) = Connect(c, result)
  BY DEF StartInLoop, Assert
<1>2. c.own = {} /\ c.poller = {} /\ (c.channel # None <=> "resetChannel" \in w)
  BY DEF Fits
<1>3. CASE result = "dies" \/ FreeFds(c) = {}
  <2> DEFINE d == [c EXCEPT !.dead = TRUE]
  <2>1. Connect(c, result) = d
    BY <1>3 DEF Connect
  <2>2. /\ d \in Records /\ d.connect = c.connect /\ d.queued = c.queued
        /\ d.handed = c.handed /\ d.misuse = c.misuse /\ d.state = c.state
        /\ d.channel = c.channel /\ d.own = c.own /\ d.poller = c.poller
        /\ d.timers = c.timers
    BY DEF Records
  <2> HIDE DEF d
  <2>3. Fits(d, w)
    BY <2>2 DEF Fits
  <2> QED
    BY <1>1, <2>1, <2>2, <2>3
<1>4. CASE ~(result = "dies" \/ FreeFds(c) = {})
  <2> DEFINE fd == NewFd(c)
             d == [c EXCEPT !.own = @ \union {fd},
                            !.gaveUp = (result = "fatal")]
  <2>1. fd \in FreeFds(c)
    BY <1>4, NewFdFree
  <2>2. Connect(c, result) = CASE result = "inProgress" -> Connecting(d, fd)
                               [] result = "again" -> Retry(d, fd)
                               [] result = "fatal" -> Close(d, fd)
    BY <1>4 DEF Connect
  <2> HIDE DEF fd
  <2>3. fd \in Fds /\ fd \notin c.handed
    BY <2>1 DEF FreeFds
  <2>4. /\ d \in Records /\ d.own = {fd} /\ d.connect = c.connect
        /\ d.queued = c.queued /\ d.misuse = c.misuse
        /\ d.state = "Disconnected" /\ d.timers = 0 /\ d.channel = c.channel
        /\ d.poller = {} /\ d.handed = c.handed
    BY <1>2, <2>3 DEF Records
  <2> HIDE DEF d
  <2>5. CASE result = "inProgress"
    <3> DEFINE e == Connecting(d, fd)
    <3>1. StartInLoop(c, result) = e
      BY <1>1, <2>2, <2>5
    <3>2. /\ e \in Records /\ e.state = "Connecting" /\ e.channel = fd
          /\ e.poller = d.poller \union {fd} /\ e.own = d.own
          /\ e.timers = d.timers /\ e.connect = d.connect
          /\ e.handed = d.handed /\ e.queued = d.queued
          /\ e.misuse = IF d.channel = None THEN d.misuse
                        ELSE d.misuse \union {"connecting"}
      BY <2>3, <2>4, ConnectingFields, ZenonT(40)
    <3> HIDE DEF e
    <3>3. e.poller = {fd} /\ e.own = {fd} /\ e.timers = 0 /\ fd # None
      BY <2>3, <2>4, <3>2, ConnectorAssumption DEF None
    <3>4. /\ e.misuse \in {{}, {"connecting"}}
          /\ e.misuse # {} => "resetChannel" \in w
          /\ e.misuse = {} => c.channel = None /\ "resetChannel" \notin w
      BY <1>2, <2>4, <3>2
    <3>5. e.misuse = {} => Fits(e, w)
      BY <2>3, <2>4, <3>2, <3>3, <3>4 DEF Fits
    <3> QED
      BY <2>4, <3>1, <3>2, <3>4, <3>5
  <2>6. CASE result = "again"
    <3> DEFINE e == Retry(d, fd)
    <3>1. StartInLoop(c, result) = e
      BY <1>1, <2>2, <2>6
    <3>2. /\ e \in Records /\ e.state = "Disconnected"
          /\ e.own = d.own \ {fd}
          /\ e.timers = IF d.connect THEN d.timers + 1 ELSE d.timers
          /\ e.connect = d.connect /\ e.channel = d.channel
          /\ e.poller = d.poller /\ e.handed = d.handed
          /\ e.queued = d.queued /\ e.misuse = d.misuse
      <4>1. fd \in d.own /\ d \in Records
        BY <2>4
      <4> QED
        BY <4>1, RetryFields
    <3> HIDE DEF e
    <3>3. e.own = {} /\ e.timers \in {0, 1}
      BY <2>4, <3>2
    <3>4. Fits(e, w)
      BY <1>2, <2>4, <3>2, <3>3 DEF Fits
    <3> QED
      BY <2>4, <3>1, <3>2, <3>4
  <2>7. CASE result = "fatal"
    <3> DEFINE e == Close(d, fd)
    <3>1. StartInLoop(c, result) = e
      BY <1>1, <2>2, <2>7
    <3>2. /\ e \in Records /\ e.own = d.own \ {fd}
          /\ e.state = d.state /\ e.timers = d.timers
          /\ e.connect = d.connect /\ e.channel = d.channel
          /\ e.poller = d.poller /\ e.handed = d.handed
          /\ e.queued = d.queued /\ e.misuse = d.misuse
      BY <2>4, CloseFields
    <3> HIDE DEF e
    <3>3. e.own = {}
      BY <2>4, <3>2
    <3>4. Fits(e, w)
      BY <1>2, <2>4, <3>2, <3>3 DEF Fits
    <3> QED
      BY <2>4, <3>1, <3>2, <3>4
  <2> QED
    BY <1>4, <2>5, <2>6, <2>7 DEF Results
<1> QED
  BY <1>3, <1>4

\* Without connect_ startInLoop() does nothing.
LEMMA StartOff ==
  ASSUME NEW c \in Records, NEW result, c.state = "Disconnected", ~c.connect
  PROVE  StartInLoop(c, result) = c
  BY DEF StartInLoop, Assert

\* restart() is startInLoop() after a reset of state_, delay and connect_.
LEMMA RestartFields ==
  ASSUME NEW c \in Records, NEW w, NEW result \in Results, Fits(c, w),
         c.state # "Connecting", c.timers = 0, c.misuse = {},
         c.handed # {} => "connectDestroyed" \in w
  PROVE  LET d == Restart(c, result)
         IN  /\ d \in Records
             /\ d.connect /\ d.queued = c.queued
             /\ d.handed = c.handed
             /\ d.misuse \in {{}, {"connecting"}}
             /\ d.misuse # {} => "resetChannel" \in w
             /\ d.misuse = {} =>
                   /\ Fits(d, w) /\ d.state # "Connected"
                   /\ d.channel = c.channel \/ c.channel = None
<1> DEFINE b == [c EXCEPT !.state = "Disconnected", !.delay = InitRetryDelay,
                          !.connect = TRUE]
<1>1. InitRetryDelay \in InitRetryDelay..MaxRetryDelay
  BY ConnectorAssumption
<1>2. /\ b \in Records /\ b.state = "Disconnected" /\ b.connect
      /\ b.queued = c.queued /\ b.misuse = c.misuse /\ b.timers = c.timers
      /\ b.own = c.own /\ b.poller = c.poller /\ b.channel = c.channel
      /\ b.handed = c.handed
  BY <1>1 DEF Records, States
<1>3. Restart(c, result) = StartInLoop(b, result)
  BY DEF Restart
<1> HIDE DEF b
<1>4. Fits(b, w)
  BY <1>2 DEF Fits
<1> QED
  BY <1>2, <1>3, <1>4, StartFields

\* stopInLoop() ends an attempt; it sets a timer if restart() has put connect_
\* on again.
LEMMA StopFields ==
  ASSUME NEW c \in Records, NEW w, Fits(c, w), c.state = "Connecting",
         c.queued = <<>>
  PROVE  LET d == StopInLoop(c)
         IN  /\ d \in Records
             /\ d.connect = c.connect /\ d.queued = <<"resetChannel">>
             /\ d.misuse = c.misuse /\ d.state = "Disconnected"
             /\ d.channel = c.channel /\ d.handed = c.handed
             /\ Fits(d, w \union {"resetChannel"})
<1> DEFINE b == [c EXCEPT !.state = "Disconnected"]
           r == RemoveAndResetChannel(b)
           d == Retry(r, c.channel)
<1>1. StopInLoop(c) = d
  BY DEF StopInLoop
<1>2. /\ b \in Records /\ b.own = c.own /\ b.poller = c.poller
      /\ b.channel = c.channel /\ b.timers = c.timers
      /\ b.connect = c.connect
      /\ b.queued = <<>> /\ b.misuse = c.misuse /\ b.handed = c.handed
  BY DEF Records, States
<1> HIDE DEF b
<1>3. /\ r \in Records /\ r.own = {c.channel} /\ r.poller = {}
      /\ r.timers = 0 /\ r.connect = c.connect
      /\ r.queued = <<"resetChannel">> /\ r.channel = c.channel
      /\ r.misuse = c.misuse /\ r.handed = c.handed
  BY <1>2, RemoveFields DEF Fits
<1> HIDE DEF r
<1>4. /\ d \in Records /\ d.state = "Disconnected"
      /\ d.own = r.own \ {c.channel}
      /\ d.timers = IF r.connect THEN r.timers + 1 ELSE r.timers
      /\ d.connect = r.connect /\ d.channel = r.channel
      /\ d.poller = r.poller /\ d.handed = r.handed
      /\ d.queued = r.queued /\ d.misuse = r.misuse
  BY <1>3, RetryFields
<1> HIDE DEF d
<1>5. d.own = {} /\ d.timers \in {0, 1}
  BY <1>3, <1>4
<1>6. Fits(d, w \union {"resetChannel"})
  BY <1>3, <1>4, <1>5 DEF Fits
<1> QED
  BY <1>1, <1>3, <1>4, <1>6

\* The answer to an attempt, by the error callback, the write callback or
\* both: the descriptor is closed or handed over, and the channel leaves the
\* poller.
LEMMA AnswerFields ==
  ASSUME NEW c \in Records, NEW w, NEW ans \in Answers, Fits(c, w),
         c.state = "Connecting", c.handed = {}, c.queued = <<>>
  PROVE  LET d == HandleEvent(c, ans)
         IN  /\ d \in Records
             /\ d.connect = c.connect /\ d.queued = <<"resetChannel">>
             /\ d.misuse = c.misuse /\ d.channel = c.channel
             /\ d.state # "Connecting"
             /\ Fits(d, w \union {"resetChannel"})
<1> DEFINE r == RemoveAndResetChannel(c)
           b == Retry(r, c.channel)
<1>1. /\ r \in Records /\ r.own = {c.channel} /\ r.poller = {}
      /\ r.timers = 0 /\ r.connect = c.connect
      /\ r.queued = <<"resetChannel">> /\ r.channel = c.channel
      /\ r.misuse = c.misuse /\ r.handed = {} /\ r.state = "Connecting"
  BY RemoveFields DEF Fits
<1>2. c.channel # None /\ c.channel \in Fds
  BY DEF Fits, Records
<1>3. /\ b \in Records /\ b.connect = c.connect
      /\ b.queued = <<"resetChannel">> /\ b.misuse = c.misuse
      /\ b.own = {} /\ b.poller = {} /\ b.channel = c.channel
      /\ b.state = "Disconnected" /\ b.timers \in {0, 1} /\ b.handed = {}
  <2> HIDE DEF r
  <2>1. /\ b \in Records /\ b.state = "Disconnected"
        /\ b.own = r.own \ {c.channel}
        /\ b.timers = IF r.connect THEN r.timers + 1 ELSE r.timers
        /\ b.connect = r.connect /\ b.channel = r.channel
        /\ b.poller = r.poller /\ b.handed = r.handed
        /\ b.queued = r.queued /\ b.misuse = r.misuse
    BY <1>1, RetryFields
  <2> HIDE DEF b
  <2> QED
    BY <1>1, <2>1
<1>4. Fits(b, w \union {"resetChannel"})
  <2> HIDE DEF b
  <2> QED
    BY <1>2, <1>3 DEF Fits
<1>5. CASE ans = "error"
  <2>1. HandleError(c) = b
    BY DEF HandleError, Assert
  <2>2. HandleEvent(c, ans) = b
    BY <1>3, <1>5, <2>1 DEF HandleEvent, HandleWrite, Assert
  <2> HIDE DEF b
  <2> QED
    BY <1>3, <1>4, <2>2
<1>6. CASE ans \notin {"ok", "error"}
  <2>1. HandleEvent(c, ans) = b
    BY <1>6 DEF HandleEvent, HandleWrite
  <2> HIDE DEF b
  <2> QED
    BY <1>3, <1>4, <2>1
<1>7. CASE ans = "ok"
  <2> DEFINE up == [r EXCEPT !.state = "Connected"]
             h == [up EXCEPT !.own = @ \ {c.channel},
                             !.handed = @ \union {c.channel}]
             e == Close(up, c.channel)
  <2>1. HandleEvent(c, ans) = IF c.connect THEN h ELSE e
    BY <1>7 DEF HandleEvent, HandleWrite
  <2> HIDE DEF r
  <2>2. /\ up \in Records /\ up.own = {c.channel} /\ up.poller = {}
        /\ up.timers = 0 /\ up.connect = c.connect
        /\ up.queued = <<"resetChannel">> /\ up.channel = c.channel
        /\ up.misuse = c.misuse /\ up.handed = {} /\ up.state = "Connected"
    BY <1>1 DEF Records, States
  <2> HIDE DEF up
  <2>3. CASE c.connect
    <3>1. h \in Records
      BY <1>2, <2>2 DEF Records
    <3>2. /\ h.own = {} /\ h.handed = {c.channel} /\ h.poller = up.poller
          /\ h.timers = up.timers /\ h.connect = up.connect
          /\ h.queued = up.queued /\ h.channel = up.channel
          /\ h.misuse = up.misuse /\ h.state = up.state
      BY <2>2 DEF Records
    <3> HIDE DEF h
    <3>3. Fits(h, w \union {"resetChannel"})
      BY <1>2, <2>2, <3>2 DEF Fits
    <3> QED
      BY <2>1, <2>2, <2>3, <3>1, <3>2, <3>3
  <2>4. CASE ~c.connect
    <3>1. /\ e \in Records /\ e.own = up.own \ {c.channel}
          /\ e.state = up.state /\ e.timers = up.timers
          /\ e.connect = up.connect /\ e.channel = up.channel
          /\ e.poller = up.poller /\ e.handed = up.handed
          /\ e.queued = up.queued /\ e.misuse = up.misuse
      BY <2>2, CloseFields
    <3> HIDE DEF e
    <3>2. e.own = {}
      BY <2>2, <3>1
    <3>3. Fits(e, w \union {"resetChannel"})
      BY <1>2, <2>2, <3>1, <3>2 DEF Fits
    <3> QED
      BY <2>1, <2>2, <2>4, <3>1, <3>3
  <2> QED
    BY <2>3, <2>4
<1> QED
  BY <1>5, <1>6, <1>7

\* The answer comes after a stop() in the same turn: the write callback does
\* nothing, and the error callback closes a second time what stop() closed.
LEMMA LateAnswerFields ==
  ASSUME NEW c \in Records, NEW ans \in Answers, c.misuse = {},
         c.state = "Disconnected", c.own = {}, c.queued = <<>>
  PROVE  LET d == HandleEvent(c, ans)
         IN  \/ d = c
             \/ /\ d \in Records /\ d.queued = <<"resetChannel">>
                /\ d.misuse = {"handleError", "close"}
<1>1. CASE ans # "error"
  BY <1>1 DEF HandleEvent, HandleWrite, Assert
<1>2. CASE ans = "error"
  <2> DEFINE a == [c EXCEPT !.misuse = {"handleError"}]
             r == RemoveAndResetChannel(a)
             x == [r EXCEPT !.misuse = {"handleError", "close"}]
             b == [[x EXCEPT !.own = @ \ {c.channel}]
                      EXCEPT !.state = "Disconnected"]
             e == [b EXCEPT !.timers = @ + 1, !.delay = NextDelay(@)]
  <2>1. Assert(c, c.state = "Connecting", "handleError") = a
    BY DEF Assert
  <2>2. a \in Records /\ a.misuse = {"handleError"} /\ a.own = {}
        /\ a.queued = <<>>
    BY DEF Records, Misuses
  <2> HIDE DEF a
  <2>3. /\ r \in Records /\ r.misuse = {"handleError"} /\ r.own = {}
        /\ r.queued = <<"resetChannel">>
    BY <2>2, RemoveFields
  <2>4. HandleError(c) = Retry(r, c.channel)
    BY <2>1 DEF HandleError
  <2> HIDE DEF r
  <2>5. Close(r, c.channel) = [x EXCEPT !.own = @ \ {c.channel}]
    <3>1. Assert(r, c.channel \in r.own, "close")
            = [r EXCEPT !.misuse = r.misuse \union {"close"}]
      BY <2>3 DEF Assert
    <3>2. r.misuse \union {"close"} = {"handleError", "close"}
      BY <2>3
    <3> QED
      BY <3>1, <3>2 DEF Close
  <2>6. /\ x \in Records /\ x.misuse = {"handleError", "close"}
        /\ x.queued = <<"resetChannel">>
    BY <2>3 DEF Records, Misuses
  <2> HIDE DEF x
  <2>7. /\ b \in Records /\ b.misuse = {"handleError", "close"}
        /\ b.queued = <<"resetChannel">> /\ b.state = "Disconnected"
    <3>1. x.own \ {c.channel} \in SUBSET Fds /\ "Disconnected" \in States
      BY <2>6 DEF Records, States
    <3> QED
      BY <2>6, <3>1 DEF Records
  <2>8. Retry(r, c.channel) = IF b.connect THEN e ELSE b
    BY <2>5 DEF Retry
  <2> HIDE DEF b
  <2>9. /\ e \in Records /\ e.misuse = {"handleError", "close"}
        /\ e.queued = <<"resetChannel">> /\ e.state = "Disconnected"
    <3>1. NextDelay(b.delay) \in InitRetryDelay..MaxRetryDelay
      BY <2>7, NextDelayBounded DEF Records
    <3>2. b.timers + 1 \in Nat
      BY <2>7 DEF Records
    <3> QED
      BY <2>7, <3>1, <3>2 DEF Records
  <2> HIDE DEF e
  <2>10. HandleEvent(c, ans) = HandleWrite(IF b.connect THEN e ELSE b, ans)
    BY <1>2, <2>4, <2>8 DEF HandleEvent
  <2>11. HandleWrite(e, ans) = e /\ HandleWrite(b, ans) = b
    BY <2>7, <2>9 DEF HandleWrite, Assert
  <2> QED
    BY <2>7, <2>9, <2>10, <2>11
<1> QED
  BY <1>1, <1>2

-----------------------------------------------------------------------------
(* The functors                                                            *)

\* What is in a queue after a functor is added, after a handler's functors
\* joined it, and after the first one was taken.
LEMMA QueueRange ==
  ASSUME NEW S, NEW q \in Seq(S)
  PROVE  /\ Range(<<>>) = {}
         /\ \A x \in S : /\ Append(q, x) \in Seq(S)
                         /\ Range(Append(q, x)) = Range(q) \union {x}
                         /\ q \o <<x>> = Append(q, x)
         /\ q \o <<>> = q
         /\ q # <<>> => /\ Head(q) \in S /\ Tail(q) \in Seq(S)
                        /\ Range(q) = {Head(q)} \union Range(Tail(q))
<1>1. Range(<<>>) = {}
  BY DEF Range
<1>2. ASSUME NEW x \in S
      PROVE  /\ Append(q, x) \in Seq(S)
             /\ Range(Append(q, x)) = Range(q) \union {x}
             /\ q \o <<x>> = Append(q, x)
  <2>1. /\ Append(q, x) \in Seq(S) /\ Len(Append(q, x)) = Len(q) + 1
        /\ \A i \in 1..Len(q) : Append(q, x)[i] = q[i]
        /\ Append(q, x)[Len(q) + 1] = x
    BY AppendProperties
  <2>2. Range(Append(q, x)) = Range(q) \union {x}
    BY <2>1, LenProperties DEF Range
  <2>3. q \o <<x>> = Append(q, x)
    BY AppendIsConcat
  <2> QED
    BY <2>1, <2>2, <2>3
<1>3. q \o <<>> = q
  BY ConcatEmptySeq
<1>4. ASSUME q # <<>>
      PROVE  /\ Head(q) \in S /\ Tail(q) \in Seq(S)
             /\ Range(q) = {Head(q)} \union Range(Tail(q))
  <2>1. /\ Head(q) \in S /\ Tail(q) \in Seq(S)
        /\ Len(Tail(q)) = Len(q) - 1 /\ Head(q) = q[1]
        /\ \A i \in 1..Len(Tail(q)) : Tail(q)[i] = q[i + 1]
    BY <1>4, HeadTailProperties
  <2>2. Len(q) \in Nat /\ Len(q) > 0 /\ DOMAIN q = 1..Len(q)
    BY <1>4, LenProperties, EmptySeq
  <2>3. DOMAIN Tail(q) = 1..(Len(q) - 1)
    BY <2>1, LenProperties
  <2>4. \A i \in 2..Len(q) : q[i] = Tail(q)[i - 1] /\ i - 1 \in DOMAIN Tail(q)
    BY <2>1, <2>2, <2>3
  <2>5. \A j \in DOMAIN Tail(q) : Tail(q)[j] = q[j + 1] /\ j + 1 \in DOMAIN q
    BY <2>1, <2>2, <2>3
  <2> QED
    <3>1. Range(q) \subseteq {Head(q)} \union Range(Tail(q))
      <4> SUFFICES ASSUME NEW i \in 1..Len(q)
                   PROVE  q[i] \in {Head(q)} \union Range(Tail(q))
        BY <2>2 DEF Range
      <4>1. CASE i = 1
        BY <2>1, <4>1
      <4>2. CASE i \in 2..Len(q)
        BY <2>4, <4>2 DEF Range
      <4> QED
        BY <2>2, <4>1, <4>2
    <3>2. Head(q) \in Range(q)
      BY <2>1, <2>2 DEF Range
    <3>3. Range(Tail(q)) \subseteq Range(q)
      BY <2>5 DEF Range
    <3> QED
      BY <2>1, <3>1, <3>2, <3>3
<1> QED
  BY <1>1, <1>2, <1>3, <1>4

\* resetChannel is not repeated by adding another functor, or itself where
\* it was not, nor by taking the first one.
LEMMA NoRepeatKept ==
  ASSUME NEW S, NEW q \in Seq(S), NoRepeat(q)
  PROVE  /\ NoRepeat(<<>>)
         /\ \A x \in S : x # "resetChannel" \/ "resetChannel" \notin Range(q) =>
               NoRepeat(Append(q, x))
         /\ q # <<>> => /\ NoRepeat(Tail(q))
                        /\ Head(q) = "resetChannel" =>
                              "resetChannel" \notin Range(Tail(q))
<1>1. NoRepeat(<<>>)
  BY DEF NoRepeat
<1>2. ASSUME NEW x \in S, x # "resetChannel" \/ "resetChannel" \notin Range(q)
      PROVE  NoRepeat(Append(q, x))
  <2>1. /\ Append(q, x) \in Seq(S) /\ Len(Append(q, x)) = Len(q) + 1
        /\ \A i \in 1..Len(q) : Append(q, x)[i] = q[i]
        /\ Append(q, x)[Len(q) + 1] = x
    BY AppendProperties
  <2>2. DOMAIN Append(q, x) = 1..(Len(q) + 1) /\ DOMAIN q = 1..Len(q)
        /\ Len(q) \in Nat
    BY <2>1, LenProperties
  <2>3. SUFFICES ASSUME NEW i \in 1..(Len(q) + 1), NEW j \in 1..(Len(q) + 1),
                        Append(q, x)[i] = "resetChannel",
                        Append(q, x)[j] = "resetChannel"
                 PROVE  i = j
    BY <2>2 DEF NoRepeat
  <2>4. CASE i \in 1..Len(q) /\ j \in 1..Len(q)
    BY <2>1, <2>2, <2>3, <2>4 DEF NoRepeat
  <2>5. CASE i = Len(q) + 1 /\ j \in 1..Len(q)
    BY <1>2, <2>1, <2>2, <2>3, <2>5 DEF Range
  <2>6. CASE j = Len(q) + 1 /\ i \in 1..Len(q)
    BY <1>2, <2>1, <2>2, <2>3, <2>6 DEF Range
  <2> QED
    BY <2>2, <2>4, <2>5, <2>6
<1>3. ASSUME q # <<>>
      PROVE  /\ NoRepeat(Tail(q))
             /\ Head(q) = "resetChannel" => "resetChannel" \notin Range(Tail(q))
  <2>1. /\ Tail(q) \in Seq(S) /\ Len(Tail(q)) = Len(q) - 1 /\ Head(q) = q[1]
        /\ \A i \in 1..Len(Tail(q)) : Tail(q)[i] = q[i + 1]
    BY <1>3, HeadTailProperties
  <2>2. Len(q) \in Nat /\ Len(q) > 0 /\ DOMAIN q = 1..Len(q)
    BY <1>3, LenProperties, EmptySeq
  <2>3. DOMAIN Tail(q) = 1..(Len(q) - 1)
    BY <2>1, LenProperties
  <2>4. \A j \in DOMAIN Tail(q) :
          Tail(q)[j] = q[j + 1] /\ j + 1 \in DOMAIN q /\ j + 1 # 1
    BY <2>1, <2>2, <2>3
  <2>5. 1 \in DOMAIN q
    BY <2>2
  <2>6. NoRepeat(Tail(q))
    <3> SUFFICES ASSUME NEW i \in DOMAIN Tail(q), NEW j \in DOMAIN Tail(q),
                        Tail(q)[i] = "resetChannel",
                        Tail(q)[j] = "resetChannel"
                 PROVE  i = j
      BY DEF NoRepeat
    <3>1. i + 1 = j + 1
      BY <2>4 DEF NoRepeat
    <3> QED
      BY <2>3, <3>1
  <2>7. Head(q) = "resetChannel" => "resetChannel" \notin Range(Tail(q))
    BY <2>1, <2>4, <2>5 DEF Range, NoRepeat
  <2> QED
    BY <2>6, <2>7
<1> QED
  BY <1>1, <1>2, <1>3

\* What a handler leaves is the Connector's new record, and its functor, if it
\* queued one, waits.
LEMMA CommitFields ==
  ASSUME NEW c \in Records, Commit(c), pending \in Seq(FunctorNames),
         c.queued = <<>> \/ \E x \in FunctorNames : c.queued = <<x>>
  PROVE  /\ k' \in Records
         /\ k'.connect = c.connect /\ k'.state = c.state
         /\ k'.channel = c.channel /\ k'.poller = c.poller
         /\ k'.own = c.own /\ k'.handed = c.handed /\ k'.timers = c.timers
         /\ k'.misuse = c.misuse /\ k'.queued = <<>>
         /\ pending' \in Seq(FunctorNames)
         /\ c.queued = <<>> => pending' = pending
         /\ \A x \in FunctorNames : c.queued = <<x>> =>
               /\ pending' = Append(pending, x)
               /\ Range(pending') = Range(pending) \union {x}
<1>1. <<>> \in Seq(FunctorNames)
  OBVIOUS
<1>2. /\ k' \in Records
      /\ k'.connect = c.connect /\ k'.state = c.state
      /\ k'.channel = c.channel /\ k'.poller = c.poller
      /\ k'.own = c.own /\ k'.handed = c.handed /\ k'.timers = c.timers
      /\ k'.misuse = c.misuse /\ k'.queued = <<>>
  <2>1. k' = [c EXCEPT !.queued = <<>>]
    BY DEF Commit
  <2>2. k' \in Records
    BY <1>1, <2>1 DEF Records
  <2> QED
    BY <1>1, <2>1, <2>2 DEF Records
<1>3. pending' = pending \o c.queued
  BY DEF Commit
<1>4. /\ pending \o <<>> = pending
      /\ \A x \in FunctorNames :
            /\ pending \o <<x>> = Append(pending, x)
            /\ Append(pending, x) \in Seq(FunctorNames)
            /\ Range(Append(pending, x)) = Range(pending) \union {x}
  BY QueueRange
<1>5. pending' \in Seq(FunctorNames)
  BY <1>3, <1>4, Zenon
<1>6. c.queued = <<>> => pending' = pending
  BY <1>3, <1>4, Zenon
<1>7. \A x \in FunctorNames : c.queued = <<x>> =>
        /\ pending' = Append(pending, x)
        /\ Range(pending') = Range(pending) \union {x}
  BY <1>3, <1>4, Zenon
<1> QED
  BY <1>2, <1>5, <1>6, <1>7, Zenon

-----------------------------------------------------------------------------
(* The invariant is inductive                                              *)

\* Nothing is under way when the Connector is made.
LEMMA InitGood == Init => IInv
<1> SUFFICES ASSUME Init PROVE IInv
  OBVIOUS
<1>1. <<>> \in Seq(FunctorNames)
  OBVIOUS
<1>2. k \in Records /\ k.queued = <<>> /\ k.misuse = {}
  BY <1>1, ConnectorAssumption DEF Init, Records, States, None
<1>3. FlagsOK
  BY Zenon DEF Init, FlagsOK
<1>4. OthersOK
  BY <1>1, ConnectorAssumption DEF Init, OthersOK, Answers, None
<1>5. Waiting = {} /\ ~StopUnderWay /\ list = <<>> /\ pending = <<>>
  BY DEF Init, Waiting, StopUnderWay, Range
<1>6. QueuesOK
  BY <1>5 DEF QueuesOK, NoRepeat, Range
<1>7. Fits(k, Waiting)
  BY <1>5 DEF Init, Fits
<1>8. CallsOK
  BY <1>5 DEF Init, CallsOK
<1>9. TurnOK
  BY <1>5 DEF Init, TurnOK, Range
<1> QED
  BY <1>2, <1>3, <1>4, <1>6, <1>7, <1>8, <1>9 DEF IInv, Types, Good

\* resetChannel waits once, when one functor is taken and one is added.
LEMMA QueueStep ==
  ASSUME Types, QueuesOK,
         list' = list \/ (list # <<>> /\ list' = Tail(list)),
         \/ pending' = pending
         \/ \E x \in FunctorNames :
               /\ pending' = Append(pending, x)
               /\ x = "resetChannel" => "resetChannel" \notin Waiting
  PROVE  QueuesOK'
<1>1. list \in Seq(FunctorNames) /\ pending \in Seq(FunctorNames)
  BY DEF Types, OthersOK
<1>2. NoRepeat(list') /\ Range(list') \subseteq Range(list)
  <2>1. CASE list' = list
    BY <2>1 DEF QueuesOK
  <2>2. CASE list # <<>> /\ list' = Tail(list)
    BY <1>1, <2>2, NoRepeatKept, QueueRange DEF QueuesOK
  <2> QED
    BY <2>1, <2>2
<1>3. CASE pending' = pending
  BY <1>2, <1>3 DEF QueuesOK
<1>4. ASSUME NEW x \in FunctorNames, pending' = Append(pending, x),
             x = "resetChannel" => "resetChannel" \notin Waiting
      PROVE  QueuesOK'
  <2>1. NoRepeat(pending')
    BY <1>1, <1>4, NoRepeatKept DEF QueuesOK, Waiting
  <2>2. Range(pending') = Range(pending) \union {x}
    BY <1>1, <1>4, QueueRange
  <2>3. ~("resetChannel" \in Range(list') /\ "resetChannel" \in Range(pending'))
    BY <1>2, <1>4, <2>2 DEF QueuesOK, Waiting
  <2> QED
    BY <1>2, <2>1, <2>3 DEF QueuesOK
<1> QED
  BY <1>3, <1>4

\* epoll_wait reports what is so.
LEMMA PollStep ==
  ASSUME Types, Good, k.misuse = {}, NEW ready \in BOOLEAN,
         NEW ans \in Answers, Poll(ready, ans)
  PROVE  StepOK
<1>1. k' = k /\ pending' = pending /\ list' = list /\ Waiting' = Waiting
      /\ app' = app /\ stopper' = stopper /\ starts' = starts
      /\ stops' = stops /\ StopUnderWay' = StopUnderWay
  BY DEF Poll, Waiting, callVars, StopUnderWay
<1>2. active' = None \/ active' \in k.poller
  BY DEF Poll
<1>3. active' # None =>
        k.state = "Connecting" /\ active' = k.channel /\ active' \in Fds
  BY <1>2 DEF Good, Fits, Types, Records
<1>4. timerReady' \in BOOLEAN
  <2> DEFINE some == k.timers > 0
  <2>1. timerReady' \in {some, TRUE}
    BY Zenon DEF Poll
  <2>2. some \in BOOLEAN
    OBVIOUS
  <2> HIDE DEF some
  <2> QED
    BY <2>1, <2>2, Zenon
<1>5. peerGone' \in BOOLEAN /\ (peerGone' => k.handed # {})
  BY Zenon DEF Poll
<1>6. phase = "poll" /\ phase' = "events" /\ list = <<>> /\ Range(list) = {}
  BY DEF Poll, Good, TurnOK, Range
<1>7. FlagsOK'
  BY <1>1, <1>4, <1>5, Zenon DEF Types, FlagsOK
<1>8. OthersOK'
  BY <1>1, <1>3, <1>6 DEF Poll, Types, OthersOK
<1>9. "connectDestroyed" \notin Waiting
  BY <1>6 DEF Good, TurnOK, Waiting
<1>10. k.handed # {} => k.state = "Connected"
  BY <1>9 DEF Good, Fits
<1>11. "connectDestroyed" \notin Range(pending)
  BY <1>9 DEF Waiting
<1>12. TurnOK'
  BY <1>1, <1>3, <1>5, <1>6, <1>9, <1>10, <1>11 DEF TurnOK
<1>13. QueuesOK' /\ CallsOK' /\ Fits(k', Waiting')
  BY <1>1 DEF Good, QueuesOK, CallsOK
<1> QED
  BY <1>1, <1>7, <1>8, <1>12, <1>13 DEF StepOK, Types, Good

\* The answer to the attempt.
LEMMA HandleChannelStep ==
  ASSUME Types, Good, k.misuse = {}, HandleChannel
  PROVE  StepOK
<1> DEFINE d == HandleEvent(k, answer)
<1>1. /\ phase = "events" /\ active # None /\ Commit(d) /\ active' = None
      /\ phase' = phase /\ answer' = answer /\ timerReady' = timerReady
      /\ peerGone' = peerGone /\ list' = list /\ app' = app
      /\ stopper' = stopper /\ starts' = starts /\ stops' = stops
  BY DEF HandleChannel, callVars
<1>2. /\ k \in Records /\ k.queued = <<>> /\ answer \in Answers
      /\ pending \in Seq(FunctorNames) /\ Fits(k, Waiting)
  BY DEF Types, OthersOK, Good
<1>3. k.channel # None /\ k.state # "Connected" /\ k.state \in States
  BY <1>1, <1>2 DEF Good, TurnOK, Records
<1>4. list = <<>> /\ Range(list) = {} /\ "connectDestroyed" \notin Waiting
  BY <1>1 DEF Good, TurnOK, Range, Waiting
<1>5. k.handed = {} /\ ~peerGone
  BY <1>3, <1>4 DEF Good, Fits, TurnOK
<1>6. FlagsOK'
  BY <1>1, Zenon DEF Types, FlagsOK
<1>7. "resetChannel" \in FunctorNames
  BY DEF FunctorNames
<1>8. CASE k.state = "Connecting"
  <2>1. /\ d \in Records
        /\ d.connect = k.connect /\ d.queued = <<"resetChannel">>
        /\ d.misuse = k.misuse /\ d.channel = k.channel
        /\ d.state # "Connecting"
        /\ Fits(d, Waiting \union {"resetChannel"})
    BY <1>2, <1>5, <1>8, AnswerFields
  <2> HIDE DEF d
  <2>2. /\ k' \in Records /\ k'.queued = <<>> /\ k'.misuse = {}
        /\ k'.connect = d.connect /\ k'.state = d.state
        /\ k'.channel = d.channel /\ k'.poller = d.poller
        /\ k'.own = d.own /\ k'.handed = d.handed /\ k'.timers = d.timers
        /\ pending' \in Seq(FunctorNames)
        /\ pending' = Append(pending, "resetChannel")
        /\ Range(pending') = Range(pending) \union {"resetChannel"}
    BY <1>1, <1>2, <1>7, <2>1, CommitFields
  <2>3. Waiting' = Waiting \union {"resetChannel"}
    BY <1>1, <2>2 DEF Waiting
  <2>4. Fits(k', Waiting')
    BY <2>1, <2>2, <2>3 DEF Fits
  <2>5. "resetChannel" \notin Waiting
    BY <1>2, <1>8 DEF Fits
  <2>6. QueuesOK'
    BY <1>1, <1>7, <2>2, <2>5, QueueStep DEF Good
  <2>7. CallsOK'
    <3>1. k.connect \/ (stops # 0 /\ app # "start")
      BY <1>8 DEF Good, CallsOK
    <3>2. StopUnderWay' <=> StopUnderWay
      BY <1>1, <2>2 DEF StopUnderWay
    <3>3. k'.state # "Connecting" /\ k'.connect = k.connect
      BY <2>1, <2>2
    <3> QED
      BY <1>1, <2>3, <3>1, <3>2, <3>3 DEF Good, CallsOK
  <2>8. TurnOK'
    BY <1>1, <1>5, <2>2 DEF Good, TurnOK
  <2>9. OthersOK'
    BY <1>1, <2>2 DEF Types, OthersOK
  <2> QED
    BY <1>6, <2>2, <2>4, <2>6, <2>7, <2>8, <2>9 DEF StepOK, Types, Good
<1>9. CASE k.state = "Disconnected"
  <2>1. k.own = {} /\ "resetChannel" \in Waiting
    BY <1>2, <1>3, <1>9 DEF Fits
  <2>2. \/ d = k
        \/ /\ d \in Records /\ d.queued = <<"resetChannel">>
           /\ d.misuse = {"handleError", "close"}
    BY <1>2, <1>9, <2>1, LateAnswerFields
  <2> HIDE DEF d
  <2>3. CASE d = k
    <3>1. /\ k' \in Records /\ k'.queued = <<>> /\ k'.misuse = {}
          /\ k'.connect = k.connect /\ k'.state = k.state
          /\ k'.channel = k.channel /\ k'.poller = k.poller
          /\ k'.own = k.own /\ k'.handed = k.handed /\ k'.timers = k.timers
          /\ pending' = pending
      BY <1>1, <1>2, <2>3, CommitFields
    <3>2. Waiting' = Waiting /\ (StopUnderWay' <=> StopUnderWay)
      BY <1>1, <3>1 DEF Waiting, StopUnderWay
    <3>3. Fits(k', Waiting')
      BY <1>2, <3>1, <3>2 DEF Fits
    <3>4. QueuesOK' /\ CallsOK'
      BY <1>1, <3>1, <3>2 DEF Good, QueuesOK, CallsOK
    <3>5. TurnOK'
      BY <1>1, <1>5, <3>1 DEF Good, TurnOK
    <3>6. OthersOK'
      BY <1>1, <3>1 DEF Types, OthersOK
    <3> QED
      BY <1>6, <3>1, <3>3, <3>4, <3>5, <3>6 DEF StepOK, Types, Good
  <2>4. CASE /\ d \in Records /\ d.queued = <<"resetChannel">>
             /\ d.misuse = {"handleError", "close"}
    <3>1. /\ k' \in Records /\ k'.queued = <<>>
          /\ k'.misuse = {"handleError", "close"}
          /\ pending' \in Seq(FunctorNames)
      BY <1>1, <1>2, <1>7, <2>4, CommitFields
    <3>2. OthersOK'
      BY <1>1, <3>1 DEF Types, OthersOK
    <3> QED
      BY <1>6, <2>1, <3>1, <3>2 DEF StepOK, Types
  <2> QED
    BY <2>2, <2>3, <2>4
<1> QED
  BY <1>3, <1>8, <1>9 DEF States

\* A timer of a retry fires: an attempt, unless stop() came before it.
LEMMA TimerFields ==
  ASSUME NEW b \in Records, NEW w, NEW result \in Results, Fits(b, w),
         b.timers = 1, b.misuse = {}
  PROVE  LET d == StartInLoop([b EXCEPT !.timers = @ - 1], result)
         IN  /\ d \in Records
             /\ d.connect <=> b.connect
             /\ d.queued = b.queued
             /\ d.handed = b.handed
             /\ d.misuse \in {{}, {"connecting"}}
             /\ d.misuse # {} => "resetChannel" \in w
             /\ d.misuse = {} =>
                   /\ Fits(d, w) /\ d.state # "Connected"
                   /\ d.channel = b.channel \/ b.channel = None
                   /\ ~b.connect => d.state = b.state /\ d.timers = 0
                                   /\ d.channel = b.channel
<1> DEFINE c == [b EXCEPT !.timers = @ - 1]
<1>1. b.state = "Disconnected"
  BY DEF Fits
<1>2. /\ c \in Records /\ c.timers = 0 /\ c.state = b.state
      /\ c.connect = b.connect /\ c.queued = b.queued /\ c.misuse = {}
      /\ c.own = b.own /\ c.poller = b.poller /\ c.handed = b.handed
      /\ c.channel = b.channel
  BY DEF Records
<1> HIDE DEF c
<1>3. Fits(c, w)
  BY <1>1, <1>2 DEF Fits
<1>4. CASE c.connect
  <2> DEFINE d == StartInLoop(c, result)
  <2>1. /\ d \in Records
        /\ d.connect /\ d.queued = c.queued
        /\ d.handed = c.handed
        /\ d.misuse \in {{}, {"connecting"}}
        /\ d.misuse # {} => "resetChannel" \in w
        /\ d.misuse = {} =>
              /\ Fits(d, w) /\ d.state # "Connected"
              /\ d.channel = c.channel \/ c.channel = None
    BY <1>1, <1>2, <1>3, <1>4, StartFields
  <2> HIDE DEF d
  <2>2. StartInLoop([b EXCEPT !.timers = @ - 1], result) = d
    BY DEF c, d
  <2>3. d.connect <=> b.connect
    BY <1>2, <1>4, <2>1 DEF Records
  <2> QED
    BY <1>2, <1>4, <2>1, <2>2, <2>3
<1>5. CASE ~c.connect
  <2>1. StartInLoop(c, result) = c
    BY <1>1, <1>2, <1>5, StartOff
  <2>2. StartInLoop([b EXCEPT !.timers = @ - 1], result) = c
    BY <2>1 DEF c
  <2> QED
    BY <1>1, <1>2, <1>3, <1>5, <2>2
<1> QED
  BY <1>4, <1>5

\* The timer of a retry, or only another's.
LEMMA HandleTimersStep ==
  ASSUME Types, Good, k.misuse = {}, NEW result \in Results,
         HandleTimers(result)
  PROVE  StepOK
<1> DEFINE c == [k EXCEPT !.timers = @ - 1]
           d == StartInLoop(c, result)
<1>1. /\ phase = "events" /\ timerReady' = (k.timers > 1)
      /\ phase' = phase /\ active' = active /\ answer' = answer
      /\ peerGone' = peerGone /\ list' = list /\ app' = app
      /\ stopper' = stopper /\ starts' = starts /\ stops' = stops
  BY DEF HandleTimers, callVars
<1>2. /\ k \in Records /\ k.queued = <<>> /\ Fits(k, Waiting)
      /\ pending \in Seq(FunctorNames)
  BY DEF Types, OthersOK, Good
<1>3. FlagsOK'
  <2>1. timerReady' \in BOOLEAN
    <3> DEFINE more == k.timers > 1
    <3>1. more \in BOOLEAN
      OBVIOUS
    <3>2. timerReady' = more
      BY <1>1
    <3> HIDE DEF more
    <3> QED
      BY <3>1, <3>2, Zenon
  <2> QED
    BY <1>1, <2>1, Zenon DEF Types, FlagsOK
<1>4. CASE k.timers = 0
  <2>1. k' = k /\ pending' = pending
    BY <1>4 DEF HandleTimers
  <2>2. Waiting' = Waiting /\ (StopUnderWay' <=> StopUnderWay)
    BY <1>1, <2>1 DEF Waiting, StopUnderWay
  <2>3. OthersOK'
    BY <1>1, <2>1 DEF Types, OthersOK
  <2>4. QueuesOK' /\ CallsOK' /\ TurnOK' /\ Fits(k', Waiting')
    BY <1>1, <2>1, <2>2 DEF Good, QueuesOK, CallsOK, TurnOK
  <2> QED
    BY <1>3, <2>1, <2>3, <2>4 DEF StepOK, Types, Good
<1>5. CASE k.timers = 1
  <2>1. k.state = "Disconnected" /\ Commit(d)
    BY <1>2, <1>5 DEF Fits, HandleTimers
  <2>2. /\ c \in Records /\ c.timers = 0 /\ c.state = k.state
        /\ c.connect = k.connect /\ c.queued = <<>> /\ c.misuse = {}
        /\ c.own = k.own /\ c.poller = k.poller /\ c.handed = k.handed
        /\ c.channel = k.channel
    BY <1>2, <1>5 DEF Records
  <2>4. /\ d \in Records /\ (d.connect <=> k.connect) /\ d.queued = <<>>
        /\ d.handed = k.handed /\ d.misuse \in {{}, {"connecting"}}
        /\ d.misuse # {} => "resetChannel" \in Waiting
        /\ d.misuse = {} =>
              /\ Fits(d, Waiting) /\ d.state # "Connected"
              /\ d.channel = k.channel \/ k.channel = None
              /\ ~k.connect => d.state = k.state /\ d.timers = 0
                              /\ d.channel = k.channel
    BY <1>2, <1>5, TimerFields, ZenonT(40)
  <2> HIDE DEF d
  <2>5. /\ k' \in Records /\ k'.queued = <<>> /\ k'.misuse = d.misuse
        /\ k'.connect = d.connect /\ k'.state = d.state
        /\ k'.channel = d.channel /\ k'.poller = d.poller
        /\ k'.own = d.own /\ k'.handed = d.handed /\ k'.timers = d.timers
        /\ pending' = pending
    BY <1>2, <2>1, <2>4, CommitFields
  <2>6. Waiting' = Waiting /\ (StopUnderWay' <=> StopUnderWay)
    BY <1>1, <2>5 DEF Waiting, StopUnderWay
  <2>7. OthersOK'
    BY <1>1, <2>5 DEF Types, OthersOK
  <2>8. ASSUME k'.misuse = {} PROVE Good'
    <3>1. Fits(k', Waiting')
      BY <2>4, <2>5, <2>6, <2>8 DEF Fits
    <3>2. QueuesOK'
      BY <1>1, <2>5 DEF Good, QueuesOK
    <3>3. CallsOK'
      BY <1>1, <2>1, <2>4, <2>5, <2>6, <2>8 DEF Good, CallsOK
    <3>4. TurnOK'
      BY <1>1, <2>1, <2>4, <2>5, <2>6, <2>8 DEF Good, TurnOK
    <3> QED
      BY <3>1, <3>2, <3>3, <3>4 DEF Good
  <2> QED
    BY <1>3, <2>4, <2>5, <2>7, <2>8 DEF StepOK, Types
<1> QED
  BY <1>2, <1>4, <1>5 DEF Fits

\* The snapshot is handled, and the functors are taken.
LEMMA EventsDoneStep ==
  ASSUME Types, Good, k.misuse = {}, EventsDone
  PROVE  StepOK
<1>1. /\ phase = "events" /\ active = None /\ ~timerReady /\ ~peerGone
      /\ phase' = "functors" /\ list' = pending /\ pending' = <<>> /\ k' = k
      /\ active' = active /\ answer' = answer /\ timerReady' = timerReady
      /\ peerGone' = peerGone /\ app' = app
      /\ stopper' = stopper /\ starts' = starts /\ stops' = stops
  BY DEF EventsDone, callVars
<1>2. <<>> \in Seq(FunctorNames) /\ Range(<<>>) = {} /\ Range(list) = {}
  BY <1>1 DEF Good, TurnOK, Range
<1>3. Waiting' = Waiting /\ (StopUnderWay' <=> StopUnderWay)
  BY <1>1, <1>2 DEF Waiting, StopUnderWay
<1>4. FlagsOK'
  BY <1>1, Zenon DEF Types, FlagsOK
<1>5. OthersOK'
  BY <1>1, <1>2 DEF Types, OthersOK
<1>6. QueuesOK'
  BY <1>1, <1>2 DEF Good, QueuesOK, NoRepeat
<1>7. CallsOK' /\ Fits(k', Waiting')
  BY <1>1, <1>3 DEF Good, CallsOK
<1>8. TurnOK'
  BY <1>1, <1>2 DEF TurnOK
<1> QED
  BY <1>1, <1>4, <1>5, <1>6, <1>7, <1>8 DEF StepOK, Types, Good

\* The functors have run.
LEMMA FunctorsDoneStep ==
  ASSUME Types, Good, k.misuse = {}, FunctorsDone
  PROVE  StepOK
<1>1. /\ phase = "functors" /\ list = <<>> /\ phase' = "poll" /\ k' = k
      /\ list' = list /\ pending' = pending /\ active' = active
      /\ answer' = answer /\ timerReady' = timerReady
      /\ peerGone' = peerGone /\ app' = app
      /\ stopper' = stopper /\ starts' = starts /\ stops' = stops
  BY DEF FunctorsDone, callVars
<1>2. Waiting' = Waiting /\ (StopUnderWay' <=> StopUnderWay)
  BY <1>1 DEF Waiting, StopUnderWay
<1>3. FlagsOK'
  BY <1>1, Zenon DEF Types, FlagsOK
<1>4. OthersOK'
  BY <1>1 DEF Types, OthersOK
<1>5. QueuesOK' /\ CallsOK' /\ Fits(k', Waiting')
  BY <1>1, <1>2 DEF Good, CallsOK, QueuesOK
<1>6. TurnOK'
  BY <1>1, <1>2 DEF Good, TurnOK
<1> QED
  BY <1>1, <1>3, <1>4, <1>5, <1>6 DEF StepOK, Types, Good

\* A functor leaves the list, and at most a resetChannel joins the queue.
LEMMA TakeFunctor ==
  ASSUME Types, QueuesOK, list # <<>>, list' = Tail(list),
         NEW more \in SUBSET {"resetChannel"},
         Range(pending') = Range(pending) \union more
  PROVE  /\ Tail(list) \in Seq(FunctorNames) /\ Head(list) \in FunctorNames
         /\ Head(list) \in Waiting
         /\ \A x \in FunctorNames \ {Head(list)} :
               x \in Waiting' <=> x \in Waiting \union more
         /\ Head(list) = "resetChannel" => Waiting' \intersect {"resetChannel"} = more
<1>1. list \in Seq(FunctorNames)
  BY DEF Types, OthersOK
<1>2. /\ Head(list) \in FunctorNames /\ Tail(list) \in Seq(FunctorNames)
      /\ Range(list) = {Head(list)} \union Range(Tail(list))
  BY <1>1, QueueRange
<1>3. Head(list) = "resetChannel" => "resetChannel" \notin Range(Tail(list))
  BY <1>1, NoRepeatKept DEF QueuesOK
<1>4. Waiting' = Range(pending) \union more \union Range(Tail(list))
  BY DEF Waiting
<1>5. Waiting = Range(pending) \union Range(list)
  BY DEF Waiting
<1>6. Head(list) = "resetChannel" => "resetChannel" \notin Range(pending)
  BY <1>2 DEF QueuesOK
<1> QED
  BY <1>2, <1>3, <1>4, <1>5, <1>6

\* One functor.  A startInLoop is one that start() queued, which does nothing.
LEMMA RunFunctorStep ==
  ASSUME Types, Good, k.misuse = {}, NEW result \in Results,
         RunFunctor(result)
  PROVE  StepOK
<1>1. /\ phase = "functors" /\ list # <<>> /\ list' = Tail(list)
      /\ phase' = phase /\ active' = active /\ answer' = answer
      /\ timerReady' = timerReady /\ peerGone' = peerGone /\ app' = app
      /\ stopper' = stopper /\ starts' = starts /\ stops' = stops
  BY DEF RunFunctor, callVars
<1>2. /\ k \in Records /\ k.queued = <<>> /\ Fits(k, Waiting)
      /\ pending \in Seq(FunctorNames) /\ list \in Seq(FunctorNames)
      /\ QueuesOK
  BY DEF Types, OthersOK, Good
<1>3. /\ active = None /\ ~peerGone /\ "connectDestroyed" \notin Range(pending)
  BY <1>1 DEF Good, TurnOK
<1>4. FlagsOK'
  BY <1>1, Zenon DEF Types, FlagsOK
<1>5. /\ Tail(list) \in Seq(FunctorNames) /\ Head(list) \in FunctorNames
      /\ Head(list) \in Range(list)
  BY <1>1, <1>2, QueueRange
\* The functors that queue nothing.
<1>6. ASSUME NEW d \in Records, Commit(d), d.queued = <<>>, d.misuse = {},
             d.connect = k.connect, d.state = k.state,
             k.state = "Connecting" => Head(list) \notin {"stopInLoop", "resetChannel"},
             d.poller = k.poller, d.own = k.own, d.timers = k.timers,
             d.channel = IF Head(list) = "resetChannel" THEN None ELSE k.channel,
             d.handed = IF Head(list) = "connectDestroyed" THEN {} ELSE k.handed
      PROVE  StepOK
  <2>1. /\ k' \in Records /\ k'.queued = <<>> /\ k'.misuse = {}
        /\ k'.connect = d.connect /\ k'.state = d.state
        /\ k'.channel = d.channel /\ k'.poller = d.poller
        /\ k'.own = d.own /\ k'.handed = d.handed /\ k'.timers = d.timers
        /\ pending' = pending
    BY <1>2, <1>6, CommitFields
  <2>2. /\ \A x \in FunctorNames \ {Head(list)} : x \in Waiting' <=> x \in Waiting
        /\ Head(list) = "resetChannel" => "resetChannel" \notin Waiting'
        /\ Head(list) \in Waiting
    <3>1. {} \in SUBSET {"resetChannel"} /\ Range(pending') = Range(pending) \union {}
      BY <2>1
    <3>2. /\ Head(list) \in Waiting
          /\ \A x \in FunctorNames \ {Head(list)} :
                x \in Waiting' <=> x \in Waiting \union {}
          /\ Head(list) = "resetChannel" => Waiting' \intersect {"resetChannel"} = {}
      BY <1>1, <1>2, <3>1, TakeFunctor
    <3> QED
      BY <3>2
  <2>3. Waiting' \subseteq Waiting
    <3>1. Range(list') \subseteq Range(list)
      BY <1>1, <1>2, QueueRange
    <3> QED
      BY <2>1, <3>1 DEF Waiting
  <2>4. OthersOK'
    BY <1>1, <1>2, <1>5, <2>1 DEF Types, OthersOK
  <2>5. QueuesOK'
    BY <1>1, <1>2, <2>1, QueueStep
  <2>6. /\ "resetChannel" \in FunctorNames /\ "connectDestroyed" \in FunctorNames
        /\ "stopInLoop" \in FunctorNames
    BY DEF FunctorNames
  <2>7. Fits(k', Waiting')
    <3>1. CASE Head(list) = "resetChannel"
      BY <1>2, <1>6, <2>1, <2>2, <2>6, <3>1 DEF Fits
    <3>2. CASE Head(list) = "connectDestroyed"
      BY <1>2, <1>6, <2>1, <2>2, <2>6, <3>2 DEF Fits
    <3>3. CASE Head(list) \notin {"resetChannel", "connectDestroyed"}
      BY <1>2, <1>6, <2>1, <2>2, <2>6, <3>3 DEF Fits
    <3> QED
      BY <3>1, <3>2, <3>3
  <2>8. /\ StopUnderWay <=> stopper \/ "stopInLoop" \in Waiting
        /\ StopUnderWay' <=> stopper \/ "stopInLoop" \in Waiting'
    BY <1>1 DEF StopUnderWay, Waiting
  <2>9. CallsOK'
    <3>1. /\ k.state = "Connecting" => (StopUnderWay' <=> StopUnderWay)
          /\ StopUnderWay' => StopUnderWay
      BY <1>6, <2>2, <2>3, <2>6, <2>8
    <3>2. /\ k'.connect = k.connect /\ k'.state = k.state /\ k'.timers = k.timers
          /\ k.channel = None => k'.channel = None
      BY <1>6, <2>1
    <3> QED
      BY <1>1, <2>3, <3>1, <3>2 DEF Good, CallsOK
  <2>10. TurnOK'
    BY <1>1, <1>3, <2>1 DEF TurnOK
  <2> QED
    BY <1>4, <2>1, <2>4, <2>5, <2>7, <2>9, <2>10 DEF StepOK, Types, Good
<1>7. CASE Head(list) = "startInLoop"
  <2>1. Commit(StartInLoop(k, result))
    BY <1>7 DEF RunFunctor
  <2>2. k.state = "Disconnected" /\ ~k.connect
    BY <1>5, <1>7 DEF Good, CallsOK, Waiting
  <2>3. StartInLoop(k, result) = k
    BY <1>2, <2>2, StartOff
  <2> QED
    BY <1>2, <1>6, <1>7, <2>1, <2>3
<1>8. CASE Head(list) = "resetChannel"
  <2> DEFINE d == ResetChannel(k)
  <2>1. Commit(d)
    BY <1>8 DEF RunFunctor
  <2>2. k.state # "Connecting"
    BY <1>2, <1>5, <1>8 DEF Fits, Waiting
  <2>3. /\ d \in Records /\ d.queued = <<>> /\ d.misuse = {}
        /\ d.connect = k.connect /\ d.state = k.state /\ d.channel = None
        /\ d.poller = k.poller /\ d.own = k.own /\ d.timers = k.timers
        /\ d.handed = k.handed
    BY <1>2 DEF ResetChannel, Records
  <2> HIDE DEF d
  <2> QED
    BY <1>6, <1>8, <2>1, <2>2, <2>3
<1>9. CASE Head(list) = "connectDestroyed"
  <2> DEFINE d == ConnectDestroyed(k)
  <2>1. Commit(d)
    BY <1>9 DEF RunFunctor
  <2>2. /\ d \in Records /\ d.queued = <<>> /\ d.misuse = {}
        /\ d.connect = k.connect /\ d.state = k.state
        /\ d.channel = k.channel /\ d.poller = k.poller /\ d.own = k.own
        /\ d.timers = k.timers /\ d.handed = {}
    BY <1>2 DEF ConnectDestroyed, Records
  <2> HIDE DEF d
  <2> QED
    BY <1>6, <1>9, <2>1, <2>2
<1>10. CASE Head(list) = "stopInLoop" /\ k.state # "Connecting"
  <2>1. Commit(StopInLoop(k)) /\ StopInLoop(k) = k
    BY <1>10 DEF RunFunctor, StopInLoop
  <2> QED
    BY <1>2, <1>6, <1>10, <2>1
<1>11. CASE Head(list) = "stopInLoop" /\ k.state = "Connecting"
  <2> DEFINE d == StopInLoop(k)
  <2>1. Commit(d)
    BY <1>11 DEF RunFunctor
  <2>2. /\ d \in Records
        /\ d.connect = k.connect /\ d.queued = <<"resetChannel">>
        /\ d.misuse = {} /\ d.state = "Disconnected"
        /\ d.channel = k.channel /\ d.handed = k.handed
        /\ Fits(d, Waiting \union {"resetChannel"})
    BY <1>2, <1>11, StopFields
  <2> HIDE DEF d
  <2>3. "resetChannel" \in FunctorNames /\ "connectDestroyed" \in FunctorNames
    BY DEF FunctorNames
  <2>4. /\ k' \in Records /\ k'.queued = <<>> /\ k'.misuse = {}
        /\ k'.connect = d.connect /\ k'.state = d.state
        /\ k'.channel = d.channel /\ k'.poller = d.poller
        /\ k'.own = d.own /\ k'.handed = d.handed /\ k'.timers = d.timers
        /\ pending' \in Seq(FunctorNames)
        /\ pending' = Append(pending, "resetChannel")
        /\ Range(pending') = Range(pending) \union {"resetChannel"}
    BY <1>2, <2>1, <2>2, <2>3, CommitFields
  <2>5. "resetChannel" \notin Waiting
    BY <1>2, <1>11 DEF Fits
  <2>6. \A x \in FunctorNames \ {Head(list)} :
           x \in Waiting' <=> x \in Waiting \union {"resetChannel"}
    BY <1>1, <1>2, <2>4, TakeFunctor
  <2>7. "resetChannel" \in Waiting'
    BY <1>11, <2>3, <2>6
  <2>8. Fits(k', Waiting')
    BY <1>11, <2>2, <2>3, <2>4, <2>6, <2>7 DEF Fits
  <2>9. QueuesOK'
    BY <1>1, <1>2, <2>3, <2>4, <2>5, QueueStep
  <2>10. /\ stops # 0 /\ app # "start"
         /\ "startInLoop" \in Waiting => app = "start"
    BY <1>5, <1>11 DEF Good, CallsOK, StopUnderWay, Waiting
  <2>11. "startInLoop" \notin Waiting'
    BY <1>11, <2>6, <2>10 DEF FunctorNames
  <2>12. CallsOK'
    BY <1>1, <2>2, <2>4, <2>10, <2>11 DEF CallsOK
  <2>13. TurnOK'
    BY <1>1, <1>3, <2>4 DEF TurnOK
  <2>14. OthersOK'
    BY <1>1, <1>2, <1>5, <2>4 DEF Types, OthersOK
  <2> QED
    BY <1>4, <2>4, <2>8, <2>9, <2>12, <2>13, <2>14 DEF StepOK, Types, Good
<1> QED
  BY <1>5, <1>7, <1>8, <1>9, <1>10, <1>11 DEF FunctorNames

\* The Connector fits the functors that wait also when another one joins them.
LEMMA OneMoreFits ==
  ASSUME NEW c, NEW w, Fits(c, w),
         NEW x \in FunctorNames \ {"resetChannel"}
  PROVE  Fits(c, w \union {x})
  BY DEF Fits, FunctorNames

\* start(): a functor that will find connect_ off.
LEMMA StartStep ==
  ASSUME Types, Good, k.misuse = {}, Start
  PROVE  StepOK
<1>1. /\ app = "start" /\ starts < MaxStarts /\ starts' = starts + 1
      /\ pending' = Append(pending, "startInLoop") /\ k' = k
      /\ phase' = phase /\ active' = active /\ answer' = answer
      /\ timerReady' = timerReady /\ peerGone' = peerGone /\ list' = list
      /\ app' = app /\ stopper' = stopper /\ stops' = stops
  BY DEF Start, loopVars
<1>2. "startInLoop" \in FunctorNames \ {"resetChannel"}
  BY DEF FunctorNames
<1>3. pending \in Seq(FunctorNames)
  BY DEF Types, OthersOK
<1>4. /\ pending' \in Seq(FunctorNames)
      /\ Range(pending') = Range(pending) \union {"startInLoop"}
  BY <1>1, <1>2, <1>3, QueueRange
<1>5. Waiting' = Waiting \union {"startInLoop"} /\ (StopUnderWay' <=> StopUnderWay)
  BY <1>1, <1>4 DEF Waiting, StopUnderWay
<1>6. FlagsOK'
  BY <1>1, Zenon DEF Types, FlagsOK
<1>7. OthersOK'
  BY <1>1, <1>4, ConnectorAssumption DEF Types, OthersOK
<1>8. Fits(k', Waiting')
  BY <1>1, <1>2, <1>5, OneMoreFits DEF Good
<1>9. QueuesOK'
  BY <1>1, <1>2, QueueStep DEF Good
<1>10. CallsOK'
  BY <1>1, <1>5 DEF Good, CallsOK
<1>11. TurnOK'
  BY <1>1, <1>4, <1>5 DEF Good, TurnOK
<1> QED
  BY <1>1, <1>6, <1>7, <1>8, <1>9, <1>10, <1>11 DEF StepOK, Types, Good

\* The first restart() finds the Connector as it was made.
LEMMA FirstRestartStep ==
  ASSUME Types, Good, k.misuse = {}, NEW result \in Results,
         FirstRestart(result)
  PROVE  StepOK
<1> DEFINE d == Restart(k, result)
<1>1. /\ app = "restart" /\ phase # "poll" /\ k.state = "Disconnected"
      /\ ~k.connect /\ stops = 0 /\ Commit(d)
      /\ phase' = phase /\ active' = active /\ answer' = answer
      /\ timerReady' = timerReady /\ peerGone' = peerGone /\ list' = list
      /\ app' = app /\ stopper' = stopper /\ starts' = starts /\ stops' = stops
  BY DEF FirstRestart, loopVars, callVars
<1>2. /\ k \in Records /\ k.queued = <<>> /\ Fits(k, Waiting)
      /\ pending \in Seq(FunctorNames) /\ k.channel = None /\ k.timers = 0
  BY <1>1 DEF Types, OthersOK, Good, CallsOK
<1>3. /\ k.handed # {} => "connectDestroyed" \in Waiting
      /\ "resetChannel" \notin Waiting /\ active = None /\ ~peerGone
  BY <1>1, <1>2 DEF Fits, Good, TurnOK
<1>4. /\ d \in Records /\ d.connect /\ d.queued = k.queued
      /\ d.handed = k.handed
      /\ d.misuse \in {{}, {"connecting"}}
      /\ d.misuse # {} => "resetChannel" \in Waiting
      /\ d.misuse = {} =>
            /\ Fits(d, Waiting) /\ d.state # "Connected"
            /\ d.channel = k.channel \/ k.channel = None
  BY <1>1, <1>2, <1>3, RestartFields
<1> HIDE DEF d
<1>5. d.misuse = {} /\ d.queued = <<>> /\ Fits(d, Waiting)
  BY <1>2, <1>3, <1>4
<1>6. /\ k' \in Records /\ k'.queued = <<>> /\ k'.misuse = {} /\ k'.connect
      /\ k'.state = d.state
      /\ k'.channel = d.channel /\ k'.poller = d.poller
      /\ k'.own = d.own /\ k'.handed = d.handed /\ k'.timers = d.timers
      /\ pending' = pending
  BY <1>1, <1>2, <1>4, <1>5, CommitFields
<1>7. Waiting' = Waiting /\ (StopUnderWay' <=> StopUnderWay)
  BY <1>1, <1>6 DEF Waiting, StopUnderWay
<1>8. FlagsOK'
  BY <1>1, Zenon DEF Types, FlagsOK
<1>9. OthersOK'
  BY <1>1, <1>6 DEF Types, OthersOK
<1>10. Fits(k', Waiting')
  BY <1>5, <1>6, <1>7 DEF Fits
<1>11. QueuesOK'
  BY <1>1, <1>6 DEF Good, QueuesOK
<1>12. CallsOK'
  BY <1>1, <1>6, <1>7 DEF Good, CallsOK
<1>13. TurnOK'
  BY <1>1, <1>3, <1>6 DEF Good, TurnOK
<1> QED
  BY <1>6, <1>8, <1>9, <1>10, <1>11, <1>12, <1>13 DEF StepOK, Types, Good

\* The connection handed over ends, and the next attempt may begin with its
\* descriptor still open.
LEMMA HandedClosesStep ==
  ASSUME Types, Good, k.misuse = {}, NEW result \in Results,
         HandedCloses(result)
  PROVE  StepOK
<1> DEFINE c == [k EXCEPT !.queued = Append(@, "connectDestroyed")]
           d == Restart(c, result)
           w == Waiting \union {"connectDestroyed"}
<1>1. /\ phase = "events" /\ peerGone /\ peerGone' = FALSE
      /\ phase' = phase /\ active' = active /\ answer' = answer
      /\ timerReady' = timerReady /\ list' = list
      /\ app' = app /\ stopper' = stopper /\ starts' = starts /\ stops' = stops
  BY DEF HandedCloses, callVars
<1>2. Commit(c) \/ Commit(d)
  BY DEF HandedCloses
<1>3. /\ k \in Records /\ k.queued = <<>> /\ Fits(k, Waiting)
      /\ pending \in Seq(FunctorNames)
  BY DEF Types, OthersOK, Good
<1>4. /\ k.handed # {} /\ k.state = "Connected" /\ k.timers = 0
      /\ active = None /\ list = <<>>
  BY <1>1, <1>3 DEF Good, TurnOK, Fits
<1>5. "connectDestroyed" \in FunctorNames \ {"resetChannel"}
  BY DEF FunctorNames
<1>6. <<"connectDestroyed">> \in Seq(FunctorNames)
      /\ Append(<<>>, "connectDestroyed") = <<"connectDestroyed">>
  BY <1>5
<1>7. /\ c \in Records /\ c.queued = <<"connectDestroyed">>
      /\ c.connect = k.connect /\ c.state = k.state /\ c.misuse = {}
      /\ c.channel = k.channel /\ c.poller = k.poller /\ c.own = k.own
      /\ c.handed = k.handed /\ c.timers = k.timers
  BY <1>3, <1>6 DEF Records
<1> HIDE DEF c
<1>8. Fits(c, w)
  <2>1. Fits(k, w)
    BY <1>3, <1>5, OneMoreFits
  <2> HIDE DEF w
  <2> QED
    BY <1>7, <2>1 DEF Fits
<1>9. FlagsOK'
  BY <1>1, Zenon DEF Types, FlagsOK
\* In both cases the queue has grown by connectDestroyed.
<1>10. ASSUME NEW e \in Records, Commit(e), e.queued = <<"connectDestroyed">>,
              e.misuse \in {{}, {"connecting"}},
              e.misuse # {} => "resetChannel" \in Waiting,
              e.misuse = {} => Fits(e, w),
              \/ /\ e.connect = k.connect /\ e.state = k.state
                 /\ e.channel = k.channel /\ e.timers = k.timers
              \/ e.connect /\ app # "start"
       PROVE  StepOK
  <2>1. /\ k' \in Records /\ k'.queued = <<>> /\ k'.misuse = e.misuse
        /\ k'.connect = e.connect /\ k'.state = e.state
        /\ k'.channel = e.channel /\ k'.poller = e.poller
        /\ k'.own = e.own /\ k'.handed = e.handed /\ k'.timers = e.timers
        /\ pending' \in Seq(FunctorNames)
        /\ pending' = Append(pending, "connectDestroyed")
        /\ Range(pending') = Range(pending) \union {"connectDestroyed"}
    BY <1>3, <1>5, <1>10, CommitFields
  <2>2. Waiting' = w /\ (StopUnderWay' <=> StopUnderWay)
    BY <1>1, <2>1 DEF Waiting, StopUnderWay
  <2>3. OthersOK'
    BY <1>1, <2>1 DEF Types, OthersOK
  <2>4. QueuesOK'
    BY <1>1, <1>5, <2>1, QueueStep DEF Good
  <2>5. TurnOK'
    BY <1>1, <1>4, <2>1 DEF TurnOK
  <2>6. "startInLoop" \in Waiting' <=> "startInLoop" \in Waiting
    BY <2>2
  <2>7. CallsOK'
    <3>1. CASE /\ e.connect = k.connect /\ e.state = k.state
               /\ e.channel = k.channel /\ e.timers = k.timers
      BY <1>1, <2>1, <2>2, <2>6, <3>1 DEF Good, CallsOK
    <3>2. CASE e.connect /\ app # "start"
      BY <1>1, <2>1, <2>2, <2>6, <3>2 DEF Good, CallsOK
    <3> QED
      BY <1>10, <3>1, <3>2
  <2>8. ASSUME k'.misuse = {} PROVE Good'
    <3>1. Fits(k', Waiting')
      <4> HIDE DEF w
      <4> QED
        BY <1>10, <2>1, <2>2, <2>8 DEF Fits
    <3> QED
      BY <2>4, <2>5, <2>7, <3>1 DEF Good
  <2> QED
    BY <1>9, <1>10, <2>1, <2>3, <2>8 DEF StepOK, Types
<1>11. CASE Commit(c)
  BY <1>7, <1>8, <1>10, <1>11
<1>12. CASE Commit(d)
  <2>1. "connectDestroyed" \in w
    OBVIOUS
  <2> HIDE DEF w
  <2>2. /\ d \in Records /\ d.connect /\ d.queued = c.queued
        /\ d.handed = c.handed
        /\ d.misuse \in {{}, {"connecting"}}
        /\ d.misuse # {} => "resetChannel" \in w
        /\ d.misuse = {} =>
              /\ Fits(d, w) /\ d.state # "Connected"
              /\ d.channel = c.channel \/ c.channel = None
    <3>1. /\ c \in Records /\ Fits(c, w) /\ c.state # "Connecting"
          /\ c.timers = 0 /\ c.misuse = {}
          /\ c.handed # {} => "connectDestroyed" \in w
      BY <1>4, <1>7, <1>8, <2>1
    <3> QED
      BY <3>1, RestartFields
  <2> HIDE DEF d
  <2>3. app # "start"
    BY <1>4 DEF Good, CallsOK
  <2>4. "resetChannel" \in w => "resetChannel" \in Waiting
    BY DEF w
  <2> QED
    BY <1>7, <1>10, <1>12, <2>2, <2>3, <2>4
<1> QED
  BY <1>2, <1>11, <1>12

\* stop() by another thread clears connect_; what is under way stays so until
\* stopInLoop.
LEMMA StopSetsStep ==
  ASSUME Types, Good, k.misuse = {}, StopSets
  PROVE  StepOK
<1>1. /\ stops < MaxStops /\ stops' = stops + 1 /\ stopper'
      /\ stopper' \in BOOLEAN /\ pending' = pending /\ app' = app
      /\ starts' = starts /\ phase' = phase /\ active' = active
      /\ answer' = answer /\ timerReady' = timerReady
      /\ peerGone' = peerGone /\ list' = list
  BY Zenon DEF StopSets, loopVars
<1>2. k \in Records /\ k.queued = <<>>
  BY DEF Types
<1>3. /\ k' \in Records /\ k'.queued = <<>> /\ k'.misuse = {} /\ ~k'.connect
      /\ k'.state = k.state /\ k'.channel = k.channel
      /\ k'.poller = k.poller /\ k'.own = k.own /\ k'.handed = k.handed
      /\ k'.timers = k.timers
  BY <1>2 DEF StopSets, Records
<1>4. Waiting' = Waiting /\ StopUnderWay'
  BY <1>1 DEF Waiting, StopUnderWay
<1>5. stops' # 0 /\ stops' \in 0..MaxStops
  BY <1>1, ConnectorAssumption DEF Types, OthersOK
<1>6. FlagsOK'
  BY <1>1, Zenon DEF Types, FlagsOK
<1>7. OthersOK'
  BY <1>1, <1>5 DEF Types, OthersOK
<1>8. Fits(k', Waiting')
  BY <1>3, <1>4 DEF Good, Fits
<1>9. QueuesOK'
  BY <1>1 DEF Good, QueuesOK
<1>10. CallsOK'
  BY <1>1, <1>3, <1>4, <1>5 DEF Good, CallsOK
<1>11. TurnOK'
  BY <1>1, <1>3, <1>4 DEF Good, TurnOK
<1> QED
  BY <1>3, <1>6, <1>7, <1>8, <1>9, <1>10, <1>11 DEF StepOK, Types, Good

\* ... and queues the functor.
LEMMA StopQueuesStep ==
  ASSUME Types, Good, k.misuse = {}, StopQueues
  PROVE  StepOK
<1>1. /\ stopper /\ stopper' = FALSE /\ k' = k
      /\ pending' = Append(pending, "stopInLoop") /\ app' = app
      /\ starts' = starts /\ stops' = stops /\ phase' = phase
      /\ active' = active /\ answer' = answer /\ timerReady' = timerReady
      /\ peerGone' = peerGone /\ list' = list
  BY DEF StopQueues, loopVars
<1>2. "stopInLoop" \in FunctorNames \ {"resetChannel"}
  BY DEF FunctorNames
<1>3. pending \in Seq(FunctorNames)
  BY DEF Types, OthersOK
<1>4. /\ pending' \in Seq(FunctorNames)
      /\ Range(pending') = Range(pending) \union {"stopInLoop"}
  BY <1>1, <1>2, <1>3, QueueRange
<1>5. Waiting' = Waiting \union {"stopInLoop"} /\ StopUnderWay' /\ StopUnderWay
  BY <1>1, <1>4 DEF Waiting, StopUnderWay
<1>6. FlagsOK'
  BY <1>1, Zenon DEF Types, FlagsOK
<1>7. OthersOK'
  BY <1>1, <1>4 DEF Types, OthersOK
<1>8. Fits(k', Waiting')
  BY <1>1, <1>2, <1>5, OneMoreFits DEF Good
<1>9. QueuesOK'
  BY <1>1, <1>2, QueueStep DEF Good
<1>10. CallsOK'
  BY <1>1, <1>5 DEF Good, CallsOK
<1>11. TurnOK'
  BY <1>1, <1>4, <1>5 DEF Good, TurnOK
<1> QED
  BY <1>1, <1>6, <1>7, <1>8, <1>9, <1>10, <1>11 DEF StepOK, Types, Good

\* stop() on the loop thread.
LEMMA StopHereStep ==
  ASSUME Types, Good, k.misuse = {}, StopHere
  PROVE  StepOK
<1> DEFINE c == [k EXCEPT !.connect = FALSE]
           d == StopInLoop(c)
<1>1. /\ stops < MaxStops /\ stops' = stops + 1 /\ stopper' = stopper
      /\ app' = app /\ starts' = starts /\ phase' = phase
      /\ active' = active /\ answer' = answer /\ timerReady' = timerReady
      /\ peerGone' = peerGone /\ list' = list /\ Commit(d)
  BY DEF StopHere, loopVars
<1>2. /\ k \in Records /\ k.queued = <<>> /\ Fits(k, Waiting)
      /\ pending \in Seq(FunctorNames)
  BY DEF Types, OthersOK, Good
<1>3. /\ c \in Records /\ c.queued = <<>> /\ c.misuse = {} /\ ~c.connect
      /\ c.state = k.state /\ c.channel = k.channel
      /\ c.poller = k.poller /\ c.own = k.own /\ c.handed = k.handed
      /\ c.timers = k.timers
  BY <1>2 DEF Records
<1> HIDE DEF c
<1>4. Fits(c, Waiting)
  BY <1>2, <1>3 DEF Fits
<1>5. stops' # 0 /\ stops' \in 0..MaxStops
  BY <1>1, ConnectorAssumption DEF Types, OthersOK
<1>6. FlagsOK'
  BY <1>1, Zenon DEF Types, FlagsOK
<1>7. CASE k.state = "Connecting"
  <2>1. /\ d \in Records
        /\ (d.connect <=> c.connect) /\ d.queued = <<"resetChannel">>
        /\ d.misuse = c.misuse /\ d.state = "Disconnected"
        /\ d.channel = c.channel /\ d.handed = c.handed
        /\ Fits(d, Waiting \union {"resetChannel"})
    BY <1>3, <1>4, <1>7, StopFields
  <2> HIDE DEF d
  <2>2. "resetChannel" \in FunctorNames
    BY DEF FunctorNames
  <2>3. /\ k' \in Records /\ k'.queued = <<>> /\ k'.misuse = {}
        /\ k'.connect = d.connect /\ k'.state = d.state
        /\ k'.channel = d.channel /\ k'.poller = d.poller
        /\ k'.own = d.own /\ k'.handed = d.handed /\ k'.timers = d.timers
        /\ pending' \in Seq(FunctorNames)
        /\ pending' = Append(pending, "resetChannel")
        /\ Range(pending') = Range(pending) \union {"resetChannel"}
    BY <1>1, <1>2, <1>3, <2>1, <2>2, CommitFields
  <2>4. Waiting' = Waiting \union {"resetChannel"} /\ (StopUnderWay' <=> StopUnderWay)
    BY <1>1, <2>3 DEF Waiting, StopUnderWay
  <2>5. "resetChannel" \notin Waiting
    BY <1>2, <1>7 DEF Fits
  <2>6. Fits(k', Waiting')
    BY <2>1, <2>3, <2>4 DEF Fits
  <2>7. QueuesOK'
    BY <1>1, <2>2, <2>3, <2>5, QueueStep DEF Good
  <2>8. ~peerGone /\ app # "start"
    BY <1>7 DEF Good, TurnOK, CallsOK
  <2>9. CallsOK'
    BY <1>1, <1>5, <2>1, <2>3, <2>4, <2>8 DEF Good, CallsOK
  <2>10. TurnOK'
    BY <1>1, <1>3, <2>1, <2>3, <2>8 DEF Good, TurnOK
  <2>11. OthersOK'
    BY <1>1, <1>5, <2>3 DEF Types, OthersOK
  <2> QED
    BY <1>6, <2>3, <2>6, <2>7, <2>9, <2>10, <2>11 DEF StepOK, Types, Good
<1>8. CASE k.state # "Connecting"
  <2>1. d = c
    BY <1>3, <1>8 DEF StopInLoop
  <2> HIDE DEF d
  <2>2. /\ k' \in Records /\ k'.queued = <<>> /\ k'.misuse = {}
        /\ k'.connect = c.connect /\ k'.state = c.state
        /\ k'.channel = c.channel /\ k'.poller = c.poller
        /\ k'.own = c.own /\ k'.handed = c.handed /\ k'.timers = c.timers
        /\ pending' = pending
    BY <1>1, <1>2, <1>3, <2>1, CommitFields
  <2>3. Waiting' = Waiting /\ (StopUnderWay' <=> StopUnderWay)
    BY <1>1, <2>2 DEF Waiting, StopUnderWay
  <2>4. Fits(k', Waiting')
    BY <1>4, <2>2, <2>3 DEF Fits
  <2>5. QueuesOK'
    BY <1>1, <2>2 DEF Good, QueuesOK
  <2>6. CallsOK'
    BY <1>1, <1>3, <1>5, <1>8, <2>2, <2>3 DEF Good, CallsOK
  <2>7. TurnOK'
    BY <1>1, <1>3, <2>2, <2>3 DEF Good, TurnOK
  <2>8. OthersOK'
    BY <1>1, <1>5, <2>2 DEF Types, OthersOK
  <2> QED
    BY <1>6, <2>2, <2>4, <2>5, <2>6, <2>7, <2>8 DEF StepOK, Types, Good
<1> QED
  BY <1>7, <1>8

\* Every step, before an assertion has failed.
LEMMA NextStep ==
  ASSUME Types, Good, k.misuse = {}, Next, vars' # vars
  PROVE  StepOK
<1>1. LoopStep \/ CallStep
  BY DEF Next
<1>2. CASE LoopStep
  <2>1. ASSUME NEW ready \in BOOLEAN, NEW ans \in Answers, Poll(ready, ans)
        PROVE  StepOK
    BY <2>1, PollStep
  <2>2. ASSUME NEW result \in Results,
               HandleTimers(result) \/ HandedCloses(result) \/ RunFunctor(result)
        PROVE  StepOK
    BY <2>2, HandleTimersStep, HandedClosesStep, RunFunctorStep
  <2> QED
    BY <1>2, <2>1, <2>2, HandleChannelStep, EventsDoneStep, FunctorsDoneStep
    DEF LoopStep
<1>3. CASE CallStep
  BY <1>3, StartStep, FirstRestartStep, StopSetsStep, StopQueuesStep,
     StopHereStep DEF CallStep
<1> QED
  BY <1>1, <1>2, <1>3

\* A step that changes nothing keeps the invariant.
LEMMA StutterStep ==
  ASSUME IInv, vars' = vars
  PROVE  IInv'
<1>1. /\ k' = k /\ phase' = phase /\ active' = active /\ answer' = answer
      /\ timerReady' = timerReady /\ peerGone' = peerGone
      /\ pending' = pending /\ list' = list /\ app' = app
      /\ stopper' = stopper /\ starts' = starts /\ stops' = stops
  BY DEF vars
<1>2. Types'
  <2>1. FlagsOK'
    BY <1>1, Zenon DEF IInv, Types, FlagsOK
  <2> QED
    BY <1>1, <2>1 DEF IInv, Types, OthersOK
<1>3. Waiting' = Waiting /\ (StopUnderWay' <=> StopUnderWay)
  BY <1>1 DEF Waiting, StopUnderWay
<1>4. Good => Good'
  BY <1>1, <1>3 DEF Good, QueuesOK, CallsOK, TurnOK
<1> QED
  BY <1>1, <1>2, <1>4 DEF IInv

\* The invariant is kept, and an assertion fails only as StepOK says.
LEMMA InvariantStep ==
  ASSUME IInv, [Next]_vars
  PROVE  /\ IInv'
         /\ k.misuse = {} /\ vars' # vars => StepOK
<1>1. CASE vars' = vars
  BY <1>1, StutterStep
<1>2. CASE vars' # vars
  <2>1. Next /\ k.misuse = {}
    BY <1>2 DEF Next, LoopStep, CallStep, Over
  <2>2. StepOK
    BY <1>2, <2>1, NextStep DEF IInv
  <2> QED
    BY <2>2 DEF StepOK, IInv
<1> QED
  BY <1>1, <1>2

-----------------------------------------------------------------------------
(* Theorems                                                                *)

\* The functors that wait, the Channel, the descriptors and the calls under way
\* fit each other after every step, up to the one in which an assertion fails.
THEOREM ConnectorInvariant == Spec => []IInv
<1>1. Init => IInv
  BY InitGood
<1>2. IInv /\ [Next]_vars => IInv'
  BY InvariantStep
<1> QED
  BY <1>1, <1>2, PTL DEF Spec

\* The delay of retry() stays between its two limits, and every variable has
\* its type, whatever the application and the other timers of the loop do.
THEOREM ConnectorTypeCorrect == Spec => []TypeOK
<1>1. ASSUME IInv PROVE TypeOK
  <2>1. timerReady \in BOOLEAN /\ peerGone \in BOOLEAN /\ stopper \in BOOLEAN
    BY <1>1, Zenon DEF IInv, Types, FlagsOK
  <2> QED
    BY <1>1, <2>1 DEF IInv, Types, Records, OthersOK, TypeOK
<1> QED
  BY <1>1, ConnectorInvariant, PTL

\* The assertions of startInLoop and handleWrite never fail; those of
\* connecting and handleError, and with it the second close, only while a
\* resetChannel waits.
THEOREM AssertionsFailInOneWindow == Spec => AssertionsHold
<1> DEFINE A == k.misuse = {} /\ k.misuse' # {} =>
                  /\ k.misuse' \subseteq {"connecting", "handleError", "close"}
                  /\ "resetChannel" \in Waiting
<1>1. IInv /\ [Next]_vars => [A]_vars
  BY InvariantStep DEF StepOK
<1> QED
  BY <1>1, ConnectorInvariant, PTL DEF Spec, AssertionsHold

\* removeAndResetChannel() and resetChannel() are two steps; until an assertion
\* fails the poller keeps no pointer to a Channel that was destroyed between
\* them or by them, nor does the snapshot of the turn.
THEOREM NoChannelDangles == Spec => []NoDanglingChannel
<1>1. ASSUME IInv PROVE NoDanglingChannel
  BY <1>1 DEF IInv, Good, Fits, TurnOK, NoDanglingChannel
<1> QED
  BY <1>1, ConnectorInvariant, PTL

\* However many attempts are made, answered, retried and stopped, each
\* descriptor is closed once or handed over, and none is left open, until an
\* assertion fails; a second close comes only with such a failure.
THEOREM NoDescriptorLeaks == Spec => []DescriptorsOwned
<1>1. ASSUME Good PROVE Cardinality(k.handed) <= 1
  <2>1. CASE k.handed = {}
    BY <2>1, FS_EmptySet
  <2>2. CASE \E fd \in Fds : k.handed = {fd}
    BY <2>2, FS_Singleton
  <2> QED
    BY <1>1, <2>1, <2>2 DEF Good, Fits
<1>2. ASSUME IInv PROVE DescriptorsOwned
  <2>1. CASE k.misuse = {}
    BY <1>1, <1>2, <2>1 DEF IInv, Good, Fits, DescriptorsOwned
  <2>2. CASE k.misuse # {}
    BY <1>2, <2>2 DEF IInv, DescriptorsOwned
  <2> QED
    BY <2>1, <2>2
<1> QED
  BY <1>2, ConnectorInvariant, PTL

\* Once stop() has got to stopInLoop nothing of the attempt is left, whatever
\* else waits, and nothing but restart() begins another one.
THEOREM StopIsFinal == Spec => []StopEndsAttempt
<1>1. ASSUME IInv PROVE StopEndsAttempt
  BY <1>1 DEF IInv, Good, Fits, CallsOK, StopEndsAttempt
<1> QED
  BY <1>1, ConnectorInvariant, PTL
=============================================================================
