----------------------- MODULE TcpServerCallsProofs -----------------------
(***************************************************************************)
(* TcpServer under calls from everywhere: forceClose() from the message    *)
(* callback and from a timer, shutdown() from the timing wheel, and        *)
(* another thread that sends or that closes.  Connections may then be      *)
(* closed twice and used after their destruction, but the poller is never  *)
(* left with the channel of a connection that is gone, and the bytes of a  *)
(* connection leave in the order of their send() calls.                    *)
(***************************************************************************)
EXTENDS TcpServerProofs, SequenceFacts

-----------------------------------------------------------------------------
(* The inductive invariant                                                 *)

\* No server has both a thread that sends and a thread that closes.
CallersApart ==
    \A callerSet \in CallerSets : ~({"sender", "closer"} \subseteq callerSet)

Opened(r) == r.state \notin {"None", "Connecting"}

\* The poller knows the channel from connectEstablished on, at least until
\* the connection is closed; then nothing is written any more.
ChannelOK(r) ==
    /\ ~Opened(r) => r.index = "new" /\ r.closes = 0
    /\ Opened(r) /\ r.closes = 0 => r.index # "new"
    /\ r.closes > 0 => ~r.wr /\ r.state # "Connected"

\* A functor of a connection whose record is r and whose loop is own waits on
\* the loop l, called by the callers of who.
Expected(f, l, r, own, who) ==
    /\ l = IF f.fn = "removeConnectionInLoop" THEN "main" ELSE own
    /\ f.fn \in {"connectDestroyed", "removeConnectionInLoop"} => r.closes > 0
    /\ f.fn = "connectEstablished" => r.state = "Connecting"
    /\ f.fn # "connectEstablished" => Opened(r)
    /\ f.fn = "sendInLoop" => "sender" \in who
    /\ f.fn \in Callbacks => r.index # "new"

\* A connection c with record r and loop own, the members cs of connections_,
\* the callers who and the queues q.  connections_ holds c until it is closed;
\* after that c is on its way to connectDestroyed as long as the poller knows
\* its channel, and the callbacks that would bring the channel back run first.
\* Only a thread that closes can overwrite the state of a closed connection.
Managed(c, r, own, cs, who, q) ==
    /\ ChannelOK(r)
    /\ r.state # "None" /\ r.closes = 0 => c \in cs
    /\ "sender" \in who /\ r.closes > 0 => r.state = "DisConnected"
    /\ r.closes > 0 /\ r.index # "new" =>
          \/ Functor(c)["connectDestroyed"] \in Range(q[own])
          \/ Functor(c)["removeConnectionInLoop"] \in Range(q["main"])
    /\ \A fn \in Callbacks :
          Before(q[own], Functor(c)["connectDestroyed"], Functor(c)[fn])
    /\ \A l \in Loops :
          /\ \A f \in Range(q[l]) : f.c = c => Expected(f, l, r, own, who)
          /\ Once(q[l], Functor(c)["connectEstablished"])

\* The lists k of this turn's functors and the pending functors b.
Joined(k, b) == [l \in Loops |-> k[l] \o b[l]]

Queues == Joined(list, pending)

ManagedNow(c) ==
    Managed(c, conn[c], loopOf[c], connections, callers, Queues)

\* A channel in a snapshot is known to the poller.
SnapshotsKnown ==
    \A l \in Loops, c \in Conns : active[l][c] # {} =>
        l = loopOf[c] /\ phase[l] = "events" /\ conn[c].index # "new"

\* A thread in the middle of a call.
CallsBegun ==
    /\ ~({"sender", "closer"} \subseteq callers)
    /\ foreign # NoCall =>
          /\ Opened(conn[foreign.c])
          /\ foreign.at = "tested" => "closer" \in callers
          /\ foreign.fn = "sendInLoop" => "sender" \in callers

CallInv ==
    /\ \A c \in Conns : ManagedNow(c)
    /\ SnapshotsKnown /\ ListsRun /\ CallsBegun

-----------------------------------------------------------------------------
(* One connection and its queues                                           *)

\* The queues q, with t at the end of that of loop l.
Put(q, l, t) == [q EXCEPT ![l] = @ \o t]

\* The queues q, without the first functor of loop l.
Pop(q, l) == [q EXCEPT ![l] = Tail(@)]

\* What may be queued for an open connection with record r: callbacks only as
\* long as it is not closed, and what destroys it only then.
Queueable(t, r, who) ==
    \A f \in Range(t) :
        /\ f.fn \in Callbacks \union {"connectDestroyed", "sendInLoop",
                                      "shutdownInLoop", "forceCloseInLoop"}
        /\ f.fn = "sendInLoop" => "sender" \in who
        /\ f.fn = "connectDestroyed" => r.closes > 0
        /\ f.fn \in Callbacks => r.closes = 0

\* What handleClose queues on the main loop.
Removal(c, own) ==
    Functor(c)[IF own = "main" THEN "connectDestroyed"
               ELSE "removeConnectionInLoop"]

\* The functors that Managed speaks of.
LEMMA ManagedNames ==
  ASSUME NEW c \in Conns
  PROVE  \A fn \in {"connectEstablished", "connectDestroyed",
                    "removeConnectionInLoop"} \union Callbacks :
            /\ fn \in FunctorNames /\ Functor(c)[fn] \in Functors
            /\ Functor(c)[fn].c = c /\ Functor(c)[fn].fn = fn
  BY FunctorFields, QueuedNames DEF Callbacks

\* Steps of another connection.
LEMMA ManagedOther ==
  ASSUME NEW c, NEW d \in Conns, d # c, NEW r, NEW own \in Loops,
         NEW cs, NEW cs2, d \in cs => d \in cs2, NEW who,
         NEW q, NEW p \in [Loops -> Seq(Functors)],
         Managed(d, r, own, cs, who, q),
         \A l \in Loops : OthersKept(p[l], q[l], c)
  PROVE  Managed(d, r, own, cs2, who, p)
<1>1. "main" \in Loops
  BY LoopNames
<1>2. \A fn \in {"connectEstablished", "connectDestroyed",
                 "removeConnectionInLoop"} \union Callbacks :
         /\ Functor(d)[fn] \in Functors /\ Functor(d)[fn].c # c
  BY ManagedNames
<1>3. /\ Functor(d)["connectDestroyed"] \in Range(p[own]) <=>
            Functor(d)["connectDestroyed"] \in Range(q[own])
      /\ Functor(d)["removeConnectionInLoop"] \in Range(p["main"]) <=>
            Functor(d)["removeConnectionInLoop"] \in Range(q["main"])
  BY <1>1, <1>2 DEF OthersKept
<1>4. \A fn \in Callbacks :
         Before(p[own], Functor(d)["connectDestroyed"], Functor(d)[fn])
  BY <1>2 DEF OthersKept, Managed
<1>5. ASSUME NEW l \in Loops
      PROVE  Once(p[l], Functor(d)["connectEstablished"])
  <2>1. Once(q[l], Functor(d)["connectEstablished"]) /\ OthersKept(p[l], q[l], c)
    BY DEF Managed
  <2> QED
    BY <1>2, <2>1 DEF OthersKept
<1>6. ASSUME NEW l \in Loops, NEW f \in Range(p[l]), f.c = d
      PROVE  Expected(f, l, r, own, who)
  <2>1. f \in Functors
    BY ElementOfSeq DEF Range
  <2>2. f \in Range(q[l])
    BY <1>6, <2>1 DEF OthersKept
  <2> QED
    BY <1>6, <2>2 DEF Managed
<1> QED
  BY <1>3, <1>4, <1>5, <1>6 DEF Managed

\* A functor is taken from a queue: not connectDestroyed, and
\* removeConnectionInLoop only once connectDestroyed is queued.
LEMMA ManagedPop ==
  ASSUME NEW c \in Conns, NEW r, NEW own \in Loops, NEW cs, NEW who,
         NEW q \in [Loops -> Seq(Functors)], NEW p, NEW l \in Loops,
         q[l] # <<>>, p = Pop(q, l), Head(q[l]).fn # "connectDestroyed",
         Head(q[l]).fn = "removeConnectionInLoop" =>
             Functor(c)["connectDestroyed"] \in Range(q[own]),
         Managed(c, r, own, cs, who, q)
  PROVE  Managed(c, r, own, cs, who, p)
<1>1. "main" \in Loops
  BY LoopNames
<1>2. /\ p[l] = Tail(q[l]) /\ \A m \in Loops : m # l => p[m] = q[m]
      /\ q[l] \in Seq(Functors)
  BY DEF Pop
<1>3. Range(q[l]) = {Head(q[l])} \union Range(p[l])
  BY <1>2, RangeOfTail
<1>4. \A fn \in {"connectDestroyed", "removeConnectionInLoop"} :
         Functor(c)[fn].fn = fn
  BY ManagedNames
<1>5. \A m \in Loops :
         /\ Functor(c)["connectDestroyed"] \in Range(p[m]) <=>
               Functor(c)["connectDestroyed"] \in Range(q[m])
         /\ Functor(c)["removeConnectionInLoop"] \in Range(p[m]) =>
               Functor(c)["removeConnectionInLoop"] \in Range(q[m])
         /\ Head(q[l]).fn # "removeConnectionInLoop" =>
               (Functor(c)["removeConnectionInLoop"] \in Range(p[m]) <=>
                Functor(c)["removeConnectionInLoop"] \in Range(q[m]))
  BY <1>2, <1>3, <1>4
<1>6. ASSUME NEW fn \in Callbacks
      PROVE  Before(p[own], Functor(c)["connectDestroyed"], Functor(c)[fn])
  <2>1. Before(q[own], Functor(c)["connectDestroyed"], Functor(c)[fn])
    BY DEF Managed
  <2>2. CASE own = l
    <3>1. Before(Tail(q[l]), Functor(c)["connectDestroyed"], Functor(c)[fn])
      BY <1>2, <2>1, <2>2, BeforeTail
    <3> QED
      BY <1>2, <2>2, <3>1
  <2>3. CASE own # l
    BY <1>2, <2>1, <2>3
  <2> QED
    BY <2>2, <2>3
<1>7. ASSUME NEW m \in Loops
      PROVE  Once(p[m], Functor(c)["connectEstablished"])
  <2>1. Once(q[m], Functor(c)["connectEstablished"])
    BY DEF Managed
  <2>2. CASE m = l
    <3>1. Once(Tail(q[l]), Functor(c)["connectEstablished"])
      BY <1>2, <2>1, <2>2, OnceTail
    <3> QED
      BY <1>2, <2>2, <3>1
  <2>3. CASE m # l
    BY <1>2, <2>1, <2>3
  <2> QED
    BY <2>2, <2>3
<1>8. ASSUME NEW m \in Loops, NEW f \in Range(p[m]), f.c = c
      PROVE  Expected(f, m, r, own, who)
  <2>1. f \in Range(q[m])
    BY <1>2, <1>3, <1>8
  <2> QED
    BY <1>8, <2>1 DEF Managed
<1> QED
  BY <1>1, <1>5, <1>6, <1>7, <1>8 DEF Managed

\* connectDestroyed is taken from the queue and run: no callback is left that
\* would bring the channel back.
LEMMA ManagedDestroyed ==
  ASSUME NEW c \in Conns, NEW r, NEW e, NEW own \in Loops, NEW cs, NEW who,
         NEW q \in [Loops -> Seq(Functors)], NEW p, q[own] # <<>>,
         p = Pop(q, own),
         Head(q[own]) = Functor(c)["connectDestroyed"],
         Managed(c, r, own, cs, who, q), r.closes > 0,
         e.state = r.state, e.closes = r.closes, e.wr = r.wr, e.index = "new"
  PROVE  Managed(c, e, own, cs, who, p)
<1>1. /\ p[own] = Tail(q[own]) /\ \A m \in Loops : m # own => p[m] = q[m]
      /\ q[own] \in Seq(Functors)
  BY DEF Pop
<1>2. Range(q[own]) = {Head(q[own])} \union Range(p[own])
  BY <1>1, RangeOfTail
<1>3. ChannelOK(e) /\ (e.state # "None" /\ e.closes = 0 => c \in cs)
      /\ ("sender" \in who /\ e.closes > 0 => e.state = "DisConnected")
  BY DEF Managed, ChannelOK, Opened
<1>4. ASSUME NEW fn \in Callbacks
      PROVE  /\ Before(p[own], Functor(c)["connectDestroyed"], Functor(c)[fn])
             /\ Functor(c)[fn] \notin Range(p[own])
  <2>1. Before(q[own], Functor(c)["connectDestroyed"], Functor(c)[fn])
    BY DEF Managed
  <2>2. /\ Before(Tail(q[own]), Functor(c)["connectDestroyed"], Functor(c)[fn])
        /\ Functor(c)[fn] \notin Range(Tail(q[own]))
    BY <1>1, <2>1, BeforeTail
  <2> QED
    BY <1>1, <2>2
<1>5. ASSUME NEW m \in Loops
      PROVE  Once(p[m], Functor(c)["connectEstablished"])
  <2>1. Once(q[m], Functor(c)["connectEstablished"])
    BY DEF Managed
  <2>2. CASE m = own
    <3>1. Once(Tail(q[own]), Functor(c)["connectEstablished"])
      BY <1>1, <2>1, <2>2, OnceTail
    <3> QED
      BY <1>1, <2>2, <3>1
  <2>3. CASE m # own
    BY <1>1, <2>1, <2>3
  <2> QED
    BY <2>2, <2>3
<1>6. ASSUME NEW m \in Loops, NEW f \in Range(p[m]), f.c = c
      PROVE  Expected(f, m, e, own, who)
  <2>1. f \in Range(q[m])
    BY <1>1, <1>2, <1>6
  <2>2. Expected(f, m, r, own, who)
    BY <1>6, <2>1 DEF Managed
  <2>3. f \in Functors
    BY <2>1, ElementOfSeq DEF Range
  <2>4. f.fn \notin Callbacks
    <3>1. ASSUME f.fn \in Callbacks PROVE FALSE
      <4>1. m = own
        BY <2>2, <3>1 DEF Expected, Callbacks
      <4>2. f = Functor(c)[f.fn]
        BY <1>6, <2>3, FunctorOf
      <4> QED
        BY <1>4, <1>6, <3>1, <4>1, <4>2
    <3> QED
      BY <3>1
  <2> QED
    BY <2>2, <2>4 DEF Expected, Opened
<1> QED
  BY <1>3, <1>4, <1>5, <1>6 DEF Managed

\* The record of an open connection changes, and the poller still knows the
\* channel or still does not.
LEMMA ManagedRecord ==
  ASSUME NEW c \in Conns, NEW r, NEW e, NEW own, NEW cs, NEW who, NEW q,
         Managed(c, r, own, cs, who, q), Opened(r), Opened(e),
         ChannelOK(e), e.closes = r.closes,
         e.index = "new" <=> r.index = "new",
         "sender" \in who /\ r.state = "DisConnected" =>
             e.state = "DisConnected"
  PROVE  Managed(c, e, own, cs, who, q)
<1>1. ASSUME NEW l \in Loops, NEW f \in Range(q[l]), f.c = c
      PROVE  Expected(f, l, e, own, who)
  <2>1. Expected(f, l, r, own, who)
    BY <1>1 DEF Managed
  <2> QED
    BY <2>1 DEF Expected, Opened
<1>2. r.state # "None"
  BY DEF Opened
<1> QED
  BY <1>1, <1>2 DEF Managed

\* Functors of an open connection are queued.
LEMMA ManagedQueue ==
  ASSUME NEW c \in Conns, NEW r, NEW own \in Loops, NEW cs, NEW who,
         NEW q \in [Loops -> Seq(Functors)], NEW p, NEW t \in Seq(Functors),
         p = Put(q, own, t), Queueable(t, r, who),
         Managed(c, r, own, cs, who, q), Opened(r), r.closes \in Nat
  PROVE  Managed(c, r, own, cs, who, p)
<1> USE DEF Queueable
<1>1. "main" \in Loops
  BY LoopNames
<1>2. /\ p[own] = q[own] \o t /\ \A m \in Loops : m # own => p[m] = q[m]
      /\ q[own] \in Seq(Functors) /\ p[own] \in Seq(Functors)
  BY ConcatProperties DEF Put
<1>3. Range(p[own]) = Range(q[own]) \union Range(t)
  BY <1>2, RangeConcatenation
<1>4. \A m \in Loops : Range(q[m]) \subseteq Range(p[m])
  BY <1>2, <1>3
<1>5. \A fn \in {"connectEstablished", "connectDestroyed",
                 "removeConnectionInLoop"} \union Callbacks :
         Functor(c)[fn].fn = fn /\ Functor(c)[fn].c = c
  BY ManagedNames
<1>6. ASSUME NEW fn \in Callbacks
      PROVE  Before(p[own], Functor(c)["connectDestroyed"], Functor(c)[fn])
  <2>1. CASE r.closes = 0
    <3>1. Functor(c)["connectDestroyed"] \notin Range(q[own])
      <4>1. ASSUME Functor(c)["connectDestroyed"] \in Range(q[own]) PROVE FALSE
        <5>1. Expected(Functor(c)["connectDestroyed"], own, r, own, who)
          BY <1>5, <4>1 DEF Managed
        <5> QED
          BY <1>5, <2>1, <5>1 DEF Expected
      <4> QED
        BY <4>1
    <3>2. Functor(c)["connectDestroyed"] \notin Range(t)
      <4>1. Functor(c)["connectDestroyed"].fn = "connectDestroyed"
        BY <1>5
      <4>2. \A f \in Range(t) : f.fn # "connectDestroyed"
        BY <2>1
      <4> QED
        BY <4>1, <4>2, Zenon
    <3>3. Functor(c)["connectDestroyed"] \notin Range(p[own])
      BY <1>3, <3>1, <3>2
    <3> QED
      BY <1>2, <3>3, BeforeVoid
  <2>2. CASE r.closes # 0
    <3>1. Before(q[own], Functor(c)["connectDestroyed"], Functor(c)[fn])
      BY DEF Managed
    <3>2. Functor(c)[fn] \notin Range(t)
      BY <1>5, <2>2
    <3>3. Before(q[own] \o t, Functor(c)["connectDestroyed"], Functor(c)[fn])
      BY <1>2, <3>1, <3>2, BeforeConcat
    <3> QED
      BY <1>2, <3>3
  <2> QED
    BY <2>1, <2>2
<1>7. ASSUME NEW m \in Loops
      PROVE  Once(p[m], Functor(c)["connectEstablished"])
  <2>1. Once(q[m], Functor(c)["connectEstablished"])
    BY DEF Managed
  <2>2. CASE m = own
    <3>1. Functor(c)["connectEstablished"] \notin Range(t)
      <4>1. Functor(c)["connectEstablished"].fn = "connectEstablished"
        BY <1>5
      <4>2. \A f \in Range(t) : f.fn # "connectEstablished"
        BY DEF Callbacks
      <4> QED
        BY <4>1, <4>2, Zenon
    <3>2. Once(q[own] \o t, Functor(c)["connectEstablished"])
      BY <1>2, <2>1, <2>2, <3>1, OnceConcat
    <3> QED
      BY <1>2, <2>2, <3>2
  <2>3. CASE m # own
    BY <1>2, <2>1, <2>3
  <2> QED
    BY <2>2, <2>3
<1>8. ASSUME NEW m \in Loops, NEW f \in Range(p[m]), f.c = c
      PROVE  Expected(f, m, r, own, who)
  <2>1. CASE f \in Range(q[m])
    BY <1>8, <2>1 DEF Managed
  <2>2. CASE m = own /\ f \in Range(t)
    <3>1. r.closes = 0 => r.index # "new"
      BY DEF Managed, ChannelOK
    <3> QED
      BY <2>2, <3>1 DEF Expected, Callbacks
  <2> QED
    BY <1>2, <1>3, <1>8, <2>1, <2>2
<1> QED
  BY <1>1, <1>4, <1>6, <1>7, <1>8 DEF Managed

\* The connection is closed: what removes it is queued on the main loop.
LEMMA ManagedClose ==
  ASSUME NEW c \in Conns, NEW r, NEW e, NEW own \in Loops, NEW cs, NEW cs2,
         NEW who, NEW q \in [Loops -> Seq(Functors)], NEW p, NEW g,
         p = Put(q, "main", <<g>>), g = Removal(c, own),
         Managed(c, r, own, cs, who, q), Opened(r),
         ChannelOK(e), e.state = "DisConnected", e.index # "new",
         e.closes \in Nat, e.closes > 0
  PROVE  Managed(c, e, own, cs2, who, p)
<1>1. "main" \in Loops
  BY LoopNames
<1>2. PICK name \in {"connectDestroyed", "removeConnectionInLoop"} :
         name = IF own = "main" THEN "connectDestroyed"
                ELSE "removeConnectionInLoop"
  OBVIOUS
<1>3. \A fn \in {"connectEstablished", "connectDestroyed",
                 "removeConnectionInLoop"} \union Callbacks :
         Functor(c)[fn].fn = fn /\ Functor(c)[fn].c = c
  BY ManagedNames
<1>4. g \in Functors /\ g.fn = name /\ g.c = c
  BY <1>2, ManagedNames DEF Removal
<1>5. /\ p["main"] = q["main"] \o <<g>>
      /\ \A m \in Loops : m # "main" => p[m] = q[m]
      /\ q["main"] \in Seq(Functors) /\ p["main"] \in Seq(Functors)
      /\ <<g>> \in Seq(Functors) /\ Range(<<g>>) = {g}
  <2>1. q["main"] \in Seq(Functors)
    BY <1>1
  <2>2. p["main"] = q["main"] \o <<g>>
    BY <1>1 DEF Put
  <2>3. p["main"] \in Seq(Functors)
    <3>1. \A s, u \in Seq(Functors) : s \o u \in Seq(Functors)
      BY ConcatProperties
    <3>2. <<g>> \in Seq(Functors)
      BY <1>4
    <3> QED
      BY <2>1, <2>2, <3>1, <3>2
  <2>4. <<g>> \in Seq(Functors) /\ Range(<<g>>) = {g}
    BY <1>4 DEF Range
  <2> QED
    BY <2>1, <2>2, <2>3, <2>4 DEF Put
<1>6. Range(p["main"]) = Range(q["main"]) \union {g}
  <2>1. \A s, t \in Seq(Functors) : Range(s \o t) = Range(s) \union Range(t)
    BY RangeConcatenation
  <2>2. q["main"] \in Seq(Functors) /\ <<g>> \in Seq(Functors)
    BY <1>5
  <2>3. Range(q["main"] \o <<g>>) = Range(q["main"]) \union Range(<<g>>)
    BY <2>1, <2>2, Zenon
  <2> QED
    BY <1>5, <2>3
<1>7. \/ Functor(c)["connectDestroyed"] \in Range(p[own])
      \/ Functor(c)["removeConnectionInLoop"] \in Range(p["main"])
  BY <1>2, <1>6 DEF Removal
<1>8. ASSUME NEW fn \in Callbacks
      PROVE  Before(p[own], Functor(c)["connectDestroyed"], Functor(c)[fn])
  <2>1. Before(q[own], Functor(c)["connectDestroyed"], Functor(c)[fn])
    BY DEF Managed
  <2>2. CASE own = "main"
    <3>1. Functor(c)[fn] \notin Range(<<g>>)
      BY <1>3, <1>4, <1>5 DEF Callbacks
    <3>2. Before(q["main"] \o <<g>>, Functor(c)["connectDestroyed"],
                 Functor(c)[fn])
      BY <1>5, <2>1, <2>2, <3>1, BeforeConcat
    <3> QED
      BY <1>5, <2>2, <3>2
  <2>3. CASE own # "main"
    BY <1>5, <2>1, <2>3
  <2> QED
    BY <2>2, <2>3
<1>9. ASSUME NEW m \in Loops
      PROVE  Once(p[m], Functor(c)["connectEstablished"])
  <2>1. Once(q[m], Functor(c)["connectEstablished"])
    BY DEF Managed
  <2>2. CASE m = "main"
    <3>1. Functor(c)["connectEstablished"] \notin Range(<<g>>)
      BY <1>3, <1>4, <1>5, SMTT(30)
    <3>2. Once(q["main"] \o <<g>>, Functor(c)["connectEstablished"])
      BY <1>5, <2>1, <2>2, <3>1, OnceConcat
    <3> QED
      BY <1>5, <2>2, <3>2
  <2>3. CASE m # "main"
    BY <1>5, <2>1, <2>3
  <2> QED
    BY <2>2, <2>3
<1>10. ASSUME NEW m \in Loops, NEW f \in Range(p[m]), f.c = c
       PROVE  Expected(f, m, e, own, who)
  <2>1. CASE f \in Range(q[m])
    <3>1. Expected(f, m, r, own, who)
      BY <1>10, <2>1 DEF Managed
    <3> QED
      BY <3>1 DEF Expected, Opened
  <2>2. CASE m = "main" /\ f = g
    BY <1>2, <1>4, <2>2 DEF Expected, Opened, Callbacks
  <2> QED
    BY <1>5, <1>6, <1>10, <2>1, <2>2
<1> QED
  BY <1>7, <1>8, <1>9, <1>10 DEF Managed


-----------------------------------------------------------------------------
(* One connection and its handlers                                         *)

\* What a handler may queue: a closed connection's callbacks come no more.
MayQueue(r) ==
    {"forceCloseInLoop"} \union IF r.closes = 0 THEN Callbacks ELSE {}

\* An open connection, also in the middle of a handler.
Steady(r) ==
    /\ r \in Records /\ Opened(r) /\ ChannelOK(r)
    /\ r.queued \in Seq(MayQueue(r))

\* A handler has made e of r and has not closed the connection.
Going(e, r) ==
    /\ Steady(e) /\ e.closes = r.closes
    /\ e.index = "new" <=> r.index = "new"
    /\ r.state = "DisConnected" => e.state = "DisConnected"

\* A handler has made e of r and has closed the connection, perhaps again.
Ended(e, r) ==
    /\ Steady(e) /\ e.closes > r.closes /\ e.queued = <<>>
    /\ e.state = "DisConnected" /\ e.index # "new"

\* Two steps of one handler.
LEMMA GoingOn ==
  ASSUME NEW e, NEW d, NEW r, Going(d, r), Going(e, d)
  PROVE  Going(e, r)
  BY DEF Going

\* A handler that does nothing.
LEMMA GoingSame ==
  ASSUME NEW r, Steady(r)
  PROVE  Going(r, r)
  BY DEF Going

\* One more functor in the record's own queue.
LEMMA GoingQueue ==
  ASSUME NEW r, NEW e, Steady(r), e \in Records, NEW fn \in MayQueue(r),
         e.queued \in {r.queued, Append(r.queued, fn)},
         Opened(e), e.closes = r.closes, ChannelOK(e),
         e.index = "new" <=> r.index = "new",
         r.state = "DisConnected" => e.state = "DisConnected"
  PROVE  Going(e, r)
<1>1. MayQueue(e) = MayQueue(r)
  BY DEF MayQueue
<1>2. r.queued \in Seq(MayQueue(r))
  BY DEF Steady
<1>3. \A S, x : \A s \in Seq(S) : x \in S => Append(s, x) \in Seq(S)
  BY AppendProperties
<1>4. Append(r.queued, fn) \in Seq(MayQueue(r))
  BY <1>2, <1>3, Zenon
<1>5. e.queued \in Seq(MayQueue(e))
  BY <1>1, <1>2, <1>4
<1> QED
  BY <1>5 DEF Going, Steady

\* handleClose.
LEMMA EndedByClose ==
  ASSUME NEW r, Steady(r), r.queued = <<>>
  PROVE  Ended(HandleClose(r), r)
<1> DEFINE d == HandleClose(r)
<1>1. r \in Records /\ r.closes \in Nat
  BY DEF Steady, Records
<1>2. /\ d \in Records /\ d.state = "DisConnected" /\ ~d.wr
      /\ d.index # "new" /\ d.queued = <<>> /\ d.closes = r.closes + 1
  BY <1>1, CloseFields
<1> HIDE DEF d
<1>3. d.closes > r.closes /\ d.closes > 0
  BY <1>1, <1>2
<1>4. Opened(d) /\ ChannelOK(d)
  BY <1>2 DEF Opened, ChannelOK
<1>5. d.queued \in Seq(MayQueue(d))
  BY <1>2
<1> QED
  BY <1>2, <1>3, <1>4, <1>5 DEF Ended, Steady, d

\* shutdown() and shutdownInLoop.
LEMMA GoingShutdown ==
  ASSUME NEW r, Steady(r)
  PROVE  Going(Shutdown(r), r) /\ Going(ShutdownInLoop(r), r)
<1>1. r \in Records /\ "forceCloseInLoop" \in MayQueue(r)
  BY DEF Steady, MayQueue
<1>2. /\ Shutdown(r) \in Records /\ ShutdownInLoop(r) \in Records
      /\ Shutdown(r).queued = r.queued /\ ShutdownInLoop(r).queued = r.queued
      /\ Shutdown(r).closes = r.closes /\ ShutdownInLoop(r).closes = r.closes
      /\ Shutdown(r).wr = r.wr /\ ShutdownInLoop(r).wr = r.wr
      /\ Shutdown(r).index = r.index /\ ShutdownInLoop(r).index = r.index
      /\ ShutdownInLoop(r).state = r.state
      /\ Shutdown(r).state = IF r.state = "Connected" THEN "DisConnecting"
                             ELSE r.state
  BY <1>1, ShutdownFields, ShutdownInLoopFields
<1>3. ASSUME NEW e, e \in Records, e.queued = r.queued, e.closes = r.closes,
             e.wr = r.wr, e.index = r.index,
             e.state = r.state \/ (r.state = "Connected"
                                   /\ e.state = "DisConnecting")
      PROVE  Going(e, r)
  <2>1. Opened(r) /\ ChannelOK(r)
    BY DEF Steady
  <2>2. Opened(e)
    BY <1>3, <2>1 DEF Opened
  <2>3. ChannelOK(e)
    BY <1>3, <2>1, <2>2 DEF ChannelOK
  <2> QED
    BY <1>1, <1>3, <2>2, <2>3, GoingQueue
<1> QED
  BY <1>2, <1>3

\* forceClose().
LEMMA GoingForceClose ==
  ASSUME NEW r, Steady(r)
  PROVE  Going(ForceClose(r), r)
<1> DEFINE b == [r EXCEPT !.state = "DisConnecting"]
<1>1. /\ r \in Records /\ "forceCloseInLoop" \in MayQueue(r)
      /\ "forceCloseInLoop" \in FunctorNames /\ Opened(r) /\ ChannelOK(r)
  BY DEF Steady, MayQueue, FunctorNames
<1>2. CASE ForceClose(r) = r
  BY <1>2, GoingSame
<1>3. CASE /\ ForceClose(r) = Queue(b, "forceCloseInLoop")
           /\ r.state \in {"Connected", "DisConnecting"}
  <2>1. /\ b \in Records /\ b.state = "DisConnecting" /\ b.queued = r.queued
        /\ b.closes = r.closes /\ b.wr = r.wr /\ b.index = r.index
    BY <1>1 DEF Records, States
  <2> HIDE DEF b
  <2> DEFINE e == Queue(b, "forceCloseInLoop")
  <2>2. /\ e \in Records /\ e.state = "DisConnecting" /\ e.closes = r.closes
        /\ e.queued = Append(r.queued, "forceCloseInLoop")
        /\ e.wr = r.wr /\ e.index = r.index
    BY <1>1, <2>1, QueueFields
  <2> HIDE DEF e
  <2>3. Opened(e) /\ ChannelOK(e)
    BY <1>1, <2>2 DEF Opened, ChannelOK
  <2>4. Going(e, r)
    BY <1>1, <1>3, <2>2, <2>3, GoingQueue
  <2> QED
    BY <1>3, <2>4 DEF e
<1> QED
  BY <1>2, <1>3 DEF ForceClose

\* forceCloseInLoop.
LEMMA ForcedClose ==
  ASSUME NEW r, Steady(r), r.queued = <<>>
  PROVE  Going(ForceCloseInLoop(r), r) \/ Ended(ForceCloseInLoop(r), r)
  BY GoingSame, EndedByClose DEF ForceCloseInLoop

\* The write-complete and high-water callbacks, as long as the poller knows
\* the channel.
LEMMA GoingCallbacks ==
  ASSUME NEW r, Steady(r), r.index # "new"
  PROVE  Going(StartReadInLoop(r), r) /\ Going(StopReadInLoop(r), r)
<1>1. /\ r \in Records /\ "forceCloseInLoop" \in MayQueue(r)
      /\ Opened(r) /\ ChannelOK(r)
  BY DEF Steady, MayQueue
<1>2. /\ StartReadInLoop(r) \in Records /\ Kept(StartReadInLoop(r), r)
      /\ StartReadInLoop(r).wr = r.wr /\ StartReadInLoop(r).index # "new"
      /\ StopReadInLoop(r) \in Records /\ Kept(StopReadInLoop(r), r)
      /\ StopReadInLoop(r).wr = r.wr /\ StopReadInLoop(r).index # "new"
  BY <1>1, ReadFields
<1>3. ASSUME NEW e, e \in Records, Kept(e, r), e.wr = r.wr, e.index # "new"
      PROVE  Going(e, r)
  <2>1. e.queued = r.queued /\ e.closes = r.closes /\ e.state = r.state
    BY <1>3 DEF Kept
  <2>2. Opened(e) /\ ChannelOK(e)
    BY <1>1, <1>3, <2>1 DEF Opened, ChannelOK
  <2> QED
    BY <1>1, <1>3, <2>1, <2>2, GoingQueue
<1> QED
  BY <1>2, <1>3

\* sendInLoop, on a connection that is not closed or whose state says so.
LEMMA GoingSend ==
  ASSUME NEW r, Steady(r), NEW n \in Nat, NEW intact \in BOOLEAN,
         NEW room \in Nat, r.closes = 0 \/ r.state = "DisConnected"
  PROVE  Going(SendInLoop(r, n, intact, room), r)
<1> DEFINE d == SendInLoop(r, n, intact, room)
<1>1. CASE r.state = "DisConnected"
  <2>1. d = r
    BY <1>1 DEF SendInLoop
  <2> QED
    BY <2>1, GoingSame
<1>2. CASE r.closes = 0
  <2>1. /\ r \in Records /\ Opened(r) /\ ChannelOK(r)
        /\ {"writeComplete", "highWaterMark"} \subseteq MayQueue(r)
    BY <1>2 DEF Steady, MayQueue, Callbacks
  <2>2. Sent(d, r, n, intact)
    BY <2>1, SendFields
  <2> HIDE DEF d
  <2>3. r.index # "new"
    BY <1>2, <2>1 DEF ChannelOK
  <2>4. /\ d \in Records /\ d.state = r.state /\ d.closes = 0
        /\ d.index # "new"
        /\ d.queued \in {r.queued, Append(r.queued, "writeComplete"),
                         Append(r.queued, "highWaterMark")}
    BY <1>2, <2>2, <2>3 DEF Sent
  <2>5. Opened(d) /\ ChannelOK(d)
    BY <2>1, <2>4 DEF Opened, ChannelOK
  <2>6. PICK fn \in MayQueue(r) : d.queued \in {r.queued, Append(r.queued, fn)}
    BY <2>1, <2>4
  <2>7. Going(d, r)
    BY <1>2, <2>3, <2>4, <2>5, <2>6, GoingQueue
  <2> QED
    BY <2>7 DEF d
<1> QED
  BY <1>1, <1>2

\* handleWrite.
LEMMA GoingWrite ==
  ASSUME NEW r, Steady(r), NEW room \in Nat
  PROVE  Going(HandleWrite(r, room), r)
<1> DEFINE d == HandleWrite(r, room)
<1>1. r \in Records /\ Opened(r) /\ ChannelOK(r) /\ r.closes \in Nat
  BY DEF Steady, Records
<1>2. CASE ~r.wr
  <2>1. d = r
    BY <1>2 DEF HandleWrite
  <2> QED
    BY <2>1, GoingSame
<1>3. CASE r.wr
  <2>1. r.closes = 0 /\ r.index # "new"
    BY <1>1, <1>3 DEF ChannelOK
  <2>2. "writeComplete" \in MayQueue(r)
    BY <2>1 DEF MayQueue, Callbacks
  <2>3. /\ d \in Records /\ d.state = r.state /\ d.closes = 0
        /\ d.index # "new"
        /\ d.queued \in {r.queued, Append(r.queued, "writeComplete")}
    BY <1>1, <2>1, WriteFields
  <2> HIDE DEF d
  <2>4. Opened(d) /\ ChannelOK(d)
    BY <1>1, <2>3 DEF Opened, ChannelOK
  <2>5. Going(d, r)
    BY <2>1, <2>2, <2>3, <2>4, GoingQueue
  <2> QED
    BY <2>5 DEF d
<1> QED
  BY <1>2, <1>3

\* The message callback, whatever it does.  A closed connection is never
\* Connected, so that send() does nothing.
LEMMA GoingMessage ==
  ASSUME NEW r, Steady(r), NEW app \in Applications
  PROVE  Going(MessageCallback(r, app), r)
<1> DEFINE b == IF app.n = 0 THEN r ELSE Send(r, app.n, app.room)
<1>1. /\ app.n \in Nat /\ app.room \in Nat
      /\ app.then \in {"stay", "shutdown", "forceClose"}
  BY DEF Applications
<1>2. Going(b, r)
  <2>1. CASE b = r
    BY <2>1, GoingSame
  <2>2. CASE b = SendInLoop(r, app.n, TRUE, app.room) /\ r.state = "Connected"
    <3>1. r.closes = 0
      BY <2>2 DEF Steady, Records, ChannelOK
    <3>2. TRUE \in BOOLEAN
      OBVIOUS
    <3>3. Going(SendInLoop(r, app.n, TRUE, app.room), r)
      BY <1>1, <3>1, <3>2, GoingSend
    <3> QED
      BY <2>2, <3>3
  <2> QED
    BY <2>1, <2>2 DEF Send
<1>3. MessageCallback(r, app) \in {b, Shutdown(b), ForceClose(b)}
  BY <1>1 DEF MessageCallback
<1> HIDE DEF b
<1>4. Steady(b)
  BY <1>2 DEF Going
<1>5. Going(b, b) /\ Going(Shutdown(b), b) /\ Going(ForceClose(b), b)
  BY <1>4, GoingSame, GoingShutdown, GoingForceClose
<1> QED
  BY <1>2, <1>3, <1>5, GoingOn

\* handleEvent, also of a snapshot that is stale.
LEMMA EventGoes ==
  ASSUME NEW r, Steady(r), r.queued = <<>>, NEW revents,
         NEW got \in {"data", "eof", "error"}, NEW app \in Applications,
         NEW room \in Nat
  PROVE  LET d == HandleEvent(r, revents, got, app, room)
         IN  Going(d, r) \/ Ended(d, r)
<1> DEFINE hup == IF "HUP" \in revents /\ "IN" \notin revents
                  THEN HandleClose(r) ELSE r
           read == IF "IN" \in revents THEN HandleRead(hup, got, app) ELSE hup
           d == HandleEvent(r, revents, got, app, room)
<1>1. d = IF "OUT" \in revents THEN HandleWrite(read, room) ELSE read
  BY DEF HandleEvent
<1>2. \/ read = HandleClose(r)
      \/ read = r
      \/ read = MessageCallback(r, app)
  BY DEF HandleRead
<1>3. Going(read, r) \/ Ended(read, r)
  BY <1>2, EndedByClose, GoingSame, GoingMessage
<1> HIDE DEF read
<1>4. CASE Going(read, r)
  <2>1. Going(HandleWrite(read, room), read)
    BY <1>4, GoingWrite DEF Going
  <2> QED
    BY <1>1, <1>4, <2>1, GoingOn
<1>5. CASE Ended(read, r)
  <2>1. read.closes > 0 /\ ChannelOK(read)
    BY <1>5 DEF Ended, Steady, Records, ChannelOK, Opened
  <2>2. HandleWrite(read, room) = read
    BY <2>1 DEF ChannelOK, HandleWrite
  <2> QED
    BY <1>1, <1>5, <2>2
<1> QED
  BY <1>3, <1>4, <1>5

-----------------------------------------------------------------------------
(* Commit                                                                  *)

\* What a handler queues for itself.
LEMMA OwnFunctors ==
  ASSUME NEW c \in Conns, NEW r, Steady(r)
  PROVE  LET own == [i \in 1..Len(r.queued) |-> Functor(c)[r.queued[i]]]
         IN  /\ own \in Seq(Functors)
             /\ \A f \in Range(own) : f.c = c /\ f.fn \in MayQueue(r)
<1> DEFINE q == r.queued
           own == [i \in 1..Len(q) |-> Functor(c)[q[i]]]
<1>1. q \in Seq(MayQueue(r))
  BY DEF Steady
<1> HIDE DEF q
<1>2. Len(q) \in Nat /\ \A i \in 1..Len(q) : q[i] \in MayQueue(r)
  BY <1>1, ElementOfSeq, LenProperties
<1>3. \A fn \in MayQueue(r) : /\ Functor(c)[fn] \in Functors
                              /\ Functor(c)[fn].c = c
                              /\ Functor(c)[fn].fn = fn
  BY FunctorFields DEF MayQueue, Callbacks, FunctorNames
<1>4. /\ own \in Seq(Functors) /\ DOMAIN own = 1..Len(q)
      /\ \A i \in 1..Len(q) : own[i] = Functor(c)[q[i]]
  BY <1>2, <1>3, SeqDef
<1> HIDE DEF own
<1>5. \A f \in Range(own) : f.c = c /\ f.fn \in MayQueue(r)
  BY <1>2, <1>3, <1>4 DEF Range
<1> QED
  BY <1>4, <1>5 DEF own, q

\* The queues of all loops.
LEMMA QueuesTyped ==
  ASSUME NEW k \in [Loops -> Seq(Functors)], NEW b \in [Loops -> Seq(Functors)]
  PROVE  Joined(k, b) \in [Loops -> Seq(Functors)]
<1>1. \A s, t \in Seq(Functors) : s \o t \in Seq(Functors)
  BY ConcatProperties
<1> QED
  BY <1>1 DEF Joined

\* Functors are queued behind those that wait.
LEMMA QueuesGain ==
  ASSUME NEW k \in [Loops -> Seq(Functors)], NEW b \in [Loops -> Seq(Functors)],
         NEW l \in Loops, NEW t \in Seq(Functors)
  PROVE  Joined(k, Put(b, l, t)) = Put(Joined(k, b), l, t)
<1>1. \A s, u \in Seq(Functors) : s \o (u \o t) = (s \o u) \o t
  <2>1. ASSUME NEW s \in Seq(Functors), NEW u \in Seq(Functors)
        PROVE  s \o (u \o t) = (s \o u) \o t
    BY SMTT(30)
  <2> QED
    BY <2>1
<1>2. k[l] \o (b[l] \o t) = (k[l] \o b[l]) \o t
  <2>1. k[l] \in Seq(Functors) /\ b[l] \in Seq(Functors)
    OBVIOUS
  <2> QED
    BY <1>1, <2>1, Zenon
<1>3. \A m \in Loops :
         k[m] \o Put(b, l, t)[m] =
            IF m = l THEN (k[m] \o b[m]) \o t ELSE k[m] \o b[m]
  BY <1>2 DEF Put
<1> QED
  BY <1>3 DEF Joined, Put

\* A queue of a loop gains functors of c.
LEMMA QueuesOfOthers ==
  ASSUME NEW q \in [Loops -> Seq(Functors)], NEW l \in Loops, NEW c,
         NEW t \in Seq(Functors), \A f \in Range(t) : f.c = c, NEW p,
         p = Put(q, l, t)
  PROVE  \A m \in Loops : OthersKept(p[m], q[m], c)
<1> USE DEF Put
<1> SUFFICES ASSUME NEW m \in Loops PROVE OthersKept(p[m], q[m], c)
  OBVIOUS
<1>1. CASE m = l
  <2>1. q[l] \in Seq(Functors) /\ p[l] = q[l] \o t
    OBVIOUS
  <2>2. OthersKept(q[l] \o t, q[l], c)
    BY <2>1, OthersConcat
  <2> QED
    BY <1>1, <2>1, <2>2
<1>2. CASE m # l
  <2>1. p[m] = q[m]
    BY <1>2
  <2> QED
    BY <2>1, OthersSame
<1> QED
  BY <1>1, <1>2

\* What a step of c that leaves the lists k did to c and to the others.
Committed(c, k) ==
    /\ Managed(c, conn'[c], loopOf[c], connections', callers,
               Joined(k, pending'))
    /\ \A m \in Loops :
          OthersKept(Joined(k, pending')[m], Joined(k, pending)[m], c)
    /\ \A d \in Conns \ {c} :
          conn'[d] = conn[d] /\ (d \in connections' <=> d \in connections)
    /\ Opened(conn'[c])
    /\ conn[c].index # "new" => conn'[c].index # "new"

\* Commit after a handler that did not close.
LEMMA CommitGoing ==
  ASSUME TypeInv, NEW c \in Conns, NEW e, Going(e, conn[c]), Opened(conn[c]),
         NEW k \in [Loops -> Seq(Functors)],
         Managed(c, conn[c], loopOf[c], connections, callers,
                 Joined(k, pending)),
         Commit(c, e)
  PROVE  Committed(c, k)
<1> DEFINE l == loopOf[c]
           r == conn[c]
           own == [i \in 1..Len(e.queued) |-> Functor(c)[e.queued[i]]]
           d == [e EXCEPT !.queued = <<>>]
           q == Joined(k, pending)
           p == Joined(k, pending')
<1>1. /\ l \in Loops /\ r \in Records /\ r.closes \in Nat
      /\ pending \in [Loops -> Seq(Functors)]
  BY DEF TypeInv, ServTypes, ConnTypes, QueueTypes, Records
<1>2. e \in Records /\ e.closes = r.closes /\ Steady(e)
  BY DEF Going, Steady
<1>3. /\ d \in Records /\ d.state = e.state /\ d.index = e.index
      /\ d.wr = e.wr /\ d.closes = e.closes
  <2>1. <<>> \in Seq(FunctorNames)
    OBVIOUS
  <2> QED
    BY <1>2, <2>1 DEF Records
<1>4. ~(e.closes > r.closes)
  BY <1>1, <1>2
<1>5. /\ conn' = [conn EXCEPT ![c] = d]
      /\ pending' = Put(pending, l, own)
      /\ connections' = connections
  BY <1>4 DEF Commit, Put
<1>6. own \in Seq(Functors) /\ \A f \in Range(own) : f.c = c /\ f.fn \in MayQueue(e)
  BY <1>2, OwnFunctors
<1> HIDE DEF d, own
<1>7. p = Put(q, l, own)
  BY <1>1, <1>5, <1>6, QueuesGain
<1>8. q \in [Loops -> Seq(Functors)]
  BY <1>1, QueuesTyped
<1>9. Managed(c, r, l, connections, callers, q)
  OBVIOUS
<1> HIDE DEF p, q, l, r
<1>10. Queueable(own, r, callers)
  BY <1>2, <1>6 DEF MayQueue, Callbacks, Queueable
<1>11. Managed(c, r, l, connections, callers, p)
  <2>1. Opened(r)
    BY DEF r
  <2> QED
    BY <1>1, <1>6, <1>7, <1>8, <1>9, <1>10, <2>1, ManagedQueue
<1>12. Opened(d) /\ ChannelOK(d)
  <2>1. Opened(e) /\ ChannelOK(e)
    BY <1>2 DEF Steady
  <2> QED
    BY <1>3, <2>1 DEF Opened, ChannelOK
<1>13. /\ d.index = "new" <=> r.index = "new"
       /\ r.state = "DisConnected" => d.state = "DisConnected"
  BY <1>3 DEF Going, r
<1>14. Managed(c, d, l, connections, callers, p)
  BY <1>2, <1>3, <1>11, <1>12, <1>13, ManagedRecord DEF r
<1>15. conn'[c] = d /\ \A x \in Conns \ {c} : conn'[x] = conn[x]
  BY <1>5 DEF TypeInv, ConnTypes
<1>16. \A m \in Loops : OthersKept(p[m], q[m], c)
  BY <1>1, <1>6, <1>7, <1>8, QueuesOfOthers
<1> QED
  BY <1>5, <1>12, <1>13, <1>14, <1>15, <1>16 DEF Committed, p, q, l, r

\* Commit after a handler that closed.
LEMMA CommitEnded ==
  ASSUME TypeInv, NEW c \in Conns, NEW e, Ended(e, conn[c]), Opened(conn[c]),
         NEW k \in [Loops -> Seq(Functors)],
         Managed(c, conn[c], loopOf[c], connections, callers,
                 Joined(k, pending)),
         Commit(c, e)
  PROVE  Committed(c, k)
<1> DEFINE l == loopOf[c]
           r == conn[c]
           own == [i \in 1..Len(e.queued) |-> Functor(c)[e.queued[i]]]
           d == [e EXCEPT !.queued = <<>>]
           g == Removal(c, l)
           q == Joined(k, pending)
           p == Joined(k, pending')
<1>1. /\ l \in Loops /\ r \in Records /\ r.closes \in Nat /\ "main" \in Loops
      /\ pending \in [Loops -> Seq(Functors)]
  BY LoopNames DEF TypeInv, ServTypes, ConnTypes, QueueTypes, Records
<1>2. e \in Records /\ e.closes > r.closes /\ Steady(e) /\ e.queued = <<>>
  BY DEF Ended, Steady
<1>3. /\ d \in Records /\ d.state = e.state /\ d.index = e.index
      /\ d.wr = e.wr /\ d.closes = e.closes
  BY <1>2 DEF Records
<1>4. own = <<>>
  BY <1>2
<1>5. [pending EXCEPT ![l] = @ \o own] = pending
  <2>1. pending[l] \o <<>> = pending[l]
    BY <1>1, ConcatEmptySeq
  <2> QED
    BY <1>1, <1>4, <2>1
<1>6. g \in Functors /\ g.c = c
  BY ManagedNames DEF Removal
<1>7. /\ conn' = [conn EXCEPT ![c] = d]
      /\ pending' = RemoveConnection(c, pending)
      /\ connections' \in {connections, connections \ {c}}
  BY <1>2, <1>5 DEF Commit
<1>8. pending' = [pending EXCEPT !["main"] = Append(@, g)]
  BY <1>7 DEF RemoveConnection, Removal
<1>9. \A s \in Seq(Functors) : Append(s, g) = s \o <<g>>
  BY <1>6, AppendIsConcat
<1>10. pending' = Put(pending, "main", <<g>>)
  BY <1>1, <1>8, <1>9 DEF Put
<1>11. <<g>> \in Seq(Functors) /\ \A f \in Range(<<g>>) : f.c = c
  BY <1>6 DEF Range
<1> HIDE DEF d, own, g
<1>12. p = Put(q, "main", <<g>>)
  BY <1>1, <1>10, <1>11, QueuesGain
<1>13. q \in [Loops -> Seq(Functors)]
  BY <1>1, QueuesTyped
<1>14. Managed(c, r, l, connections, callers, q)
  OBVIOUS
<1> HIDE DEF p, q, l, r
<1>15. /\ Opened(d) /\ ChannelOK(d) /\ d.state = "DisConnected"
       /\ d.index # "new" /\ d.closes \in Nat /\ d.closes > 0
  <2>1. Opened(e) /\ ChannelOK(e) /\ e.closes \in Nat
    BY <1>2 DEF Steady, Records
  <2>2. e.closes > 0 /\ e.state = "DisConnected" /\ e.index # "new"
    BY <1>1, <1>2, <2>1 DEF Ended
  <2> QED
    BY <1>3, <2>1, <2>2 DEF Opened, ChannelOK
<1>16. Managed(c, d, l, connections', callers, p)
  <2>1. Opened(r) /\ g = Removal(c, l)
    BY DEF r, g
  <2> QED
    BY <1>1, <1>12, <1>13, <1>14, <1>15, <2>1, ManagedClose
<1>17. conn'[c] = d /\ \A x \in Conns \ {c} : conn'[x] = conn[x]
  BY <1>7 DEF TypeInv, ConnTypes
<1>18. \A m \in Loops : OthersKept(p[m], q[m], c)
  BY <1>1, <1>11, <1>12, <1>13, QueuesOfOthers
<1>19. \A x \in Conns \ {c} : x \in connections' <=> x \in connections
  BY <1>7
<1> QED
  BY <1>15, <1>16, <1>17, <1>18, <1>19 DEF Committed, p, q, l, r

-----------------------------------------------------------------------------
(* One connection and the others                                           *)

\* An open connection between two handlers.
LEMMA SteadyNow ==
  ASSUME TypeInv, NEW c \in Conns, ChannelOK(conn[c]), Opened(conn[c])
  PROVE  Steady(conn[c]) /\ conn[c].queued = <<>>
<1>1. conn[c] \in Records /\ conn[c].queued = <<>>
  BY DEF TypeInv, ConnTypes
<1> QED
  BY <1>1 DEF Steady

\* The queues of the state.
LEMMA QueuesNow ==
  ASSUME TypeInv
  PROVE  /\ Queues \in [Loops -> Seq(Functors)]
         /\ \A l \in Loops : Queues[l] = Waiting(l)
         /\ list \in [Loops -> Seq(Functors)]
         /\ pending \in [Loops -> Seq(Functors)]
<1>1. list \in [Loops -> Seq(Functors)] /\ pending \in [Loops -> Seq(Functors)]
  BY DEF TypeInv, ListTypes, QueueTypes
<1>2. Queues \in [Loops -> Seq(Functors)]
  BY <1>1, QueuesTyped DEF Queues
<1> QED
  BY <1>1, <1>2 DEF Queues, Joined, Waiting

\* The same after a step.
LEMMA QueuesNext ==
  ASSUME TypeInv'
  PROVE  /\ Queues' \in [Loops -> Seq(Functors)]
         /\ list' \in [Loops -> Seq(Functors)]
         /\ pending' \in [Loops -> Seq(Functors)]
         /\ Queues' = Joined(list', pending')
<1>1. list' \in [Loops -> Seq(Functors)] /\ pending' \in [Loops -> Seq(Functors)]
  BY DEF TypeInv, ListTypes, QueueTypes
<1>2. Joined(list', pending') \in [Loops -> Seq(Functors)]
  BY <1>1, QueuesTyped
<1>3. Queues' = Joined(list', pending')
  BY DEF Queues, Joined
<1> QED
  BY <1>1, <1>2, <1>3

\* A step of c has to be looked at for c only.
LEMMA CallOfOne ==
  ASSUME TypeInv, TypeInv', \A d \in Conns : ManagedNow(d), NEW c \in Conns,
         \A d \in Conns \ {c} :
            /\ conn'[d] = conn[d] /\ loopOf'[d] = loopOf[d]
            /\ d \in connections => d \in connections',
         callers' = callers,
         \A l \in Loops : OthersKept(Queues'[l], Queues[l], c),
         ManagedNow(c)'
  PROVE  (\A d \in Conns : ManagedNow(d))'
<1> SUFFICES ASSUME NEW d \in Conns, d # c PROVE ManagedNow(d)'
  OBVIOUS
<1>1. Managed(d, conn[d], loopOf[d], connections, callers, Queues)
  BY DEF ManagedNow
<1>2. loopOf[d] \in Loops /\ Queues' \in [Loops -> Seq(Functors)]
  BY QueuesNext DEF TypeInv, ServTypes
<1>3. Managed(d, conn[d], loopOf[d], connections', callers, Queues')
  BY <1>1, <1>2, ManagedOther
<1> QED
  BY <1>3 DEF ManagedNow

\* Steps that change neither connections nor queues.
LEMMA CallsSame ==
  ASSUME \A d \in Conns : ManagedNow(d), Queues' = Queues,
         UNCHANGED <<conn, loopOf, connections, callers>>
  PROVE  (\A d \in Conns : ManagedNow(d))'
  BY DEF ManagedNow

\* Everything stays but what the other variables hold.
LEMMA CallFrame ==
  ASSUME CallInv, UNCHANGED <<conn, loopOf, connections, callers, foreign,
                              phase, active, list, pending>>
  PROVE  CallInv'
<1>1. Queues' = Queues
  BY DEF Queues, Joined
<1>2. (\A d \in Conns : ManagedNow(d))'
  BY <1>1, CallsSame DEF CallInv
<1>3. SnapshotsKnown' /\ ListsRun' /\ CallsBegun'
  BY DEF CallInv, SnapshotsKnown, ListsRun, CallsBegun
<1> QED
  BY <1>2, <1>3 DEF CallInv

\* The initial state.
LEMMA InitCalls ==
  ASSUME CallersApart, Init
  PROVE  CallInv
<1>1. /\ NoConnection.state = "None" /\ NoConnection.index = "new"
      /\ NoConnection.closes = 0
  BY DEF NoConnection, NewConnection
<1>2. \A l \in Loops : Queues[l] = <<>> /\ Range(Queues[l]) = {}
  BY DEF Init, Queues, Joined, Range
<1>3. ASSUME NEW c \in Conns PROVE ManagedNow(c)
  <2>1. conn[c] = NoConnection /\ loopOf[c] \in Loops
    BY LoopNames DEF Init
  <2>2. ChannelOK(conn[c])
    BY <1>1, <2>1 DEF ChannelOK, Opened
  <2>3. \A l \in Loops : Once(Queues[l], Functor(c)["connectEstablished"])
    BY <1>2 DEF Once
  <2>4. \A fn \in Callbacks :
           Before(Queues[loopOf[c]], Functor(c)["connectDestroyed"],
                  Functor(c)[fn])
    BY <1>2, <2>1 DEF Before
  <2> QED
    BY <1>1, <1>2, <2>1, <2>2, <2>3, <2>4 DEF ManagedNow, Managed
<1>4. SnapshotsKnown /\ ListsRun
  BY DEF Init, SnapshotsKnown, ListsRun
<1>5. CallsBegun
  BY DEF Init, CallsBegun, CallersApart
<1> QED
  BY <1>3, <1>4, <1>5 DEF CallInv

\* The turns of a loop.
LEMMA CallTurn ==
  ASSUME TypeInv, CallInv, NEW l \in Loops,
         Poll(l) \/ EventsDone(l) \/ FunctorsDone(l)
  PROVE  CallInv'
<1>0. list \in [Loops -> Seq(Functors)] /\ pending \in [Loops -> Seq(Functors)]
  BY DEF TypeInv, ListTypes, QueueTypes
<1>1. CASE Poll(l)
  <2>1. PICK writable : active' = [active EXCEPT ![l] =
              [c \in Conns |-> IF loopOf[c] = l /\ conn[c].state # "None"
                               THEN Ready(c, c \in writable) ELSE {}]]
    BY <1>1 DEF Poll
  <2>2. /\ UNCHANGED <<conn, loopOf, connections, callers, foreign, list,
                       pending>>
        /\ phase[l] = "poll" /\ phase' = [phase EXCEPT ![l] = "events"]
    BY <1>1 DEF Poll, connVars, servVars
  <2>3. \A m \in Loops : m # l => phase'[m] = phase[m] /\ active'[m] = active[m]
    BY <2>1, <2>2 DEF TypeInv, LoopTypes
  <2>4. phase'[l] = "events"
    BY <2>2 DEF TypeInv, LoopTypes
  <2>5. \A c \in Conns : active'[l][c] # {} =>
           loopOf[c] = l /\ conn[c].index = "added"
    BY <2>1 DEF TypeInv, LoopTypes, Ready
  <2>6. SnapshotsKnown'
    BY <2>2, <2>3, <2>4, <2>5 DEF CallInv, SnapshotsKnown
  <2>7. ListsRun'
    BY <2>2, <2>3 DEF CallInv, ListsRun
  <2>8. Queues' = Queues
    BY <2>2 DEF Queues, Joined
  <2>9. CallsBegun'
    BY <2>2 DEF CallInv, CallsBegun
  <2> QED
    BY <2>2, <2>6, <2>7, <2>8, <2>9, CallsSame DEF CallInv
<1>2. CASE EventsDone(l)
  <2>1. /\ UNCHANGED <<conn, loopOf, connections, callers, foreign, active>>
        /\ phase[l] = "events" /\ phase' = [phase EXCEPT ![l] = "functors"]
        /\ list' = [list EXCEPT ![l] = pending[l]]
        /\ pending' = [pending EXCEPT ![l] = <<>>]
        /\ \A c \in Conns : active[l][c] = {}
    BY <1>2 DEF EventsDone, connVars, servVars
  <2>2. \A m \in Loops : m # l =>
           phase'[m] = phase[m] /\ list'[m] = list[m] /\ pending'[m] = pending[m]
    BY <1>0, <2>1 DEF TypeInv, LoopTypes
  <2>3. phase'[l] = "functors" /\ list'[l] = pending[l] /\ pending'[l] = <<>>
    BY <1>0, <2>1 DEF TypeInv, LoopTypes
  <2>4. list[l] = <<>>
    BY <2>1 DEF CallInv, ListsRun
  <2>5. list'[l] \o pending'[l] = list[l] \o pending[l]
    <3>1. \A s \in Seq(Functors) : s \o <<>> = s /\ <<>> \o s = s
      BY ConcatEmptySeq
    <3>2. pending[l] \in Seq(Functors)
      BY <1>0
    <3> QED
      BY <2>3, <2>4, <3>1, <3>2
  <2>6. Queues' = Queues
    BY <2>2, <2>5 DEF Queues, Joined
  <2>7. SnapshotsKnown'
    BY <2>1, <2>2 DEF CallInv, SnapshotsKnown
  <2>8. ListsRun' /\ CallsBegun'
    BY <2>1, <2>2, <2>3 DEF CallInv, ListsRun, CallsBegun
  <2> QED
    BY <2>1, <2>6, <2>7, <2>8, CallsSame DEF CallInv
<1>3. CASE FunctorsDone(l)
  <2>1. /\ UNCHANGED <<conn, loopOf, connections, callers, foreign, active,
                       list, pending>>
        /\ phase[l] = "functors" /\ phase' = [phase EXCEPT ![l] = "poll"]
        /\ list[l] = <<>>
    BY <1>3 DEF FunctorsDone, connVars, servVars
  <2>2. \A m \in Loops : m # l => phase'[m] = phase[m]
    BY <2>1 DEF TypeInv, LoopTypes
  <2>3. SnapshotsKnown'
    BY <2>1, <2>2 DEF CallInv, SnapshotsKnown
  <2>4. ListsRun' /\ CallsBegun'
    BY <2>1, <2>2 DEF CallInv, ListsRun, CallsBegun
  <2>5. Queues' = Queues
    BY <2>1 DEF Queues, Joined
  <2> QED
    BY <2>1, <2>3, <2>4, <2>5, CallsSame DEF CallInv
<1> QED
  BY <1>1, <1>2, <1>3

\* Two changes of a queue, both by c.
LEMMA OthersTwice ==
  ASSUME NEW s, NEW t, NEW u, NEW c, OthersKept(t, s, c), OthersKept(u, t, c)
  PROVE  OthersKept(u, s, c)
  BY DEF OthersKept

-----------------------------------------------------------------------------
(* The steps                                                               *)

\* A handler of the open connection c is run, perhaps as a functor that has
\* been taken from its list.
LEMMA CallCommit ==
  ASSUME TypeInv, CallInv, TypeInv', NEW c \in Conns, NEW e,
         Opened(conn[c]), Going(e, conn[c]) \/ Ended(e, conn[c]),
         Commit(c, e), UNCHANGED <<loopOf, callers, foreign, phase>>,
         \A l \in Loops, d \in Conns : active'[l][d] # {} => active[l][d] # {},
         Managed(c, conn[c], loopOf[c], connections, callers,
                 Joined(list', pending)),
         \A m \in Loops : OthersKept(Joined(list', pending)[m], Queues[m], c),
         ListsRun'
  PROVE  CallInv'
<1>1. list' \in [Loops -> Seq(Functors)] /\ Queues' = Joined(list', pending')
  BY QueuesNext
<1>2. Committed(c, list')
  BY <1>1, CommitGoing, CommitEnded
<1>3. ManagedNow(c)'
  <2>1. Managed(c, conn'[c], loopOf[c], connections', callers,
                Joined(list', pending'))
    BY <1>2 DEF Committed
  <2> QED
    BY <1>1, <2>1 DEF ManagedNow
<1>4. \A m \in Loops : OthersKept(Queues'[m], Queues[m], c)
  <2> SUFFICES ASSUME NEW m \in Loops PROVE OthersKept(Queues'[m], Queues[m], c)
    OBVIOUS
  <2>1. OthersKept(Joined(list', pending')[m], Joined(list', pending)[m], c)
    BY <1>2 DEF Committed
  <2>2. OthersKept(Joined(list', pending)[m], Queues[m], c)
    OBVIOUS
  <2> QED
    BY <1>1, <2>1, <2>2, OthersTwice
<1>5. \A d \in Conns \ {c} :
         /\ conn'[d] = conn[d] /\ loopOf'[d] = loopOf[d]
         /\ d \in connections => d \in connections'
  BY <1>2 DEF Committed
<1>6. (\A d \in Conns : ManagedNow(d))'
  BY <1>3, <1>4, <1>5, CallOfOne DEF CallInv
<1>7. \A d \in Conns : conn[d].index # "new" => conn'[d].index # "new"
  BY <1>2, <1>5 DEF Committed
<1>8. SnapshotsKnown'
  BY <1>7 DEF CallInv, SnapshotsKnown
<1>9. CallsBegun'
  <2>1. \A d \in Conns : Opened(conn[d]) => Opened(conn'[d])
    BY <1>2, <1>5 DEF Committed
  <2>2. foreign # NoCall => foreign.c \in Conns
    BY DEF TypeInv, CallTypes, ForeignCalls
  <2> QED
    BY <2>1, <2>2 DEF CallInv, CallsBegun
<1> QED
  BY <1>6, <1>8, <1>9 DEF CallInv

\* The same for a handler that runs among the events of a turn.
LEMMA CallEvent ==
  ASSUME TypeInv, CallInv, TypeInv', NEW c \in Conns, NEW e,
         Opened(conn[c]), Going(e, conn[c]) \/ Ended(e, conn[c]),
         Commit(c, e), UNCHANGED <<loopOf, callers, foreign, phase, list>>,
         \A l \in Loops, d \in Conns : active'[l][d] # {} => active[l][d] # {}
  PROVE  CallInv'
<1>1. Joined(list', pending) = Queues
  BY DEF Queues, Joined
<1>2. Managed(c, conn[c], loopOf[c], connections, callers, Queues)
  BY DEF CallInv, ManagedNow
<1>3. \A m \in Loops : OthersKept(Joined(list', pending)[m], Queues[m], c)
  BY <1>1, OthersSame
<1>4. ListsRun'
  BY DEF CallInv, ListsRun
<1> QED
  BY <1>1, <1>2, <1>3, <1>4, CallCommit

\* The open connections, and those the poller knows.
LEMMA OpenNow ==
  ASSUME TypeInv, CallInv, NEW c \in Conns
  PROVE  /\ ChannelOK(conn[c])
         /\ conn[c].index # "new" => Opened(conn[c])
         /\ Opened(conn[c]) => Steady(conn[c]) /\ conn[c].queued = <<>>
<1>1. ChannelOK(conn[c])
  BY DEF CallInv, ManagedNow, Managed
<1>2. conn[c].index # "new" => Opened(conn[c])
  BY <1>1 DEF ChannelOK
<1> QED
  BY <1>1, <1>2, SteadyNow

\* A channel's events.
LEMMA CallChannel ==
  ASSUME TypeInv, CallInv, TypeInv', NEW c \in Conns, HandleChannel(c)
  PROVE  CallInv'
<1>1. PICK n \in 0..MaxMessage, then \in AppMoves, room1 \in Room(c),
           room2 \in Room(c) :
         CommitIfAlive(c, HandleEvent(conn[c], active[loopOf[c]][c], Got(c),
               [n |-> n, room |-> room1, then |-> then], room2))
  BY DEF HandleChannel
<1> DEFINE app == [n |-> n, room |-> room1, then |-> then]
           e == HandleEvent(conn[c], active[loopOf[c]][c], Got(c), app, room2)
<1>2. /\ active[loopOf[c]][c] # {} /\ loopOf[c] \in Loops
      /\ active' = [active EXCEPT ![loopOf[c]][c] = {}]
      /\ UNCHANGED <<loopOf, callers, foreign, phase, list>>
  BY DEF HandleChannel, servVars, TypeInv, ServTypes
<1>3. \A l \in Loops, d \in Conns : active'[l][d] # {} => active[l][d] # {}
  BY <1>2 DEF TypeInv, LoopTypes
<1>4. Opened(conn[c]) /\ Steady(conn[c]) /\ conn[c].queued = <<>>
  <2>1. conn[c].index # "new"
    BY <1>2 DEF CallInv, SnapshotsKnown
  <2> QED
    BY <2>1, OpenNow
<1>5. CASE Destroyed(c)
  <2>1. UNCHANGED <<conn, pending, connections>>
    BY <1>1, <1>5 DEF CommitIfAlive
  <2>2. Queues' = Queues
    BY <1>2, <2>1 DEF Queues, Joined
  <2>3. (\A d \in Conns : ManagedNow(d))'
    BY <1>2, <2>1, <2>2, CallsSame DEF CallInv
  <2>4. SnapshotsKnown' /\ ListsRun' /\ CallsBegun'
    BY <1>2, <1>3, <2>1 DEF CallInv, SnapshotsKnown, ListsRun, CallsBegun
  <2> QED
    BY <2>3, <2>4 DEF CallInv
<1>6. CASE ~Destroyed(c)
  <2>1. Commit(c, e)
    BY <1>1, <1>6 DEF CommitIfAlive
  <2>2. app \in Applications /\ room2 \in Nat
    BY KernelAnswers, TcpServerAssumption DEF Applications
  <2>3. Got(c) \in {"data", "eof", "error"}
    BY KernelAnswers
  <2> HIDE DEF app
  <2>4. Going(e, conn[c]) \/ Ended(e, conn[c])
    BY <1>4, <2>2, <2>3, EventGoes
  <2> HIDE DEF e
  <2> QED
    BY <1>2, <1>3, <1>4, <2>1, <2>4, CallEvent
<1> QED
  BY <1>5, <1>6

\* The timing wheel's shutdown().
LEMMA CallIdle ==
  ASSUME TypeInv, CallInv, TypeInv', NEW c \in Conns, IdleShutdown(c)
  PROVE  CallInv'
<1>1. /\ Commit(c, Shutdown(conn[c])) /\ conn[c].state = "Connected"
      /\ UNCHANGED <<loopOf, callers, foreign, phase, list, active>>
  BY DEF IdleShutdown, servVars
<1>2. Opened(conn[c])
  BY <1>1 DEF Opened
<1>3. Going(Shutdown(conn[c]), conn[c])
  BY <1>2, OpenNow, GoingShutdown
<1> QED
  BY <1>1, <1>2, <1>3, CallEvent

\* The timer of forceCloseWithDelay().
LEMMA CallDelayed ==
  ASSUME TypeInv, CallInv, TypeInv', NEW c \in Conns, DelayFires(c)
  PROVE  CallInv'
<1>1. /\ CommitIfAlive(c, ForceClose(conn[c]))
      /\ UNCHANGED <<loopOf, callers, foreign, phase, list, active>>
  BY DEF DelayFires, servVars
<1>2. CASE Destroyed(c)
  <2>1. UNCHANGED <<conn, pending, connections>>
    BY <1>1, <1>2 DEF CommitIfAlive
  <2> QED
    BY <1>1, <2>1, CallFrame
<1>3. CASE ~Destroyed(c) /\ Opened(conn[c])
  <2>1. Going(ForceClose(conn[c]), conn[c])
    BY <1>3, OpenNow, GoingForceClose
  <2>2. Commit(c, ForceClose(conn[c]))
    BY <1>1, <1>3 DEF CommitIfAlive
  <2> QED
    BY <1>1, <1>3, <2>1, <2>2, CallEvent
<1>4. CASE ~Destroyed(c) /\ ~Opened(conn[c])
  <2>1. ForceClose(conn[c]) = conn[c]
    BY <1>4 DEF ForceClose, Opened
  <2>2. Commit(c, conn[c])
    BY <1>1, <1>4, <2>1 DEF CommitIfAlive
  <2>3. conn[c] \in Records /\ conn[c].queued = <<>>
    BY DEF TypeInv, ConnTypes
  <2>4. /\ conn' = [conn EXCEPT ![c] = conn[c]]
        /\ UNCHANGED <<pending, connections>>
    BY <2>2, <2>3, QuietCommit
  <2>5. conn' = conn
    BY <2>4 DEF TypeInv, ConnTypes
  <2> QED
    BY <1>1, <2>4, <2>5, CallFrame
<1> QED
  BY <1>2, <1>3, <1>4

\* A call of another thread, in its three steps.  What it sets is the state
\* of a connection that may have been closed since it was tested.
LEMMA CallForeign ==
  ASSUME TypeInv, CallInv, TypeInv',
         \/ \E c \in Conns, fn \in {"sendInLoop", "shutdownInLoop",
                                    "forceCloseInLoop"} : ForeignTests(c, fn)
         \/ ForeignSets
         \/ ForeignQueues
  PROVE  CallInv'
<1>1. ASSUME NEW c \in Conns,
             NEW fn \in {"sendInLoop", "shutdownInLoop", "forceCloseInLoop"},
             ForeignTests(c, fn)
      PROVE  CallInv'
  <2>1. /\ UNCHANGED <<conn, loopOf, connections, callers, phase, active, list,
                       pending>>
        /\ IF fn = "sendInLoop" THEN "sender" \in callers
           ELSE "closer" \in callers
        /\ conn[c].state \in {"Connected", "DisConnecting"}
        /\ foreign' = [at |-> IF fn = "sendInLoop" THEN "set" ELSE "tested",
                       c |-> c, fn |-> fn]
    BY <1>1 DEF ForeignTests, connVars, servVars, loopVars
  <2>2. /\ foreign'.c = c /\ foreign'.fn = fn
        /\ foreign'.at = IF fn = "sendInLoop" THEN "set" ELSE "tested"
    BY <2>1
  <2>3. Queues' = Queues
    BY <2>1 DEF Queues, Joined
  <2>4. (\A d \in Conns : ManagedNow(d))'
    BY <2>1, <2>3, CallsSame DEF CallInv
  <2>5. SnapshotsKnown' /\ ListsRun'
    BY <2>1 DEF CallInv, SnapshotsKnown, ListsRun
  <2>6. CallsBegun'
    BY <2>1, <2>2 DEF CallInv, CallsBegun, Opened
  <2> QED
    BY <2>4, <2>5, <2>6 DEF CallInv
<1>2. CASE ForeignSets
  <2>1. PICK c : c = foreign.c
    OBVIOUS
  <2>2. /\ foreign.at = "tested" /\ foreign' = [foreign EXCEPT !.at = "set"]
        /\ conn' = [conn EXCEPT ![c].state = "DisConnecting"]
        /\ UNCHANGED <<loopOf, connections, callers, phase, active, list,
                       pending>>
    BY <1>2, <2>1 DEF ForeignSets, servVars, loopVars
  <2>3. foreign # NoCall /\ foreign \in ForeignCalls
    BY <2>2 DEF TypeInv, CallTypes, NoCall
  <2>4. c \in Conns /\ Opened(conn[c]) /\ "closer" \in callers
    BY <2>1, <2>2, <2>3 DEF CallInv, CallsBegun, ForeignCalls
  <2>5. "sender" \notin callers
    BY <2>4 DEF CallInv, CallsBegun
  <2> DEFINE r == conn[c]
             e == [r EXCEPT !.state = "DisConnecting"]
  <2>6. r \in Records /\ conn'[c] = e /\ \A d \in Conns \ {c} : conn'[d] = conn[d]
    BY <2>2, <2>4 DEF TypeInv, ConnTypes
  <2>7. /\ e.state = "DisConnecting" /\ e.closes = r.closes
        /\ e.index = r.index /\ e.wr = r.wr
    BY <2>6 DEF Records
  <2>8. ChannelOK(r) /\ Opened(r)
    BY <2>4, OpenNow
  <2> HIDE DEF e
  <2>9. Opened(e) /\ ChannelOK(e)
    BY <2>7, <2>8 DEF Opened, ChannelOK
  <2>10. Managed(c, r, loopOf[c], connections, callers, Queues)
    BY <2>4 DEF CallInv, ManagedNow
  <2> HIDE DEF r
  <2>11. Managed(c, e, loopOf[c], connections, callers, Queues)
    BY <2>4, <2>5, <2>7, <2>8, <2>9, <2>10, ManagedRecord
  <2>12. Queues' = Queues
    BY <2>2 DEF Queues, Joined
  <2>13. ManagedNow(c)'
    BY <2>2, <2>6, <2>11, <2>12 DEF ManagedNow
  <2>14. \A m \in Loops : OthersKept(Queues'[m], Queues[m], c)
    BY <2>12, OthersSame
  <2>15. (\A d \in Conns : ManagedNow(d))'
    BY <2>2, <2>4, <2>6, <2>13, <2>14, CallOfOne DEF CallInv
  <2>16. \A d \in Conns : conn'[d].index = conn[d].index
    BY <2>6, <2>7 DEF r
  <2>17. SnapshotsKnown' /\ ListsRun'
    BY <2>2, <2>16 DEF CallInv, SnapshotsKnown, ListsRun
  <2>18. /\ foreign'.at = "set" /\ foreign'.c = c /\ foreign'.fn = foreign.fn
    BY <2>1, <2>2, <2>3 DEF ForeignCalls
  <2>19. CallsBegun'
    BY <2>2, <2>3, <2>6, <2>9, <2>18 DEF CallInv, CallsBegun
  <2> QED
    BY <2>15, <2>17, <2>19 DEF CallInv
<1>3. CASE ForeignQueues
  <2>1. PICK c : c = foreign.c
    OBVIOUS
  <2>2. PICK fn : fn = foreign.fn
    OBVIOUS
  <2> DEFINE g == Functor(c)[fn]
             l == loopOf[c]
  <2>3. /\ foreign.at = "set" /\ foreign' = NoCall
        /\ pending' = [pending EXCEPT ![l] = Append(@, g)]
        /\ UNCHANGED <<conn, loopOf, connections, callers, phase, active, list>>
    BY <1>3, <2>1, <2>2 DEF ForeignQueues, servVars, connVars
  <2>4. foreign # NoCall /\ foreign \in ForeignCalls
    BY <2>3 DEF TypeInv, CallTypes, NoCall
  <2>5. /\ c \in Conns /\ Opened(conn[c])
        /\ fn \in {"sendInLoop", "shutdownInLoop", "forceCloseInLoop"}
        /\ fn = "sendInLoop" => "sender" \in callers
    BY <2>1, <2>2, <2>4 DEF CallInv, CallsBegun, ForeignCalls
  <2>6. g \in Functors /\ g.c = c /\ g.fn = fn
    BY <2>5, FunctorFields DEF FunctorNames
  <2>7. l \in Loops /\ conn[c].closes \in Nat
    BY <2>5 DEF TypeInv, ServTypes, ConnTypes, Records
  <2> HIDE DEF g, l
  <2>8. <<g>> \in Seq(Functors) /\ Range(<<g>>) = {g}
    BY <2>6 DEF Range
  <2>9. \A s \in Seq(Functors) : Append(s, g) = s \o <<g>>
    BY <2>6, AppendIsConcat
  <2>10. pending' = Put(pending, l, <<g>>)
    BY <2>3, <2>7, <2>9, QueuesNow DEF Put
  <2>11. Queues' = Put(Queues, l, <<g>>)
    <3>1. Joined(list, Put(pending, l, <<g>>)) =
             Put(Joined(list, pending), l, <<g>>)
      BY <2>7, <2>8, QueuesNow, QueuesGain
    <3> QED
      BY <2>3, <2>10, <3>1, QueuesNext DEF Queues
  <2>12. Queueable(<<g>>, conn[c], callers)
    BY <2>5, <2>6, <2>8 DEF Queueable, Callbacks
  <2>13. Managed(c, conn[c], l, connections, callers, Queues)
    BY <2>5 DEF CallInv, ManagedNow, l
  <2>14. Managed(c, conn[c], l, connections, callers, Queues')
    BY <2>5, <2>7, <2>8, <2>11, <2>12, <2>13, QueuesNow, ManagedQueue
  <2>15. ManagedNow(c)'
    BY <2>3, <2>14 DEF ManagedNow, l
  <2>16. \A m \in Loops : OthersKept(Queues'[m], Queues[m], c)
    BY <2>6, <2>7, <2>8, <2>11, QueuesNow, QueuesOfOthers
  <2>17. (\A d \in Conns : ManagedNow(d))'
    BY <2>3, <2>5, <2>15, <2>16, CallOfOne DEF CallInv
  <2>18. SnapshotsKnown' /\ ListsRun' /\ CallsBegun'
    BY <2>3 DEF CallInv, SnapshotsKnown, ListsRun, CallsBegun
  <2> QED
    BY <2>17, <2>18 DEF CallInv
<1> QED
  BY <1>1, <1>2, <1>3

\* A connection that has no functors.
LEMMA ManagedAlone ==
  ASSUME NEW c \in Conns, NEW e, NEW own \in Loops, NEW cs, c \in cs, NEW who,
         NEW q \in [Loops -> Seq(Functors)],
         \A l \in Loops : \A f \in Range(q[l]) : f.c # c,
         ChannelOK(e), e.closes = 0
  PROVE  Managed(c, e, own, cs, who, q)
<1>1. \A fn \in {"connectEstablished", "connectDestroyed"} :
         Functor(c)[fn].c = c
  BY ManagedNames
<1>2. \A l \in Loops : /\ Functor(c)["connectEstablished"] \notin Range(q[l])
                       /\ Functor(c)["connectDestroyed"] \notin Range(q[l])
  BY <1>1
<1>3. ASSUME NEW l \in Loops
      PROVE  Once(q[l], Functor(c)["connectEstablished"])
  <2>1. DOMAIN q[l] = 1..Len(q[l])
    BY LenProperties
  <2> QED
    BY <1>2, <2>1 DEF Once, Range
<1>4. ASSUME NEW fn \in Callbacks
      PROVE  Before(q[own], Functor(c)["connectDestroyed"], Functor(c)[fn])
  BY <1>2, BeforeVoid
<1> QED
  BY <1>3, <1>4 DEF Managed

\* A connection that waits for connectEstablished only.
LEMMA ManagedNew ==
  ASSUME NEW c \in Conns, NEW e, NEW own \in Loops, NEW cs, c \in cs, NEW who,
         NEW q \in [Loops -> Seq(Functors)],
         \A l \in Loops : \A f \in Range(q[l]) : f.c # c,
         e.state = "Connecting", e.index = "new", e.closes = 0,
         NEW g, g = Functor(c)["connectEstablished"],
         NEW p, p = Put(q, own, <<g>>)
  PROVE  Managed(c, e, own, cs, who, p)
<1>1. g \in Functors /\ g.c = c /\ g.fn = "connectEstablished"
  BY ManagedNames
<1>2. /\ Functor(c)["connectDestroyed"].fn = "connectDestroyed"
      /\ Functor(c)["connectDestroyed"].c = c
  BY ManagedNames
<1>3. /\ p[own] = q[own] \o <<g>> /\ \A m \in Loops : m # own => p[m] = q[m]
      /\ q[own] \in Seq(Functors) /\ <<g>> \in Seq(Functors)
      /\ Range(<<g>>) = {g}
  BY <1>1 DEF Put, Range
<1>4. Range(p[own]) = Range(q[own]) \union {g} /\ p[own] \in Seq(Functors)
  <2>1. \A s, t \in Seq(Functors) : /\ Range(s \o t) = Range(s) \union Range(t)
                                    /\ s \o t \in Seq(Functors)
    BY RangeConcatenation, ConcatProperties
  <2>2. /\ Range(q[own] \o <<g>>) = Range(q[own]) \union Range(<<g>>)
        /\ q[own] \o <<g>> \in Seq(Functors)
    BY <1>3, <2>1, Zenon
  <2> QED
    BY <1>3, <2>2
<1>5. \A l \in Loops : \A f \in Range(p[l]) : f.c = c => l = own /\ f = g
  BY <1>3, <1>4
<1>6. ASSUME NEW l \in Loops
      PROVE  Once(p[l], g)
  <2>1. CASE l = own
    <3>1. g \notin Range(q[own])
      BY <1>1
    <3>2. Once(Append(q[own], g), g)
      BY <1>1, <1>3, <3>1, OnceNew
    <3>3. Append(q[own], g) = q[own] \o <<g>>
      BY <1>1, <1>3, AppendIsConcat
    <3> QED
      BY <1>3, <2>1, <3>2, <3>3
  <2>2. CASE l # own
    <3>1. p[l] = q[l] /\ q[l] \in Seq(Functors) /\ g \notin Range(q[l])
      BY <1>1, <1>3, <2>2
    <3>2. DOMAIN q[l] = 1..Len(q[l])
      BY <3>1, LenProperties
    <3> QED
      BY <3>1, <3>2 DEF Once, Range
  <2> QED
    BY <2>1, <2>2
<1>7. ASSUME NEW fn \in Callbacks
      PROVE  Before(p[own], Functor(c)["connectDestroyed"], Functor(c)[fn])
  <2>1. Functor(c)["connectDestroyed"] \notin Range(p[own])
    BY <1>1, <1>2, <1>5
  <2> QED
    BY <1>4, <2>1, BeforeVoid
<1>8. ASSUME NEW l \in Loops, NEW f \in Range(p[l]), f.c = c
      PROVE  Expected(f, l, e, own, who)
  BY <1>1, <1>5, <1>8 DEF Expected, Callbacks
<1>9. ChannelOK(e)
  BY DEF ChannelOK, Opened
<1> QED
  BY <1>6, <1>7, <1>8, <1>9 DEF Managed

\* Accepting a connection.
LEMMA CallAccept ==
  ASSUME TypeInv, CallInv, TypeInv', NEW c \in Conns, Accept(c)
  PROVE  CallInv'
<1>1. conn[c].state = "None"
  BY DEF Accept, Accepts, Backlog
<1>2. /\ loopOf' = [loopOf EXCEPT ![c] = NextLoop]
      /\ connections' = connections \union {c}
      /\ UNCHANGED <<callers, phase, active, list, foreign>>
  BY DEF Accept
<1>3. PICK own \in Loops : own = NextLoop
  BY NextLoopOfPool DEF TypeInv
<1>4. PICK q \in [Loops -> Seq(Functors)] : q = Queues
  BY QueuesNow
<1>5. \A l \in Loops : \A f \in Range(q[l]) : f.c # c
  <2> SUFFICES ASSUME NEW l \in Loops, NEW f \in Range(q[l]), f.c = c
               PROVE  FALSE
    OBVIOUS
  <2>1. Expected(f, l, conn[c], loopOf[c], callers)
    BY <1>4 DEF CallInv, ManagedNow, Managed
  <2> QED
    BY <1>1, <2>1 DEF Expected, Opened
<1>6. /\ loopOf'[c] = own /\ \A d \in Conns \ {c} : loopOf'[d] = loopOf[d]
      /\ c \in connections'
  BY <1>2, <1>3 DEF TypeInv, ServTypes
<1>7. /\ NewConnection \in Records /\ NewConnection.state = "Connecting"
      /\ NewConnection.index = "new" /\ NewConnection.closes = 0
      /\ ~NewConnection.wr
  BY NewRecords DEF NewConnection
<1>8. /\ \A d \in Conns \ {c} : conn'[d] = conn[d]
      /\ (\A m \in Loops : OthersKept(Queues'[m], q[m], c))
      /\ ManagedNow(c)'
  <2>1. CASE own = "main"
    <3> DEFINE e == ConnectEstablished(NewConnection)
    <3>1. conn' = [conn EXCEPT ![c] = e] /\ pending' = pending
      BY <1>3, <2>1 DEF Accept
    <3>2. e.state = "Connected" /\ e.index = "added" /\ e.closes = 0
      BY <1>7, EstablishedFields
    <3> HIDE DEF e
    <3>3. ChannelOK(e)
      BY <3>2 DEF ChannelOK, Opened
    <3>4. Queues' = q
      BY <1>2, <1>4, <3>1 DEF Queues, Joined
    <3>5. Managed(c, e, own, connections', callers, q)
      BY <1>5, <1>6, <3>2, <3>3, ManagedAlone
    <3>6. conn'[c] = e /\ \A d \in Conns \ {c} : conn'[d] = conn[d]
      BY <3>1 DEF TypeInv, ConnTypes
    <3> QED
      BY <1>2, <1>6, <3>4, <3>5, <3>6, OthersSame DEF ManagedNow
  <2>2. CASE own # "main"
    <3> DEFINE g == Functor(c)["connectEstablished"]
    <3>1. /\ conn' = [conn EXCEPT ![c] = NewConnection]
          /\ pending' = [pending EXCEPT ![own] = Append(@, g)]
      BY <1>3, <2>2 DEF Accept
    <3>2. g \in Functors /\ g.c = c
      BY ManagedNames
    <3>3. <<g>> \in Seq(Functors) /\ \A f \in Range(<<g>>) : f.c = c
      BY <3>2 DEF Range
    <3>4. \A s \in Seq(Functors) : Append(s, g) = s \o <<g>>
      BY <3>2, AppendIsConcat
    <3>5. g = Functor(c)["connectEstablished"]
      OBVIOUS
    <3> HIDE DEF g
    <3>6. pending' = Put(pending, own, <<g>>)
      BY <3>1, <3>4, QueuesNow DEF Put
    <3>7. Queues' = Put(q, own, <<g>>)
      <4>1. Joined(list, Put(pending, own, <<g>>)) =
               Put(Joined(list, pending), own, <<g>>)
        BY <3>3, QueuesNow, QueuesGain
      <4> QED
        BY <1>2, <1>4, <3>6, <4>1, QueuesNext DEF Queues
    <3>8. Managed(c, NewConnection, own, connections', callers, Queues')
      BY <1>5, <1>6, <1>7, <3>5, <3>7, ManagedNew
    <3>9. /\ conn'[c] = NewConnection
          /\ \A d \in Conns \ {c} : conn'[d] = conn[d]
      BY <3>1 DEF TypeInv, ConnTypes
    <3>10. ManagedNow(c)'
      BY <1>2, <1>6, <3>8, <3>9 DEF ManagedNow
    <3>11. \A m \in Loops : OthersKept(Queues'[m], q[m], c)
      BY <3>3, <3>7, QueuesOfOthers
    <3> QED
      BY <3>9, <3>10, <3>11
  <2> QED
    BY <2>1, <2>2
<1>9. (\A d \in Conns : ManagedNow(d))'
  BY <1>2, <1>4, <1>6, <1>8, CallOfOne DEF CallInv
<1>10. ~Opened(conn[c]) /\ conn[c].index = "new"
  BY <1>1, OpenNow DEF Opened
<1>11. SnapshotsKnown' /\ ListsRun'
  BY <1>2, <1>6, <1>8, <1>10 DEF CallInv, SnapshotsKnown, ListsRun
<1>12. CallsBegun'
  <2>1. foreign # NoCall => foreign.c \in Conns \ {c}
    BY <1>10 DEF CallInv, CallsBegun, TypeInv, CallTypes, ForeignCalls
  <2> QED
    BY <1>2, <1>8, <2>1 DEF CallInv, CallsBegun
<1> QED
  BY <1>9, <1>11, <1>12 DEF CallInv

\* The first functor of the turn is taken from its list.
LEMMA QueuesRun ==
  ASSUME NEW k \in [Loops -> Seq(Functors)], NEW b \in [Loops -> Seq(Functors)],
         NEW l \in Loops, k[l] # <<>>
  PROVE  /\ Joined(Pop(k, l), b) = Pop(Joined(k, b), l)
         /\ Joined(k, b)[l] # <<>> /\ Head(Joined(k, b)[l]) = Head(k[l])
<1>1. \A s, t \in Seq(Functors) : s # <<>> =>
         /\ s \o t # <<>> /\ Head(s \o t) = Head(s)
         /\ Tail(s \o t) = Tail(s) \o t
  BY SMTT(30)
<1>2. k[l] \in Seq(Functors) /\ b[l] \in Seq(Functors)
  OBVIOUS
<1>3. /\ k[l] \o b[l] # <<>> /\ Head(k[l] \o b[l]) = Head(k[l])
      /\ Tail(k[l] \o b[l]) = Tail(k[l]) \o b[l]
  BY <1>1, <1>2, Zenon
<1>4. \A m \in Loops :
         Pop(k, l)[m] \o b[m] =
            IF m = l THEN Tail(k[m] \o b[m]) ELSE k[m] \o b[m]
  BY <1>3 DEF Pop
<1> QED
  BY <1>3, <1>4 DEF Joined, Pop

\* It is a functor of c.
LEMMA QueuesOfOthersRun ==
  ASSUME NEW q \in [Loops -> Seq(Functors)], NEW l \in Loops, NEW c,
         q[l] # <<>>, Head(q[l]).c = c, NEW p, p = Pop(q, l)
  PROVE  \A m \in Loops : OthersKept(p[m], q[m], c)
<1> SUFFICES ASSUME NEW m \in Loops PROVE OthersKept(p[m], q[m], c)
  OBVIOUS
<1>1. CASE m = l
  <2>1. q[l] \in Seq(Functors) /\ p[l] = Tail(q[l])
    BY DEF Pop
  <2>2. OthersKept(Tail(q[l]), q[l], c)
    BY <2>1, OthersTail
  <2> QED
    BY <1>1, <2>1, <2>2
<1>2. CASE m # l
  <2>1. p[m] = q[m]
    BY <1>2 DEF Pop
  <2> QED
    BY <2>1, OthersSame
<1> QED
  BY <1>1, <1>2

\* What holds of the functor f that a loop runs, and of the queues.
Taken(f, l) ==
    /\ f \in Functors /\ f.c \in Conns /\ f \in Range(list[l])
    /\ Expected(f, l, conn[f.c], loopOf[f.c], callers)
    /\ Queues[l] # <<>> /\ Head(Queues[l]) = f
    /\ Joined(list', pending) = Pop(Queues, l)
    /\ Joined(list', pending') = Pop(Joined(list, pending'), l)
    /\ list[l] # <<>> /\ phase[l] = "functors"
    /\ UNCHANGED <<loopOf, callers, foreign, phase, active>>
    /\ ListsRun'

\* Running a functor takes it from its list.
LEMMA RunTakes ==
  ASSUME TypeInv, CallInv, TypeInv', NEW l \in Loops, RunFunctor(l)
  PROVE  Taken(Head(list[l]), l)
<1> DEFINE f == Head(list[l])
<1>1. /\ phase[l] = "functors" /\ list[l] # <<>>
      /\ list' = [list EXCEPT ![l] = Tail(@)]
      /\ UNCHANGED <<loopOf, callers, foreign, phase, active>>
  BY DEF RunFunctor, servVars
<1>2. list' = Pop(list, l)
  BY <1>1 DEF Pop
<1>3. /\ list \in [Loops -> Seq(Functors)] /\ pending \in [Loops -> Seq(Functors)]
      /\ pending' \in [Loops -> Seq(Functors)]
  BY QueuesNow, QueuesNext
<1>4. list[l] \in Seq(Functors) /\ f \in Range(list[l]) /\ f \in Functors
  <2>1. list[l] \in Seq(Functors)
    BY <1>3
  <2> QED
    BY <1>1, <2>1, RangeOfTail
<1>5. /\ Joined(Pop(list, l), pending) = Pop(Joined(list, pending), l)
      /\ Joined(list, pending)[l] # <<>>
      /\ Head(Joined(list, pending)[l]) = Head(list[l])
  BY <1>1, <1>3, QueuesRun
<1>6. Joined(Pop(list, l), pending') = Pop(Joined(list, pending'), l)
  BY <1>1, <1>3, QueuesRun
<1>7. Queues[l] # <<>> /\ Head(Queues[l]) = f
  BY <1>5 DEF Queues
<1>8. f \in Range(Queues[l])
  <2>1. Queues[l] \in Seq(Functors)
    BY QueuesNow
  <2> QED
    BY <1>7, <2>1, RangeOfTail
<1>9. f.c \in Conns
  BY <1>4 DEF Functors
<1> HIDE DEF f
<1>10. Expected(f, l, conn[f.c], loopOf[f.c], callers)
  BY <1>8, <1>9 DEF CallInv, ManagedNow, Managed
<1>11. ListsRun'
  BY <1>1, <1>3 DEF CallInv, ListsRun
<1> QED
  BY <1>1, <1>2, <1>4, <1>5, <1>6, <1>7, <1>9, <1>10, <1>11
  DEF Taken, Queues, f

\* A functor that runs among the functors of its connection's loop finds no
\* events of the connection left.
LEMMA NoEventsLeft ==
  ASSUME TypeInv, CallInv, NEW c \in Conns, NEW l \in Loops,
         phase[l] = "functors", l = loopOf[c]
  PROVE  \A m \in Loops : active[m][c] = {}
  BY DEF CallInv, SnapshotsKnown

\* A functor of c has run that queued nothing, and left the record e.
LEMMA CallQuiet ==
  ASSUME TypeInv, CallInv, TypeInv', NEW l \in Loops, NEW f, Taken(f, l),
         NEW c, c = f.c, NEW e, conn' = [conn EXCEPT ![c] = e],
         UNCHANGED <<pending, connections>>,
         Managed(c, e, loopOf[c], connections, callers, Pop(Queues, l)),
         Opened(conn[c]) => Opened(e),
         \/ conn[c].index # "new" => e.index # "new"
         \/ l = loopOf[c]
  PROVE  CallInv'
<1>1. /\ c \in Conns /\ Queues[l] # <<>> /\ Head(Queues[l]).c = c
      /\ UNCHANGED <<loopOf, callers, foreign, phase, active>> /\ ListsRun'
      /\ phase[l] = "functors"
  BY DEF Taken
<1>2. Queues' = Pop(Queues, l)
  BY QueuesNext DEF Taken
<1>3. conn'[c] = e /\ \A d \in Conns \ {c} : conn'[d] = conn[d]
  BY <1>1 DEF TypeInv, ConnTypes
<1>4. ManagedNow(c)'
  BY <1>1, <1>2, <1>3 DEF ManagedNow
<1>5. \A m \in Loops : OthersKept(Queues'[m], Queues[m], c)
  BY <1>1, <1>2, QueuesNow, QueuesOfOthersRun
<1>6. (\A d \in Conns : ManagedNow(d))'
  BY <1>1, <1>3, <1>4, <1>5, CallOfOne DEF CallInv
<1>7. SnapshotsKnown'
  <2>1. \A m \in Loops :
           active[m][c] # {} => e.index # "new" \/ conn[c].index = "new"
    BY <1>1, NoEventsLeft
  <2> QED
    BY <1>1, <1>3, <2>1 DEF CallInv, SnapshotsKnown
<1>8. CallsBegun'
  <2>1. foreign # NoCall => foreign.c \in Conns
    BY DEF TypeInv, CallTypes, ForeignCalls
  <2> QED
    BY <1>1, <1>3, <2>1 DEF CallInv, CallsBegun
<1> QED
  BY <1>1, <1>6, <1>7, <1>8 DEF CallInv

\* connectEstablished is the only functor of its connection.
LEMMA CallEstablished ==
  ASSUME TypeInv, CallInv, TypeInv', NEW l \in Loops, NEW f, Taken(f, l),
         f.fn = "connectEstablished", Commit(f.c, ConnectEstablished(conn[f.c]))
  PROVE  CallInv'
<1>1. PICK c \in Conns : c = f.c
  BY DEF Taken
<1> DEFINE r == conn[c]
           e == ConnectEstablished(r)
<1>2. /\ l = loopOf[c] /\ r.state = "Connecting"
  BY <1>1 DEF Taken, Expected
<1>3. r \in Records /\ r.queued = <<>>
  BY DEF TypeInv, ConnTypes
<1>4. ChannelOK(r) /\ r.closes = 0
  BY <1>2, OpenNow DEF ChannelOK, Opened
<1>5. /\ e \in Records /\ e.state = "Connected" /\ e.index = "added"
      /\ e.queued = <<>> /\ e.closes = r.closes
  BY <1>3, EstablishedFields
<1>6. Commit(c, e)
  BY <1>1
<1> HIDE DEF e
<1>7. conn' = [conn EXCEPT ![c] = e] /\ UNCHANGED <<pending, connections>>
  BY <1>5, <1>6, QuietCommit
<1>8. ChannelOK(e) /\ Opened(e)
  BY <1>4, <1>5 DEF ChannelOK, Opened
<1>9. PICK q \in [Loops -> Seq(Functors)] : q = Queues
  BY QueuesNow
<1>10. Managed(c, r, l, connections, callers, q)
  BY <1>2, <1>9 DEF CallInv, ManagedNow
<1>11. f = Functor(c)["connectEstablished"]
  BY <1>1, FunctorOf DEF Taken
<1>12. q[l] # <<>> /\ Head(q[l]) = f /\ q[l] \in Seq(Functors)
  BY <1>9 DEF Taken
<1> DEFINE p == Pop(q, l)
<1>13. /\ p \in [Loops -> Seq(Functors)] /\ p[l] = Tail(q[l])
       /\ \A m \in Loops : m # l => p[m] = q[m]
       /\ Range(q[l]) = {f} \union Range(Tail(q[l]))
  BY <1>12, RangeOfTail DEF Pop
<1> HIDE DEF p
<1>14. f \notin Range(Tail(q[l]))
  <2>1. Once(q[l], f)
    BY <1>10, <1>11 DEF Managed
  <2> QED
    BY <1>12, <2>1, OnceTail
<1>15. ASSUME NEW m \in Loops, NEW h \in Range(p[m]), h.c = c PROVE FALSE
  <2>1. h \in Range(q[m])
    BY <1>13, <1>15
  <2>2. Expected(h, m, r, l, callers)
    BY <1>10, <1>15, <2>1 DEF Managed
  <2>3. h.fn = "connectEstablished" /\ m = l
    BY <1>2, <2>2 DEF Expected, Opened
  <2>4. h \in Functors
    <3>1. q[m] \in Seq(Functors)
      OBVIOUS
    <3> QED
      BY <2>1, <3>1, ElementOfSeq DEF Range
  <2>5. h = f
    BY <1>11, <1>15, <2>3, <2>4, FunctorOf
  <2> QED
    BY <1>13, <1>14, <1>15, <2>3, <2>5
<1>16. c \in connections
  BY <1>2, <1>4, <1>10 DEF Managed
<1>17. Managed(c, e, l, connections, callers, p)
  BY <1>4, <1>5, <1>8, <1>13, <1>15, <1>16, ManagedAlone
<1>18. Managed(c, e, loopOf[c], connections, callers, Pop(Queues, l))
  BY <1>2, <1>9, <1>17 DEF p
<1> QED
  BY <1>1, <1>2, <1>7, <1>8, <1>18, CallQuiet

\* connectDestroyed comes after the callbacks.
LEMMA CallDestroyed ==
  ASSUME TypeInv, CallInv, TypeInv', NEW l \in Loops, NEW f, Taken(f, l),
         f.fn = "connectDestroyed", Commit(f.c, ConnectDestroyed(conn[f.c]))
  PROVE  CallInv'
<1>1. PICK c \in Conns : c = f.c
  BY DEF Taken
<1> DEFINE r == conn[c]
           e == ConnectDestroyed(r)
<1>2. l = loopOf[c] /\ r.closes > 0 /\ Opened(r)
  BY <1>1 DEF Taken, Expected
<1>3. r \in Records /\ r.queued = <<>>
  BY DEF TypeInv, ConnTypes
<1>4. r.state # "Connected"
  BY <1>2, OpenNow DEF ChannelOK
<1>5. /\ e \in Records /\ Kept(e, r) /\ e.wr = r.wr /\ e.index = "new"
  BY <1>3, <1>4, DestroyedFields
<1>6. e.queued = <<>> /\ e.closes = r.closes /\ e.state = r.state
  BY <1>3, <1>5 DEF Kept
<1>7. Commit(c, e)
  BY <1>1
<1> HIDE DEF e
<1>8. conn' = [conn EXCEPT ![c] = e] /\ UNCHANGED <<pending, connections>>
  BY <1>5, <1>6, <1>7, QuietCommit
<1>9. f = Functor(c)["connectDestroyed"]
  BY <1>1, FunctorOf DEF Taken
<1>10. Managed(c, r, l, connections, callers, Queues)
  BY <1>2 DEF CallInv, ManagedNow
<1>11. Managed(c, e, l, connections, callers, Pop(Queues, l))
  BY <1>2, <1>5, <1>6, <1>9, <1>10, QueuesNow, ManagedDestroyed DEF Taken
<1>12. Opened(e)
  BY <1>2, <1>6 DEF Opened
<1> QED
  BY <1>1, <1>2, <1>8, <1>11, <1>12, CallQuiet

\* removeConnectionInLoop queues connectDestroyed behind the callbacks.
LEMMA CallRemoval ==
  ASSUME TypeInv, CallInv, TypeInv', NEW l \in Loops, NEW f, Taken(f, l),
         f.fn = "removeConnectionInLoop", conn' = conn,
         connections' = connections \ {f.c},
         pending' = [pending EXCEPT ![loopOf[f.c]] =
                        Append(@, Functor(f.c)["connectDestroyed"])]
  PROVE  CallInv'
<1>1. PICK c \in Conns : c = f.c
  BY DEF Taken
<1>2. PICK own \in Loops : own = loopOf[c]
  BY DEF TypeInv, ServTypes
<1> DEFINE r == conn[c]
           g == Functor(c)["connectDestroyed"]
           p == Put(Queues, own, <<g>>)
<1>3. r.closes > 0 /\ Opened(r) /\ r.closes \in Nat
  BY <1>1 DEF Taken, Expected, TypeInv, ConnTypes, Records
<1>4. g \in Functors /\ g.c = c /\ g.fn = "connectDestroyed"
  BY ManagedNames
<1>5. pending' = [pending EXCEPT ![own] = Append(@, g)]
  BY <1>1, <1>2
<1>6. g = Functor(c)["connectDestroyed"]
  OBVIOUS
<1> HIDE DEF g
<1>7. /\ <<g>> \in Seq(Functors) /\ Range(<<g>>) = {g}
  BY <1>4 DEF Range
<1>8. \A s \in Seq(Functors) : Append(s, g) = s \o <<g>>
  BY <1>4, AppendIsConcat
<1>9. pending' = Put(pending, own, <<g>>)
  BY <1>5, <1>8, QueuesNow DEF Put
<1>10. Joined(list, pending') = p
  <2>1. Joined(list, Put(pending, own, <<g>>)) =
           Put(Joined(list, pending), own, <<g>>)
    BY <1>7, QueuesNow, QueuesGain
  <2> QED
    BY <1>9, <2>1 DEF Queues
<1>11. Queues' = Pop(p, l)
  BY <1>10, QueuesNext DEF Taken
<1>12. Managed(c, r, own, connections, callers, Queues)
  BY <1>2 DEF CallInv, ManagedNow
<1>13. Queueable(<<g>>, r, callers)
  BY <1>3, <1>4, <1>7 DEF Queueable, Callbacks
<1> HIDE DEF r
<1>14. Managed(c, r, own, connections, callers, p)
  BY <1>3, <1>7, <1>12, <1>13, QueuesNow, ManagedQueue
<1>15. p \in [Loops -> Seq(Functors)] /\ g \in Range(p[own])
  <2>1. Queues \in [Loops -> Seq(Functors)]
    BY QueuesNow
  <2>2. \A s \in Seq(Functors) : /\ s \o <<g>> \in Seq(Functors)
                                 /\ Range(s \o <<g>>) = Range(s) \union {g}
    <3>1. \A s, u \in Seq(Functors) : /\ s \o u \in Seq(Functors)
                                      /\ Range(s \o u) = Range(s) \union Range(u)
      BY ConcatProperties, RangeConcatenation
    <3> QED
      BY <1>7, <3>1, Zenon
  <2> QED
    BY <2>1, <2>2 DEF Put
<1>16. p[l] # <<>> /\ Head(p[l]) = f
  <2>1. /\ Queues[l] # <<>> /\ Head(Queues[l]) = f
        /\ Queues[l] \in Seq(Functors)
    BY QueuesNow DEF Taken
  <2>2. \A s, t \in Seq(Functors) :
           s # <<>> => s \o t # <<>> /\ Head(s \o t) = Head(s)
    BY SMTT(30)
  <2>3. Queues[l] \o <<g>> # <<>> /\ Head(Queues[l] \o <<g>>) = Head(Queues[l])
    BY <1>7, <2>1, <2>2, Zenon
  <2> QED
    BY <2>1, <2>3, QueuesNow DEF Put
<1>17. \A m \in Loops : OthersKept(p[m], Queues[m], c)
  BY <1>4, <1>7, QueuesNow, QueuesOfOthers
<1> HIDE DEF p
<1>18. Managed(c, r, own, connections, callers, Pop(p, l))
  BY <1>6, <1>14, <1>15, <1>16, ManagedPop
<1>19. Managed(c, r, own, connections', callers, Pop(p, l))
  BY <1>3, <1>18 DEF Managed
<1>20. UNCHANGED <<loopOf, callers, foreign, phase, active>> /\ ListsRun'
  BY DEF Taken
<1>21. ManagedNow(c)'
  BY <1>2, <1>11, <1>19, <1>20 DEF ManagedNow, r
<1>22. \A m \in Loops : OthersKept(Queues'[m], Queues[m], c)
  <2>1. \A m \in Loops : OthersKept(Pop(p, l)[m], p[m], c)
    BY <1>1, <1>15, <1>16, QueuesOfOthersRun
  <2> QED
    BY <1>11, <1>17, <2>1, OthersTwice
<1>23. (\A d \in Conns : ManagedNow(d))'
  BY <1>1, <1>20, <1>21, <1>22, CallOfOne DEF CallInv
<1>24. SnapshotsKnown' /\ CallsBegun'
  BY <1>20 DEF CallInv, SnapshotsKnown, CallsBegun
<1> QED
  BY <1>20, <1>23, <1>24 DEF CallInv

\* The functors of an open connection that is not being taken down.
LEMMA CallOther ==
  ASSUME TypeInv, CallInv, TypeInv', NEW l \in Loops, NEW f, Taken(f, l),
         f.fn \notin {"connectEstablished", "connectDestroyed",
                      "removeConnectionInLoop"},
         NEW e, Going(e, conn[f.c]) \/ Ended(e, conn[f.c]),
         CommitIfAlive(f.c, e)
  PROVE  CallInv'
<1>1. PICK c \in Conns : c = f.c
  BY DEF Taken
<1>2. Opened(conn[c])
  BY <1>1 DEF Taken, Expected
<1>3. Managed(c, conn[c], loopOf[c], connections, callers, Queues)
  BY DEF CallInv, ManagedNow
<1>4. Managed(c, conn[c], loopOf[c], connections, callers, Pop(Queues, l))
  <2>1. loopOf[c] \in Loops
    BY DEF TypeInv, ServTypes
  <2> QED
    BY <1>3, <2>1, QueuesNow, ManagedPop DEF Taken
<1>5. CASE Destroyed(c)
  <2>1. UNCHANGED <<conn, pending, connections>>
    BY <1>1, <1>5 DEF CommitIfAlive
  <2>2. conn' = [conn EXCEPT ![c] = conn[c]]
    BY <2>1 DEF TypeInv, ConnTypes
  <2> QED
    BY <1>1, <1>4, <2>1, <2>2, CallQuiet
<1>6. CASE ~Destroyed(c)
  <2>1. Commit(c, e)
    BY <1>1, <1>6 DEF CommitIfAlive
  <2>2. /\ UNCHANGED <<loopOf, callers, foreign, phase, active>> /\ ListsRun'
        /\ Joined(list', pending) = Pop(Queues, l)
    BY DEF Taken
  <2>3. \A m \in Loops : OthersKept(Pop(Queues, l)[m], Queues[m], c)
    BY <1>1, QueuesNow, QueuesOfOthersRun DEF Taken
  <2> QED
    BY <1>1, <1>2, <1>4, <2>1, <2>2, <2>3, CallCommit
<1> QED
  BY <1>5, <1>6

\* Running a functor.
LEMMA CallRun ==
  ASSUME TypeInv, CallInv, TypeInv', NEW l \in Loops, RunFunctor(l)
  PROVE  CallInv'
<1>1. PICK f : f = Head(list[l])
  OBVIOUS
<1>2. Taken(f, l)
  BY <1>1, RunTakes
<1>3. PICK c \in Conns : c = f.c
  BY <1>2 DEF Taken
<1>4. f.fn \in FunctorNames
  BY <1>2 DEF Taken, Functors
<1>5. Owning(f.fn) => ~Destroyed(c)
  BY <1>2, <1>3 DEF Taken, Destroyed, Alive
<1>6. f.fn \notin {"connectEstablished", "removeConnectionInLoop"} =>
         /\ Opened(conn[c]) /\ Steady(conn[c]) /\ conn[c].queued = <<>>
  BY <1>2, <1>3, OpenNow DEF Taken, Expected
<1>7. CASE f.fn = "removeConnectionInLoop"
  <2>1. /\ connections' = connections \ {f.c} /\ conn' = conn
        /\ pending' = [pending EXCEPT ![loopOf[f.c]] =
                          Append(@, Functor(f.c)["connectDestroyed"])]
    BY <1>1, <1>7 DEF RunFunctor
  <2> QED
    BY <1>2, <1>7, <2>1, CallRemoval
<1>8. CASE f.fn = "sendInLoop"
  <2>1. PICK intact \in BOOLEAN, room \in Room(c) :
           CommitIfAlive(c, SendInLoop(conn[c], 1, intact, room))
    BY <1>1, <1>3, <1>8 DEF RunFunctor, RunSend
  <2>2. room \in Nat
    BY KernelAnswers
  <2>3. "sender" \in callers
    BY <1>2, <1>8 DEF Taken, Expected
  <2>4. conn[c].closes = 0 \/ conn[c].state = "DisConnected"
    <3>1. conn[c].closes \in Nat
      BY DEF TypeInv, ConnTypes, Records
    <3> QED
      BY <2>3, <3>1 DEF CallInv, ManagedNow, Managed
  <2>5. Going(SendInLoop(conn[c], 1, intact, room), conn[c])
    BY <1>6, <1>8, <2>2, <2>4, GoingSend
  <2> QED
    BY <1>2, <1>3, <1>8, <2>1, <2>5, CallOther
<1>9. CASE f.fn \notin {"removeConnectionInLoop", "sendInLoop"}
  <2>1. CommitIfAlive(c, Run(conn[c], f.fn))
    BY <1>1, <1>3, <1>9 DEF RunFunctor
  <2>2. CASE f.fn = "connectEstablished"
    <3>1. Run(conn[c], f.fn) = ConnectEstablished(conn[c]) /\ ~Destroyed(c)
      BY <1>5, <2>2 DEF Run, Owning
    <3> QED
      BY <1>2, <1>3, <2>1, <2>2, <3>1, CallEstablished DEF CommitIfAlive
  <2>3. CASE f.fn = "connectDestroyed"
    <3>1. Run(conn[c], f.fn) = ConnectDestroyed(conn[c]) /\ ~Destroyed(c)
      BY <1>5, <2>3 DEF Run, Owning
    <3> QED
      BY <1>2, <1>3, <2>1, <2>3, <3>1, CallDestroyed DEF CommitIfAlive
  <2>4. CASE f.fn \in Callbacks
    <3>1. Steady(conn[c]) /\ conn[c].index # "new"
      BY <1>2, <1>3, <1>6, <1>9, <2>4 DEF Taken, Expected, Callbacks
    <3>2. Run(conn[c], f.fn) \in {StartReadInLoop(conn[c]),
                                  StopReadInLoop(conn[c])}
      BY <2>4 DEF Callbacks, Run
    <3>3. Going(Run(conn[c], f.fn), conn[c])
      BY <3>1, <3>2, GoingCallbacks
    <3>4. f.fn \notin {"connectEstablished", "connectDestroyed",
                       "removeConnectionInLoop"}
      BY <2>4 DEF Callbacks
    <3> QED
      BY <1>2, <1>3, <2>1, <3>3, <3>4, CallOther
  <2>5. CASE f.fn = "shutdownInLoop"
    <3>1. Run(conn[c], f.fn) = ShutdownInLoop(conn[c])
      BY <2>5 DEF Run
    <3>2. Going(Run(conn[c], f.fn), conn[c])
      BY <1>6, <2>5, <3>1, GoingShutdown
    <3> QED
      BY <1>2, <1>3, <2>1, <2>5, <3>2, CallOther
  <2>6. CASE f.fn = "forceCloseInLoop"
    <3>1. Run(conn[c], f.fn) = ForceCloseInLoop(conn[c])
      BY <2>6 DEF Run
    <3>2. \/ Going(Run(conn[c], f.fn), conn[c])
          \/ Ended(Run(conn[c], f.fn), conn[c])
      BY <1>6, <2>6, <3>1, ForcedClose
    <3> QED
      BY <1>2, <1>3, <2>1, <2>6, <3>2, CallOther
  <2> QED
    BY <1>4, <1>9, <2>2, <2>3, <2>4, <2>5, <2>6 DEF FunctorNames, Callbacks
<1> QED
  BY <1>7, <1>8, <1>9

\* Every step.
LEMMA StepCalls ==
  TypeInv /\ CallInv /\ [Next]_vars => CallInv'
<1> SUFFICES ASSUME TypeInv, CallInv, [Next]_vars PROVE CallInv'
  OBVIOUS
<1>1. TypeInv'
  BY StepTypes
<1>2. CASE UNCHANGED vars
  BY <1>2, CallFrame DEF vars, servVars, loopVars
<1>3. ASSUME NEW c \in Conns, PeerStep(c) PROVE CallInv'
  BY <1>3, CallFrame DEF PeerStep, PeerConnects, PeerSends, PeerCloses,
     PeerResets, envUnchanged, servVars, loopVars
<1>4. ASSUME NEW c \in Conns, AppStep(c) PROVE CallInv'
  <2>1. CASE IdleShutdown(c)
    BY <1>1, <2>1, CallIdle
  <2>2. CASE ForceCloseWithDelay(c)
    BY <2>2, CallFrame DEF ForceCloseWithDelay, connVars, servVars, loopVars
  <2>3. CASE DelayFires(c)
    BY <1>1, <2>3, CallDelayed
  <2>4. CASE \E fn \in {"sendInLoop", "shutdownInLoop", "forceCloseInLoop"} :
                ForeignTests(c, fn)
    BY <1>1, <2>4, CallForeign
  <2> QED
    BY <1>4, <2>1, <2>2, <2>3, <2>4 DEF AppStep
<1>5. ASSUME NEW l \in Loops, LoopStep(l) PROVE CallInv'
  <2>1. CASE Poll(l) \/ EventsDone(l) \/ FunctorsDone(l)
    BY <2>1, CallTurn
  <2>2. ASSUME NEW c \in Conns, Accept(c) PROVE CallInv'
    BY <1>1, <2>2, CallAccept
  <2>3. ASSUME NEW c \in Conns, AcceptFails(c) PROVE CallInv'
    BY <2>3, CallFrame DEF AcceptFails, servVars
  <2>4. ASSUME NEW c \in Conns, HandleChannel(c) PROVE CallInv'
    BY <1>1, <2>4, CallChannel
  <2>5. CASE RunFunctor(l)
    BY <1>1, <2>5, CallRun
  <2>6. ASSUME NEW c \in Conns, SignalPipe(c) PROVE CallInv'
    BY <2>6, CallFrame DEF SignalPipe, connVars, loopVars
  <2> QED
    BY <1>5, <2>1, <2>2, <2>3, <2>4, <2>5, <2>6 DEF LoopStep
<1>6. CASE ForeignSets \/ ForeignQueues
  BY <1>1, <1>6, CallForeign
<1> QED
  BY <1>2, <1>3, <1>4, <1>5, <1>6 DEF Next, Lives

-----------------------------------------------------------------------------
(* The theorems                                                            *)

\* A closed connection stays on its way to connectDestroyed
\* (TcpServer.cpp:74-82), and no callback that would give its channel back to
\* the poller comes after that, whoever calls shutdown() or forceClose(), or
\* whoever sends.
THEOREM CallInvariant ==
  ASSUME CallersApart
  PROVE  Spec => []CallInv
<1>1. Init => CallInv
  BY InitCalls
<1> QED
  BY <1>1, StepCalls, TypeInvariant, PTL DEF Spec

\* No dangling Channel*: when the last pointer to a connection goes, epoll has
\* forgotten its channel (TcpConnection.cpp:72, EpollPoller.cpp:109-128), with any
\* callers but a thread that sends together with one that closes.
THEOREM ChannelsOutliveCalls ==
  ASSUME CallersApart
  PROVE  Spec => []NoDanglingChannel
<1>1. TypeInv /\ CallInv => NoDanglingChannel
  <2> SUFFICES ASSUME TypeInv, CallInv, NEW c \in Conns, Destroyed(c)
               PROVE  /\ conn[c].index = "new"
                      /\ \A l \in Loops : active[l][c] = {}
    BY DEF NoDanglingChannel
  <2>1. /\ c \notin connections /\ conn[c].state # "None"
        /\ \A l \in Loops : \A f \in Range(Waiting(l)) :
              f.c = c => f.fn # "removeConnectionInLoop" /\ ~Owning(f.fn)
    BY WaitingTypes DEF Destroyed, Alive
  <2>2. Managed(c, conn[c], loopOf[c], connections, callers, Queues)
    BY DEF CallInv, ManagedNow
  <2>3. conn[c].closes \in Nat /\ loopOf[c] \in Loops /\ "main" \in Loops
    BY LoopNames DEF TypeInv, ConnTypes, ServTypes, Records
  <2>4. conn[c].closes > 0
    BY <2>1, <2>2, <2>3 DEF Managed
  <2>5. \A fn \in {"connectDestroyed", "removeConnectionInLoop"} :
           /\ Functor(c)[fn].c = c /\ Functor(c)[fn].fn = fn
    BY ManagedNames
  <2>6. \A l \in Loops :
           /\ Functor(c)["connectDestroyed"] \notin Range(Queues[l])
           /\ Functor(c)["removeConnectionInLoop"] \notin Range(Queues[l])
    BY <2>1, <2>5, QueuesNow DEF Owning
  <2>7. conn[c].index = "new"
    BY <2>2, <2>3, <2>4, <2>6 DEF Managed
  <2> QED
    BY <2>7 DEF CallInv, SnapshotsKnown
<1> QED
  BY <1>1, CallInvariant, TypeInvariant, PTL

-----------------------------------------------------------------------------
(* The stream of bytes                                                     *)

\* A handler that leaves the output alone.
SameStream(d, r) ==
    /\ d.wire = r.wire /\ d.out = r.out /\ d.accepted = r.accepted
    /\ d.failed <=> r.failed

\* The handlers that send nothing.
LEMMA QuietHandlers ==
  ASSUME NEW r \in Records
  PROVE  /\ SameStream(EnableWriting(r), r) /\ SameStream(DisableWriting(r), r)
         /\ \A fn : SameStream(Queue(r, fn), r)
         /\ SameStream(ConnectEstablished(r), r)
         /\ SameStream(ConnectDestroyed(r), r)
         /\ SameStream(HandleClose(r), r)
         /\ SameStream(ShutdownInLoop(r), r) /\ SameStream(Shutdown(r), r)
         /\ SameStream(ForceClose(r), r) /\ SameStream(ForceCloseInLoop(r), r)
         /\ SameStream(StartReadInLoop(r), r)
         /\ SameStream(StopReadInLoop(r), r)
<1> USE DEF SameStream
<1>1. SameStream(EnableWriting(r), r) /\ SameStream(DisableWriting(r), r)
  BY DEF Records, EnableWriting, DisableWriting, Update
<1>2. \A fn : SameStream(Queue(r, fn), r)
  BY DEF Records, Queue
<1>3. SameStream(ConnectEstablished(r), r)
  BY DEF Records, ConnectEstablished, EnableReading, Update
<1>4. SameStream(ConnectDestroyed(r), r)
  BY DEF Records, ConnectDestroyed, Remove, DisableAll, Update
<1>5. SameStream(HandleClose(r), r)
  BY DEF Records, HandleClose, DisableAll, Update
<1>6. SameStream(ShutdownInLoop(r), r) /\ SameStream(Shutdown(r), r)
  BY DEF Records, ShutdownInLoop, Shutdown
<1>7. SameStream(ForceClose(r), r)
  BY DEF Records, ForceClose, Queue
<1>8. SameStream(ForceCloseInLoop(r), r)
  BY <1>5 DEF ForceCloseInLoop
<1>9. SameStream(StartReadInLoop(r), r) /\ SameStream(StopReadInLoop(r), r)
  BY DEF Records, StartReadInLoop, StopReadInLoop, EnableReading,
     DisableReading, Update
<1> HIDE DEF SameStream
<1> QED
  BY <1>1, <1>2, <1>3, <1>4, <1>5, <1>6, <1>7, <1>8, <1>9, Zenon

\* The output so far: the bytes accepted, in their order, and nothing else as
\* long as no sendInLoop failed.
InOrder(r) ==
    /\ Without(r.wire \o r.out, {Garbage}) = UpTo(r.accepted)
    /\ ~r.failed => r.wire \o r.out = UpTo(r.accepted)

\* The bytes given by f, from the first to the n-th.
Bytes(f, n) == [i \in 1..n |-> f[i]]

\* A handler that sends nothing keeps the order.
LEMMA OrderKept ==
  ASSUME NEW d, NEW r, SameStream(d, r), InOrder(r)
  PROVE  InOrder(d)
  BY Zenon DEF InOrder, SameStream

\* Numbers by a function are a sequence.
LEMMA BytesType ==
  ASSUME NEW n \in Nat, NEW f \in [Int -> Int]
  PROVE  /\ Bytes(f, n) \in Seq(Int) /\ Len(Bytes(f, n)) = n
         /\ \A i \in 1..n : Bytes(f, n)[i] = f[i]
<1>1. Bytes(f, n) \in [1..n -> Int]
  BY DEF Bytes
<1> QED
  BY <1>1, SeqDef, LenProperties DEF Bytes

\* Bytes sent in two parts.
LEMMA BytesParts ==
  ASSUME NEW n \in Nat, NEW k \in 0..n, NEW f \in [Int -> Int],
         NEW g \in [Int -> Int],
         \A i \in 1..(n - k) : g[i] = f[k + i]
  PROVE  Bytes(f, n) = Bytes(f, k) \o Bytes(g, n - k)
<1>1. n - k \in Nat /\ k \in Nat
  OBVIOUS
<1>2. /\ Bytes(f, n) \in Seq(Int) /\ Len(Bytes(f, n)) = n
      /\ \A i \in 1..n : Bytes(f, n)[i] = f[i]
  BY BytesType
<1>3. /\ Bytes(f, k) \in Seq(Int) /\ Len(Bytes(f, k)) = k
      /\ \A i \in 1..k : Bytes(f, k)[i] = f[i]
  BY <1>1, BytesType
<1>4. /\ Bytes(g, n - k) \in Seq(Int) /\ Len(Bytes(g, n - k)) = n - k
      /\ \A i \in 1..(n - k) : Bytes(g, n - k)[i] = g[i]
  BY <1>1, BytesType
<1>5. PICK s : s = Bytes(f, n)
  OBVIOUS
<1>6. PICK p : p = Bytes(f, k)
  OBVIOUS
<1>7. PICK q : q = Bytes(g, n - k)
  OBVIOUS
<1>8. /\ s \in Seq(Int) /\ Len(s) = n /\ \A i \in 1..n : s[i] = f[i]
      /\ p \in Seq(Int) /\ Len(p) = k /\ \A i \in 1..k : p[i] = f[i]
      /\ q \in Seq(Int) /\ Len(q) = n - k
      /\ \A i \in 1..(n - k) : q[i] = g[i]
  BY <1>2, <1>3, <1>4, <1>5, <1>6, <1>7, Zenon
<1>9. Len(s) = Len(p) + Len(q) /\ \A i \in 1..Len(p) : s[i] = p[i]
  BY <1>1, <1>8
<1>10. \A i \in 1..Len(q) : s[Len(p) + i] = q[i]
  <2> TAKE i \in 1..Len(q)
  <2>1. i \in 1..(n - k) /\ k + i \in 1..n
    BY <1>8
  <2> QED
    BY <1>8, <2>1
<1>11. PICK A : A = Int
  OBVIOUS
<1>12. s \in Seq(A) /\ p \in Seq(A) /\ q \in Seq(A)
  BY <1>8, <1>11
<1>13. s = p \o q
  BY <1>9, <1>10, <1>12, IsConcat, Zenon
<1> QED
  BY <1>5, <1>6, <1>7, <1>13

\* The byte in front of the message and the message.
LEMMA BytesFromZero ==
  ASSUME NEW n \in Nat, NEW f \in [Int -> Int],
         NEW g \in [Int -> Int],
         \A i \in 1..(n + 1) : g[i] = f[i - 1]
  PROVE  Bytes(g, n + 1) = <<f[0]>> \o Bytes(f, n)
<1>1. n + 1 \in Nat
  OBVIOUS
<1>2. /\ Bytes(f, n) \in Seq(Int) /\ Len(Bytes(f, n)) = n
      /\ \A i \in 1..n : Bytes(f, n)[i] = f[i]
  BY BytesType
<1>3. /\ Bytes(g, n + 1) \in Seq(Int) /\ Len(Bytes(g, n + 1)) = n + 1
      /\ \A i \in 1..(n + 1) : Bytes(g, n + 1)[i] = g[i]
  BY <1>1, BytesType
<1>4. PICK m : m = Bytes(f, n)
  OBVIOUS
<1>5. PICK s : s = Bytes(g, n + 1)
  OBVIOUS
<1>6. PICK z : z = <<f[0]>>
  OBVIOUS
<1>7. z \in Seq(Int) /\ Len(z) = 1 /\ z[1] = f[0]
  BY <1>6
<1>8. /\ m \in Seq(Int) /\ Len(m) = n /\ \A i \in 1..n : m[i] = f[i]
      /\ s \in Seq(Int) /\ Len(s) = n + 1
      /\ \A i \in 1..(n + 1) : s[i] = f[i - 1]
  BY <1>2, <1>3, <1>4, <1>5
<1>9. Len(s) = Len(z) + Len(m)
  BY <1>7, <1>8
<1>10. \A i \in 1..Len(z) : s[i] = z[i]
  <2> TAKE i \in 1..Len(z)
  <2>1. i = 1 /\ i \in 1..(n + 1) /\ i - 1 = 0
    BY <1>7
  <2> QED
    BY <1>7, <1>8, <2>1
<1>11. \A i \in 1..Len(m) : s[Len(z) + i] = m[i]
  <2> TAKE i \in 1..Len(m)
  <2>1. i \in 1..n /\ 1 + i \in 1..(n + 1) /\ (1 + i) - 1 = i
    BY <1>8
  <2> QED
    BY <1>7, <1>8, <2>1
<1>12. PICK A : A = Int
  OBVIOUS
<1>13. s \in Seq(A) /\ z \in Seq(A) /\ m \in Seq(A)
  BY <1>7, <1>8, <1>12
<1>14. s = z \o m
  BY <1>9, <1>10, <1>11, <1>13, IsConcat, Zenon
<1> QED
  BY <1>4, <1>5, <1>6, <1>14

\* What the bytes of a message add to the stream: their numbers, or nothing
\* if the message was gone.
LEMMA BytesAdded ==
  ASSUME NEW n \in Nat, NEW a \in Nat, NEW f \in [Int -> Int]
  PROVE  /\ (\A i \in 1..n : f[i] = a + i) =>
               /\ UpTo(a) \o Without(Bytes(f, n), {Garbage}) = UpTo(a + n)
               /\ UpTo(a) \o Bytes(f, n) = UpTo(a + n)
         /\ (\A i \in 1..n : f[i] = Garbage) =>
               Without(Bytes(f, n), {Garbage}) = <<>>
<1>1. ASSUME \A i \in 1..n : f[i] = a + i
      PROVE  /\ UpTo(a) \o Without(Bytes(f, n), {Garbage}) = UpTo(a + n)
             /\ UpTo(a) \o Bytes(f, n) = UpTo(a + n)
  <2>1. PICK A : A = Nat \ {0}
    OBVIOUS
  <2>2. \A i \in 1..n : f[i] \in A
    BY <1>1, <2>1
  <2>3. Bytes(f, n) \in Seq(A)
    <3>1. Bytes(f, n) \in [1..n -> A]
      BY <2>2 DEF Bytes
    <3> QED
      BY <3>1, SeqDef
  <2>4. \A x \in A : x \notin {Garbage}
    BY <2>1 DEF Garbage
  <2>5. Without(Bytes(f, n), {Garbage}) = Bytes(f, n)
    BY <2>3, <2>4, WithoutNone
  <2>6. PICK m : m = Bytes(f, n)
    OBVIOUS
  <2>7. m \in Seq(Nat) /\ Len(m) = n /\ \A i \in 1..n : m[i] = a + i
    <3>1. Bytes(f, n) \in [1..n -> Nat]
      BY <1>1 DEF Bytes
    <3>2. Bytes(f, n) \in Seq(Nat)
      BY <3>1, SeqDef
    <3>3. Len(Bytes(f, n)) = n /\ \A i \in 1..n : Bytes(f, n)[i] = f[i]
      BY BytesType
    <3> QED
      BY <1>1, <2>6, <3>2, <3>3
  <2>8. /\ UpTo(a) \in Seq(Nat) /\ Len(UpTo(a)) = a
        /\ \A i \in 1..a : UpTo(a)[i] = i
    BY UpToNext, LenProperties DEF UpTo
  <2>9. /\ UpTo(a + n) \in Seq(Nat) /\ Len(UpTo(a + n)) = a + n
        /\ \A i \in 1..(a + n) : UpTo(a + n)[i] = i
    <3>1. a + n \in Nat
      OBVIOUS
    <3>2. UpTo(a + n) \in Seq(Nat)
      BY <3>1, UpToNext
    <3> QED
      BY <3>1, <3>2, LenProperties DEF UpTo
  <2>10. PICK s : s = UpTo(a + n)
    OBVIOUS
  <2>11. PICK u : u = UpTo(a)
    OBVIOUS
  <2>12. /\ s \in Seq(Nat) /\ u \in Seq(Nat) /\ Len(u) = a
         /\ Len(s) = Len(u) + Len(m)
    BY <2>7, <2>8, <2>9, <2>10, <2>11
  <2>13. \A i \in 1..Len(u) : s[i] = u[i]
    <3>1. \A i \in 1..a : u[i] = i
      BY <2>8, <2>11, Zenon
    <3>2. \A i \in 1..(a + n) : s[i] = i
      BY <2>9, <2>10, Zenon
    <3> QED
      BY <2>12, <3>1, <3>2
  <2>14. \A i \in 1..Len(m) : s[Len(u) + i] = m[i]
    <3> TAKE i \in 1..Len(m)
    <3>1. i \in 1..n /\ a + i \in 1..(a + n)
      BY <2>7
    <3> QED
      BY <2>7, <2>9, <2>10, <2>12, <3>1
  <2>15. s = u \o m
    BY <2>7, <2>12, <2>13, <2>14, IsConcat, Zenon
  <2> QED
    BY <2>5, <2>6, <2>10, <2>11, <2>15, Zenon
<1>2. ASSUME \A i \in 1..n : f[i] = Garbage
      PROVE  Without(Bytes(f, n), {Garbage}) = <<>>
  <2>1. Bytes(f, n) \in [1..n -> {Garbage}]
    BY <1>2 DEF Bytes
  <2>2. Bytes(f, n) \in Seq({Garbage})
    BY <2>1, SeqDef
  <2> QED
    BY <2>2, WithoutAll
<1> QED
  BY <1>1, <1>2

\* More bytes at the end of a stream, with a byte in front of them that nobody
\* asked for or without.
LEMMA StreamExtended ==
  ASSUME NEW s \in Seq(Int), NEW m \in Seq(Int)
  PROVE  LET left == Without(s, {Garbage}) \o Without(m, {Garbage})
         IN  /\ Without(s \o m, {Garbage}) = left
             /\ Without(s \o (<<Garbage>> \o m), {Garbage}) = left
<1>1. PICK z : z = <<Garbage>>
  OBVIOUS
<1>2. z \in Seq(Int) /\ z \in Seq({Garbage})
  BY <1>1 DEF Garbage
<1>3. PICK D : D = {Garbage}
  OBVIOUS
<1>4. \A p, q \in Seq(Int) : Without(p \o q, D) = Without(p, D) \o Without(q, D)
  BY WithoutParts
<1>5. Without(z, D) = <<>>
  BY <1>2, <1>3, WithoutAll
<1>6. z \o m \in Seq(Int)
  BY <1>2, ConcatProperties
<1>7. Without(m, D) \in Seq(Int)
  BY WithoutType
<1>8. <<>> \o Without(m, D) = Without(m, D)
  BY <1>7
<1>9. Without(z \o m, D) = Without(m, D)
  BY <1>2, <1>4, <1>5, <1>8, Zenon
<1>10. Without(s \o (z \o m), D) = Without(s, D) \o Without(m, D)
  BY <1>4, <1>6, <1>9, Zenon
<1>11. Without(s \o m, D) = Without(s, D) \o Without(m, D)
  BY <1>4, Zenon
<1> QED
  BY <1>1, <1>3, <1>10, <1>11, Zenon

\* Bytes in three parts.
LEMMA BytesAssoc ==
  \A s, t, u \in Seq(Int) : (s \o t) \o u = s \o (t \o u)
<1>1. ASSUME NEW s \in Seq(Int), NEW t \in Seq(Int), NEW u \in Seq(Int)
      PROVE  (s \o t) \o u = s \o (t \o u)
  BY ConcatAssoc, SMTT(30)
<1> QED
  BY <1>1

\* The numbers of sendInLoop: an error leaves n + 1 bytes to send, anything
\* else at most n; without a direct ::send all n remain.
LEMMA SendNumbers ==
  ASSUME NEW n \in Nat, n < SizeLimit, NEW room \in Nat,
         NEW direct \in BOOLEAN
  PROVE  LET nwrote == IF direct THEN SizeT(SendResult(room, n)) ELSE 0
             remaining == SizeT(n - nwrote)
         IN  /\ remaining \in Nat
             /\ ~direct => remaining = n
             /\ remaining \in 0..n \/ remaining = n + 1
             /\ ~(direct /\ room = 0) => remaining \in 0..n
<1>1. PICK k : k = IF direct THEN SizeT(SendResult(room, n)) ELSE 0
  OBVIOUS
<1>2. k \in 0..n \/ (k = SizeLimit - 1 /\ direct /\ room = 0)
  <2>1. CASE ~direct
    BY <1>1, <2>1
  <2>2. CASE direct /\ room = 0
    <3>1. SendResult(room, n) = -1
      BY <2>2 DEF SendResult
    <3>2. SizeT(-1) = SizeLimit - 1
      BY SizeTValues, SizeLimitType
    <3> QED
      BY <1>1, <2>2, <3>1, <3>2
  <2>3. CASE direct /\ room # 0
    <3>1. SendResult(room, n) \in 0..n
      BY <2>3 DEF SendResult
    <3>2. SizeT(SendResult(room, n)) = SendResult(room, n)
      BY <3>1, SizeTValues, SizeLimitType
    <3> QED
      BY <1>1, <2>3, <3>1, <3>2
  <2> QED
    BY <2>1, <2>2, <2>3
<1>3. PICK m \in Int : m = n - k
  BY <1>2, SizeLimitType
<1>4. CASE k \in 0..n
  <2>1. SizeT(m) = m
    BY <1>3, <1>4, SizeTValues, SizeLimitType
  <2>2. ~direct => k = 0
    BY <1>1
  <2> QED
    BY <1>1, <1>3, <1>4, <2>1, <2>2
<1>5. CASE k = SizeLimit - 1 /\ n # SizeLimit - 1
  <2>1. m < 0 /\ m > -SizeLimit /\ m + SizeLimit = n + 1
    BY <1>3, <1>5, SizeLimitType
  <2>2. SizeT(m) = n + 1
    BY <2>1, SizeTValues
  <2>3. direct
    BY <1>1, <1>5, SizeLimitType
  <2>4. direct /\ room = 0
    BY <1>2, <1>5, SizeLimitType
  <2> QED
    BY <1>1, <1>3, <2>2, <2>3, <2>4
<1> QED
  BY <1>2, <1>4, <1>5, SizeLimitType

\* What a sendInLoop of n bytes that left d adds to the stream of r: the
\* bytes given by f.  Those up to taken go to the kernel; left bytes wait,
\* from the one after n - left on, given by g.
Parts(d, r, n, intact, left, taken, f, g) ==
    /\ left \in Nat /\ taken \in Nat
    /\ f \in [Int -> Int] /\ g \in [Int -> Int]
    /\ \A i \in Int : f[i] = IF i = 0 \/ ~intact THEN Garbage
                             ELSE r.accepted + i
    /\ \A i \in Int : g[i] = f[(n - left) + i]
    /\ taken = IF n - left < 0 THEN 0 ELSE n - left
    /\ r.wr \/ r.out # <<>> => left = n
    /\ left \in 0..n \/ left = n + 1
    /\ ~d.failed => ~r.failed /\ intact /\ left \in 0..n
    /\ d.wire = r.wire \o Bytes(f, taken)
    /\ d.out = r.out \o Bytes(g, left)
    /\ d.accepted = IF intact THEN r.accepted + n ELSE r.accepted

\* sendInLoop takes a message apart in this way.
LEMMA SendStream ==
  ASSUME NEW r \in Records, NEW n \in Nat, n < SizeLimit,
         NEW intact \in BOOLEAN, NEW room \in Nat, r.state # "DisConnected"
  PROVE  \E left, taken, f, g :
            Parts(SendInLoop(r, n, intact, room), r, n, intact, left, taken,
                  f, g)
<1> DEFINE direct == SendsNow(r)
           nwrote == IF direct THEN SizeT(SendResult(room, n)) ELSE 0
           remaining == SizeT(n - nwrote)
           off == n - remaining
           taken == IF off < 0 THEN 0 ELSE off
           byte(i) == IF i = 0 \/ ~intact THEN Garbage ELSE r.accepted + i
           acc == IF intact THEN r.accepted + n ELSE r.accepted
           w == r.wire \o [i \in 1..taken |-> byte(i)]
           fl == r.failed \/ ~intact \/ (direct /\ room = 0)
           sent == [r EXCEPT !.accepted = acc, !.failed = fl, !.wire = w]
           crossed == /\ Len(r.out) + remaining > HighWaterMark
                      /\ Len(r.out) < HighWaterMark
           told == IF crossed THEN Queue(sent, "highWaterMark") ELSE sent
           o == told.out \o [i \in 1..remaining |-> byte(off + i)]
           kept == [told EXCEPT !.out = o]
           f == [i \in Int |-> byte(i)]
           g == [i \in Int |-> byte(off + i)]
           d == SendInLoop(r, n, intact, room)
<1>1. d = IF remaining = 0 THEN Queue(sent, "writeComplete")
          ELSE IF r.wr THEN kept ELSE EnableWriting(kept)
  BY DEF SendInLoop
<1>2. /\ remaining \in Nat
      /\ r.wr \/ r.out # <<>> => remaining = n
      /\ remaining \in 0..n \/ remaining = n + 1
      /\ ~(direct /\ room = 0) => remaining \in 0..n
  <2> HIDE DEF direct, remaining
  <2>1. direct \in BOOLEAN
    BY DEF direct, SendsNow
  <2>2. /\ remaining \in Nat /\ (~direct => remaining = n)
        /\ remaining \in 0..n \/ remaining = n + 1
        /\ ~(direct /\ room = 0) => remaining \in 0..n
    BY <2>1, SendNumbers DEF remaining
  <2> QED
    BY <2>2 DEF direct, SendsNow
<1> HIDE DEF remaining
<1>3. off \in Int /\ taken \in Nat
  BY <1>2
<1> HIDE DEF taken
<1>4. r.accepted \in Nat /\ r.wire \in Seq(Int) /\ r.out \in Seq(Int)
  BY DEF Records
<1>5. \A i \in Int : byte(i) \in Int
  BY <1>4 DEF Garbage
<1>6. f \in [Int -> Int] /\ g \in [Int -> Int]
  BY <1>3, <1>5
<1>7. \A i \in Int : g[i] = f[off + i] /\ f[i] = byte(i)
  BY <1>3
<1>8. acc \in Nat
  BY <1>4
<1>9. w = r.wire \o Bytes(f, taken)
  <2>1. [i \in 1..taken |-> byte(i)] = Bytes(f, taken)
    BY <1>3 DEF Bytes
  <2> QED
    BY <2>1, Zenon
<1>10. [i \in 1..remaining |-> byte(off + i)] = Bytes(g, remaining)
  BY <1>2, <1>3 DEF Bytes
<1>11. Bytes(f, taken) \in Seq(Int) /\ Bytes(g, remaining) \in Seq(Int)
  <2> HIDE DEF f, g
  <2> QED
    BY <1>2, <1>3, <1>6, BytesType
<1>12. o = told.out \o Bytes(g, remaining)
  BY <1>10, Zenon
<1>13. fl \in BOOLEAN
  BY Zenon
<1>14. ~fl => ~r.failed /\ intact /\ remaining \in 0..n
  BY <1>2
<1> HIDE DEF byte, acc, f, g, fl
<1>15. w \in Seq(Int)
  BY <1>4, <1>9, <1>11, ConcatProperties
<1> HIDE DEF w
<1>16. /\ sent \in Records /\ sent.wire = w /\ sent.out = r.out
       /\ sent.accepted = acc /\ (sent.failed <=> fl)
  BY <1>8, <1>15, <1>13 DEF Records
<1> HIDE DEF sent
<1>17. told \in Records /\ SameStream(told, sent)
  <2>1. "highWaterMark" \in FunctorNames
    BY DEF FunctorNames
  <2>2. CASE crossed
    BY <1>16, <2>1, <2>2, QueueFields, QuietHandlers
  <2>3. CASE ~crossed
    BY <1>16, <2>3 DEF SameStream
  <2> QED
    BY <2>2, <2>3
<1> HIDE DEF told, o
<1>18. told.out = r.out
  BY <1>16, <1>17 DEF SameStream
<1>19. o = r.out \o Bytes(g, remaining)
  BY <1>12, <1>18, Zenon
<1>20. o \in Seq(Int)
  BY <1>4, <1>11, <1>19, ConcatProperties
<1>21. /\ kept \in Records /\ kept.out = o /\ kept.wire = told.wire
       /\ kept.accepted = told.accepted /\ (kept.failed <=> told.failed)
  BY <1>17, <1>20 DEF Records
<1> HIDE DEF kept
<1>22. d.wire = w /\ d.accepted = acc /\ (d.failed <=> fl)
  <2>1. CASE remaining = 0
    BY <1>1, <1>16, <2>1, QuietHandlers DEF SameStream
  <2>2. CASE remaining # 0
    BY <1>1, <1>16, <1>17, <1>21, <2>2, QuietHandlers DEF SameStream
  <2> QED
    BY <2>1, <2>2
<1>23. d.out = r.out \o Bytes(g, remaining)
  <2>1. CASE remaining = 0
    <3>1. d.out = r.out
      BY <1>1, <1>16, <2>1, QuietHandlers DEF SameStream
    <3>2. Len(Bytes(g, remaining)) = 0
      BY <1>2, <1>6, <2>1, BytesType
    <3>3. Bytes(g, remaining) = <<>>
      BY <1>11, <3>2, EmptySeq
    <3>4. r.out \o <<>> = r.out
      BY <1>4
    <3> QED
      BY <3>1, <3>3, <3>4, Zenon
  <2>2. CASE remaining # 0
    <3>1. d.out = o
      BY <1>1, <1>21, <2>2, QuietHandlers DEF SameStream
    <3> QED
      BY <1>19, <3>1, Zenon
  <2> QED
    BY <2>1, <2>2
<1>24. \A i \in Int : f[i] = IF i = 0 \/ ~intact THEN Garbage
                             ELSE r.accepted + i
  BY <1>7 DEF byte
<1>25. /\ \A i \in Int : g[i] = f[off + i]
       /\ taken = IF off < 0 THEN 0 ELSE off
       /\ d.wire = r.wire \o Bytes(f, taken)
       /\ d.accepted = IF intact THEN r.accepted + n ELSE r.accepted
       /\ ~d.failed => ~r.failed /\ intact /\ remaining \in 0..n
  BY <1>7, <1>9, <1>22, <1>14, Zenon DEF acc, taken
<1> HIDE DEF d
<1>26. Parts(d, r, n, intact, remaining, taken, f, g)
  BY <1>2, <1>3, <1>6, <1>23, <1>24, <1>25, Zenon DEF Parts
<1> QED
  BY <1>26, Zenon DEF d

\* sendInLoop keeps the order, whatever the kernel takes.
LEMMA SendOrder ==
  ASSUME NEW r \in Records, NEW n \in Nat, n < SizeLimit, NEW intact \in BOOLEAN,
         NEW room \in Nat, InOrder(r)
  PROVE  InOrder(SendInLoop(r, n, intact, room))
<1>1. CASE r.state = "DisConnected"
  BY <1>1 DEF SendInLoop
<1>2. CASE r.state # "DisConnected"
  <2>1. PICK d : d = SendInLoop(r, n, intact, room)
    OBVIOUS
  <2>2. PICK left, taken, f, g : Parts(d, r, n, intact, left, taken, f, g)
    BY <1>2, <2>1, SendStream, Zenon
  <2>3. /\ left \in Nat /\ taken \in Nat
        /\ f \in [Int -> Int] /\ g \in [Int -> Int]
        /\ taken = IF n - left < 0 THEN 0 ELSE n - left
        /\ left \in 0..n \/ left = n + 1
    BY <2>2, Zenon DEF Parts
  <2>4. \A i \in Int : g[i] = f[(n - left) + i]
    BY <2>2, Zenon DEF Parts
  <2>5. PICK a \in Nat : a = r.accepted
    BY DEF Records
  <2>6. /\ f[0] = Garbage
        /\ \/ d.accepted = a + n /\ \A i \in 1..n : f[i] = a + i
           \/ d.accepted = a /\ \A i \in 1..n : f[i] = Garbage
    <3>1. \A i \in Int : f[i] = IF i = 0 \/ ~intact THEN Garbage ELSE a + i
      BY <2>2, <2>5, Zenon DEF Parts
    <3>2. d.accepted = IF intact THEN a + n ELSE a
      BY <2>2, <2>5, Zenon DEF Parts
    <3> QED
      BY <3>1, <3>2
  <2>7. PICK b : b = d.accepted
    OBVIOUS
  <2>8. b \in Nat
    BY <2>6, <2>7
  <2>9. PICK w : w = r.wire
    OBVIOUS
  <2>10. PICK o : o = r.out
    OBVIOUS
  <2>11. PICK p : p = Bytes(f, taken)
    OBVIOUS
  <2>12. PICK q : q = Bytes(g, left)
    OBVIOUS
  <2>13. PICK m : m = Bytes(f, n)
    OBVIOUS
  <2>14. w \in Seq(Int) /\ o \in Seq(Int)
    BY <2>9, <2>10 DEF Records
  <2>15. p \in Seq(Int) /\ q \in Seq(Int) /\ m \in Seq(Int)
    BY <2>3, <2>11, <2>12, <2>13, BytesType
  <2>16. taken = 0 => p = <<>>
    <3>1. Len(p) = taken
      BY <2>3, <2>11, BytesType
    <3> QED
      BY <2>15, <3>1, EmptySeq
  <2>17. d.wire \o d.out = (w \o p) \o (o \o q)
    BY <2>2, <2>9, <2>10, <2>11, <2>12, Zenon DEF Parts
  <2>18. p = <<>> \/ o = <<>>
    <3>1. ASSUME o # <<>> PROVE p = <<>>
      <4>1. left = n
        BY <2>2, <2>10, <3>1, Zenon DEF Parts
      <4>2. taken = 0
        BY <2>3, <4>1
      <4> QED
        BY <2>16, <4>2
    <3> QED
      BY <3>1
  <2>19. (w \o p) \o (o \o q) = (w \o o) \o (p \o q)
    <3>1. CASE p = <<>>
      <4>1. w \o p = w /\ p \o q = q
        BY <2>14, <2>15, <3>1
      <4>2. (w \o o) \o q = w \o (o \o q)
        BY <2>14, <2>15, BytesAssoc, ZenonT(40)
      <4> QED
        BY <4>1, <4>2, Zenon
    <3>2. CASE o = <<>>
      <4>1. o \o q = q /\ w \o o = w
        BY <2>14, <2>15, <3>2
      <4>2. (w \o p) \o q = w \o (p \o q)
        BY <2>14, <2>15, BytesAssoc, ZenonT(40)
      <4> QED
        BY <4>1, <4>2, Zenon
    <3> QED
      BY <2>18, <3>1, <3>2, Zenon
  <2>20. PICK s : s = w \o o
    OBVIOUS
  <2>21. s \in Seq(Int)
    BY <2>14, <2>20, ConcatProperties
  <2>22. Without(s, {Garbage}) = UpTo(a)
    BY <2>5, <2>9, <2>10, <2>20, Zenon DEF InOrder
  <2>23. /\ Without(s \o m, {Garbage}) = UpTo(b)
         /\ Without(s \o (<<f[0]>> \o m), {Garbage}) = UpTo(b)
    <3>1. UpTo(a) \o Without(Bytes(f, n), {Garbage}) = UpTo(b)
      <4>1. CASE b = a + n /\ \A i \in 1..n : f[i] = a + i
        BY <2>3, <4>1, BytesAdded
      <4>2. CASE b = a /\ \A i \in 1..n : f[i] = Garbage
        <5>1. Without(Bytes(f, n), {Garbage}) = <<>>
          BY <2>3, <4>2, BytesAdded
        <5>2. UpTo(a) \in Seq(Nat)
          BY UpToNext
        <5>3. UpTo(a) \o <<>> = UpTo(a)
          BY <5>2
        <5> QED
          BY <4>2, <5>1, <5>3, Zenon
      <4> QED
        BY <2>6, <2>7, <4>1, <4>2, Zenon
    <3>2. LET rest == Without(s, {Garbage}) \o Without(m, {Garbage})
          IN  /\ Without(s \o m, {Garbage}) = rest
              /\ Without(s \o (<<Garbage>> \o m), {Garbage}) = rest
      BY <2>15, <2>21, StreamExtended, Zenon
    <3> QED
      BY <2>6, <2>13, <2>22, <3>1, <3>2, Zenon
  <2>24. ASSUME left \in 0..n PROVE p \o q = m
    <3>1. taken \in 0..n /\ n - taken = left /\ taken = n - left
      BY <2>3, <2>24
    <3>2. \A i \in Int : g[i] = f[taken + i]
      BY <2>4, <3>1, Zenon
    <3>3. \A i \in 1..(n - taken) : g[i] = f[taken + i]
      BY <3>2
    <3>4. Bytes(f, n) = Bytes(f, taken) \o Bytes(g, n - taken)
      BY <2>3, <3>1, <3>3, BytesParts
    <3> QED
      BY <2>11, <2>12, <2>13, <3>1, <3>4, Zenon
  <2>25. p \o q = m \/ p \o q = <<f[0]>> \o m
    <3>2. CASE left = n + 1
      <4>1. taken = 0 /\ n - left = -1
        BY <2>3, <3>2
      <4>2. \A i \in 1..(n + 1) : g[i] = f[i - 1]
        <5> TAKE i \in 1..(n + 1)
        <5>1. i \in Int /\ (n - left) + i = i - 1
          BY <4>1
        <5> QED
          BY <2>4, <5>1, Zenon
      <4>3. Bytes(g, n + 1) = <<f[0]>> \o Bytes(f, n)
        BY <2>3, <4>2, BytesFromZero
      <4>4. p \o q = q
        BY <2>15, <2>16, <4>1
      <4> QED
        BY <2>12, <2>13, <3>2, <4>3, <4>4, Zenon
    <3> QED
      BY <2>3, <2>24, <3>2
  <2>26. Without(d.wire \o d.out, {Garbage}) = UpTo(b)
    BY <2>17, <2>19, <2>20, <2>23, <2>25, Zenon
  <2>27. ASSUME ~d.failed PROVE d.wire \o d.out = UpTo(b)
    <3>1. ~r.failed /\ intact /\ left \in 0..n
      BY <2>2, <2>27, Zenon DEF Parts
    <3>2. s = UpTo(a)
      BY <2>5, <2>9, <2>10, <2>20, <3>1, Zenon DEF InOrder
    <3>3. b = a + n /\ \A i \in 1..n : f[i] = a + i
      <4>1. \A i \in Int : f[i] = IF i = 0 \/ ~intact THEN Garbage ELSE a + i
        BY <2>2, <2>5, Zenon DEF Parts
      <4>2. d.accepted = IF intact THEN a + n ELSE a
        BY <2>2, <2>5, Zenon DEF Parts
      <4> QED
        BY <2>7, <3>1, <4>1, <4>2
    <3>4. UpTo(a) \o m = UpTo(b)
      BY <2>3, <2>13, <3>3, BytesAdded
    <3> QED
      BY <2>17, <2>19, <2>20, <2>24, <3>1, <3>2, <3>4, Zenon
  <2> QED
    BY <2>1, <2>7, <2>26, <2>27, Zenon DEF InOrder
<1> QED
  BY <1>1, <1>2

\* handleWrite moves bytes from outputBuffer_ to the kernel.
LEMMA WriteOrder ==
  ASSUME NEW r \in Records, NEW room \in Nat, InOrder(r)
  PROVE  InOrder(HandleWrite(r, room))
<1>1. CASE ~r.wr \/ room = 0
  BY <1>1 DEF HandleWrite
<1>2. CASE r.wr /\ room # 0
  <2> DEFINE k == SendResult(room, Len(r.out))
             p == SubSeq(r.out, 1, k)
             o == SubSeq(r.out, k + 1, Len(r.out))
             w == r.wire \o p
             sent == [r EXCEPT !.wire = w, !.out = o]
             off == DisableWriting(sent)
             done == Queue(off, "writeComplete")
  <2>1. HandleWrite(r, room) =
           IF sent.out # <<>> THEN sent
           ELSE IF r.state = "DisConnecting" THEN ShutdownInLoop(done)
           ELSE done
    BY <1>2 DEF HandleWrite, Drain
  <2>2. r.wire \in Seq(Int) /\ r.out \in Seq(Int) /\ Len(r.out) \in Nat
    BY LenProperties DEF Records
  <2>3. k \in 0..Len(r.out)
    BY <1>2, <2>2 DEF SendResult
  <2> HIDE DEF k
  <2>4. r.out = p \o o /\ p \in Seq(Int) /\ o \in Seq(Int)
    BY <2>2, <2>3, InTwoParts
  <2> HIDE DEF p, o
  <2>5. w \in Seq(Int)
    BY <2>2, <2>4, ConcatProperties
  <2>6. w \o o = r.wire \o (p \o o)
    BY <2>2, <2>4, BytesAssoc, Zenon
  <2>7. w \o o = r.wire \o r.out
    BY <2>4, <2>6, Zenon
  <2> HIDE DEF w
  <2>8. /\ sent \in Records /\ sent.wire = w /\ sent.out = o
        /\ sent.accepted = r.accepted /\ (sent.failed <=> r.failed)
    BY <2>4, <2>5 DEF Records
  <2> HIDE DEF sent
  <2>9. InOrder(sent)
    BY <2>7, <2>8, Zenon DEF InOrder
  <2>10. off \in Records /\ SameStream(off, sent)
    BY <2>8, InterestFields, QuietHandlers
  <2> HIDE DEF off
  <2>11. done \in Records /\ SameStream(done, off)
    <3>1. "writeComplete" \in FunctorNames
      BY DEF FunctorNames
    <3> QED
      BY <2>10, <3>1, QueueFields, QuietHandlers
  <2> HIDE DEF done
  <2>12. InOrder(done)
    BY <2>9, <2>10, <2>11, OrderKept
  <2>13. InOrder(ShutdownInLoop(done))
    BY <2>11, <2>12, OrderKept, QuietHandlers
  <2> QED
    BY <2>1, <2>9, <2>12, <2>13
<1> QED
  BY <1>1, <1>2

\* The message callback.
LEMMA MessageOrder ==
  ASSUME NEW r \in Records, NEW app \in Applications, app.n < SizeLimit,
         InOrder(r)
  PROVE  InOrder(MessageCallback(r, app))
<1> DEFINE b == IF app.n = 0 THEN r ELSE Send(r, app.n, app.room)
<1>1. app.n \in Nat /\ app.room \in Nat
      /\ app.then \in {"stay", "shutdown", "forceClose"}
  BY DEF Applications
<1>2. b = r \/ b = SendInLoop(r, app.n, TRUE, app.room)
  BY DEF Send
<1>3. b \in Records /\ InOrder(b)
  <2>1. CASE b = r
    BY <2>1
  <2>2. CASE b = SendInLoop(r, app.n, TRUE, app.room)
    <3>1. TRUE \in BOOLEAN
      OBVIOUS
    <3>2. Sent(b, r, app.n, TRUE)
      BY <1>1, <2>2, <3>1, SendFields
    <3>3. InOrder(b)
      BY <1>1, <2>2, <3>1, SendOrder
    <3> HIDE DEF b
    <3> QED
      BY <3>2, <3>3 DEF Sent
  <2> QED
    BY <1>2, <2>1, <2>2
<1>4. MessageCallback(r, app) =
         CASE app.then = "stay"       -> b
           [] app.then = "shutdown"   -> Shutdown(b)
           [] app.then = "forceClose" -> ForceClose(b)
  BY DEF MessageCallback
<1> HIDE DEF b
<1>5. MessageCallback(r, app) \in {b, Shutdown(b), ForceClose(b)}
  BY <1>1, <1>4
<1>6. InOrder(Shutdown(b)) /\ InOrder(ForceClose(b))
  BY <1>3, OrderKept, QuietHandlers
<1> QED
  BY <1>3, <1>5, <1>6

\* Channel::handleEvent.
LEMMA EventOrder ==
  ASSUME NEW r \in Records, NEW revents, NEW got \in {"data", "eof", "error"},
         NEW app \in Applications, app.n < SizeLimit, NEW room \in Nat,
         InOrder(r)
  PROVE  InOrder(HandleEvent(r, revents, got, app, room))
<1> DEFINE hup == IF "HUP" \in revents /\ "IN" \notin revents
                  THEN HandleClose(r) ELSE r
           read == IF "IN" \in revents THEN HandleRead(hup, got, app) ELSE hup
<1>1. HandleEvent(r, revents, got, app, room) =
         IF "OUT" \in revents THEN HandleWrite(read, room) ELSE read
  BY DEF HandleEvent
<1>2. hup \in Records /\ InOrder(hup)
  <2>1. HandleClose(r) \in Records /\ InOrder(HandleClose(r))
    BY CloseFields, OrderKept, QuietHandlers
  <2> QED
    BY <2>1
<1> HIDE DEF hup
<1>3. HandleRead(hup, got, app) \in
         {MessageCallback(hup, app), HandleClose(hup), hup}
  BY DEF HandleRead
<1>4. HandleClose(hup) \in Records /\ InOrder(HandleClose(hup))
  BY <1>2, CloseFields, OrderKept, QuietHandlers
<1>5. /\ MessageCallback(hup, app) \in Records
      /\ InOrder(MessageCallback(hup, app))
  BY <1>2, MessageTypes, MessageOrder
<1>6. read \in Records /\ InOrder(read)
  BY <1>2, <1>3, <1>4, <1>5
<1> HIDE DEF read
<1> QED
  BY <1>1, <1>6, WriteOrder

\* One connection's record changes.
LEMMA OneStream ==
  ASSUME StreamInOrder, conn \in [Conns -> Records], NEW c \in Conns, NEW e,
         InOrder(e), conn' = [conn EXCEPT ![c] = e]
  PROVE  StreamInOrder'
<1> SUFFICES ASSUME NEW x \in Conns PROVE InOrder(conn'[x])
  BY DEF StreamInOrder, InOrder
<1>1. InOrder(conn[x])
  BY DEF StreamInOrder, InOrder
<1>2. conn'[x] = conn[x] \/ conn'[x] = e
  OBVIOUS
<1> QED
  BY <1>1, <1>2, Zenon

\* No record changes.
LEMMA SameStreams ==
  ASSUME StreamInOrder, UNCHANGED conn
  PROVE  StreamInOrder'
  BY DEF StreamInOrder

\* A handler that kept the order has run.
LEMMA CommitOrder ==
  ASSUME StreamInOrder, conn \in [Conns -> Records], NEW c \in Conns,
         NEW r \in Records, InOrder(r), Commit(c, r) \/ CommitIfAlive(c, r)
  PROVE  StreamInOrder'
<1> DEFINE e == [r EXCEPT !.queued = <<>>]
<1>1. CASE Commit(c, r)
  <2>1. conn' = [conn EXCEPT ![c] = e]
    BY <1>1 DEF Commit
  <2>2. SameStream(e, r)
    BY DEF Records, SameStream
  <2> HIDE DEF e
  <2>3. InOrder(e)
    BY <2>2, OrderKept
  <2> QED
    BY <2>1, <2>3, OneStream
<1>2. CASE CommitIfAlive(c, r) /\ Destroyed(c)
  BY <1>2, SameStreams DEF CommitIfAlive
<1>3. CASE CommitIfAlive(c, r) /\ ~Destroyed(c)
  BY <1>1, <1>3 DEF CommitIfAlive
<1> QED
  BY <1>1, <1>2, <1>3

\* A connection's stream begins empty.
LEMMA NewStreams ==
  InOrder(NewConnection) /\ InOrder(NoConnection)
<1>1. /\ NewConnection.wire = <<>> /\ NewConnection.out = <<>>
      /\ NewConnection.accepted = 0 /\ ~NewConnection.failed
  BY DEF NewConnection
<1>2. SameStream(NoConnection, NewConnection)
  BY DEF NewConnection, NoConnection, SameStream
<1>3. <<>> \o <<>> = <<>>
  OBVIOUS
<1>4. Without(<<>>, {Garbage}) = <<>>
  BY WithoutEmpty
<1>5. UpTo(0) = <<>>
  <2>1. 0 \in Nat
    OBVIOUS
  <2> QED
    BY <2>1, UpToNext
<1>6. InOrder(NewConnection)
  BY <1>1, <1>3, <1>4, <1>5, Zenon DEF InOrder
<1> QED
  BY <1>2, <1>6, OrderKept

\* The handlers of a loop's turn.
LEMMA LoopOrder ==
  ASSUME TypeInv, StreamInOrder, NEW l \in Loops, LoopStep(l)
  PROVE  StreamInOrder'
<1>1. /\ conn \in [Conns -> Records]
      /\ \A c \in Conns : conn[c] \in Records /\ InOrder(conn[c])
  BY DEF TypeInv, ConnTypes, StreamInOrder, InOrder
<1>2. CASE Poll(l) \/ EventsDone(l) \/ FunctorsDone(l)
  BY <1>2, SameStreams DEF Poll, EventsDone, FunctorsDone, connVars
<1>3. ASSUME NEW c \in Conns, Accept(c)
      PROVE  StreamInOrder'
  <2> DEFINE e == ConnectEstablished(NewConnection)
  <2>1. InOrder(e)
    BY NewRecords, NewStreams, OrderKept, QuietHandlers
  <2>2. \/ conn' = [conn EXCEPT ![c] = e]
        \/ conn' = [conn EXCEPT ![c] = NewConnection]
    BY <1>3 DEF Accept
  <2> HIDE DEF e
  <2> QED
    BY <1>1, <2>1, <2>2, NewStreams, OneStream
<1>4. ASSUME NEW c \in Conns, AcceptFails(c)
      PROVE  StreamInOrder'
  BY <1>4, SameStreams DEF AcceptFails
<1>5. ASSUME NEW c \in Conns, HandleChannel(c)
      PROVE  StreamInOrder'
  <2>1. PICK n \in 0..MaxMessage, then \in AppMoves, room1 \in Room(c),
             room2 \in Room(c) :
           CommitIfAlive(c, HandleEvent(conn[c], active[loopOf[c]][c], Got(c),
                 [n |-> n, room |-> room1, then |-> then], room2))
    BY <1>5 DEF HandleChannel
  <2> DEFINE app == [n |-> n, room |-> room1, then |-> then]
             e == HandleEvent(conn[c], active[loopOf[c]][c], Got(c), app, room2)
  <2>2. n \in Nat /\ n < SizeLimit
    BY MessageLengths
  <2>3. app \in Applications /\ app.n < SizeLimit /\ room2 \in Nat
    BY <2>2, KernelAnswers, TcpServerAssumption DEF Applications
  <2>4. e \in Records /\ InOrder(e)
    <3> HIDE DEF app
    <3>1. Got(c) \in {"data", "eof", "error"}
      BY KernelAnswers
    <3>2. e \in Records
      BY <1>1, <2>3, <3>1, EventTypes
    <3>3. InOrder(e)
      BY <1>1, <2>3, <3>1, EventOrder
    <3> QED
      BY <3>2, <3>3
  <2>5. CommitIfAlive(c, e)
    BY <2>1
  <2> HIDE DEF e
  <2> QED
    BY <1>1, <2>4, <2>5, CommitOrder
<1>6. CASE RunFunctor(l)
  <2> DEFINE f == Head(list[l])
             c == f.c
  <2>1. f \in Functors
    BY <1>6, HeadTailProperties DEF RunFunctor, TypeInv, ListTypes
  <2> HIDE DEF f
  <2>2. f.fn \in FunctorNames /\ c \in Conns
    BY <2>1 DEF Functors
  <2>3. CASE f.fn = "removeConnectionInLoop"
    BY <1>6, <2>3, SameStreams DEF RunFunctor, f
  <2>4. CASE f.fn = "sendInLoop"
    <3>1. RunSend(c)
      BY <1>6, <2>4 DEF RunFunctor, f
    <3>2. PICK intact \in BOOLEAN, room \in Room(c) :
             CommitIfAlive(c, SendInLoop(conn[c], 1, intact, room))
      BY <3>1 DEF RunSend
    <3> DEFINE e == SendInLoop(conn[c], 1, intact, room)
    <3> HIDE DEF c
    <3>3. room \in Nat /\ 1 \in Nat /\ 1 < SizeLimit
      BY <2>2, KernelAnswers, SizeLimitType
    <3>4. Sent(e, conn[c], 1, intact)
      BY <1>1, <2>2, <3>3, SendFields
    <3>5. InOrder(e)
      BY <1>1, <2>2, <3>3, SendOrder
    <3> HIDE DEF e
    <3>6. e \in Records
      BY <3>4 DEF Sent
    <3> QED
      BY <1>1, <2>2, <3>2, <3>5, <3>6, CommitOrder DEF e
  <2>5. CASE f.fn \notin {"removeConnectionInLoop", "sendInLoop"}
    <3> DEFINE e == Run(conn[c], f.fn)
    <3>1. CommitIfAlive(c, e)
      BY <1>6, <2>5 DEF RunFunctor, f
    <3>2. e \in {ConnectEstablished(conn[c]), ConnectDestroyed(conn[c]),
                 StartReadInLoop(conn[c]), StopReadInLoop(conn[c]),
                 ShutdownInLoop(conn[c]), ForceCloseInLoop(conn[c])}
      BY <2>2, <2>5 DEF Run, FunctorNames
    <3> HIDE DEF e, c
    <3>3. e \in Records
      BY <1>1, <2>2, <3>2, EstablishedFields, DestroyedFields, ReadFields,
         ShutdownInLoopFields, ForceCloseFields
    <3>4. SameStream(e, conn[c])
      BY <1>1, <2>2, <3>2, QuietHandlers
    <3>5. InOrder(e)
      BY <1>1, <2>2, <3>4, OrderKept
    <3> QED
      BY <1>1, <2>2, <3>1, <3>3, <3>5, CommitOrder
  <2> QED
    BY <2>3, <2>4, <2>5
<1>7. ASSUME NEW c \in Conns, SignalPipe(c)
      PROVE  StreamInOrder'
  BY <1>7, SameStreams DEF SignalPipe, connVars
<1> QED
  BY <1>2, <1>3, <1>4, <1>5, <1>6, <1>7 DEF LoopStep

\* The other steps.
LEMMA CallOrder ==
  ASSUME TypeInv, StreamInOrder,
         (\E c \in Conns : PeerStep(c) \/ AppStep(c)) \/ ForeignSets
            \/ ForeignQueues
  PROVE  StreamInOrder'
<1>1. /\ conn \in [Conns -> Records]
      /\ \A c \in Conns : conn[c] \in Records /\ InOrder(conn[c])
  BY DEF TypeInv, ConnTypes, StreamInOrder, InOrder
<1>2. ASSUME NEW c \in Conns, PeerStep(c)
      PROVE  StreamInOrder'
  BY <1>2, SameStreams DEF PeerStep, PeerConnects, PeerSends, PeerCloses,
     PeerResets, envUnchanged
<1>3. ASSUME NEW c \in Conns, IdleShutdown(c)
      PROVE  StreamInOrder'
  <2>1. Commit(c, Shutdown(conn[c])) /\ Shutdown(conn[c]) \in Records
    BY <1>1, <1>3, ShutdownFields DEF IdleShutdown
  <2>2. InOrder(Shutdown(conn[c]))
    BY <1>1, OrderKept, QuietHandlers
  <2> QED
    BY <1>1, <2>1, <2>2, CommitOrder
<1>4. ASSUME NEW c \in Conns, DelayFires(c)
      PROVE  StreamInOrder'
  <2>1. CommitIfAlive(c, ForceClose(conn[c])) /\ ForceClose(conn[c]) \in Records
    BY <1>1, <1>4, ForceCloseFields DEF DelayFires
  <2>2. InOrder(ForceClose(conn[c]))
    BY <1>1, OrderKept, QuietHandlers
  <2> QED
    BY <1>1, <2>1, <2>2, CommitOrder
<1>5. ASSUME NEW c \in Conns,
             \/ ForceCloseWithDelay(c)
             \/ \E fn \in {"sendInLoop", "shutdownInLoop",
                           "forceCloseInLoop"} : ForeignTests(c, fn)
      PROVE  StreamInOrder'
  BY <1>5, SameStreams DEF ForceCloseWithDelay, ForeignTests, connVars
<1>6. CASE ForeignSets
  <2> DEFINE e == [conn[foreign.c] EXCEPT !.state = "DisConnecting"]
  <2>1. foreign \in ForeignCalls
    BY <1>6 DEF ForeignSets, TypeInv, CallTypes, NoCall
  <2>2. foreign.c \in Conns
    BY <2>1 DEF ForeignCalls
  <2>3. conn' = [conn EXCEPT ![foreign.c] = e]
    BY <1>6 DEF ForeignSets
  <2>4. conn[foreign.c] \in Records /\ InOrder(conn[foreign.c])
    BY <1>1, <2>2
  <2>5. SameStream(e, conn[foreign.c])
    BY <2>4 DEF Records, SameStream
  <2> HIDE DEF e
  <2>6. InOrder(e)
    BY <2>4, <2>5, OrderKept
  <2> QED
    BY <1>1, <2>2, <2>3, <2>6, OneStream
<1>7. CASE ForeignQueues
  BY <1>7, SameStreams DEF ForeignQueues, connVars
<1> QED
  BY <1>2, <1>3, <1>4, <1>5, <1>6, <1>7 DEF AppStep

\* Whoever calls, and however ::send splits the messages: the bytes that the
\* application sent leave in the order in which it sent them, none lost or
\* doubled, and without a byte that nobody asked to send until a ::send of
\* sendInLoop fails or finds its message gone.
THEOREM StreamsKeepOrder == Spec => []StreamInOrder
<1>1. Init => StreamInOrder
  <2> SUFFICES ASSUME Init PROVE StreamInOrder
    OBVIOUS
  <2>1. \A c \in Conns : conn[c] = NoConnection
    BY DEF Init
  <2> QED
    BY <2>1, NewStreams, Zenon DEF StreamInOrder, InOrder
<1>2. TypeInv /\ StreamInOrder /\ [Next]_vars => StreamInOrder'
  <2> SUFFICES ASSUME TypeInv, StreamInOrder, [Next]_vars
               PROVE  StreamInOrder'
    OBVIOUS
  <2>1. CASE UNCHANGED vars
    BY <2>1, SameStreams DEF vars
  <2>2. CASE Next
    BY <2>1, <2>2, LoopOrder, CallOrder DEF Next, Lives
  <2> QED
    BY <2>1, <2>2
<1> QED
  BY <1>1, <1>2, TypeInvariant, PTL DEF Spec

=============================================================================
