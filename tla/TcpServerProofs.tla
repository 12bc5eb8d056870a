-------------------------- MODULE TcpServerProofs --------------------------
(***************************************************************************)
(* Proofs about TcpServer: its types for any callers, and the lives of the *)
(* connections when they are called as the HTTP server calls them, for any *)
(* number of connections, io loops and bytes.                              *)
(***************************************************************************)
EXTENDS TcpServer, SequenceTheorems, TLAPS

-----------------------------------------------------------------------------
(* The inductive invariant of the types                                    *)

\* A connection's record, also in the middle of a handler.
Records ==
    [state : States, reading : BOOLEAN, index : {"new", "added", "deleted"},
     rd : BOOLEAN, wr : BOOLEAN, out : Seq(Int), fin : BOOLEAN,
     queued : Seq(FunctorNames), accepted : Nat, wire : Seq(Int),
     failed : BOOLEAN, ups : Nat, downs : Nat, closes : Nat]

Functors == [fn : FunctorNames, c : Conns]

Sockets == [peer : {"none", "open", "fin", "rst", "refused"},
            unread : Nat, sent : Nat, err : BOOLEAN]

ForeignCalls == [at : {"tested", "set"}, c : Conns,
                 fn : {"sendInLoop", "shutdownInLoop", "forceCloseInLoop"}]

ConnTypes ==
    /\ conn \in [Conns -> Records]
    /\ \A c \in Conns :
          conn[c].queued = <<>> /\ conn[c].accepted \in 0..MaxBytes

SockTypes ==
    /\ sock \in [Conns -> Sockets]
    /\ \A c \in Conns :
          sock[c].unread <= sock[c].sent /\ sock[c].sent <= MaxRequests

QueueTypes ==
    /\ pending \in [Loops -> Seq(Functors)]
    /\ connections \subseteq Conns
    /\ removals \in [Conns -> Nat]

LoopTypes ==
    /\ phase \in [Loops -> {"poll", "events", "functors"}]
    /\ active \in [Loops -> [Conns -> SUBSET Events]]
    /\ acceptReady \in BOOLEAN

ListTypes ==
    /\ list \in [Loops -> Seq(Functors)]
    /\ held \in [Loops -> SUBSET Conns]

ServTypes ==
    /\ pool \in Pools /\ callers \in CallerSets
    /\ loopOf \in [Conns -> Loops]
    /\ next \in Nat /\ (next = 0 \/ next < Len(pool))
    /\ killed \in BOOLEAN

CallTypes ==
    /\ foreign = NoCall \/ foreign \in ForeignCalls
    /\ timers \subseteq Conns
    /\ calls \in 0..MaxCalls

TypeInv ==
    /\ ConnTypes /\ SockTypes /\ QueueTypes /\ LoopTypes /\ ListTypes
    /\ ServTypes /\ CallTypes
    /\ misuse \subseteq Conns

-----------------------------------------------------------------------------
(* The inductive invariant of the connections' lives                       *)

\* The calls HttpServer makes: its message callback replies and shuts down,
\* and nobody but the timing wheel calls a connection from elsewhere.
HttpCalls ==
    /\ AppMoves \subseteq {"stay", "shutdown"}
    /\ \A callerSet \in CallerSets : callerSet \subseteq {"idle"}

Live(r) == r.state \in {"Connected", "DisConnecting"}

Callbacks == {"writeComplete", "highWaterMark"}

\* The functors that a loop has still to run, in their order.
Waiting(l) == list[l] \o pending[l]

\* x is in the sequence s once at most.
Once(s, x) == \A i, j \in 1..Len(s) : s[i] = x /\ s[j] = x => i = j

\* Wherever x is in s, y comes later.
Followed(s, x, y) ==
    \A i \in 1..Len(s) : s[i] = x =>
        \E j \in 1..Len(s) : i < j /\ s[j] = y

\* Every y in s comes before every x.
Before(s, x, y) == \A i, j \in 1..Len(s) : s[i] = x /\ s[j] = y => j < i

\* What a connection's own fields say about each other between two handlers:
\* writing is enabled exactly while output waits, the FIN goes out after the
\* last byte, a channel that is closed is disabled and the poller knows it as
\* deleted, and the callbacks were called as often as state_ says.
Sound(r) ==
    /\ r.state \in {"None", "Connecting"} =>
          /\ r.index = "new" /\ ~r.rd /\ ~r.wr /\ ~r.fin /\ r.out = <<>>
          /\ r.ups = 0 /\ r.downs = 0 /\ r.closes = 0
    /\ Live(r) => /\ r.wr <=> r.out # <<>>
                  /\ r.ups = 1 /\ r.downs = 0 /\ r.closes = 0
    /\ r.state = "DisConnected" =>
          /\ ~r.rd /\ ~r.wr /\ r.index # "added"
          /\ r.ups = 1 /\ r.downs = 1 /\ r.closes = 1
    /\ r.fin => r.out = <<>> /\ r.state # "Connected"

\* What the HTTP server never makes happen.
NoForeignCalls ==
    callers \subseteq {"idle"} /\ timers = {} /\ foreign = NoCall /\ misuse = {}

\* The snapshot is not stale: a loop's own handlers and functors cannot have
\* closed a connection whose events it has still to handle.
SnapshotsFresh ==
    \A l \in Loops, c \in Conns : active[l][c] # {} =>
        /\ l = loopOf[c] /\ phase[l] = "events"
        /\ Live(conn[c]) /\ conn[c].index = "added"

\* The functors of a turn are all run in it.
ListsRun == \A l \in Loops : phase[l] # "functors" => list[l] = <<>>

\* A waiting functor finds its connection in the state it is meant for.
FunctorOK(f, l) ==
    /\ f.fn \in Callbacks \union {"connectEstablished", "connectDestroyed",
                                  "removeConnectionInLoop"}
    /\ f.fn # "removeConnectionInLoop" => l = loopOf[f.c]
    /\ f.fn = "connectEstablished" => conn[f.c].state = "Connecting"
    /\ f.fn \in Callbacks => Live(conn[f.c])
    /\ f.fn = "connectDestroyed" => conn[f.c].state = "DisConnected"
    /\ f.fn = "removeConnectionInLoop" =>
          /\ l = "main" /\ loopOf[f.c] # "main"
          /\ conn[f.c].state = "DisConnected" /\ removals[f.c] = 0

FunctorsInTime ==
    \A l \in Loops : \A f \in Range(Waiting(l)) : FunctorOK(f, l)

\* A connection is established and removed once.
FunctorsOnce ==
    \A l \in Loops, c \in Conns :
        /\ Once(Waiting(l), Functor(c)["connectEstablished"])
        /\ Once(Waiting(l), Functor(c)["removeConnectionInLoop"])

\* The write-complete and high-water callbacks are queued by the handlers of a
\* turn and run in the same turn.
CallbacksInTurn ==
    \A l \in Loops : \A f \in Range(pending[l]) :
        f.fn \in Callbacks => phase[l] = "events" /\ active[l][f.c] = {}

\* connections_ holds every connection that is not closed, and a closed one is
\* on its way to connectDestroyed until its channel has been removed.
Owned(c) ==
    /\ conn[c].state \notin {"None", "DisConnected"} => c \in connections
    /\ removals[c] <= 1
    /\ conn[c].state # "DisConnected" => removals[c] = 0
    /\ conn[c].state = "DisConnected" /\ conn[c].index # "new" =>
          \/ Functor(c)["connectDestroyed"] \in Range(Waiting(loopOf[c]))
          \/ Functor(c)["removeConnectionInLoop"] \in Range(Waiting("main"))

\* A paused connection will be resumed, and one that is about to be paused
\* will be so before the resumption.
Resumed(c) ==
    Live(conn[c]) /\ ~conn[c].wr =>
        /\ ~conn[c].rd =>
              Functor(c)["writeComplete"] \in Range(Waiting(loopOf[c]))
        /\ Followed(Waiting(loopOf[c]), Functor(c)["highWaterMark"],
                    Functor(c)["writeComplete"])

LifeInv ==
    /\ NoForeignCalls
    /\ \A c \in Conns : Sound(conn[c]) /\ Owned(c) /\ Resumed(c)
    /\ SnapshotsFresh /\ ListsRun /\ CallbacksInTurn
    /\ FunctorsInTime /\ FunctorsOnce

-----------------------------------------------------------------------------
(* The handlers: what they do to a record                                  *)

\* What no change of the interest set touches.
Kept(d, r) ==
    /\ d.state = r.state /\ d.out = r.out /\ d.fin = r.fin
    /\ d.queued = r.queued /\ d.accepted = r.accepted
    /\ d.ups = r.ups /\ d.downs = r.downs /\ d.closes = r.closes

\* updateChannel touches the channel's index alone.
LEMMA UpdateFields ==
  ASSUME NEW r \in Records
  PROVE  LET d == Update(r)
         IN  /\ d \in Records /\ Kept(d, r)
             /\ d.rd = r.rd /\ d.wr = r.wr
             /\ d.index = IF r.index = "added" /\ ~r.rd /\ ~r.wr
                          THEN "deleted" ELSE "added"
<1> DEFINE ix == IF r.index = "added" /\ ~r.rd /\ ~r.wr
                 THEN "deleted" ELSE "added"
           d == [r EXCEPT !.index = ix]
<1>1. ix \in {"new", "added", "deleted"} /\ Update(r) = d
  BY DEF Update
<1> HIDE DEF ix
<1>2. d \in Records /\ d.index = ix
  BY <1>1 DEF Records
<1>3. d.rd = r.rd /\ d.wr = r.wr /\ Kept(d, r)
  BY DEF Records, Kept
<1> QED
  BY <1>1, <1>2, <1>3 DEF ix

\* The calls that change what a channel is interested in.
LEMMA InterestFields ==
  ASSUME NEW r \in Records
  PROVE  /\ LET d == EnableReading(r)
            IN  /\ d \in Records /\ Kept(d, r)
                /\ d.rd /\ d.wr = r.wr /\ d.index = "added"
         /\ LET d == DisableReading(r)
            IN  /\ d \in Records /\ Kept(d, r) /\ ~d.rd /\ d.wr = r.wr
                /\ d.index # "new"
         /\ LET d == EnableWriting(r)
            IN  /\ d \in Records /\ Kept(d, r) /\ d.wr /\ d.rd = r.rd
                /\ d.index # "new"
         /\ LET d == DisableWriting(r)
            IN  /\ d \in Records /\ Kept(d, r) /\ ~d.wr /\ d.rd = r.rd
                /\ d.index # "new"
         /\ LET d == DisableAll(r)
            IN  /\ d \in Records /\ Kept(d, r) /\ ~d.rd /\ ~d.wr
                /\ d.index = IF r.index = "added" THEN "deleted" ELSE "added"
<1>1. LET b == [r EXCEPT !.rd = TRUE]
      IN  b \in Records /\ Kept(b, r) /\ b.rd /\ b.wr = r.wr
  BY DEF Records, Kept
<1>2. LET b == [r EXCEPT !.rd = FALSE]
      IN  b \in Records /\ Kept(b, r) /\ ~b.rd /\ b.wr = r.wr
  BY DEF Records, Kept
<1>3. LET b == [r EXCEPT !.wr = TRUE]
      IN  b \in Records /\ Kept(b, r) /\ b.wr /\ b.rd = r.rd
  BY DEF Records, Kept
<1>4. LET b == [r EXCEPT !.wr = FALSE]
      IN  b \in Records /\ Kept(b, r) /\ ~b.wr /\ b.rd = r.rd
  BY DEF Records, Kept
<1>5. LET b == [r EXCEPT !.rd = FALSE, !.wr = FALSE]
      IN  /\ b \in Records /\ Kept(b, r) /\ ~b.rd /\ ~b.wr
          /\ b.index = r.index
  BY DEF Records, Kept
<1>6. ASSUME NEW b \in Records, Kept(b, r)
      PROVE  /\ Update(b) \in Records /\ Kept(Update(b), r)
             /\ Update(b).rd = b.rd /\ Update(b).wr = b.wr
             /\ Update(b).index = IF b.index = "added" /\ ~b.rd /\ ~b.wr
                                  THEN "deleted" ELSE "added"
  BY <1>6, UpdateFields DEF Kept
<1>7. LET d == EnableReading(r)
      IN  /\ d \in Records /\ Kept(d, r)
          /\ d.rd /\ d.wr = r.wr /\ d.index = "added"
  BY <1>1, <1>6 DEF EnableReading
<1>8. LET d == DisableReading(r)
      IN  /\ d \in Records /\ Kept(d, r) /\ ~d.rd /\ d.wr = r.wr
          /\ d.index # "new"
  BY <1>2, <1>6 DEF DisableReading
<1>9. LET d == EnableWriting(r)
      IN  /\ d \in Records /\ Kept(d, r) /\ d.wr /\ d.rd = r.rd
          /\ d.index # "new"
  BY <1>3, <1>6 DEF EnableWriting
<1>10. LET d == DisableWriting(r)
       IN  /\ d \in Records /\ Kept(d, r) /\ ~d.wr /\ d.rd = r.rd
           /\ d.index # "new"
  BY <1>4, <1>6 DEF DisableWriting
<1>11. LET d == DisableAll(r)
       IN  /\ d \in Records /\ Kept(d, r) /\ ~d.rd /\ ~d.wr
           /\ d.index = IF r.index = "added" THEN "deleted" ELSE "added"
  BY <1>5, <1>6 DEF DisableAll
<1> QED
  BY <1>7, <1>8, <1>9, <1>10, <1>11

\* queueInLoop from within a handler.
LEMMA QueueFields ==
  ASSUME NEW r \in Records, NEW fn \in FunctorNames
  PROVE  LET d == Queue(r, fn)
         IN  /\ d \in Records /\ d.queued = Append(r.queued, fn)
             /\ d.state = r.state /\ d.out = r.out /\ d.fin = r.fin
             /\ d.accepted = r.accepted /\ d.ups = r.ups
             /\ d.downs = r.downs /\ d.closes = r.closes
             /\ d.rd = r.rd /\ d.wr = r.wr /\ d.index = r.index
<1> DEFINE q == Append(r.queued, fn)
           d == [r EXCEPT !.queued = q]
<1>1. q \in Seq(FunctorNames) /\ Queue(r, fn) = d
  BY AppendProperties DEF Records, Queue
<1> HIDE DEF q
<1>2. d \in Records /\ d.queued = q
  BY <1>1 DEF Records
<1>3. /\ d.state = r.state /\ d.out = r.out /\ d.fin = r.fin
      /\ d.accepted = r.accepted /\ d.ups = r.ups
      /\ d.downs = r.downs /\ d.closes = r.closes
      /\ d.rd = r.rd /\ d.wr = r.wr /\ d.index = r.index
  BY DEF Records
<1> QED
  BY <1>1, <1>2, <1>3 DEF q

\* connectEstablished().
LEMMA EstablishedFields ==
  ASSUME NEW r \in Records
  PROVE  LET d == ConnectEstablished(r)
         IN  /\ d \in Records /\ d.state = "Connected"
             /\ d.rd /\ d.wr = r.wr /\ d.index = "added"
             /\ d.out = r.out /\ d.fin = r.fin /\ d.queued = r.queued
             /\ d.accepted = r.accepted /\ d.ups = r.ups + 1
             /\ d.downs = r.downs /\ d.closes = r.closes
<1> DEFINE b == [r EXCEPT !.state = "Connected"]
           e == EnableReading(b)
           d == [e EXCEPT !.ups = @ + 1]
<1>1. /\ b \in Records /\ b.state = "Connected" /\ b.wr = r.wr
      /\ b.out = r.out /\ b.fin = r.fin /\ b.queued = r.queued
      /\ b.accepted = r.accepted /\ b.ups = r.ups
      /\ b.downs = r.downs /\ b.closes = r.closes
  BY DEF Records, States
<1> HIDE DEF b
<1>2. /\ e \in Records /\ Kept(e, b) /\ e.rd /\ e.wr = b.wr
      /\ e.index = "added"
  BY <1>1, InterestFields
<1>3. ConnectEstablished(r) = d
  BY DEF ConnectEstablished, b
<1> HIDE DEF e
<1>4. /\ d \in Records /\ d.state = e.state /\ d.rd = e.rd
      /\ d.wr = e.wr /\ d.index = e.index /\ d.out = e.out
      /\ d.fin = e.fin /\ d.queued = e.queued /\ d.accepted = e.accepted
      /\ d.ups = e.ups + 1 /\ d.downs = e.downs /\ d.closes = e.closes
  <2>1. e.ups + 1 \in Nat
    BY <1>2 DEF Records
  <2>2. d \in Records
    BY <1>2, <2>1 DEF Records
  <2> QED
    BY <1>2, <2>2 DEF Records
<1> HIDE DEF d
<1> QED
  BY <1>1, <1>2, <1>3, <1>4 DEF Kept

\* handleClose().
LEMMA CloseFields ==
  ASSUME NEW r \in Records
  PROVE  LET d == HandleClose(r)
         IN  /\ d \in Records /\ d.state = "DisConnected"
             /\ ~d.rd /\ ~d.wr
             /\ d.index = IF r.index = "added" THEN "deleted" ELSE "added"
             /\ d.out = r.out /\ d.fin = r.fin /\ d.queued = r.queued
             /\ d.accepted = r.accepted /\ d.ups = r.ups
             /\ d.downs = r.downs + 1 /\ d.closes = r.closes + 1
<1> DEFINE b == [r EXCEPT !.state = "DisConnected"]
           e == DisableAll(b)
           d == [e EXCEPT !.downs = @ + 1, !.closes = @ + 1]
<1>1. /\ b \in Records /\ b.state = "DisConnected" /\ b.index = r.index
      /\ b.out = r.out /\ b.fin = r.fin /\ b.queued = r.queued
      /\ b.accepted = r.accepted /\ b.ups = r.ups
      /\ b.downs = r.downs /\ b.closes = r.closes
  BY DEF Records, States
<1> HIDE DEF b
<1>2. /\ e \in Records /\ Kept(e, b) /\ ~e.rd /\ ~e.wr
      /\ e.index = IF b.index = "added" THEN "deleted" ELSE "added"
  BY <1>1, InterestFields
<1>3. HandleClose(r) = d
  BY DEF HandleClose, b
<1> HIDE DEF e
<1>4. /\ d \in Records /\ d.state = e.state /\ d.rd = e.rd
      /\ d.wr = e.wr /\ d.index = e.index /\ d.out = e.out
      /\ d.fin = e.fin /\ d.queued = e.queued /\ d.accepted = e.accepted
      /\ d.ups = e.ups /\ d.downs = e.downs + 1 /\ d.closes = e.closes + 1
  <2>1. e.downs + 1 \in Nat /\ e.closes + 1 \in Nat
    BY <1>2, SMTT(30) DEF Records
  <2>2. d \in Records
    BY <1>2, <2>1 DEF Records
  <2> QED
    BY <1>2, <2>2 DEF Records
<1> HIDE DEF d
<1> QED
  BY <1>1, <1>2, <1>3, <1>4 DEF Kept

\* connectDestroyed(); a closed connection only loses its channel.
LEMMA DestroyedFields ==
  ASSUME NEW r \in Records
  PROVE  LET d == ConnectDestroyed(r)
         IN  /\ d \in Records /\ d.accepted = r.accepted
             /\ d.queued = r.queued
             /\ r.state # "Connected" =>
                   /\ Kept(d, r) /\ d.rd = r.rd /\ d.wr = r.wr
                   /\ d.index = "new"
<1> DEFINE b == [r EXCEPT !.state = "DisConnected"]
           e == DisableAll(b)
           d == [e EXCEPT !.downs = @ + 1]
<1>1. ASSUME NEW x \in Records
      PROVE  /\ Remove(x) \in Records /\ Kept(Remove(x), x)
             /\ Remove(x).rd = x.rd /\ Remove(x).wr = x.wr
             /\ Remove(x).index = "new"
  BY DEF Remove, Records, Kept
<1>2. CASE r.state = "Connected"
  <2>1. /\ b \in Records /\ b.accepted = r.accepted
        /\ b.queued = r.queued
    BY DEF Records, States
  <2>2. ConnectDestroyed(r) = Remove(d)
    BY <1>2 DEF ConnectDestroyed
  <2> HIDE DEF b
  <2>3. e \in Records /\ Kept(e, b)
    BY <2>1, InterestFields
  <2> HIDE DEF e
  <2>4. e.downs + 1 \in Nat
    BY <2>3 DEF Records
  <2>5. d \in Records
    BY <2>3, <2>4 DEF Records
  <2>6. d.accepted = e.accepted /\ d.queued = e.queued
    BY <2>3 DEF Records
  <2> HIDE DEF d
  <2> QED
    BY <1>1, <1>2, <2>1, <2>2, <2>3, <2>5, <2>6 DEF Kept
<1>3. CASE r.state # "Connected"
  <2>1. ConnectDestroyed(r) = Remove(r)
    BY <1>3 DEF ConnectDestroyed
  <2> QED
    BY <1>1, <2>1 DEF Kept
<1> QED
  BY <1>2, <1>3

\* shutdownInLoop() sends the FIN unless output is being written.
LEMMA ShutdownInLoopFields ==
  ASSUME NEW r \in Records
  PROVE  LET d == ShutdownInLoop(r)
         IN  /\ d \in Records /\ d.state = r.state
             /\ d.fin = (r.fin \/ ~r.wr)
             /\ d.out = r.out /\ d.queued = r.queued
             /\ d.accepted = r.accepted /\ d.ups = r.ups
             /\ d.downs = r.downs /\ d.closes = r.closes
             /\ d.rd = r.rd /\ d.wr = r.wr /\ d.index = r.index
<1>1. CASE r.wr
  <2>1. ShutdownInLoop(r) = r /\ r.fin \in BOOLEAN
    BY <1>1 DEF ShutdownInLoop, Records
  <2> QED
    BY <1>1, <2>1
<1>2. CASE ~r.wr
  <2> DEFINE d == [r EXCEPT !.fin = TRUE]
  <2>1. ShutdownInLoop(r) = d
    BY <1>2 DEF ShutdownInLoop
  <2>2. d \in Records /\ d.fin = TRUE
    BY DEF Records
  <2>3. /\ d.state = r.state /\ d.out = r.out /\ d.queued = r.queued
        /\ d.accepted = r.accepted /\ d.ups = r.ups
        /\ d.downs = r.downs /\ d.closes = r.closes
        /\ d.rd = r.rd /\ d.wr = r.wr /\ d.index = r.index
    BY DEF Records
  <2> HIDE DEF d
  <2> QED
    BY <1>2, <2>1, <2>2, <2>3
<1> QED
  BY <1>1, <1>2

\* shutdown().
LEMMA ShutdownFields ==
  ASSUME NEW r \in Records
  PROVE  LET d == Shutdown(r)
         IN  /\ d \in Records
             /\ d.state = IF r.state = "Connected" THEN "DisConnecting"
                          ELSE r.state
             /\ d.fin = (r.fin \/ (r.state = "Connected" /\ ~r.wr))
             /\ d.out = r.out /\ d.queued = r.queued
             /\ d.accepted = r.accepted /\ d.ups = r.ups
             /\ d.downs = r.downs /\ d.closes = r.closes
             /\ d.rd = r.rd /\ d.wr = r.wr /\ d.index = r.index
<1>1. CASE r.state = "Connected"
  <2> DEFINE b == [r EXCEPT !.state = "DisConnecting"]
  <2>1. Shutdown(r) = ShutdownInLoop(b)
    BY <1>1 DEF Shutdown
  <2>2. /\ b \in Records /\ b.state = "DisConnecting" /\ b.fin = r.fin
        /\ b.out = r.out /\ b.queued = r.queued
        /\ b.accepted = r.accepted /\ b.ups = r.ups
        /\ b.downs = r.downs /\ b.closes = r.closes
        /\ b.rd = r.rd /\ b.wr = r.wr /\ b.index = r.index
    BY DEF Records, States
  <2> HIDE DEF b
  <2> QED
    BY <1>1, <2>1, <2>2, ShutdownInLoopFields
<1>2. CASE r.state # "Connected"
  <2>1. Shutdown(r) = r /\ r.fin \in BOOLEAN
    BY <1>2 DEF Shutdown, Records
  <2> QED
    BY <1>2, <2>1
<1> QED
  BY <1>1, <1>2

\* forceClose() and the functor it queues.
LEMMA ForceCloseFields ==
  ASSUME NEW r \in Records
  PROVE  /\ ForceClose(r) \in Records
         /\ ForceClose(r).accepted = r.accepted
         /\ ForceCloseInLoop(r) \in Records
         /\ ForceCloseInLoop(r).accepted = r.accepted
<1> DEFINE b == [r EXCEPT !.state = "DisConnecting"]
<1>1. b \in Records /\ b.accepted = r.accepted
  BY DEF Records, States
<1>2. \/ ForceClose(r) = r
      \/ ForceClose(r) = Queue(b, "forceCloseInLoop")
  BY DEF ForceClose
<1> HIDE DEF b
<1>3. "forceCloseInLoop" \in FunctorNames
  BY DEF FunctorNames
<1>4. /\ Queue(b, "forceCloseInLoop") \in Records
      /\ Queue(b, "forceCloseInLoop").accepted = b.accepted
  BY <1>1, <1>3, QueueFields
<1>5. ForceCloseInLoop(r) = r \/ ForceCloseInLoop(r) = HandleClose(r)
  BY DEF ForceCloseInLoop
<1> QED
  BY <1>1, <1>2, <1>4, <1>5, CloseFields

\* startRead and stopRead change whether the channel reads.
LEMMA ReadFields ==
  ASSUME NEW r \in Records
  PROVE  /\ LET d == StartReadInLoop(r)
            IN  /\ d \in Records /\ Kept(d, r) /\ d.rd /\ d.wr = r.wr
                /\ r.index # "new" => d.index # "new"
         /\ LET d == StopReadInLoop(r)
            IN  /\ d \in Records /\ Kept(d, r) /\ ~d.rd /\ d.wr = r.wr
                /\ r.index # "new" => d.index # "new"
<1> DEFINE s == EnableReading(r)
           t == DisableReading(r)
           s1 == [s EXCEPT !.reading = TRUE]
           t1 == [t EXCEPT !.reading = FALSE]
<1>1. /\ s \in Records /\ Kept(s, r) /\ s.rd /\ s.wr = r.wr
      /\ s.index # "new"
      /\ t \in Records /\ Kept(t, r) /\ ~t.rd /\ t.wr = r.wr
      /\ t.index # "new"
  BY InterestFields
<1>2. StartReadInLoop(r) = IF ~r.reading \/ ~r.rd THEN s1 ELSE r
  BY DEF StartReadInLoop
<1>3. StopReadInLoop(r) = IF r.reading \/ r.rd THEN t1 ELSE r
  BY DEF StopReadInLoop
<1> HIDE DEF s, t
<1>4. /\ s1 \in Records /\ Kept(s1, s) /\ s1.rd = s.rd /\ s1.wr = s.wr
      /\ s1.index = s.index
  BY <1>1 DEF Records, Kept
<1>5. /\ t1 \in Records /\ Kept(t1, t) /\ t1.rd = t.rd /\ t1.wr = t.wr
      /\ t1.index = t.index
  BY <1>1 DEF Records, Kept
<1> HIDE DEF s1, t1
<1>6. Kept(s1, r) /\ Kept(t1, r) /\ Kept(r, r)
  BY <1>1, <1>4, <1>5 DEF Kept
<1>7. LET d == StartReadInLoop(r)
      IN  /\ d \in Records /\ Kept(d, r) /\ d.rd /\ d.wr = r.wr
          /\ r.index # "new" => d.index # "new"
  BY <1>1, <1>2, <1>4, <1>6
<1>8. LET d == StopReadInLoop(r)
      IN  /\ d \in Records /\ Kept(d, r) /\ ~d.rd /\ d.wr = r.wr
          /\ r.index # "new" => d.index # "new"
  BY <1>1, <1>3, <1>5, <1>6
<1> QED
  BY <1>7, <1>8

\* size_t holds more than one number.
LEMMA SizeLimitType == SizeLimit \in Nat /\ SizeLimit > 1
  BY DEF SizeLimit

\* Conversions to size_t.
LEMMA SizeTValues ==
  ASSUME NEW i \in Int
  PROVE  /\ SizeT(i) \in Nat
         /\ 0 <= i /\ i < SizeLimit => SizeT(i) = i
         /\ i < 0 /\ i > -SizeLimit => SizeT(i) = i + SizeLimit
<1> DEFINE m == SizeLimit
<1>1. m \in Nat /\ m > 1
  BY SizeLimitType
<1> HIDE DEF m
<1>2. i % m \in Nat
  BY <1>1
<1>3. ASSUME 0 <= i, i < m PROVE i % m = i
  BY <1>1, <1>3
<1>4. ASSUME i < 0, i > -m PROVE i % m = i + m
  BY <1>1, <1>4
<1> QED
  BY <1>2, <1>3, <1>4 DEF SizeT, m

\* Messages have lengths that are numbers of type size_t.
LEMMA MessageLengths ==
  MaxMessage \in Nat /\ \A n \in 0..MaxMessage : n \in Nat /\ n < SizeLimit
<1>1. MaxMessage \in 1..(SizeLimit - 1)
  BY TcpServerAssumption
<1> QED
  BY <1>1, SizeLimitType

\* sendInLoop() either hands everything to the kernel and announces it, or
\* leaves output waiting and writing enabled.
Sent(d, r, n, intact) ==
    /\ d \in Records
    /\ d.state = r.state /\ d.fin = r.fin /\ d.rd = r.rd
    /\ d.ups = r.ups /\ d.downs = r.downs /\ d.closes = r.closes
    /\ r.index # "new" => d.index # "new"
    /\ d.accepted \in {r.accepted,
                       IF intact THEN r.accepted + n ELSE r.accepted}
    /\ \/ d.wr = r.wr /\ d.out = r.out /\ d.queued = r.queued
       \/ /\ d.wr = r.wr /\ d.out = r.out
          /\ d.queued = Append(r.queued, "writeComplete")
       \/ /\ d.wr /\ d.out # <<>>
          /\ d.queued \in {r.queued, Append(r.queued, "highWaterMark")}

LEMMA SendFields ==
  ASSUME NEW r \in Records, NEW n \in Nat, NEW intact \in BOOLEAN,
         NEW room \in Nat
  PROVE  Sent(SendInLoop(r, n, intact, room), r, n, intact)
<1> SUFFICES
      LET d == SendInLoop(r, n, intact, room)
      IN  /\ d \in Records
          /\ d.state = r.state /\ d.fin = r.fin /\ d.rd = r.rd
          /\ d.ups = r.ups /\ d.downs = r.downs /\ d.closes = r.closes
          /\ r.index # "new" => d.index # "new"
          /\ d.accepted \in {r.accepted, IF intact THEN r.accepted + n
                                         ELSE r.accepted}
          /\ \/ d.wr = r.wr /\ d.out = r.out /\ d.queued = r.queued
             \/ /\ d.wr = r.wr /\ d.out = r.out
                /\ d.queued = Append(r.queued, "writeComplete")
             \/ /\ d.wr /\ d.out # <<>>
                /\ d.queued \in {r.queued,
                                  Append(r.queued, "highWaterMark")}
  BY DEF Sent
<1>1. CASE r.state = "DisConnected"
  BY <1>1 DEF SendInLoop
<1>2. CASE r.state # "DisConnected"
  <2> DEFINE direct == SendsNow(r)
             nwrote == IF direct THEN SizeT(SendResult(room, n)) ELSE 0
             remaining == SizeT(n - nwrote)
             off == n - remaining
             taken == IF off < 0 THEN 0 ELSE off
             byte(i) == IF i = 0 \/ ~intact THEN Garbage ELSE r.accepted + i
             acc == IF intact THEN r.accepted + n ELSE r.accepted
             w == r.wire \o [i \in 1..taken |-> byte(i)]
             fl == r.failed \/ ~intact \/ (direct /\ room = 0)
             sent == [r EXCEPT !.accepted = acc, !.failed = fl, !.wire = w]
             crossed == /\ Len(r.out) + remaining > HighWaterMark
                        /\ Len(r.out) < HighWaterMark
             told == IF crossed THEN Queue(sent, "highWaterMark") ELSE sent
             o == told.out \o [i \in 1..remaining |-> byte(off + i)]
             kept == [told EXCEPT !.out = o]
  <2>1. SendInLoop(r, n, intact, room) =
           IF remaining = 0 THEN Queue(sent, "writeComplete")
           ELSE IF r.wr THEN kept ELSE EnableWriting(kept)
    BY <1>2 DEF SendInLoop
  <2>2. \A i \in Int : SizeT(i) \in Nat
    BY SizeTValues
  <2>3. SendResult(room, n) \in Int
    BY DEF SendResult
  <2>4. nwrote \in Nat
    BY <2>2, <2>3
  <2> HIDE DEF nwrote
  <2>5. remaining \in Nat
    BY <2>2, <2>4
  <2> HIDE DEF remaining
  <2>6. off \in Int /\ taken \in Nat
    BY <2>5
  <2> HIDE DEF off
  <2>7. r.accepted \in Nat /\ r.wire \in Seq(Int) /\ r.out \in Seq(Int)
    BY DEF Records
  <2>8. \A i \in Int : byte(i) \in Int
    BY <2>7 DEF Garbage
  <2>9. acc \in Nat
    BY <2>7
  <2> HIDE DEF taken, byte, acc
  <2>10. w \in Seq(Int)
    <3>1. [i \in 1..taken |-> byte(i)] \in Seq(Int)
      BY <2>6, <2>8, SeqDef
    <3> QED
      BY <2>7, <3>1, ConcatProperties
  <2>16. fl \in BOOLEAN
    BY Zenon
  <2> HIDE DEF w, fl
  <2>11. sent \in Records
    BY <2>9, <2>10, <2>16 DEF Records
  <2>12. /\ sent.state = r.state /\ sent.fin = r.fin /\ sent.rd = r.rd
         /\ sent.wr = r.wr /\ sent.out = r.out /\ sent.queued = r.queued
         /\ sent.ups = r.ups /\ sent.downs = r.downs
         /\ sent.closes = r.closes /\ sent.accepted = acc
         /\ sent.index = r.index
    BY DEF Records
  <2> HIDE DEF sent
  <2>13. "writeComplete" \in FunctorNames /\ "highWaterMark" \in FunctorNames
    BY DEF FunctorNames
  <2>14. CASE remaining = 0
    BY <2>1, <2>11, <2>12, <2>13, <2>14, QueueFields, SMTT(30) DEF acc
  <2>15. CASE remaining # 0
    <3>1. /\ told \in Records /\ told.state = r.state /\ told.fin = r.fin
          /\ told.rd = r.rd /\ told.wr = r.wr /\ told.out = r.out
          /\ told.queued \in {r.queued, Append(r.queued, "highWaterMark")}
          /\ told.ups = r.ups /\ told.downs = r.downs
          /\ told.closes = r.closes /\ told.accepted = acc
          /\ told.index = r.index
      <4>1. CASE crossed
        BY <4>1, <2>11, <2>12, <2>13, QueueFields, SMTT(30)
      <4>2. CASE ~crossed
        BY <4>2, <2>11, <2>12
      <4> QED
        BY <4>1, <4>2
    <3> HIDE DEF told
    <3>2. o \in Seq(Int) /\ o # <<>>
      <4> DEFINE rest == [i \in 1..remaining |-> byte(off + i)]
      <4>1. rest \in Seq(Int) /\ Len(rest) = remaining
        BY <2>5, <2>6, <2>8, SeqDef
      <4>4. o = r.out \o rest
        BY <3>1
      <4> HIDE DEF rest, o
      <4>2. o \in Seq(Int) /\ Len(o) = Len(r.out) + Len(rest)
        BY <2>7, <4>1, <4>4, ConcatProperties
      <4>3. Len(o) # 0
        BY <2>5, <2>7, <2>15, <4>1, <4>2, LenProperties
      <4> QED
        BY <4>2, <4>3, EmptySeq
    <3> HIDE DEF o
    <3>3. kept \in Records /\ kept.out = o
      BY <3>1, <3>2 DEF Records
    <3>4. /\ kept.state = told.state /\ kept.fin = told.fin
          /\ kept.rd = told.rd /\ kept.wr = told.wr
          /\ kept.queued = told.queued
          /\ kept.ups = told.ups /\ kept.downs = told.downs
          /\ kept.closes = told.closes /\ kept.accepted = told.accepted
          /\ kept.index = told.index
      BY <3>1 DEF Records
    <3> HIDE DEF kept
    <3>5. CASE r.wr
      BY <2>1, <2>15, <3>1, <3>2, <3>3, <3>4, <3>5 DEF acc
    <3>6. CASE ~r.wr
      <4>1. SendInLoop(r, n, intact, room) = EnableWriting(kept)
        BY <2>1, <2>15, <3>6
      <4>2. LET d == EnableWriting(kept)
            IN  /\ d \in Records /\ Kept(d, kept) /\ d.wr /\ d.rd = kept.rd
                /\ d.index # "new"
        BY <3>3, InterestFields
      <4> QED
        BY <3>1, <3>2, <3>3, <3>4, <4>1, <4>2, ZenonT(40) DEF acc, Kept
    <3> QED
      BY <3>5, <3>6
  <2> QED
    BY <2>14, <2>15
<1> QED
  BY <1>1, <1>2

\* handleWrite() sends a part of what waits, or the rest of it: then writing
\* ends, the completion is announced and a postponed FIN goes out.
LEMMA WriteFields ==
  ASSUME NEW r \in Records, NEW room \in Nat
  PROVE  LET d == HandleWrite(r, room)
         IN  /\ d \in Records
             /\ d.state = r.state /\ d.rd = r.rd
             /\ d.accepted = r.accepted
             /\ d.ups = r.ups /\ d.downs = r.downs /\ d.closes = r.closes
             /\ r.index # "new" => d.index # "new"
             /\ \/ d = r
                \/ /\ r.wr /\ d.wr /\ d.out # <<>> /\ d.fin = r.fin
                   /\ d.queued = r.queued
                \/ /\ r.wr /\ ~d.wr /\ d.out = <<>>
                   /\ d.fin = (r.fin \/ r.state = "DisConnecting")
                   /\ d.queued = Append(r.queued, "writeComplete")
<1>1. CASE ~r.wr \/ room = 0
  BY <1>1 DEF HandleWrite
<1>2. CASE r.wr /\ room # 0
  <2> DEFINE k == SendResult(room, Len(r.out))
             w == r.wire \o SubSeq(r.out, 1, k)
             o == SubSeq(r.out, k + 1, Len(r.out))
             sent == [r EXCEPT !.wire = w, !.out = o]
             off == DisableWriting(sent)
             done == Queue(off, "writeComplete")
  <2>1. HandleWrite(r, room) =
           IF sent.out # <<>> THEN sent
           ELSE IF r.state = "DisConnecting" THEN ShutdownInLoop(done)
           ELSE done
    BY <1>2 DEF HandleWrite, Drain
  <2>2. r.wire \in Seq(Int) /\ r.out \in Seq(Int) /\ Len(r.out) \in Nat
    BY LenProperties DEF Records
  <2>3. k \in 0..Len(r.out)
    BY <1>2, <2>2 DEF SendResult
  <2> HIDE DEF k
  <2>4. SubSeq(r.out, 1, k) \in Seq(Int) /\ o \in Seq(Int)
    BY <2>2, <2>3, SubSeqProperties
  <2>5. w \in Seq(Int)
    BY <2>2, <2>4, ConcatProperties
  <2> HIDE DEF w, o
  <2>6. sent \in Records /\ sent.out = o
    BY <2>4, <2>5 DEF Records
  <2>7. /\ sent.state = r.state /\ sent.fin = r.fin /\ sent.rd = r.rd
        /\ sent.wr = r.wr /\ sent.queued = r.queued
        /\ sent.ups = r.ups /\ sent.downs = r.downs
        /\ sent.closes = r.closes /\ sent.accepted = r.accepted
        /\ sent.index = r.index
    BY DEF Records
  <2> HIDE DEF sent
  <2>8. /\ off \in Records /\ Kept(off, sent) /\ ~off.wr
        /\ off.rd = sent.rd /\ off.index # "new"
    BY <2>6, InterestFields
  <2> HIDE DEF off
  <2>9. "writeComplete" \in FunctorNames
    BY DEF FunctorNames
  <2>10. /\ done \in Records /\ done.queued = Append(r.queued, "writeComplete")
         /\ done.state = r.state /\ done.fin = r.fin /\ done.rd = r.rd
         /\ ~done.wr /\ done.out = o
         /\ done.ups = r.ups /\ done.downs = r.downs
         /\ done.closes = r.closes /\ done.accepted = r.accepted
         /\ done.index # "new"
    BY <2>6, <2>7, <2>8, <2>9, QueueFields DEF Kept
  <2> HIDE DEF done
  <2>11. CASE o # <<>>
    <3>1. HandleWrite(r, room) = sent
      BY <2>1, <2>6, <2>11
    <3> QED
      BY <1>2, <2>6, <2>7, <2>11, <3>1
  <2>12. CASE o = <<>> /\ r.state = "DisConnecting"
    <3>1. HandleWrite(r, room) = ShutdownInLoop(done)
      BY <2>1, <2>6, <2>12
    <3> QED
      BY <1>2, <2>10, <2>12, <3>1, ShutdownInLoopFields
  <2>13. CASE o = <<>> /\ r.state # "DisConnecting"
    <3>1. HandleWrite(r, room) = done /\ r.fin \in BOOLEAN
      BY <2>1, <2>6, <2>13 DEF Records
    <3> QED
      BY <1>2, <2>10, <2>13, <3>1
  <2> QED
    BY <2>11, <2>12, <2>13
<1> QED
  BY <1>1, <1>2

Applications == [n : Nat, room : Nat, then : {"stay", "shutdown", "forceClose"}]

\* send() and what the message callback does after it.
LEMMA MessageTypes ==
  ASSUME NEW r \in Records, NEW app \in Applications
  PROVE  LET d == MessageCallback(r, app)
         IN  d \in Records /\ d.accepted \in {r.accepted, r.accepted + app.n}
<1> DEFINE b == IF app.n = 0 THEN r ELSE Send(r, app.n, app.room)
<1>1. app.n \in Nat /\ app.room \in Nat
      /\ app.then \in {"stay", "shutdown", "forceClose"}
  BY DEF Applications
<1>2. b = r \/ b = SendInLoop(r, app.n, TRUE, app.room)
  BY DEF Send
<1>3. b \in Records /\ b.accepted \in {r.accepted, r.accepted + app.n}
  <2>1. CASE b = r
    BY <2>1
  <2>2. CASE b = SendInLoop(r, app.n, TRUE, app.room)
    <3>1. Sent(b, r, app.n, TRUE)
      <4>1. TRUE \in BOOLEAN
        OBVIOUS
      <4> QED
        BY <1>1, <2>2, <4>1, SendFields
    <3> HIDE DEF b
    <3> QED
      BY <3>1 DEF Sent
  <2> QED
    BY <1>2, <2>1, <2>2
<1>4. MessageCallback(r, app) =
         CASE app.then = "stay"       -> b
           [] app.then = "shutdown"   -> Shutdown(b)
           [] app.then = "forceClose" -> ForceClose(b)
  BY DEF MessageCallback
<1> HIDE DEF b
<1>5. MessageCallback(r, app) \in {b, Shutdown(b), ForceClose(b)}
  BY <1>1, <1>4
<1> QED
  BY <1>3, <1>5, ShutdownFields, ForceCloseFields

\* Channel::handleEvent keeps the types, whatever is reported.
LEMMA EventTypes ==
  ASSUME NEW r \in Records, NEW revents, NEW got \in {"data", "eof", "error"},
         NEW app \in Applications, NEW room \in Nat
  PROVE  LET d == HandleEvent(r, revents, got, app, room)
         IN  d \in Records /\ d.accepted \in {r.accepted, r.accepted + app.n}
<1> DEFINE hup == IF "HUP" \in revents /\ "IN" \notin revents
                  THEN HandleClose(r) ELSE r
           read == IF "IN" \in revents THEN HandleRead(hup, got, app) ELSE hup
<1>1. HandleEvent(r, revents, got, app, room) =
         IF "OUT" \in revents THEN HandleWrite(read, room) ELSE read
  BY DEF HandleEvent
<1>2. hup \in Records /\ hup.accepted = r.accepted
  BY CloseFields
<1> HIDE DEF hup
<1>3. HandleRead(hup, got, app) \in
         {MessageCallback(hup, app), HandleClose(hup), hup}
  BY DEF HandleRead
<1>4. read \in Records /\ read.accepted \in {r.accepted, r.accepted + app.n}
  BY <1>2, <1>3, MessageTypes, CloseFields
<1> HIDE DEF read
<1> QED
  BY <1>1, <1>4, WriteFields

\* The completion queued after another callback.
LEMMA AppendToOne ==
  ASSUME NEW x, NEW y
  PROVE  Append(<<x>>, y) = <<x, y>>
<1> DEFINE s == Append(<<x>>, y)
           t == <<x, y>>
<1>1. Len(s) = 2 /\ s[1] = x /\ s[2] = y
  <2>1. <<x>> \in Seq({x, y})
    OBVIOUS
  <2> QED
    BY <2>1, AppendProperties
<1>2. s \in Seq({x, y}) /\ t \in Seq({x, y})
  OBVIOUS
<1>3. Len(t) = 2 /\ t[1] = x /\ t[2] = y
  OBVIOUS
<1> HIDE DEF s, t
<1>4. Len(s) = Len(t) /\ \A i \in 1..Len(s) : s[i] = t[i]
  BY <1>1, <1>3
<1>5. s = t
  BY <1>2, <1>4, SeqEqual
<1> QED
  BY <1>5 DEF s, t

\* A handler called by the HTTP server's loop has closed the connection, or it
\* has queued callbacks such that a pause is followed by a resumption unless
\* output is left, which will bring one.
Handled(e, r) ==
    /\ e \in Records /\ Sound(e) /\ e.state # "None"
    /\ e.state = "DisConnected" => e.queued = <<>>
    /\ e.state # "DisConnected" =>
          /\ Live(e) /\ e.rd = r.rd
          /\ e.queued \in Seq(Callbacks)
          /\ ~e.wr => Followed(e.queued, "highWaterMark", "writeComplete")
          /\ r.wr /\ ~e.wr =>
                \E i \in 1..Len(e.queued) : e.queued[i] = "writeComplete"

\* The message callback of the HTTP server.
LEMMA MessageHandled ==
  ASSUME NEW r \in Records, Sound(r), Live(r), r.queued = <<>>,
         NEW app \in Applications, app.then # "forceClose"
  PROVE  LET d == MessageCallback(r, app)
         IN  /\ d \in Records /\ Sound(d) /\ Live(d) /\ d.rd = r.rd
             /\ d.queued \in {<<>>, <<"writeComplete">>, <<"highWaterMark">>}
             /\ d.queued = <<"highWaterMark">> => d.wr
             /\ r.wr => d.wr
<1> DEFINE b == IF app.n = 0 THEN r ELSE Send(r, app.n, app.room)
<1>1. app.n \in Nat /\ app.room \in Nat /\ app.then \in {"stay", "shutdown"}
  BY DEF Applications
<1>2. b = r \/ (b = SendInLoop(r, app.n, TRUE, app.room)
                /\ r.state = "Connected")
  BY DEF Send
<1>3. MessageCallback(r, app) \in {b, Shutdown(b)}
  BY <1>1 DEF MessageCallback
<1> HIDE DEF b
<1>4. /\ b \in Records /\ Sound(b) /\ Live(b) /\ b.rd = r.rd
      /\ b.queued \in {<<>>, <<"writeComplete">>, <<"highWaterMark">>}
      /\ b.queued = <<"highWaterMark">> => b.wr
      /\ r.wr => b.wr
  <2>1. CASE b = r
    BY <2>1
  <2>2. CASE b = SendInLoop(r, app.n, TRUE, app.room) /\ r.state = "Connected"
    <3>1. /\ b \in Records
          /\ b.state = r.state /\ b.fin = r.fin /\ b.rd = r.rd
          /\ b.ups = r.ups /\ b.downs = r.downs /\ b.closes = r.closes
          /\ \/ b.wr = r.wr /\ b.out = r.out /\ b.queued = <<>>
             \/ b.wr = r.wr /\ b.out = r.out /\ b.queued = <<"writeComplete">>
             \/ /\ b.wr /\ b.out # <<>>
                /\ b.queued \in {<<>>, <<"highWaterMark">>}
      <4>1. /\ Append(<<>>, "writeComplete") = <<"writeComplete">>
            /\ Append(<<>>, "highWaterMark") = <<"highWaterMark">>
        OBVIOUS
      <4>2. TRUE \in BOOLEAN
        OBVIOUS
      <4>3. Sent(b, r, app.n, TRUE)
        BY <1>1, <2>2, <4>2, SendFields
      <4> QED
        BY <4>1, <4>3, Zenon DEF Sent
    <3>2. Sound(b)
      BY <2>2, <3>1 DEF Sound, Live
    <3>3. r.wr \in BOOLEAN /\ b.wr \in BOOLEAN
      BY <3>1 DEF Records
    <3>4. Live(b)
      BY <2>2, <3>1 DEF Live
    <3>5. /\ <<"writeComplete">> # <<"highWaterMark">>
          /\ <<>> # <<"highWaterMark">>
      OBVIOUS
    <3> QED
      BY <3>1, <3>2, <3>3, <3>4, <3>5, Zenon
  <2> QED
    BY <1>2, <2>1, <2>2
<1>5. LET d == Shutdown(b)
      IN  /\ d \in Records /\ Sound(d) /\ Live(d) /\ d.rd = b.rd
          /\ d.queued = b.queued /\ d.wr = b.wr
  <2> DEFINE d == Shutdown(b)
  <2>1. /\ d \in Records
        /\ d.state = IF b.state = "Connected" THEN "DisConnecting"
                     ELSE b.state
        /\ d.fin = (b.fin \/ (b.state = "Connected" /\ ~b.wr))
        /\ d.out = b.out /\ d.queued = b.queued
        /\ d.ups = b.ups /\ d.downs = b.downs /\ d.closes = b.closes
        /\ d.rd = b.rd /\ d.wr = b.wr
    BY <1>4, ShutdownFields
  <2> HIDE DEF d
  <2>2. Live(d) /\ Sound(d)
    BY <1>4, <2>1 DEF Sound, Live
  <2> QED
    BY <2>1, <2>2 DEF d
<1> QED
  BY <1>3, <1>4, <1>5

\* Channel::handleEvent of a connection whose events are not stale.
LEMMA EventHandled ==
  ASSUME NEW r \in Records, Sound(r), Live(r), r.queued = <<>>,
         r.index = "added", NEW revents, NEW got \in {"data", "eof", "error"},
         NEW app \in Applications, app.then # "forceClose", NEW room \in Nat
  PROVE  Handled(HandleEvent(r, revents, got, app, room), r)
<1> DEFINE hup == IF "HUP" \in revents /\ "IN" \notin revents
                  THEN HandleClose(r) ELSE r
           read == IF "IN" \in revents THEN HandleRead(hup, got, app) ELSE hup
           e == HandleEvent(r, revents, got, app, room)
<1>1. e = IF "OUT" \in revents THEN HandleWrite(read, room) ELSE read
  BY DEF HandleEvent
<1>2. \/ read = HandleClose(r)
      \/ read = r
      \/ read = MessageCallback(r, app)
  BY DEF HandleRead
<1>3. \/ /\ read \in Records /\ Sound(read) /\ read.state = "DisConnected"
         /\ read.queued = <<>>
      \/ /\ read \in Records /\ Sound(read) /\ Live(read) /\ read.rd = r.rd
         /\ read.queued \in {<<>>, <<"writeComplete">>, <<"highWaterMark">>}
         /\ read.queued = <<"highWaterMark">> => read.wr
         /\ r.wr => read.wr
  <2>1. CASE read = HandleClose(r)
    <3> HIDE DEF read
    <3>1. /\ read \in Records /\ read.state = "DisConnected"
          /\ ~read.rd /\ ~read.wr /\ read.index = "deleted"
          /\ read.out = r.out /\ read.fin = r.fin /\ read.queued = <<>>
          /\ read.ups = r.ups
          /\ read.downs = r.downs + 1 /\ read.closes = r.closes + 1
      BY <2>1, CloseFields
    <3> QED
      BY <3>1 DEF Sound, Live
  <2>2. CASE read = r
    BY <2>2
  <2>3. CASE read = MessageCallback(r, app)
    <3> HIDE DEF read
    <3> QED
      BY <2>3, MessageHandled
  <2> QED
    BY <1>2, <2>1, <2>2, <2>3
<1> HIDE DEF read, e
<1>4. \/ /\ e \in Records /\ Sound(e) /\ e.state = "DisConnected"
         /\ e.queued = <<>>
      \/ /\ e \in Records /\ Sound(e) /\ Live(e) /\ e.rd = r.rd
         /\ \/ e.queued \in {<<>>, <<"writeComplete">>} /\ (r.wr => e.wr)
            \/ e.queued = <<"highWaterMark">> /\ e.wr
            \/ e.queued \in {<<"writeComplete">>,
                              <<"writeComplete", "writeComplete">>,
                              <<"highWaterMark", "writeComplete">>}
  <2>1. CASE e = read
    BY <1>3, <2>1
  <2>2. CASE e = HandleWrite(read, room) /\ e # read
    <3>1. /\ e \in Records
          /\ e.state = read.state /\ e.rd = read.rd
          /\ e.ups = read.ups /\ e.downs = read.downs
          /\ e.closes = read.closes
          /\ \/ /\ read.wr /\ e.wr /\ e.out # <<>> /\ e.fin = read.fin
                /\ e.queued = read.queued
             \/ /\ read.wr /\ ~e.wr /\ e.out = <<>>
                /\ e.fin = (read.fin \/ read.state = "DisConnecting")
                /\ e.queued = Append(read.queued, "writeComplete")
      BY <1>3, <2>2, WriteFields, ZenonT(40)
    <3>2. /\ Sound(read) /\ Live(read) /\ read.rd = r.rd
          /\ read.queued \in {<<>>, <<"writeComplete">>, <<"highWaterMark">>}
      BY <1>3, <3>1 DEF Sound
    <3>3. Sound(e) /\ Live(e)
      BY <3>1, <3>2 DEF Sound, Live
    <3>4. /\ Append(<<>>, "writeComplete") = <<"writeComplete">>
          /\ Append(<<"writeComplete">>, "writeComplete") =
                <<"writeComplete", "writeComplete">>
          /\ Append(<<"highWaterMark">>, "writeComplete") =
                <<"highWaterMark", "writeComplete">>
      BY AppendToOne
    <3>5. /\ <<"writeComplete">> # <<"highWaterMark">>
          /\ <<>> # <<"highWaterMark">>
      OBVIOUS
    <3> QED
      BY <3>1, <3>2, <3>3, <3>4, <3>5, Zenon
  <2> QED
    BY <1>1, <2>1, <2>2
<1>5. \A q \in {<<>>, <<"writeComplete">>, <<"highWaterMark">>,
                <<"writeComplete", "writeComplete">>,
                <<"highWaterMark", "writeComplete">>} :
         /\ q \in Seq(Callbacks)
         /\ q # <<"highWaterMark">> =>
               Followed(q, "highWaterMark", "writeComplete")
         /\ q \notin {<<>>, <<"highWaterMark">>} =>
               \E i \in 1..Len(q) : q[i] = "writeComplete"
  <2>1. /\ <<>> \in Seq(Callbacks) /\ <<"writeComplete">> \in Seq(Callbacks)
        /\ <<"highWaterMark">> \in Seq(Callbacks)
        /\ <<"writeComplete", "writeComplete">> \in Seq(Callbacks)
        /\ <<"highWaterMark", "writeComplete">> \in Seq(Callbacks)
    BY DEF Callbacks
  <2>2. /\ Followed(<<>>, "highWaterMark", "writeComplete")
        /\ Followed(<<"writeComplete">>, "highWaterMark", "writeComplete")
    BY DEF Followed
  <2>3. Followed(<<"writeComplete", "writeComplete">>,
                 "highWaterMark", "writeComplete")
    BY DEF Followed
  <2>4. Followed(<<"highWaterMark", "writeComplete">>,
                 "highWaterMark", "writeComplete")
    BY DEF Followed
  <2>5. \E i \in 1..Len(<<"writeComplete">>) :
           <<"writeComplete">>[i] = "writeComplete"
    OBVIOUS
  <2>6. \E i \in 1..Len(<<"writeComplete", "writeComplete">>) :
           <<"writeComplete", "writeComplete">>[i] = "writeComplete"
    OBVIOUS
  <2>7. \E i \in 1..Len(<<"highWaterMark", "writeComplete">>) :
           <<"highWaterMark", "writeComplete">>[i] = "writeComplete"
    OBVIOUS
  <2> QED
    BY <2>1, <2>2, <2>3, <2>4, <2>5, <2>6, <2>7, Zenon
<1> QED
  <2>1. e.state # "None"
    BY <1>4 DEF Live
  <2>2. CASE e.state = "DisConnected"
    BY <1>4, <2>1, <2>2 DEF Handled, Live, e
  <2>3. CASE e.state # "DisConnected"
    <3>1. /\ e \in Records /\ Sound(e) /\ Live(e) /\ e.rd = r.rd
          /\ e.queued \in Seq(Callbacks)
      BY <1>4, <1>5, <2>3
    <3>2. ~e.wr => Followed(e.queued, "highWaterMark", "writeComplete")
      BY <1>4, <1>5, <2>3
    <3>3. r.wr /\ ~e.wr =>
             \E i \in 1..Len(e.queued) : e.queued[i] = "writeComplete"
      BY <1>4, <1>5, <2>3
    <3> QED
      BY <2>1, <2>3, <3>1, <3>2, <3>3 DEF Handled, e
  <2> QED
    BY <2>2, <2>3

-----------------------------------------------------------------------------
(* Loops, functors and queues                                              *)

\* The functor of a connection.
LEMMA FunctorFields ==
  ASSUME NEW c \in Conns, NEW fn \in FunctorNames
  PROVE  /\ Functor(c)[fn] \in Functors
         /\ Functor(c)[fn].fn = fn /\ Functor(c)[fn].c = c
  BY DEF Functor, Functors

\* The base loop and the loops of the pool.
LEMMA LoopNames ==
  /\ "main" \in Loops
  /\ \A pl \in Pools : Range(pl) \subseteq Loops
  BY DEF Loops

\* getNextLoop gives a loop of the pool and keeps next_ within it; only a
\* server without io loops gives the base loop.
LEMMA NextLoopOfPool ==
  ASSUME ServTypes
  PROVE  /\ NextLoop \in Loops
         /\ NextLoop = "main" <=> pool = <<>>
         /\ NextIndex \in Nat /\ (NextIndex = 0 \/ NextIndex < Len(pool))
<1>1. pool \in Seq(Range(pool)) /\ "main" \notin Range(pool)
  BY TcpServerAssumption DEF ServTypes
<1>2. CASE pool = <<>>
  BY <1>2, LoopNames DEF NextLoop, NextIndex
<1>3. CASE pool # <<>>
  <2>1. Len(pool) \in Nat /\ Len(pool) # 0
    BY <1>1, <1>3, EmptySeq, LenProperties
  <2>2. next + 1 \in 1..Len(pool) /\ next + 1 \in Nat
    BY <2>1 DEF ServTypes
  <2>3. pool[next + 1] \in Range(pool)
    BY <1>1, <2>1, <2>2, ElementOfSeq
  <2>4. \A a \in Nat, n \in Nat : n # 0 => a % n \in Nat /\ a % n < n
    OBVIOUS
  <2>5. NextIndex = (next + 1) % Len(pool) /\ NextLoop = pool[next + 1]
    BY <1>3 DEF NextIndex, NextLoop
  <2> QED
    BY <1>1, <1>3, <2>1, <2>2, <2>3, <2>4, <2>5, LoopNames DEF ServTypes
<1> QED
  BY <1>2, <1>3

\* Commit keeps the types, and leaves nothing in the record's own queue.
LEMMA CommitTypes ==
  ASSUME ConnTypes, QueueTypes, ServTypes, NEW c \in Conns, NEW r \in Records,
         r.accepted <= MaxBytes, Commit(c, r)
  PROVE  ConnTypes' /\ QueueTypes'
<1> DEFINE l == loopOf[c]
           own == [i \in 1..Len(r.queued) |-> Functor(c)[r.queued[i]]]
           queues == [pending EXCEPT ![l] = @ \o own]
           e == [r EXCEPT !.queued = <<>>]
<1>1. l \in Loops /\ "main" \in Loops
  BY LoopNames DEF ServTypes
<1>2. own \in Seq(Functors)
  <2>1. Len(r.queued) \in Nat
        /\ \A i \in 1..Len(r.queued) : r.queued[i] \in FunctorNames
    BY ElementOfSeq, LenProperties DEF Records
  <2>2. \A i \in 1..Len(r.queued) : Functor(c)[r.queued[i]] \in Functors
    BY <2>1, FunctorFields
  <2> QED
    BY <2>1, <2>2, SeqDef
<1> HIDE DEF own
<1>3. queues \in [Loops -> Seq(Functors)]
  BY <1>1, <1>2, ConcatProperties DEF QueueTypes
<1> HIDE DEF queues, l
<1>4. RemoveConnection(c, queues) \in [Loops -> Seq(Functors)]
  <2>1. /\ Functor(c)["connectDestroyed"] \in Functors
        /\ Functor(c)["removeConnectionInLoop"] \in Functors
    BY FunctorFields DEF FunctorNames
  <2> QED
    BY <1>1, <1>3, <2>1, AppendProperties DEF RemoveConnection
<1>5. /\ conn' = [conn EXCEPT ![c] = e]
      /\ pending' \in {RemoveConnection(c, queues), queues}
      /\ connections' \in {connections \ {c}, connections}
      /\ removals' \in {[removals EXCEPT ![c] = @ + 1], removals}
  BY DEF Commit, queues, own, l
<1>6. e \in Records /\ e.queued = <<>> /\ e.accepted = r.accepted
  BY EmptySeq DEF Records
<1>7. r.accepted \in 0..MaxBytes
  BY DEF Records
<1> HIDE DEF e
<1>8. ConnTypes'
  BY <1>5, <1>6, <1>7 DEF ConnTypes
<1>9. pending' \in [Loops -> Seq(Functors)] /\ connections' \subseteq Conns
  BY <1>3, <1>4, <1>5 DEF QueueTypes
<1>10. removals' \in [Conns -> Nat]
  BY <1>5 DEF QueueTypes
<1> QED
  BY <1>8, <1>9, <1>10 DEF QueueTypes

\* The same when the connection may be gone.
LEMMA CommitIfAliveTypes ==
  ASSUME ConnTypes, QueueTypes, ServTypes, misuse \subseteq Conns,
         NEW c \in Conns, NEW r \in Records, r.accepted <= MaxBytes,
         CommitIfAlive(c, r)
  PROVE  ConnTypes' /\ QueueTypes' /\ misuse' \subseteq Conns
<1>1. CASE Destroyed(c)
  BY <1>1 DEF CommitIfAlive, ConnTypes, QueueTypes
<1>2. CASE ~Destroyed(c)
  BY <1>2, CommitTypes DEF CommitIfAlive
<1> QED
  BY <1>1, <1>2

-----------------------------------------------------------------------------
(* Types                                                                   *)

\* The constructor's record.
LEMMA NewRecords ==
  /\ NewConnection \in Records /\ NoConnection \in Records
  /\ NewConnection.state = "Connecting" /\ NoConnection.state = "None"
  /\ Sound(NewConnection) /\ Sound(NoConnection)
  /\ NewConnection.queued = <<>> /\ NoConnection.queued = <<>>
  /\ NewConnection.accepted = 0 /\ NoConnection.accepted = 0
<1>1. <<>> \in Seq(Int) /\ <<>> \in Seq(FunctorNames)
  BY EmptySeq
<1>2. NewConnection \in Records
  BY <1>1 DEF NewConnection, Records, States
<1>3. /\ NewConnection.state = "Connecting" /\ NewConnection.queued = <<>>
      /\ NewConnection.accepted = 0 /\ Sound(NewConnection)
  BY DEF NewConnection, Sound, Live
<1>4. NoConnection \in Records
  BY <1>2 DEF NoConnection, Records, States
<1>5. /\ NoConnection.state = "None" /\ NoConnection.queued = <<>>
      /\ NoConnection.accepted = 0 /\ Sound(NoConnection)
  BY DEF NewConnection, NoConnection, Sound, Live
<1> QED
  BY <1>2, <1>3, <1>4, <1>5

\* The initial state.
LEMMA InitTypes == Init => TypeInv
<1> SUFFICES ASSUME Init PROVE TypeInv
  OBVIOUS
<1>1. {MaxRequests, MaxBytes, MaxCalls} \subseteq Nat
  BY TcpServerAssumption
<1>2. ConnTypes
  BY <1>1, NewRecords DEF Init, ConnTypes
<1>3. SockTypes
  BY <1>1 DEF Init, SockTypes, Sockets
<1>4. QueueTypes /\ LoopTypes /\ ListTypes
  <2>1. <<>> \in Seq(Functors)
    BY EmptySeq
  <2> QED
    BY <2>1 DEF Init, QueueTypes, LoopTypes, ListTypes
<1>6. killed \in BOOLEAN
  BY Zenon DEF Init
<1>5. ServTypes /\ CallTypes /\ misuse \subseteq Conns
  BY <1>1, <1>6, LoopNames DEF Init, ServTypes, CallTypes
<1> QED
  BY <1>2, <1>3, <1>4, <1>5 DEF TypeInv

\* The peers and the kernel.
LEMMA PeerTypes ==
  ASSUME TypeInv, NEW c \in Conns, PeerStep(c)
  PROVE  TypeInv'
<1>1. /\ sock[c] \in Sockets /\ MaxRequests \in Nat
      /\ sock[c].unread <= sock[c].sent /\ sock[c].sent <= MaxRequests
  BY TcpServerAssumption DEF TypeInv, SockTypes
<1>2. PICK t \in Sockets :
         /\ sock' = [sock EXCEPT ![c] = t]
         /\ t.unread <= t.sent /\ t.sent <= MaxRequests
  <2>1. CASE PeerConnects(c)
    <3> DEFINE t == [sock[c] EXCEPT !.peer = "open"]
    <3>1. t \in Sockets /\ t.unread = sock[c].unread /\ t.sent = sock[c].sent
      BY <1>1 DEF Sockets
    <3>2. sock' = [sock EXCEPT ![c] = t]
      BY <2>1 DEF PeerConnects
    <3> HIDE DEF t
    <3> QED
      BY <3>1, <3>2 DEF TypeInv, SockTypes
  <2>2. CASE PeerSends(c)
    <3> DEFINE t == [sock[c] EXCEPT !.unread = @ + 1, !.sent = @ + 1]
    <3>4. /\ sock[c].unread \in Nat /\ sock[c].sent \in Nat
          /\ sock[c].unread + 1 \in Nat /\ sock[c].sent + 1 \in Nat
      BY <1>1 DEF Sockets
    <3>1. t \in Sockets
      BY <1>1, <3>4 DEF Sockets
    <3>2. t.unread = sock[c].unread + 1 /\ t.sent = sock[c].sent + 1
      BY <1>1 DEF Sockets
    <3>3. sock' = [sock EXCEPT ![c] = t] /\ sock[c].sent < MaxRequests
      BY <2>2 DEF PeerSends
    <3>5. t.unread <= t.sent /\ t.sent <= MaxRequests
      BY <1>1, <3>2, <3>3, <3>4
    <3> HIDE DEF t
    <3> QED
      BY <3>1, <3>3, <3>5
  <2>3. CASE PeerCloses(c)
    <3> DEFINE t == [sock[c] EXCEPT !.peer = "fin"]
    <3>1. t \in Sockets /\ t.unread = sock[c].unread /\ t.sent = sock[c].sent
      BY <1>1 DEF Sockets
    <3>2. sock' = [sock EXCEPT ![c] = t]
      BY <2>3 DEF PeerCloses
    <3> HIDE DEF t
    <3> QED
      BY <3>1, <3>2 DEF TypeInv, SockTypes
  <2>4. CASE PeerResets(c)
    <3> DEFINE t == [sock[c] EXCEPT !.peer = "rst", !.unread = 0, !.err = TRUE]
    <3>1. t \in Sockets /\ t.unread = 0 /\ t.sent = sock[c].sent
      BY <1>1 DEF Sockets
    <3>2. sock' = [sock EXCEPT ![c] = t]
      BY <2>4 DEF PeerResets
    <3>3. sock[c].sent \in Nat
      BY <1>1 DEF Sockets
    <3>4. t.unread <= t.sent /\ t.sent <= MaxRequests
      BY <1>1, <3>1, <3>3
    <3> HIDE DEF t
    <3> QED
      BY <3>1, <3>2, <3>4
  <2> QED
    BY <2>1, <2>2, <2>3, <2>4 DEF PeerStep
<1>3. SockTypes'
  BY <1>2 DEF TypeInv, SockTypes
<1>4. UNCHANGED envUnchanged
  BY DEF PeerStep, PeerConnects, PeerSends, PeerCloses, PeerResets
<1> QED
  BY <1>3, <1>4 DEF TypeInv, envUnchanged, servVars, loopVars, ConnTypes,
     QueueTypes, LoopTypes, ListTypes, ServTypes, CallTypes

\* epoll_wait, and the ends of the two halves of a turn.
LEMMA TurnTypes ==
  ASSUME TypeInv, NEW l \in Loops, Poll(l) \/ EventsDone(l) \/ FunctorsDone(l)
  PROVE  TypeInv'
<1>1. CASE Poll(l)
  <2>1. PICK writable : active' = [active EXCEPT ![l] =
              [c \in Conns |-> IF loopOf[c] = l /\ conn[c].state # "None"
                               THEN Ready(c, c \in writable) ELSE {}]]
    BY <1>1 DEF Poll
  <2>2. \A c \in Conns : \A w : Ready(c, w) \in SUBSET Events
    BY DEF Ready
  <2>3. active' \in [Loops -> [Conns -> SUBSET Events]]
    BY <2>1, <2>2 DEF TypeInv, LoopTypes
  <2>4. /\ phase' \in [Loops -> {"poll", "events", "functors"}]
        /\ acceptReady' \in BOOLEAN
    BY <1>1 DEF Poll, TypeInv, LoopTypes
  <2> QED
    BY <1>1, <2>3, <2>4 DEF Poll, TypeInv, connVars, servVars, ConnTypes,
       SockTypes, QueueTypes, LoopTypes, ListTypes, ServTypes, CallTypes
<1>2. CASE EventsDone(l)
  <2>1. /\ phase' \in [Loops -> {"poll", "events", "functors"}]
        /\ list' \in [Loops -> Seq(Functors)]
        /\ pending' \in [Loops -> Seq(Functors)]
    BY <1>2, EmptySeq DEF EventsDone, TypeInv, LoopTypes, ListTypes, QueueTypes
  <2> QED
    BY <1>2, <2>1 DEF EventsDone, TypeInv, connVars, servVars, ConnTypes,
       SockTypes, QueueTypes, LoopTypes, ListTypes, ServTypes, CallTypes
<1>3. CASE FunctorsDone(l)
  <2>1. /\ phase' \in [Loops -> {"poll", "events", "functors"}]
        /\ held' \in [Loops -> SUBSET Conns]
    BY <1>3 DEF FunctorsDone, TypeInv, LoopTypes, ListTypes
  <2> QED
    BY <1>3, <2>1 DEF FunctorsDone, TypeInv, connVars, servVars, ConnTypes,
       SockTypes, QueueTypes, LoopTypes, ListTypes, ServTypes, CallTypes
<1> QED
  BY <1>1, <1>2, <1>3

\* The acceptor.
LEMMA AcceptTypes ==
  ASSUME TypeInv, NEW c \in Conns, Accept(c) \/ AcceptFails(c)
  PROVE  TypeInv'
<1>1. CASE Accept(c)
  <2>1. /\ NextLoop \in Loops
        /\ NextIndex \in Nat /\ (NextIndex = 0 \/ NextIndex < Len(pool))
    BY NextLoopOfPool DEF TypeInv
  <2>2. ServTypes'
    BY <1>1, <2>1 DEF Accept, TypeInv, ServTypes
  <2>3. ConnTypes'
    <3> DEFINE e == ConnectEstablished(NewConnection)
    <3>1. e \in Records /\ e.queued = <<>> /\ e.accepted = 0
      BY NewRecords, EstablishedFields
    <3>2. \/ conn' = [conn EXCEPT ![c] = e]
          \/ conn' = [conn EXCEPT ![c] = NewConnection]
      BY <1>1 DEF Accept
    <3> HIDE DEF e
    <3>3. 0 \in 0..MaxBytes
      BY TcpServerAssumption
    <3> QED
      BY <3>1, <3>2, <3>3, NewRecords DEF TypeInv, ConnTypes
  <2>4. QueueTypes'
    <3>1. Functor(c)["connectEstablished"] \in Functors
      BY FunctorFields DEF FunctorNames
    <3>2. \/ pending' = pending
          \/ pending' = [pending EXCEPT ![NextLoop] =
                            Append(@, Functor(c)["connectEstablished"])]
      BY <1>1 DEF Accept
    <3>3. pending' \in [Loops -> Seq(Functors)]
      <4>1. pending \in [Loops -> Seq(Functors)]
        BY DEF TypeInv, QueueTypes
      <4>2. Append(pending[NextLoop], Functor(c)["connectEstablished"])
               \in Seq(Functors)
        BY <2>1, <3>1, <4>1, AppendProperties
      <4> QED
        BY <2>1, <3>2, <4>1, <4>2
    <3> QED
      BY <1>1, <3>3 DEF Accept, TypeInv, QueueTypes
  <2> QED
    BY <1>1, <2>2, <2>3, <2>4 DEF Accept, TypeInv, SockTypes, LoopTypes,
       ListTypes, CallTypes
<1>2. CASE AcceptFails(c)
  <2>1. SockTypes'
    <3> DEFINE t == [sock[c] EXCEPT !.peer = "refused", !.unread = 0,
                                    !.err = FALSE]
    <3>1. sock[c] \in Sockets
      BY DEF TypeInv, SockTypes
    <3>2. t \in Sockets /\ t.unread = 0 /\ t.sent = sock[c].sent
      BY <3>1 DEF Sockets
    <3>3. sock' = sock \/ sock' = [sock EXCEPT ![c] = t]
      BY <1>2 DEF AcceptFails
    <3>4. sock[c].sent \in Nat
      BY <3>1 DEF Sockets
    <3> HIDE DEF t
    <3> QED
      BY <3>2, <3>3, <3>4 DEF TypeInv, SockTypes
  <2> QED
    BY <1>2, <2>1 DEF AcceptFails, TypeInv, servVars, ConnTypes, QueueTypes,
       LoopTypes, ListTypes, ServTypes, CallTypes
<1> QED
  BY <1>1, <1>2

\* The bytes a handler may take are bounded by the guards of the model.
LEMMA BytesBounded ==
  ASSUME NEW a \in 0..MaxBytes, NEW n \in Nat, NEW b \in {a, a + n},
         a + n <= MaxBytes
  PROVE  b <= MaxBytes
  BY TcpServerAssumption

\* Room is a number of bytes, and Got one of three answers.
LEMMA KernelAnswers ==
  ASSUME NEW c \in Conns
  PROVE  Room(c) \subseteq Nat /\ Got(c) \in {"data", "eof", "error"}
<1>1. Room(c) \subseteq Nat
  BY TcpServerAssumption DEF Room
<1>2. Got(c) \in {"data", "eof", "error"}
  BY DEF Got
<1> QED
  BY <1>1, <1>2

\* A channel's events.
LEMMA ChannelTypes ==
  ASSUME TypeInv, NEW c \in Conns, HandleChannel(c)
  PROVE  TypeInv'
<1>1. loopOf[c] \in Loops /\ conn[c] \in Records
      /\ conn[c].accepted \in 0..MaxBytes
  BY DEF TypeInv, ServTypes, ConnTypes
<1>2. PICK n \in 0..MaxMessage, then \in AppMoves, room1 \in Room(c),
           room2 \in Room(c) :
         /\ conn[c].accepted + n <= MaxBytes
         /\ CommitIfAlive(c, HandleEvent(conn[c], active[loopOf[c]][c], Got(c),
               [n |-> n, room |-> room1, then |-> then], room2))
  BY DEF HandleChannel
<1> DEFINE app == [n |-> n, room |-> room1, then |-> then]
           e == HandleEvent(conn[c], active[loopOf[c]][c], Got(c), app, room2)
<1>3. /\ app \in Applications /\ app.n = n /\ n \in Nat /\ room2 \in Nat
  BY KernelAnswers, TcpServerAssumption DEF Applications
<1>4. e \in Records /\ e.accepted \in {conn[c].accepted, conn[c].accepted + n}
  <2> HIDE DEF app
  <2> QED
    BY <1>1, <1>3, EventTypes, KernelAnswers
<1>5. CommitIfAlive(c, e)
  BY <1>2
<1> HIDE DEF e
<1>6. e.accepted <= MaxBytes
  BY <1>1, <1>2, <1>3, <1>4, BytesBounded
<1>7. ConnTypes' /\ QueueTypes' /\ misuse' \subseteq Conns
  BY <1>4, <1>5, <1>6, CommitIfAliveTypes DEF TypeInv
<1>8. active' \in [Loops -> [Conns -> SUBSET Events]]
  BY <1>1 DEF HandleChannel, TypeInv, LoopTypes
<1>9. SockTypes'
  <2> DEFINE u == IF "IN" \in active[loopOf[c]][c] THEN 0 ELSE sock[c].unread
             b == ~Fetched(c) /\ ~WritesNow(c)
             t == [sock[c] EXCEPT !.unread = u, !.err = b]
  <2>1. /\ sock[c] \in Sockets /\ sock[c].unread \in Nat
        /\ sock[c].sent \in Nat
        /\ sock[c].unread <= sock[c].sent /\ sock[c].sent <= MaxRequests
    BY DEF TypeInv, SockTypes, Sockets
  <2>2. u \in Nat /\ u <= sock[c].sent
    BY <2>1
  <2>3. b \in BOOLEAN
    OBVIOUS
  <2>4. sock' = [sock EXCEPT ![c] = t]
    BY DEF HandleChannel
  <2> HIDE DEF u, b
  <2>5. t \in Sockets /\ t.unread = u /\ t.sent = sock[c].sent
    BY <2>1, <2>2, <2>3 DEF Sockets
  <2> HIDE DEF t
  <2> QED
    BY <2>1, <2>2, <2>4, <2>5 DEF TypeInv, SockTypes
<1> QED
  BY <1>7, <1>8, <1>9 DEF HandleChannel, TypeInv, servVars, LoopTypes,
     ListTypes, ServTypes, CallTypes

\* The functors of a turn.
LEMMA FunctorTypes ==
  ASSUME TypeInv, NEW l \in Loops, RunFunctor(l)
  PROVE  TypeInv'
<1> DEFINE f == Head(list[l])
           c == f.c
<1>1. list[l] \in Seq(Functors) /\ list[l] # <<>>
  BY DEF RunFunctor, TypeInv, ListTypes
<1>2. f \in Functors /\ Tail(list[l]) \in Seq(Functors)
  BY <1>1, HeadTailProperties
<1> HIDE DEF f
<1>3. f.fn \in FunctorNames /\ c \in Conns
  BY <1>2 DEF Functors
<1>4. conn[c] \in Records /\ conn[c].accepted \in 0..MaxBytes
  BY <1>3 DEF TypeInv, ConnTypes
<1>5. list' \in [Loops -> Seq(Functors)] /\ held' \in [Loops -> SUBSET Conns]
  <2>1. /\ list' = [list EXCEPT ![l] = Tail(list[l])]
        /\ held' \in {[held EXCEPT ![l] = held[l] \union {c}],
                      [held EXCEPT ![l] = held[l]]}
    BY DEF RunFunctor, f
  <2> QED
    BY <1>2, <1>3, <2>1 DEF TypeInv, ListTypes
<1>6. ConnTypes' /\ QueueTypes' /\ misuse' \subseteq Conns
  <2>1. CASE f.fn = "removeConnectionInLoop"
    <3>1. /\ connections' = connections \ {c}
          /\ removals' = [removals EXCEPT ![c] = @ + 1]
          /\ pending' = [pending EXCEPT ![loopOf[c]] =
                           Append(@, Functor(c)["connectDestroyed"])]
          /\ UNCHANGED <<conn, sock, misuse>>
      BY <2>1 DEF RunFunctor, f
    <3>2. Functor(c)["connectDestroyed"] \in Functors /\ loopOf[c] \in Loops
      BY <1>3, FunctorFields DEF FunctorNames, TypeInv, ServTypes
    <3>3. Append(pending[loopOf[c]], Functor(c)["connectDestroyed"])
             \in Seq(Functors)
      BY <3>2, AppendProperties DEF TypeInv, QueueTypes
    <3>4. pending' \in [Loops -> Seq(Functors)]
      BY <3>1, <3>2, <3>3 DEF TypeInv, QueueTypes
    <3>5. removals' \in [Conns -> Nat]
      BY <1>3, <3>1 DEF TypeInv, QueueTypes
    <3> QED
      BY <3>1, <3>4, <3>5 DEF TypeInv, ConnTypes, QueueTypes
  <2>2. CASE f.fn = "sendInLoop"
    <3>1. RunSend(c)
      BY <2>2 DEF RunFunctor, f
    <3>2. PICK intact \in BOOLEAN, room \in Room(c) :
             /\ intact => conn[c].accepted < MaxBytes
             /\ CommitIfAlive(c, SendInLoop(conn[c], 1, intact, room))
      BY <3>1 DEF RunSend
    <3> DEFINE e == SendInLoop(conn[c], 1, intact, room)
    <3>3. room \in Nat /\ 1 \in Nat
      BY <1>3, KernelAnswers
    <3>4. Sent(e, conn[c], 1, intact)
      BY <1>4, <3>3, SendFields
    <3> HIDE DEF e, c
    <3>5. e \in Records /\ e.accepted \in {conn[c].accepted,
             IF intact THEN conn[c].accepted + 1 ELSE conn[c].accepted}
      BY <3>4 DEF Sent
    <3>6. e.accepted <= MaxBytes
      BY <1>4, <3>2, <3>5, TcpServerAssumption
    <3> QED
      BY <1>3, <3>2, <3>5, <3>6, CommitIfAliveTypes DEF e, TypeInv
  <2>3. CASE f.fn \notin {"removeConnectionInLoop", "sendInLoop"}
    <3> DEFINE e == Run(conn[c], f.fn)
    <3>1. CommitIfAlive(c, e)
      BY <2>3 DEF RunFunctor, f
    <3>2. e \in {ConnectEstablished(conn[c]), ConnectDestroyed(conn[c]),
                 StartReadInLoop(conn[c]), StopReadInLoop(conn[c]),
                 ShutdownInLoop(conn[c]), ForceCloseInLoop(conn[c])}
      BY <1>3, <2>3 DEF Run, FunctorNames
    <3> HIDE DEF e, c
    <3>3. e \in Records /\ e.accepted = conn[c].accepted
      BY <1>4, <3>2, EstablishedFields, DestroyedFields, ReadFields,
         ShutdownInLoopFields, ForceCloseFields DEF Kept
    <3>4. e.accepted <= MaxBytes
      BY <1>4, <3>3, TcpServerAssumption
    <3> QED
      BY <1>3, <3>1, <3>3, <3>4, CommitIfAliveTypes DEF TypeInv
  <2> QED
    BY <2>1, <2>2, <2>3
<1>7. SockTypes'
  <2> DEFINE b == sock[c].err /\ ~SendsNow(conn[c])
             t == [sock[c] EXCEPT !.err = b]
  <2>1. sock' = sock \/ sock' = [sock EXCEPT ![c] = t]
    BY DEF RunFunctor, RunSend, f
  <2>2. sock[c] \in Sockets /\ sock[c].unread <= sock[c].sent
        /\ sock[c].sent <= MaxRequests
    BY <1>3 DEF TypeInv, SockTypes
  <2>3. b \in BOOLEAN
    BY Zenon
  <2> HIDE DEF b
  <2>4. t \in Sockets /\ t.unread = sock[c].unread /\ t.sent = sock[c].sent
    BY <2>2, <2>3 DEF Sockets
  <2> HIDE DEF t, c
  <2> QED
    BY <1>3, <2>1, <2>2, <2>4 DEF TypeInv, SockTypes
<1> QED
  BY <1>5, <1>6, <1>7 DEF RunFunctor, TypeInv, servVars, LoopTypes,
     ListTypes, ServTypes, CallTypes

\* The end of the process leaves everything as it was.
LEMMA SignalTypes ==
  ASSUME TypeInv, NEW c \in Conns, SignalPipe(c)
  PROVE  TypeInv'
<1>1. killed' \in BOOLEAN
  BY Zenon DEF SignalPipe
<1> QED
  BY <1>1 DEF SignalPipe, TypeInv, connVars, loopVars, ConnTypes, SockTypes,
     QueueTypes, LoopTypes, ListTypes, ServTypes, CallTypes

\* The further callers.
LEMMA CallTypesKept ==
  ASSUME TypeInv, (\E c \in Conns : AppStep(c)) \/ ForeignSets \/ ForeignQueues
  PROVE  TypeInv'
<1>1. ASSUME NEW c \in Conns, IdleShutdown(c)
      PROVE  TypeInv'
  <2>1. conn[c] \in Records /\ conn[c].accepted \in 0..MaxBytes
    BY DEF TypeInv, ConnTypes
  <2>2. /\ Shutdown(conn[c]) \in Records
        /\ Shutdown(conn[c]).accepted <= MaxBytes
    BY <2>1, ShutdownFields, TcpServerAssumption
  <2>3. ConnTypes' /\ QueueTypes'
    BY <1>1, <2>2, CommitTypes DEF IdleShutdown, TypeInv
  <2> QED
    BY <1>1, <2>3 DEF IdleShutdown, TypeInv, servVars, SockTypes, LoopTypes,
       ListTypes, ServTypes, CallTypes
<1>2. ASSUME NEW c \in Conns, ForceCloseWithDelay(c)
      PROVE  TypeInv'
  <2>1. CallTypes'
    BY <1>2, TcpServerAssumption DEF ForceCloseWithDelay, TypeInv, CallTypes
  <2> QED
    BY <1>2, <2>1 DEF ForceCloseWithDelay, TypeInv, connVars, servVars,
       loopVars, ConnTypes, SockTypes, QueueTypes, LoopTypes, ListTypes,
       ServTypes
<1>3. ASSUME NEW c \in Conns, DelayFires(c)
      PROVE  TypeInv'
  <2>1. conn[c] \in Records /\ conn[c].accepted \in 0..MaxBytes
    BY DEF TypeInv, ConnTypes
  <2>2. /\ ForceClose(conn[c]) \in Records
        /\ ForceClose(conn[c]).accepted <= MaxBytes
    BY <2>1, ForceCloseFields, TcpServerAssumption
  <2>3. ConnTypes' /\ QueueTypes' /\ misuse' \subseteq Conns
    BY <1>3, <2>2, CommitIfAliveTypes DEF DelayFires, TypeInv
  <2> QED
    BY <1>3, <2>3 DEF DelayFires, TypeInv, servVars, SockTypes, LoopTypes,
       ListTypes, ServTypes, CallTypes
<1>4. ASSUME NEW c \in Conns,
             NEW fn \in {"sendInLoop", "shutdownInLoop", "forceCloseInLoop"},
             ForeignTests(c, fn)
      PROVE  TypeInv'
  <2>1. foreign' \in ForeignCalls
    BY <1>4 DEF ForeignTests, ForeignCalls
  <2>2. CallTypes'
    BY <1>4, <2>1, TcpServerAssumption DEF ForeignTests, TypeInv, CallTypes
  <2> QED
    BY <1>4, <2>2 DEF ForeignTests, TypeInv, connVars, servVars,
       loopVars, ConnTypes, SockTypes, QueueTypes, LoopTypes, ListTypes,
       ServTypes
<1>5. CASE ForeignSets
  <2>1. foreign \in ForeignCalls
    BY <1>5 DEF ForeignSets, TypeInv, CallTypes, NoCall
  <2>2. foreign.c \in Conns /\ foreign' \in ForeignCalls
    BY <1>5, <2>1 DEF ForeignSets, ForeignCalls
  <2> DEFINE e == [conn[foreign.c] EXCEPT !.state = "DisConnecting"]
  <2>3. /\ conn[foreign.c] \in Records /\ conn[foreign.c].queued = <<>>
        /\ conn[foreign.c].accepted \in 0..MaxBytes
    BY <2>2 DEF TypeInv, ConnTypes
  <2>4. /\ e \in Records /\ e.queued = <<>> /\ e.accepted \in 0..MaxBytes
    BY <2>3 DEF Records, States
  <2>5. conn' = [conn EXCEPT ![foreign.c] = e]
    BY <1>5 DEF ForeignSets
  <2> HIDE DEF e
  <2>6. ConnTypes' /\ CallTypes'
    BY <1>5, <2>2, <2>4, <2>5 DEF ForeignSets, TypeInv, ConnTypes, CallTypes
  <2> QED
    BY <1>5, <2>6 DEF ForeignSets, TypeInv, servVars, loopVars, SockTypes,
       QueueTypes, LoopTypes, ListTypes, ServTypes
<1>6. CASE ForeignQueues
  <2>1. foreign \in ForeignCalls
    BY <1>6 DEF ForeignQueues, TypeInv, CallTypes, NoCall
  <2>2. foreign.c \in Conns /\ foreign.fn \in FunctorNames
    BY <2>1 DEF ForeignCalls, FunctorNames
  <2> DEFINE f == Functor(foreign.c)[foreign.fn]
  <2>3. f \in Functors /\ loopOf[foreign.c] \in Loops
    BY <2>2, FunctorFields DEF TypeInv, ServTypes
  <2>4. pending' = [pending EXCEPT ![loopOf[foreign.c]] = Append(@, f)]
    BY <1>6 DEF ForeignQueues
  <2> HIDE DEF f
  <2>5. Append(pending[loopOf[foreign.c]], f) \in Seq(Functors)
    BY <2>3, AppendProperties DEF TypeInv, QueueTypes
  <2>6. QueueTypes' /\ CallTypes'
    BY <1>6, <2>3, <2>4, <2>5 DEF ForeignQueues, TypeInv, QueueTypes, CallTypes
  <2> QED
    BY <1>6, <2>6 DEF ForeignQueues, TypeInv, connVars, servVars, ConnTypes,
       SockTypes, LoopTypes, ListTypes, ServTypes
<1> QED
  BY <1>1, <1>2, <1>3, <1>4, <1>5, <1>6 DEF AppStep

\* Every step keeps the types.
LEMMA StepTypes == TypeInv /\ [Next]_vars => TypeInv'
<1> SUFFICES ASSUME TypeInv, [Next]_vars PROVE TypeInv'
  OBVIOUS
<1>1. ASSUME NEW c \in Conns, PeerStep(c)
      PROVE  TypeInv'
  BY <1>1, PeerTypes
<1>2. ASSUME NEW l \in Loops, LoopStep(l)
      PROVE  TypeInv'
  BY <1>2, TurnTypes, AcceptTypes, ChannelTypes, FunctorTypes, SignalTypes
  DEF LoopStep
<1>3. CASE (\E c \in Conns : AppStep(c)) \/ ForeignSets \/ ForeignQueues
  BY <1>3, CallTypesKept
<1>4. CASE UNCHANGED vars
  BY <1>4 DEF TypeInv, vars, servVars, loopVars, ConnTypes, SockTypes,
     QueueTypes, LoopTypes, ListTypes, ServTypes, CallTypes
<1> QED
  BY <1>1, <1>2, <1>3, <1>4 DEF Next, Lives

\* The inductive invariant of the types.
THEOREM TypeInvariant == Spec => []TypeInv
<1> QED
  BY InitTypes, StepTypes, PTL DEF Spec

\* Whoever calls: a handler leaves nothing of its own queue behind, functors
\* name connections and loops there are, next_ stays an index of the pool.
THEOREM ServerTypeCorrect == Spec => []TypeOK
<1>1. TypeInv => TypeOK
  <2> SUFFICES ASSUME TypeInv PROVE TypeOK
    OBVIOUS
  <2>1. \A c \in Conns :
          /\ conn[c].state \in States
          /\ conn[c].index \in {"new", "added", "deleted"}
          /\ conn[c].queued = <<>>
          /\ conn[c].accepted \in 0..MaxBytes
    BY DEF TypeInv, ConnTypes, Records
  <2>2. \A c \in Conns :
          /\ sock[c].peer \in {"none", "open", "fin", "rst", "refused"}
          /\ sock[c].unread \in 0..sock[c].sent
          /\ sock[c].sent \in 0..MaxRequests
          /\ sock[c].err \in BOOLEAN
    BY TcpServerAssumption DEF TypeInv, SockTypes, Sockets
  <2>3. \A l \in Loops : \A f \in Range(pending[l]) \union Range(list[l]) :
           f.fn \in FunctorNames /\ f.c \in Conns
    <3> TAKE l \in Loops
    <3>1. pending[l] \in Seq(Functors) /\ list[l] \in Seq(Functors)
      BY DEF TypeInv, QueueTypes, ListTypes
    <3>2. \A f \in Range(pending[l]) \union Range(list[l]) : f \in Functors
      BY <3>1, ElementOfSeq DEF Range
    <3> QED
      BY <3>2 DEF Functors
  <2> QED
    BY <2>1, <2>2, <2>3 DEF TypeOK, TypeInv, QueueTypes, LoopTypes, ListTypes,
       ServTypes, CallTypes
<1> QED
  BY <1>1, TypeInvariant, PTL

-----------------------------------------------------------------------------
(* Sequences of functors                                                   *)

\* What is in a tail.
LEMMA RangeOfTail ==
  ASSUME NEW S, NEW s \in Seq(S), s # <<>>
  PROVE  /\ Range(s) = {Head(s)} \union Range(Tail(s))
         /\ Tail(s) \in Seq(S) /\ Head(s) \in S
<1>1. /\ Head(s) = s[1] /\ Head(s) \in S
      /\ Tail(s) \in Seq(S) /\ Len(Tail(s)) = Len(s) - 1
      /\ \A i \in 1..Len(Tail(s)) : Tail(s)[i] = s[i + 1]
      /\ Len(s) \in Nat /\ Len(s) # 0
  BY HeadTailProperties, LenProperties, EmptySeq
<1>2. DOMAIN s = 1..Len(s) /\ DOMAIN Tail(s) = 1..Len(Tail(s))
  BY <1>1, LenProperties
<1>3. Head(s) \in Range(s)
  BY <1>1, <1>2 DEF Range
<1>4. ASSUME NEW x \in Range(Tail(s)) PROVE x \in Range(s)
  <2>1. PICK i \in 1..Len(Tail(s)) : x = Tail(s)[i]
    BY <1>2 DEF Range
  <2>2. i + 1 \in 1..Len(s) /\ x = s[i + 1]
    BY <1>1, <2>1
  <2> QED
    BY <1>2, <2>2 DEF Range
<1>5. ASSUME NEW x \in Range(s) PROVE x = Head(s) \/ x \in Range(Tail(s))
  <2>1. PICK i \in 1..Len(s) : x = s[i]
    BY <1>2 DEF Range
  <2>2. CASE i = 1
    BY <1>1, <2>1, <2>2
  <2>3. CASE i # 1
    <3>1. i - 1 \in 1..Len(Tail(s)) /\ (i - 1) + 1 = i
      BY <1>1, <2>3
    <3>2. Tail(s)[i - 1] = x
      BY <1>1, <2>1, <3>1
    <3> QED
      BY <1>2, <3>1, <3>2 DEF Range
  <2> QED
    BY <2>2, <2>3
<1> QED
  BY <1>1, <1>3, <1>4, <1>5

\* Other functors behind it leave a functor once.
LEMMA OnceConcat ==
  ASSUME NEW S, NEW s \in Seq(S), NEW t \in Seq(S), NEW x, Once(s, x),
         x \notin Range(t)
  PROVE  Once(s \o t, x)
<1>1. /\ Len(s \o t) = Len(s) + Len(t)
      /\ Len(s) \in Nat /\ Len(t) \in Nat
      /\ \A i \in 1..Len(s) + Len(t) :
            (s \o t)[i] = IF i <= Len(s) THEN s[i] ELSE t[i - Len(s)]
      /\ DOMAIN t = 1..Len(t)
  BY ConcatProperties, LenProperties
<1>2. \A i \in 1..Len(s \o t) :
         (s \o t)[i] = x => i \in 1..Len(s) /\ s[i] = x
  <2> SUFFICES ASSUME NEW i \in 1..Len(s \o t), (s \o t)[i] = x
               PROVE  i \in 1..Len(s) /\ s[i] = x
    OBVIOUS
  <2>1. CASE i <= Len(s)
    BY <1>1, <2>1
  <2>2. CASE ~(i <= Len(s))
    <3>1. i - Len(s) \in 1..Len(t) /\ t[i - Len(s)] = x
      BY <1>1, <2>2
    <3> QED
      BY <1>1, <3>1 DEF Range
  <2> QED
    BY <2>1, <2>2
<1> QED
  BY <1>2 DEF Once

\* A functor that is run is not there any more.
LEMMA OnceTail ==
  ASSUME NEW S, NEW s \in Seq(S), s # <<>>, NEW x, Once(s, x)
  PROVE  Once(Tail(s), x) /\ (x = Head(s) => x \notin Range(Tail(s)))
<1>1. /\ Head(s) = s[1]
      /\ Tail(s) \in Seq(S) /\ Len(Tail(s)) = Len(s) - 1
      /\ \A i \in 1..Len(Tail(s)) : Tail(s)[i] = s[i + 1]
      /\ Len(s) \in Nat /\ Len(s) # 0
  BY HeadTailProperties, LenProperties, EmptySeq
<1>2. DOMAIN Tail(s) = 1..Len(Tail(s))
  BY <1>1, LenProperties
<1>3. \A i \in 1..Len(Tail(s)) : /\ Tail(s)[i] = s[i + 1]
                                 /\ i + 1 \in 1..Len(s) /\ i + 1 # 1
                                 /\ 1 \in 1..Len(s)
  BY <1>1
<1>4. Once(Tail(s), x)
  <2> SUFFICES ASSUME NEW i \in 1..Len(Tail(s)), NEW j \in 1..Len(Tail(s)),
                      Tail(s)[i] = x, Tail(s)[j] = x
               PROVE  i = j
    BY DEF Once
  <2>1. i + 1 = j + 1
    BY <1>3 DEF Once
  <2> QED
    BY <2>1
<1>5. ASSUME x = Head(s), x \in Range(Tail(s)) PROVE FALSE
  <2>1. PICK i \in 1..Len(Tail(s)) : Tail(s)[i] = x
    BY <1>2, <1>5 DEF Range
  <2> QED
    BY <1>1, <1>3, <1>5, <2>1 DEF Once
<1> QED
  BY <1>4, <1>5

\* A functor that was not there is there once.
LEMMA OnceNew ==
  ASSUME NEW S, NEW s \in Seq(S), NEW x \in S, x \notin Range(s)
  PROVE  Once(Append(s, x), x)
<1>1. /\ Len(Append(s, x)) = Len(s) + 1 /\ Len(s) \in Nat
      /\ \A i \in 1..Len(s) : Append(s, x)[i] = s[i]
      /\ DOMAIN s = 1..Len(s)
  BY AppendProperties, LenProperties
<1>2. \A i \in 1..Len(Append(s, x)) :
         Append(s, x)[i] = x => i = Len(s) + 1
  BY <1>1 DEF Range
<1> QED
  BY <1>2 DEF Once

\* Two sequences in which each pause has its resumption.
LEMMA FollowedConcat ==
  ASSUME NEW S, NEW s \in Seq(S), NEW t \in Seq(S), NEW x, NEW y,
         Followed(s, x, y), Followed(t, x, y)
  PROVE  Followed(s \o t, x, y)
<1>1. /\ Len(s \o t) = Len(s) + Len(t)
      /\ Len(s) \in Nat /\ Len(t) \in Nat
      /\ \A i \in 1..Len(s) + Len(t) :
            (s \o t)[i] = IF i <= Len(s) THEN s[i] ELSE t[i - Len(s)]
  BY ConcatProperties, LenProperties
<1> SUFFICES ASSUME NEW i \in 1..Len(s \o t), (s \o t)[i] = x
             PROVE  \E j \in 1..Len(s \o t) : i < j /\ (s \o t)[j] = y
  BY DEF Followed
<1>2. CASE i <= Len(s)
  <2>1. i \in 1..Len(s) /\ s[i] = x
    BY <1>1, <1>2
  <2>2. PICK j \in 1..Len(s) : i < j /\ s[j] = y
    BY <2>1 DEF Followed
  <2>3. j \in 1..Len(s \o t) /\ (s \o t)[j] = y
    BY <1>1, <2>2
  <2> QED
    BY <2>2, <2>3
<1>3. CASE ~(i <= Len(s))
  <2>1. i - Len(s) \in 1..Len(t) /\ t[i - Len(s)] = x
    BY <1>1, <1>3
  <2>2. PICK j \in 1..Len(t) : i - Len(s) < j /\ t[j] = y
    BY <2>1 DEF Followed
  <2>3. /\ j + Len(s) \in 1..Len(s \o t) /\ i < j + Len(s)
        /\ ~(j + Len(s) <= Len(s)) /\ (j + Len(s)) - Len(s) = j
    BY <1>1, <2>2
  <2>4. (s \o t)[j + Len(s)] = y
    BY <1>1, <2>2, <2>3
  <2> QED
    BY <2>3, <2>4
<1> QED
  BY <1>2, <1>3

\* When a pause is run its resumption is still there.
LEMMA FollowedTail ==
  ASSUME NEW S, NEW s \in Seq(S), s # <<>>, NEW x, NEW y, Followed(s, x, y)
  PROVE  Followed(Tail(s), x, y) /\ (x = Head(s) => y \in Range(Tail(s)))
<1>1. /\ Head(s) = s[1]
      /\ Tail(s) \in Seq(S) /\ Len(Tail(s)) = Len(s) - 1
      /\ \A i \in 1..Len(Tail(s)) : Tail(s)[i] = s[i + 1]
      /\ Len(s) \in Nat /\ Len(s) # 0
  BY HeadTailProperties, LenProperties, EmptySeq
<1>2. DOMAIN Tail(s) = 1..Len(Tail(s))
  BY <1>1, LenProperties
<1>3. \A j \in 1..Len(s) : j > 1 =>
         j - 1 \in 1..Len(Tail(s)) /\ Tail(s)[j - 1] = s[j]
  <2> SUFFICES ASSUME NEW j \in 1..Len(s), j > 1
               PROVE  j - 1 \in 1..Len(Tail(s)) /\ Tail(s)[j - 1] = s[j]
    OBVIOUS
  <2>1. j - 1 \in 1..Len(Tail(s)) /\ (j - 1) + 1 = j
    BY <1>1
  <2> QED
    BY <1>1, <2>1
<1>4. Followed(Tail(s), x, y)
  <2> SUFFICES ASSUME NEW i \in 1..Len(Tail(s)), Tail(s)[i] = x
               PROVE  \E j \in 1..Len(Tail(s)) : i < j /\ Tail(s)[j] = y
    BY DEF Followed
  <2>1. i + 1 \in 1..Len(s) /\ s[i + 1] = x
    BY <1>1
  <2>2. PICK j \in 1..Len(s) : i + 1 < j /\ s[j] = y
    BY <2>1 DEF Followed
  <2>3. /\ j - 1 \in 1..Len(Tail(s)) /\ Tail(s)[j - 1] = s[j]
        /\ i < j - 1
    BY <1>1, <1>3, <2>2
  <2> QED
    BY <2>2, <2>3
<1>5. ASSUME x = Head(s) PROVE y \in Range(Tail(s))
  <2>1. 1 \in 1..Len(s) /\ s[1] = x
    BY <1>1, <1>5
  <2>2. PICK j \in 1..Len(s) : 1 < j /\ s[j] = y
    BY <2>1 DEF Followed
  <2> QED
    BY <1>2, <1>3, <2>2 DEF Range
<1> QED
  BY <1>4, <1>5

\* Nothing is required to follow what is not there.
LEMMA FollowedVoid ==
  ASSUME NEW S, NEW s \in Seq(S), NEW x, NEW y, x \notin Range(s)
  PROVE  Followed(s, x, y)
<1>1. DOMAIN s = 1..Len(s)
  BY LenProperties
<1> QED
  BY <1>1 DEF Followed, Range

\* Other functors behind them leave those that came before where they are.
LEMMA BeforeConcat ==
  ASSUME NEW S, NEW s \in Seq(S), NEW t \in Seq(S), NEW x, NEW y,
         Before(s, x, y), y \notin Range(t)
  PROVE  Before(s \o t, x, y)
<1>1. /\ Len(s \o t) = Len(s) + Len(t)
      /\ Len(s) \in Nat /\ Len(t) \in Nat
      /\ \A i \in 1..Len(s) + Len(t) :
            (s \o t)[i] = IF i <= Len(s) THEN s[i] ELSE t[i - Len(s)]
      /\ DOMAIN t = 1..Len(t)
  BY ConcatProperties, LenProperties
<1> SUFFICES ASSUME NEW i \in 1..Len(s \o t), NEW j \in 1..Len(s \o t),
                    (s \o t)[i] = x, (s \o t)[j] = y
             PROVE  j < i
  BY DEF Before
<1>2. j \in 1..Len(s) /\ s[j] = y
  <2>1. CASE j <= Len(s)
    BY <1>1, <2>1
  <2>2. CASE ~(j <= Len(s))
    <3>1. j - Len(s) \in 1..Len(t) /\ t[j - Len(s)] = y
      BY <1>1, <2>2
    <3> QED
      BY <1>1, <3>1 DEF Range
  <2> QED
    BY <2>1, <2>2
<1>3. CASE i <= Len(s)
  <2>1. i \in 1..Len(s) /\ s[i] = x
    BY <1>1, <1>3
  <2> QED
    BY <1>2, <2>1 DEF Before
<1>4. CASE ~(i <= Len(s))
  BY <1>1, <1>2, <1>4
<1> QED
  BY <1>3, <1>4

\* When an x is run no y is left.
LEMMA BeforeTail ==
  ASSUME NEW S, NEW s \in Seq(S), s # <<>>, NEW x, NEW y, Before(s, x, y)
  PROVE  Before(Tail(s), x, y) /\ (x = Head(s) => y \notin Range(Tail(s)))
<1>1. /\ Head(s) = s[1]
      /\ Tail(s) \in Seq(S) /\ Len(Tail(s)) = Len(s) - 1
      /\ \A i \in 1..Len(Tail(s)) : Tail(s)[i] = s[i + 1]
      /\ Len(s) \in Nat /\ Len(s) # 0
  BY HeadTailProperties, LenProperties, EmptySeq
<1>2. DOMAIN Tail(s) = 1..Len(Tail(s))
  BY <1>1, LenProperties
<1>3. \A i \in 1..Len(Tail(s)) : /\ Tail(s)[i] = s[i + 1]
                                 /\ i + 1 \in 1..Len(s) /\ ~(i + 1 < 1)
                                 /\ 1 \in 1..Len(s)
  BY <1>1
<1>4. Before(Tail(s), x, y)
  <2> SUFFICES ASSUME NEW i \in 1..Len(Tail(s)), NEW j \in 1..Len(Tail(s)),
                      Tail(s)[i] = x, Tail(s)[j] = y
               PROVE  j < i
    BY DEF Before
  <2>1. j + 1 < i + 1
    BY <1>3 DEF Before
  <2> QED
    BY <2>1
<1>5. ASSUME x = Head(s), y \in Range(Tail(s)) PROVE FALSE
  <2>1. PICK j \in 1..Len(Tail(s)) : Tail(s)[j] = y
    BY <1>2, <1>5 DEF Range
  <2> QED
    BY <1>1, <1>3, <1>5, <2>1 DEF Before
<1> QED
  BY <1>4, <1>5

\* Nothing has to come before what is not there.
LEMMA BeforeVoid ==
  ASSUME NEW S, NEW s \in Seq(S), NEW x, NEW y, x \notin Range(s)
  PROVE  Before(s, x, y)
<1>1. DOMAIN s = 1..Len(s)
  BY LenProperties
<1> QED
  BY <1>1 DEF Before, Range

\* The functors of other connections than c are in the queue s2 as they were
\* in s1.
OthersKept(s2, s1, c) ==
    /\ \A x \in Functors : x.c # c => (x \in Range(s2) <=> x \in Range(s1))
    /\ \A x \in Functors : x.c # c /\ Once(s1, x) => Once(s2, x)
    /\ \A x, y \in Functors :
          x.c # c /\ y.c # c /\ Followed(s1, x, y) => Followed(s2, x, y)
    /\ \A x, y \in Functors :
          x.c # c /\ y.c # c /\ Before(s1, x, y) => Before(s2, x, y)

\* Functors of c are queued behind the others.
LEMMA OthersConcat ==
  ASSUME NEW c, NEW s \in Seq(Functors), NEW t \in Seq(Functors),
         \A f \in Range(t) : f.c = c
  PROVE  OthersKept(s \o t, s, c)
<1>1. Range(s \o t) = Range(s) \union Range(t)
  BY RangeConcatenation
<1>2. \A x \in Functors : x.c # c /\ Once(s, x) => Once(s \o t, x)
  BY OnceConcat
<1>3. \A x, y \in Functors :
         x.c # c /\ y.c # c /\ Followed(s, x, y) => Followed(s \o t, x, y)
  BY FollowedConcat, FollowedVoid
<1>4. \A x, y \in Functors :
         x.c # c /\ y.c # c /\ Before(s, x, y) => Before(s \o t, x, y)
  BY BeforeConcat
<1> QED
  BY <1>1, <1>2, <1>3, <1>4 DEF OthersKept

\* A functor of c is run.
LEMMA OthersTail ==
  ASSUME NEW c, NEW s \in Seq(Functors), s # <<>>, Head(s).c = c
  PROVE  OthersKept(Tail(s), s, c)
<1>1. Range(s) = {Head(s)} \union Range(Tail(s))
  BY RangeOfTail
<1>2. \A x \in Functors : x.c # c => (x \in Range(Tail(s)) <=> x \in Range(s))
  BY <1>1
<1>3. \A x \in Functors : x.c # c /\ Once(s, x) => Once(Tail(s), x)
  BY OnceTail
<1>4. \A x, y \in Functors :
         x.c # c /\ y.c # c /\ Followed(s, x, y) => Followed(Tail(s), x, y)
  BY FollowedTail
<1>5. \A x, y \in Functors :
         x.c # c /\ y.c # c /\ Before(s, x, y) => Before(Tail(s), x, y)
  BY BeforeTail
<1> QED
  BY <1>2, <1>3, <1>4, <1>5 DEF OthersKept

\* The queues of all loops.
LEMMA WaitingTypes ==
  ASSUME TypeInv, NEW l \in Loops
  PROVE  /\ list[l] \in Seq(Functors) /\ pending[l] \in Seq(Functors)
         /\ Waiting(l) \in Seq(Functors)
         /\ Range(Waiting(l)) = Range(list[l]) \union Range(pending[l])
         /\ \A f \in Range(Waiting(l)) : f \in Functors
<1>1. list[l] \in Seq(Functors) /\ pending[l] \in Seq(Functors)
  BY DEF TypeInv, QueueTypes, ListTypes
<1>2. /\ Waiting(l) \in Seq(Functors)
      /\ Range(Waiting(l)) = Range(list[l]) \union Range(pending[l])
  BY <1>1, ConcatProperties, RangeConcatenation DEF Waiting
<1>3. \A f \in Range(Waiting(l)) : f \in Functors
  BY <1>2, ElementOfSeq DEF Range
<1> QED
  BY <1>1, <1>2, <1>3

\* The same after a step.
LEMMA WaitingTypesNext ==
  ASSUME TypeInv', NEW l \in Loops
  PROVE  /\ Waiting(l)' \in Seq(Functors)
         /\ Range(Waiting(l)') = Range(list'[l]) \union Range(pending'[l])
         /\ \A f \in Range(Waiting(l)') : f \in Functors
<1>1. list'[l] \in Seq(Functors) /\ pending'[l] \in Seq(Functors)
  BY DEF TypeInv, QueueTypes, ListTypes
<1>2. /\ Waiting(l)' \in Seq(Functors)
      /\ Range(Waiting(l)') = Range(list'[l]) \union Range(pending'[l])
  BY <1>1, ConcatProperties, RangeConcatenation DEF Waiting
<1>3. \A f \in Range(Waiting(l)') : f \in Functors
  BY <1>2, ElementOfSeq DEF Range
<1> QED
  BY <1>2, <1>3

\* Functors are queued behind those that wait.
LEMMA WaitingGains ==
  ASSUME TypeInv, NEW l \in Loops, NEW t \in Seq(Functors),
         list'[l] = list[l], pending'[l] = pending[l] \o t
  PROVE  /\ Waiting(l)' = Waiting(l) \o t
         /\ Range(Waiting(l)') = Range(Waiting(l)) \union Range(t)
<1>3. list[l] \in Seq(Functors) /\ pending[l] \in Seq(Functors)
  BY WaitingTypes
<1>1. (list[l] \o pending[l]) \o t = list[l] \o (pending[l] \o t)
  <2>1. ASSUME NEW a \in Seq(Functors), NEW b \in Seq(Functors)
        PROVE  (a \o b) \o t = a \o (b \o t)
    BY SMTT(30)
  <2> QED
    BY <1>3, <2>1, Zenon
<1>2. Waiting(l)' = Waiting(l) \o t
  BY <1>1 DEF Waiting
<1> QED
  BY <1>2, WaitingTypes, RangeConcatenation

\* The first functor of the turn is run.
LEMMA WaitingRun ==
  ASSUME TypeInv, NEW l \in Loops, list[l] # <<>>,
         list'[l] = Tail(list[l]), pending'[l] = pending[l]
  PROVE  /\ Waiting(l)' = Tail(Waiting(l)) /\ Waiting(l) # <<>>
         /\ Head(Waiting(l)) = Head(list[l])
         /\ Range(Waiting(l)) = {Head(list[l])} \union Range(Waiting(l)')
<1>1. list[l] \in Seq(Functors) /\ pending[l] \in Seq(Functors)
  BY WaitingTypes
<1>2. \A s, t \in Seq(Functors) : s # <<>> =>
         /\ s \o t # <<>> /\ Head(s \o t) = Head(s)
         /\ Tail(s \o t) = Tail(s) \o t
  BY SMTT(30)
<1>3. /\ Waiting(l)' = Tail(Waiting(l)) /\ Waiting(l) # <<>>
      /\ Head(Waiting(l)) = Head(list[l])
  BY <1>1, <1>2 DEF Waiting
<1> QED
  BY <1>3, WaitingTypes, RangeOfTail

\* A step of connection c leaves the invariant of the others.
LEMMA OthersSafe ==
  ASSUME TypeInv, LifeInv, TypeInv', NEW c \in Conns,
         \A l \in Loops : OthersKept(Waiting(l)', Waiting(l), c),
         \A d \in Conns \ {c} :
            /\ conn'[d] = conn[d] /\ loopOf'[d] = loopOf[d]
            /\ removals'[d] = removals[d]
            /\ d \in connections' <=> d \in connections
  PROVE  /\ (\A d \in Conns \ {c} : Sound(conn[d]) /\ Owned(d) /\ Resumed(d))'
         /\ (\A l \in Loops : \A f \in Range(Waiting(l)) :
                f.c # c => FunctorOK(f, l))'
         /\ (\A l \in Loops, d \in Conns \ {c} :
                /\ Once(Waiting(l), Functor(d)["connectEstablished"])
                /\ Once(Waiting(l), Functor(d)["removeConnectionInLoop"]))'
<1>1. \A d \in Conns : \A fn \in FunctorNames :
         Functor(d)[fn] \in Functors /\ Functor(d)[fn].c = d
  BY FunctorFields
<1>2. {"connectEstablished", "connectDestroyed", "removeConnectionInLoop",
       "writeComplete", "highWaterMark"} \subseteq FunctorNames
  BY DEF FunctorNames
<1>3. "main" \in Loops /\ \A d \in Conns : loopOf[d] \in Loops
  BY LoopNames DEF TypeInv, ServTypes
<1>4. ASSUME NEW d \in Conns \ {c}
      PROVE  (Sound(conn[d]) /\ Owned(d) /\ Resumed(d))'
  <2>1. Sound(conn[d]) /\ Owned(d) /\ Resumed(d)
    BY DEF LifeInv
  <2>2. \A fn \in FunctorNames : \A l \in Loops :
           Functor(d)[fn] \in Range(Waiting(l)') <=>
              Functor(d)[fn] \in Range(Waiting(l))
    BY <1>1 DEF OthersKept
  <2>3. Sound(conn[d])'
    BY <2>1
  <2>4. Owned(d)'
    BY <1>2, <1>3, <2>1, <2>2 DEF Owned
  <2>5. Resumed(d)'
    <3> SUFFICES ASSUME Live(conn[d]), ~conn[d].wr
                 PROVE  /\ ~conn[d].rd => Functor(d)["writeComplete"]
                                             \in Range(Waiting(loopOf[d])')
                        /\ Followed(Waiting(loopOf[d])',
                              Functor(d)["highWaterMark"],
                              Functor(d)["writeComplete"])
      BY DEF Resumed
    <3>1. ~conn[d].rd =>
             Functor(d)["writeComplete"] \in Range(Waiting(loopOf[d]))
      BY <2>1 DEF Resumed
    <3>2. Followed(Waiting(loopOf[d]), Functor(d)["highWaterMark"],
                   Functor(d)["writeComplete"])
      BY <2>1 DEF Resumed
    <3>3. Followed(Waiting(loopOf[d])', Functor(d)["highWaterMark"],
                   Functor(d)["writeComplete"])
      BY <1>1, <1>2, <1>3, <3>2 DEF OthersKept
    <3> QED
      BY <1>2, <1>3, <2>2, <3>1, <3>3
  <2> QED
    BY <2>3, <2>4, <2>5
<1>5. ASSUME NEW l \in Loops, NEW f \in Range(Waiting(l)'), f.c # c
      PROVE  FunctorOK(f, l)'
  <2>1. f \in Functors
    BY <1>5, WaitingTypesNext
  <2>2. f.c \in Conns \ {c}
    BY <1>5, <2>1 DEF Functors
  <2>3. f \in Range(Waiting(l))
    BY <1>5, <2>1 DEF OthersKept
  <2>4. FunctorOK(f, l)
    BY <2>3 DEF LifeInv, FunctorsInTime
  <2> QED
    BY <2>2, <2>4 DEF FunctorOK
<1>6. ASSUME NEW l \in Loops, NEW d \in Conns \ {c}
      PROVE  (/\ Once(Waiting(l), Functor(d)["connectEstablished"])
              /\ Once(Waiting(l), Functor(d)["removeConnectionInLoop"]))'
  <2>1. /\ Once(Waiting(l), Functor(d)["connectEstablished"])
        /\ Once(Waiting(l), Functor(d)["removeConnectionInLoop"])
    BY DEF LifeInv, FunctorsOnce
  <2> QED
    BY <1>1, <1>2, <2>1 DEF OthersKept
<1> QED
  BY <1>4, <1>5, <1>6

-----------------------------------------------------------------------------
(* The lives of the connections                                            *)

\* The parts that depend on connections and queues only.
LifeParts ==
    /\ NoForeignCalls
    /\ \A c \in Conns : Sound(conn[c]) /\ Owned(c) /\ Resumed(c)
    /\ FunctorsInTime /\ FunctorsOnce

\* Steps that leave connections and queues alone.
LEMMA SameQueues ==
  ASSUME TypeInv, LifeInv,
         UNCHANGED <<conn, loopOf, connections, removals, callers, timers,
                     foreign, misuse>>,
         \A l \in Loops : Waiting(l)' = Waiting(l)
  PROVE  LifeParts'
<1>1. "main" \in Loops /\ \A c \in Conns : loopOf[c] \in Loops
  BY LoopNames DEF TypeInv, ServTypes
<1>2. NoForeignCalls'
  BY DEF LifeInv, NoForeignCalls
<1>3. ASSUME NEW c \in Conns
      PROVE  (Sound(conn[c]) /\ Owned(c) /\ Resumed(c))'
  <2>1. Sound(conn[c]) /\ Owned(c) /\ Resumed(c)
    BY DEF LifeInv
  <2>2. Waiting(loopOf[c])' = Waiting(loopOf[c]) /\ Waiting("main")' = Waiting("main")
    BY <1>1
  <2> QED
    BY <2>1, <2>2 DEF Owned, Resumed
<1>4. FunctorsInTime'
  BY DEF LifeInv, FunctorsInTime, FunctorOK
<1>5. FunctorsOnce'
  BY DEF LifeInv, FunctorsOnce
<1> QED
  BY <1>2, <1>3, <1>4, <1>5 DEF LifeParts

\* The initial state.
LEMMA InitLife ==
  ASSUME HttpCalls, Init
  PROVE  LifeInv
<1>1. NoForeignCalls
  BY DEF HttpCalls, Init, NoForeignCalls
<1>2. \A l \in Loops : list[l] = <<>> /\ pending[l] = <<>>
  BY DEF Init
<1>3. \A l \in Loops : Waiting(l) = <<>>
  <2>1. <<>> \o <<>> = <<>>
    BY ConcatEmptySeq, EmptySeq
  <2> QED
    BY <1>2, <2>1 DEF Waiting
<1>4. Range(<<>>) = {}
  BY DEF Range
<1>5. \A c \in Conns : conn[c] = NoConnection /\ removals[c] = 0
  BY DEF Init
<1>6. ASSUME NEW c \in Conns
      PROVE  Sound(conn[c]) /\ Owned(c) /\ Resumed(c)
  BY <1>5, NewRecords DEF Owned, Resumed, Live
<1>7. SnapshotsFresh
  BY DEF Init, SnapshotsFresh
<1>8. ListsRun /\ CallbacksInTurn
  BY <1>2, <1>4 DEF ListsRun, CallbacksInTurn
<1>9. FunctorsInTime
  BY <1>3, <1>4 DEF FunctorsInTime
<1>10. FunctorsOnce
  <2>1. Len(<<>>) = 0
    OBVIOUS
  <2> QED
    BY <1>3, <2>1 DEF FunctorsOnce, Once
<1> QED
  BY <1>1, <1>6, <1>7, <1>8, <1>9, <1>10 DEF LifeInv

\* Peers, the kernel and a failing accept.
LEMMA LifeFrame ==
  ASSUME TypeInv, LifeInv,
         UNCHANGED <<conn, loopOf, connections, removals, callers, timers,
                     foreign, misuse, phase, active, list, pending>>
  PROVE  LifeInv'
<1>1. LifeParts'
  BY SameQueues DEF Waiting
<1>2. (SnapshotsFresh /\ ListsRun /\ CallbacksInTurn)'
  BY DEF LifeInv, SnapshotsFresh, ListsRun, CallbacksInTurn
<1> QED
  BY <1>1, <1>2 DEF LifeInv, LifeParts

\* The turns of a loop.
LEMMA LifeTurn ==
  ASSUME TypeInv, LifeInv, NEW l \in Loops,
         Poll(l) \/ EventsDone(l) \/ FunctorsDone(l)
  PROVE  LifeInv'
<1>1. CASE Poll(l)
  <2>1. PICK writable : active' = [active EXCEPT ![l] =
              [c \in Conns |-> IF loopOf[c] = l /\ conn[c].state # "None"
                               THEN Ready(c, c \in writable) ELSE {}]]
    BY <1>1 DEF Poll
  <2>2. /\ UNCHANGED <<conn, loopOf, connections, removals, callers, timers,
                       foreign, misuse, list, pending>>
        /\ phase[l] = "poll" /\ phase' = [phase EXCEPT ![l] = "events"]
    BY <1>1 DEF Poll, connVars, servVars
  <2>3. LifeParts'
    BY <2>2, SameQueues DEF Waiting
  <2>4. \A m \in Loops : m # l => phase'[m] = phase[m] /\ active'[m] = active[m]
    BY <2>1, <2>2 DEF TypeInv, LoopTypes
  <2>5. phase'[l] = "events"
    BY <2>2 DEF TypeInv, LoopTypes
  <2>6. SnapshotsFresh'
    <3> SUFFICES ASSUME NEW m \in Loops, NEW c \in Conns, active'[m][c] # {}
                 PROVE  /\ m = loopOf[c] /\ phase'[m] = "events"
                        /\ Live(conn[c]) /\ conn[c].index = "added"
      BY <2>2 DEF SnapshotsFresh
    <3>1. CASE m # l
      BY <2>4, <3>1 DEF LifeInv, SnapshotsFresh
    <3>2. CASE m = l
      <4>1. active'[l] = [d \in Conns |->
                 IF loopOf[d] = l /\ conn[d].state # "None"
                 THEN Ready(d, d \in writable) ELSE {}]
        BY <2>1 DEF TypeInv, LoopTypes
      <4>2. loopOf[c] = l /\ conn[c].state # "None"
            /\ Ready(c, c \in writable) # {}
        BY <3>2, <4>1
      <4>3. conn[c].index = "added"
        BY <4>2 DEF Ready
      <4>4. Sound(conn[c]) /\ conn[c].state \in States
        BY DEF LifeInv, TypeInv, ConnTypes, Records
      <4>5. Live(conn[c])
        BY <4>2, <4>3, <4>4 DEF Sound, Live, States
      <4> QED
        BY <2>5, <3>2, <4>2, <4>3, <4>5
    <3> QED
      BY <3>1, <3>2
  <2>7. ListsRun'
    BY <2>2, <2>4, <2>5 DEF LifeInv, ListsRun
  <2>8. CallbacksInTurn'
    <3> SUFFICES ASSUME NEW m \in Loops, NEW f \in Range(pending[m]),
                        f.fn \in Callbacks
                 PROVE  phase'[m] = "events" /\ active'[m][f.c] = {}
      BY <2>2 DEF CallbacksInTurn
    <3>1. phase[m] = "events" /\ active[m][f.c] = {}
      BY DEF LifeInv, CallbacksInTurn
    <3> QED
      BY <2>2, <2>4, <3>1
  <2> QED
    BY <2>3, <2>6, <2>7, <2>8 DEF LifeInv, LifeParts
<1>2. CASE EventsDone(l)
  <2>1. /\ UNCHANGED <<conn, loopOf, connections, removals, callers, timers,
                       foreign, misuse, active>>
        /\ phase[l] = "events" /\ phase' = [phase EXCEPT ![l] = "functors"]
        /\ list' = [list EXCEPT ![l] = pending[l]]
        /\ pending' = [pending EXCEPT ![l] = <<>>]
        /\ \A c \in Conns : active[l][c] = {}
    BY <1>2 DEF EventsDone, connVars, servVars
  <2>2. \A m \in Loops : m # l =>
           /\ phase'[m] = phase[m]
           /\ list'[m] = list[m] /\ pending'[m] = pending[m]
    BY <2>1 DEF TypeInv, LoopTypes, ListTypes, QueueTypes
  <2>3. phase'[l] = "functors" /\ list'[l] = pending[l] /\ pending'[l] = <<>>
    BY <2>1 DEF TypeInv, LoopTypes, ListTypes, QueueTypes
  <2>4. list[l] = <<>>
    BY <2>1 DEF LifeInv, ListsRun
  <2>5. \A m \in Loops : Waiting(m)' = Waiting(m)
    <3>1. /\ <<>> \o pending[l] = pending[l]
          /\ pending[l] \o <<>> = pending[l]
      BY WaitingTypes, ConcatEmptySeq
    <3> QED
      BY <2>2, <2>3, <2>4, <3>1 DEF Waiting
  <2>6. LifeParts'
    BY <2>1, <2>5, SameQueues
  <2>7. SnapshotsFresh'
    <3> SUFFICES ASSUME NEW m \in Loops, NEW c \in Conns, active[m][c] # {}
                 PROVE  /\ m = loopOf[c] /\ phase'[m] = "events"
                        /\ Live(conn[c]) /\ conn[c].index = "added"
      BY <2>1 DEF SnapshotsFresh
    <3>1. m # l
      BY <2>1
    <3> QED
      BY <2>2, <3>1 DEF LifeInv, SnapshotsFresh
  <2>8. ListsRun'
    BY <2>2, <2>3 DEF LifeInv, ListsRun
  <2>9. CallbacksInTurn'
    <3>1. Range(<<>>) = {}
      BY DEF Range
    <3> QED
      BY <2>1, <2>2, <2>3, <3>1 DEF LifeInv, CallbacksInTurn
  <2> QED
    BY <2>6, <2>7, <2>8, <2>9 DEF LifeInv, LifeParts
<1>3. CASE FunctorsDone(l)
  <2>1. /\ UNCHANGED <<conn, loopOf, connections, removals, callers, timers,
                       foreign, misuse, active, list, pending>>
        /\ phase[l] = "functors" /\ phase' = [phase EXCEPT ![l] = "poll"]
        /\ list[l] = <<>>
    BY <1>3 DEF FunctorsDone, connVars, servVars
  <2>2. \A m \in Loops : m # l => phase'[m] = phase[m]
    BY <2>1 DEF TypeInv, LoopTypes
  <2>3. LifeParts'
    BY <2>1, SameQueues DEF Waiting
  <2>4. SnapshotsFresh'
    <3> SUFFICES ASSUME NEW m \in Loops, NEW c \in Conns, active[m][c] # {}
                 PROVE  /\ m = loopOf[c] /\ phase'[m] = "events"
                        /\ Live(conn[c]) /\ conn[c].index = "added"
      BY <2>1 DEF SnapshotsFresh
    <3> QED
      BY <2>1, <2>2 DEF LifeInv, SnapshotsFresh
  <2>5. ListsRun'
    BY <2>1, <2>2 DEF LifeInv, ListsRun
  <2>6. CallbacksInTurn'
    <3> SUFFICES ASSUME NEW m \in Loops, NEW f \in Range(pending[m]),
                        f.fn \in Callbacks
                 PROVE  phase'[m] = "events" /\ active[m][f.c] = {}
      BY <2>1 DEF CallbacksInTurn
    <3>1. phase[m] = "events" /\ active[m][f.c] = {}
      BY DEF LifeInv, CallbacksInTurn
    <3> QED
      BY <2>1, <2>2, <3>1
  <2> QED
    BY <2>3, <2>4, <2>5, <2>6 DEF LifeInv, LifeParts
<1> QED
  BY <1>1, <1>2, <1>3

\* What the invariant says about one connection and its functors.
OneLife(c) ==
    /\ Sound(conn[c]) /\ Owned(c) /\ Resumed(c)
    /\ \A l \in Loops :
          /\ \A f \in Range(Waiting(l)) : f.c = c => FunctorOK(f, l)
          /\ Once(Waiting(l), Functor(c)["connectEstablished"])
          /\ Once(Waiting(l), Functor(c)["removeConnectionInLoop"])

\* The invariant says so of every connection.
LEMMA LifeOfOne ==
  ASSUME LifeInv, NEW c \in Conns
  PROVE  OneLife(c)
  BY DEF LifeInv, FunctorsInTime, FunctorsOnce, OneLife

\* A step of c has to be looked at for c only.
LEMMA StepOfOne ==
  ASSUME TypeInv, LifeInv, TypeInv', NEW c \in Conns,
         \A l \in Loops : OthersKept(Waiting(l)', Waiting(l), c),
         \A d \in Conns \ {c} :
            /\ conn'[d] = conn[d] /\ loopOf'[d] = loopOf[d]
            /\ removals'[d] = removals[d]
            /\ d \in connections' <=> d \in connections,
         OneLife(c)', NoForeignCalls'
  PROVE  LifeParts'
<1>1. /\ (\A d \in Conns \ {c} : Sound(conn[d]) /\ Owned(d) /\ Resumed(d))'
      /\ (\A l \in Loops : \A f \in Range(Waiting(l)) :
             f.c # c => FunctorOK(f, l))'
      /\ (\A l \in Loops, d \in Conns \ {c} :
             /\ Once(Waiting(l), Functor(d)["connectEstablished"])
             /\ Once(Waiting(l), Functor(d)["removeConnectionInLoop"]))'
  BY OthersSafe
<1>2. (\A d \in Conns : Sound(conn[d]) /\ Owned(d) /\ Resumed(d))'
  BY <1>1 DEF OneLife
<1>3. FunctorsInTime'
  BY <1>1 DEF OneLife, FunctorsInTime
<1>4. FunctorsOnce'
  BY <1>1 DEF OneLife, FunctorsOnce
<1> QED
  BY <1>2, <1>3, <1>4 DEF LifeParts

\* A queue that stays.
LEMMA OthersSame ==
  ASSUME NEW s, NEW c
  PROVE  OthersKept(s, s, c)
  BY DEF OthersKept

\* The functors HttpServer's calls put into queues.
LEMMA QueuedNames ==
  {"connectEstablished", "connectDestroyed", "removeConnectionInLoop",
   "writeComplete", "highWaterMark"} \subseteq FunctorNames
  BY DEF FunctorNames

\* A functor of c is what Functor gives.
LEMMA FunctorOf ==
  ASSUME NEW f \in Functors
  PROVE  f = Functor(f.c)[f.fn] /\ f.fn \in FunctorNames /\ f.c \in Conns
  BY DEF Functor, Functors

\* A connection that was not accepted has no functors.
LEMMA NoneHasNoFunctors ==
  ASSUME TypeInv, LifeInv, NEW c \in Conns, conn[c].state = "None",
         NEW l \in Loops
  PROVE  \A f \in Range(Waiting(l)) : f.c # c
<1> SUFFICES ASSUME NEW f \in Range(Waiting(l)), f.c = c PROVE FALSE
  OBVIOUS
<1>1. FunctorOK(f, l)
  BY DEF LifeInv, FunctorsInTime
<1> QED
  BY <1>1 DEF FunctorOK, Live, Callbacks

\* Accepting a connection.
LEMMA LifeAccept ==
  ASSUME TypeInv, LifeInv, TypeInv', NEW c \in Conns, Accept(c)
  PROVE  LifeInv'
<1>1. conn[c].state = "None"
  BY DEF Accept, Accepts, Backlog
<1>2. /\ loopOf' = [loopOf EXCEPT ![c] = NextLoop]
      /\ connections' = connections \union {c}
      /\ UNCHANGED <<callers, phase, active, list, timers, foreign, removals,
                     misuse>>
  BY DEF Accept
<1>3. NextLoop \in Loops /\ "main" \in Loops
  BY NextLoopOfPool, LoopNames DEF TypeInv
<1>12. PICK to \in Loops : to = NextLoop
  BY <1>3
<1>4. \A l \in Loops : \A f \in Range(Waiting(l)) : f.c # c
  BY <1>1, NoneHasNoFunctors
<1>5. PICK e \in Records : conn' = [conn EXCEPT ![c] = e]
  BY NewRecords, EstablishedFields DEF Accept
<1>6. conn'[c] = e /\ loopOf'[c] = NextLoop /\ removals[c] = 0
  BY <1>1, <1>2, <1>5 DEF TypeInv, ConnTypes, ServTypes, LifeInv, Owned
<1>7. \A d \in Conns \ {c} :
         /\ conn'[d] = conn[d] /\ loopOf'[d] = loopOf[d]
         /\ removals'[d] = removals[d]
         /\ d \in connections' <=> d \in connections
  BY <1>2, <1>5 DEF TypeInv, ConnTypes, ServTypes
<1>8. NoForeignCalls'
  BY <1>2 DEF LifeInv, NoForeignCalls
<1> DEFINE new == Functor(c)["connectEstablished"]
<1>9. new \in Functors /\ new.fn = "connectEstablished" /\ new.c = c
  BY FunctorFields, QueuedNames
<1> HIDE DEF new
<1>10. CASE NextLoop = "main"
  <2>1. pending' = pending /\ e = ConnectEstablished(NewConnection)
    BY <1>6, <1>10 DEF Accept, TypeInv, ConnTypes
  <2>2. \A l \in Loops : Waiting(l)' = Waiting(l)
    BY <1>2, <2>1 DEF Waiting
  <2>3. \A l \in Loops : OthersKept(Waiting(l)', Waiting(l), c)
    BY <2>2, OthersSame
  <2>4. Sound(e) /\ Live(e) /\ e.state = "Connected" /\ e.rd
    BY <2>1, NewRecords, EstablishedFields DEF Sound, Live
  <2>5. OneLife(c)'
    <3>1. Sound(conn[c])'
      BY <1>6, <2>4
    <3>2. Owned(c)'
      BY <1>2, <1>6, <2>4 DEF Owned
    <3>3. Resumed(c)'
      <4>1. Functor(c)["highWaterMark"].c = c
        BY FunctorFields, QueuedNames
      <4>2. Functor(c)["highWaterMark"] \notin Range(Waiting("main")')
        BY <1>3, <1>4, <2>2, <4>1
      <4>3. Followed(Waiting("main")', Functor(c)["highWaterMark"],
                     Functor(c)["writeComplete"])
        BY <1>3, <4>2, WaitingTypesNext, FollowedVoid
      <4> QED
        BY <1>6, <1>10, <2>4, <4>3 DEF Resumed
    <3>4. \A l \in Loops :
             /\ Once(Waiting(l)', Functor(c)["connectEstablished"])
             /\ Once(Waiting(l)', Functor(c)["removeConnectionInLoop"])
      BY <2>2 DEF LifeInv, FunctorsOnce
    <3> QED
      BY <1>4, <2>2, <3>1, <3>2, <3>3, <3>4 DEF OneLife
  <2>6. LifeParts'
    BY <1>7, <1>8, <2>3, <2>5, StepOfOne
  <2>7. SnapshotsFresh'
    <3> SUFFICES ASSUME NEW m \in Loops, NEW d \in Conns, active[m][d] # {}
                 PROVE  /\ m = loopOf'[d] /\ phase[m] = "events"
                        /\ Live(conn'[d]) /\ conn'[d].index = "added"
      BY <1>2 DEF SnapshotsFresh
    <3>1. /\ m = loopOf[d] /\ phase[m] = "events"
          /\ Live(conn[d]) /\ conn[d].index = "added"
      BY DEF LifeInv, SnapshotsFresh
    <3>2. d # c
      BY <1>1, <3>1 DEF Live
    <3> QED
      BY <1>7, <3>1, <3>2
  <2>8. ListsRun' /\ CallbacksInTurn'
    BY <1>2, <2>1 DEF LifeInv, ListsRun, CallbacksInTurn
  <2> QED
    BY <2>6, <2>7, <2>8 DEF LifeInv, LifeParts
<1>11. CASE NextLoop # "main"
  <2>1. /\ pending' = [pending EXCEPT ![to] = Append(@, new)]
        /\ e = NewConnection
    BY <1>6, <1>11, <1>12 DEF Accept, TypeInv, ConnTypes, new
  <2>2. \A l \in Loops : l # to => pending'[l] = pending[l]
    BY <2>1 DEF TypeInv, QueueTypes
  <2>3. pending'[to] = pending[to] \o <<new>>
    <3>1. pending[to] \in Seq(Functors)
      BY <1>3, WaitingTypes
    <3>2. pending'[to] = Append(pending[to], new)
      BY <1>3, <2>1 DEF TypeInv, QueueTypes
    <3> QED
      BY <1>9, <3>1, <3>2, AppendIsConcat
  <2>4. <<new>> \in Seq(Functors) /\ Range(<<new>>) = {new}
    BY <1>9 DEF Range
  <2>5. /\ Waiting(to)' = Waiting(to) \o <<new>>
        /\ Range(Waiting(to)') = Range(Waiting(to)) \union {new}
    BY <1>2, <1>3, <2>3, <2>4, WaitingGains
  <2>6. \A l \in Loops : l # to => Waiting(l)' = Waiting(l)
    BY <1>2, <2>2 DEF Waiting
  <2>7. \A l \in Loops : OthersKept(Waiting(l)', Waiting(l), c)
    <3>1. OthersKept(Waiting(to) \o <<new>>, Waiting(to), c)
      BY <1>3, <1>9, <2>4, WaitingTypes, OthersConcat
    <3> QED
      BY <2>5, <2>6, <3>1, OthersSame
  <2>8. Sound(e) /\ e.state = "Connecting"
    BY <2>1, NewRecords
  <2>9. OneLife(c)'
    <3>1. Sound(conn[c])'
      BY <1>6, <2>8
    <3>2. Owned(c)'
      BY <1>2, <1>6, <2>8 DEF Owned
    <3>3. Resumed(c)'
      BY <1>6, <2>8 DEF Resumed, Live
    <3>4. ASSUME NEW l \in Loops, NEW f \in Range(Waiting(l)'), f.c = c
          PROVE  FunctorOK(f, l)'
      <4>1. l = to /\ f = new
        BY <1>4, <2>5, <2>6, <3>4
      <4> QED
        BY <1>6, <1>9, <1>12, <2>8, <4>1 DEF FunctorOK, Callbacks
    <3>5. ASSUME NEW l \in Loops
          PROVE  /\ Once(Waiting(l)', Functor(c)["connectEstablished"])
                 /\ Once(Waiting(l)', Functor(c)["removeConnectionInLoop"])
      <4> DEFINE s == Waiting(to)
                 gone == Functor(c)["removeConnectionInLoop"]
      <4>1. s \in Seq(Functors) /\ Once(s, gone) /\ new \notin Range(s)
        BY <1>3, <1>4, <1>9, WaitingTypes DEF LifeInv, FunctorsOnce
      <4>2. gone.fn = "removeConnectionInLoop"
        BY FunctorFields, QueuedNames
      <4>3. gone \notin Range(<<new>>)
        BY <1>9, <2>4, <4>2
      <4> HIDE DEF s, gone
      <4>4. Once(s \o <<new>>, gone)
        BY <2>4, <4>1, <4>3, OnceConcat
      <4>5. Append(s, new) = s \o <<new>>
        BY <1>9, <4>1, AppendIsConcat
      <4>6. Once(s \o <<new>>, new)
        BY <1>9, <4>1, <4>5, OnceNew
      <4>7. CASE l = to
        BY <2>5, <4>4, <4>6, <4>7 DEF s, gone, new
      <4>8. CASE l # to
        BY <2>6, <4>8 DEF LifeInv, FunctorsOnce
      <4> QED
        BY <4>7, <4>8
    <3> QED
      BY <3>1, <3>2, <3>3, <3>4, <3>5 DEF OneLife
  <2>10. LifeParts'
    BY <1>7, <1>8, <2>7, <2>9, StepOfOne
  <2>11. SnapshotsFresh'
    <3> SUFFICES ASSUME NEW m \in Loops, NEW d \in Conns, active[m][d] # {}
                 PROVE  /\ m = loopOf'[d] /\ phase[m] = "events"
                        /\ Live(conn'[d]) /\ conn'[d].index = "added"
      BY <1>2 DEF SnapshotsFresh
    <3>1. /\ m = loopOf[d] /\ phase[m] = "events"
          /\ Live(conn[d]) /\ conn[d].index = "added"
      BY DEF LifeInv, SnapshotsFresh
    <3>2. d # c
      BY <1>1, <3>1 DEF Live
    <3> QED
      BY <1>7, <3>1, <3>2
  <2>12. CallbacksInTurn'
    <3> SUFFICES ASSUME NEW l \in Loops, NEW f \in Range(pending'[l]),
                        f.fn \in Callbacks
                 PROVE  phase[l] = "events" /\ active[l][f.c] = {}
      BY <1>2 DEF CallbacksInTurn
    <3>1. Range(pending'[to]) = Range(pending[to]) \union {new}
      <4>1. pending[to] \in Seq(Functors)
        BY WaitingTypes
      <4>2. Range(pending[to] \o <<new>>) =
               Range(pending[to]) \union Range(<<new>>)
        <5>1. <<new>> \in Seq(Functors)
          BY <2>4
        <5>2. \A s, t \in Seq(Functors) :
                 Range(s \o t) = Range(s) \union Range(t)
          BY RangeConcatenation
        <5> QED
          BY <4>1, <5>1, <5>2, Zenon
      <4> QED
        BY <2>3, <2>4, <4>2
    <3>2. f \in Range(pending[l])
      BY <1>9, <2>2, <3>1 DEF Callbacks
    <3> QED
      BY <3>2 DEF LifeInv, CallbacksInTurn
  <2>13. ListsRun'
    BY <1>2 DEF LifeInv, ListsRun
  <2> QED
    BY <2>10, <2>11, <2>12, <2>13 DEF LifeInv, LifeParts
<1> QED
  BY <1>10, <1>11

\* A handler that queues nothing and does not close only changes its record.
LEMMA QuietCommit ==
  ASSUME TypeInv, NEW c \in Conns, NEW e \in Records, e.queued = <<>>,
         e.closes = conn[c].closes, Commit(c, e)
  PROVE  /\ conn' = [conn EXCEPT ![c] = e]
         /\ UNCHANGED <<pending, connections, removals>>
<1>1. [e EXCEPT !.queued = <<>>] = e
  BY DEF Records
<1>2. [i \in 1..Len(e.queued) |-> Functor(c)[e.queued[i]]] = <<>>
  OBVIOUS
<1>3. loopOf[c] \in Loops /\ ~(e.closes > conn[c].closes)
  BY DEF TypeInv, ServTypes, Records
<1>4. pending[loopOf[c]] \o <<>> = pending[loopOf[c]]
  BY <1>3, WaitingTypes, ConcatEmptySeq
<1>5. [pending EXCEPT ![loopOf[c]] = @ \o <<>>] = pending
  BY <1>3, <1>4 DEF TypeInv, QueueTypes
<1> QED
  BY <1>1, <1>2, <1>3, <1>5 DEF Commit

\* The timing wheel's shutdown().
LEMMA LifeIdle ==
  ASSUME TypeInv, LifeInv, TypeInv', NEW c \in Conns, IdleShutdown(c)
  PROVE  LifeInv'
<1>1. /\ conn[c] \in Records /\ conn[c].queued = <<>>
      /\ conn[c].state = "Connected"
  BY DEF IdleShutdown, TypeInv, ConnTypes
<1>2. PICK e \in Records : e = Shutdown(conn[c])
  BY <1>1, ShutdownFields
<1>3. /\ e.state = "DisConnecting"
      /\ e.fin = (conn[c].fin \/ ~conn[c].wr)
      /\ e.out = conn[c].out /\ e.queued = <<>>
      /\ e.ups = conn[c].ups /\ e.downs = conn[c].downs
      /\ e.closes = conn[c].closes /\ e.rd = conn[c].rd
      /\ e.wr = conn[c].wr /\ e.index = conn[c].index
  BY <1>1, <1>2, ShutdownFields
<1>4. /\ conn' = [conn EXCEPT ![c] = e]
      /\ UNCHANGED <<pending, connections, removals>>
  BY <1>2, <1>3, QuietCommit DEF IdleShutdown
<1>5. UNCHANGED <<loopOf, callers, timers, foreign, misuse, phase, active, list>>
  BY DEF IdleShutdown, servVars
<1>6. conn'[c] = e /\ \A d \in Conns \ {c} : conn'[d] = conn[d]
  BY <1>4 DEF TypeInv, ConnTypes
<1>7. \A l \in Loops : Waiting(l)' = Waiting(l)
  BY <1>4, <1>5 DEF Waiting
<1>8. OneLife(c) /\ loopOf[c] \in Loops /\ "main" \in Loops
  BY LifeOfOne, LoopNames DEF TypeInv, ServTypes
<1>9. OneLife(c)'
  <2>1. Sound(conn[c])'
    BY <1>1, <1>3, <1>6, <1>8 DEF OneLife, Sound, Live
  <2>2. Owned(c)'
    BY <1>1, <1>3, <1>4, <1>6, <1>8 DEF OneLife, Owned
  <2>3. Resumed(c)'
    BY <1>1, <1>3, <1>5, <1>6, <1>7, <1>8 DEF OneLife, Resumed, Live
  <2>4. ASSUME NEW l \in Loops, NEW f \in Range(Waiting(l)'), f.c = c
        PROVE  FunctorOK(f, l)'
    <3>1. FunctorOK(f, l)
      BY <1>7, <1>8, <2>4 DEF OneLife
    <3> QED
      BY <1>1, <1>3, <1>4, <1>5, <1>6, <2>4, <3>1 DEF FunctorOK, Live
  <2> QED
    BY <1>7, <1>8, <2>1, <2>2, <2>3, <2>4 DEF OneLife
<1>10. LifeParts'
  <2>1. NoForeignCalls'
    BY <1>5 DEF LifeInv, NoForeignCalls
  <2>2. \A l \in Loops : OthersKept(Waiting(l)', Waiting(l), c)
    BY <1>7, OthersSame
  <2> QED
    BY <1>4, <1>5, <1>6, <1>9, <2>1, <2>2, StepOfOne
<1>11. SnapshotsFresh'
  <2> SUFFICES ASSUME NEW m \in Loops, NEW d \in Conns, active[m][d] # {}
               PROVE  /\ m = loopOf[d] /\ phase[m] = "events"
                      /\ Live(conn'[d]) /\ conn'[d].index = "added"
    BY <1>5 DEF SnapshotsFresh
  <2>1. /\ m = loopOf[d] /\ phase[m] = "events"
        /\ Live(conn[d]) /\ conn[d].index = "added"
    BY DEF LifeInv, SnapshotsFresh
  <2> QED
    BY <1>3, <1>6, <2>1 DEF Live
<1>12. ListsRun' /\ CallbacksInTurn'
  BY <1>4, <1>5 DEF LifeInv, ListsRun, CallbacksInTurn
<1> QED
  BY <1>10, <1>11, <1>12 DEF LifeInv, LifeParts

\* The functors made of the callbacks a handler has queued.
LEMMA OwnQueue ==
  ASSUME NEW c \in Conns, NEW q \in Seq(Callbacks)
  PROVE  LET own == [i \in 1..Len(q) |-> Functor(c)[q[i]]]
         IN  /\ own \in Seq(Functors)
             /\ \A f \in Range(own) : f.c = c /\ f.fn \in Callbacks
             /\ Followed(q, "highWaterMark", "writeComplete") =>
                   Followed(own, Functor(c)["highWaterMark"],
                            Functor(c)["writeComplete"])
             /\ (\E i \in 1..Len(q) : q[i] = "writeComplete") =>
                   Functor(c)["writeComplete"] \in Range(own)
<1> DEFINE own == [i \in 1..Len(q) |-> Functor(c)[q[i]]]
<1>1. Len(q) \in Nat /\ \A i \in 1..Len(q) : q[i] \in Callbacks
  BY ElementOfSeq, LenProperties
<1>2. \A fn \in Callbacks : /\ fn \in FunctorNames
                            /\ Functor(c)[fn] \in Functors
                            /\ Functor(c)[fn].c = c
                            /\ Functor(c)[fn].fn = fn
  BY FunctorFields, QueuedNames DEF Callbacks
<1>3. /\ own \in Seq(Functors) /\ Len(own) = Len(q)
      /\ DOMAIN own = 1..Len(q)
      /\ \A i \in 1..Len(q) : own[i] = Functor(c)[q[i]]
  BY <1>1, <1>2, SeqDef
<1> HIDE DEF own
<1>4. \A f \in Range(own) : f.c = c /\ f.fn \in Callbacks
  BY <1>1, <1>2, <1>3 DEF Range
<1>5. "writeComplete" \in Callbacks /\ "highWaterMark" \in Callbacks
  BY DEF Callbacks
<1>6. ASSUME Followed(q, "highWaterMark", "writeComplete")
      PROVE  Followed(own, Functor(c)["highWaterMark"],
                      Functor(c)["writeComplete"])
  <2> SUFFICES ASSUME NEW i \in 1..Len(own),
                      own[i] = Functor(c)["highWaterMark"]
               PROVE  \E j \in 1..Len(own) :
                         i < j /\ own[j] = Functor(c)["writeComplete"]
    BY DEF Followed
  <2>1. q[i] = "highWaterMark"
    BY <1>1, <1>2, <1>3, <1>5
  <2>2. PICK j \in 1..Len(q) : i < j /\ q[j] = "writeComplete"
    BY <1>3, <1>6, <2>1 DEF Followed
  <2> QED
    BY <1>3, <2>2
<1>7. ASSUME NEW i \in 1..Len(q), q[i] = "writeComplete"
      PROVE  Functor(c)["writeComplete"] \in Range(own)
  BY <1>3, <1>7 DEF Range
<1> QED
  BY <1>3, <1>4, <1>6, <1>7 DEF own

\* While a loop has events of a connection to handle, none of the connection's
\* functors waits anywhere.
LEMMA NoFunctorsAtEvents ==
  ASSUME TypeInv, LifeInv, NEW c \in Conns, NEW l \in Loops,
         active[l][c] # {}, NEW m \in Loops
  PROVE  \A f \in Range(Waiting(m)) : f.c # c
<1>1. l = loopOf[c] /\ phase[l] = "events" /\ Live(conn[c])
  BY DEF LifeInv, SnapshotsFresh
<1> SUFFICES ASSUME NEW f \in Range(Waiting(m)), f.c = c PROVE FALSE
  OBVIOUS
<1>2. FunctorOK(f, m)
  BY DEF LifeInv, FunctorsInTime
<1>3. f.fn \in Callbacks /\ m = l
  BY <1>1, <1>2 DEF FunctorOK, Live, Callbacks
<1>4. list[l] = <<>>
  BY <1>1 DEF LifeInv, ListsRun
<1>5. f \in Range(pending[l])
  <2>1. Range(<<>>) = {}
    BY DEF Range
  <2> QED
    BY <1>3, <1>4, <2>1, WaitingTypes
<1> QED
  BY <1>3, <1>5 DEF LifeInv, CallbacksInTurn

\* What Sound says does not depend on the record's own queue.
LEMMA EmptiedQueue ==
  ASSUME NEW e \in Records
  PROVE  LET d == [e EXCEPT !.queued = <<>>]
         IN  /\ d \in Records /\ d.state = e.state /\ d.rd = e.rd
             /\ d.wr = e.wr /\ d.index = e.index /\ d.closes = e.closes
             /\ Sound(e) => Sound(d)
<1> DEFINE d == [e EXCEPT !.queued = <<>>]
<1>1. d \in Records
  BY EmptySeq DEF Records
<1>2. /\ d.state = e.state /\ d.rd = e.rd /\ d.wr = e.wr
      /\ d.index = e.index /\ d.out = e.out /\ d.fin = e.fin
      /\ d.ups = e.ups /\ d.downs = e.downs /\ d.closes = e.closes
  BY DEF Records
<1> HIDE DEF d
<1>3. Sound(e) => Sound(d)
  BY <1>2 DEF Sound, Live
<1> QED
  BY <1>1, <1>2, <1>3 DEF d

\* The handlers of a snapshot find their connection alive, and what they leave
\* is as Handled says.
LEMMA ChannelHandled ==
  ASSUME HttpCalls, TypeInv, LifeInv, NEW c \in Conns, HandleChannel(c)
  PROVE  /\ Live(conn[c]) /\ Sound(conn[c]) /\ misuse' = misuse
         /\ \E e \in Records : Handled(e, conn[c]) /\ Commit(c, e)
<1>1. loopOf[c] \in Loops /\ conn[c] \in Records /\ conn[c].queued = <<>>
  BY DEF TypeInv, ServTypes, ConnTypes
<1>2. Sound(conn[c]) /\ Live(conn[c]) /\ conn[c].index = "added"
  BY <1>1 DEF HandleChannel, LifeInv, SnapshotsFresh
<1>3. PICK n \in 0..MaxMessage, then \in AppMoves, room1 \in Room(c),
           room2 \in Room(c) :
         CommitIfAlive(c, HandleEvent(conn[c], active[loopOf[c]][c], Got(c),
               [n |-> n, room |-> room1, then |-> then], room2))
  BY DEF HandleChannel
<1> DEFINE app == [n |-> n, room |-> room1, then |-> then]
           e == HandleEvent(conn[c], active[loopOf[c]][c], Got(c), app, room2)
<1>4. app \in Applications /\ app.then # "forceClose" /\ room2 \in Nat
  BY KernelAnswers, TcpServerAssumption DEF Applications, HttpCalls
<1>5. Handled(e, conn[c])
  <2> HIDE DEF app
  <2> QED
    BY <1>1, <1>2, <1>4, EventHandled, KernelAnswers
<1>6. CommitIfAlive(c, e)
  BY <1>3
<1> HIDE DEF e
<1>7. c \in connections
  BY <1>2 DEF LifeInv, Owned, Live
<1>8. ~Destroyed(c)
  BY <1>7 DEF Destroyed, Alive
<1>9. Commit(c, e) /\ misuse' = misuse
  BY <1>6, <1>8 DEF CommitIfAlive
<1> QED
  BY <1>2, <1>5, <1>9 DEF Handled

\* The snapshot after one of its connections was handled.
LEMMA SnapshotHandled ==
  ASSUME TypeInv, LifeInv, NEW c \in Conns, HandleChannel(c),
         \A d \in Conns \ {c} : conn'[d] = conn[d]
  PROVE  /\ SnapshotsFresh' /\ ListsRun'
         /\ active'[loopOf[c]][c] = {}
         /\ \A m \in Loops, d \in Conns : active[m][d] = {} => active'[m][d] = {}
<1>1. PICK l \in Loops : l = loopOf[c]
  BY DEF TypeInv, ServTypes
<1>2. /\ active' = [active EXCEPT ![l][c] = {}]
      /\ UNCHANGED <<loopOf, phase, list>>
  BY <1>1 DEF HandleChannel, servVars
<1>3. /\ active'[l][c] = {}
      /\ \A m \in Loops, d \in Conns :
            ~(m = l /\ d = c) => active'[m][d] = active[m][d]
  BY <1>2 DEF TypeInv, LoopTypes
<1>4. SnapshotsFresh'
  <2> SUFFICES ASSUME NEW m \in Loops, NEW d \in Conns, active'[m][d] # {}
               PROVE  /\ m = loopOf[d] /\ phase[m] = "events"
                      /\ Live(conn'[d]) /\ conn'[d].index = "added"
    BY <1>2 DEF SnapshotsFresh
  <2>1. ~(m = l /\ d = c) /\ active[m][d] # {}
    BY <1>3
  <2>2. /\ m = loopOf[d] /\ phase[m] = "events"
        /\ Live(conn[d]) /\ conn[d].index = "added"
    BY <2>1 DEF LifeInv, SnapshotsFresh
  <2>3. d # c
    BY <1>1, <2>1, <2>2
  <2> QED
    BY <2>2, <2>3
<1>5. ListsRun'
  BY <1>2 DEF LifeInv, ListsRun
<1> QED
  BY <1>1, <1>3, <1>4, <1>5

\* A handler that leaves the connection open.
LEMMA LifeOpen ==
  ASSUME TypeInv, LifeInv, TypeInv', NEW c \in Conns, HandleChannel(c),
         Live(conn[c]), Sound(conn[c]), misuse' = misuse,
         NEW e \in Records, Handled(e, conn[c]), Commit(c, e),
         e.state # "DisConnected"
  PROVE  LifeInv'
<1>1. PICK l \in Loops : l = loopOf[c]
  BY DEF TypeInv, ServTypes
<1>2. /\ phase[l] = "events" /\ active[l][c] # {}
      /\ UNCHANGED <<loopOf, callers, timers, foreign, phase, list>>
  BY <1>1 DEF HandleChannel, servVars
<1>3. /\ Sound(e) /\ Live(e) /\ e.rd = conn[c].rd
      /\ e.queued \in Seq(Callbacks) /\ e.closes = conn[c].closes
      /\ ~e.wr => Followed(e.queued, "highWaterMark", "writeComplete")
      /\ conn[c].wr /\ ~e.wr =>
            \E i \in 1..Len(e.queued) : e.queued[i] = "writeComplete"
  BY DEF Handled, Sound
<1> DEFINE d == [e EXCEPT !.queued = <<>>]
           own == [i \in 1..Len(e.queued) |-> Functor(c)[e.queued[i]]]
<1>4. /\ conn' = [conn EXCEPT ![c] = d]
      /\ pending' = [pending EXCEPT ![l] = @ \o own]
      /\ UNCHANGED <<connections, removals>>
  <2>1. ~(e.closes > conn[c].closes)
    <3>1. e.closes \in Nat
      BY DEF Records
    <3>2. e.closes = conn[c].closes
      BY <1>3
    <3> QED
      BY <3>1, <3>2
  <2> QED
    BY <1>1, <2>1 DEF Commit
<1>5. Sound(d) /\ Live(d) /\ d.rd = conn[c].rd /\ d.wr = e.wr
  BY <1>3, EmptiedQueue DEF Live
<1>6. /\ own \in Seq(Functors)
      /\ \A f \in Range(own) : f.c = c /\ f.fn \in Callbacks
      /\ ~e.wr => Followed(own, Functor(c)["highWaterMark"],
                           Functor(c)["writeComplete"])
      /\ conn[c].wr /\ ~e.wr => Functor(c)["writeComplete"] \in Range(own)
  BY <1>3, OwnQueue, SMTT(30)
<1> HIDE DEF d, own
<1>7. conn'[c] = d /\ \A x \in Conns \ {c} : conn'[x] = conn[x]
  BY <1>4 DEF TypeInv, ConnTypes
<1>8. /\ pending'[l] = pending[l] \o own
      /\ \A m \in Loops : m # l => pending'[m] = pending[m]
  BY <1>4 DEF TypeInv, QueueTypes
<1>9. /\ Waiting(l)' = Waiting(l) \o own
      /\ Range(Waiting(l)') = Range(Waiting(l)) \union Range(own)
      /\ \A m \in Loops : m # l => Waiting(m)' = Waiting(m)
  BY <1>2, <1>6, <1>8, WaitingGains DEF Waiting
<1>10. \A m \in Loops : \A f \in Range(Waiting(m)) : f.c # c
  BY <1>2, NoFunctorsAtEvents
<1>11. Waiting(l) \in Seq(Functors)
  BY WaitingTypes
<1>12. \A m \in Loops : OthersKept(Waiting(m)', Waiting(m), c)
  <2>1. OthersKept(Waiting(l) \o own, Waiting(l), c)
    BY <1>6, <1>11, OthersConcat
  <2> QED
    BY <1>9, <2>1, OthersSame
<1>13. \A fn \in {"connectEstablished", "removeConnectionInLoop",
                  "highWaterMark", "writeComplete"} :
          Functor(c)[fn].c = c /\ Functor(c)[fn].fn = fn
  BY FunctorFields, QueuedNames
<1>14. OneLife(c)'
  <2>1. Sound(conn[c])'
    BY <1>5, <1>7
  <2>2. Owned(c)'
    <3>1. c \in connections /\ removals[c] = 0
      BY DEF LifeInv, Owned, Live
    <3>2. d.state # "DisConnected"
      BY <1>5 DEF Live
    <3> QED
      BY <1>4, <1>7, <3>1, <3>2 DEF Owned
  <2>3. Resumed(c)'
    <3> SUFFICES ASSUME ~d.wr
                 PROVE  /\ ~d.rd =>
                              Functor(c)["writeComplete"] \in Range(Waiting(l)')
                        /\ Followed(Waiting(l)', Functor(c)["highWaterMark"],
                                    Functor(c)["writeComplete"])
      BY <1>1, <1>2, <1>7 DEF Resumed
    <3>1. ~conn[c].wr => conn[c].rd
      BY <1>1, <1>10, <1>13 DEF LifeInv, Resumed
    <3>2. ~d.rd => Functor(c)["writeComplete"] \in Range(Waiting(l)')
      BY <1>5, <1>6, <1>9, <3>1
    <3>3. Followed(Waiting(l), Functor(c)["highWaterMark"],
                   Functor(c)["writeComplete"])
      BY <1>10, <1>11, <1>13, FollowedVoid
    <3>4. Followed(Waiting(l) \o own, Functor(c)["highWaterMark"],
                   Functor(c)["writeComplete"])
      BY <1>5, <1>6, <1>11, <3>3, FollowedConcat
    <3> QED
      BY <1>9, <3>2, <3>4
  <2>4. ASSUME NEW m \in Loops, NEW f \in Range(Waiting(m)'), f.c = c
        PROVE  FunctorOK(f, m)'
    <3>1. m = l /\ f \in Range(own)
      BY <1>9, <1>10, <2>4
    <3>2. f.fn \in Callbacks
      BY <1>6, <3>1
    <3> QED
      BY <1>1, <1>2, <1>5, <1>7, <2>4, <3>1, <3>2 DEF FunctorOK, Callbacks
  <2>5. ASSUME NEW m \in Loops,
               NEW fn \in {"connectEstablished", "removeConnectionInLoop"}
        PROVE  Once(Waiting(m)', Functor(c)[fn])
    <3>1. Once(Waiting(m), Functor(c)[fn])
      BY DEF LifeInv, FunctorsOnce
    <3>2. Functor(c)[fn] \notin Range(own)
      BY <1>6, <1>13 DEF Callbacks
    <3>3. CASE m = l
      <4>1. Once(Waiting(l) \o own, Functor(c)[fn])
        BY <1>6, <1>11, <3>1, <3>2, <3>3, OnceConcat
      <4> QED
        BY <1>9, <3>3, <4>1
    <3>4. CASE m # l
      BY <1>9, <3>1, <3>4
    <3> QED
      BY <3>3, <3>4
  <2> QED
    BY <2>1, <2>2, <2>3, <2>4, <2>5 DEF OneLife
<1>15. LifeParts'
  <2>1. NoForeignCalls'
    BY <1>2 DEF LifeInv, NoForeignCalls
  <2> QED
    BY <1>2, <1>4, <1>7, <1>12, <1>14, <2>1, StepOfOne
<1>16. /\ SnapshotsFresh' /\ ListsRun' /\ active'[l][c] = {}
       /\ \A m \in Loops, x \in Conns : active[m][x] = {} => active'[m][x] = {}
  BY <1>1, <1>7, SnapshotHandled
<1>17. CallbacksInTurn'
  <2> SUFFICES ASSUME NEW m \in Loops, NEW f \in Range(pending'[m]),
                      f.fn \in Callbacks
               PROVE  phase[m] = "events" /\ active'[m][f.c] = {}
    BY <1>2 DEF CallbacksInTurn
  <2>1. f \in Range(pending[m]) \/ (m = l /\ f \in Range(own))
    <3>1. Range(pending[l] \o own) = Range(pending[l]) \union Range(own)
      BY <1>6, WaitingTypes, RangeConcatenation
    <3> QED
      BY <1>8, <3>1
  <2>2. CASE f \in Range(pending[m])
    <3>1. phase[m] = "events" /\ active[m][f.c] = {}
      BY <2>2 DEF LifeInv, CallbacksInTurn
    <3>2. f.c \in Conns
      BY <2>2, WaitingTypes DEF Functors
    <3> QED
      BY <1>16, <3>1, <3>2
  <2>3. CASE m = l /\ f \in Range(own)
    BY <1>2, <1>6, <1>16, <2>3
  <2> QED
    BY <2>1, <2>2, <2>3
<1> QED
  BY <1>15, <1>16, <1>17 DEF LifeInv, LifeParts

\* One functor is queued behind a loop's pending ones.
LEMMA OneQueued ==
  ASSUME TypeInv, NEW to \in Loops, NEW g \in Functors,
         pending' = [pending EXCEPT ![to] = Append(@, g)]
  PROVE  /\ pending'[to] = pending[to] \o <<g>>
         /\ \A l \in Loops : l # to => pending'[l] = pending[l]
         /\ <<g>> \in Seq(Functors) /\ Range(<<g>>) = {g}
         /\ Range(pending'[to]) = Range(pending[to]) \union {g}
<1>1. pending[to] \in Seq(Functors)
  BY WaitingTypes
<1>2. pending'[to] = Append(pending[to], g)
  BY DEF TypeInv, QueueTypes
<1>3. pending'[to] = pending[to] \o <<g>>
  BY <1>1, <1>2, AppendIsConcat
<1>4. \A l \in Loops : l # to => pending'[l] = pending[l]
  BY DEF TypeInv, QueueTypes
<1>5. <<g>> \in Seq(Functors) /\ Range(<<g>>) = {g}
  BY DEF Range
<1>6. Range(pending[to] \o <<g>>) = Range(pending[to]) \union Range(<<g>>)
  <2>1. \A s, t \in Seq(Functors) : Range(s \o t) = Range(s) \union Range(t)
    BY RangeConcatenation
  <2>2. <<g>> \in Seq(Functors)
    BY <1>5
  <2> QED
    BY <1>1, <2>1, <2>2, Zenon
<1> QED
  BY <1>3, <1>4, <1>5, <1>6

\* A handler that has closed the connection queues what removes it: at once
\* connectDestroyed on the main loop, else removeConnectionInLoop.
LEMMA ClosingCommit ==
  ASSUME TypeInv, NEW c \in Conns, NEW e \in Records, e.queued = <<>>,
         e.closes > conn[c].closes, Commit(c, e)
  PROVE  /\ conn' = [conn EXCEPT ![c] = e]
         /\ loopOf[c] = "main" =>
               /\ pending' = [pending EXCEPT !["main"] =
                                 Append(@, Functor(c)["connectDestroyed"])]
               /\ connections' = connections \ {c}
               /\ removals' = [removals EXCEPT ![c] = @ + 1]
         /\ loopOf[c] # "main" =>
               /\ pending' = [pending EXCEPT !["main"] =
                                 Append(@, Functor(c)["removeConnectionInLoop"])]
               /\ UNCHANGED <<connections, removals>>
<1>1. [e EXCEPT !.queued = <<>>] = e
  BY DEF Records
<1>2. [i \in 1..Len(e.queued) |-> Functor(c)[e.queued[i]]] = <<>>
  OBVIOUS
<1>3. loopOf[c] \in Loops
  BY DEF TypeInv, ServTypes
<1>4. pending[loopOf[c]] \o <<>> = pending[loopOf[c]]
  BY <1>3, WaitingTypes, ConcatEmptySeq
<1>5. [pending EXCEPT ![loopOf[c]] = @ \o <<>>] = pending
  BY <1>3, <1>4 DEF TypeInv, QueueTypes
<1>6. /\ conn' = [conn EXCEPT ![c] = e]
      /\ pending' = RemoveConnection(c, pending)
      /\ connections' = IF loopOf[c] = "main" THEN connections \ {c}
                        ELSE connections
      /\ removals' = IF loopOf[c] = "main"
                     THEN [removals EXCEPT ![c] = @ + 1] ELSE removals
  BY <1>1, <1>2, <1>5 DEF Commit
<1> QED
  BY <1>6 DEF RemoveConnection

\* A handler that has closed the connection.
LEMMA LifeClosed ==
  ASSUME TypeInv, LifeInv, TypeInv', NEW c \in Conns, HandleChannel(c),
         Live(conn[c]), Sound(conn[c]), misuse' = misuse,
         NEW e \in Records, Handled(e, conn[c]), Commit(c, e),
         e.state = "DisConnected"
  PROVE  LifeInv'
<1>1. PICK l \in Loops : l = loopOf[c]
  BY DEF TypeInv, ServTypes
<1>2. /\ phase[l] = "events" /\ active[l][c] # {}
      /\ UNCHANGED <<loopOf, callers, timers, foreign, phase, list>>
  BY <1>1 DEF HandleChannel, servVars
<1>3. /\ Sound(e) /\ e.queued = <<>> /\ e.closes = 1
      /\ conn[c].closes = 0
  BY DEF Handled, Sound
<1>4. "main" \in Loops /\ removals[c] = 0
  BY LoopNames DEF LifeInv, Owned, Live
<1>5. PICK fn \in {"connectDestroyed", "removeConnectionInLoop"} :
         fn = IF l = "main" THEN "connectDestroyed"
              ELSE "removeConnectionInLoop"
  OBVIOUS
<1> DEFINE g == Functor(c)[fn]
<1>6. /\ conn' = [conn EXCEPT ![c] = e]
      /\ pending' = [pending EXCEPT !["main"] = Append(@, g)]
      /\ l = "main" => /\ connections' = connections \ {c}
                       /\ removals' = [removals EXCEPT ![c] = @ + 1]
      /\ l # "main" => UNCHANGED <<connections, removals>>
  <2>1. e.closes > conn[c].closes
    BY <1>3
  <2> QED
    BY <1>1, <1>3, <1>5, <2>1, ClosingCommit
<1>7. g \in Functors /\ g.c = c /\ g.fn = fn
  BY FunctorFields, QueuedNames
<1> HIDE DEF g
<1>8. conn'[c] = e /\ \A x \in Conns \ {c} : conn'[x] = conn[x]
  BY <1>6 DEF TypeInv, ConnTypes
<1>9. /\ pending'["main"] = pending["main"] \o <<g>>
      /\ \A m \in Loops : m # "main" => pending'[m] = pending[m]
      /\ <<g>> \in Seq(Functors) /\ Range(<<g>>) = {g}
      /\ Range(pending'["main"]) = Range(pending["main"]) \union {g}
  BY <1>4, <1>6, <1>7, OneQueued
<1>10. /\ Waiting("main")' = Waiting("main") \o <<g>>
       /\ Range(Waiting("main")') = Range(Waiting("main")) \union {g}
       /\ \A m \in Loops : m # "main" => Waiting(m)' = Waiting(m)
  <2>1. list'["main"] = list["main"]
    BY <1>2
  <2>2. /\ Waiting("main")' = Waiting("main") \o <<g>>
        /\ Range(Waiting("main")') = Range(Waiting("main")) \union Range(<<g>>)
    BY <1>4, <1>9, <2>1, WaitingGains
  <2> QED
    BY <1>2, <1>9, <2>2 DEF Waiting
<1>11. \A m \in Loops : \A f \in Range(Waiting(m)) : f.c # c
  BY <1>2, NoFunctorsAtEvents
<1>12. Waiting("main") \in Seq(Functors)
  BY <1>4, WaitingTypes
<1>13. \A m \in Loops : OthersKept(Waiting(m)', Waiting(m), c)
  <2>1. OthersKept(Waiting("main") \o <<g>>, Waiting("main"), c)
    BY <1>7, <1>9, <1>12, OthersConcat
  <2> QED
    BY <1>10, <2>1, OthersSame
<1>14. removals'[c] = (IF l = "main" THEN 1 ELSE 0)
       /\ \A d \in Conns \ {c} : /\ removals'[d] = removals[d]
                                 /\ d \in connections' <=> d \in connections
  <2>1. CASE l = "main"
    BY <1>4, <1>6, <2>1 DEF TypeInv, QueueTypes
  <2>2. CASE l # "main"
    BY <1>4, <1>6, <2>2
  <2> QED
    BY <2>1, <2>2
<1>15. OneLife(c)'
  <2>1. Sound(conn[c])'
    BY <1>3, <1>8
  <2>2. Owned(c)'
    <3>1. removals'[c] <= 1
      BY <1>14
    <3>2. \/ Functor(c)["connectDestroyed"] \in Range(Waiting(l)')
          \/ Functor(c)["removeConnectionInLoop"] \in Range(Waiting("main")')
      BY <1>5, <1>10 DEF g
    <3> QED
      BY <1>1, <1>2, <1>8, <3>1, <3>2 DEF Owned
  <2>3. Resumed(c)'
    BY <1>8 DEF Resumed, Live
  <2>4. ASSUME NEW m \in Loops, NEW f \in Range(Waiting(m)'), f.c = c
        PROVE  FunctorOK(f, m)'
    <3>1. m = "main" /\ f = g
      BY <1>10, <1>11, <2>4
    <3>2. f.fn = fn /\ f.c = c
      BY <1>7, <3>1
    <3> QED
      BY <1>1, <1>2, <1>5, <1>8, <1>14, <3>1, <3>2 DEF FunctorOK, Callbacks
  <2>5. ASSUME NEW m \in Loops,
               NEW name \in {"connectEstablished", "removeConnectionInLoop"}
        PROVE  Once(Waiting(m)', Functor(c)[name])
    <3> DEFINE h == Functor(c)[name]
    <3>1. Once(Waiting(m), h) /\ h \notin Range(Waiting(m)) /\ h \in Functors
      BY <1>11, FunctorFields, QueuedNames DEF LifeInv, FunctorsOnce
    <3> HIDE DEF h
    <3>2. CASE m = "main" /\ h = g
      <4>1. Append(Waiting("main"), g) = Waiting("main") \o <<g>>
        BY <1>7, <1>12, AppendIsConcat
      <4>2. Once(Append(Waiting("main"), g), g)
        BY <1>7, <1>12, <3>1, <3>2, OnceNew
      <4> QED
        BY <1>10, <3>2, <4>1, <4>2 DEF h
    <3>3. CASE m = "main" /\ h # g
      <4>1. h \notin Range(<<g>>)
        BY <1>9, <3>3
      <4>2. Once(Waiting("main") \o <<g>>, h)
        BY <1>9, <1>12, <3>1, <3>3, <4>1, OnceConcat
      <4> QED
        BY <1>10, <3>3, <4>2 DEF h
    <3>4. CASE m # "main"
      BY <1>10, <3>1, <3>4 DEF h
    <3> QED
      BY <3>2, <3>3, <3>4
  <2> QED
    BY <2>1, <2>2, <2>3, <2>4, <2>5 DEF OneLife
<1>16. LifeParts'
  <2>1. NoForeignCalls'
    BY <1>2 DEF LifeInv, NoForeignCalls
  <2> QED
    BY <1>2, <1>8, <1>13, <1>14, <1>15, <2>1, StepOfOne
<1>17. /\ SnapshotsFresh' /\ ListsRun' /\ active'[l][c] = {}
       /\ \A m \in Loops, x \in Conns : active[m][x] = {} => active'[m][x] = {}
  BY <1>1, <1>8, SnapshotHandled
<1>18. CallbacksInTurn'
  <2> SUFFICES ASSUME NEW m \in Loops, NEW f \in Range(pending'[m]),
                      f.fn \in Callbacks
               PROVE  phase[m] = "events" /\ active'[m][f.c] = {}
    BY <1>2 DEF CallbacksInTurn
  <2>1. f \in Range(pending[m])
    BY <1>5, <1>7, <1>9 DEF Callbacks
  <2>2. phase[m] = "events" /\ active[m][f.c] = {}
    BY <2>1 DEF LifeInv, CallbacksInTurn
  <2>3. f.c \in Conns
    BY <2>1, WaitingTypes DEF Functors
  <2> QED
    BY <1>17, <2>2, <2>3
<1> QED
  BY <1>16, <1>17, <1>18 DEF LifeInv, LifeParts

\* Channel::handleEvent of a connection.
LEMMA LifeChannel ==
  ASSUME HttpCalls, TypeInv, LifeInv, TypeInv', NEW c \in Conns,
         HandleChannel(c)
  PROVE  LifeInv'
<1>1. Live(conn[c]) /\ Sound(conn[c]) /\ misuse' = misuse
  BY ChannelHandled
<1>2. PICK e \in Records : Handled(e, conn[c]) /\ Commit(c, e)
  BY ChannelHandled
<1>3. CASE e.state # "DisConnected"
  BY <1>1, <1>2, <1>3, LifeOpen
<1>4. CASE e.state = "DisConnected"
  BY <1>1, <1>2, <1>4, LifeClosed
<1> QED
  BY <1>3, <1>4

\* A functor of a turn, removeConnectionInLoop apart, finds its connection
\* alive and changes nothing but its record; it is the first that waited.
LEMMA FunctorRuns ==
  ASSUME TypeInv, LifeInv, NEW l \in Loops, RunFunctor(l),
         NEW f \in Functors, f = Head(list[l]),
         f.fn # "removeConnectionInLoop"
  PROVE  /\ FunctorOK(f, l) /\ loopOf[f.c] = l /\ phase[l] = "functors"
         /\ Commit(f.c, Run(conn[f.c], f.fn)) /\ misuse' = misuse
<1>1. phase[l] = "functors" /\ list[l] # <<>>
  BY DEF RunFunctor
<1>2. list[l] \in Seq(Functors) /\ f \in Range(list[l])
  BY <1>1, WaitingTypes, RangeOfTail
<1>3. FunctorOK(f, l) /\ loopOf[f.c] = l
  <2>1. f \in Range(Waiting(l))
    BY <1>2, WaitingTypes
  <2> QED
    BY <2>1 DEF LifeInv, FunctorsInTime, FunctorOK
<1>4. /\ f.fn \notin {"sendInLoop", "shutdownInLoop", "forceCloseInLoop"}
      /\ Owning(f.fn)
  BY <1>3 DEF FunctorOK, Callbacks, Owning
<1>5. ~Destroyed(f.c)
  BY <1>2, <1>4 DEF Destroyed, Alive
<1>6. CommitIfAlive(f.c, Run(conn[f.c], f.fn))
  BY <1>4 DEF RunFunctor
<1> QED
  BY <1>1, <1>3, <1>5, <1>6 DEF CommitIfAlive

\* The records that the functors of the HTTP server leave.
LEMMA RunRecords ==
  ASSUME TypeInv, LifeInv, NEW f \in Functors, NEW l \in Loops,
         FunctorOK(f, l), f.fn # "removeConnectionInLoop",
         NEW e, e = Run(conn[f.c], f.fn)
  PROVE  /\ e \in Records /\ Sound(e) /\ e.queued = <<>>
         /\ e.closes = conn[f.c].closes
         /\ f.fn = "connectEstablished" => e.state = "Connected" /\ e.rd
         /\ f.fn # "connectEstablished" => e.state = conn[f.c].state
         /\ f.fn = "connectDestroyed" => e.index = "new"
         /\ f.fn = "writeComplete" => e.rd
         /\ f.fn \in Callbacks => e.wr = conn[f.c].wr
<1> DEFINE r == conn[f.c]
<1>1. r \in Records /\ r.queued = <<>> /\ Sound(r)
  BY DEF TypeInv, ConnTypes, LifeInv, Functors
<1>2. f.fn \in Callbacks \union {"connectEstablished", "connectDestroyed"}
  BY DEF FunctorOK
<1>3. /\ f.fn = "connectEstablished" => r.state = "Connecting"
      /\ f.fn \in Callbacks => Live(r)
      /\ f.fn = "connectDestroyed" => r.state = "DisConnected"
  BY DEF FunctorOK
<1> HIDE DEF r
<1>4. CASE f.fn = "connectEstablished"
  <2>1. e = ConnectEstablished(r)
    BY <1>4 DEF Run, r
  <2>2. /\ e \in Records /\ e.state = "Connected"
        /\ e.rd /\ e.wr = r.wr /\ e.index = "added"
        /\ e.out = r.out /\ e.fin = r.fin /\ e.queued = r.queued
        /\ e.ups = r.ups + 1 /\ e.downs = r.downs /\ e.closes = r.closes
    BY <1>1, <2>1, EstablishedFields
  <2>3. Sound(e)
    BY <1>1, <1>3, <1>4, <2>2 DEF Sound, Live
  <2> QED
    BY <1>1, <1>4, <2>2, <2>3 DEF Callbacks, r
<1>5. CASE f.fn = "connectDestroyed"
  <2>1. e = ConnectDestroyed(r)
    BY <1>5 DEF Run, r
  <2>2. /\ e \in Records /\ e.queued = r.queued
        /\ Kept(e, r) /\ e.rd = r.rd /\ e.wr = r.wr /\ e.index = "new"
    BY <1>1, <1>3, <1>5, <2>1, DestroyedFields
  <2>3. Sound(e)
    BY <1>1, <1>3, <1>5, <2>2 DEF Sound, Live, Kept
  <2> QED
    BY <1>1, <1>5, <2>2, <2>3 DEF Callbacks, r, Kept
<1>6. CASE f.fn \in Callbacks
  <2>1. \/ e = StartReadInLoop(r) /\ f.fn = "writeComplete"
        \/ e = StopReadInLoop(r) /\ f.fn = "highWaterMark"
    BY <1>6 DEF Run, Callbacks, r
  <2>2. /\ e \in Records /\ Kept(e, r) /\ e.wr = r.wr
        /\ f.fn = "writeComplete" => e.rd
    BY <1>1, <2>1, ReadFields
  <2>3. Sound(e)
    BY <1>1, <1>3, <1>6, <2>2 DEF Sound, Live, Kept
  <2> QED
    BY <1>1, <1>6, <2>2, <2>3 DEF Callbacks, r, Kept
<1> QED
  BY <1>2, <1>4, <1>5, <1>6

\* connectEstablished, connectDestroyed and the callbacks.
LEMMA LifeRun ==
  ASSUME TypeInv, LifeInv, TypeInv', NEW l \in Loops, RunFunctor(l),
         NEW f \in Functors, f = Head(list[l]),
         f.fn # "removeConnectionInLoop"
  PROVE  LifeInv'
<1>1. PICK c \in Conns : c = f.c
  BY DEF Functors
<1>2. /\ FunctorOK(f, l) /\ loopOf[c] = l /\ phase[l] = "functors"
      /\ Commit(c, Run(conn[c], f.fn)) /\ misuse' = misuse
  BY <1>1, FunctorRuns
<1>3. PICK e \in Records : e = Run(conn[c], f.fn)
  BY <1>1, <1>2, RunRecords
<1>4. /\ Sound(e) /\ e.queued = <<>> /\ e.closes = conn[c].closes
      /\ f.fn = "connectEstablished" => e.state = "Connected" /\ e.rd
      /\ f.fn # "connectEstablished" => e.state = conn[c].state
      /\ f.fn = "connectDestroyed" => e.index = "new"
      /\ f.fn = "writeComplete" => e.rd
      /\ f.fn \in Callbacks => e.wr = conn[c].wr
  BY <1>1, <1>2, <1>3, RunRecords, SMTT(30)
<1>5. /\ conn' = [conn EXCEPT ![c] = e]
      /\ UNCHANGED <<pending, connections, removals>>
  BY <1>2, <1>3, <1>4, QuietCommit
<1>6. conn'[c] = e /\ \A d \in Conns \ {c} : conn'[d] = conn[d]
  BY <1>5 DEF TypeInv, ConnTypes
<1>7. /\ list[l] # <<>> /\ list' = [list EXCEPT ![l] = Tail(@)]
      /\ UNCHANGED <<loopOf, callers, timers, foreign, phase, active>>
  BY DEF RunFunctor, servVars
<1>8. /\ list'[l] = Tail(list[l])
      /\ \A m \in Loops : m # l => list'[m] = list[m]
  BY <1>7 DEF TypeInv, ListTypes
<1>9. /\ Waiting(l)' = Tail(Waiting(l)) /\ Waiting(l) # <<>>
      /\ Head(Waiting(l)) = f
      /\ Range(Waiting(l)) = {f} \union Range(Waiting(l)')
      /\ \A m \in Loops : m # l => Waiting(m)' = Waiting(m)
  BY <1>5, <1>7, <1>8, WaitingRun DEF Waiting
<1>10. Waiting(l) \in Seq(Functors)
  BY WaitingTypes
<1>11. \A m \in Loops : OthersKept(Waiting(m)', Waiting(m), c)
  <2>1. OthersKept(Tail(Waiting(l)), Waiting(l), c)
    BY <1>1, <1>9, <1>10, OthersTail
  <2> QED
    BY <1>9, <2>1, OthersSame
<1>12. f.fn \in Callbacks \union {"connectEstablished", "connectDestroyed"}
  BY <1>2 DEF FunctorOK
<1>13. /\ f.fn = "connectEstablished" => conn[c].state = "Connecting"
       /\ f.fn \in Callbacks => Live(conn[c])
       /\ f.fn = "connectDestroyed" => conn[c].state = "DisConnected"
  BY <1>1, <1>2 DEF FunctorOK
<1>14. f = Functor(c)[f.fn]
  BY <1>1, FunctorOf
<1>15. OneLife(c)'
  <2>1. Sound(conn[c])'
    BY <1>4, <1>6
  <2>2. Owned(c)'
    <3>1. Owned(c)
      BY DEF LifeInv
    <3>2. e.state = "DisConnected" =>
             e.index = "new" /\ conn[c].state = "DisConnected"
      BY <1>4, <1>12, <1>13 DEF Live
    <3>3. e.state # "DisConnected" =>
             conn[c].state \notin {"None", "DisConnected"}
      BY <1>4, <1>12, <1>13 DEF Live
    <3>4. removals'[c] = removals[c] /\ connections' = connections
      BY <1>5
    <3> QED
      BY <1>6, <3>1, <3>2, <3>3, <3>4 DEF Owned
  <2>3. Resumed(c)'
    <3> DEFINE high == Functor(c)["highWaterMark"]
               done == Functor(c)["writeComplete"]
    <3> SUFFICES ASSUME Live(e), ~e.wr
                 PROVE  /\ ~e.rd => done \in Range(Waiting(l)')
                        /\ Followed(Waiting(l)', high, done)
      BY <1>2, <1>6, <1>7 DEF Resumed
    <3>1. CASE f.fn = "connectEstablished"
      <4>1. high.c = c /\ high.fn = "highWaterMark"
        BY FunctorFields, QueuedNames
      <4>2. high \notin Range(Waiting(l))
        <5>1. ASSUME high \in Range(Waiting(l)) PROVE FALSE
          <6>1. FunctorOK(high, l)
            BY <5>1 DEF LifeInv, FunctorsInTime
          <6> QED
            BY <1>13, <3>1, <4>1, <6>1 DEF FunctorOK, Live, Callbacks
        <5> QED
          BY <5>1
      <4>3. high \notin Range(Waiting(l)')
        BY <1>9, <4>2
      <4>4. Followed(Waiting(l)', high, done)
        BY <4>3, WaitingTypesNext, FollowedVoid
      <4> QED
        BY <1>4, <3>1, <4>4
    <3>2. CASE f.fn = "connectDestroyed"
      BY <1>4, <1>13, <3>2 DEF Live
    <3>3. CASE f.fn \in Callbacks
      <4>1. Followed(Waiting(l), high, done)
        <5>1. Live(conn[c]) /\ ~conn[c].wr /\ Resumed(c)
          BY <1>4, <1>13, <3>3 DEF LifeInv
        <5> QED
          BY <1>2, <5>1 DEF Resumed
      <4> HIDE DEF high, done
      <4>2. /\ Followed(Tail(Waiting(l)), high, done)
            /\ high = Head(Waiting(l)) => done \in Range(Tail(Waiting(l)))
        BY <1>9, <1>10, <4>1, FollowedTail
      <4>3. f.fn = "writeComplete" \/ f = high
        BY <1>14, <3>3 DEF Callbacks, high
      <4> QED
        BY <1>4, <1>9, <4>2, <4>3
    <3> QED
      BY <1>12, <3>1, <3>2, <3>3
  <2>4. ASSUME NEW m \in Loops, NEW g \in Range(Waiting(m)'), g.c = c
        PROVE  FunctorOK(g, m)'
    <3>1. g \in Range(Waiting(m)) /\ g \in Functors
      BY <1>9, WaitingTypes
    <3>2. FunctorOK(g, m)
      BY <3>1 DEF LifeInv, FunctorsInTime
    <3>3. CASE f.fn = "connectEstablished"
      <4>1. g.fn = "connectEstablished" /\ m = l
        BY <1>2, <1>13, <2>4, <3>2, <3>3 DEF FunctorOK, Live, Callbacks
      <4>2. g = f
        BY <1>14, <2>4, <3>1, <3>3, <4>1, FunctorOf
      <4>3. Once(Waiting(l), f)
        BY <1>14, <3>3 DEF LifeInv, FunctorsOnce
      <4>4. f \notin Range(Tail(Waiting(l)))
        BY <1>9, <1>10, <4>3, OnceTail
      <4> QED
        BY <1>9, <2>4, <4>1, <4>2, <4>4
    <3>4. CASE f.fn # "connectEstablished"
      <4>1. conn'[c].state = conn[c].state /\ loopOf'[c] = loopOf[c]
            /\ removals'[c] = removals[c]
        BY <1>4, <1>5, <1>6, <1>7, <3>4
      <4> QED
        BY <2>4, <3>2, <4>1 DEF FunctorOK, Live
    <3> QED
      BY <3>3, <3>4
  <2>5. ASSUME NEW m \in Loops,
               NEW name \in {"connectEstablished", "removeConnectionInLoop"}
        PROVE  Once(Waiting(m)', Functor(c)[name])
    <3>1. Once(Waiting(m), Functor(c)[name])
      BY DEF LifeInv, FunctorsOnce
    <3>2. CASE m = l
      <4>1. Once(Tail(Waiting(l)), Functor(c)[name])
        BY <1>9, <1>10, <3>1, <3>2, OnceTail
      <4> QED
        BY <1>9, <3>2, <4>1
    <3>3. CASE m # l
      BY <1>9, <3>1, <3>3
    <3> QED
      BY <3>2, <3>3
  <2> QED
    BY <2>1, <2>2, <2>3, <2>4, <2>5 DEF OneLife
<1>16. LifeParts'
  <2>1. NoForeignCalls'
    BY <1>2, <1>7 DEF LifeInv, NoForeignCalls
  <2> QED
    BY <1>5, <1>6, <1>7, <1>11, <1>15, <2>1, StepOfOne
<1>17. SnapshotsFresh'
  <2> SUFFICES ASSUME NEW m \in Loops, NEW d \in Conns, active[m][d] # {}
               PROVE  /\ m = loopOf[d] /\ phase[m] = "events"
                      /\ Live(conn'[d]) /\ conn'[d].index = "added"
    BY <1>7 DEF SnapshotsFresh
  <2>1. /\ m = loopOf[d] /\ phase[m] = "events"
        /\ Live(conn[d]) /\ conn[d].index = "added"
    BY DEF LifeInv, SnapshotsFresh
  <2>2. d # c
    BY <1>2, <2>1
  <2> QED
    BY <1>6, <2>1, <2>2
<1>18. ListsRun' /\ CallbacksInTurn'
  BY <1>2, <1>5, <1>7, <1>8 DEF LifeInv, ListsRun, CallbacksInTurn
<1> QED
  BY <1>16, <1>17, <1>18 DEF LifeInv, LifeParts

\* removeConnectionInLoop: the connection leaves connections_ and goes back to
\* its own loop to be destroyed.
LEMMA LifeRemoval ==
  ASSUME TypeInv, LifeInv, TypeInv', NEW l \in Loops, RunFunctor(l),
         NEW f \in Functors, f = Head(list[l]),
         f.fn = "removeConnectionInLoop"
  PROVE  LifeInv'
<1>1. PICK c \in Conns : c = f.c
  BY DEF Functors
<1>2. PICK to \in Loops : to = loopOf[c]
  BY DEF TypeInv, ServTypes
<1> DEFINE g == Functor(c)["connectDestroyed"]
<1>3. g \in Functors /\ g.c = c /\ g.fn = "connectDestroyed"
  BY FunctorFields, QueuedNames
<1>4. /\ phase[l] = "functors" /\ list[l] # <<>>
      /\ connections' = connections \ {c}
      /\ removals' = [removals EXCEPT ![c] = @ + 1]
      /\ pending' = [pending EXCEPT ![to] = Append(@, g)]
      /\ list' = [list EXCEPT ![l] = Tail(@)]
      /\ UNCHANGED <<conn, misuse, loopOf, callers, timers, foreign, phase,
                     active>>
  BY <1>1, <1>2 DEF RunFunctor, servVars
<1> HIDE DEF g
<1>5. /\ list'[l] = Tail(list[l])
      /\ \A m \in Loops : m # l => list'[m] = list[m]
  BY <1>4 DEF TypeInv, ListTypes
<1>6. /\ pending'[to] = pending[to] \o <<g>>
      /\ \A m \in Loops : m # to => pending'[m] = pending[m]
      /\ <<g>> \in Seq(Functors) /\ Range(<<g>>) = {g}
      /\ Range(pending'[to]) = Range(pending[to]) \union {g}
  BY <1>3, <1>4, OneQueued
<1>7. f = Functor(c)["removeConnectionInLoop"]
  BY <1>1, FunctorOf
<1>8. l = "main" /\ to # l /\ conn[c].state = "DisConnected" /\ removals[c] = 0
  <2>1. f \in Range(list[l])
    BY <1>4, WaitingTypes, RangeOfTail
  <2>2. f \in Range(Waiting(l))
    BY <2>1, WaitingTypes
  <2>3. FunctorOK(f, l)
    BY <2>2 DEF LifeInv, FunctorsInTime
  <2> QED
    BY <1>1, <1>2, <2>3 DEF FunctorOK
<1>9. /\ Waiting(l)' = Tail(Waiting(l)) /\ Waiting(l) # <<>>
      /\ Head(Waiting(l)) = f
      /\ Range(Waiting(l)) = {f} \union Range(Waiting(l)')
  BY <1>4, <1>5, <1>6, <1>8, WaitingRun
<1>10. /\ Waiting(to)' = Waiting(to) \o <<g>>
       /\ Range(Waiting(to)') = Range(Waiting(to)) \union {g}
  <2>1. list'[to] = list[to]
    BY <1>5, <1>8
  <2>2. /\ Waiting(to)' = Waiting(to) \o <<g>>
        /\ Range(Waiting(to)') = Range(Waiting(to)) \union Range(<<g>>)
    BY <1>6, <2>1, WaitingGains
  <2> QED
    BY <1>6, <2>2
<1>11. \A m \in Loops : m # l /\ m # to => Waiting(m)' = Waiting(m)
  BY <1>5, <1>6 DEF Waiting
<1>12. Waiting(l) \in Seq(Functors) /\ Waiting(to) \in Seq(Functors)
  BY WaitingTypes
<1>13. \A m \in Loops : OthersKept(Waiting(m)', Waiting(m), c)
  <2>1. OthersKept(Tail(Waiting(l)), Waiting(l), c)
    BY <1>1, <1>9, <1>12, OthersTail
  <2>2. OthersKept(Waiting(to) \o <<g>>, Waiting(to), c)
    BY <1>3, <1>6, <1>12, OthersConcat
  <2> QED
    BY <1>9, <1>10, <1>11, <2>1, <2>2, OthersSame
<1>14. removals'[c] = 1
       /\ \A d \in Conns \ {c} : /\ removals'[d] = removals[d]
                                 /\ d \in connections' <=> d \in connections
  BY <1>4, <1>8 DEF TypeInv, QueueTypes
<1>15. OneLife(c)'
  <2>1. Sound(conn[c])'
    BY <1>4 DEF LifeInv
  <2>2. Owned(c)'
    <3>1. Functor(c)["connectDestroyed"] \in Range(Waiting(to)')
      BY <1>10 DEF g
    <3> QED
      BY <1>2, <1>4, <1>8, <1>14, <3>1 DEF Owned
  <2>3. Resumed(c)'
    BY <1>4, <1>8 DEF Resumed, Live
  <2>4. ASSUME NEW m \in Loops, NEW h \in Range(Waiting(m)'), h.c = c
        PROVE  FunctorOK(h, m)'
    <3>1. CASE h = g /\ m = to
      BY <1>2, <1>3, <1>4, <1>8, <3>1 DEF FunctorOK, Callbacks
    <3>2. CASE h \in Range(Waiting(m))
      <4>1. FunctorOK(h, m) /\ h \in Functors
        BY <3>2, WaitingTypes DEF LifeInv, FunctorsInTime
      <4>2. h.fn # "removeConnectionInLoop"
        <5>1. ASSUME h.fn = "removeConnectionInLoop" PROVE FALSE
          <6>1. m = l
            BY <1>8, <4>1, <5>1 DEF FunctorOK
          <6>2. h = f
            BY <1>7, <2>4, <4>1, <5>1, FunctorOf
          <6>3. Once(Waiting(l), f)
            BY <1>7 DEF LifeInv, FunctorsOnce
          <6>4. f \notin Range(Tail(Waiting(l)))
            BY <1>9, <1>12, <6>3, OnceTail
          <6> QED
            BY <1>9, <2>4, <6>1, <6>2, <6>4
        <5> QED
          BY <5>1
      <4> QED
        BY <1>4, <4>1, <4>2 DEF FunctorOK
    <3>3. h \in Range(Waiting(m)) \/ (h = g /\ m = to)
      BY <1>9, <1>10, <1>11, <2>4
    <3> QED
      BY <3>1, <3>2, <3>3
  <2>5. ASSUME NEW m \in Loops,
               NEW name \in {"connectEstablished", "removeConnectionInLoop"}
        PROVE  Once(Waiting(m)', Functor(c)[name])
    <3> DEFINE h == Functor(c)[name]
    <3>1. Once(Waiting(m), h) /\ h.fn = name
      BY FunctorFields, QueuedNames DEF LifeInv, FunctorsOnce
    <3> HIDE DEF h
    <3>2. h \notin Range(<<g>>)
      BY <1>3, <1>6, <3>1
    <3>3. CASE m = l
      <4>1. Once(Tail(Waiting(l)), h)
        BY <1>9, <1>12, <3>1, <3>3, OnceTail
      <4> QED
        BY <1>9, <3>3, <4>1 DEF h
    <3>4. CASE m = to
      <4>1. Once(Waiting(to) \o <<g>>, h)
        BY <1>6, <1>12, <3>1, <3>2, <3>4, OnceConcat
      <4> QED
        BY <1>10, <3>4, <4>1 DEF h
    <3>5. CASE m # l /\ m # to
      BY <1>11, <3>1, <3>5 DEF h
    <3> QED
      BY <3>3, <3>4, <3>5
  <2> QED
    BY <2>1, <2>2, <2>3, <2>4, <2>5 DEF OneLife
<1>16. LifeParts'
  <2>1. NoForeignCalls'
    BY <1>4 DEF LifeInv, NoForeignCalls
  <2> QED
    BY <1>4, <1>13, <1>14, <1>15, <2>1, StepOfOne
<1>17. SnapshotsFresh' /\ ListsRun'
  BY <1>4, <1>5 DEF LifeInv, SnapshotsFresh, ListsRun
<1>18. CallbacksInTurn'
  <2> SUFFICES ASSUME NEW m \in Loops, NEW h \in Range(pending'[m]),
                      h.fn \in Callbacks
               PROVE  phase[m] = "events" /\ active[m][h.c] = {}
    BY <1>4 DEF CallbacksInTurn
  <2>1. h \in Range(pending[m])
    BY <1>3, <1>6 DEF Callbacks
  <2> QED
    BY <2>1 DEF LifeInv, CallbacksInTurn
<1> QED
  BY <1>16, <1>17, <1>18 DEF LifeInv, LifeParts

\* The calls that HttpServer does not make cannot be taken.
LEMMA NoOtherCalls ==
  ASSUME LifeInv, NEW c \in Conns, AppStep(c)
  PROVE  IdleShutdown(c)
<1>1. callers \subseteq {"idle"} /\ timers = {}
  BY DEF LifeInv, NoForeignCalls
<1> QED
  BY <1>1 DEF AppStep, ForceCloseWithDelay, DelayFires, ForeignTests

\* Every step keeps the connections' lives.
LEMMA StepLife ==
  ASSUME HttpCalls
  PROVE  TypeInv /\ LifeInv /\ TypeInv' /\ [Next]_vars => LifeInv'
<1> SUFFICES ASSUME TypeInv, LifeInv, TypeInv', [Next]_vars PROVE LifeInv'
  OBVIOUS
<1>1. ASSUME NEW c \in Conns, PeerStep(c)
      PROVE  LifeInv'
  <2>1. UNCHANGED envUnchanged
    BY <1>1 DEF PeerStep, PeerConnects, PeerSends, PeerCloses, PeerResets
  <2> QED
    BY <2>1, LifeFrame DEF envUnchanged, servVars, loopVars
<1>2. ASSUME NEW c \in Conns, AppStep(c)
      PROVE  LifeInv'
  BY <1>2, NoOtherCalls, LifeIdle
<1>3. ASSUME NEW l \in Loops, LoopStep(l)
      PROVE  LifeInv'
  <2>1. CASE Poll(l) \/ EventsDone(l) \/ FunctorsDone(l)
    BY <2>1, LifeTurn
  <2>2. ASSUME NEW c \in Conns, Accept(c)
        PROVE  LifeInv'
    BY <2>2, LifeAccept
  <2>3. ASSUME NEW c \in Conns, AcceptFails(c)
        PROVE  LifeInv'
    BY <2>3, LifeFrame DEF AcceptFails, servVars
  <2>4. ASSUME NEW c \in Conns, HandleChannel(c)
        PROVE  LifeInv'
    BY <2>4, LifeChannel
  <2>5. CASE RunFunctor(l)
    <3>1. PICK f \in Functors : f = Head(list[l])
      BY <2>5, WaitingTypes, RangeOfTail DEF RunFunctor
    <3> QED
      BY <2>5, <3>1, LifeRun, LifeRemoval
  <2>6. ASSUME NEW c \in Conns, SignalPipe(c)
        PROVE  LifeInv'
    BY <2>6, LifeFrame DEF SignalPipe, connVars, loopVars
  <2> QED
    BY <1>3, <2>1, <2>2, <2>3, <2>4, <2>5, <2>6 DEF LoopStep
<1>4. CASE ForeignSets \/ ForeignQueues
  <2>1. foreign.at = "idle"
    BY DEF LifeInv, NoForeignCalls, NoCall
  <2> QED
    BY <1>4, <2>1 DEF ForeignSets, ForeignQueues
<1>5. CASE UNCHANGED vars
  BY <1>5, LifeFrame DEF vars, servVars, loopVars
<1> QED
  BY <1>1, <1>2, <1>3, <1>4, <1>5 DEF Next, Lives

\* The inductive invariant of the connections' lives, for the calls HttpServer
\* makes.
THEOREM LifeInvariant ==
  ASSUME HttpCalls
  PROVE  Spec => [](TypeInv /\ LifeInv)
<1>1. Init => TypeInv /\ LifeInv
  BY InitTypes, InitLife
<1>2. TypeInv /\ LifeInv /\ [Next]_vars => (TypeInv /\ LifeInv)'
  BY StepTypes, StepLife
<1> QED
  BY <1>1, <1>2, PTL DEF Spec

-----------------------------------------------------------------------------
(* What follows for the HTTP server                                        *)

\* handleClose and removeConnectionInLoop are called once at most for each
\* connection, and application code sees it come up once and go down after
\* that, once at most: the asserts of TcpConnection.cpp:215 and
\* TcpServer.cpp:79 hold.
THEOREM LivesOnce ==
  ASSUME HttpCalls
  PROVE  Spec => []ClosedOnce
<1>1. TypeInv /\ LifeInv => ClosedOnce
  <2> SUFFICES ASSUME TypeInv, LifeInv, NEW c \in Conns
               PROVE  /\ conn[c].closes <= 1 /\ removals[c] <= 1
                      /\ conn[c].downs <= conn[c].ups /\ conn[c].ups <= 1
    BY DEF ClosedOnce
  <2>1. Sound(conn[c]) /\ Owned(c) /\ conn[c].state \in States
    BY DEF LifeInv, TypeInv, ConnTypes, Records
  <2> QED
    BY <2>1 DEF Sound, Owned, States, Live
<1> QED
  BY <1>1, LifeInvariant, PTL

\* handleClose disables the channel for good: the write-complete and
\* high-water callbacks that were queued before it do not enable it again.
THEOREM StaysClosed ==
  ASSUME HttpCalls
  PROVE  Spec => []ClosedStaysClosed
<1>1. LifeInv => ClosedStaysClosed
  BY DEF LifeInv, Sound, ClosedStaysClosed
<1> QED
  BY <1>1, LifeInvariant, PTL

\* No handler and no functor runs on a connection that has been destroyed.
THEOREM NothingUsedAfterDestroy ==
  ASSUME HttpCalls
  PROVE  Spec => []NoUseAfterDestroy
<1>1. LifeInv => NoUseAfterDestroy
  BY DEF LifeInv, NoForeignCalls, NoUseAfterDestroy
<1> QED
  BY <1>1, LifeInvariant, PTL

\* shutdown() sends its FIN after the last byte of outputBuffer_.
THEOREM FinComesLast ==
  ASSUME HttpCalls
  PROVE  Spec => []FinAfterData
<1>1. LifeInv => FinAfterData
  BY DEF LifeInv, Sound, FinAfterData
<1> QED
  BY <1>1, LifeInvariant, PTL

\* A connection that stopped reading at the high-water mark has output whose
\* completion makes it read again, or the callback that does so waits.
THEOREM PausesEnd ==
  ASSUME HttpCalls
  PROVE  Spec => []PausedIsResumed
<1>1. TypeInv /\ LifeInv => PausedIsResumed
  <2> SUFFICES ASSUME TypeInv, LifeInv, NEW c \in Conns, Live(conn[c]),
                      ~conn[c].rd, ~conn[c].wr
               PROVE  HasQueued(c, "writeComplete")
    BY DEF PausedIsResumed, Live
  <2>1. PICK l \in Loops : l = loopOf[c]
    BY DEF TypeInv, ServTypes
  <2>2. Functor(c)["writeComplete"] \in Range(Waiting(l))
    BY <2>1 DEF LifeInv, Resumed
  <2> QED
    BY <2>2, WaitingTypes DEF HasQueued
<1> QED
  BY <1>1, LifeInvariant, PTL
=============================================================================
