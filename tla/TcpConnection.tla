--------------------------- MODULE TcpConnection ---------------------------
(***************************************************************************)
(* TcpConnection with its Channel and its entry in the EpollPoller, as a   *)
(* record and the handlers that transform it (TcpConnection.cpp,           *)
(* Channel.cpp, EpollPoller.cpp).  A handler runs on the connection's loop *)
(* thread from beginning to end, so it is an operator from the record      *)
(* before to the record after; TcpServer.tla gives the interleavings.      *)
(*                                                                         *)
(* The build defines NDEBUG (Makefile:34), so a failed assert is not an    *)
(* abort: the handlers carry on as the code does, and the asserts are      *)
(* stated as properties in TcpServer.tla.                                  *)
(*                                                                         *)
(* Data: the bytes a connection accepts are numbered 1, 2, 3, ...; Garbage *)
(* is a byte that nobody asked to send.  The write-complete and high-water *)
(* callbacks are those HttpServer installs (HttpServer.cpp:25-35).         *)
(***************************************************************************)
EXTENDS Integers, Sequences

CONSTANT HighWaterMark          \* highWaterMark_

ASSUME HighWaterMarkAssumption == HighWaterMark \in Nat \ {0}

Garbage == 0

\* size_t arithmetic, with 2^16 standing for 2^64 (TLC's integers are 32 bits).
SizeLimit == 65536
SizeT(i) == i % SizeLimit

States == {"None", "Connecting", "Connected", "DisConnecting", "DisConnected"}

\* The constructor: Connecting, and the channel unknown to the poller.
NewConnection ==
    [state    |-> "Connecting",
     reading  |-> FALSE,        \* reading_
     index    |-> "new",        \* channel_->index(): new, added, deleted
     rd       |-> FALSE,        \* channel_->isReading()
     wr       |-> FALSE,        \* channel_->isWriting()
     out      |-> <<>>,         \* outputBuffer_
     fin      |-> FALSE,        \* shutdownWrite() was called
     queued   |-> <<>>,         \* functors this handler gave to queueInLoop
     accepted |-> 0,            \* history: bytes taken by sendInLoop
     wire     |-> <<>>,         \* history: bytes given to the kernel
     failed   |-> FALSE,        \* history: a ::send of sendInLoop failed, or
                                \* its message was gone
     ups      |-> 0,            \* history: connectionCallback_, connected
     downs    |-> 0,            \* history: connectionCallback_, disconnected
     closes   |-> 0]            \* history: closeCallback_ calls

NoConnection == [NewConnection EXCEPT !.state = "None"]

Queue(r, fn) == [r EXCEPT !.queued = Append(@, fn)]

-----------------------------------------------------------------------------
(* Channel and EpollPoller                                                 *)

\* EpollPoller::updateChannel.  A channel that epoll does not know is added
\* even when it is interested in nothing; epoll then still reports HUP.
Update(r) ==
    [r EXCEPT !.index =
        IF r.index = "added" /\ ~r.rd /\ ~r.wr THEN "deleted" ELSE "added"]

EnableReading(r)  == Update([r EXCEPT !.rd = TRUE])
DisableReading(r) == Update([r EXCEPT !.rd = FALSE])
EnableWriting(r)  == Update([r EXCEPT !.wr = TRUE])
DisableWriting(r) == Update([r EXCEPT !.wr = FALSE])
DisableAll(r)     == Update([r EXCEPT !.rd = FALSE, !.wr = FALSE])

\* EpollPoller::removeChannel.
Remove(r) == [r EXCEPT !.index = "new"]

-----------------------------------------------------------------------------
(* Establishment and closing                                               *)

ConnectEstablished(r) ==
    [EnableReading([r EXCEPT !.state = "Connected"]) EXCEPT !.ups = @ + 1]

\* Mutant: the channel stays with the poller.
ConnectDestroyed_KeepsChannel(r) ==
    IF r.state = "Connected"
    THEN [DisableAll([r EXCEPT !.state = "DisConnected"])
             EXCEPT !.downs = @ + 1]
    ELSE r

ConnectDestroyed(r) ==
    Remove(IF r.state = "Connected"
           THEN [DisableAll([r EXCEPT !.state = "DisConnected"])
                    EXCEPT !.downs = @ + 1]
           ELSE r)

\* Mutant: the channel is not disabled.
HandleClose_StaysEnabled(r) ==
    [r EXCEPT !.state = "DisConnected", !.downs = @ + 1, !.closes = @ + 1]

HandleClose(r) ==
    [DisableAll([r EXCEPT !.state = "DisConnected"])
        EXCEPT !.downs = @ + 1, !.closes = @ + 1]

\* Mutant: FIN goes out although bytes are waiting.
ShutdownInLoop_Hasty(r) == [r EXCEPT !.fin = TRUE]

ShutdownInLoop(r) == IF r.wr THEN r ELSE [r EXCEPT !.fin = TRUE]

\* Called on the loop thread, where runInLoop is a plain call.
Shutdown(r) ==
    IF r.state = "Connected"
    THEN ShutdownInLoop([r EXCEPT !.state = "DisConnecting"])
    ELSE r

ForceClose(r) ==
    IF r.state \in {"Connected", "DisConnecting"}
    THEN Queue([r EXCEPT !.state = "DisConnecting"], "forceCloseInLoop")
    ELSE r

ForceCloseInLoop(r) ==
    IF r.state \in {"Connected", "DisConnecting"} THEN HandleClose(r) ELSE r

\* startRead and stopRead on the loop thread.
StartReadInLoop(r) ==
    IF ~r.reading \/ ~r.rd
    THEN [EnableReading(r) EXCEPT !.reading = TRUE]
    ELSE r

StopReadInLoop(r) ==
    IF r.reading \/ r.rd
    THEN [DisableReading(r) EXCEPT !.reading = FALSE]
    ELSE r

-----------------------------------------------------------------------------
(* Sending                                                                 *)

\* ::send of n bytes on a non-blocking socket for which the kernel has room
\* for room bytes: the number taken, or -1 if there is no room at all.  Where
\* it raises SIGPIPE nothing of this runs any more (SignalPipe, TcpServer.tla).
SendResult(room, n) ==
    IF room = 0 THEN -1 ELSE IF room < n THEN room ELSE n

\* Mutant: the message overtakes what is waiting in outputBuffer_.
SendInLoop_Overtakes(r, n, intact, room) ==
    IF r.state = "DisConnected" THEN r
    ELSE LET msg == [i \in 1..n |-> IF intact THEN r.accepted + i ELSE Garbage]
             k == IF room < n THEN room ELSE n
             sent == [r EXCEPT !.accepted = IF intact THEN @ + n ELSE @,
                               !.wire = @ \o SubSeq(msg, 1, k),
                               !.out = @ \o SubSeq(msg, k + 1, n)]
         IN  IF k = n THEN Queue(sent, "writeComplete")
             ELSE IF r.wr THEN sent ELSE EnableWriting(sent)

\* sendInLoop calls ::send only if nothing is waiting.
SendsNow(r) == r.state # "DisConnected" /\ ~r.wr /\ r.out = <<>>

\* sendInLoop of n bytes, which are still there (intact) or not.  nwrote is a
\* size_t, so "nwrote >= 0" always holds: an error of ::send makes nwrote
\* SIZE_MAX, remaining n + 1, and remove_prefix(nwrote) steps one byte back,
\* in front of the message.
SendInLoop(r, n, intact, room) ==
    IF r.state = "DisConnected" THEN r
    ELSE LET direct == SendsNow(r)
             nwrote == IF direct THEN SizeT(SendResult(room, n)) ELSE 0
             remaining == SizeT(n - nwrote)
             off == n - remaining       \* the offset remove_prefix leaves
             taken == IF off < 0 THEN 0 ELSE off
             byte(i) == IF i = 0 \/ ~intact THEN Garbage ELSE r.accepted + i
             sent == [r EXCEPT
                         !.accepted = IF intact THEN @ + n ELSE @,
                         !.failed = @ \/ ~intact \/ (direct /\ room = 0),
                         !.wire = @ \o [i \in 1..taken |-> byte(i)]]
             crossed == /\ Len(r.out) + remaining > HighWaterMark
                        /\ Len(r.out) < HighWaterMark
             told == IF crossed THEN Queue(sent, "highWaterMark") ELSE sent
             kept == [told EXCEPT
                         !.out = @ \o [i \in 1..remaining |-> byte(off + i)]]
         IN  IF remaining = 0 THEN Queue(sent, "writeComplete")
             ELSE IF r.wr THEN kept ELSE EnableWriting(kept)

Send(r, n, room) ==
    IF r.state = "Connected" THEN SendInLoop(r, n, TRUE, room) ELSE r

\* The first k bytes of outputBuffer_ go to the kernel.
Drain(r, k) == [r EXCEPT !.wire = @ \o SubSeq(r.out, 1, k),
                         !.out = SubSeq(@, k + 1, Len(@))]

\* Mutant: the write-complete callback is not queued.
HandleWrite_NoCallback(r, room) ==
    IF ~r.wr \/ room = 0 THEN r
    ELSE LET sent == Drain(r, SendResult(room, Len(r.out)))
         IN  IF sent.out # <<>> THEN sent
             ELSE IF r.state = "DisConnecting"
             THEN ShutdownInLoop(DisableWriting(sent))
             ELSE DisableWriting(sent)

\* Mutant: the FIN that shutdown() postponed is forgotten.
HandleWrite_ForgetsFin(r, room) ==
    IF ~r.wr \/ room = 0 THEN r
    ELSE LET sent == Drain(r, SendResult(room, Len(r.out)))
         IN  IF sent.out # <<>> THEN sent
             ELSE Queue(DisableWriting(sent), "writeComplete")

\* handleWrite: an error of ::send is only logged.
HandleWrite(r, room) ==
    IF ~r.wr \/ room = 0 THEN r
    ELSE LET sent == Drain(r, SendResult(room, Len(r.out)))
             done == Queue(DisableWriting(sent), "writeComplete")
         IN  IF sent.out # <<>> THEN sent
             ELSE IF r.state = "DisConnecting" THEN ShutdownInLoop(done)
             ELSE done

-----------------------------------------------------------------------------
(* Channel::handleEventWithGuard                                           *)

\* What the message callback does: it sends n bytes (nothing if n = 0), with
\* so much room in the kernel, then closes or not.  The HTTP server's
\* callback replies and, unless the connection is kept, calls shutdown(); its
\* replies to the requests of one message, a send() each, are one here.
MessageCallback(r, app) ==
    LET replied == IF app.n = 0 THEN r ELSE Send(r, app.n, app.room)
    IN  CASE app.then = "stay"       -> replied
          [] app.then = "shutdown"   -> Shutdown(replied)
          [] app.then = "forceClose" -> ForceClose(replied)

\* handleRead; got is what readFd found: data, end of file or an error,
\* which is only logged.
HandleRead(r, got, app) ==
    CASE got = "data"  -> MessageCallback(r, app)
      [] got = "eof"   -> HandleClose(r)
      [] got = "error" -> r

\* Mutant: the write callback runs before the read callback.
HandleEvent_WriteFirst(r, revents, got, app, room) ==
    LET hup == IF "HUP" \in revents /\ "IN" \notin revents
               THEN HandleClose(r) ELSE r
        write == IF "OUT" \in revents THEN HandleWrite(hup, room) ELSE hup
    IN  IF "IN" \in revents THEN HandleRead(write, got, app) ELSE write

\* The close, read and write callbacks, in this order; the error callback
\* only logs.  room is the kernel's when handleWrite runs.
HandleEvent(r, revents, got, app, room) ==
    LET hup == IF "HUP" \in revents /\ "IN" \notin revents
               THEN HandleClose(r) ELSE r
        read == IF "IN" \in revents THEN HandleRead(hup, got, app) ELSE hup
    IN  IF "OUT" \in revents THEN HandleWrite(read, room) ELSE read

-----------------------------------------------------------------------------
(* Functors queued on the connection's loop                                *)

Run(r, fn) ==
    CASE fn = "connectEstablished" -> ConnectEstablished(r)
      [] fn = "connectDestroyed"   -> ConnectDestroyed(r)
      [] fn = "writeComplete"      -> StartReadInLoop(r)
      [] fn = "highWaterMark"      -> StopReadInLoop(r)
      [] fn = "shutdownInLoop"     -> ShutdownInLoop(r)
      [] fn = "forceCloseInLoop"   -> ForceCloseInLoop(r)

\* Mutant: connectDestroyed is bound to a raw pointer.
Owning_RawDestroyed(fn) ==
    fn \notin {"sendInLoop", "shutdownInLoop", "forceCloseInLoop",
               "connectDestroyed"}

\* Functors bound to shared_from_this() keep the connection alive; those
\* bound to the raw this (lines 91, 237, 255) do not.
Owning(fn) == fn \notin {"sendInLoop", "shutdownInLoop", "forceCloseInLoop"}
=============================================================================
