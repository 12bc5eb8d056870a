---------------------------- MODULE AsyncLogging ----------------------------
(***************************************************************************)
(* The logging backend: AsyncLogging (AsyncLogging.cpp) with the LogFile   *)
(* and AppendFile it writes to, and the end of Logger's destructor, which  *)
(* hands a line in and aborts the program after a FATAL one.               *)
(*                                                                         *)
(* Front-end threads append lines to curBuffer_ under the mutex; a full    *)
(* buffer goes to buffers_ and nextBuffer_ takes its place.  The backend   *)
(* thread exchanges the buffers for two empty ones of its own, writes them *)
(* out without the mutex, and keeps two of them for the next round.        *)
(*                                                                         *)
(* Data: lines are numbered in the order of append, and LogStream.tla says *)
(* how long each is; a buffer is the sequence of its lines.  A unique_ptr  *)
(* that is moved from and given back is a flag.  The mutex is              *)
(* held during append and from the test of buffers_ to the swap, so each   *)
(* is one step; the wait on the condition variable lies between them.      *)
(* A wait ends at any time: by notify, by timeout or spuriously.           *)
(* A write may take only a part of a buffer (a full disk).                 *)
(***************************************************************************)
EXTENDS LogStream

CONSTANTS
    LargeBuffer,            \* size of a buffer
    MaxBuffersToWriteSize,
    RollSize,               \* rollSize_
    CheckEveryN,            \* checkEveryN_
    MaxLines,               \* bound: lines appended
    MaxFaults               \* bound: writes that take only a part

\* A buffer has room for a line of any stream; the two buffers that are kept
\* when messages are dropped were there.
ASSUME AsyncLoggingAssumption ==
    /\ LargeBuffer \in Nat /\ SmallBuffer <= LargeBuffer
    /\ MaxBuffersToWriteSize \in Nat \ {0, 1}
    /\ RollSize \in Nat \ {0} /\ CheckEveryN \in Nat \ {0}
    /\ MaxLines \in Nat /\ MaxFaults \in Nat

VARIABLES
    running,            \* running_
    curBuffer,          \* the lines of curBuffer_
    nextBuffer,         \* nextBuffer_ is not null
    buffers,            \* buffers_
    pc,                 \* where the backend thread is
    newBuffer1,         \* threadFunc's newBuffer1 is not null
    newBuffer2,         \* threadFunc's newBuffer2 is not null
    buffersToWrite,     \* threadFunc's buffersToWrite
    done,               \* how many of them have been given to logFile
    logFile,            \* the LogFile
    appended,           \* how many lines were appended
    dropped,            \* history: the lines of dropped buffers
    lost,               \* history: the lines that the disk did not take
    faults,             \* writes that took only a part so far
    program             \* running, stopping (in stop()), fatal (a FATAL line
                        \* was handed in), ended, aborted

front == <<curBuffer, nextBuffer, buffers, appended>>
file == <<logFile, lost, faults>>
back == <<pc, newBuffer1, newBuffer2, buffersToWrite, done, file, dropped>>
vars == <<running, front, back, program>>

Message == 0            \* the line "Dropped log message at ..."
Line == 0..MaxLines
Buffer == Seq(Line)

\* The lines come from the Statements in turn; the message has no stream.
Length ==
    [l \in Line |-> IF l = Message THEN 70
                    ELSE Format(Statements[1 + (l % Len(Statements))]).len]

SizeOf(b) == SumSeq([i \in DOMAIN b |-> Length[b[i]]])

\* Type correctness, with the bounds of a buffer's fill and of the file that
\* is being written.
TypeOK ==
    /\ running \in BOOLEAN
    /\ curBuffer \in Buffer /\ SizeOf(curBuffer) < LargeBuffer
    /\ nextBuffer \in BOOLEAN
    /\ buffers \in Seq(Buffer)
    /\ pc \in {"none", "opening", "test", "lock", "waiting", "check",
               "write", "ended"}
    /\ newBuffer1 \in BOOLEAN
    /\ newBuffer2 \in BOOLEAN
    /\ buffersToWrite \in Seq(Buffer)
    /\ done \in 0..Len(buffersToWrite)
    /\ logFile.lines \in Buffer
    /\ logFile.flushed \in 0..Len(logFile.lines)
    /\ logFile.written \in 0..(RollSize - 1)
    /\ logFile.count \in 0..(CheckEveryN - 1)
    /\ appended \in 0..MaxLines
    /\ dropped \subseteq Line /\ lost \subseteq Line
    /\ faults \in 0..MaxFaults
    /\ program \in {"running", "stopping", "fatal", "ended", "aborted"}

\* lines: everything written, in all files; flushed: how many of them are
\* known to be on disk; written: writtenBytes_ of the open file.
Init ==
    /\ running = FALSE
    /\ curBuffer = <<>>
    /\ nextBuffer = TRUE
    /\ buffers = <<>>
    /\ pc = "none"
    /\ newBuffer1 = FALSE
    /\ newBuffer2 = FALSE
    /\ buffersToWrite = <<>>
    /\ done = 0
    /\ logFile = [lines |-> <<>>, flushed |-> 0, written |-> 0, count |-> 0]
    /\ appended = 0
    /\ dropped = {}
    /\ lost = {}
    /\ faults = 0
    /\ program = "running"

Alive == program \notin {"ended", "aborted"}

-----------------------------------------------------------------------------
(* LogFile and AppendFile                                                  *)

\* Mutant: fflush is forgotten.
Flush_Nothing(lf) == lf

Flush(lf) == [lf EXCEPT !.flushed = Len(lf.lines)]

\* rollFile(): closing the old file flushes it.
RollFile(lf) == [Flush(lf) EXCEPT !.written = 0]

\* AppendFile::append when the disk takes it all.
AppendFile(lf, b) ==
    [lf EXCEPT !.lines = @ \o b, !.written = @ + SizeOf(b)]

\* AppendFile::append when fwrite fails after the first n lines of b: what was
\* taken is added to writtenBytes_ in the loop and once more after it.
AppendFileFails(lf, b, n) ==
    [lf EXCEPT !.lines = @ \o SubSeq(b, 1, n),
               !.written = @ + 2 * SizeOf(SubSeq(b, 1, n))]

\* Mutant: the size is looked at only every checkEveryN_ calls.
CheckFile_RollsLate(lf) ==
    LET c == lf.count + 1
    IN  IF c < CheckEveryN THEN [lf EXCEPT !.count = c]
        ELSE LET f == [Flush(lf) EXCEPT !.count = 0]
             IN  IF f.written < RollSize THEN f ELSE RollFile(f)

\* A file that has reached its size is followed by a new one.
CheckFile(lf) ==
    LET c == lf.count + 1
    IN  IF c < CheckEveryN /\ lf.written < RollSize THEN [lf EXCEPT !.count = c]
        ELSE LET f == [Flush(lf) EXCEPT !.count = 0]
             IN  IF f.written < RollSize THEN f ELSE RollFile(f)

\* append_unlocked(data, len): a new day begins a new file as well.
LogFileAppend(b) ==
    \E newDay \in BOOLEAN :
        LET lf == IF newDay THEN [RollFile(logFile) EXCEPT !.count = 0]
                  ELSE logFile
        IN  \/ /\ logFile' = CheckFile(AppendFile(lf, b))
               /\ UNCHANGED <<lost, faults>>
            \/ \E n \in 0..(Len(b) - 1) :
                  /\ faults < MaxFaults
                  /\ faults' = faults + 1
                  /\ logFile' = CheckFile(AppendFileFails(lf, b, n))
                  /\ lost' = lost \union ToSet(SubSeq(b, n + 1, Len(b)))

-----------------------------------------------------------------------------
(* The front end: append()                                                 *)

Fits(b, line) == LargeBuffer - SizeOf(b) > Length[line]

\* FixedBuffer::append
Fill(b, line) == IF Fits(b, line) THEN Append(b, line) ELSE b

PutLine(line) ==
    IF Fits(curBuffer, line)
    THEN /\ curBuffer' = Fill(curBuffer, line)
         /\ UNCHANGED <<nextBuffer, buffers>>
    ELSE /\ buffers' = Append(buffers, curBuffer)
         /\ nextBuffer' = FALSE     \* moved to curBuffer_, or was null
         /\ curBuffer' = Fill(<<>>, line)

\* A line is logged by any thread (no thread outlives the server, whose
\* destructor runs before stop()).
LogLine ==
    /\ program = "running"
    /\ appended < MaxLines
    /\ appended' = appended + 1
    /\ PutLine(appended')
    /\ UNCHANGED <<running, back, program>>

\* ~Logger() of a FATAL line: g_output, then g_flush and abort().  main sets
\* the output function but no flush function, so g_flush flushes stdout.
LogFatal ==
    /\ program = "running"
    /\ appended < MaxLines
    /\ appended' = appended + 1
    /\ PutLine(appended')
    /\ program' = "fatal"
    /\ UNCHANGED <<running, back>>

Abort ==
    /\ program = "fatal"
    /\ program' = "aborted"
    /\ UNCHANGED <<running, front, back>>

-----------------------------------------------------------------------------
(* start() and stop()                                                      *)

Start ==
    /\ program = "running"
    /\ pc = "none"
    /\ running' = TRUE
    /\ pc' = "opening"
    /\ UNCHANGED <<front, newBuffer1, newBuffer2, buffersToWrite, done,
                   file, dropped, program>>

\* The destructor: running_ = false, notify, join.
Stop ==
    /\ program = "running"
    /\ running
    /\ pc # "opening"           \* start() has returned
    /\ running' = FALSE
    /\ program' = "stopping"
    /\ UNCHANGED <<front, back>>

Joined ==
    /\ program = "stopping"
    /\ pc = "ended"
    /\ program' = "ended"
    /\ UNCHANGED <<running, front, back>>

-----------------------------------------------------------------------------
(* threadFunc()                                                            *)

Open ==
    /\ Alive /\ pc = "opening"
    /\ pc' = "test"
    /\ newBuffer1' = TRUE
    /\ newBuffer2' = TRUE
    /\ UNCHANGED <<running, front, buffersToWrite, done, file, dropped,
                   program>>

\* while(running_); after the loop a last flush, and ~LogFile closes the file.
TestRunning ==
    /\ Alive /\ pc = "test"
    /\ pc' = IF running THEN "lock" ELSE "ended"
    /\ logFile' = IF running THEN logFile ELSE Flush(logFile)
    /\ UNCHANGED <<running, front, newBuffer1, newBuffer2, buffersToWrite,
                   done, dropped, lost, faults, program>>

\* cond_.waitForSeconds(flushInterval_), once, whatever wakes it.
Wait ==
    /\ Alive /\ pc = "lock"
    /\ buffers = <<>>
    /\ pc' = "waiting"
    /\ UNCHANGED <<running, front, newBuffer1, newBuffer2, buffersToWrite,
                   done, file, dropped, program>>

\* Mutant: the current buffer goes before the full ones.
Swap_CurrentFirst ==
    /\ Alive
    /\ pc = "waiting" \/ (pc = "lock" /\ buffers # <<>>)
    /\ buffersToWrite' = <<curBuffer>> \o buffers
    /\ done' = 0
    /\ buffers' = <<>>
    /\ curBuffer' = <<>>
    /\ newBuffer1' = FALSE
    /\ newBuffer2' = (newBuffer2 /\ nextBuffer)
    /\ nextBuffer' = TRUE
    /\ pc' = "check"
    /\ UNCHANGED <<running, appended, file, dropped, program>>

\* Mutant: wait until a buffer is full, without regard to the time.
Swap_FullOnly ==
    /\ Alive
    /\ pc \in {"waiting", "lock"} /\ buffers # <<>>
    /\ buffersToWrite' = Append(buffers, curBuffer)
    /\ done' = 0
    /\ buffers' = <<>>
    /\ curBuffer' = <<>>
    /\ newBuffer1' = FALSE
    /\ newBuffer2' = (newBuffer2 /\ nextBuffer)
    /\ nextBuffer' = TRUE
    /\ pc' = "check"
    /\ UNCHANGED <<running, appended, file, dropped, program>>

\* The rest of the locked block: the current buffer joins the full ones,
\* the two spare buffers take over, and the queue is swapped out.
Swap ==
    /\ Alive
    /\ pc = "waiting" \/ (pc = "lock" /\ buffers # <<>>)
    /\ buffersToWrite' = Append(buffers, curBuffer)
    /\ done' = 0
    /\ buffers' = <<>>
    /\ curBuffer' = <<>>
    /\ newBuffer1' = FALSE
    /\ newBuffer2' = (newBuffer2 /\ nextBuffer)
    /\ nextBuffer' = TRUE
    /\ pc' = "check"
    /\ UNCHANGED <<running, appended, file, dropped, program>>

\* Mutant: only one buffer survives.
Keep_One(bs) == SubSeq(bs, 1, 1)

\* buffersToWrite.erase(begin() + 2, end())
Keep(bs) == SubSeq(bs, 1, 2)

\* A backlog is cut down to two buffers, and the file says so.
CheckBacklog ==
    /\ Alive /\ pc = "check"
    /\ IF Len(buffersToWrite) > MaxBuffersToWriteSize
       THEN /\ LogFileAppend(<<Message>>)
            /\ buffersToWrite' = Keep(buffersToWrite)
            /\ dropped' = dropped \union
                  (ToSet(FlattenSeq(buffersToWrite))
                     \ ToSet(FlattenSeq(Keep(buffersToWrite))))
       ELSE UNCHANGED <<file, buffersToWrite, dropped>>
    /\ pc' = "write"
    /\ UNCHANGED <<running, front, newBuffer1, newBuffer2, done, program>>

WriteBuffer ==
    /\ Alive /\ pc = "write"
    /\ done < Len(buffersToWrite)
    /\ done' = done + 1
    /\ LogFileAppend(buffersToWrite[done + 1])
    /\ UNCHANGED <<running, front, pc, newBuffer1, newBuffer2,
                   buffersToWrite, dropped, program>>

\* Two of the written buffers are kept, as far as there are two (back() of
\* an empty vector gives no buffer); the rest is freed and the file flushed.
Recycle ==
    /\ Alive /\ pc = "write"
    /\ done = Len(buffersToWrite)
    /\ newBuffer1' = (newBuffer1 \/ Len(buffersToWrite) >= 1)
    /\ newBuffer2' = (newBuffer2
          \/ Len(buffersToWrite) >= IF newBuffer1 THEN 1 ELSE 2)
    /\ buffersToWrite' = <<>>
    /\ done' = 0
    /\ logFile' = Flush(logFile)
    /\ pc' = "test"
    /\ UNCHANGED <<running, front, dropped, lost, faults, program>>

BackStep ==
    \/ Open \/ TestRunning \/ Wait \/ Swap \/ CheckBacklog \/ WriteBuffer
    \/ Recycle

Over == ~Alive /\ UNCHANGED vars

Next ==
    \/ LogLine \/ LogFatal \/ Abort
    \/ Start \/ Stop \/ Joined
    \/ BackStep
    \/ Over

Spec == Init /\ [][Next]_vars

\* The backend thread is scheduled, and its wait is a timed one.
FairSpec == Spec /\ WF_vars(BackStep) /\ WF_vars(Joined)

-----------------------------------------------------------------------------
(* Properties                                                              *)

Written == Without(logFile.lines, {Message})
OnDisk == ToSet(SubSeq(logFile.lines, 1, logFile.flushed))

\* Whatever a running program logs, its line comes out of the stream legible
\* and as short as the stream's buffer, so that append() can store it.  The
\* numbers of Legible are not negative: of -345 the code writes -5.
LinesLegible ==
    Alive => Legible /\ \A l \in 1..appended : Fits(<<>>, l)

\* No line is lost, duplicated or overtaken on its way to the file, or cut
\* off by a buffer that is too small for it: what is written, what the backend
\* holds, what is queued and the current buffer are, one after the other, the
\* lines appended so far less those of a backlog and those the disk refused.
LinesConserved ==
    Written
    \o FlattenSeq(SubSeq(buffersToWrite, done + 1, Len(buffersToWrite)))
    \o FlattenSeq(buffers) \o curBuffer
    = Without(UpTo(appended), dropped \union lost)

\* Each round begins with two empty buffers in hand, which the swap relies
\* on (the assertions of lines 76-78): a round that gave both away had at
\* least two to take back, even after it dropped a backlog.
SpareBuffersReady ==
    pc \in {"test", "lock", "waiting"} =>
        newBuffer1 /\ newBuffer2 /\ buffersToWrite = <<>>

\* A line is on disk, or given up, within a round or two, without any further
\* line being logged, unless logging stops first.
LinesReachDisk ==
    \A l \in 1..MaxLines :
        (l <= appended /\ running) ~>
            (\/ l \in OnDisk \union dropped \union lost
             \/ ~running
             \/ program \in {"fatal", "aborted"})

\* stop() returns: the backend thread notices it wherever it is.
StopReturns == program = "stopping" ~> program = "ended"

\* stop() loses only what was appended since the last swap: everything that
\* the backend took over is on disk when it returns.
StopWritesSwapped ==
    program = "ended" =>
        1..appended \subseteq OnDisk \union dropped \union lost
            \union ToSet(FlattenSeq(buffers) \o curBuffer)
=============================================================================
