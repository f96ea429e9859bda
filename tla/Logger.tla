------------------------------- MODULE Logger -------------------------------
(***************************************************************************)
(* The logger of books/ldxcfwqbc/05_logger/logging as a whole: the         *)
(* background thread of AsyncLogging hands its buffers, one by one, to the *)
(* LogFile it owns and flushes it after every round.                       *)
(*                                                                         *)
(* An execution is of one of three kinds: AsyncLogging with a file that is *)
(* just a sequence of lines ("buffers"), LogFile under any caller          *)
(* ("file"), or the two together ("both").  The thread's calls of LogFile  *)
(* are steps of their own, between which other threads append.  The clock  *)
(* is set back only under "file".                                          *)
(***************************************************************************)
EXTENDS AsyncLogging

CONSTANTS
    BothLines,    \* lines appended under "both" (a bound on the run)
    NumChunks, ChunkLen, RotateSize, FlushInterval, CheckTime, PeriodSecs, Ticks, MaxTime

ASSUME FileAssumption ==
    /\ Ticks \in Nat \ {0} /\ PeriodSecs \in Nat \ {0} /\ MaxTime \in Nat \ {0}
    /\ FlushInterval \in Nat /\ CheckTime \in Nat /\ RotateSize \in Nat
    /\ NumChunks \in Nat /\ ChunkLen \in Nat
    /\ BothLines \in 0..NumLines /\ BothLines <= NumChunks /\ BufSize - 1 <= ChunkLen

VARIABLES
    kind,           \* the kind of execution
    written,        \* buffers of this round the thread has handed to LogFile
    content,        \* the lines in every chunk LogFile was given
    clock_steps, clock, filename, last_rotate, last_flush, start_of_period, count,
    bytes, buffered, disk, chunks, refused, overdue       \* of LogFile

fileVars == <<clock_steps, clock, filename, last_rotate, last_flush, start_of_period,
              count, bytes, buffered, disk, chunks, refused, overdue>>
bothVars == <<written, content>>
loggerVars == <<kind, vars, bothVars, fileVars>>

LF == INSTANCE LogFile WITH MaxLen <- ChunkLen, appended <- chunks

\* The LogFile is really made when the thread starts; nothing but its own calls
\* reads the clock, so its first reading may as well be the one in Init.  (A file
\* made later has fewer readings ahead: only "file" starts at all of them.)
LoggerInit ==
    /\ kind \in {"buffers", "file", "both"}
    /\ Init /\ LF!Init
    /\ kind # "file" => ~clock_steps /\ clock = 1
    /\ written = 0 /\ content = <<>>

-----------------------------------------------------------------------------
(* The background thread with its LogFile.                                 *)

\* output.append(buffer->data(), buffer->length())
WriteBuffer ==
    /\ bpc = "write" /\ written < Len(Kept)
    /\ LET b == Kept[written + 1]
       IN  /\ \E ok \in BOOLEAN : LF!append(b.used, ok)
           /\ content' = IF b.lines = <<>> THEN content ELSE Append(content, b.lines)
    /\ written' = written + 1
    /\ UNCHANGED vars

\* The rest of the round: the buffers are recycled and the file is flushed.
EndOfRound ==
    /\ written = Len(Kept)
    /\ WriteOut
    /\ LF!flush
    /\ written' = 0 /\ UNCHANGED content

\* The loop ends: output.flush(), and the LogFile is destroyed.
EndOfLoop == TestRunning /\ ~running /\ LF!flush /\ UNCHANGED bothVars

StdioWrites == bpc = "write" /\ LF!StdioWrites /\ UNCHANGED <<vars, bothVars>>

Others ==
    /\ \/ appended < BothLines /\ LogAppend
       \/ Start \/ StopClear \/ StopNotify \/ StopJoin
       \/ Entry \/ (running /\ TestRunning) \/ WaitFor \/ Collect
    /\ UNCHANGED <<bothVars, fileVars>>

Both == bpc # "aborted" /\ (WriteBuffer \/ EndOfRound \/ EndOfLoop \/ StdioWrites \/ Others)

-----------------------------------------------------------------------------
LoggerNext ==
    /\ UNCHANGED kind
    /\ \/ kind = "buffers" /\ Next /\ UNCHANGED <<bothVars, fileVars>>
       \/ kind = "file" /\ LF!Next /\ UNCHANGED <<vars, bothVars>>
       \/ kind = "both" /\ Both

LoggerSpec == LoggerInit /\ [][LoggerNext]_loggerVars /\ Fairness

-----------------------------------------------------------------------------
\* What LogFile promises, under any caller and under the thread.
PrefixOnDisk == LF!PrefixOnDisk
BytesCoverFile == LF!BytesCoverFile
ServicedInTime == LF!ServicedInTime

\* Between two rounds of the background thread, and after the last, every line that
\* it has taken over is on disk, in the order of append(), whichever of the rotated
\* files it is in; only lines of a buffer that fwrite() refused are missing.  A
\* crash costs nothing but what is in the buffers.
LinesIn(ids) == FlattenSeq([k \in DOMAIN ids |-> content[ids[k]]])
RoundsReachDisk ==
    kind = "both" /\ bpc \in {"test", "lock", "wait", "done"} =>
        /\ LinesIn([k \in DOMAIN content |-> k]) = file
        /\ LinesIn(LF!Ids(LF!OnDisk)) = LinesIn(LF!Accepted(Len(content), refused))
=============================================================================
