---------------------------- MODULE AsyncLogging ----------------------------
(***************************************************************************)
(* The asynchronous logger of                                              *)
(* books/ldxcfwqbc/05_logger/logging/AsyncLogging.h: any thread appends    *)
(* lines to fixed-size buffers under a mutex, one background thread takes  *)
(* the buffers over, writes them to the log file and recycles two of them. *)
(*                                                                         *)
(* A unique_ptr is the buffer it owns or Null.  What the background thread *)
(* does outside the mutex touches only its own buffers and file, so it is  *)
(* one step.  Its wait_for has no predicate: a notification, the timeout   *)
(* and a spurious wakeup all lead to the same next step.                   *)
(***************************************************************************)
EXTENDS Integers, Sequences, FiniteSets, SequencesExt

CONSTANTS
    NumLines,     \* lines appended (a bound on the run)
    MaxLen,       \* longest line
    BufSize,      \* LARGE_BUFFER_SIZE
    MaxBuffers,   \* buffers written at once before lines are discarded: 25
    Null          \* an empty unique_ptr

Line == [id : 1..NumLines, len : 1..MaxLen]
Buffer == [lines : Seq(Line), used : 0 .. BufSize - 1]

ASSUME BufferAssumption ==
    /\ BufSize \in Nat \ {0} /\ MaxBuffers \in Nat /\ MaxBuffers >= 2
    /\ NumLines \in Nat /\ MaxLen \in Nat
    /\ Null \notin Buffer

VARIABLES
    curr_buff, next_buff, buffers,          \* shared, under _mutex
    running,                                \* _running, a plain bool
    buffer1, buffer2, buffers_to_write,     \* the background thread's own
    bpc,                                    \* where the background thread is
    opc,                                    \* owner: "new", "started", "stop", "join", "joined"
    appended,                               \* number of lines appended
    file,                                   \* lines written to the log file
    lost                                    \* lines discarded: too long, or erased

shared == <<curr_buff, next_buff, buffers>>
own == <<buffer1, buffer2, buffers_to_write>>
vars == <<shared, running, own, bpc, opc, appended, file, lost>>

EmptyBuffer == [lines |-> <<>>, used |-> 0]

\* FixedBuffer::append() copies the line only if more than its length is left.
Fits(b, line) == BufSize - b.used > line.len

BufferAppend(b, line) ==
    IF Fits(b, line)
    THEN [lines |-> Append(b.lines, line), used |-> b.used + line.len]
    ELSE b

TypeOK ==
    /\ {curr_buff, next_buff, buffer1, buffer2} \subseteq Buffer \cup {Null}
    /\ buffers \in Seq(Buffer) /\ buffers_to_write \in Seq(Buffer)
    /\ running \in BOOLEAN
    /\ bpc \in {"none", "entry", "test", "lock", "wait", "write", "done", "aborted"}
    /\ opc \in {"new", "started", "stop", "join", "joined"}
    /\ appended \in 0..NumLines
    /\ file \in Seq(Line)
    /\ lost \subseteq 1..NumLines

Init ==
    /\ curr_buff = EmptyBuffer /\ next_buff = EmptyBuffer /\ buffers = <<>>
    /\ running = FALSE
    /\ buffer1 = Null /\ buffer2 = Null /\ buffers_to_write = <<>>
    /\ bpc = "none" /\ opc = "new"
    /\ appended = 0 /\ file = <<>> /\ lost = {}

-----------------------------------------------------------------------------
(* append(), by any thread and at any time.                                *)

AppendFits(line) ==
    /\ Fits(curr_buff, line)
    /\ curr_buff' = BufferAppend(curr_buff, line)
    /\ UNCHANGED <<next_buff, buffers, lost>>

AppendForgets(line) ==
    /\ ~Fits(curr_buff, line)
    /\ buffers' = Append(buffers, curr_buff)
    /\ curr_buff' = IF next_buff # Null THEN next_buff ELSE EmptyBuffer
    /\ next_buff' = Null
    /\ UNCHANGED lost

\* The current buffer is full.  A line that fits no buffer at all is dropped
\* by FixedBuffer::append(), after the buffers have been switched for it.
AppendSwitches(line) ==
    /\ ~Fits(curr_buff, line)
    /\ buffers' = Append(buffers, curr_buff)
    /\ LET fresh == IF next_buff # Null THEN next_buff ELSE EmptyBuffer
       IN  /\ curr_buff' = BufferAppend(fresh, line)
           /\ lost' = IF Fits(fresh, line) THEN lost ELSE lost \cup {line.id}
    /\ next_buff' = Null

LogAppend ==
    /\ appended < NumLines
    /\ appended' = appended + 1
    /\ \E len \in 1..MaxLen :
         LET line == [id |-> appended', len |-> len]
         IN  AppendFits(line) \/ AppendSwitches(line)
    /\ UNCHANGED <<running, own, bpc, opc, file>>

-----------------------------------------------------------------------------
(* start() and stop(), called by the owner.                                *)

Start ==
    /\ opc = "new"
    /\ opc' = "started" /\ running' = TRUE /\ bpc' = "entry"
    /\ UNCHANGED <<shared, own, appended, file, lost>>

StopClear ==
    /\ opc = "started"
    /\ opc' = "stop" /\ running' = FALSE
    /\ UNCHANGED <<shared, own, bpc, appended, file, lost>>

\* The notification only shortens the wait of the background thread.
StopNotify ==
    /\ opc = "stop"
    /\ opc' = "join"
    /\ UNCHANGED <<shared, running, own, bpc, appended, file, lost>>

StopJoin ==
    /\ opc = "join" /\ bpc = "done"
    /\ opc' = "joined"
    /\ UNCHANGED <<shared, running, own, bpc, appended, file, lost>>

-----------------------------------------------------------------------------
(* thread_func()                                                           *)

\* assert(_running == true), then the thread's own two buffers.
Entry ==
    /\ bpc = "entry"
    /\ bpc' = IF running THEN "test" ELSE "aborted"
    /\ buffer1' = EmptyBuffer /\ buffer2' = EmptyBuffer
    /\ UNCHANGED <<shared, running, buffers_to_write, opc, appended, file, lost>>

TestRunning ==
    /\ bpc = "test"
    /\ bpc' = IF running THEN "lock" ELSE "done"
    /\ UNCHANGED <<shared, running, own, opc, appended, file, lost>>

WaitFor ==
    /\ bpc = "lock" /\ buffers = <<>>
    /\ bpc' = "wait"
    /\ UNCHANGED <<shared, running, own, opc, appended, file, lost>>

CollectReadyNoTimeout == bpc \in {"wait", "lock"} /\ buffers # <<>>

CollectReady == bpc = "wait" \/ (bpc = "lock" /\ buffers # <<>>)

CollectFullOnly ==
    /\ CollectReady
    /\ bpc' = "write"
    /\ buffers_to_write' = buffers
    /\ buffers' = <<>>
    /\ curr_buff' = buffer1 /\ buffer1' = Null
    /\ IF next_buff = Null THEN next_buff' = buffer2 /\ buffer2' = Null
                           ELSE UNCHANGED <<next_buff, buffer2>>
    /\ UNCHANGED <<running, opc, appended, file, lost>>

CollectNextAlways ==
    /\ CollectReady
    /\ bpc' = "write"
    /\ buffers_to_write' = Append(buffers, curr_buff)
    /\ buffers' = <<>>
    /\ curr_buff' = buffer1 /\ buffer1' = Null
    /\ next_buff' = buffer2 /\ buffer2' = Null
    /\ UNCHANGED <<running, opc, appended, file, lost>>

\* Under the mutex: take every buffer, hand the spare ones out.
Collect ==
    /\ CollectReady
    /\ bpc' = "write"
    /\ buffers_to_write' = Append(buffers, curr_buff)
    /\ buffers' = <<>>
    /\ curr_buff' = buffer1 /\ buffer1' = Null
    /\ IF next_buff = Null THEN next_buff' = buffer2 /\ buffer2' = Null
                           ELSE UNCHANGED <<next_buff, buffer2>>
    /\ UNCHANGED <<running, opc, appended, file, lost>>

Ids(bs) == UNION {{bs[k].lines[j].id : j \in DOMAIN bs[k].lines} : k \in DOMAIN bs}

\* More than MaxBuffers buffers: all but the last two are erased.
Overrun == Len(buffers_to_write) > MaxBuffers
Kept == IF Overrun
        THEN SubSeq(buffers_to_write, Len(buffers_to_write) - 1, Len(buffers_to_write))
        ELSE buffers_to_write

\* How many buffers the two unique_ptrs of the thread still need.
Missing == (IF buffer1 = Null THEN 1 ELSE 0) + (IF buffer2 = Null THEN 1 ELSE 0)

RecycledAsIs == buffers_to_write[1]

Recycled == EmptyBuffer

\* Write, keep two buffers for reuse, take back what the spare pointers need
\* (each behind an assert that a buffer is left) and drop the others.
WriteOut ==
    /\ bpc = "write"
    /\ file' = file \o FlattenSeq([k \in DOMAIN Kept |-> Kept[k].lines])
    /\ lost' = lost \cup (Ids(buffers_to_write) \ Ids(Kept))
    /\ bpc' = IF Len(Kept) >= Missing THEN "test" ELSE "aborted"
    /\ buffer1' = IF buffer1 = Null THEN Recycled ELSE buffer1
    /\ buffer2' = IF buffer2 = Null THEN Recycled ELSE buffer2
    /\ buffers_to_write' = <<>>
    /\ UNCHANGED <<shared, running, opc, appended>>

Background == Entry \/ TestRunning \/ WaitFor \/ Collect \/ WriteOut

\* A failed assertion ends the whole process.
Next ==
    /\ bpc # "aborted"
    /\ LogAppend \/ Start \/ StopClear \/ StopNotify \/ StopJoin \/ Background

\* The background thread runs whenever it can; its wait ends with the timeout
\* at the latest.  stop(), once called, goes on.  Whether anybody appends or
\* calls stop() is left open.
Fairness == WF_vars(Background) /\ WF_vars(StopNotify) /\ WF_vars(StopJoin)

Spec == Init /\ [][Next]_vars

-----------------------------------------------------------------------------
(* The log file has the lines in the order they were appended and none of  *)
(* them twice, though the buffers they travel in are recycled.             *)
InOrder == \A j, k \in DOMAIN file : j < k => file[j].id < file[k].id

(* Every line appended is in the file, in a buffer on its way there, or    *)
(* was discarded by one of the two rules of the code (longer than a        *)
(* buffer; in one of too many buffers).                                    *)
InBuffers == Ids(buffers) \cup Ids(buffers_to_write) \cup Ids(<<curr_buff>>)
NoSilentLoss ==
    1..appended = {file[k].id : k \in DOMAIN file} \cup InBuffers \cup lost

(* The asserts on buffers_to_write hold and append() never meets an empty  *)
(* _curr_buff: the two spare buffers always suffice for the two pointers   *)
(* the producers may have used up.                                         *)
SparesSuffice ==
    /\ TypeOK
    /\ curr_buff # Null
    /\ bpc = "write" => Len(Kept) >= Missing
    /\ bpc \in {"test", "lock", "wait"} => buffer1 # Null /\ buffer2 # Null

(* "assert(_running == true)": the background thread finds the flag set    *)
(* that start() set before creating it.                                    *)
StartedRunning == bpc # "aborted"

(* A line appended while the logger runs is written without further calls: *)
(* as only NumLines are appended, that is, the buffers are empty again and *)
(* again.                                                                  *)
EventuallyWritten == []<>(~running \/ InBuffers = {})

(* stop() returns, unless the assertion at the start of the thread failed. *)
StopReturns == (opc = "stop") ~> (opc = "joined" \/ bpc = "aborted")
=============================================================================
