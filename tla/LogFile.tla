------------------------------ MODULE LogFile ------------------------------
(***************************************************************************)
(* The rotating log file of books/ldxcfwqbc/05_logger/logging/LogFile.h    *)
(* and LogFile.cpp.                                                        *)
(*                                                                         *)
(* append() and flush() are atomic: the caller is the only thread, or the  *)
(* optional mutex is held.  A file name is the second it was made in (the  *)
(* base name and the pid never change).  The clock may move in every step, *)
(* also between the two readings of one append(): the first reading is     *)
(* clock, the second clock'.  With clock_steps it may move backwards.  A   *)
(* chunk that fwrite() refuses counts as missing from the file even if a   *)
(* part of it was written.                                                 *)
(***************************************************************************)
EXTENDS Integers, Sequences, SequencesExt

CONSTANTS
    NumChunks,      \* chunks appended (a bound on the run)
    MaxLen,         \* longest chunk
    RotateSize,     \* _rotate_size
    FlushInterval,  \* _flush_interval, in seconds
    CheckTime,      \* CHECK_TIME_ROTATE: 1024
    PeriodSecs,     \* ROTATE_PER_SECONDS: one day
    Ticks,          \* readings of system_clock in a second
    MaxTime         \* last reading (a bound on the run)

VARIABLES
    clock_steps,    \* may system_clock be set back in this execution?
    clock,          \* system_clock::now()
    filename, last_rotate, last_flush, start_of_period, count,
    bytes,          \* _file->_bytes_written
    buffered,       \* chunks in the stdio buffer of _file
    disk,           \* the chunks every file holds on disk
    appended,       \* number of chunks appended
    refused,        \* chunks whose fwrite() failed
    overdue         \* appends in a row made while a rotation or flush was due

times == <<last_rotate, last_flush, start_of_period>>
vars == <<clock_steps, clock, filename, times, count, bytes, buffered, disk, appended, refused, overdue>>

Sec(t) == t \div Ticks                                   \* to_time_t
Period(t) == (Sec(t) \div PeriodSecs) * PeriodSecs
get_log_filename(t) == Sec(t)
Names == 0 .. Sec(MaxTime)
Chunk == [id : 1..NumChunks, len : 1..MaxLen]

TypeOK ==
    /\ clock_steps \in BOOLEAN
    /\ clock \in 1..MaxTime
    /\ filename \in Names
    /\ last_rotate \in 0..MaxTime /\ last_flush \in 0..MaxTime
    /\ start_of_period \in Names
    /\ count \in 0 .. CheckTime + 1
    /\ bytes \in 0 .. NumChunks * MaxLen
    /\ buffered \in Seq(Chunk)
    /\ disk \in [Names -> Seq(Chunk)]
    /\ appended \in 0..NumChunks /\ refused \subseteq 1..NumChunks
    /\ overdue \in Nat

ClockMoves ==
    /\ clock' \in {t \in 1..MaxTime : clock_steps \/ t >= clock}
    /\ UNCHANGED clock_steps

\* The constructor: rotate_file() with _last_rotate at the epoch and no name.
Init ==
    /\ clock_steps \in BOOLEAN
    /\ clock \in 1..MaxTime
    /\ filename = get_log_filename(clock)
    /\ last_rotate = clock /\ last_flush = clock
    /\ start_of_period = Period(clock)
    /\ count = 0 /\ bytes = 0 /\ buffered = <<>>
    /\ disk = [s \in Names |-> <<>>]
    /\ appended = 0 /\ refused = {} /\ overdue = 0

-----------------------------------------------------------------------------
CanRotateAnyTime(t) == get_log_filename(t) # filename
CanRotateSameName(t) == t > last_rotate

\* rotate_file() changes the file only for a later time with another name.
CanRotate(t) == t > last_rotate /\ get_log_filename(t) # filename

\* reset_file(): the new file is opened, then the old one flushed and closed.
Rotate(t, fresh) ==
    /\ filename' = get_log_filename(t)
    /\ last_rotate' = t /\ last_flush' = t /\ start_of_period' = Period(t)
    /\ disk' = [disk EXCEPT ![filename] = @ \o fresh]
    /\ buffered' = <<>> /\ bytes' = 0

Keep(fresh, size) ==
    /\ buffered' = fresh /\ bytes' = size
    /\ UNCHANGED <<filename, times, disk>>

rotate_file(t, fresh, size) ==
    \/ CanRotate(t) /\ Rotate(t, fresh)
    \/ ~CanRotate(t) /\ Keep(fresh, size)

FlushDue(t) == Sec(t) - Sec(last_flush) > FlushInterval

\* _last_flush = now; _file->flush()
FlushNow(t, fresh, size) ==
    /\ last_flush' = t
    /\ disk' = [disk EXCEPT ![filename] = @ \o fresh]
    /\ buffered' = <<>> /\ bytes' = size
    /\ UNCHANGED <<filename, last_rotate, start_of_period>>

\* The clock is looked at once in CheckTime + 2 appends.
TimeCheck(fresh, size) ==
    /\ count > CheckTime
    /\ count' = 0
    /\ \/ Period(clock) # start_of_period /\ rotate_file(clock', fresh, size)
       \/ Period(clock) = start_of_period /\ FlushDue(clock) /\ FlushNow(clock, fresh, size)
       \/ Period(clock) = start_of_period /\ ~FlushDue(clock) /\ Keep(fresh, size)

NoCheckForgotten(fresh, size) ==
    /\ count <= CheckTime
    /\ UNCHANGED count
    /\ Keep(fresh, size)

NoCheck(fresh, size) ==
    /\ count <= CheckTime
    /\ count' = count + 1
    /\ Keep(fresh, size)

\* append_unlocked(), after the chunk has gone to the file.
Settle(fresh, size) ==
    \/ size > RotateSize /\ rotate_file(clock', fresh, size) /\ UNCHANGED count
    \/ size <= RotateSize /\ (TimeCheck(fresh, size) \/ NoCheck(fresh, size))

\* File::append() adds to _bytes_written whether or not fwrite() failed.  An
\* empty chunk leaves nothing in the file.
FileAppend(len, ok) ==
    LET chunk == [id |-> appended + 1, len |-> len]
    IN  /\ refused' = IF ok \/ len = 0 THEN refused ELSE refused \cup {chunk.id}
        /\ appended' = IF len = 0 THEN appended ELSE chunk.id
        /\ Settle(IF ok /\ len # 0 THEN Append(buffered, chunk) ELSE buffered, bytes + len)

Due == Period(clock) # start_of_period \/ FlushDue(clock)

append(len, ok) ==
    /\ ClockMoves
    /\ FileAppend(len, ok)
    /\ overdue' = IF Due /\ UNCHANGED <<last_rotate, last_flush>> THEN overdue + 1 ELSE 0

\* stdio empties its buffer by itself, oldest chunks first, when it is full.
StdioWrites ==
    /\ ClockMoves
    /\ \E k \in 1..Len(buffered) :
         /\ disk' = [disk EXCEPT ![filename] = @ \o SubSeq(buffered, 1, k)]
         /\ buffered' = SubSeq(buffered, k + 1, Len(buffered))
    /\ UNCHANGED <<filename, times, count, bytes, appended, refused, overdue>>

FlushForgotten ==
    /\ ClockMoves
    /\ UNCHANGED <<filename, times, count, bytes, buffered, disk, appended, refused, overdue>>

\* flush() does not touch _last_flush.
flush ==
    /\ ClockMoves
    /\ disk' = [disk EXCEPT ![filename] = @ \o buffered]
    /\ buffered' = <<>>
    /\ UNCHANGED <<filename, times, count, bytes, appended, refused, overdue>>

\* The caller may rotate whenever it wants to.
RotateFile ==
    /\ ClockMoves
    /\ rotate_file(clock', buffered, bytes)
    /\ UNCHANGED <<count, appended, refused>>
    /\ overdue' = IF UNCHANGED last_rotate THEN overdue ELSE 0

\* Any caller: NumChunks chunks that are not empty.
Next ==
    \/ appended < NumChunks /\ \E len \in 1..MaxLen, ok \in BOOLEAN : append(len, ok)
    \/ StdioWrites \/ flush \/ RotateFile

-----------------------------------------------------------------------------
(* At every moment the files on disk, read in the order of their names,    *)
(* hold a prefix of what was appended (but for what fwrite() refused), and *)
(* the stdio buffer holds the rest: rotation never loses or reorders a     *)
(* line, whatever the clock does, and a crash costs at most the buffer.    *)
Ids(chunks) == [k \in DOMAIN chunks |-> chunks[k].id]
Accepted(n, without) ==
    LET first[k \in 0..n] == IF k = 0 THEN <<>>
                             ELSE IF k \in without THEN first[k - 1]
                             ELSE Append(first[k - 1], k)
    IN  first[n]
OnDisk == FlattenSeq([k \in 1 .. Sec(MaxTime) + 1 |-> disk[k - 1]])
PrefixOnDisk == TypeOK /\ Ids(OnDisk \o buffered) = Accepted(appended, refused)

(* _bytes_written covers all the current file holds: a file of the same    *)
(* name is never opened again with its counter at zero.                    *)
Size(chunks) ==
    LET sum[k \in 0..Len(chunks)] == IF k = 0 THEN 0 ELSE sum[k - 1] + chunks[k].len
    IN  sum[Len(chunks)]
BytesCoverFile == Size(disk[filename] \o buffered) <= bytes

(* While the clock is not set back, a new period or a stale buffer is      *)
(* noticed after at most CheckTime + 1 further appends.                    *)
ServicedInTime == ~clock_steps => overdue <= CheckTime + 1
=============================================================================
