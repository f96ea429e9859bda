------------------------------- MODULE Queues -------------------------------
(***************************************************************************)
(* The programs whose threads sleep in condition variables, an execution   *)
(* of one of them: main() of blocking_queue.cpp (WorkQueue), the pool of   *)
(* thread_pool.cpp over either of its queues (MpmcPool), or one of the     *)
(* programs of Handshake.  The threads of the programs that do not run are *)
(* ended, or asleep with nobody left to wake them.                         *)
(***************************************************************************)
EXTENDS WorkQueue

CONSTANTS
    Jobs,       \* workers of count_down_latch.cpp
    PoolTasks,  \* tasks submitted to the pool
    Nobody      \* the owner of a free mutex

\* main() of thread_pool.cpp makes a pool of two threads: a pool of one can lose a
\* wakeup.
ASSUME PoolAssumption ==
    /\ PoolTasks \in Nat /\ Nobody \notin Workers
    /\ \E v, w \in Workers : v # w

\* The workers of count_down_latch.cpp are none of the other threads and events.
ASSUME JobsAssumption == "main" \notin Jobs /\ "clean" \notin Jobs

VARIABLES
    program, locks, producer_queue, consumer_queue, consumer_mutex, nonblock,
    sleeping, submitted, client, pc, job, taken, done,      \* MpmcPool
    handshake, happened, at, asleep, notifying              \* Handshake

poolVars == <<locks, producer_queue, consumer_queue, consumer_mutex, nonblock,
              sleeping, submitted, client, pc, job, taken, done>>

Pool == INSTANCE MpmcPool WITH
            NumTasks <- PoolTasks, waiting <- sleeping, mpc <- client, wpc <- pc,
            task <- job

handVars == <<handshake, happened, at, asleep, notifying>>

Hand == INSTANCE Handshake

\* The threads of blocking_queue.cpp, joined.
WorkQueueOver ==
    /\ items = <<>> /\ waiting = {} /\ running = "no" /\ put = NumTasks + NumStop
    /\ mpc = "joined"
    /\ wpc = [w \in Workers |-> "exited"] /\ task = [w \in Workers |-> 0]
    /\ ran = Tasks

\* The threads of the pool, asleep, and no client.
PoolIdle ==
    /\ locks = "one"
    /\ producer_queue = <<>> /\ consumer_queue = <<>>
    /\ consumer_mutex = Nobody /\ nonblock = FALSE /\ sleeping = Workers
    /\ submitted = 0 /\ client = "join"
    /\ pc = [w \in Workers |-> "wait"] /\ job = [w \in Workers |-> 0]
    /\ taken = <<>> /\ done = 1..PoolTasks

\* Threads that have ended.
HandshakeOver ==
    /\ handshake = "data" /\ happened = {"ready", "processed"}
    /\ at = [t \in Hand!AllThreads |-> 3] /\ asleep = {} /\ notifying = {}

QueuesInit ==
    \/ program = "blocking_queue" /\ Init /\ PoolIdle /\ HandshakeOver
    \/ program = "thread_pool" /\ Pool!Init /\ WorkQueueOver /\ HandshakeOver
    \/ program = "handshake" /\ Hand!HandshakeInit /\ WorkQueueOver /\ PoolIdle

HandshakeEnded == (\A t \in Hand!Threads : Hand!Ended(t)) /\ UNCHANGED handVars

QueuesNext ==
    /\ UNCHANGED program
    /\ \/ program = "blocking_queue" /\ Next /\ UNCHANGED <<poolVars, handVars>>
       \/ program = "thread_pool" /\ Pool!Next /\ UNCHANGED <<vars, handVars>>
       \/ /\ program = "handshake" /\ (Hand!HandshakeNext \/ HandshakeEnded)
          /\ UNCHANGED <<vars, poolVars>>

QueuesSpec == /\ QueuesInit /\ [][QueuesNext]_<<program, vars, poolVars, handVars>>
              /\ Fairness /\ Pool!Fairness /\ Hand!HandshakeFairness

-----------------------------------------------------------------------------
\* No worker sleeps in a condition variable beside a task that nobody else will
\* fetch: a notification is on its way, or a thread that is awake comes back to the
\* queue.  In the two-mutex queue the notification may fall between a worker's
\* predicate and its sleep; the mutex of the consumers then leaves another worker
\* awake or asleep to be woken.  No thread of Handshake sleeps through what it waits
\* for, and they never all wait for one another.
NoLostWakeups ==
    /\ program = "blocking_queue" => NoLostWakeup
    /\ program = "thread_pool" => Pool!NoLostWakeup
    /\ program = "handshake" => Hand!NoLostWakeup

\* The tasks of a pool start in the order they were submitted, each exactly once,
\* although they pass through two queues swapped under two different mutexes.
PoolIsFifo == Pool!IsFifo

\* Every submitted task is run in the end, main() of blocking_queue.cpp joins its
\* workers, also those that were asleep or had just read `running' as true, and the
\* threads that wait for each other through latches and flags all come to their end.
TasksRun == Terminates /\ Pool!AllRun /\ Hand!AllEnd
=============================================================================
