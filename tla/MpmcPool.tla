------------------------------ MODULE MpmcPool ------------------------------
(***************************************************************************)
(* The ThreadPool of cpp/cpp_coding/thread_pool/thread_pool.cpp over its   *)
(* two blocking queues: MPMCBlockingQUeue (locks = "two": producers and    *)
(* consumers have a queue and a mutex each, and a consumer swaps the       *)
(* queues when its own is empty) and SPMCBlockingQueue (locks = "one").    *)
(*                                                                         *)
(* A pop() holds the consumers' mutex over several steps, because its      *)
(* predicate takes the producers' mutex, loads _nonblock and only then     *)
(* falls asleep.  With two mutexes push() and cancel() may run between     *)
(* these steps; with one they may not.                                     *)
(***************************************************************************)
EXTENDS Integers, Sequences

CONSTANTS
    Workers,    \* the threads of the pool
    NumTasks,   \* tasks the client submits
    Nobody      \* the owner of a free mutex

VARIABLES
    locks,                           \* "two" or "one": which queue the pool uses
    producer_queue, consumer_queue,  \* _producer_queue, _consumer_queue (or _queue)
    consumer_mutex,                  \* owner of _consumer_mutex (or _mutex)
    nonblock,                        \* _nonblock
    waiting,                         \* workers asleep in _not_empty
    submitted,                       \* tasks submitted so far, numbered 1, 2, ...
    mpc,                             \* client: "submit" or "join"
    wpc,                             \* workers
    task,                            \* the task a worker has popped
    taken,                           \* tasks popped, in order
    done                             \* tasks that have run

vars == <<locks, producer_queue, consumer_queue, consumer_mutex, nonblock, waiting,
          submitted, mpc, wpc, task, taken, done>>

Tasks == 1..NumTasks

TypeOK ==
    /\ locks \in {"one", "two"}
    /\ producer_queue \in Seq(Tasks) /\ consumer_queue \in Seq(Tasks)
    /\ consumer_mutex \in Workers \cup {Nobody}
    /\ nonblock \in BOOLEAN
    /\ waiting \subseteq Workers
    /\ submitted \in 0..NumTasks
    /\ mpc \in {"submit", "join"}
    /\ wpc \in [Workers -> {"lock", "swap", "load", "sleep", "wait", "take", "run"}]
    /\ task \in [Workers -> Tasks \cup {0}]
    /\ taken \in Seq(Tasks) /\ done \subseteq Tasks

Init ==
    /\ locks \in {"one", "two"}
    /\ producer_queue = <<>> /\ consumer_queue = <<>>
    /\ consumer_mutex = Nobody /\ nonblock = FALSE /\ waiting = {}
    /\ submitted = 0 /\ mpc = "submit"
    /\ wpc = [w \in Workers |-> "lock"]
    /\ task = [w \in Workers |-> 0]
    /\ taken = <<>> /\ done = {}

-----------------------------------------------------------------------------
(* The client's calls, each one critical section.                          *)

PushLock == locks = "two" \/ consumer_mutex = Nobody

\* _not_empty.notify_one()
NotifyOne ==
    IF waiting = {} THEN UNCHANGED <<waiting, wpc>>
    ELSE \E w \in waiting : /\ waiting' = waiting \ {w}
                            /\ wpc' = [wpc EXCEPT ![w] = "lock"]

Submit ==
    /\ mpc = "submit" /\ submitted < NumTasks
    /\ PushLock
    /\ submitted' = submitted + 1
    /\ IF locks = "two"
       THEN producer_queue' = Append(producer_queue, submitted') /\ UNCHANGED consumer_queue
       ELSE consumer_queue' = Append(consumer_queue, submitted') /\ UNCHANGED producer_queue
    /\ NotifyOne
    /\ UNCHANGED <<locks, consumer_mutex, nonblock, mpc, task, taken, done>>

\* join_all(): cancel() and then join threads that never exit.
Cancel ==
    /\ mpc = "submit" /\ submitted = NumTasks
    /\ PushLock
    /\ nonblock' = TRUE
    /\ waiting' = {}
    /\ wpc' = [w \in Workers |-> IF w \in waiting THEN "lock" ELSE wpc[w]]
    /\ mpc' = "join"
    /\ UNCHANGED <<locks, producer_queue, consumer_queue, consumer_mutex, submitted, task, taken, done>>

-----------------------------------------------------------------------------
(* worker(): pop() and run, for ever.                                      *)

LockSwapAlways(w) ==
    /\ wpc[w] = "lock" /\ consumer_mutex = Nobody
    /\ consumer_mutex' = w
    /\ wpc' = [wpc EXCEPT ![w] = IF locks = "two" THEN "swap" ELSE "load"]
    /\ UNCHANGED <<locks, producer_queue, consumer_queue, nonblock, waiting, submitted, mpc, task, taken, done>>

Lock(w) ==
    /\ wpc[w] = "lock" /\ consumer_mutex = Nobody
    /\ consumer_mutex' = w
    /\ wpc' = [wpc EXCEPT ![w] = IF consumer_queue # <<>> THEN "take"
                                 ELSE IF locks = "two" THEN "swap" ELSE "load"]
    /\ UNCHANGED <<locks, producer_queue, consumer_queue, nonblock, waiting, submitted, mpc, task, taken, done>>

\* swap_queue(), under the producers' mutex.
SwapQueue(w) ==
    /\ wpc[w] = "swap"
    /\ producer_queue' = consumer_queue
    /\ consumer_queue' = producer_queue
    /\ wpc' = [wpc EXCEPT ![w] = IF producer_queue # <<>> THEN "take" ELSE "load"]
    /\ UNCHANGED <<locks, consumer_mutex, nonblock, waiting, submitted, mpc, task, taken, done>>

LoadNonblock(w) ==
    /\ wpc[w] = "load"
    /\ wpc' = [wpc EXCEPT ![w] = IF nonblock THEN "take" ELSE "sleep"]
    /\ UNCHANGED <<locks, producer_queue, consumer_queue, consumer_mutex, nonblock, waiting,
                   submitted, mpc, task, taken, done>>

\* wait() gives the mutex up and sleeps.
Sleep(w) ==
    /\ wpc[w] = "sleep"
    /\ consumer_mutex' = Nobody
    /\ waiting' = waiting \cup {w}
    /\ wpc' = [wpc EXCEPT ![w] = "wait"]
    /\ UNCHANGED <<locks, producer_queue, consumer_queue, nonblock, submitted, mpc, task, taken, done>>

SpuriousWakeup(w) ==
    /\ w \in waiting
    /\ waiting' = waiting \ {w}
    /\ wpc' = [wpc EXCEPT ![w] = "lock"]
    /\ UNCHANGED <<locks, producer_queue, consumer_queue, consumer_mutex, nonblock,
                   submitted, mpc, task, taken, done>>

\* Woken by cancel() with nothing to do, pop() returns false and the worker
\* calls it again.
Take(w) ==
    /\ wpc[w] = "take"
    /\ consumer_mutex' = Nobody
    /\ IF consumer_queue = <<>>
       THEN wpc' = [wpc EXCEPT ![w] = "lock"] /\ UNCHANGED <<consumer_queue, task, taken>>
       ELSE /\ wpc' = [wpc EXCEPT ![w] = "run"]
            /\ task' = [task EXCEPT ![w] = Head(consumer_queue)]
            /\ taken' = Append(taken, Head(consumer_queue))
            /\ consumer_queue' = Tail(consumer_queue)
    /\ UNCHANGED <<locks, producer_queue, nonblock, waiting, submitted, mpc, done>>

Run(w) ==
    /\ wpc[w] = "run"
    /\ done' = done \cup {task[w]}
    /\ wpc' = [wpc EXCEPT ![w] = "lock"]
    /\ UNCHANGED <<locks, producer_queue, consumer_queue, consumer_mutex, nonblock, waiting,
                   submitted, mpc, task, taken>>

InPop(w) == SwapQueue(w) \/ LoadNonblock(w) \/ Sleep(w) \/ Take(w) \/ Run(w)

Next ==
    \/ Submit \/ Cancel
    \/ \E w \in Workers : Lock(w) \/ InPop(w) \/ SpuriousWakeup(w)

\* Threads that can run do run, and a thread that keeps asking for a mutex
\* which is released again and again gets it.
Fairness ==
    /\ SF_vars(Submit \/ Cancel)
    /\ \A w \in Workers : SF_vars(Lock(w)) /\ WF_vars(InPop(w))


-----------------------------------------------------------------------------
(* Tasks start in the order they were submitted, each once, although they  *)
(* pass through two queues that are swapped under two different mutexes.   *)
Fifo == INSTANCE BoundedFifo WITH
            Elements <- Tasks, Bound <- NumTasks,
            sent <- [k \in 1..submitted |-> k], rcvd <- taken
IsFifo == Fifo!FifoSpec

(* The workers are never all asleep while a task is queued.  With one      *)
(* mutex that is what the mutex is for.  With two, push() and cancel() can *)
(* fall between a worker's predicate and its sleep and wake nobody; but    *)
(* that worker holds _consumer_mutex, so any other worker is either asleep *)
(* already and gets the notification, or awake and finds the task.  A pool *)
(* of two workers is safe for that reason; a pool of one is not.           *)
NoLostWakeup ==
    /\ TypeOK
    /\ waiting = Workers => producer_queue = <<>> /\ consumer_queue = <<>>

(* Every submitted task runs: cancel() does not discard what is queued.    *)
AllRun == <>(done = Tasks)
=============================================================================
