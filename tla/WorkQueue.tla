------------------------------ MODULE WorkQueue ------------------------------
(***************************************************************************)
(* BlockingQueue<Functor> of                                               *)
(* books/ldxcfwqbc/02_thread_synchronization/blocking_queue.cpp and the    *)
(* program around it: main() puts tasks, worker threads pop and run them,  *)
(* and main() stops the workers by clearing `running' and putting one more *)
(* task per worker.                                                        *)
(*                                                                         *)
(* A critical section of _mutex is one step.  _cond.wait gives the mutex   *)
(* up and sleeps in one step; put() notifies after it has released the     *)
(* mutex, which is a step of its own; a waiter may wake up spuriously.     *)
(***************************************************************************)
EXTENDS Integers, Sequences, FiniteSets

CONSTANTS
    Workers,    \* the threads of main()'s vector
    NumTasks    \* tasks main() puts before it stops the workers

ASSUME ClientAssumption == IsFiniteSet(Workers) /\ NumTasks \in Nat

VARIABLES
    items,      \* _items, the tasks numbered in the order they are put
    waiting,    \* workers asleep in _cond
    running,    \* the atomic flag
    put,        \* tasks put so far
    mpc,        \* main: "put", "notify", "poll", "stop" or "joined"
    wpc,        \* workers: "test", "pop", "wait", "run" or "exited"
    task,       \* the task a worker has popped
    ran         \* tasks that have been called

vars == <<items, waiting, running, put, mpc, wpc, task, ran>>

NumStop == Cardinality(Workers)     \* the second loop of main()
Tasks == 1 .. NumTasks + NumStop

TypeOK ==
    /\ items \in Seq(Tasks)
    /\ waiting \subseteq Workers
    /\ running \in {"yes", "no"}
    /\ put \in 0 .. NumTasks + NumStop
    /\ mpc \in {"put", "notify", "poll", "stop", "joined"}
    /\ wpc \in [Workers -> {"test", "pop", "wait", "run", "exited"}]
    /\ task \in [Workers -> Tasks \cup {0}]
    /\ ran \subseteq Tasks

Init ==
    /\ items = <<>> /\ waiting = {} /\ running = "yes" /\ put = 0
    /\ mpc = "put"
    /\ wpc = [w \in Workers |-> "test"]
    /\ task = [w \in Workers |-> 0]
    /\ ran = {}

-----------------------------------------------------------------------------
(* main().  Its first loop puts NumTasks tasks, its second NumStop.        *)

Target == IF running = "yes" THEN NumTasks ELSE NumTasks + NumStop

PutItem ==
    /\ mpc = "put" /\ put < Target
    /\ items' = Append(items, put + 1)
    /\ put' = put + 1
    /\ mpc' = "notify"
    /\ UNCHANGED <<waiting, running, wpc, task, ran>>

PutNotifyNobody ==
    /\ mpc = "notify"
    /\ mpc' = "put"
    /\ UNCHANGED <<items, waiting, running, put, wpc, task, ran>>

\* _cond.notify_one() wakes one of the sleeping workers, if there is any.
PutNotify ==
    /\ mpc = "notify"
    /\ IF waiting = {} THEN UNCHANGED <<waiting, wpc>>
       ELSE \E w \in waiting : /\ waiting' = waiting \ {w}
                               /\ wpc' = [wpc EXCEPT ![w] = "pop"]
    /\ mpc' = "put"
    /\ UNCHANGED <<items, running, put, task, ran>>

FirstLoopDone ==
    /\ mpc = "put" /\ running = "yes" /\ put = NumTasks
    /\ mpc' = "poll"
    /\ UNCHANGED <<items, waiting, running, put, wpc, task, ran>>

\* main() sleeps and polls size() until it is 0.
PollEmpty ==
    /\ mpc = "poll" /\ items = <<>>
    /\ mpc' = "stop"
    /\ UNCHANGED <<items, waiting, running, put, wpc, task, ran>>

Stop ==
    /\ mpc = "stop"
    /\ running' = "no"
    /\ mpc' = "put"
    /\ UNCHANGED <<items, waiting, put, wpc, task, ran>>

Join ==
    /\ mpc = "put" /\ running = "no" /\ put = Target
    /\ \A w \in Workers : wpc[w] = "exited"
    /\ mpc' = "joined"
    /\ UNCHANGED <<items, waiting, running, put, wpc, task, ran>>

Main == PutItem \/ PutNotify \/ FirstLoopDone \/ PollEmpty \/ Stop \/ Join

-----------------------------------------------------------------------------
(* worker_thread()                                                         *)

TestRunning(w) ==
    /\ wpc[w] = "test"
    /\ wpc' = [wpc EXCEPT ![w] = IF running = "yes" THEN "pop" ELSE "exited"]
    /\ UNCHANGED <<items, waiting, running, put, mpc, task, ran>>

PopItem(w) ==
    /\ wpc[w] = "pop" /\ items # <<>>
    /\ task' = [task EXCEPT ![w] = Head(items)]
    /\ items' = Tail(items)
    /\ wpc' = [wpc EXCEPT ![w] = "run"]
    /\ UNCHANGED <<waiting, running, put, mpc, ran>>

PopWait(w) ==
    /\ wpc[w] = "pop" /\ items = <<>>
    /\ waiting' = waiting \cup {w}
    /\ wpc' = [wpc EXCEPT ![w] = "wait"]
    /\ UNCHANGED <<items, running, put, mpc, task, ran>>

SpuriousWakeup(w) ==
    /\ w \in waiting
    /\ waiting' = waiting \ {w}
    /\ wpc' = [wpc EXCEPT ![w] = "pop"]
    /\ UNCHANGED <<items, running, put, mpc, task, ran>>

DropWhenStopped(w) ==
    /\ wpc[w] = "run"
    /\ ran' = IF running = "yes" THEN ran \cup {task[w]} ELSE ran
    /\ wpc' = [wpc EXCEPT ![w] = "test"]
    /\ UNCHANGED <<items, waiting, running, put, mpc, task>>

RunTask(w) ==
    /\ wpc[w] = "run"
    /\ ran' = ran \cup {task[w]}
    /\ wpc' = [wpc EXCEPT ![w] = "test"]
    /\ UNCHANGED <<items, waiting, running, put, mpc, task>>

Worker(w) == TestRunning(w) \/ PopItem(w) \/ PopWait(w) \/ RunTask(w)

Terminating == mpc = "joined" /\ UNCHANGED vars

Next ==
    \/ Main
    \/ \E w \in Workers : Worker(w) \/ SpuriousWakeup(w)
    \/ Terminating

\* The OS runs every thread that can run.  A worker contends for _mutex with
\* main() and the other workers for ever only if the mutex is unfair to it,
\* and each of them gives the mutex up and stops sooner or later, so weak
\* fairness is enough.  Nothing is assumed of spurious wakeups.
Fairness == WF_vars(Main) /\ \A w \in Workers : WF_vars(Worker(w))

Spec == Init /\ [][Next]_vars

-----------------------------------------------------------------------------
(* When main() has joined its threads every task of its first loop has     *)
(* been called, although `running' is cleared while workers may still hold *)
(* tasks they popped and have not called.                                  *)
NoTaskLost == mpc = "joined" => 1..NumTasks \subseteq ran

(* A worker asleep in _cond with a task in the queue is never left alone:  *)
(* a notification is on its way, or another worker that is awake will come *)
(* back to the queue.                                                      *)
NoLostWakeup ==
    waiting # {} /\ items # <<>> =>
        \/ mpc = "notify"
        \/ \E w \in Workers : wpc[w] \in {"pop", "run", "test"}

(* Clearing `running' and putting one task per worker stops them all, also *)
(* those that were asleep or had just read `running' as true.              *)
Terminates == <>(mpc = "joined")
=============================================================================
