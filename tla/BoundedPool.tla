----------------------------- MODULE BoundedPool -----------------------------
(***************************************************************************)
(* The bounded ThreadPool of                                               *)
(* books/ldxcfwqbc/04_cpp_multi_threading_programming/thread_pool.cpp: an  *)
(* owner calls start() and stop(), client threads call run(), the pool's   *)
(* threads execute run_in_thread().                                        *)
(*                                                                         *)
(* Each critical section of _mutex is one step, which ends with the thread *)
(* asleep in a condition variable or with the mutex released.  _running is *)
(* an atomic that stop() clears outside the mutex, so it may change        *)
(* between any two steps.                                                  *)
(***************************************************************************)
EXTENDS Integers, Sequences, FiniteSets

CONSTANTS
    Workers,    \* threads start() may create
    Clients,    \* threads that call run()
    NumCalls,   \* calls of run() each client makes
    MaxSize,    \* _max_size
    NoTask      \* an empty std::function

ASSUME PoolAssumption ==
    /\ IsFiniteSet(Workers)
    /\ NumCalls \in Nat
    /\ MaxSize \in Nat \ {0}
    /\ NoTask \notin Clients \X (1..NumCalls)

VARIABLES
    threads,      \* _threads: the workers that start() created
    running,      \* _running
    tasks,        \* _tasks
    not_empty,    \* workers asleep in _not_empty
    not_full,     \* clients asleep in _not_full
    opc,          \* owner: "new", "started", "notify", "join", "stopped"
    cpc, calls,   \* clients: where they are in run(), calls begun before
    wpc, task,    \* workers: where they are, what get_task() returned
    accepted,     \* tasks that run() queued
    ran           \* tasks that were called

vars == <<threads, running, tasks, not_empty, not_full, opc, cpc, calls, wpc, task,
          accepted, ran>>

Task == Clients \X (1..NumCalls)

TypeOK ==
    /\ threads \subseteq Workers
    /\ running \in BOOLEAN
    /\ tasks \in Seq(Task)
    /\ not_empty \subseteq Workers /\ not_full \subseteq Clients
    /\ opc \in {"new", "started", "notify", "join", "stopped"}
    /\ cpc \in [Clients -> {"call", "wait", "notify"}]
    /\ calls \in [Clients -> 1 .. NumCalls + 1]
    /\ wpc \in [Workers -> {"test", "get", "wait", "check", "run", "exited"}]
    /\ task \in [Workers -> Task \cup {NoTask}]
    /\ accepted \subseteq Task /\ ran \subseteq Task

Init ==
    /\ threads = {} /\ running = FALSE /\ tasks = <<>>
    /\ not_empty = {} /\ not_full = {}
    /\ opc = "new"
    /\ cpc = [c \in Clients |-> "call"] /\ calls = [c \in Clients |-> 1]
    /\ wpc = [w \in Workers |-> "test"] /\ task = [w \in Workers |-> NoTask]
    /\ accepted = {} /\ ran = {}

-----------------------------------------------------------------------------
(* The owner.                                                              *)

\* start(num_threads); with 0 threads there will be nobody to wake.
Start ==
    /\ opc = "new"
    /\ opc' = "started"
    /\ running' = TRUE
    /\ threads' \in SUBSET Workers
    /\ UNCHANGED <<tasks, not_empty, not_full, cpc, calls, wpc, task, accepted, ran>>

StopClear ==
    /\ opc = "started"
    /\ opc' = "notify"
    /\ running' = FALSE
    /\ UNCHANGED <<threads, tasks, not_empty, not_full, cpc, calls, wpc, task, accepted, ran>>

StopWakeWorkers ==
    /\ opc = "notify"
    /\ opc' = "join"
    /\ not_empty' = {}
    /\ wpc' = [w \in Workers |-> IF w \in not_empty THEN "get" ELSE wpc[w]]
    /\ UNCHANGED <<threads, running, tasks, not_full, cpc, calls, task, accepted, ran>>

StopWakeClients ==
    /\ opc = "notify"
    /\ opc' = "join"
    /\ not_full' = {}
    /\ cpc' = [c \in Clients |-> IF c \in not_full THEN "call" ELSE cpc[c]]
    /\ UNCHANGED <<threads, running, tasks, not_empty, wpc, calls, task, accepted, ran>>

\* notify_all on both condition variables, under the mutex.
StopNotify ==
    /\ opc = "notify"
    /\ opc' = "join"
    /\ not_empty' = {} /\ not_full' = {}
    /\ wpc' = [w \in Workers |-> IF w \in not_empty THEN "get" ELSE wpc[w]]
    /\ cpc' = [c \in Clients |-> IF c \in not_full THEN "call" ELSE cpc[c]]
    /\ UNCHANGED <<threads, running, tasks, calls, task, accepted, ran>>

StopJoin ==
    /\ opc = "join"
    /\ \A w \in threads : wpc[w] = "exited"
    /\ opc' = "stopped"
    /\ UNCHANGED <<threads, running, tasks, not_empty, not_full, cpc, calls, wpc, task,
                   accepted, ran>>

Owner == Start \/ StopClear \/ StopNotify \/ StopJoin

-----------------------------------------------------------------------------
(* run()                                                                   *)

CanCall(c) == opc # "new" /\ cpc[c] = "call" /\ calls[c] <= NumCalls

\* The client's current call returns.
Return(c, at) == cpc' = [cpc EXCEPT ![c] = at] /\ calls' = [calls EXCEPT ![c] = @ + 1]

\* A pool without threads calls the task at once.
RunInline(c) ==
    /\ CanCall(c) /\ threads = {}
    /\ Return(c, "call")
    /\ ran' = ran \cup {<<c, calls[c]>>}
    /\ UNCHANGED <<threads, running, tasks, not_empty, not_full, opc, wpc, task, accepted>>

is_fullLate == Len(tasks) = MaxSize + 1

is_full == Len(tasks) = MaxSize

RunWait(c) ==
    /\ CanCall(c) /\ threads # {}
    /\ is_full /\ running
    /\ not_full' = not_full \cup {c}
    /\ cpc' = [cpc EXCEPT ![c] = "wait"]
    /\ UNCHANGED <<threads, running, tasks, not_empty, opc, calls, wpc, task, accepted, ran>>

RunRefused(c) ==
    /\ CanCall(c) /\ threads # {}
    /\ ~running
    /\ Return(c, "call")
    /\ UNCHANGED <<threads, running, tasks, not_empty, not_full, opc, wpc, task, accepted, ran>>

RunQueue(c) ==
    /\ CanCall(c) /\ threads # {}
    /\ running /\ ~is_full
    /\ tasks' = Append(tasks, <<c, calls[c]>>)
    /\ accepted' = accepted \cup {<<c, calls[c]>>}
    /\ Return(c, "notify")
    /\ UNCHANGED <<threads, running, not_empty, not_full, opc, wpc, task, ran>>

RunNotifyNobody(c) ==
    /\ cpc[c] = "notify"
    /\ cpc' = [cpc EXCEPT ![c] = "call"]
    /\ UNCHANGED <<threads, running, tasks, not_empty, not_full, opc, calls, wpc, task,
                   accepted, ran>>

\* _not_empty.notify_one(), after the mutex is released.
RunNotify(c) ==
    /\ cpc[c] = "notify"
    /\ cpc' = [cpc EXCEPT ![c] = "call"]
    /\ IF not_empty = {} THEN UNCHANGED <<not_empty, wpc>>
       ELSE \E w \in not_empty : /\ not_empty' = not_empty \ {w}
                                 /\ wpc' = [wpc EXCEPT ![w] = "get"]
    /\ UNCHANGED <<threads, running, tasks, not_full, opc, calls, task, accepted, ran>>

SpuriousClient(c) ==
    /\ c \in not_full
    /\ not_full' = not_full \ {c}
    /\ cpc' = [cpc EXCEPT ![c] = "call"]
    /\ UNCHANGED <<threads, running, tasks, not_empty, opc, calls, wpc, task, accepted, ran>>

Client(c) == RunInline(c) \/ RunWait(c) \/ RunRefused(c) \/ RunQueue(c) \/ RunNotify(c)

-----------------------------------------------------------------------------
(* run_in_thread() and get_task()                                          *)

TestRunning(w) ==
    /\ w \in threads /\ wpc[w] = "test"
    /\ wpc' = [wpc EXCEPT ![w] = IF running THEN "get" ELSE "exited"]
    /\ UNCHANGED <<threads, running, tasks, not_empty, not_full, opc, cpc, calls, task,
                   accepted, ran>>

GetWait(w) ==
    /\ wpc[w] = "get"
    /\ tasks = <<>> /\ running
    /\ not_empty' = not_empty \cup {w}
    /\ wpc' = [wpc EXCEPT ![w] = "wait"]
    /\ UNCHANGED <<threads, running, tasks, not_full, opc, cpc, calls, task, accepted, ran>>

GetNothing(w) ==
    /\ wpc[w] = "get"
    /\ tasks = <<>> /\ ~running
    /\ task' = [task EXCEPT ![w] = NoTask]
    /\ wpc' = [wpc EXCEPT ![w] = "check"]
    /\ UNCHANGED <<threads, running, tasks, not_empty, not_full, opc, cpc, calls, accepted, ran>>

GetTask(w) ==
    /\ wpc[w] = "get"
    /\ tasks # <<>>
    /\ task' = [task EXCEPT ![w] = Head(tasks)]
    /\ tasks' = Tail(tasks)
    /\ wpc' = [wpc EXCEPT ![w] = "check"]
    /\ IF not_full = {} THEN UNCHANGED <<not_full, cpc>>
       ELSE \E c \in not_full : /\ not_full' = not_full \ {c}
                                /\ cpc' = [cpc EXCEPT ![c] = "call"]
    /\ UNCHANGED <<threads, running, not_empty, opc, calls, accepted, ran>>

SpuriousWorker(w) ==
    /\ w \in not_empty
    /\ not_empty' = not_empty \ {w}
    /\ wpc' = [wpc EXCEPT ![w] = "get"]
    /\ UNCHANGED <<threads, running, tasks, not_full, opc, cpc, calls, task, accepted, ran>>

\* A worker that finds the pool stopped leaves with the task it has taken.
CheckRunning(w) ==
    /\ wpc[w] = "check"
    /\ wpc' = [wpc EXCEPT ![w] = IF ~running THEN "exited"
                                 ELSE IF task[w] # NoTask THEN "run" ELSE "test"]
    /\ UNCHANGED <<threads, running, tasks, not_empty, not_full, opc, cpc, calls, task,
                   accepted, ran>>

RunForget(w) ==
    /\ wpc[w] = "run"
    /\ wpc' = [wpc EXCEPT ![w] = "test"]
    /\ UNCHANGED <<threads, running, tasks, not_empty, not_full, opc, cpc, calls, task,
                   accepted, ran>>

RunTask(w) ==
    /\ wpc[w] = "run"
    /\ ran' = ran \cup {task[w]}
    /\ wpc' = [wpc EXCEPT ![w] = "test"]
    /\ UNCHANGED <<threads, running, tasks, not_empty, not_full, opc, cpc, calls, task, accepted>>

Worker(w) ==
    TestRunning(w) \/ GetWait(w) \/ GetNothing(w) \/ GetTask(w) \/ CheckRunning(w) \/ RunTask(w)

Next ==
    \/ Owner
    \/ \E c \in Clients : Client(c) \/ SpuriousClient(c)
    \/ \E w \in Workers : Worker(w) \/ SpuriousWorker(w)

\* Every thread that can run runs.  StopClear is the owner's free choice and
\* gets no fairness: a pool may serve for ever.
Fairness ==
    /\ WF_vars(Start) /\ WF_vars(StopNotify) /\ WF_vars(StopJoin)
    /\ \A c \in Clients : SF_vars(Client(c))
    /\ \A w \in Workers : SF_vars(Worker(w))

Spec == Init /\ [][Next]_vars
FairSpec == Spec /\ Fairness

-----------------------------------------------------------------------------
(* The queue never grows beyond _max_size, although is_full() tests for    *)
(* equality only and several clients pass it one after the other.          *)
QueueBounded == Len(tasks) <= MaxSize

Queued(t) == \E k \in 1..Len(tasks) : tasks[k] = t
Held(t) == \E w \in Workers : wpc[w] \in {"check", "run"} /\ task[w] = t

(* A task that run() accepted is in the queue, in the hands of a worker or *)
(* has been called; after stop() it may also have been dropped, one at     *)
(* most by each worker, the one it held when it left.                      *)
Accounted ==
    \A t \in accepted :
        \/ Queued(t) \/ Held(t) \/ t \in ran
        \/ ~running /\ \E w \in threads : wpc[w] = "exited" /\ task[w] = t

(* stop() returns: every worker leaves, whether it was asleep, in a task   *)
(* or on its way to sleep when _running was cleared.                       *)
StopReturns == (opc = "notify") ~> (opc = "stopped")

(* No client is left blocked in run(), stopped pool or not.                *)
ClientsReturn == <>(\A c \in Clients : calls[c] = NumCalls + 1)

(* A pool that is not stopped calls every task it accepted.                *)
ServesAll == \A t \in Task : (t \in accepted) ~> (t \in ran \/ ~running)
=============================================================================
