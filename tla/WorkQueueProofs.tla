-------------------------- MODULE WorkQueueProofs ---------------------------
(***************************************************************************)
(* The blocking queue and the pools, for every set of workers and every    *)
(* number of tasks: no task of the first loop of main() is lost when the   *)
(* workers are stopped, no worker sleeps with work and nobody to wake it,  *)
(* and the pool takes its tasks in the order they were submitted in.       *)
(*                                                                         *)
(* NoTaskLost speaks of the last state only.  The induction keeps track of *)
(* where each task is (Located), of what main() learnt when size() was 0   *)
(* (Phases), and of the workers asleep (Asleep), which is what keeps a     *)
(* notification from disturbing a worker that holds a task.                *)
(*                                                                         *)
(* The wakeups of WorkQueue are counted: while a worker sleeps, there are  *)
(* no more tasks than workers that are about to take one and notifications *)
(* about to be sent (Wakeups).  In MpmcPool a worker may go to sleep after *)
(* its predicate has become true (Missed); then another one is not asleep. *)
(* In Handshake an event is followed by a notification of all who share    *)
(* the condition variable (Wanting), and what a thread has been through    *)
(* has happened (Passed), so that the one that waits for the least can go. *)
(***************************************************************************)
EXTENDS Queues, SequenceLemmas, FiniteSetTheorems, TLAPS

Queued(t) == Among(items, t)
Held(t) == \E w \in Workers : wpc[w] = "run" /\ task[w] = t

Located == \A t \in 1..NumTasks : t <= put => Queued(t) \/ Held(t) \/ t \in ran

Asleep == \A w \in waiting : wpc[w] = "wait"

Hands == \A w \in Workers : wpc[w] = "run" => task[w] # 0

Phases ==
    /\ mpc = "poll" => put = NumTasks
    /\ mpc = "stop" \/ running = "no" => put >= NumTasks /\ \A t \in 1..NumTasks : ~Queued(t)
    /\ mpc = "joined" => running = "no" /\ \A w \in Workers : wpc[w] = "exited"
    /\ running = "yes" => put <= NumTasks

IInv == TypeOK /\ Located /\ Asleep /\ Hands /\ Phases

\* The number of tasks of the second loop is a number.
LEMMA NumStopNat == NumStop \in Nat
BY ClientAssumption, FS_CardinalityType DEF NumStop

-----------------------------------------------------------------------------
\* The invariant holds before the first thread runs.
LEMMA InitIInv == Init => IInv
BY NumStopNat, ClientAssumption
DEF Init, IInv, TypeOK, Located, Asleep, Hands, Phases, Queued, Among, Held, Tasks

\* main()'s steps move no task but the one they put.
LEMMA MainIInv == IInv /\ Main => IInv'
<1> SUFFICES ASSUME IInv, Main PROVE IInv'
  OBVIOUS
<1> USE NumStopNat, ClientAssumption
<1>0. TypeOK /\ Located /\ Asleep /\ Hands /\ Phases
  BY DEF IInv
<1>1. CASE PutItem
  <2> USE <1>1 DEF PutItem
  <2>1. put + 1 \in Tasks /\ items \in Seq(Tasks)
    BY <1>0 DEF Target, Tasks, TypeOK
  <2>2. TypeOK'
    BY <1>0, <2>1 DEF TypeOK, Tasks
  <2>3. \A t : Queued(t)' <=> Queued(t) \/ t = put + 1
    BY <2>1, AmongAppend DEF Queued
  <2>4. \A t : Held(t)' <=> Held(t)
    BY DEF Held
  <2>5. Located'
    BY <1>0, <2>3, <2>4 DEF Located, TypeOK
  <2>6. Phases'
    BY <1>0, <2>3 DEF Phases, Target, TypeOK
  <2> QED
    BY <1>0, <2>2, <2>5, <2>6 DEF IInv, Asleep, Hands
<1>2. CASE PutNotify
  <2> USE <1>2 DEF PutNotify
  <2>1. \A w \in Workers : wpc[w] = "run" <=> wpc'[w] = "run"
    BY <1>0 DEF TypeOK, Asleep, Hands
  <2>2. TypeOK' /\ Asleep' /\ Hands'
    BY <1>0 DEF TypeOK, Asleep, Hands
  <2>3. \A t : (Queued(t)' <=> Queued(t)) /\ (Held(t)' <=> Held(t))
    BY <2>1 DEF Queued, Held
  <2>4. Located'
    BY <1>0, <2>3 DEF Located
  <2>5. Phases'
    BY <1>0, <2>3 DEF Phases
  <2> QED
    BY <2>2, <2>4, <2>5 DEF IInv
<1>3. CASE FirstLoopDone
  BY <1>0, <1>3 DEF FirstLoopDone, IInv, TypeOK, Located, Asleep, Hands, Phases, Queued, Held
<1>4. CASE PollEmpty
  <2>1. \A t : ~Queued(t)
    BY <1>4 DEF PollEmpty, Queued, Among
  <2> QED
    BY <1>0, <1>4, <2>1 DEF PollEmpty, IInv, TypeOK, Located, Asleep, Hands, Phases, Queued, Held
<1>5. CASE Stop
  BY <1>0, <1>5 DEF Stop, IInv, TypeOK, Located, Asleep, Hands, Phases, Queued, Held
<1>6. CASE Join
  BY <1>0, <1>6 DEF Join, IInv, TypeOK, Located, Asleep, Hands, Phases, Queued, Held
<1> QED
  BY <1>1, <1>2, <1>3, <1>4, <1>5, <1>6 DEF Main

\* A worker's step moves one task along: from the queue into its hands, from
\* its hands to the tasks called.
LEMMA WorkerIInv ==
    ASSUME IInv, NEW w \in Workers, Worker(w) \/ SpuriousWakeup(w)
    PROVE  IInv'
<1> USE NumStopNat, ClientAssumption
<1>0. TypeOK /\ Located /\ Asleep /\ Hands /\ Phases
  BY DEF IInv
<1>a. ASSUME wpc[w] \notin {"run", "exited"}, wpc'[w] # "run",
             wpc' = [wpc EXCEPT ![w] = wpc'[w]],
             UNCHANGED <<items, running, put, mpc, task, ran>>
      PROVE  Located' /\ Phases'
  <2>1. \A t : (Queued(t)' <=> Queued(t)) /\ (Held(t)' <=> Held(t))
    BY <1>0, <1>a DEF Queued, Held, TypeOK
  <2>2. mpc # "joined"
    BY <1>0, <1>a DEF Phases
  <2> QED
    BY <1>0, <1>a, <2>1, <2>2 DEF Located, Phases
<1>1. CASE TestRunning(w)
  <2> USE <1>1 DEF TestRunning
  <2>1. TypeOK' /\ Asleep' /\ Hands'
    BY <1>0 DEF TypeOK, Asleep, Hands
  <2>2. Located' /\ Phases'
    BY <1>0, <1>a DEF TypeOK
  <2> QED
    BY <2>1, <2>2 DEF IInv
<1>2. CASE PopItem(w)
  <2> USE <1>2 DEF PopItem
  <2>1. items \in Seq(Tasks)
    BY <1>0 DEF TypeOK
  <2>2. Head(items) \in Tasks /\ items' \in Seq(Tasks)
    BY <2>1, TailType
  <2>8. Head(items) # 0
    BY <2>2 DEF Tasks
  <2>3. TypeOK' /\ Asleep' /\ Hands'
    BY <1>0, <2>2, <2>8 DEF TypeOK, Asleep, Hands
  <2>4. ASSUME NEW t PROVE /\ Queued(t) => Queued(t)' \/ t = Head(items)
                           /\ Queued(t)' => Queued(t)
    BY <2>1, AmongTail DEF Queued
  <2>5. ASSUME NEW t, Held(t) \/ t = Head(items) PROVE Held(t)'
    BY <2>5, <1>0 DEF Held, TypeOK
  <2>6. Located'
    BY <1>0, <2>4, <2>5 DEF Located
  <2>7. Phases'
    BY <1>0, <2>4 DEF Phases, TypeOK
  <2> QED
    BY <2>3, <2>6, <2>7 DEF IInv
<1>3. CASE PopWait(w)
  <2> USE <1>3 DEF PopWait
  <2>1. TypeOK' /\ Asleep' /\ Hands'
    BY <1>0 DEF TypeOK, Asleep, Hands
  <2>2. Located' /\ Phases'
    BY <1>0, <1>a DEF TypeOK
  <2> QED
    BY <2>1, <2>2 DEF IInv
<1>4. CASE RunTask(w)
  <2> USE <1>4 DEF RunTask
  <2>1. task[w] \in Tasks \cup {0}
    BY <1>0 DEF TypeOK
  <2>2. task[w] # 0
    BY <1>0 DEF Hands
  <2>3. TypeOK' /\ Asleep' /\ Hands'
    BY <1>0, <2>1, <2>2 DEF TypeOK, Asleep, Hands
  <2>4. \A t : (Queued(t)' <=> Queued(t)) /\ (Held(t) => Held(t)' \/ t \in ran')
    BY <1>0 DEF Queued, Held, TypeOK
  <2>5. Located'
    BY <1>0, <2>4 DEF Located
  <2>6. Phases'
    BY <1>0, <2>4 DEF Phases, TypeOK
  <2> QED
    BY <2>3, <2>5, <2>6 DEF IInv
<1>5. CASE SpuriousWakeup(w)
  <2> USE <1>5 DEF SpuriousWakeup
  <2>1. TypeOK' /\ Asleep' /\ Hands'
    BY <1>0 DEF TypeOK, Asleep, Hands
  <2>2. Located' /\ Phases'
    BY <1>0, <1>a DEF TypeOK, Asleep, Hands
  <2> QED
    BY <2>1, <2>2 DEF IInv
<1> QED
  BY <1>1, <1>2, <1>3, <1>4, <1>5 DEF Worker

\* No step of the program leaves the invariant.
LEMMA NextIInv == IInv /\ [Next]_vars => IInv'
<1> SUFFICES ASSUME IInv, [Next]_vars PROVE IInv'
  OBVIOUS
<1>1. CASE UNCHANGED vars
  BY <1>1 DEF vars, IInv, TypeOK, Located, Asleep, Hands, Phases, Queued, Held
<1> QED
  BY <1>1, MainIInv, WorkerIInv DEF Next, Terminating

\* IInv is an inductive invariant of the program.
THEOREM Invariance == Spec => []IInv
BY InitIInv, NextIInv, PTL DEF Spec

\* Queue, flags and program counters keep their types.
THEOREM TypeCorrect == Spec => []TypeOK
<1>1. IInv => TypeOK
  BY DEF IInv
<1> QED
  BY Invariance, <1>1, PTL

\* However many workers there are and wherever they were when `running' was
\* cleared, every task of the first loop has been called when main() returns.
THEOREM StopLosesNothing == Spec => []NoTaskLost
<1>1. IInv => NoTaskLost
  <2> SUFFICES ASSUME IInv, mpc = "joined", NEW t \in 1..NumTasks PROVE t \in ran
    BY DEF NoTaskLost
  <2>1. put >= NumTasks /\ ~Queued(t) /\ ~Held(t) /\ put \in Nat
    BY NumStopNat, ClientAssumption DEF IInv, TypeOK, Phases, Held
  <2> QED
    BY <2>1, ClientAssumption DEF IInv, Located
<1> QED
  BY Invariance, <1>1, PTL

-----------------------------------------------------------------------------
(* Wakeups of blocking_queue.cpp.                                          *)

\* The workers that are on their way to the queue.
Popping == { w \in Workers : wpc[w] = "pop" }

\* While a worker sleeps there are no more tasks in the queue than workers on their
\* way to it and notifications on theirs.
Wakeups ==
    waiting # {} => Len(items) <= Cardinality(Popping) + (IF mpc = "notify" THEN 1 ELSE 0)

\* One worker more or less is on its way.
LEMMA PoppingCount ==
    ASSUME NEW w \in Workers
    PROVE  /\ IsFiniteSet(Popping) /\ Cardinality(Popping) \in Nat
           /\ IsFiniteSet(Popping')
           /\ Popping' = Popping \cup {w} /\ w \notin Popping =>
                 Cardinality(Popping') = Cardinality(Popping) + 1
           /\ Popping' = Popping \ {w} /\ w \in Popping =>
                 Cardinality(Popping') = Cardinality(Popping) - 1
<1>1. IsFiniteSet(Popping) /\ IsFiniteSet(Popping')
  <2>1. Popping \subseteq Workers /\ Popping' \subseteq Workers
    BY DEF Popping
  <2> QED BY <2>1, ClientAssumption, FS_Subset
<1>2. Cardinality(Popping) \in Nat
  BY <1>1, FS_CardinalityType
<1>3. ASSUME Popping' = Popping \cup {w}, w \notin Popping
      PROVE  Cardinality(Popping') = Cardinality(Popping) + 1
  BY <1>1, <1>3, FS_AddElement
<1>4. ASSUME Popping' = Popping \ {w}, w \in Popping
      PROVE  Cardinality(Popping') = Cardinality(Popping) - 1
  BY <1>1, <1>4, FS_RemoveElement
<1> QED BY <1>1, <1>2, <1>3, <1>4

\* A task is put before its notification, a worker falls asleep only beside an empty
\* queue, and one that leaves for the queue takes one task from it.
LEMMA WakeupsKept == IInv /\ Wakeups /\ [Next]_vars => Wakeups'
<1> SUFFICES ASSUME IInv, Wakeups, [Next]_vars, waiting' # {}
             PROVE  Len(items') <= Cardinality(Popping') + (IF mpc' = "notify" THEN 1 ELSE 0)
  BY DEF Wakeups
<1>0. TypeOK /\ Asleep /\ items \in Seq(Tasks) /\ Len(items) \in Nat
  BY DEF IInv, TypeOK
<1>00. PICK v \in Workers : TRUE
  BY PoolAssumption
<1>01. Cardinality(Popping) \in Nat
  BY <1>00, PoppingCount
<1>02. CASE UNCHANGED <<waiting, items, wpc>> /\ (mpc = "notify" => mpc' = "notify")
  <2>1. Popping' = Popping
    BY <1>02 DEF Popping
  <2> QED BY <1>0, <1>01, <1>02, <2>1 DEF Wakeups
<1>1. CASE PutItem
  <2>1. Popping' = Popping /\ UNCHANGED waiting /\ mpc # "notify" /\ mpc' = "notify"
    BY <1>1 DEF PutItem, Popping
  <2>2. Len(items') = Len(items) + 1
    <3>1. put + 1 \in Tasks
      BY <1>0, <1>1, NumStopNat, ClientAssumption DEF PutItem, Target, Tasks, TypeOK
    <3> QED BY <1>0, <1>1, <3>1 DEF PutItem
  <2> QED BY <1>0, <1>01, <2>1, <2>2 DEF Wakeups
<1>2. CASE PutNotify
  <2>1. waiting # {} /\ mpc = "notify" /\ mpc' # "notify" /\ items' = items
    BY <1>2 DEF PutNotify
  <2>2. PICK w \in waiting : wpc' = [wpc EXCEPT ![w] = "pop"]
    BY <1>2, <2>1 DEF PutNotify
  <2>3. w \in Workers /\ w \notin Popping /\ Popping' = Popping \cup {w}
    BY <1>0, <2>2 DEF TypeOK, Asleep, Popping
  <2>4. Cardinality(Popping') = Cardinality(Popping) + 1
    BY <2>3, PoppingCount
  <2> QED BY <1>0, <1>01, <2>1, <2>4 DEF Wakeups
<1>3. ASSUME NEW w \in Workers, TestRunning(w)
      PROVE  Len(items') <= Cardinality(Popping') + (IF mpc' = "notify" THEN 1 ELSE 0)
  <2>1. UNCHANGED <<items, waiting, mpc>>
    BY <1>3 DEF TestRunning
  <2>2. w \notin Popping /\ Popping' \in {Popping, Popping \cup {w}}
    BY <1>0, <1>3 DEF TestRunning, TypeOK, Popping
  <2>3. Cardinality(Popping') \in {Cardinality(Popping), Cardinality(Popping) + 1}
    BY <2>2, PoppingCount
  <2> QED BY <1>0, <1>01, <2>1, <2>3 DEF Wakeups
<1>4. ASSUME NEW w \in Workers, PopItem(w)
      PROVE  Len(items') <= Cardinality(Popping') + (IF mpc' = "notify" THEN 1 ELSE 0)
  <2>1. UNCHANGED <<waiting, mpc>> /\ Len(items') = Len(items) - 1
    BY <1>0, <1>4, TailType DEF PopItem
  <2>2. w \in Popping /\ Popping' = Popping \ {w}
    BY <1>0, <1>4 DEF PopItem, TypeOK, Popping
  <2>3. Cardinality(Popping') = Cardinality(Popping) - 1
    BY <2>2, PoppingCount
  <2> QED BY <1>0, <1>01, <2>1, <2>3 DEF Wakeups
<1>5. ASSUME NEW w \in Workers, PopWait(w)
      PROVE  Len(items') <= Cardinality(Popping') + (IF mpc' = "notify" THEN 1 ELSE 0)
  <2>1. Len(items') = 0
    BY <1>5 DEF PopWait
  <2>2. Cardinality(Popping') \in Nat
    BY <1>00, PoppingCount, FS_CardinalityType
  <2> QED BY <2>1, <2>2
<1>6. ASSUME NEW w \in Workers, RunTask(w)
      PROVE  Len(items') <= Cardinality(Popping') + (IF mpc' = "notify" THEN 1 ELSE 0)
  <2>1. Popping' = Popping /\ UNCHANGED <<items, waiting, mpc>>
    BY <1>0, <1>6 DEF RunTask, TypeOK, Popping
  <2> QED BY <1>0, <1>01, <2>1 DEF Wakeups
<1>7. ASSUME NEW w \in Workers, SpuriousWakeup(w)
      PROVE  Len(items') <= Cardinality(Popping') + (IF mpc' = "notify" THEN 1 ELSE 0)
  <2>1. UNCHANGED <<items, mpc>> /\ waiting # {}
    BY <1>7 DEF SpuriousWakeup
  <2>2. w \notin Popping /\ Popping' = Popping \cup {w}
    BY <1>0, <1>7 DEF SpuriousWakeup, TypeOK, Asleep, Popping
  <2>3. Cardinality(Popping') = Cardinality(Popping) + 1
    BY <2>2, PoppingCount
  <2> QED BY <1>0, <1>01, <2>1, <2>3 DEF Wakeups
<1>8. CASE Join \/ FirstLoopDone \/ PollEmpty \/ Stop \/ Terminating \/ UNCHANGED vars
  BY <1>02, <1>8 DEF Join, FirstLoopDone, PollEmpty, Stop, Terminating, vars
<1> QED
  BY <1>1, <1>2, <1>3, <1>4, <1>5, <1>6, <1>7, <1>8 DEF Next, Main, Worker

-----------------------------------------------------------------------------
(* The pool of thread_pool.cpp.                                            *)

InPop == {"swap", "load", "sleep", "take"}

\* pop() runs under the consumers' mutex, and beyond its first test with an empty
\* queue of the consumers.
Guarded ==
    \A w \in Workers :
        /\ w \in sleeping => pc[w] = "wait"
        /\ pc[w] \in InPop => consumer_mutex = w
        /\ pc[w] \in {"swap", "load", "sleep"} => consumer_queue = <<>>
        /\ pc[w] = "run" => job[w] \in Pool!Tasks

\* With two mutexes, a task that came after a worker's predicate finds another one
\* awake.
Missed ==
    \A w \in Workers :
        pc[w] \in {"load", "sleep"} /\ producer_queue # <<>> =>
            \E v \in Workers : v # w /\ v \notin sleeping

\* The tasks that were taken, then those of the consumers' queue, then those of the
\* producers', are 1, 2, ...
Numbered ==
    /\ submitted = Len(taken) + Len(consumer_queue) + Len(producer_queue)
    /\ \A k \in 1..Len(taken) : taken[k] = k
    /\ \A k \in 1..Len(consumer_queue) : consumer_queue[k] = Len(taken) + k
    /\ \A k \in 1..Len(producer_queue) :
          producer_queue[k] = Len(taken) + Len(consumer_queue) + k

PoolInv ==
    /\ Pool!NoLostWakeup
    /\ Guarded /\ Missed /\ Numbered
    /\ locks = "one" => producer_queue = <<>>

\* No thread of a new pool is asleep.
LEMMA PoolInit == Pool!Init => PoolInv
<1> SUFFICES ASSUME Pool!Init PROVE PoolInv
  OBVIOUS
<1>1. <<>> \in Seq(Pool!Tasks) /\ Len(<<>>) = 0
  OBVIOUS
<1>2. Pool!TypeOK
  <2>1. submitted \in 0..PoolTasks /\ consumer_mutex \in Workers \cup {Nobody}
    BY PoolAssumption DEF Pool!Init
  <2>2. /\ pc \in [Workers -> {"lock", "swap", "load", "sleep", "wait", "take", "run"}]
        /\ job \in [Workers -> Pool!Tasks \cup {0}]
    BY DEF Pool!Init
  <2>3. sleeping \subseteq Workers /\ done \subseteq Pool!Tasks /\ nonblock \in BOOLEAN
    BY DEF Pool!Init
  <2> QED BY <1>1, <2>1, <2>2, <2>3, Zenon DEF Pool!Init, Pool!TypeOK
<1>3. Guarded /\ Missed /\ sleeping # Workers
  BY PoolAssumption DEF Pool!Init, Guarded, Missed, InPop
<1>4. Numbered
  BY <1>1 DEF Pool!Init, Numbered
<1> QED
  BY <1>2, <1>3, <1>4 DEF Pool!Init, PoolInv, Pool!NoLostWakeup

\* Tasks are put at the end of a queue, with somebody to take them.
LEMMA SubmitKeeps == PoolInv /\ Pool!Submit => PoolInv'
<1> SUFFICES ASSUME PoolInv, Pool!Submit PROVE PoolInv'
  OBVIOUS
<1>0. Pool!TypeOK /\ Guarded /\ Missed /\ Numbered /\ (locks = "one" => producer_queue = <<>>)
  BY DEF PoolInv, Pool!NoLostWakeup
<1>00. producer_queue \in Seq(Pool!Tasks) /\ consumer_queue \in Seq(Pool!Tasks) /\ taken \in Seq(Pool!Tasks)
  BY <1>0 DEF Pool!TypeOK
<1>1. submitted \in Nat /\ submitted' = submitted + 1 /\ submitted' \in Pool!Tasks
  BY <1>0, PoolAssumption DEF Pool!Submit, Pool!TypeOK, Pool!Tasks
<1>2. /\ UNCHANGED <<locks, consumer_mutex, nonblock, client, job, taken, done>>
      /\ \/ /\ locks = "two" /\ UNCHANGED consumer_queue
            /\ producer_queue' = Append(producer_queue, submitted')
         \/ /\ locks = "one" /\ consumer_mutex = Nobody /\ UNCHANGED producer_queue
            /\ consumer_queue' = Append(consumer_queue, submitted')
  BY <1>0 DEF Pool!Submit, Pool!PushLock, Pool!TypeOK
<1>3. \/ sleeping = {} /\ UNCHANGED <<sleeping, pc>>
      \/ \E w \in sleeping : sleeping' = sleeping \ {w} /\ pc' = [pc EXCEPT ![w] = "lock"]
  BY DEF Pool!Submit, Pool!NotifyOne
<1>4. producer_queue' \in Seq(Pool!Tasks) /\ consumer_queue' \in Seq(Pool!Tasks)
  <2>1. /\ Append(producer_queue, submitted') \in Seq(Pool!Tasks)
        /\ Append(consumer_queue, submitted') \in Seq(Pool!Tasks)
    BY <1>00, <1>1, AppendType
  <2> QED BY <1>00, <1>2, <2>1, Zenon
<1>5. Pool!TypeOK'
  <2>1. submitted' \in 0..PoolTasks
    BY <1>1 DEF Pool!Tasks
  <2>2. sleeping' \subseteq Workers
    BY <1>0, <1>3 DEF Pool!TypeOK
  <2>3. pc' \in [Workers -> {"lock", "swap", "load", "sleep", "wait", "take", "run"}]
    BY <1>0, <1>3 DEF Pool!TypeOK
  <2> QED BY <1>0, <1>2, <1>4, <2>1, <2>2, <2>3, Zenon DEF Pool!TypeOK, Pool!Tasks
<1>6. \A w \in Workers : w \in sleeping' => pc'[w] = "wait"
  BY <1>0, <1>3 DEF Pool!TypeOK, Guarded
<1>7. \A w \in Workers : pc'[w] # "lock" => pc'[w] = pc[w]
  BY <1>0, <1>3 DEF Pool!TypeOK
<1>8. Guarded'
  BY <1>0, <1>2, <1>6, <1>7, PoolAssumption DEF Guarded, InPop
<1>9. Missed'
  <2> SUFFICES ASSUME NEW w \in Workers, pc'[w] \in {"load", "sleep"}
               PROVE  \E v \in Workers : v # w /\ v \notin sleeping'
    BY DEF Missed
  <2>1. CASE sleeping' = {}
    BY <2>1, PoolAssumption
  <2>2. CASE sleeping' # {}
    <3>1. PICK v \in sleeping : sleeping' = sleeping \ {v} /\ pc' = [pc EXCEPT ![v] = "lock"]
      BY <1>3, <2>2
    <3>2. v \in Workers /\ v # w
      BY <3>1, <1>0 DEF Pool!TypeOK
    <3> QED BY <3>1, <3>2
  <2> QED BY <2>1, <2>2
<1>10. Numbered'
  <2> DEFINE e == submitted'
  <2>0. PICK T : T = Pool!Tasks
    OBVIOUS
  <2>00. producer_queue \in Seq(T) /\ consumer_queue \in Seq(T) /\ taken \in Seq(T) /\ e \in T
    BY <1>00, <1>1, <2>0, Zenon
  <2>1. CASE locks = "two"
    <3>1. producer_queue' = Append(producer_queue, e) /\ UNCHANGED <<consumer_queue, taken>>
      BY <1>2, <2>1
    <3>2. /\ Len(producer_queue') = Len(producer_queue) + 1
          /\ producer_queue'[Len(producer_queue) + 1] = e
          /\ \A k \in 1..Len(producer_queue) : producer_queue'[k] = producer_queue[k]
      BY <2>00, <3>1
    <3>3. Len(producer_queue) \in Nat /\ Len(consumer_queue) \in Nat /\ Len(taken) \in Nat
      BY <2>00
    <3>5. submitted' = e
      OBVIOUS
    <3> HIDE DEF e
    <3>4. e = Len(taken) + Len(consumer_queue) + Len(producer_queue) + 1
      BY <1>0, <1>1, <3>5 DEF Numbered
    <3>6. ASSUME NEW k \in 1..Len(producer_queue')
          PROVE  producer_queue'[k] = Len(taken) + Len(consumer_queue) + k
      <4>1. k \in 1..Len(producer_queue) \/ k = Len(producer_queue) + 1
        BY <3>2, <3>3
      <4>2. CASE k \in 1..Len(producer_queue)
        BY <1>0, <3>2, <4>2 DEF Numbered
      <4>3. CASE k = Len(producer_queue) + 1
        BY <3>2, <3>3, <3>4, <4>3
      <4> QED BY <4>1, <4>2, <4>3
    <3>8. /\ submitted' = Len(taken') + Len(consumer_queue') + Len(producer_queue')
          /\ \A k \in 1..Len(taken') : taken'[k] = k
      BY <1>0, <3>1, <3>2, <3>3, <3>4, <3>5 DEF Numbered
    <3>9. \A k \in 1..Len(consumer_queue') : consumer_queue'[k] = Len(taken') + k
      BY <1>0, <3>1 DEF Numbered
    <3>10. \A k \in 1..Len(producer_queue') :
              producer_queue'[k] = Len(taken') + Len(consumer_queue') + k
      BY <3>1, <3>6
    <3> QED BY <3>8, <3>9, <3>10 DEF Numbered
  <2>2. CASE locks = "one"
    <3>1. /\ consumer_queue' = Append(consumer_queue, e) /\ UNCHANGED <<producer_queue, taken>>
          /\ producer_queue = <<>>
      BY <1>0, <1>2, <2>2
    <3>2. /\ Len(consumer_queue') = Len(consumer_queue) + 1
          /\ consumer_queue'[Len(consumer_queue) + 1] = e
          /\ \A k \in 1..Len(consumer_queue) : consumer_queue'[k] = consumer_queue[k]
      BY <2>00, <3>1
    <3>3. Len(producer_queue) \in Nat /\ Len(consumer_queue) \in Nat /\ Len(taken) \in Nat
      BY <2>00
    <3>5. submitted' = e
      OBVIOUS
    <3> HIDE DEF e
    <3>4. e = Len(taken) + Len(consumer_queue) + Len(producer_queue) + 1
      BY <1>0, <1>1, <3>5 DEF Numbered
    <3>7. Len(producer_queue) = 0
      BY <3>1
    <3>6. ASSUME NEW k \in 1..Len(consumer_queue') PROVE consumer_queue'[k] = Len(taken) + k
      <4>1. k \in 1..Len(consumer_queue) \/ k = Len(consumer_queue) + 1
        BY <3>2, <3>3
      <4> QED BY <1>0, <3>2, <3>3, <3>4, <3>7, <4>1 DEF Numbered
    <3>8. /\ submitted' = Len(taken') + Len(consumer_queue') + Len(producer_queue')
          /\ \A k \in 1..Len(taken') : taken'[k] = k
      BY <1>0, <3>1, <3>2, <3>3, <3>4, <3>5 DEF Numbered
    <3>9. \A k \in 1..Len(consumer_queue') : consumer_queue'[k] = Len(taken') + k
      BY <3>1, <3>6
    <3>10. \A k \in 1..Len(producer_queue') :
              producer_queue'[k] = Len(taken') + Len(consumer_queue') + k
      BY <3>1, <3>7
    <3> QED BY <3>8, <3>9, <3>10 DEF Numbered
  <2> QED BY <1>2, <2>1, <2>2
<1>11. sleeping' # Workers
  BY <1>0, <1>3, PoolAssumption DEF Pool!TypeOK
<1> QED BY <1>0, <1>2, <1>5, <1>8, <1>9, <1>10, <1>11 DEF PoolInv, Pool!NoLostWakeup

\* cancel() wakes everybody.
LEMMA CancelKeeps == PoolInv /\ Pool!Cancel => PoolInv'
<1> SUFFICES ASSUME PoolInv, Pool!Cancel PROVE PoolInv'
  OBVIOUS
<1>0. Pool!TypeOK /\ Guarded /\ Missed /\ Numbered /\ (locks = "one" => producer_queue = <<>>)
  BY DEF PoolInv, Pool!NoLostWakeup
<1>1. /\ sleeping' = {} /\ nonblock' = TRUE /\ client' = "join"
      /\ pc' = [w \in Workers |-> IF w \in sleeping THEN "lock" ELSE pc[w]]
      /\ UNCHANGED <<locks, producer_queue, consumer_queue, consumer_mutex, submitted, job,
                     taken, done>>
  BY DEF Pool!Cancel
<1>2. pc' \in [Workers -> {"lock", "swap", "load", "sleep", "wait", "take", "run"}]
  BY <1>0, <1>1 DEF Pool!TypeOK
<1>3. Pool!TypeOK'
  BY <1>0, <1>1, <1>2 DEF Pool!TypeOK, Pool!Tasks
<1>4. Guarded'
  BY <1>0, <1>1 DEF Guarded, InPop
<1>5. Missed' /\ sleeping' # Workers
  BY <1>1, PoolAssumption DEF Missed
<1>6. Numbered'
  BY <1>0, <1>1 DEF Numbered
<1> QED BY <1>0, <1>1, <1>3, <1>4, <1>5, <1>6 DEF PoolInv, Pool!NoLostWakeup

\* A step of a worker that leaves the queues alone, and takes the mutex, keeps it or
\* gives it up.
Quiet(w) ==
    /\ UNCHANGED <<locks, producer_queue, consumer_queue, nonblock, submitted, client, job, taken>>
    /\ pc' = [pc EXCEPT ![w] = pc'[w]]
    /\ \/ UNCHANGED consumer_mutex /\ pc'[w] \in InPop /\ pc[w] \in InPop
       \/ UNCHANGED consumer_mutex /\ pc'[w] \notin InPop
       \/ consumer_mutex = Nobody /\ consumer_mutex' = w /\ pc'[w] \in InPop
       \/ consumer_mutex = w /\ consumer_mutex' = Nobody /\ pc'[w] \notin InPop
    /\ pc'[w] \in {"swap", "load", "sleep"} => consumer_queue = <<>>
    /\ pc'[w] \in {"load", "sleep"} => producer_queue = <<>> \/ pc[w] \in {"load", "sleep"}

\* Such a step keeps the invariant if the worker does not fall asleep.
LEMMA QuietKeeps ==
    ASSUME NEW w \in Workers, PoolInv, Quiet(w), sleeping' \in SUBSET sleeping,
           w \notin sleeping', done' \subseteq Pool!Tasks,
           pc'[w] \in {"lock", "swap", "load", "sleep", "take"}
    PROVE  PoolInv'
<1>0. Pool!TypeOK /\ Guarded /\ Missed /\ Numbered /\ (locks = "one" => producer_queue = <<>>)
  BY DEF PoolInv, Pool!NoLostWakeup
<1>1. UNCHANGED <<locks, producer_queue, consumer_queue, nonblock, submitted, client, job, taken>>
  BY DEF Quiet
<1>2. /\ pc' \in [Workers -> {"lock", "swap", "load", "sleep", "wait", "take", "run"}]
      /\ consumer_mutex' \in Workers \cup {Nobody}
      /\ \A v \in Workers : v # w => pc'[v] = pc[v]
  BY <1>0 DEF Pool!TypeOK, Quiet
<1>3. Pool!TypeOK'
  BY <1>0, <1>1, <1>2 DEF Pool!TypeOK, Pool!Tasks
<1>4. Guarded'
  <2> SUFFICES ASSUME NEW v \in Workers
               PROVE  /\ v \in sleeping' => pc'[v] = "wait"
                      /\ pc'[v] \in InPop => consumer_mutex' = v
                      /\ pc'[v] \in {"swap", "load", "sleep"} => consumer_queue' = <<>>
                      /\ pc'[v] = "run" => job'[v] \in Pool!Tasks
    BY DEF Guarded, Pool!Tasks
  <2>1. CASE v = w
    BY <1>0, <2>1 DEF Quiet, Guarded
  <2>2. CASE v # w
    BY <1>0, <1>2, <2>2, PoolAssumption DEF Quiet, Guarded
  <2> QED BY <2>1, <2>2
<1>5. Missed'
  BY <1>0, <1>1, <1>2 DEF Missed, Quiet
<1>6. Numbered'
  BY <1>0, <1>1 DEF Numbered
<1>7. sleeping' # Workers
  OBVIOUS
<1> QED BY <1>0, <1>1, <1>3, <1>4, <1>5, <1>6, <1>7 DEF PoolInv, Pool!NoLostWakeup

\* What a worker does between two tasks, asleep at the end of it or not, and in what
\* order it takes the tasks.
LEMMA PoolWorkerKeeps ==
    ASSUME NEW w \in Workers, PoolInv, Pool!Lock(w) \/ Pool!InPop(w) \/ Pool!SpuriousWakeup(w)
    PROVE  PoolInv'
<1>0. Pool!TypeOK /\ Guarded /\ Missed /\ Numbered /\ (locks = "one" => producer_queue = <<>>)
  BY DEF PoolInv, Pool!NoLostWakeup
<1>00. /\ producer_queue \in Seq(Pool!Tasks) /\ consumer_queue \in Seq(Pool!Tasks)
       /\ taken \in Seq(Pool!Tasks) /\ job \in [Workers -> Pool!Tasks \cup {0}]
       /\ pc \in [Workers -> {"lock", "swap", "load", "sleep", "wait", "take", "run"}]
       /\ done \subseteq Pool!Tasks /\ locks \in {"one", "two"}
  BY <1>0 DEF Pool!TypeOK
<1>1. CASE Pool!Lock(w)
  <2>1. Quiet(w) /\ UNCHANGED <<sleeping, done>>
    BY <1>0, <1>00, <1>1 DEF Pool!Lock, Quiet, InPop
  <2>2. pc[w] = "lock" /\ pc'[w] \in {"lock", "swap", "load", "sleep", "take"}
    BY <1>00, <1>1 DEF Pool!Lock
  <2>3. w \notin sleeping
    BY <1>0, <2>2 DEF Guarded
  <2> QED BY <1>00, <2>1, <2>2, <2>3, QuietKeeps
<1>2. CASE Pool!LoadNonblock(w)
  <2>1. Quiet(w) /\ UNCHANGED <<sleeping, done>>
    BY <1>0, <1>00, <1>2 DEF Pool!LoadNonblock, Quiet, InPop, Guarded
  <2>2. pc[w] = "load" /\ pc'[w] \in {"lock", "swap", "load", "sleep", "take"}
    BY <1>00, <1>2 DEF Pool!LoadNonblock
  <2>3. w \notin sleeping
    BY <1>0, <2>2 DEF Guarded
  <2> QED BY <1>00, <2>1, <2>2, <2>3, QuietKeeps
<1>3. CASE Pool!Run(w)
  <2>1. Quiet(w) /\ UNCHANGED sleeping
    BY <1>0, <1>00, <1>3 DEF Pool!Run, Quiet, InPop
  <2>2. pc[w] = "run" /\ pc'[w] \in {"lock", "swap", "load", "sleep", "take"}
    BY <1>00, <1>3 DEF Pool!Run
  <2>3. w \notin sleeping
    BY <1>0, <2>2 DEF Guarded
  <2>4. done' \subseteq Pool!Tasks
    BY <1>0, <1>00, <1>3 DEF Pool!Run, Guarded
  <2> QED BY <2>1, <2>2, <2>3, <2>4, QuietKeeps
<1>4. CASE Pool!SpuriousWakeup(w)
  <2>1. Quiet(w) /\ sleeping' = sleeping \ {w} /\ UNCHANGED done
    BY <1>0, <1>00, <1>4 DEF Pool!SpuriousWakeup, Quiet, InPop
  <2>2. pc'[w] \in {"lock", "swap", "load", "sleep", "take"}
    BY <1>00, <1>4 DEF Pool!SpuriousWakeup
  <2> QED BY <1>00, <2>1, <2>2, QuietKeeps
<1>5. CASE Pool!Take(w) /\ consumer_queue = <<>>
  <2>1. Quiet(w) /\ UNCHANGED <<sleeping, done>>
    BY <1>0, <1>00, <1>5 DEF Pool!Take, Quiet, InPop, Guarded
  <2>2. pc[w] = "take" /\ pc'[w] \in {"lock", "swap", "load", "sleep", "take"}
    BY <1>00, <1>5 DEF Pool!Take
  <2>3. w \notin sleeping
    BY <1>0, <2>2 DEF Guarded
  <2> QED BY <1>00, <2>1, <2>2, <2>3, QuietKeeps
<1>6. CASE Pool!Take(w) /\ consumer_queue # <<>>
  <2>1. /\ pc[w] = "take" /\ consumer_mutex' = Nobody /\ pc' = [pc EXCEPT ![w] = "run"]
        /\ job' = [job EXCEPT ![w] = Head(consumer_queue)]
        /\ taken' = Append(taken, Head(consumer_queue)) /\ consumer_queue' = Tail(consumer_queue)
        /\ UNCHANGED <<locks, producer_queue, nonblock, sleeping, submitted, client, done>>
    BY <1>6 DEF Pool!Take
  <2>2. /\ consumer_queue' \in Seq(Pool!Tasks) /\ taken' \in Seq(Pool!Tasks)
        /\ Head(consumer_queue) \in Pool!Tasks
    BY <1>00, <1>6, <2>1, TailType, AppendType
  <2>3. Pool!TypeOK'
    <3>1. /\ pc' \in [Workers -> {"lock", "swap", "load", "sleep", "wait", "take", "run"}]
          /\ job' \in [Workers -> Pool!Tasks \cup {0}]
      BY <1>00, <2>1, <2>2
    <3> QED BY <1>0, <2>1, <2>2, <3>1 DEF Pool!TypeOK, Pool!Tasks
  <2>4. \A v \in Workers : v # w => pc'[v] = pc[v] /\ pc[v] \notin InPop
    BY <1>0, <1>00, <2>1 DEF Guarded, InPop
  <2>5. w \notin sleeping /\ pc'[w] = "run"
    BY <1>0, <1>00, <2>1 DEF Guarded
  <2>8. job'[w] \in Pool!Tasks /\ \A v \in Workers : v # w => job'[v] = job[v]
    BY <1>00, <2>1, <2>2
  <2>6. Guarded' /\ Missed'
    BY <1>0, <2>1, <2>4, <2>5, <2>8 DEF Guarded, Missed, InPop, Pool!Tasks
  <2>7. Numbered'
    <3> DEFINE e == Head(consumer_queue)
    <3>1. /\ Len(taken) \in Nat /\ Len(consumer_queue) \in Nat \ {0} /\ Len(producer_queue) \in Nat
          /\ Len(taken') = Len(taken) + 1 /\ Len(consumer_queue') = Len(consumer_queue) - 1
      BY <1>00, <1>6, <2>1, TailType, AppendType
    <3>2. /\ e = consumer_queue[1] /\ \A k \in 1..Len(consumer_queue') : consumer_queue'[k] = consumer_queue[k + 1]
      BY <1>00, <1>6, <2>1
    <3>3. taken'[Len(taken) + 1] = e /\ \A k \in 1..Len(taken) : taken'[k] = taken[k]
      BY <1>00, <2>1, <2>2
    <3> HIDE DEF e
    <3>4. e = Len(taken) + 1
      BY <1>0, <3>1, <3>2 DEF Numbered
    <3>5. submitted' = Len(taken') + Len(consumer_queue') + Len(producer_queue')
      BY <1>0, <2>1, <3>1 DEF Numbered
    <3>6. ASSUME NEW k \in 1..Len(taken') PROVE taken'[k] = k
      <4>1. k \in 1..Len(taken) \/ k = Len(taken) + 1
        BY <3>1
      <4> QED BY <1>0, <3>3, <3>4, <4>1 DEF Numbered
    <3>7. ASSUME NEW k \in 1..Len(consumer_queue') PROVE consumer_queue'[k] = Len(taken') + k
      <4>1. k + 1 \in 1..Len(consumer_queue)
        BY <3>1
      <4>2. consumer_queue[k + 1] = Len(taken) + (k + 1)
        BY <1>0, <4>1 DEF Numbered
      <4> QED BY <3>1, <3>2, <4>2
    <3>8. ASSUME NEW k \in 1..Len(producer_queue')
          PROVE  producer_queue'[k] = Len(taken') + Len(consumer_queue') + k
      <4>1. producer_queue'[k] = Len(taken) + Len(consumer_queue) + k
        BY <1>0, <2>1 DEF Numbered
      <4> QED BY <3>1, <4>1
    <3> QED BY <3>5, <3>6, <3>7, <3>8 DEF Numbered
  <2> QED BY <1>0, <2>1, <2>3, <2>5, <2>6, <2>7 DEF PoolInv, Pool!NoLostWakeup
<1>7. CASE Pool!SwapQueue(w)
  <2>1. /\ pc[w] = "swap" /\ producer_queue' = consumer_queue /\ consumer_queue' = producer_queue
        /\ pc' = [pc EXCEPT ![w] = IF producer_queue # <<>> THEN "take" ELSE "load"]
        /\ UNCHANGED <<locks, consumer_mutex, nonblock, sleeping, submitted, client, job, taken, done>>
    BY <1>7 DEF Pool!SwapQueue
  <2>2. consumer_queue = <<>> /\ consumer_mutex = w /\ w \notin sleeping
    BY <1>0, <2>1 DEF Guarded, InPop
  <2>3. Pool!TypeOK'
    <3>1. pc' \in [Workers -> {"lock", "swap", "load", "sleep", "wait", "take", "run"}]
      BY <1>00, <2>1
    <3> QED BY <1>0, <1>00, <2>1, <3>1 DEF Pool!TypeOK, Pool!Tasks
  <2>4. \A v \in Workers : v # w => pc'[v] = pc[v] /\ pc[v] \notin InPop
    BY <1>0, <1>00, <2>1, <2>2 DEF Guarded
  <2>5. pc'[w] = IF producer_queue # <<>> THEN "take" ELSE "load"
    BY <1>00, <2>1
  <2>6. Guarded'
    BY <1>0, <2>1, <2>2, <2>4, <2>5 DEF Guarded, InPop
  <2>7. Missed'
    BY <2>1, <2>2 DEF Missed
  <2>8. Numbered'
    <3>1. /\ Len(consumer_queue) = 0 /\ Len(producer_queue') = 0 /\ Len(taken) \in Nat
          /\ Len(producer_queue) \in Nat
      BY <1>00, <2>1, <2>2
    <3>2. UNCHANGED <<submitted, taken>> /\ consumer_queue' = producer_queue
      BY <2>1
    <3>3. submitted' = Len(taken') + Len(consumer_queue') + Len(producer_queue')
      BY <1>0, <3>1, <3>2 DEF Numbered
    <3>4. \A k \in 1..Len(producer_queue) : producer_queue[k] = Len(taken) + k
      BY <1>0, <3>1 DEF Numbered
    <3> QED BY <1>0, <3>1, <3>2, <3>3, <3>4 DEF Numbered
  <2> QED BY <1>0, <2>1, <2>2, <2>3, <2>6, <2>7, <2>8 DEF PoolInv, Pool!NoLostWakeup
<1>8. CASE Pool!Sleep(w)
  <2>1. /\ pc[w] = "sleep" /\ consumer_mutex' = Nobody /\ sleeping' = sleeping \cup {w}
        /\ pc' = [pc EXCEPT ![w] = "wait"]
        /\ UNCHANGED <<locks, producer_queue, consumer_queue, nonblock, submitted, client, job, taken, done>>
    BY <1>8 DEF Pool!Sleep
  <2>2. consumer_queue = <<>> /\ consumer_mutex = w
    BY <1>0, <2>1 DEF Guarded, InPop
  <2>3. Pool!TypeOK'
    <3>1. pc' \in [Workers -> {"lock", "swap", "load", "sleep", "wait", "take", "run"}]
      BY <1>00, <2>1
    <3> QED BY <1>0, <1>00, <2>1, <3>1 DEF Pool!TypeOK, Pool!Tasks
  <2>4. \A v \in Workers : v # w => pc'[v] = pc[v] /\ pc[v] \notin InPop
    BY <1>0, <1>00, <2>1, <2>2 DEF Guarded
  <2>5. pc'[w] = "wait"
    BY <1>00, <2>1
  <2>6. Guarded' /\ Missed'
    BY <1>0, <2>1, <2>4, <2>5 DEF Guarded, Missed, InPop
  <2>7. Numbered'
    BY <1>0, <2>1 DEF Numbered
  <2>8. producer_queue # <<>> => sleeping' # Workers
    BY <1>0, <2>1 DEF Missed
  <2> QED BY <1>0, <2>1, <2>2, <2>3, <2>6, <2>7, <2>8 DEF PoolInv, Pool!NoLostWakeup
<1> QED
  BY <1>1, <1>2, <1>3, <1>4, <1>5, <1>6, <1>7, <1>8 DEF Pool!InPop

\* No step of the pool leaves its invariant.
LEMMA PoolNext == PoolInv /\ [Pool!Next]_poolVars => PoolInv'
<1> SUFFICES ASSUME PoolInv, [Pool!Next]_poolVars PROVE PoolInv'
  OBVIOUS
<1>1. CASE UNCHANGED poolVars
  BY <1>1 DEF poolVars, PoolInv, Pool!NoLostWakeup, Pool!TypeOK, Pool!Tasks, Guarded, Missed, Numbered
<1> QED
  BY <1>1, SubmitKeeps, CancelKeeps, PoolWorkerKeeps DEF Pool!Next

-----------------------------------------------------------------------------
(* The programs of Handshake.                                              *)

\* The critical sections of each thread.
Sections == Hand!Script(handshake)

\* Threads sleep or notify within their script, and a Latch notifies under its mutex.
HandType ==
    /\ handshake \in Hand!Programs
    /\ at \in [Hand!AllThreads -> Nat \ {0}]
    /\ \A t \in Hand!Threads : at[t] <= Len(Sections[t]) + 1
    /\ asleep \subseteq Hand!Threads /\ notifying \subseteq Hand!Threads /\ asleep \cap notifying = {}
    /\ \A t \in asleep \cup notifying : ~Hand!Ended(t)
    /\ handshake = "latch" => notifying = {}

\* What a thread has been through has happened.
Passed ==
    \A t \in Hand!Threads : \A k \in 1 .. Len(Sections[t]) :
        (k < at[t] \/ (k = at[t] /\ t \in notifying)) => Sections[t][k].makes \subseteq happened

\* Whoever sleeps waits for something, or is about to be notified.
Wanting ==
    \A t \in asleep :
        Hand!Now(t).needs \subseteq happened => \E u \in notifying : Hand!Now(u).cv = Hand!Now(t).cv

HandInv == HandType /\ Passed /\ Wanting

\* The script of count_down_latch.cpp, written out.
LEMMA LatchScript ==
    ASSUME handshake = "latch"
    PROVE  /\ Hand!Threads = Jobs \cup {"main"}
           /\ \A t \in Hand!Threads : Len(Sections[t]) = 2
           /\ Sections["main"][1] = Hand!Section("work_done", Jobs, {})
           /\ Sections["main"][2] = Hand!Section("start_clean_up", {}, {"clean"})
           /\ \A t \in Jobs : /\ Sections[t][1] = Hand!Section("work_done", {}, {t})
                              /\ Sections[t][2] = Hand!Section("start_clean_up", {"clean"}, {})
<1>1. Sections = Hand!latch
  BY DEF Sections, Hand!Script
<1>2. Hand!Threads = Jobs \cup {"main"}
  BY <1>1 DEF Sections, Hand!Threads, Hand!latch
<1> QED BY <1>1, <1>2, JobsAssumption DEF Hand!latch

\* Those of onetwothree.cpp.
LEMMA TurnsScript ==
    ASSUME handshake = "turns"
    PROVE  /\ Hand!Threads = {"a", "b", "c"}
           /\ \A t \in Hand!Threads : Len(Sections[t]) = 1
           /\ Sections["a"][1] = Hand!Section("cv", {}, {"a_finish"})
           /\ Sections["b"][1] = Hand!Section("cv", {"a_finish"}, {"b_finish"})
           /\ Sections["c"][1] = Hand!Section("cv", {"b_finish"}, {"b_finish"})
<1>1. Sections = Hand!turns
  BY DEF Sections, Hand!Script
<1>2. Hand!Threads = {"a", "b", "c"}
  BY <1>1 DEF Sections, Hand!Threads, Hand!turns
<1> QED BY <1>1, <1>2 DEF Hand!turns

\* Those of condition_variable.cpp.
LEMMA DataScript ==
    ASSUME handshake = "data"
    PROVE  /\ Hand!Threads = {"main", "worker"}
           /\ Len(Sections["main"]) = 2 /\ Len(Sections["worker"]) = 1
           /\ Sections["main"][1] = Hand!Section("cv", {}, {"ready"})
           /\ Sections["main"][2] = Hand!Section("cv", {"processed"}, {})
           /\ Sections["worker"][1] = Hand!Section("cv", {"ready"}, {"processed"})
<1>1. Sections = Hand!data
  BY DEF Sections, Hand!Script
<1>2. Hand!Threads = {"main", "worker"}
  BY <1>1 DEF Sections, Hand!Threads, Hand!data
<1> QED BY <1>1, <1>2 DEF Hand!data

\* What a thread is at is a critical section of its script; all but the Latches share
\* one condition variable.
LEMMA HandSections ==
    ASSUME HandType
    PROVE  /\ Hand!Threads \subseteq Hand!AllThreads
           /\ \A t \in Hand!Threads : /\ Len(Sections[t]) \in Nat \ {0}
                                      /\ Hand!Now(t) = Sections[t][at[t]]
                                      /\ Hand!Ended(t) <=> at[t] > Len(Sections[t])
           /\ handshake # "latch" =>
                \A t \in Hand!Threads : \A k \in 1 .. Len(Sections[t]) : Sections[t][k].cv = "cv"
<1>1. Hand!Threads \subseteq Hand!AllThreads
  BY DEF HandType, Hand!AllThreads, Hand!Threads
<1>2. \A t \in Hand!Threads : Hand!Now(t) = Sections[t][at[t]] /\ (Hand!Ended(t) <=> at[t] > Len(Sections[t]))
  BY DEF Hand!Now, Hand!Ended, Sections
<1>3. handshake \in {"latch", "turns", "data"}
  BY DEF HandType, Hand!Programs
<1>4. CASE handshake = "latch"
  BY <1>1, <1>2, <1>4, LatchScript
<1>5. CASE handshake = "turns"
  <2>1. \A t \in Hand!Threads : Len(Sections[t]) = 1 /\ Sections[t][1].cv = "cv"
    BY <1>5, TurnsScript DEF Hand!Section
  <2> QED BY <1>1, <1>2, <2>1
<1>6. CASE handshake = "data"
  <2>1. /\ Len(Sections["main"]) = 2 /\ Sections["main"][1].cv = "cv" /\ Sections["main"][2].cv = "cv"
        /\ Len(Sections["worker"]) = 1 /\ Sections["worker"][1].cv = "cv"
    BY <1>6, DataScript DEF Hand!Section
  <2>2. \A t \in Hand!Threads : t = "main" \/ t = "worker"
    BY <1>6, DataScript
  <2>3. \A t \in Hand!Threads : Len(Sections[t]) \in Nat \ {0} /\ \A k \in 1 .. Len(Sections[t]) : Sections[t][k].cv = "cv"
    BY <2>1, <2>2
  <2> QED BY <1>1, <1>2, <2>3
<1> QED BY <1>3, <1>4, <1>5, <1>6

\* The program does not change, so neither do its scripts.
LEMMA HandFrame ==
    ASSUME handshake' = handshake
    PROVE  /\ Sections' = Sections /\ Hand!Threads' = Hand!Threads
           /\ \A t : /\ Hand!Now(t) = Sections[t][at[t]] /\ Hand!Now(t)' = Sections[t][at'[t]]
                     /\ Hand!Ended(t) <=> at[t] > Len(Sections[t])
                     /\ Hand!Ended(t)' <=> at'[t] > Len(Sections[t])
<1>1. Sections' = Sections /\ Hand!Threads' = Hand!Threads
  BY DEF Sections, Hand!Threads, Hand!Script, Hand!latch, Hand!turns, Hand!data, Hand!Section
<1> QED BY <1>1 DEF Hand!Now, Hand!Ended, Sections

\* Falling asleep, waking up for no reason, and no step at all.
LEMMA HandSleeps ==
    ASSUME HandInv, NEW t \in Hand!Threads,
           Hand!Wait(t) \/ Hand!WakeUpSpuriously(t) \/ UNCHANGED handVars
    PROVE  HandInv'
<1>1. /\ handshake' = handshake /\ happened' = happened /\ at' = at /\ notifying' = notifying
      /\ \/ asleep' \subseteq asleep
         \/ /\ asleep' = asleep \cup {t} /\ ~Hand!Ended(t) /\ t \notin asleep \cup notifying
            /\ ~(Hand!Now(t).needs \subseteq happened)
  BY DEF Hand!Wait, Hand!WakeUpSpuriously, handVars
<1>2. \A u : (Hand!Now(u)' = Hand!Now(u)) /\ (Hand!Ended(u)' <=> Hand!Ended(u))
  BY <1>1, HandFrame
<1>3. HandType'
  BY <1>1, <1>2, HandFrame DEF HandInv, HandType, Hand!Programs, Hand!AllThreads
<1>4. Passed'
  BY <1>1, HandFrame DEF HandInv, Passed
<1>5. Wanting'
  BY <1>1, <1>2 DEF HandInv, Wanting
<1> QED BY <1>3, <1>4, <1>5 DEF HandInv

\* One thread goes on: what is left of the types and of Passed.
LEMMA HandGoesOn ==
    ASSUME HandInv, NEW t \in Hand!Threads, handshake' = handshake, ~Hand!Ended(t), t \notin asleep,
           at' = [at EXCEPT ![t] = @ + 1], happened \subseteq happened', Hand!Now(t).makes \subseteq happened',
           asleep' \subseteq asleep, notifying' = notifying \ {t}
    PROVE  /\ HandType' /\ Passed' /\ at'[t] = at[t] + 1
           /\ \A u \in Hand!Threads : u # t => at'[u] = at[u]
<1>1. PICK S, T : S = Sections /\ T = Hand!Threads
  OBVIOUS
<1>2. /\ at \in [Hand!AllThreads -> Nat \ {0}] /\ T \subseteq Hand!AllThreads /\ t \in T
      /\ \A u \in T : at[u] <= Len(S[u]) + 1 /\ Len(S[u]) \in Nat \ {0}
  BY <1>1, HandSections DEF HandInv, HandType
<1>3. at[t] <= Len(S[t])
  BY <1>1, <1>2, HandSections DEF HandInv
<1>4. at' \in [Hand!AllThreads -> Nat \ {0}] /\ at'[t] = at[t] + 1 /\ \A u \in T : u # t => at'[u] = at[u]
  BY <1>2
<1>5. \A u \in T : at'[u] <= Len(S[u]) + 1
  <2> SUFFICES ASSUME NEW u \in T PROVE at'[u] <= Len(S[u]) + 1
    OBVIOUS
  <2>1. CASE u = t
    BY <1>2, <1>3, <1>4, <2>1
  <2>2. CASE u # t
    BY <1>2, <1>4, <2>2
  <2> QED BY <2>1, <2>2
<1>6. /\ asleep' \subseteq T /\ notifying' \subseteq T /\ asleep' \cap notifying' = {}
      /\ t \notin asleep' \cup notifying'
      /\ \A u \in asleep' \cup notifying' : at[u] <= Len(S[u]) /\ u \in T
  <2>1. /\ asleep \subseteq T /\ notifying \subseteq T /\ asleep \cap notifying = {}
        /\ \A u \in asleep \cup notifying : ~Hand!Ended(u)
    BY <1>1 DEF HandInv, HandType
  <2>2. \A u \in T : at[u] \in Nat /\ (~Hand!Ended(u) => at[u] <= Len(S[u]))
    BY <1>1, <1>2, HandSections DEF HandInv
  <2> QED BY <2>1, <2>2
<1>7. HandType'
  <2>1. \A u \in asleep' \cup notifying' : at'[u] <= Len(S[u])
    BY <1>4, <1>6
  <2>2. \A u \in asleep' \cup notifying' : ~Hand!Ended(u)'
    <3> SUFFICES ASSUME NEW u \in asleep' \cup notifying' PROVE ~(at'[u] > Len(S[u]))
      BY <1>1, HandFrame
    <3>1. at'[u] \in Nat /\ Len(S[u]) \in Nat /\ at'[u] <= Len(S[u])
      BY <1>2, <1>4, <1>6, <2>1
    <3> QED BY <3>1
  <2>3. handshake' \in Hand!Programs /\ (handshake' = "latch" => notifying' = {})
    BY DEF HandInv, HandType
  <2>4. Sections' = S /\ Hand!Threads' = T
    BY <1>1, HandFrame
  <2> QED BY <1>4, <1>5, <1>6, <2>2, <2>3, <2>4 DEF HandType, Hand!Programs, Hand!AllThreads
<1>8. Passed'
  <2>1. Sections' = S /\ Hand!Threads' = T
    BY <1>1, HandFrame
  <2> SUFFICES ASSUME NEW u \in T, NEW k \in 1 .. Len(S[u]), k < at'[u] \/ (k = at'[u] /\ u \in notifying')
               PROVE  S[u][k].makes \subseteq happened'
    BY <2>1 DEF Passed
  <2>2. \/ k < at[u] \/ (k = at[u] /\ u \in notifying)
        \/ u = t /\ k = at[t]
    BY <1>2, <1>4, <1>6
  <2>3. (k < at[u] \/ (k = at[u] /\ u \in notifying)) => S[u][k].makes \subseteq happened
    BY <1>1 DEF HandInv, Passed
  <2>4. Hand!Now(t) = S[t][at[t]]
    BY <1>1, HandFrame
  <2> QED BY <2>2, <2>3, <2>4
<1> QED BY <1>1, <1>4, <1>7, <1>8

\* What a section of count_down_latch.cpp waits for and counts down.
LEMMA LatchFields ==
    ASSUME handshake = "latch", NEW v \in Hand!Threads, NEW k \in {1, 2}, NEW z, z = Sections[v][k]
    PROVE  /\ \/ z.makes = {}
              \/ v \in Jobs /\ z.cv = "work_done" /\ z.makes = {v}
              \/ z.cv = "start_clean_up" /\ z.makes = {"clean"}
           /\ \/ z.needs = {}
              \/ z.cv = "work_done" /\ z.needs = Jobs
              \/ z.cv = "start_clean_up" /\ z.needs = {"clean"}
<1>1. v = "main" \/ v \in Jobs
  BY LatchScript
<1>2. CASE v = "main" /\ k = 1
  <2>1. z = Hand!Section("work_done", Jobs, {})
    BY <1>2, LatchScript
  <2> QED BY <2>1 DEF Hand!Section
<1>3. CASE v = "main" /\ k = 2
  <2>1. z = Hand!Section("start_clean_up", {}, {"clean"})
    BY <1>3, LatchScript
  <2> QED BY <2>1 DEF Hand!Section
<1>4. CASE v \in Jobs /\ k = 1
  <2>1. z = Hand!Section("work_done", {}, {v})
    BY <1>4, LatchScript
  <2> QED BY <1>4, <2>1 DEF Hand!Section
<1>5. CASE v \in Jobs /\ k = 2
  <2>1. z = Hand!Section("start_clean_up", {"clean"}, {})
    BY <1>5, LatchScript
  <2> QED BY <2>1 DEF Hand!Section
<1> QED BY <1>1, <1>2, <1>3, <1>4, <1>5

\* wait() or count_down() of a Latch: the one that opens it wakes all who wait for it.
LEMMA HandLatch ==
    ASSUME HandInv, NEW t \in Hand!Threads, Hand!LatchSection(t)
    PROVE  HandInv'
<1>1. /\ handshake = "latch" /\ handshake' = handshake /\ ~Hand!Ended(t) /\ t \notin asleep
      /\ happened' = happened \cup Hand!Now(t).makes /\ at' = [at EXCEPT ![t] = @ + 1]
      /\ asleep' = IF Hand!Now(t).makes # {} /\ Hand!LatchOpen(Hand!Now(t).cv, happened')
                   THEN asleep \ Hand!Waiters(Hand!Now(t).cv) ELSE asleep
      /\ notifying' = notifying
  BY DEF Hand!LatchSection
<1>2. HandType /\ Passed /\ Wanting /\ notifying = {} /\ asleep \subseteq Hand!Threads
  BY <1>1 DEF HandInv, HandType
<1>3. asleep' \subseteq asleep /\ notifying' = notifying \ {t}
  BY <1>1, <1>2
<1>4. HandType' /\ Passed' /\ \A u \in Hand!Threads : u # t => at'[u] = at[u]
  BY <1>1, <1>3, HandGoesOn
<1>5. Wanting'
  <2> SUFFICES ASSUME NEW u \in asleep', Hand!Now(u)'.needs \subseteq happened' PROVE FALSE
    BY DEF Wanting
  <2>1. u \in asleep /\ u # t /\ u \in Hand!Threads /\ at'[u] = at[u] /\ Hand!Now(u)' = Hand!Now(u)
    BY <1>1, <1>2, <1>3, <1>4, HandFrame
  <2>2. PICK S, x, y : S = Sections /\ x = Hand!Now(u) /\ y = Hand!Now(t)
    OBVIOUS
  <2>3. ~(x.needs \subseteq happened) /\ x.needs \subseteq happened \cup y.makes
    BY <1>1, <1>2, <2>1, <2>2 DEF Wanting
  <2>4. at[t] \in {1, 2} /\ at[u] \in {1, 2} /\ x = S[u][at[u]] /\ y = S[t][at[t]]
    <3>1. Len(S[t]) = 2 /\ Len(S[u]) = 2
      BY <1>1, <2>1, <2>2, LatchScript
    <3>2. at[t] \in Nat \ {0} /\ at[u] \in Nat \ {0}
      BY <1>2, <2>1, HandSections DEF HandType
    <3>3. ~(at[t] > 2) /\ ~(at[u] > 2)
      BY <1>1, <1>2, <2>1, <2>2, <3>1, HandSections DEF HandType
    <3> QED BY <2>1, <2>2, <3>2, <3>3, <1>1, HandFrame
  <2>5. \/ y.makes = {}
        \/ t \in Jobs /\ y.cv = "work_done" /\ y.makes = {t}
        \/ y.cv = "start_clean_up" /\ y.makes = {"clean"}
    BY <1>1, <2>1, <2>2, <2>4, LatchFields
  <2>6. \/ x.needs = {}
        \/ x.cv = "work_done" /\ x.needs = Jobs
        \/ x.cv = "start_clean_up" /\ x.needs = {"clean"}
    BY <1>1, <2>1, <2>2, <2>4, LatchFields
  <2>7. x.cv = y.cv /\ y.makes # {} /\ x.needs = IF y.cv = "work_done" THEN Jobs ELSE {"clean"}
    BY <2>3, <2>5, <2>6, JobsAssumption
  <2>8. Hand!LatchOpen(y.cv, happened')
    BY <1>1, <2>2, <2>3, <2>7 DEF Hand!LatchOpen
  <2>9. u \in Hand!Waiters(y.cv)
    BY <2>1, <2>2, <2>7 DEF Hand!Waiters
  <2> QED BY <1>1, <2>2, <2>7, <2>8, <2>9
<1> QED BY <1>4, <1>5 DEF HandInv

\* An event under the mutex: whoever sleeps will be notified.
LEMMA HandPlain ==
    ASSUME HandInv, NEW t \in Hand!Threads, Hand!PlainSection(t)
    PROVE  HandInv'
<1>1. /\ handshake # "latch" /\ handshake' = handshake /\ ~Hand!Ended(t) /\ t \notin asleep \cup notifying
      /\ happened' = happened \cup Hand!Now(t).makes /\ asleep' = asleep
      /\ IF Hand!Now(t).makes = {}
         THEN at' = [at EXCEPT ![t] = @ + 1] /\ notifying' = notifying
         ELSE notifying' = notifying \cup {t} /\ at' = at
  BY DEF Hand!PlainSection
<1>2. HandType /\ Passed /\ Wanting /\ asleep \subseteq Hand!Threads /\ notifying \subseteq Hand!Threads
  BY <1>1 DEF HandInv, HandType
<1>3. CASE Hand!Now(t).makes = {}
  <2>1. at' = [at EXCEPT ![t] = @ + 1] /\ notifying' = notifying /\ happened' = happened /\ notifying' = notifying \ {t}
    BY <1>1, <1>3
  <2>2. HandType' /\ Passed' /\ \A u \in Hand!Threads : u # t => at'[u] = at[u]
    BY <1>1, <1>3, <2>1, HandGoesOn
  <2>3. \A u \in asleep \cup notifying : Hand!Now(u)' = Hand!Now(u)
    BY <1>1, <1>2, <2>2, HandFrame
  <2>4. Wanting'
    BY <1>1, <1>2, <2>1, <2>3 DEF Wanting
  <2> QED BY <2>2, <2>4 DEF HandInv
<1>4. CASE Hand!Now(t).makes # {}
  <2>1. at' = at /\ notifying' = notifying \cup {t}
    BY <1>1, <1>4
  <2>2. \A u : (Hand!Now(u)' = Hand!Now(u)) /\ (Hand!Ended(u)' <=> Hand!Ended(u))
    BY <1>1, <2>1, HandFrame
  <2>3. HandType'
    BY <1>1, <1>2, <2>1, <2>2, HandFrame DEF HandType, Hand!Programs, Hand!AllThreads
  <2>4. Passed'
    <3>1. Sections' = Sections /\ Hand!Threads' = Hand!Threads /\ Hand!Now(t) = Sections[t][at[t]]
      BY <1>1, HandFrame
    <3> SUFFICES ASSUME NEW u \in Hand!Threads, NEW k \in 1 .. Len(Sections[u]),
                        k < at[u] \/ (k = at[u] /\ u \in notifying \cup {t})
                 PROVE  Sections[u][k].makes \subseteq happened'
      BY <2>1, <3>1 DEF Passed
    <3>2. CASE u = t /\ k = at[t]
      BY <1>1, <3>1, <3>2
    <3>3. CASE ~(u = t /\ k = at[t])
      <4>1. Sections[u][k].makes \subseteq happened
        BY <1>2, <3>3 DEF Passed
      <4> QED BY <1>1, <4>1
    <3> QED BY <3>2, <3>3
  <2>5. Wanting'
    <3> SUFFICES ASSUME NEW u \in asleep PROVE \E v \in notifying' : Hand!Now(v)'.cv = Hand!Now(u)'.cv
      BY <1>1 DEF Wanting
    <3>1. \A v \in Hand!Threads : ~Hand!Ended(v) => Hand!Now(v).cv = "cv"
      <4> SUFFICES ASSUME NEW v \in Hand!Threads, ~Hand!Ended(v) PROVE Hand!Now(v).cv = "cv"
        OBVIOUS
      <4>1. at[v] \in 1 .. Len(Sections[v])
        BY <1>2, HandSections DEF HandType
      <4> QED BY <1>1, <1>2, <4>1, HandSections
    <3>2. Hand!Now(u).cv = "cv" /\ Hand!Now(t).cv = "cv"
      BY <1>1, <1>2, <3>1 DEF HandType
    <3> QED BY <2>1, <2>2, <3>2
  <2> QED BY <2>3, <2>4, <2>5 DEF HandInv
<1> QED BY <1>3, <1>4

\* notify_all() wakes everybody: there is one condition variable.
LEMMA HandNotify ==
    ASSUME HandInv, NEW t \in Hand!Threads, Hand!notify_all(t)
    PROVE  HandInv'
<1>1. /\ t \in notifying /\ asleep' = asleep \ Hand!Waiters(Hand!Now(t).cv) /\ notifying' = notifying \ {t}
      /\ at' = [at EXCEPT ![t] = @ + 1] /\ handshake' = handshake /\ happened' = happened
  BY DEF Hand!notify_all
<1>2. HandType /\ Passed /\ handshake # "latch" /\ asleep \subseteq Hand!Threads
      /\ ~Hand!Ended(t) /\ t \notin asleep
  BY <1>1 DEF HandInv, HandType
<1>3. \A v \in Hand!Threads : ~Hand!Ended(v) => at[v] \in 1 .. Len(Sections[v]) /\ Hand!Now(v).cv = "cv"
  <2> SUFFICES ASSUME NEW v \in Hand!Threads, ~Hand!Ended(v)
               PROVE  at[v] \in 1 .. Len(Sections[v]) /\ Hand!Now(v).cv = "cv"
    OBVIOUS
  <2>1. at[v] \in 1 .. Len(Sections[v])
    BY <1>2, HandSections DEF HandType
  <2> QED BY <1>2, <2>1, HandSections
<1>4. asleep' = {}
  <2>1. \A u \in asleep : Hand!Now(u).cv = "cv" /\ Hand!Now(t).cv = "cv"
    BY <1>2, <1>3 DEF HandType
  <2> QED BY <1>1, <2>1 DEF Hand!Waiters
<1>5. Hand!Now(t).makes \subseteq happened'
  <2>1. Hand!Now(t) = Sections[t][at[t]] /\ at[t] \in 1 .. Len(Sections[t])
    BY <1>1, <1>2, <1>3, HandFrame
  <2> QED BY <1>1, <1>2, <2>1 DEF Passed
<1>6. HandType' /\ Passed'
  BY <1>1, <1>2, <1>5, HandGoesOn
<1>7. Wanting'
  BY <1>4 DEF Wanting
<1> QED BY <1>6, <1>7 DEF HandInv

\* HandInv holds before the threads run.
LEMMA HandInitInv == Hand!HandshakeInit => HandInv
<1> SUFFICES ASSUME Hand!HandshakeInit PROVE HandInv
  OBVIOUS
<1>1. /\ handshake \in Hand!Programs /\ at = [t \in Hand!AllThreads |-> 1]
      /\ asleep = {} /\ notifying = {}
  BY DEF Hand!HandshakeInit
<1>2. Hand!Threads \subseteq Hand!AllThreads
  BY <1>1 DEF Hand!AllThreads, Hand!Threads
<1>3. \A t \in Hand!Threads : Len(Sections[t]) \in Nat
  BY <1>1, LatchScript, TurnsScript, DataScript DEF Hand!Programs
<1>4. \A t \in Hand!Threads : at[t] = 1
  BY <1>1, <1>2
<1>5. HandType
  BY <1>1, <1>3, <1>4 DEF HandType
<1>6. Passed
  BY <1>1, <1>3, <1>4 DEF Passed
<1> QED BY <1>1, <1>5, <1>6 DEF HandInv, Wanting

\* Every step of the threads keeps it.
LEMMA HandNextInv == HandInv /\ [Hand!HandshakeNext]_handVars => HandInv'
<1> SUFFICES ASSUME HandInv, [Hand!HandshakeNext]_handVars PROVE HandInv'
  OBVIOUS
<1>1. CASE UNCHANGED handVars
  <2>1. PICK t \in Hand!Threads : TRUE
    BY LatchScript, TurnsScript, DataScript DEF HandInv, HandType, Hand!Programs
  <2> QED BY <1>1, <2>1, HandSleeps
<1>2. CASE Hand!HandshakeNext
  BY <1>2, HandSleeps, HandLatch, HandPlain, HandNotify DEF Hand!HandshakeNext, Hand!ThreadStep
<1> QED BY <1>1, <1>2

\* As long as a thread has not ended, there is one whose events have all happened.
LEMMA HandProgress ==
    ASSUME HandInv, NEW s \in Hand!Threads, ~Hand!Ended(s)
    PROVE  \E t \in Hand!Threads : ~Hand!Ended(t) /\ Hand!Now(t).needs \subseteq happened
<1>1. /\ HandType /\ Hand!Threads \subseteq Hand!AllThreads /\ handshake \in {"latch", "turns", "data"}
      /\ at \in [Hand!AllThreads -> Nat \ {0}]
  BY HandSections DEF HandInv, HandType, Hand!Programs
<1>2. ASSUME NEW t \in Hand!Threads, NEW n \in Nat, Len(Sections[t]) = n
      PROVE  /\ at[t] \in 1 .. n + 1 /\ (Hand!Ended(t) <=> at[t] = n + 1)
             /\ Hand!Now(t) = Sections[t][at[t]]
             /\ \A k \in 1 .. n : k < at[t] => Sections[t][k].makes \subseteq happened
  <2>1. at[t] \in Nat \ {0} /\ at[t] <= n + 1
    BY <1>1, <1>2 DEF HandType
  <2>2. Hand!Ended(t) <=> at[t] > n
    BY <1>1, <1>2, HandSections
  <2>3. Hand!Now(t) = Sections[t][at[t]]
    BY <1>1, HandSections
  <2>4. \A k \in 1 .. n : k < at[t] => Sections[t][k].makes \subseteq happened
    BY <1>2 DEF HandInv, Passed
  <2> QED BY <2>1, <2>2, <2>3, <2>4
<1>3. CASE handshake = "latch"
  <2>1. \A t \in Hand!Threads : Len(Sections[t]) = 2
    BY <1>3, LatchScript
  <2>2. \A t \in Hand!Threads :
            /\ at[t] \in 1 .. 3 /\ (Hand!Ended(t) <=> at[t] = 3) /\ Hand!Now(t) = Sections[t][at[t]]
            /\ \A k \in 1 .. 2 : k < at[t] => Sections[t][k].makes \subseteq happened
    <3> SUFFICES ASSUME NEW t \in Hand!Threads
                 PROVE  /\ at[t] \in 1 .. 3 /\ (Hand!Ended(t) <=> at[t] = 3) /\ Hand!Now(t) = Sections[t][at[t]]
                        /\ \A k \in 1 .. 2 : k < at[t] => Sections[t][k].makes \subseteq happened
      OBVIOUS
    <3>1. Len(Sections[t]) = 2 /\ 2 \in Nat /\ 2 + 1 = 3
      BY <2>1
    <3> QED BY <1>2, <3>1
  <2>3. CASE \E j \in Jobs : at[j] = 1
    <3>1. PICK j \in Jobs : at[j] = 1
      BY <2>3
    <3>2. j \in Hand!Threads /\ Sections[j][1] = Hand!Section("work_done", {}, {j})
      BY <1>3, LatchScript
    <3>3. Hand!Now(j).needs = {} /\ ~Hand!Ended(j)
      BY <2>2, <3>1, <3>2 DEF Hand!Section
    <3> QED BY <3>2, <3>3
  <2>4. CASE \A j \in Jobs : at[j] # 1
    <3>1. Jobs \subseteq happened
      <4> SUFFICES ASSUME NEW j \in Jobs PROVE j \in happened
        OBVIOUS
      <4>1. j \in Hand!Threads /\ Sections[j][1] = Hand!Section("work_done", {}, {j})
        BY <1>3, LatchScript
      <4>2. Sections[j][1].makes \subseteq happened
        BY <2>2, <2>4, <4>1
      <4> QED BY <4>1, <4>2 DEF Hand!Section
    <3>2. "main" \in Hand!Threads /\ at["main"] \in 1 .. 3
      BY <1>3, <2>2, LatchScript
    <3>3. CASE at["main"] = 1
      <4>1. Hand!Now("main").needs = Jobs /\ ~Hand!Ended("main")
        BY <1>3, <2>2, <3>2, <3>3, LatchScript DEF Hand!Section
      <4> QED BY <3>1, <3>2, <4>1
    <3>4. CASE at["main"] = 2
      <4>1. Hand!Now("main").needs = {} /\ ~Hand!Ended("main")
        BY <1>3, <2>2, <3>2, <3>4, LatchScript DEF Hand!Section
      <4> QED BY <3>2, <4>1
    <3>5. CASE at["main"] = 3
      <4>1. "clean" \in happened
        <5>1. Sections["main"][2].makes \subseteq happened
          BY <2>2, <3>2, <3>5
        <5> QED BY <1>3, <5>1, LatchScript DEF Hand!Section
      <4>2. s \in Jobs /\ at[s] = 2
        BY <1>3, <2>2, <2>4, <3>5, LatchScript
      <4>3. Hand!Now(s).needs = {"clean"}
        <5>1. Sections[s][2] = Hand!Section("start_clean_up", {"clean"}, {})
          BY <1>3, <4>2, LatchScript
        <5>2. Hand!Now(s) = Sections[s][2]
          BY <2>2, <4>2
        <5> QED BY <5>1, <5>2 DEF Hand!Section
      <4> QED BY <4>1, <4>3
    <3> QED BY <3>2, <3>3, <3>4, <3>5
  <2> QED BY <2>3, <2>4
<1>4. CASE handshake = "turns"
  <2>1. \A t \in Hand!Threads :
            /\ at[t] \in 1 .. 2 /\ (Hand!Ended(t) <=> at[t] = 2) /\ Hand!Now(t) = Sections[t][at[t]]
            /\ at[t] = 2 => Sections[t][1].makes \subseteq happened
    <3> SUFFICES ASSUME NEW t \in Hand!Threads
                 PROVE  /\ at[t] \in 1 .. 2 /\ (Hand!Ended(t) <=> at[t] = 2) /\ Hand!Now(t) = Sections[t][at[t]]
                        /\ at[t] = 2 => Sections[t][1].makes \subseteq happened
      OBVIOUS
    <3>1. Len(Sections[t]) = 1 /\ 1 \in Nat /\ 1 + 1 = 2
      BY <1>4, TurnsScript
    <3>2. /\ at[t] \in 1 .. 2 /\ (Hand!Ended(t) <=> at[t] = 2) /\ Hand!Now(t) = Sections[t][at[t]]
          /\ \A k \in 1 .. 1 : k < at[t] => Sections[t][k].makes \subseteq happened
      BY <1>2, <3>1
    <3> QED BY <3>2
  <2>2. /\ Sections["a"][1].needs = {} /\ Sections["a"][1].makes = {"a_finish"}
        /\ Sections["b"][1].needs = {"a_finish"} /\ Sections["b"][1].makes = {"b_finish"}
        /\ Sections["c"][1].needs = {"b_finish"} /\ Hand!Threads = {"a", "b", "c"}
    BY <1>4, TurnsScript DEF Hand!Section
  <2>3. CASE at["a"] = 1
    <3>1. "a" \in Hand!Threads /\ ~Hand!Ended("a") /\ Hand!Now("a").needs \subseteq happened
      BY <2>1, <2>2, <2>3
    <3> QED BY <3>1
  <2>4. CASE at["a"] = 2 /\ at["b"] = 1
    <3>1. "b" \in Hand!Threads /\ ~Hand!Ended("b") /\ Hand!Now("b").needs \subseteq happened
      BY <2>1, <2>2, <2>4
    <3> QED BY <3>1
  <2>5. CASE at["a"] = 2 /\ at["b"] = 2
    <3>1. s = "c" /\ at["c"] = 1
      BY <2>1, <2>2, <2>5
    <3>2. Hand!Now(s).needs \subseteq happened
      BY <2>1, <2>2, <2>5, <3>1
    <3> QED BY <3>2
  <2> QED BY <2>1, <2>2, <2>3, <2>4, <2>5
<1>5. CASE handshake = "data"
  <2>1. /\ Sections["main"][1].needs = {} /\ Sections["main"][1].makes = {"ready"}
        /\ Sections["main"][2].needs = {"processed"} /\ Sections["worker"][1].needs = {"ready"}
        /\ Sections["worker"][1].makes = {"processed"} /\ Hand!Threads = {"main", "worker"}
    BY <1>5, DataScript DEF Hand!Section
  <2>2. /\ at["main"] \in 1 .. 3 /\ (Hand!Ended("main") <=> at["main"] = 3)
        /\ Hand!Now("main") = Sections["main"][at["main"]]
        /\ 1 < at["main"] => "ready" \in happened
    <3>1. Len(Sections["main"]) = 2 /\ 2 \in Nat /\ 2 + 1 = 3 /\ "main" \in Hand!Threads
      BY <1>5, DataScript
    <3>2. /\ at["main"] \in 1 .. 3 /\ (Hand!Ended("main") <=> at["main"] = 3)
          /\ Hand!Now("main") = Sections["main"][at["main"]]
          /\ \A k \in 1 .. 2 : k < at["main"] => Sections["main"][k].makes \subseteq happened
      BY <1>2, <3>1
    <3> QED BY <2>1, <3>2
  <2>3. /\ at["worker"] \in 1 .. 2 /\ (Hand!Ended("worker") <=> at["worker"] = 2)
        /\ Hand!Now("worker") = Sections["worker"][at["worker"]]
        /\ 1 < at["worker"] => "processed" \in happened
    <3>1. Len(Sections["worker"]) = 1 /\ 1 \in Nat /\ 1 + 1 = 2 /\ "worker" \in Hand!Threads
      BY <1>5, DataScript
    <3>2. /\ at["worker"] \in 1 .. 2 /\ (Hand!Ended("worker") <=> at["worker"] = 2)
          /\ Hand!Now("worker") = Sections["worker"][at["worker"]]
          /\ \A k \in 1 .. 1 : k < at["worker"] => Sections["worker"][k].makes \subseteq happened
      BY <1>2, <3>1
    <3> QED BY <2>1, <3>2
  <2>4. CASE at["main"] = 1
    <3>1. "main" \in Hand!Threads /\ ~Hand!Ended("main") /\ Hand!Now("main").needs \subseteq happened
      BY <2>1, <2>2, <2>4
    <3> QED BY <3>1
  <2>5. CASE at["main"] # 1 /\ at["worker"] = 1
    <3>1. "worker" \in Hand!Threads /\ ~Hand!Ended("worker") /\ Hand!Now("worker").needs \subseteq happened
      BY <2>1, <2>2, <2>3, <2>5
    <3> QED BY <3>1
  <2>6. CASE at["main"] # 1 /\ at["worker"] = 2
    <3>1. s = "main" /\ at["main"] = 2
      BY <2>1, <2>2, <2>3, <2>6
    <3>2. Hand!Now(s).needs \subseteq happened
      BY <2>1, <2>2, <2>3, <2>6, <3>1
    <3> QED BY <3>2
  <2> QED BY <2>3, <2>4, <2>5, <2>6
<1> QED BY <1>1, <1>3, <1>4, <1>5

\* What the invariant says of the property.
LEMMA HandInvFacts == HandInv => Hand!NoLostWakeup
<1> SUFFICES ASSUME HandInv PROVE Hand!NoLostWakeup
  OBVIOUS
<1>1. Wanting /\ notifying \subseteq Hand!Threads /\ asleep \cap notifying = {}
      /\ \A t \in notifying : ~Hand!Ended(t)
  BY DEF HandInv, HandType
<1>2. ASSUME NEW s \in Hand!Threads, ~Hand!Ended(s)
      PROVE  \E t \in Hand!Threads \ asleep :
                 ~Hand!Ended(t) /\ (t \in notifying \/ Hand!Now(t).needs \subseteq happened)
  <2>1. PICK t \in Hand!Threads : ~Hand!Ended(t) /\ Hand!Now(t).needs \subseteq happened
    BY <1>2, HandProgress
  <2>2. CASE t \in asleep
    <3>1. PICK u \in notifying : TRUE
      BY <1>1, <2>1, <2>2 DEF Wanting
    <3> QED BY <1>1, <3>1
  <2>3. CASE t \notin asleep
    BY <2>1, <2>3
  <2> QED BY <2>2, <2>3
<1> QED BY <1>1, <1>2 DEF Hand!NoLostWakeup, Wanting

-----------------------------------------------------------------------------
\* The inductive invariant of the program that runs.
QueuesInv ==
    /\ program = "blocking_queue" => IInv /\ Wakeups
    /\ program = "thread_pool" => PoolInv
    /\ program = "handshake" => HandInv

\* It holds of each program.
LEMMA QueuesInvariance ==
    QueuesInit /\ [][QueuesNext]_<<program, vars, poolVars, handVars>> => []QueuesInv
<1>1. QueuesInit => QueuesInv
  <2>1. Init => Wakeups
    BY DEF Init, Wakeups
  <2> QED BY <2>1, InitIInv, PoolInit, HandInitInv DEF QueuesInit, QueuesInv
<1>2. QueuesInv /\ [QueuesNext]_<<program, vars, poolVars, handVars>> => QueuesInv'
  <2> SUFFICES ASSUME QueuesInv, [QueuesNext]_<<program, vars, poolVars, handVars>>
               PROVE  QueuesInv'
    OBVIOUS
  <2>1. /\ UNCHANGED program
        /\ program = "blocking_queue" => [Next]_vars
        /\ program = "thread_pool" => [Pool!Next]_poolVars
        /\ program = "handshake" => [Hand!HandshakeNext]_handVars
    BY DEF QueuesNext, HandshakeEnded
  <2>2. program = "blocking_queue" => IInv' /\ Wakeups'
    BY <2>1, NextIInv, WakeupsKept DEF QueuesInv
  <2>3. program = "thread_pool" => PoolInv'
    BY <2>1, PoolNext DEF QueuesInv
  <2>4. program = "handshake" => HandInv'
    BY <2>1, HandNextInv DEF QueuesInv
  <2> QED BY <2>1, <2>2, <2>3, <2>4 DEF QueuesInv
<1> QED BY <1>1, <1>2, PTL

\* In each program, however many workers it has and however many tasks are put, no
\* worker is left asleep beside a task that nobody else will fetch, and the threads of
\* latches and flags neither sleep through what they wait for nor all wait for one another.
THEOREM NoWakeupIsLost == QueuesSpec => []NoLostWakeups
<1>1. QueuesInv => NoLostWakeups
  <2>1. ASSUME IInv, Wakeups, waiting # {}, items # <<>>, mpc # "notify"
        PROVE  \E w \in Workers : wpc[w] \in {"pop", "run", "test"}
    <3>1. Len(items) \in Nat \ {0}
      BY <2>1 DEF IInv, TypeOK
    <3>2. PICK v \in Workers : TRUE
      BY PoolAssumption
    <3>3. Cardinality(Popping) >= 1
      BY <2>1, <3>1, <3>2, PoppingCount DEF Wakeups
    <3>4. Popping # {}
      BY <3>3, FS_EmptySet
    <3> QED BY <3>4 DEF Popping
  <2> QED BY <2>1, HandInvFacts DEF QueuesInv, NoLostWakeups, NoLostWakeup, PoolInv
<1> QED BY <1>1, QueuesInvariance, PTL DEF QueuesSpec

\* The pool implements the FIFO of BoundedFifo over either of its queues: a submission
\* is its Put, a pop() that finds a task its Get, every other step a stutter.
THEOREM PoolKeepsOrder == QueuesSpec => PoolIsFifo
<1> DEFINE sent == [k \in 1..submitted |-> k]
<1>1. QueuesInit => Pool!Fifo!FifoInit
  <2> SUFFICES ASSUME QueuesInit PROVE sent = <<>> /\ taken = <<>>
    BY DEF Pool!Fifo!FifoInit
  <2> QED BY DEF QueuesInit, PoolIdle, Pool!Init
<1>2. ASSUME QueuesInv, [QueuesNext]_<<program, vars, poolVars, handVars>>
      PROVE  [Pool!Fifo!FifoNext]_(Pool!Fifo!fifoVars)
  <2>1. CASE UNCHANGED <<submitted, taken>>
    BY <2>1 DEF Pool!Fifo!fifoVars
  <2>2. CASE program = "thread_pool" /\ Pool!Next
    <3>1. Pool!TypeOK /\ Numbered
      BY <1>2, <2>2 DEF QueuesInv, PoolInv, Pool!NoLostWakeup
    <3>2. /\ submitted \in Nat /\ taken \in Seq(Pool!Tasks) /\ consumer_queue \in Seq(Pool!Tasks)
          /\ producer_queue \in Seq(Pool!Tasks)
      BY <3>1 DEF Pool!TypeOK
    <3>3. sent \in Seq(Nat) /\ Len(sent) = submitted
      BY <3>2
    <3>4. CASE Pool!Submit
      <4>1. submitted' = submitted + 1 /\ submitted < PoolTasks /\ UNCHANGED taken
        BY <3>4 DEF Pool!Submit
      <4>2. sent' = Append(sent, submitted + 1) /\ submitted + 1 \in Pool!Tasks
        BY <3>2, <3>3, <4>1, PoolAssumption DEF Pool!Tasks
      <4>3. Len(sent) - Len(taken) < PoolTasks
        BY <3>2, <3>3, <4>1, PoolAssumption
      <4>5. \E e \in Pool!Tasks : Pool!Fifo!Put(e)
        BY <4>1, <4>2, <4>3 DEF Pool!Fifo!Put
      <4> QED BY <4>5, Zenon DEF Pool!Fifo!FifoNext, Pool!Tasks
    <3>5. ASSUME NEW w \in Workers, Pool!Take(w), consumer_queue # <<>> PROVE Pool!Fifo!Get
      <4>1. taken' = Append(taken, Head(consumer_queue)) /\ UNCHANGED submitted
        BY <3>5 DEF Pool!Take
      <4>2. Len(consumer_queue) \in Nat \ {0} /\ Len(producer_queue) \in Nat /\ Len(taken) \in Nat
        BY <3>2, <3>5, TailType
      <4>3. Head(consumer_queue) = Len(taken) + 1 /\ Len(taken) < submitted
        BY <3>1, <3>2, <3>5, <4>2 DEF Numbered
      <4>4. sent[Len(taken) + 1] = Len(taken) + 1 /\ Len(taken) < Len(sent) /\ sent' = sent
        BY <3>2, <3>3, <4>1, <4>2, <4>3
      <4> QED BY <4>1, <4>3, <4>4 DEF Pool!Fifo!Get
    <3>6. \/ Pool!Submit \/ UNCHANGED <<submitted, taken>>
          \/ \E w \in Workers : Pool!Take(w) /\ consumer_queue # <<>>
      BY <2>2 DEF Pool!Next, Pool!InPop, Pool!Cancel, Pool!Lock, Pool!SwapQueue, Pool!LoadNonblock,
         Pool!Sleep, Pool!SpuriousWakeup, Pool!Take, Pool!Run
    <3> QED BY <2>1, <3>4, <3>5, <3>6 DEF Pool!Fifo!FifoNext
  <2>3. UNCHANGED poolVars \/ (program = "thread_pool" /\ Pool!Next)
    BY <1>2 DEF QueuesNext
  <2>4. UNCHANGED poolVars => UNCHANGED <<submitted, taken>>
    BY DEF poolVars
  <2> QED BY <2>1, <2>2, <2>3, <2>4
<1> QED
  BY <1>1, <1>2, QueuesInvariance, PTL DEF QueuesSpec, PoolIsFifo, Pool!IsFifo, Pool!Fifo!FifoSpec
=============================================================================
