------------------------- MODULE BoundedPoolProofs -------------------------
(***************************************************************************)
(* For every set of workers and clients and every _max_size, the pool's    *)
(* queue keeps its bound and every accepted task is accounted for.         *)
(*                                                                         *)
(* Accounted follows a task from hand to hand.  To be inductive it needs   *)
(* to know that the members of the two wait sets are really waiting (so    *)
(* that a notification moves nobody who holds a task), that only the       *)
(* pool's own threads leave "test", and that a worker calls no empty task. *)
(***************************************************************************)
EXTENDS BoundedPool, SequenceLemmas, TLAPS

Sleepers ==
    /\ \A w \in not_empty : wpc[w] = "wait"
    /\ \A c \in not_full : cpc[c] = "wait"

OwnThreads == \A w \in Workers : w \notin threads => wpc[w] = "test"

Hands == \A w \in Workers : wpc[w] = "run" => task[w] \in Task

Fresh == opc = "new" => threads = {} /\ accepted = {} /\ \A w \in Workers : wpc[w] = "test"

IInv == TypeOK /\ QueueBounded /\ Accounted /\ Sleepers /\ OwnThreads /\ Hands /\ Fresh

\* Where a task may be, as Accounted lists it.
Dropped(t) == ~running /\ \E w \in threads : wpc[w] = "exited" /\ task[w] = t
Place(t) == Queued(t) \/ Held(t) \/ t \in ran \/ Dropped(t)

LEMMA AccountedPlace == Accounted <=> \A t \in accepted : Place(t)
BY DEF Accounted, Place, Dropped

LEMMA AccountedPlacePrime == Accounted' <=> \A t \in accepted' : Place(t)'
BY DEF Accounted, Place, Dropped

\* Before start() the pool is empty.
LEMMA InitIInv == Init => IInv
<1> SUFFICES ASSUME Init PROVE IInv
  OBVIOUS
<1> USE PoolAssumption DEF Init
<1>1. tasks \in Seq(Task) /\ Len(tasks) = 0
  OBVIOUS
<1>a. calls \in [Clients -> 1 .. NumCalls + 1]
  OBVIOUS
<1>b. cpc \in [Clients -> {"call", "wait", "notify"}]
  OBVIOUS
<1>c. /\ wpc \in [Workers -> {"test", "get", "wait", "check", "run", "exited"}]
      /\ task \in [Workers -> Task \cup {NoTask}]
  OBVIOUS
<1>2. TypeOK
  BY <1>1, <1>a, <1>b, <1>c DEF TypeOK
<1>3. QueueBounded
  BY <1>1 DEF QueueBounded
<1> QED
  BY <1>2, <1>3 DEF IInv, Accounted, Sleepers, OwnThreads, Hands, Fresh

-----------------------------------------------------------------------------
\* start() and stop() move no task.
LEMMA OwnerIInv == IInv /\ Owner => IInv'
<1> SUFFICES ASSUME IInv, Owner PROVE IInv'
  OBVIOUS
<1> USE PoolAssumption
<1>0. TypeOK /\ QueueBounded /\ Accounted /\ Sleepers /\ OwnThreads /\ Hands /\ Fresh
  BY DEF IInv
<1>1. CASE Start
  BY <1>0, <1>1 DEF Start, IInv, TypeOK, QueueBounded, Accounted, Sleepers, OwnThreads,
                    Hands, Fresh
<1>2. CASE StopClear
  <2> USE <1>2 DEF StopClear
  <2>1. \A t : Place(t) => Place(t)'
    BY DEF Place, Queued, Held, Dropped
  <2>2. Accounted'
    BY <1>0, <2>1, AccountedPlace, AccountedPlacePrime
  <2> QED
    BY <1>0, <2>2 DEF IInv, TypeOK, QueueBounded, Sleepers, OwnThreads, Hands, Fresh
<1>3. CASE StopNotify
  <2> USE <1>3 DEF StopNotify
  <2>1. \A w \in Workers : \/ wpc'[w] = wpc[w]
                           \/ wpc[w] = "wait" /\ wpc'[w] = "get"
    BY <1>0 DEF Sleepers
  <2>2. TypeOK'
    BY <1>0 DEF TypeOK
  <2>3. \A t : Place(t) => Place(t)'
    BY <1>0, <2>1 DEF Place, Queued, Held, Dropped, TypeOK
  <2>4. Accounted'
    BY <1>0, <2>3, AccountedPlace, AccountedPlacePrime
  <2> QED
    BY <1>0, <2>1, <2>2, <2>4 DEF IInv, QueueBounded, Sleepers, OwnThreads, Hands, Fresh
<1>4. CASE StopJoin
  <2> USE <1>4 DEF StopJoin
  <2>1. \A t : Place(t) => Place(t)'
    BY DEF Place, Queued, Held, Dropped
  <2>2. Accounted'
    BY <1>0, <2>1, AccountedPlace, AccountedPlacePrime
  <2> QED
    BY <1>0, <2>2 DEF IInv, TypeOK, QueueBounded, Sleepers, OwnThreads, Hands, Fresh
<1> QED
  BY <1>1, <1>2, <1>3, <1>4 DEF Owner

\* run() adds one task at the end of a queue that has room for it.
LEMMA ClientIInv ==
    ASSUME IInv, NEW c \in Clients, Client(c) \/ SpuriousClient(c)
    PROVE  IInv'
<1> USE PoolAssumption
<1>0. TypeOK /\ QueueBounded /\ Accounted /\ Sleepers /\ OwnThreads /\ Hands /\ Fresh
  BY DEF IInv
<1>1. CASE RunInline(c)
  <2> USE <1>1 DEF RunInline, CanCall, Return
  <2>1. \A t : Place(t) => Place(t)'
    BY DEF Place, Queued, Held, Dropped
  <2>2. Accounted'
    BY <1>0, <2>1, AccountedPlace, AccountedPlacePrime
  <2>3. calls[c] \in 1..NumCalls
    BY <1>0 DEF TypeOK
  <2>4. <<c, calls[c]>> \in Task
    BY <2>3 DEF Task
  <2>6. calls' \in [Clients -> 1 .. NumCalls + 1]
    BY <1>0, <2>3 DEF TypeOK
  <2>5. TypeOK'
    BY <1>0, <2>4, <2>6 DEF TypeOK
  <2> QED
    BY <1>0, <2>2, <2>5 DEF IInv, QueueBounded, Sleepers, OwnThreads, Hands, Fresh, TypeOK
<1>2. CASE RunWait(c)
  <2> USE <1>2 DEF RunWait, CanCall
  <2>1. \A t : Place(t) => Place(t)'
    BY DEF Place, Queued, Held, Dropped
  <2>2. Accounted'
    BY <1>0, <2>1, AccountedPlace, AccountedPlacePrime
  <2> QED
    BY <1>0, <2>2 DEF IInv, TypeOK, QueueBounded, Sleepers, OwnThreads, Hands, Fresh
<1>3. CASE RunRefused(c)
  <2> USE <1>3 DEF RunRefused, CanCall, Return
  <2>1. \A t : Place(t) => Place(t)'
    BY DEF Place, Queued, Held, Dropped
  <2>2. Accounted'
    BY <1>0, <2>1, AccountedPlace, AccountedPlacePrime
  <2>3. calls[c] \in 1..NumCalls
    BY <1>0 DEF TypeOK
  <2>4. TypeOK'
    BY <1>0, <2>3 DEF TypeOK
  <2> QED
    BY <1>0, <2>2, <2>4 DEF IInv, QueueBounded, Sleepers, OwnThreads, Hands, Fresh, TypeOK
<1>4. CASE RunQueue(c)
  <2> USE <1>4 DEF RunQueue, CanCall, Return
  <2>1. calls[c] \in 1..NumCalls /\ tasks \in Seq(Task)
    BY <1>0 DEF TypeOK
  <2> DEFINE e == <<c, calls[c]>>
  <2>2. e \in Task
    BY <2>1 DEF Task
  <2>3. tasks' = Append(tasks, e) /\ accepted' = accepted \cup {e}
    OBVIOUS
  <2> HIDE DEF e
  <2>4. tasks' \in Seq(Task) /\ Len(tasks') = Len(tasks) + 1 /\ Len(tasks) \in Nat
    <3>1. /\ Append(tasks, e) \in Seq(Task) /\ Len(tasks) \in Nat
          /\ Len(Append(tasks, e)) = Len(tasks) + 1
      BY <2>1, <2>2, AppendType
    <3> QED
      BY <3>1, <2>3
  <2>5. TypeOK'
    BY <1>0, <2>1, <2>2, <2>3, <2>4 DEF TypeOK
  <2>6. QueueBounded'
    BY <1>0, <2>4 DEF QueueBounded, is_full
  <2>7. ASSUME NEW t PROVE Queued(t)' <=> Queued(t) \/ t = e
    <3>1. Among(Append(tasks, e), t) <=> Among(tasks, t) \/ t = e
      BY <2>1, <2>2, AmongAppend
    <3> QED
      BY <3>1, <2>3 DEF Queued, Among
  <2>8. \A t : Place(t) \/ t = e => Place(t)'
    BY <2>7 DEF Place, Held, Dropped
  <2>9. Accounted'
    BY <1>0, <2>3, <2>8, AccountedPlace, AccountedPlacePrime
  <2> QED
    BY <1>0, <2>5, <2>6, <2>9 DEF IInv, Sleepers, OwnThreads, Hands, Fresh, TypeOK
<1>5. CASE RunNotify(c)
  <2> USE <1>5 DEF RunNotify
  <2>1. \A w \in Workers : \/ wpc'[w] = wpc[w]
                           \/ wpc[w] = "wait" /\ wpc'[w] = "get"
    BY <1>0 DEF Sleepers, TypeOK
  <2>2. TypeOK' /\ Sleepers'
    BY <1>0 DEF TypeOK, Sleepers
  <2>3. \A t : Place(t) => Place(t)'
    BY <1>0, <2>1 DEF Place, Queued, Held, Dropped, TypeOK
  <2>4. Accounted'
    BY <1>0, <2>3, AccountedPlace, AccountedPlacePrime
  <2> QED
    BY <1>0, <2>1, <2>2, <2>4 DEF IInv, QueueBounded, OwnThreads, Hands, Fresh
<1>6. CASE SpuriousClient(c)
  <2> USE <1>6 DEF SpuriousClient
  <2>1. \A t : Place(t) => Place(t)'
    BY DEF Place, Queued, Held, Dropped
  <2>2. Accounted'
    BY <1>0, <2>1, AccountedPlace, AccountedPlacePrime
  <2> QED
    BY <1>0, <2>2 DEF IInv, TypeOK, QueueBounded, Sleepers, OwnThreads, Hands, Fresh
<1> QED
  BY <1>1, <1>2, <1>3, <1>4, <1>5, <1>6 DEF Client

\* A worker takes a task, calls it, or leaves with it when the pool stopped.
LEMMA WorkerIInv ==
    ASSUME IInv, NEW w \in Workers, Worker(w) \/ SpuriousWorker(w)
    PROVE  IInv'
<1> USE PoolAssumption
<1>0. TypeOK /\ QueueBounded /\ Accounted /\ Sleepers /\ OwnThreads /\ Hands /\ Fresh
  BY DEF IInv
<1>a. ASSUME NEW to, wpc[w] \in {"test", "get", "wait"},
             to \in {"get", "wait"},
             wpc' = [wpc EXCEPT ![w] = to],
             UNCHANGED <<threads, running, tasks, task, accepted, ran>>
      PROVE  Accounted'
  <2>1. \A t : Place(t) => Place(t)'
    BY <1>0, <1>a DEF Place, Queued, Held, Dropped, TypeOK
  <2> QED
    BY <1>0, <1>a, <2>1, AccountedPlace, AccountedPlacePrime
<1>1. CASE TestRunning(w)
  <2>1. /\ w \in threads /\ wpc[w] = "test"
        /\ UNCHANGED <<threads, running, tasks, not_empty, not_full, opc, cpc, calls, task,
                       accepted, ran>>
    BY <1>1 DEF TestRunning
  <2>2. CASE wpc' = [wpc EXCEPT ![w] = "get"]
    <3>1. Accounted'
      BY <1>0, <1>a, <2>1, <2>2
    <3> QED
      BY <1>0, <2>1, <2>2, <3>1
      DEF IInv, TypeOK, QueueBounded, Sleepers, OwnThreads, Hands, Fresh
  <2>3. CASE wpc' = [wpc EXCEPT ![w] = "exited"]
    <3>2. \A t : Place(t) => Place(t)'
      BY <1>0, <2>1, <2>3 DEF Place, Queued, Held, Dropped, TypeOK
    <3>1. Accounted'
      BY <1>0, <2>1, <3>2, AccountedPlace, AccountedPlacePrime
    <3> QED
      BY <1>0, <2>1, <2>3, <3>1
      DEF IInv, TypeOK, QueueBounded, Sleepers, OwnThreads, Hands, Fresh
  <2> QED
    BY <1>1, <2>2, <2>3 DEF TestRunning
<1>2. CASE GetWait(w)
  <2> USE <1>2 DEF GetWait
  <2>1. Accounted'
    BY <1>0, <1>a
  <2> QED
    BY <1>0, <2>1 DEF IInv, TypeOK, QueueBounded, Sleepers, OwnThreads, Hands, Fresh
<1>3. CASE GetNothing(w)
  <2> USE <1>3 DEF GetNothing
  <2>1. \A t : Place(t) => Place(t)'
    BY <1>0 DEF Place, Queued, Held, Dropped, TypeOK
  <2>2. Accounted'
    BY <1>0, <2>1, AccountedPlace, AccountedPlacePrime
  <2> QED
    BY <1>0, <2>2 DEF IInv, TypeOK, QueueBounded, Sleepers, OwnThreads, Hands, Fresh
<1>4. CASE GetTask(w)
  <2> USE <1>4 DEF GetTask
  <2>1. tasks \in Seq(Task) /\ Len(tasks) \in Nat
    BY <1>0, TailType DEF TypeOK
  <2>2. Head(tasks) \in Task /\ tasks' \in Seq(Task) /\ Len(tasks') = Len(tasks) - 1
    BY <2>1, TailType
  <2>3. TypeOK'
    BY <1>0, <2>2 DEF TypeOK
  <2>4. QueueBounded'
    BY <1>0, <2>1, <2>2 DEF QueueBounded
  <2>5. \A t : Queued(t) => Queued(t)' \/ t = Head(tasks)
    BY <2>1, AmongTail DEF Queued, Among
  <2>6. \A t : Held(t) \/ t = Head(tasks) => Held(t)'
    BY <1>0 DEF Held, TypeOK
  <2>7. \A t : Dropped(t) => Dropped(t)'
    BY <1>0 DEF Dropped, TypeOK
  <2>8. \A t : Place(t) => Place(t)'
    BY <2>5, <2>6, <2>7 DEF Place
  <2>9. Accounted'
    BY <1>0, <2>8, AccountedPlace, AccountedPlacePrime
  <2> QED
    BY <1>0, <2>3, <2>4, <2>9 DEF IInv, TypeOK, Sleepers, OwnThreads, Hands, Fresh
<1>5. CASE CheckRunning(w)
  <2> USE <1>5 DEF CheckRunning
  <2>1. w \in threads
    BY <1>0 DEF OwnThreads
  <2>2. ASSUME NEW t \in accepted, Place(t) PROVE Place(t)'
    <3>1. CASE Held(t)
      <4>1. PICK v \in Workers : wpc[v] \in {"check", "run"} /\ task[v] = t
        BY <3>1 DEF Held
      <4>2. CASE v # w
        BY <4>1, <4>2, <1>0 DEF Place, Held, TypeOK
      <4>3. CASE v = w /\ ~running
        BY <4>1, <4>3, <2>1, <1>0 DEF Place, Dropped, TypeOK
      <4>4. CASE v = w /\ running /\ task[w] # NoTask
        BY <4>1, <4>4, <1>0 DEF Place, Held, TypeOK
      <4>5. CASE v = w /\ running /\ task[w] = NoTask
        BY <4>1, <4>5, <1>0 DEF TypeOK, Task
      <4> QED
        BY <4>2, <4>3, <4>4, <4>5
    <3>2. CASE Queued(t) \/ t \in ran \/ Dropped(t)
      BY <3>2, <1>0 DEF Place, Queued, Dropped, TypeOK
    <3> QED
      BY <3>1, <3>2, <2>2 DEF Place
  <2>3. Accounted'
    BY <1>0, <2>2, AccountedPlace, AccountedPlacePrime
  <2> QED
    BY <1>0, <2>1, <2>3 DEF IInv, TypeOK, QueueBounded, Sleepers, OwnThreads, Hands, Fresh
<1>6. CASE RunTask(w)
  <2> USE <1>6 DEF RunTask
  <2>1. task[w] \in Task
    BY <1>0 DEF Hands
  <2>2. \A t : Place(t) => Place(t)'
    BY <1>0 DEF Place, Queued, Held, Dropped, TypeOK
  <2>3. Accounted'
    BY <1>0, <2>2, AccountedPlace, AccountedPlacePrime
  <2> QED
    BY <1>0, <2>1, <2>3 DEF IInv, TypeOK, QueueBounded, Sleepers, OwnThreads, Hands, Fresh
<1>7. CASE SpuriousWorker(w)
  <2> USE <1>7 DEF SpuriousWorker
  <2>1. wpc[w] = "wait"
    BY <1>0 DEF Sleepers
  <2>2. Accounted'
    BY <1>0, <1>a, <2>1
  <2> QED
    BY <1>0, <2>1, <2>2 DEF IInv, TypeOK, QueueBounded, Sleepers, OwnThreads, Hands, Fresh
<1> QED
  BY <1>1, <1>2, <1>3, <1>4, <1>5, <1>6, <1>7 DEF Worker

-----------------------------------------------------------------------------
\* IInv is an inductive invariant of the pool.
THEOREM Invariance == Spec => []IInv
<1>1. IInv /\ [Next]_vars => IInv'
  <2> SUFFICES ASSUME IInv, [Next]_vars PROVE IInv'
    OBVIOUS
  <2>1. CASE UNCHANGED vars
    BY <2>1 DEF vars, IInv, TypeOK, QueueBounded, Accounted, Queued, Held, Sleepers,
                OwnThreads, Hands, Fresh
  <2> QED
    BY <2>1, OwnerIInv, ClientIInv, WorkerIInv DEF Next
<1> QED
  BY InitIInv, <1>1, PTL DEF Spec

\* The queue never exceeds _max_size, for any number of clients and workers.
THEOREM NeverOverfull == Spec => []QueueBounded
<1>1. IInv => QueueBounded
  BY DEF IInv
<1> QED
  BY Invariance, <1>1, PTL

\* No accepted task vanishes while the pool runs; after stop() only a queued
\* task or the last one of a worker may remain uncalled.
THEOREM NoTaskVanishes == Spec => []Accounted
<1>1. IInv => Accounted
  BY DEF IInv
<1> QED
  BY Invariance, <1>1, PTL

\* The pool's variables keep their types; no empty task is ever called.
THEOREM TypeCorrect == Spec => []TypeOK
<1>1. IInv => TypeOK
  BY DEF IInv
<1> QED
  BY Invariance, <1>1, PTL
=============================================================================
