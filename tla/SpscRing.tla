------------------------------ MODULE SpscRing ------------------------------
(***************************************************************************)
(* The single-producer single-consumer ring of                             *)
(* cpp/cpp_coding/ring_buffer/ring_buffer.cpp, driven by the two threads   *)
(* of its test_threaded(): one pushes 0, 1, 2, ..., the other pops.        *)
(*                                                                         *)
(* _head is stored by the consumer only and _tail by the producer only, so *)
(* a thread's relaxed load of its own index may share a step with its      *)
(* acquire load of the other one.  Constructing or destroying an element   *)
(* is a step of its own, between the check and the releasing store.        *)
(***************************************************************************)
EXTENDS Integers, Sequences

CONSTANTS
    Capacity,   \* the template parameter: number of slots
    NumPush,    \* elements the producer thread pushes
    NumPop,     \* elements the consumer thread pops
    Raw         \* storage that holds no constructed element

\* The static_assert of the class.
ASSUME CapacityAssumption ==
    Capacity \in Nat \ {0} /\ \E k \in 0..Capacity : Capacity = 2^k

ASSUME ClientAssumption ==
    /\ NumPush \in Nat
    /\ NumPop \in 0..NumPush
    /\ Raw \notin Nat

VARIABLES
    head, tail,   \* _head, _tail
    data,         \* _data
    ppc, i,       \* producer: where it is in push(), the value it pushes
    cpc, value,   \* consumer: where it is in pop(), the values popped so far
    obj           \* the RingBuffer itself: destroyed once ~RingBuffer() has run

vars == <<head, tail, data, ppc, i, cpc, value, obj>>

Slots == 0 .. Capacity - 1

\* & (capacity - 1) is the remainder, Capacity being a power of two.
next_pos(pos) == (pos + 1) % Capacity

\* How many calls of next_pos lead from slot a to slot b.
Distance(a, b) == (b + Capacity - a) % Capacity

TypeOK ==
    /\ head \in Slots /\ tail \in Slots
    /\ data \in [Slots -> 0..NumPush \cup {Raw}]
    /\ ppc \in {"check", "construct", "publish"}
    /\ i \in 0..NumPush
    /\ cpc \in {"check", "take", "release"}
    /\ value \in Seq(0..NumPush)
    /\ obj \in {"alive", "destroyed"}

Init ==
    /\ head = 0 /\ tail = 0
    /\ data = [s \in Slots |-> Raw]
    /\ ppc = "check" /\ i = 0
    /\ cpc = "check" /\ value = <<>>
    /\ obj = "alive"

-----------------------------------------------------------------------------
(* push().  On a full ring it returns false and the thread's while loop    *)
(* calls it again, which changes nothing.                                  *)

PushCheckNoGap ==
    /\ ppc = "check" /\ i < NumPush
    /\ ppc' = "construct"
    /\ UNCHANGED <<head, tail, data, i, cpc, value, obj>>

PushCheck ==
    /\ ppc = "check" /\ i < NumPush
    /\ next_pos(tail) # head
    /\ ppc' = "construct"
    /\ UNCHANGED <<head, tail, data, i, cpc, value, obj>>

PushConstruct ==
    /\ ppc = "construct"
    /\ data' = [data EXCEPT ![tail] = i]
    /\ ppc' = "publish"
    /\ UNCHANGED <<head, tail, i, cpc, value, obj>>

PushPublish ==
    /\ ppc = "publish"
    /\ tail' = next_pos(tail)
    /\ i' = i + 1
    /\ ppc' = "check"
    /\ UNCHANGED <<head, data, cpc, value, obj>>

-----------------------------------------------------------------------------
(* pop().  On an empty ring it returns false and is called again.          *)

PopCheckAfterLast ==
    /\ cpc = "check" /\ Len(value) < NumPop
    /\ head # next_pos(tail)
    /\ cpc' = "take"
    /\ UNCHANGED <<head, tail, data, ppc, i, value, obj>>

PopCheck ==
    /\ cpc = "check" /\ Len(value) < NumPop
    /\ head # tail
    /\ cpc' = "take"
    /\ UNCHANGED <<head, tail, data, ppc, i, value, obj>>

\* The element is moved out and its husk destroyed.
PopTake ==
    /\ cpc = "take"
    /\ value' = Append(value, data[head])
    /\ data' = [data EXCEPT ![head] = Raw]
    /\ cpc' = "release"
    /\ UNCHANGED <<head, tail, ppc, i, obj>>

PopRelease ==
    /\ cpc = "release"
    /\ head' = next_pos(head)
    /\ cpc' = "check"
    /\ UNCHANGED <<tail, data, ppc, i, value, obj>>

-----------------------------------------------------------------------------
\* Both loops have run to their end, both threads are joined.
Joined ==
    /\ ppc = "check" /\ i = NumPush
    /\ cpc = "check" /\ Len(value) = NumPop

DestroyNothing ==
    /\ Joined /\ obj = "alive"
    /\ obj' = "destroyed"
    /\ UNCHANGED <<head, tail, data, ppc, i, cpc, value>>

\* ~RingBuffer(): the elements from head up to tail are destroyed.
Destroy ==
    /\ Joined /\ obj = "alive"
    /\ data' = [s \in Slots |->
                  IF Distance(head, s) < Distance(head, tail) THEN Raw ELSE data[s]]
    /\ obj' = "destroyed"
    /\ UNCHANGED <<head, tail, ppc, i, cpc, value>>

Terminating == obj = "destroyed" /\ UNCHANGED vars

Producer == PushCheck \/ PushConstruct \/ PushPublish
Consumer == PopCheck \/ PopTake \/ PopRelease
Next == Producer \/ Consumer \/ Destroy \/ Terminating

Spec == Init /\ [][Next]_vars

-----------------------------------------------------------------------------
(* The producer never constructs over a live element and the consumer      *)
(* never moves from storage without one: the check made before another     *)
(* thread's steps still covers the slot when it is used.                   *)
SlotOwnership ==
    /\ ppc = "construct" => data[tail] = Raw
    /\ cpc = "take" => data[head] # Raw

(* Every element ever constructed has been destroyed, by pop() or by the   *)
(* destructor's walk from head to tail, when ~RingBuffer() returns.        *)
NothingLeaks == obj = "destroyed" => \A s \in Slots : data[s] = Raw

(* The ring is a bounded FIFO that holds Capacity - 1 elements: push()     *)
(* linearizes at its store of _tail, pop() where the element is moved out. *)
(* This is the assert(value == i) of the test, and more: no element is     *)
(* lost, duplicated or reordered.                                          *)
Fifo == INSTANCE BoundedFifo WITH
            Elements <- 0..NumPush, Bound <- Capacity - 1,
            sent <- [k \in 1..i |-> k - 1], rcvd <- value
IsFifo == Fifo!FifoSpec
=============================================================================
