------------------------------- MODULE RteRing -------------------------------
(***************************************************************************)
(* The DPDK-style ring of cpp/cpp_coding/ring_buffer/rte_ring_buffer.cpp,  *)
(* with both synchronisation types of its template parameter, each under   *)
(* the threads of the test that uses it: one producer and one consumer for *)
(* RING_SYNC_ST, several of each for RING_SYNC_MT.                         *)
(*                                                                         *)
(* push() and pop() are the same three phases on opposite sides: claim an  *)
(* index by advancing the side's head, move the element, publish the index *)
(* by advancing the side's tail.  One set of actions models both; every    *)
(* load, store and compare_exchange of an atomic is a step of its own.     *)
(***************************************************************************)
EXTENDS Integers, Sequences

CONSTANTS
    Producers, Consumers,   \* threads
    Capacity,               \* template parameter capacity
    ItemsST, ItemsMT,       \* num_items of the two tests
    Width,                  \* bits of an index: 32 in the code
    Raw                     \* storage that holds no constructed element

VARIABLES
    sync_type,  \* template parameter sync_type: "ST" or "MT"
    ring,       \* _prod and _cons, each with its head and tail
    data,       \* _data
    pc,         \* where each thread is in its push() or pop()
    old, new,   \* a thread's prod_head, prod_head_next (cons_head, ...)
    n,          \* calls a thread has completed
    got         \* the elements each consumer popped

vars == <<sync_type, ring, data, pc, old, new, n, got>>

Threads == Producers \cup Consumers
Index == 0 .. 2^Width - 1
u32(x) == x % 2^Width
Slot(x) == x % Capacity
Side(t) == IF t \in Producers THEN "prod" ELSE "cons"
TheProducer == CHOOSE p \in Producers : TRUE
TheConsumer == CHOOSE c \in Consumers : TRUE

\* The calls that must succeed before a thread of the test ends.
Calls(t) ==
    CASE sync_type = "MT" -> ItemsMT
      [] sync_type = "ST" -> IF t \in {TheProducer, TheConsumer} THEN ItemsST ELSE 0

Elements == Producers \X (0 .. ItemsST + ItemsMT)

TypeOK ==
    /\ sync_type \in {"ST", "MT"}
    /\ ring \in [{"prod", "cons"} -> [head : Index, tail : Index]]
    /\ data \in [0..Capacity-1 -> Elements \cup {Raw}]
    /\ pc \in [Threads -> {"load", "check", "claim", "move", "publish"}]
    /\ old \in [Threads -> Index] /\ new \in [Threads -> Index]
    /\ n \in [Threads -> 0 .. ItemsST + ItemsMT]
    /\ got \in [Consumers -> Seq(Elements \cup {Raw})]

Init ==
    /\ sync_type \in {"ST", "MT"}
    /\ ring = [s \in {"prod", "cons"} |-> [head |-> 0, tail |-> 0]]
    /\ data = [s \in 0..Capacity-1 |-> Raw]
    /\ pc = [t \in Threads |-> "load"]
    /\ old = [t \in Threads |-> 0] /\ new = [t \in Threads |-> 0]
    /\ n = [t \in Threads |-> 0]
    /\ got = [c \in Consumers |-> <<>>]

Goto(t, from, to) == pc[t] = from /\ pc' = [pc EXCEPT ![t] = to]

-----------------------------------------------------------------------------
LoadHead(t) ==
    /\ n[t] < Calls(t)
    /\ Goto(t, "load", "check")
    /\ old' = [old EXCEPT ![t] = ring[Side(t)].head]
    /\ UNCHANGED <<sync_type, ring, data, new, n, got>>

EntriesNoOrder(t) ==
    u32(IF t \in Producers THEN Capacity + ring["cons"].tail - old[t]
                           ELSE ring["prod"].head - old[t])

\* available in push(), length in pop().
Entries(t) ==
    u32(IF t \in Producers THEN Capacity + ring["cons"].tail - old[t]
                           ELSE ring["prod"].tail - old[t])

\* Full or empty: the call returns false and the test calls it again.
ReturnFalse(t) ==
    /\ Entries(t) = 0
    /\ Goto(t, "check", "load")
    /\ UNCHANGED <<sync_type, ring, data, old, new, n, got>>

CheckEntries(t) ==
    /\ Entries(t) # 0
    /\ Goto(t, "check", "claim")
    /\ new' = [new EXCEPT ![t] = u32(old[t] + 1)]
    /\ UNCHANGED <<sync_type, ring, data, old, n, got>>

CanClaimAlways(t) == TRUE

\* RING_SYNC_ST stores unconditionally, RING_SYNC_MT compares first.
CanClaim(t) == sync_type = "ST" \/ ring[Side(t)].head = old[t]

Claim(t) ==
    /\ CanClaim(t)
    /\ Goto(t, "claim", "move")
    /\ ring' = [ring EXCEPT ![Side(t)].head = new[t]]
    /\ UNCHANGED <<sync_type, data, old, new, n, got>>

\* Another thread took the index: the do-while reads both indices again.
LoseClaim(t) ==
    /\ ~CanClaim(t)
    /\ Goto(t, "claim", "load")
    /\ UNCHANGED <<sync_type, ring, data, old, new, n, got>>

MoveIn(t) ==
    /\ t \in Producers
    /\ Goto(t, "move", "publish")
    /\ data' = [data EXCEPT ![Slot(old[t])] = <<t, n[t]>>]
    /\ UNCHANGED <<sync_type, ring, old, new, n, got>>

MoveOut(t) ==
    /\ t \in Consumers
    /\ Goto(t, "move", "publish")
    /\ got' = [got EXCEPT ![t] = Append(@, data[Slot(old[t])])]
    /\ data' = [data EXCEPT ![Slot(old[t])] = Raw]
    /\ UNCHANGED <<sync_type, ring, old, new, n>>

PublishConsumersOnly(t) ==
    /\ sync_type = "ST" \/ ring[Side(t)].tail = old[t]
    /\ Goto(t, "publish", "load")
    /\ ring' = IF t \in Consumers THEN [ring EXCEPT !["cons"].tail = new[t]] ELSE ring
    /\ n' = [n EXCEPT ![t] = @ + 1]
    /\ UNCHANGED <<sync_type, data, old, new, got>>

Publish(t) ==
    /\ sync_type = "ST" \/ ring[Side(t)].tail = old[t]
    /\ Goto(t, "publish", "load")
    /\ ring' = [ring EXCEPT ![Side(t)].tail = new[t]]
    /\ n' = [n EXCEPT ![t] = @ + 1]
    /\ UNCHANGED <<sync_type, data, old, new, got>>

\* compare_exchange_strong(prod_head, ...) failed: it has put the current
\* tail into prod_head, and the loop calls it again with that.
RetryPublish(t) ==
    /\ sync_type = "MT" /\ pc[t] = "publish" /\ ring[Side(t)].tail # old[t]
    /\ old' = [old EXCEPT ![t] = ring[Side(t)].tail]
    /\ UNCHANGED <<sync_type, ring, data, pc, new, n, got>>

Step(t) ==
    \/ LoadHead(t) \/ ReturnFalse(t) \/ CheckEntries(t)
    \/ Claim(t) \/ LoseClaim(t)
    \/ MoveIn(t) \/ MoveOut(t)
    \/ Publish(t) \/ RetryPublish(t)

\* Every thread has made its calls and is joined.
Finished == \A t \in Threads : n[t] = Calls(t)

Next == (\E t \in Threads : Step(t)) \/ (Finished /\ UNCHANGED vars)

Spec == Init /\ [][Next]_vars

-----------------------------------------------------------------------------
(* An element is constructed only into free storage and moved out only of  *)
(* storage that holds one: with RING_SYNC_ST the tail of each side covers  *)
(* the slots the other side may use, across the wrap of the indices too.   *)
SlotOwnership ==
    /\ TypeOK
    /\ sync_type = "ST" =>
         \A t \in Threads :
             pc[t] = "move" => (data[Slot(old[t])] = Raw <=> t \in Producers)

(* With RING_SYNC_ST the ring is a FIFO that holds up to Capacity elements *)
(* (no slot is sacrificed): push() linearizes where it publishes the tail, *)
(* pop() where it moves the element out.                                   *)
Fifo == INSTANCE BoundedFifo WITH
            Bound <- Capacity,
            sent <- IF sync_type = "ST"
                    THEN [k \in 1..n[TheProducer] |-> <<TheProducer, k - 1>>] ELSE <<>>,
            rcvd <- IF sync_type = "ST" THEN got[TheConsumer] ELSE <<>>
IsFifo == Fifo!FifoSpec

(* With RING_SYNC_MT two threads of one side never work on the same index  *)
(* between claiming and moving, however their loads and exchanges          *)
(* interleave.                                                             *)
ClaimsDistinct ==
    \A s, t \in Threads :
        /\ s # t /\ Side(s) = Side(t)
        /\ pc[s] = "move" /\ pc[t] = "move"
        => old[s] # old[t]

(* "align producer head && tail": once every push() that claimed an index  *)
(* has published, the producer's tail has caught up with its head.         *)
HeadTailAligned ==
    sync_type = "MT" /\ (\A p \in Producers : pc[p] \notin {"move", "publish"})
        => ring["prod"].head = ring["prod"].tail
=============================================================================
