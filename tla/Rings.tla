------------------------------- MODULE Rings -------------------------------
(***************************************************************************)
(* The two rings of cpp/cpp_coding/ring_buffer, an execution of one or the *)
(* other: SpscRing under the threads of its test, or RteRing under those   *)
(* of its two tests.  The ring that is not under test stays as it is.      *)
(***************************************************************************)
EXTENDS SpscRing, FiniteSets

CONSTANTS
    Producers, Consumers, RteCapacity, ItemsST, ItemsMT, Width   \* of RteRing

\* The static_assert of the second class, whose indices count a whole number of turns
\* of the ring; its tests' num_items, which with RING_SYNC_MT are fewer than the
\* values of an index; and threads of either side.
ASSUME RteAssumption ==
    /\ RteCapacity \in Nat \ {0} /\ \E k \in 0 .. Width - 1 : RteCapacity = 2^k
    /\ \E turns \in 2 .. 2^Width : 2^Width = turns * RteCapacity
    /\ ItemsST \in Nat /\ ItemsMT \in Nat
    /\ Cardinality(Producers) * ItemsMT < 2^Width /\ Cardinality(Consumers) * ItemsMT < 2^Width
    /\ IsFiniteSet(Producers) /\ IsFiniteSet(Consumers)
    /\ Producers # {} /\ Consumers # {} /\ Producers \cap Consumers = {}
    /\ Raw \notin Producers \X Nat

VARIABLES under_test, sync_type, ring, slots, pc, old, new, n, got

rteVars == <<sync_type, ring, slots, pc, old, new, n, got>>

Rte == INSTANCE RteRing WITH Capacity <- RteCapacity, data <- slots

RingsInit ==
    /\ under_test \in {"RingBuffer", "RteRingBuffer"}
    /\ Rte!Init
    /\ under_test = "RingBuffer" => sync_type = "ST"
    /\ Init

RingsNext ==
    \/ under_test = "RingBuffer" /\ Next /\ UNCHANGED <<under_test, rteVars>>
    \/ under_test = "RteRingBuffer" /\ Rte!Next /\ UNCHANGED <<under_test, vars>>

RingsSpec == RingsInit /\ [][RingsNext]_<<under_test, vars, rteVars>>

\* Every thread is scheduled again and again and never blocks: a call that fails
\* is made again at once.
RingsFairness ==
    /\ WF_vars(under_test = "RingBuffer" /\ Producer)
    /\ WF_vars(under_test = "RingBuffer" /\ Consumer)
    /\ WF_vars(under_test = "RingBuffer" /\ Destroy)
    /\ WF_rteVars(under_test = "RteRingBuffer" /\ sync_type = "ST" /\ Rte!Step(Rte!TheProducer))
    /\ WF_rteVars(under_test = "RteRingBuffer" /\ sync_type = "ST" /\ Rte!Step(Rte!TheConsumer))

FairRings == RingsSpec /\ RingsFairness

-----------------------------------------------------------------------------
\* An element is constructed only into free storage and moved out only of storage
\* that holds one, and with RING_SYNC_MT no two threads of one side move at the
\* same index, however their loads and exchanges interleave.
RteSlotOwnership == Rte!SlotOwnership /\ Rte!ClaimsDistinct

\* With RING_SYNC_ST the second ring too is a FIFO, that uses all its slots: no
\* element is lost, duplicated or reordered across the wrap of the 32-bit indices.
RteIsFifo == Rte!IsFifo

\* No thread of the single-threaded sides starves the other, although both spin on
\* calls that fail: the tests with one producer and one consumer come to their end.
\* (With RING_SYNC_MT the tail may stay behind the head for ever: HeadTailAligned.)
TestsEnd ==
    <>(IF under_test = "RingBuffer" THEN obj = "destroyed"
       ELSE sync_type = "ST" => Rte!Finished)
=============================================================================
