----------------------------- MODULE Allocator -----------------------------
(***************************************************************************)
(* What both heap allocators of                                            *)
(* books/a_heavily_commented_linux_kernel_source_code/chapter05_...        *)
(* promise their caller: a block is a stretch of the heap that overlaps no *)
(* other live block, and the heap is extended only when no stretch of free *)
(* memory is long enough.  Sizes and addresses are in words.               *)
(***************************************************************************)
EXTENDS Integers

CONSTANTS
    Start,      \* address of the first word
    BlockSizes  \* sizes, bookkeeping included, that may be asked for

VARIABLES
    blocks,     \* live blocks
    top         \* first address behind the heap

avars == <<blocks, top>>

Words(b) == b.at .. b.at + b.size - 1
Disjoint(b, c) == b.at + b.size <= c.at \/ c.at + c.size <= b.at
Free(b) ==
    /\ b.at >= Start /\ b.at + b.size <= top
    /\ \A c \in blocks : Disjoint(b, c)

Room(n) == \E at \in Start .. top - n : Free([at |-> at, size |-> n])

AInit == blocks = {} /\ top = Start

Reuse(n) ==
    /\ \E at \in Start .. top - n : \E size \in n .. top - at :
         /\ Free([at |-> at, size |-> size])
         /\ blocks' = blocks \cup {[at |-> at, size |-> size]}
    /\ UNCHANGED top

Extend(n) ==
    /\ ~Room(n)
    /\ blocks' = blocks \cup {[at |-> top, size |-> n]}
    /\ top' = top + n

Release(b) ==
    /\ blocks' = blocks \ {b}
    /\ UNCHANGED top

ANext ==
    \/ \E n \in BlockSizes : Reuse(n) \/ Extend(n)
    \/ \E b \in blocks : Release(b)

ASpec == AInit /\ [][ANext]_avars
=============================================================================
