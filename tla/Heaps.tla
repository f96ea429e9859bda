------------------------------- MODULE Heaps -------------------------------
(***************************************************************************)
(* The two heap allocators side by side.  A program is linked with one of  *)
(* them, chosen in the initial state; the other's heap is never touched.   *)
(***************************************************************************)
EXTENDS Integers

CONSTANTS
    Sizes,                      \* payload sizes asked for, in words
    TagWords, HeaderWords,      \* words of the two heaps (bounds on the run)
    Junk                        \* what a caller's word may be as a number

ASSUME SizesAssumption ==
    Sizes \subseteq Nat /\ Junk \subseteq Nat /\ TagWords \in Nat /\ HeaderWords \in Nat

VARIABLES
    allocator,                                                          \* "tags" or "headers"
    tag_mem, tag_start, tag_end, tag_live, tag_moving, tag_undefined,   \* ImplicitHeap
    hdr_mem, hdr_start, hdr_end, hdr_live                               \* LinkedHeap

tagVars == <<tag_mem, tag_start, tag_end, tag_live, tag_moving, tag_undefined>>
hdrVars == <<hdr_mem, hdr_start, hdr_end, hdr_live>>
vars == <<allocator, tagVars, hdrVars>>

Tags == INSTANCE ImplicitHeap WITH
    MaxWords <- TagWords, mem <- tag_mem, break_start <- tag_start, break_end <- tag_end,
    live <- tag_live, moving <- tag_moving, undefined <- tag_undefined
Headers == INSTANCE LinkedHeap WITH
    MaxWords <- HeaderWords, mem <- hdr_mem, break_start <- hdr_start, break_end <- hdr_end,
    live <- hdr_live

Init ==
    /\ allocator \in {"tags", "headers"}
    /\ Tags!Init /\ Headers!Init

TagsStep == allocator = "tags" /\ Tags!Next /\ UNCHANGED <<allocator, hdrVars>>
HeadersStep == allocator = "headers" /\ Headers!Next /\ UNCHANGED <<allocator, tagVars>>

Next == TagsStep \/ HeadersStep

Spec == Init /\ [][Next]_vars

-----------------------------------------------------------------------------
(* walk_heap() steps from block to block exactly to the end of the heap,   *)
(* whatever was allocated, freed and reallocated before: with boundary     *)
(* tags each header equals its footer and two neighbours are never both    *)
(* free, as mfree() coalesces at once; without them the allocated blocks   *)
(* met are just the ones the caller holds.  With boundary tags this is so  *)
(* until mrealloc(), which takes the caller's data for the size of its     *)
(* block, grants more words than the block has and the caller uses them,   *)
(* or copies a negative length.                                            *)
HeapWalkable == Tags!HeapWalkable /\ Tags!Coalesced /\ Headers!HeapWalkable

(* No header or footer is ever written into memory the caller holds: every *)
(* live block has room for the words the caller asked for and keeps those  *)
(* it was filled with, with boundary tags until mrealloc() grants a block  *)
(* that is too small.                                                      *)
PayloadIntact == Tags!PayloadIntact /\ Headers!PayloadIntact

(* Both allocators keep the promise of Allocator: blocks within the heap,  *)
(* disjoint, and sbrk() called only if no free stretch is long enough,     *)
(* also where mfree() leaves the merging to find_fit(), and up to a        *)
(* mrealloc() that grants too much.                                        *)
IsAllocator == Tags!IsAllocator /\ Headers!IsAllocator
=============================================================================
