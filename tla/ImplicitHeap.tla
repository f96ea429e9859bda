---------------------------- MODULE ImplicitHeap ----------------------------
(***************************************************************************)
(* The allocator with boundary tags of                                     *)
(* books/a_heavily_commented_linux_kernel_source_code/                     *)
(* chapter05_linux_kernel_architecture/                                    *)
(* malloc_implicit_list_biredirectional.c.                                 *)
(*                                                                         *)
(* Memory is an array of 8-byte words, so ALIGN() rounds a size up to a    *)
(* number of words.  A header or footer is a word with a size and the      *)
(* allocated bit; the caller fills what it asked for with words of its     *)
(* own.  sbrk() extends the heap without gaps: nobody else moves the break.*)
(***************************************************************************)
EXTENDS Integers, FiniteSets

CONSTANTS
    Sizes,      \* payload sizes asked for, in words
    MaxWords,   \* words of the heap (a bound on the run)
    Junk        \* what a caller's word may be as a number

VARIABLES
    mem,            \* the words
    break_start, break_end,
    live,           \* blocks the caller holds: ptr, words it asked for and has filled
    moving,         \* mrealloc() between mfree() and mmalloc()
    undefined       \* what happens now: memcpy() was given a negative length, or
                    \* the caller more words than its block has

vars == <<mem, break_start, break_end, live, moving, undefined>>

NULL == 0
Prologue == 1                       \* address of the first word of the heap
Overhead == 2                       \* header and footer
MIN_BLOCK_SIZE == 3
Addr == Prologue .. MaxWords

Tag(size, allocated) == [size |-> size, allocated |-> allocated, owner |-> NULL]
Data(ptr) == [size |-> 0, allocated |-> FALSE, owner |-> ptr]
Dead == Data(-1)                    \* a word nobody will read as what it was
IsTag(w) == w.owner = NULL
Word == [size : 0..MaxWords, allocated : BOOLEAN, owner : {NULL, -1} \cup Addr]
Held == [ptr : Addr, filled : Nat]

TypeOK ==
    /\ mem \in [Addr -> Word]
    /\ break_start \in {NULL} \cup Addr /\ break_end \in {NULL} \cup 1 .. MaxWords + 1
    /\ live \subseteq Held
    /\ moving \subseteq [ptr : Addr, old : Nat, size : Nat] /\ Cardinality(moving) <= 1
    /\ undefined \in BOOLEAN

Init ==
    /\ mem = [a \in Addr |-> Dead]
    /\ break_start = NULL /\ break_end = NULL
    /\ live = {} /\ moving = {} /\ undefined = FALSE

-----------------------------------------------------------------------------
(* The macros.                                                             *)

NEXT_BLOCK(m, h) == h + m[h].size
FOOTER(m, h) == h + m[h].size - 1
PREV_BLOCK(m, h) == h - m[h - 1].size

SetTags(m, h, size, allocated) ==
    [m EXCEPT ![h] = Tag(size, allocated), ![h + size - 1] = Tag(size, allocated)]

\* The words between the tags of a free block keep no meaning.
SetFree(m, h, size) ==
    [a \in Addr |-> IF a \in h + 1 .. h + size - 2 THEN Dead ELSE SetTags(m, h, size, FALSE)[a]]

ALLOCATE_BLOCK(m, h, size) == SetTags(m, h, size, TRUE)
DEALLOCATE_BLOCK(m, h) == SetFree(m, h, m[h].size)

Suits(m, h, n) == ~m[h].allocated /\ m[h].size >= n

\* One turn of the loop of find_fit() at block x.at, which stays where it is
\* once the loop is left.
Turn(x, n) ==
    LET next == NEXT_BLOCK(x.mem, x.at)
    IN  IF x.at >= break_end \/ Suits(x.mem, x.at, n) THEN x
        ELSE IF ~x.mem[x.at].allocated /\ next < break_end /\ ~x.mem[next].allocated
             THEN [x EXCEPT !.mem = SetFree(x.mem, x.at, x.mem[x.at].size + x.mem[next].size)]
        ELSE [x EXCEPT !.at = next]

\* A free block of at least n words, and the memory after the merges made on
\* the way to it.  A turn takes one more block into account, so that there are
\* no more turns than words.
find_fit(m, h, n) ==
    LET turns[k \in 0 .. MaxWords] ==
            IF k = 0 THEN [mem |-> m, at |-> h] ELSE Turn(turns[k - 1], n)
        last == turns[MaxWords]
    IN  IF last.at >= break_end THEN [last EXCEPT !.at = NULL] ELSE last

SplitAlways(m, h, n) ==
    IF m[h].size > n
    THEN SetTags([m EXCEPT ![h] = Tag(n, FALSE)], h + n, m[h].size - n, FALSE)
    ELSE m

\* What is left over is split off if it can hold a block of MIN_BLOCK_SIZE.
Split(m, h, n) ==
    IF m[h].size >= n + MIN_BLOCK_SIZE
    THEN SetTags([m EXCEPT ![h] = Tag(n, FALSE)], h + n, m[h].size - n, FALSE)
    ELSE m

\* mmalloc() up to its return: the memory, the block's header, the new
\* break_start and break_end.
Allocation(size) ==
    LET n == size + Overhead
        first == break_start = NULL
        m == IF first THEN ALLOCATE_BLOCK(mem, Prologue, Overhead) ELSE mem
        start == IF first THEN NEXT_BLOCK(m, Prologue) ELSE break_start
        end == IF break_end = NULL THEN start ELSE break_end
        fit == find_fit(m, start, n)
        split == Split(fit.mem, fit.at, n)
    IN  IF fit.at # NULL
        THEN [mem |-> ALLOCATE_BLOCK(split, fit.at, split[fit.at].size),
              at |-> fit.at, start |-> start, end |-> break_end]
        ELSE [mem |-> ALLOCATE_BLOCK(fit.mem, end, n),
              at |-> end, start |-> start, end |-> end + n]

\* Bounds of the run: the heap does not grow beyond MaxWords.
MayGrow(size) ==
    (IF break_end = NULL THEN Prologue + Overhead ELSE break_end) + size + Overhead <= MaxWords + 1
HasRoom(size) ==
    MayGrow(size) \/ find_fit(mem, break_start, size + Overhead).at # NULL

Fill(m, ptr, n) == [a \in Addr |-> IF a \in ptr .. ptr + n - 1 THEN Data(ptr) ELSE m[a]]

\* The caller gets the block and fills the words it asked for.
GetBlock(size, asked) ==
    LET r == Allocation(size)
    IN  /\ mem' = Fill(r.mem, r.at + 1, asked)
        /\ break_start' = r.start /\ break_end' = r.end
        /\ live' = live \cup {[ptr |-> r.at + 1, filled |-> asked]}

mmalloc(size) ==
    /\ moving = {} /\ HasRoom(size)
    /\ GetBlock(size, size)
    /\ UNCHANGED <<moving, undefined>>

-----------------------------------------------------------------------------
FreedGreedy(m, h) ==
    IF NEXT_BLOCK(m, h) < break_end
    THEN SetFree(m, h, m[h].size + m[NEXT_BLOCK(m, h)].size)
    ELSE DEALLOCATE_BLOCK(m, h)

\* mfree(): the block is merged with its free neighbours.
Freed(m, h) ==
    LET size == m[h].size
        prev == PREV_BLOCK(m, h)
        next == NEXT_BLOCK(m, h)
        prevFree == prev >= break_start /\ ~m[prev].allocated
        nextFree == next < break_end /\ ~m[next].allocated
    IN  CASE ~prevFree /\ ~nextFree -> DEALLOCATE_BLOCK(m, h)
          [] ~prevFree /\ nextFree -> SetFree(m, h, size + m[next].size)
          [] prevFree /\ ~nextFree -> SetFree(m, prev, m[prev].size + size)
          [] prevFree /\ nextFree -> SetFree(m, prev, m[prev].size + size + m[next].size)

mfree(b) ==
    /\ moving = {}
    /\ mem' = Freed(mem, b.ptr - 1)
    /\ live' = live \ {b}
    /\ UNCHANGED <<break_start, break_end, moving, undefined>>

-----------------------------------------------------------------------------
(* mrealloc() takes BLOCK_SIZE(ptr) for the old size: the first word of the*)
(* caller's data, or the footer of a block without payload.                *)

OldSizes(ptr) == IF IsTag(mem[ptr]) THEN {mem[ptr].size} ELSE Junk

\* The block as it is, which the caller fills up to the new size, beyond its end
\* if it is smaller than that.
ReallocReturns(b, size) ==
    /\ moving = {}
    /\ \E old \in OldSizes(b.ptr) : old >= size + Overhead
    /\ mem' = Fill(mem, b.ptr, size)
    /\ live' = (live \ {b}) \cup {[b EXCEPT !.filled = size]}
    /\ undefined' = (mem[b.ptr - 1].size < size + Overhead)
    /\ UNCHANGED <<break_start, break_end, moving>>

ReallocFrees(b, size) ==
    /\ moving = {} /\ MayGrow(size + Overhead)
    /\ \E old \in OldSizes(b.ptr) :
         /\ old < size + Overhead
         /\ moving' = {[ptr |-> b.ptr, old |-> old, size |-> size]}
    /\ mem' = Freed(mem, b.ptr - 1)
    /\ live' = live \ {b}
    /\ UNCHANGED <<break_start, break_end, undefined>>

\* mmalloc(new_size), with the overhead counted twice, then memcpy() of
\* old_size - 2 words: a negative length ends the program.
ReallocAllocates ==
    \E r \in moving :
        LET newptr == Allocation(r.size + Overhead).at + 1
        IN  /\ GetBlock(r.size + Overhead, r.size)
            /\ undefined' = (newptr # r.ptr /\ r.old < Overhead)
            /\ moving' = {}

Next ==
    \/ /\ ~undefined
       /\ \/ \E size \in Sizes : mmalloc(size)
          \/ \E b \in live : mfree(b)
          \/ \E b \in live, size \in Sizes : ReallocReturns(b, size) \/ ReallocFrees(b, size)
          \/ ReallocAllocates
    \/ undefined /\ UNCHANGED vars

Spec == Init /\ [][Next]_vars

-----------------------------------------------------------------------------
\* One turn of the loop of walk_heap(), and what it has met at its end.
Walk(x) ==
    IF x.at >= break_end THEN x
    ELSE [at |-> NEXT_BLOCK(mem, x.at), met |-> x.met \cup {x.at}]

walk_heap ==
    LET walked[k \in 0 .. MaxWords] ==
            IF k = 0 THEN [at |-> break_start, met |-> {}] ELSE Walk(walked[k - 1])
    IN  walked[MaxWords]

(* As long as the program is defined, walk_heap() steps from block to      *)
(* block exactly to the end of the heap, and its assertion                 *)
(* *header == *footer holds for each.                                      *)
HeapWalkable ==
    /\ TypeOK
    /\ ~undefined =>
         /\ walk_heap.at = break_end
         /\ \A h \in walk_heap.met :
              mem[h].size >= Overhead /\ IsTag(mem[h]) /\ mem[h] = mem[FOOTER(mem, h)]

(* mfree() coalesces at once: two neighbouring blocks are never both free. *)
Coalesced ==
    ~undefined => \A h \in walk_heap.met :
        ~mem[h].allocated => NEXT_BLOCK(mem, h) = break_end \/ mem[NEXT_BLOCK(mem, h)].allocated

(* No tag is ever written into memory the caller holds: every live block   *)
(* keeps the words it was filled with, and has room for all of them.       *)
PayloadIntact ==
    ~undefined => \A b \in live :
        /\ b.filled + Overhead <= mem[b.ptr - 1].size
        /\ \A a \in b.ptr .. b.ptr + b.filled - 1 : mem[a] = Data(b.ptr)

(* The allocator keeps the promise of Allocator: blocks within the heap,   *)
(* disjoint, and the heap extended only if no free stretch is long enough. *)
(* The step of the caller that overwrites a header is the last it is       *)
(* about.                                                                  *)
Promise == INSTANCE Allocator WITH
    Start <- Prologue + Overhead,
    BlockSizes <- {s + Overhead : s \in Sizes} \cup {s + 2 * Overhead : s \in Sizes},
    blocks <- {[at |-> b.ptr - 1, size |-> mem[b.ptr - 1].size] : b \in live},
    top <- IF break_end = NULL THEN Prologue + Overhead ELSE break_end
IsAllocator == Promise!AInit /\ [][Promise!ANext \/ undefined']_(Promise!avars)
=============================================================================
