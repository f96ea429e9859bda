----------------------------- MODULE LinkedHeap -----------------------------
(***************************************************************************)
(* The allocator without footers of                                        *)
(* books/a_heavily_commented_linux_kernel_source_code/                     *)
(* chapter05_linux_kernel_architecture/malloc_singly_linked_list.c: mfree()*)
(* only clears a bit, find_fit() merges free neighbours as it walks.       *)
(*                                                                         *)
(* Memory is an array of 8-byte words, as in ImplicitHeap.  mrealloc() has *)
(* an empty body and is never called.                                      *)
(***************************************************************************)
EXTENDS Integers

CONSTANTS
    Sizes,      \* payload sizes asked for, in words
    MaxWords    \* words of the heap (a bound on the run)

VARIABLES
    mem,                    \* the words
    break_start, break_end,
    live                    \* blocks the caller holds: ptr, words asked for

vars == <<mem, break_start, break_end, live>>

NULL == 0
Base == 1           \* what the first sbrk(0) returns
Overhead == 1       \* the header
Addr == Base .. MaxWords

Tag(size, allocated) == [size |-> size, allocated |-> allocated, owner |-> NULL]
Data(ptr) == [size |-> 0, allocated |-> FALSE, owner |-> ptr]
Dead == Data(-1)    \* a word nobody will read as what it was
Word == [size : 0..MaxWords, allocated : BOOLEAN, owner : {NULL, -1} \cup Addr]

TypeOK ==
    /\ mem \in [Addr -> Word]
    /\ break_start \in {NULL, Base} /\ break_end \in {NULL} \cup 1 .. MaxWords + 1
    /\ live \subseteq [ptr : 1 .. MaxWords + 1, asked : Sizes]

Init ==
    /\ mem = [a \in Addr |-> Dead]
    /\ break_start = NULL /\ break_end = NULL
    /\ live = {}

-----------------------------------------------------------------------------
SetFree(m, h, size) ==
    [a \in Addr |-> IF a = h THEN Tag(size, FALSE)
                    ELSE IF a \in h + 1 .. h + size - 1 THEN Dead ELSE m[a]]

MergesNever(m, h, next) == FALSE

Merges(m, h, next) == ~m[h].allocated /\ next < break_end /\ ~m[next].allocated

\* One turn of the loop of find_fit() at block x.at, which stays where it is
\* once the loop is left.
Turn(x, n) ==
    LET block == x.mem[x.at]
        next == x.at + block.size
    IN  IF x.at >= break_end \/ (~block.allocated /\ block.size >= n) THEN x
        ELSE IF Merges(x.mem, x.at, next)
             THEN [x EXCEPT !.mem = SetFree(x.mem, x.at, block.size + x.mem[next].size)]
        ELSE [x EXCEPT !.at = next]

\* A free block of at least n words, and the memory after the merges made on
\* the way to it, which stay also if nothing is found.  A turn takes one more
\* block into account, so that there are no more turns than words.
find_fit(m, h, n) ==
    LET turns[k \in 0 .. MaxWords] ==
            IF k = 0 THEN [mem |-> m, at |-> h] ELSE Turn(turns[k - 1], n)
        last == turns[MaxWords]
    IN  IF last.at >= break_end THEN [last EXCEPT !.at = NULL] ELSE last

\* The rest of a longer block is split off, down to a bare header.
Split(m, h, n) ==
    IF m[h].size > n
    THEN [m EXCEPT ![h] = Tag(n, FALSE), ![h + n] = Tag(m[h].size - n, FALSE)]
    ELSE m

Allocated(m, h, size, ptr, asked) ==
    [a \in Addr |-> IF a = h THEN Tag(size, TRUE)
                    ELSE IF a \in ptr .. ptr + asked - 1 THEN Data(ptr) ELSE m[a]]

\* The caller gets the block and fills the words it asked for.
mmalloc(size) ==
    LET n == size + Overhead
        start == IF break_start = NULL THEN Base ELSE break_start
        end == IF break_end = NULL THEN start ELSE break_end
        fit == find_fit(mem, start, n)
        split == Split(fit.mem, fit.at, n)
    IN  /\ break_start' = start
        /\ \/ /\ fit.at # NULL
              /\ mem' = Allocated(split, fit.at, split[fit.at].size, fit.at + Overhead, size)
              /\ live' = live \cup {[ptr |-> fit.at + Overhead, asked |-> size]}
              /\ UNCHANGED break_end
           \/ /\ fit.at = NULL
              /\ end + n <= MaxWords + 1
              /\ mem' = Allocated(fit.mem, end, n, end + Overhead, size)
              /\ live' = live \cup {[ptr |-> end + Overhead, asked |-> size]}
              /\ break_end' = end + n

mfree(b) ==
    /\ mem' = SetFree(mem, b.ptr - Overhead, mem[b.ptr - Overhead].size)
    /\ live' = live \ {b}
    /\ UNCHANGED <<break_start, break_end>>

Next ==
    \/ \E size \in Sizes : mmalloc(size)
    \/ \E b \in live : mfree(b)

Spec == Init /\ [][Next]_vars

-----------------------------------------------------------------------------
\* One turn of the loop of walk_heap(), and what it has met at its end.
Walk(x) ==
    IF x.at >= break_end THEN x
    ELSE [at |-> x.at + mem[x.at].size, met |-> x.met \cup {x.at}]

walk_heap ==
    LET walked[k \in 0 .. MaxWords] ==
            IF k = 0 THEN [at |-> break_start, met |-> {}] ELSE Walk(walked[k - 1])
    IN  walked[MaxWords]

(* walk_heap() steps from block to block exactly to the end of the heap and*)
(* meets, as allocated blocks, just the ones the caller holds.             *)
HeapWalkable ==
    /\ TypeOK
    /\ walk_heap.at = break_end
    /\ {h \in walk_heap.met : mem[h].allocated} = {b.ptr - Overhead : b \in live}

(* No header is ever written into memory the caller holds, and a block has *)
(* room for what was asked for.                                            *)
PayloadIntact ==
    \A b \in live :
        /\ b.asked + Overhead <= mem[b.ptr - Overhead].size
        /\ \A a \in b.ptr .. b.ptr + b.asked - 1 : mem[a] = Data(b.ptr)

(* The allocator keeps the promise of Allocator although mfree() does not  *)
(* coalesce: find_fit() overlooks no free stretch that is long enough.     *)
Promise == INSTANCE Allocator WITH
    Start <- Base,
    BlockSizes <- {s + Overhead : s \in Sizes},
    blocks <- {[at |-> b.ptr - Overhead, size |-> mem[b.ptr - Overhead].size] : b \in live},
    top <- IF break_end = NULL THEN Base ELSE break_end
IsAllocator == Promise!ASpec
=============================================================================
