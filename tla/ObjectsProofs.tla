--------------------------- MODULE ObjectsProofs ----------------------------
(***************************************************************************)
(* The heap allocators and the objects that threads share, for every set   *)
(* of sizes, threads and names, for every size of the heap and for every   *)
(* bound on what is made.                                                  *)
(*                                                                         *)
(* The heaps: what walk_heap() finds is a property of the words, so the    *)
(* induction is about a set of addresses, those of the headers, such that  *)
(* the blocks behind them fill the heap without gaps (Tiles).  Merging,    *)
(* splitting and extending change this set and two or three words; every   *)
(* other block stays what it was (SameOutside).  The allocated blocks are  *)
(* those the caller holds, and a block is longer than what was filled into *)
(* it (HdrHeld, TagHeld).  With boundary tags each header also equals its  *)
(* footer (TagEnds), which is how mfree() finds the block before, and no   *)
(* two free blocks are neighbours (TagMerged); without them a merge of     *)
(* find_fit() may be due anywhere in front of it, and the blocks behind it *)
(* are too short (HdrSearch).  A stretch of free words lies within one     *)
(* free block when nothing is left to merge (NoStretch), so a search that  *)
(* finds none may extend the heap.  mrealloc() takes the caller's data for *)
(* the size of its block: once it has granted words that the block does    *)
(* not have and the caller has used them nothing is claimed any more       *)
(* (TagSafe).                                                              *)
(*                                                                         *)
(* The list: post() may change a FooList in place because no view is equal *)
(* to g_foos, and the copy it makes otherwise is at an address that no     *)
(* list has (FreshAddress); the induction needs that every view points to  *)
(* a list that exists and still is what it was.                            *)
(*                                                                         *)
(* The factories: a Stock is in one place, held by threads or in the       *)
(* deleter of exactly one of them (Deleters), and a deleter that is about  *)
(* to remove an entry keeps the factory alive.                             *)
(*                                                                         *)
(* The singleton: the thread whose object stays has returned, so that no   *)
(* other thread's failed exchange deletes it (Winner).                     *)
(***************************************************************************)
EXTENDS Objects, SequenceLemmas, FiniteSetTheorems, TLAPS


-----------------------------------------------------------------------------
(* Blocks that lie side by side, whatever the words of their headers hold  *)
(* beside a size.                                                          *)

\* The blocks with headers B fill the words from s up to e without gaps.
Tiles(B, m, s, e) ==
    /\ B \subseteq s .. e - 1
    /\ s \in B \cup {e}
    /\ \A h \in B : m[h].size \in Nat \ {0} /\ h + m[h].size \in B \cup {e}
    /\ \A g, h \in B : g < h => g + m[g].size <= h

\* Where a block lies.
LEMMA BlocksIn ==
    ASSUME NEW B, NEW m, NEW s \in Nat, NEW e \in Nat, Tiles(B, m, s, e)
    PROVE  \A h \in B :
               /\ h \in Nat /\ s <= h /\ h < e /\ m[h].size \in Nat \ {0}
               /\ h + m[h].size \in B \cup {e} /\ h + m[h].size \in Nat /\ h + m[h].size <= e
<1> SUFFICES ASSUME NEW h \in B
             PROVE  /\ h \in Nat /\ s <= h /\ h < e /\ m[h].size \in Nat \ {0}
                    /\ h + m[h].size \in B \cup {e} /\ h + m[h].size \in Nat /\ h + m[h].size <= e
  OBVIOUS
<1>1. h \in s .. e - 1 /\ m[h].size \in Nat \ {0} /\ h + m[h].size \in B \cup {e}
  BY DEF Tiles
<1>2. h + m[h].size \in s .. e - 1 \/ h + m[h].size = e
  BY <1>1 DEF Tiles
<1> QED BY <1>1, <1>2

\* Every word is in a block.
LEMMA Covering ==
    ASSUME NEW B, NEW m, NEW s \in Nat, NEW e \in Nat, Tiles(B, m, s, e), NEW a \in s .. e - 1
    PROVE  \E h \in B : h <= a /\ a < h + m[h].size
<1> DEFINE S == { k \in Nat : s + k < e => \E h \in B : h <= s + k /\ s + k < h + m[h].size }
<1>1. 0 \in S
  BY DEF Tiles
<1>2. ASSUME NEW k \in Nat, k \in S PROVE k + 1 \in S
  <2> SUFFICES ASSUME s + (k + 1) < e
               PROVE  \E h \in B : h <= s + (k + 1) /\ s + (k + 1) < h + m[h].size
    OBVIOUS
  <2>1. PICK h \in B : h <= s + k /\ s + k < h + m[h].size
    BY <1>2
  <2>2. h \in Nat /\ m[h].size \in Nat \ {0} /\ h + m[h].size \in B \cup {e}
    BY DEF Tiles
  <2>3. CASE s + (k + 1) < h + m[h].size
    BY <2>1, <2>2, <2>3
  <2>4. CASE s + (k + 1) = h + m[h].size
    <3>1. h + m[h].size \in B
      BY <2>2, <2>4
    <3>2. PICK g \in B : g = h + m[h].size
      BY <3>1
    <3>3. m[g].size \in Nat \ {0}
      BY DEF Tiles
    <3> QED BY <2>2, <2>4, <3>2, <3>3
  <2> QED BY <2>1, <2>2, <2>3, <2>4
<1> HIDE DEF S
<1>3. a - s \in S
  <2>1. a - s \in Nat
    OBVIOUS
  <2> QED BY <1>1, <1>2, <2>1, Induction
<1> QED BY <1>3 DEF S

\* A block ends where the next one begins, so that the block before h ends at h.
LEMMA Before ==
    ASSUME NEW B, NEW m, NEW s \in Nat, NEW e \in Nat, Tiles(B, m, s, e),
           NEW h \in B \cup {e}, h # s, s <= e
    PROVE  \E g \in B : g < h /\ g + m[g].size = h
<1>0. \A g \in B : g \in Nat /\ s <= g /\ g < e
  BY BlocksIn
<1>1. h \in Nat /\ s < h /\ h <= e
  <2>1. CASE h \in B
    BY <2>1, <1>0
  <2>2. CASE h = e
    BY <2>2
  <2> QED BY <2>1, <2>2
<1>2. h - 1 \in s .. e - 1
  BY <1>1
<1>3. PICK g \in B : g <= h - 1 /\ h - 1 < g + m[g].size
  BY <1>2, Covering
<1>4. g \in Nat /\ m[g].size \in Nat /\ g + m[g].size \in B \cup {e}
  BY DEF Tiles
<1>5. g + m[g].size <= h
  <2>1. CASE h \in B
    BY <1>1, <1>3, <1>4, <2>1 DEF Tiles
  <2>2. CASE h = e
    BY <1>4, <2>2 DEF Tiles
  <2> QED BY <2>1, <2>2
<1> QED BY <1>1, <1>3, <1>4, <1>5

\* The blocks from x up to y become one.
LEMMA Joined ==
    ASSUME NEW B, NEW m, NEW s \in Nat, NEW e \in Nat, Tiles(B, m, s, e),
           NEW x \in B, NEW y \in B \cup {e}, x < y, NEW M,
           M[x].size = y - x,
           \A h \in B : (h < x \/ y <= h) => M[h].size = m[h].size
    PROVE  Tiles({h \in B : h <= x \/ y <= h}, M, s, e)
<1> DEFINE C == {h \in B : h <= x \/ y <= h}
<1>2. \A h \in B : h \in Nat /\ s <= h /\ h < e /\ m[h].size \in Nat \ {0} /\ h + m[h].size \in B \cup {e}
  BY BlocksIn
<1>1. x \in Nat /\ y \in Nat /\ s <= x /\ y <= e
  <2>1. x \in Nat /\ s <= x
    BY <1>2
  <2>2. y \in B => y \in Nat /\ y <= e
    BY <1>2
  <2>3. y \in B \/ y = e
    OBVIOUS
  <2> QED BY <2>1, <2>2, <2>3
<1>3. C \subseteq s .. e - 1 /\ s \in C \cup {e}
  BY <1>1, <1>2 DEF Tiles
<1>4. ASSUME NEW h \in C PROVE M[h].size \in Nat \ {0} /\ h + M[h].size \in C \cup {e}
  <2>1. CASE h = x
    BY <1>1, <2>1
  <2>2. CASE h < x
    <3>1. h + m[h].size <= x
      BY <1>1, <2>2 DEF Tiles
    <3> QED BY <1>1, <1>2, <2>2, <3>1
  <2>3. CASE y <= h
    BY <1>1, <1>2, <2>3
  <2> QED BY <1>1, <1>2, <2>1, <2>2, <2>3
<1>5. ASSUME NEW g \in C, NEW h \in C, g < h PROVE g + M[g].size <= h
  <2>1. CASE g = x
    BY <1>1, <1>2, <1>5, <2>1
  <2>2. CASE g # x
    <3>1. M[g].size = m[g].size
      BY <1>1, <1>2, <2>2
    <3> QED BY <1>5, <3>1 DEF Tiles
  <2> QED BY <2>1, <2>2
<1> QED BY <1>3, <1>4, <1>5 DEF Tiles

\* The words behind the first n of block x become a block.
LEMMA SplitOff ==
    ASSUME NEW B, NEW m, NEW s \in Nat, NEW e \in Nat, Tiles(B, m, s, e),
           NEW x \in B, NEW n \in Nat \ {0}, n < m[x].size, NEW M, NEW y, y = x + n,
           M[x].size = n, M[y].size = m[x].size - n,
           \A h \in B : h # x => M[h].size = m[h].size
    PROVE  Tiles(B \cup {y}, M, s, e) /\ y \notin B
<1> DEFINE C == B \cup {y}
<1>1. \A h \in B : h \in Nat /\ s <= h /\ h < e /\ m[h].size \in Nat \ {0} /\ h + m[h].size \in B \cup {e}
  BY BlocksIn
<1>2. y \in Nat /\ x \in Nat /\ m[x].size \in Nat /\ x + m[x].size <= e
  BY <1>1
<1>3. \A h \in B : h <= x \/ x + m[x].size <= h
  BY <1>1 DEF Tiles
<1>4. y \notin B
  BY <1>1, <1>2, <1>3
<1>5. C \subseteq s .. e - 1 /\ s \in C \cup {e}
  BY <1>1, <1>2 DEF Tiles
<1>6. ASSUME NEW h \in C PROVE M[h].size \in Nat \ {0} /\ h + M[h].size \in C \cup {e}
  <2>1. CASE h = x
    BY <2>1
  <2>2. CASE h = y
    BY <1>1, <1>2, <2>2
  <2>3. CASE h \in B /\ h # x
    BY <1>1, <2>3
  <2> QED BY <2>1, <2>2, <2>3
<1>7. ASSUME NEW g \in C, NEW h \in C, g < h PROVE g + M[g].size <= h
  <2>1. CASE g = x
    BY <1>1, <1>2, <1>3, <1>7, <2>1
  <2>2. CASE g = y
    BY <1>1, <1>2, <1>3, <1>7, <2>2
  <2>3. CASE g \in B /\ g # x
    <3>1. M[g].size = m[g].size
      BY <2>3
    <3>2. CASE h \in B
      BY <1>7, <2>3, <3>1, <3>2 DEF Tiles
    <3>3. CASE h = y
      <4>1. g < x
        BY <1>1, <1>2, <1>3, <1>7, <2>3, <3>3
      <4>2. g + m[g].size <= x
        BY <2>3, <4>1 DEF Tiles
      <4>3. g \in Nat /\ m[g].size \in Nat
        BY <1>1, <2>3
      <4> QED BY <1>2, <3>1, <3>3, <4>2, <4>3
    <3> QED BY <3>2, <3>3
  <2> QED BY <2>1, <2>2, <2>3
<1> QED BY <1>4, <1>5, <1>6, <1>7 DEF Tiles

\* A block is added at the end.
LEMMA Extended ==
    ASSUME NEW B, NEW m, NEW s \in Nat, NEW e \in Nat, s <= e, Tiles(B, m, s, e),
           NEW n \in Nat \ {0}, NEW M,
           M[e].size = n, \A h \in B : M[h].size = m[h].size
    PROVE  Tiles(B \cup {e}, M, s, e + n) /\ e \notin B
<1>1. \A h \in B : h \in Nat /\ s <= h /\ h < e /\ m[h].size \in Nat \ {0} /\ h + m[h].size \in B \cup {e}
  BY DEF Tiles
<1>2. e \notin B
  BY <1>1
<1>3. B \cup {e} \subseteq s .. (e + n) - 1 /\ s \in (B \cup {e}) \cup {e + n}
  BY <1>1 DEF Tiles
<1>4. ASSUME NEW h \in B \cup {e}
      PROVE  M[h].size \in Nat \ {0} /\ h + M[h].size \in (B \cup {e}) \cup {e + n}
  BY <1>1, <1>2
<1>5. ASSUME NEW g \in B \cup {e}, NEW h \in B \cup {e}, g < h PROVE g + M[g].size <= h
  <2>1. g \in B
    BY <1>1, <1>5
  <2>2. CASE h = e
    BY <1>1, <2>1, <2>2
  <2>3. CASE h \in B
    BY <1>1, <1>5, <2>1, <2>3 DEF Tiles
  <2> QED BY <2>2, <2>3
<1> QED BY <1>2, <1>3, <1>4, <1>5 DEF Tiles

\* From the blocks B of m to the blocks C of M nothing changes outside the words from p
\* up to q, and no block of C in them is allocated.
SameOutside(A, B, m, C, M, p, q) ==
    /\ p \in Nat /\ q \in Nat
    /\ \A a \in A : (a < p \/ q <= a) => M[a] = m[a]
    /\ \A h \in B : h < p => h + m[h].size <= p
    /\ \A h \in B : (h < p \/ q <= h) => h \in C
    /\ \A h \in C : M[h].allocated => h \in B /\ (h < p \/ q <= h)

\* If every free block is too short, and what follows it is not free, then no n
\* words in a row are free.
LEMMA NoStretch ==
    ASSUME NEW B, NEW m, NEW s \in Nat, NEW e \in Nat, Tiles(B, m, s, e), NEW n \in Nat \ {0},
           \A h \in B : ~m[h].allocated =>
               m[h].size < n /\ (h + m[h].size = e \/ m[h + m[h].size].allocated),
           NEW a \in s .. e - n
    PROVE  \E h \in B : m[h].allocated /\ h < a + n /\ a < h + m[h].size
<1>1. \A h \in B : /\ h \in Nat /\ s <= h /\ h < e /\ m[h].size \in Nat \ {0}
                   /\ h + m[h].size \in B \cup {e} /\ h + m[h].size \in Nat
  BY BlocksIn
<1>2. a \in Nat /\ a \in s .. e - 1
  OBVIOUS
<1>3. PICK h \in B : h <= a /\ a < h + m[h].size
  BY <1>2, Covering
<1>4. CASE m[h].allocated
  BY <1>1, <1>2, <1>3, <1>4
<1>5. CASE ~m[h].allocated
  <2>1. m[h].size < n /\ (h + m[h].size = e \/ m[h + m[h].size].allocated)
    BY <1>5
  <2>2. PICK g : g = h + m[h].size
    OBVIOUS
  <2>3. g \in Nat /\ a < g /\ g < a + n /\ g # e
    BY <1>1, <1>2, <1>3, <2>1, <2>2
  <2>4. g \in B /\ m[g].allocated
    BY <1>1, <2>1, <2>2, <2>3
  <2> QED BY <1>1, <1>2, <2>3, <2>4
<1> QED BY <1>4, <1>5

-----------------------------------------------------------------------------
(* The heap with headers only.                                             *)

\* The caller holds the allocated blocks and what it has filled them with.
HdrHeld(B, m, L) ==
    /\ \A b \in L : b.ptr - 1 \in B /\ m[b.ptr - 1].allocated /\ b.asked + 1 <= m[b.ptr - 1].size
    /\ \A h \in B : m[h].allocated => \E b \in L : b.ptr = h + 1
    /\ \A b, c \in L : b.ptr = c.ptr => b = c
    /\ \A b \in L : \A a \in b.ptr .. b.ptr + b.asked - 1 : m[a] = Headers!Data(b.ptr)

HdrHeap(B, m, L, e) ==
    /\ m \in [Headers!Addr -> Headers!Word]
    /\ e \in 1 .. HeaderWords + 1
    /\ L \subseteq [ptr : 1 .. HeaderWords + 1, asked : Sizes]
    /\ Tiles(B, m, 1, e) /\ HdrHeld(B, m, L)

\* M is m with a free block of so many words at x.
HdrFrees(m, x, size, M) ==
    /\ M \in [Headers!Addr -> Headers!Word] /\ M[x].size = size /\ ~M[x].allocated
    /\ \A a \in Headers!Addr : (a < x \/ x + size <= a) => M[a] = m[a]

\* What mfree() and the merges of find_fit() leave of the memory.
LEMMA HdrSetFree ==
    ASSUME NEW m \in [Headers!Addr -> Headers!Word], NEW x \in Nat \ {0}, NEW size \in Nat \ {0},
           x + size <= HeaderWords + 1
    PROVE  HdrFrees(m, x, size, Headers!SetFree(m, x, size))
<1> SUFFICES ASSUME NEW M, M = Headers!SetFree(m, x, size) PROVE HdrFrees(m, x, size, M)
  OBVIOUS
<1>1. PICK A, t, d : A = 1 .. HeaderWords /\ t = Headers!Tag(size, FALSE) /\ d = Headers!Dead
  OBVIOUS
<1>2. A = Headers!Addr /\ x \in A
  BY <1>1, SizesAssumption DEF Headers!Addr, Headers!Base
<1>3. t \in Headers!Word /\ d \in Headers!Word /\ t.size = size /\ ~t.allocated
  BY <1>1, SizesAssumption DEF Headers!Tag, Headers!Dead, Headers!Data, Headers!Word, Headers!NULL
<1>4. M = [a \in A |-> IF a = x THEN t ELSE IF a \in x + 1 .. x + size - 1 THEN d ELSE m[a]]
  BY <1>1, <1>2 DEF Headers!SetFree
<1>5. M[x] = t
  BY <1>2, <1>4
<1>6. M \in [A -> Headers!Word]
  BY <1>2, <1>3, <1>4
<1>7. \A a \in A : (a < x \/ x + size <= a) => M[a] = m[a]
  <2>1. \A a \in A : a \in Nat
    BY <1>1
  <2> QED BY <1>4, <2>1
<1> QED BY <1>2, <1>3, <1>5, <1>6, <1>7 DEF HdrFrees

\* Where the caller's blocks lie.
LEMMA HdrLive ==
    ASSUME NEW B, NEW m, NEW L, NEW e, HdrHeap(B, m, L, e)
    PROVE  \A b \in L : /\ b.ptr \in Nat /\ b.asked \in Nat /\ b.ptr - 1 \in B
                        /\ b.ptr - 1 \in Nat /\ b.ptr - 1 \in Headers!Addr
<1> USE SizesAssumption DEF Headers!Addr, Headers!Base
<1>1. Tiles(B, m, 1, e) /\ 1 \in Nat /\ e \in Nat /\ e <= HeaderWords + 1
  BY DEF HdrHeap
<1>2. \A h \in B : h \in Nat /\ 1 <= h /\ h < e
  BY <1>1, BlocksIn
<1>3. \A b \in L : b.ptr \in Nat /\ b.asked \in Nat /\ b.ptr - 1 \in B
  <2>1. L \subseteq [ptr : 1 .. HeaderWords + 1, asked : Sizes]
    BY DEF HdrHeap
  <2>2. \A b \in L : b.ptr - 1 \in B
    BY DEF HdrHeap, HdrHeld
  <2>3. \A b \in L : b.ptr \in 1 .. HeaderWords + 1 /\ b.asked \in Sizes
    BY <2>1
  <2>4. ASSUME NEW b \in L PROVE b.ptr \in Nat /\ b.asked \in Nat /\ b.ptr - 1 \in B
    <3>1. b.ptr \in Nat
      BY <2>3
    <3>2. b.asked \in Nat
      BY <2>3
    <3> QED BY <2>2, <3>1, <3>2
  <2> QED BY <2>4
<1> QED BY <1>1, <1>2, <1>3

\* Where nothing changes the caller still holds what it held.
LEMMA HdrKept ==
    ASSUME NEW B, NEW m, NEW L, NEW e, HdrHeap(B, m, L, e),
           NEW p, NEW q, NEW C, NEW M, SameOutside(Headers!Addr, B, m, C, M, p, q),
           M \in [Headers!Addr -> Headers!Word], NEW f, f \in 1 .. HeaderWords + 1,
           Tiles(C, M, 1, f)
    PROVE  LET K == {b \in L : b.ptr - 1 < p \/ q <= b.ptr - 1}
           IN  HdrHeap(C, M, K, f) /\ \A b \in K : M[b.ptr - 1] = m[b.ptr - 1]
<1> DEFINE K == {b \in L : b.ptr - 1 < p \/ q <= b.ptr - 1}
<1> SUFFICES HdrHeap(C, M, K, f) /\ \A b \in K : M[b.ptr - 1] = m[b.ptr - 1]
  OBVIOUS
<1>0. /\ p \in Nat /\ q \in Nat
      /\ \A a \in Headers!Addr : (a < p \/ q <= a) => M[a] = m[a]
      /\ \A h \in B : h < p => h + m[h].size <= p
      /\ \A h \in B : (h < p \/ q <= h) => h \in C
      /\ \A h \in C : M[h].allocated => h \in B /\ (h < p \/ q <= h)
  BY DEF SameOutside
<1> USE SizesAssumption DEF Headers!Addr, Headers!Base
<1>1. Tiles(B, m, 1, e) /\ 1 \in Nat /\ e \in Nat /\ e <= HeaderWords + 1
      /\ m \in [Headers!Addr -> Headers!Word]
  BY DEF HdrHeap
<1>2. \A h \in B : /\ h \in Nat /\ 1 <= h /\ h < e /\ m[h].size \in Nat \ {0}
                   /\ h + m[h].size \in B \cup {e} /\ h + m[h].size <= e
  BY <1>1, BlocksIn
<1>3. \A h \in B : h \in Headers!Addr
  BY <1>1, <1>2
<1>4. \A b \in L : b.ptr \in Nat /\ b.asked \in Nat /\ b.ptr - 1 \in B /\ b.ptr - 1 \in Nat
  BY HdrLive
<1>5. ASSUME NEW b \in K
      PROVE  /\ b.ptr - 1 \in C /\ M[b.ptr - 1] = m[b.ptr - 1]
             /\ \A a \in b.ptr .. b.ptr + b.asked - 1 : a \in Headers!Addr /\ M[a] = m[a]
  <2>1. b \in L /\ (b.ptr - 1 < p \/ q <= b.ptr - 1)
    OBVIOUS
  <2>2. PICK h \in B : h = b.ptr - 1
    BY <1>4, <2>1
  <2>3. h \in Nat /\ h < e /\ m[h].size \in Nat /\ h + m[h].size <= e
    BY <1>2
  <2>4. h \in C /\ M[h] = m[h]
    BY <1>0, <1>3, <2>1, <2>2, <2>3
  <2>5. b.ptr = h + 1 /\ b.asked \in Nat /\ b.asked + 1 <= m[h].size
    <3>1. b.asked + 1 <= m[b.ptr - 1].size
      BY <2>1 DEF HdrHeap, HdrHeld
    <3> QED BY <1>4, <2>1, <2>2, <3>1
  <2>6. h < p => h + m[h].size <= p
    BY <1>0
  <2>7. ASSUME NEW a \in b.ptr .. b.ptr + b.asked - 1
        PROVE  a \in Headers!Addr /\ M[a] = m[a]
    <3>1. a \in Nat /\ h < a /\ a < h + m[h].size
      BY <2>3, <2>5
    <3>2. a \in Headers!Addr /\ (a < p \/ q <= a)
      BY <1>0, <1>1, <2>1, <2>2, <2>3, <2>6, <3>1
    <3> QED BY <1>0, <3>2
  <2> QED BY <2>2, <2>4, <2>7
<1>6. HdrHeld(C, M, K)
  <2>1. \A b \in K : b.ptr - 1 \in C /\ M[b.ptr - 1].allocated /\ b.asked + 1 <= M[b.ptr - 1].size
    BY <1>5 DEF HdrHeap, HdrHeld
  <2>2. ASSUME NEW h \in C, M[h].allocated PROVE \E b \in K : b.ptr = h + 1
    <3>1. h \in B /\ (h < p \/ q <= h)
      BY <1>0, <2>2
    <3>2. h \in Nat /\ m[h].allocated
      BY <1>0, <1>2, <1>3, <2>2, <3>1
    <3>3. PICK b \in L : b.ptr = h + 1
      BY <3>1, <3>2 DEF HdrHeap, HdrHeld
    <3> QED BY <3>1, <3>2, <3>3
  <2>3. \A b, c \in K : b.ptr = c.ptr => b = c
    BY DEF HdrHeap, HdrHeld
  <2>4. \A b \in K : \A a \in b.ptr .. b.ptr + b.asked - 1 : M[a] = Headers!Data(b.ptr)
    <3>1. \A b \in L : \A a \in b.ptr .. b.ptr + b.asked - 1 : m[a] = Headers!Data(b.ptr)
      BY DEF HdrHeap, HdrHeld
    <3> QED BY <1>5, <3>1
  <2> QED BY <2>1, <2>2, <2>3, <2>4 DEF HdrHeld
<1>7. K \subseteq [ptr : 1 .. HeaderWords + 1, asked : Sizes]
  BY DEF HdrHeap
<1> QED BY <1>5, <1>6, <1>7 DEF HdrHeap

\* The blocks from x up to y become one that is free, and the caller no longer holds
\* any of them.
HdrJoins(B, m, L, e, x, y, C, M, K) ==
    /\ HdrHeap(C, M, K, e) /\ \A b \in K : M[b.ptr - 1] = m[b.ptr - 1]
    /\ M[x].size = y - x /\ ~M[x].allocated
    /\ \A a \in Headers!Addr : (a < x \/ y <= a) => M[a] = m[a]

\* SetFree() does that.
LEMMA HdrJoin ==
    ASSUME NEW B, NEW m, NEW L, NEW e, HdrHeap(B, m, L, e),
           NEW x \in B, NEW y \in B \cup {e}, x < y
    PROVE  HdrJoins(B, m, L, e, x, y, {h \in B : h <= x \/ y <= h},
                    Headers!SetFree(m, x, y - x), {b \in L : b.ptr - 1 < x \/ y <= b.ptr - 1})
<1> SUFFICES ASSUME NEW M, M = Headers!SetFree(m, x, y - x),
                    NEW K, K = {b \in L : b.ptr - 1 < x \/ y <= b.ptr - 1},
                    NEW C, C = {h \in B : h <= x \/ y <= h}
             PROVE  /\ HdrHeap(C, M, K, e) /\ \A b \in K : M[b.ptr - 1] = m[b.ptr - 1]
                    /\ M[x].size = y - x /\ ~M[x].allocated
                    /\ \A a \in Headers!Addr : (a < x \/ y <= a) => M[a] = m[a]
  BY Zenon DEF HdrJoins
<1>1. Tiles(B, m, 1, e) /\ 1 \in Nat /\ e \in Nat /\ e \in 1 .. HeaderWords + 1
      /\ m \in [Headers!Addr -> Headers!Word]
  BY SizesAssumption DEF HdrHeap
<1>2. \A h \in B : /\ h \in Nat /\ 1 <= h /\ h < e /\ m[h].size \in Nat \ {0}
                   /\ h + m[h].size \in B \cup {e} /\ h + m[h].size <= e
  BY <1>1, BlocksIn
<1>3. x \in Nat \ {0} /\ y \in Nat /\ y <= e
  <2>1. x \in Nat \ {0}
    BY <1>1, <1>2
  <2>2. y \in B => y \in Nat /\ y <= e
    BY <1>1, <1>2
  <2>3. y \in B \/ y = e
    OBVIOUS
  <2> QED BY <1>1, <2>1, <2>2, <2>3
<1>a. PICK d : d = y - x
  OBVIOUS
<1>b. d \in Nat \ {0} /\ x + d = y /\ y <= HeaderWords + 1
  BY <1>1, <1>3, <1>a, SizesAssumption
<1>4. /\ M \in [Headers!Addr -> Headers!Word] /\ M[x].size = y - x /\ ~M[x].allocated
      /\ \A a \in Headers!Addr : (a < x \/ x + d <= a) => M[a] = m[a]
  <2>1. M = Headers!SetFree(m, x, d) /\ x + d <= HeaderWords + 1
    BY <1>a, <1>b
  <2>2. /\ M \in [Headers!Addr -> Headers!Word] /\ M[x].size = d /\ ~M[x].allocated
        /\ \A a \in Headers!Addr : (a < x \/ x + d <= a) => M[a] = m[a]
    <3>1. HdrFrees(m, x, d, M)
      BY <1>1, <1>3, <1>b, <2>1, HdrSetFree
    <3> QED BY <3>1 DEF HdrFrees
  <2> QED BY <1>a, <2>2, Zenon
<1>5. \A a \in Headers!Addr : (a < x \/ y <= a) => M[a] = m[a]
  BY <1>b, <1>4, Zenon
<1>6. \A h \in B : h \in Headers!Addr
  BY <1>1, <1>2, SizesAssumption DEF Headers!Addr, Headers!Base
<1>7. Tiles(C, M, 1, e)
  <2>1. \A h \in B : (h < x \/ y <= h) => M[h].size = m[h].size
    BY <1>5, <1>6
  <2> QED BY <1>1, <1>4, <2>1, Joined
<1>8. \A h \in B : h < x => h + m[h].size <= x
  BY <1>1 DEF Tiles
<1>9. \A h \in B : (h < x \/ y <= h) => h \in C
  BY <1>2, <1>3
<1>10. \A h \in C : M[h].allocated => h \in B /\ (h < x \/ y <= h)
  <2> SUFFICES ASSUME NEW h \in C, M[h].allocated PROVE h \in B /\ (h < x \/ y <= h)
    OBVIOUS
  <2>1. h # x /\ h \in B /\ (h <= x \/ y <= h)
    BY <1>4
  <2> QED BY <1>2, <1>3, <2>1
<1>11. HdrHeap(C, M, K, e) /\ \A b \in K : M[b.ptr - 1] = m[b.ptr - 1]
  <2>1. SameOutside(Headers!Addr, B, m, C, M, x, y)
    BY <1>3, <1>5, <1>8, <1>9, <1>10 DEF SameOutside
  <2>2. M \in [Headers!Addr -> Headers!Word] /\ e \in 1 .. HeaderWords + 1
    BY <1>1, <1>4
  <2> QED BY <1>7, <2>1, <2>2, HdrKept
<1> QED BY <1>4, <1>5, <1>11

\* A free block is added at the end.
HdrExtends(B, m, L, e, n, M) ==
    /\ HdrHeap(B \cup {e}, M, L, e + n) /\ e \notin B /\ M[e].size = n /\ ~M[e].allocated
    /\ \A b \in L : M[b.ptr - 1] = m[b.ptr - 1]

\* SetFree() can do that.
LEMMA HdrExtend ==
    ASSUME NEW B, NEW m, NEW L, NEW e, HdrHeap(B, m, L, e), NEW n \in Nat \ {0},
           e + n <= HeaderWords + 1
    PROVE  HdrExtends(B, m, L, e, n, Headers!SetFree(m, e, n))
<1> SUFFICES ASSUME NEW M, M = Headers!SetFree(m, e, n) PROVE HdrExtends(B, m, L, e, n, M)
  OBVIOUS
<1>1. Tiles(B, m, 1, e) /\ 1 \in Nat /\ e \in Nat \ {0} /\ e \in 1 .. HeaderWords + 1 /\ 1 <= e
      /\ m \in [Headers!Addr -> Headers!Word]
  BY SizesAssumption DEF HdrHeap
<1>2. \A h \in B : h \in Nat /\ 1 <= h /\ h < e /\ m[h].size \in Nat /\ h + m[h].size <= e
  BY <1>1, BlocksIn
<1>3. /\ M \in [Headers!Addr -> Headers!Word] /\ M[e].size = n /\ ~M[e].allocated
      /\ \A a \in Headers!Addr : (a < e \/ e + n <= a) => M[a] = m[a]
  <2>1. m \in [Headers!Addr -> Headers!Word] /\ e \in Nat \ {0} /\ n \in Nat \ {0}
    BY <1>1
  <2>2. e + n <= HeaderWords + 1 /\ M = Headers!SetFree(m, e, n)
    OBVIOUS
  <2>3. HdrFrees(m, e, n, M)
    BY <2>1, <2>2, HdrSetFree
  <2> QED BY <2>3 DEF HdrFrees
<1>4. \A h \in B : h \in Headers!Addr
  BY <1>1, <1>2, SizesAssumption DEF Headers!Addr, Headers!Base
<1>5. \A h \in B : M[h] = m[h]
  BY <1>2, <1>3, <1>4
<1>6. Tiles(B \cup {e}, M, 1, e + n) /\ e \notin B
  BY <1>1, <1>3, <1>5, Extended
<1>7. SameOutside(Headers!Addr, B, m, B \cup {e}, M, e, e + n)
  BY <1>1, <1>2, <1>3 DEF SameOutside
<1>8. e + n \in 1 .. HeaderWords + 1
  BY <1>1, SizesAssumption
<1>9. LET K == {b \in L : b.ptr - 1 < e \/ e + n <= b.ptr - 1}
      IN  HdrHeap(B \cup {e}, M, K, e + n) /\ \A b \in K : M[b.ptr - 1] = m[b.ptr - 1]
  BY <1>3, <1>6, <1>7, <1>8, HdrKept
<1>10. L = {b \in L : b.ptr - 1 < e \/ e + n <= b.ptr - 1}
  BY <1>2, HdrLive
<1> QED BY <1>3, <1>6, <1>9, <1>10, Zenon DEF HdrExtends

\* What is too long for the caller is split off, and stays free.
LEMMA HdrSplit ==
    ASSUME NEW B, NEW m, NEW L, NEW e, HdrHeap(B, m, L, e), NEW x \in B, ~m[x].allocated,
           NEW n \in Nat \ {0}, n <= m[x].size, NEW M, M = Headers!Split(m, x, n)
    PROVE  \E C : /\ HdrHeap(C, M, L, e) /\ x \in C /\ ~M[x].allocated /\ M[x].size = n
                  /\ \A b \in L : M[b.ptr - 1] = m[b.ptr - 1]
<1>1. Tiles(B, m, 1, e) /\ 1 \in Nat /\ e \in Nat \ {0} /\ e \in 1 .. HeaderWords + 1 /\ 1 <= e
      /\ m \in [Headers!Addr -> Headers!Word]
  BY SizesAssumption DEF HdrHeap
<1>2. \A h \in B : h \in Nat /\ 1 <= h /\ h < e /\ m[h].size \in Nat \ {0} /\ h + m[h].size <= e
  BY <1>1, BlocksIn
<1>3. CASE m[x].size = n
  <2>1. ~(m[x].size > n)
    BY <1>3
  <2>2. M = m
    BY <2>1, Zenon DEF Headers!Split
  <2> QED BY <1>3, <2>2
<1>4. CASE n < m[x].size
  <2>1. PICK r, t, u : r = m[x].size - n /\ t = Headers!Tag(n, FALSE) /\ u = Headers!Tag(r, FALSE)
    OBVIOUS
  <2>2. r \in Nat \ {0} /\ x + n \in Nat /\ x + n < e /\ x \in Headers!Addr /\ x + n \in Headers!Addr
    BY <1>1, <1>2, <1>4, <2>1, SizesAssumption DEF Headers!Addr, Headers!Base
  <2>3. m[x].size \in 0 .. HeaderWords
    BY <1>1, <2>2 DEF Headers!Word
  <2>4. t \in Headers!Word /\ u \in Headers!Word /\ t.size = n /\ u.size = r /\ ~t.allocated /\ ~u.allocated
    <3>1. n \in 0 .. HeaderWords /\ r \in 0 .. HeaderWords
      BY <1>4, <2>1, <2>2, <2>3, SizesAssumption
    <3> QED BY <2>1, <3>1 DEF Headers!Tag, Headers!Word, Headers!NULL
  <2>5. M = [m EXCEPT ![x] = t, ![x + n] = u]
    BY <1>2, <1>4, <2>1 DEF Headers!Split
  <2>6. M[x] = t /\ M[x + n] = u /\ M \in [Headers!Addr -> Headers!Word]
        /\ \A a \in Headers!Addr : (a # x /\ a # x + n) => M[a] = m[a]
    BY <1>1, <1>2, <2>2, <2>4, <2>5
  <2>7. \A h \in B : h \in Headers!Addr /\ (h <= x \/ x + m[x].size <= h)
    <3>1. \A h \in B : h \in Headers!Addr
      BY <1>1, <1>2, SizesAssumption DEF Headers!Addr, Headers!Base
    <3>2. \A h \in B : h <= x \/ x + m[x].size <= h
      BY <1>1, <1>2 DEF Tiles
    <3> QED BY <3>1, <3>2
  <2>8. \A h \in B : h # x => M[h] = m[h]
    BY <1>2, <1>4, <2>6, <2>7
  <2>9. Tiles(B \cup {x + n}, M, 1, e) /\ x + n \notin B
    <3>1. M[x].size = n /\ M[x + n].size = m[x].size - n
      BY <2>1, <2>4, <2>6
    <3>2. \A h \in B : h # x => M[h].size = m[h].size
      BY <2>8
    <3>3. e \in Nat
      BY <1>1
    <3>4. Tiles(B, m, 1, e) /\ 1 \in Nat /\ n \in Nat \ {0} /\ x \in B
      BY <1>1
    <3>5. PICK y : y = x + n
      OBVIOUS
    <3>6. Tiles(B \cup {y}, M, 1, e) /\ y \notin B
      BY <1>4, <3>1, <3>2, <3>3, <3>4, <3>5, SplitOff
    <3> QED BY <3>5, <3>6, Zenon
  <2>10. SameOutside(Headers!Addr, B, m, B \cup {x + n}, M, x, x + m[x].size)
    <3>1. x \in Nat /\ x + m[x].size \in Nat
      BY <1>2
    <3>2. \A a \in Headers!Addr : (a < x \/ x + m[x].size <= a) => M[a] = m[a]
      <4>1. \A a \in Headers!Addr : a \in Nat
        BY SizesAssumption DEF Headers!Addr, Headers!Base
      <4>2. m[x].size \in Nat
        BY <1>2
      <4> QED BY <1>4, <2>6, <3>1, <4>1, <4>2
    <3>3. \A h \in B : h < x => h + m[h].size <= x
      BY <1>1 DEF Tiles
    <3>4. \A h \in B \cup {x + n} : M[h].allocated => h \in B /\ (h < x \/ x + m[x].size <= h)
      BY <1>2, <2>4, <2>6, <2>7
    <3> QED BY <3>1, <3>2, <3>3, <3>4 DEF SameOutside
  <2>11. LET K == {b \in L : b.ptr - 1 < x \/ x + m[x].size <= b.ptr - 1}
         IN  HdrHeap(B \cup {x + n}, M, K, e) /\ \A b \in K : M[b.ptr - 1] = m[b.ptr - 1]
    BY <1>1, <2>6, <2>9, <2>10, HdrKept
  <2>12. L = {b \in L : b.ptr - 1 < x \/ x + m[x].size <= b.ptr - 1}
    <3>1. \A b \in L : b.ptr - 1 \in B /\ m[b.ptr - 1].allocated
      BY DEF HdrHeap, HdrHeld
    <3>2. \A b \in L : b.ptr - 1 < x \/ x + m[x].size <= b.ptr - 1
      BY <1>2, <2>7, <3>1
    <3> QED BY <3>2
  <2>13. HdrHeap(B \cup {x + n}, M, L, e) /\ \A b \in L : M[b.ptr - 1] = m[b.ptr - 1]
    BY <2>11, <2>12, Zenon
  <2>14. x \in B \cup {x + n} /\ ~M[x].allocated /\ M[x].size = n
    BY <2>4, <2>6
  <2> QED BY <2>13, <2>14
<1> QED BY <1>2, <1>3, <1>4

\* The caller gets the free block x and fills the words it asked for.
HdrTakes(B, m, L, e, x, asked, M) ==
    /\ HdrHeap(B, M, L \cup {[ptr |-> x + 1, asked |-> asked]}, e)
    /\ M[x].size = m[x].size
    /\ \A b \in L : M[b.ptr - 1] = m[b.ptr - 1] /\ b.ptr - 1 # x

\* Allocated() does that.
LEMMA HdrTake ==
    ASSUME NEW B, NEW m, NEW L, NEW e, HdrHeap(B, m, L, e), NEW x \in B, ~m[x].allocated,
           NEW asked \in Sizes, asked + 1 <= m[x].size
    PROVE  HdrTakes(B, m, L, e, x, asked, Headers!Allocated(m, x, m[x].size, x + 1, asked))
<1> SUFFICES ASSUME NEW M, M = Headers!Allocated(m, x, m[x].size, x + 1, asked)
             PROVE  HdrTakes(B, m, L, e, x, asked, M)
  OBVIOUS
<1>1. Tiles(B, m, 1, e) /\ 1 \in Nat /\ e \in Nat \ {0} /\ e \in 1 .. HeaderWords + 1 /\ 1 <= e
      /\ m \in [Headers!Addr -> Headers!Word]
  BY SizesAssumption DEF HdrHeap
<1>2. \A h \in B : h \in Nat /\ 1 <= h /\ h < e /\ m[h].size \in Nat \ {0} /\ h + m[h].size <= e
  BY <1>1, BlocksIn
<1>3. PICK z, t, d, A : z = m[x].size /\ t = Headers!Tag(z, TRUE) /\ d = Headers!Data(x + 1) /\ A = Headers!Addr
  OBVIOUS
<1>4. asked \in Nat /\ z \in Nat /\ x \in Nat \ {0} /\ x + z <= e /\ asked + 1 <= z
  BY <1>2, <1>3, SizesAssumption
<1>5. A = 1 .. HeaderWords /\ x \in A
  BY <1>1, <1>2, <1>3, SizesAssumption DEF Headers!Addr, Headers!Base
<1>6. M = [a \in A |-> IF a = x THEN t ELSE IF a \in x + 1 .. (x + 1) + asked - 1 THEN d ELSE m[a]]
  BY <1>3, <1>5 DEF Headers!Allocated
<1>7. \A a \in A : a \in Nat
  BY <1>5
<1>8. /\ M[x] = t
      /\ \A a \in A : a \in x + 1 .. (x + 1) + asked - 1 => M[a] = d
      /\ \A a \in A : (a < x \/ x + asked < a) => M[a] = m[a]
  <2>1. M[x] = t
    BY <1>5, <1>6
  <2>2. ASSUME NEW a \in A, a \in x + 1 .. (x + 1) + asked - 1 PROVE M[a] = d
    <3>1. a # x
      BY <1>4, <2>2
    <3> QED BY <1>6, <2>2, <3>1, Zenon
  <2>3. ASSUME NEW a \in A, a < x \/ x + asked < a PROVE M[a] = m[a]
    <3>1. a # x /\ a \notin x + 1 .. (x + 1) + asked - 1
      BY <1>4, <1>7, <2>3
    <3> QED BY <1>6, <3>1, Zenon
  <2> QED BY <2>1, <2>2, <2>3
<1>9. M \in [A -> Headers!Word] /\ t.size = z /\ t.allocated
  <2>1. m[x].size \in 0 .. HeaderWords
    BY <1>1, <1>3, <1>5 DEF Headers!Word
  <2>2. t \in Headers!Word /\ t.size = z /\ t.allocated
    BY <1>3, <2>1 DEF Headers!Word, Headers!Tag, Headers!NULL
  <2>3. asked # 0 => d \in Headers!Word
    <3>1. asked # 0 => x + 1 \in Headers!Addr
      BY <1>1, <1>3, <1>4, <1>5, SizesAssumption
    <3> QED BY <1>3, <3>1, SizesAssumption DEF Headers!Word, Headers!Data
  <2>4. ASSUME NEW a \in A PROVE M[a] \in Headers!Word
    <3>1. m[a] \in Headers!Word
      BY <1>1, <1>3
    <3>2. CASE a \in x + 1 .. (x + 1) + asked - 1
      <4>1. asked # 0
        BY <1>4, <3>2
      <4> QED BY <1>8, <2>3, <3>2, <4>1
    <3>3. CASE a \notin x + 1 .. (x + 1) + asked - 1
      BY <1>6, <2>2, <3>1, <3>3
    <3> QED BY <3>2, <3>3
  <2>5. M = [a \in A |-> M[a]]
    BY <1>6
  <2> QED BY <2>2, <2>4, <2>5
<1>10. \A h \in B : h \in A /\ (h < x => h + m[h].size <= x) /\ (x < h => x + z <= h)
  <2>1. \A h \in B : h \in A
    BY <1>1, <1>2, <1>5, SizesAssumption
  <2> QED BY <1>1, <1>3, <2>1 DEF Tiles
<1>11. \A h \in B : h # x => M[h] = m[h]
  BY <1>2, <1>4, <1>8, <1>10
<1>12. \A h \in B : M[h].size = m[h].size
  BY <1>3, <1>8, <1>9, <1>11
<1>13. Tiles(B, M, 1, e)
  BY <1>1, <1>12 DEF Tiles
<1>14. \A b \in L : /\ b.ptr \in Nat /\ b.asked \in Nat /\ b.ptr - 1 \in B
                    /\ b.ptr - 1 \in Nat /\ b.ptr - 1 # x /\ M[b.ptr - 1] = m[b.ptr - 1]
                    /\ M[b.ptr - 1].allocated /\ b.asked + 1 <= M[b.ptr - 1].size
  <2>1. \A b \in L : /\ b.ptr - 1 \in B /\ m[b.ptr - 1].allocated /\ b.asked + 1 <= m[b.ptr - 1].size
    BY DEF HdrHeap, HdrHeld
  <2>2. \A b \in L : b.ptr \in Nat /\ b.asked \in Nat /\ b.ptr - 1 \in Nat
    BY HdrLive
  <2> QED BY <1>11, <2>1, <2>2
<1> DEFINE b0 == [ptr |-> x + 1, asked |-> asked]
           K == L \cup {b0}
<1>15. b0.ptr = x + 1 /\ b0.asked = asked /\ b0 \in [ptr : 1 .. HeaderWords + 1, asked : Sizes]
  BY <1>1, <1>4, <1>5, SizesAssumption
<1> HIDE DEF b0
<1>16. \A b \in K : b.ptr - 1 \in B /\ M[b.ptr - 1].allocated /\ b.asked + 1 <= M[b.ptr - 1].size
  <2>1. b0.ptr - 1 = x
    BY <1>4, <1>15
  <2>2. x \in B /\ M[x].allocated /\ asked + 1 <= M[x].size
    BY <1>4, <1>8, <1>9
  <2> QED BY <1>14, <1>15, <2>1, <2>2
<1>17. \A h \in B : M[h].allocated => \E b \in K : b.ptr = h + 1
  <2> SUFFICES ASSUME NEW h \in B, M[h].allocated, h # x PROVE \E b \in L : b.ptr = h + 1
    BY <1>15
  <2>1. m[h].allocated
    BY <1>11
  <2> QED BY <2>1 DEF HdrHeap, HdrHeld
<1>18. \A b, c \in K : b.ptr = c.ptr => b = c
  <2>1. \A b, c \in L : b.ptr = c.ptr => b = c
    BY DEF HdrHeap, HdrHeld
  <2>2. \A b \in L : b.ptr # b0.ptr
    BY <1>4, <1>14, <1>15
  <2> QED BY <2>1, <2>2
<1>19. ASSUME NEW b \in K, NEW a \in b.ptr .. b.ptr + b.asked - 1 PROVE M[a] = Headers!Data(b.ptr)
  <2>1. CASE b = b0
    <3>1. a \in x + 1 .. (x + 1) + asked - 1 /\ a \in A
      BY <1>1, <1>4, <1>5, <1>15, <1>19, <2>1, SizesAssumption
    <3> QED BY <1>3, <1>8, <1>15, <2>1, <3>1
  <2>2. CASE b \in L
    <3>1. m[a] = Headers!Data(b.ptr)
      BY <2>2 DEF HdrHeap, HdrHeld
    <3>2. PICK h \in B : h = b.ptr - 1
      BY <1>14, <2>2
    <3>3. h # x /\ b.ptr = h + 1 /\ b.asked \in Nat /\ b.asked + 1 <= m[h].size /\ h \in Nat
          /\ h + m[h].size <= e /\ m[h].size \in Nat
      BY <1>2, <1>14, <2>2, <3>2
    <3>4. a \in Nat /\ h < a /\ a < h + m[h].size
      BY <3>3
    <3>5. a \in A /\ (a < x \/ x + asked < a)
      BY <1>1, <1>4, <1>5, <1>10, <3>3, <3>4, SizesAssumption
    <3> QED BY <1>8, <3>1, <3>5
  <2> QED BY <2>1, <2>2
<1>20. HdrHeld(B, M, K)
  BY <1>16, <1>17, <1>18, <1>19 DEF HdrHeld
<1>21. K \subseteq [ptr : 1 .. HeaderWords + 1, asked : Sizes]
  BY <1>15 DEF HdrHeap
<1>22. HdrHeap(B, M, K, e)
  BY <1>1, <1>3, <1>9, <1>13, <1>20, <1>21 DEF HdrHeap
<1> QED BY <1>3, <1>8, <1>9, <1>14, <1>22 DEF b0, HdrTakes

\* find_fit() at block x.at: it has merged free blocks, but none of those it has passed is
\* long enough, and none is followed by a free one.
HdrSearch(B, x, m, L, e, n) ==
    /\ HdrHeap(B, x.mem, L, e) /\ x.at \in B \cup {e}
    /\ \A b \in L : x.mem[b.ptr - 1] = m[b.ptr - 1]
    /\ \A h \in B : (h < x.at /\ ~x.mem[h].allocated) =>
           /\ x.mem[h].size < n
           /\ h + x.mem[h].size = e \/ x.mem[h + x.mem[h].size].allocated

\* The loop of find_fit() ends here.
Ends(x, e, n) == x.at >= e \/ (~x.mem[x.at].allocated /\ x.mem[x.at].size >= n)

HdrPoint == [mem : [Headers!Addr -> Headers!Word], at : Nat]

\* A turn of the loop of find_fit() keeps that, and looks at one more block.
LEMMA HdrTurn ==
    ASSUME NEW e, e = hdr_end, NEW n \in Nat, NEW x \in HdrPoint, NEW m, NEW L,
           NEW B, HdrSearch(B, x, m, L, e, n), NEW y, y = Headers!Turn(x, n)
    PROVE  /\ y \in HdrPoint /\ \E C : HdrSearch(C, y, m, L, e, n)
           /\ Ends(x, e, n) => y = x
           /\ Ends(x, e, n) \/ y.at >= e \/ y.at + y.mem[y.at].size > x.at + x.mem[x.at].size
<1>1. PICK M, p : M = x.mem /\ p = x.at
  OBVIOUS
<1>2. /\ HdrHeap(B, M, L, e) /\ p \in B \cup {e} /\ p \in Nat
      /\ \A b \in L : M[b.ptr - 1] = m[b.ptr - 1]
      /\ \A h \in B : (h < p /\ ~M[h].allocated) =>
             M[h].size < n /\ (h + M[h].size = e \/ M[h + M[h].size].allocated)
  BY <1>1 DEF HdrSearch, HdrPoint
<1>3. M \in [Headers!Addr -> Headers!Word] /\ Tiles(B, M, 1, e) /\ e \in Nat /\ 1 \in Nat
      /\ e \in 1 .. HeaderWords + 1
  BY <1>2, SizesAssumption DEF HdrHeap
<1>4. \A h \in B : /\ h \in Nat /\ 1 <= h /\ h < e /\ M[h].size \in Nat \ {0}
                   /\ h + M[h].size \in B \cup {e} /\ h + M[h].size \in Nat /\ h + M[h].size <= e
  BY <1>3, BlocksIn
<1>5. CASE Ends(x, e, n)
  <2>1. y = x
    BY <1>5 DEF Headers!Turn, Ends
  <2> QED BY <1>5, <2>1
<1>6. CASE ~Ends(x, e, n)
  <2>1. p \in B /\ p < e /\ ~(~M[p].allocated /\ M[p].size >= n) /\ ~(p >= e)
    BY <1>1, <1>2, <1>3, <1>6 DEF Ends
  <2>2. PICK z, q : z = M[p].size /\ q = p + z
    OBVIOUS
  <2>3. z \in Nat \ {0} /\ q \in B \cup {e} /\ q \in Nat /\ q <= e /\ p < q
    BY <1>4, <2>1, <2>2
  <2>4. \A h \in B : (h < q => h <= p) /\ (h < p => h + M[h].size <= p)
    BY <1>3, <1>4, <2>1, <2>2, <2>3 DEF Tiles
  <2>5. CASE Headers!Merges(M, p, q)
    <3>1. ~M[p].allocated /\ q < e /\ ~M[q].allocated
      BY <2>5 DEF Headers!Merges
    <3>2. q \in B
      BY <2>3, <3>1
    <3>3. PICK w, r, N : w = M[q].size /\ r = q + w /\ N = Headers!SetFree(M, p, z + w)
      OBVIOUS
    <3>4. w \in Nat \ {0} /\ r \in B \cup {e} /\ r \in Nat /\ r <= e /\ q < r /\ r - p = z + w /\ p < r
      <4>1. w \in Nat \ {0} /\ r \in B \cup {e} /\ r \in Nat /\ r <= e
        BY <1>4, <3>2, <3>3
      <4> QED BY <1>2, <2>2, <2>3, <3>3, <4>1
    <3>5. y = [x EXCEPT !.mem = N]
      <4>1. y = IF x.at >= hdr_end \/ (~M[p].allocated /\ M[p].size >= n) THEN x
                ELSE IF Headers!Merges(M, p, p + M[p].size)
                     THEN [x EXCEPT !.mem = Headers!SetFree(M, p, M[p].size + M[p + M[p].size].size)]
                ELSE [x EXCEPT !.at = p + M[p].size]
        BY <1>1, Zenon DEF Headers!Turn
      <4> QED BY <1>1, <2>1, <2>2, <2>5, <3>3, <4>1, Zenon
    <3>6. PICK C, K : /\ C = {h \in B : h <= p \/ r <= h}
                      /\ K = {b \in L : b.ptr - 1 < p \/ r <= b.ptr - 1}
      OBVIOUS
    <3>7. /\ HdrHeap(C, N, K, e) /\ \A b \in K : N[b.ptr - 1] = M[b.ptr - 1]
          /\ N[p].size = r - p /\ ~N[p].allocated
          /\ \A a \in Headers!Addr : (a < p \/ r <= a) => N[a] = M[a]
      <4>1. N = Headers!SetFree(M, p, r - p)
        BY <3>3, <3>4
      <4>2. HdrHeap(B, M, L, e) /\ p \in B /\ r \in B \cup {e} /\ p < r
        BY <1>2, <2>1, <3>4
      <4>3. HdrJoins(B, M, L, e, p, r, C, N, K)
        <5>1. HdrJoins(B, M, L, e, p, r, {h \in B : h <= p \/ r <= h},
                       Headers!SetFree(M, p, r - p), {b \in L : b.ptr - 1 < p \/ r <= b.ptr - 1})
          BY <4>2, HdrJoin
        <5> QED BY <3>6, <4>1, <5>1, Zenon
      <4> QED BY <4>3 DEF HdrJoins
    <3>8. \A h \in B : h < r => (h <= p \/ h = q)
      BY <1>3, <1>4, <2>4, <3>2, <3>3, <3>4 DEF Tiles
    <3>9. K = L
      <4>1. \A b \in L : b.ptr - 1 \in B /\ M[b.ptr - 1].allocated
        BY <1>2 DEF HdrHeap, HdrHeld
      <4>2. \A b \in L : b.ptr - 1 < p \/ r <= b.ptr - 1
        <5> SUFFICES ASSUME NEW b \in L PROVE b.ptr - 1 < p \/ r <= b.ptr - 1
          OBVIOUS
        <5>1. PICK h \in B : h = b.ptr - 1
          BY <4>1
        <5>2. h # p /\ h # q /\ h \in Nat
          BY <1>4, <3>1, <4>1, <5>1
        <5> QED BY <2>1, <3>4, <3>8, <5>1, <5>2, <1>2
      <4> QED BY <3>6, <4>2
    <3>10. y \in HdrPoint /\ y.mem = N /\ y.at = p
      BY <1>1, <3>5, <3>7 DEF HdrPoint, HdrHeap
    <3>11. \A h \in C : (h < p /\ ~N[h].allocated) =>
             N[h].size < n /\ (h + N[h].size = e \/ N[h + N[h].size].allocated)
      <4> SUFFICES ASSUME NEW h \in C, h < p, ~N[h].allocated
                   PROVE  N[h].size < n /\ (h + N[h].size = e \/ N[h + N[h].size].allocated)
        OBVIOUS
      <4>1. h \in B /\ h \in Headers!Addr /\ h \in Nat
        BY <1>3, <1>4, <3>6, SizesAssumption DEF Headers!Addr, Headers!Base
      <4>2. N[h] = M[h]
        BY <3>7, <4>1
      <4>3. M[h].size < n /\ (h + M[h].size = e \/ M[h + M[h].size].allocated)
        BY <1>2, <4>1, <4>2
      <4>4. PICK g : g = h + M[h].size
        OBVIOUS
      <4>5. g \in Nat /\ g <= p /\ g # p /\ g \in B
        <5>1. g \in Nat /\ g <= p /\ g \in B \cup {e} /\ g # e
          BY <1>2, <1>4, <2>1, <2>4, <4>1, <4>4
        <5>2. g # p
          BY <3>1, <4>3, <4>4, <5>1
        <5> QED BY <5>1, <5>2
      <4>6. g \in Headers!Addr
        BY <1>3, <1>4, <4>5, SizesAssumption DEF Headers!Addr, Headers!Base
      <4>7. N[g] = M[g]
        BY <1>2, <3>7, <4>5, <4>6
      <4> QED BY <4>2, <4>3, <4>4, <4>7
    <3>12. p \in C
      BY <2>1, <1>4, <3>6
    <3>13. HdrSearch(C, y, m, L, e, n)
      BY <1>2, <3>7, <3>9, <3>10, <3>11, <3>12 DEF HdrSearch
    <3>14. y.at + y.mem[y.at].size > x.at + x.mem[x.at].size
      BY <1>1, <1>2, <2>2, <2>3, <3>4, <3>7, <3>10
    <3> QED BY <1>6, <3>10, <3>13, <3>14
  <2>6. CASE ~Headers!Merges(M, p, q)
    <3>1. y = [x EXCEPT !.at = q]
      <4>1. y = IF x.at >= hdr_end \/ (~M[p].allocated /\ M[p].size >= n) THEN x
                ELSE IF Headers!Merges(M, p, p + M[p].size)
                     THEN [x EXCEPT !.mem = Headers!SetFree(M, p, M[p].size + M[p + M[p].size].size)]
                ELSE [x EXCEPT !.at = p + M[p].size]
        BY <1>1, Zenon DEF Headers!Turn
      <4> QED BY <1>1, <2>1, <2>2, <2>6, <4>1, Zenon
    <3>2. y \in HdrPoint /\ y.mem = M /\ y.at = q
      BY <1>1, <2>3, <3>1 DEF HdrPoint
    <3>3. \A h \in B : (h < q /\ ~M[h].allocated) =>
             M[h].size < n /\ (h + M[h].size = e \/ M[h + M[h].size].allocated)
      <4> SUFFICES ASSUME NEW h \in B, h < q, ~M[h].allocated
                   PROVE  M[h].size < n /\ (h + M[h].size = e \/ M[h + M[h].size].allocated)
        OBVIOUS
      <4>1. CASE h < p
        BY <1>2, <4>1
      <4>2. CASE h = p
        <5>1. ~(q < e) \/ M[q].allocated
          BY <1>1, <2>6, <4>2 DEF Headers!Merges
        <5>2. M[p].size < n
          BY <2>1, <2>2, <2>3, <4>2
        <5> QED BY <1>3, <2>2, <2>3, <4>2, <5>1, <5>2
      <4>3. h <= p /\ h \in Nat /\ p \in Nat
        BY <1>2, <1>4, <2>4
      <4> QED BY <4>1, <4>2, <4>3
    <3>4. HdrSearch(B, y, m, L, e, n)
      BY <1>2, <2>3, <3>2, <3>3 DEF HdrSearch
    <3>5. y.at >= e \/ y.at + y.mem[y.at].size > x.at + x.mem[x.at].size
      <4>1. CASE q = e
        BY <1>3, <3>2, <4>1
      <4>2. CASE q \in B
        <5>1. M[q].size \in Nat \ {0}
          BY <1>4, <4>2
        <5> QED BY <1>1, <2>2, <2>3, <3>2, <5>1
      <4> QED BY <2>3, <4>1, <4>2
    <3> QED BY <1>6, <3>2, <3>4, <3>5
  <2> QED BY <2>5, <2>6
<1> QED BY <1>5, <1>6

\* The function in the definition of find_fit().
HdrTurns(m, h, n) ==
    CHOOSE f : f = [k \in 0 .. HeaderWords |-> IF k = 0 THEN [mem |-> m, at |-> h]
                                               ELSE Headers!Turn(f[k - 1], n)]

\* find_fit() leaves its loop: it has found a free block of n words, or has searched all.
LEMMA HdrFindFit ==
    ASSUME NEW B, NEW m, NEW L, NEW e, HdrHeap(B, m, L, e), e = hdr_end, NEW n \in Nat
    PROVE  \E x, C :
               /\ x \in HdrPoint /\ HdrSearch(C, x, m, L, e, n) /\ Ends(x, e, n)
               /\ Headers!find_fit(m, 1, n) = IF x.at >= e THEN [x EXCEPT !.at = 0] ELSE x
<1>1. PICK W : W = HeaderWords
  OBVIOUS
<1>2. /\ W \in Nat /\ e \in 1 .. W + 1 /\ e \in Nat /\ Tiles(B, m, 1, e)
      /\ m \in [Headers!Addr -> Headers!Word] /\ 1 \in Nat
  BY <1>1, SizesAssumption DEF HdrHeap
<1> DEFINE X == {x \in HdrPoint : \E C : HdrSearch(C, x, m, L, e, n)}
           x0 == [mem |-> m, at |-> 1]
           g == [k \in 1 .. W |-> [x \in X |-> Headers!Turn(x, n)]]
           Def(f) == [k \in 0 .. W |-> IF k = 0 THEN x0 ELSE Headers!Turn(f[k - 1], n)]
<1>3. x0 \in X
  <2>1. x0 \in HdrPoint /\ x0.mem = m /\ x0.at = 1
    BY <1>2 DEF HdrPoint
  <2>2. 1 \in B \cup {e} /\ \A h \in B : ~(h < 1)
    BY <1>2 DEF Tiles
  <2>3. HdrSearch(B, x0, m, L, e, n)
    BY <2>1, <2>2 DEF HdrSearch
  <2> QED BY <2>1, <2>3
<1>4. ASSUME NEW x \in X
      PROVE  /\ Headers!Turn(x, n) \in X
             /\ Ends(x, e, n) => Headers!Turn(x, n) = x
             /\ Ends(x, e, n) \/ Headers!Turn(x, n).at >= e
                \/ Headers!Turn(x, n).at + Headers!Turn(x, n).mem[Headers!Turn(x, n).at].size
                       > x.at + x.mem[x.at].size
  <2>1. PICK C : HdrSearch(C, x, m, L, e, n)
    OBVIOUS
  <2>2. PICK y : y = Headers!Turn(x, n)
    OBVIOUS
  <2>3. /\ y \in HdrPoint /\ \E D : HdrSearch(D, y, m, L, e, n)
        /\ Ends(x, e, n) => y = x
        /\ Ends(x, e, n) \/ y.at >= e \/ y.at + y.mem[y.at].size > x.at + x.mem[x.at].size
    BY <2>1, <2>2, HdrTurn
  <2>4. y \in X
    BY <2>3
  <2> HIDE DEF X
  <2> QED BY <2>2, <2>3, <2>4, Zenon
<1>5. \A x \in X : /\ x.at \in Nat /\ (x.at < e => x.mem[x.at].size \in Nat \ {0})
                   /\ (x.at < e => x.at + x.mem[x.at].size <= e)
  <2> SUFFICES ASSUME NEW x \in X
               PROVE  /\ x.at \in Nat /\ (x.at < e => x.mem[x.at].size \in Nat \ {0})
                      /\ (x.at < e => x.at + x.mem[x.at].size <= e)
    OBVIOUS
  <2>1. PICK C : HdrSearch(C, x, m, L, e, n)
    OBVIOUS
  <2>2. Tiles(C, x.mem, 1, e) /\ x.at \in C \cup {e}
    BY <2>1 DEF HdrSearch, HdrHeap
  <2>3. \A h \in C : x.mem[h].size \in Nat \ {0} /\ h + x.mem[h].size <= e
    BY <1>2, <2>2, BlocksIn
  <2>4. x.at \in Nat
    BY DEF HdrPoint
  <2> QED BY <1>2, <2>2, <2>3, <2>4
<1> HIDE DEF X
<1>6. g \in [1 .. W -> [X -> X]]
  BY <1>4, Zenon
<1>7. \A k \in 1 .. W : \A x \in X : g[k][x] = Headers!Turn(x, n)
  BY Zenon
<1> HIDE DEF g
<1>8. PICK c : c = x0
  OBVIOUS
<1>9. PICK f : f \in [0 .. W -> X] /\ f[0] = c /\ \A i \in 1 .. W : f[i] = g[i][f[i - 1]]
  <2>1. c \in X
    BY <1>3, <1>8, Zenon
  <2>2. W \in Nat
    BY <1>2
  <2> QED BY <1>6, <2>1, <2>2, Recursion
<1>10. \A k \in 1 .. W : f[k] = Headers!Turn(f[k - 1], n)
  <2> SUFFICES ASSUME NEW k \in 1 .. W PROVE f[k] = Headers!Turn(f[k - 1], n)
    OBVIOUS
  <2>1. k - 1 \in 0 .. W
    BY <1>2
  <2> QED BY <1>7, <1>9, <2>1, Zenon
<1>11. f = Def(f)
  <2>1. ASSUME NEW k \in 0 .. W PROVE f[k] = IF k = 0 THEN x0 ELSE Headers!Turn(f[k - 1], n)
    <3>1. CASE k = 0
      BY <1>8, <1>9, <3>1, Zenon
    <3>2. CASE k # 0
      <4>1. k \in 1 .. W
        BY <1>2, <3>2
      <4> QED BY <1>10, <3>2, <4>1, Zenon
    <3> QED BY <3>1, <3>2
  <2>2. f = [k \in 0 .. W |-> f[k]]
    BY <1>9, Zenon
  <2> QED BY <2>1, <2>2, Zenon
<1> DEFINE t == HdrTurns(m, 1, n)
<1> HIDE DEF Def
<1>12. t = Def(t)
  <2>1. t = CHOOSE r : r = Def(r)
    BY <1>1, Zenon DEF HdrTurns, Def
  <2> QED BY <1>11, <2>1
<1>13. Headers!find_fit(m, 1, n) = IF t[W].at >= e THEN [t[W] EXCEPT !.at = 0] ELSE t[W]
  <2>1. Headers!find_fit(m, 1, n)
            = IF t[HeaderWords].at >= hdr_end THEN [t[HeaderWords] EXCEPT !.at = Headers!NULL]
              ELSE t[HeaderWords]
    BY Zenon DEF Headers!find_fit, HdrTurns
  <2> HIDE DEF t
  <2> QED BY <1>1, <2>1, Zenon DEF Headers!NULL
<1> HIDE DEF t
<1>14. t[0] = x0 /\ \A k \in 1 .. W : t[k] = Headers!Turn(t[k - 1], n)
  <2>1. 0 \in 0 .. W /\ \A k \in 1 .. W : k \in 0 .. W /\ k # 0
    BY <1>2
  <2> QED BY <1>12, <2>1, Zenon DEF Def
<1> DEFINE S == {k \in Nat : k <= W => t[k] \in X /\ (Ends(t[k], e, n) \/ t[k].at + t[k].mem[t[k].at].size >= k + 2)}
<1>15. 0 \in S
  <2>1. t[0] \in X
    BY <1>3, <1>14, Zenon
  <2>2. t[0].at = 1
    BY <1>14
  <2>3. CASE 1 < e
    <3>1. t[0].mem[t[0].at].size \in Nat \ {0}
      BY <1>5, <2>1, <2>2, <2>3
    <3> QED BY <2>1, <2>2, <3>1
  <2>4. CASE ~(1 < e)
    <3>1. Ends(t[0], e, n)
      BY <1>2, <2>2, <2>4 DEF Ends
    <3> QED BY <2>1, <3>1
  <2> QED BY <2>3, <2>4
<1>16. ASSUME NEW k \in Nat, k \in S PROVE k + 1 \in S
  <2> SUFFICES ASSUME k + 1 <= W
               PROVE  /\ t[k + 1] \in X
                      /\ Ends(t[k + 1], e, n) \/ t[k + 1].at + t[k + 1].mem[t[k + 1].at].size >= (k + 1) + 2
    OBVIOUS
  <2>1. t[k] \in X /\ (Ends(t[k], e, n) \/ t[k].at + t[k].mem[t[k].at].size >= k + 2)
    BY <1>2, <1>16
  <2>2. t[k + 1] = Headers!Turn(t[k], n)
    <3>1. k + 1 \in 1 .. W /\ (k + 1) - 1 = k
      BY <1>2
    <3> QED BY <1>14, <3>1
  <2>3. PICK x, y : x = t[k] /\ y = t[k + 1]
    OBVIOUS
  <2>4. y \in X /\ (Ends(x, e, n) => y = x)
        /\ (Ends(x, e, n) \/ y.at >= e \/ y.at + y.mem[y.at].size > x.at + x.mem[x.at].size)
    BY <1>4, <2>1, <2>2, <2>3, Zenon
  <2>5. x \in X /\ (Ends(x, e, n) \/ x.at + x.mem[x.at].size >= k + 2)
    BY <2>1, <2>3, Zenon
  <2>6. Ends(y, e, n) \/ y.at + y.mem[y.at].size >= (k + 1) + 2
    <3>1. CASE Ends(x, e, n)
      BY <2>4, <3>1
    <3>2. CASE ~Ends(x, e, n) /\ y.at >= e
      BY <3>2 DEF Ends
    <3>3. CASE ~Ends(x, e, n) /\ ~(y.at >= e)
      <4>1. y.at \in Nat /\ y.at < e /\ y.mem[y.at].size \in Nat
        BY <1>2, <1>5, <2>4, <3>3
      <4>2. x.at \in Nat /\ x.at < e /\ x.mem[x.at].size \in Nat
        BY <1>2, <1>5, <2>5, <3>3 DEF Ends
      <4> QED BY <2>4, <2>5, <3>3, <4>1, <4>2
    <3> QED BY <3>1, <3>2, <3>3
  <2> QED BY <2>3, <2>4, <2>6, Zenon
<1> HIDE DEF S
<1>17. W \in S
  BY <1>2, <1>15, <1>16, Induction
<1>18. PICK x : x = t[W]
  OBVIOUS
<1>19. x \in X /\ (Ends(x, e, n) \/ x.at + x.mem[x.at].size >= W + 2)
  BY <1>2, <1>17, <1>18 DEF S
<1>20. Ends(x, e, n)
  <2>1. CASE x.at >= e
    BY <2>1 DEF Ends
  <2>2. CASE ~(x.at >= e)
    <3>1. x.at < e /\ x.at + x.mem[x.at].size <= e /\ x.at \in Nat /\ x.mem[x.at].size \in Nat
      BY <1>2, <1>5, <1>19, <2>2
    <3> QED BY <1>2, <1>19, <3>1
  <2> QED BY <2>1, <2>2
<1>21. Headers!find_fit(m, 1, n) = IF x.at >= e THEN [x EXCEPT !.at = 0] ELSE x
  BY <1>13, <1>18, Zenon
<1>22. x \in HdrPoint /\ \E C : HdrSearch(C, x, m, L, e, n)
  BY <1>19 DEF X
<1> QED BY <1>20, <1>21, <1>22

-----------------------------------------------------------------------------
(* walk_heap().                                                            *)

\* One turn of the loop of walk_heap() over the memory m.
WalkTurn(m, e, x) ==
    IF x.at >= e THEN x ELSE [at |-> x.at + m[x.at].size, met |-> x.met \cup {x.at}]

WalkDef(m, s, e, n, f) ==
    [k \in 0 .. n |-> IF k = 0 THEN [at |-> s, met |-> {}] ELSE WalkTurn(m, e, f[k - 1])]

\* The walk at a has met the blocks before a.
WalkAt(B, a) == [at |-> a, met |-> {h \in B : h < a}]

\* A turn goes to the next block.
LEMMA WalksOn ==
    ASSUME NEW B, NEW m, NEW s \in Nat, NEW e \in Nat, Tiles(B, m, s, e),
           NEW a \in B \cup {e}
    PROVE  \E c \in B \cup {e} : WalkTurn(m, e, WalkAt(B, a)) = WalkAt(B, c) /\ (c = e \/ c > a)
<1>0. PICK x : x = WalkAt(B, a)
  OBVIOUS
<1>1. \A h \in B : /\ h \in Nat /\ s <= h /\ h < e /\ m[h].size \in Nat \ {0}
                   /\ h + m[h].size \in B \cup {e} /\ h + m[h].size \in Nat
  BY BlocksIn
<1>2. x.at = a /\ x.met = {h \in B : h < a}
  BY <1>0 DEF WalkAt
<1>3. CASE a = e
  <2>1. WalkTurn(m, e, x) = x
    BY <1>2, <1>3 DEF WalkTurn
  <2> QED BY <1>0, <1>3, <2>1
<1>4. CASE a \in B
  <2>1. PICK c : c = a + m[a].size
    OBVIOUS
  <2>2. a \in Nat /\ a < e /\ c \in B \cup {e} /\ c \in Nat /\ c > a
    BY <1>1, <1>4, <2>1
  <2>3. \A h \in B : h < c <=> (h < a \/ h = a)
    <3>1. \A h \in B : a < h => c <= h
      BY <1>4, <2>1 DEF Tiles
    <3> QED BY <1>1, <2>2, <3>1
  <2>4. {h \in B : h < a} \cup {a} = {h \in B : h < c}
    BY <1>4, <2>3
  <2>5. WalkTurn(m, e, x) = WalkAt(B, c)
    <3>1. ~(x.at >= e)
      BY <1>2, <2>2
    <3> QED BY <1>2, <2>1, <2>4, <3>1, Zenon DEF WalkTurn, WalkAt
  <2> QED BY <1>0, <2>2, <2>5
<1> QED BY <1>3, <1>4

\* The walk exists, meets all blocks and ends at the end.
LEMMA Walked ==
    ASSUME NEW B, NEW m, NEW s \in Nat, NEW e \in Nat, s <= e, Tiles(B, m, s, e),
           NEW n \in Nat, e <= s + n,
           NEW t, t = CHOOSE f : f = WalkDef(m, s, e, n, f)
    PROVE  t[n].at = e /\ t[n].met = B
<1> DEFINE X == {WalkAt(B, a) : a \in B \cup {e}}
           x0 == [at |-> s, met |-> {}]
           g == [k \in 1 .. n |-> [x \in X |-> WalkTurn(m, e, x)]]
<1>1. \A h \in B : h \in Nat /\ s <= h /\ h < e
  BY BlocksIn
<1>2. x0 \in X /\ x0.at = s
  <2>1. s \in B \cup {e}
    BY DEF Tiles
  <2>2. {h \in B : h < s} = {}
    BY <1>1
  <2>3. x0 = WalkAt(B, s)
    BY <2>2, Zenon DEF WalkAt
  <2> QED BY <2>1, <2>3
<1>3. ASSUME NEW x \in X
      PROVE  /\ WalkTurn(m, e, x) \in X /\ x.at \in Nat
             /\ WalkTurn(m, e, x).at = e \/ WalkTurn(m, e, x).at > x.at
  <2>1. PICK a \in B \cup {e} : x = WalkAt(B, a)
    OBVIOUS
  <2>2. PICK c \in B \cup {e} : WalkTurn(m, e, x) = WalkAt(B, c) /\ (c = e \/ c > a)
    BY <2>1, WalksOn
  <2>3. WalkTurn(m, e, x) \in X
    BY <2>2
  <2>4. WalkTurn(m, e, x).at = c /\ x.at = a
    BY <2>1, <2>2 DEF WalkAt
  <2>5. a \in Nat
    BY <1>1
  <2> QED BY <2>2, <2>3, <2>4, <2>5
<1>4. \A x \in X : x.at = e => x.met = B
  <2> SUFFICES ASSUME NEW x \in X, x.at = e PROVE x.met = B
    OBVIOUS
  <2>1. x.met = {h \in B : h < e}
    BY DEF WalkAt
  <2> QED BY <1>1, <2>1
<1>5. \A x \in X : x.at = e => WalkTurn(m, e, x) = x
  BY DEF WalkTurn
<1>a. \A x \in X : x.at \in Nat /\ x.at <= e
  <2> SUFFICES ASSUME NEW x \in X PROVE x.at \in Nat /\ x.at <= e
    OBVIOUS
  <2>1. PICK a \in B \cup {e} : x = WalkAt(B, a)
    OBVIOUS
  <2>2. x.at = a
    BY <2>1 DEF WalkAt
  <2> QED BY <1>1, <2>2
<1> HIDE DEF X
<1>6. g \in [1 .. n -> [X -> X]]
  BY <1>3, Zenon
<1>7. \A k \in 1 .. n : \A x \in X : g[k][x] = WalkTurn(m, e, x)
  BY Zenon
<1> HIDE DEF g
<1>8. PICK c : c = x0
  OBVIOUS
<1>9. PICK f : f \in [0 .. n -> X] /\ f[0] = c /\ \A i \in 1 .. n : f[i] = g[i][f[i - 1]]
  <2>1. c \in X
    BY <1>2, <1>8, Zenon
  <2> QED BY <1>6, <2>1, Recursion
<1>10. f = WalkDef(m, s, e, n, f)
  <2>1. ASSUME NEW k \in 0 .. n PROVE f[k] = IF k = 0 THEN x0 ELSE WalkTurn(m, e, f[k - 1])
    <3>1. CASE k = 0
      BY <1>8, <1>9, <3>1, Zenon
    <3>2. CASE k # 0
      <4>1. k \in 1 .. n /\ k - 1 \in 0 .. n
        BY <3>2
      <4> QED BY <1>7, <1>9, <3>2, <4>1, Zenon
    <3> QED BY <3>1, <3>2
  <2>2. f = [k \in 0 .. n |-> f[k]]
    BY <1>9, Zenon
  <2> QED BY <2>1, <2>2, Zenon DEF WalkDef
<1>11. t = WalkDef(m, s, e, n, t)
  BY <1>10
<1>12. t[0] = x0 /\ \A k \in 1 .. n : t[k] = WalkTurn(m, e, t[k - 1])
  <2>1. 0 \in 0 .. n /\ \A k \in 1 .. n : k \in 0 .. n /\ k # 0
    OBVIOUS
  <2> QED BY <1>11, <2>1, Zenon DEF WalkDef
<1> DEFINE S == {k \in Nat : k <= n => t[k] \in X /\ (t[k].at = e \/ t[k].at >= s + k)}
<1>13. 0 \in S
  <2>1. t[0] \in X /\ t[0].at = s
    BY <1>2, <1>12, Zenon
  <2> QED BY <2>1
<1>14. ASSUME NEW k \in Nat, k \in S PROVE k + 1 \in S
  <2> SUFFICES ASSUME k + 1 <= n
               PROVE  t[k + 1] \in X /\ (t[k + 1].at = e \/ t[k + 1].at >= s + (k + 1))
    OBVIOUS
  <2>1. t[k] \in X /\ (t[k].at = e \/ t[k].at >= s + k)
    BY <1>14
  <2>2. t[k + 1] = WalkTurn(m, e, t[k])
    <3>1. k + 1 \in 1 .. n /\ (k + 1) - 1 = k
      OBVIOUS
    <3> QED BY <1>12, <3>1
  <2>3. PICK x, y : x = t[k] /\ y = t[k + 1]
    OBVIOUS
  <2>4. y \in X /\ x \in X /\ (y.at = e \/ y.at > x.at) /\ (x.at = e => y = x)
        /\ (x.at = e \/ x.at >= s + k)
    BY <1>3, <1>5, <2>1, <2>2, <2>3, Zenon
  <2>5. x.at \in Nat /\ y.at \in Nat
    BY <1>a, <2>4
  <2>6. y.at = e \/ y.at >= s + (k + 1)
    BY <2>4, <2>5
  <2> QED BY <2>3, <2>4, <2>6, Zenon
<1> HIDE DEF S
<1>15. n \in S
  BY <1>13, <1>14, Induction
<1>16. t[n] \in X /\ (t[n].at = e \/ t[n].at >= s + n)
  BY <1>15 DEF S
<1>17. t[n].at = e
  BY <1>a, <1>16
<1> QED BY <1>4, <1>16, <1>17

\* walk_heap() of the heap with headers only.
LEMMA HdrWalk ==
    ASSUME NEW B, Tiles(B, hdr_mem, hdr_start, hdr_end), hdr_start \in Nat, hdr_end \in Nat,
           hdr_start <= hdr_end, hdr_end <= hdr_start + HeaderWords
    PROVE  Headers!walk_heap.at = hdr_end /\ Headers!walk_heap.met = B
<1>1. PICK t : t = CHOOSE f : f = WalkDef(hdr_mem, hdr_start, hdr_end, HeaderWords, f)
  OBVIOUS
<1>2. Headers!walk_heap = t[HeaderWords]
  BY <1>1, Zenon DEF Headers!walk_heap, Headers!Walk, WalkDef, WalkTurn
<1>3. HeaderWords \in Nat
  BY SizesAssumption
<1>4. t[HeaderWords].at = hdr_end /\ t[HeaderWords].met = B
  BY <1>1, <1>3, Walked
<1> QED BY <1>2, <1>4, Zenon

-----------------------------------------------------------------------------
(* The blocks as Allocator sees them.                                      *)

Blocks(m, L) == {[at |-> b.ptr - 1, size |-> m[b.ptr - 1].size] : b \in L}

\* A block is added.
LEMMA BlocksAdd ==
    ASSUME NEW m, NEW L, NEW M, NEW b0, NEW x \in Nat, b0.ptr = x + 1,
           \A b \in L : M[b.ptr - 1] = m[b.ptr - 1]
    PROVE  Blocks(M, L \cup {b0}) = Blocks(m, L) \cup {[at |-> x, size |-> M[x].size]}
<1>1. b0.ptr - 1 = x
  OBVIOUS
<1>2. Blocks(M, L \cup {b0}) = Blocks(M, L) \cup {[at |-> b0.ptr - 1, size |-> M[b0.ptr - 1].size]}
  BY Zenon DEF Blocks
<1>3. Blocks(M, L) = Blocks(m, L)
  BY Zenon DEF Blocks
<1> QED BY <1>1, <1>2, <1>3, Zenon

\* A block is removed.
BlocksLess(m, L, b, M) ==
    LET d == [at |-> b.ptr - 1, size |-> m[b.ptr - 1].size]
    IN  d \in Blocks(m, L) /\ Blocks(M, L \ {b}) = Blocks(m, L) \ {d}

\* A block goes with what the caller holds.
LEMMA BlocksRemove ==
    ASSUME NEW m, NEW L, NEW M, NEW b \in L,
           \A c \in L : c.ptr \in Nat,
           \A c, d \in L : c.ptr = d.ptr => c = d,
           \A c \in L \ {b} : M[c.ptr - 1] = m[c.ptr - 1]
    PROVE  BlocksLess(m, L, b, M)
<1> DEFINE Of(c) == [at |-> c.ptr - 1, size |-> m[c.ptr - 1].size]
<1>1. Blocks(m, L) = {Of(c) : c \in L}
  BY Zenon DEF Blocks
<1>2. Blocks(M, L \ {b}) = {Of(c) : c \in L \ {b}}
  BY Zenon DEF Blocks
<1>3. \A c \in L \ {b} : Of(c) # Of(b)
  <2> SUFFICES ASSUME NEW c \in L \ {b}, Of(c) = Of(b) PROVE FALSE
    OBVIOUS
  <2>1. c.ptr - 1 = b.ptr - 1
    OBVIOUS
  <2>2. c.ptr = b.ptr
    BY <2>1
  <2> QED BY <2>2
<1>4. Of(b) \in Blocks(m, L) /\ Blocks(M, L \ {b}) = Blocks(m, L) \ {Of(b)}
  <2> HIDE DEF Of
  <2> QED BY <1>1, <1>2, <1>3, Zenon
<1> QED BY <1>4, Zenon DEF BlocksLess

\* A free block of the tiling overlaps no block the caller holds.
LEMMA BlocksApart ==
    ASSUME NEW C, NEW M, NEW s \in Nat, NEW e \in Nat, Tiles(C, M, s, e), NEW x \in C,
           NEW m, NEW L,
           \A b \in L : b.ptr - 1 \in C /\ b.ptr - 1 # x /\ M[b.ptr - 1] = m[b.ptr - 1]
    PROVE  \A c \in Blocks(m, L) : x + M[x].size <= c.at \/ c.at + c.size <= x
<1> SUFFICES ASSUME NEW c \in Blocks(m, L) PROVE x + M[x].size <= c.at \/ c.at + c.size <= x
  OBVIOUS
<1>1. PICK b \in L : c = [at |-> b.ptr - 1, size |-> m[b.ptr - 1].size]
  BY DEF Blocks
<1>2. PICK h \in C : h = b.ptr - 1
  OBVIOUS
<1>3. c.at = h /\ c.size = M[h].size /\ h # x
  BY <1>1, <1>2
<1>4. h \in Nat /\ x \in Nat
  BY BlocksIn
<1>5. CASE h < x
  BY <1>3, <1>5 DEF Tiles
<1>6. CASE x < h
  BY <1>3, <1>6 DEF Tiles
<1> QED BY <1>3, <1>4, <1>5, <1>6

\* Where no stretch of free blocks is long enough, n words overlap a block of the caller.
LEMMA BlocksNoRoom ==
    ASSUME NEW C, NEW M, NEW s \in Nat, NEW e \in Nat, Tiles(C, M, s, e), NEW n \in Nat \ {0},
           \A h \in C : ~M[h].allocated =>
               M[h].size < n /\ (h + M[h].size = e \/ M[h + M[h].size].allocated),
           NEW m, NEW L, \A h \in C : M[h].allocated => \E b \in L : b.ptr = h + 1,
           \A b \in L : M[b.ptr - 1] = m[b.ptr - 1],
           NEW a \in s .. e - n
    PROVE  \E c \in Blocks(m, L) : ~(a + n <= c.at) /\ ~(c.at + c.size <= a)
<1>1. PICK h \in C : M[h].allocated /\ h < a + n /\ a < h + M[h].size
  BY NoStretch
<1>2. PICK b \in L : b.ptr = h + 1
  BY <1>1
<1>3. h \in Nat /\ M[h].size \in Nat /\ a \in Nat
  <2>1. \A g \in C : g \in Nat /\ M[g].size \in Nat
    BY BlocksIn
  <2> QED BY <2>1
<1>4. b.ptr - 1 = h
  BY <1>2, <1>3
<1>5. PICK c : c = [at |-> b.ptr - 1, size |-> m[b.ptr - 1].size]
  OBVIOUS
<1>6. c \in Blocks(m, L)
  BY <1>5 DEF Blocks
<1>7. c.at = h /\ c.size = M[h].size
  BY <1>4, <1>5
<1> QED BY <1>1, <1>3, <1>6, <1>7

-----------------------------------------------------------------------------
(* The heap with headers only: the inductive invariant and its steps.      *)

HdrInv ==
    /\ hdr_mem \in [Headers!Addr -> Headers!Word]
    /\ \/ hdr_start = 0 /\ hdr_end = 0 /\ hdr_live = {}
       \/ hdr_start = 1 /\ \E B : HdrHeap(B, hdr_mem, hdr_live, hdr_end)

\* The end of the heap, also before the first allocation.
HdrTop == IF hdr_end = 0 THEN 1 ELSE hdr_end

\* The heap in both cases.
LEMMA HdrInvHeap ==
    ASSUME HdrInv
    PROVE  /\ \E B : HdrHeap(B, hdr_mem, hdr_live, HdrTop)
           /\ (IF hdr_start = 0 THEN 1 ELSE hdr_start) = 1
           /\ hdr_end = 0 \/ (hdr_end = HdrTop /\ hdr_start = 1)
<1>1. CASE hdr_start = 0 /\ hdr_end = 0 /\ hdr_live = {}
  <2>1. HdrTop = 1
    BY <1>1 DEF HdrTop
  <2>2. Tiles({}, hdr_mem, 1, 1) /\ HdrHeld({}, hdr_mem, hdr_live)
    BY <1>1 DEF Tiles, HdrHeld
  <2>3. 1 \in 1 .. HeaderWords + 1
    BY SizesAssumption
  <2>4. HdrHeap({}, hdr_mem, hdr_live, 1)
    BY <1>1, <2>2, <2>3 DEF HdrHeap, HdrInv
  <2> QED BY <1>1, <2>1, <2>4
<1>2. CASE hdr_start = 1 /\ \E B : HdrHeap(B, hdr_mem, hdr_live, hdr_end)
  <2>1. hdr_end # 0
    BY <1>2, SizesAssumption DEF HdrHeap
  <2> QED BY <1>2, <2>1 DEF HdrTop
<1> QED BY <1>1, <1>2 DEF HdrInv

\* Nothing is found before the first allocation.
LEMMA HdrFindNone ==
    ASSUME hdr_end = 0, NEW m, NEW h \in Nat, NEW n
    PROVE  Headers!find_fit(m, h, n) = [mem |-> m, at |-> 0]
<1>1. PICK W, x0 : W = HeaderWords /\ x0 = [mem |-> m, at |-> h]
  OBVIOUS
<1>2. W \in Nat /\ x0.at >= hdr_end
  BY <1>1, SizesAssumption
<1>3. Headers!Turn(x0, n) = x0
  BY <1>2 DEF Headers!Turn
<1> DEFINE Def(f) == [k \in 0 .. W |-> IF k = 0 THEN x0 ELSE Headers!Turn(f[k - 1], n)]
           f0 == [k \in 0 .. W |-> x0]
           t == HdrTurns(m, h, n)
<1>4. f0 = Def(f0)
  <2>1. ASSUME NEW k \in 0 .. W PROVE x0 = IF k = 0 THEN x0 ELSE Headers!Turn(f0[k - 1], n)
    <3>1. CASE k # 0
      <4>1. k - 1 \in 0 .. W
        BY <1>2, <3>1
      <4> QED BY <1>3, <3>1, <4>1, Zenon
    <3> QED BY <3>1
  <2> QED BY <2>1, Zenon
<1> HIDE DEF Def, f0
<1>5. t = Def(t)
  <2>1. t = CHOOSE r : r = Def(r)
    BY <1>1, Zenon DEF HdrTurns, Def
  <2> QED BY <1>4, <2>1
<1>6. Headers!find_fit(m, h, n)
        = IF t[HeaderWords].at >= hdr_end THEN [t[HeaderWords] EXCEPT !.at = Headers!NULL]
          ELSE t[HeaderWords]
  BY Zenon DEF Headers!find_fit, HdrTurns
<1> HIDE DEF t
<1>7. t[0] = x0 /\ \A k \in 1 .. W : t[k] = Headers!Turn(t[k - 1], n)
  <2>1. 0 \in 0 .. W /\ \A k \in 1 .. W : k \in 0 .. W /\ k # 0
    BY <1>2
  <2> QED BY <1>5, <2>1, Zenon DEF Def
<1> DEFINE S == {k \in Nat : k <= W => t[k] = x0}
<1>8. 0 \in S
  BY <1>7
<1>9. ASSUME NEW k \in Nat, k \in S PROVE k + 1 \in S
  <2> SUFFICES ASSUME k + 1 <= W PROVE t[k + 1] = x0
    OBVIOUS
  <2>1. k + 1 \in 1 .. W /\ (k + 1) - 1 = k /\ t[k] = x0
    BY <1>2, <1>9
  <2>2. t[k + 1] = Headers!Turn(t[k], n)
    BY <1>7, <2>1
  <2> QED BY <1>3, <2>1, <2>2, Zenon
<1> HIDE DEF S
<1>10. W \in S
  BY <1>2, <1>8, <1>9, Induction
<1>11. t[HeaderWords] = x0
  BY <1>1, <1>2, <1>10 DEF S
<1>12. Headers!find_fit(m, h, n) = [x0 EXCEPT !.at = 0]
  BY <1>2, <1>6, <1>11, Zenon DEF Headers!NULL
<1> QED BY <1>1, <1>12

\* What find_fit() returns to mmalloc().
HdrFits(C, fit, n) ==
    /\ HdrHeap(C, fit.mem, hdr_live, HdrTop)
    /\ \A b \in hdr_live : fit.mem[b.ptr - 1] = hdr_mem[b.ptr - 1]
    /\ fit.at # 0 => /\ hdr_end # 0 /\ fit.at \in C
                     /\ ~fit.mem[fit.at].allocated /\ fit.mem[fit.at].size >= n
    /\ fit.at = 0 => \A h \in C : ~fit.mem[h].allocated =>
                       /\ fit.mem[h].size < n
                       /\ h + fit.mem[h].size = HdrTop \/ fit.mem[h + fit.mem[h].size].allocated

\* It does.
LEMMA HdrFit ==
    ASSUME HdrInv, NEW n \in Nat \ {0}
    PROVE  \E C : HdrFits(C, Headers!find_fit(hdr_mem, 1, n), n)
<1>1. PICK B : HdrHeap(B, hdr_mem, hdr_live, HdrTop)
  BY HdrInvHeap
<1>2. PICK fit : fit = Headers!find_fit(hdr_mem, 1, n)
  OBVIOUS
<1>3. CASE hdr_end = 0
  <2>1. fit.mem = hdr_mem /\ fit.at = 0
    BY <1>2, <1>3, HdrFindNone
  <2>2. \A h \in B : FALSE
    <3>1. Tiles(B, hdr_mem, 1, 1)
      BY <1>1, <1>3 DEF HdrHeap, HdrTop
    <3> QED BY <3>1 DEF Tiles
  <2>3. HdrFits(B, fit, n)
    BY <1>1, <2>1, <2>2 DEF HdrFits
  <2> QED BY <1>2, <2>3
<1>4. CASE hdr_end # 0
  <2>1. HdrHeap(B, hdr_mem, hdr_live, hdr_end) /\ HdrTop = hdr_end
    BY <1>1, <1>4 DEF HdrTop
  <2>2. PICK x, C :
               /\ x \in HdrPoint /\ HdrSearch(C, x, hdr_mem, hdr_live, hdr_end, n) /\ Ends(x, hdr_end, n)
               /\ fit = IF x.at >= hdr_end THEN [x EXCEPT !.at = 0] ELSE x
    <3>1. n \in Nat
      OBVIOUS
    <3> QED BY <1>2, <2>1, <3>1, HdrFindFit
  <2>3. /\ HdrHeap(C, x.mem, hdr_live, hdr_end) /\ x.at \in C \cup {hdr_end}
        /\ \A b \in hdr_live : x.mem[b.ptr - 1] = hdr_mem[b.ptr - 1]
        /\ \A h \in C : (h < x.at /\ ~x.mem[h].allocated) =>
             /\ x.mem[h].size < n
             /\ h + x.mem[h].size = hdr_end \/ x.mem[h + x.mem[h].size].allocated
    BY <2>2 DEF HdrSearch
  <2>4. Tiles(C, x.mem, 1, hdr_end) /\ 1 \in Nat /\ hdr_end \in Nat
    BY <2>3, SizesAssumption DEF HdrHeap
  <2>5. \A h \in C : h \in Nat /\ 1 <= h /\ h < hdr_end
    BY <2>4, BlocksIn
  <2>6. x.at \in Nat
    BY <2>2 DEF HdrPoint
  <2>7. CASE x.at >= hdr_end
    <3>1. fit.mem = x.mem /\ fit.at = 0
      BY <2>2, <2>7 DEF HdrPoint
    <3>2. \A h \in C : h < x.at
      BY <2>4, <2>5, <2>6, <2>7
    <3>3. HdrFits(C, fit, n)
      BY <2>1, <2>3, <3>1, <3>2 DEF HdrFits
    <3> QED BY <1>2, <3>3
  <2>8. CASE ~(x.at >= hdr_end)
    <3>1. fit = x
      BY <2>2, <2>8
    <3>2. x.at \in C /\ x.at # 0
      BY <2>3, <2>4, <2>5, <2>8
    <3>3. ~x.mem[x.at].allocated /\ x.mem[x.at].size >= n
      BY <2>2, <2>8 DEF Ends
    <3>4. HdrFits(C, fit, n)
      BY <1>4, <2>1, <2>3, <3>1, <3>2, <3>3 DEF HdrFits
    <3> QED BY <1>2, <3>4
  <2> QED BY <2>7, <2>8
<1> QED BY <1>3, <1>4

\* The abstract state of the heap with headers only, in the words used here.
LEMMA HdrAbstract ==
    /\ Headers!Promise!ANext <=>
         \/ \E n \in {s + 1 : s \in Sizes} :
              \/ /\ \E at \in 1 .. HdrTop - n : \E size \in n .. HdrTop - at :
                      /\ at >= 1 /\ at + size <= HdrTop
                      /\ \A c \in Blocks(hdr_mem, hdr_live) : at + size <= c.at \/ c.at + c.size <= at
                      /\ Blocks(hdr_mem, hdr_live)' = Blocks(hdr_mem, hdr_live) \cup {[at |-> at, size |-> size]}
                 /\ HdrTop' = HdrTop
              \/ /\ ~\E at \in 1 .. HdrTop - n :
                       /\ at >= 1 /\ at + n <= HdrTop
                       /\ \A c \in Blocks(hdr_mem, hdr_live) : at + n <= c.at \/ c.at + c.size <= at
                 /\ Blocks(hdr_mem, hdr_live)' = Blocks(hdr_mem, hdr_live) \cup {[at |-> HdrTop, size |-> n]}
                 /\ HdrTop' = HdrTop + n
         \/ \E b \in Blocks(hdr_mem, hdr_live) :
              Blocks(hdr_mem, hdr_live)' = Blocks(hdr_mem, hdr_live) \ {b} /\ HdrTop' = HdrTop
    /\ Headers!Promise!AInit <=> Blocks(hdr_mem, hdr_live) = {} /\ HdrTop = 1
    /\ Headers!Promise!avars = <<Blocks(hdr_mem, hdr_live), HdrTop>>
BY DEF Headers!Promise!ANext, Headers!Promise!Reuse, Headers!Promise!Extend, Headers!Promise!Release,
       Headers!Promise!Room, Headers!Promise!Free, Headers!Promise!Disjoint, Headers!Promise!AInit,
       Headers!Promise!avars, Blocks, HdrTop, Headers!Base, Headers!NULL, Headers!Overhead

\* mmalloc() keeps the heap and takes a free stretch, or extends the heap if there is none.
LEMMA HdrMalloc ==
    ASSUME HdrInv, NEW size \in Sizes, Headers!mmalloc(size)
    PROVE  HdrInv' /\ Headers!Promise!ANext
<1>1. PICK n, fit, L, T : n = size + 1 /\ fit = Headers!find_fit(hdr_mem, 1, n) /\ L = hdr_live /\ T = HdrTop
  OBVIOUS
<1>2. n \in Nat \ {0} /\ size \in Nat /\ n \in {s + 1 : s \in Sizes}
  <2>1. size \in Nat
    BY SizesAssumption
  <2>2. n \in {s + 1 : s \in Sizes}
    BY <1>1, Zenon
  <2> QED BY <1>1, <2>1, <2>2
<1>3. PICK C : HdrFits(C, fit, n)
  BY <1>1, <1>2, HdrFit
<1>4. /\ HdrHeap(C, fit.mem, L, T)
      /\ \A b \in L : fit.mem[b.ptr - 1] = hdr_mem[b.ptr - 1]
  BY <1>1, <1>3 DEF HdrFits
<1>5. /\ hdr_start' = 1
      /\ \/ /\ fit.at # 0
            /\ hdr_mem' = Headers!Allocated(Headers!Split(fit.mem, fit.at, n), fit.at,
                                            Headers!Split(fit.mem, fit.at, n)[fit.at].size, fit.at + 1, size)
            /\ hdr_live' = L \cup {[ptr |-> fit.at + 1, asked |-> size]}
            /\ hdr_end' = hdr_end
         \/ /\ fit.at = 0
            /\ T + n <= HeaderWords + 1
            /\ hdr_mem' = Headers!Allocated(fit.mem, T, n, T + 1, size)
            /\ hdr_live' = L \cup {[ptr |-> T + 1, asked |-> size]}
            /\ hdr_end' = T + n
  <2>1. (IF hdr_start = 0 THEN 1 ELSE hdr_start) = 1
    BY HdrInvHeap
  <2>2. (IF hdr_end = 0 THEN 1 ELSE hdr_end) = T
    BY <1>1 DEF HdrTop
  <2> QED BY <1>1, <2>1, <2>2, Zenon DEF Headers!mmalloc, Headers!NULL, Headers!Base, Headers!Overhead
<1>6. T \in Nat /\ T \in 1 .. HeaderWords + 1 /\ 1 \in Nat
  BY <1>4, SizesAssumption DEF HdrHeap
<1>7. \A b \in L : b.ptr - 1 \in C /\ fit.mem[b.ptr - 1].allocated
  BY <1>4 DEF HdrHeap, HdrHeld
<1>8. CASE fit.at # 0
  <2>1. PICK x, M : x = fit.at /\ M = Headers!Split(fit.mem, x, n)
    OBVIOUS
  <2>2. x \in C /\ ~fit.mem[x].allocated /\ n <= fit.mem[x].size /\ hdr_end # 0
    <3>1. x \in C /\ ~fit.mem[x].allocated /\ fit.mem[x].size >= n /\ hdr_end # 0
      BY <1>3, <1>8, <2>1 DEF HdrFits
    <3> QED BY <3>1
  <2>3. PICK D : /\ HdrHeap(D, M, L, T) /\ x \in D /\ ~M[x].allocated /\ M[x].size = n
                 /\ \A b \in L : M[b.ptr - 1] = fit.mem[b.ptr - 1]
    BY <1>2, <1>4, <2>1, <2>2, HdrSplit
  <2>4. PICK N : N = Headers!Allocated(M, x, M[x].size, x + 1, size)
    OBVIOUS
  <2>5. /\ HdrHeap(D, N, L \cup {[ptr |-> x + 1, asked |-> size]}, T)
        /\ N[x].size = M[x].size
        /\ \A b \in L : N[b.ptr - 1] = M[b.ptr - 1] /\ b.ptr - 1 # x
    <3>1. size + 1 <= M[x].size
      BY <1>1, <1>2, <2>3
    <3>2. HdrHeap(D, M, L, T) /\ x \in D /\ ~M[x].allocated
      BY <2>3
    <3>3. HdrTakes(D, M, L, T, x, size, N)
      BY <2>4, <3>1, <3>2, HdrTake
    <3> QED BY <3>3 DEF HdrTakes
  <2>6. /\ hdr_mem' = N /\ hdr_live' = L \cup {[ptr |-> x + 1, asked |-> size]}
        /\ hdr_end' = hdr_end /\ hdr_start' = 1
    BY <1>5, <1>8, <2>1, <2>4, Zenon
  <2>7. hdr_end = T /\ HdrTop' = T
    BY <1>1, <2>2, <2>6 DEF HdrTop
  <2>8. HdrInv'
    <3>1. N \in [Headers!Addr -> Headers!Word]
      BY <2>5 DEF HdrHeap
    <3>2. \E B : HdrHeap(B, hdr_mem', hdr_live', hdr_end')
      BY <2>5, <2>6, <2>7
    <3> QED BY <2>6, <3>1, <3>2 DEF HdrInv, HdrHeap, HdrHeld, Headers!Addr, Headers!Word, Headers!Base, Headers!Data
  <2>9. \A b \in L : N[b.ptr - 1] = hdr_mem[b.ptr - 1] /\ M[b.ptr - 1] = hdr_mem[b.ptr - 1]
    BY <1>4, <2>3, <2>5
  <2>10. Tiles(D, M, 1, T) /\ x \in Nat /\ 1 <= x /\ x + n <= T
    <3>1. Tiles(D, M, 1, T)
      BY <2>3 DEF HdrHeap
    <3>2. \A h \in D : h \in Nat /\ 1 <= h /\ h + M[h].size <= T
      BY <1>6, <3>1, BlocksIn
    <3> QED BY <2>3, <3>1, <3>2
  <2>11. \A c \in Blocks(hdr_mem, L) : x + n <= c.at \/ c.at + c.size <= x
    <3>1. \A b \in L : b.ptr - 1 \in D /\ b.ptr - 1 # x /\ M[b.ptr - 1] = hdr_mem[b.ptr - 1]
      BY <2>3, <2>5, <2>9 DEF HdrHeap, HdrHeld
    <3>2. \A c \in Blocks(hdr_mem, L) : x + M[x].size <= c.at \/ c.at + c.size <= x
      BY <1>6, <2>3, <2>10, <3>1, BlocksApart
    <3> QED BY <2>3, <3>2
  <2>12. Blocks(hdr_mem, hdr_live)' = Blocks(hdr_mem, hdr_live) \cup {[at |-> x, size |-> n]}
    <3>1. PICK b0 : b0 = [ptr |-> x + 1, asked |-> size]
      OBVIOUS
    <3>2. Blocks(N, L \cup {b0}) = Blocks(hdr_mem, L) \cup {[at |-> x, size |-> N[x].size]}
      BY <2>9, <2>10, <3>1, BlocksAdd
    <3>3. Blocks(hdr_mem, hdr_live)' = Blocks(N, L \cup {b0})
      BY <2>6, <3>1 DEF Blocks
    <3>4. N[x].size = n
      BY <2>3, <2>5
    <3> QED BY <1>1, <3>2, <3>3, <3>4, Zenon
  <2>13. x \in 1 .. HdrTop - n /\ n \in n .. HdrTop - x /\ x >= 1 /\ x + n <= HdrTop
    BY <1>1, <1>2, <1>6, <2>10
  <2>14. Headers!Promise!ANext
    <3>1. \E k \in {s + 1 : s \in Sizes} :
              /\ \E at \in 1 .. HdrTop - k : \E z \in k .. HdrTop - at :
                      /\ at >= 1 /\ at + z <= HdrTop
                      /\ \A c \in Blocks(hdr_mem, hdr_live) : at + z <= c.at \/ c.at + c.size <= at
                      /\ Blocks(hdr_mem, hdr_live)' = Blocks(hdr_mem, hdr_live) \cup {[at |-> at, size |-> z]}
              /\ HdrTop' = HdrTop
      BY <1>1, <1>2, <2>7, <2>11, <2>12, <2>13, Zenon
    <3> QED BY <3>1, HdrAbstract, Zenon
  <2> QED BY <2>8, <2>14
<1>9. CASE fit.at = 0
  <2>1. /\ T + n <= HeaderWords + 1
        /\ hdr_mem' = Headers!Allocated(fit.mem, T, n, T + 1, size)
        /\ hdr_live' = L \cup {[ptr |-> T + 1, asked |-> size]}
        /\ hdr_end' = T + n /\ hdr_start' = 1
    BY <1>5, <1>9, Zenon
  <2>2. PICK M, N : M = Headers!SetFree(fit.mem, T, n) /\ N = Headers!Allocated(M, T, n, T + 1, size)
    OBVIOUS
  <2>3. /\ HdrHeap(C \cup {T}, M, L, T + n) /\ T \notin C /\ M[T].size = n /\ ~M[T].allocated
        /\ \A b \in L : M[b.ptr - 1] = fit.mem[b.ptr - 1]
    <3>1. HdrHeap(C, fit.mem, L, T) /\ n \in Nat \ {0} /\ T + n <= HeaderWords + 1
      BY <1>2, <1>4, <2>1
    <3>2. M = Headers!SetFree(fit.mem, T, n)
      BY <2>2
    <3>3. HdrExtends(C, fit.mem, L, T, n, M)
      BY <3>1, <3>2, HdrExtend
    <3> QED BY <3>3 DEF HdrExtends
  <2>4. /\ HdrHeap(C \cup {T}, N, L \cup {[ptr |-> T + 1, asked |-> size]}, T + n)
        /\ N[T].size = M[T].size
        /\ \A b \in L : N[b.ptr - 1] = M[b.ptr - 1] /\ b.ptr - 1 # T
    <3>1. size + 1 <= M[T].size /\ N = Headers!Allocated(M, T, M[T].size, T + 1, size)
      BY <1>1, <1>2, <2>2, <2>3
    <3>2. T \in C \cup {T}
      OBVIOUS
    <3>3. HdrTakes(C \cup {T}, M, L, T + n, T, size, N)
      BY <2>3, <3>1, <3>2, HdrTake
    <3> QED BY <3>3 DEF HdrTakes
  <2>5. hdr_mem' = N
    <3>1. PICK A, t, d : A = Headers!Addr /\ t = Headers!Tag(n, TRUE) /\ d = Headers!Data(T + 1)
      OBVIOUS
    <3>2. hdr_mem' = [a \in A |-> IF a = T THEN t
                                  ELSE IF a \in T + 1 .. (T + 1) + size - 1 THEN d ELSE fit.mem[a]]
      BY <2>1, <3>1, Zenon DEF Headers!Allocated
    <3>3. N = [a \in A |-> IF a = T THEN t
                           ELSE IF a \in T + 1 .. (T + 1) + size - 1 THEN d ELSE M[a]]
      BY <2>2, <3>1, Zenon DEF Headers!Allocated
    <3>4. ASSUME NEW a \in A, a # T, a \notin T + 1 .. (T + 1) + size - 1 PROVE M[a] = fit.mem[a]
      <4>1. a \notin T + 1 .. T + n - 1
        BY <1>1, <1>2, <1>6, <3>4
      <4> QED BY <2>2, <3>1, <3>4, <4>1, Zenon DEF Headers!SetFree
    <3> QED BY <3>2, <3>3, <3>4, Zenon
  <2>6. HdrTop' = T + n /\ T + n # 0
    BY <1>2, <1>6, <2>1 DEF HdrTop
  <2>7. HdrInv'
    <3>1. N \in [Headers!Addr -> Headers!Word]
      BY <2>4 DEF HdrHeap
    <3>2. \E B : HdrHeap(B, hdr_mem', hdr_live', hdr_end')
      BY <2>1, <2>4, <2>5
    <3> QED BY <2>1, <2>5, <3>1, <3>2 DEF HdrInv, HdrHeap, HdrHeld, Headers!Addr, Headers!Word, Headers!Base, Headers!Data
  <2>8. \A b \in L : N[b.ptr - 1] = hdr_mem[b.ptr - 1]
    BY <1>4, <2>3, <2>4
  <2>9. Blocks(hdr_mem, hdr_live)' = Blocks(hdr_mem, hdr_live) \cup {[at |-> HdrTop, size |-> n]}
    <3>1. PICK b0 : b0 = [ptr |-> T + 1, asked |-> size]
      OBVIOUS
    <3>2. Blocks(N, L \cup {b0}) = Blocks(hdr_mem, L) \cup {[at |-> T, size |-> N[T].size]}
      BY <1>6, <2>8, <3>1, BlocksAdd
    <3>3. Blocks(hdr_mem, hdr_live)' = Blocks(N, L \cup {b0})
      BY <2>1, <2>5, <3>1 DEF Blocks
    <3>4. N[T].size = n
      BY <2>3, <2>4
    <3> QED BY <1>1, <3>2, <3>3, <3>4, Zenon
  <2>10. ASSUME NEW a \in 1 .. T - n
         PROVE  \E c \in Blocks(hdr_mem, L) : ~(a + n <= c.at) /\ ~(c.at + c.size <= a)
    <3>1. PICK F : F = fit.mem
      OBVIOUS
    <3>2. Tiles(C, F, 1, T) /\ \A h \in C : F[h].allocated => \E b \in L : b.ptr = h + 1
      BY <1>4, <3>1 DEF HdrHeap, HdrHeld
    <3>3. \A h \in C : ~F[h].allocated =>
              F[h].size < n /\ (h + F[h].size = T \/ F[h + F[h].size].allocated)
      BY <1>1, <1>3, <1>9, <3>1 DEF HdrFits
    <3>4. \A b \in L : F[b.ptr - 1] = hdr_mem[b.ptr - 1]
      BY <1>4, <3>1
    <3> QED BY <1>2, <1>6, <3>2, <3>3, <3>4, BlocksNoRoom
  <2>11. Headers!Promise!ANext
    <3>1. ~\E at \in 1 .. HdrTop - n :
               /\ at >= 1 /\ at + n <= HdrTop
               /\ \A c \in Blocks(hdr_mem, hdr_live) : at + n <= c.at \/ c.at + c.size <= at
      BY <1>1, <2>10, Zenon
    <3>2. HdrTop' = HdrTop + n
      BY <1>1, <2>6
    <3>3. \E k \in {s + 1 : s \in Sizes} :
              /\ ~\E at \in 1 .. HdrTop - k :
                       /\ at >= 1 /\ at + k <= HdrTop
                       /\ \A c \in Blocks(hdr_mem, hdr_live) : at + k <= c.at \/ c.at + c.size <= at
              /\ Blocks(hdr_mem, hdr_live)' = Blocks(hdr_mem, hdr_live) \cup {[at |-> HdrTop, size |-> k]}
              /\ HdrTop' = HdrTop + k
      BY <1>2, <2>9, <3>1, <3>2, Zenon
    <3> QED BY <3>3, HdrAbstract, Zenon
  <2> QED BY <2>7, <2>11
<1> QED BY <1>8, <1>9

\* mfree() keeps the heap and gives a block back.
LEMMA HdrFree ==
    ASSUME HdrInv, NEW b \in hdr_live, Headers!mfree(b)
    PROVE  HdrInv' /\ Headers!Promise!ANext
<1>1. PICK L, e, x : L = hdr_live /\ e = hdr_end /\ x = b.ptr - 1
  OBVIOUS
<1>2. PICK B : HdrHeap(B, hdr_mem, L, e) /\ hdr_start = 1
  BY <1>1 DEF HdrInv
<1>3. /\ Tiles(B, hdr_mem, 1, e) /\ 1 \in Nat /\ e \in Nat
      /\ \A c \in L : c.ptr - 1 \in B
      /\ \A c, d \in L : c.ptr = d.ptr => c = d
  BY <1>2, SizesAssumption DEF HdrHeap, HdrHeld
<1>4. \A h \in B : /\ h \in Nat /\ hdr_mem[h].size \in Nat \ {0} /\ h + hdr_mem[h].size \in B \cup {e}
                   /\ h + hdr_mem[h].size \in Nat
  BY <1>3, BlocksIn
<1>5. PICK z, y, M : z = hdr_mem[x].size /\ y = x + z /\ M = Headers!SetFree(hdr_mem, x, z)
  OBVIOUS
<1>6. x \in B /\ x \in Nat /\ z \in Nat \ {0} /\ y \in B \cup {e} /\ y \in Nat /\ x < y /\ y - x = z
  BY <1>1, <1>3, <1>4, <1>5
<1>7. hdr_mem' = M /\ hdr_live' = L \ {b} /\ hdr_start' = 1 /\ hdr_end' = e
  BY <1>1, <1>2, <1>5 DEF Headers!mfree, Headers!Overhead
<1>8. PICK C, K : /\ C = {h \in B : h <= x \/ y <= h}
                  /\ K = {c \in L : c.ptr - 1 < x \/ y <= c.ptr - 1}
  OBVIOUS
<1>9. HdrJoins(B, hdr_mem, L, e, x, y, C, M, K)
  <2>1. HdrJoins(B, hdr_mem, L, e, x, y, {h \in B : h <= x \/ y <= h},
                 Headers!SetFree(hdr_mem, x, y - x), {c \in L : c.ptr - 1 < x \/ y <= c.ptr - 1})
    BY <1>2, <1>6, HdrJoin
  <2> QED BY <1>5, <1>6, <1>8, <2>1, Zenon
<1>10. HdrHeap(C, M, K, e) /\ \A c \in K : M[c.ptr - 1] = hdr_mem[c.ptr - 1]
  BY <1>9 DEF HdrJoins
<1>11. \A c \in L : c.ptr \in Nat /\ c.ptr - 1 \in B /\ c.ptr - 1 \in Nat
  BY <1>2, HdrLive
<1>12. K = L \ {b}
  <2>1. \A c \in L : (c.ptr - 1 < x \/ y <= c.ptr - 1) <=> c # b
    <3> SUFFICES ASSUME NEW c \in L PROVE (c.ptr - 1 < x \/ y <= c.ptr - 1) <=> c # b
      OBVIOUS
    <3>1. PICK h \in B : h = c.ptr - 1
      BY <1>11
    <3>2. h \in Nat /\ (x < h => y <= h)
      BY <1>3, <1>4, <1>5, <1>6 DEF Tiles
    <3>3. c # b => h # x
      BY <1>1, <1>3, <1>11, <3>1
    <3>4. c = b => h = x
      BY <1>1, <3>1
    <3> QED BY <1>6, <3>1, <3>2, <3>3, <3>4
  <2> QED BY <1>8, <2>1
<1>13. HdrInv'
  <2>1. M \in [Headers!Addr -> Headers!Word]
    BY <1>10 DEF HdrHeap
  <2>2. \E D : HdrHeap(D, hdr_mem', hdr_live', hdr_end')
    BY <1>7, <1>10, <1>12
  <2> QED BY <1>7, <2>1, <2>2 DEF HdrInv, HdrHeap, HdrHeld, Headers!Addr, Headers!Word, Headers!Base, Headers!Data
<1>14. HdrTop' = HdrTop
  BY <1>1, <1>7 DEF HdrTop
<1>15. PICK d : d = [at |-> b.ptr - 1, size |-> hdr_mem[b.ptr - 1].size]
  OBVIOUS
<1>16. d \in Blocks(hdr_mem, L) /\ Blocks(M, L \ {b}) = Blocks(hdr_mem, L) \ {d}
  <2>1. \A c \in L \ {b} : M[c.ptr - 1] = hdr_mem[c.ptr - 1]
    BY <1>10, <1>12
  <2>2. \A c \in L : c.ptr \in Nat
    BY <1>11
  <2>3. b \in L /\ \A c, g \in L : c.ptr = g.ptr => c = g
    BY <1>1, <1>3
  <2>4. BlocksLess(hdr_mem, L, b, M)
    BY <2>1, <2>2, <2>3, BlocksRemove
  <2> QED BY <1>15, <2>4, Zenon DEF BlocksLess
<1>17. Blocks(hdr_mem, hdr_live)' = Blocks(M, L \ {b})
  BY <1>7 DEF Blocks
<1>18. \E c \in Blocks(hdr_mem, hdr_live) :
           Blocks(hdr_mem, hdr_live)' = Blocks(hdr_mem, hdr_live) \ {c} /\ HdrTop' = HdrTop
  BY <1>1, <1>14, <1>16, <1>17, Zenon
<1> QED BY <1>13, <1>18, HdrAbstract, Zenon

\* What the invariant says of the properties.
LEMMA HdrInvFacts ==
    ASSUME HdrInv
    PROVE  Headers!HeapWalkable /\ Headers!PayloadIntact
<1>1. PICK B : HdrHeap(B, hdr_mem, hdr_live, HdrTop)
  BY HdrInvHeap
<1>2. \/ hdr_start = 0 /\ hdr_end = 0 /\ HdrTop = 1
      \/ hdr_start = 1 /\ hdr_end = HdrTop /\ hdr_end # 0
  BY SizesAssumption DEF HdrInv, HdrTop, HdrHeap
<1>3. /\ Tiles(B, hdr_mem, 1, HdrTop) /\ HdrTop \in 1 .. HeaderWords + 1 /\ HeaderWords \in Nat
      /\ hdr_mem \in [Headers!Addr -> Headers!Word]
      /\ hdr_live \subseteq [ptr : 1 .. HeaderWords + 1, asked : Sizes]
  BY <1>1, SizesAssumption DEF HdrHeap
<1>4. Headers!TypeOK
  BY <1>2, <1>3 DEF Headers!TypeOK, Headers!NULL, Headers!Base
<1>5. Tiles(B, hdr_mem, hdr_start, hdr_end)
  <2>1. CASE hdr_start = 0 /\ hdr_end = 0 /\ HdrTop = 1
    <3>1. B = {}
      BY <1>3, <2>1 DEF Tiles
    <3> QED BY <2>1, <3>1 DEF Tiles
  <2>2. CASE hdr_start = 1 /\ hdr_end = HdrTop
    BY <1>3, <2>2
  <2> QED BY <1>2, <2>1, <2>2
<1>6. hdr_start \in Nat /\ hdr_end \in Nat /\ hdr_start <= hdr_end /\ hdr_end <= hdr_start + HeaderWords
  BY <1>2, <1>3
<1>7. Headers!walk_heap.at = hdr_end /\ Headers!walk_heap.met = B
  BY <1>5, <1>6, HdrWalk
<1>8. \A h \in B : h \in Nat
  BY <1>5, <1>6, BlocksIn
<1>9. {h \in B : hdr_mem[h].allocated} = {b.ptr - 1 : b \in hdr_live}
  <2>1. \A b \in hdr_live : b.ptr - 1 \in B /\ hdr_mem[b.ptr - 1].allocated
    BY <1>1 DEF HdrHeap, HdrHeld
  <2>2. ASSUME NEW h \in B, hdr_mem[h].allocated PROVE \E b \in hdr_live : h = b.ptr - 1
    <3>1. PICK b \in hdr_live : b.ptr = h + 1
      BY <1>1, <2>2 DEF HdrHeap, HdrHeld
    <3> QED BY <1>8, <3>1
  <2> QED BY <2>1, <2>2, Zenon
<1>10. Headers!HeapWalkable
  BY <1>4, <1>7, <1>9, Zenon DEF Headers!HeapWalkable, Headers!Overhead
<1>11. Headers!PayloadIntact
  <2>1. \A b \in hdr_live : /\ b.asked + 1 <= hdr_mem[b.ptr - 1].size
                            /\ \A a \in b.ptr .. b.ptr + b.asked - 1 : hdr_mem[a] = Headers!Data(b.ptr)
    BY <1>1 DEF HdrHeap, HdrHeld
  <2> QED BY <2>1, Zenon DEF Headers!PayloadIntact, Headers!Overhead
<1> QED BY <1>10, <1>11

-----------------------------------------------------------------------------
(* The heap with boundary tags.                                            *)

\* The caller holds the allocated blocks and what it has filled them with.
TagHeld(B, m, L) ==
    /\ \A b \in L : b.ptr - 1 \in B /\ m[b.ptr - 1].allocated /\ b.filled + 2 <= m[b.ptr - 1].size
    /\ \A h \in B : m[h].allocated => \E b \in L : b.ptr = h + 1
    /\ \A b, c \in L : b.ptr = c.ptr => b = c
    /\ \A b \in L : \A a \in b.ptr .. b.ptr + b.filled - 1 : m[a] = Tags!Data(b.ptr)

\* A block has a header and a footer that agree.
TagEnds(B, m) ==
    \A h \in B : m[h].size >= 2 /\ m[h].owner = 0 /\ m[h + m[h].size - 1] = m[h]

\* No free block follows a free block.
TagMerged(B, m, e) ==
    \A h \in B : m[h].allocated \/ h + m[h].size = e \/ m[h + m[h].size].allocated

TagHeap(B, m, L, e) ==
    /\ m \in [Tags!Addr -> Tags!Word]
    /\ e \in 3 .. TagWords + 1
    /\ L \subseteq Tags!Held
    /\ m[2].size = 2
    /\ Tiles(B, m, 3, e) /\ TagHeld(B, m, L) /\ TagEnds(B, m) /\ TagMerged(B, m, e)

\* Where the caller's blocks lie.
LEMMA TagLive ==
    ASSUME NEW B, NEW m, NEW L, NEW e, TagHeap(B, m, L, e)
    PROVE  /\ e \in Nat /\ 3 \in Nat /\ Tiles(B, m, 3, e)
           /\ \A h \in B : /\ h \in Nat /\ 3 <= h /\ h < e /\ m[h].size \in Nat \ {0} /\ 2 <= m[h].size
                           /\ h + m[h].size \in B \cup {e} /\ h + m[h].size \in Nat /\ h + m[h].size <= e
                           /\ h \in Tags!Addr /\ h + m[h].size - 1 \in Tags!Addr
           /\ \A b \in L : b.ptr \in Nat /\ b.filled \in Nat /\ b.ptr - 1 \in B /\ b.ptr - 1 \in Nat
<1>1. /\ Tiles(B, m, 3, e) /\ e \in 3 .. TagWords + 1 /\ e \in Nat /\ 3 \in Nat /\ TagWords \in Nat
      /\ \A h \in B : m[h].size >= 2
  BY SizesAssumption DEF TagHeap, TagEnds
<1>2. \A h \in B : /\ h \in Nat /\ 3 <= h /\ h < e /\ m[h].size \in Nat \ {0}
                   /\ h + m[h].size \in B \cup {e} /\ h + m[h].size \in Nat /\ h + m[h].size <= e
  BY <1>1, BlocksIn
<1>3. ASSUME NEW h \in B PROVE 2 <= m[h].size /\ h \in Tags!Addr /\ h + m[h].size - 1 \in Tags!Addr
  <2>1. m[h].size >= 2 /\ h \in Nat /\ 3 <= h /\ h < e /\ m[h].size \in Nat /\ h + m[h].size <= e
    BY <1>1, <1>2
  <2> QED BY <1>1, <2>1 DEF Tags!Addr, Tags!Prologue
<1>4. ASSUME NEW b \in L PROVE b.ptr \in Nat /\ b.filled \in Nat /\ b.ptr - 1 \in B /\ b.ptr - 1 \in Nat
  <2>1. b.ptr - 1 \in B
    BY DEF TagHeap, TagHeld
  <2>2. b \in Tags!Held
    BY DEF TagHeap
  <2>3. b.ptr \in Tags!Addr /\ b.filled \in Nat
    BY <2>2 DEF Tags!Held
  <2>4. b.ptr \in Nat
    BY <1>1, <2>3 DEF Tags!Addr, Tags!Prologue
  <2>5. b.ptr - 1 \in Nat
    BY <1>2, <2>1
  <2> QED BY <2>1, <2>3, <2>4, <2>5
<1> QED BY <1>1, <1>2, <1>3, <1>4

\* The caller holds the blocks K, as it did before.
TagKeeps(m, C, M, K) ==
    TagHeld(C, M, K) /\ \A b \in K : M[b.ptr - 1] = m[b.ptr - 1]

\* Where nothing changes the caller still holds what it held.
LEMMA TagKept ==
    ASSUME NEW B, NEW m, NEW L, NEW e, TagHeap(B, m, L, e),
           NEW p, NEW q, NEW C, NEW M, SameOutside(Tags!Addr, B, m, C, M, p, q)
    PROVE  TagKeeps(m, C, M, {b \in L : b.ptr - 1 < p \/ q <= b.ptr - 1})
<1> DEFINE K == {b \in L : b.ptr - 1 < p \/ q <= b.ptr - 1}
<1> SUFFICES TagHeld(C, M, K) /\ \A b \in K : M[b.ptr - 1] = m[b.ptr - 1]
  BY DEF TagKeeps
<1>0. /\ p \in Nat /\ q \in Nat
      /\ \A a \in Tags!Addr : (a < p \/ q <= a) => M[a] = m[a]
      /\ \A h \in B : h < p => h + m[h].size <= p
      /\ \A h \in B : (h < p \/ q <= h) => h \in C
      /\ \A h \in C : M[h].allocated => h \in B /\ (h < p \/ q <= h)
  BY DEF SameOutside
<1>2. \A h \in B : /\ h \in Nat /\ 3 <= h /\ h < e /\ m[h].size \in Nat \ {0}
                   /\ h + m[h].size \in B \cup {e} /\ h + m[h].size <= e /\ h \in Tags!Addr
  BY TagLive
<1>1. e \in Nat /\ e <= TagWords + 1
  BY TagLive, SizesAssumption DEF TagHeap
<1>4. \A b \in L : b.ptr \in Nat /\ b.filled \in Nat /\ b.ptr - 1 \in B /\ b.ptr - 1 \in Nat
  BY TagLive
<1>5. ASSUME NEW b \in K
      PROVE  /\ b.ptr - 1 \in C /\ M[b.ptr - 1] = m[b.ptr - 1]
             /\ \A a \in b.ptr .. b.ptr + b.filled - 1 : a \in Tags!Addr /\ M[a] = m[a]
  <2>1. b \in L /\ (b.ptr - 1 < p \/ q <= b.ptr - 1)
    OBVIOUS
  <2>2. PICK h \in B : h = b.ptr - 1
    BY <1>4, <2>1
  <2>3. h \in Nat /\ h < e /\ m[h].size \in Nat /\ h + m[h].size <= e
    BY <1>2
  <2>4. h \in C /\ M[h] = m[h]
    BY <1>0, <1>2, <2>1, <2>2, <2>3
  <2>5. b.ptr = h + 1 /\ b.filled \in Nat /\ b.filled + 2 <= m[h].size
    <3>1. b.filled + 2 <= m[b.ptr - 1].size
      BY <2>1 DEF TagHeap, TagHeld
    <3> QED BY <1>4, <2>1, <2>2, <3>1
  <2>6. h < p => h + m[h].size <= p
    BY <1>0
  <2>7. ASSUME NEW a \in b.ptr .. b.ptr + b.filled - 1
        PROVE  a \in Tags!Addr /\ M[a] = m[a]
    <3>1. a \in Nat /\ h < a /\ a < h + m[h].size
      BY <2>3, <2>5
    <3>2. a \in Tags!Addr
      BY <1>1, <2>3, <3>1, SizesAssumption DEF Tags!Addr, Tags!Prologue
    <3>3. a < p \/ q <= a
      BY <1>0, <2>1, <2>2, <2>3, <2>6, <3>1
    <3> QED BY <1>0, <3>2, <3>3
  <2> QED BY <2>2, <2>4, <2>7
<1>6. TagHeld(C, M, K)
  <2>1. \A b \in K : b.ptr - 1 \in C /\ M[b.ptr - 1].allocated /\ b.filled + 2 <= M[b.ptr - 1].size
    BY <1>5 DEF TagHeap, TagHeld
  <2>2. ASSUME NEW h \in C, M[h].allocated PROVE \E b \in K : b.ptr = h + 1
    <3>1. h \in B /\ (h < p \/ q <= h)
      BY <1>0, <2>2
    <3>2. h \in Nat /\ m[h].allocated
      BY <1>0, <1>2, <2>2, <3>1
    <3>3. PICK b \in L : b.ptr = h + 1
      BY <3>1, <3>2 DEF TagHeap, TagHeld
    <3> QED BY <3>1, <3>2, <3>3
  <2>3. \A b, c \in K : b.ptr = c.ptr => b = c
    BY DEF TagHeap, TagHeld
  <2>4. \A b \in K : \A a \in b.ptr .. b.ptr + b.filled - 1 : M[a] = Tags!Data(b.ptr)
    <3>1. \A b \in L : \A a \in b.ptr .. b.ptr + b.filled - 1 : m[a] = Tags!Data(b.ptr)
      BY DEF TagHeap, TagHeld
    <3> QED BY <1>5, <3>1
  <2> QED BY <2>1, <2>2, <2>3, <2>4 DEF TagHeld
<1> QED BY <1>5, <1>6

\* Header and footer of a block of z words are written.
TagWrites(m, x, z, t, M) ==
    /\ M \in [Tags!Addr -> Tags!Word] /\ M[x] = t /\ M[x + z - 1] = t
    /\ \A a \in Tags!Addr : (a # x /\ a # x + z - 1) => M[a] = m[a]

\* SetTags() does that.
LEMMA TagSetTags ==
    ASSUME NEW m \in [Tags!Addr -> Tags!Word], NEW x \in Nat \ {0}, NEW z \in Nat, 2 <= z,
           x + z <= TagWords + 1, NEW t \in Tags!Word
    PROVE  TagWrites(m, x, z, t, [m EXCEPT ![x] = t, ![x + z - 1] = t])
<1> SUFFICES ASSUME NEW M, M = [m EXCEPT ![x] = t, ![x + z - 1] = t] PROVE TagWrites(m, x, z, t, M)
  OBVIOUS
<1>1. PICK y : y = x + z - 1
  OBVIOUS
<1>2. x \in Tags!Addr /\ y \in Tags!Addr
  BY <1>1, SizesAssumption DEF Tags!Addr, Tags!Prologue
<1>3. M = [m EXCEPT ![x] = t, ![y] = t]
  BY <1>1
<1>4. M \in [Tags!Addr -> Tags!Word] /\ M[x] = t /\ M[y] = t
      /\ \A a \in Tags!Addr : (a # x /\ a # y) => M[a] = m[a]
  BY <1>2, <1>3
<1> QED BY <1>1, <1>4, Zenon DEF TagWrites

\* The z words from x are made a free block.
TagFrees(m, x, z, M) ==
    /\ M \in [Tags!Addr -> Tags!Word]
    /\ M[x] = Tags!Tag(z, FALSE) /\ M[x + z - 1] = Tags!Tag(z, FALSE)
    /\ \A a \in Tags!Addr : (a < x \/ x + z <= a) => M[a] = m[a]

\* SetFree() does that.
LEMMA TagSetFree ==
    ASSUME NEW m \in [Tags!Addr -> Tags!Word], NEW x \in Nat \ {0}, NEW z \in Nat, 2 <= z,
           x + z <= TagWords + 1
    PROVE  TagFrees(m, x, z, Tags!SetFree(m, x, z))
<1> SUFFICES ASSUME NEW M, M = Tags!SetFree(m, x, z) PROVE TagFrees(m, x, z, M)
  OBVIOUS
<1>1. PICK S, A, d, y : S = Tags!SetTags(m, x, z, FALSE) /\ A = Tags!Addr /\ d = Tags!Dead /\ y = x + z - 1
  OBVIOUS
<1>2. /\ S \in [A -> Tags!Word] /\ S[x] = Tags!Tag(z, FALSE) /\ S[x + z - 1] = Tags!Tag(z, FALSE)
      /\ \A a \in A : (a # x /\ a # x + z - 1) => S[a] = m[a]
  <2>1. PICK t : t = Tags!Tag(z, FALSE)
    OBVIOUS
  <2>2. S = [m EXCEPT ![x] = t, ![x + z - 1] = t] /\ 2 <= z
    BY <1>1, <2>1 DEF Tags!SetTags
  <2>a. t \in Tags!Word
    <3>1. z \in 0 .. TagWords
      BY SizesAssumption
    <3> QED BY <2>1, <3>1 DEF Tags!Tag, Tags!Word, Tags!NULL
  <2>3. /\ S \in [A -> Tags!Word] /\ S[x] = t /\ S[x + z - 1] = t
        /\ \A a \in A : (a # x /\ a # x + z - 1) => S[a] = m[a]
    <3>1. TagWrites(m, x, z, t, S)
      BY <2>2, <2>a, TagSetTags
    <3> QED BY <1>1, <3>1, Zenon DEF TagWrites
  <2> QED BY <2>1, <2>3, Zenon
<1>3. d \in Tags!Word
  BY <1>1, SizesAssumption DEF Tags!Dead, Tags!Data, Tags!Word
<1>4. M = [a \in A |-> IF a \in x + 1 .. x + z - 2 THEN d ELSE S[a]]
  BY <1>1, Zenon DEF Tags!SetFree
<1>5. x \in A /\ y \in A /\ \A a \in A : a \in Nat
  BY <1>1, SizesAssumption DEF Tags!Addr, Tags!Prologue
<1>6. x \notin x + 1 .. x + z - 2 /\ y \notin x + 1 .. x + z - 2
  BY <1>1
<1>7. M[x] = S[x] /\ M[y] = S[y] /\ M \in [A -> Tags!Word]
  BY <1>2, <1>3, <1>4, <1>5, <1>6
<1>8. ASSUME NEW a \in A, a < x \/ x + z <= a PROVE M[a] = m[a]
  <2>1. a \notin x + 1 .. x + z - 2 /\ a # x /\ a # x + z - 1
    BY <1>5, <1>8
  <2> QED BY <1>2, <1>4, <2>1, Zenon
<1> QED BY <1>1, <1>2, <1>7, <1>8, Zenon DEF TagFrees

\* The caller fills a block whose header and footer have been written.
TagGives(m, x, z, asked, M) ==
    /\ M \in [Tags!Addr -> Tags!Word]
    /\ M[x] = Tags!Tag(z, TRUE) /\ M[x + z - 1] = Tags!Tag(z, TRUE)
    /\ \A a \in x + 1 .. x + asked : M[a] = Tags!Data(x + 1)
    /\ \A a \in Tags!Addr : (a < x \/ x + z <= a) => M[a] = m[a]

\* That is what the memory holds after GetBlock().
LEMMA TagGive ==
    ASSUME NEW m \in [Tags!Addr -> Tags!Word], NEW x \in Nat \ {0}, NEW z \in Nat,
           x + z <= TagWords + 1, NEW asked \in Nat, asked + 2 <= z
    PROVE  TagGives(m, x, z, asked, Tags!Fill(Tags!ALLOCATE_BLOCK(m, x, z), x + 1, asked))
<1> SUFFICES ASSUME NEW M, M = Tags!Fill(Tags!ALLOCATE_BLOCK(m, x, z), x + 1, asked)
             PROVE  TagGives(m, x, z, asked, M)
  OBVIOUS
<1>1. PICK S, A, d, y : S = Tags!SetTags(m, x, z, TRUE) /\ A = Tags!Addr /\ d = Tags!Data(x + 1) /\ y = x + z - 1
  OBVIOUS
<1>2. /\ S \in [A -> Tags!Word] /\ S[x] = Tags!Tag(z, TRUE) /\ S[x + z - 1] = Tags!Tag(z, TRUE)
      /\ \A a \in A : (a # x /\ a # x + z - 1) => S[a] = m[a]
  <2>1. PICK t : t = Tags!Tag(z, TRUE)
    OBVIOUS
  <2>2. S = [m EXCEPT ![x] = t, ![x + z - 1] = t] /\ 2 <= z
    BY <1>1, <2>1 DEF Tags!SetTags
  <2>a. t \in Tags!Word
    <3>1. z \in 0 .. TagWords
      BY SizesAssumption
    <3> QED BY <2>1, <3>1 DEF Tags!Tag, Tags!Word, Tags!NULL
  <2>3. /\ S \in [A -> Tags!Word] /\ S[x] = t /\ S[x + z - 1] = t
        /\ \A a \in A : (a # x /\ a # x + z - 1) => S[a] = m[a]
    <3>1. TagWrites(m, x, z, t, S)
      BY <2>2, <2>a, TagSetTags
    <3> QED BY <1>1, <3>1, Zenon DEF TagWrites
  <2> QED BY <2>1, <2>3, Zenon
<1>3. d \in Tags!Word
  <2>1. x + 1 \in Tags!Addr
    BY SizesAssumption DEF Tags!Addr, Tags!Prologue
  <2> QED BY <1>1, <2>1, SizesAssumption DEF Tags!Data, Tags!Word
<1>4. M = [a \in A |-> IF a \in x + 1 .. (x + 1) + asked - 1 THEN d ELSE S[a]]
  BY <1>1, Zenon DEF Tags!Fill, Tags!ALLOCATE_BLOCK
<1>a. x + 1 .. (x + 1) + asked - 1 = x + 1 .. x + asked
  OBVIOUS
<1>b. M = [a \in A |-> IF a \in x + 1 .. x + asked THEN d ELSE S[a]]
  BY <1>4, <1>a, Zenon
<1>5. x \in A /\ y \in A /\ (\A a \in A : a \in Nat) /\ \A a \in x + 1 .. x + asked : a \in A
  BY <1>1, SizesAssumption DEF Tags!Addr, Tags!Prologue
<1>6. x \notin x + 1 .. x + asked /\ y \notin x + 1 .. x + asked
  BY <1>1
<1>7. M[x] = S[x] /\ M[y] = S[y] /\ M \in [A -> Tags!Word]
  BY <1>2, <1>3, <1>b, <1>5, <1>6
<1>8. ASSUME NEW a \in A, a < x \/ x + z <= a PROVE M[a] = m[a]
  <2>1. a \notin x + 1 .. x + asked /\ a # x /\ a # x + z - 1
    BY <1>5, <1>8
  <2> QED BY <1>2, <1>b, <2>1, Zenon
<1>9. \A a \in x + 1 .. x + asked : M[a] = d
  BY <1>b, <1>5, Zenon
<1> QED BY <1>1, <1>2, <1>7, <1>8, <1>9, Zenon DEF TagGives

\* The words from p up to q are cut anew into blocks, the heap then ending at f, and
\* nothing changes outside them.
TagCuts(B, m, e, p, q, C, M, f) ==
    /\ p \in B \cup {e} /\ p \in Nat /\ q \in Nat
    /\ Tiles(C, M, 3, f) /\ f \in 3 .. TagWords + 1 /\ (f = e \/ e < q)
    /\ M \in [Tags!Addr -> Tags!Word]
    /\ \A a \in Tags!Addr : (a < p \/ q <= a) => M[a] = m[a]
    /\ \A h \in B : (h < p \/ q <= h) => h \in C
    /\ \A h \in C : (h < p \/ q <= h) => h \in B
    /\ \A h \in C : (p <= h /\ h < q) =>
           /\ M[h].size >= 2 /\ M[h].owner = 0 /\ M[h + M[h].size - 1] = M[h]
           /\ M[h].allocated \/ h + M[h].size = f \/ M[h + M[h].size].allocated

\* Then the blocks stay well-formed, if the one at p is not a second free one in a row.
LEMMA TagShape ==
    ASSUME NEW B, NEW m, NEW L, NEW e, TagHeap(B, m, L, e), NEW p, NEW q, NEW C, NEW M, NEW f,
           TagCuts(B, m, e, p, q, C, M, f),
           M[p].allocated \/ \A h \in B : h + m[h].size = p => m[h].allocated
    PROVE  TagEnds(C, M) /\ TagMerged(C, M, f) /\ M[2] = m[2]
<1>1. /\ e \in Nat /\ e <= TagWords + 1
      /\ \A h \in B : /\ h \in Nat /\ 3 <= h /\ h < e /\ m[h].size \in Nat \ {0} /\ 2 <= m[h].size
                      /\ h + m[h].size \in B \cup {e} /\ h + m[h].size \in Nat /\ h + m[h].size <= e
                      /\ h \in Tags!Addr /\ h + m[h].size - 1 \in Tags!Addr
  BY TagLive, SizesAssumption DEF TagHeap
<1>2. /\ p \in Nat /\ q \in Nat /\ p <= e /\ 3 <= p /\ (f = e \/ e < q)
      /\ \A a \in Tags!Addr : (a < p \/ q <= a) => M[a] = m[a]
      /\ \A h \in C : (h < p \/ q <= h) => h \in B
  <2>1. e \in 3 .. TagWords + 1
    BY DEF TagHeap
  <2>2. p \in B \cup {e}
    BY DEF TagCuts
  <2>3. p <= e /\ 3 <= p
    BY <1>1, <2>1, <2>2, SizesAssumption
  <2> QED BY <2>3 DEF TagCuts
<1>3. \A h \in B : h < p => h + m[h].size <= p
  <2>1. Tiles(B, m, 3, e) /\ p \in B \cup {e}
    BY DEF TagHeap, TagCuts
  <2> QED BY <1>1, <2>1 DEF Tiles
<1>4. ASSUME NEW h \in C, h < p \/ q <= h
      PROVE  /\ M[h].size >= 2 /\ M[h].owner = 0 /\ M[h + M[h].size - 1] = M[h]
             /\ M[h].allocated \/ h + M[h].size = f \/ M[h + M[h].size].allocated
  <2>1. h \in B
    BY <1>2, <1>4
  <2>2. M[h] = m[h] /\ h \in Nat /\ h + m[h].size \in Nat
    BY <1>1, <1>2, <1>4, <2>1
  <2>3. PICK g : g = h + m[h].size
    OBVIOUS
  <2>4. m[h].size \in Nat /\ 2 <= m[h].size /\ g \in Nat /\ g \in B \cup {e} /\ g <= e
    BY <1>1, <2>1, <2>3
  <2>5. g - 1 \in Tags!Addr /\ (g - 1 < p \/ q <= g - 1)
    BY <1>1, <1>2, <1>3, <1>4, <2>1, <2>2, <2>3, <2>4
  <2>6. M[g - 1] = m[g - 1]
    BY <1>2, <2>5
  <2>7. m[h].size >= 2 /\ m[h].owner = 0 /\ m[g - 1] = m[h]
    <3>1. m[h].size >= 2 /\ m[h].owner = 0 /\ m[h + m[h].size - 1] = m[h]
      BY <2>1 DEF TagHeap, TagEnds
    <3>2. g - 1 = h + m[h].size - 1
      BY <2>2, <2>3, <2>4
    <3> QED BY <3>1, <3>2, Zenon
  <2>8. m[h].allocated \/ g = e \/ m[g].allocated
    BY <2>1, <2>3 DEF TagHeap, TagMerged
  <2>9. M[h].allocated \/ g = f \/ M[g].allocated
    <3>1. CASE g = p
      <4>1. M[p].allocated \/ m[h].allocated
        BY <2>1, <2>3, <3>1
      <4> QED BY <2>2, <3>1, <4>1
    <3>2. CASE g # p /\ g = e
      <4>1. q <= h
        BY <1>1, <1>2, <1>3, <1>4, <2>1, <2>2, <2>3, <3>2
      <4>2. f = e
        BY <1>1, <1>2, <2>1, <2>2, <4>1
      <4> QED BY <3>2, <4>2
    <3>3. CASE g # p /\ g # e
      <4>1. g \in B /\ (g < p \/ q <= g)
        BY <1>1, <1>2, <1>3, <1>4, <2>1, <2>2, <2>3, <2>4, <3>3
      <4>2. M[g] = m[g]
        BY <1>1, <1>2, <4>1
      <4> QED BY <2>2, <2>8, <3>3, <4>2
    <3> QED BY <3>1, <3>2, <3>3
  <2>10. g = h + M[h].size /\ g - 1 = h + M[h].size - 1
    BY <2>2, <2>3, <2>4
  <2> QED BY <2>2, <2>6, <2>7, <2>9, <2>10, Zenon
<1>5. \A h \in C : /\ M[h].size >= 2 /\ M[h].owner = 0 /\ M[h + M[h].size - 1] = M[h]
                   /\ M[h].allocated \/ h + M[h].size = f \/ M[h + M[h].size].allocated
  <2> SUFFICES ASSUME NEW h \in C
               PROVE  /\ M[h].size >= 2 /\ M[h].owner = 0 /\ M[h + M[h].size - 1] = M[h]
                      /\ M[h].allocated \/ h + M[h].size = f \/ M[h + M[h].size].allocated
    OBVIOUS
  <2>1. h \in Nat
    <3>1. Tiles(C, M, 3, f) /\ 3 \in Nat /\ f \in Nat
      BY SizesAssumption DEF TagCuts
    <3> QED BY <3>1, BlocksIn
  <2>2. CASE h < p \/ q <= h
    BY <1>4, <2>2
  <2>3. CASE ~(h < p \/ q <= h)
    <3>1. p <= h /\ h < q
      BY <1>2, <2>1, <2>3
    <3> QED BY <3>1 DEF TagCuts
  <2> QED BY <2>2, <2>3
<1>6. M[2] = m[2]
  <2>1. 2 \in Tags!Addr
    BY <1>1, <1>2, SizesAssumption DEF TagHeap, Tags!Addr, Tags!Prologue
  <2> QED BY <1>2, <2>1
<1> QED BY <1>5, <1>6, Zenon DEF TagEnds, TagMerged

\* The blocks from x up to y become one that is free, and the caller no longer holds
\* any of them.
TagJoins(m, L, e, x, y, C, M, K) ==
    /\ TagHeap(C, M, K, e) /\ \A b \in K : M[b.ptr - 1] = m[b.ptr - 1]

\* SetFree() does that, where no free block comes before or after.
LEMMA TagJoin ==
    ASSUME NEW B, NEW m, NEW L, NEW e, TagHeap(B, m, L, e),
           NEW x \in B, NEW y \in B \cup {e}, x < y,
           \A h \in B : h + m[h].size = x => m[h].allocated,
           y = e \/ m[y].allocated
    PROVE  TagJoins(m, L, e, x, y, {h \in B : h <= x \/ y <= h},
                    Tags!SetFree(m, x, y - x), {b \in L : b.ptr - 1 < x \/ y <= b.ptr - 1})
<1> SUFFICES ASSUME NEW M, M = Tags!SetFree(m, x, y - x),
                    NEW K, K = {b \in L : b.ptr - 1 < x \/ y <= b.ptr - 1},
                    NEW C, C = {h \in B : h <= x \/ y <= h}
             PROVE  TagHeap(C, M, K, e) /\ \A b \in K : M[b.ptr - 1] = m[b.ptr - 1]
  BY Zenon DEF TagJoins
<1>1. /\ Tiles(B, m, 3, e) /\ 3 \in Nat /\ e \in Nat /\ e \in 3 .. TagWords + 1
      /\ m \in [Tags!Addr -> Tags!Word] /\ m[2].size = 2 /\ TagWords \in Nat
  BY SizesAssumption DEF TagHeap
<1>2. \A h \in B : /\ h \in Nat /\ 3 <= h /\ h < e /\ m[h].size \in Nat \ {0} /\ 2 <= m[h].size
                   /\ h + m[h].size \in B \cup {e} /\ h + m[h].size <= e /\ h \in Tags!Addr
  BY TagLive
<1>3. x \in Nat \ {0} /\ y \in Nat /\ y <= e /\ x + 2 <= y
  <2>1. x \in Nat \ {0} /\ 3 <= x /\ x < e /\ 2 <= m[x].size /\ m[x].size \in Nat /\ x + m[x].size <= e
    BY <1>1, <1>2
  <2>2. y \in B => y \in Nat /\ y <= e /\ x + m[x].size <= y
    BY <1>1, <1>2 DEF Tiles
  <2> QED BY <1>1, <2>1, <2>2
<1>4. PICK d, t : d = y - x /\ t = Tags!Tag(d, FALSE)
  OBVIOUS
<1>5. d \in Nat /\ 2 <= d /\ x + d = y /\ x + d <= TagWords + 1 /\ x + d - 1 = y - 1
  BY <1>1, <1>3, <1>4
<1>6. /\ M \in [Tags!Addr -> Tags!Word] /\ M[x] = t /\ M[y - 1] = t
      /\ \A a \in Tags!Addr : (a < x \/ y <= a) => M[a] = m[a]
  <2>1. M = Tags!SetFree(m, x, d)
    BY <1>4
  <2>2. /\ M \in [Tags!Addr -> Tags!Word]
        /\ M[x] = Tags!Tag(d, FALSE) /\ M[x + d - 1] = Tags!Tag(d, FALSE)
        /\ \A a \in Tags!Addr : (a < x \/ x + d <= a) => M[a] = m[a]
    <3>1. TagFrees(m, x, d, M)
      BY <1>1, <1>3, <1>5, <2>1, TagSetFree
    <3> QED BY <3>1, Zenon DEF TagFrees
  <2> QED BY <1>4, <1>5, <2>2, Zenon
<1>7. t.size = d /\ ~t.allocated /\ t.owner = 0
  BY <1>4 DEF Tags!Tag, Tags!NULL
<1>8. Tiles(C, M, 3, e)
  <2>1. \A h \in B : (h < x \/ y <= h) => M[h].size = m[h].size
    BY <1>2, <1>6
  <2>2. M[x].size = y - x
    BY <1>4, <1>6, <1>7
  <2> QED BY <1>1, <2>1, <2>2, Joined
<1>9. \A h \in C : h \in B /\ (x <= h /\ h < y => h = x)
  BY <1>2, <1>3
<1>10. TagCuts(B, m, e, x, y, C, M, e)
  <2>1. ASSUME NEW h \in C, x <= h, h < y
        PROVE  /\ M[h].size >= 2 /\ M[h].owner = 0 /\ M[h + M[h].size - 1] = M[h]
               /\ M[h].allocated \/ h + M[h].size = e \/ M[h + M[h].size].allocated
    <3>1. h = x /\ M[h].size = d /\ M[h].owner = 0 /\ h + d = y
      BY <1>5, <1>6, <1>7, <1>9, <2>1
    <3>2. y = e \/ M[y].allocated
      BY <1>2, <1>3, <1>6
    <3> QED BY <1>5, <1>6, <3>1, <3>2
  <2>2. \A h \in B : (h < x \/ y <= h) => h \in C
    BY <1>2, <1>3
  <2> QED BY <1>1, <1>3, <1>6, <1>8, <1>9, <2>1, <2>2 DEF TagCuts
<1>11. TagEnds(C, M) /\ TagMerged(C, M, e) /\ M[2] = m[2]
  BY <1>10, TagShape
<1>12. TagHeld(C, M, K) /\ \A b \in K : M[b.ptr - 1] = m[b.ptr - 1]
  <2>1. \A h \in B : h < x => h + m[h].size <= x
    BY <1>1 DEF Tiles
  <2>2. \A h \in C : M[h].allocated => h \in B /\ (h < x \/ y <= h)
    <3> SUFFICES ASSUME NEW h \in C, M[h].allocated PROVE h \in B /\ (h < x \/ y <= h)
      OBVIOUS
    <3>1. h # x /\ h \in B /\ (h <= x \/ y <= h)
      BY <1>6, <1>7
    <3> QED BY <1>2, <1>3, <3>1
  <2>3. \A h \in B : (h < x \/ y <= h) => h \in C
    BY <1>2, <1>3
  <2>4. SameOutside(Tags!Addr, B, m, C, M, x, y)
    BY <1>3, <1>6, <2>1, <2>2, <2>3 DEF SameOutside
  <2>5. TagKeeps(m, C, M, {b \in L : b.ptr - 1 < x \/ y <= b.ptr - 1})
    BY <2>4, TagKept
  <2> QED BY <2>5, Zenon DEF TagKeeps
<1>13. K \subseteq Tags!Held /\ M[2].size = 2
  BY <1>1, <1>11 DEF TagHeap
<1> QED BY <1>1, <1>6, <1>8, <1>11, <1>12, <1>13 DEF TagHeap

\* A block is given back.
TagGivesBack(m, L, e, b, M) ==
    \E C : TagHeap(C, M, L \ {b}, e) /\ \A c \in L \ {b} : M[c.ptr - 1] = m[c.ptr - 1]

\* mfree() does that: it finds the block before by its footer, and what it merges is free.
LEMMA TagFreed ==
    ASSUME NEW B, NEW m, NEW L, NEW e, TagHeap(B, m, L, e), tag_start = 3, tag_end = e, NEW b \in L
    PROVE  TagGivesBack(m, L, e, b, Tags!Freed(m, b.ptr - 1))
<1>1. /\ Tiles(B, m, 3, e) /\ 3 \in Nat /\ e \in Nat /\ e \in 3 .. TagWords + 1 /\ 3 <= e
      /\ m[2].size = 2 /\ TagHeld(B, m, L) /\ TagEnds(B, m) /\ TagMerged(B, m, e)
  BY SizesAssumption DEF TagHeap
<1>2. /\ \A h \in B : /\ h \in Nat /\ 3 <= h /\ h < e /\ m[h].size \in Nat \ {0} /\ 2 <= m[h].size
                      /\ h + m[h].size \in B \cup {e} /\ h + m[h].size \in Nat /\ h + m[h].size <= e
      /\ \A c \in L : c.ptr \in Nat /\ c.ptr - 1 \in B /\ c.ptr - 1 \in Nat
  BY TagLive
<1>3. PICK h, z, g, n, v, w : /\ h = b.ptr - 1 /\ z = m[h].size /\ g = h - m[h - 1].size /\ n = h + z
                              /\ v = m[g].size /\ w = m[n].size
  OBVIOUS
<1>4. h \in B /\ h \in Nat /\ z \in Nat /\ 2 <= z /\ n \in B \cup {e} /\ n \in Nat /\ n <= e /\ h < n
  <2>1. h \in B /\ h \in Nat
    BY <1>2, <1>3
  <2> QED BY <1>2, <1>3, <2>1
<1> DEFINE prevFree == g >= 3 /\ ~m[g].allocated
           nextFree == n < e /\ ~m[n].allocated
           F == Tags!Freed(m, b.ptr - 1)
<1>5. \A k \in B : k + m[k].size = h => g = k
  <2> SUFFICES ASSUME NEW k \in B, k + m[k].size = h PROVE g = k
    OBVIOUS
  <2>1. m[k + m[k].size - 1] = m[k]
    BY <1>1 DEF TagEnds
  <2>2. k + m[k].size - 1 = h - 1 /\ k \in Nat /\ m[k].size \in Nat
    BY <1>2, <1>4
  <2>3. m[h - 1] = m[k]
    BY <2>1, <2>2, Zenon
  <2> QED BY <1>3, <2>2, <2>3
<1>6. prevFree => /\ g \in B /\ g \in Nat /\ g < h /\ g + v = h /\ v \in Nat
                  /\ \A k \in B : k < h => k <= g
  <2> SUFFICES ASSUME prevFree
               PROVE  /\ g \in B /\ g \in Nat /\ g < h /\ g + v = h /\ v \in Nat
                      /\ \A k \in B : k < h => k <= g
    OBVIOUS
  <2>1. h # 3
    <3>1. h = 3 => g = 1
      BY <1>1, <1>3
    <3> QED BY <3>1
  <2>2. PICK k \in B : k < h /\ k + m[k].size = h
    <3>1. Tiles(B, m, 3, e) /\ 3 \in Nat /\ e \in Nat /\ 3 <= e /\ h \in B \cup {e} /\ h # 3
      BY <1>1, <1>4, <2>1
    <3> QED BY <3>1, Before
  <2>3. k = g
    BY <1>5, <2>2
  <2>4. g \in B /\ g \in Nat /\ v \in Nat /\ g < h /\ g + v = h
    BY <1>2, <1>3, <2>2, <2>3
  <2>5. \A j \in B : g < j => g + v <= j
    BY <1>1, <1>3, <2>4 DEF Tiles
  <2>6. \A j \in B : j \in Nat
    BY <1>2
  <2> QED BY <1>4, <2>4, <2>5, <2>6
<1>7. nextFree => n \in B /\ w \in Nat /\ n < n + w /\ n + w \in B \cup {e} /\ n + w \in Nat
  BY <1>2, <1>3, <1>4
<1>8. PICK x, y : x = (IF prevFree THEN g ELSE h) /\ y = (IF nextFree THEN n + w ELSE n)
  OBVIOUS
<1>9. x \in B /\ y \in B \cup {e} /\ x \in Nat /\ y \in Nat /\ x < y /\ x <= h /\ n <= y
  BY <1>4, <1>6, <1>7, <1>8
<1>10. F = Tags!SetFree(m, x, y - x)
  <2>1. F = CASE ~prevFree /\ ~nextFree -> Tags!SetFree(m, h, z)
              [] ~prevFree /\ nextFree -> Tags!SetFree(m, h, z + w)
              [] prevFree /\ ~nextFree -> Tags!SetFree(m, g, v + z)
              [] prevFree /\ nextFree -> Tags!SetFree(m, g, v + z + w)
    BY <1>3, Zenon DEF Tags!Freed, Tags!PREV_BLOCK, Tags!NEXT_BLOCK, Tags!DEALLOCATE_BLOCK
  <2> HIDE DEF F
  <2>2. CASE ~prevFree /\ ~nextFree
    <3>1. F = Tags!SetFree(m, h, z)
      BY <2>1, <2>2, Zenon
    <3>2. y - x = z /\ x = h
      BY <1>3, <1>4, <1>8, <2>2
    <3> QED BY <3>1, <3>2, Zenon
  <2>3. CASE ~prevFree /\ nextFree
    <3>1. F = Tags!SetFree(m, h, z + w)
      BY <2>1, <2>3, Zenon
    <3>2. y - x = z + w /\ x = h
      BY <1>3, <1>4, <1>7, <1>8, <2>3
    <3> QED BY <3>1, <3>2, Zenon
  <2>4. CASE prevFree /\ ~nextFree
    <3>1. F = Tags!SetFree(m, g, v + z)
      BY <2>1, <2>4, Zenon
    <3>2. y - x = v + z /\ x = g
      BY <1>3, <1>4, <1>6, <1>8, <2>4
    <3> QED BY <3>1, <3>2, Zenon
  <2>5. CASE prevFree /\ nextFree
    <3>1. F = Tags!SetFree(m, g, v + z + w)
      BY <2>1, <2>5, Zenon
    <3>2. y - x = v + z + w /\ x = g
      BY <1>3, <1>4, <1>6, <1>7, <1>8, <2>5
    <3> QED BY <3>1, <3>2, Zenon
  <2> QED BY <2>2, <2>3, <2>4, <2>5
<1>11. \A k \in B : k + m[k].size = x => m[k].allocated
  <2> SUFFICES ASSUME NEW k \in B, k + m[k].size = x PROVE m[k].allocated
    OBVIOUS
  <2>1. CASE prevFree
    <3>1. x = g /\ ~m[g].allocated /\ g # e
      BY <1>2, <1>6, <1>8, <2>1
    <3>2. m[k].allocated \/ k + m[k].size = e \/ m[k + m[k].size].allocated
      BY <1>1 DEF TagMerged
    <3> QED BY <3>1, <3>2
  <2>2. CASE ~prevFree
    <3>1. x = h /\ g = k /\ k >= 3
      BY <1>2, <1>5, <1>8, <2>2
    <3> QED BY <2>2, <3>1
  <2> QED BY <2>1, <2>2
<1>12. y = e \/ m[y].allocated
  <2>1. CASE nextFree
    <3>1. m[n].allocated \/ n + m[n].size = e \/ m[n + m[n].size].allocated
      BY <1>1, <1>7, <2>1 DEF TagMerged
    <3> QED BY <1>3, <1>8, <2>1, <3>1
  <2>2. CASE ~nextFree
    BY <1>1, <1>4, <1>8, <2>2
  <2> QED BY <2>1, <2>2
<1>13. PICK C, K : /\ C = {k \in B : k <= x \/ y <= k}
                   /\ K = {c \in L : c.ptr - 1 < x \/ y <= c.ptr - 1}
  OBVIOUS
<1> HIDE DEF F
<1>14. TagJoins(m, L, e, x, y, C, F, K)
  <2>1. TagJoins(m, L, e, x, y, {k \in B : k <= x \/ y <= k},
                 Tags!SetFree(m, x, y - x), {c \in L : c.ptr - 1 < x \/ y <= c.ptr - 1})
    <3>1. TagHeap(B, m, L, e) /\ x \in B /\ y \in B \cup {e} /\ x < y
      BY <1>9
    <3> QED BY <1>11, <1>12, <3>1, TagJoin
  <2> QED BY <1>10, <1>13, <2>1, Zenon
<1>15. K = L \ {b}
  <2>1. ASSUME NEW c \in L, c # b PROVE c.ptr - 1 < x \/ y <= c.ptr - 1
    <3>1. PICK k \in B : k = c.ptr - 1 /\ k \in Nat
      BY <1>2
    <3>2. m[k].allocated
      BY <1>1, <3>1 DEF TagHeld
    <3>3. k # h
      <4>1. c.ptr # b.ptr
        BY <1>1, <2>1 DEF TagHeld
      <4> QED BY <1>2, <1>3, <3>1, <4>1
    <3>4. CASE k < h
      <4>1. CASE prevFree
        BY <1>6, <1>8, <3>1, <3>2, <3>4, <4>1
      <4>2. CASE ~prevFree
        BY <1>8, <3>1, <3>4, <4>2
      <4> QED BY <4>1, <4>2
    <3>5. CASE h < k
      <4>1. n <= k
        BY <1>1, <1>3, <1>4, <3>5 DEF Tiles
      <4>2. CASE nextFree
        <5>1. k # n
          BY <3>2, <4>2
        <5>2. n < k
          BY <1>4, <3>1, <4>1, <5>1
        <5>3. n + w <= k
          BY <1>1, <1>3, <1>7, <4>2, <5>2 DEF Tiles
        <5> QED BY <1>8, <3>1, <4>2, <5>3
      <4>3. CASE ~nextFree
        BY <1>8, <3>1, <4>1, <4>3
      <4> QED BY <4>2, <4>3
    <3> QED BY <1>4, <3>1, <3>3, <3>4, <3>5
  <2>2. ~(b.ptr - 1 < x \/ y <= b.ptr - 1)
    BY <1>3, <1>4, <1>9
  <2> QED BY <1>13, <2>1, <2>2
<1>16. TagHeap(C, F, K, e) /\ \A c \in K : F[c.ptr - 1] = m[c.ptr - 1]
  BY <1>14, Zenon DEF TagJoins
<1>17. TagGivesBack(m, L, e, b, F)
  BY <1>15, <1>16, Zenon DEF TagGivesBack
<1> QED BY <1>17, Zenon DEF F

\* The caller holds one more block, at x, than before.
TagTakes(C, m, L, f, x, asked, M) ==
    /\ TagHeap(C, M, L \cup {[ptr |-> x + 1, filled |-> asked]}, f)
    /\ \A b \in L : M[b.ptr - 1] = m[b.ptr - 1] /\ b.ptr - 1 # x

\* It gets one cut out of words of which it held none.
LEMMA TagGrant ==
    ASSUME NEW B, NEW m, NEW L, NEW e, TagHeap(B, m, L, e), NEW x, NEW q, NEW C, NEW M, NEW f,
           TagCuts(B, m, e, x, q, C, M, f), x \in C, x < q, M[x].allocated,
           \A h \in C : M[h].allocated => (h = x \/ h < x \/ q <= h),
           NEW asked \in Nat, asked + 2 <= M[x].size,
           \A a \in x + 1 .. x + asked : M[a] = Tags!Data(x + 1),
           \A b \in L : b.ptr - 1 < x \/ q <= b.ptr - 1
    PROVE  TagTakes(C, m, L, f, x, asked, M)
<1>1. /\ Tiles(B, m, 3, e) /\ e \in Nat /\ m[2].size = 2 /\ L \subseteq Tags!Held
      /\ \A h \in B : h \in Nat /\ h < e
      /\ \A b \in L : b.ptr \in Nat /\ b.filled \in Nat /\ b.ptr - 1 \in B /\ b.ptr - 1 \in Nat
  BY TagLive DEF TagHeap
<1>2. /\ x \in B \cup {e} /\ x \in Nat /\ q \in Nat /\ Tiles(C, M, 3, f)
      /\ f \in 3 .. TagWords + 1 /\ f \in Nat /\ 3 \in Nat /\ f <= TagWords + 1 /\ TagWords \in Nat
      /\ M \in [Tags!Addr -> Tags!Word]
      /\ \A a \in Tags!Addr : (a < x \/ q <= a) => M[a] = m[a]
      /\ \A h \in B : (h < x \/ q <= h) => h \in C
      /\ \A h \in C : (h < x \/ q <= h) => h \in B
  BY SizesAssumption DEF TagCuts
<1>3. \A h \in C : h \in Nat /\ 3 <= h /\ h < f /\ M[h].size \in Nat /\ h + M[h].size <= f
  <2>1. Tiles(C, M, 3, f) /\ 3 \in Nat /\ f \in Nat
    BY <1>2
  <2> QED BY <2>1, BlocksIn
<1>4. x \in Nat /\ 3 <= x /\ M[x].size \in Nat /\ x + M[x].size <= f /\ x \in Tags!Addr /\ x + 1 \in Tags!Addr
  <2>1. x \in Nat /\ 3 <= x /\ M[x].size \in Nat /\ x + M[x].size <= f
    BY <1>3
  <2> QED BY <1>2, <2>1 DEF Tags!Addr, Tags!Prologue
<1>5. TagEnds(C, M) /\ TagMerged(C, M, f) /\ M[2] = m[2]
  BY TagShape
<1>6. PICK N, d : N = [M EXCEPT ![x] = d] /\ d = Tags!Dead
  OBVIOUS
<1>7. ~d.allocated
  BY <1>6 DEF Tags!Dead, Tags!Data
<1>8. N[x] = d /\ \A a \in Tags!Addr : a # x => N[a] = M[a]
  BY <1>2, <1>4, <1>6
<1>9. \A h \in C : h \in Tags!Addr
  BY <1>2, <1>3 DEF Tags!Addr, Tags!Prologue
<1>10. SameOutside(Tags!Addr, B, m, C, N, x, q)
  <2>1. \A a \in Tags!Addr : (a < x \/ q <= a) => N[a] = m[a]
    <3>1. \A a \in Tags!Addr : (a < x \/ q <= a) => a # x
      BY <1>2
    <3> QED BY <1>2, <1>8, <3>1
  <2>2. \A h \in B : h < x => h + m[h].size <= x
    <3>1. \A h \in B : h + m[h].size <= e
      BY TagLive
    <3> QED BY <1>1, <1>2, <3>1 DEF Tiles
  <2>3. \A h \in C : N[h].allocated => h \in B /\ (h < x \/ q <= h)
    <3> SUFFICES ASSUME NEW h \in C, N[h].allocated PROVE h \in B /\ (h < x \/ q <= h)
      OBVIOUS
    <3>1. h # x
      BY <1>7, <1>8
    <3>2. M[h].allocated
      BY <1>8, <1>9, <3>1
    <3> QED BY <1>2, <3>1, <3>2
  <2> QED BY <1>2, <2>1, <2>2, <2>3 DEF SameOutside
<1>11. TagHeld(C, N, L) /\ \A b \in L : N[b.ptr - 1] = m[b.ptr - 1]
  <2>1. L = {b \in L : b.ptr - 1 < x \/ q <= b.ptr - 1}
    OBVIOUS
  <2>2. TagKeeps(m, C, N, {b \in L : b.ptr - 1 < x \/ q <= b.ptr - 1})
    BY <1>10, TagKept
  <2> QED BY <2>1, <2>2, Zenon DEF TagKeeps
<1>12. \A b \in L : b.ptr - 1 # x /\ b.ptr - 1 \in C /\ N[b.ptr - 1] = M[b.ptr - 1]
  <2>1. \A b \in L : b.ptr - 1 # x
    BY <1>2
  <2>2. \A b \in L : b.ptr - 1 \in C
    BY <1>11 DEF TagHeld
  <2> QED BY <1>8, <1>9, <2>1, <2>2
<1> DEFINE b0 == [ptr |-> x + 1, filled |-> asked]
           K == L \cup {b0}
<1>13. b0.ptr = x + 1 /\ b0.filled = asked /\ b0 \in Tags!Held
  BY <1>4 DEF Tags!Held
<1> HIDE DEF b0
<1>14. \A b \in K : b.ptr - 1 \in C /\ M[b.ptr - 1].allocated /\ b.filled + 2 <= M[b.ptr - 1].size
  <2>1. b0.ptr - 1 = x
    BY <1>4, <1>13
  <2>2. \A b \in L : b.ptr - 1 \in C /\ M[b.ptr - 1].allocated /\ b.filled + 2 <= M[b.ptr - 1].size
    BY <1>11, <1>12 DEF TagHeld
  <2> QED BY <1>13, <2>1, <2>2
<1>15. \A h \in C : M[h].allocated => \E b \in K : b.ptr = h + 1
  <2> SUFFICES ASSUME NEW h \in C, M[h].allocated, h # x PROVE \E b \in L : b.ptr = h + 1
    BY <1>13
  <2>1. N[h].allocated
    BY <1>8, <1>9
  <2> QED BY <1>11, <2>1 DEF TagHeld
<1>16. \A b, c \in K : b.ptr = c.ptr => b = c
  <2>1. \A b, c \in L : b.ptr = c.ptr => b = c
    BY <1>11 DEF TagHeld
  <2>2. \A b \in L : b.ptr # b0.ptr
    BY <1>1, <1>4, <1>12, <1>13
  <2> QED BY <2>1, <2>2
<1>17. ASSUME NEW b \in K, NEW a \in b.ptr .. b.ptr + b.filled - 1 PROVE M[a] = Tags!Data(b.ptr)
  <2>1. CASE b = b0
    <3>1. a \in x + 1 .. x + asked
      BY <1>4, <1>13, <1>17, <2>1
    <3> QED BY <1>13, <2>1, <3>1
  <2>2. CASE b \in L
    <3>1. N[a] = Tags!Data(b.ptr)
      BY <1>11, <2>2 DEF TagHeld
    <3>2. PICK h \in C : h = b.ptr - 1
      BY <1>12, <2>2
    <3>3. h # x /\ b.ptr = h + 1 /\ b.filled \in Nat /\ b.filled + 2 <= M[h].size /\ h \in Nat
          /\ h + M[h].size <= f /\ M[h].size \in Nat
      BY <1>1, <1>3, <1>12, <1>14, <2>2, <3>2
    <3>4. a \in Nat /\ h < a /\ a < h + M[h].size /\ 3 <= h
      BY <1>3, <3>3
    <3>5. a \in Tags!Addr
      BY <1>2, <3>3, <3>4 DEF Tags!Addr, Tags!Prologue
    <3>6. (h < x => h + M[h].size <= x) /\ (x < h => x + M[x].size <= h)
      BY <1>2 DEF Tiles
    <3>7. a # x
      BY <1>4, <3>3, <3>4, <3>6
    <3> QED BY <1>8, <3>1, <3>5, <3>7
  <2> QED BY <2>1, <2>2
<1>18. TagHeld(C, M, K)
  BY <1>14, <1>15, <1>16, <1>17 DEF TagHeld
<1>19. K \subseteq Tags!Held /\ M[2].size = 2
  BY <1>1, <1>5, <1>13
<1>20. TagHeap(C, M, K, f)
  BY <1>2, <1>5, <1>18, <1>19 DEF TagHeap
<1> QED BY <1>11, <1>12, <1>20 DEF b0, TagTakes

\* A block of at least n words at x becomes the caller's.
TagTaken(m, L, f, x, n, asked, M) ==
    \E C : TagTakes(C, m, L, f, x, asked, M) /\ x \in C /\ M[x].size >= n

\* GetBlock() does that with a free block that is long enough, and what it splits off stays
\* free.
LEMMA TagTake ==
    ASSUME NEW B, NEW m, NEW L, NEW e, TagHeap(B, m, L, e), NEW x \in B, ~m[x].allocated,
           NEW n \in Nat, n <= m[x].size, NEW asked \in Nat, asked + 2 <= n, NEW S, S = Tags!Split(m, x, n)
    PROVE  TagTaken(m, L, e, x, n, asked, Tags!Fill(Tags!ALLOCATE_BLOCK(S, x, S[x].size), x + 1, asked))
<1> SUFFICES ASSUME NEW M, M = Tags!Fill(Tags!ALLOCATE_BLOCK(S, x, S[x].size), x + 1, asked)
             PROVE  TagTaken(m, L, e, x, n, asked, M)
  OBVIOUS
<1>1. /\ Tiles(B, m, 3, e) /\ 3 \in Nat /\ e \in Nat /\ e \in 3 .. TagWords + 1 /\ e <= TagWords + 1
      /\ m \in [Tags!Addr -> Tags!Word] /\ TagWords \in Nat
  BY SizesAssumption DEF TagHeap
<1>2. \A h \in B : /\ h \in Nat /\ 3 <= h /\ h < e /\ m[h].size \in Nat \ {0} /\ 2 <= m[h].size
                   /\ h + m[h].size \in B \cup {e} /\ h + m[h].size <= e /\ h \in Tags!Addr
  BY TagLive
<1>3. PICK z, q : z = m[x].size /\ q = x + z
  OBVIOUS
<1>4. /\ x \in Nat \ {0} /\ z \in Nat /\ 2 <= z /\ n <= z /\ q \in Nat /\ q \in B \cup {e} /\ q <= e
      /\ 3 <= x /\ x < q /\ x \in Tags!Addr /\ q <= TagWords + 1
  BY <1>1, <1>2, <1>3
<1>5. \A h \in B : h \in Nat /\ (h <= x \/ q <= h)
  BY <1>1, <1>2, <1>3 DEF Tiles
<1>6. \A b \in L : b.ptr - 1 < x \/ q <= b.ptr - 1
  <2>1. \A b \in L : b.ptr - 1 \in B /\ m[b.ptr - 1].allocated
    BY DEF TagHeap, TagHeld
  <2>2. \A b \in L : b.ptr - 1 # x
    BY <2>1
  <2> QED BY <1>4, <1>5, <2>1, <2>2
<1>7. q = e \/ m[q].allocated
  BY <1>3 DEF TagHeap, TagMerged
<1>8. CASE ~(z >= n + 3)
  <2>1. S = m
    BY <1>3, <1>8, Zenon DEF Tags!Split, Tags!MIN_BLOCK_SIZE
  <2>2. asked + 2 <= z /\ x + z <= TagWords + 1 /\ x + z - 1 = q - 1
    BY <1>3, <1>4
  <2>3. TagGives(m, x, z, asked, M)
    <3>1. M = Tags!Fill(Tags!ALLOCATE_BLOCK(m, x, z), x + 1, asked)
      BY <1>3, <2>1, Zenon
    <3> QED BY <1>1, <1>4, <2>2, <3>1, TagGive
  <2>4. PICK t : t = Tags!Tag(z, TRUE)
    OBVIOUS
  <2>5. t.size = z /\ t.allocated /\ t.owner = 0
    BY <2>4 DEF Tags!Tag, Tags!NULL
  <2>6. /\ M \in [Tags!Addr -> Tags!Word] /\ M[x] = t /\ M[q - 1] = t
        /\ \A a \in x + 1 .. x + asked : M[a] = Tags!Data(x + 1)
        /\ \A a \in Tags!Addr : (a < x \/ q <= a) => M[a] = m[a]
    BY <1>3, <2>2, <2>3, <2>4, Zenon DEF TagGives
  <2>7. \A h \in B : h # x => M[h] = m[h]
    BY <1>2, <1>4, <1>5, <2>6
  <2>8. \A h \in B : M[h].size = m[h].size
    BY <1>3, <2>5, <2>6, <2>7
  <2>9. Tiles(B, M, 3, e)
    BY <1>1, <2>8 DEF Tiles
  <2>10. TagCuts(B, m, e, x, q, B, M, e)
    <3>1. ASSUME NEW h \in B, x <= h, h < q
          PROVE  /\ M[h].size >= 2 /\ M[h].owner = 0 /\ M[h + M[h].size - 1] = M[h]
                 /\ M[h].allocated \/ h + M[h].size = e \/ M[h + M[h].size].allocated
      <4>1. h = x
        BY <1>4, <1>5, <3>1
      <4>2. M[h].size = z /\ h + M[h].size - 1 = q - 1
        BY <2>2, <2>5, <2>6, <4>1
      <4> QED BY <1>4, <2>5, <2>6, <4>1, <4>2
    <3> QED BY <1>1, <1>4, <2>6, <2>9, <3>1 DEF TagCuts
  <2>11. \A h \in B : M[h].allocated => (h = x \/ h < x \/ q <= h)
    BY <1>4, <1>5
  <2>12. M[x].allocated /\ asked + 2 <= M[x].size /\ x < q
    BY <1>4, <2>2, <2>5, <2>6
  <2>13. \A a \in x + 1 .. x + asked : M[a] = Tags!Data(x + 1)
    BY <2>6
  <2>14. TagTakes(B, m, L, e, x, asked, M)
    BY <1>6, <2>10, <2>11, <2>12, <2>13, TagGrant
  <2>15. x \in B /\ M[x].size >= n
    BY <1>4, <2>5, <2>6
  <2> QED BY <2>14, <2>15 DEF TagTaken
<1>9. CASE z >= n + 3
  <2>1. PICK y, r, s, u, t, m1 : /\ y = x + n /\ r = z - n
                                 /\ s = Tags!Tag(n, FALSE) /\ u = Tags!Tag(r, FALSE) /\ t = Tags!Tag(n, TRUE)
                                 /\ m1 = [m EXCEPT ![x] = s]
    OBVIOUS
  <2>2. /\ y \in Nat \ {0} /\ r \in Nat /\ 2 <= r /\ y + r = q /\ y + r <= TagWords + 1 /\ x < y /\ y < q
        /\ y \in Tags!Addr /\ x + n <= TagWords + 1 /\ n \in Nat \ {0} /\ n < z /\ y + r - 1 = q - 1
    <3>1. y = x + n /\ r = z - n
      BY <2>1
    <3>2. z >= n + 3 /\ n \in Nat /\ 2 <= n /\ z \in Nat /\ x \in Nat /\ x + z = q /\ q <= TagWords + 1 /\ TagWords \in Nat
      BY <1>1, <1>3, <1>4, <1>9
    <3> QED BY <3>1, <3>2 DEF Tags!Addr, Tags!Prologue
  <2>3. /\ s \in Tags!Word /\ u \in Tags!Word
        /\ s.size = n /\ u.size = r /\ ~u.allocated /\ u.owner = 0
        /\ t.size = n /\ t.allocated /\ t.owner = 0
    <3>1. n \in 0 .. TagWords /\ r \in 0 .. TagWords
      BY <1>4, <2>2, <1>1
    <3> QED BY <2>1, <3>1 DEF Tags!Tag, Tags!Word, Tags!NULL
  <2>4. m1 \in [Tags!Addr -> Tags!Word] /\ m1[x] = s /\ \A a \in Tags!Addr : a # x => m1[a] = m[a]
    BY <1>1, <1>4, <2>1, <2>3
  <2>5. /\ S \in [Tags!Addr -> Tags!Word] /\ S[y] = u /\ S[q - 1] = u /\ S[x].size = n
        /\ \A a \in Tags!Addr : (a < x \/ q <= a) => S[a] = m[a]
    <3>1. S = [m1 EXCEPT ![y] = u, ![y + r - 1] = u]
      <4>1. S = Tags!SetTags(m1, y, r, FALSE)
        BY <1>3, <1>9, <2>1, Zenon DEF Tags!Split, Tags!MIN_BLOCK_SIZE
      <4> QED BY <2>1, <4>1 DEF Tags!SetTags
    <3>2. TagWrites(m1, y, r, u, S)
      <4>1. m1 \in [Tags!Addr -> Tags!Word] /\ u \in Tags!Word
        BY <2>3, <2>4
      <4>2. y \in Nat \ {0} /\ r \in Nat /\ 2 <= r /\ y + r <= TagWords + 1
        BY <2>2
      <4>3. TagWrites(m1, y, r, u, [m1 EXCEPT ![y] = u, ![y + r - 1] = u])
        BY <4>1, <4>2, TagSetTags
      <4> QED BY <3>1, <4>3, Zenon
    <3>3. /\ S \in [Tags!Addr -> Tags!Word] /\ S[y] = u /\ S[q - 1] = u
          /\ \A a \in Tags!Addr : (a # y /\ a # q - 1) => S[a] = m1[a]
      BY <2>2, <3>2, Zenon DEF TagWrites
    <3>4. x # y /\ x # q - 1
      BY <1>4, <2>2
    <3>5. S[x].size = n
      BY <1>4, <2>3, <2>4, <3>3, <3>4
    <3>6. ASSUME NEW a \in Tags!Addr, a < x \/ q <= a PROVE S[a] = m[a]
      <4>1. a \in Nat
        BY <1>1 DEF Tags!Addr, Tags!Prologue
      <4>2. a # x /\ a # y /\ a # q - 1
        BY <1>4, <2>2, <3>6, <4>1
      <4> QED BY <2>4, <3>3, <4>2
    <3> QED BY <3>3, <3>5, <3>6
  <2>6. TagGives(S, x, n, asked, M)
    <3>1. M = Tags!Fill(Tags!ALLOCATE_BLOCK(S, x, n), x + 1, asked)
      BY <2>5, Zenon
    <3> QED BY <1>4, <2>2, <2>5, <3>1, TagGive
  <2>7. /\ M \in [Tags!Addr -> Tags!Word] /\ M[x] = t /\ M[x + n - 1] = t
        /\ \A a \in x + 1 .. x + asked : M[a] = Tags!Data(x + 1)
        /\ \A a \in Tags!Addr : (a < x \/ y <= a) => M[a] = S[a]
    BY <2>1, <2>6, Zenon DEF TagGives
  <2>8. M[y] = u /\ M[q - 1] = u /\ \A a \in Tags!Addr : (a < x \/ q <= a) => M[a] = m[a]
    <3>1. q - 1 \in Tags!Addr /\ y <= q - 1 /\ y <= y
      BY <1>4, <2>2, <1>1 DEF Tags!Addr, Tags!Prologue
    <3>2. \A a \in Tags!Addr : a \in Nat
      BY <1>1 DEF Tags!Addr, Tags!Prologue
    <3>3. \A a \in Tags!Addr : q <= a => y <= a
      BY <1>4, <2>2, <3>2
    <3> QED BY <2>2, <2>5, <2>7, <3>1, <3>3
  <2>9. \A h \in B : h # x => M[h] = m[h]
    BY <1>2, <1>4, <1>5, <2>8
  <2>10. Tiles(B \cup {y}, M, 3, e) /\ y \notin B
    <3>1. M[x].size = n /\ M[y].size = m[x].size - n
      BY <1>3, <2>1, <2>3, <2>7, <2>8
    <3>2. \A h \in B : h # x => M[h].size = m[h].size
      BY <2>9
    <3>3. Tiles(B, m, 3, e) /\ 3 \in Nat /\ e \in Nat /\ n \in Nat \ {0} /\ x \in B /\ n < m[x].size /\ y = x + n
      BY <1>1, <1>3, <2>1, <2>2
    <3>4. Tiles(B \cup {y}, M, 3, e)
      BY <3>1, <3>2, <3>3, SplitOff
    <3>5. y \notin B
      BY <1>4, <1>5, <2>2
    <3> QED BY <3>4, <3>5
  <2>11. TagCuts(B, m, e, x, q, B \cup {y}, M, e)
    <3>1. ASSUME NEW h \in B \cup {y}, x <= h, h < q
          PROVE  /\ M[h].size >= 2 /\ M[h].owner = 0 /\ M[h + M[h].size - 1] = M[h]
                 /\ M[h].allocated \/ h + M[h].size = e \/ M[h + M[h].size].allocated
      <4>1. CASE h = y
        <5>1. M[h].size = r /\ M[h].owner = 0 /\ h + r = q /\ h + r - 1 = q - 1
          BY <2>2, <2>3, <2>8, <4>1
        <5>2. M[h + M[h].size - 1] = M[h]
          BY <2>8, <4>1, <5>1, Zenon
        <5>3. q = e \/ M[q].allocated
          <6>1. q \in B => q \in Tags!Addr /\ q <= q
            BY <1>2, <1>4
          <6> QED BY <1>4, <1>7, <2>8, <6>1
        <5> QED BY <2>2, <5>1, <5>2, <5>3
      <4>2. CASE h # y
        <5>1. h = x
          BY <1>4, <1>5, <3>1, <4>2
        <5>2. M[h].size = n /\ M[h].owner = 0 /\ M[h].allocated
          BY <2>3, <2>7, <5>1
        <5>3. M[h + M[h].size - 1] = M[h]
          BY <2>7, <5>1, <5>2, Zenon
        <5> QED BY <5>2, <5>3
      <4> QED BY <4>1, <4>2
    <3>2. \A h \in B \cup {y} : (h < x \/ q <= h) => h \in B
      BY <1>4, <2>2
    <3> QED BY <1>1, <1>4, <2>7, <2>8, <2>10, <3>1, <3>2 DEF TagCuts
  <2>12. \A h \in B \cup {y} : M[h].allocated => (h = x \/ h < x \/ q <= h)
    <3> SUFFICES ASSUME NEW h \in B \cup {y}, M[h].allocated PROVE h = x \/ h < x \/ q <= h
      OBVIOUS
    <3>1. h # y
      BY <2>3, <2>8
    <3>2. h \in Nat /\ (h <= x \/ q <= h)
      BY <1>5, <3>1
    <3>3. x \in Nat
      BY <1>4
    <3> QED BY <3>2, <3>3
  <2>13. M[x].allocated /\ asked + 2 <= M[x].size /\ x < q /\ x \in B \cup {y}
    BY <1>4, <2>3, <2>7
  <2>14. \A a \in x + 1 .. x + asked : M[a] = Tags!Data(x + 1)
    BY <2>7
  <2>15. TagTakes(B \cup {y}, m, L, e, x, asked, M)
    BY <1>6, <2>11, <2>12, <2>13, <2>14, TagGrant
  <2>16. M[x].size >= n
    BY <2>3, <2>7
  <2> QED BY <2>13, <2>15, <2>16 DEF TagTaken
<1> QED BY <1>8, <1>9

\* It does so with a block added at the end.
LEMMA TagExtend ==
    ASSUME NEW B, NEW m, NEW L, NEW e, TagHeap(B, m, L, e),
           NEW n \in Nat, e + n <= TagWords + 1, NEW asked \in Nat, asked + 2 <= n,
           NEW M, M = Tags!Fill(Tags!ALLOCATE_BLOCK(m, e, n), e + 1, asked)
    PROVE  TagTaken(m, L, e + n, e, n, asked, M) /\ M[e].size = n
<1>1. /\ Tiles(B, m, 3, e) /\ 3 \in Nat /\ e \in Nat \ {0} /\ e \in 3 .. TagWords + 1 /\ 3 <= e /\ e \in Nat
      /\ m \in [Tags!Addr -> Tags!Word] /\ TagWords \in Nat
  BY SizesAssumption DEF TagHeap
<1>2. /\ \A h \in B : h \in Nat /\ 3 <= h /\ h < e /\ m[h].size \in Nat \ {0} /\ h \in Tags!Addr
      /\ \A b \in L : b.ptr - 1 \in B
  BY TagLive
<1>3. PICK q, t, C : q = e + n /\ t = Tags!Tag(n, TRUE) /\ C = B \cup {e}
  OBVIOUS
<1>4. t.size = n /\ t.allocated /\ t.owner = 0
  BY <1>3 DEF Tags!Tag, Tags!NULL
<1>5. q \in Nat /\ q <= TagWords + 1 /\ e < q /\ n \in Nat \ {0} /\ 2 <= n
  BY <1>1, <1>3
<1>6. TagGives(m, e, n, asked, M)
  BY <1>1, TagGive
<1>7. /\ M \in [Tags!Addr -> Tags!Word] /\ M[e] = t /\ M[e + n - 1] = t
      /\ \A a \in e + 1 .. e + asked : M[a] = Tags!Data(e + 1)
      /\ \A a \in Tags!Addr : (a < e \/ q <= a) => M[a] = m[a]
  BY <1>3, <1>6, Zenon DEF TagGives
<1>8. \A h \in B : M[h] = m[h]
  BY <1>2, <1>7
<1>9. Tiles(C, M, 3, q) /\ e \notin B
  <2>1. M[e].size = n /\ \A h \in B : M[h].size = m[h].size
    BY <1>4, <1>7, <1>8
  <2>2. Tiles(B \cup {e}, M, 3, e + n) /\ e \notin B
    BY <1>1, <1>5, <2>1, Extended
  <2> QED BY <1>3, <2>2, Zenon
<1>10. TagCuts(B, m, e, e, q, C, M, q)
  <2>1. ASSUME NEW h \in C, e <= h, h < q
        PROVE  /\ M[h].size >= 2 /\ M[h].owner = 0 /\ M[h + M[h].size - 1] = M[h]
               /\ M[h].allocated \/ h + M[h].size = q \/ M[h + M[h].size].allocated
    <3>1. h = e
      BY <1>1, <1>2, <1>3, <2>1
    <3>2. M[h].size = n /\ M[h].owner = 0 /\ M[h].allocated
      BY <1>4, <1>7, <3>1
    <3>3. M[h + M[h].size - 1] = M[h]
      BY <1>7, <3>1, <3>2, Zenon
    <3> QED BY <1>5, <3>2, <3>3
  <2>2. \A h \in C : (h < e \/ q <= h) => h \in B
    BY <1>1, <1>3, <1>5
  <2>3. q \in 3 .. TagWords + 1
    BY <1>1, <1>5
  <2> QED BY <1>1, <1>3, <1>5, <1>7, <1>9, <2>1, <2>2, <2>3 DEF TagCuts
<1>11. \A h \in C : M[h].allocated => (h = e \/ h < e \/ q <= h)
  BY <1>2, <1>3
<1>12. M[e].allocated /\ asked + 2 <= M[e].size /\ e < q /\ e \in C /\ M[e].size = n
  BY <1>3, <1>4, <1>5, <1>7
<1>13. \A a \in e + 1 .. e + asked : M[a] = Tags!Data(e + 1)
  BY <1>7
<1>14. \A b \in L : b.ptr - 1 < e \/ q <= b.ptr - 1
  BY <1>2
<1>15. TagTakes(C, m, L, q, e, asked, M)
  BY <1>10, <1>11, <1>12, <1>13, <1>14, TagGrant
<1> QED BY <1>3, <1>5, <1>12, <1>15 DEF TagTaken

\* find_fit() at block a: none of the free blocks it has passed is long enough.
TagSearch(B, m, e, n, a) ==
    a \in B \cup {e} /\ \A h \in B : (h < a /\ ~m[h].allocated) => m[h].size < n

\* A turn of the loop of find_fit() goes on to the next block: no free block follows a free
\* one, so that it never merges.
LEMMA TagTurn ==
    ASSUME NEW B, NEW m, NEW L, NEW e, TagHeap(B, m, L, e), e = tag_end, NEW n \in Nat,
           NEW a, TagSearch(B, m, e, n, a), NEW x, x = [mem |-> m, at |-> a]
    PROVE  \E c : /\ TagSearch(B, m, e, n, c) /\ Tags!Turn(x, n) = [mem |-> m, at |-> c]
                  /\ (Ends(x, e, n) /\ c = a) \/ (~Ends(x, e, n) /\ c > a)
<1>1. /\ e \in Nat /\ Tiles(B, m, 3, e)
      /\ \A h \in B : /\ h \in Nat /\ 3 <= h /\ h < e /\ m[h].size \in Nat \ {0}
                      /\ h + m[h].size \in B \cup {e} /\ h + m[h].size \in Nat /\ h + m[h].size <= e
  BY TagLive
<1>2. x.mem = m /\ x.at = a
  OBVIOUS
<1>3. a \in Nat /\ a <= e /\ a \in B \cup {e}
  BY <1>1 DEF TagSearch
<1>4. CASE Ends(x, e, n)
  <2>1. Tags!Turn(x, n) = x
    BY <1>4 DEF Tags!Turn, Tags!Suits, Ends
  <2> QED BY <1>4, <2>1
<1>5. CASE ~Ends(x, e, n)
  <2>1. a \in B /\ ~(a >= e) /\ ~(~m[a].allocated /\ m[a].size >= n)
    BY <1>1, <1>2, <1>3, <1>5 DEF Ends
  <2>2. PICK c : c = a + m[a].size
    OBVIOUS
  <2>3. c \in B \cup {e} /\ c \in Nat /\ c <= e /\ a < c
    BY <1>1, <1>3, <2>1, <2>2
  <2>4. m[a].allocated \/ c = e \/ m[c].allocated
    BY <2>1, <2>2 DEF TagHeap, TagMerged
  <2>5. ~(~m[a].allocated /\ c < e /\ ~m[c].allocated)
    BY <1>1, <2>4
  <2>6. Tags!Turn(x, n) = [x EXCEPT !.at = c]
    <3>1. Tags!Turn(x, n)
            = IF a >= e \/ (~m[a].allocated /\ m[a].size >= n) THEN x
              ELSE IF ~m[a].allocated /\ a + m[a].size < e /\ ~m[a + m[a].size].allocated
                   THEN [x EXCEPT !.mem = Tags!SetFree(m, a, m[a].size + m[a + m[a].size].size)]
              ELSE [x EXCEPT !.at = a + m[a].size]
      BY <1>2, Zenon DEF Tags!Turn, Tags!Suits, Tags!NEXT_BLOCK
    <3> QED BY <2>1, <2>2, <2>5, <3>1, Zenon
  <2>7. Tags!Turn(x, n) = [mem |-> m, at |-> c]
    BY <2>6
  <2>8. \A h \in B : h < c => (h < a \/ h = a)
    <3>1. \A h \in B : a < h => c <= h
      BY <1>1, <2>1, <2>2 DEF Tiles
    <3> QED BY <1>1, <1>3, <2>3, <3>1
  <2>9. ~m[a].allocated => m[a].size < n
    BY <1>1, <2>1
  <2>10. TagSearch(B, m, e, n, c)
    BY <2>3, <2>8, <2>9 DEF TagSearch
  <2> QED BY <1>5, <2>3, <2>7, <2>10
<1> QED BY <1>4, <1>5

\* The function in the definition of find_fit().
TagTurns(m, h, n) ==
    CHOOSE f : f = [k \in 0 .. TagWords |-> IF k = 0 THEN [mem |-> m, at |-> h]
                                            ELSE Tags!Turn(f[k - 1], n)]

\* What find_fit() returns: a free block of n words, or nothing if there is none.
TagFits(B, m, n, fit) ==
    /\ fit.mem = m
    /\ fit.at # 0 => tag_end # 0 /\ fit.at \in B /\ ~m[fit.at].allocated /\ m[fit.at].size >= n
    /\ fit.at = 0 => \A h \in B : ~m[h].allocated => m[h].size < n

\* It leaves its loop at a block that suits, or at the end.
LEMMA TagFindFit ==
    ASSUME NEW B, NEW m, NEW L, NEW e, TagHeap(B, m, L, e), e = tag_end, NEW n \in Nat
    PROVE  TagFits(B, m, n, Tags!find_fit(m, 3, n))
<1>1. PICK W : W = TagWords
  OBVIOUS
<1>2. /\ W \in Nat /\ e \in 3 .. W + 1 /\ e \in Nat /\ Tiles(B, m, 3, e) /\ 3 \in Nat
      /\ \A h \in B : h \in Nat /\ 3 <= h /\ h < e
  BY <1>1, TagLive, SizesAssumption DEF TagHeap
<1> DEFINE Point(a) == [mem |-> m, at |-> a]
           X == {Point(a) : a \in {b \in B \cup {e} : TagSearch(B, m, e, n, b)}}
           x0 == [mem |-> m, at |-> 3]
           g == [k \in 1 .. W |-> [x \in X |-> Tags!Turn(x, n)]]
           Def(f) == [k \in 0 .. W |-> IF k = 0 THEN x0 ELSE Tags!Turn(f[k - 1], n)]
<1>3. x0 \in X
  <2>1. 3 \in B \cup {e} /\ \A h \in B : ~(h < 3)
    BY <1>2 DEF Tiles
  <2>2. TagSearch(B, m, e, n, 3)
    BY <2>1 DEF TagSearch
  <2> QED BY <2>1, <2>2
<1>4. ASSUME NEW x \in X
      PROVE  /\ Tags!Turn(x, n) \in X
             /\ Ends(x, e, n) => Tags!Turn(x, n) = x
             /\ Ends(x, e, n) \/ Tags!Turn(x, n).at > x.at
  <2>1. PICK a : TagSearch(B, m, e, n, a) /\ x = [mem |-> m, at |-> a]
    OBVIOUS
  <2>2. PICK c : /\ TagSearch(B, m, e, n, c) /\ Tags!Turn(x, n) = [mem |-> m, at |-> c]
                 /\ (Ends(x, e, n) /\ c = a) \/ (~Ends(x, e, n) /\ c > a)
    BY <2>1, TagTurn
  <2>3. PICK y : y = Tags!Turn(x, n)
    OBVIOUS
  <2>4. y = Point(c) /\ y.at = c /\ x.at = a
    BY <2>1, <2>2, <2>3
  <2>5. c \in B \cup {e}
    BY <2>2 DEF TagSearch
  <2>6. y \in X
    BY <2>2, <2>4, <2>5
  <2>7. Ends(x, e, n) => y = x
    BY <2>1, <2>2, <2>3
  <2> HIDE DEF X
  <2> QED BY <2>2, <2>3, <2>4, <2>6, <2>7, Zenon
<1>5. \A x \in X : /\ x.mem = m /\ x.at \in Nat /\ x.at \in B \cup {e}
                   /\ \A h \in B : (h < x.at /\ ~m[h].allocated) => m[h].size < n
  <2> SUFFICES ASSUME NEW x \in X
               PROVE  /\ x.mem = m /\ x.at \in Nat /\ x.at \in B \cup {e}
                      /\ \A h \in B : (h < x.at /\ ~m[h].allocated) => m[h].size < n
    OBVIOUS
  <2>1. PICK a \in B \cup {e} : TagSearch(B, m, e, n, a) /\ x = [mem |-> m, at |-> a]
    OBVIOUS
  <2>2. x.mem = m /\ x.at = a /\ a \in Nat
    BY <1>2, <2>1
  <2> QED BY <2>1, <2>2 DEF TagSearch
<1> HIDE DEF X
<1>6. g \in [1 .. W -> [X -> X]]
  BY <1>4, Zenon
<1>7. \A k \in 1 .. W : \A x \in X : g[k][x] = Tags!Turn(x, n)
  BY Zenon
<1> HIDE DEF g
<1>8. PICK c : c = x0
  OBVIOUS
<1>9. PICK f : f \in [0 .. W -> X] /\ f[0] = c /\ \A i \in 1 .. W : f[i] = g[i][f[i - 1]]
  <2>1. c \in X
    BY <1>3, <1>8, Zenon
  <2>2. W \in Nat
    BY <1>2
  <2> QED BY <1>6, <2>1, <2>2, Recursion
<1>10. \A k \in 1 .. W : f[k] = Tags!Turn(f[k - 1], n)
  <2> SUFFICES ASSUME NEW k \in 1 .. W PROVE f[k] = Tags!Turn(f[k - 1], n)
    OBVIOUS
  <2>1. k - 1 \in 0 .. W
    BY <1>2
  <2> QED BY <1>7, <1>9, <2>1, Zenon
<1>11. f = Def(f)
  <2>1. ASSUME NEW k \in 0 .. W PROVE f[k] = IF k = 0 THEN x0 ELSE Tags!Turn(f[k - 1], n)
    <3>1. CASE k = 0
      BY <1>8, <1>9, <3>1, Zenon
    <3>2. CASE k # 0
      <4>1. k \in 1 .. W
        BY <1>2, <3>2
      <4> QED BY <1>10, <3>2, <4>1, Zenon
    <3> QED BY <3>1, <3>2
  <2>2. f = [k \in 0 .. W |-> f[k]]
    BY <1>9, Zenon
  <2> QED BY <2>1, <2>2, Zenon
<1> DEFINE t == TagTurns(m, 3, n)
<1> HIDE DEF Def
<1>12. t = Def(t)
  <2>1. t = CHOOSE r : r = Def(r)
    BY <1>1, Zenon DEF TagTurns, Def
  <2> QED BY <1>11, <2>1
<1>13. Tags!find_fit(m, 3, n) = IF t[W].at >= e THEN [t[W] EXCEPT !.at = 0] ELSE t[W]
  <2>1. Tags!find_fit(m, 3, n)
            = IF t[TagWords].at >= tag_end THEN [t[TagWords] EXCEPT !.at = Tags!NULL]
              ELSE t[TagWords]
    BY Zenon DEF Tags!find_fit, TagTurns
  <2> HIDE DEF t
  <2> QED BY <1>1, <2>1, Zenon DEF Tags!NULL
<1> HIDE DEF t
<1>14. t[0] = x0 /\ \A k \in 1 .. W : t[k] = Tags!Turn(t[k - 1], n)
  <2>1. 0 \in 0 .. W /\ \A k \in 1 .. W : k \in 0 .. W /\ k # 0
    BY <1>2
  <2> QED BY <1>12, <2>1, Zenon DEF Def
<1> DEFINE S == {k \in Nat : k <= W => t[k] \in X /\ (Ends(t[k], e, n) \/ t[k].at >= k + 3)}
<1>15. 0 \in S
  <2>1. t[0] \in X
    BY <1>3, <1>14, Zenon
  <2>2. t[0].at = 3
    BY <1>14
  <2> QED BY <2>1, <2>2
<1>16. ASSUME NEW k \in Nat, k \in S PROVE k + 1 \in S
  <2> SUFFICES ASSUME k + 1 <= W
               PROVE  t[k + 1] \in X /\ (Ends(t[k + 1], e, n) \/ t[k + 1].at >= (k + 1) + 3)
    OBVIOUS
  <2>1. t[k] \in X /\ (Ends(t[k], e, n) \/ t[k].at >= k + 3)
    BY <1>2, <1>16
  <2>2. t[k + 1] = Tags!Turn(t[k], n)
    <3>1. k + 1 \in 1 .. W /\ (k + 1) - 1 = k
      BY <1>2
    <3> QED BY <1>14, <3>1
  <2>3. PICK x, y : x = t[k] /\ y = t[k + 1]
    OBVIOUS
  <2>4. y \in X /\ (Ends(x, e, n) => y = x) /\ (Ends(x, e, n) \/ y.at > x.at)
    BY <1>4, <2>1, <2>2, <2>3, Zenon
  <2>5. x \in X /\ (Ends(x, e, n) \/ x.at >= k + 3)
    BY <2>1, <2>3, Zenon
  <2>6. Ends(y, e, n) \/ y.at >= (k + 1) + 3
    <3>1. CASE Ends(x, e, n)
      BY <2>4, <3>1
    <3>2. CASE ~Ends(x, e, n)
      <4>1. y.at \in Nat /\ x.at \in Nat
        BY <1>5, <2>4, <2>5
      <4> QED BY <2>4, <2>5, <3>2, <4>1
    <3> QED BY <3>1, <3>2
  <2> QED BY <2>3, <2>4, <2>6, Zenon
<1> HIDE DEF S
<1>17. W \in S
  BY <1>2, <1>15, <1>16, Induction
<1>18. PICK x : x = t[W]
  OBVIOUS
<1>19. x \in X /\ (Ends(x, e, n) \/ x.at >= W + 3)
  BY <1>2, <1>17, <1>18 DEF S
<1>20. /\ x.mem = m /\ x.at \in Nat /\ x.at \in B \cup {e}
       /\ \A h \in B : (h < x.at /\ ~m[h].allocated) => m[h].size < n
  BY <1>5, <1>19
<1>21. Ends(x, e, n)
  BY <1>2, <1>19, <1>20 DEF Ends
<1>22. PICK fit : fit = Tags!find_fit(m, 3, n)
  OBVIOUS
<1>23. fit = IF x.at >= e THEN [x EXCEPT !.at = 0] ELSE x
  BY <1>13, <1>18, <1>22, Zenon
<1>a. X \subseteq [mem : {m}, at : Nat]
  <2>1. \A a \in B \cup {e} : a \in Nat
    BY <1>2
  <2> QED BY <2>1 DEF X
<1>24. CASE x.at >= e
  <2>1. fit.mem = m /\ fit.at = 0
    BY <1>19, <1>20, <1>23, <1>24, <1>a
  <2>2. \A h \in B : h < x.at
    BY <1>2, <1>20, <1>24
  <2>3. TagFits(B, m, n, fit)
    BY <1>20, <2>1, <2>2 DEF TagFits
  <2> QED BY <1>22, <2>3
<1>25. CASE ~(x.at >= e)
  <2>1. fit = x /\ x.at \in B /\ x.at # 0 /\ e # 0
    BY <1>2, <1>20, <1>23, <1>25
  <2>2. ~m[x.at].allocated /\ m[x.at].size >= n
    BY <1>20, <1>21, <1>25 DEF Ends
  <2>3. TagFits(B, m, n, fit)
    BY <1>20, <2>1, <2>2 DEF TagFits
  <2> QED BY <1>22, <2>3
<1> QED BY <1>24, <1>25

\* Nothing is found before the first allocation.
LEMMA TagFindNone ==
    ASSUME tag_end = 0, NEW m, NEW h \in Nat, NEW n
    PROVE  Tags!find_fit(m, h, n) = [mem |-> m, at |-> 0]
<1>1. PICK W, x0 : W = TagWords /\ x0 = [mem |-> m, at |-> h]
  OBVIOUS
<1>2. W \in Nat /\ x0.at >= tag_end
  BY <1>1, SizesAssumption
<1>3. Tags!Turn(x0, n) = x0
  BY <1>2 DEF Tags!Turn
<1> DEFINE Def(f) == [k \in 0 .. W |-> IF k = 0 THEN x0 ELSE Tags!Turn(f[k - 1], n)]
           f0 == [k \in 0 .. W |-> x0]
           t == TagTurns(m, h, n)
<1>4. f0 = Def(f0)
  <2>1. ASSUME NEW k \in 0 .. W PROVE x0 = IF k = 0 THEN x0 ELSE Tags!Turn(f0[k - 1], n)
    <3>1. CASE k # 0
      <4>1. k - 1 \in 0 .. W
        BY <1>2, <3>1
      <4> QED BY <1>3, <3>1, <4>1, Zenon
    <3> QED BY <3>1
  <2> QED BY <2>1, Zenon
<1> HIDE DEF Def, f0
<1>5. t = Def(t)
  <2>1. t = CHOOSE r : r = Def(r)
    BY <1>1, Zenon DEF TagTurns, Def
  <2> QED BY <1>4, <2>1
<1>6. Tags!find_fit(m, h, n)
        = IF t[TagWords].at >= tag_end THEN [t[TagWords] EXCEPT !.at = Tags!NULL]
          ELSE t[TagWords]
  BY Zenon DEF Tags!find_fit, TagTurns
<1> HIDE DEF t
<1>7. t[0] = x0 /\ \A k \in 1 .. W : t[k] = Tags!Turn(t[k - 1], n)
  <2>1. 0 \in 0 .. W /\ \A k \in 1 .. W : k \in 0 .. W /\ k # 0
    BY <1>2
  <2> QED BY <1>5, <2>1, Zenon DEF Def
<1> DEFINE S == {k \in Nat : k <= W => t[k] = x0}
<1>8. 0 \in S
  BY <1>7
<1>9. ASSUME NEW k \in Nat, k \in S PROVE k + 1 \in S
  <2> SUFFICES ASSUME k + 1 <= W PROVE t[k + 1] = x0
    OBVIOUS
  <2>1. k + 1 \in 1 .. W /\ (k + 1) - 1 = k /\ t[k] = x0
    BY <1>2, <1>9
  <2>2. t[k + 1] = Tags!Turn(t[k], n)
    BY <1>7, <2>1
  <2> QED BY <1>3, <2>1, <2>2, Zenon
<1> HIDE DEF S
<1>10. W \in S
  BY <1>2, <1>8, <1>9, Induction
<1>11. t[TagWords] = x0
  BY <1>1, <1>2, <1>10 DEF S
<1>12. Tags!find_fit(m, h, n) = [x0 EXCEPT !.at = 0]
  BY <1>2, <1>6, <1>11, Zenon DEF Tags!NULL
<1> QED BY <1>1, <1>12

\* walk_heap() meets all blocks and ends at the end.
LEMMA TagWalk ==
    ASSUME NEW B, Tiles(B, tag_mem, tag_start, tag_end), tag_start \in Nat, tag_end \in Nat,
           tag_start <= tag_end, tag_end <= tag_start + TagWords
    PROVE  Tags!walk_heap.at = tag_end /\ Tags!walk_heap.met = B
<1>1. PICK t : t = CHOOSE f : f = WalkDef(tag_mem, tag_start, tag_end, TagWords, f)
  OBVIOUS
<1>2. Tags!walk_heap = t[TagWords]
  BY <1>1, Zenon DEF Tags!walk_heap, Tags!Walk, Tags!NEXT_BLOCK, WalkDef, WalkTurn
<1>3. TagWords \in Nat
  BY SizesAssumption
<1>4. t[TagWords].at = tag_end /\ t[TagWords].met = B
  BY <1>1, <1>3, Walked
<1> QED BY <1>2, <1>4, Zenon

-----------------------------------------------------------------------------
(* The heap with boundary tags: the inductive invariant and its steps.     *)

TagState ==
    /\ tag_mem \in [Tags!Addr -> Tags!Word]
    /\ \/ tag_start = 0 /\ tag_end = 0 /\ tag_live = {}
       \/ tag_start = 3 /\ 3 <= TagWords /\ \E B : TagHeap(B, tag_mem, tag_live, tag_end)

\* The end of the heap, also before the first allocation.
TagTop == IF tag_end = 0 THEN 3 ELSE tag_end

TagSizes == {s + 2 : s \in Sizes} \cup {s + 2 * 2 : s \in Sizes}

\* Between mfree() and mmalloc() of mrealloc() the heap can still grow: nobody else
\* allocates then.
TagInv ==
    /\ TagState /\ tag_undefined \in BOOLEAN
    /\ \/ tag_moving = {}
       \/ /\ tag_start = 3
          /\ \E r \in [ptr : Tags!Addr, old : Nat, size : Sizes] :
               tag_moving = {r} /\ TagTop + (r.size + 2) + 2 <= TagWords + 1

\* Once the caller has written beyond a block that mrealloc() granted, only the types
\* are left.
TagTyped ==
    /\ tag_mem \in [Tags!Addr -> Tags!Word]
    /\ tag_start \in {0} \cup Tags!Addr /\ tag_end \in {0} \cup 1 .. TagWords + 1
    /\ tag_live \subseteq Tags!Held /\ tag_moving = {}

TagSafe == TagInv \/ (tag_undefined = TRUE /\ TagTyped)

\* The abstract state of the heap with boundary tags, in the words used here.
LEMMA TagAbstract ==
    /\ Tags!Promise!ANext <=>
         \/ \E n \in TagSizes :
              \/ /\ \E at \in 3 .. TagTop - n : \E size \in n .. TagTop - at :
                      /\ at >= 3 /\ at + size <= TagTop
                      /\ \A c \in Blocks(tag_mem, tag_live) : at + size <= c.at \/ c.at + c.size <= at
                      /\ Blocks(tag_mem, tag_live)' = Blocks(tag_mem, tag_live) \cup {[at |-> at, size |-> size]}
                 /\ TagTop' = TagTop
              \/ /\ ~\E at \in 3 .. TagTop - n :
                       /\ at >= 3 /\ at + n <= TagTop
                       /\ \A c \in Blocks(tag_mem, tag_live) : at + n <= c.at \/ c.at + c.size <= at
                 /\ Blocks(tag_mem, tag_live)' = Blocks(tag_mem, tag_live) \cup {[at |-> TagTop, size |-> n]}
                 /\ TagTop' = TagTop + n
         \/ \E b \in Blocks(tag_mem, tag_live) :
              Blocks(tag_mem, tag_live)' = Blocks(tag_mem, tag_live) \ {b} /\ TagTop' = TagTop
    /\ Tags!Promise!AInit <=> Blocks(tag_mem, tag_live) = {} /\ TagTop = 3
    /\ Tags!Promise!avars = <<Blocks(tag_mem, tag_live), TagTop>>
<1>1. 1 + 2 = 3
  OBVIOUS
<1> QED BY <1>1 DEF Tags!Promise!ANext, Tags!Promise!Reuse, Tags!Promise!Extend, Tags!Promise!Release,
       Tags!Promise!Room, Tags!Promise!Free, Tags!Promise!Disjoint, Tags!Promise!AInit,
       Tags!Promise!avars, Blocks, TagTop, TagSizes, Tags!Prologue, Tags!NULL, Tags!Overhead

\* What find_fit() returns to mmalloc(), and the room there is.
TagReadies(B, m, n, fit) ==
    /\ TagHeap(B, m, tag_live, TagTop) /\ TagFits(B, m, n, fit)
    /\ fit.at = 0 => TagTop + n <= TagWords + 1
    /\ \A b \in tag_live : m[b.ptr - 1] = tag_mem[b.ptr - 1]
    /\ fit.at # 0 => tag_end # 0

\* The prologue is written before the first allocation.
LEMMA TagReady ==
    ASSUME TagState, NEW size \in Nat, Tags!HasRoom(size), NEW n, n = size + 2,
           NEW m, m = IF tag_start = 0 THEN Tags!ALLOCATE_BLOCK(tag_mem, 1, 2) ELSE tag_mem
    PROVE  /\ \E B : TagReadies(B, m, n, Tags!find_fit(m, 3, n))
           /\ (IF tag_start = 0 THEN Tags!NEXT_BLOCK(m, 1) ELSE tag_start) = 3
<1>1. PICK fit : fit = Tags!find_fit(m, 3, n)
  OBVIOUS
<1>2. n \in Nat /\ TagWords \in Nat
  BY SizesAssumption
<1>3. TagTop + n <= TagWords + 1 \/ Tags!find_fit(tag_mem, tag_start, n).at # 0
  <2>1. (IF tag_end = 0 THEN 1 + 2 ELSE tag_end) + size + 2 <= TagWords + 1
        \/ Tags!find_fit(tag_mem, tag_start, size + 2).at # 0
    BY Zenon DEF Tags!HasRoom, Tags!MayGrow, Tags!Overhead, Tags!NULL, Tags!Prologue
  <2>2. TagTop = (IF tag_end = 0 THEN 1 + 2 ELSE tag_end)
    BY DEF TagTop
  <2>3. TagTop \in Nat
    <3>1. tag_end = 0 \/ tag_end \in 3 .. TagWords + 1
      BY DEF TagState, TagHeap
    <3> QED BY <1>2, <3>1 DEF TagTop
  <2>4. TagTop + n = TagTop + size + 2
    BY <2>3
  <2> QED BY <2>1, <2>2, <2>4, Zenon
<1>4. CASE tag_start = 0
  <2>1. tag_end = 0 /\ tag_live = {} /\ TagTop = 3
    BY <1>4 DEF TagState, TagTop, TagHeap
  <2>2. Tags!find_fit(tag_mem, tag_start, n) = [mem |-> tag_mem, at |-> 0]
    <3>1. tag_end = 0 /\ tag_start \in Nat
      BY <1>4, <2>1
    <3> QED BY <3>1, TagFindNone, Zenon
  <2>3. 3 + n <= TagWords + 1
    BY <1>3, <2>1, <2>2
  <2>4. fit = [mem |-> m, at |-> 0]
    <3>1. tag_end = 0 /\ 3 \in Nat
      BY <2>1
    <3> QED BY <1>1, <3>1, TagFindNone, Zenon
  <2>5. PICK t : t = Tags!Tag(2, TRUE)
    OBVIOUS
  <2>6. t \in Tags!Word /\ t.size = 2
    BY <1>2, <2>3, <2>5 DEF Tags!Tag, Tags!Word, Tags!NULL
  <2>7. 1 \in Tags!Addr /\ 2 \in Tags!Addr /\ 1 + 2 - 1 = 2
    BY <1>2, <2>3 DEF Tags!Addr, Tags!Prologue
  <2>8. m = [tag_mem EXCEPT ![1] = t, ![2] = t]
    <3>1. m = [tag_mem EXCEPT ![1] = t, ![1 + 2 - 1] = t]
      BY <1>4, <2>5 DEF Tags!ALLOCATE_BLOCK, Tags!SetTags
    <3> QED BY <2>7, <3>1, Zenon
  <2>9. m \in [Tags!Addr -> Tags!Word] /\ m[1] = t /\ m[2] = t
    BY <2>6, <2>7, <2>8 DEF TagState
  <2>10. TagHeap({}, m, {}, 3)
    <3>1. Tiles({}, m, 3, 3) /\ TagHeld({}, m, {}) /\ TagEnds({}, m) /\ TagMerged({}, m, 3)
      BY DEF Tiles, TagHeld, TagEnds, TagMerged
    <3>2. 3 \in 3 .. TagWords + 1
      BY <1>2, <2>3
    <3> QED BY <2>6, <2>9, <3>1, <3>2 DEF TagHeap
  <2>11. TagFits({}, m, n, fit) /\ fit.at = 0
    BY <2>4 DEF TagFits
  <2>12. TagReadies({}, m, n, fit)
    BY <2>1, <2>3, <2>10, <2>11 DEF TagReadies
  <2>13. Tags!NEXT_BLOCK(m, 1) = 3
    BY <2>6, <2>9 DEF Tags!NEXT_BLOCK
  <2> QED BY <1>1, <1>4, <2>12, <2>13, Zenon
<1>5. CASE tag_start # 0
  <2>1. tag_start = 3 /\ m = tag_mem
    BY <1>5 DEF TagState
  <2>2. PICK B : TagHeap(B, tag_mem, tag_live, tag_end)
    BY <1>5 DEF TagState
  <2>3. tag_end # 0 /\ TagTop = tag_end
    <3>1. tag_end \in 3 .. TagWords + 1
      BY <2>2 DEF TagHeap
    <3> QED BY <1>2, <3>1 DEF TagTop
  <2>4. TagFits(B, m, n, fit)
    <3>1. TagFits(B, tag_mem, n, Tags!find_fit(tag_mem, 3, n))
      BY <1>2, <2>2, TagFindFit
    <3> QED BY <1>1, <2>1, <3>1, Zenon
  <2>5. fit.at = 0 => TagTop + n <= TagWords + 1
    BY <1>1, <1>3, <2>1, Zenon
  <2>6. TagReadies(B, m, n, fit)
    BY <2>1, <2>2, <2>3, <2>4, <2>5 DEF TagReadies
  <2> QED BY <1>1, <1>5, <2>1, <2>6, Zenon
<1> QED BY <1>4, <1>5

\* A block for the caller comes from a free stretch, or extends the heap if there is none.
LEMMA TagGet ==
    ASSUME TagState, NEW size \in Nat, NEW asked \in Nat, asked <= size, size + 2 \in TagSizes,
           Tags!HasRoom(size), Tags!GetBlock(size, asked)
    PROVE  TagState' /\ Tags!Promise!ANext
<1>1. PICK n, L, T, m : /\ n = size + 2 /\ L = tag_live /\ T = TagTop
                        /\ m = IF tag_start = 0 THEN Tags!ALLOCATE_BLOCK(tag_mem, 1, 2) ELSE tag_mem
  OBVIOUS
<1>2. PICK fit : fit = Tags!find_fit(m, 3, n)
  OBVIOUS
<1>3. n \in Nat \ {0} /\ n \in Nat /\ n \in TagSizes /\ asked + 2 <= n
  BY <1>1
<1>4. PICK B : TagReadies(B, m, n, fit)
  BY <1>1, <1>2, TagReady, Zenon
<1>5. (IF tag_start = 0 THEN Tags!NEXT_BLOCK(m, 1) ELSE tag_start) = 3
  BY <1>1, TagReady, Zenon
<1>6. /\ TagHeap(B, m, L, T) /\ TagFits(B, m, n, fit) /\ fit.mem = m
      /\ \A b \in L : m[b.ptr - 1] = tag_mem[b.ptr - 1]
  BY <1>1, <1>4 DEF TagReadies, TagFits
<1>7. /\ tag_start' = 3
      /\ \/ /\ fit.at # 0
            /\ tag_mem' = Tags!Fill(Tags!ALLOCATE_BLOCK(Tags!Split(m, fit.at, n), fit.at,
                                                        Tags!Split(m, fit.at, n)[fit.at].size), fit.at + 1, asked)
            /\ tag_live' = L \cup {[ptr |-> fit.at + 1, filled |-> asked]}
            /\ tag_end' = tag_end
         \/ /\ fit.at = 0
            /\ tag_mem' = Tags!Fill(Tags!ALLOCATE_BLOCK(m, T, n), T + 1, asked)
            /\ tag_live' = L \cup {[ptr |-> T + 1, filled |-> asked]}
            /\ tag_end' = T + n
  <2>1. T = IF tag_end = 0 THEN 3 ELSE tag_end
    BY <1>1 DEF TagTop
  <2>2. PICK r : r = Tags!Allocation(size)
    OBVIOUS
  <2>3. r = IF fit.at # 0
            THEN [mem |-> Tags!ALLOCATE_BLOCK(Tags!Split(m, fit.at, n), fit.at, Tags!Split(m, fit.at, n)[fit.at].size),
                  at |-> fit.at, start |-> 3, end |-> tag_end]
            ELSE [mem |-> Tags!ALLOCATE_BLOCK(m, T, n), at |-> T, start |-> 3, end |-> T + n]
    BY <1>1, <1>2, <1>5, <1>6, <2>1, <2>2, Zenon DEF Tags!Allocation, Tags!NULL, Tags!Prologue, Tags!Overhead
  <2>4. /\ tag_mem' = Tags!Fill(r.mem, r.at + 1, asked) /\ tag_start' = r.start /\ tag_end' = r.end
        /\ tag_live' = L \cup {[ptr |-> r.at + 1, filled |-> asked]}
    BY <1>1, <2>2, Zenon DEF Tags!GetBlock
  <2>5. CASE fit.at # 0
    <3>1. /\ r.mem = Tags!ALLOCATE_BLOCK(Tags!Split(m, fit.at, n), fit.at, Tags!Split(m, fit.at, n)[fit.at].size)
          /\ r.at = fit.at /\ r.start = 3 /\ r.end = tag_end
      BY <2>3, <2>5
    <3> QED BY <2>4, <2>5, <3>1, Zenon
  <2>6. CASE fit.at = 0
    <3>1. r.mem = Tags!ALLOCATE_BLOCK(m, T, n) /\ r.at = T /\ r.start = 3 /\ r.end = T + n
      BY <2>3, <2>6
    <3> QED BY <2>4, <2>6, <3>1, Zenon
  <2> QED BY <2>5, <2>6
<1>8. /\ T \in Nat /\ T \in 3 .. TagWords + 1 /\ 3 \in Nat /\ Tiles(B, m, 3, T)
      /\ \A h \in B : m[h].allocated => \E b \in L : b.ptr = h + 1
      /\ \A h \in B : h \in Nat
  <2>1. /\ T \in 3 .. TagWords + 1 /\ Tiles(B, m, 3, T)
        /\ \A h \in B : m[h].allocated => \E b \in L : b.ptr = h + 1
    BY <1>6 DEF TagHeap, TagHeld
  <2>2. T \in Nat /\ 3 \in Nat /\ \A h \in B : h \in Nat
    BY <1>6, TagLive
  <2> QED BY <2>1, <2>2
<1>9. ASSUME NEW x \in Nat, NEW f, NEW M, NEW C, TagTakes(C, m, L, f, x, asked, M), x \in C,
             tag_mem' = M, tag_live' = L \cup {[ptr |-> x + 1, filled |-> asked]}, tag_end' = f
      PROVE  /\ TagState' /\ f # 0 /\ TagTop' = f /\ x + M[x].size <= f /\ M[x].size \in Nat /\ 3 <= x
             /\ Blocks(tag_mem, tag_live)' = Blocks(tag_mem, tag_live) \cup {[at |-> x, size |-> M[x].size]}
             /\ \A c \in Blocks(tag_mem, L) : x + M[x].size <= c.at \/ c.at + c.size <= x
  <2>1. PICK b0, K : b0 = [ptr |-> x + 1, filled |-> asked] /\ K = L \cup {b0}
    OBVIOUS
  <2>2. TagHeap(C, M, K, f) /\ \A b \in L : M[b.ptr - 1] = m[b.ptr - 1] /\ b.ptr - 1 # x
    BY <1>9, <2>1, Zenon DEF TagTakes
  <2>3. /\ Tiles(C, M, 3, f) /\ f \in Nat /\ 3 <= f /\ M \in [Tags!Addr -> Tags!Word]
        /\ \A b \in K : b.ptr - 1 \in C
    BY <2>2, SizesAssumption DEF TagHeap, TagHeld
  <2>4. TagState'
    <3>1. \E D : TagHeap(D, tag_mem', tag_live', tag_end')
      BY <1>9, <2>1, <2>2
    <3>2. 3 <= TagWords
      <4>1. 3 <= x /\ x + M[x].size <= f /\ 2 <= M[x].size /\ M[x].size \in Nat
        BY <1>9, <2>2, TagLive
      <4>2. f \in 3 .. TagWords + 1
        BY <2>2 DEF TagHeap
      <4> QED BY <1>9, <4>1, <4>2, SizesAssumption
    <3> QED BY <1>7, <1>9, <2>3, <3>1, <3>2 DEF TagState, TagHeap, TagHeld, TagEnds, TagMerged, Tags!Addr, Tags!Word,
               Tags!Prologue, Tags!NULL, Tags!Data, Tags!Held
  <2>5. f # 0 /\ TagTop' = f
    BY <1>9, <2>3 DEF TagTop
  <2>6. x + M[x].size <= f /\ M[x].size \in Nat /\ 3 <= x
    <3>1. \A h \in C : h + M[h].size <= f /\ M[h].size \in Nat /\ 3 <= h
      BY <1>8, <2>3, BlocksIn
    <3> QED BY <1>9, <3>1
  <2>7. \A b \in L : M[b.ptr - 1] = tag_mem[b.ptr - 1]
    BY <1>6, <2>2
  <2>8. Blocks(tag_mem, tag_live)' = Blocks(tag_mem, tag_live) \cup {[at |-> x, size |-> M[x].size]}
    <3>1. Blocks(M, L \cup {b0}) = Blocks(tag_mem, L) \cup {[at |-> x, size |-> M[x].size]}
      BY <1>9, <2>1, <2>7, BlocksAdd
    <3>2. Blocks(tag_mem, tag_live)' = Blocks(M, L \cup {b0})
      BY <1>9, <2>1 DEF Blocks
    <3> QED BY <1>1, <3>1, <3>2, Zenon
  <2>9. \A c \in Blocks(tag_mem, L) : x + M[x].size <= c.at \/ c.at + c.size <= x
    <3>1. \A b \in L : b.ptr - 1 \in C /\ b.ptr - 1 # x /\ M[b.ptr - 1] = tag_mem[b.ptr - 1]
      BY <2>1, <2>2, <2>3, <2>7
    <3> QED BY <1>8, <1>9, <2>3, <3>1, BlocksApart
  <2> QED BY <2>4, <2>5, <2>6, <2>8, <2>9
<1>10. CASE fit.at # 0
  <2>1. PICK x, S, M : /\ x = fit.at /\ S = Tags!Split(m, x, n)
                       /\ M = Tags!Fill(Tags!ALLOCATE_BLOCK(S, x, S[x].size), x + 1, asked)
    OBVIOUS
  <2>2. x \in B /\ ~m[x].allocated /\ n <= m[x].size /\ tag_end # 0 /\ x \in Nat
    <3>1. x \in B /\ ~m[x].allocated /\ m[x].size >= n /\ tag_end # 0
      BY <1>6, <1>10, <2>1 DEF TagFits
    <3> QED BY <1>8, <3>1
  <2>3. TagTaken(m, L, T, x, n, asked, M)
    BY <1>3, <1>6, <2>1, <2>2, TagTake
  <2>4. PICK C : TagTakes(C, m, L, T, x, asked, M) /\ x \in C /\ M[x].size >= n
    BY <2>3, Zenon DEF TagTaken
  <2>5. tag_end = T
    BY <1>1, <2>2 DEF TagTop
  <2>6. /\ tag_mem' = M /\ tag_live' = L \cup {[ptr |-> x + 1, filled |-> asked]} /\ tag_end' = T
    BY <1>7, <1>10, <2>1, <2>5, Zenon
  <2>7. /\ TagState' /\ TagTop' = T /\ x + M[x].size <= T /\ M[x].size \in Nat /\ 3 <= x
        /\ Blocks(tag_mem, tag_live)' = Blocks(tag_mem, tag_live) \cup {[at |-> x, size |-> M[x].size]}
        /\ \A c \in Blocks(tag_mem, L) : x + M[x].size <= c.at \/ c.at + c.size <= x
    BY <1>9, <2>2, <2>4, <2>6, Zenon
  <2>8. PICK z : z = M[x].size
    OBVIOUS
  <2>9. x \in 3 .. TagTop - n /\ z \in n .. TagTop - x /\ x >= 3 /\ x + z <= TagTop
    BY <1>1, <1>3, <1>8, <2>2, <2>4, <2>7, <2>8
  <2>10. \E k \in TagSizes :
              /\ \E at \in 3 .. TagTop - k : \E w \in k .. TagTop - at :
                      /\ at >= 3 /\ at + w <= TagTop
                      /\ \A c \in Blocks(tag_mem, tag_live) : at + w <= c.at \/ c.at + c.size <= at
                      /\ Blocks(tag_mem, tag_live)' = Blocks(tag_mem, tag_live) \cup {[at |-> at, size |-> w]}
              /\ TagTop' = TagTop
    BY <1>1, <1>3, <2>7, <2>8, <2>9, Zenon
  <2> QED BY <2>7, <2>10, TagAbstract, Zenon
<1>11. CASE fit.at = 0
  <2>1. PICK M : M = Tags!Fill(Tags!ALLOCATE_BLOCK(m, T, n), T + 1, asked)
    OBVIOUS
  <2>2. /\ tag_mem' = M /\ tag_live' = L \cup {[ptr |-> T + 1, filled |-> asked]}
        /\ tag_end' = T + n
    BY <1>7, <1>11, <2>1, Zenon
  <2>3. T + n <= TagWords + 1
    BY <1>1, <1>4, <1>11 DEF TagReadies
  <2>4. TagTaken(m, L, T + n, T, n, asked, M) /\ M[T].size = n
    BY <1>3, <1>6, <2>1, <2>3, TagExtend
  <2>5. PICK C : TagTakes(C, m, L, T + n, T, asked, M) /\ T \in C
    BY <2>4, Zenon DEF TagTaken
  <2>6. /\ TagState' /\ TagTop' = T + n
        /\ Blocks(tag_mem, tag_live)' = Blocks(tag_mem, tag_live) \cup {[at |-> T, size |-> M[T].size]}
    BY <1>8, <1>9, <2>2, <2>5, Zenon
  <2>7. \A h \in B : ~m[h].allocated =>
              m[h].size < n /\ (h + m[h].size = T \/ m[h + m[h].size].allocated)
    <3>1. \A h \in B : ~m[h].allocated => m[h].size < n
      BY <1>6, <1>11 DEF TagFits
    <3>2. \A h \in B : m[h].allocated \/ h + m[h].size = T \/ m[h + m[h].size].allocated
      BY <1>6 DEF TagHeap, TagMerged
    <3> QED BY <3>1, <3>2
  <2>8. ASSUME NEW a \in 3 .. T - n
        PROVE  \E c \in Blocks(tag_mem, L) : ~(a + n <= c.at) /\ ~(c.at + c.size <= a)
    BY <1>3, <1>6, <1>8, <2>7, BlocksNoRoom
  <2>9. ~\E at \in 3 .. TagTop - n :
               /\ at >= 3 /\ at + n <= TagTop
               /\ \A c \in Blocks(tag_mem, tag_live) : at + n <= c.at \/ c.at + c.size <= at
    BY <1>1, <2>8, Zenon
  <2>10. \E k \in TagSizes :
              /\ ~\E at \in 3 .. TagTop - k :
                       /\ at >= 3 /\ at + k <= TagTop
                       /\ \A c \in Blocks(tag_mem, tag_live) : at + k <= c.at \/ c.at + c.size <= at
              /\ Blocks(tag_mem, tag_live)' = Blocks(tag_mem, tag_live) \cup {[at |-> TagTop, size |-> k]}
              /\ TagTop' = TagTop + k
    BY <1>1, <1>3, <2>4, <2>6, <2>9, Zenon
  <2> QED BY <2>6, <2>10, TagAbstract, Zenon
<1> QED BY <1>10, <1>11

\* mfree(), also where mrealloc() calls it, gives a block back.
LEMMA TagRelease ==
    ASSUME TagState, NEW b \in tag_live, tag_mem' = Tags!Freed(tag_mem, b.ptr - 1),
           tag_live' = tag_live \ {b}, tag_start' = tag_start, tag_end' = tag_end
    PROVE  TagState' /\ Tags!Promise!ANext /\ TagTop' = TagTop /\ tag_start = 3
<1>1. PICK L, e, M : L = tag_live /\ e = tag_end /\ M = Tags!Freed(tag_mem, b.ptr - 1)
  OBVIOUS
<1>2. tag_start = 3 /\ 3 <= TagWords
  BY DEF TagState
<1>3. PICK B : TagHeap(B, tag_mem, L, e)
  BY <1>1 DEF TagState
<1>4. TagGivesBack(tag_mem, L, e, b, M)
  BY <1>1, <1>2, <1>3, TagFreed
<1>5. PICK C : TagHeap(C, M, L \ {b}, e) /\ \A c \in L \ {b} : M[c.ptr - 1] = tag_mem[c.ptr - 1]
  BY <1>4 DEF TagGivesBack
<1>6. tag_mem' = M /\ tag_live' = L \ {b} /\ tag_start' = 3 /\ tag_end' = e
  BY <1>1, <1>2
<1>7. TagState'
  <2>1. M \in [Tags!Addr -> Tags!Word]
    BY <1>5 DEF TagHeap
  <2>2. \E D : TagHeap(D, tag_mem', tag_live', tag_end')
    BY <1>5, <1>6
  <2> QED BY <1>2, <1>6, <2>1, <2>2 DEF TagState, TagHeap, TagHeld, TagEnds, TagMerged, Tags!Addr, Tags!Word,
             Tags!Prologue, Tags!NULL, Tags!Data, Tags!Held
<1>8. TagTop' = TagTop
  BY <1>1, <1>6 DEF TagTop
<1>9. PICK d : d = [at |-> b.ptr - 1, size |-> tag_mem[b.ptr - 1].size]
  OBVIOUS
<1>10. d \in Blocks(tag_mem, L) /\ Blocks(M, L \ {b}) = Blocks(tag_mem, L) \ {d}
  <2>1. \A c \in L \ {b} : M[c.ptr - 1] = tag_mem[c.ptr - 1]
    BY <1>5
  <2>2. \A c \in L : c.ptr \in Nat
    BY <1>3, TagLive
  <2>3. b \in L /\ \A c, g \in L : c.ptr = g.ptr => c = g
    BY <1>1, <1>3 DEF TagHeap, TagHeld
  <2>4. BlocksLess(tag_mem, L, b, M)
    BY <2>1, <2>2, <2>3, BlocksRemove
  <2> QED BY <1>9, <2>4, Zenon DEF BlocksLess
<1>11. Blocks(tag_mem, tag_live)' = Blocks(M, L \ {b})
  BY <1>6 DEF Blocks
<1>12. \E c \in Blocks(tag_mem, tag_live) :
           Blocks(tag_mem, tag_live)' = Blocks(tag_mem, tag_live) \ {c} /\ TagTop' = TagTop
  BY <1>1, <1>8, <1>10, <1>11, Zenon
<1> QED BY <1>2, <1>7, <1>8, <1>12, TagAbstract, Zenon

\* The caller fills a block it holds anew, as far as it reaches.
Refilled(B, m, L, e, b, b1, M) ==
    TagHeap(B, M, (L \ {b}) \cup {b1}, e) /\ \A h \in B : M[h] = m[h]

LEMMA TagRefill ==
    ASSUME NEW B, NEW m, NEW L, NEW e, TagHeap(B, m, L, e), NEW b \in L,
           NEW size \in Nat, size + 2 <= m[b.ptr - 1].size,
           NEW b1 \in Tags!Held, b1.ptr = b.ptr, b1.filled = size
    PROVE  Refilled(B, m, L, e, b, b1, Tags!Fill(m, b.ptr, size))
<1> SUFFICES ASSUME NEW M, M = Tags!Fill(m, b.ptr, size)
             PROVE  Refilled(B, m, L, e, b, b1, M)
  OBVIOUS
<1>1. PICK x, K, A, d : x = b.ptr - 1 /\ K = (L \ {b}) \cup {b1} /\ A = Tags!Addr /\ d = Tags!Data(b.ptr)
  OBVIOUS
<1>2. /\ m \in [A -> Tags!Word] /\ e \in 3 .. TagWords + 1 /\ L \subseteq Tags!Held /\ m[2].size = 2
      /\ Tiles(B, m, 3, e) /\ TagHeld(B, m, L) /\ TagEnds(B, m) /\ TagMerged(B, m, e)
  BY <1>1 DEF TagHeap
<1>3. /\ \A h \in B : /\ h \in Nat /\ 3 <= h /\ h < e /\ m[h].size \in Nat \ {0} /\ 2 <= m[h].size
                      /\ h + m[h].size \in B \cup {e} /\ h + m[h].size <= e
                      /\ h \in A /\ h + m[h].size - 1 \in A
      /\ \A c \in L : c.ptr \in Nat /\ c.filled \in Nat /\ c.ptr - 1 \in B
  BY <1>1, TagLive
<1>4. x \in B /\ x \in Nat /\ b.ptr = x + 1 /\ 3 <= x /\ m[x].size \in Nat /\ size + 2 <= m[x].size
      /\ x + m[x].size <= e
  BY <1>1, <1>3
<1>5. M = [a \in A |-> IF a \in x + 1 .. x + size THEN d ELSE m[a]]
  <2>1. M = [a \in A |-> IF a \in b.ptr .. b.ptr + size - 1 THEN d ELSE m[a]]
    BY <1>1, Zenon DEF Tags!Fill
  <2>2. b.ptr .. b.ptr + size - 1 = x + 1 .. x + size
    BY <1>4
  <2> QED BY <2>1, <2>2, Zenon
<1>6. \A a \in A : a \notin x + 1 .. x + size => M[a] = m[a]
  BY <1>5
<1>7. \A a \in x + 1 .. x + size : a \in A /\ M[a] = d
  <2>1. \A a \in x + 1 .. x + size : a \in A
    BY <1>1, <1>2, <1>4, SizesAssumption DEF Tags!Addr, Tags!Prologue
  <2> QED BY <1>5, <2>1
<1>8. M \in [A -> Tags!Word]
  <2>1. d \in Tags!Word
    <3>1. b \in Tags!Held
      BY <1>2
    <3>2. b.ptr \in Tags!Addr
      BY <3>1 DEF Tags!Held
    <3> QED BY <1>1, <3>2, SizesAssumption DEF Tags!Data, Tags!Word
  <2> QED BY <1>2, <1>5, <2>1
<1>9. \A h \in B : h # x => h + m[h].size <= x \/ x + m[x].size <= h
  <2>1. \A g, h \in B : g < h => g + m[g].size <= h
    BY <1>2 DEF Tiles
  <2> QED BY <1>3, <1>4, <2>1
<1>10. ASSUME NEW h \in B PROVE M[h] = m[h] /\ M[h + m[h].size - 1] = m[h + m[h].size - 1]
  <2>1. h \notin x + 1 .. x + size /\ h + m[h].size - 1 \notin x + 1 .. x + size
    <3>1. CASE h = x
      BY <1>4, <3>1
    <3>2. CASE h # x
      <4>1. h + m[h].size <= x \/ x + m[x].size <= h
        BY <1>9, <3>2
      <4>2. h \in Nat /\ m[h].size \in Nat /\ 2 <= m[h].size
        BY <1>3
      <4> QED BY <1>4, <4>1, <4>2
    <3> QED BY <3>1, <3>2
  <2> QED BY <1>3, <1>6, <2>1
<1>11. Tiles(B, M, 3, e)
  BY <1>2, <1>10 DEF Tiles
<1>12. TagEnds(B, M)
  BY <1>2, <1>10 DEF TagEnds
<1>13. TagMerged(B, M, e)
  <2> SUFFICES ASSUME NEW h \in B
               PROVE  M[h].allocated \/ h + M[h].size = e \/ M[h + M[h].size].allocated
    BY DEF TagMerged
  <2>1. m[h].allocated \/ h + m[h].size = e \/ m[h + m[h].size].allocated
    BY <1>2 DEF TagMerged
  <2>2. M[h] = m[h] /\ h + m[h].size \in B \cup {e}
    BY <1>3, <1>10
  <2>3. h + m[h].size \in B => M[h + m[h].size] = m[h + m[h].size]
    BY <1>10
  <2> QED BY <2>1, <2>2, <2>3
<1>14. M[2].size = 2
  <2>1. 2 \in A /\ 2 \notin x + 1 .. x + size
    BY <1>1, <1>2, <1>4, SizesAssumption DEF Tags!Addr, Tags!Prologue
  <2> QED BY <1>2, <1>6, <2>1
<1>15. TagHeld(B, M, K)
  <2>1. ASSUME NEW c \in K
        PROVE  c.ptr - 1 \in B /\ M[c.ptr - 1].allocated /\ c.filled + 2 <= M[c.ptr - 1].size
    <3>1. \A g \in L : g.ptr - 1 \in B /\ m[g.ptr - 1].allocated /\ g.filled + 2 <= m[g.ptr - 1].size
      BY <1>2 DEF TagHeld
    <3>2. CASE c = b1
      BY <1>1, <1>4, <1>10, <3>1, <3>2
    <3>3. CASE c \in L
      BY <1>10, <3>1, <3>3
    <3> QED BY <1>1, <3>2, <3>3
  <2>2. ASSUME NEW h \in B, M[h].allocated PROVE \E c \in K : c.ptr = h + 1
    <3>1. PICK c \in L : c.ptr = h + 1
      BY <1>2, <1>10, <2>2 DEF TagHeld
    <3>2. CASE c = b
      BY <1>1, <3>1, <3>2
    <3>3. CASE c # b
      BY <1>1, <3>1, <3>3
    <3> QED BY <3>2, <3>3
  <2>3. ASSUME NEW c \in K, NEW g \in K, c.ptr = g.ptr PROVE c = g
    <3>1. \A i, j \in L : i.ptr = j.ptr => i = j
      BY <1>2 DEF TagHeld
    <3>2. \A i \in L \ {b} : i.ptr # b1.ptr
      BY <3>1
    <3> QED BY <1>1, <2>3, <3>1, <3>2
  <2>4. ASSUME NEW c \in K, NEW a \in c.ptr .. c.ptr + c.filled - 1 PROVE M[a] = Tags!Data(c.ptr)
    <3>1. CASE c = b1
      <4>1. a \in x + 1 .. x + size
        BY <1>4, <3>1
      <4> QED BY <1>1, <1>7, <3>1, <4>1
    <3>2. CASE c \in L \ {b}
      <4>1. PICK h \in B : h = c.ptr - 1
        BY <1>3, <3>2
      <4>2. /\ h \in Nat /\ c.ptr = h + 1 /\ m[h].size \in Nat /\ c.filled \in Nat
            /\ h + m[h].size <= e /\ c.filled + 2 <= m[h].size
        BY <1>2, <1>3, <3>2, <4>1 DEF TagHeld
      <4>3. m[a] = Tags!Data(c.ptr)
        BY <1>2, <3>2 DEF TagHeld
      <4>4. h # x
        <5>1. \A i, j \in L : i.ptr = j.ptr => i = j
          BY <1>2 DEF TagHeld
        <5> QED BY <1>4, <3>2, <4>2, <5>1
      <4>5. h + m[h].size <= x \/ x + m[x].size <= h
        BY <1>9, <4>4
      <4>6. a \in Nat /\ h < a /\ a < h + m[h].size
        BY <4>2
      <4>7. a \notin x + 1 .. x + size
        BY <1>4, <4>2, <4>5, <4>6
      <4>8. a \in A
        BY <1>1, <1>2, <4>2, <4>6, SizesAssumption DEF Tags!Addr, Tags!Prologue
      <4> QED BY <1>6, <4>3, <4>7, <4>8
    <3> QED BY <1>1, <3>1, <3>2
  <2> QED BY <2>1, <2>2, <2>3, <2>4 DEF TagHeld
<1>16. K \subseteq Tags!Held
  BY <1>1, <1>2
<1>17. TagHeap(B, M, K, e)
  BY <1>1, <1>2, <1>8, <1>11, <1>12, <1>13, <1>14, <1>15, <1>16 DEF TagHeap
<1> QED BY <1>1, <1>10, <1>17 DEF Refilled

\* mrealloc() returns the block it was given, and it has the words asked for.
LEMMA TagReturns ==
    ASSUME TagState, NEW b \in tag_live, NEW size \in Sizes, size + 2 <= tag_mem[b.ptr - 1].size,
           tag_live' = (tag_live \ {b}) \cup {[b EXCEPT !.filled = size]},
           tag_mem' = Tags!Fill(tag_mem, b.ptr, size), tag_start' = tag_start, tag_end' = tag_end
    PROVE  TagState' /\ Tags!Promise!avars' = Tags!Promise!avars /\ TagTop' = TagTop
<1>1. PICK L, e, K, m, b1, M : /\ L = tag_live /\ e = tag_end /\ K = (L \ {b}) \cup {b1} /\ m = tag_mem
                               /\ b1 = [b EXCEPT !.filled = size] /\ M = Tags!Fill(m, b.ptr, size)
  OBVIOUS
<1>2. tag_start = 3 /\ 3 <= TagWords
  BY DEF TagState
<1>3. PICK B : TagHeap(B, m, L, e)
  BY <1>1 DEF TagState
<1>4. TagHeld(B, m, L) /\ L \subseteq Tags!Held /\ b \in L
  BY <1>1, <1>3 DEF TagHeap
<1>5. b1.ptr = b.ptr /\ b1.filled = size /\ b1 \in Tags!Held /\ size \in Nat
  BY <1>1, <1>4, SizesAssumption DEF Tags!Held
<1>6. size + 2 <= m[b.ptr - 1].size
  BY <1>1
<1>7. TagHeap(B, M, K, e) /\ \A h \in B : M[h] = m[h]
  <2>0. M = Tags!Fill(m, b.ptr, size)
    BY <1>1, Zenon
  <2>1. b \in L
    BY <1>4
  <2>3. size \in Nat
    BY <1>5
  <2>4. b1 \in Tags!Held
    BY <1>5
  <2>5. b1.ptr = b.ptr /\ b1.filled = size
    BY <1>5
  <2>2. Refilled(B, m, L, e, b, b1, Tags!Fill(m, b.ptr, size))
    BY <1>3, <1>6, <2>1, <2>3, <2>4, <2>5, TagRefill
  <2>6. Refilled(B, m, L, e, b, b1, M)
    BY <2>0, <2>2, Zenon
  <2> QED BY <1>1, <2>6, Zenon DEF Refilled
<1>8. tag_mem' = M /\ tag_live' = K /\ tag_start' = 3 /\ tag_end' = e
  BY <1>1, <1>2
<1>9. TagState'
  <2>1. M \in [Tags!Addr -> Tags!Word]
    BY <1>7 DEF TagHeap
  <2>2. \E D : TagHeap(D, tag_mem', tag_live', tag_end')
    BY <1>7, <1>8
  <2> QED BY <1>2, <1>8, <2>1, <2>2 DEF TagState, TagHeap, TagHeld, TagEnds, TagMerged, Tags!Addr, Tags!Word,
             Tags!Prologue, Tags!NULL, Tags!Data, Tags!Held
<1>10. TagTop' = TagTop
  BY <1>1, <1>8 DEF TagTop
<1>11. Blocks(M, K) = Blocks(m, L)
  <2>0. \A c \in L : M[c.ptr - 1] = m[c.ptr - 1]
    BY <1>4, <1>7 DEF TagHeld
  <2> DEFINE Of(p) == [at |-> p - 1, size |-> m[p - 1].size]
  <2>1. Blocks(m, L) = {Of(c.ptr) : c \in L}
    BY Zenon DEF Blocks
  <2>2. \A c \in K : \E d \in L : c.ptr = d.ptr
    BY <1>1, <1>4, <1>5
  <2>3. \A d \in L : \E c \in K : c.ptr = d.ptr
    <3> SUFFICES ASSUME NEW d \in L PROVE \E c \in K : c.ptr = d.ptr
      OBVIOUS
    <3>1. CASE d = b
      BY <1>1, <1>5, <3>1
    <3>2. CASE d # b
      BY <1>1, <3>2
    <3> QED BY <3>1, <3>2
  <2>6. Blocks(M, K) = {Of(c.ptr) : c \in K}
    <3>1. \A c \in K : M[c.ptr - 1].size = m[c.ptr - 1].size
      BY <2>0, <2>2, Zenon
    <3>2. \A c \in K : [at |-> c.ptr - 1, size |-> M[c.ptr - 1].size] = Of(c.ptr)
      BY <3>1, Zenon
    <3> HIDE DEF Of
    <3> QED BY <3>2, Zenon DEF Blocks
  <2> HIDE DEF Of
  <2>4. ASSUME NEW y \in Blocks(M, K) PROVE y \in Blocks(m, L)
    <3>1. PICK c \in K : y = Of(c.ptr)
      BY <2>6
    <3>2. PICK d \in L : c.ptr = d.ptr
      BY <2>2
    <3> QED BY <2>1, <3>1, <3>2, Zenon
  <2>5. ASSUME NEW y \in Blocks(m, L) PROVE y \in Blocks(M, K)
    <3>1. PICK d \in L : y = Of(d.ptr)
      BY <2>1
    <3>2. PICK c \in K : c.ptr = d.ptr
      BY <2>3
    <3> QED BY <2>6, <3>1, <3>2, Zenon
  <2> QED BY <2>4, <2>5, Zenon
<1>12. Blocks(tag_mem, tag_live)' = Blocks(tag_mem, tag_live)
  BY <1>1, <1>8, <1>11 DEF Blocks
<1> QED BY <1>9, <1>10, <1>12 DEF Tags!Promise!avars, Blocks, TagTop, Tags!Prologue, Tags!NULL, Tags!Overhead

\* mrealloc() returns the block it was given, and it has too few words: the caller
\* writes over what follows it.
LEMMA TagOverruns ==
    ASSUME TagState, NEW b \in tag_live, NEW size \in Sizes,
           tag_live' = (tag_live \ {b}) \cup {[b EXCEPT !.filled = size]},
           tag_mem' = Tags!Fill(tag_mem, b.ptr, size), tag_start' = tag_start, tag_end' = tag_end,
           tag_moving' = {}
    PROVE  TagTyped'
<1>1. PICK b1, d, n : b1 = [b EXCEPT !.filled = size] /\ d = Tags!Data(b.ptr) /\ n = b.ptr + size - 1
  OBVIOUS
<1>2. tag_start = 3 /\ 3 <= TagWords /\ tag_live \subseteq Tags!Held /\ tag_end \in 3 .. TagWords + 1
      /\ tag_mem \in [Tags!Addr -> Tags!Word]
  BY DEF TagState, TagHeap
<1>3. b \in Tags!Held /\ b1 \in Tags!Held /\ b.ptr \in Tags!Addr
  BY <1>1, <1>2, SizesAssumption DEF Tags!Held
<1>4. d \in Tags!Word
  BY <1>1, <1>3, SizesAssumption DEF Tags!Data, Tags!Word
<1>5. tag_mem' = [a \in Tags!Addr |-> IF a \in b.ptr .. n THEN d ELSE tag_mem[a]]
  BY <1>1, Zenon DEF Tags!Fill
<1>6. tag_mem' \in [Tags!Addr -> Tags!Word]
  BY <1>2, <1>4, <1>5
<1>7. tag_start' \in {0} \cup Tags!Addr /\ tag_end' \in {0} \cup 1 .. TagWords + 1
  BY <1>2, SizesAssumption DEF Tags!Addr, Tags!Prologue
<1>8. tag_live' \subseteq Tags!Held
  BY <1>1, <1>2, <1>3
<1> QED BY <1>6, <1>7, <1>8 DEF TagTyped, Tags!Addr, Tags!Word, Tags!Held, Tags!Prologue, Tags!NULL

\* Every step keeps the invariant and the promise.
LEMMA TagNext ==
    ASSUME TagInv, ~tag_undefined, Tags!Next
    PROVE  /\ TagSafe'
           /\ Tags!Promise!ANext \/ Tags!Promise!avars' = Tags!Promise!avars \/ tag_undefined'
<1>1. TagState /\ tag_undefined \in BOOLEAN
  BY DEF TagInv
<1>2. ASSUME NEW size \in Sizes, Tags!mmalloc(size)
      PROVE  TagInv' /\ Tags!Promise!ANext
  <2>1. Tags!HasRoom(size) /\ Tags!GetBlock(size, size)
        /\ tag_moving' = {} /\ tag_undefined' = tag_undefined
    BY <1>2 DEF Tags!mmalloc
  <2>2. size \in Nat /\ size <= size /\ size + 2 \in TagSizes
    BY SizesAssumption DEF TagSizes
  <2>3. TagState' /\ Tags!Promise!ANext
    BY <1>1, <2>1, <2>2, TagGet
  <2>4. TagInv'
    BY <1>1, <2>1, <2>3 DEF TagInv
  <2> QED BY <2>3, <2>4
<1>3. ASSUME NEW b \in tag_live, Tags!mfree(b)
      PROVE  TagInv' /\ Tags!Promise!ANext
  <2>1. /\ tag_mem' = Tags!Freed(tag_mem, b.ptr - 1) /\ tag_live' = tag_live \ {b}
        /\ tag_start' = tag_start /\ tag_end' = tag_end
        /\ tag_moving' = {} /\ tag_undefined' = tag_undefined
    BY <1>3 DEF Tags!mfree
  <2>2. TagState' /\ Tags!Promise!ANext
    BY <1>1, <2>1, TagRelease
  <2>3. TagInv'
    BY <1>1, <2>1, <2>2 DEF TagInv
  <2> QED BY <2>2, <2>3
<1>4. ASSUME NEW b \in tag_live, NEW size \in Sizes, Tags!ReallocReturns(b, size)
      PROVE  TagSafe' /\ (Tags!Promise!avars' = Tags!Promise!avars \/ tag_undefined')
  <2>1. /\ tag_live' = (tag_live \ {b}) \cup {[b EXCEPT !.filled = size]}
        /\ tag_mem' = Tags!Fill(tag_mem, b.ptr, size) /\ tag_start' = tag_start /\ tag_end' = tag_end
        /\ tag_moving' = {} /\ tag_undefined' = (tag_mem[b.ptr - 1].size < size + 2)
    BY <1>4 DEF Tags!ReallocReturns, Tags!Overhead
  <2>2. CASE tag_mem[b.ptr - 1].size < size + 2
    <3>1. TagTyped'
      BY <1>1, <2>1, TagOverruns
    <3>2. tag_undefined' = TRUE
      BY <2>1, <2>2
    <3> QED BY <3>1, <3>2 DEF TagSafe
  <2>3. CASE ~(tag_mem[b.ptr - 1].size < size + 2)
    <3>1. size + 2 <= tag_mem[b.ptr - 1].size
      <4>1. PICK B : TagHeap(B, tag_mem, tag_live, tag_end)
        BY <1>1 DEF TagState
      <4>2. b.ptr - 1 \in B /\ \A h \in B : tag_mem[h].size \in Nat
        BY <4>1, TagLive
      <4>3. tag_mem[b.ptr - 1].size \in Nat /\ size \in Nat
        BY <4>2, SizesAssumption
      <4> QED BY <2>3, <4>3
    <3>2. TagState' /\ Tags!Promise!avars' = Tags!Promise!avars
      BY <1>1, <2>1, <3>1, TagReturns
    <3>3. tag_undefined' \in BOOLEAN
      BY <2>1
    <3>4. TagInv'
      BY <2>1, <3>2, <3>3 DEF TagInv
    <3> QED BY <3>2, <3>4 DEF TagSafe
  <2> QED BY <2>2, <2>3
<1>5. ASSUME NEW b \in tag_live, NEW size \in Sizes, Tags!ReallocFrees(b, size)
      PROVE  TagInv' /\ Tags!Promise!ANext
  <2>1. /\ tag_mem' = Tags!Freed(tag_mem, b.ptr - 1) /\ tag_live' = tag_live \ {b}
        /\ tag_start' = tag_start /\ tag_end' = tag_end /\ tag_undefined' = tag_undefined
        /\ Tags!MayGrow(size + 2)
    BY <1>5 DEF Tags!ReallocFrees, Tags!Overhead
  <2>2. PICK old \in Tags!OldSizes(b.ptr) : tag_moving' = {[ptr |-> b.ptr, old |-> old, size |-> size]}
    BY <1>5 DEF Tags!ReallocFrees
  <2>3. TagState' /\ Tags!Promise!ANext /\ TagTop' = TagTop /\ tag_start = 3
    BY <1>1, <2>1, TagRelease
  <2>4. TagTop + (size + 2) + 2 <= TagWords + 1
    <3>1. (IF tag_end = 0 THEN 1 + 2 ELSE tag_end) + (size + 2) + 2 <= TagWords + 1
      BY <2>1 DEF Tags!MayGrow, Tags!NULL, Tags!Prologue, Tags!Overhead
    <3>2. TagTop = (IF tag_end = 0 THEN 1 + 2 ELSE tag_end)
      BY DEF TagTop
    <3> QED BY <3>1, <3>2, Zenon
  <2>5. b.ptr \in Tags!Addr
    <3>1. b \in Tags!Held
      BY <1>1, <2>3 DEF TagState, TagHeap
    <3> QED BY <3>1 DEF Tags!Held
  <2>6. old \in Nat
    <3>1. tag_mem[b.ptr].size \in 0 .. TagWords
      BY <1>1, <2>5 DEF TagState, Tags!Word
    <3>2. old = tag_mem[b.ptr].size \/ old \in Junk
      BY <2>2, Zenon DEF Tags!OldSizes
    <3>3. \A k \in 0 .. TagWords : k \in Nat
      BY SizesAssumption
    <3> QED BY <3>1, <3>2, <3>3, SizesAssumption
  <2>7. PICK r : r = [ptr |-> b.ptr, old |-> old, size |-> size]
    OBVIOUS
  <2>8. r \in [ptr : Tags!Addr, old : Nat, size : Sizes] /\ r.size = size
    BY <2>5, <2>6, <2>7
  <2>9. TagInv'
    <3>1. tag_moving' = {r} /\ TagTop' + (r.size + 2) + 2 <= TagWords + 1 /\ tag_start' = 3
      BY <2>1, <2>2, <2>3, <2>4, <2>7, <2>8
    <3> QED BY <1>1, <2>1, <2>3, <2>8, <3>1 DEF TagInv, Tags!Addr, Tags!Prologue
  <2> QED BY <2>3, <2>9
<1>6. ASSUME Tags!ReallocAllocates
      PROVE  TagInv' /\ Tags!Promise!ANext
  <2>1. PICK r \in tag_moving : /\ Tags!GetBlock(r.size + 2, r.size) /\ tag_moving' = {}
                                /\ tag_undefined' = (Tags!Allocation(r.size + 2).at + 1 # r.ptr /\ r.old < 2)
    BY <1>6 DEF Tags!ReallocAllocates, Tags!Overhead
  <2>2. r \in [ptr : Tags!Addr, old : Nat, size : Sizes] /\ TagTop + (r.size + 2) + 2 <= TagWords + 1
    BY <2>1 DEF TagInv
  <2>3. r.size \in Sizes /\ r.size \in Nat
    BY <2>2, SizesAssumption
  <2>4. r.size + 2 \in Nat /\ r.size <= r.size + 2 /\ (r.size + 2) + 2 \in TagSizes
    <3>1. (r.size + 2) + 2 = r.size + 2 * 2
      BY <2>3
    <3>2. r.size + 2 * 2 \in TagSizes
      BY <2>3, Zenon DEF TagSizes
    <3> QED BY <2>3, <3>1, <3>2
  <2>5. Tags!HasRoom(r.size + 2)
    <3>1. TagTop = (IF tag_end = 0 THEN 1 + 2 ELSE tag_end)
      BY DEF TagTop
    <3>2. (IF tag_end = 0 THEN 1 + 2 ELSE tag_end) + (r.size + 2) + 2 <= TagWords + 1
      BY <2>2, <3>1, Zenon
    <3> QED BY <3>2, Zenon DEF Tags!HasRoom, Tags!MayGrow, Tags!NULL, Tags!Prologue, Tags!Overhead
  <2>6. TagState' /\ Tags!Promise!ANext
    BY <1>1, <2>1, <2>3, <2>4, <2>5, TagGet
  <2>7. tag_undefined' \in BOOLEAN
    BY <2>1
  <2>8. TagInv'
    BY <2>1, <2>6, <2>7 DEF TagInv
  <2> QED BY <2>6, <2>8
<1> QED BY <1>2, <1>3, <1>4, <1>5, <1>6 DEF Tags!Next, TagSafe

\* What the invariant says of the properties.
LEMMA TagInvFacts ==
    ASSUME TagInv
    PROVE  Tags!HeapWalkable /\ Tags!Coalesced /\ Tags!PayloadIntact
<1>1. TagState /\ TagWords \in Nat
  BY SizesAssumption DEF TagInv
<1>2. Tags!TypeOK
  <2>1. tag_moving \subseteq [ptr : Tags!Addr, old : Nat, size : Nat] /\ Cardinality(tag_moving) <= 1
    <3>1. CASE tag_moving = {}
      <4>1. Cardinality(tag_moving) = 0
        BY <3>1, FS_EmptySet
      <4> QED BY <3>1, <4>1
    <3>2. CASE tag_moving # {}
      <4>1. PICK r \in [ptr : Tags!Addr, old : Nat, size : Sizes] : tag_moving = {r}
        BY <3>2 DEF TagInv
      <4>2. Cardinality(tag_moving) = 1
        BY <4>1, FS_Singleton
      <4>3. r \in [ptr : Tags!Addr, old : Nat, size : Nat]
        <5>1. r.ptr \in Tags!Addr /\ r.old \in Nat /\ r.size \in Nat
          BY <4>1, SizesAssumption
        <5>2. r = [ptr |-> r.ptr, old |-> r.old, size |-> r.size]
          BY <4>1
        <5> QED BY <5>1, <5>2
      <4> QED BY <4>1, <4>2, <4>3
    <3> QED BY <3>1, <3>2
  <2>2. /\ tag_mem \in [Tags!Addr -> Tags!Word]
        /\ tag_start \in {0} \cup Tags!Addr /\ tag_end \in {0} \cup 1 .. TagWords + 1
        /\ tag_live \subseteq Tags!Held /\ tag_undefined \in BOOLEAN
    <3>1. tag_start = 3 => 3 \in Tags!Addr
      BY <1>1 DEF TagState, Tags!Addr, Tags!Prologue
    <3>2. tag_start = 3 => tag_end \in 3 .. TagWords + 1 /\ tag_live \subseteq Tags!Held
      BY <1>1 DEF TagState, TagHeap
    <3>3. tag_start = 0 \/ tag_start = 3
      BY <1>1 DEF TagState
    <3>4. tag_start = 0 => tag_end = 0 /\ tag_live = {}
      BY <1>1 DEF TagState
    <3>5. tag_end \in {0} \cup 1 .. TagWords + 1
      BY <1>1, <3>2, <3>3, <3>4
    <3> QED BY <1>1, <3>1, <3>2, <3>3, <3>4, <3>5 DEF TagInv, TagState
  <2>3. Tags!Cardinality(tag_moving) = Cardinality(tag_moving)
    BY Zenon DEF Cardinality, Tags!Cardinality
  <2> QED BY <2>1, <2>2, <2>3, Zenon DEF Tags!TypeOK, Tags!NULL
<1>3. PICK B : /\ Tiles(B, tag_mem, tag_start, tag_end) /\ TagHeld(B, tag_mem, tag_live)
               /\ TagEnds(B, tag_mem) /\ TagMerged(B, tag_mem, tag_end)
  <2>1. CASE tag_start = 0 /\ tag_end = 0 /\ tag_live = {}
    <3>1. Tiles({}, tag_mem, 0, 0) /\ TagHeld({}, tag_mem, {}) /\ TagEnds({}, tag_mem) /\ TagMerged({}, tag_mem, 0)
      BY DEF Tiles, TagHeld, TagEnds, TagMerged
    <3> QED BY <2>1, <3>1
  <2>2. CASE tag_start = 3 /\ \E B : TagHeap(B, tag_mem, tag_live, tag_end)
    BY <2>2 DEF TagHeap
  <2> QED BY <1>1, <2>1, <2>2 DEF TagState
<1>4. tag_start \in Nat /\ tag_end \in Nat /\ tag_start <= tag_end /\ tag_end <= tag_start + TagWords
  <2>1. CASE tag_start = 0 /\ tag_end = 0
    BY <1>1, <2>1
  <2>2. CASE tag_start = 3 /\ tag_end \in 3 .. TagWords + 1
    BY <1>1, <2>2
  <2> QED BY <1>1, <2>1, <2>2 DEF TagState, TagHeap
<1>5. Tags!walk_heap.at = tag_end /\ Tags!walk_heap.met = B
  BY <1>3, <1>4, TagWalk
<1>6. Tags!HeapWalkable
  <2>1. \A h \in B : tag_mem[h].size >= 2 /\ tag_mem[h].owner = 0 /\ tag_mem[h] = tag_mem[h + tag_mem[h].size - 1]
    BY <1>3 DEF TagEnds
  <2> QED BY <1>2, <1>5, <2>1, Zenon DEF Tags!HeapWalkable, Tags!IsTag, Tags!Overhead, Tags!FOOTER, Tags!NULL
<1>7. Tags!Coalesced
  <2>1. \A h \in B : tag_mem[h].allocated \/ h + tag_mem[h].size = tag_end
                     \/ tag_mem[h + tag_mem[h].size].allocated
    BY <1>3 DEF TagMerged
  <2> QED BY <1>5, <2>1, Zenon DEF Tags!Coalesced, Tags!NEXT_BLOCK
<1>8. Tags!PayloadIntact
  <2>1. \A b \in tag_live : /\ b.filled + 2 <= tag_mem[b.ptr - 1].size
                            /\ \A a \in b.ptr .. b.ptr + b.filled - 1 : tag_mem[a] = Tags!Data(b.ptr)
    BY <1>3 DEF TagHeld
  <2> QED BY <2>1, Zenon DEF Tags!PayloadIntact, Tags!Overhead
<1> QED BY <1>6, <1>7, <1>8

\* When the program is not defined any more the properties ask for the types only.
LEMMA TagSafeFacts ==
    ASSUME TagSafe
    PROVE  Tags!HeapWalkable /\ Tags!Coalesced /\ Tags!PayloadIntact
<1>1. CASE TagInv
  BY <1>1, TagInvFacts
<1>2. CASE tag_undefined = TRUE /\ TagTyped
  <2>1. Cardinality(tag_moving) = 0
    BY <1>2, FS_EmptySet DEF TagTyped
  <2>2. Tags!Cardinality(tag_moving) = Cardinality(tag_moving)
    BY Zenon DEF Cardinality, Tags!Cardinality
  <2>3. Tags!Cardinality(tag_moving) <= 1 /\ tag_moving \subseteq [ptr : Tags!Addr, old : Nat, size : Nat]
    BY <1>2, <2>1, <2>2 DEF TagTyped
  <2>4. tag_undefined \in BOOLEAN
    BY <1>2
  <2>5. Tags!TypeOK
    BY <1>2, <2>3, <2>4, Zenon DEF TagTyped, Tags!TypeOK, Tags!NULL
  <2> QED BY <1>2, <2>5, Zenon DEF Tags!HeapWalkable, Tags!Coalesced, Tags!PayloadIntact
<1> QED BY <1>1, <1>2 DEF TagSafe

-----------------------------------------------------------------------------
(* Both heaps.                                                             *)

HeapsInv == TagSafe /\ HdrInv

\* Before the first allocation there are no blocks.
LEMMA HeapsInit ==
    ASSUME Init
    PROVE  HeapsInv /\ Tags!Promise!AInit /\ Headers!Promise!AInit
<1>1. TagInv /\ tag_live = {} /\ tag_end = 0
  <2>1. Tags!Dead \in Tags!Word
    BY SizesAssumption DEF Tags!Dead, Tags!Data, Tags!Word, Tags!NULL
  <2> QED BY <2>1 DEF Init, Tags!Init, TagInv, TagState, Tags!NULL
<1>2. HdrInv /\ hdr_live = {} /\ hdr_end = 0
  <2>1. Headers!Dead \in Headers!Word
    BY SizesAssumption DEF Headers!Dead, Headers!Data, Headers!Word, Headers!NULL
  <2> QED BY <2>1 DEF Init, Headers!Init, HdrInv, Headers!NULL
<1>3. Tags!Promise!AInit
  <2>1. Blocks(tag_mem, tag_live) = {} /\ TagTop = 3
    BY <1>1 DEF Blocks, TagTop
  <2> QED BY <2>1, TagAbstract
<1>4. Headers!Promise!AInit
  <2>1. Blocks(hdr_mem, hdr_live) = {} /\ HdrTop = 1
    BY <1>2 DEF Blocks, HdrTop
  <2> QED BY <2>1, HdrAbstract
<1> QED BY <1>1, <1>2, <1>3, <1>4 DEF HeapsInv, TagSafe

\* The heap that the program is not linked with stays as it is.
LEMMA TagStays ==
    ASSUME TagSafe, UNCHANGED tagVars
    PROVE  TagSafe' /\ UNCHANGED Tags!Promise!avars
<1>1. tag_mem' = tag_mem /\ tag_start' = tag_start /\ tag_end' = tag_end /\ tag_live' = tag_live
      /\ tag_moving' = tag_moving /\ tag_undefined' = tag_undefined
  BY DEF tagVars
<1>2. TagSafe'
  <2>1. CASE TagInv
    <3>1. TagInv'
      BY <1>1, <2>1 DEF TagInv, TagState, TagTop, TagHeap, TagHeld, TagEnds, TagMerged, Tags!Addr, Tags!Word,
                        Tags!Prologue, Tags!NULL, Tags!Data, Tags!Held
    <3> QED BY <3>1 DEF TagSafe
  <2>2. CASE tag_undefined = TRUE /\ TagTyped
    <3>1. tag_undefined' = TRUE /\ TagTyped'
      BY <1>1, <2>2 DEF TagTyped, Tags!Addr, Tags!Word, Tags!Prologue, Tags!NULL, Tags!Held
    <3> QED BY <3>1 DEF TagSafe
  <2> QED BY <2>1, <2>2 DEF TagSafe
<1>3. UNCHANGED Tags!Promise!avars
  BY <1>1 DEF Tags!Promise!avars
<1> QED BY <1>2, <1>3

\* The heap that the program is not linked with stays as it is.
LEMMA HdrStays ==
    ASSUME HdrInv, UNCHANGED hdrVars
    PROVE  HdrInv' /\ UNCHANGED Headers!Promise!avars
<1>1. hdr_mem' = hdr_mem /\ hdr_start' = hdr_start /\ hdr_end' = hdr_end /\ hdr_live' = hdr_live
  BY DEF hdrVars
<1>2. HdrInv'
  BY <1>1 DEF HdrInv, HdrHeap, HdrHeld, Headers!Addr, Headers!Word, Headers!Base, Headers!NULL, Headers!Data
<1>3. UNCHANGED Headers!Promise!avars
  BY <1>1 DEF Headers!Promise!avars
<1> QED BY <1>2, <1>3

\* Every step of a program keeps both heaps, and is a step of what they promise.
LEMMA HeapsNext ==
    ASSUME HeapsInv, [Next]_vars
    PROVE  HeapsInv' /\ [Tags!Promise!ANext \/ tag_undefined']_(Tags!Promise!avars)
                     /\ [Headers!Promise!ANext]_(Headers!Promise!avars)
<1>1. TagSafe /\ HdrInv
  BY DEF HeapsInv
<1>2. CASE TagsStep
  <2>1. TagSafe' /\ (Tags!Promise!ANext \/ UNCHANGED Tags!Promise!avars \/ tag_undefined')
    <3>1. CASE ~tag_undefined
      BY <1>1, <1>2, <3>1, TagNext DEF TagsStep, TagSafe
    <3>2. CASE tag_undefined
      <4>1. UNCHANGED tagVars
        BY <1>2, <3>2 DEF TagsStep, Tags!Next, Tags!vars, tagVars
      <4> QED BY <1>1, <4>1, TagStays
    <3> QED BY <3>1, <3>2
  <2>2. HdrInv' /\ UNCHANGED Headers!Promise!avars
    BY <1>1, <1>2, HdrStays DEF TagsStep
  <2> QED BY <2>1, <2>2 DEF HeapsInv
<1>3. CASE HeadersStep
  <2>1. HdrInv' /\ Headers!Promise!ANext
    BY <1>1, <1>3, HdrMalloc, HdrFree DEF HeadersStep, Headers!Next
  <2>2. TagSafe' /\ UNCHANGED Tags!Promise!avars
    BY <1>1, <1>3, TagStays DEF HeadersStep
  <2> QED BY <2>1, <2>2 DEF HeapsInv
<1>4. CASE UNCHANGED vars
  <2>1. UNCHANGED tagVars /\ UNCHANGED hdrVars
    BY <1>4 DEF vars
  <2> QED BY <1>1, <2>1, TagStays, HdrStays DEF HeapsInv
<1> QED BY <1>2, <1>3, <1>4 DEF Next

-----------------------------------------------------------------------------
(* The list, the factories and the singleton.                              *)

Count(n) == [k \in 1..n |-> k]

ListType ==
    /\ posts \in 0..MaxPosts
    /\ DOMAIN lists \subseteq Addresses
    /\ lists \in [DOMAIN lists -> Seq(Nat)]
    /\ g_foos \in DOMAIN lists
    /\ foos_view \in [Readers -> {0} \cup DOMAIN lists]
    /\ seen \in [Readers -> Seq(Nat)]

\* A list is made by a post or is the first.
Allocated == IsFiniteSet(DOMAIN lists) /\ Cardinality(DOMAIN lists) <= posts + 1

ListInv == ListType /\ Allocated /\ SnapshotsStable

-----------------------------------------------------------------------------
\* The empty list has no views.
LEMMA ListInitInv == ListInit => ListInv
<1> SUFFICES ASSUME ListInit PROVE ListInv
  OBVIOUS
<1> USE SharingAssumption DEF ListInit
<1>1. DOMAIN lists = {1} /\ lists[1] = <<>> /\ lists \in [{1} -> Seq(Nat)]
  OBVIOUS
<1>6. seen \in [Readers -> Seq(Nat)] /\ foos_view \in [Readers -> {0} \cup DOMAIN lists]
  <2>1. <<>> \in Seq(Nat)
    OBVIOUS
  <2> QED BY <2>1
<1>2. ListType
  <2>1. posts \in 0..MaxPosts /\ 1 \in Addresses
    BY DEF Addresses
  <2>2. g_foos \in DOMAIN lists /\ DOMAIN lists \subseteq Addresses
    BY <1>1, <2>1
  <2>3. lists \in [DOMAIN lists -> Seq(Nat)]
    BY <1>1
  <2> QED BY <1>6, <2>1, <2>2, <2>3 DEF ListType
<1>3. Allocated
  <2>1. IsFiniteSet({1}) /\ Cardinality({1}) = 1
    BY FS_Singleton
  <2>2. posts = 0
    OBVIOUS
  <2> QED BY <1>1, <2>1, <2>2 DEF Allocated
<1>4. <<>> = [k \in 1..0 |-> k]
  OBVIOUS
<1>5. SnapshotsStable
  BY <1>1, <1>4 DEF SnapshotsStable
<1> QED BY <1>2, <1>3, <1>5 DEF ListInv

\* There is an address for another list as long as there is another post.
LEMMA FreshAddress ==
    ASSUME ListType, Allocated, posts < MaxPosts
    PROVE  Fresh \in Addresses /\ Fresh \notin DOMAIN lists
<1> USE SharingAssumption
<1>1. IsFiniteSet(Addresses) /\ Cardinality(Addresses) = MaxPosts + 1
  BY FS_Interval DEF Addresses
<1>2. Cardinality(DOMAIN lists) \in Nat
  BY FS_CardinalityType DEF Allocated
<1>3. DOMAIN lists # Addresses
  BY <1>1, <1>2 DEF Allocated, ListType
<1>4. \E a \in Addresses : a \notin DOMAIN lists
  BY <1>3 DEF ListType
<1> QED BY <1>4 DEF Fresh

\* The elements posted, one more.
LEMMA CountAppend ==
    ASSUME NEW n \in Nat
    PROVE  Count(n) \in Seq(Nat) /\ Append(Count(n), n + 1) = Count(n + 1)
<1>1. Count(n) \in Seq(Nat) /\ Len(Count(n)) = n
  BY DEF Count
<1>2. Append(Count(n), n + 1) \in Seq(Nat) /\ Len(Append(Count(n), n + 1)) = n + 1
  BY <1>1
<1>3. \A k \in 1..n+1 : Append(Count(n), n + 1)[k] = k
  BY <1>1 DEF Count
<1>4. Count(n + 1) \in Seq(Nat) /\ Len(Count(n + 1)) = n + 1
  BY DEF Count
<1>5. \A k \in 1..n+1 : Count(n + 1)[k] = k
  BY DEF Count
<1> QED BY <1>1, <1>2, <1>3, <1>4, <1>5

\* post() changes no list that somebody has a view of.
LEMMA PostInv ==
    ASSUME ListInv, post, UNCHANGED <<foos_view, seen>>
    PROVE  ListInv'
<1> USE SharingAssumption
<1>0. ListType /\ Allocated /\ SnapshotsStable
  BY DEF ListInv
<1> DEFINE a == IF unique THEN g_foos ELSE Fresh
           l == Append(lists[g_foos], posts + 1)
<1>1. a \in Addresses /\ \A t \in Readers : foos_view[t] # a
  <2>1. CASE unique
    BY <1>0, <2>1 DEF ListType, unique
  <2>2. CASE ~unique
    <3>1. Fresh \in Addresses /\ Fresh \notin DOMAIN lists
      BY <1>0, FreshAddress DEF post
    <3>2. Fresh # 0
      BY <3>1 DEF Addresses
    <3> QED BY <1>0, <2>2, <3>1, <3>2 DEF ListType
  <2> QED BY <2>1, <2>2
<1>2. posts' = posts + 1 /\ posts' \in 0..MaxPosts
  BY <1>0 DEF post, ListType
<1>3. l \in Seq(Nat) /\ l = Count(posts')
  <2>1. lists[g_foos] = Count(posts) /\ posts \in Nat
    BY <1>0 DEF SnapshotsStable, Count, ListType
  <2>2. Append(Count(posts), posts + 1) = Count(posts + 1) /\ Count(posts + 1) \in Seq(Nat)
    <3>1. posts + 1 \in Nat
      BY <2>1
    <3> QED BY <2>1, <3>1, CountAppend
  <2> QED BY <1>2, <2>1, <2>2
<1>4. /\ g_foos' = a
      /\ lists' = [b \in DOMAIN lists \cup {a} |-> IF b = a THEN l ELSE lists[b]]
  BY <1>2 DEF post
<1> HIDE DEF a, l
<1>5. DOMAIN lists' = DOMAIN lists \cup {a}
  BY <1>4
<1>6. lists'[a] = l /\ \A b \in DOMAIN lists : b # a => lists'[b] = lists[b]
  BY <1>4
<1>7. lists' \in [DOMAIN lists' -> Seq(Nat)]
  BY <1>0, <1>3, <1>4, <1>5 DEF ListType
<1>8. ListType'
  <2>1. DOMAIN lists' \subseteq Addresses /\ g_foos' \in DOMAIN lists'
    BY <1>0, <1>1, <1>4, <1>5 DEF ListType, Addresses
  <2>2. foos_view' \in [Readers -> {0} \cup DOMAIN lists'] /\ seen' \in [Readers -> Seq(Nat)]
    BY <1>0, <1>5 DEF ListType
  <2> QED BY <1>2, <1>7, <2>1, <2>2 DEF ListType, Addresses
<1>9. Allocated'
  <2>1. Cardinality(DOMAIN lists) \in Nat
    BY <1>0, FS_CardinalityType DEF Allocated
  <2>2. IsFiniteSet(DOMAIN lists') /\ Cardinality(DOMAIN lists') <= Cardinality(DOMAIN lists) + 1
    BY <1>0, <1>5, <2>1, FS_AddElement DEF Allocated
  <2>3. Cardinality(DOMAIN lists') \in Nat
    BY <2>2, FS_CardinalityType
  <2> QED BY <1>0, <1>2, <2>1, <2>2, <2>3 DEF Allocated, ListType
<1>10. SnapshotsStable'
  <2>1. ASSUME NEW t \in Readers, foos_view[t] # 0
        PROVE  foos_view[t] \in DOMAIN lists' /\ lists'[foos_view[t]] = seen[t]
    BY <1>0, <1>1, <1>5, <1>6, <2>1 DEF SnapshotsStable
  <2>2. lists'[g_foos'] = [k \in 1..posts' |-> k]
    BY <1>3, <1>4, <1>6 DEF Count
  <2> QED BY <2>1, <2>2 DEF SnapshotsStable
<1> QED BY <1>8, <1>9, <1>10 DEF ListInv

\* The end of a traversal frees only lists that nobody has a view of.
LEMMA ListNextInv ==
    ASSUME ListInv, ListNext PROVE ListInv'
<1>0. ListType /\ Allocated /\ SnapshotsStable
  BY DEF ListInv
<1>1. ASSUME NEW t \in Readers, traverse(t) PROVE ListInv'
  <2> USE <1>1 DEF traverse
  <2>1. ListType'
    BY <1>0 DEF ListType
  <2>2. Allocated'
    BY <1>0 DEF Allocated
  <2>3. SnapshotsStable'
    BY <1>0 DEF ListType, SnapshotsStable
  <2> QED BY <2>1, <2>2, <2>3 DEF ListInv
<1>2. ASSUME NEW t \in Readers, EndTraverse(t) PROVE ListInv'
  <2> USE <1>2 DEF EndTraverse
  <2> DEFINE used == {g_foos} \cup {foos_view'[u] : u \in Readers}
  <2>1. lists' = [a \in DOMAIN lists \cap used |-> lists[a]]
    OBVIOUS
  <2>2. g_foos \in used /\ \A u \in Readers : foos_view'[u] \in used
    OBVIOUS
  <2> HIDE DEF used
  <2>3. DOMAIN lists' = DOMAIN lists \cap used
    BY <2>1
  <2>4. \A a \in DOMAIN lists' : a \in DOMAIN lists /\ lists'[a] = lists[a]
    BY <2>1, <2>3
  <2>5. \A u \in Readers : /\ foos_view'[u] = IF u = t THEN 0 ELSE foos_view[u]
                           /\ seen'[u] = IF u = t THEN <<>> ELSE seen[u]
    BY <1>0 DEF ListType
  <2>6. ListType'
    <3>1. lists' \in [DOMAIN lists' -> Seq(Nat)]
      BY <1>0, <2>1, <2>3 DEF ListType
    <3>2. \A u \in Readers : foos_view'[u] \in {0} \cup DOMAIN lists'
      BY <1>0, <2>2, <2>3, <2>5 DEF ListType
    <3>3. foos_view' \in [Readers -> {0} \cup DOMAIN lists']
      BY <1>0, <3>2 DEF ListType
    <3>4. seen' \in [Readers -> Seq(Nat)]
      BY <1>0 DEF ListType
    <3> QED BY <1>0, <2>2, <2>3, <3>1, <3>3, <3>4 DEF ListType, Addresses
  <2>7. Allocated'
    <3>1. DOMAIN lists' \in SUBSET DOMAIN lists
      BY <2>3
    <3>2. IsFiniteSet(DOMAIN lists') /\ Cardinality(DOMAIN lists') <= Cardinality(DOMAIN lists)
      BY <1>0, <3>1, FS_Subset DEF Allocated
    <3>3. Cardinality(DOMAIN lists') \in Nat /\ Cardinality(DOMAIN lists) \in Nat
      BY <1>0, <3>2, FS_CardinalityType DEF Allocated
    <3> QED BY <1>0, <3>2, <3>3 DEF Allocated, ListType
  <2>8. SnapshotsStable'
    <3>1. g_foos \in DOMAIN lists'
      BY <1>0, <2>2, <2>3 DEF ListType
    <3>2. ASSUME NEW u \in Readers, foos_view'[u] # 0
          PROVE  foos_view'[u] \in DOMAIN lists' /\ lists'[foos_view'[u]] = seen'[u]
      BY <1>0, <2>2, <2>3, <2>4, <2>5, <3>2 DEF SnapshotsStable
    <3> QED BY <1>0, <2>4, <3>1, <3>2 DEF SnapshotsStable
  <2> QED BY <2>6, <2>7, <2>8 DEF ListInv
<1> QED BY <1>1, <1>2, PostInv DEF ListNext, Post, doit

-----------------------------------------------------------------------------
(* The lock-free singleton.                                                *)

SingletonType ==
    /\ cached_object \in Callers \cup {Nullptr}
    /\ gpc \in [Callers -> {"load", "new", "exchange", "returned"}]
    /\ obj \in [Callers -> Callers \cup {Nullptr}]
    /\ existing \subseteq Callers

Winner ==
    /\ cached_object # Nullptr => gpc[cached_object] = "returned" /\ cached_object \in existing
    /\ \A c \in Callers : gpc[c] = "returned" => cached_object # Nullptr

\* An object of one's own waits for the exchange.
Own == \A c \in Callers : gpc[c] = "exchange" => obj[c] = c /\ c \in existing

SingletonInv == SingletonType /\ Winner /\ Own /\ OneObject

\* Nobody has asked for the object.
LEMMA SingletonInitInv == SingletonInit => SingletonInv
BY DEF SingletonInit, SingletonInv, SingletonType, Winner, Own, OneObject

\* A failed exchange deletes the object of the thread that lost, never the other.
LEMMA SingletonNextInv ==
    ASSUME SingletonInv, SingletonNext PROVE SingletonInv'
<1> USE SharingAssumption
<1>0. SingletonType /\ Winner /\ Own /\ OneObject
  BY DEF SingletonInv
<1>1. PICK c \in Callers : Load(c) \/ New(c) \/ Exchange(c) \/ ExchangeFails(c)
  BY DEF SingletonNext
<1>2. CASE Load(c)
  <2>1. SingletonType' /\ Winner' /\ Own'
    BY <1>0, <1>2 DEF Load, SingletonType, Winner, Own
  <2>2. OneObject'
    BY <1>0, <1>2 DEF Load, SingletonType, Winner, OneObject
  <2> QED BY <2>1, <2>2 DEF SingletonInv
<1>3. CASE New(c)
  <2>1. SingletonType' /\ Winner' /\ Own'
    BY <1>0, <1>3 DEF New, SingletonType, Winner, Own
  <2>2. OneObject'
    BY <1>0, <1>3 DEF New, SingletonType, Winner, OneObject
  <2> QED BY <2>1, <2>2 DEF SingletonInv
<1>4. CASE Exchange(c)
  <2>0. \A d \in Callers : gpc[d] # "returned"
    BY <1>0, <1>4 DEF Exchange, Winner
  <2>1. CASE UNCHANGED <<cached_object, gpc>>
    BY <1>0, <1>4, <2>1 DEF Exchange, SingletonInv, SingletonType, Winner, Own, OneObject
  <2>2. CASE cached_object' = c /\ gpc' = [gpc EXCEPT ![c] = "returned"]
    <3>1. c \in existing /\ obj[c] = c
      BY <1>0, <1>4 DEF Exchange, Own
    <3>2. SingletonType' /\ Winner' /\ Own'
      BY <1>0, <1>4, <2>2, <3>1 DEF Exchange, SingletonType, Winner, Own
    <3>3. OneObject'
      BY <1>0, <1>4, <2>0, <2>2, <3>1 DEF Exchange, SingletonType, OneObject
    <3> QED BY <3>2, <3>3 DEF SingletonInv
  <2> QED BY <1>4, <2>1, <2>2 DEF Exchange
<1>5. CASE ExchangeFails(c)
  <2>1. SingletonType' /\ Winner' /\ Own'
    BY <1>0, <1>5 DEF ExchangeFails, SingletonType, Winner, Own
  <2>2. OneObject'
    BY <1>0, <1>5 DEF ExchangeFails, SingletonType, Winner, OneObject
  <2> QED BY <2>1, <2>2 DEF SingletonInv
<1> QED BY <1>1, <1>2, <1>3, <1>4, <1>5

-----------------------------------------------------------------------------
(* The stock factories.                                                    *)

StockType ==
    /\ factory_kind \in {"cached", "plain"} /\ owned \in BOOLEAN
    /\ key \in Seq(Keys)
    /\ deleted \in Seq({0, 1}) /\ Len(deleted) = Len(key)
    /\ stocks \in [DOMAIN stocks -> Nat]
    /\ held \in [Users -> 0..Len(key)] /\ dying \in [Users -> 0..Len(key)]
    /\ dpc \in [Users -> {"no", "lock", "erase", "delete"}]
    /\ sfp \in [Users -> BOOLEAN]

Deleters ==
    /\ \A u \in Users : dpc[u] = "no" <=> dying[u] = 0
    /\ \A u \in Users : held[u] # 0 => dpc[u] = "no" /\ deleted[held[u]] = 0
    /\ \A u \in Users : dying[u] # 0 => deleted[dying[u]] = 0 /\ ~Held(dying[u])
    /\ \A u, v \in Users : dying[u] = dying[v] /\ dying[u] # 0 => u = v

\* The two parts of StocksOwned: who is to delete a Stock, and an entry.
DeletedOnce ==
    \A s \in Made :
       /\ deleted[s] <= 1
       /\ deleted[s] = 1 => ~Held(s) /\ \A u \in Users : dying[u] # s
       /\ deleted[s] = 0 => \/ Held(s) \/ \E u \in Users : dying[u] = s
                            \/ LeftOver

EntriesOwned ==
    FactoryAlive => \A k \in DOMAIN stocks :
       \E s \in Made : key[s] = k /\ (Held(s) \/ Erasing(s))

StockInv == StockType /\ Deleters /\ DeletedOnce /\ EntriesOwned

\* The Stocks made are the numbers up to the length of key.
LEMMA MadeCount ==
    ASSUME StockType
    PROVE  Made = 1..Len(key) /\ Cardinality(Made) = Len(key) /\ Len(key) \in Nat
<1>1. Made = 1..Len(key) /\ Len(key) \in Nat
  BY DEF StockType, Made
<1>2. ASSUME NEW m \in Nat PROVE Cardinality(1..m) = m
  <2>1. 1 \in Int /\ m \in Int
    OBVIOUS
  <2>2. Cardinality(1..m) = IF 1 > m THEN 0 ELSE m - 1 + 1
    BY <2>1, FS_Interval
  <2> QED BY <2>2
<1> QED BY <1>1, <1>2

\* A new factory has no Stock.
LEMMA StockInitInv == StockInit => StockInv
<1> SUFFICES ASSUME StockInit PROVE StockInv
  OBVIOUS
<1> USE DEF StockInit
<1>1. key \in Seq(Keys) /\ deleted \in Seq({0, 1}) /\ Len(key) = 0 /\ Len(deleted) = 0
  OBVIOUS
<1>2. DOMAIN stocks = {} /\ stocks \in [DOMAIN stocks -> Nat]
  OBVIOUS
<1>3. StockType
  BY <1>1, <1>2 DEF StockType
<1>4. Made = {}
  BY <1>1 DEF Made
<1> QED BY <1>2, <1>3, <1>4 DEF StockInv, Deleters, DeletedOnce, EntriesOwned

\* get() of a Stock that somebody holds.
LEMMA GetExistingInv ==
    ASSUME StockInv, NEW u \in Users, NEW k \in Keys, GetExisting(u, k) PROVE StockInv'
<1>0. StockType /\ Deleters /\ DeletedOnce /\ EntriesOwned
  BY DEF StockInv
<1> USE DEF GetExisting
<1>1. PICK v \in Users : held[v] = stocks[k] /\ held[v] # 0
  BY DEF Expired, Held
<1>2. \A w \in Users : held'[w] = IF w = u THEN held[v] ELSE held[w]
  BY <1>0, <1>1 DEF StockType
<1>3. \A s : s # 0 => (Held(s)' <=> Held(s))
  BY <1>1, <1>2 DEF Held
<1>4. StockType'
  BY <1>0, <1>1 DEF StockType
<1>5. Deleters'
  BY <1>0, <1>1, <1>2, <1>3 DEF Deleters
<1>6. Made' = Made /\ \A s \in Made : s # 0
  BY <1>0, MadeCount DEF Made
<1>7. DeletedOnce'
  <2>1. LeftOver' <=> LeftOver
    BY DEF LeftOver, FactoryAlive
  <2> QED BY <2>1, <1>0, <1>3, <1>6 DEF DeletedOnce
<1>8. EntriesOwned'
  BY <1>0, <1>3, <1>6 DEF EntriesOwned, FactoryAlive, Erasing
<1> QED BY <1>4, <1>5, <1>7, <1>8 DEF StockInv

\* get() of a new Stock.
LEMMA GetNewInv ==
    ASSUME StockInv, NEW u \in Users, NEW k \in Keys, GetNew(u, k) PROVE StockInv'
<1>0. StockType /\ Deleters /\ DeletedOnce /\ EntriesOwned
  BY DEF StockInv
<1>a. PICK n : n = Len(key) + 1
  OBVIOUS
<1>1. Made = 1..Len(key) /\ Len(key) \in Nat /\ Cardinality(Made) + 1 = n
  BY <1>0, <1>a, MadeCount
<1>2. /\ held' = [held EXCEPT ![u] = n]
      /\ key' = Append(key, k) /\ deleted' = Append(deleted, 0)
      /\ stocks' = Entry(k, IF factory_kind = "cached" THEN n ELSE 0)
      /\ UNCHANGED <<factory_kind, owned, dpc, dying, sfp>>
      /\ held[u] = 0 /\ dpc[u] = "no" /\ owned
  BY <1>1 DEF GetNew
<1>3. /\ key' \in Seq(Keys) /\ deleted' \in Seq({0, 1})
      /\ Len(key') = n /\ Len(deleted') = n
      /\ key'[n] = k /\ deleted'[n] = 0
      /\ \A s \in Made : key'[s] = key[s] /\ deleted'[s] = deleted[s]
  BY <1>0, <1>1, <1>2, <1>a DEF StockType
<1>4. \A w \in Users : held'[w] = IF w = u THEN n ELSE held[w]
  BY <1>0, <1>2 DEF StockType
<1>5. /\ DOMAIN stocks' = DOMAIN stocks \cup {k}
      /\ stocks' \in [DOMAIN stocks' -> Nat]
  BY <1>0, <1>a, <1>1, <1>2 DEF StockType, Entry
<1>6. StockType'
  <2>1. held' \in [Users -> 0..n]
    BY <1>0, <1>a, <1>1, <1>2 DEF StockType
  <2>2. dying' \in [Users -> 0..n]
    BY <1>0, <1>a, <1>1, <1>2 DEF StockType
  <2> QED BY <1>0, <1>2, <1>3, <1>5, <2>1, <2>2 DEF StockType
<1>7. Made' = 1..n /\ \A s \in Made' : s \in Made \/ s = n
  BY <1>1, <1>3, <1>6, MadeCount, <1>a DEF Made
<1>8. n \notin Made /\ 0 \notin Made /\ \A w \in Users : held[w] # n /\ dying[w] # n
  BY <1>0, <1>1, <1>a DEF StockType
<1>9. Held(n)' /\ \A s : s # n /\ s # 0 => (Held(s)' <=> Held(s))
  BY <1>2, <1>4 DEF Held
<1>10. \A w \in Users : /\ held[w] # 0 => held[w] \in Made
                        /\ dying[w] # 0 => dying[w] \in Made
  BY <1>0, <1>1 DEF StockType
<1>11. Deleters'
  <2>1. dying[u] = 0
    BY <1>0, <1>2 DEF Deleters
  <2>2. \A w \in Users : held'[w] # 0 => dpc'[w] = "no" /\ deleted'[held'[w]] = 0
    <3> SUFFICES ASSUME NEW w \in Users, held'[w] # 0
                 PROVE  dpc'[w] = "no" /\ deleted'[held'[w]] = 0
      OBVIOUS
    <3>1. CASE w = u
      BY <3>1, <1>2, <1>3, <1>4
    <3>2. CASE w # u
      <4>1. held'[w] = held[w] /\ held[w] \in Made /\ held[w] # 0
        BY <3>2, <1>4, <1>10
      <4>2. dpc[w] = "no" /\ deleted[held[w]] = 0
        BY <4>1, <1>0 DEF Deleters
      <4>3. deleted'[held[w]] = deleted[held[w]] /\ dpc' = dpc
        BY <4>1, <1>2, <1>3
      <4> QED BY <4>1, <4>2, <4>3
    <3> QED BY <3>1, <3>2
  <2>3. \A w \in Users : dying'[w] # 0 => deleted'[dying'[w]] = 0 /\ ~Held(dying[w])'
    BY <1>0, <1>2, <1>3, <1>8, <1>9, <1>10 DEF Deleters
  <2> QED BY <1>0, <1>2, <2>2, <2>3 DEF Deleters
<1>12. DeletedOnce'
  <2> SUFFICES ASSUME NEW s \in Made'
               PROVE  /\ deleted'[s] <= 1
                      /\ deleted'[s] = 1 => ~Held(s)' /\ \A w \in Users : dying'[w] # s
                      /\ deleted'[s] = 0 => \/ Held(s)' \/ \E w \in Users : dying'[w] = s
                                            \/ LeftOver'
    BY DEF DeletedOnce
  <2>1. CASE s = n
    BY <2>1, <1>3, <1>9
  <2>2. CASE s \in Made
    <3>1. s # n /\ s # 0
      BY <2>2, <1>8
    <3>2. (Held(s)' <=> Held(s)) /\ deleted'[s] = deleted[s]
      BY <2>2, <3>1, <1>3, <1>9
    <3>3. dying' = dying /\ (LeftOver' <=> LeftOver)
      BY <1>2 DEF LeftOver, FactoryAlive
    <3> QED BY <2>2, <3>2, <3>3, <1>0 DEF DeletedOnce
  <2> QED BY <2>1, <2>2, <1>7
<1>13. EntriesOwned'
  <2> SUFFICES ASSUME NEW j \in DOMAIN stocks'
               PROVE  \E s \in Made' : key'[s] = j /\ (Held(s)' \/ Erasing(s)')
    BY DEF EntriesOwned
  <2>1. CASE j = k
    BY <2>1, <1>1, <1>3, <1>7, <1>9, <1>a
  <2>2. CASE j \in DOMAIN stocks
    <3>1. PICK s \in Made : key[s] = j /\ (Held(s) \/ Erasing(s))
      BY <2>2, <1>0, <1>2 DEF EntriesOwned, FactoryAlive
    <3>2. s \in Made' /\ key'[s] = j /\ (Held(s)' <=> Held(s)) /\ (Erasing(s)' <=> Erasing(s))
      BY <3>1, <1>1, <1>2, <1>3, <1>7, <1>8, <1>9, <1>a DEF Erasing
    <3> QED BY <3>1, <3>2
  <2> QED BY <2>1, <2>2, <1>5
<1> QED BY <1>6, <1>11, <1>12, <1>13 DEF StockInv

\* The last thread to let a Stock go is the one that deletes it.
LEMMA LetGoInv ==
    ASSUME StockInv, NEW u \in Users, LetGo(u) PROVE StockInv'
<1>0. StockType /\ Deleters /\ DeletedOnce /\ EntriesOwned
  BY DEF StockInv
<1> USE DEF LetGo
<1>1. \A w \in Users : held'[w] = IF w = u THEN 0 ELSE held[w]
  BY <1>0 DEF StockType
<1>2. held[u] # 0 /\ dpc[u] = "no" /\ dying[u] = 0 /\ deleted[held[u]] = 0
  BY <1>0 DEF Deleters
<1>3. Made' = Made /\ Made = 1..Len(key) /\ Len(key) \in Nat
  BY <1>0, MadeCount DEF Made
<1>4. StockType'
  <2>1. held[u] \in 0..Len(key)
    BY <1>0 DEF StockType
  <2>4. \/ UNCHANGED <<dpc, dying>>
        \/ /\ dpc' = [dpc EXCEPT ![u] = "lock"]
           /\ dying' = [dying EXCEPT ![u] = held[u]]
    BY Zenon
  <2>5. held' = [held EXCEPT ![u] = 0]
    OBVIOUS
  <2> HIDE DEF LetGo
  <2>6. held' \in [Users -> 0..Len(key)]
    BY <1>0, <1>3, <2>5 DEF StockType
  <2>2. /\ dying' \in [Users -> 0..Len(key)]
        /\ dpc' \in [Users -> {"no", "lock", "erase", "delete"}]
    BY <1>0, <2>1, <2>4 DEF StockType
  <2>3. UNCHANGED <<factory_kind, owned, key, stocks, sfp, deleted>>
    BY DEF LetGo
  <2> QED BY <1>0, <2>2, <2>3, <2>6 DEF StockType
<1>7. LeftOver' <=> LeftOver
  BY DEF LeftOver, FactoryAlive
<1>5. CASE \E v \in Users \ {u} : held[v] = held[u]
  <2>1. UNCHANGED <<dpc, dying>>
    BY <1>5
  <2>2. \A s : s # 0 => (Held(s)' <=> Held(s))
    BY <1>1, <1>5 DEF Held
  <2>3. Deleters'
    BY <1>0, <1>1, <2>1, <2>2 DEF Deleters
  <2>4. DeletedOnce'
    BY <1>0, <1>3, <1>7, <2>1, <2>2 DEF DeletedOnce
  <2>5. EntriesOwned'
    BY <1>0, <1>3, <2>1, <2>2 DEF EntriesOwned, FactoryAlive, Erasing
  <2> QED BY <1>4, <2>3, <2>4, <2>5 DEF StockInv
<1>6. CASE ~\E v \in Users \ {u} : held[v] = held[u]
  <2>1. \A w \in Users : /\ dpc'[w] = IF w = u THEN "lock" ELSE dpc[w]
                         /\ dying'[w] = IF w = u THEN held[u] ELSE dying[w]
    BY <1>0, <1>6 DEF StockType
  <2>2. \A s : s # 0 => (Held(s)' <=> Held(s) /\ s # held[u])
    BY <1>1, <1>6 DEF Held
  <2>3. Held(held[u]) /\ \A w \in Users : dying[w] # held[u]
    BY <1>0, <1>2 DEF Deleters, Held
  <2>4. Deleters'
    <3>1. \A w \in Users : dpc'[w] = "no" <=> dying'[w] = 0
      BY <1>0, <1>2, <2>1 DEF Deleters
    <3>2. \A w \in Users : held'[w] # 0 => dpc'[w] = "no" /\ deleted'[held'[w]] = 0
      BY <1>0, <1>1, <2>1 DEF Deleters
    <3>3. \A w \in Users : dying'[w] # 0 => deleted'[dying'[w]] = 0 /\ ~Held(dying[w])'
      BY <1>0, <1>2, <2>1, <2>2 DEF Deleters
    <3>4. \A w, v \in Users : dying'[w] = dying'[v] /\ dying'[w] # 0 => w = v
      BY <1>0, <2>1, <2>3 DEF Deleters
    <3> QED BY <3>1, <3>2, <3>3, <3>4 DEF Deleters
  <2>5. DeletedOnce'
    <3> SUFFICES ASSUME NEW s \in Made
                 PROVE  /\ deleted[s] <= 1
                        /\ deleted[s] = 1 => ~Held(s)' /\ \A w \in Users : dying'[w] # s
                        /\ deleted[s] = 0 => \/ Held(s)' \/ \E w \in Users : dying'[w] = s
                                             \/ LeftOver'
      BY <1>3 DEF DeletedOnce
    <3>1. CASE s = held[u]
      BY <3>1, <1>2, <2>1
    <3>2. CASE s # held[u]
      <4>1. s # 0 /\ (Held(s)' <=> Held(s))
        BY <3>2, <1>3, <2>2
      <4>2. (\E w \in Users : dying'[w] = s) <=> (\E w \in Users : dying[w] = s)
        BY <3>2, <4>1, <1>2, <2>1
      <4> QED BY <4>1, <4>2, <1>0, <1>7 DEF DeletedOnce
    <3> QED BY <3>1, <3>2
  <2>6. EntriesOwned'
    <3> SUFFICES ASSUME FactoryAlive', NEW k \in DOMAIN stocks'
                 PROVE  \E s \in Made : key[s] = k /\ (Held(s)' \/ Erasing(s)')
      BY <1>3 DEF EntriesOwned
    <3>1. PICK s \in Made : key[s] = k /\ (Held(s) \/ Erasing(s))
      BY <1>0 DEF EntriesOwned, FactoryAlive
    <3>2. Erasing(s) => Erasing(s)'
      BY <1>2, <1>3, <2>1, <3>1 DEF Erasing
    <3>3. Held(s) => Held(s)' \/ Erasing(s)'
      BY <1>3, <2>1, <2>2, <3>1 DEF Erasing
    <3> QED BY <3>1, <3>2, <3>3
  <2> QED BY <1>4, <2>4, <2>5, <2>6 DEF StockInv
<1> QED BY <1>5, <1>6

\* A deleter that locks the factory: without one the Stock is deleted at once, or
\* leaked.
LEMMA LockFactoryInv ==
    ASSUME StockInv, NEW u \in Users, LockFactory(u) PROVE StockInv'
<1>0. StockType /\ Deleters /\ DeletedOnce /\ EntriesOwned
  BY DEF StockInv
<1>1. PICK next \in {"no", "erase", "delete"} :
         /\ next = IF FactoryAlive THEN "erase"
                   ELSE IF factory_kind = "cached" THEN "delete" ELSE "no"
         /\ dpc' = [dpc EXCEPT ![u] = next]
  BY DEF LockFactory
<1>2. /\ dpc[u] = "lock" /\ sfp' = [sfp EXCEPT ![u] = FactoryAlive]
      /\ UNCHANGED <<factory_kind, owned, key, stocks, held, deleted>>
  BY DEF LockFactory
<1>3. dying' = [dying EXCEPT ![u] = IF next = "no" THEN 0 ELSE dying[u]]
  BY <1>0, <1>1 DEF LockFactory, StockType
<1>4. \A w \in Users : /\ dpc'[w] = IF w = u THEN next ELSE dpc[w]
                       /\ dying'[w] = IF w = u /\ next = "no" THEN 0 ELSE dying[w]
  BY <1>0, <1>1, <1>3 DEF StockType
<1>5. Made' = Made /\ \A s : Held(s)' <=> Held(s)
  BY <1>2 DEF Made, Held
<1>6. Made = 1..Len(key) /\ Len(key) \in Nat /\ dying[u] \in 0..Len(key) /\ dying[u] # 0
  BY <1>0, <1>2, MadeCount DEF StockType, Deleters
<1>7. StockType'
  <2>1. dying' \in [Users -> 0..Len(key)] /\ dpc' \in [Users -> {"no", "lock", "erase", "delete"}]
    BY <1>0, <1>1, <1>3, <1>6 DEF StockType
  <2>2. FactoryAlive \in BOOLEAN
    BY <1>0 DEF FactoryAlive, StockType
  <2>3. sfp' \in [Users -> BOOLEAN]
    BY <1>0, <1>2, <2>2 DEF StockType
  <2> QED BY <1>0, <1>2, <2>1, <2>3 DEF StockType
<1>8. Deleters'
  <2>1. \A w \in Users : dpc'[w] = "no" <=> dying'[w] = 0
    BY <1>0, <1>1, <1>4, <1>6 DEF Deleters
  <2>2. \A w \in Users : held'[w] # 0 => dpc'[w] = "no" /\ deleted'[held'[w]] = 0
    BY <1>0, <1>2, <1>4 DEF Deleters
  <2>3. \A w \in Users : dying'[w] # 0 => deleted'[dying'[w]] = 0 /\ ~Held(dying[w])'
    BY <1>0, <1>2, <1>4, <1>5 DEF Deleters
  <2>4. \A w, v \in Users : dying'[w] = dying'[v] /\ dying'[w] # 0 => w = v
    BY <1>0, <1>4 DEF Deleters
  <2> QED BY <2>1, <2>2, <2>3, <2>4 DEF Deleters
<1>9. DeletedOnce'
  <2> SUFFICES ASSUME NEW s \in Made
               PROVE  /\ deleted[s] <= 1
                      /\ deleted[s] = 1 => ~Held(s)' /\ \A w \in Users : dying'[w] # s
                      /\ deleted[s] = 0 => \/ Held(s)' \/ \E w \in Users : dying'[w] = s
                                           \/ LeftOver'
    BY <1>2, <1>5 DEF DeletedOnce
  <2>1. s # 0
    BY <1>6
  <2>2. ASSUME NEW w \in Users, dying'[w] = s PROVE dying[w] = s
    BY <2>1, <2>2, <1>4
  <2>4. LeftOver => LeftOver'
    BY <1>0, <1>2 DEF LeftOver, FactoryAlive, StockType
  <2>3. ASSUME NEW w \in Users, dying[w] = s
        PROVE  dying'[w] = s \/ LeftOver'
    <3>1. CASE w = u /\ next = "no"
      <4>1. LeftOver
        BY <3>1, <1>0, <1>1 DEF LeftOver, StockType
      <4> QED BY <4>1, <2>4
    <3> QED BY <3>1, <2>3, <1>4
  <2> QED BY <2>2, <2>3, <2>4, <1>0, <1>5 DEF DeletedOnce
<1>10. EntriesOwned'
  <2> SUFFICES ASSUME FactoryAlive', NEW k \in DOMAIN stocks
               PROVE  \E s \in Made : key[s] = k /\ (Held(s)' \/ Erasing(s)')
    BY <1>2, <1>5 DEF EntriesOwned
  <2>1. FactoryAlive
    BY <1>0, <1>2 DEF FactoryAlive, StockType
  <2>2. PICK s \in Made : key[s] = k /\ (Held(s) \/ Erasing(s))
    BY <2>1, <1>0 DEF EntriesOwned
  <2>3. Erasing(s) => Erasing(s)'
    BY <2>1, <1>1, <1>4 DEF Erasing
  <2> QED BY <2>2, <2>3, <1>5
<1> QED BY <1>7, <1>8, <1>9, <1>10 DEF StockInv

\* The removal of an entry touches no entry of another name.
LEMMA RemoveStockInv ==
    ASSUME StockInv, NEW u \in Users, remove_stock(u) PROVE StockInv'
<1>0. StockType /\ Deleters /\ DeletedOnce /\ EntriesOwned
  BY DEF StockInv
<1>1. /\ dpc[u] = "erase" /\ dpc' = [dpc EXCEPT ![u] = "delete"]
      /\ stocks' = [k \in DOMAIN stocks \ {key[dying[u]]} |-> stocks[k]]
      /\ UNCHANGED <<factory_kind, owned, key, held, dying, sfp, deleted>>
  BY DEF remove_stock
<1>2. \A w \in Users : dpc'[w] = IF w = u THEN "delete" ELSE dpc[w]
  BY <1>0, <1>1 DEF StockType
<1>3. Made' = Made /\ \A s : Held(s)' <=> Held(s)
  BY <1>1 DEF Made, Held
<1>4. DOMAIN stocks' = DOMAIN stocks \ {key[dying[u]]} /\ stocks' \in [DOMAIN stocks' -> Nat]
  BY <1>0, <1>1 DEF StockType
<1>5. StockType'
  BY <1>0, <1>1, <1>4 DEF StockType
<1>6. Deleters'
  BY <1>0, <1>1, <1>2, <1>3 DEF Deleters
<1>7. DeletedOnce'
  <2>1. LeftOver' <=> LeftOver
    BY <1>1 DEF LeftOver, FactoryAlive
  <2> QED BY <2>1, <1>0, <1>1, <1>3 DEF DeletedOnce
<1>8. EntriesOwned'
  <2> SUFFICES ASSUME FactoryAlive', NEW k \in DOMAIN stocks'
               PROVE  \E s \in Made : key[s] = k /\ (Held(s)' \/ Erasing(s)')
    BY <1>1, <1>3 DEF EntriesOwned
  <2>1. PICK s \in Made : key[s] = k /\ (Held(s) \/ Erasing(s))
    BY <1>0, <1>1, <1>4 DEF EntriesOwned, FactoryAlive
  <2>2. s # dying[u]
    BY <2>1, <1>4
  <2>3. Erasing(s) => Erasing(s)'
    BY <2>2, <1>1, <1>2 DEF Erasing
  <2> QED BY <2>1, <2>3, <1>3
<1> QED BY <1>5, <1>6, <1>7, <1>8 DEF StockInv

\* The end of a deleter; no other thread has the same Stock in its deleter.
LEMMA DeleteStockInv ==
    ASSUME StockInv, NEW u \in Users, DeleteStock(u) PROVE StockInv'
<1>0. StockType /\ Deleters /\ DeletedOnce /\ EntriesOwned
  BY DEF StockInv
<1>a. PICK d : d = dying[u]
  OBVIOUS
<1>1. /\ dpc[u] = "delete" /\ dpc' = [dpc EXCEPT ![u] = "no"]
      /\ deleted' = [deleted EXCEPT ![d] = @ + 1]
      /\ sfp' = [sfp EXCEPT ![u] = FALSE] /\ dying' = [dying EXCEPT ![u] = 0]
      /\ UNCHANGED <<factory_kind, owned, key, stocks, held>>
  BY <1>a DEF DeleteStock
<1>2. \A w \in Users : /\ dpc'[w] = IF w = u THEN "no" ELSE dpc[w]
                       /\ dying'[w] = IF w = u THEN 0 ELSE dying[w]
                       /\ sfp'[w] => sfp[w]
  BY <1>0, <1>1 DEF StockType
<1>3. Made' = Made /\ \A s : Held(s)' <=> Held(s)
  BY <1>1 DEF Made, Held
<1>4. Made = 1..Len(key) /\ Len(key) \in Nat /\ d \in Made /\ d # 0
  BY <1>0, <1>1, <1>a, MadeCount DEF StockType, Deleters
<1>5. deleted[d] = 0 /\ ~Held(d) /\ \A w \in Users : dying'[w] # d
  BY <1>0, <1>2, <1>4, <1>a DEF Deleters
<1>6. /\ deleted' \in Seq({0, 1}) /\ Len(deleted') = Len(key)
      /\ \A s \in Made : deleted'[s] = IF s = d THEN 1 ELSE deleted[s]
  BY <1>0, <1>1, <1>4, <1>5 DEF StockType
<1>7. StockType'
  <2>1. /\ dying' \in [Users -> 0..Len(key)] /\ sfp' \in [Users -> BOOLEAN]
        /\ dpc' \in [Users -> {"no", "lock", "erase", "delete"}]
    BY <1>0, <1>1, <1>4 DEF StockType
  <2> QED BY <1>0, <1>1, <1>6, <2>1 DEF StockType
<1>8. \A w \in Users : (held[w] # 0 => held[w] \in Made) /\ (dying[w] # 0 => dying[w] \in Made)
  BY <1>0, <1>4 DEF StockType
<1>9. Deleters'
  <2>1. \A w \in Users : dpc'[w] = "no" <=> dying'[w] = 0
    BY <1>0, <1>2 DEF Deleters
  <2>2. \A w \in Users : held'[w] # 0 => dpc'[w] = "no" /\ deleted'[held'[w]] = 0
    <3> SUFFICES ASSUME NEW w \in Users, held[w] # 0
                 PROVE  dpc'[w] = "no" /\ deleted'[held[w]] = 0
      BY <1>1
    <3>1. held[w] \in Made /\ dpc[w] = "no" /\ deleted[held[w]] = 0
      BY <1>0, <1>8 DEF Deleters
    <3>2. held[w] # d
      BY <1>5 DEF Held
    <3> QED BY <3>1, <3>2, <1>2, <1>6
  <2>3. \A w \in Users : dying'[w] # 0 => deleted'[dying'[w]] = 0 /\ ~Held(dying[w])'
    <3> SUFFICES ASSUME NEW w \in Users, dying'[w] # 0
                 PROVE  deleted'[dying'[w]] = 0 /\ ~Held(dying[w])'
      OBVIOUS
    <3>1. dying'[w] = dying[w] /\ dying[w] \in Made /\ dying[w] # d
      BY <1>2, <1>5, <1>8
    <3>2. deleted[dying[w]] = 0 /\ ~Held(dying[w])
      BY <3>1, <1>0, <1>2 DEF Deleters
    <3>3. held' = held
      BY <1>1
    <3>4. ~Held(dying[w])'
      BY <3>1, <3>2, <3>3 DEF Held
    <3> QED BY <3>1, <3>2, <3>4, <1>6
  <2>4. \A w, v \in Users : dying'[w] = dying'[v] /\ dying'[w] # 0 => w = v
    BY <1>0, <1>2 DEF Deleters
  <2> QED BY <2>1, <2>2, <2>3, <2>4 DEF Deleters
<1>10. DeletedOnce'
  <2> SUFFICES ASSUME NEW s \in Made
               PROVE  /\ deleted'[s] <= 1
                      /\ deleted'[s] = 1 => ~Held(s)' /\ \A w \in Users : dying'[w] # s
                      /\ deleted'[s] = 0 => \/ Held(s)' \/ \E w \in Users : dying'[w] = s
                                            \/ LeftOver'
    BY <1>1, <1>3 DEF DeletedOnce
  <2>1. CASE s = d
    BY <2>1, <1>3, <1>5, <1>6
  <2>2. CASE s # d
    <3>1. deleted'[s] = deleted[s] /\ s # 0 /\ (Held(s)' <=> Held(s))
      BY <2>2, <1>3, <1>4, <1>6
    <3>2. (\E w \in Users : dying'[w] = s) <=> (\E w \in Users : dying[w] = s)
      BY <2>2, <3>1, <1>2, <1>a
    <3>3. LeftOver => LeftOver'
      BY <1>1, <1>2 DEF LeftOver, FactoryAlive
    <3> QED BY <3>1, <3>2, <3>3, <1>0 DEF DeletedOnce
  <2> QED BY <2>1, <2>2
<1>11. EntriesOwned'
  <2> SUFFICES ASSUME FactoryAlive', NEW k \in DOMAIN stocks
               PROVE  \E s \in Made : key[s] = k /\ (Held(s)' \/ Erasing(s)')
    BY <1>1, <1>3 DEF EntriesOwned
  <2>1. FactoryAlive
    BY <1>1, <1>2 DEF FactoryAlive
  <2>2. PICK s \in Made : key[s] = k /\ (Held(s) \/ Erasing(s))
    BY <2>1, <1>0 DEF EntriesOwned
  <2>3. Erasing(s) => Erasing(s)'
    BY <1>1, <1>2 DEF Erasing
  <2> QED BY <2>2, <2>3, <1>3
<1> QED BY <1>7, <1>9, <1>10, <1>11 DEF StockInv

\* Every step of the threads, and the end of the factory itself.
LEMMA StockNextInv ==
    ASSUME StockInv, StockNext PROVE StockInv'
<1>1. CASE DropFactory
  <2> USE <1>1 DEF DropFactory
  <2>1. StockType'
    BY DEF StockInv, StockType
  <2>2. Deleters'
    BY DEF StockInv, Deleters, Held
  <2>3. DeletedOnce'
    BY DEF StockInv, DeletedOnce, LeftOver, FactoryAlive, Made, Held
  <2>4. EntriesOwned'
    BY DEF StockInv, EntriesOwned, FactoryAlive, Made, Held, Erasing
  <2> QED BY <2>1, <2>2, <2>3, <2>4 DEF StockInv
<1> QED BY <1>1, GetExistingInv, GetNewInv, LetGoInv, LockFactoryInv, RemoveStockInv,
           DeleteStockInv DEF StockNext

-----------------------------------------------------------------------------
SharingInv == ListInv /\ StockInv /\ SingletonInv

\* The invariants of the three programs hold initially, and every step is one of
\* one of them.
LEMMA SharingInitInv == SharingInit => SharingInv
BY ListInitInv, StockInitInv, SingletonInitInv DEF SharingInit, SharingInv

LEMMA SharingNextInv == SharingInv /\ [SharingNext]_sharingVars => SharingInv'
<1> SUFFICES ASSUME SharingInv, [SharingNext]_sharingVars PROVE SharingInv'
  OBVIOUS
<1>1. ASSUME UNCHANGED listVars PROVE ListInv'
  BY <1>1 DEF SharingInv, ListInv, listVars, ListType, Allocated, SnapshotsStable, Addresses
<1>2. ASSUME UNCHANGED stockVars PROVE StockInv'
  <2> USE <1>2 DEF stockVars, SharingInv, StockInv
  <2>1. StockType'
    BY DEF StockType
  <2>2. Deleters' /\ DeletedOnce'
    BY DEF Deleters, DeletedOnce, LeftOver, FactoryAlive, Made, Held
  <2>3. EntriesOwned'
    BY DEF EntriesOwned, FactoryAlive, Made, Held, Erasing
  <2> QED BY <2>1, <2>2, <2>3
<1>3. ASSUME UNCHANGED singletonVars PROVE SingletonInv'
  BY <1>3 DEF SharingInv, SingletonInv, singletonVars, SingletonType, Winner, Own, OneObject
<1> QED BY <1>1, <1>2, <1>3, ListNextInv, StockNextInv, SingletonNextInv
        DEF SharingInv, SharingNext, sharingVars

-----------------------------------------------------------------------------
(* Heaps and shared objects together.                                      *)

\* A step of an execution is one of the heaps or one of the shared objects.
LEMMA ObjectsStep ==
    ASSUME [ObjectsNext]_objectsVars
    PROVE  [Next]_vars /\ [SharingNext]_sharingVars
BY DEF ObjectsNext, objectsVars

\* walk_heap() goes from block to block exactly to the end of the heap, after any
\* sequence of mmalloc(), mfree() and mrealloc(): headers equal footers and no two free
\* blocks are neighbours where there are footers, and the blocks met are those the
\* caller holds where there are none.  Where there is a mrealloc() this holds until a
\* caller has used more words than its block has, which mrealloc() granted because it
\* took the caller's data for the size of the block, or memcpy() a negative length.
THEOREM HeapsAreWalkable == ObjectsSpec => []HeapWalkable
<1>1. ObjectsInit => HeapsInv
  BY HeapsInit DEF ObjectsInit
<1>2. HeapsInv /\ [ObjectsNext]_objectsVars => HeapsInv'
  BY HeapsNext, ObjectsStep
<1>3. HeapsInv => HeapWalkable
  BY TagSafeFacts, HdrInvFacts DEF HeapsInv, HeapWalkable
<1> QED BY <1>1, <1>2, <1>3, PTL DEF ObjectsSpec

\* Splitting, merging and the writing of tags never touch a word that the caller of
\* mmalloc() or mrealloc() has filled and not given back, and its block has room for
\* what it asked for, until mrealloc() grants one that is too small.
THEOREM PayloadsStayIntact == ObjectsSpec => []PayloadIntact
<1>1. ObjectsInit => HeapsInv
  BY HeapsInit DEF ObjectsInit
<1>2. HeapsInv /\ [ObjectsNext]_objectsVars => HeapsInv'
  BY HeapsNext, ObjectsStep
<1>3. HeapsInv => PayloadIntact
  BY TagSafeFacts, HdrInvFacts DEF HeapsInv, PayloadIntact
<1> QED BY <1>1, <1>2, <1>3, PTL DEF ObjectsSpec

\* Both allocators implement Allocator: a block lies within the heap and overlaps no
\* other, and sbrk() is called only if no stretch of free words is long enough, whether
\* mfree() or find_fit() merges, up to the step of a caller that uses more than
\* mrealloc() could grant.
THEOREM HeapsKeepTheirPromise == ObjectsSpec => IsAllocator
<1>1. ObjectsInit => HeapsInv /\ Tags!Promise!AInit /\ Headers!Promise!AInit
  BY HeapsInit DEF ObjectsInit
<1>2. HeapsInv /\ [ObjectsNext]_objectsVars =>
          /\ HeapsInv' /\ [Tags!Promise!ANext \/ tag_undefined']_(Tags!Promise!avars)
          /\ [Headers!Promise!ANext]_(Headers!Promise!avars)
  BY HeapsNext, ObjectsStep
<1> QED BY <1>1, <1>2, PTL DEF ObjectsSpec, IsAllocator, Tags!IsAllocator, Headers!IsAllocator,
                              Headers!Promise!ASpec

\* The programs of Sharing behave in an execution as they do by themselves.
LEMMA SharingAlone == ObjectsSpec => SharingSpec
<1>1. ObjectsInit => SharingInit
  BY DEF ObjectsInit
<1>2. [ObjectsNext]_objectsVars => [SharingNext]_sharingVars
  BY ObjectsStep
<1> QED BY <1>1, <1>2, PTL DEF ObjectsSpec, SharingSpec

\* A traversal of the copy-on-write list meets the list as it was when it began,
\* whoever posts meanwhile, and no posted element is lost by the copying.
THEOREM TraversalsAreStable == ObjectsSpec => []SnapshotsStable
<1>1. SharingInv => SnapshotsStable
  BY DEF SharingInv, ListInv
<1> QED BY <1>1, SharingAlone, SharingInitInv, SharingNextInv, PTL DEF SharingSpec

\* Nobody holds a Stock or a singleton that has been deleted and each is deleted at
\* most once, under every interleaving of get(), of the deleters, of the factory's end
\* and of failed exchanges.  One that nobody holds has a thread that deletes it or has
\* been deleted; left over are only Stocks of stock_factory.cpp, whose deleter deletes
\* nothing, and only once their factory is no longer alive.
THEOREM SharedObjectsOwned == ObjectsSpec => []ObjectsOwned
<1>1. SharingInv => ObjectsOwned
  BY DEF SharingInv, StockInv, SingletonInv, DeletedOnce, EntriesOwned, StocksOwned, ObjectsOwned
<1> QED BY <1>1, SharingAlone, SharingInitInv, SharingNextInv, PTL DEF SharingSpec
=============================================================================
