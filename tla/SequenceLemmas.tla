--------------------------- MODULE SequenceLemmas ---------------------------
(***************************************************************************)
(* What push_back and pop_front do to the set of elements of a queue that  *)
(* is modelled as a sequence; and induction, in a form that speaks of sets *)
(* and functions only, with what it says of recursive functions.           *)
(***************************************************************************)
EXTENDS Integers, Sequences, WellFoundedInduction, TLAPS

Among(q, t) == \E k \in 1..Len(q) : q[k] = t

\* push_back adds the new element and keeps the others.
LEMMA AmongAppend ==
    ASSUME NEW S, NEW q \in Seq(S), NEW e \in S, NEW t
    PROVE  Among(Append(q, e), t) <=> Among(q, t) \/ t = e
<1> DEFINE r == Append(q, e)
<1>1. Len(r) = Len(q) + 1 /\ Len(q) \in Nat
  OBVIOUS
<1>2. r[Len(q) + 1] = e /\ \A k \in 1..Len(q) : r[k] = q[k]
  OBVIOUS
<1> HIDE DEF r
<1>3. ASSUME Among(r, t) PROVE Among(q, t) \/ t = e
  <2>1. PICK k \in 1..Len(r) : r[k] = t
    BY <1>3 DEF Among
  <2>2. CASE k = Len(q) + 1
    BY <2>1, <2>2, <1>2
  <2>3. CASE k \in 1..Len(q)
    BY <2>1, <2>3, <1>2 DEF Among
  <2> QED
    BY <2>2, <2>3, <1>1
<1>4. ASSUME Among(q, t) PROVE Among(r, t)
  <2>1. PICK k \in 1..Len(q) : q[k] = t
    BY <1>4 DEF Among
  <2>2. k \in 1..Len(r) /\ r[k] = t
    BY <2>1, <1>1, <1>2
  <2> QED
    BY <2>2 DEF Among
<1>5. ASSUME t = e PROVE Among(r, t)
  <2>1. Len(q) + 1 \in 1..Len(r)
    BY <1>1
  <2> QED
    BY <1>5, <2>1, <1>2 DEF Among
<1>6. Among(r, t) <=> Among(q, t) \/ t = e
  BY <1>3, <1>4, <1>5
<1> QED
  BY <1>6 DEF r

\* pop_front removes the first element and keeps the others.
LEMMA AmongTail ==
    ASSUME NEW S, NEW q \in Seq(S), q # <<>>, NEW t
    PROVE  /\ Among(q, t) => Among(Tail(q), t) \/ t = Head(q)
           /\ Among(Tail(q), t) => Among(q, t)
<1> DEFINE r == Tail(q)
<1>1. Len(q) \in Nat \ {0} /\ Len(r) = Len(q) - 1
  OBVIOUS
<1>2. \A k \in 1..Len(r) : r[k] = q[k + 1]
  OBVIOUS
<1>3. Head(q) = q[1]
  BY <1>1
<1> HIDE DEF r
<1>4. ASSUME Among(q, t), t # Head(q) PROVE Among(r, t)
  <2>1. PICK k \in 1..Len(q) : q[k] = t
    BY <1>4 DEF Among
  <2>2. k # 1
    BY <2>1, <1>3, <1>4
  <2>3. k - 1 \in 1..Len(r) /\ r[k - 1] = t
    BY <2>1, <2>2, <1>1, <1>2
  <2> QED
    BY <2>3 DEF Among
<1>5. ASSUME Among(r, t) PROVE Among(q, t)
  <2>1. PICK k \in 1..Len(r) : r[k] = t
    BY <1>5 DEF Among
  <2>2. k + 1 \in 1..Len(q) /\ q[k + 1] = t
    BY <2>1, <1>1, <1>2
  <2> QED
    BY <2>2 DEF Among
<1>6. /\ Among(q, t) => Among(r, t) \/ t = Head(q)
      /\ Among(r, t) => Among(q, t)
  BY <1>4, <1>5
<1> QED
  BY <1>6 DEF r

\* push_back keeps the type of a queue and adds one to its length.
LEMMA AppendType ==
    ASSUME NEW S, NEW q \in Seq(S), NEW e \in S
    PROVE  Append(q, e) \in Seq(S) /\ Len(q) \in Nat /\ Len(Append(q, e)) = Len(q) + 1
OBVIOUS

\* pop_front of a queue that is not empty takes one from its length.
LEMMA TailType ==
    ASSUME NEW S, NEW q \in Seq(S), q # <<>>
    PROVE  /\ Head(q) \in S /\ Tail(q) \in Seq(S)
           /\ Len(q) \in Nat \ {0} /\ Len(Tail(q)) = Len(q) - 1
OBVIOUS

\* A queue that nothing is put into twice.
NoTwice(q) == \A j, k \in 1..Len(q) : q[j] = q[k] => j = k

\* push_back of something new keeps the elements of a queue apart.
LEMMA NoTwiceAppend ==
    ASSUME NEW S, NEW q \in Seq(S), NEW e \in S, NoTwice(q), ~Among(q, e)
    PROVE  NoTwice(Append(q, e))
<1> DEFINE r == Append(q, e)
<1>1. Len(r) = Len(q) + 1 /\ Len(q) \in Nat
  OBVIOUS
<1>2. r[Len(q) + 1] = e /\ \A k \in 1..Len(q) : r[k] = q[k]
  OBVIOUS
<1> HIDE DEF r
<1>3. NoTwice(r)
  <2> SUFFICES ASSUME NEW j \in 1..Len(r), NEW k \in 1..Len(r), r[j] = r[k] PROVE j = k
    BY DEF NoTwice
  <2>1. ASSUME NEW i \in 1..Len(q) PROVE q[i] # e
    BY DEF Among
  <2>2. CASE j \in 1..Len(q) /\ k \in 1..Len(q)
    BY <2>2, <1>2 DEF NoTwice
  <2>3. CASE j = Len(q) + 1 \/ k = Len(q) + 1
    BY <2>1, <2>3, <1>1, <1>2
  <2> QED BY <2>2, <2>3, <1>1
<1> QED BY <1>3 DEF r

\* The first element is not met again after pop_front.
LEMMA NoTwiceTail ==
    ASSUME NEW S, NEW q \in Seq(S), q # <<>>, NoTwice(q)
    PROVE  NoTwice(Tail(q)) /\ Among(q, Head(q)) /\ ~Among(Tail(q), Head(q))
<1> DEFINE r == Tail(q)
<1>1. Len(q) \in Nat \ {0} /\ Len(r) = Len(q) - 1
  OBVIOUS
<1>2. \A k \in 1..Len(r) : r[k] = q[k + 1]
  OBVIOUS
<1>3. Head(q) = q[1] /\ 1 \in 1..Len(q)
  BY <1>1
<1> HIDE DEF r
<1>4. \A k \in 1..Len(r) : k + 1 \in 1..Len(q) /\ k + 1 # 1
  BY <1>1
<1>5. NoTwice(r)
  BY <1>1, <1>2, <1>4 DEF NoTwice
<1>6. ~Among(r, Head(q))
  BY <1>1, <1>2, <1>3, <1>4 DEF NoTwice, Among
<1> QED BY <1>3, <1>5, <1>6 DEF r, Among

-----------------------------------------------------------------------------
(* Induction.                                                              *)

\* A set of natural numbers has a least element.
LEMMA Least ==
    ASSUME NEW T \in SUBSET Nat, T # {}
    PROVE  \E x \in T : \A y \in T : x <= y
<1> DEFINE R == OpToRel(<, Nat)
<1>1. IsWellFoundedOn(R, Nat)
  BY NatLessThanWellFounded
<1>2. \A x, y \in Nat : y < x => <<y, x>> \in R
  BY DEF OpToRel
<1> HIDE DEF R
<1>3. PICK x \in T : \A y \in T : ~ (<<y, x>> \in R)
  BY <1>1, WFMin, Zenon
<1>4. \A y \in T : ~(y < x) /\ y \in Nat /\ x \in Nat
  BY <1>2, <1>3
<1> QED BY <1>4

\* What holds of 0, and of n + 1 whenever it holds of n, holds of all of Nat: the
\* least number it does not hold of is neither 0 nor a successor.
LEMMA Induction ==
    ASSUME NEW S, 0 \in S, \A n \in Nat : n \in S => n + 1 \in S
    PROVE  \A n \in Nat : n \in S
<1> SUFFICES ASSUME NEW m \in Nat, m \notin S PROVE FALSE
  OBVIOUS
<1> DEFINE T == { n \in Nat : n \notin S }
<1>1. T \in SUBSET Nat /\ T # {}
  OBVIOUS
<1>2. PICK x \in T : \A y \in T : x <= y
  BY <1>1, Least
<1>3. x - 1 \in Nat /\ x - 1 \in S
  BY <1>2
<1> QED BY <1>2, <1>3

\* A value that is computed step by step exists: step i takes x to g[i][x].
LEMMA Recursion ==
    ASSUME NEW X, NEW x0 \in X, NEW n \in Nat, NEW g \in [1..n -> [X -> X]]
    PROVE  \E f \in [0..n -> X] : f[0] = x0 /\ \A i \in 1..n : f[i] = g[i][f[i - 1]]
<1> DEFINE P(m, f) == f \in [0..m -> X] /\ f[0] = x0 /\ \A i \in 1..m : f[i] = g[i][f[i - 1]]
           S == { m \in Nat : m <= n => \E f \in [0..m -> X] : P(m, f) }
<1>1. 0 \in S
  <2> DEFINE f == [i \in 0..0 |-> x0]
  <2>1. P(0, f)
    OBVIOUS
  <2> QED BY <2>1
<1>2. ASSUME NEW m \in Nat, m \in S PROVE m + 1 \in S
  <2> SUFFICES ASSUME m + 1 <= n PROVE \E f \in [0..m + 1 -> X] : P(m + 1, f)
    OBVIOUS
  <2>1. PICK f \in [0..m -> X] : P(m, f)
    BY <1>2
  <2> DEFINE h == [i \in 0..m + 1 |-> IF i <= m THEN f[i] ELSE g[m + 1][f[m]]]
  <2>2. g[m + 1][f[m]] \in X
    BY <2>1
  <2>3. h \in [0..m + 1 -> X]
    BY <2>1, <2>2
  <2>4. h[m + 1] = g[m + 1][f[m]] /\ \A i \in 0..m : h[i] = f[i]
    OBVIOUS
  <2> HIDE DEF h
  <2>5. ASSUME NEW i \in 1..m + 1 PROVE h[i] = g[i][h[i - 1]]
    <3>1. CASE i = m + 1
      BY <2>4, <3>1
    <3>2. CASE i \in 1..m
      BY <2>1, <2>4, <3>2
    <3> QED BY <3>1, <3>2
  <2>6. P(m + 1, h)
    BY <2>1, <2>3, <2>4, <2>5
  <2> QED BY <2>3, <2>6
<1> HIDE DEF S
<1>3. n \in S
  BY <1>1, <1>2, Induction
<1> QED BY <1>3 DEF S

\* What is computed by the same steps is the same.
LEMMA SameRecursion ==
    ASSUME NEW n \in Nat, NEW f, NEW h, f[0] = h[0],
           \A i \in 1..n : f[i - 1] = h[i - 1] => f[i] = h[i]
    PROVE  \A i \in 0..n : f[i] = h[i]
<1> DEFINE S == { i \in Nat : i <= n => f[i] = h[i] }
<1>1. 0 \in S
  OBVIOUS
<1>2. ASSUME NEW m \in Nat, m \in S PROVE m + 1 \in S
  <2> SUFFICES ASSUME m + 1 <= n PROVE f[m + 1] = h[m + 1]
    OBVIOUS
  <2>1. m + 1 \in 1..n /\ f[(m + 1) - 1] = h[(m + 1) - 1]
    BY <1>2
  <2> QED BY <2>1
<1> HIDE DEF S
<1>3. \A i \in Nat : i \in S
  BY <1>1, <1>2, Induction
<1> QED BY <1>3 DEF S
=============================================================================
