---------------------------- MODULE LoggerProofs ----------------------------
(***************************************************************************)
(* The logger, for every number and length of lines and chunks, every size *)
(* of a buffer and of a file, and every bound on the clock: the buffers    *)
(* never run out of spares, keep the lines in their order and lose none    *)
(* without counting it; the file holds a prefix of what was appended, its  *)
(* counter covers it and it is serviced in time; and what the thread has   *)
(* flushed is in the files.                                                *)
(*                                                                         *)
(* The invariant is in three parts.  BuffersInv reads the lines from the   *)
(* file to the buffer that is being filled as one increasing sequence      *)
(* (Pipeline), so that handing a buffer on does not change it.  FileInv    *)
(* says the same of the chunks: the files in the order of their names and  *)
(* then the buffer of stdio hold what was not refused, because no file     *)
(* ahead of the current one has been written to.  Handed joins them.  What *)
(* FlattenSeq, Accepted and Size return is proved first, by induction.     *)
(***************************************************************************)
EXTENDS Logger, SequenceLemmas, SequenceTheorems, TLAPS

-----------------------------------------------------------------------------
(* FlattenSeq.                                                             *)

\* f holds the concatenations of the first sequences of s.
IsFlattening(f, n, s) == f[0] = <<>> /\ \A i \in 1..n : f[i] = f[i - 1] \o s[i]

\* The function in the definition of FlattenSeq.
Flattening(n, s) == CHOOSE h : h = [i \in 1..n |-> IF i = 1 THEN s[i] ELSE h[i - 1] \o s[i]]

\* The function that FlattenSeq chooses does.
LEMMA FlattenChoose ==
    ASSUME NEW n \in Nat \ {0}, NEW s, NEW f
    PROVE  IsFlattening(f, n, s) /\ <<>> \o s[1] = s[1] =>
           f[n] = Flattening(n, s)[n]
<1>00. PICK e : e = <<>>
  OBVIOUS
<1>0. SUFFICES ASSUME f[0] = e, e \o s[1] = s[1],
                      \A i \in 1..n : f[i] = f[i - 1] \o s[i]
               PROVE  f[n] = Flattening(n, s)[n]
  BY <1>00, Zenon DEF IsFlattening
<1> DEFINE Def(h) == [i \in 1..n |-> IF i = 1 THEN s[i] ELSE h[i - 1] \o s[i]]
           h == CHOOSE h : h = Def(h)
           r == [i \in 1..n |-> f[i]]
<1>1. f[1] = s[1]
  <2>1. 1 \in 1..n /\ 1 - 1 = 0
    OBVIOUS
  <2>2. f[1] = f[1 - 1] \o s[1]
    BY <1>0, <2>1
  <2> QED BY <1>0, <2>1, <2>2, Zenon
<1>2. ASSUME NEW i \in 1..n PROVE r[i] = IF i = 1 THEN s[i] ELSE r[i - 1] \o s[i]
  <2>1. CASE i = 1
    BY <1>1, <2>1
  <2>2. CASE i # 1
    <3>1. i - 1 \in 1..n
      BY <2>2
    <3> QED BY <1>0, <2>2, <3>1
  <2> QED BY <2>1, <2>2
<1>3. r = Def(r)
  BY <1>2
<1> HIDE DEF Def, r
<1>4. h = Def(h)
  BY <1>3
<1> HIDE DEF h
<1>5. \A i \in 1..n : h[i] = IF i = 1 THEN s[i] ELSE h[i - 1] \o s[i]
  BY <1>4 DEF Def
<1> DEFINE k == [i \in 0..n |-> IF i = 0 THEN e ELSE h[i]]
<1>6. f[0] = k[0] /\ \A i \in 1..n : k[i] = h[i]
  BY <1>0
<1> HIDE DEF k
<1>7. ASSUME NEW i \in 1..n, f[i - 1] = k[i - 1] PROVE f[i] = k[i]
  <2>1. CASE i = 1
    BY <1>1, <1>5, <1>6, <2>1
  <2>2. CASE i # 1
    <3>1. i - 1 \in 1..n
      BY <2>2
    <3>2. k[i - 1] = h[i - 1]
      BY <1>6, <3>1
    <3>3. f[i] = f[i - 1] \o s[i]
      BY <1>0
    <3>4. k[i] = h[i] /\ h[i] = h[i - 1] \o s[i]
      BY <1>5, <1>6, <2>2
    <3> QED BY <1>7, <3>2, <3>3, <3>4, Zenon
  <2> QED BY <2>1, <2>2
<1>8. \A i \in 0..n : f[i] = k[i]
  <2>1. n \in Nat /\ f[0] = k[0]
    BY <1>6
  <2>2. \A i \in 1..n : f[i - 1] = k[i - 1] => f[i] = k[i]
    BY <1>7
  <2> QED BY <2>1, <2>2, SameRecursion
<1>9. f[n] = h[n]
  BY <1>6, <1>8
<1> QED BY <1>9 DEF h, Def, Flattening

\* FlattenSeq concatenates one sequence after the other.
LEMMA FlattenIs ==
    ASSUME NEW A, NEW s
    PROVE  s \in Seq(Seq(A)) =>
             \E f : f \in [0..Len(s) -> Seq(A)] /\ IsFlattening(f, Len(s), s) /\ FlattenSeq(s) = f[Len(s)]
<1>0. SUFFICES ASSUME s \in Seq(Seq(A))
               PROVE  \E f : f \in [0..Len(s) -> Seq(A)] /\ IsFlattening(f, Len(s), s) /\ FlattenSeq(s) = f[Len(s)]
  OBVIOUS
<1> DEFINE X == Seq(A)
           n == Len(s)
           g == [i \in 1..n |-> [x \in X |-> x \o s[i]]]
<1>1. n \in Nat /\ <<>> \in X /\ \A i \in 1..n : s[i] \in X
  BY <1>0
<1>2. g \in [1..n -> [X -> X]]
  <2>1. \A i \in 1..n : \A x \in X : x \o s[i] \in X
    BY <1>1
  <2> HIDE DEF X, n
  <2> QED BY <2>1, Zenon
<1>3. ASSUME NEW i \in 1..n, NEW x \in X PROVE g[i][x] = x \o s[i]
  <2> HIDE DEF X, n
  <2> QED BY Zenon
<1>4. \A a \in X : <<>> \o a = a
  OBVIOUS
<1>5. PICK e : e = <<>>
  OBVIOUS
<1> HIDE DEF X, n, g
<1>6. PICK f : f \in [0..n -> X] /\ f[0] = e /\ \A i \in 1..n : f[i] = g[i][f[i - 1]]
  <2>1. e \in X
    BY <1>1, <1>5
  <2> QED BY <1>1, <1>2, <2>1, Recursion
<1>7. ASSUME NEW i \in 1..n PROVE f[i] = f[i - 1] \o s[i]
  <2>1. i - 1 \in 0..n
    BY <1>1
  <2> QED BY <1>3, <1>6, <2>1, Zenon
<1>8. IsFlattening(f, n, s)
  BY <1>5, <1>6, <1>7, Zenon DEF IsFlattening
<1>9. CASE n = 0
  <2>1. FlattenSeq(s) = s
    BY <1>9, Zenon DEF FlattenSeq, n
  <2>2. s = <<>>
    BY <1>0, <1>9 DEF n
  <2> QED BY <1>5, <1>6, <1>8, <1>9, <2>1, <2>2, Zenon DEF n, X
<1>10. CASE n # 0
  <2>1. n \in Nat \ {0} /\ 1 \in 1..n
    BY <1>1, <1>10
  <2>2. e \o s[1] = s[1]
    BY <1>1, <1>4, <1>5, <2>1, Zenon
  <2>3. FlattenSeq(s) = Flattening(n, s)[n]
    BY <1>10 DEF FlattenSeq, Flattening, n
  <2>4. f[n] = Flattening(n, s)[n]
    BY <1>5, <1>8, <2>1, <2>2, FlattenChoose, Zenon
  <2> QED BY <1>6, <1>8, <2>3, <2>4, Zenon DEF n, X
<1> QED BY <1>9, <1>10

\* Concatenation is associative and the empty sequence is its unit.
LEMMA ConcatFacts ==
    ASSUME NEW A
    PROVE  /\ \A a, b, c \in Seq(A) : (a \o b) \o c = a \o (b \o c)
           /\ \A a \in Seq(A) : a \o <<>> = a /\ <<>> \o a = a
OBVIOUS

\* No sequences are no elements, and one sequence is itself.
LEMMA FlattenOne ==
    ASSUME NEW A, NEW x \in Seq(A)
    PROVE  FlattenSeq(<<>>) = <<>> /\ FlattenSeq(<<x>>) = x
<1>1. FlattenSeq(<<>>) = <<>>
  BY DEF FlattenSeq
<1>2. <<x>> \in Seq(Seq(A)) /\ Len(<<x>>) = 1 /\ <<x>>[1] = x
  OBVIOUS
<1>3. PICK f : f \in [0..1 -> Seq(A)] /\ IsFlattening(f, 1, <<x>>) /\ FlattenSeq(<<x>>) = f[1]
  BY <1>2, FlattenIs
<1>4. f[1] = f[1 - 1] \o <<x>>[1] /\ f[0] = <<>> /\ 1 - 1 = 0
  BY <1>3 DEF IsFlattening
<1>5. f[1] = <<>> \o x
  BY <1>2, <1>4, Zenon
<1> QED BY <1>1, <1>3, <1>5

\* The concatenation of two lists of sequences.
LEMMA FlattenConcat ==
    ASSUME NEW A, NEW s \in Seq(Seq(A)), NEW t \in Seq(Seq(A))
    PROVE  /\ FlattenSeq(s) \in Seq(A) /\ FlattenSeq(t) \in Seq(A)
           /\ FlattenSeq(s \o t) = FlattenSeq(s) \o FlattenSeq(t)
<1>1. PICK m, n, r : m = Len(s) /\ n = Len(t) /\ r = s \o t
  OBVIOUS
<1>2. /\ m \in Nat /\ n \in Nat /\ r \in Seq(Seq(A)) /\ Len(r) = m + n
      /\ \A i \in 1..m : r[i] = s[i]
      /\ \A i \in 1..n : r[m + i] = t[i] /\ t[i] \in Seq(A)
  BY <1>1
<1>3. PICK f : f \in [0..m -> Seq(A)] /\ IsFlattening(f, m, s) /\ FlattenSeq(s) = f[m]
  BY <1>1, FlattenIs
<1>4. PICK g : g \in [0..n -> Seq(A)] /\ IsFlattening(g, n, t) /\ FlattenSeq(t) = g[n]
  BY <1>1, FlattenIs
<1>5. PICK h : h \in [0..m + n -> Seq(A)] /\ IsFlattening(h, m + n, r) /\ FlattenSeq(r) = h[m + n]
  <2>1. \E h : h \in [0..Len(r) -> Seq(A)] /\ IsFlattening(h, Len(r), r) /\ FlattenSeq(r) = h[Len(r)]
    BY <1>2, FlattenIs, Zenon
  <2> QED BY <1>2, <2>1, Zenon
<1>0. 0 \in 0..n /\ n \in 0..n /\ m \in 0..m /\ m + 0 = m
  BY <1>2
<1>6. f[m] \in Seq(A) /\ g[n] \in Seq(A)
  BY <1>0, <1>3, <1>4, Zenon
<1>7. h[m] = f[m]
  <2>1. f[0] = h[0]
    BY <1>3, <1>5, Zenon DEF IsFlattening
  <2>2. ASSUME NEW i \in 1..m, f[i - 1] = h[i - 1] PROVE f[i] = h[i]
    <3>1. i \in 1..m + n
      BY <1>2
    <3>2. f[i] = f[i - 1] \o s[i] /\ h[i] = h[i - 1] \o r[i] /\ r[i] = s[i]
      BY <1>2, <1>3, <1>5, <3>1, Zenon DEF IsFlattening
    <3> QED BY <2>2, <3>2, Zenon
  <2>3. \A i \in 0..m : f[i] = h[i]
    <3>1. m \in Nat
      BY <1>2
    <3> QED BY <2>1, <2>2, <3>1, SameRecursion, Zenon
  <2> QED BY <1>0, <2>3, Zenon
<1> DEFINE u == [i \in 0..n |-> h[m + i]]
           v == [i \in 0..n |-> f[m] \o g[i]]
<1>8. u[0] = v[0]
  <2>1. u[0] = h[m] /\ v[0] = f[m] \o g[0] /\ g[0] = <<>>
    BY <1>0, <1>4, Zenon DEF IsFlattening
  <2> QED BY <1>6, <1>7, <2>1, ConcatFacts
<1>9. ASSUME NEW i \in 1..n, u[i - 1] = v[i - 1] PROVE u[i] = v[i]
  <2>1. i - 1 \in 0..n /\ i \in 0..n /\ m + i \in 1..m + n /\ (m + i) - 1 = m + (i - 1)
    BY <1>2
  <2>2. h[m + i] = h[m + (i - 1)] \o t[i]
    <3>1. h[m + i] = h[(m + i) - 1] \o r[m + i]
      BY <1>5, <2>1, Zenon DEF IsFlattening
    <3> QED BY <1>2, <2>1, <3>1, Zenon
  <2>3. h[m + (i - 1)] = f[m] \o g[i - 1]
    <3>1. u[i - 1] = h[m + (i - 1)] /\ v[i - 1] = f[m] \o g[i - 1]
      BY <2>1, Zenon
    <3> QED BY <1>9, <3>1, Zenon
  <2>4. g[i] = g[i - 1] \o t[i] /\ g[i - 1] \in Seq(A) /\ t[i] \in Seq(A)
    BY <1>2, <1>4, <2>1, Zenon DEF IsFlattening
  <2>5. (f[m] \o g[i - 1]) \o t[i] = f[m] \o (g[i - 1] \o t[i])
    <3>1. \A a, b, c \in Seq(A) : (a \o b) \o c = a \o (b \o c)
      BY ConcatFacts, Zenon
    <3> QED BY <1>6, <2>4, <3>1, Zenon
  <2> QED BY <2>1, <2>2, <2>3, <2>4, <2>5, Zenon
<1>10. \A i \in 0..n : u[i] = v[i]
  <2>1. n \in Nat
    BY <1>2
  <2> HIDE DEF u, v
  <2> QED BY <1>8, <1>9, <2>1, SameRecursion, Zenon
<1>11. h[m + n] = f[m] \o g[n]
  BY <1>0, <1>10, Zenon
<1> QED BY <1>1, <1>3, <1>4, <1>5, <1>6, <1>11, Zenon

\* A sequence is its two parts.
LEMMA SplitAt ==
    ASSUME NEW A, NEW s \in Seq(A), NEW k \in 0..Len(s)
    PROVE  /\ SubSeq(s, 1, k) \in Seq(A) /\ SubSeq(s, k + 1, Len(s)) \in Seq(A)
           /\ s = SubSeq(s, 1, k) \o SubSeq(s, k + 1, Len(s))
           /\ Len(SubSeq(s, 1, k)) = k /\ \A i \in 1..k : SubSeq(s, 1, k)[i] = s[i]
<1>1. PICK n : n = Len(s) /\ n \in Nat
  OBVIOUS
<1>2. PICK a, b : a = SubSeq(s, 1, k) /\ b = SubSeq(s, k + 1, n)
  OBVIOUS
<1>3. a \in Seq(A) /\ Len(a) = k /\ \A i \in 1..k : a[i] = s[i]
  BY <1>1, <1>2
<1>4. b \in Seq(A) /\ Len(b) = n - k /\ \A i \in 1..n - k : b[i] = s[k + i]
  <2>1. CASE k = n
    <3>1. b = <<>> /\ n - k = 0
      BY <1>1, <1>2, <2>1
    <3> QED BY <3>1
  <2>2. CASE k # n
    BY <1>1, <1>2, <2>2
  <2> QED BY <2>1, <2>2
<1>5. a \o b \in Seq(A) /\ Len(a \o b) = n
  <2>1. a \o b \in Seq(A) /\ Len(a \o b) = Len(a) + Len(b)
    BY <1>3, <1>4, ConcatProperties, Zenon
  <2> QED BY <1>1, <1>3, <1>4, <2>1
<1>6. ASSUME NEW i \in 1..n PROVE (a \o b)[i] = s[i]
  <2>1. \A j \in 1..Len(a) + Len(b) : (a \o b)[j] = IF j <= Len(a) THEN a[j] ELSE b[j - Len(a)]
    BY <1>3, <1>4, ConcatProperties, Zenon
  <2>2. i \in 1..Len(a) + Len(b)
    BY <1>1, <1>3, <1>4
  <2>3. (a \o b)[i] = IF i <= k THEN a[i] ELSE b[i - k]
    BY <1>3, <2>1, <2>2, Zenon
  <2>4. CASE i <= k
    BY <1>3, <2>3, <2>4
  <2>5. CASE ~(i <= k)
    <3>1. i - k \in 1..n - k /\ k + (i - k) = i
      BY <1>1, <2>5
    <3> QED BY <1>4, <2>3, <2>5, <3>1, Zenon
  <2> QED BY <2>4, <2>5
<1>7. a \o b = s
  BY <1>1, <1>5, <1>6, SeqEqual
<1> QED BY <1>1, <1>2, <1>3, <1>4, <1>7, Zenon

\* A list of sequences that gets one more at its end.
LEMMA FlattenAppend ==
    ASSUME NEW A, NEW s \in Seq(Seq(A)), NEW x \in Seq(A)
    PROVE  FlattenSeq(s) \in Seq(A) /\ FlattenSeq(Append(s, x)) = FlattenSeq(s) \o x
<1>1. Append(s, x) = s \o <<x>> /\ <<x>> \in Seq(Seq(A))
  OBVIOUS
<1>2. FlattenSeq(<<x>>) = x
  BY FlattenOne, Zenon
<1> QED BY <1>1, <1>2, FlattenConcat, Zenon

\* What is in a flattened list is in one of its sequences.
LEMMA FlattenElements ==
    ASSUME NEW A, NEW s \in Seq(Seq(A)), NEW e
    PROVE  Among(FlattenSeq(s), e) <=> \E k \in 1..Len(s) : Among(s[k], e)
<1>1. PICK n : n = Len(s) /\ n \in Nat
  OBVIOUS
<1>2. PICK f : f \in [0..n -> Seq(A)] /\ IsFlattening(f, n, s) /\ FlattenSeq(s) = f[n]
  BY <1>1, FlattenIs
<1>3. \A a, b \in Seq(A) : Among(a \o b, e) <=> Among(a, e) \/ Among(b, e)
  <2> SUFFICES ASSUME NEW a \in Seq(A), NEW b \in Seq(A)
               PROVE  Among(a \o b, e) <=> Among(a, e) \/ Among(b, e)
    OBVIOUS
  <2>1. /\ Len(a \o b) = Len(a) + Len(b) /\ Len(a) \in Nat /\ Len(b) \in Nat
        /\ \A k \in 1..Len(a) : (a \o b)[k] = a[k]
        /\ \A k \in 1..Len(b) : (a \o b)[Len(a) + k] = b[k]
    OBVIOUS
  <2>2. ASSUME Among(a, e) PROVE Among(a \o b, e)
    BY <2>1, <2>2 DEF Among
  <2>3. ASSUME Among(b, e) PROVE Among(a \o b, e)
    <3>1. PICK k \in 1..Len(b) : b[k] = e
      BY <2>3 DEF Among
    <3>2. Len(a) + k \in 1..Len(a \o b) /\ (a \o b)[Len(a) + k] = e
      BY <2>1, <3>1
    <3> QED BY <3>2 DEF Among
  <2>4. ASSUME Among(a \o b, e) PROVE Among(a, e) \/ Among(b, e)
    <3>1. PICK k \in 1..Len(a \o b) : (a \o b)[k] = e
      BY <2>4 DEF Among
    <3>2. CASE k \in 1..Len(a)
      BY <2>1, <3>1, <3>2 DEF Among
    <3>3. CASE k \notin 1..Len(a)
      <4>1. k - Len(a) \in 1..Len(b) /\ Len(a) + (k - Len(a)) = k
        BY <2>1, <3>3
      <4>2. b[k - Len(a)] = e
        BY <2>1, <3>1, <4>1
      <4> QED BY <4>1, <4>2 DEF Among
    <3> QED BY <3>2, <3>3
  <2> QED BY <2>2, <2>3, <2>4
<1> DEFINE S == { i \in Nat : i <= n => (Among(f[i], e) <=> \E k \in 1..i : Among(s[k], e)) }
<1>4. 0 \in S
  <2>1. f[0] = <<>>
    BY <1>2, Zenon DEF IsFlattening
  <2> QED BY <2>1 DEF Among
<1>5. ASSUME NEW i \in Nat, i \in S PROVE i + 1 \in S
  <2>1. SUFFICES ASSUME i + 1 <= n
                 PROVE  Among(f[i + 1], e) <=> \E k \in 1..i + 1 : Among(s[k], e)
    OBVIOUS
  <2>2. i + 1 \in 1..n /\ (i + 1) - 1 = i /\ i \in 0..n
    BY <1>1, <2>1
  <2>3. f[i + 1] = f[i] \o s[i + 1]
    <3>1. f[i + 1] = f[(i + 1) - 1] \o s[i + 1]
      BY <1>2, <2>2, Zenon DEF IsFlattening
    <3> QED BY <2>2, <3>1, Zenon
  <2>4. f[i] \in Seq(A)
    BY <1>2, <2>2, Zenon
  <2>5. s[i + 1] \in Seq(A)
    BY <1>1, <2>2
  <2>6. Among(f[i + 1], e) <=> Among(f[i], e) \/ Among(s[i + 1], e)
    BY <1>3, <2>3, <2>4, <2>5, Zenon
  <2>7. Among(f[i], e) <=> \E k \in 1..i : Among(s[k], e)
    BY <1>5, <2>2
  <2>8. \A k : k \in 1..i + 1 <=> k \in 1..i \/ k = i + 1
    BY <2>2
  <2> QED BY <2>6, <2>7, <2>8, Zenon
<1> HIDE DEF S
<1>6. n \in S
  BY <1>1, <1>4, <1>5, Induction
<1>7. Among(f[n], e) <=> \E k \in 1..n : Among(s[k], e)
  BY <1>1, <1>6 DEF S
<1> QED BY <1>1, <1>2, <1>7, Zenon

\* Nothing comes after the i-th sequence, and it grows.
NothingAfter(s, i) == \A j \in 1..Len(s) : j > i => s[j] = <<>>
Grown(s, i, x) == [s EXCEPT ![i] = @ \o x]

\* The last sequence that is not empty grows.
LEMMA FlattenGrow ==
    ASSUME NEW A, NEW s \in Seq(Seq(A)), NEW i \in 1..Len(s), NEW x \in Seq(A)
    PROVE  NothingAfter(s, i) => FlattenSeq(Grown(s, i, x)) = FlattenSeq(s) \o x
<1>a. SUFFICES ASSUME \A j \in 1..Len(s) : j > i => s[j] = <<>>
               PROVE  FlattenSeq(Grown(s, i, x)) = FlattenSeq(s) \o x
  BY DEF NothingAfter
<1>0. /\ \A a, b, c \in Seq(A) : (a \o b) \o c = a \o (b \o c)
      /\ \A a \in Seq(A) : a \o <<>> = a
  BY ConcatFacts, Zenon
<1>1. PICK n : n = Len(s) /\ n \in Nat
  OBVIOUS
<1>9. PICK t : t = Grown(s, i, x)
  OBVIOUS
<1>2. /\ t \in Seq(Seq(A)) /\ Len(t) = n /\ t[i] = s[i] \o x /\ i \in 1..n
      /\ \A j \in 1..n : s[j] \in Seq(A) /\ (j # i => t[j] = s[j])
  BY <1>1, <1>9 DEF Grown
<1>3. PICK f : f \in [0..n -> Seq(A)] /\ IsFlattening(f, n, s) /\ FlattenSeq(s) = f[n]
  BY <1>1, FlattenIs
<1>4. PICK g : g \in [0..n -> Seq(A)] /\ IsFlattening(g, n, t) /\ FlattenSeq(t) = g[n]
  <2>1. \E g : g \in [0..Len(t) -> Seq(A)] /\ IsFlattening(g, Len(t), t) /\ FlattenSeq(t) = g[Len(t)]
    BY <1>2, FlattenIs, Zenon
  <2> QED BY <1>2, <2>1, Zenon
<1> DEFINE h == [j \in 0..n |-> IF j < i THEN f[j] ELSE f[j] \o x]
<1>5. h[0] = g[0]
  <2>1. f[0] = <<>> /\ g[0] = <<>>
    BY <1>3, <1>4, Zenon DEF IsFlattening
  <2>2. h[0] = f[0]
    BY <1>2
  <2> QED BY <2>1, <2>2, Zenon
<1>6. ASSUME NEW j \in 1..n, h[j - 1] = g[j - 1] PROVE h[j] = g[j]
  <2>1. j - 1 \in 0..n /\ j \in 0..n
    BY <1>1
  <2>2. f[j] = f[j - 1] \o s[j] /\ g[j] = g[j - 1] \o t[j] /\ f[j - 1] \in Seq(A) /\ f[j] \in Seq(A)
    BY <1>3, <1>4, <2>1, Zenon DEF IsFlattening
  <2>3. CASE j < i
    <3>1. h[j] = f[j] /\ h[j - 1] = f[j - 1] /\ j # i
      BY <1>1, <2>1, <2>3
    <3> HIDE DEF h
    <3> QED BY <1>2, <1>6, <2>2, <3>1, Zenon
  <2>4. CASE j = i
    <3>1. h[j] = f[j] \o x /\ h[j - 1] = f[j - 1]
      BY <1>1, <2>1, <2>4
    <3>2. t[j] = s[j] \o x /\ s[j] \in Seq(A)
      BY <1>2, <2>4, Zenon
    <3> HIDE DEF h
    <3>3. g[j] = f[j - 1] \o (s[j] \o x)
      BY <1>6, <2>2, <3>1, <3>2, Zenon
    <3>4. (f[j - 1] \o s[j]) \o x = f[j - 1] \o (s[j] \o x)
      BY <1>0, <2>2, <3>2, Zenon
    <3> QED BY <2>2, <3>1, <3>3, <3>4, Zenon
  <2>5. CASE j > i
    <3>0. ~(j < i) /\ ~(j - 1 < i) /\ j # i
      BY <1>1, <2>5
    <3>1. h[j] = f[j] \o x /\ h[j - 1] = f[j - 1] \o x /\ j # i
      BY <2>1, <3>0, Zenon
    <3>2. t[j] = <<>> /\ s[j] = <<>>
      <4>1. j \in 1..Len(s)
        BY <1>1, Zenon
      <4>2. s[j] = <<>>
        BY <1>a, <2>5, <4>1, Zenon
      <4> QED BY <1>2, <3>1, <4>2, Zenon
    <3> HIDE DEF h
    <3>3. f[j] = f[j - 1]
      BY <2>2, <3>2, <1>0, Zenon
    <3>4. g[j] = g[j - 1]
      <4>1. g[j - 1] \in Seq(A)
        BY <1>4, <2>1, Zenon
      <4> QED BY <2>2, <3>2, <4>1, <1>0, Zenon
    <3> QED BY <1>6, <3>1, <3>3, <3>4, Zenon
  <2> QED BY <1>2, <2>3, <2>4, <2>5
<1>7. \A j \in 0..n : h[j] = g[j]
  <2>1. n \in Nat
    BY <1>1
  <2>2. \A j \in 1..n : h[j - 1] = g[j - 1] => h[j] = g[j]
    BY <1>6
  <2> HIDE DEF h
  <2> QED BY <1>5, <2>1, <2>2, SameRecursion, Zenon
<1>8. h[n] = f[n] \o x /\ n \in 0..n
  BY <1>1, <1>2
<1> HIDE DEF h
<1>10. FlattenSeq(t) = FlattenSeq(s) \o x
  BY <1>3, <1>4, <1>7, <1>8, Zenon
<1> QED BY <1>9, <1>10, Zenon

\* Sequences that are not empty have at least as many elements as they are.
LEMMA FlattenLength ==
    ASSUME NEW A, NEW s \in Seq(Seq(A)), \A k \in 1..Len(s) : s[k] # <<>>
    PROVE  Len(s) <= Len(FlattenSeq(s))
<1>1. PICK n : n = Len(s) /\ n \in Nat
  OBVIOUS
<1>2. PICK f : f \in [0..n -> Seq(A)] /\ IsFlattening(f, n, s) /\ FlattenSeq(s) = f[n]
  BY <1>1, FlattenIs
<1> DEFINE S == { i \in Nat : i <= n => i <= Len(f[i]) }
<1>3. 0 \in S
  <2>1. f[0] \in Seq(A)
    BY <1>1, <1>2
  <2> QED BY <2>1
<1>4. ASSUME NEW i \in Nat, i \in S PROVE i + 1 \in S
  <2>1. SUFFICES ASSUME i + 1 <= n PROVE i + 1 <= Len(f[i + 1])
    OBVIOUS
  <2>2. i + 1 \in 1..n /\ (i + 1) - 1 = i /\ i \in 0..n
    BY <1>1, <2>1
  <2>3. f[i + 1] = f[i] \o s[i + 1]
    <3>1. f[i + 1] = f[(i + 1) - 1] \o s[i + 1]
      BY <1>2, <2>2, Zenon DEF IsFlattening
    <3> QED BY <2>2, <3>1, Zenon
  <2>4. f[i] \in Seq(A)
    BY <1>2, <2>2, Zenon
  <2>5. s[i + 1] \in Seq(A) /\ s[i + 1] # <<>>
    BY <1>1, <2>2
  <2>6. i <= Len(f[i])
    <3>1. i <= n
      BY <1>1, <2>1
    <3> QED BY <1>4, <3>1
  <2>7. \A a, b \in Seq(A) : b # <<>> => Len(a) \in Nat /\ Len(a \o b) >= Len(a) + 1
    OBVIOUS
  <2>8. Len(f[i]) \in Nat /\ Len(f[i] \o s[i + 1]) >= Len(f[i]) + 1
    BY <2>4, <2>5, <2>7, Zenon
  <2>9. Len(f[i + 1]) >= Len(f[i]) + 1
    BY <2>3, <2>8, Zenon
  <2>10. Len(f[i + 1]) \in Nat
    <3>1. f[i + 1] \in Seq(A)
      BY <2>3, <2>4, <2>5
    <3> QED BY <3>1
  <2> QED BY <2>6, <2>8, <2>9, <2>10
<1> HIDE DEF S
<1>5. n \in S
  BY <1>1, <1>3, <1>4, Induction
<1>6. n <= Len(f[n])
  BY <1>1, <1>5 DEF S
<1> QED BY <1>1, <1>2, <1>6, Zenon

-----------------------------------------------------------------------------
(* The recursive definitions of LogFile.                                   *)

\* f holds the numbers up to k that are not in w, in their order.
IsAccepting(f, n, w) ==
    f[0] = <<>> /\ \A k \in 1..n : f[k] = IF k \in w THEN f[k - 1] ELSE Append(f[k - 1], k)

\* The function in the definition of Accepted().
Accepting(n, w) == CHOOSE h : h = [k \in 0..n |-> IF k = 0 THEN <<>>
                                                  ELSE IF k \in w THEN h[k - 1]
                                                  ELSE Append(h[k - 1], k)]

\* Accepted() does what it says.
LEMMA AcceptedIs ==
    ASSUME NEW n \in Nat, NEW w
    PROVE  \E f : f \in [0..n -> Seq(Nat)] /\ IsAccepting(f, n, w) /\ LF!Accepted(n, w) = f[n]
<1> DEFINE X == Seq(Nat)
           g == [k \in 1..n |-> [x \in X |-> IF k \in w THEN x ELSE Append(x, k)]]
           Def(h) == [k \in 0..n |-> IF k = 0 THEN <<>>
                                     ELSE IF k \in w THEN h[k - 1] ELSE Append(h[k - 1], k)]
<1>1. <<>> \in X
  OBVIOUS
<1>2. \A k \in 1..n : \A x \in X : (IF k \in w THEN x ELSE Append(x, k)) \in X
  <2> SUFFICES ASSUME NEW k \in 1..n, NEW x \in X PROVE Append(x, k) \in X
    OBVIOUS
  <2> QED OBVIOUS
<1> HIDE DEF X
<1>3. g \in [1..n -> [X -> X]]
  BY <1>2, Zenon
<1>4. \A k \in 1..n : \A x \in X : g[k][x] = IF k \in w THEN x ELSE Append(x, k)
  BY Zenon
<1> HIDE DEF g
<1>5. PICK e : e = <<>>
  OBVIOUS
<1>6. PICK f : f \in [0..n -> X] /\ f[0] = e /\ \A i \in 1..n : f[i] = g[i][f[i - 1]]
  <2>1. e \in X
    BY <1>1, <1>5, Zenon
  <2> QED BY <1>3, <2>1, Recursion
<1>7. ASSUME NEW k \in 1..n
      PROVE  f[k] = IF k \in w THEN f[k - 1] ELSE Append(f[k - 1], k)
  <2>1. k - 1 \in 0..n
    OBVIOUS
  <2> QED BY <1>4, <1>6, <2>1, Zenon
<1>8. IsAccepting(f, n, w)
  BY <1>5, <1>6, <1>7, Zenon DEF IsAccepting
<1>9. f = Def(f)
  <2>1. ASSUME NEW k \in 0..n
        PROVE  f[k] = IF k = 0 THEN <<>>
                      ELSE IF k \in w THEN f[k - 1] ELSE Append(f[k - 1], k)
    <3>1. CASE k = 0
      BY <1>5, <1>6, <3>1, Zenon
    <3>2. CASE k # 0
      <4>1. k \in 1..n
        BY <3>2
      <4> QED BY <1>7, <3>2, <4>1, Zenon
    <3> QED BY <3>1, <3>2
  <2>2. f = [k \in 0..n |-> f[k]]
    BY <1>6, Zenon
  <2> QED BY <2>1, <2>2, Zenon
<1> DEFINE h == Accepting(n, w)
<1> HIDE DEF Def
<1>10. h = Def(h)
  <2>1. h = CHOOSE r : r = Def(r)
    BY Zenon DEF Accepting, Def
  <2> QED BY <1>9, <2>1
<1>11. LF!Accepted(n, w) = h[n]
  BY Zenon DEF LF!Accepted, Accepting
<1> HIDE DEF h
<1>12. \A i \in 0..n : f[i] = h[i]
  <2>1. f[0] = h[0]
    <3>1. 0 \in 0..n
      OBVIOUS
    <3> QED BY <1>5, <1>6, <1>10, <3>1, Zenon DEF Def
  <2>2. ASSUME NEW i \in 1..n, f[i - 1] = h[i - 1] PROVE f[i] = h[i]
    <3>1. i \in 0..n /\ i # 0
      OBVIOUS
    <3>2. h[i] = IF i \in w THEN h[i - 1] ELSE Append(h[i - 1], i)
      BY <1>10, <3>1, Zenon DEF Def
    <3> QED BY <1>7, <2>2, <3>2, Zenon
  <2> QED BY <2>1, <2>2, SameRecursion, Zenon
<1>13. n \in 0..n
  OBVIOUS
<1> QED BY <1>6, <1>8, <1>11, <1>12, <1>13, Zenon DEF X

\* f holds the sizes of the first chunks of s.
IsSumming(f, n, s) == f[0] = 0 /\ \A k \in 1..n : f[k] = f[k - 1] + s[k].len

\* The function in the definition of Size().
Summing(n, s) == CHOOSE h : h = [k \in 0..n |-> IF k = 0 THEN 0 ELSE h[k - 1] + s[k].len]

\* Size() adds up the lengths of the chunks.
LEMMA SizeIs ==
    ASSUME NEW n \in Nat, NEW s
    PROVE  (\A k \in 1..n : s[k].len \in Nat) =>
           \E f : f \in [0..n -> Nat] /\ IsSumming(f, n, s) /\ Summing(n, s)[n] = f[n]
<1>0. SUFFICES ASSUME \A k \in 1..n : s[k].len \in Nat
               PROVE  \E f : f \in [0..n -> Nat] /\ IsSumming(f, n, s) /\ Summing(n, s)[n] = f[n]
  OBVIOUS
<1>a. PICK X : X = Nat
  OBVIOUS
<1> DEFINE g == [k \in 1..n |-> [x \in X |-> x + s[k].len]]
           Def(h) == [k \in 0..n |-> IF k = 0 THEN 0 ELSE h[k - 1] + s[k].len]
<1>1. 0 \in X
  BY <1>a
<1>2. \A k \in 1..n : \A x \in X : x + s[k].len \in X
  BY <1>0, <1>a
<1>3. g \in [1..n -> [X -> X]]
  BY <1>2, Zenon
<1>4. \A k \in 1..n : \A x \in X : g[k][x] = x + s[k].len
  BY Zenon
<1> HIDE DEF g
<1>5. PICK z : z = 0
  OBVIOUS
<1>6. PICK f : f \in [0..n -> X] /\ f[0] = z /\ \A i \in 1..n : f[i] = g[i][f[i - 1]]
  <2>1. z \in X
    BY <1>1, <1>5
  <2> QED BY <1>3, <2>1, Recursion
<1>7. ASSUME NEW k \in 1..n PROVE f[k] = f[k - 1] + s[k].len
  <2>1. k - 1 \in 0..n
    OBVIOUS
  <2> QED BY <1>4, <1>6, <2>1, Zenon
<1>8. IsSumming(f, n, s)
  BY <1>5, <1>6, <1>7, Zenon DEF IsSumming
<1>9. f = Def(f)
  <2>1. ASSUME NEW k \in 0..n
        PROVE  f[k] = IF k = 0 THEN 0 ELSE f[k - 1] + s[k].len
    <3>1. CASE k = 0
      BY <1>5, <1>6, <3>1, Zenon
    <3>2. CASE k # 0
      <4>1. k \in 1..n
        BY <3>2
      <4> QED BY <1>7, <3>2, <4>1, Zenon
    <3> QED BY <3>1, <3>2
  <2>2. f = [k \in 0..n |-> f[k]]
    BY <1>6, Zenon
  <2> QED BY <2>1, <2>2, Zenon
<1> DEFINE h == Summing(n, s)
<1> HIDE DEF Def
<1>10. h = Def(h)
  <2>1. h = CHOOSE r : r = Def(r)
    BY Zenon DEF Summing, Def
  <2> QED BY <1>9, <2>1
<1> HIDE DEF h
<1>12. \A i \in 0..n : f[i] = h[i]
  <2>1. f[0] = h[0]
    <3>1. 0 \in 0..n
      OBVIOUS
    <3> QED BY <1>5, <1>6, <1>10, <3>1, Zenon DEF Def
  <2>2. ASSUME NEW i \in 1..n, f[i - 1] = h[i - 1] PROVE f[i] = h[i]
    <3>1. i \in 0..n /\ i # 0
      OBVIOUS
    <3>2. h[i] = h[i - 1] + s[i].len
      BY <1>10, <3>1, Zenon DEF Def
    <3> QED BY <1>7, <2>2, <3>2, Zenon
  <2> QED BY <2>1, <2>2, SameRecursion, Zenon
<1>13. n \in 0..n /\ h[n] = Summing(n, s)[n]
  BY DEF h
<1> QED BY <1>a, <1>6, <1>8, <1>12, <1>13, Zenon

\* One more chunk: its number is accepted unless it is refused.
LEMMA AcceptedStep ==
    ASSUME NEW n \in Nat, NEW w
    PROVE  /\ LF!Accepted(n, w) \in Seq(Nat) /\ LF!Accepted(0, w) = <<>>
           /\ LF!Accepted(n + 1, w) = IF n + 1 \in w THEN LF!Accepted(n, w)
                                      ELSE Append(LF!Accepted(n, w), n + 1)
<1>1. PICK m : m = n + 1 /\ m \in Nat
  OBVIOUS
<1>2. PICK f : f \in [0..n -> Seq(Nat)] /\ IsAccepting(f, n, w) /\ LF!Accepted(n, w) = f[n]
  BY AcceptedIs, Zenon
<1>3. PICK g : g \in [0..m -> Seq(Nat)] /\ IsAccepting(g, m, w) /\ LF!Accepted(m, w) = g[m]
  BY <1>1, AcceptedIs, Zenon
<1>4. PICK z : z = 0 /\ z \in Nat
  OBVIOUS
<1>5. PICK h : IsAccepting(h, z, w) /\ LF!Accepted(z, w) = h[z]
  BY <1>4, AcceptedIs, Zenon
<1>6. \A i \in 0..n : f[i] = g[i]
  <2>1. f[0] = g[0]
    BY <1>2, <1>3, Zenon DEF IsAccepting
  <2>2. ASSUME NEW i \in 1..n, f[i - 1] = g[i - 1] PROVE f[i] = g[i]
    <3>1. i \in 1..m
      BY <1>1
    <3> QED BY <1>2, <1>3, <2>2, <3>1, Zenon DEF IsAccepting
  <2> QED BY <2>1, <2>2, SameRecursion, Zenon
<1>7. n \in 0..n /\ m \in 1..m /\ m - 1 = n
  BY <1>1
<1>8. g[m] = IF m \in w THEN f[n] ELSE Append(f[n], m)
  <2>1. g[m] = IF m \in w THEN g[m - 1] ELSE Append(g[m - 1], m)
    BY <1>3, <1>7, Zenon DEF IsAccepting
  <2> QED BY <1>6, <1>7, <2>1, Zenon
<1>9. LF!Accepted(z, w) = <<>>
  BY <1>4, <1>5, Zenon DEF IsAccepting
<1>10. LF!Accepted(n, w) \in Seq(Nat)
  BY <1>2, <1>7, Zenon
<1> QED BY <1>1, <1>2, <1>3, <1>4, <1>8, <1>9, <1>10, Zenon

\* Only what is refused among the first n numbers counts.
LEMMA AcceptedSame ==
    ASSUME NEW n \in Nat, NEW w, NEW v
    PROVE  (\A k \in 1..n : k \in w <=> k \in v) => LF!Accepted(n, w) = LF!Accepted(n, v)
<1>0. SUFFICES ASSUME \A k \in 1..n : k \in w <=> k \in v
               PROVE  LF!Accepted(n, w) = LF!Accepted(n, v)
  OBVIOUS
<1>1. PICK f : IsAccepting(f, n, w) /\ LF!Accepted(n, w) = f[n]
  BY AcceptedIs, Zenon
<1>2. PICK g : IsAccepting(g, n, v) /\ LF!Accepted(n, v) = g[n]
  BY AcceptedIs, Zenon
<1>3. f[0] = g[0]
  BY <1>1, <1>2, Zenon DEF IsAccepting
<1>4. ASSUME NEW i \in 1..n, f[i - 1] = g[i - 1] PROVE f[i] = g[i]
  BY <1>0, <1>1, <1>2, <1>4, Zenon DEF IsAccepting
<1>5. \A i \in 0..n : f[i] = g[i]
  BY <1>3, <1>4, SameRecursion, Zenon
<1>6. n \in 0..n
  OBVIOUS
<1> QED BY <1>1, <1>2, <1>5, <1>6, Zenon

\* No chunks have no size.
LEMMA EmptySize == LF!Size(<<>>) = 0
<1>1. PICK z, e : z = 0 /\ z \in Nat /\ e = <<>> /\ Len(e) = z
  OBVIOUS
<1>2. \A k \in 1..z : e[k].len \in Nat
  BY <1>1
<1>3. PICK h : IsSumming(h, z, e) /\ Summing(z, e)[z] = h[z]
  BY <1>1, <1>2, SizeIs, Zenon
<1>4. LF!Size(e) = h[z]
  <2>1. \A q, n : n = Len(q) => LF!Size(q) = Summing(n, q)[n]
    BY Zenon DEF LF!Size, Summing
  <2> QED BY <1>1, <1>3, <2>1, Zenon
<1> QED BY <1>1, <1>3, <1>4, Zenon DEF IsSumming

\* One more chunk adds its length to the size.
LEMMA SizeStep ==
    ASSUME NEW s \in Seq(LF!Chunk), NEW c \in LF!Chunk
    PROVE  /\ LF!Size(s) \in Nat
           /\ LF!Size(Append(s, c)) = LF!Size(s) + c.len
<1>0. \A q, n : n = Len(q) => LF!Size(q) = Summing(n, q)[n]
  BY Zenon DEF LF!Size, Summing
<1>1. PICK n : n = Len(s) /\ n \in Nat
  OBVIOUS
<1>2. PICK m : m = n + 1 /\ m \in Nat
  BY <1>1
<1>3. PICK r : r = Append(s, c)
  OBVIOUS
<1>4. /\ Len(r) = m /\ r[m] = c
      /\ \A k \in 1..n : r[k] = s[k] /\ s[k].len \in Nat
      /\ \A k \in 1..m : r[k].len \in Nat
  <2>1. \A d \in LF!Chunk : d.len \in Nat
    BY FileAssumption DEF LF!Chunk
  <2>2. /\ Len(r) = m /\ r[m] = c
        /\ \A k \in 1..n : r[k] = s[k] /\ s[k] \in LF!Chunk
        /\ \A k \in 1..m : r[k] \in LF!Chunk
    BY <1>1, <1>2, <1>3
  <2> QED BY <2>1, <2>2, Zenon
<1>5. PICK f : f \in [0..n -> Nat] /\ IsSumming(f, n, s) /\ LF!Size(s) = f[n]
  <2>1. \E f : f \in [0..n -> Nat] /\ IsSumming(f, n, s) /\ Summing(n, s)[n] = f[n]
    BY <1>1, <1>4, SizeIs, Zenon
  <2> QED BY <1>0, <1>1, <2>1, Zenon
<1>6. PICK g : g \in [0..m -> Nat] /\ IsSumming(g, m, r) /\ LF!Size(r) = g[m]
  <2>1. \E g : g \in [0..m -> Nat] /\ IsSumming(g, m, r) /\ Summing(m, r)[m] = g[m]
    BY <1>2, <1>4, SizeIs, Zenon
  <2> QED BY <1>0, <1>4, <2>1, Zenon
<1>7. \A i \in 0..n : f[i] = g[i]
  <2>1. f[0] = g[0]
    BY <1>5, <1>6, Zenon DEF IsSumming
  <2>2. ASSUME NEW i \in 1..n, f[i - 1] = g[i - 1] PROVE f[i] = g[i]
    <3>1. i \in 1..m
      BY <1>1, <1>2
    <3> QED BY <1>4, <1>5, <1>6, <2>2, <3>1, Zenon DEF IsSumming
  <2>3. n \in Nat
    BY <1>1
  <2> QED BY <2>1, <2>2, <2>3, SameRecursion, Zenon
<1>8. n \in 0..n /\ m \in 1..m /\ m - 1 = n
  BY <1>1, <1>2
<1>9. g[m] = f[n] + c.len
  <2>1. g[m] = g[m - 1] + r[m].len
    BY <1>6, <1>8, Zenon DEF IsSumming
  <2> QED BY <1>4, <1>7, <1>8, <2>1, Zenon
<1>10. f[n] \in Nat
  BY <1>5, <1>8, Zenon
<1> QED BY <1>3, <1>5, <1>6, <1>9, <1>10, Zenon

\* Products of natural numbers.
LEMMA Products ==
    \A a, b, c \in Nat : /\ (a + 1) * c = a * c + c /\ a * c \in Nat
                         /\ a <= b => a * c <= b * c
OBVIOUS

-----------------------------------------------------------------------------
(* The rotating file.                                                      *)

\* What the files named in d hold, read in the order of their names.
FilesOf(d) == FlattenSeq([k \in 1 .. LF!Sec(MaxTime) + 1 |-> d[k - 1]])

\* The file's module flattens sequences the same way.
LEMMA SameFlatten == ASSUME NEW s PROVE LF!FlattenSeq(s) = FlattenSeq(s)
BY Zenon DEF LF!FlattenSeq, FlattenSeq

\* Chunks go from the front of fresh to the end of the current file; the others
\* stay in the buffer.
Moves(fresh) ==
    \E a, b \in Seq(LF!Chunk) :
        /\ fresh = a \o b
        /\ disk' = [disk EXCEPT ![filename] = @ \o a]
        /\ buffered' = b

\* The files after the current one have not been made yet.
NothingAhead == \A s \in LF!Names : s > filename => disk[s] = <<>>

\* The names are the seconds of the readings.
LEMMA Seconds ==
    /\ LF!Sec(MaxTime) \in Nat
    /\ \A t \in 0..MaxTime : LF!Sec(t) \in LF!Names /\ LF!Period(t) \in LF!Names
    /\ \A t, u \in 0..MaxTime : t <= u => LF!Sec(t) <= LF!Sec(u)
BY FileAssumption DEF LF!Sec, LF!Period, LF!Names

\* Writing to the current file adds to the end of all that is on disk.
LEMMA FilesGrow ==
    ASSUME NEW d, NEW n \in LF!Names, NEW x \in Seq(LF!Chunk)
    PROVE  d \in [LF!Names -> Seq(LF!Chunk)] /\ (\A s \in LF!Names : s > n => d[s] = <<>>)
           => /\ FilesOf(d) \in Seq(LF!Chunk)
              /\ FilesOf([d EXCEPT ![n] = @ \o x]) = FilesOf(d) \o x
<1>0. SUFFICES ASSUME d \in [LF!Names -> Seq(LF!Chunk)], \A s \in LF!Names : s > n => d[s] = <<>>
               PROVE  /\ FilesOf(d) \in Seq(LF!Chunk)
                      /\ FilesOf([d EXCEPT ![n] = @ \o x]) = FilesOf(d) \o x
  OBVIOUS
<1>1. PICK C : C = LF!Chunk
  OBVIOUS
<1>2. PICK m : m = LF!Sec(MaxTime) /\ m \in Nat /\ LF!Names = 0..m
  BY Seconds DEF LF!Names
<1>3. PICK f : f = [k \in 1..m + 1 |-> d[k - 1]]
  OBVIOUS
<1>4. PICK e : e = [d EXCEPT ![n] = @ \o x]
  BY Zenon
<1>5. PICK g : g = [k \in 1..m + 1 |-> e[k - 1]]
  OBVIOUS
<1>6. PICK i : i = n + 1 /\ i \in 1..m + 1 /\ i - 1 = n
  BY <1>2
<1>7. \A k \in 1..m + 1 : k - 1 \in LF!Names /\ (k > i => k - 1 > n) /\ (k # i => k - 1 # n)
  BY <1>2, <1>6
<1>8. /\ \A k \in 1..m + 1 : f[k] = d[k - 1] /\ f[k] \in Seq(C) /\ (k > i => f[k] = <<>>)
      /\ f \in [1..m + 1 -> Seq(C)]
  <2>1. \A k \in 1..m + 1 : d[k - 1] \in Seq(C) /\ (k > i => d[k - 1] = <<>>)
    BY <1>0, <1>1, <1>7, Zenon
  <2> QED BY <1>3, <2>1, Zenon
<1>9. f \in Seq(Seq(C)) /\ Len(f) = m + 1
  BY <1>2, <1>8
<1>10. g = [f EXCEPT ![i] = @ \o x]
  <2>1. \A k \in 1..m + 1 : e[k - 1] = IF k = i THEN d[k - 1] \o x ELSE d[k - 1]
    BY <1>0, <1>4, <1>6, <1>7, Zenon
  <2> QED BY <1>5, <1>3, <1>6, <2>1, Zenon
<1>11. i \in 1..Len(f) /\ \A j \in 1..Len(f) : j > i => f[j] = <<>>
  BY <1>6, <1>8, <1>9, Zenon
<1>12. x \in Seq(C)
  BY <1>1, Zenon
<1>13. FlattenSeq(g) = FlattenSeq(f) \o x
  <2>1. f \in Seq(Seq(C)) /\ i \in 1..Len(f) /\ x \in Seq(C)
    BY <1>9, <1>11, <1>12, Zenon
  <2>2. NothingAfter(f, i)
    BY <1>11, Zenon DEF NothingAfter
  <2>3. FlattenSeq(Grown(f, i, x)) = FlattenSeq(f) \o x
    BY <2>1, <2>2, FlattenGrow, Zenon
  <2> QED BY <1>10, <2>3, Zenon DEF Grown
<1>14. FlattenSeq(f) \in Seq(C)
  BY <1>9, FlattenConcat, Zenon
<1>15. FilesOf(d) = FlattenSeq(f) /\ FilesOf(e) = FlattenSeq(g)
  BY <1>2, <1>3, <1>5, Zenon DEF FilesOf
<1> QED BY <1>1, <1>4, <1>10, <1>13, <1>14, <1>15, Zenon

\* Moving chunks to the file, also to close it, loses and reorders nothing.
LEMMA MovesKeep ==
    ASSUME NEW fresh, disk \in [LF!Names -> Seq(LF!Chunk)], filename \in LF!Names,
           NothingAhead, Moves(fresh)
    PROVE  /\ disk' \in [LF!Names -> Seq(LF!Chunk)] /\ buffered' \in Seq(LF!Chunk)
           /\ \A s \in LF!Names : s > filename => disk'[s] = <<>>
           /\ FilesOf(disk') \o buffered' = FilesOf(disk) \o fresh
           /\ disk'[filename] \o buffered' = disk[filename] \o fresh
<1>1. PICK a, b \in Seq(LF!Chunk) :
        /\ fresh = a \o b
        /\ disk' = [disk EXCEPT ![filename] = @ \o a]
        /\ buffered' = b
  BY Zenon DEF Moves
<1>2. disk[filename] \in Seq(LF!Chunk)
  BY Zenon
<1>3. disk[filename] \o a \in Seq(LF!Chunk)
  BY <1>1, <1>2
<1>4. /\ disk'[filename] = disk[filename] \o a
      /\ \A s \in LF!Names : s # filename => disk'[s] = disk[s]
      /\ disk' \in [LF!Names -> Seq(LF!Chunk)]
  BY <1>1, <1>3, Zenon
<1>5. \A s \in LF!Names : s > filename => disk'[s] = <<>>
  <2>1. \A s \in LF!Names : s > filename => s # filename
    BY Seconds DEF LF!Names
  <2> QED BY <1>4, <2>1, Zenon DEF NothingAhead
<1>6. FilesOf(disk) \in Seq(LF!Chunk) /\ FilesOf(disk') = FilesOf(disk) \o a
  BY <1>1, FilesGrow, Zenon DEF NothingAhead
<1>7. \A p, q, r \in Seq(LF!Chunk) : (p \o q) \o r = p \o (q \o r)
  BY ConcatFacts, Zenon
<1>8. FilesOf(disk') \o buffered' = FilesOf(disk) \o fresh
  <2>1. (FilesOf(disk) \o a) \o b = FilesOf(disk) \o (a \o b)
    BY <1>6, <1>7, Zenon
  <2>2. fresh = a \o b /\ buffered' = b
    BY <1>1, Zenon
  <2> QED BY <1>6, <2>1, <2>2, Zenon
<1>9. disk'[filename] \o buffered' = disk[filename] \o fresh
  BY <1>1, <1>2, <1>4, <1>7, Zenon
<1> QED BY <1>1, <1>4, <1>5, <1>8, <1>9, Zenon

\* The current file is named after the last rotation.
Named ==
    /\ filename = LF!Sec(last_rotate) /\ start_of_period = LF!Period(last_rotate)
    /\ NothingAhead

\* What was appended and not refused is on disk or in the buffer, and the counter
\* covers it.
Holds(all, in_current, size) ==
    /\ refused \subseteq 1..chunks
    /\ size <= chunks * ChunkLen
    /\ LF!Ids(all) = LF!Accepted(chunks, refused)
    /\ LF!Size(in_current) <= size
Held == Holds(FilesOf(disk) \o buffered, disk[filename] \o buffered, bytes)

\* The clock was not set back, and what is overdue waits for the count.
Timely ==
    ~clock_steps => last_rotate <= last_flush /\ last_flush <= clock /\ overdue <= count

\* The inductive invariant of the rotating file.
FileInv == LF!TypeOK /\ Named /\ Held /\ Timely

\* The chunks in fresh are kept in the current file, or it is closed and another
\* opened.
Stays(size) == bytes' = size /\ UNCHANGED <<filename, last_rotate, start_of_period>>
Closes ==
    /\ last_rotate' \in 1..MaxTime /\ last_rotate' > last_rotate
    /\ LF!Sec(last_rotate') # filename
    /\ filename' = LF!Sec(last_rotate') /\ start_of_period' = LF!Period(last_rotate')
    /\ bytes' = 0 /\ buffered' = <<>>

\* Either way the file keeps its promises.
LEMMA FileKeeps ==
    ASSUME LF!TypeOK, Named, NEW fresh \in Seq(LF!Chunk), NEW size \in Nat,
           chunks' \in 0..NumChunks, refused' \subseteq 1..chunks', size <= chunks' * ChunkLen,
           LF!Ids(FilesOf(disk) \o fresh) = LF!Accepted(chunks', refused'),
           LF!Size(disk[filename] \o fresh) <= size,
           Moves(fresh), Stays(size) \/ Closes
    PROVE  /\ Named' /\ Held' /\ filename' \in LF!Names /\ start_of_period' \in LF!Names
           /\ bytes' \in 0 .. NumChunks * ChunkLen /\ buffered' \in Seq(LF!Chunk)
           /\ disk' \in [LF!Names -> Seq(LF!Chunk)] /\ refused' \subseteq 1..NumChunks
           /\ last_rotate' \in 0..MaxTime
<1>1. /\ disk' \in [LF!Names -> Seq(LF!Chunk)] /\ buffered' \in Seq(LF!Chunk)
      /\ \A s \in LF!Names : s > filename => disk'[s] = <<>>
      /\ FilesOf(disk') \o buffered' = FilesOf(disk) \o fresh
      /\ disk'[filename] \o buffered' = disk[filename] \o fresh
  BY MovesKeep DEF Named, LF!TypeOK
<1>2. filename \in LF!Names /\ start_of_period \in LF!Names /\ last_rotate \in 0..MaxTime
  BY DEF LF!TypeOK
<1>3. refused' \subseteq 1..NumChunks
  BY FileAssumption
<1>4. chunks' * ChunkLen <= NumChunks * ChunkLen /\ chunks' * ChunkLen \in Nat
  <2>1. chunks' \in Nat /\ NumChunks \in Nat /\ ChunkLen \in Nat /\ chunks' <= NumChunks
    BY FileAssumption
  <2> QED BY <2>1, Products
<1>5. size \in 0 .. NumChunks * ChunkLen /\ 0 \in 0 .. NumChunks * ChunkLen
  <2>1. PICK p, q : p = chunks' * ChunkLen /\ q = NumChunks * ChunkLen
    OBVIOUS
  <2>2. p \in Nat /\ q \in Nat /\ p <= q /\ size <= p
    <3>1. NumChunks \in Nat /\ ChunkLen \in Nat
      BY FileAssumption
    <3> QED BY <1>4, <2>1, <3>1, Products, Zenon
  <2>3. size \in 0..q /\ 0 \in 0..q
    BY <2>2
  <2> QED BY <2>1, <2>3, Zenon
<1>6. FilesOf(disk)' = FilesOf(disk')
  BY Zenon DEF FilesOf
<1>7. CASE Stays(size)
  <2>1. Named'
    BY <1>1, <1>7, Zenon DEF Named, NothingAhead, Stays
  <2>2. Held'
    BY <1>1, <1>6, <1>7, Zenon DEF Held, Holds, Stays
  <2> QED BY <1>1, <1>2, <1>3, <1>5, <1>7, <2>1, <2>2 DEF Stays
<1>8. CASE Closes
  <2>1. PICK t \in 1..MaxTime : t = last_rotate'
    BY <1>8 DEF Closes
  <2>2. t > last_rotate /\ LF!Sec(t) # filename /\ filename' = LF!Sec(t) /\ start_of_period' = LF!Period(t)
    BY <1>8, <2>1, Zenon DEF Closes
  <2>3. LF!Sec(t) \in LF!Names /\ LF!Period(t) \in LF!Names /\ LF!Sec(t) > filename
    <3>1. filename = LF!Sec(last_rotate)
      BY DEF Named
    <3> QED BY <1>2, <2>2, <3>1, Seconds DEF LF!Names
  <2>4. \A s \in LF!Names : s > LF!Sec(t) => s > filename
    BY <1>2, <2>3, Seconds DEF LF!Names
  <2>5. Named'
    BY <1>1, <2>1, <2>2, <2>4, Zenon DEF Named, NothingAhead
  <2>6. disk'[filename'] \o buffered' = <<>>
    <3>1. disk'[filename'] = <<>> /\ buffered' = <<>>
      BY <1>1, <1>8, <2>2, <2>3, Zenon DEF Closes
    <3> QED BY <3>1
  <2>7. LF!Size(<<>>) = 0
    BY EmptySize
  <2>8. bytes' = 0 /\ 0 <= chunks' * ChunkLen /\ 0 <= 0
    BY <1>4, <1>8 DEF Closes
  <2>9. Held'
    BY <1>1, <1>6, <2>6, <2>7, <2>8, Zenon DEF Held, Holds
  <2>10. t \in 0..MaxTime
    OBVIOUS
  <2> QED BY <1>1, <1>3, <1>5, <2>1, <2>2, <2>3, <2>5, <2>8, <2>9, <2>10, Zenon
<1> QED BY <1>7, <1>8

\* One more chunk at the end.
LEMMA LastChunk ==
    ASSUME NEW C, NEW s \in Seq(C), NEW t \in Seq(C), NEW c \in C
    PROVE  /\ s \o t \in Seq(C) /\ Append(t, c) \in Seq(C)
           /\ s \o Append(t, c) = Append(s \o t, c)
<1>1. \A q \in Seq(C) : Append(q, c) = q \o <<c>>
  OBVIOUS
<1>2. s \o t \in Seq(C) /\ Append(t, c) \in Seq(C) /\ <<c>> \in Seq(C)
  <2>1. <<c>> \in Seq(C)
    OBVIOUS
  <2>2. \A q \in Seq(C) : Append(q, c) \in Seq(C) /\ s \o q \in Seq(C)
    OBVIOUS
  <2> QED BY <2>1, <2>2, Zenon
<1>3. \A a, b, d \in Seq(C) : (a \o b) \o d = a \o (b \o d)
  BY ConcatFacts, Zenon
<1>4. (s \o t) \o <<c>> = s \o (t \o <<c>>)
  BY <1>2, <1>3, Zenon
<1> QED BY <1>1, <1>2, <1>4, Zenon

\* The number of the chunk comes last.
LEMMA LastId ==
    ASSUME NEW s \in Seq(LF!Chunk), NEW c \in LF!Chunk
    PROVE  LF!Ids(Append(s, c)) = Append(LF!Ids(s), c.id)
<1>1. PICK C : C = LF!Chunk
  OBVIOUS
<1>a. s \in Seq(C) /\ c \in C /\ Len(s) \in Nat
  BY <1>1
<1>2. PICK r, n : r = Append(s, c) /\ n = Len(s) /\ n \in Nat
  BY <1>a, Zenon
<1>3. /\ DOMAIN s = 1..n /\ DOMAIN r = 1..n + 1 /\ r[n + 1] = c
      /\ \A k \in 1..n : r[k] = s[k]
  BY <1>a, <1>2
<1>4. PICK p : p = [k \in 1..n |-> s[k].id]
  OBVIOUS
<1>5. PICK q : q = [k \in 1..n + 1 |-> r[k].id]
  OBVIOUS
<1>6. LF!Ids(s) = p /\ LF!Ids(r) = q
  BY <1>3, <1>4, <1>5, Zenon DEF LF!Ids
<1>7. q = Append(p, c.id)
  <2>1. PICK x : x = c.id
    OBVIOUS
  <2>2. \A k \in 1..n : q[k] = p[k] /\ k \in 1..n + 1
    BY <1>2, <1>3, <1>4, <1>5
  <2>3. q[n + 1] = x
    BY <1>2, <1>3, <1>5, <2>1
  <2>4. q = [k \in 1..n + 1 |-> IF k \in 1..n THEN p[k] ELSE x]
    <3>1. \A k \in 1..n + 1 : r[k].id = IF k \in 1..n THEN p[k] ELSE x
      BY <1>2, <1>3, <1>4, <2>1
    <3> QED BY <1>5, <3>1, Zenon
  <2>5. Len(p) = n
    BY <1>2, <1>4
  <2>6. Append(p, x) = [k \in 1..n + 1 |-> IF k \in 1..n THEN p[k] ELSE x]
    BY <1>2, <1>4, <2>5
  <2> QED BY <2>1, <2>4, <2>6, Zenon
<1> QED BY <1>2, <1>6, <1>7, Zenon

\* File::append(): whether fwrite() takes the chunk or not, and also when it is
\* empty, what is to be written next has the accepted chunks in their order.
LEMMA FileAppendHolds ==
    ASSUME LF!TypeOK, Held, NEW len \in 0..ChunkLen, NEW ok \in BOOLEAN,
           len # 0 => chunks < NumChunks, NEW fresh,
           refused' = IF ok \/ len = 0 THEN refused ELSE refused \cup {chunks + 1},
           chunks' = IF len = 0 THEN chunks ELSE chunks + 1,
           fresh = IF ok /\ len # 0 THEN Append(buffered, [id |-> chunks + 1, len |-> len])
                                    ELSE buffered,
           FilesOf(disk) \in Seq(LF!Chunk), disk[filename] \in Seq(LF!Chunk)
    PROVE  /\ fresh \in Seq(LF!Chunk) /\ chunks' \in 0..NumChunks /\ refused' \subseteq 1..chunks'
           /\ bytes + len \in Nat /\ bytes + len <= chunks' * ChunkLen
           /\ LF!Ids(FilesOf(disk) \o fresh) = LF!Accepted(chunks', refused')
           /\ LF!Size(disk[filename] \o fresh) <= bytes + len
<1>1. /\ chunks \in Nat /\ chunks <= NumChunks /\ NumChunks \in Nat /\ ChunkLen \in Nat /\ len \in Nat
      /\ len <= ChunkLen /\ bytes \in Nat /\ buffered \in Seq(LF!Chunk)
  <2>1. NumChunks * ChunkLen \in Nat
    BY FileAssumption, Products
  <2> QED BY <2>1, FileAssumption DEF LF!TypeOK
<1>2. /\ refused \subseteq 1..chunks /\ bytes <= chunks * ChunkLen
      /\ LF!Ids(FilesOf(disk) \o buffered) = LF!Accepted(chunks, refused)
      /\ LF!Size(disk[filename] \o buffered) <= bytes
  BY DEF Held, Holds
<1>3. CASE len = 0
  <2>1. fresh = buffered /\ chunks' = chunks /\ refused' = refused /\ bytes + len = bytes
    BY <1>1, <1>3
  <2>2. chunks \in 0..NumChunks
    BY <1>1
  <2> QED BY <1>1, <1>2, <2>1, <2>2, Zenon
<1>4. CASE len # 0
  <2>1. PICK c : c = [id |-> chunks + 1, len |-> len]
    OBVIOUS
  <2>2. c \in LF!Chunk /\ c.id = chunks + 1 /\ c.len = len
    BY <1>1, <1>4, <2>1 DEF LF!Chunk
  <2>3. PICK D, E : D = FilesOf(disk) \o buffered /\ E = disk[filename] \o buffered
    OBVIOUS
  <2>4. /\ D \in Seq(LF!Chunk) /\ E \in Seq(LF!Chunk) /\ Append(buffered, c) \in Seq(LF!Chunk)
        /\ FilesOf(disk) \o Append(buffered, c) = Append(D, c)
        /\ disk[filename] \o Append(buffered, c) = Append(E, c)
    <3>1. PICK C, b : C = LF!Chunk /\ b = buffered
      OBVIOUS
    <3>2. b \in Seq(C)
      BY <1>1, <3>1, Zenon
    <3>3. c \in C
      BY <2>2, <3>1, Zenon
    <3>4. ASSUME NEW q \in Seq(C)
          PROVE  /\ q \o b \in Seq(C) /\ Append(b, c) \in Seq(C)
                 /\ q \o Append(b, c) = Append(q \o b, c)
      BY <3>2, <3>3, LastChunk
    <3> QED BY <2>3, <3>1, <3>4, Zenon
  <2>5. chunks' = chunks + 1 /\ chunks' \in 0..NumChunks /\ chunks + 1 \notin refused
    BY <1>1, <1>2, <1>4
  <2>6. bytes + len \in Nat /\ bytes + len <= chunks' * ChunkLen
    <3>1. PICK p : p = chunks * ChunkLen /\ p \in Nat /\ (chunks + 1) * ChunkLen = p + ChunkLen
      BY <1>1, Products, Zenon
    <3>2. bytes + len <= p + ChunkLen
      BY <1>1, <1>2, <3>1
    <3> QED BY <1>1, <2>5, <3>1, <3>2
  <2>7. /\ LF!Size(E) \in Nat /\ LF!Size(E) <= bytes /\ LF!Size(Append(E, c)) = LF!Size(E) + len
    BY <1>2, <2>2, <2>3, <2>4, SizeStep, Zenon
  <2>8. LF!Ids(D) = LF!Accepted(chunks, refused)
    BY <1>2, <2>3, Zenon
  <2>9. CASE ok
    <3>1. fresh = Append(buffered, c) /\ refused' = refused
      BY <1>4, <2>1, <2>9, Zenon
    <3>2. refused' \subseteq 1..chunks'
      BY <1>1, <1>2, <2>5, <3>1
    <3>3. LF!Ids(Append(D, c)) = LF!Accepted(chunks', refused')
      <4>1. LF!Ids(Append(D, c)) = Append(LF!Ids(D), chunks + 1)
        BY <2>2, <2>4, LastId, Zenon
      <4>2. LF!Accepted(chunks + 1, refused) = Append(LF!Accepted(chunks, refused), chunks + 1)
        BY <1>1, <2>5, AcceptedStep, Zenon
      <4> QED BY <2>5, <2>8, <3>1, <4>1, <4>2, Zenon
    <3>4. LF!Size(Append(E, c)) <= bytes + len
      BY <1>1, <2>7
    <3> QED BY <2>4, <2>5, <2>6, <3>1, <3>2, <3>3, <3>4, Zenon
  <2>10. CASE ~ok
    <3>1. fresh = buffered /\ refused' = refused \cup {chunks + 1}
      BY <1>4, <2>10, Zenon
    <3>2. refused' \subseteq 1..chunks'
      BY <1>1, <1>2, <2>5, <3>1
    <3>3. LF!Accepted(chunks', refused') = LF!Accepted(chunks, refused)
      <4>1. LF!Accepted(chunks + 1, refused') = LF!Accepted(chunks, refused')
        <5>1. chunks + 1 \in refused'
          BY <3>1
        <5> QED BY <1>1, <5>1, AcceptedStep, Zenon
      <4>2. \A k \in 1..chunks : k \in refused' <=> k \in refused
        BY <1>1, <3>1
      <4>3. LF!Accepted(chunks, refused') = LF!Accepted(chunks, refused)
        BY <1>1, <4>2, AcceptedSame, Zenon
      <4> QED BY <2>5, <4>1, <4>3, Zenon
    <3>4. LF!Size(E) <= bytes + len
      BY <1>1, <2>7
    <3> QED BY <1>1, <2>3, <2>5, <2>6, <2>8, <3>1, <3>2, <3>3, <3>4, Zenon
  <2> QED BY <2>9, <2>10
<1> QED BY <1>3, <1>4

\* Chunks that stay in the buffer.
LEMMA KeepMoves ==
    ASSUME LF!TypeOK, NEW fresh \in Seq(LF!Chunk), NEW size, LF!Keep(fresh, size)
    PROVE  Moves(fresh) /\ Stays(size) /\ UNCHANGED last_flush
<1>1. disk \in [LF!Names -> Seq(LF!Chunk)] /\ filename \in LF!Names
  BY DEF LF!TypeOK
<1>2. buffered' = fresh /\ bytes' = size /\ disk' = disk /\ UNCHANGED last_flush
      /\ UNCHANGED <<filename, last_rotate, start_of_period>>
  BY DEF LF!Keep, LF!times
<1>3. disk[filename] \in Seq(LF!Chunk) /\ <<>> \in Seq(LF!Chunk)
  <2>1. <<>> \in Seq(LF!Chunk)
    OBVIOUS
  <2> QED BY <1>1, <2>1, Zenon
<1>4. disk[filename] \o <<>> = disk[filename] /\ <<>> \o fresh = fresh
  BY <1>3, ConcatFacts, Zenon
<1>5. disk' = [disk EXCEPT ![filename] = @ \o <<>>]
  BY <1>1, <1>2, <1>4, Zenon
<1>6. Moves(fresh)
  BY <1>2, <1>3, <1>4, <1>5, Zenon DEF Moves
<1> QED BY <1>2, <1>6, Zenon DEF Stays

\* Chunks that all go to the file.
LEMMA FlushMoves ==
    ASSUME NEW fresh \in Seq(LF!Chunk),
           disk' = [disk EXCEPT ![filename] = @ \o fresh], buffered' = <<>>
    PROVE  Moves(fresh)
<1>1. <<>> \in Seq(LF!Chunk)
  OBVIOUS
<1>2. fresh \o <<>> = fresh
  BY ConcatFacts, Zenon
<1> QED BY <1>1, <1>2, Zenon DEF Moves

\* rotate_file() closes the file or leaves it alone.
LEMMA RotateMoves ==
    ASSUME LF!TypeOK, NEW t \in 1..MaxTime, NEW fresh \in Seq(LF!Chunk), NEW size,
           LF!rotate_file(t, fresh, size)
    PROVE  /\ Moves(fresh)
           /\ \/ LF!CanRotate(t) /\ Closes /\ last_rotate' = t /\ last_flush' = t
              \/ ~LF!CanRotate(t) /\ Stays(size) /\ UNCHANGED last_flush
<1>1. CASE LF!CanRotate(t) /\ LF!Rotate(t, fresh)
  <2>1. Moves(fresh)
    BY <1>1, FlushMoves, Zenon DEF LF!Rotate
  <2>2. /\ t > last_rotate /\ LF!Sec(t) # filename
        /\ last_rotate' = t /\ last_flush' = t /\ filename' = LF!Sec(t)
        /\ start_of_period' = LF!Period(t) /\ bytes' = 0 /\ buffered' = <<>>
    BY <1>1, Zenon DEF LF!CanRotate, LF!Rotate, LF!get_log_filename
  <2> QED BY <1>1, <2>1, <2>2, Zenon DEF Closes
<1>2. CASE ~LF!CanRotate(t) /\ LF!Keep(fresh, size)
  BY <1>2, KeepMoves, Zenon
<1> QED BY <1>1, <1>2, Zenon DEF LF!rotate_file

\* The second of a reading between two of the same second.
LEMMA SameSecond ==
    ASSUME NEW r \in 0..MaxTime, NEW f \in 0..MaxTime, NEW c \in 0..MaxTime, NEW t \in 0..MaxTime,
           r <= f, f <= c, c <= t, t = r \/ LF!Sec(t) = LF!Sec(r)
    PROVE  LF!Sec(c) = LF!Sec(r) /\ LF!Sec(c) = LF!Sec(f)
<1>1. LF!Sec(r) <= LF!Sec(f) /\ LF!Sec(f) <= LF!Sec(c) /\ LF!Sec(c) <= LF!Sec(t) /\ LF!Sec(t) = LF!Sec(r)
  <2>1. MaxTime \in Nat
    BY FileAssumption
  <2>2. r <= f /\ f <= c /\ c <= t
    OBVIOUS
  <2> QED BY <2>1, <2>2, Seconds, Zenon
<1>2. LF!Sec(r) \in Nat /\ LF!Sec(f) \in Nat /\ LF!Sec(c) \in Nat
  BY Seconds DEF LF!Names
<1> QED BY <1>1, <1>2

\* The time of a step of append(): whatever is due is done when the clock is
\* looked at, and a file that is too large can always be rotated when a rotation
\* or a flush is due.
LEMMA AppendTimely ==
    ASSUME FileInv, NEW fresh \in Seq(LF!Chunk), NEW size \in Nat, LF!ClockMoves,
           LF!Settle(fresh, size),
           overdue' = IF LF!Due /\ UNCHANGED <<last_rotate, last_flush>> THEN overdue + 1 ELSE 0
    PROVE  /\ Moves(fresh) /\ (Stays(size) \/ Closes)
           /\ last_flush' \in 0..MaxTime /\ count' \in 0 .. CheckTime + 1 /\ overdue' \in Nat
           /\ Timely'
<1>1. /\ clock' \in 1..MaxTime /\ (~clock_steps => clock' >= clock) /\ clock_steps' = clock_steps
      /\ clock \in 1..MaxTime /\ last_rotate \in 0..MaxTime /\ last_flush \in 0..MaxTime
      /\ count \in 0..CheckTime + 1 /\ overdue \in Nat /\ CheckTime \in Nat /\ MaxTime \in Nat
      /\ FlushInterval \in Nat /\ RotateSize \in Nat
  BY FileAssumption DEF FileInv, LF!TypeOK, LF!ClockMoves
<1>2. LF!TypeOK /\ filename = LF!Sec(last_rotate) /\ start_of_period = LF!Period(last_rotate)
  BY DEF FileInv, Named
<1>3. ~clock_steps => last_rotate <= last_flush /\ last_flush <= clock /\ overdue <= count
  BY DEF FileInv, Timely
<1>4. overdue' \in Nat
  BY <1>1
<1>5. clock' \in 0..MaxTime /\ clock \in 0..MaxTime
  BY <1>1
<1>6. ASSUME ~clock_steps, ~LF!CanRotate(clock')
      PROVE  LF!Sec(clock) = LF!Sec(last_rotate) /\ LF!Sec(clock) = LF!Sec(last_flush)
  <2>1. clock' = last_rotate \/ LF!Sec(clock') = LF!Sec(last_rotate)
    BY <1>1, <1>2, <1>3, <1>6 DEF LF!CanRotate, LF!get_log_filename
  <2>2. last_rotate <= last_flush /\ last_flush <= clock /\ clock <= clock'
    BY <1>1, <1>3, <1>6
  <2> QED BY <1>1, <1>5, <2>1, <2>2, SameSecond, Zenon
<1>7. ASSUME ~clock_steps, ~LF!CanRotate(clock') PROVE ~LF!Due
  <2>1. LF!Period(clock) = start_of_period
    BY <1>2, <1>6, <1>7, Zenon DEF LF!Period
  <2>2. ~LF!FlushDue(clock)
    <3>1. LF!Sec(clock) \in Nat
      BY <1>5, Seconds DEF LF!Names
    <3> QED BY <1>1, <1>6, <1>7, <3>1 DEF LF!FlushDue
  <2> QED BY <2>1, <2>2 DEF LF!Due
<1>8. ASSUME LF!rotate_file(clock', fresh, size), count' \in 0..CheckTime + 1, ~clock_steps => count' \in Nat
      PROVE  /\ Moves(fresh) /\ (Stays(size) \/ Closes)
             /\ last_flush' \in 0..MaxTime /\ count' \in 0 .. CheckTime + 1 /\ Timely'
  <2>1. CASE LF!CanRotate(clock') /\ Closes /\ last_rotate' = clock' /\ last_flush' = clock'
    <3>1. last_rotate' # last_rotate
      BY <1>1, <2>1 DEF LF!CanRotate
    <3>2. overdue' = 0
      BY <3>1, Zenon
    <3>3. Timely'
      BY <1>1, <1>8, <2>1, <3>2 DEF Timely
    <3> QED BY <1>1, <1>2, <1>5, <1>8, <2>1, <3>3, RotateMoves, Zenon
  <2>2. CASE ~LF!CanRotate(clock') /\ Stays(size) /\ UNCHANGED last_flush
    <3>1. ~clock_steps => overdue' = 0
      BY <1>7, <2>2, Zenon
    <3>2. Timely'
      BY <1>1, <1>3, <1>8, <2>2, <3>1 DEF Timely, Stays
    <3> QED BY <1>1, <1>2, <1>8, <2>2, <3>2, RotateMoves, Zenon
  <2> QED BY <1>1, <1>2, <1>8, <2>1, <2>2, RotateMoves, Zenon
<1>9. CASE size > RotateSize /\ LF!rotate_file(clock', fresh, size) /\ UNCHANGED count
  BY <1>1, <1>4, <1>8, <1>9
<1>10. CASE LF!NoCheck(fresh, size)
  <2>1. Moves(fresh) /\ Stays(size) /\ UNCHANGED last_flush
    BY <1>2, <1>10, KeepMoves, Zenon DEF LF!NoCheck
  <2>2. count' = count + 1 /\ count' \in 0..CheckTime + 1
    BY <1>1, <1>10 DEF LF!NoCheck
  <2>3. overdue' <= overdue + 1
    BY <1>1
  <2>4. Timely'
    BY <1>1, <1>3, <1>4, <2>1, <2>2, <2>3 DEF Timely, Stays
  <2> QED BY <1>1, <1>4, <2>1, <2>2, <2>4, Zenon
<1>11. CASE LF!TimeCheck(fresh, size)
  <2>1. count' = 0 /\ 0 \in 0..CheckTime + 1
    BY <1>1, <1>11 DEF LF!TimeCheck
  <2>2. CASE LF!Period(clock) # start_of_period /\ LF!rotate_file(clock', fresh, size)
    BY <1>4, <1>8, <2>1, <2>2
  <2>3. CASE LF!Period(clock) = start_of_period /\ LF!FlushDue(clock) /\ LF!FlushNow(clock, fresh, size)
    <3>1. Moves(fresh) /\ Stays(size) /\ last_flush' = clock
      BY <2>3, FlushMoves, Zenon DEF LF!FlushNow, Stays
    <3>2. LF!Sec(clock) # LF!Sec(last_flush)
      <4>1. LF!Sec(clock) \in Nat
        BY <1>5, Seconds DEF LF!Names
      <4> QED BY <1>1, <2>3, <4>1 DEF LF!FlushDue
    <3>3. overdue' = 0
      BY <3>1, <3>2, Zenon
    <3>4. Timely'
      BY <1>1, <1>3, <2>1, <3>1, <3>3 DEF Timely, Stays
    <3> QED BY <1>4, <1>5, <2>1, <3>1, <3>4, Zenon
  <2>4. CASE LF!Period(clock) = start_of_period /\ ~LF!FlushDue(clock) /\ LF!Keep(fresh, size)
    <3>1. Moves(fresh) /\ Stays(size) /\ UNCHANGED last_flush
      BY <1>2, <2>4, KeepMoves, Zenon
    <3>2. overdue' = 0
      BY <2>4, Zenon DEF LF!Due
    <3>3. Timely'
      BY <1>1, <1>3, <2>1, <3>1, <3>2 DEF Timely, Stays
    <3> QED BY <1>1, <1>4, <2>1, <3>1, <3>3, Zenon
  <2> QED BY <1>11, <2>2, <2>3, <2>4, Zenon DEF LF!TimeCheck
<1> QED BY <1>9, <1>10, <1>11, Zenon DEF LF!Settle

\* append() keeps the invariant of the file.
LEMMA AppendKeepsFile ==
    ASSUME FileInv, NEW len \in 0..ChunkLen, NEW ok \in BOOLEAN,
           len # 0 => chunks < NumChunks, LF!append(len, ok)
    PROVE  FileInv'
<1>1. PICK fresh : fresh = IF ok /\ len # 0 THEN Append(buffered, [id |-> chunks + 1, len |-> len])
                                            ELSE buffered
  OBVIOUS
<1>2. /\ LF!ClockMoves /\ LF!Settle(fresh, bytes + len)
      /\ overdue' = IF LF!Due /\ UNCHANGED <<last_rotate, last_flush>> THEN overdue + 1 ELSE 0
      /\ refused' = IF ok \/ len = 0 THEN refused ELSE refused \cup {chunks + 1}
      /\ chunks' = IF len = 0 THEN chunks ELSE chunks + 1
  BY <1>1 DEF LF!append, LF!FileAppend
<1>3. LF!TypeOK /\ Named /\ Held
  BY DEF FileInv
<1>4. FilesOf(disk) \in Seq(LF!Chunk) /\ disk[filename] \in Seq(LF!Chunk)
  <2>1. disk \in [LF!Names -> Seq(LF!Chunk)] /\ filename \in LF!Names /\ buffered \in Seq(LF!Chunk)
    BY <1>3 DEF LF!TypeOK
  <2>2. \A s \in LF!Names : s > filename => disk[s] = <<>>
    BY <1>3 DEF Named, NothingAhead
  <2> QED BY <2>1, <2>2, FilesGrow, Zenon
<1>5. /\ fresh \in Seq(LF!Chunk) /\ chunks' \in 0..NumChunks /\ refused' \subseteq 1..chunks'
      /\ bytes + len \in Nat /\ bytes + len <= chunks' * ChunkLen
      /\ LF!Ids(FilesOf(disk) \o fresh) = LF!Accepted(chunks', refused')
      /\ LF!Size(disk[filename] \o fresh) <= bytes + len
  BY <1>1, <1>2, <1>3, <1>4, FileAppendHolds, Zenon
<1>6. /\ Moves(fresh) /\ (Stays(bytes + len) \/ Closes)
      /\ last_flush' \in 0..MaxTime /\ count' \in 0 .. CheckTime + 1 /\ overdue' \in Nat
      /\ Timely'
  BY <1>2, <1>5, AppendTimely, Zenon
<1>7. /\ Named' /\ Held' /\ filename' \in LF!Names /\ start_of_period' \in LF!Names
      /\ bytes' \in 0 .. NumChunks * ChunkLen /\ buffered' \in Seq(LF!Chunk)
      /\ disk' \in [LF!Names -> Seq(LF!Chunk)] /\ refused' \subseteq 1..NumChunks
      /\ last_rotate' \in 0..MaxTime
  BY <1>3, <1>5, <1>6, FileKeeps, Zenon
<1>8. clock_steps' \in BOOLEAN /\ clock' \in 1..MaxTime
  BY <1>2, <1>3, Zenon DEF LF!ClockMoves, LF!TypeOK
<1>9. LF!TypeOK'
  BY <1>5, <1>6, <1>7, <1>8, Zenon DEF LF!TypeOK
<1> QED BY <1>6, <1>7, <1>9, Zenon DEF FileInv

\* A step that appends nothing and only moves chunks.
LEMMA MoveKeepsFile ==
    ASSUME FileInv, LF!ClockMoves, Moves(buffered), Stays(bytes) \/ Closes,
           UNCHANGED <<count, chunks, refused>>, last_flush' \in 0..MaxTime, overdue' \in Nat, Timely'
    PROVE  FileInv'
<1>1. /\ LF!TypeOK /\ Named /\ refused \subseteq 1..chunks /\ bytes <= chunks * ChunkLen
      /\ LF!Ids(FilesOf(disk) \o buffered) = LF!Accepted(chunks, refused)
      /\ LF!Size(disk[filename] \o buffered) <= bytes
  BY DEF FileInv, Held, Holds
<1>2. buffered \in Seq(LF!Chunk) /\ bytes \in Nat /\ chunks \in 0..NumChunks
  <2>1. NumChunks * ChunkLen \in Nat
    BY FileAssumption, Products
  <2> QED BY <1>1, <2>1 DEF LF!TypeOK
<1>3. /\ Named' /\ Held' /\ filename' \in LF!Names /\ start_of_period' \in LF!Names
      /\ bytes' \in 0 .. NumChunks * ChunkLen /\ buffered' \in Seq(LF!Chunk)
      /\ disk' \in [LF!Names -> Seq(LF!Chunk)] /\ refused' \subseteq 1..NumChunks
      /\ last_rotate' \in 0..MaxTime
  BY <1>1, <1>2, FileKeeps, Zenon
<1>4. clock_steps' \in BOOLEAN /\ clock' \in 1..MaxTime
  BY <1>1, Zenon DEF LF!ClockMoves, LF!TypeOK
<1>5. LF!TypeOK'
  BY <1>1, <1>3, <1>4, Zenon DEF LF!TypeOK
<1> QED BY <1>3, <1>5, Zenon DEF FileInv

\* While the file is not touched, time passes.
LEMMA WaitTimely ==
    ASSUME FileInv, LF!ClockMoves, UNCHANGED <<last_rotate, last_flush, count, overdue>>
    PROVE  Timely' /\ last_flush' \in 0..MaxTime /\ overdue' \in Nat
<1>1. clock \in 1..MaxTime /\ last_flush \in 0..MaxTime /\ last_rotate \in 0..MaxTime
      /\ overdue \in Nat /\ MaxTime \in Nat
  BY FileAssumption DEF FileInv, LF!TypeOK
<1>2. clock' \in 1..MaxTime /\ (~clock_steps => clock' >= clock) /\ clock_steps' = clock_steps
  BY DEF LF!ClockMoves
<1> QED BY <1>1, <1>2 DEF FileInv, Timely

\* flush() and what stdio does by itself.
LEMMA FlushKeepsFile ==
    ASSUME FileInv, LF!flush \/ LF!StdioWrites
    PROVE  FileInv'
<1>1. LF!ClockMoves /\ UNCHANGED <<filename, last_rotate, last_flush, start_of_period, count, bytes, chunks, refused, overdue>>
  BY DEF LF!flush, LF!StdioWrites, LF!times
<1>2. buffered \in Seq(LF!Chunk)
  BY DEF FileInv, LF!TypeOK
<1>3. CASE LF!flush
  BY <1>2, <1>3, FlushMoves, <1>1, MoveKeepsFile, WaitTimely, Zenon DEF LF!flush, Stays
<1>4. CASE LF!StdioWrites
  <2>1. PICK k \in 1..Len(buffered) :
          /\ disk' = [disk EXCEPT ![filename] = @ \o SubSeq(buffered, 1, k)]
          /\ buffered' = SubSeq(buffered, k + 1, Len(buffered))
    BY <1>4 DEF LF!StdioWrites
  <2>2. /\ SubSeq(buffered, 1, k) \in Seq(LF!Chunk)
        /\ SubSeq(buffered, k + 1, Len(buffered)) \in Seq(LF!Chunk)
        /\ buffered = SubSeq(buffered, 1, k) \o SubSeq(buffered, k + 1, Len(buffered))
    <3>1. k \in 0..Len(buffered)
      BY <1>2
    <3> QED BY <1>2, <3>1, SplitAt, Zenon
  <2>3. Moves(buffered)
    BY <2>1, <2>2, Zenon DEF Moves
  <2> QED BY <1>1, <2>3, MoveKeepsFile, WaitTimely, Zenon DEF Stays
<1> QED BY <1>3, <1>4

\* The caller rotates.
LEMMA RotateKeepsFile ==
    ASSUME FileInv, LF!RotateFile
    PROVE  FileInv'
<1>1. /\ LF!ClockMoves /\ LF!rotate_file(clock', buffered, bytes) /\ UNCHANGED <<count, chunks, refused>>
      /\ overdue' = IF UNCHANGED last_rotate THEN overdue ELSE 0
  BY DEF LF!RotateFile
<1>2. LF!TypeOK /\ buffered \in Seq(LF!Chunk) /\ overdue \in Nat /\ last_rotate \in 0..MaxTime
      /\ count \in 0..CheckTime + 1 /\ CheckTime \in Nat /\ MaxTime \in Nat
  BY FileAssumption DEF FileInv, LF!TypeOK
<1>3. clock' \in 1..MaxTime /\ clock' \in 0..MaxTime /\ clock_steps' = clock_steps
  BY <1>1, <1>2 DEF LF!ClockMoves
<1>4. /\ Moves(buffered)
      /\ \/ LF!CanRotate(clock') /\ Closes /\ last_rotate' = clock' /\ last_flush' = clock'
         \/ ~LF!CanRotate(clock') /\ Stays(bytes) /\ UNCHANGED last_flush
  BY <1>1, <1>2, <1>3, RotateMoves, Zenon
<1>5. CASE LF!CanRotate(clock') /\ Closes /\ last_rotate' = clock' /\ last_flush' = clock'
  <2>1. overdue' = 0
    <3>1. last_rotate' # last_rotate
      BY <1>2, <1>3, <1>5 DEF LF!CanRotate
    <3> QED BY <1>1, <3>1, Zenon
  <2>2. Timely' /\ overdue' \in Nat
    BY <1>1, <1>2, <1>3, <1>5, <2>1 DEF Timely
  <2> QED BY <1>1, <1>3, <1>4, <1>5, <2>2, MoveKeepsFile, Zenon
<1>6. CASE ~LF!CanRotate(clock') /\ Stays(bytes) /\ UNCHANGED last_flush
  <2>1. UNCHANGED <<last_rotate, last_flush, count, overdue>>
    BY <1>1, <1>6, Zenon DEF Stays
  <2>2. Timely' /\ last_flush' \in 0..MaxTime /\ overdue' \in Nat
    BY <1>1, <2>1, WaitTimely, Zenon
  <2> QED BY <1>1, <1>4, <1>6, <2>2, MoveKeepsFile, Zenon
<1> QED BY <1>4, <1>5, <1>6

-----------------------------------------------------------------------------
(* The buffers of AsyncLogging.                                            *)

\* The lines in a list of buffers, in their order.
LinesOf(bs) == [k \in 1..Len(bs) |-> bs[k].lines]
Text(bs) == FlattenSeq(LinesOf(bs))

\* The lines that have been appended and not discarded, from the file to the buffer
\* that is being filled.
Pipeline == file \o (Text(buffers_to_write) \o (Text(buffers) \o curr_buff.lines))

Increasing(s) == \A j, k \in 1..Len(s) : j < k => s[j].id < s[k].id
UpTo(n, s) == \A k \in 1..Len(s) : s[k].id <= n

\* Buffers that count what is in them.
Counting == { b \in Buffer : b.used = 0 <=> b.lines = <<>> }

BufferTypes ==
    /\ curr_buff \in Counting
    /\ next_buff \in {Null, EmptyBuffer}
    /\ buffer1 \in {Null, EmptyBuffer} /\ buffer2 \in {Null, EmptyBuffer}
    /\ buffers \in Seq(Counting) /\ buffers_to_write \in Seq(Counting)
    /\ running \in BOOLEAN
    /\ bpc \in {"none", "entry", "test", "lock", "wait", "write", "done", "aborted"}
    /\ opc \in {"new", "started", "stop", "join", "joined"}
    /\ appended \in 0..NumLines /\ file \in Seq(Line) /\ lost \subseteq 1..NumLines

\* A pointer that the producers have used up comes back with a full buffer.
Spares ==
    /\ opc = "new" => bpc = "none"
    /\ next_buff = Null => buffers # <<>>
    /\ bpc = "write" => buffers_to_write # <<>> /\ (buffer2 = Null => Len(buffers_to_write) >= 2)
    /\ bpc # "write" => buffers_to_write = <<>>
    /\ bpc \in {"test", "lock", "wait"} => buffer1 # Null /\ buffer2 # Null

Ordered == Increasing(Pipeline) /\ UpTo(appended, Pipeline)

\* The inductive invariant of the buffers.
BuffersInv == BufferTypes /\ Spares /\ Ordered /\ NoSilentLoss

\* What the thread has handed to its LogFile.
Handed ==
    /\ appended <= BothLines
    /\ content \in Seq(Seq(Line)) /\ Len(content) = chunks
    /\ \A k \in 1..Len(content) : content[k] # <<>>
    /\ written \in 0..Len(Kept)
    /\ FlattenSeq(content) = file \o Text(SubSeq(Kept, 1, written))
    /\ bpc # "write" => written = 0 /\ buffered = <<>>

\* The inductive invariant of the logger.
LoggerInv == BuffersInv /\ FileInv /\ (kind = "both" => Handed)

\* The lists of lines in a list of buffers.
LEMMA LinesOfType ==
    ASSUME NEW bs \in Seq(Counting)
    PROVE  /\ LinesOf(bs) \in Seq(Seq(Line)) /\ Len(LinesOf(bs)) = Len(bs)
           /\ \A k \in 1..Len(bs) : LinesOf(bs)[k] = bs[k].lines
           /\ Text(bs) \in Seq(Line)
<1>1. PICK n, L : n = Len(bs) /\ n \in Nat /\ L = LinesOf(bs)
  OBVIOUS
<1>2. PICK M : M = Seq(Line)
  OBVIOUS
<1>3. \A k \in 1..n : bs[k].lines \in M
  <2>1. \A b \in Counting : b.lines \in M
    BY <1>2 DEF Counting, Buffer
  <2>2. \A k \in 1..n : bs[k] \in Counting
    BY <1>1
  <2> QED BY <2>1, <2>2, Zenon
<1>4. L \in [1..n -> M] /\ \A k \in 1..n : L[k] = bs[k].lines
  BY <1>1, <1>3, Zenon DEF LinesOf
<1>5. L \in Seq(M) /\ Len(L) = n
  BY <1>1, <1>4
<1>6. FlattenSeq(L) \in Seq(Line)
  BY <1>2, <1>5, FlattenConcat, Zenon
<1> QED BY <1>1, <1>2, <1>4, <1>5, <1>6, Zenon DEF Text

\* The text of two lists of buffers.
LEMMA TextConcat ==
    ASSUME NEW p \in Seq(Counting), NEW q \in Seq(Counting)
    PROVE  Text(p \o q) = Text(p) \o Text(q)
<1>1. p \o q \in Seq(Counting)
  OBVIOUS
<1>2. PICK P, Q, R : P = LinesOf(p) /\ Q = LinesOf(q) /\ R = LinesOf(p \o q)
  OBVIOUS
<1>3. /\ P \in Seq(Seq(Line)) /\ Len(P) = Len(p) /\ \A k \in 1..Len(p) : P[k] = p[k].lines
      /\ Q \in Seq(Seq(Line)) /\ Len(Q) = Len(q) /\ \A k \in 1..Len(q) : Q[k] = q[k].lines
      /\ R \in Seq(Seq(Line)) /\ Len(R) = Len(p \o q) /\ \A k \in 1..Len(p \o q) : R[k] = (p \o q)[k].lines
  BY <1>1, <1>2, LinesOfType, Zenon
<1>4. PICK m, n : m = Len(p) /\ n = Len(q) /\ m \in Nat /\ n \in Nat
  <2>1. Len(p) \in Nat /\ Len(q) \in Nat
    OBVIOUS
  <2> QED BY <2>1, Zenon
<1>5. /\ Len(p \o q) = m + n
      /\ \A k \in 1..m + n : (p \o q)[k] = IF k <= m THEN p[k] ELSE q[k - m]
  BY <1>4, ConcatProperties, Zenon
<1>6. /\ P \o Q \in Seq(Seq(Line)) /\ Len(P \o Q) = m + n
      /\ \A k \in 1..m + n : (P \o Q)[k] = IF k <= m THEN P[k] ELSE Q[k - m]
  <2>1. P \in Seq(Seq(Line)) /\ Q \in Seq(Seq(Line)) /\ Len(P) = m /\ Len(Q) = n
    BY <1>3, <1>4, Zenon
  <2>2. /\ P \o Q \in Seq(Seq(Line)) /\ Len(P \o Q) = Len(P) + Len(Q)
        /\ \A k \in 1..Len(P) + Len(Q) : (P \o Q)[k] = IF k <= Len(P) THEN P[k] ELSE Q[k - Len(P)]
    BY <2>1, ConcatProperties, Zenon
  <2> QED BY <2>1, <2>2, Zenon
<1>7. \A k \in 1..m + n : R[k] = (P \o Q)[k]
  <2> SUFFICES ASSUME NEW k \in 1..m + n PROVE R[k] = (P \o Q)[k]
    OBVIOUS
  <2>1. R[k] = (p \o q)[k].lines
    BY <1>3, <1>5, Zenon
  <2>2. CASE k <= m
    <3>1. k \in 1..Len(p)
      BY <1>4, <2>2
    <3> QED BY <1>3, <1>5, <1>6, <2>1, <2>2, <3>1, Zenon
  <2>3. CASE ~(k <= m)
    <3>1. k - m \in 1..Len(q)
      BY <1>4, <2>3
    <3> QED BY <1>3, <1>5, <1>6, <2>1, <2>3, <3>1, Zenon
  <2> QED BY <2>2, <2>3
<1>8. R = P \o Q
  <2>1. Len(R) = m + n
    BY <1>3, <1>5, Zenon
  <2> QED BY <1>3, <1>6, <1>7, <2>1, SeqEqual, Zenon
<1> QED BY <1>2, <1>3, <1>8, FlattenConcat, Zenon DEF Text

\* The text of no buffer and of one.
LEMMA TextOne ==
    ASSUME NEW b \in Counting
    PROVE  Text(<<>>) = <<>> /\ Text(<<b>>) = b.lines
<1>1. b.lines \in Seq(Line)
  BY DEF Counting, Buffer
<1>2. LinesOf(<<>>) = <<>> /\ LinesOf(<<b>>) = <<b.lines>>
  BY DEF LinesOf
<1> QED BY <1>1, <1>2, FlattenOne, Zenon DEF Text

\* The text of a list that gets another buffer.
LEMMA TextAppend ==
    ASSUME NEW p \in Seq(Counting), NEW b \in Counting
    PROVE  Text(Append(p, b)) = Text(p) \o b.lines
<1>1. Append(p, b) = p \o <<b>> /\ <<b>> \in Seq(Counting)
  OBVIOUS
<1> QED BY <1>1, TextOne, TextConcat, Zenon

\* The numbers of the lines in a list of buffers are those in its text.
LEMMA IdsOfText ==
    ASSUME NEW bs \in Seq(Counting)
    PROVE  Ids(bs) = { Text(bs)[k].id : k \in 1..Len(Text(bs)) }
<1>1. PICK L, T : L = LinesOf(bs) /\ T = Text(bs)
  OBVIOUS
<1>2. /\ L \in Seq(Seq(Line)) /\ T \in Seq(Line)
      /\ Len(L) = Len(bs) /\ \A k \in 1..Len(bs) : L[k] = bs[k].lines /\ L[k] \in Seq(Line)
  BY <1>1, LinesOfType
<1>3. \A e : (\E j \in 1..Len(T) : T[j] = e) <=> \E k \in 1..Len(L) : \E j \in 1..Len(L[k]) : L[k][j] = e
  <2>1. \A e : Among(T, e) <=> \E k \in 1..Len(L) : Among(L[k], e)
    BY <1>1, <1>2, FlattenElements, Zenon DEF Text
  <2> QED BY <2>1, Zenon DEF Among
<1>4. DOMAIN bs = 1..Len(bs) /\ \A k \in 1..Len(bs) : DOMAIN bs[k].lines = 1..Len(L[k])
  <2>1. \A q \in Seq(Line) : DOMAIN q = 1..Len(q)
    OBVIOUS
  <2>2. DOMAIN bs = 1..Len(bs)
    OBVIOUS
  <2> QED BY <1>2, <2>1, <2>2, Zenon
<1>5. \A x : x \in Ids(bs) <=> \E k \in 1..Len(L) : \E j \in 1..Len(L[k]) : x = L[k][j].id
  <2>1. \A x : x \in Ids(bs) <=> \E k \in DOMAIN bs : \E j \in DOMAIN bs[k].lines : x = bs[k].lines[j].id
    BY DEF Ids
  <2>3. PICK D : D = 1..Len(L) /\ D = 1..Len(bs) /\ D = DOMAIN bs
    BY <1>2, <1>4, Zenon
  <2>4. ASSUME NEW x PROVE x \in Ids(bs) <=> \E k \in D : \E j \in 1..Len(L[k]) : x = L[k][j].id
    <3>1. x \in Ids(bs) <=> \E k \in D : \E j \in DOMAIN bs[k].lines : x = bs[k].lines[j].id
      BY <2>1, <2>3, Zenon
    <3>2. ASSUME NEW k \in D
          PROVE  (\E j \in DOMAIN bs[k].lines : x = bs[k].lines[j].id)
                 <=> \E j \in 1..Len(L[k]) : x = L[k][j].id
      <4>1. k \in 1..Len(bs)
        BY <2>3, Zenon
      <4> QED BY <1>2, <1>4, <4>1, Zenon
    <3> QED BY <3>1, <3>2, Zenon
  <2> QED BY <2>3, <2>4, Zenon
<1>6. ASSUME NEW x PROVE x \in { T[k].id : k \in 1..Len(T) } <=> x \in Ids(bs)
  <2>1. x \in { T[k].id : k \in 1..Len(T) } <=> \E k \in 1..Len(T) : x = T[k].id
    OBVIOUS
  <2>2. ASSUME \E k \in 1..Len(T) : x = T[k].id PROVE x \in Ids(bs)
    <3>1. PICK k \in 1..Len(T) : x = T[k].id
      BY <2>2
    <3>2. PICK i \in 1..Len(L) : \E j \in 1..Len(L[i]) : L[i][j] = T[k]
      BY <1>3, Zenon
    <3> QED BY <1>5, <3>1, <3>2, Zenon
  <2>3. ASSUME x \in Ids(bs) PROVE \E k \in 1..Len(T) : x = T[k].id
    <3>1. PICK i \in 1..Len(L) : \E j \in 1..Len(L[i]) : x = L[i][j].id
      BY <1>5, <2>3, Zenon
    <3>2. PICK j \in 1..Len(L[i]) : x = L[i][j].id
      BY <3>1
    <3>3. PICK k \in 1..Len(T) : T[k] = L[i][j]
      BY <1>3, Zenon
    <3> QED BY <3>2, <3>3, Zenon
  <2> QED BY <2>1, <2>2, <2>3, Zenon
<1>7. Ids(bs) = { T[k].id : k \in 1..Len(T) }
  BY <1>6
<1> QED BY <1>1, <1>7, Zenon

\* Every line of s comes before those of t.
Before(s, t) == \A j \in 1..Len(s), k \in 1..Len(t) : s[j].id < t[k].id

\* The order of the lines in two sequences, one after the other.
LEMMA OrderConcat ==
    ASSUME NEW s \in Seq(Line), NEW t \in Seq(Line), NEW n \in Nat
    PROVE  /\ s \o t \in Seq(Line)
           /\ Increasing(s \o t) <=> Increasing(s) /\ Increasing(t) /\ Before(s, t)
           /\ UpTo(n, s \o t) <=> UpTo(n, s) /\ UpTo(n, t)
           /\ \A u \in Seq(Line) : Before(u, s \o t) <=> Before(u, s) /\ Before(u, t)
           /\ \A u \in Seq(Line) : Before(s \o t, u) <=> Before(s, u) /\ Before(t, u)
<1>1. PICK a, b, r : a = Len(s) /\ b = Len(t) /\ r = s \o t /\ a \in Nat /\ b \in Nat
  <2>1. Len(s) \in Nat /\ Len(t) \in Nat
    OBVIOUS
  <2> QED BY <2>1, Zenon
<1>2. /\ r \in Seq(Line) /\ Len(r) = a + b
      /\ \A k \in 1..a + b : r[k] = IF k <= a THEN s[k] ELSE t[k - a]
  BY <1>1, ConcatProperties, Zenon
<1>3. /\ \A k \in 1..a : r[k] = s[k] /\ k \in 1..a + b
      /\ \A k \in 1..b : r[a + k] = t[k] /\ a + k \in 1..a + b
      /\ \A k \in 1..a + b : k \notin 1..a => k - a \in 1..b /\ a + (k - a) = k
  <2>1. /\ \A k \in 1..a : k <= a /\ k \in 1..a + b
        /\ \A k \in 1..b : ~(a + k <= a) /\ a + k \in 1..a + b /\ (a + k) - a = k
        /\ \A k \in 1..a + b : k \notin 1..a => k - a \in 1..b /\ a + (k - a) = k
    BY <1>1
  <2> QED BY <1>2, <2>1, Zenon
<1>4. UpTo(n, r) <=> UpTo(n, s) /\ UpTo(n, t)
  <2>1. (\A k \in 1..a + b : r[k].id <= n) <=> (\A k \in 1..a : s[k].id <= n) /\ (\A k \in 1..b : t[k].id <= n)
    BY <1>3, Zenon
  <2> QED BY <1>1, <1>2, <2>1, Zenon DEF UpTo
<1>5. ASSUME NEW u \in Seq(Line) PROVE Before(u, r) <=> Before(u, s) /\ Before(u, t)
  <2>1. ASSUME NEW j \in 1..Len(u)
        PROVE  (\A k \in 1..a + b : u[j].id < r[k].id)
               <=> (\A k \in 1..a : u[j].id < s[k].id) /\ (\A k \in 1..b : u[j].id < t[k].id)
    BY <1>3, Zenon
  <2> QED BY <1>1, <1>2, <2>1, Zenon DEF Before
<1>6. ASSUME NEW u \in Seq(Line) PROVE Before(r, u) <=> Before(s, u) /\ Before(t, u)
  <2>1. ASSUME NEW j \in 1..Len(u)
        PROVE  (\A k \in 1..a + b : r[k].id < u[j].id)
               <=> (\A k \in 1..a : s[k].id < u[j].id) /\ (\A k \in 1..b : t[k].id < u[j].id)
    BY <1>3, Zenon
  <2> QED BY <1>1, <1>2, <2>1, Zenon DEF Before
<1>7. ASSUME Increasing(r) PROVE Increasing(s) /\ Increasing(t) /\ Before(s, t)
  <2>0. \A j, k \in 1..a + b : j < k => r[j].id < r[k].id
    BY <1>2, <1>7, Zenon DEF Increasing
  <2>1. Increasing(s)
    BY <1>1, <1>3, <2>0, Zenon DEF Increasing
  <2>2. Increasing(t)
    <3>1. \A j, k \in 1..b : j < k => a + j < a + k
      BY <1>1
    <3> QED BY <1>1, <1>3, <2>0, <3>1, Zenon DEF Increasing
  <2>3. Before(s, t)
    <3>1. \A j \in 1..a, k \in 1..b : j < a + k
      BY <1>1
    <3> QED BY <1>1, <1>3, <2>0, <3>1, Zenon DEF Before
  <2> QED BY <2>1, <2>2, <2>3
<1>8. ASSUME Increasing(s), Increasing(t), Before(s, t) PROVE Increasing(r)
  <2>1. SUFFICES ASSUME NEW j \in 1..a + b, NEW k \in 1..a + b, j < k PROVE r[j].id < r[k].id
    BY <1>2, Zenon DEF Increasing
  <2>2. CASE j \in 1..a /\ k \in 1..a
    BY <1>1, <1>3, <1>8, <2>1, <2>2, Zenon DEF Increasing
  <2>3. CASE j \in 1..a /\ k \notin 1..a
    <3>1. r[j] = s[j] /\ k - a \in 1..b /\ r[a + (k - a)] = t[k - a] /\ a + (k - a) = k
      BY <1>3, <2>3, Zenon
    <3> QED BY <1>1, <1>8, <2>3, <3>1, Zenon DEF Before
  <2>4. CASE j \notin 1..a /\ k \notin 1..a
    <3>1. /\ j - a \in 1..b /\ r[a + (j - a)] = t[j - a] /\ a + (j - a) = j
          /\ k - a \in 1..b /\ r[a + (k - a)] = t[k - a] /\ a + (k - a) = k
      BY <1>3, <2>4, Zenon
    <3>2. j - a < k - a
      BY <1>1, <2>1
    <3> QED BY <1>1, <1>8, <3>1, <3>2, Zenon DEF Increasing
  <2>5. ~(j \notin 1..a /\ k \in 1..a)
    BY <1>1, <2>1
  <2> QED BY <2>2, <2>3, <2>4, <2>5
<1> QED BY <1>1, <1>2, <1>4, <1>5, <1>6, <1>7, <1>8, Zenon

\* The empty buffer, and a buffer that a line is added to.
LEMMA Buffers ==
    /\ EmptyBuffer \in Counting /\ EmptyBuffer # Null /\ Null \notin Counting
    /\ EmptyBuffer.lines = <<>>
    /\ \A b \in Counting : b.lines \in Seq(Line) /\ b.used \in 0 .. BufSize - 1
                           /\ (b.used = 0 <=> b.lines = <<>>)
<1>1. EmptyBuffer \in Buffer
  <2>1. <<>> \in Seq(Line)
    OBVIOUS
  <2> QED BY <2>1, BufferAssumption DEF EmptyBuffer, Buffer
<1>2. EmptyBuffer \in Counting
  BY <1>1 DEF Counting, EmptyBuffer
<1>3. Null \notin Counting
  BY BufferAssumption DEF Counting
<1> QED BY <1>2, <1>3 DEF Counting, Buffer, EmptyBuffer

\* What append() does to the buffer that is being filled.
LEMMA BufferGrows ==
    ASSUME NEW b \in Counting, NEW line \in Line, Fits(b, line)
    PROVE  /\ BufferAppend(b, line) \in Counting
           /\ BufferAppend(b, line).lines = Append(b.lines, line)
<1>1. BufferAppend(b, line) = [lines |-> Append(b.lines, line), used |-> b.used + line.len]
  BY Zenon DEF BufferAppend
<1>2. b.lines \in Seq(Line) /\ b.used \in 0..BufSize - 1
  BY Buffers, Zenon
<1>3. line.len \in Nat /\ line.len > 0
  BY BufferAssumption DEF Line
<1>4. b.used + line.len \in 0..BufSize - 1 /\ b.used + line.len # 0
  BY <1>2, <1>3, BufferAssumption DEF Fits
<1>5. Append(b.lines, line) \in Seq(Line) /\ Append(b.lines, line) # <<>>
  <2>1. PICK q : q = b.lines /\ q \in Seq(Line)
    BY <1>2
  <2>2. Append(q, line) \in Seq(Line) /\ Append(q, line) # <<>>
    BY <2>1
  <2> QED BY <2>1, <2>2, Zenon
<1> QED BY <1>1, <1>4, <1>5 DEF Counting, Buffer

\* The types of the invariant are at least those of the model.
LEMMA BufferTypesSuffice == BufferTypes => TypeOK
<1> SUFFICES ASSUME BufferTypes PROVE TypeOK
  OBVIOUS
<1>1. \A b \in Counting : b \in Buffer
  BY DEF Counting
<1>2. ASSUME NEW q \in Seq(Counting) PROVE q \in Seq(Buffer)
  BY <1>1
<1>3. {curr_buff, next_buff, buffer1, buffer2} \subseteq Buffer \cup {Null}
  BY <1>1, Buffers, Zenon DEF BufferTypes
<1> QED BY <1>2, <1>3 DEF BufferTypes, TypeOK

\* The numbers of the lines in one buffer.
LEMMA IdsOne ==
    ASSUME NEW c \in Counting
    PROVE  Ids(<<c>>) = { c.lines[j].id : j \in 1..Len(c.lines) }
<1>1. PICK q : q = c.lines /\ q \in Seq(Line)
  BY Buffers, Zenon
<1>2. DOMAIN q = 1..Len(q)
  BY <1>1
<1>3. DOMAIN <<c>> = {1} /\ <<c>>[1] = c
  OBVIOUS
<1>4. Ids(<<c>>) = { c.lines[j].id : j \in DOMAIN c.lines }
  BY <1>3 DEF Ids
<1> QED BY <1>1, <1>2, <1>4, Zenon

\* No line is in no buffer or in an empty one.
LEMMA NoIds == Ids(<<>>) = {} /\ Ids(<<EmptyBuffer>>) = {}
BY DEF Ids, EmptyBuffer

\* The numbers of the lines in a buffer that gets another line.
LEMMA IdsGrow ==
    ASSUME NEW b \in Counting, NEW line \in Line, NEW c \in Counting
    PROVE  c.lines = Append(b.lines, line) => Ids(<<c>>) = Ids(<<b>>) \cup {line.id}
<1>0. SUFFICES ASSUME c.lines = Append(b.lines, line) PROVE Ids(<<c>>) = Ids(<<b>>) \cup {line.id}
  OBVIOUS
<1>1. PICK q : q = b.lines /\ q \in Seq(Line)
  BY Buffers, Zenon
<1>2. PICK r : r = Append(q, line)
  OBVIOUS
<1>3. PICK n : n = Len(q) /\ n \in Nat
  BY <1>1
<1>4. Len(r) = n + 1 /\ r[n + 1] = line /\ \A k \in 1..n : r[k] = q[k]
  BY <1>1, <1>2, <1>3
<1>5. { r[j].id : j \in 1..n + 1 } = { q[j].id : j \in 1..n } \cup {line.id}
  BY <1>3, <1>4
<1>6. Ids(<<c>>) = { r[j].id : j \in 1..n + 1 }
  <2>1. c.lines = r
    BY <1>0, <1>1, <1>2, Zenon
  <2> QED BY <1>4, <2>1, IdsOne, Zenon
<1>7. Ids(<<b>>) = { q[j].id : j \in 1..n }
  BY <1>1, <1>3, IdsOne, Zenon
<1> QED BY <1>5, <1>6, <1>7, Zenon

\* The lines of a sequence, by number.
FileIds(f) == { f[k].id : k \in DOMAIN f }

\* The numbers in two sequences of lines.
LEMMA FileIdsConcat ==
    ASSUME NEW s \in Seq(Line), NEW t \in Seq(Line)
    PROVE  FileIds(s \o t) = FileIds(s) \cup FileIds(t)
<1>1. PICK a, b, r : a = Len(s) /\ b = Len(t) /\ r = s \o t /\ a \in Nat /\ b \in Nat
  <2>1. Len(s) \in Nat /\ Len(t) \in Nat
    OBVIOUS
  <2> QED BY <2>1, Zenon
<1>2. /\ r \in Seq(Line) /\ Len(r) = a + b
      /\ \A k \in 1..a + b : r[k] = IF k <= a THEN s[k] ELSE t[k - a]
  BY <1>1, ConcatProperties, Zenon
<1>3. DOMAIN r = 1..a + b /\ DOMAIN s = 1..a /\ DOMAIN t = 1..b
  BY <1>1, <1>2
<1>4. /\ \A k \in 1..a : r[k] = s[k] /\ k \in 1..a + b
      /\ \A k \in 1..b : r[a + k] = t[k] /\ a + k \in 1..a + b
      /\ \A k \in 1..a + b : k \notin 1..a => k - a \in 1..b /\ r[k] = t[k - a]
  <2>1. /\ \A k \in 1..a : k <= a /\ k \in 1..a + b
        /\ \A k \in 1..b : ~(a + k <= a) /\ a + k \in 1..a + b /\ (a + k) - a = k
        /\ \A k \in 1..a + b : k \notin 1..a => k - a \in 1..b /\ ~(k <= a)
    BY <1>1
  <2> QED BY <1>2, <2>1, Zenon
<1>5. ASSUME NEW x PROVE x \in FileIds(r) <=> x \in FileIds(s) \/ x \in FileIds(t)
  <2>1. /\ x \in FileIds(r) <=> \E k \in 1..a + b : x = r[k].id
        /\ x \in FileIds(s) <=> \E k \in 1..a : x = s[k].id
        /\ x \in FileIds(t) <=> \E k \in 1..b : x = t[k].id
    BY <1>3, Zenon DEF FileIds
  <2>2. ASSUME NEW k \in 1..a + b, x = r[k].id PROVE x \in FileIds(s) \/ x \in FileIds(t)
    BY <1>4, <2>1, <2>2, Zenon
  <2>3. ASSUME NEW k \in 1..a, x = s[k].id PROVE x \in FileIds(r)
    BY <1>4, <2>1, <2>3, Zenon
  <2>4. ASSUME NEW k \in 1..b, x = t[k].id PROVE x \in FileIds(r)
    BY <1>4, <2>1, <2>4, Zenon
  <2> QED BY <2>1, <2>2, <2>3, <2>4, Zenon
<1>6. FileIds(r) = FileIds(s) \cup FileIds(t)
  BY <1>5, Zenon
<1> QED BY <1>1, <1>6, Zenon

\* The numbers in a list of buffers are those in its text.
LEMMA IdsAreText ==
    ASSUME NEW bs \in Seq(Counting)
    PROVE  Ids(bs) = FileIds(Text(bs))
<1>1. Text(bs) \in Seq(Line)
  BY LinesOfType, Zenon
<1>2. DOMAIN Text(bs) = 1..Len(Text(bs))
  BY <1>1
<1> QED BY <1>2, IdsOfText, Zenon DEF FileIds

\* The numbers in two lists of buffers.
LEMMA IdsConcat ==
    ASSUME NEW p \in Seq(Counting), NEW q \in Seq(Counting)
    PROVE  /\ Ids(p \o q) = Ids(p) \cup Ids(q)
           /\ \A b \in Counting : Ids(Append(p, b)) = Ids(p) \cup Ids(<<b>>)
<1>1. ASSUME NEW r \in Seq(Counting) PROVE Ids(p \o r) = Ids(p) \cup Ids(r)
  <2>1. p \o r \in Seq(Counting)
    OBVIOUS
  <2>2. Text(p) \in Seq(Line) /\ Text(r) \in Seq(Line) /\ Text(p \o r) = Text(p) \o Text(r)
    BY LinesOfType, TextConcat, Zenon
  <2>3. FileIds(Text(p) \o Text(r)) = FileIds(Text(p)) \cup FileIds(Text(r))
    BY <2>2, FileIdsConcat, Zenon
  <2> QED BY <2>1, <2>2, <2>3, IdsAreText, Zenon
<1>2. ASSUME NEW b \in Counting PROVE Append(p, b) = p \o <<b>> /\ <<b>> \in Seq(Counting)
  OBVIOUS
<1> QED BY <1>1, <1>2, Zenon

\* A line appended after the others.
LEMMA OrderAppend ==
    ASSUME NEW s \in Seq(Line), NEW n \in Nat, Increasing(s), UpTo(n, s),
           NEW line \in Line, line.id = n + 1
    PROVE  Increasing(Append(s, line)) /\ UpTo(n + 1, Append(s, line)) /\ UpTo(n + 1, s)
<1>1. PICK r, m : r = Append(s, line) /\ m = Len(s)
  OBVIOUS
<1>2. m \in Nat /\ Len(r) = m + 1 /\ r[m + 1] = line /\ \A k \in 1..m : r[k] = s[k] /\ s[k] \in Line
  BY <1>1
<1>3. \A k \in 1..m : s[k].id \in Nat /\ s[k].id <= n
  <2>1. \A x \in Line : x.id \in Nat
    BY BufferAssumption DEF Line
  <2> QED BY <1>1, <1>2, <2>1, Zenon DEF UpTo
<1>4. \A j, k \in 1..m : j < k => s[j].id < s[k].id
  BY <1>1, Zenon DEF Increasing
<1>5. UpTo(n + 1, s)
  BY <1>1, <1>3 DEF UpTo
<1>6. \A k \in 1..m + 1 : (k \in 1..m /\ r[k].id = s[k].id) \/ (k = m + 1 /\ r[k].id = n + 1)
  BY <1>2
<1>7. UpTo(n + 1, r)
  BY <1>2, <1>3, <1>6 DEF UpTo
<1>8. \A j, k \in 1..m + 1 : j < k => r[j].id < r[k].id
  <2> SUFFICES ASSUME NEW j \in 1..m + 1, NEW k \in 1..m + 1, j < k PROVE r[j].id < r[k].id
    OBVIOUS
  <2>1. j \in 1..m /\ r[j].id = s[j].id
    BY <1>2, <1>6
  <2>2. CASE k = m + 1
    BY <1>2, <1>3, <2>1, <2>2
  <2>3. CASE k \in 1..m
    BY <1>2, <1>4, <2>1, <2>3
  <2> QED BY <1>2, <2>2, <2>3
<1>9. Increasing(r)
  BY <1>2, <1>8, Zenon DEF Increasing
<1> QED BY <1>1, <1>5, <1>7, <1>9, Zenon

\* The parts of the pipeline are lines.
LEMMA PipelineType ==
    ASSUME BufferTypes
    PROVE  /\ file \in Seq(Line) /\ Text(buffers_to_write) \in Seq(Line)
           /\ Text(buffers) \in Seq(Line) /\ curr_buff.lines \in Seq(Line)
           /\ Text(buffers) \o curr_buff.lines \in Seq(Line)
           /\ Text(buffers_to_write) \o (Text(buffers) \o curr_buff.lines) \in Seq(Line)
           /\ Pipeline \in Seq(Line)
<1>1. /\ file \in Seq(Line) /\ Text(buffers_to_write) \in Seq(Line)
      /\ Text(buffers) \in Seq(Line) /\ curr_buff.lines \in Seq(Line)
  BY LinesOfType, Buffers, Zenon DEF BufferTypes
<1>2. \A p, q \in Seq(Line) : p \o q \in Seq(Line)
  OBVIOUS
<1> QED BY <1>1, <1>2, Zenon DEF Pipeline

\* Every line is accounted for, before and after a step.
Accounted(n, f, bs, bw, c, l) ==
    1..n = FileIds(f) \cup (Ids(bs) \cup Ids(bw) \cup Ids(<<c>>)) \cup l
LEMMA Accounts ==
    /\ NoSilentLoss <=> Accounted(appended, file, buffers, buffers_to_write, curr_buff, lost)
    /\ NoSilentLoss' <=> Accounted(appended', file', buffers', buffers_to_write', curr_buff', lost')
BY Zenon DEF NoSilentLoss, InBuffers, FileIds, Ids, Accounted

\* The pipeline after a step.
PipelineOf(f, bw, bs, c) == f \o (Text(bw) \o (Text(bs) \o c.lines))
LEMMA PipelineNext ==
    /\ Pipeline = PipelineOf(file, buffers_to_write, buffers, curr_buff)
    /\ Pipeline' = PipelineOf(file', buffers_to_write', buffers', curr_buff')
BY Zenon DEF Pipeline, PipelineOf, Text, LinesOf

\* append() keeps the invariant: the new line goes to the end of the pipeline, or
\* is dropped and counted as lost.
LEMMA LogAppendKeeps ==
    ASSUME BuffersInv, LogAppend
    PROVE  BuffersInv'
<1>1. BufferTypes /\ Spares /\ Increasing(Pipeline) /\ UpTo(appended, Pipeline) /\ NoSilentLoss
  BY DEF BuffersInv, Ordered
<1>22. PICK len \in 1..MaxLen :
          LET l == [id |-> appended + 1, len |-> len] IN AppendFits(l) \/ AppendSwitches(l)
  BY DEF LogAppend
<1>2. PICK line :
        /\ line = [id |-> appended + 1, len |-> len]
        /\ AppendFits(line) \/ AppendSwitches(line)
  BY <1>22
<1>3. appended < NumLines /\ appended' = appended + 1 /\ UNCHANGED <<running, own, bpc, opc, file>>
  BY DEF LogAppend
<1>4. appended \in Nat /\ NumLines \in Nat /\ appended' \in 0..NumLines
  BY <1>1, <1>3, BufferAssumption DEF BufferTypes
<1>5. line \in Line /\ line.id = appended + 1 /\ line.id \in 1..NumLines
  BY <1>2, <1>3, <1>4 DEF Line
<1>6. 1..appended' = 1..appended \cup {line.id}
  BY <1>3, <1>4, <1>5
<1>7. /\ file \in Seq(Line) /\ Text(buffers_to_write) \in Seq(Line)
      /\ Text(buffers) \in Seq(Line) /\ curr_buff.lines \in Seq(Line)
      /\ Text(buffers) \o curr_buff.lines \in Seq(Line)
      /\ Text(buffers_to_write) \o (Text(buffers) \o curr_buff.lines) \in Seq(Line)
      /\ Pipeline \in Seq(Line)
  BY <1>1, PipelineType, Zenon
<1>8. ASSUME NEW p \in Seq(Line), NEW q \in Seq(Line) PROVE p \o Append(q, line) = Append(p \o q, line)
  <2>1. line \in Line
    BY <1>5
  <2> QED BY <2>1, LastChunk
<1>9. Append(Pipeline, line) = file \o (Text(buffers_to_write) \o (Text(buffers) \o Append(curr_buff.lines, line)))
  <2>1. Append(Text(buffers) \o curr_buff.lines, line) = Text(buffers) \o Append(curr_buff.lines, line)
    BY <1>7, <1>8, Zenon
  <2>2. Append(Text(buffers_to_write) \o (Text(buffers) \o curr_buff.lines), line)
        = Text(buffers_to_write) \o (Text(buffers) \o Append(curr_buff.lines, line))
    BY <1>7, <1>8, <2>1, Zenon
  <2> QED BY <1>7, <1>8, <2>2, Zenon DEF Pipeline
<1>10. /\ Increasing(Append(Pipeline, line)) /\ UpTo(appended', Append(Pipeline, line))
       /\ UpTo(appended', Pipeline)
  BY <1>1, <1>3, <1>4, <1>5, <1>7, OrderAppend, Zenon
<1>11. 1..appended = FileIds(file) \cup (Ids(buffers) \cup Ids(buffers_to_write) \cup Ids(<<curr_buff>>)) \cup lost
  BY <1>1, Accounts, Zenon DEF Accounted
<1>12. curr_buff \in Counting /\ next_buff \in {Null, EmptyBuffer} /\ buffers \in Seq(Counting)
  BY <1>1 DEF BufferTypes
<1>13. UNCHANGED <<buffer1, buffer2, buffers_to_write>>
  BY <1>3 DEF own
<1>14. ASSUME curr_buff' \in Counting, next_buff' \in {Null, EmptyBuffer}, buffers' \in Seq(Counting), lost' \subseteq 1..NumLines
       PROVE  BufferTypes'
  BY <1>1, <1>3, <1>4, <1>13, <1>14 DEF BufferTypes
<1>15. CASE AppendFits(line)
  <2>1. Fits(curr_buff, line) /\ curr_buff' = BufferAppend(curr_buff, line) /\ UNCHANGED <<next_buff, buffers, lost>>
    BY <1>15, Zenon DEF AppendFits
  <2>2. curr_buff' \in Counting /\ curr_buff'.lines = Append(curr_buff.lines, line)
    BY <1>5, <1>12, <2>1, BufferGrows, Zenon
  <2>3. BufferTypes'
    BY <1>1, <1>12, <1>14, <2>1, <2>2 DEF BufferTypes
  <2>4. Spares'
    BY <1>1, <1>3, <1>13, <2>1, Zenon DEF Spares
  <2>5. Pipeline' = Append(Pipeline, line)
    <3>1. Pipeline' = PipelineOf(file, buffers_to_write, buffers, curr_buff')
      BY <1>3, <1>13, <2>1, PipelineNext, Zenon
    <3> QED BY <1>9, <2>2, <3>1, Zenon DEF PipelineOf
  <2>6. Ids(<<curr_buff'>>) = Ids(<<curr_buff>>) \cup {line.id}
    BY <1>5, <1>12, <2>2, IdsGrow, Zenon
  <2>7. NoSilentLoss'
    <3>1. 1..appended' = FileIds(file) \cup (Ids(buffers) \cup Ids(buffers_to_write) \cup Ids(<<curr_buff'>>)) \cup lost
      BY <1>6, <1>11, <2>6
    <3> QED BY <1>3, <1>13, <2>1, <3>1, Accounts, Zenon DEF Accounted
  <2> QED BY <1>10, <2>3, <2>4, <2>5, <2>7, Zenon DEF BuffersInv, Ordered
<1>16. CASE AppendSwitches(line)
  <2>1. /\ buffers' = Append(buffers, curr_buff) /\ next_buff' = Null
        /\ curr_buff' = BufferAppend(EmptyBuffer, line)
        /\ lost' = IF Fits(EmptyBuffer, line) THEN lost ELSE lost \cup {line.id}
    <3>1. (IF next_buff # Null THEN next_buff ELSE EmptyBuffer) = EmptyBuffer
      BY <1>12, Zenon
    <3> QED BY <1>16, <3>1, Zenon DEF AppendSwitches
  <2>2. buffers' \in Seq(Counting) /\ buffers' # <<>>
    BY <1>12, <2>1
  <2>3. Spares'
    BY <1>1, <1>3, <1>13, <2>2, Zenon DEF Spares
  <2>4. Text(buffers') = Text(buffers) \o curr_buff.lines
    BY <1>12, <2>1, TextAppend, Zenon
  <2>5. Ids(buffers') = Ids(buffers) \cup Ids(<<curr_buff>>)
    BY <1>12, <2>1, IdsConcat, Zenon
  <2>6. EmptyBuffer \in Counting /\ EmptyBuffer.lines = <<>> /\ Ids(<<EmptyBuffer>>) = {}
    BY Buffers, NoIds, Zenon
  <2>7. Pipeline' = file \o (Text(buffers_to_write) \o ((Text(buffers) \o curr_buff.lines) \o curr_buff'.lines))
    <3>1. Pipeline' = PipelineOf(file, buffers_to_write, buffers', curr_buff')
      BY <1>3, <1>13, PipelineNext, Zenon
    <3> QED BY <2>4, <3>1, Zenon DEF PipelineOf
  <2>8. CASE Fits(EmptyBuffer, line)
    <3>1. curr_buff' \in Counting /\ curr_buff'.lines = Append(<<>>, line) /\ lost' = lost
      BY <1>5, <2>1, <2>6, <2>8, BufferGrows, Zenon
    <3>2. BufferTypes'
      BY <1>1, <1>14, <2>1, <2>2, <3>1 DEF BufferTypes
    <3>3. Pipeline' = Append(Pipeline, line)
      <4>1. <<>> \in Seq(Line)
        OBVIOUS
      <4>2. PICK t : t = Text(buffers) \o curr_buff.lines /\ t \in Seq(Line)
        BY <1>7, Zenon
      <4>3. t \o Append(<<>>, line) = Append(t, line)
        <5>1. t \o <<>> = t
          BY <4>2, ConcatFacts, Zenon
        <5> QED BY <1>8, <4>1, <4>2, <5>1, Zenon
      <4>4. Append(t, line) = Text(buffers) \o Append(curr_buff.lines, line)
        BY <1>7, <1>8, <4>2, Zenon
      <4> QED BY <1>9, <2>7, <3>1, <4>2, <4>3, <4>4, Zenon
    <3>4. Ids(<<curr_buff'>>) = {line.id}
      <4>1. Ids(<<curr_buff'>>) = Ids(<<EmptyBuffer>>) \cup {line.id}
        BY <1>5, <2>6, <3>1, IdsGrow, Zenon
      <4> QED BY <2>6, <4>1
    <3>5. NoSilentLoss'
      <4>1. 1..appended' = FileIds(file) \cup (Ids(buffers') \cup Ids(buffers_to_write) \cup Ids(<<curr_buff'>>)) \cup lost'
        BY <1>6, <1>11, <2>5, <3>1, <3>4
      <4> QED BY <1>3, <1>13, <4>1, Accounts, Zenon DEF Accounted
    <3> QED BY <1>10, <2>3, <3>2, <3>3, <3>5, Zenon DEF BuffersInv, Ordered
  <2>9. CASE ~Fits(EmptyBuffer, line)
    <3>1. curr_buff' = EmptyBuffer /\ lost' = lost \cup {line.id}
      BY <2>1, <2>9, Zenon DEF BufferAppend
    <3>2. BufferTypes'
      <4>1. lost' \subseteq 1..NumLines
        BY <1>1, <1>5, <3>1 DEF BufferTypes
      <4> QED BY <1>14, <2>1, <2>2, <2>6, <3>1, <4>1
    <3>3. Pipeline' = Pipeline
      BY <1>7, <2>6, <2>7, <3>1, ConcatFacts, Zenon DEF Pipeline
    <3>4. Ids(<<curr_buff'>>) = {}
      BY <2>6, <3>1, Zenon
    <3>5. NoSilentLoss'
      <4>1. 1..appended' = FileIds(file) \cup (Ids(buffers') \cup Ids(buffers_to_write) \cup Ids(<<curr_buff'>>)) \cup lost'
        BY <1>6, <1>11, <2>5, <3>1, <3>4
      <4> QED BY <1>3, <1>13, <4>1, Accounts, Zenon DEF Accounted
    <3> QED BY <1>1, <1>10, <2>3, <3>2, <3>3, <3>5, Zenon DEF BuffersInv, Ordered
  <2> QED BY <2>8, <2>9
<1> QED BY <1>2, <1>15, <1>16

\* The text and the lines are kept while the buffers are.
LEMMA BuffersUnchanged ==
    ASSUME BuffersInv, UNCHANGED <<shared, buffers_to_write, appended, file, lost>>
    PROVE  Ordered' /\ NoSilentLoss'
<1>1. UNCHANGED <<curr_buff, buffers, buffers_to_write, appended, file, lost>>
  BY DEF shared
<1>2. Pipeline' = Pipeline
  BY <1>1, PipelineNext, Zenon
<1>3. NoSilentLoss'
  BY <1>1, Accounts, Zenon DEF BuffersInv
<1> QED BY <1>1, <1>2, <1>3, Zenon DEF BuffersInv, Ordered

\* The owner's calls, and the thread where it leaves the buffers alone.
LEMMA ControlKeeps ==
    ASSUME BuffersInv, Start \/ StopClear \/ StopNotify \/ StopJoin \/ Entry \/ TestRunning \/ WaitFor
    PROVE  BuffersInv'
<1>1. UNCHANGED <<shared, buffers_to_write, appended, file, lost>>
  BY DEF Start, StopClear, StopNotify, StopJoin, Entry, TestRunning, WaitFor, own
<1>2. Ordered' /\ NoSilentLoss'
  BY <1>1, BuffersUnchanged
<1>3. BufferTypes /\ Spares
  BY DEF BuffersInv
<1>4. BufferTypes'
  <2>1. UNCHANGED <<curr_buff, next_buff, buffers, buffers_to_write, appended, file, lost>>
    BY <1>1 DEF shared
  <2>2. running' \in BOOLEAN /\ opc' \in {"new", "started", "stop", "join", "joined"}
        /\ bpc' \in {"none", "entry", "test", "lock", "wait", "write", "done", "aborted"}
        /\ buffer1' \in {Null, EmptyBuffer} /\ buffer2' \in {Null, EmptyBuffer}
    BY <1>3 DEF Start, StopClear, StopNotify, StopJoin, Entry, TestRunning, WaitFor, own, BufferTypes
  <2> QED BY <1>3, <2>1, <2>2, Zenon DEF BufferTypes
<1>5. Spares'
  <2>1. UNCHANGED <<next_buff, buffers, buffers_to_write>>
    BY <1>1 DEF shared
  <2>2. CASE Entry
    BY <1>3, <2>1, <2>2, Buffers DEF Entry, Spares
  <2>3. CASE TestRunning \/ WaitFor
    <3>1. UNCHANGED <<buffer1, buffer2>> /\ bpc \in {"test", "lock"} /\ bpc' \in {"lock", "done", "wait"}
      BY <2>3 DEF TestRunning, WaitFor, own
    <3>2. bpc # "write" /\ bpc' # "write" /\ bpc \in {"test", "lock", "wait"} /\ opc' # "new"
      <4>1. opc' = opc /\ bpc # "none"
        BY <2>3, <3>1 DEF TestRunning, WaitFor
      <4> QED BY <1>3, <3>1, <4>1 DEF Spares
    <3> QED BY <1>3, <2>1, <3>1, <3>2, Zenon DEF Spares
  <2>4. CASE Start
    BY <1>3, <2>1, <2>4 DEF Start, Spares, own
  <2>5. CASE StopClear \/ StopNotify \/ StopJoin
    BY <1>3, <2>1, <2>5 DEF StopClear, StopNotify, StopJoin, Spares, own
  <2> QED BY <2>2, <2>3, <2>4, <2>5
<1> QED BY <1>2, <1>4, <1>5 DEF BuffersInv

\* The thread takes the buffers over: the pipeline stays as it is, and two buffers
\* are on their way whenever both pointers have been used up.
LEMMA CollectKeeps ==
    ASSUME BuffersInv, Collect
    PROVE  BuffersInv'
<1>1. BufferTypes /\ Spares /\ Increasing(Pipeline) /\ UpTo(appended, Pipeline) /\ NoSilentLoss
  BY DEF BuffersInv, Ordered
<1>2. bpc \in {"wait", "lock"}
  BY DEF Collect, CollectReady
<1>3. bpc # "write" /\ bpc # "none" /\ bpc \in {"test", "lock", "wait"}
  BY <1>2
<1>4. buffer1 = EmptyBuffer /\ buffer2 = EmptyBuffer /\ buffers_to_write = <<>> /\ opc # "new"
  BY <1>1, <1>3, Zenon DEF Spares, BufferTypes
<1>5. /\ bpc' = "write" /\ buffers_to_write' = Append(buffers, curr_buff) /\ buffers' = <<>>
      /\ curr_buff' = EmptyBuffer /\ buffer1' = Null
      /\ UNCHANGED <<running, opc, appended, file, lost>>
      /\ \/ next_buff = Null /\ next_buff' = EmptyBuffer /\ buffer2' = Null
         \/ next_buff # Null /\ next_buff' = next_buff /\ buffer2' = buffer2
  BY <1>4, Zenon DEF Collect
<1>6. curr_buff \in Counting /\ buffers \in Seq(Counting) /\ EmptyBuffer \in Counting /\ EmptyBuffer # Null
  BY <1>1, Buffers, Zenon DEF BufferTypes
<1>7. Append(buffers, curr_buff) \in Seq(Counting) /\ <<>> \in Seq(Counting) /\ Append(buffers, curr_buff) # <<>>
  <2>1. <<>> \in Seq(Counting)
    OBVIOUS
  <2>2. Append(buffers, curr_buff) \in Seq(Counting)
    BY <1>6
  <2>3. Append(buffers, curr_buff) # <<>>
    <3>1. Len(buffers) \in Nat /\ Len(Append(buffers, curr_buff)) = Len(buffers) + 1
      BY <1>6, AppendType, Zenon
    <3>2. Len(Append(buffers, curr_buff)) # 0 /\ Len(<<>>) = 0
      BY <3>1
    <3> QED BY <3>2, Zenon
  <2> QED BY <2>1, <2>2, <2>3
<1>8. BufferTypes'
  BY <1>1, <1>4, <1>5, <1>6, <1>7 DEF BufferTypes
<1>9. Spares'
  <2>1. buffer2' = Null => next_buff = Null
    BY <1>4, <1>5, <1>6, Zenon
  <2>2. next_buff = Null => Len(Append(buffers, curr_buff)) >= 2
    <3>1. next_buff = Null => buffers # <<>>
      BY <1>1 DEF Spares
    <3> QED BY <1>6, <3>1
  <2>3. next_buff' # Null
    BY <1>5, <1>6, Zenon
  <2>4. "write" \notin {"test", "lock", "wait"}
    OBVIOUS
  <2> QED BY <1>4, <1>5, <1>7, <2>1, <2>2, <2>3, <2>4, Zenon DEF Spares
<1>10. Pipeline' = Pipeline
  <2>1. Text(Append(buffers, curr_buff)) = Text(buffers) \o curr_buff.lines
    BY <1>6, TextAppend, Zenon
  <2>2. Text(<<>>) = <<>> /\ EmptyBuffer.lines = <<>>
    BY <1>6, TextOne, Buffers, Zenon
  <2>3. PICK t : t = Text(buffers) \o curr_buff.lines /\ t \in Seq(Line)
    BY <1>1, PipelineType, Zenon
  <2>4. Pipeline = file \o (<<>> \o t)
    BY <1>4, <2>2, <2>3, Zenon DEF Pipeline
  <2>5. Pipeline' = file \o (t \o (<<>> \o <<>>))
    BY <1>5, <2>1, <2>2, <2>3, PipelineNext, Zenon DEF PipelineOf
  <2>6. <<>> \o <<>> = <<>>
    OBVIOUS
  <2>7. <<>> \o t = t /\ t \o <<>> = t
    BY <2>3, ConcatFacts, Zenon
  <2> QED BY <2>4, <2>5, <2>6, <2>7, Zenon
<1>11. NoSilentLoss'
  <2>2. 1..appended = FileIds(file) \cup (Ids(buffers) \cup Ids(buffers_to_write) \cup Ids(<<curr_buff>>)) \cup lost
    BY <1>1, Accounts, Zenon DEF Accounted
  <2>3. Ids(<<>>) = {} /\ Ids(<<EmptyBuffer>>) = {}
    BY NoIds
  <2>4. Ids(Append(buffers, curr_buff)) = Ids(buffers) \cup Ids(<<curr_buff>>)
    BY <1>6, IdsConcat, Zenon
  <2>5. 1..appended = FileIds(file) \cup (Ids(<<>>) \cup Ids(Append(buffers, curr_buff)) \cup Ids(<<EmptyBuffer>>)) \cup lost
    BY <1>4, <2>2, <2>3, <2>4
  <2> QED BY <1>5, <2>5, Accounts, Zenon DEF Accounted
<1> QED BY <1>1, <1>5, <1>8, <1>9, <1>10, <1>11, Zenon DEF BuffersInv, Ordered

\* The buffers that are written are the last ones.
LEMMA KeptFacts ==
    ASSUME BufferTypes
    PROVE  /\ Kept \in Seq(Counting)
           /\ \E p \in Seq(Counting) : buffers_to_write = p \o Kept
           /\ Len(Kept) = IF Overrun THEN 2 ELSE Len(buffers_to_write)
<1>1. PICK w, n : w = buffers_to_write /\ n = Len(w)
  OBVIOUS
<1>2. w \in Seq(Counting) /\ n \in Nat
  BY <1>1 DEF BufferTypes
<1>3. CASE Overrun
  <2>1. n > MaxBuffers /\ n - 2 \in 0..n /\ (n - 2) + 1 = n - 1
    BY <1>1, <1>2, <1>3, BufferAssumption DEF Overrun
  <2>2. Kept = SubSeq(w, n - 1, n)
    BY <1>1, <1>3, Zenon DEF Kept
  <2>3. PICK k : k = n - 2 /\ k \in 0..n /\ k + 1 = n - 1
    BY <2>1
  <2>4. PICK u, v : u = SubSeq(w, 1, k) /\ v = SubSeq(w, k + 1, n)
    OBVIOUS
  <2>5. u \in Seq(Counting) /\ v \in Seq(Counting) /\ w = u \o v /\ Len(u) = k
    BY <1>1, <1>2, <2>3, <2>4, SplitAt, Zenon
  <2>6. Len(v) = 2
    <3>1. Len(w) = Len(u) + Len(v)
      BY <2>5, ConcatProperties, Zenon
    <3>2. Len(v) \in Nat
      BY <2>5
    <3>3. n = k + Len(v) /\ k = n - 2
      BY <1>1, <2>3, <2>5, <3>1, Zenon
    <3>4. \A a, l \in Nat : \A b \in 0..a : a = b + l /\ b = a - 2 => l = 2
      OBVIOUS
    <3> QED BY <1>2, <2>3, <3>2, <3>3, <3>4, Zenon
  <2>7. Kept = v
    BY <2>2, <2>3, <2>4, Zenon
  <2> QED BY <1>1, <1>3, <2>5, <2>6, <2>7, Zenon
<1>4. CASE ~Overrun
  <2>1. Kept = w
    BY <1>1, <1>4, Zenon DEF Kept
  <2>2. <<>> \in Seq(Counting)
    OBVIOUS
  <2>3. w = <<>> \o w
    BY <1>2, ConcatFacts, Zenon
  <2> QED BY <1>1, <1>2, <1>4, <2>1, <2>2, <2>3, Zenon
<1> QED BY <1>3, <1>4

\* The asserts on buffers_to_write hold.
LEMMA SparesAreEnough == BuffersInv => SparesSuffice
<1> SUFFICES ASSUME BuffersInv PROVE SparesSuffice
  OBVIOUS
<1>1. BufferTypes /\ Spares
  BY DEF BuffersInv
<1>2. TypeOK /\ curr_buff # Null
  BY <1>1, BufferTypesSuffice, Buffers, Zenon DEF BufferTypes
<1>3. ASSUME bpc = "write" PROVE Len(Kept) >= Missing
  <2>1. buffers_to_write \in Seq(Counting) /\ buffers_to_write # <<>>
    BY <1>1, <1>3 DEF Spares, BufferTypes
  <2>2. Len(buffers_to_write) \in Nat /\ Len(buffers_to_write) >= 1
    BY <2>1
  <2>3. buffer2 = Null => Len(buffers_to_write) >= 2
    BY <1>1, <1>3 DEF Spares
  <2>4. Missing \in 0..2 /\ (buffer2 # Null => Missing <= 1)
    BY DEF Missing
  <2>5. Len(Kept) = IF Overrun THEN 2 ELSE Len(buffers_to_write)
    BY <1>1, KeptFacts, Zenon
  <2> QED BY <2>2, <2>3, <2>4, <2>5
<1> QED BY <1>1, <1>2, <1>3 DEF Spares, SparesSuffice

\* Leaving a part of the lines out keeps the others in order.
LEMMA OrderWithout ==
    ASSUME NEW f \in Seq(Line), NEW p \in Seq(Line), NEW k \in Seq(Line), NEW r \in Seq(Line), NEW n \in Nat
    PROVE  Increasing(f \o ((p \o k) \o r)) /\ UpTo(n, f \o ((p \o k) \o r))
           => Increasing((f \o k) \o r) /\ UpTo(n, (f \o k) \o r)
<1>0. SUFFICES ASSUME Increasing(f \o ((p \o k) \o r)), UpTo(n, f \o ((p \o k) \o r))
               PROVE  Increasing((f \o k) \o r) /\ UpTo(n, (f \o k) \o r)
  OBVIOUS
<1>1. /\ p \o k \in Seq(Line) /\ f \o k \in Seq(Line) /\ (p \o k) \o r \in Seq(Line)
  OBVIOUS
<1>2. /\ Increasing(f) /\ Increasing((p \o k) \o r) /\ Before(f, (p \o k) \o r)
      /\ UpTo(n, f) /\ UpTo(n, (p \o k) \o r)
  <2>1. PICK q : q = (p \o k) \o r
    OBVIOUS
  <2>2. q \in Seq(Line) /\ Increasing(f \o q) /\ UpTo(n, f \o q)
    BY <1>0, <1>1, <2>1, Zenon
  <2>3. Increasing(f) /\ Increasing(q) /\ Before(f, q) /\ UpTo(n, f) /\ UpTo(n, q)
    BY <2>2, OrderConcat, Zenon
  <2> QED BY <2>1, <2>3, Zenon
<1>3. /\ Increasing(p \o k) /\ Increasing(r) /\ Before(p \o k, r) /\ UpTo(n, p \o k) /\ UpTo(n, r)
      /\ Before(f, p \o k) /\ Before(f, r)
  BY <1>1, <1>2, OrderConcat, Zenon
<1>4. Increasing(k) /\ Before(k, r) /\ UpTo(n, k) /\ Before(f, k)
  BY <1>1, <1>3, OrderConcat, Zenon
<1>5. Increasing(f \o k) /\ UpTo(n, f \o k) /\ Before(f \o k, r)
  BY <1>2, <1>3, <1>4, OrderConcat, Zenon
<1> QED BY <1>1, <1>3, <1>5, OrderConcat, Zenon

\* A round is written: the lines of the last buffers go to the file, those of
\* buffers that are dropped are lost.
LEMMA WriteOutKeeps ==
    ASSUME BuffersInv, WriteOut
    PROVE  BuffersInv' /\ file' = file \o Text(Kept)
<1>1. BufferTypes /\ Spares /\ Increasing(Pipeline) /\ UpTo(appended, Pipeline) /\ NoSilentLoss
  BY DEF BuffersInv, Ordered
<1>2. /\ bpc = "write" /\ bpc' \in {"test", "aborted"}
      /\ buffer1' = EmptyBuffer /\ buffer2' = EmptyBuffer /\ buffers_to_write' = <<>>
      /\ UNCHANGED <<curr_buff, next_buff, buffers, running, opc, appended>>
      /\ lost' = lost \cup (Ids(buffers_to_write) \ Ids(Kept))
      /\ file' = file \o FlattenSeq([k \in DOMAIN Kept |-> Kept[k].lines])
  <2>1. buffer1 \in {Null, EmptyBuffer} /\ buffer2 \in {Null, EmptyBuffer}
    BY <1>1 DEF BufferTypes
  <2> QED BY <2>1, Zenon DEF WriteOut, Recycled, shared
<1>3. Kept \in Seq(Counting)
  BY <1>1, KeptFacts, Zenon
<1>4. PICK p \in Seq(Counting) : buffers_to_write = p \o Kept
  BY <1>1, KeptFacts, Zenon
<1>5. DOMAIN Kept = 1..Len(Kept)
  BY <1>3
<1>6. file' = file \o Text(Kept)
  BY <1>2, <1>5, Zenon DEF Text, LinesOf
<1>7. /\ file \in Seq(Line) /\ Text(p) \in Seq(Line) /\ Text(Kept) \in Seq(Line)
      /\ Text(buffers) \o curr_buff.lines \in Seq(Line)
  BY <1>1, <1>3, <1>4, LinesOfType, PipelineType, Zenon
<1>8. 1..appended = FileIds(file) \cup (Ids(buffers) \cup Ids(buffers_to_write) \cup Ids(<<curr_buff>>)) \cup lost
  BY <1>1, Accounts, Zenon DEF Accounted
<1>9. appended \in Nat /\ appended \in 0..NumLines
  BY <1>1, BufferAssumption DEF BufferTypes
<1>10. BufferTypes'
  <2>1. lost' \subseteq 1..NumLines
    BY <1>1, <1>2, <1>8, <1>9, BufferAssumption DEF BufferTypes
  <2>2. file' \in Seq(Line)
    BY <1>6, <1>7
  <2>3. <<>> \in Seq(Counting)
    OBVIOUS
  <2>4. bpc' \in {"none", "entry", "test", "lock", "wait", "write", "done", "aborted"}
    BY <1>2
  <2> QED BY <1>1, <1>2, <2>1, <2>2, <2>3, <2>4, Zenon DEF BufferTypes
<1>11. Spares'
  <2>1. bpc' # "write" /\ bpc # "none"
    BY <1>2
  <2> QED BY <1>1, <1>2, <2>1, Buffers, Zenon DEF Spares
<1>12. Ordered'
  <2>1. PICK r : r = Text(buffers) \o curr_buff.lines
    OBVIOUS
  <2>2. Text(buffers_to_write) = Text(p) \o Text(Kept)
    BY <1>3, <1>4, TextConcat, Zenon
  <2>3. Pipeline = file \o ((Text(p) \o Text(Kept)) \o r)
    BY <2>1, <2>2, Zenon DEF Pipeline
  <2>4. Increasing((file \o Text(Kept)) \o r) /\ UpTo(appended, (file \o Text(Kept)) \o r)
    BY <1>1, <1>7, <1>9, <2>1, <2>3, OrderWithout, Zenon
  <2>5. Pipeline' = (file \o Text(Kept)) \o (Text(<<>>) \o r)
    BY <1>2, <1>6, <2>1, PipelineNext, Zenon DEF PipelineOf
  <2>6. Text(<<>>) \o r = r
    BY <1>7, <2>1, TextOne, Buffers, ConcatFacts, Zenon
  <2> QED BY <1>2, <2>4, <2>5, <2>6, Zenon DEF Ordered
<1>13. NoSilentLoss'
  <2>1. FileIds(file \o Text(Kept)) = FileIds(file) \cup Ids(Kept)
    BY <1>3, <1>7, FileIdsConcat, IdsAreText, Zenon
  <2>2. Ids(buffers_to_write) = Ids(p) \cup Ids(Kept)
    BY <1>3, <1>4, IdsConcat, Zenon
  <2>3. Ids(<<>>) = {}
    BY NoIds
  <2>4. 1..appended = FileIds(file') \cup (Ids(buffers) \cup Ids(<<>>) \cup Ids(<<curr_buff>>)) \cup lost'
    BY <1>2, <1>6, <1>8, <2>1, <2>2, <2>3
  <2> QED BY <1>2, <2>4, Accounts, Zenon DEF Accounted
<1> QED BY <1>6, <1>10, <1>11, <1>12, <1>13, Zenon DEF BuffersInv

\* Every step keeps the invariant of the buffers.
LEMMA BuffersStep ==
    ASSUME BuffersInv, [Next]_vars
    PROVE  BuffersInv'
<1>1. CASE LogAppend
  BY <1>1, LogAppendKeeps
<1>2. CASE Start \/ StopClear \/ StopNotify \/ StopJoin \/ Entry \/ TestRunning \/ WaitFor
  BY <1>2, ControlKeeps
<1>3. CASE Collect
  BY <1>3, CollectKeeps
<1>4. CASE WriteOut
  BY <1>4, WriteOutKeeps
<1>5. CASE UNCHANGED vars
  <2>1. UNCHANGED <<shared, own, running, bpc, opc, appended, file, lost>>
    BY <1>5 DEF vars
  <2>2. Ordered' /\ NoSilentLoss'
    BY <2>1, BuffersUnchanged DEF own
  <2>3. BufferTypes' /\ Spares'
    BY <2>1 DEF BuffersInv, BufferTypes, Spares, shared, own
  <2> QED BY <2>2, <2>3 DEF BuffersInv
<1> QED BY <1>1, <1>2, <1>3, <1>4, <1>5 DEF Next, Background

\* The invariant holds when the logger is made.
LEMMA BuffersStart == Init => BuffersInv
<1> SUFFICES ASSUME Init PROVE BuffersInv
  OBVIOUS
<1>1. /\ curr_buff = EmptyBuffer /\ next_buff = EmptyBuffer /\ buffers = <<>>
      /\ running = FALSE /\ buffer1 = Null /\ buffer2 = Null /\ buffers_to_write = <<>>
      /\ bpc = "none" /\ opc = "new" /\ appended = 0 /\ file = <<>> /\ lost = {}
  BY DEF Init
<1>2. BufferTypes
  <2>1. \A S : <<>> \in Seq(S)
    OBVIOUS
  <2>a. appended \in 0..NumLines
    BY <1>1, BufferAssumption
  <2>2. appended \in 0..NumLines /\ running \in BOOLEAN /\ lost \subseteq 1..NumLines
    BY <1>1, <2>a, Zenon
  <2>3. bpc \in {"none", "entry", "test", "lock", "wait", "write", "done", "aborted"}
        /\ opc \in {"new", "started", "stop", "join", "joined"}
    BY <1>1
  <2> QED BY <1>1, <2>1, <2>2, <2>3, Buffers, Zenon DEF BufferTypes
<1>3. Spares
  BY <1>1, Buffers DEF Spares
<1>4. Pipeline = <<>>
  <2>1. Text(<<>>) = <<>> /\ EmptyBuffer.lines = <<>>
    BY TextOne, Buffers, Zenon
  <2>2. <<>> \o (<<>> \o (<<>> \o <<>>)) = <<>>
    OBVIOUS
  <2> QED BY <1>1, <2>1, <2>2, Zenon DEF Pipeline
<1>5. Ordered
  BY <1>4 DEF Ordered, Increasing, UpTo
<1>6. NoSilentLoss
  <2>1. Ids(<<>>) = {} /\ Ids(<<EmptyBuffer>>) = {} /\ FileIds(<<>>) = {}
    BY NoIds DEF FileIds
  <2>2. 1..0 = {}
    OBVIOUS
  <2>3. 1..0 = FileIds(<<>>) \cup (Ids(<<>>) \cup Ids(<<>>) \cup Ids(<<EmptyBuffer>>)) \cup {}
    BY <2>1, <2>2
  <2> QED BY <1>1, <2>3, Accounts, Zenon DEF Accounted
<1> QED BY <1>2, <1>3, <1>5, <1>6 DEF BuffersInv

-----------------------------------------------------------------------------
(* The thread with its file.                                               *)

\* As many different lines as there are numbers for them.
LEMMA OrderLength ==
    ASSUME NEW s \in Seq(Line), NEW n \in Nat, Increasing(s), UpTo(n, s)
    PROVE  Len(s) <= n
<1>1. PICK m : m = Len(s) /\ m \in Nat
  OBVIOUS
<1>2. \A k \in 1..m : s[k].id \in Nat \ {0} /\ s[k].id <= n
  <2>1. \A x \in Line : x.id \in Nat \ {0}
    BY BufferAssumption DEF Line
  <2>2. \A k \in 1..m : s[k] \in Line
    BY <1>1
  <2> QED BY <1>1, <2>1, <2>2, Zenon DEF UpTo
<1>3. \A j, k \in 1..m : j < k => s[j].id < s[k].id
  BY <1>1, Zenon DEF Increasing
<1> DEFINE S == { k \in Nat : k \in 1..m => k <= s[k].id }
<1>4. 0 \in S
  OBVIOUS
<1>5. ASSUME NEW k \in Nat, k \in S PROVE k + 1 \in S
  <2>1. SUFFICES ASSUME k + 1 \in 1..m PROVE k + 1 <= s[k + 1].id
    OBVIOUS
  <2>2. CASE k = 0
    BY <1>2, <2>1, <2>2
  <2>3. CASE k # 0
    <3>1. k \in 1..m /\ k < k + 1
      BY <1>1, <2>1, <2>3
    <3>2. s[k].id < s[k + 1].id /\ k <= s[k].id
      BY <1>3, <1>5, <2>1, <3>1
    <3>3. s[k].id \in Nat /\ s[k + 1].id \in Nat
      BY <1>2, <2>1, <3>1
    <3> QED BY <3>2, <3>3
  <2> QED BY <2>2, <2>3
<1> HIDE DEF S
<1>6. m \in S
  BY <1>1, <1>4, <1>5, Induction
<1>7. CASE m = 0
  BY <1>1, <1>7
<1>8. CASE m # 0
  <2>1. m \in 1..m
    BY <1>1, <1>8
  <2>2. m <= s[m].id
    BY <1>6, <2>1 DEF S
  <2>3. s[m].id \in Nat /\ s[m].id <= n
    BY <1>2, <2>1
  <2> QED BY <1>1, <2>2, <2>3
<1> QED BY <1>7, <1>8

\* What has been handed over is in order.
LEMMA HandedOrder ==
    ASSUME BuffersInv, NEW k \in 0..Len(Kept)
    PROVE  /\ file \o Text(SubSeq(Kept, 1, k)) \in Seq(Line)
           /\ Increasing(file \o Text(SubSeq(Kept, 1, k)))
           /\ UpTo(appended, file \o Text(SubSeq(Kept, 1, k)))
<1>1. BufferTypes /\ Increasing(Pipeline) /\ UpTo(appended, Pipeline)
  BY DEF BuffersInv, Ordered
<1>2. appended \in Nat
  BY <1>1, BufferAssumption DEF BufferTypes
<1>3. Kept \in Seq(Counting)
  BY <1>1, KeptFacts, Zenon
<1>4. PICK p \in Seq(Counting) : buffers_to_write = p \o Kept
  BY <1>1, KeptFacts, Zenon
<1>5. PICK u, v : u = SubSeq(Kept, 1, k) /\ v = SubSeq(Kept, k + 1, Len(Kept))
  OBVIOUS
<1>6. u \in Seq(Counting) /\ v \in Seq(Counting) /\ Kept = u \o v
  BY <1>3, <1>5, SplitAt, Zenon
<1>7. PICK r : r = Text(buffers) \o curr_buff.lines
  OBVIOUS
<1>8. /\ file \in Seq(Line) /\ Text(p) \in Seq(Line) /\ Text(Kept) \in Seq(Line) /\ r \in Seq(Line)
      /\ Text(u) \in Seq(Line) /\ Text(v) \in Seq(Line)
  BY <1>1, <1>3, <1>4, <1>6, <1>7, LinesOfType, PipelineType, Zenon
<1>9. Pipeline = file \o ((Text(p) \o Text(Kept)) \o r)
  BY <1>3, <1>4, <1>7, TextConcat, Zenon DEF Pipeline
<1>10. Increasing((file \o Text(Kept)) \o r) /\ UpTo(appended, (file \o Text(Kept)) \o r)
  BY <1>1, <1>2, <1>8, <1>9, OrderWithout, Zenon
<1>11. file \o Text(Kept) \in Seq(Line) /\ file \o Text(u) \in Seq(Line)
  BY <1>8, OrderConcat, <1>2, Zenon
<1>12. Increasing(file \o Text(Kept)) /\ UpTo(appended, file \o Text(Kept))
  BY <1>2, <1>8, <1>10, <1>11, OrderConcat, Zenon
<1>13. file \o Text(Kept) = (file \o Text(u)) \o Text(v)
  <2>1. Text(Kept) = Text(u) \o Text(v)
    BY <1>6, TextConcat, Zenon
  <2>2. (file \o Text(u)) \o Text(v) = file \o (Text(u) \o Text(v))
    BY <1>8, ConcatFacts, Zenon
  <2> QED BY <2>1, <2>2, Zenon
<1>14. Increasing(file \o Text(u)) /\ UpTo(appended, file \o Text(u))
  BY <1>2, <1>8, <1>11, <1>12, <1>13, OrderConcat, Zenon
<1> QED BY <1>5, <1>11, <1>14, Zenon

\* Nothing handed over, and one buffer more.
LEMMA HandedMore ==
    ASSUME NEW q \in Seq(Counting), NEW k \in 1..Len(q)
    PROVE  /\ SubSeq(q, 1, 0) = <<>> /\ SubSeq(q, 1, Len(q)) = q
           /\ q[k] \in Counting
           /\ Text(SubSeq(q, 1, k)) = Text(SubSeq(q, 1, k - 1)) \o q[k].lines
<1>1. SubSeq(q, 1, 0) = <<>>
  OBVIOUS
<1>2. SubSeq(q, 1, Len(q)) = q
  BY SubSeqFull, Zenon
<1>3. PICK n : n = Len(q) /\ n \in Nat /\ k \in 1..n
  OBVIOUS
<1>4. q[k] \in Counting
  OBVIOUS
<1>5. PICK u, v : u = SubSeq(q, 1, k - 1) /\ v = SubSeq(q, 1, k)
  OBVIOUS
<1>6. u \in Seq(Counting) /\ Len(u) = k - 1 /\ \A i \in 1..k - 1 : u[i] = q[i]
  <2>1. PICK m : m = k - 1 /\ m \in 0..Len(q)
    BY <1>3
  <2> QED BY <1>5, <2>1, SplitAt, Zenon
<1>7. v \in Seq(Counting) /\ Len(v) = k /\ \A i \in 1..k : v[i] = q[i]
  <2>1. k \in 0..Len(q)
    BY <1>3
  <2> QED BY <1>5, <2>1, SplitAt, Zenon
<1>8. v = Append(u, q[k])
  <2>1. PICK x : x = q[k] /\ x \in Counting
    BY <1>4
  <2>2. PICK t : t = Append(u, x)
    OBVIOUS
  <2>3. t \in Seq(Counting) /\ Len(t) = k /\ t[k] = x /\ \A i \in 1..k - 1 : t[i] = u[i]
    BY <1>3, <1>6, <2>1, <2>2
  <2>4. \A i \in 1..k : i \in 1..k - 1 \/ i = k
    OBVIOUS
  <2>5. \A i \in 1..k : v[i] = t[i]
    BY <1>6, <1>7, <2>1, <2>3, <2>4, Zenon
  <2>6. v = t
    BY <1>7, <2>3, <2>5, SeqEqual, Zenon
  <2> QED BY <2>1, <2>2, <2>6, Zenon
<1>9. Text(v) = Text(u) \o q[k].lines
  BY <1>4, <1>6, <1>8, TextAppend, Zenon
<1> QED BY <1>1, <1>2, <1>4, <1>5, <1>9, Zenon

\* The buffers that are written do not change while the thread writes them.
LEMMA KeptNext == UNCHANGED buffers_to_write => Kept' = Kept
BY DEF Kept, Overrun

\* Outside a round there is nothing to write.
LEMMA KeptNothing ==
    ASSUME BuffersInv, bpc # "write"
    PROVE  Kept = <<>> /\ Len(Kept) = 0
<1>1. buffers_to_write = <<>>
  BY DEF BuffersInv, Spares
<1>2. ~Overrun
  <2>1. Len(<<>>) = 0 /\ ~(0 > MaxBuffers)
    BY BufferAssumption
  <2> QED BY <1>1, <2>1, Zenon DEF Overrun
<1>3. Kept = <<>>
  BY <1>1, <1>2, Zenon DEF Kept
<1> QED BY <1>3

\* A buffer is handed to LogFile: there is always a number left for its chunk.
LEMMA WriteBufferKeeps ==
    ASSUME BuffersInv, FileInv, Handed, WriteBuffer
    PROVE  FileInv' /\ Handed'
<1>1. PICK k, b : k = written + 1 /\ b = Kept[k]
  OBVIOUS
<1>2. /\ bpc = "write" /\ written < Len(Kept) /\ written' = k
      /\ UNCHANGED <<buffers_to_write, bpc, appended, file>>
      /\ content' = IF b.lines = <<>> THEN content ELSE Append(content, b.lines)
  BY <1>1 DEF WriteBuffer, vars, own
<1>3. PICK ok \in BOOLEAN : LF!append(b.used, ok)
  BY <1>1 DEF WriteBuffer
<1>4. Kept \in Seq(Counting) /\ Kept' = Kept
  <2>1. Kept \in Seq(Counting)
    BY KeptFacts, Zenon DEF BuffersInv
  <2> QED BY <1>2, <2>1, KeptNext, Zenon
<1>5. Len(Kept) \in Nat /\ written \in 0..Len(Kept)
  BY <1>4 DEF Handed
<1>6. k \in 1..Len(Kept) /\ k \in 0..Len(Kept) /\ k - 1 = written
  BY <1>1, <1>2, <1>5
<1>7. b \in Counting /\ Text(SubSeq(Kept, 1, k)) = Text(SubSeq(Kept, 1, written)) \o b.lines
  BY <1>1, <1>4, <1>6, HandedMore, Zenon
<1>8. b.lines \in Seq(Line) /\ b.used \in 0..ChunkLen /\ (b.used = 0 <=> b.lines = <<>>)
  <2>1. b.lines \in Seq(Line) /\ b.used \in 0..BufSize - 1 /\ (b.used = 0 <=> b.lines = <<>>)
    BY <1>7, Buffers, Zenon
  <2>2. b.used \in 0..ChunkLen
    BY <2>1, BufferAssumption, FileAssumption
  <2> QED BY <2>1, <2>2, Zenon
<1>9. /\ file \in Seq(Line) /\ Text(SubSeq(Kept, 1, written)) \in Seq(Line)
      /\ file \o Text(SubSeq(Kept, 1, k)) \in Seq(Line)
      /\ Increasing(file \o Text(SubSeq(Kept, 1, k)))
      /\ UpTo(appended, file \o Text(SubSeq(Kept, 1, k)))
  <2>1. BufferTypes /\ file \in Seq(Line)
    BY DEF BuffersInv, BufferTypes
  <2>2. SubSeq(Kept, 1, written) \in Seq(Counting)
    BY <1>4, <1>5, SplitAt, Zenon
  <2> QED BY <1>6, <2>1, <2>2, LinesOfType, HandedOrder, Zenon
<1>10. /\ content \in Seq(Seq(Line)) /\ Len(content) = chunks /\ appended <= BothLines
       /\ \A j \in 1..Len(content) : content[j] # <<>>
       /\ FlattenSeq(content) = file \o Text(SubSeq(Kept, 1, written))
  BY DEF Handed
<1>11. file \o Text(SubSeq(Kept, 1, k)) = FlattenSeq(content) \o b.lines
  <2>1. file \o (Text(SubSeq(Kept, 1, written)) \o b.lines) = (file \o Text(SubSeq(Kept, 1, written))) \o b.lines
    BY <1>8, <1>9, ConcatFacts, Zenon
  <2> QED BY <1>7, <1>10, <2>1, Zenon
<1>12. /\ content' \in Seq(Seq(Line)) /\ FlattenSeq(content') = file \o Text(SubSeq(Kept, 1, k))
       /\ \A j \in 1..Len(content') : content'[j] # <<>>
       /\ Len(content') = IF b.lines = <<>> THEN chunks ELSE chunks + 1
  <2>1. CASE b.lines = <<>>
    <3>1. content' = content
      BY <1>2, <2>1, Zenon
    <3>2. FlattenSeq(content) \in Seq(Line)
      BY <1>10, FlattenConcat, Zenon
    <3>3. FlattenSeq(content) \o b.lines = FlattenSeq(content)
      BY <2>1, <3>2, ConcatFacts, Zenon
    <3> QED BY <1>10, <1>11, <2>1, <3>1, <3>3, Zenon
  <2>2. CASE b.lines # <<>>
    <3>1. PICK c, x, M : c = content /\ x = b.lines /\ M = Seq(Line)
      OBVIOUS
    <3>2. c \in Seq(M) /\ x \in M
      BY <1>8, <1>10, <3>1, Zenon
    <3>3. content' = Append(c, x)
      BY <1>2, <2>2, <3>1, Zenon
    <3>4. /\ Append(c, x) \in Seq(M) /\ Len(Append(c, x)) = Len(c) + 1 /\ Len(c) \in Nat
          /\ Append(c, x)[Len(c) + 1] = x /\ \A j \in 1..Len(c) : Append(c, x)[j] = c[j]
      BY <3>2
    <3>5. \A j \in 1..Len(c) + 1 : j \in 1..Len(c) \/ j = Len(c) + 1
      BY <3>4
    <3>6. \A j \in 1..Len(c) + 1 : Append(c, x)[j] # <<>>
      BY <1>10, <2>2, <3>1, <3>4, <3>5, Zenon
    <3>7. FlattenSeq(Append(c, x)) = FlattenSeq(c) \o x
      BY <3>1, <3>2, FlattenAppend, Zenon
    <3> QED BY <1>10, <1>11, <2>2, <3>1, <3>3, <3>4, <3>6, <3>7, Zenon
  <2> QED BY <2>1, <2>2
<1>13. chunks \in Nat /\ NumChunks \in Nat /\ appended \in Nat
  <2>1. LF!TypeOK /\ BufferTypes
    BY DEF FileInv, BuffersInv
  <2> QED BY <2>1, FileAssumption, BufferAssumption DEF LF!TypeOK, BufferTypes
<1>14. b.used # 0 => chunks < NumChunks
  <2>1. SUFFICES ASSUME b.used # 0 PROVE chunks < NumChunks
    OBVIOUS
  <2>2. Len(content') = chunks + 1
    BY <1>8, <1>12, <2>1, Zenon
  <2>3. Len(content') <= Len(FlattenSeq(content'))
    BY <1>12, FlattenLength, Zenon
  <2>4. Len(file \o Text(SubSeq(Kept, 1, k))) <= appended
    BY <1>9, <1>13, OrderLength, Zenon
  <2>5. PICK l : l = Len(FlattenSeq(content')) /\ l \in Nat /\ l <= appended /\ chunks + 1 <= l
    <3>1. Len(file \o Text(SubSeq(Kept, 1, k))) \in Nat
      BY <1>9
    <3> QED BY <1>12, <2>2, <2>3, <2>4, <3>1, Zenon
  <2>6. appended <= BothLines /\ BothLines <= NumChunks /\ BothLines \in Nat
    BY <1>10, FileAssumption, BufferAssumption
  <2> QED BY <1>13, <2>5, <2>6
<1>15. FileInv'
  BY <1>3, <1>8, <1>14, AppendKeepsFile, Zenon
<1>16. chunks' = IF b.used = 0 THEN chunks ELSE chunks + 1
  BY <1>3 DEF LF!append, LF!FileAppend
<1>17. Len(content') = chunks'
  BY <1>8, <1>12, <1>16, Zenon
<1>18. FlattenSeq(content)' = FlattenSeq(content') /\ Text(SubSeq(Kept, 1, written))' = Text(SubSeq(Kept', 1, written'))
  BY Zenon DEF FlattenSeq, Text, LinesOf
<1>19. Handed'
  BY <1>2, <1>4, <1>6, <1>10, <1>12, <1>17, <1>18, Zenon DEF Handed
<1> QED BY <1>15, <1>19

\* The buffers that are written after a step.
LEMMA KeptTypeNext ==
    ASSUME buffers_to_write' \in Seq(Counting)
    PROVE  Kept' \in Seq(Counting)
<1>1. PICK w, n : w = buffers_to_write' /\ n = Len(w)
  OBVIOUS
<1>2. w \in Seq(Counting) /\ n \in Nat
  BY <1>1
<1>3. CASE n > MaxBuffers
  <2>1. Kept' = SubSeq(w, n - 1, n)
    BY <1>1, <1>3, Zenon DEF Kept, Overrun
  <2>2. n - 1 \in 1..n
    BY <1>2, <1>3, BufferAssumption
  <2>3. SubSeq(w, n - 1, n) \in Seq(Counting)
    BY <1>1, <1>2, <2>2
  <2> QED BY <2>1, <2>3, Zenon
<1>4. CASE ~(n > MaxBuffers)
  BY <1>1, <1>2, <1>4, Zenon DEF Kept, Overrun
<1> QED BY <1>3, <1>4

\* After a round there is nothing to write.
LEMMA KeptAfter == buffers_to_write' = <<>> => Kept' = <<>> /\ Len(Kept') = 0
<1>1. SUFFICES ASSUME buffers_to_write' = <<>> PROVE Kept' = <<>> /\ Len(Kept') = 0
  OBVIOUS
<1>2. Len(<<>>) = 0 /\ ~(0 > MaxBuffers)
  BY BufferAssumption
<1>3. ~Overrun'
  BY <1>1, <1>2, Zenon DEF Overrun
<1> QED BY <1>1, <1>2, <1>3, Zenon DEF Kept

\* Handed, in terms of the variables after a step.
LEMMA HandedNext ==
    Handed' <=>
        /\ appended' <= BothLines
        /\ content' \in Seq(Seq(Line)) /\ Len(content') = chunks'
        /\ \A k \in 1..Len(content') : content'[k] # <<>>
        /\ written' \in 0..Len(Kept')
        /\ FlattenSeq(content') = file' \o Text(SubSeq(Kept', 1, written'))
        /\ bpc' # "write" => written' = 0 /\ buffered' = <<>>
<1>1. FlattenSeq(content)' = FlattenSeq(content') /\ Text(SubSeq(Kept, 1, written))' = Text(SubSeq(Kept', 1, written'))
  BY Zenon DEF FlattenSeq, Text, LinesOf
<1> QED BY <1>1, Zenon DEF Handed

\* Nothing is handed over when no buffer is.
LEMMA NothingHanded ==
    ASSUME file \in Seq(Line), NEW q
    PROVE  /\ file = file \o Text(SubSeq(q, 1, 0))
           /\ \A f \in Seq(Line) : f = f \o Text(SubSeq(<<>>, 1, 0))
<1>1. \A t : SubSeq(t, 1, 0) = <<>>
  BY SubSeqEmpty
<1>2. Text(<<>>) = <<>>
  BY TextOne, Buffers, Zenon
<1>3. \A f \in Seq(Line) : f = f \o <<>>
  BY ConcatFacts, Zenon
<1> QED BY <1>1, <1>2, <1>3, Zenon

\* The end of a round.
LEMMA EndOfRoundKeeps ==
    ASSUME BuffersInv, FileInv, Handed, EndOfRound
    PROVE  BuffersInv' /\ FileInv' /\ Handed'
<1>1. /\ written = Len(Kept) /\ WriteOut /\ LF!flush /\ written' = 0 /\ content' = content
  BY DEF EndOfRound
<1>2. BuffersInv' /\ file' = file \o Text(Kept)
  BY <1>1, WriteOutKeeps, Zenon
<1>3. FileInv'
  BY <1>1, FlushKeepsFile, Zenon
<1>4. buffered' = <<>> /\ chunks' = chunks
  BY <1>1 DEF LF!flush
<1>5. buffers_to_write' = <<>> /\ appended' = appended /\ bpc' # "write"
  <2>1. buffers_to_write' = <<>> /\ appended' = appended /\ bpc' \in {"test", "aborted"}
    BY <1>1 DEF WriteOut
  <2> QED BY <2>1
<1>6. Kept' = <<>> /\ Len(Kept') = 0
  BY <1>5, KeptAfter, Zenon
<1>7. Kept \in Seq(Counting)
  BY KeptFacts, Zenon DEF BuffersInv
<1>8. SubSeq(Kept, 1, Len(Kept)) = Kept
  BY <1>7, SubSeqFull, Zenon
<1>9. /\ appended <= BothLines /\ content \in Seq(Seq(Line)) /\ Len(content) = chunks
      /\ \A k \in 1..Len(content) : content[k] # <<>>
      /\ FlattenSeq(content) = file \o Text(Kept)
  BY <1>1, <1>8, Zenon DEF Handed
<1>10. file \in Seq(Line) /\ file' \in Seq(Line)
  BY <1>2 DEF BuffersInv, BufferTypes
<1>11. file' = file' \o Text(SubSeq(<<>>, 1, 0))
  BY <1>10, NothingHanded, Zenon
<1>12. 0 \in 0..0
  OBVIOUS
<1>13. Handed'
  BY <1>1, <1>2, <1>4, <1>5, <1>6, <1>9, <1>11, <1>12, HandedNext, Zenon
<1> QED BY <1>2, <1>3, <1>13

\* The end of the loop.
LEMMA EndOfLoopKeeps ==
    ASSUME BuffersInv, FileInv, Handed, EndOfLoop
    PROVE  BuffersInv' /\ FileInv' /\ Handed'
<1>1. TestRunning /\ LF!flush /\ UNCHANGED <<written, content>>
  BY DEF EndOfLoop, bothVars
<1>2. BuffersInv'
  BY <1>1, ControlKeeps, Zenon
<1>3. FileInv'
  BY <1>1, FlushKeepsFile, Zenon
<1>4. buffered' = <<>> /\ chunks' = chunks
  BY <1>1 DEF LF!flush
<1>5. UNCHANGED <<buffers_to_write, appended, file>> /\ bpc # "write" /\ bpc' # "write"
  BY <1>1 DEF TestRunning, own
<1>6. Kept' = Kept
  BY <1>5, KeptNext, Zenon
<1>7. written' = 0
  BY <1>1, <1>5, Zenon DEF Handed
<1>8. Handed'
  BY <1>1, <1>4, <1>5, <1>6, <1>7, HandedNext, Zenon DEF Handed
<1> QED BY <1>2, <1>3, <1>8

\* stdio empties its buffer during a round.
LEMMA StdioWritesKeeps ==
    ASSUME BuffersInv, FileInv, Handed, StdioWrites
    PROVE  BuffersInv' /\ FileInv' /\ Handed'
<1>1. bpc = "write" /\ LF!StdioWrites /\ UNCHANGED <<written, content>> /\ UNCHANGED vars
  BY DEF StdioWrites, bothVars
<1>2. BuffersInv'
  BY <1>1, BuffersStep, Zenon
<1>3. FileInv'
  BY <1>1, FlushKeepsFile, Zenon
<1>4. chunks' = chunks
  BY <1>1 DEF LF!StdioWrites
<1>5. UNCHANGED <<buffers_to_write, appended, file, bpc>>
  BY <1>1 DEF vars, own
<1>6. Kept' = Kept
  BY <1>5, KeptNext, Zenon
<1>7. Handed'
  BY <1>1, <1>4, <1>5, <1>6, HandedNext, Zenon DEF Handed
<1> QED BY <1>2, <1>3, <1>7

\* A file that nobody touches.
LEMMA FileUnchanged ==
    ASSUME FileInv, UNCHANGED fileVars
    PROVE  FileInv'
<1>1. UNCHANGED <<clock_steps, clock, filename, last_rotate, last_flush, start_of_period,
                  count, bytes, buffered, disk, chunks, refused, overdue>>
  BY DEF fileVars
<1>2. LF!TypeOK' /\ Timely'
  BY <1>1, Zenon DEF FileInv, LF!TypeOK, Timely
<1>3. Named'
  BY <1>1, Zenon DEF FileInv, Named, NothingAhead
<1>4. FilesOf(disk)' = FilesOf(disk)
  BY <1>1, Zenon DEF FilesOf
<1>5. Held'
  BY <1>1, <1>4, Zenon DEF FileInv, Held, Holds
<1> QED BY <1>2, <1>3, <1>5 DEF FileInv

\* The other steps of the threads.
LEMMA OthersKeep ==
    ASSUME BuffersInv, FileInv, Handed, bpc # "aborted", Others
    PROVE  BuffersInv' /\ FileInv' /\ Handed'
<1>1. UNCHANGED <<written, content>> /\ UNCHANGED fileVars
  BY DEF Others, bothVars
<1>2. FileInv'
  BY <1>1, FileUnchanged
<1>3. UNCHANGED <<chunks, buffered>>
  BY <1>1 DEF fileVars
<1>4. Next
  BY DEF Others, Next, Background
<1>5. BuffersInv'
  BY <1>4, BuffersStep
<1>6. CASE Collect
  <2>1. bpc # "write" /\ bpc' = "write" /\ appended' = appended /\ file' = file
    BY <1>6 DEF Collect, CollectReady
  <2>2. written = 0 /\ written' = 0 /\ Kept = <<>>
    BY <1>1, <2>1, KeptNothing, Zenon DEF Handed
  <2>3. written' \in 0..Len(Kept')
    <3>1. Kept' \in Seq(Counting)
      <4>1. buffers_to_write' \in Seq(Counting)
        BY <1>5 DEF BuffersInv, BufferTypes
      <4> QED BY <4>1, KeptTypeNext
    <3> QED BY <2>2, <3>1
  <2>4. file \in Seq(Line)
    BY DEF BuffersInv, BufferTypes
  <2>5. file = file \o Text(SubSeq(Kept', 1, 0)) /\ file = file \o Text(SubSeq(<<>>, 1, 0))
    BY <2>4, NothingHanded, Zenon
  <2>6. FlattenSeq(content) = file
    BY <2>2, <2>5, Zenon DEF Handed
  <2> QED BY <1>1, <1>2, <1>3, <1>5, <2>1, <2>2, <2>3, <2>5, <2>6, HandedNext, Zenon DEF Handed
<1>7. CASE LogAppend /\ appended < BothLines
  <2>1. UNCHANGED <<buffers_to_write, file, bpc>> /\ appended' = appended + 1
    BY <1>7 DEF LogAppend, own
  <2>2. Kept' = Kept
    BY <2>1, KeptNext, Zenon
  <2>3. appended' <= BothLines
    BY <1>7, <2>1, FileAssumption, BufferAssumption DEF BuffersInv, BufferTypes
  <2> QED BY <1>1, <1>2, <1>3, <1>5, <2>1, <2>2, <2>3, HandedNext, Zenon DEF Handed
<1>8. CASE Start \/ StopClear \/ StopNotify \/ StopJoin \/ Entry \/ TestRunning \/ WaitFor
  <2>1. UNCHANGED <<buffers_to_write, file, appended>>
    BY <1>8 DEF Start, StopClear, StopNotify, StopJoin, Entry, TestRunning, WaitFor, own
  <2>2. bpc' # "write" => bpc # "write"
    <3>1. bpc # "write" \/ bpc' = bpc
      BY <1>8 DEF Start, StopClear, StopNotify, StopJoin, Entry, TestRunning, WaitFor, BuffersInv, Spares
    <3> QED BY <3>1
  <2>3. Kept' = Kept
    BY <2>1, KeptNext, Zenon
  <2> QED BY <1>1, <1>2, <1>3, <1>5, <2>1, <2>2, <2>3, HandedNext, Zenon DEF Handed
<1> QED BY <1>6, <1>7, <1>8 DEF Others

\* The constructor of LogFile.
LEMMA FileStart == LF!Init => FileInv
<1> SUFFICES ASSUME LF!Init PROVE FileInv
  OBVIOUS
<1>1. /\ clock_steps \in BOOLEAN /\ clock \in 1..MaxTime /\ filename = LF!Sec(clock)
      /\ last_rotate = clock /\ last_flush = clock /\ start_of_period = LF!Period(clock)
      /\ count = 0 /\ bytes = 0 /\ buffered = <<>> /\ disk = [s \in LF!Names |-> <<>>]
      /\ chunks = 0 /\ refused = {} /\ overdue = 0
  BY Zenon DEF LF!Init, LF!get_log_filename
<1>2. clock \in 0..MaxTime
  BY <1>1, FileAssumption
<1>3. filename \in LF!Names /\ start_of_period \in LF!Names
  BY <1>1, <1>2, Seconds, Zenon
<1>4. <<>> \in Seq(LF!Chunk)
  OBVIOUS
<1>5. disk \in [LF!Names -> Seq(LF!Chunk)] /\ \A s \in LF!Names : disk[s] = <<>>
  BY <1>1, <1>4, Zenon
<1>6. LF!TypeOK
  <2>1. 0 \in 0..CheckTime + 1 /\ 0 \in 0..NumChunks /\ 0 \in Nat
    BY FileAssumption
  <2>2. 0 \in 0 .. NumChunks * ChunkLen
    <3>1. PICK q : q = NumChunks * ChunkLen
      OBVIOUS
    <3>2. q \in Nat
      BY <3>1, FileAssumption, Products, Zenon
    <3>3. 0 \in 0..q
      BY <3>2
    <3> QED BY <3>1, <3>3, Zenon
  <2> QED BY <1>1, <1>2, <1>3, <1>4, <1>5, <2>1, <2>2, Zenon DEF LF!TypeOK
<1>7. Named
  BY <1>1, <1>5, Zenon DEF Named, NothingAhead
<1>8. FilesOf(disk) = <<>>
  <2>1. PICK m, f : m = LF!Sec(MaxTime) + 1 /\ f = [k \in 1..m |-> disk[k - 1]]
    OBVIOUS
  <2>2. m \in Nat /\ \A k \in 1..m : k - 1 \in LF!Names
    BY <2>1, Seconds DEF LF!Names
  <2>3. PICK C : C = LF!Chunk
    OBVIOUS
  <2>4. f \in [1..m -> Seq(C)] /\ \A k \in 1..m : f[k] = <<>>
    BY <1>4, <1>5, <2>1, <2>2, <2>3, Zenon
  <2>5. f \in Seq(Seq(C)) /\ Len(f) = m
    BY <2>2, <2>4
  <2>6. FlattenSeq(f) \in Seq(C)
    BY <2>5, FlattenConcat, Zenon
  <2>7. ASSUME NEW e PROVE ~Among(FlattenSeq(f), e)
    <3>1. \A k \in 1..Len(f) : ~Among(f[k], e)
      <4>1. ~Among(<<>>, e)
        BY DEF Among
      <4> QED BY <2>4, <2>5, <4>1, Zenon
    <3> QED BY <2>5, <3>1, FlattenElements, Zenon
  <2>8. FlattenSeq(f) = <<>>
    <3>1. PICK t : t = FlattenSeq(f) /\ t \in Seq(C)
      BY <2>6
    <3>2. t # <<>> => Among(t, t[1])
      BY <3>1 DEF Among
    <3> QED BY <2>7, <3>1, <3>2, Zenon
  <2> QED BY <2>1, <2>8, Zenon DEF FilesOf
<1>9. Held
  <2>1. <<>> \o <<>> = <<>> /\ LF!Ids(<<>>) = <<>>
    BY DEF LF!Ids
  <2>2. LF!Accepted(0, refused) = <<>> /\ LF!Size(<<>>) = 0
    <3>1. PICK z : z = 0 /\ z \in Nat
      OBVIOUS
    <3>2. LF!Accepted(0, refused) = <<>>
      BY <3>1, AcceptedStep, Zenon
    <3> QED BY <3>2, EmptySize, Zenon
  <2>3. disk[filename] = <<>>
    BY <1>3, <1>5, Zenon
  <2>4. 0 <= 0 * ChunkLen /\ 0 <= 0
    BY FileAssumption
  <2> QED BY <1>1, <1>8, <2>1, <2>2, <2>3, <2>4, Zenon DEF Held, Holds
<1>10. Timely
  BY <1>1 DEF Timely
<1> QED BY <1>6, <1>7, <1>9, <1>10 DEF FileInv

\* The logger when it is made.
LEMMA LoggerStart == LoggerInit => LoggerInv
<1> SUFFICES ASSUME LoggerInit PROVE LoggerInv
  OBVIOUS
<1>1. Init /\ LF!Init /\ written = 0 /\ content = <<>>
  BY DEF LoggerInit
<1>2. BuffersInv /\ FileInv
  BY <1>1, BuffersStart, FileStart, Zenon
<1>3. Handed
  <2>1. /\ appended = 0 /\ file = <<>> /\ bpc = "none" /\ chunks = 0 /\ buffered = <<>>
        /\ buffers_to_write = <<>>
    BY <1>1 DEF Init, LF!Init
  <2>2. bpc # "write"
    BY <2>1
  <2>3. Kept = <<>> /\ Len(Kept) = 0
    BY <1>2, <2>2, KeptNothing
  <2>4. 0 <= BothLines /\ 0 \in 0..0
    BY FileAssumption, BufferAssumption
  <2>5. <<>> \in Seq(Seq(Line)) /\ Len(<<>>) = 0 /\ 1..0 = {}
    OBVIOUS
  <2>6. file \in Seq(Line)
    BY <1>2 DEF BuffersInv, BufferTypes
  <2>7. file = file \o Text(SubSeq(Kept, 1, 0))
    BY <2>6, NothingHanded, Zenon
  <2>8. FlattenSeq(content) = <<>>
    <3>1. FlattenSeq(<<>>) = <<>>
      BY <2>6, FlattenOne, Zenon
    <3> QED BY <1>1, <3>1, Zenon
  <2>9. \A k \in 1..Len(content) : content[k] # <<>>
    BY <1>1
  <2> QED BY <1>1, <2>1, <2>3, <2>4, <2>5, <2>7, <2>8, <2>9, Zenon DEF Handed
<1> QED BY <1>2, <1>3 DEF LoggerInv

\* Every step of the logger keeps its invariant.
LEMMA LoggerStep == LoggerInv /\ [LoggerNext]_loggerVars => LoggerInv'
<1> SUFFICES ASSUME LoggerInv, [LoggerNext]_loggerVars PROVE LoggerInv'
  OBVIOUS
<1>1. BuffersInv /\ FileInv
  BY DEF LoggerInv
<1>2. CASE kind = "buffers" /\ Next /\ UNCHANGED <<bothVars, fileVars>> /\ UNCHANGED kind
  <2>1. BuffersInv'
    BY <1>1, <1>2, BuffersStep
  <2>2. FileInv'
    BY <1>1, <1>2, FileUnchanged
  <2>3. kind' # "both"
    BY <1>2
  <2> QED BY <2>1, <2>2, <2>3, Zenon DEF LoggerInv
<1>3. CASE kind = "file" /\ LF!Next /\ UNCHANGED <<vars, bothVars>> /\ UNCHANGED kind
  <2>1. BuffersInv'
    BY <1>1, <1>3, BuffersStep
  <2>2. FileInv'
    <3>1. CASE LF!StdioWrites \/ LF!flush
      BY <1>1, <3>1, FlushKeepsFile, Zenon
    <3>2. CASE LF!RotateFile
      BY <1>1, <3>2, RotateKeepsFile, Zenon
    <3>3. CASE chunks < NumChunks /\ \E len \in 1..ChunkLen, ok \in BOOLEAN : LF!append(len, ok)
      <4>1. PICK len \in 1..ChunkLen, ok \in BOOLEAN : LF!append(len, ok)
        BY <3>3, Zenon
      <4>2. len \in 0..ChunkLen
        BY FileAssumption
      <4> QED BY <1>1, <3>3, <4>1, <4>2, AppendKeepsFile, Zenon
    <3> QED BY <1>3, <3>1, <3>2, <3>3, Zenon DEF LF!Next
  <2>3. kind' # "both"
    BY <1>3
  <2> QED BY <2>1, <2>2, <2>3, Zenon DEF LoggerInv
<1>4. CASE kind = "both" /\ Both
  <2>1. Handed /\ bpc # "aborted"
    BY <1>4, Zenon DEF LoggerInv, Both
  <2>2. CASE WriteBuffer
    <3>1. BuffersInv'
      BY <1>1, <2>2, BuffersStep DEF WriteBuffer
    <3> QED BY <1>1, <2>1, <2>2, <3>1, WriteBufferKeeps, Zenon DEF LoggerInv
  <2>3. CASE EndOfRound
    BY <1>1, <2>1, <2>3, EndOfRoundKeeps, Zenon DEF LoggerInv
  <2>4. CASE EndOfLoop
    BY <1>1, <2>1, <2>4, EndOfLoopKeeps, Zenon DEF LoggerInv
  <2>5. CASE StdioWrites
    BY <1>1, <2>1, <2>5, StdioWritesKeeps, Zenon DEF LoggerInv
  <2>6. CASE Others
    BY <1>1, <2>1, <2>6, OthersKeep, Zenon DEF LoggerInv
  <2> QED BY <1>4, <2>2, <2>3, <2>4, <2>5, <2>6, Zenon DEF Both
<1>5. CASE UNCHANGED loggerVars
  <2>1. UNCHANGED kind /\ UNCHANGED vars /\ UNCHANGED <<written, content>> /\ UNCHANGED fileVars
    BY <1>5 DEF loggerVars, bothVars
  <2>2. BuffersInv' /\ FileInv'
    BY <1>1, <2>1, BuffersStep, FileUnchanged, Zenon
  <2>3. ASSUME kind = "both" PROVE Handed'
    <3>1. UNCHANGED <<buffers_to_write, appended, file, bpc, chunks, buffered>>
      BY <2>1 DEF vars, own, fileVars
    <3>2. Kept' = Kept
      BY <3>1, KeptNext, Zenon
    <3>3. Handed
      BY <2>3 DEF LoggerInv
    <3> QED BY <2>1, <3>1, <3>2, <3>3, HandedNext, Zenon DEF Handed
  <2> QED BY <2>1, <2>2, <2>3, Zenon DEF LoggerInv
<1> QED BY <1>2, <1>3, <1>4, <1>5, Zenon DEF LoggerNext

\* The invariant of the logger holds in every execution.
LEMMA LoggerInvariant == LoggerSpec => []LoggerInv
BY LoggerStart, LoggerStep, PTL DEF LoggerSpec

-----------------------------------------------------------------------------
(* The theorems.                                                           *)

\* The asserts of thread_func() on its buffers hold and append() never finds
\* _curr_buff empty, for any number of lines, buffers and sizes.
THEOREM SparesAlwaysSuffice == LoggerSpec => []SparesSuffice
<1>1. LoggerInv => SparesSuffice
  BY SparesAreEnough DEF LoggerInv
<1> QED BY <1>1, LoggerInvariant, PTL

\* The log file has the lines in the order append() was called and none twice.
THEOREM LinesInOrder == LoggerSpec => []InOrder
<1>1. LoggerInv => InOrder
  <2> SUFFICES ASSUME LoggerInv PROVE InOrder
    OBVIOUS
  <2>1. BufferTypes /\ Increasing(Pipeline)
    BY DEF LoggerInv, BuffersInv, Ordered
  <2>2. PICK r : r = Text(buffers_to_write) \o (Text(buffers) \o curr_buff.lines)
    OBVIOUS
  <2>3. file \in Seq(Line) /\ r \in Seq(Line) /\ Pipeline = file \o r
    BY <2>1, <2>2, PipelineType, Zenon DEF Pipeline
  <2>4. Increasing(file)
    <3>1. PICK n : n \in Nat
      OBVIOUS
    <3> QED BY <2>1, <2>3, <3>1, OrderConcat, Zenon
  <2>5. DOMAIN file = 1..Len(file)
    BY <2>3
  <2> QED BY <2>4, <2>5, Zenon DEF InOrder, Increasing
<1> QED BY <1>1, LoggerInvariant, PTL

\* Every line that append() was called for is in the file, in a buffer or was
\* discarded by a rule of the code.
THEOREM NothingLostSilently == LoggerSpec => []NoSilentLoss
<1>1. LoggerInv => NoSilentLoss
  BY DEF LoggerInv, BuffersInv
<1> QED BY <1>1, LoggerInvariant, PTL

\* The rotated files hold a prefix of what was accepted and the stdio buffer the
\* rest, whatever the clock does and whichever fwrite() fails.
THEOREM FilesHoldPrefix == LoggerSpec => []PrefixOnDisk
<1>1. LoggerInv => PrefixOnDisk
  <2> SUFFICES ASSUME LoggerInv PROVE PrefixOnDisk
    OBVIOUS
  <2>1. LF!TypeOK /\ LF!Ids(FilesOf(disk) \o buffered) = LF!Accepted(chunks, refused)
    BY DEF LoggerInv, FileInv, Held, Holds
  <2>2. LF!OnDisk = FilesOf(disk)
    BY SameFlatten, Zenon DEF LF!OnDisk, FilesOf
  <2> QED BY <2>1, <2>2, Zenon DEF PrefixOnDisk, LF!PrefixOnDisk
<1> QED BY <1>1, LoggerInvariant, PTL

\* The counter that rotation goes by covers all that the current file holds.
THEOREM CounterCoversFile == LoggerSpec => []BytesCoverFile
<1>1. LoggerInv => BytesCoverFile
  BY Zenon DEF LoggerInv, FileInv, Held, Holds, BytesCoverFile, LF!BytesCoverFile
<1> QED BY <1>1, LoggerInvariant, PTL

\* A rotation or flush that is due is made within CheckTime + 2 appends.
THEOREM RotationInTime == LoggerSpec => []ServicedInTime
<1>1. LoggerInv => ServicedInTime
  <2> SUFFICES ASSUME LoggerInv PROVE ServicedInTime
    OBVIOUS
  <2>1. /\ ~clock_steps => overdue <= count
        /\ overdue \in Nat /\ count \in 0..CheckTime + 1 /\ CheckTime \in Nat
    BY FileAssumption DEF LoggerInv, FileInv, Timely, LF!TypeOK
  <2>2. ~clock_steps => overdue <= CheckTime + 1
    BY <2>1
  <2> QED BY <2>2 DEF ServicedInTime, LF!ServicedInTime
<1> QED BY <1>1, LoggerInvariant, PTL

\* Between two rounds of the thread all it has taken over is on disk.
THEOREM RoundsAreOnDisk == LoggerSpec => []RoundsReachDisk
<1>1. LoggerInv => RoundsReachDisk
  <2>1. SUFFICES ASSUME LoggerInv, kind = "both", bpc \in {"test", "lock", "wait", "done"}
                 PROVE  /\ LinesIn([k \in DOMAIN content |-> k]) = file
                        /\ LinesIn(LF!Ids(LF!OnDisk)) = LinesIn(LF!Accepted(Len(content), refused))
    BY DEF RoundsReachDisk
  <2>2. bpc # "write" /\ BuffersInv /\ FileInv /\ Handed
    BY <2>1 DEF LoggerInv
  <2>3. /\ content \in Seq(Seq(Line)) /\ Len(content) = chunks /\ written = 0 /\ buffered = <<>>
        /\ FlattenSeq(content) = file \o Text(SubSeq(Kept, 1, written))
    BY <2>2, Zenon DEF Handed
  <2>4. file \in Seq(Line)
    BY <2>2 DEF BuffersInv, BufferTypes
  <2>5. FlattenSeq(content) = file
    BY <2>3, <2>4, NothingHanded, Zenon
  <2>6. LinesIn([k \in DOMAIN content |-> k]) = FlattenSeq(content)
    <3>1. PICK ids : ids = [k \in DOMAIN content |-> k]
      OBVIOUS
    <3>2. DOMAIN ids = DOMAIN content /\ \A k \in DOMAIN content : ids[k] = k
      BY <3>1, Zenon
    <3>3. [k \in DOMAIN ids |-> content[ids[k]]] = [k \in DOMAIN content |-> content[k]]
      BY <3>2, Zenon
    <3>4. content = [k \in DOMAIN content |-> content[k]]
      BY <2>3
    <3> QED BY <3>1, <3>3, <3>4, Zenon DEF LinesIn
  <2>7. LF!Ids(FilesOf(disk) \o buffered) = LF!Accepted(chunks, refused)
    BY <2>2 DEF FileInv, Held, Holds
  <2>8. FilesOf(disk) \in Seq(LF!Chunk)
    <3>1. disk \in [LF!Names -> Seq(LF!Chunk)] /\ filename \in LF!Names /\ buffered \in Seq(LF!Chunk)
      BY <2>2 DEF FileInv, LF!TypeOK
    <3>2. \A s \in LF!Names : s > filename => disk[s] = <<>>
      BY <2>2 DEF FileInv, Named, NothingAhead
    <3> QED BY <3>1, <3>2, FilesGrow, Zenon
  <2>9. FilesOf(disk) \o buffered = FilesOf(disk)
    BY <2>3, <2>8, ConcatFacts, Zenon
  <2>10. LF!OnDisk = FilesOf(disk)
    BY SameFlatten, Zenon DEF LF!OnDisk, FilesOf
  <2>11. LF!Ids(LF!OnDisk) = LF!Accepted(Len(content), refused)
    BY <2>3, <2>7, <2>9, <2>10, Zenon
  <2> QED BY <2>5, <2>6, <2>11, Zenon
<1> QED BY <1>1, LoggerInvariant, PTL
=============================================================================
