----------------------------- MODULE RingProofs -----------------------------
(***************************************************************************)
(* For every capacity and every number of pushes and pops, SpscRing keeps  *)
(* its slots owned by one thread at a time, leaks nothing and is a bounded *)
(* FIFO; and so is RteRing with RING_SYNC_ST, while with RING_SYNC_MT each *)
(* index of a side is claimed by one of its threads only.                  *)
(*                                                                         *)
(* The first induction is over the occupied arc of the ring.  Its length   *)
(* is the number of published elements less the number of finished pops,   *)
(* and the content of every slot is determined by its distance from head.  *)
(*                                                                         *)
(* The second one is over counters that never wrap: the calls each thread  *)
(* has completed.  The indices of a side are remainders of its counter by  *)
(* the values of an index, and the slots between the two counters hold     *)
(* what is stored.  With several threads per side the head is the number   *)
(* of the claims made so far, so that whoever claims is past all others.   *)
(***************************************************************************)
EXTENDS Rings, SequenceLemmas, FiniteSetTheorems, TLAPS

\* Pops whose store of _head is done.
Released == IF cpc = "release" THEN Len(value) - 1 ELSE Len(value)

\* What slot s holds, given the two indices and where both threads are.
Content(s) ==
    IF Distance(head, s) < Distance(head, tail) /\ ~(s = head /\ cpc = "release")
    THEN Released + Distance(head, s)
    ELSE IF s = tail /\ ppc = "publish" THEN i ELSE Raw

Occupancy == i - Released = Distance(head, tail)

Committed ==
    /\ ppc # "check" => i < NumPush /\ next_pos(tail) # head
    /\ cpc # "check" => head # tail
    /\ cpc = "take" => Len(value) < NumPop

SlotContent ==
    /\ obj = "alive" => \A s \in Slots : data[s] = Content(s)
    /\ obj = "destroyed" => Joined /\ \A s \in Slots : data[s] = Raw

InOrder == \A k \in 1..Len(value) : value[k] = k - 1

IInv == TypeOK /\ Occupancy /\ Committed /\ SlotContent /\ InOrder /\ Len(value) <= NumPop

-----------------------------------------------------------------------------
LEMMA CapacityPos == Capacity \in Nat \ {0}
BY CapacityAssumption

\* The remainder of a sum of two slot numbers: at most one turn of the ring.
LEMMA OneTurn ==
    ASSUME NEW a \in Nat, a < 2 * Capacity
    PROVE  a % Capacity = IF a < Capacity THEN a ELSE a - Capacity
BY CapacityAssumption

\* next_pos steps to the following slot and wraps at the end.
LEMMA NextPos ==
    ASSUME NEW p \in Slots
    PROVE  next_pos(p) = IF p = Capacity - 1 THEN 0 ELSE p + 1
BY CapacityAssumption, OneTurn DEF next_pos, Slots

\* The distance between two slots counts forward and wraps at the end.
LEMMA DistanceValue ==
    ASSUME NEW a \in Slots, NEW b \in Slots
    PROVE  Distance(a, b) = IF b >= a THEN b - a ELSE b + Capacity - a
BY CapacityAssumption, OneTurn DEF Distance, Slots

\* next_pos stays on the ring.
LEMMA NextPosSlot == ASSUME NEW p \in Slots PROVE next_pos(p) \in Slots
BY CapacityPos, NextPos DEF Slots

\* A distance is shorter than a turn, zero exactly from a slot to itself, and
\* tells the slots apart.
LEMMA DistanceRange ==
    ASSUME NEW a \in Slots, NEW b \in Slots
    PROVE  /\ Distance(a, b) \in Nat
           /\ Distance(a, b) < Capacity
           /\ Distance(a, b) = 0 <=> a = b
BY CapacityPos, DistanceValue DEF Slots

LEMMA DistanceInjective ==
    ASSUME NEW a \in Slots, NEW b \in Slots, NEW c \in Slots,
           Distance(a, b) = Distance(a, c)
    PROVE  b = c
BY CapacityPos, DistanceValue DEF Slots

\* Moving the far end forward lengthens the arc, unless it would meet the
\* near end; moving the near end forward shortens it, unless it is empty.
LEMMA DistanceFarEnd ==
    ASSUME NEW a \in Slots, NEW b \in Slots, next_pos(b) # a
    PROVE  Distance(a, next_pos(b)) = Distance(a, b) + 1
<1>1. next_pos(b) \in Slots
  BY NextPosSlot
<1> QED
  BY <1>1, CapacityPos, NextPos, DistanceValue DEF Slots

LEMMA DistanceNearEnd ==
    ASSUME NEW a \in Slots, NEW b \in Slots, a # b
    PROVE  Distance(next_pos(a), b) = Distance(a, b) - 1
<1>1. next_pos(a) \in Slots
  BY NextPosSlot
<1> QED
  BY <1>1, CapacityPos, NextPos, DistanceValue DEF Slots

\* The slot just left is the farthest from its successor.
LEMMA DistanceBehind ==
    ASSUME NEW a \in Slots
    PROVE  Distance(next_pos(a), a) = Capacity - 1
<1>1. next_pos(a) \in Slots
  BY NextPosSlot
<1> QED
  BY <1>1, CapacityPos, NextPos, DistanceValue DEF Slots

-----------------------------------------------------------------------------
\* A fresh ring satisfies the invariant.
LEMMA InitIInv == Init => IInv
<1> SUFFICES ASSUME Init PROVE IInv
  OBVIOUS
<1> USE CapacityAssumption, ClientAssumption DEF Init
<1>1. TypeOK
  BY DEF TypeOK, Slots
<1>2. Distance(0, 0) = 0
  BY DistanceValue DEF Slots
<1>3. Occupancy /\ Committed
  BY <1>2 DEF Occupancy, Released, Committed
<1>4. SlotContent
  BY <1>2, DistanceRange DEF SlotContent, Content, Slots
<1> QED
  BY <1>1, <1>3, <1>4 DEF IInv, InOrder

\* The producer's steps: only the slot at tail changes, and it is outside the
\* occupied arc until the store of _tail.
LEMMA ProducerIInv == IInv /\ Producer => IInv'
<1> SUFFICES ASSUME IInv, Producer PROVE IInv'
  OBVIOUS
<1> USE CapacityPos, ClientAssumption
<1>1. CASE PushCheck
  BY <1>1 DEF PushCheck, IInv, TypeOK, Occupancy, Committed, SlotContent,
              Content, Released, InOrder, Joined
<1>2. CASE PushConstruct
  <2> USE <1>2 DEF PushConstruct
  <2>1. TypeOK /\ Occupancy /\ Committed /\ SlotContent /\ InOrder /\ Len(value) <= NumPop
    BY DEF IInv
  <2>2. obj = "alive" /\ \A s \in Slots : data[s] = Content(s)
    BY <2>1 DEF TypeOK, SlotContent, Joined
  <2>3. head \in Slots /\ tail \in Slots /\ Len(value) \in Nat /\ i \in Nat
    BY <2>1 DEF TypeOK
  <2>4. TypeOK'
    BY <2>1, <2>3 DEF TypeOK
  <2>5. Occupancy' /\ Committed'
    BY <2>1 DEF Occupancy, Committed, Released
  <2>6. ASSUME NEW s \in Slots PROVE data'[s] = Content(s)'
    <3>1. data[s] = Content(s)
      BY <2>2
    <3>2. CASE s = tail
      BY <3>2, <2>1, <2>3, DistanceRange DEF TypeOK, Content
    <3>3. CASE s # tail
      BY <3>1, <3>3, <2>1, <2>3 DEF TypeOK, Content, Released
    <3> QED
      BY <3>2, <3>3
  <2>7. InOrder' /\ (Len(value) <= NumPop)'
    BY <2>1 DEF InOrder
  <2> QED
    BY <2>2, <2>4, <2>5, <2>6, <2>7 DEF IInv, SlotContent
<1>3. CASE PushPublish
  <2> USE <1>3 DEF PushPublish
  <2>1. TypeOK /\ Occupancy /\ Committed /\ SlotContent /\ InOrder /\ Len(value) <= NumPop
    BY DEF IInv
  <2>2. obj = "alive" /\ \A s \in Slots : data[s] = Content(s)
    BY <2>1 DEF TypeOK, SlotContent, Joined
  <2>3. head \in Slots /\ tail \in Slots /\ Len(value) \in Nat /\ i \in Nat
    BY <2>1 DEF TypeOK
  <2>4. TypeOK'
    <3>1. tail' \in Slots
      BY <2>3, NextPosSlot
    <3>2. i' \in 0..NumPush
      BY <2>1, <2>3 DEF Committed
    <3> QED
      BY <3>1, <3>2, <2>1 DEF TypeOK
  <2>8. Distance(head, tail)' = Distance(head, tail) + 1
    BY <2>1, <2>3, DistanceFarEnd DEF Committed
  <2>9. Distance(head, tail) \in Nat /\ Released \in Int /\ Released' = Released
    BY <2>3, DistanceRange DEF Released
  <2>5. Occupancy' /\ Committed'
    <3>1. Occupancy'
      BY <2>1, <2>3, <2>8, <2>9 DEF Occupancy
    <3>2. cpc # "check" => head # tail'
      BY <2>1 DEF Committed
    <3> QED
      BY <3>1, <3>2, <2>1 DEF Committed
  <2>6. ASSUME NEW s \in Slots PROVE data'[s] = Content(s)'
    <3>1. data[s] = Content(s)
      BY <2>2
    <3>2. Distance(head, s) \in Nat
      BY <2>3, DistanceRange
    <3>3. CASE s = tail
      <4>1. data[s] = i
        BY <3>1, <3>3, <2>9 DEF Content
      <4>2. ~(s = head /\ cpc = "release")
        BY <3>3, <2>1 DEF Committed
      <4>3. Distance(head, s) < Distance(head, tail)'
        BY <3>3, <2>8, <2>9
      <4>4. Released + Distance(head, s) = i
        BY <3>3, <2>1, <2>3, <2>9 DEF Occupancy
      <4> QED
        BY <4>1, <4>2, <4>3, <4>4, <2>9 DEF Content
    <3>4. CASE s # tail
      <4>1. Distance(head, s) # Distance(head, tail)
        BY <3>4, <2>3, DistanceInjective
      <4>2. (Distance(head, s) < Distance(head, tail)') <=> (Distance(head, s) < Distance(head, tail))
        BY <4>1, <3>2, <2>8, <2>9
      <4> QED
        BY <4>2, <3>1, <3>4, <2>9 DEF Content
    <3> QED
      BY <3>3, <3>4
  <2>7. InOrder' /\ (Len(value) <= NumPop)'
    BY <2>1 DEF InOrder
  <2> QED
    BY <2>2, <2>4, <2>5, <2>6, <2>7 DEF IInv, SlotContent
<1> QED
  BY <1>1, <1>2, <1>3 DEF Producer

\* The consumer's steps: only the slot at head changes, and it leaves the
\* occupied arc with the store of _head.
LEMMA ConsumerIInv == IInv /\ Consumer => IInv'
<1> SUFFICES ASSUME IInv, Consumer PROVE IInv'
  OBVIOUS
<1> USE CapacityPos, ClientAssumption
<1>1. CASE PopCheck
  BY <1>1 DEF PopCheck, IInv, TypeOK, Occupancy, Committed, SlotContent,
              Content, Released, InOrder, Joined
<1>2. CASE PopTake
  <2> USE <1>2 DEF PopTake
  <2>1. TypeOK /\ Occupancy /\ Committed /\ SlotContent /\ InOrder /\ Len(value) <= NumPop
    BY DEF IInv
  <2>2. obj = "alive" /\ \A s \in Slots : data[s] = Content(s)
    BY <2>1 DEF TypeOK, SlotContent, Joined
  <2>3. head \in Slots /\ tail \in Slots /\ Len(value) \in Nat /\ i \in Nat
    BY <2>1 DEF TypeOK
  <2>8. Distance(head, tail) \in Nat \ {0} /\ Distance(head, head) = 0
    BY <2>1, <2>3, DistanceRange DEF Committed
  <2>9. data[head] = Len(value) /\ Len(value) < i
    BY <2>1, <2>2, <2>3, <2>8 DEF Content, Released, Occupancy
  <2>10. /\ value' \in Seq(0..NumPush)
         /\ Len(value') = Len(value) + 1
         /\ value'[Len(value) + 1] = Len(value)
         /\ \A k \in 1..Len(value) : value'[k] = value[k]
    <3>1. value \in Seq(0..NumPush) /\ Len(value) \in 0..NumPush
      BY <2>1, <2>3, <2>9 DEF TypeOK
    <3>2. value' = Append(value, Len(value))
      BY <2>9
    <3> QED
      BY <3>1, <3>2
  <2>4. TypeOK'
    BY <2>1, <2>10 DEF TypeOK
  <2>11. Released' = Released
    BY <2>3, <2>10 DEF Released
  <2>5. Occupancy' /\ Committed'
    BY <2>1, <2>3, <2>10, <2>11 DEF Occupancy, Committed
  <2>6. ASSUME NEW s \in Slots PROVE data'[s] = Content(s)'
    <3>1. data[s] = Content(s)
      BY <2>2
    <3>2. CASE s = head
      <4>1. data'[s] = Raw
        BY <3>2, <2>1, <2>3 DEF TypeOK
      <4>2. s # tail
        BY <3>2, <2>1 DEF Committed
      <4> QED
        BY <4>1, <4>2, <3>2 DEF Content
    <3>3. CASE s # head
      <4>1. data'[s] = data[s]
        BY <3>3, <2>1, <2>3 DEF TypeOK
      <4> QED
        BY <4>1, <3>1, <3>3, <2>11 DEF Content
    <3> QED
      BY <3>2, <3>3
  <2>7. InOrder' /\ (Len(value) <= NumPop)'
    <3>1. Len(value') <= NumPop
      BY <2>1, <2>3, <2>10 DEF Committed
    <3>2. ASSUME NEW k \in 1..Len(value') PROVE value'[k] = k - 1
      <4>1. CASE k = Len(value) + 1
        BY <4>1, <2>3, <2>10
      <4>2. CASE k \in 1..Len(value)
        BY <4>2, <2>1, <2>10 DEF InOrder
      <4> QED
        BY <4>1, <4>2, <2>3, <2>10
    <3> QED
      BY <3>1, <3>2 DEF InOrder
  <2> QED
    BY <2>2, <2>4, <2>5, <2>6, <2>7 DEF IInv, SlotContent
<1>3. CASE PopRelease
  <2> USE <1>3 DEF PopRelease
  <2>1. TypeOK /\ Occupancy /\ Committed /\ SlotContent /\ InOrder /\ Len(value) <= NumPop
    BY DEF IInv
  <2>2. obj = "alive" /\ \A s \in Slots : data[s] = Content(s)
    BY <2>1 DEF TypeOK, SlotContent, Joined
  <2>3. head \in Slots /\ tail \in Slots /\ Len(value) \in Nat /\ i \in Nat
    BY <2>1 DEF TypeOK
  <2>4. TypeOK'
    <3>1. head' \in Slots
      BY <2>3, NextPosSlot
    <3> QED
      BY <3>1, <2>1 DEF TypeOK
  <2>8. Distance(head, tail)' = Distance(head, tail) - 1
    BY <2>1, <2>3, DistanceNearEnd DEF Committed
  <2>9. Distance(head, tail) \in Nat /\ Distance(head, tail) < Capacity
    BY <2>3, DistanceRange
  <2>10. Released \in Int /\ Released' = Released + 1
    BY <2>3 DEF Released
  <2>5. Occupancy' /\ Committed'
    <3>1. Occupancy'
      BY <2>1, <2>3, <2>8, <2>9, <2>10 DEF Occupancy
    <3>2. ASSUME ppc # "check" PROVE next_pos(tail) # head'
      <4>1. next_pos(tail) # head /\ head # tail
        BY <3>2, <2>1 DEF Committed
      <4>2. Distance(head, next_pos(tail)) = Distance(head, tail) + 1
        BY <4>1, <2>3, DistanceFarEnd
      <4>3. next_pos(tail) \in Slots
        BY <2>3, NextPosSlot
      <4>4. Distance(head', next_pos(tail)) = Distance(head, next_pos(tail)) - 1
        BY <4>1, <4>3, <2>3, DistanceNearEnd
      <4>5. Distance(head', next_pos(tail)) # 0
        BY <4>1, <4>2, <4>4, <2>3, DistanceRange
      <4> QED
        BY <4>3, <4>5, DistanceRange
    <3> QED
      BY <3>1, <3>2, <2>1 DEF Committed
  <2>6. ASSUME NEW s \in Slots PROVE data'[s] = Content(s)'
    <3>1. data[s] = Content(s)
      BY <2>2
    <3>2. CASE s = head
      <4>1. s # tail /\ data[s] = Raw
        BY <3>1, <3>2, <2>1 DEF Committed, Content
      <4>2. Distance(head', s) = Capacity - 1
        BY <3>2, <2>3, DistanceBehind
      <4>3. ~(Distance(head', s) < Distance(head, tail)')
        BY <4>2, <2>8, <2>9
      <4> QED
        BY <4>1, <4>3 DEF Content
    <3>3. CASE s # head
      <4>1. Distance(head', s) = Distance(head, s) - 1 /\ Distance(head, s) \in Nat
        BY <3>3, <2>3, DistanceNearEnd, DistanceRange
      <4>2. (Distance(head', s) < Distance(head, tail)') <=> (Distance(head, s) < Distance(head, tail))
        BY <4>1, <2>8, <2>9
      <4>3. Released' + Distance(head', s) = Released + Distance(head, s)
        BY <4>1, <2>10
      <4> QED
        BY <4>2, <4>3, <3>1, <3>3 DEF Content
    <3> QED
      BY <3>2, <3>3
  <2>7. InOrder' /\ (Len(value) <= NumPop)'
    BY <2>1 DEF InOrder
  <2> QED
    BY <2>2, <2>4, <2>5, <2>6, <2>7 DEF IInv, SlotContent
<1> QED
  BY <1>1, <1>2, <1>3 DEF Consumer

\* The destructor empties the occupied arc, and nothing was outside it.
LEMMA DestroyIInv == IInv /\ Destroy => IInv'
<1> SUFFICES ASSUME IInv, Destroy PROVE IInv'
  OBVIOUS
<1> USE CapacityPos, ClientAssumption
<1> QED
  BY DEF Destroy, IInv, TypeOK, Occupancy, Committed, SlotContent,
         Content, Released, InOrder, Joined, Slots

\* IInv is an inductive invariant of the ring.
THEOREM Invariance == Spec => []IInv
<1>1. IInv /\ [Next]_vars => IInv'
  <2> SUFFICES ASSUME IInv, [Next]_vars PROVE IInv'
    OBVIOUS
  <2>1. CASE UNCHANGED vars
    BY <2>1 DEF vars, IInv, TypeOK, Occupancy, Committed, SlotContent,
                Content, Released, InOrder, Joined
  <2> QED
    BY <2>1, ProducerIInv, ConsumerIInv, DestroyIInv DEF Next, Terminating
<1> QED
  BY InitIInv, <1>1, PTL DEF Spec

-----------------------------------------------------------------------------
\* The indices, the program counters and the values popped keep their types.
THEOREM TypeCorrect == Spec => []TypeOK
<1>1. IInv => TypeOK
  BY DEF IInv
<1> QED
  BY Invariance, <1>1, PTL

\* For every capacity: between the check and the store of its index a thread
\* owns the slot it works on, whatever the other thread did meanwhile.
THEOREM SlotsAreOwned == Spec => []SlotOwnership
<1>1. IInv => SlotOwnership
  <2> SUFFICES ASSUME IInv PROVE SlotOwnership
    OBVIOUS
  <2>1. TypeOK /\ Occupancy /\ Committed /\ SlotContent
    BY DEF IInv
  <2>2. head \in Slots /\ tail \in Slots /\ Len(value) \in Nat /\ i \in Nat
    BY <2>1 DEF TypeOK
  <2>3. ASSUME ppc = "construct" PROVE data[tail] = Raw
    <3>1. data[tail] = Content(tail)
      BY <2>1, <2>2, <2>3 DEF TypeOK, SlotContent, Joined
    <3> QED
      BY <3>1, <2>2, <2>3, DistanceRange DEF Content
  <2>4. ASSUME cpc = "take" PROVE data[head] # Raw
    <3>1. data[head] = Content(head)
      BY <2>1, <2>2, <2>4 DEF TypeOK, SlotContent, Joined
    <3>2. Distance(head, head) = 0 /\ Distance(head, tail) \in Nat \ {0}
      BY <2>1, <2>2, <2>4, DistanceRange DEF Committed
    <3>3. Content(head) = Len(value)
      BY <2>2, <2>4, <3>2 DEF Content, Released
    <3> QED
      BY <3>1, <3>3, <2>2, ClientAssumption
  <2> QED
    BY <2>3, <2>4 DEF SlotOwnership
<1> QED
  BY Invariance, <1>1, PTL

\* The destructor's walk from head to tail reaches every element left in the
\* ring, for every capacity and wherever the two indices ended.
THEOREM DestructorLeaksNothing == Spec => []NothingLeaks
<1>1. IInv => NothingLeaks
  BY DEF IInv, SlotContent, NothingLeaks
<1> QED
  BY Invariance, <1>1, PTL

\* The ring implements the bounded FIFO of BoundedFifo: the store of _tail is
\* its Put, the move out of the slot its Get, every other step a stutter.
THEOREM RingIsFifo == Spec => IsFifo
<1> DEFINE sent == [k \in 1..i |-> k - 1]
<1>1. Init => Fifo!FifoInit
  <2> SUFFICES ASSUME Init PROVE sent = <<>> /\ value = <<>>
    BY DEF Fifo!FifoInit
  <2> QED
    BY DEF Init
<1>2. ASSUME IInv, [Next]_vars PROVE [Fifo!FifoNext]_(Fifo!fifoVars)
  <2>1. TypeOK /\ Occupancy /\ Committed /\ SlotContent
    BY <1>2 DEF IInv
  <2>2. head \in Slots /\ tail \in Slots /\ Len(value) \in Nat /\ i \in Nat
    BY <2>1 DEF TypeOK
  <2>3. sent \in Seq(Int) /\ Len(sent) = i
    BY <2>2
  <2>4. CASE PushPublish
    <3>1. sent' = Append(sent, i)
      BY <2>2, <2>3, <2>4 DEF PushPublish
    <3>2. Distance(head, tail) \in Nat /\ Distance(head, tail) + 1 < Capacity
      <4>1. next_pos(tail) # head /\ next_pos(tail) \in Slots
        BY <2>1, <2>2, <2>4, NextPosSlot DEF PushPublish, Committed
      <4> QED
        BY <4>1, <2>2, DistanceFarEnd, DistanceRange
    <3>3. i - Len(value) < Capacity - 1
      BY <3>2, <2>1, <2>2, CapacityPos DEF Occupancy, Released
    <3>4. i \in 0..NumPush /\ UNCHANGED value
      BY <2>1, <2>4 DEF PushPublish, TypeOK
    <3>5. \E e \in 0..NumPush : Fifo!Put(e)
      BY <3>1, <3>3, <3>4, <2>3 DEF Fifo!Put
    <3> QED
      BY <3>5 DEF Fifo!FifoNext
  <2>5. CASE PopTake
    <3>1. Distance(head, tail) \in Nat \ {0} /\ Distance(head, head) = 0
      BY <2>1, <2>2, <2>5, DistanceRange DEF PopTake, Committed
    <3>2. data[head] = Len(value) /\ Len(value) < i
      <4>1. data[head] = Content(head)
        BY <2>1, <2>2, <2>5 DEF PopTake, TypeOK, SlotContent, Joined
      <4> QED
        BY <4>1, <3>1, <2>1, <2>2, <2>5 DEF PopTake, Content, Released, Occupancy
    <3>3. sent[Len(value) + 1] = Len(value)
      BY <3>2, <2>2
    <3>4. Fifo!Get
      BY <3>2, <3>3, <2>3, <2>5 DEF PopTake, Fifo!Get
    <3> QED
      BY <3>4 DEF Fifo!FifoNext
  <2>6. CASE UNCHANGED <<i, value>>
    BY <2>6 DEF Fifo!fifoVars
  <2> QED
    BY <1>2, <2>4, <2>5, <2>6 DEF Next, Producer, Consumer, PushCheck, PushConstruct,
       PopCheck, PopRelease, Destroy, Terminating, vars
<1> QED
  BY <1>1, <1>2, Invariance, PTL DEF Spec, IsFifo, Fifo!FifoSpec

-----------------------------------------------------------------------------
(* Remainders.                                                             *)

\* Products of sums.
LEMMA Products ==
    ASSUME NEW m \in Int, NEW p \in Int, NEW q \in Int
    PROVE  /\ p * m \in Int /\ q * m \in Int /\ (p + 1) * m = p * m + m
           /\ (p - q) * m = p * m - q * m /\ (p + q) * m = p * m + q * m
           /\ 0 * m = 0 /\ 1 * m = m
OBVIOUS

\* Less than one turn is left over.
LEMMA RemainderIs ==
    ASSUME NEW m \in Nat \ {0}
    PROVE  \A q \in Int, r \in 0 .. m - 1, x \in Int : x = q * m + r => x % m = r
OBVIOUS

\* A number is a number of turns and its remainder.
LEMMA Euclid ==
    ASSUME NEW m \in Nat \ {0}, NEW a \in Nat
    PROVE  \E q \in Nat, r \in 0 .. m - 1 : a = q * m + r /\ a % m = r
<1> DEFINE S == { b \in Nat : \E q \in Nat, r \in 0 .. m - 1 : b = q * m + r }
<1>1. 0 \in S
  <2>1. 0 = 0 * m + 0 /\ 0 \in 0 .. m - 1
    OBVIOUS
  <2> QED BY <2>1
<1>2. ASSUME NEW b \in Nat, b \in S PROVE b + 1 \in S
  <2>1. PICK q \in Nat, r \in 0 .. m - 1 : b = q * m + r
    BY <1>2
  <2>2. CASE r + 1 \in 0 .. m - 1
    <3>1. b + 1 = q * m + (r + 1)
      BY <2>1
    <3> QED BY <2>2, <3>1
  <2>3. CASE r + 1 = m
    <3>1. (q + 1) * m = q * m + m /\ q * m \in Int
      BY Products
    <3>2. b + 1 = (q + 1) * m + 0
      BY <2>1, <2>3, <3>1
    <3>3. q + 1 \in Nat /\ 0 \in 0 .. m - 1 /\ b + 1 \in Nat
      OBVIOUS
    <3>4. \E p \in Nat, t \in 0 .. m - 1 : b + 1 = p * m + t
      BY <3>2, <3>3, Zenon
    <3> QED BY <3>3, <3>4, Zenon
  <2> QED BY <2>2, <2>3
<1>3. a \in S
  <2> HIDE DEF S
  <2> QED BY <1>1, <1>2, Induction
<1>4. PICK q \in Nat, r \in 0 .. m - 1 : a = q * m + r
  BY <1>3
<1>5. a % m = r
  BY <1>4, RemainderIs
<1> QED BY <1>4, <1>5, Zenon

\* One more, or one turn more.
LEMMA RemainderNext ==
    ASSUME NEW m \in Nat \ {0}, NEW a \in Nat
    PROVE  ((a % m) + 1) % m = (a + 1) % m /\ (a + m) % m = a % m
<1>1. PICK q \in Nat, r \in 0 .. m - 1 : a = q * m + r /\ a % m = r
  BY Euclid
<1>2. PICK p \in Int : p = q + 1
  OBVIOUS
<1>3. q * m \in Int /\ p * m = q * m + m /\ 0 * m = 0 /\ 1 * m = m
  BY <1>2, Products
<1>4. PICK x \in Int : x = a + m
  OBVIOUS
<1>5. x = p * m + r
  BY <1>1, <1>3, <1>4
<1>6. x % m = r
  BY <1>5, RemainderIs
<1>7. PICK y, z \in Int : y = r + 1 /\ z = a + 1
  OBVIOUS
<1>8. y % m = z % m
  <2>1. CASE y \in 0 .. m - 1
    <3>1. y = 0 * m + y
      BY <1>3
    <3>2. z = q * m + y
      BY <1>1, <1>3, <1>7
    <3>3. y % m = y
      BY <2>1, <3>1, RemainderIs
    <3>4. z % m = y
      BY <2>1, <3>2, RemainderIs
    <3> QED BY <3>3, <3>4, Zenon
  <2>2. CASE y = m
    <3>1. y = 1 * m + 0 /\ 0 \in 0 .. m - 1
      BY <1>3, <2>2
    <3>2. z = p * m + 0
      BY <1>1, <1>3, <1>7, <2>2
    <3>3. y % m = 0
      BY <3>1, RemainderIs
    <3>4. z % m = 0
      BY <3>1, <3>2, RemainderIs
    <3> QED BY <3>3, <3>4, Zenon
  <2> QED BY <1>7, <2>1, <2>2
<1>9. (r + 1) % m = (a + 1) % m /\ (a + m) % m = r
  BY <1>4, <1>6, <1>7, <1>8, Zenon
<1> QED BY <1>1, <1>9, Zenon

\* A difference of counters, computed from their remainders.
LEMMA RemainderDifference ==
    ASSUME NEW m \in Nat \ {0}, NEW a \in Nat, NEW b \in Nat, NEW c \in Nat, NEW e \in 0 .. m - 1,
           e = c + a - b
    PROVE  (c + ((a % m) - (b % m))) % m = e
<1>1. PICK q \in Nat, r \in 0 .. m - 1 : a = q * m + r /\ a % m = r
  BY Euclid
<1>2. PICK p \in Nat, s \in 0 .. m - 1 : b = p * m + s /\ b % m = s
  BY Euclid
<1>3. PICK k, x \in Int : k = p - q /\ x = c + r - s
  OBVIOUS
<1>4. p * m \in Int /\ q * m \in Int /\ k * m = p * m - q * m
  BY <1>3, Products
<1>5. x = k * m + e
  BY <1>1, <1>2, <1>3, <1>4
<1>6. x % m = e
  BY <1>5, RemainderIs
<1>7. PICK u, v : u = a % m /\ v = b % m
  OBVIOUS
<1>8. u = r /\ v = s
  BY <1>1, <1>2, <1>7, Zenon
<1>9. (c + (u - v)) % m = e
  BY <1>3, <1>6, <1>8, Zenon
<1> QED BY <1>7, <1>9, Zenon

\* Counters less than a turn apart have different remainders.
LEMMA RemaindersApart ==
    ASSUME NEW m \in Nat \ {0}, NEW a \in Nat, NEW b \in Nat, a < b, b < a + m
    PROVE  a % m # b % m
<1>1. PICK q \in Nat, r \in 0 .. m - 1 : a = q * m + r /\ a % m = r
  BY Euclid
<1>2. PICK p \in Nat, s \in 0 .. m - 1 : b = p * m + s /\ b % m = s
  BY Euclid
<1>3. PICK k \in Int : k = p - q
  OBVIOUS
<1>4. p * m \in Int /\ q * m \in Int /\ k * m = p * m - q * m
  BY <1>3, Products
<1>5. r = s => b - a = k * m
  BY <1>1, <1>2, <1>4
<1>6. k <= 0 => k * m <= 0
  OBVIOUS
<1>7. k >= 1 => k * m >= m
  OBVIOUS
<1>8. r # s
  BY <1>4, <1>5, <1>6, <1>7
<1> QED BY <1>1, <1>2, <1>8, Zenon

\* A remainder keeps the remainders by a divisor.
LEMMA RemainderOfRemainder ==
    ASSUME NEW c \in Nat \ {0}, NEW d \in Nat \ {0}, NEW m \in Nat, m = d * c, NEW a \in Nat
    PROVE  (a % m) % c = a % c
<1>0. m \in Nat \ {0}
  OBVIOUS
<1>1. PICK q \in Nat, r \in 0 .. m - 1 : a = q * m + r /\ a % m = r
  BY <1>0, Euclid
<1>10. r \in Nat
  OBVIOUS
<1>2. PICK p \in Nat, s \in 0 .. c - 1 : r = p * c + s /\ r % c = s
  BY <1>10, Euclid
<1>3. PICK k, l \in Int : k = q * d /\ l = k + p
  OBVIOUS
<1>4. k * c = q * m
  BY <1>3
<1>5. k * c \in Int /\ p * c \in Int /\ l * c = k * c + p * c
  BY <1>3, Products
<1>6. a = l * c + s
  BY <1>1, <1>2, <1>4, <1>5
<1>7. a \in Int /\ a % c = s
  BY <1>6, RemainderIs
<1> QED BY <1>1, <1>2, <1>7, Zenon

-----------------------------------------------------------------------------
(* The second ring: its counters.                                          *)

Writer == Rte!TheProducer
Reader == Rte!TheConsumer

\* The indices a thread has claimed, and those it has moved an element at.
Claims(t) == n[t] + (IF pc[t] \in {"move", "publish"} THEN 1 ELSE 0)
Moved(t) == n[t] + (IF pc[t] = "publish" THEN 1 ELSE 0)

\* Types, and calls within those of the test.
RteTypes ==
    /\ Rte!TypeOK
    /\ \A t \in Rte!Threads :
          n[t] <= Rte!Calls(t) /\ (pc[t] # "load" => n[t] < Rte!Calls(t))

\* The indices of the only thread of a side are its counters, modulo the values of
\* an index.
Counters(t, s) ==
    /\ ring[s].head = Rte!u32(Claims(t)) /\ ring[s].tail = Rte!u32(n[t])
    /\ pc[t] # "load" => old[t] = Rte!u32(n[t])
    /\ pc[t] \in {"claim", "move", "publish"} => new[t] = Rte!u32(n[t] + 1)

\* The reader does not overtake the writer, nor the writer the reader by more than
\* the ring holds.
Spaced ==
    /\ n[Reader] <= n[Writer] /\ n[Writer] <= n[Reader] + RteCapacity
    /\ pc[Writer] \in {"claim", "move", "publish"} => n[Writer] < n[Reader] + RteCapacity
    /\ pc[Reader] \in {"claim", "move", "publish"} => n[Reader] < n[Writer]

\* What the slots hold between the two.
Stored ==
    \A k \in Nat :
        /\ Moved(Reader) <= k /\ k < Moved(Writer) => slots[k % RteCapacity] = <<Writer, k>>
        /\ Moved(Writer) <= k /\ k < Moved(Reader) + RteCapacity => slots[k % RteCapacity] = Raw

Received ==
    /\ Len(got[Reader]) = Moved(Reader)
    /\ \A k \in 1..Len(got[Reader]) : got[Reader][k] = <<Writer, k - 1>>

Single == Counters(Writer, "prod") /\ Counters(Reader, "cons") /\ Spaced /\ Stored /\ Received

\* With several threads on a side, the indices that they have claimed are the first
\* ones.
Team(s) == IF s = "prod" THEN Producers ELSE Consumers
Claimed(s) == { c \in Team(s) \X (0 .. ItemsMT - 1) : c[2] < Claims(c[1]) }

Several ==
    /\ \A s \in {"prod", "cons"} : ring[s].head = Cardinality(Claimed(s))
    /\ \A t \in Rte!Threads :
          /\ pc[t] = "claim" => new[t] = Rte!u32(old[t] + 1)
          /\ pc[t] = "move" => old[t] < ring[Rte!Side(t)].head
    /\ Rte!ClaimsDistinct

\* The inductive invariant of the second ring.
RteInv == RteTypes /\ (sync_type = "ST" => Single) /\ (sync_type = "MT" => Several)

\* The values of an index.
LEMMA IndexValues ==
    \E m \in Nat : /\ m = 2^Width /\ m > RteCapacity /\ Rte!Index = 0 .. m - 1
                   /\ \A a : Rte!u32(a) = a % m
                   /\ \E d \in Nat \ {0} : m = d * RteCapacity
<1>1. PICK d \in 2 .. 2^Width : 2^Width = d * RteCapacity
  BY RteAssumption
<1>2. PICK c \in Nat \ {0} : c = RteCapacity
  BY RteAssumption
<1>3. d \in Nat \ {0} /\ d >= 2
  BY <1>1
<1>4. PICK m : m = d * c
  OBVIOUS
<1>5. m \in Nat /\ m > c
  BY <1>3, <1>4
<1>6. m = 2^Width
  BY <1>1, <1>2, <1>4, Zenon
<1>7. Rte!Index = 0 .. m - 1 /\ \A a : Rte!u32(a) = a % m
  BY <1>6, Zenon DEF Rte!Index, Rte!u32
<1> QED BY <1>2, <1>3, <1>4, <1>5, <1>6, <1>7, Zenon

\* An index is computed modulo their number.
LEMMA IndexType == ASSUME NEW a \in Int PROVE Rte!u32(a) \in Rte!Index
<1>1. PICK m \in Nat : m > RteCapacity /\ Rte!Index = 0 .. m - 1 /\ \A x : Rte!u32(x) = x % m
  BY IndexValues, Zenon
<1>2. m \in Nat \ {0}
  BY <1>1, RteAssumption
<1>3. a % m \in 0 .. m - 1
  BY <1>2
<1> QED BY <1>1, <1>3, Zenon

\* The threads of a side.
LEMMA Sides ==
    /\ Writer \in Producers /\ Reader \in Consumers /\ Writer # Reader
    /\ Rte!Threads = Producers \cup Consumers
    /\ \A t \in Producers : Rte!Side(t) = "prod" /\ t \notin Consumers
    /\ \A t \in Consumers : Rte!Side(t) = "cons" /\ t \notin Producers
<1>1. Writer \in Producers /\ Reader \in Consumers
  BY RteAssumption DEF Writer, Reader, Rte!TheProducer, Rte!TheConsumer
<1> QED BY <1>1, RteAssumption DEF Rte!Threads, Rte!Side

\* The calls of a thread are those of its test, and do not change.
LEMMA CallsType ==
    ASSUME sync_type \in {"ST", "MT"}
    PROVE  /\ \A t : Rte!Calls(t) \in 0 .. ItemsST + ItemsMT
           /\ sync_type = "ST" => \A t : t \notin {Writer, Reader} => Rte!Calls(t) = 0
           /\ sync_type = "MT" => \A t : Rte!Calls(t) = ItemsMT
           /\ sync_type' = sync_type => \A t : Rte!Calls(t)' = Rte!Calls(t)
<1>1. ItemsST \in Nat /\ ItemsMT \in Nat
  BY RteAssumption
<1>2. CASE sync_type = "ST"
  BY <1>1, <1>2 DEF Rte!Calls, Writer, Reader
<1>3. CASE sync_type = "MT"
  BY <1>1, <1>3 DEF Rte!Calls
<1> QED BY <1>2, <1>3

\* With RING_SYNC_ST the other threads make no calls.
LEMMA SingleThreads ==
    ASSUME RteTypes, sync_type = "ST", NEW t \in Rte!Threads
    PROVE  (Rte!Step(t) \/ pc[t] # "load") => t \in {Writer, Reader}
<1> SUFFICES ASSUME t \notin {Writer, Reader} PROVE ~Rte!Step(t) /\ pc[t] = "load"
  OBVIOUS
<1>1. n[t] \in Nat /\ Rte!Calls(t) = 0
  BY CallsType, RteAssumption DEF RteTypes, Rte!TypeOK
<1>2. pc[t] = "load" /\ ~(n[t] < Rte!Calls(t))
  BY <1>1 DEF RteTypes
<1> QED BY <1>2 DEF Rte!Step, Rte!LoadHead, Rte!ReturnFalse, Rte!CheckEntries, Rte!Claim,
         Rte!LoseClaim, Rte!MoveIn, Rte!MoveOut, Rte!Publish, Rte!RetryPublish, Rte!Goto

\* A thread of a test stays within its types and its calls.
LEMMA TypesKept ==
    ASSUME RteTypes, NEW t \in Rte!Threads, Rte!Step(t) PROVE RteTypes'
<1> USE DEF Rte!Goto
<1>1. Rte!TypeOK /\ t \in Producers \cup Consumers
  BY Sides DEF RteTypes
<1>2. sync_type' = sync_type
  BY DEF Rte!Step, Rte!LoadHead, Rte!ReturnFalse, Rte!CheckEntries, Rte!Claim,
         Rte!LoseClaim, Rte!MoveIn, Rte!MoveOut, Rte!Publish, Rte!RetryPublish
<1>3. /\ \A u : Rte!Calls(u)' = Rte!Calls(u) /\ Rte!Calls(u) \in 0 .. ItemsST + ItemsMT
      /\ ItemsST + ItemsMT \in Nat
  BY <1>1, <1>2, CallsType, RteAssumption DEF Rte!TypeOK
<1>4. Rte!Side(t) \in {"prod", "cons"}
  BY DEF Rte!Side
<1>6. CASE Rte!LoadHead(t)
  <2> USE <1>6 DEF Rte!LoadHead
  <2>1. old' \in [Rte!Threads -> Rte!Index]
    BY <1>1, <1>4 DEF Rte!TypeOK
  <2> QED BY <1>1, <1>3, <2>1 DEF RteTypes, Rte!TypeOK
<1>7. CASE Rte!ReturnFalse(t) \/ Rte!LoseClaim(t)
  BY <1>1, <1>3, <1>7 DEF RteTypes, Rte!TypeOK, Rte!ReturnFalse, Rte!LoseClaim
<1>8. CASE Rte!CheckEntries(t)
  <2> USE <1>8 DEF Rte!CheckEntries
  <2>1. old[t] + 1 \in Int
    BY <1>1 DEF Rte!TypeOK, Rte!Index
  <2>3. PICK v \in Rte!Index : v = Rte!u32(old[t] + 1)
    BY <2>1, IndexType
  <2>2. new' \in [Rte!Threads -> Rte!Index]
    BY <1>1, <2>3 DEF Rte!TypeOK
  <2> QED BY <1>1, <1>3, <2>2 DEF RteTypes, Rte!TypeOK
<1>9. CASE Rte!Claim(t)
  <2> USE <1>9 DEF Rte!Claim
  <2>1. ring' \in [{"prod", "cons"} -> [head : Rte!Index, tail : Rte!Index]]
    BY <1>1, <1>4 DEF Rte!TypeOK
  <2> QED BY <1>1, <1>3, <2>1 DEF RteTypes, Rte!TypeOK
<1>10. CASE Rte!MoveIn(t)
  <2> USE <1>10 DEF Rte!MoveIn
  <2>1. <<t, n[t]>> \in Rte!Elements
    BY <1>1 DEF Rte!TypeOK, Rte!Elements
  <2>2. slots' \in [0 .. RteCapacity - 1 -> Rte!Elements \cup {Raw}]
    BY <1>1, <2>1 DEF Rte!TypeOK
  <2> QED BY <1>1, <1>3, <2>2 DEF RteTypes, Rte!TypeOK
<1>11. CASE Rte!MoveOut(t)
  <2> USE <1>11 DEF Rte!MoveOut
  <2>1. PICK k : k = Rte!Slot(old[t])
    OBVIOUS
  <2>2. k \in 0 .. RteCapacity - 1
    <3>1. PICK o \in Int : o = old[t]
      BY <1>1 DEF Rte!TypeOK, Rte!Index
    <3>2. o % RteCapacity \in 0 .. RteCapacity - 1
      BY RteAssumption
    <3> QED BY <2>1, <3>1, <3>2 DEF Rte!Slot
  <2>3. slots[k] \in Rte!Elements \cup {Raw}
    BY <1>1, <2>2 DEF Rte!TypeOK
  <2>4. got[t] \in Seq(Rte!Elements \cup {Raw}) /\ t \in Consumers
    BY <1>1 DEF Rte!TypeOK
  <2>5. Append(got[t], slots[k]) \in Seq(Rte!Elements \cup {Raw})
    BY <2>3, <2>4, AppendType
  <2>6. got' \in [Consumers -> Seq(Rte!Elements \cup {Raw})]
    BY <1>1, <2>1, <2>4, <2>5 DEF Rte!TypeOK
  <2>7. slots' \in [0 .. RteCapacity - 1 -> Rte!Elements \cup {Raw}]
    BY <1>1 DEF Rte!TypeOK
  <2> QED BY <1>1, <1>3, <2>6, <2>7 DEF RteTypes, Rte!TypeOK
<1>12. CASE Rte!Publish(t)
  <2> USE <1>12 DEF Rte!Publish
  <2>1. ring' \in [{"prod", "cons"} -> [head : Rte!Index, tail : Rte!Index]]
    BY <1>1, <1>4 DEF Rte!TypeOK
  <2>4. n[t] \in 0 .. ItemsST + ItemsMT /\ n[t] < Rte!Calls(t)
    BY <1>1 DEF RteTypes, Rte!TypeOK
  <2>2. n[t] + 1 <= Rte!Calls(t) /\ n[t] \in Nat
    BY <1>3, <2>4
  <2>3. n' \in [Rte!Threads -> 0 .. ItemsST + ItemsMT]
    BY <1>1, <1>3, <2>2 DEF Rte!TypeOK
  <2> QED BY <1>1, <1>3, <2>1, <2>2, <2>3 DEF RteTypes, Rte!TypeOK
<1>13. CASE Rte!RetryPublish(t)
  <2> USE <1>13 DEF Rte!RetryPublish
  <2>1. old' \in [Rte!Threads -> Rte!Index]
    BY <1>1, <1>4 DEF Rte!TypeOK
  <2> QED BY <1>1, <1>3, <2>1 DEF RteTypes, Rte!TypeOK
<1> QED BY <1>6, <1>7, <1>8, <1>9, <1>10, <1>11, <1>12, <1>13 DEF Rte!Step
\* A step of a thread leaves the other threads where they are, and the other side's
\* indices.
LEMMA OthersRest ==
    ASSUME RteTypes, NEW t \in Rte!Threads, Rte!Step(t)
    PROVE  /\ \A u \in Rte!Threads : u # t =>
                 n'[u] = n[u] /\ pc'[u] = pc[u] /\ old'[u] = old[u] /\ new'[u] = new[u]
           /\ \A s \in {"prod", "cons"} : s # Rte!Side(t) => ring'[s] = ring[s]
           /\ sync_type' = sync_type
<1>1. Rte!TypeOK
  BY DEF RteTypes
<1> QED BY <1>1 DEF Rte!TypeOK, Rte!Goto, Rte!Step, Rte!LoadHead, Rte!ReturnFalse, Rte!CheckEntries,
       Rte!Claim, Rte!LoseClaim, Rte!MoveIn, Rte!MoveOut, Rte!Publish, Rte!RetryPublish

-----------------------------------------------------------------------------
(* The second ring with RING_SYNC_ST.                                      *)

\* The index after that of a counter is that of the next count.
LEMMA NextIndex == ASSUME NEW a \in Nat PROVE Rte!u32(Rte!u32(a) + 1) = Rte!u32(a + 1)
<1>1. PICK m \in Nat : m > RteCapacity /\ \A x : Rte!u32(x) = x % m
  BY IndexValues, Zenon
<1>2. m \in Nat \ {0}
  BY <1>1, RteAssumption
<1>3. ((a % m) + 1) % m = (a + 1) % m
  BY <1>2, RemainderNext
<1> QED BY <1>1, <1>3, Zenon

\* What a side's only thread does to its indices.
LEMMA CountersKept ==
    ASSUME RteTypes, sync_type = "ST", NEW t \in Rte!Threads, Rte!Step(t),
           Counters(t, Rte!Side(t))
    PROVE  Counters(t, Rte!Side(t))'
<1> USE DEF Rte!Goto
<1>1. PICK s \in {"prod", "cons"} : s = Rte!Side(t)
  BY DEF Rte!Side
<1>2. /\ Rte!TypeOK /\ n[t] \in Nat
      /\ ring \in [{"prod", "cons"} -> [head : Rte!Index, tail : Rte!Index]]
  BY RteAssumption DEF RteTypes, Rte!TypeOK
<1>3. Counters(t, s)
  BY <1>1
<1>4. Rte!Side(t)' = s
  BY <1>1 DEF Rte!Side
<1>5. Counters(t, s)'
  <2>1. CASE Rte!LoadHead(t)
    <3> USE <2>1 DEF Rte!LoadHead
    <3>1. Claims(t) = n[t]
      BY <1>2 DEF Claims
    <3>2. old'[t] = Rte!u32(n[t])
      BY <1>1, <1>2, <1>3, <3>1 DEF Counters, Rte!TypeOK
    <3>3. Claims(t)' = Claims(t) /\ n' = n /\ pc'[t] = "check"
      BY <1>2 DEF Claims, Rte!TypeOK
    <3> QED BY <1>3, <3>2, <3>3 DEF Counters
  <2>2. CASE Rte!ReturnFalse(t)
    BY <1>2, <1>3, <2>2 DEF Rte!ReturnFalse, Counters, Claims, Rte!TypeOK
  <2>3. CASE Rte!CheckEntries(t)
    <3> USE <2>3 DEF Rte!CheckEntries
    <3>1. old[t] = Rte!u32(n[t])
      BY <1>3 DEF Counters
    <3>2. new'[t] = Rte!u32(Rte!u32(n[t]) + 1)
      BY <1>2, <3>1 DEF Rte!TypeOK
    <3>3. new'[t] = Rte!u32(n[t] + 1)
      BY <1>2, <3>2, NextIndex
    <3>4. Claims(t)' = Claims(t) /\ n' = n /\ pc'[t] = "claim"
      BY <1>2 DEF Claims, Rte!TypeOK
    <3> QED BY <1>3, <3>1, <3>3, <3>4 DEF Counters
  <2>4. CASE Rte!Claim(t)
    <3> USE <2>4 DEF Rte!Claim
    <3>1. Claims(t)' = n[t] + 1 /\ n' = n /\ pc'[t] = "move"
      BY <1>2 DEF Claims, Rte!TypeOK
    <3>2. ring'[s].head = new[t] /\ ring'[s].tail = ring[s].tail
      BY <1>1, <1>2
    <3> QED BY <1>3, <3>1, <3>2 DEF Counters
  <2>5. CASE Rte!MoveIn(t) \/ Rte!MoveOut(t)
    <3>1. /\ Claims(t)' = Claims(t) /\ n' = n /\ pc'[t] = "publish" /\ pc[t] = "move"
          /\ UNCHANGED <<ring, old, new>>
      BY <1>2, <2>5 DEF Claims, Rte!TypeOK, Rte!MoveIn, Rte!MoveOut
    <3> QED BY <1>3, <3>1 DEF Counters
  <2>6. CASE Rte!Publish(t)
    <3> USE <2>6 DEF Rte!Publish
    <3>1. n'[t] = n[t] + 1 /\ pc'[t] = "load"
      BY <1>2 DEF Rte!TypeOK
    <3>2. Claims(t)' = n[t] + 1 /\ Claims(t) = n[t] + 1
      BY <1>2, <3>1 DEF Claims
    <3>3. ring'[s].tail = new[t] /\ ring'[s].head = ring[s].head
      BY <1>1, <1>2
    <3> QED BY <1>3, <3>1, <3>2, <3>3 DEF Counters
  <2> QED BY <2>1, <2>2, <2>3, <2>4, <2>5, <2>6
          DEF Rte!Step, Rte!LoseClaim, Rte!CanClaim, Rte!RetryPublish
<1> QED BY <1>4, <1>5 DEF Counters, Claims

\* What the other side's thread does to them.
LEMMA CountersRest ==
    ASSUME RteTypes, NEW t \in Rte!Threads, Rte!Step(t), NEW u \in Rte!Threads, u # t,
           Rte!Side(u) # Rte!Side(t), Counters(u, Rte!Side(u))
    PROVE  Counters(u, Rte!Side(u))'
<1>1. Rte!Side(u) \in {"prod", "cons"} /\ Rte!Side(u)' = Rte!Side(u)
  BY DEF Rte!Side
<1>2. n'[u] = n[u] /\ pc'[u] = pc[u] /\ old'[u] = old[u] /\ new'[u] = new[u]
  BY OthersRest
<1>3. ring'[Rte!Side(u)] = ring[Rte!Side(u)]
  BY <1>1, OthersRest
<1>4. Claims(u)' = Claims(u)
  BY <1>2 DEF Claims
<1> QED BY <1>1, <1>2, <1>3, <1>4 DEF Counters
\* The entries that a call computes from the indices are the free slots, or the
\* elements stored, also when an index has wrapped.
LEMMA EntriesCount ==
    ASSUME RteTypes, Single
    PROVE  /\ pc[Writer] = "check" => Rte!Entries(Writer) = RteCapacity + n[Reader] - n[Writer]
           /\ pc[Reader] = "check" => Rte!Entries(Reader) = n[Writer] - n[Reader]
<1>1. PICK m \in Nat : m > RteCapacity /\ \A x : Rte!u32(x) = x % m
  BY IndexValues, Zenon
<1>2. PICK c \in Nat \ {0} : c = RteCapacity
  BY RteAssumption
<1>3. m \in Nat \ {0} /\ m > c
  BY <1>1, <1>2
<1>4. n[Writer] \in Nat /\ n[Reader] \in Nat
  BY Sides, RteAssumption DEF RteTypes, Rte!TypeOK
<1>5. PICK a \in Nat, b \in Nat : a = n[Writer] /\ b = n[Reader]
  BY <1>4
<1>6. b <= a /\ a <= b + c
  BY <1>2, <1>5 DEF Single, Spaced
<1>7. ring["prod"].tail = a % m /\ ring["cons"].tail = b % m
  BY <1>1, <1>5, Zenon DEF Single, Counters
<1>8. a % m \in Int /\ b % m \in Int
  BY <1>3
<1>9. PICK x \in Int, y \in Int : x = a % m /\ y = b % m
  BY <1>8
<1>10. ASSUME pc[Writer] = "check"
       PROVE  Rte!Entries(Writer) = c + b - a
  <2>1. old[Writer] = x
    BY <1>1, <1>5, <1>9, <1>10 DEF Single, Counters
  <2>2. Rte!Entries(Writer) = (c + y - x) % m
    BY <1>1, <1>2, <1>7, <1>9, <2>1, Sides, Zenon DEF Rte!Entries
  <2>3. PICK e \in 0 .. m - 1 : e = c + b - a
    BY <1>3, <1>6
  <2>4. (c + (y - x)) % m = e
    BY <1>3, <1>9, <2>3, RemainderDifference
  <2>5. c + (y - x) = c + y - x
    OBVIOUS
  <2> QED BY <2>2, <2>3, <2>4, <2>5, Zenon
<1>11. ASSUME pc[Reader] = "check"
       PROVE  Rte!Entries(Reader) = a - b
  <2>1. old[Reader] = y
    BY <1>1, <1>5, <1>9, <1>11 DEF Single, Counters
  <2>2. Rte!Entries(Reader) = (x - y) % m
    BY <1>1, <1>7, <1>9, <2>1, Sides, Zenon DEF Rte!Entries
  <2>3. PICK e \in 0 .. m - 1 : e = 0 + a - b /\ e = a - b
    BY <1>2, <1>3, <1>6
  <2>4. (0 + (x - y)) % m = e
    BY <1>3, <1>9, <2>3, RemainderDifference
  <2>5. 0 + (x - y) = x - y
    OBVIOUS
  <2> QED BY <2>2, <2>3, <2>4, <2>5, Zenon
<1> QED BY <1>2, <1>5, <1>10, <1>11, Zenon

\* The two sides keep their distance.
LEMMA SpacedKept ==
    ASSUME RteTypes, sync_type = "ST", Single, NEW t \in {Writer, Reader}, Rte!Step(t)
    PROVE  Spaced'
<1> USE DEF Rte!Goto
<1>0. Spaced /\ Writer \in Rte!Threads /\ Reader \in Rte!Threads /\ Writer # Reader
  BY Sides DEF Single
<1>1. PICK c \in Nat \ {0} : c = RteCapacity
  BY RteAssumption
<1>2. PICK a \in Nat, b \in Nat : a = n[Writer] /\ b = n[Reader]
  BY <1>0, RteAssumption DEF RteTypes, Rte!TypeOK
<1>3. Rte!TypeOK /\ t \in Rte!Threads
  BY <1>0 DEF RteTypes
<1>4. CASE Rte!CheckEntries(t)
  <2> USE <1>4 DEF Rte!CheckEntries
  <2>1. n' = n /\ pc' = [pc EXCEPT ![t] = "claim"] /\ pc[t] = "check" /\ Rte!Entries(t) # 0
    OBVIOUS
  <2>2. t = Writer => c + b - a # 0
    BY <1>1, <1>2, <2>1, EntriesCount
  <2>3. t = Reader => a - b # 0
    BY <1>1, <1>2, <2>1, EntriesCount
  <2>4. b <= a /\ a <= b + c
    BY <1>0, <1>1, <1>2 DEF Spaced
  <2>5. (t = Writer => a < b + c) /\ (t = Reader => b < a)
    BY <2>2, <2>3, <2>4
  <2>6. pc'[t] = "claim" /\ \A u \in Rte!Threads : u # t => pc'[u] = pc[u]
    BY <1>3 DEF Rte!TypeOK
  <2> QED BY <1>0, <1>1, <1>2, <2>1, <2>5, <2>6 DEF Spaced
<1>5. CASE Rte!Publish(t)
  <2> USE <1>5 DEF Rte!Publish
  <2>1. pc[t] = "publish" /\ pc'[t] = "load" /\ n'[t] = n[t] + 1
    BY <1>3 DEF Rte!TypeOK
  <2>2. \A u \in Rte!Threads : u # t => pc'[u] = pc[u] /\ n'[u] = n[u]
    BY <1>3 DEF Rte!TypeOK
  <2>3. CASE t = Writer
    BY <1>0, <1>1, <1>2, <2>1, <2>2, <2>3 DEF Spaced
  <2>4. CASE t = Reader
    BY <1>0, <1>1, <1>2, <2>1, <2>2, <2>4 DEF Spaced
  <2> QED BY <2>3, <2>4
<1>6. CASE n' = n /\ \/ pc'[t] \notin {"claim", "move", "publish"}
                     \/ pc[t] \in {"claim", "move", "publish"}
  <2>1. \A u \in Rte!Threads : u # t => pc'[u] = pc[u]
    BY <1>3, OthersRest
  <2> QED BY <1>0, <1>6, <2>1 DEF Spaced
<1> QED BY <1>3, <1>4, <1>5, <1>6 DEF Rte!TypeOK, Rte!Step, Rte!LoadHead, Rte!ReturnFalse, Rte!Claim,
       Rte!LoseClaim, Rte!MoveIn, Rte!MoveOut, Rte!RetryPublish
\* The slot of an index is that of its counter: a whole number of turns.
LEMMA SlotIndex == ASSUME NEW a \in Nat PROVE Rte!Slot(Rte!u32(a)) = a % RteCapacity
<1>1. PICK m \in Nat : /\ \A x : Rte!u32(x) = x % m
                       /\ \E d \in Nat \ {0} : m = d * RteCapacity
  BY IndexValues, Zenon
<1>2. PICK c \in Nat \ {0} : c = RteCapacity
  BY RteAssumption
<1>3. PICK d \in Nat \ {0} : m = d * c
  BY <1>1, <1>2
<1>4. (a % m) % c = a % c
  BY <1>3, RemainderOfRemainder
<1> QED BY <1>1, <1>2, <1>4, Zenon DEF Rte!Slot

\* Elements are moved in and out only between the two sides.
LEMMA MovedBounds ==
    ASSUME RteTypes, Single
    PROVE  /\ n[Reader] \in Nat /\ n[Writer] \in Nat
           /\ Moved(Reader) \in Nat /\ Moved(Writer) \in Nat
           /\ n[Reader] <= Moved(Reader) /\ Moved(Reader) <= n[Writer]
           /\ n[Writer] <= Moved(Writer) /\ Moved(Writer) <= n[Reader] + RteCapacity
<1>1. n[Writer] \in Nat /\ n[Reader] \in Nat
  BY Sides, RteAssumption DEF RteTypes, Rte!TypeOK
<1> QED BY <1>1, RteAssumption DEF Moved, Single, Spaced

\* The writer moves an element into a free slot.
LEMMA MovedIn ==
    ASSUME RteTypes, Single, Rte!MoveIn(Writer)
    PROVE  Stored' /\ Received'
<1> USE DEF Rte!MoveIn, Rte!Goto
<1>1. PICK a, b, c \in Nat : a = n[Writer] /\ b = Moved(Reader) /\ c = RteCapacity /\ c # 0
  BY MovedBounds, RteAssumption
<1>2. b <= a /\ a < b + c /\ Moved(Writer) = a
  BY <1>1, MovedBounds DEF Single, Spaced, Moved
<1>3. Writer \in Rte!Threads /\ Reader \in Rte!Threads /\ Writer # Reader /\ Rte!TypeOK
  BY Sides DEF RteTypes
<1>4. Moved(Writer)' = a + 1 /\ Moved(Reader)' = b
  BY <1>1, <1>3 DEF Moved, Rte!TypeOK
<1>5. a % c \in 0 .. c - 1
  BY <1>1
<1>6. Rte!Slot(old[Writer]) = a % c
  BY <1>1, SlotIndex DEF Single, Counters
<1>7. /\ slots'[a % c] = <<Writer, a>>
      /\ \A j \in 0 .. c - 1 : j # a % c => slots'[j] = slots[j]
  <2>1. PICK j \in 0 .. c - 1 : j = a % c
    BY <1>5
  <2>2. slots' = [slots EXCEPT ![j] = <<Writer, a>>]
    BY <1>1, <1>6, <2>1, Zenon
  <2>3. /\ slots'[j] = <<Writer, a>>
        /\ \A l \in 0 .. c - 1 : l # j => slots'[l] = slots[l]
    BY <1>1, <1>3, <2>2 DEF Rte!TypeOK
  <2> QED BY <2>1, <2>3, Zenon
<1>8. ASSUME NEW k \in Nat, b <= k, k < b + c, k # a
      PROVE  slots'[k % c] = slots[k % c]
  <2>1. k % c \in 0 .. c - 1 /\ c \in Nat \ {0}
    BY <1>1
  <2>2. k % c # a % c
    <3>1. CASE k < a
      <4>1. a < k + c
        BY <1>2, <1>8
      <4> QED BY <2>1, <3>1, <4>1, RemaindersApart
    <3>2. CASE a < k
      <4>1. k < a + c
        BY <1>2, <1>8
      <4> QED BY <2>1, <3>2, <4>1, RemaindersApart
    <3> QED BY <1>8, <3>1, <3>2
  <2> QED BY <1>7, <2>1, <2>2, Zenon
<1>9. Stored'
  <2> SUFFICES ASSUME NEW k \in Nat
               PROVE  /\ b <= k /\ k < a + 1 => slots'[k % c] = <<Writer, k>>
                      /\ a + 1 <= k /\ k < b + c => slots'[k % c] = Raw
    BY <1>1, <1>4, Zenon DEF Stored
  <2>1. /\ b <= k /\ k < a => slots[k % c] = <<Writer, k>>
        /\ a <= k /\ k < b + c => slots[k % c] = Raw
    BY <1>1, <1>2, Zenon DEF Single, Stored
  <2>2. b <= k /\ k < a + 1 => slots'[k % c] = <<Writer, k>>
    <3>1. CASE k = a
      BY <1>7, <3>1, Zenon
    <3>2. CASE b <= k /\ k < a
      <4>1. k < b + c /\ k # a
        BY <1>2, <3>2
      <4> QED BY <1>8, <2>1, <3>2, <4>1, Zenon
    <3>3. b <= k /\ k < a + 1 => k = a \/ k < a
      OBVIOUS
    <3> QED BY <3>1, <3>2, <3>3, Zenon
  <2>3. ASSUME a + 1 <= k, k < b + c PROVE slots'[k % c] = Raw
    <3>1. a <= k /\ b <= k /\ k # a
      BY <1>2, <2>3
    <3> QED BY <1>8, <2>1, <2>3, <3>1, Zenon
  <2> QED BY <2>2, <2>3, Zenon
<1>10. Received'
  BY <1>1, <1>4 DEF Single, Received
<1> QED BY <1>9, <1>10

\* The reader moves out the oldest element.
LEMMA MovedOut ==
    ASSUME RteTypes, Single, Rte!MoveOut(Reader)
    PROVE  /\ Stored' /\ Received'
           /\ got'[Reader] = Append(got[Reader], <<Writer, n[Reader]>>)
           /\ Len(got[Reader]) = n[Reader]
<1> USE DEF Rte!MoveOut, Rte!Goto
<1>1. PICK a, b, c \in Nat : a = Moved(Writer) /\ b = n[Reader] /\ c = RteCapacity /\ c # 0
  BY MovedBounds, RteAssumption
<1>2. b < a /\ a <= b + c /\ Moved(Reader) = b
  BY <1>1, MovedBounds DEF Single, Spaced, Moved
<1>3. Writer \in Rte!Threads /\ Reader \in Rte!Threads /\ Writer # Reader /\ Rte!TypeOK
  BY Sides DEF RteTypes
<1>4. Moved(Writer)' = a /\ Moved(Reader)' = b + 1
  BY <1>1, <1>3 DEF Moved, Rte!TypeOK
<1>5. b % c \in 0 .. c - 1
  BY <1>1
<1>6. Rte!Slot(old[Reader]) = b % c
  BY <1>1, SlotIndex DEF Single, Counters
<1>7. /\ slots'[b % c] = Raw
      /\ \A j \in 0 .. c - 1 : j # b % c => slots'[j] = slots[j]
  <2>1. PICK j \in 0 .. c - 1 : j = b % c
    BY <1>5
  <2>2. slots' = [slots EXCEPT ![j] = Raw]
    BY <1>1, <1>6, <2>1, Zenon
  <2>3. /\ slots'[j] = Raw
        /\ \A l \in 0 .. c - 1 : l # j => slots'[l] = slots[l]
    BY <1>1, <1>3, <2>2 DEF Rte!TypeOK
  <2> QED BY <2>1, <2>3, Zenon
<1>8. ASSUME NEW k \in Nat, b < k, k < b + c
      PROVE  slots'[k % c] = slots[k % c]
  <2>1. k % c \in 0 .. c - 1 /\ c \in Nat \ {0}
    BY <1>1
  <2>2. k % c # b % c
    BY <1>8, <2>1, RemaindersApart
  <2> QED BY <1>7, <2>1, <2>2, Zenon
<1>9. \A k \in Nat : /\ b <= k /\ k < a => slots[k % c] = <<Writer, k>>
                     /\ a <= k /\ k < b + c => slots[k % c] = Raw
  BY <1>1, <1>2, Zenon DEF Single, Stored
<1>10. Stored'
  <2> SUFFICES ASSUME NEW k \in Nat
               PROVE  /\ b + 1 <= k /\ k < a => slots'[k % c] = <<Writer, k>>
                      /\ a <= k /\ k < b + 1 + c => slots'[k % c] = Raw
    BY <1>1, <1>4, Zenon DEF Stored
  <2>1. ASSUME b + 1 <= k, k < a PROVE slots'[k % c] = <<Writer, k>>
    <3>1. b < k /\ b <= k /\ k < b + c
      BY <1>2, <2>1
    <3> QED BY <1>8, <1>9, <2>1, <3>1, Zenon
  <2>2. ASSUME a <= k, k < b + 1 + c PROVE slots'[k % c] = Raw
    <3>1. CASE k = b + c
      <4>1. (b + c) % c = b % c
        BY <1>1, RemainderNext
      <4> QED BY <1>7, <3>1, <4>1, Zenon
    <3>2. CASE k # b + c
      <4>1. b < k /\ k < b + c
        BY <1>2, <2>2, <3>2
      <4> QED BY <1>8, <1>9, <2>2, <4>1, Zenon
    <3> QED BY <3>1, <3>2
  <2> QED BY <2>1, <2>2, Zenon
<1>11. slots[b % c] = <<Writer, b>>
  <2>1. b <= b
    OBVIOUS
  <2> QED BY <1>2, <1>9, <2>1, Zenon
<1>12. got'[Reader] = Append(got[Reader], <<Writer, b>>) /\ Len(got[Reader]) = b
  <2>1. slots[Rte!Slot(old[Reader])] = <<Writer, b>>
    BY <1>6, <1>11, Zenon
  <2>2. got' = [got EXCEPT ![Reader] = Append(@, <<Writer, b>>)]
    BY <2>1, Zenon
  <2> QED BY <1>1, <1>2, <1>3, <2>2, Sides DEF Rte!TypeOK, Single, Received
<1>13. Received'
  <2>1. PICK g \in Seq(Rte!Elements \cup {Raw}) : g = got[Reader]
    BY <1>3, Sides DEF Rte!TypeOK
  <2>2. Len(g) = b /\ \A k \in 1 .. Len(g) : g[k] = <<Writer, k - 1>>
    BY <1>1, <1>2, <2>1, <1>12 DEF Single, Received
  <2>3. /\ Len(Append(g, <<Writer, b>>)) = b + 1
        /\ \A k \in 1 .. b + 1 : Append(g, <<Writer, b>>)[k] = IF k = b + 1 THEN <<Writer, b>> ELSE g[k]
    BY <2>2
  <2>4. \A k \in 1 .. b + 1 : Append(g, <<Writer, b>>)[k] = <<Writer, k - 1>>
    BY <2>2, <2>3
  <2>5. got'[Reader] = Append(g, <<Writer, b>>)
    BY <1>12, <2>1
  <2> QED BY <1>4, <2>3, <2>4, <2>5 DEF Received
<1> QED BY <1>1, <1>10, <1>12, <1>13
\* Single is kept.
LEMMA SingleKept ==
    ASSUME RteTypes, sync_type = "ST", Single, NEW t \in Rte!Threads, Rte!Step(t)
    PROVE  Single'
<1>1. t \in {Writer, Reader} /\ Writer \in Rte!Threads /\ Reader \in Rte!Threads /\ Writer # Reader
  BY SingleThreads, Sides
<1>2. Spaced'
  BY <1>1, SpacedKept
<1>3. Rte!Side(Writer) = "prod" /\ Rte!Side(Reader) = "cons"
  BY Sides
<1>4. Rte!Side(Writer)' = "prod" /\ Rte!Side(Reader)' = "cons"
  BY <1>3 DEF Rte!Side, Writer, Reader, Rte!TheProducer, Rte!TheConsumer
<1>5. Counters(Writer, Rte!Side(Writer)) /\ Counters(Reader, Rte!Side(Reader))
  BY <1>3, Zenon DEF Single
<1>6. Counters(Writer, Rte!Side(Writer))'
  <2>1. CASE t = Writer
    BY <1>1, <1>5, <2>1, CountersKept
  <2>2. CASE t = Reader
    BY <1>1, <1>3, <1>5, <2>2, CountersRest
  <2> QED BY <1>1, <2>1, <2>2
<1>7. Counters(Reader, Rte!Side(Reader))'
  <2>1. CASE t = Reader
    BY <1>1, <1>5, <2>1, CountersKept
  <2>2. CASE t = Writer
    BY <1>1, <1>3, <1>5, <2>2, CountersRest
  <2> QED BY <1>1, <2>1, <2>2
<1>8. Counters(Writer, "prod")' /\ Counters(Reader, "cons")'
  BY <1>4, <1>6, <1>7 DEF Counters, Claims, Writer, Reader, Rte!TheProducer, Rte!TheConsumer
<1>9. Stored' /\ Received'
  <2>1. CASE Rte!MoveIn(t)
    <3>1. t = Writer
      BY <1>1, <2>1, Sides DEF Rte!MoveIn
    <3> QED BY <2>1, <3>1, MovedIn
  <2>2. CASE Rte!MoveOut(t)
    <3>1. t = Reader
      BY <1>1, <2>2, Sides DEF Rte!MoveOut
    <3> QED BY <2>2, <3>1, MovedOut
  <2>3. CASE ~Rte!MoveIn(t) /\ ~Rte!MoveOut(t)
    <3>1. UNCHANGED <<slots, got>>
      BY <2>3 DEF Rte!Step, Rte!LoadHead, Rte!ReturnFalse, Rte!CheckEntries, Rte!Claim,
         Rte!LoseClaim, Rte!Publish, Rte!RetryPublish
    <3>2. Moved(t)' = Moved(t)
      <4>1. Rte!TypeOK /\ n[t] \in Nat
        BY RteAssumption DEF RteTypes, Rte!TypeOK
      <4> QED BY <2>3, <4>1 DEF Moved, Rte!TypeOK, Rte!Goto, Rte!Step, Rte!LoadHead,
             Rte!ReturnFalse, Rte!CheckEntries, Rte!Claim, Rte!LoseClaim, Rte!Publish, Rte!RetryPublish
    <3>3. \A u \in Rte!Threads : u # t => Moved(u)' = Moved(u)
      BY OthersRest DEF Moved
    <3>4. Moved(Writer)' = Moved(Writer) /\ Moved(Reader)' = Moved(Reader)
      BY <1>1, <3>2, <3>3 DEF Moved, Writer, Reader, Rte!TheProducer, Rte!TheConsumer
    <3>5. Stored'
      BY <3>1, <3>4, Zenon DEF Single, Stored, Writer, Rte!TheProducer
    <3>6. Received'
      BY <3>1, <3>4, Zenon DEF Single, Received, Writer, Reader, Rte!TheProducer, Rte!TheConsumer
    <3> QED BY <3>5, <3>6
  <2> QED BY <2>1, <2>2, <2>3
<1> QED BY <1>2, <1>8, <1>9 DEF Single

-----------------------------------------------------------------------------
(* The second ring with RING_SYNC_MT.                                      *)

\* The claims of a side are finitely many, and fewer than the values of an index.
LEMMA ClaimsFit ==
    ASSUME NEW s \in {"prod", "cons"}, NEW S, S \subseteq Team(s) \X (0 .. ItemsMT - 1)
    PROVE  IsFiniteSet(S) /\ Cardinality(S) \in Nat /\ Cardinality(S) < 2^Width
<1>1. PICK T : T = Team(s)
  OBVIOUS
<1>2. IsFiniteSet(T) /\ Cardinality(T) * ItemsMT < 2^Width /\ ItemsMT \in Nat
  BY <1>1, RteAssumption DEF Team
<1>3. PICK I : I = 0 .. ItemsMT - 1
  OBVIOUS
<1>4. IsFiniteSet(I) /\ Cardinality(I) = ItemsMT
  <2>1. 0 \in Int /\ ItemsMT - 1 \in Int
    BY <1>2
  <2>2. /\ IsFiniteSet(0 .. ItemsMT - 1)
        /\ Cardinality(0 .. ItemsMT - 1) = IF 0 > ItemsMT - 1 THEN 0 ELSE (ItemsMT - 1) - 0 + 1
    BY <2>1, FS_Interval
  <2>3. (IF 0 > ItemsMT - 1 THEN 0 ELSE (ItemsMT - 1) - 0 + 1) = ItemsMT
    BY <1>2
  <2> QED BY <1>3, <2>2, <2>3, Zenon
<1>5. IsFiniteSet(T \X I) /\ Cardinality(T \X I) = Cardinality(T) * Cardinality(I)
  BY <1>2, <1>4, FS_Product
<1>6. S \subseteq T \X I
  BY <1>1, <1>3
<1>7. IsFiniteSet(S) /\ Cardinality(S) <= Cardinality(T \X I)
  BY <1>5, <1>6, FS_Subset
<1>8. Cardinality(S) \in Nat
  BY <1>7, FS_CardinalityType
<1>9. Cardinality(T \X I) \in Nat /\ Cardinality(T \X I) = Cardinality(T) * ItemsMT
  BY <1>4, <1>5, FS_CardinalityType
<1>10. PICK m \in Nat : m = 2^Width
  BY IndexValues
<1>11. Cardinality(T \X I) < m
  BY <1>2, <1>9, <1>10, Zenon
<1> QED BY <1>7, <1>8, <1>9, <1>10, <1>11

\* Only the compare_exchange that claims changes what is claimed: by one.
LEMMA ClaimedBy ==
    ASSUME RteTypes, sync_type = "MT", NEW t \in Rte!Threads, Rte!Step(t),
           NEW s \in {"prod", "cons"}
    PROVE  IF Rte!Claim(t) /\ s = Rte!Side(t)
           THEN /\ Claimed(s)' = Claimed(s) \cup {<<t, n[t]>>} /\ <<t, n[t]>> \notin Claimed(s)
                /\ <<t, n[t]>> \in Team(s) \X (0 .. ItemsMT - 1)
           ELSE Claimed(s)' = Claimed(s)
<1>1. /\ Rte!TypeOK /\ \A u \in Rte!Threads : n[u] \in Nat
      /\ Rte!Threads = Producers \cup Consumers
  BY RteAssumption, Sides DEF RteTypes, Rte!TypeOK
<1>2. Team(s) \subseteq Rte!Threads /\ Team(s)' = Team(s) /\ (t \in Team(s) <=> s = Rte!Side(t))
  BY <1>1, Sides DEF Team
<1>3. \A u \in Rte!Threads : u # t => Claims(u)' = Claims(u)
  BY OthersRest DEF Claims
<1>4. CASE Rte!Claim(t)
  <2>1. Claims(t) = n[t] /\ Claims(t)' = n[t] + 1
    BY <1>1, <1>4 DEF Rte!Claim, Rte!Goto, Claims, Rte!TypeOK
  <2>2. n[t] \in 0 .. ItemsMT - 1
    <3>1. n[t] < ItemsMT
      BY <1>4, CallsType DEF RteTypes, Rte!Claim, Rte!Goto
    <3> QED BY <1>1, <3>1, RteAssumption
  <2>3. CASE s = Rte!Side(t)
    <3>1. <<t, n[t]>> \in Team(s) \X (0 .. ItemsMT - 1) /\ <<t, n[t]>> \notin Claimed(s)
      BY <1>2, <2>1, <2>2, <2>3 DEF Claimed
    <3>2. ASSUME NEW c \in Team(s) \X (0 .. ItemsMT - 1)
          PROVE  c[2] < Claims(c[1])' <=> c[2] < Claims(c[1]) \/ c = <<t, n[t]>>
      <4>1. PICK u \in Team(s), k \in 0 .. ItemsMT - 1 : c = <<u, k>>
        OBVIOUS
      <4>2. CASE u # t
        <5>1. Claims(u)' = Claims(u)
          BY <1>2, <1>3, <4>2
        <5> QED BY <4>1, <4>2, <5>1
      <4>3. CASE u = t
        <5>1. k < n[t] + 1 <=> k < n[t] \/ k = n[t]
          BY <2>2
        <5> QED BY <2>1, <4>1, <4>3, <5>1
      <4> QED BY <4>2, <4>3
    <3>3. Claimed(s)' = { c \in Team(s) \X (0 .. ItemsMT - 1) : c[2] < Claims(c[1])' }
      BY <1>2 DEF Claimed
    <3>4. Claimed(s)' = Claimed(s) \cup {<<t, n[t]>>}
      BY <3>1, <3>2, <3>3 DEF Claimed
    <3> QED BY <1>4, <2>3, <3>1, <3>4
  <2>4. CASE s # Rte!Side(t)
    <3>1. \A c \in Team(s) \X (0 .. ItemsMT - 1) : Claims(c[1])' = Claims(c[1])
      BY <1>2, <1>3, <2>4
    <3> QED BY <1>2, <2>4, <3>1 DEF Claimed
  <2> QED BY <2>3, <2>4
<1>5. CASE ~Rte!Claim(t)
  <2>1. Claims(t)' = Claims(t)
    BY <1>1, <1>5 DEF Claims, Rte!TypeOK, Rte!Goto, Rte!Step, Rte!LoadHead, Rte!ReturnFalse,
       Rte!CheckEntries, Rte!LoseClaim, Rte!MoveIn, Rte!MoveOut, Rte!Publish, Rte!RetryPublish
  <2>2. \A c \in Team(s) \X (0 .. ItemsMT - 1) : Claims(c[1])' = Claims(c[1])
    BY <1>2, <1>3, <2>1
  <2> QED BY <1>2, <1>5, <2>2 DEF Claimed
<1> QED BY <1>4, <1>5
\* Several is kept: who claims does so at the head, past every index claimed before.
LEMMA SeveralKept ==
    ASSUME RteTypes, sync_type = "MT", Several, NEW t \in Rte!Threads, Rte!Step(t)
    PROVE  Several'
<1> USE DEF Rte!Goto
<1>1. Rte!TypeOK /\ Rte!Side(t) \in {"prod", "cons"}
  BY DEF RteTypes, Rte!Side
<1>2. \A u \in Rte!Threads : u # t =>
          n'[u] = n[u] /\ pc'[u] = pc[u] /\ old'[u] = old[u] /\ new'[u] = new[u]
  BY OthersRest
<1>3. \A u \in Rte!Threads : Rte!Side(u)' = Rte!Side(u) /\ Rte!Side(u) \in {"prod", "cons"}
  BY DEF Rte!Side
<1>4. CASE Rte!Claim(t)
  <2> USE <1>4 DEF Rte!Claim
  <2>1. PICK s \in {"prod", "cons"} : s = Rte!Side(t)
    BY <1>1
  <2>2. ring[s].head = old[t] /\ new[t] = Rte!u32(old[t] + 1)
    BY <2>1 DEF Rte!CanClaim, Several
  <2>3. PICK S, S1 : S = Claimed(s) /\ S1 = Claimed(s)'
    OBVIOUS
  <2>4. /\ S1 = S \cup {<<t, n[t]>>} /\ <<t, n[t]>> \notin S
        /\ <<t, n[t]>> \in Team(s) \X (0 .. ItemsMT - 1)
    BY <2>1, <2>3, ClaimedBy
  <2>5. S \subseteq Team(s) \X (0 .. ItemsMT - 1)
    BY <2>3 DEF Claimed
  <2>6. S1 \subseteq Team(s) \X (0 .. ItemsMT - 1)
    BY <2>4, <2>5
  <2>7. IsFiniteSet(S) /\ Cardinality(S) \in Nat
    BY <2>5, ClaimsFit
  <2>8. Cardinality(S1) \in Nat /\ Cardinality(S1) < 2^Width
    BY <2>6, ClaimsFit
  <2>9. Cardinality(S1) = Cardinality(S) + 1
    BY <2>4, <2>7, FS_AddElement
  <2>10. PICK h \in Nat : h = Cardinality(S) /\ old[t] = h /\ ring[s].head = h
    BY <2>2, <2>3, <2>7 DEF Several
  <2>11. Rte!u32(h + 1) = h + 1
    <3>1. PICK m \in Nat : m = 2^Width /\ \A x : Rte!u32(x) = x % m
      BY IndexValues, Zenon
    <3>2. h + 1 < m
      BY <2>8, <2>9, <2>10, <3>1
    <3>3. (h + 1) % m = h + 1
      BY <3>2
    <3> QED BY <3>1, <3>3, Zenon
  <2>12. ring'[s].head = h + 1 /\ \A u \in {"prod", "cons"} : u # s => ring'[u] = ring[u]
    BY <1>1, <2>1, <2>2, <2>10, <2>11 DEF Rte!TypeOK
  <2>13. \A u \in {"prod", "cons"} : ring'[u].head = Cardinality(Claimed(u)')
    <3>1. \A u \in {"prod", "cons"} : u # s => Claimed(u)' = Claimed(u)
      BY <2>1, ClaimedBy
    <3>2. ring'[s].head = Cardinality(Claimed(s)')
      BY <2>3, <2>9, <2>10, <2>12
    <3> QED BY <2>12, <3>1, <3>2 DEF Several
  <2>14. pc'[t] = "move" /\ old' = old /\ new' = new
    BY <1>1 DEF Rte!TypeOK
  <2>15. ASSUME NEW u \in Rte!Threads
         PROVE  /\ pc'[u] = "claim" => new'[u] = Rte!u32(old'[u] + 1)
                /\ pc'[u] = "move" => old'[u] < ring'[Rte!Side(u)].head
                /\ pc'[u] = "move" /\ u # t /\ Rte!Side(u) = s => old'[u] # h
    <3>1. CASE u = t
      BY <2>1, <2>10, <2>12, <2>14, <3>1
    <3>2. CASE u # t
      <4>1. pc'[u] = pc[u] /\ (pc[u] = "claim" => new[u] = Rte!u32(old[u] + 1))
        BY <1>2, <3>2 DEF Several
      <4>2. pc[u] = "move" => old[u] < ring[Rte!Side(u)].head
        BY DEF Several
      <4>3. pc[u] = "move" => old[u] < ring'[Rte!Side(u)].head /\ (Rte!Side(u) = s => old[u] # h)
        <5>1. CASE Rte!Side(u) = s
          <6>1. old[u] \in Int
            BY <1>1 DEF Rte!TypeOK, Rte!Index
          <6> QED BY <2>10, <2>12, <4>2, <5>1, <6>1
        <5>2. CASE Rte!Side(u) # s
          BY <1>3, <2>12, <4>2, <5>2
        <5> QED BY <5>1, <5>2
      <4> QED BY <2>14, <3>2, <4>1, <4>3
    <3> QED BY <3>1, <3>2
  <2>16. Rte!ClaimsDistinct'
    <3> SUFFICES ASSUME NEW u \in Rte!Threads, NEW v \in Rte!Threads, u # v,
                        Rte!Side(u) = Rte!Side(v), pc'[u] = "move", pc'[v] = "move"
                 PROVE  old'[u] # old'[v]
      BY <1>3 DEF Rte!ClaimsDistinct
    <3>1. CASE u = t
      BY <2>1, <2>10, <2>14, <2>15, <3>1
    <3>2. CASE v = t
      BY <2>1, <2>10, <2>14, <2>15, <3>2
    <3>3. CASE u # t /\ v # t
      BY <1>2, <2>14, <3>3 DEF Several, Rte!ClaimsDistinct
    <3> QED BY <3>1, <3>2, <3>3
  <2> QED BY <1>3, <2>13, <2>15, <2>16 DEF Several
<1>5. CASE ~Rte!Claim(t)
  <2>1. \A s \in {"prod", "cons"} : Claimed(s)' = Claimed(s)
    BY <1>5, ClaimedBy
  <2>2. \A s \in {"prod", "cons"} : ring'[s].head = ring[s].head
    <3>1. CASE Rte!Publish(t)
      <4>1. ring' = [ring EXCEPT ![Rte!Side(t)].tail = new[t]]
        BY <3>1 DEF Rte!Publish
      <4> QED BY <1>1, <4>1 DEF Rte!TypeOK
    <3>2. CASE ~Rte!Publish(t)
      BY <1>5, <3>2 DEF Rte!Step, Rte!LoadHead, Rte!ReturnFalse, Rte!CheckEntries,
         Rte!LoseClaim, Rte!MoveIn, Rte!MoveOut, Rte!RetryPublish
    <3> QED BY <3>1, <3>2
  <2>3. /\ pc'[t] = "claim" => new'[t] = Rte!u32(old'[t] + 1)
        /\ pc'[t] # "move"
    BY <1>1, <1>5 DEF Rte!TypeOK, Rte!Step, Rte!LoadHead, Rte!ReturnFalse,
       Rte!CheckEntries, Rte!LoseClaim, Rte!MoveIn, Rte!MoveOut, Rte!Publish, Rte!RetryPublish
  <2>4. \A u \in Rte!Threads :
          /\ pc'[u] = "claim" => new'[u] = Rte!u32(old'[u] + 1)
          /\ pc'[u] = "move" => old'[u] < ring'[Rte!Side(u)].head
    BY <1>2, <1>3, <2>2, <2>3 DEF Several
  <2>5. Rte!ClaimsDistinct'
    BY <1>2, <1>3, <2>3 DEF Several, Rte!ClaimsDistinct
  <2> QED BY <1>3, <2>1, <2>2, <2>4, <2>5 DEF Several
<1> QED BY <1>4, <1>5

-----------------------------------------------------------------------------
(* The second ring, for every capacity, number of threads and of calls.    *)

\* Both rings are empty, and no index is claimed.
LEMMA RteInitInv == Rte!Init => RteInv
<1> SUFFICES ASSUME Rte!Init PROVE RteInv
  OBVIOUS
<1> USE DEF Rte!Init
<1>1. PICK m \in Nat : m > RteCapacity /\ Rte!Index = 0 .. m - 1 /\ \A x : Rte!u32(x) = x % m
  BY IndexValues, Zenon
<1>2. 0 \in Rte!Index /\ Rte!u32(0) = 0
  <2>1. 0 % m = 0 /\ 0 \in 0 .. m - 1
    BY <1>1, RteAssumption
  <2> QED BY <1>1, <2>1, Zenon
<1>3. Rte!TypeOK
  <2>1. <<>> \in Seq(Rte!Elements \cup {Raw})
    OBVIOUS
  <2>2. got \in [Consumers -> Seq(Rte!Elements \cup {Raw})]
    BY <2>1
  <2> QED BY <1>2, <2>2, RteAssumption DEF Rte!TypeOK
<1>4. \A t \in Rte!Threads : n[t] = 0 /\ pc[t] = "load"
  OBVIOUS
<1>5. RteTypes
  <2>1. \A t : Rte!Calls(t) \in 0 .. ItemsST + ItemsMT
    BY <1>3, CallsType DEF Rte!TypeOK
  <2> QED BY <1>3, <1>4, <2>1 DEF RteTypes
<1>6. \A t \in Rte!Threads : Claims(t) = 0 /\ Moved(t) = 0
  BY <1>4 DEF Claims, Moved
<1>7. Writer \in Rte!Threads /\ Reader \in Rte!Threads /\ Reader \in Consumers
  BY Sides
<1>8. Single
  <2>1. Counters(Writer, "prod") /\ Counters(Reader, "cons")
    BY <1>2, <1>4, <1>6, <1>7 DEF Counters
  <2>2. Spaced
    BY <1>4, <1>7, RteAssumption DEF Spaced
  <2>3. ASSUME NEW k \in Nat, k < RteCapacity PROVE slots[k % RteCapacity] = Raw
    <3>1. k % RteCapacity \in 0 .. RteCapacity - 1
      BY RteAssumption
    <3> QED BY <3>1
  <2>4. Stored
    <3> SUFFICES ASSUME NEW k \in Nat
                 PROVE  ~(0 <= k /\ k < 0) /\ (k < 0 + RteCapacity => slots[k % RteCapacity] = Raw)
      BY <1>6, <1>7, Zenon DEF Stored
    <3> QED BY <2>3, RteAssumption
  <2>5. Received
    BY <1>6, <1>7 DEF Received
  <2> QED BY <2>1, <2>2, <2>4, <2>5 DEF Single
<1>9. Several
  <2>1. ASSUME NEW s \in {"prod", "cons"} PROVE ring[s].head = Cardinality(Claimed(s))
    <3>1. Team(s) \subseteq Rte!Threads
      BY Sides DEF Team
    <3>2. Claimed(s) = {}
      BY <1>6, <3>1 DEF Claimed
    <3> QED BY <3>2, FS_EmptySet
  <2> QED BY <1>4, <2>1 DEF Several, Rte!ClaimsDistinct
<1> QED BY <1>5, <1>8, <1>9 DEF RteInv

\* RteInv is an inductive invariant of both rings' executions.
LEMMA RteNextInv == ASSUME RteInv, [RingsNext]_<<under_test, vars, rteVars>> PROVE RteInv'
<1>1. CASE UNCHANGED rteVars
  <2>1. RteTypes'
    BY <1>1 DEF rteVars, RteInv, RteTypes, Rte!TypeOK, Rte!Calls
  <2>2. Single => Single'
    BY <1>1 DEF rteVars, Single, Counters, Spaced, Stored, Received, Claims, Moved,
       Writer, Reader, Rte!TheProducer, Rte!TheConsumer
  <2>3. Several => Several'
    BY <1>1 DEF rteVars, Several, Claimed, Claims, Team, Rte!ClaimsDistinct, Rte!Side
  <2> QED BY <1>1, <2>1, <2>2, <2>3 DEF RteInv, rteVars
<1>2. ASSUME NEW t \in Rte!Threads, Rte!Step(t) PROVE RteInv'
  <2>1. RteTypes' /\ sync_type' = sync_type
    BY <1>2, TypesKept, OthersRest DEF RteInv
  <2>2. sync_type = "ST" => Single'
    BY <1>2, SingleKept DEF RteInv
  <2>3. sync_type = "MT" => Several'
    BY <1>2, SeveralKept DEF RteInv
  <2> QED BY <2>1, <2>2, <2>3 DEF RteInv
<1> QED BY <1>1, <1>2 DEF RingsNext, Rte!Next, Rte!vars, rteVars

\* For every capacity, number of threads and of calls: an element is constructed only
\* into free storage and moved out only of storage that holds one, also where the
\* 32-bit indices wrap, and no two threads of a side move at the same index.
THEOREM RteSlotsAreOwned == RingsSpec => []RteSlotOwnership
<1>1. RteInv => RteSlotOwnership
  <2> SUFFICES ASSUME RteInv PROVE RteSlotOwnership
    OBVIOUS
  <2>1. Rte!TypeOK /\ RteTypes
    BY DEF RteInv, RteTypes
  <2>2. ASSUME sync_type = "ST", NEW t \in Rte!Threads, pc[t] = "move"
        PROVE  slots[Rte!Slot(old[t])] = Raw <=> t \in Producers
    <3>1. Single /\ t \in {Writer, Reader}
      BY <2>1, <2>2, SingleThreads DEF RteInv
    <3>2. n[t] \in Nat /\ old[t] = Rte!u32(n[t]) /\ Moved(t) = n[t]
      BY <2>1, <2>2, <3>1, MovedBounds DEF Single, Counters, Moved
    <3>3. Rte!Slot(old[t]) = n[t] % RteCapacity
      BY <3>2, SlotIndex
    <3>4. CASE t = Writer
      <4>1. Moved(Writer) <= n[t] /\ n[t] < Moved(Reader) + RteCapacity
        BY <2>1, <2>2, <3>1, <3>2, <3>4, MovedBounds, RteAssumption DEF Single, Spaced
      <4>2. slots[n[t] % RteCapacity] = Raw
        BY <3>1, <3>2, <4>1, Zenon DEF Single, Stored
      <4> QED BY <3>3, <3>4, <4>2, Sides
    <3>5. CASE t = Reader
      <4>1. Moved(Reader) <= n[t] /\ n[t] < Moved(Writer)
        BY <2>1, <2>2, <3>1, <3>2, <3>5, MovedBounds DEF Single, Spaced
      <4>2. slots[n[t] % RteCapacity] = <<Writer, n[t]>>
        BY <3>1, <3>2, <4>1, Zenon DEF Single, Stored
      <4>3. <<Writer, n[t]>> # Raw
        BY <3>2, Sides, RteAssumption
      <4> QED BY <3>3, <3>5, <4>2, <4>3, Sides
    <3> QED BY <3>1, <3>4, <3>5
  <2>3. Rte!SlotOwnership
    BY <2>1, <2>2 DEF Rte!SlotOwnership
  <2>4. Rte!ClaimsDistinct
    <3>1. CASE sync_type = "MT"
      BY <3>1 DEF RteInv, Several
    <3>2. CASE sync_type = "ST"
      <4>1. \A t \in Rte!Threads : pc[t] = "move" => t \in {Writer, Reader}
        BY <2>1, <3>2, SingleThreads
      <4>2. Rte!Side(Writer) # Rte!Side(Reader)
        BY Sides
      <4> QED BY <4>1, <4>2 DEF Rte!ClaimsDistinct
    <3> QED BY <2>1, <3>1, <3>2 DEF Rte!TypeOK
  <2> QED BY <2>3, <2>4 DEF RteSlotOwnership
<1>2. RingsInit => RteInv
  BY RteInitInv DEF RingsInit
<1> QED BY <1>1, <1>2, RteNextInv, PTL DEF RingsSpec
\* The elements of a writer in the order it pushes them.
LEMMA Numbered ==
    ASSUME NEW w, NEW a \in Nat, NEW q, q = [k \in 1 .. a |-> <<w, k - 1>>]
    PROVE  /\ Len(q) = a /\ \A b \in Nat : b < a => q[b + 1] = <<w, b>>
           /\ [k \in 1 .. a + 1 |-> <<w, k - 1>>] = Append(q, <<w, a>>)
<1>1. q \in Seq({w} \X Nat) /\ Len(q) = a
  OBVIOUS
<1>2. PICK r : r = Append(q, <<w, a>>)
  OBVIOUS
<1>3. DOMAIN r = 1 .. a + 1
  BY <1>1, <1>2
<1>4. \A k \in 1 .. a + 1 : r[k] = <<w, k - 1>>
  <2> SUFFICES ASSUME NEW k \in 1 .. a + 1 PROVE r[k] = <<w, k - 1>>
    OBVIOUS
  <2>1. CASE k = a + 1
    <3>1. r[k] = <<w, a>> /\ k - 1 = a
      BY <1>1, <1>2, <2>1
    <3> QED BY <3>1, Zenon
  <2>2. CASE k \in 1 .. a
    <3>1. r[k] = q[k]
      BY <1>1, <1>2, <2>2
    <3>2. q[k] = <<w, k - 1>>
      BY <2>2
    <3> QED BY <3>1, <3>2, Zenon
  <2> QED BY <2>1, <2>2
<1>5. r = [k \in DOMAIN r |-> r[k]]
  BY <1>1, <1>2
<1>6. r = [k \in 1 .. a + 1 |-> <<w, k - 1>>]
  BY <1>3, <1>4, <1>5, Zenon
<1>7. ASSUME NEW b \in Nat, b < a PROVE q[b + 1] = <<w, b>>
  <2>1. PICK j \in 1 .. a : j = b + 1 /\ j - 1 = b
    BY <1>7
  <2>2. q[j] = <<w, j - 1>>
    OBVIOUS
  <2> QED BY <2>1, <2>2, Zenon
<1> QED BY <1>1, <1>2, <1>6, <1>7, Zenon

\* With RING_SYNC_ST the second ring is a FIFO of its capacity: push() takes effect
\* where it publishes the tail, pop() where it moves the element out.
THEOREM RteRingIsFifo == RingsSpec => RteIsFifo
<1> DEFINE sent == IF sync_type = "ST" THEN [k \in 1 .. n[Writer] |-> <<Writer, k - 1>>] ELSE <<>>
           rcvd == IF sync_type = "ST" THEN got[Reader] ELSE <<>>
<1>1. RingsInit => Rte!Fifo!FifoInit
  <2> SUFFICES ASSUME RingsInit PROVE Rte!Fifo!FifoInit
    OBVIOUS
  <2>1. n[Writer] = 0 /\ got[Reader] = <<>>
    BY Sides DEF RingsInit, Rte!Init
  <2>2. [k \in 1 .. n[Writer] |-> <<Writer, k - 1>>] = <<>>
    BY <2>1
  <2> QED BY <2>1, <2>2 DEF Rte!Fifo!FifoInit, Writer, Reader
<1>2. ASSUME RteInv, [RingsNext]_<<under_test, vars, rteVars>>
      PROVE  [Rte!Fifo!FifoNext]_(Rte!Fifo!fifoVars)
  <2>1. CASE sent' = sent /\ rcvd' = rcvd
    BY <2>1 DEF Rte!Fifo!fifoVars, Writer, Reader, Rte!TheProducer, Rte!TheConsumer
  <2>2. CASE UNCHANGED rteVars
    BY <2>1, <2>2 DEF rteVars, Writer, Reader, Rte!TheProducer, Rte!TheConsumer
  <2>3. CASE sync_type # "ST" /\ sync_type' = sync_type
    BY <2>1, <2>3
  <2>4. ASSUME NEW t \in Rte!Threads, Rte!Step(t), sync_type = "ST"
        PROVE  [Rte!Fifo!FifoNext]_(Rte!Fifo!fifoVars)
    <3>1. RteTypes /\ Single /\ t \in {Writer, Reader} /\ sync_type' = "ST"
      BY <1>2, <2>4, SingleThreads, OthersRest DEF RteInv
    <3>2. Writer \in Rte!Threads /\ Reader \in Rte!Threads /\ Writer # Reader /\ Rte!TypeOK
      BY <3>1, Sides DEF RteTypes
    <3>3. PICK a, b, c \in Nat : a = n[Writer] /\ b = Moved(Reader) /\ c = RteCapacity
      BY <3>1, MovedBounds, RteAssumption
    <3>0. PICK q, r : q = sent /\ r = rcvd
      OBVIOUS
    <3>4. /\ Len(r) = b /\ b <= a /\ r = got[Reader]
          /\ q = [k \in 1 .. a |-> <<Writer, k - 1>>]
      BY <2>4, <3>0, <3>1, <3>3, MovedBounds DEF Single, Received
    <3>8. /\ Len(q) = a /\ (b < a => q[b + 1] = <<Writer, b>>)
          /\ [k \in 1 .. a + 1 |-> <<Writer, k - 1>>] = Append(q, <<Writer, a>>)
      BY <3>4, Numbered
    <3>5. CASE Rte!Publish(Writer)
      <4>1. n'[Writer] = a + 1 /\ got' = got /\ pc[Writer] = "publish"
        BY <3>2, <3>3, <3>5 DEF Rte!Publish, Rte!Goto, Rte!TypeOK
      <4>2. n[Writer] < n[Reader] + RteCapacity
        BY <3>1, <4>1 DEF Single, Spaced
      <4>3. n[Reader] <= b /\ n[Reader] \in Nat
        BY <3>1, <3>3, MovedBounds
      <4>8. Writer' = Writer /\ Reader' = Reader
        BY DEF Writer, Reader, Rte!TheProducer, Rte!TheConsumer
      <4>9. sent' = [k \in 1 .. a + 1 |-> <<Writer, k - 1>>] /\ rcvd' = r
        BY <2>4, <3>0, <3>1, <4>1, <4>8, Zenon
      <4>4. sent' = Append(q, <<Writer, a>>) /\ rcvd' = r
        BY <3>8, <4>9, Zenon
      <4>5. <<Writer, a>> \in Rte!Elements
        BY <3>2, <3>3, Sides DEF Rte!Elements, Rte!TypeOK
      <4>6. Len(q) - Len(r) < RteCapacity
        BY <3>3, <3>4, <3>8, <4>2, <4>3
      <4>7. Rte!Fifo!Put(<<Writer, a>>)
        BY <3>0, <4>4, <4>6, Zenon DEF Rte!Fifo!Put, Writer, Reader
      <4> QED BY <4>5, <4>7 DEF Rte!Fifo!FifoNext
    <3>6. CASE Rte!MoveOut(Reader)
      <4>1. got'[Reader] = Append(got[Reader], <<Writer, n[Reader]>>) /\ Len(got[Reader]) = n[Reader]
        BY <3>1, <3>6, MovedOut
      <4>2. n' = n /\ n[Reader] = b /\ pc[Reader] = "move"
        BY <3>4, <3>6, <4>1 DEF Rte!MoveOut, Rte!Goto
      <4>3. b < a
        BY <3>1, <3>3, <4>2 DEF Single, Spaced
      <4>6. rcvd' = Append(r, <<Writer, b>>) /\ sent' = q
        BY <2>4, <3>0, <3>1, <3>4, <4>1, <4>2 DEF Writer, Reader, Rte!TheProducer, Rte!TheConsumer
      <4>4. rcvd' = Append(r, q[Len(r) + 1]) /\ Len(r) < Len(q)
        BY <3>4, <3>8, <4>3, <4>6, Zenon
      <4>5. Rte!Fifo!Get
        BY <3>0, <4>4, <4>6, Zenon DEF Rte!Fifo!Get, Writer, Reader
      <4> QED BY <4>5 DEF Rte!Fifo!FifoNext
    <3>7. CASE ~Rte!Publish(Writer) /\ ~Rte!MoveOut(Reader)
      <4>1. n'[Writer] = n[Writer]
        <5>1. CASE t = Writer
          BY <2>4, <3>7, <5>1 DEF Rte!Step, Rte!LoadHead, Rte!ReturnFalse, Rte!CheckEntries,
             Rte!Claim, Rte!LoseClaim, Rte!MoveIn, Rte!MoveOut, Rte!RetryPublish
        <5>2. CASE t # Writer
          BY <2>4, <3>1, <3>2, <5>2, OthersRest
        <5> QED BY <5>1, <5>2
      <4>2. got'[Reader] = got[Reader]
        <5>1. ~Rte!MoveOut(t)
          BY <3>1, <3>7, Sides DEF Rte!MoveOut
        <5> QED BY <2>4, <5>1 DEF Rte!Step, Rte!LoadHead, Rte!ReturnFalse, Rte!CheckEntries,
               Rte!Claim, Rte!LoseClaim, Rte!MoveIn, Rte!Publish, Rte!RetryPublish
      <4> QED BY <2>1, <2>4, <3>1, <4>1, <4>2 DEF Writer, Reader, Rte!TheProducer, Rte!TheConsumer
    <3> QED BY <3>5, <3>6, <3>7
  <2>5. CASE \E t \in Rte!Threads : Rte!Step(t)
    <3>1. PICK t \in Rte!Threads : Rte!Step(t)
      BY <2>5
    <3>2. sync_type' = sync_type
      BY <1>2, <3>1, OthersRest DEF RteInv
    <3> QED BY <2>3, <2>4, <3>1, <3>2
  <2> QED BY <1>2, <2>2, <2>5 DEF RingsNext, Rte!Next, Rte!vars, rteVars
<1>3. RingsInit => RteInv
  BY RteInitInv DEF RingsInit
<1> QED BY <1>1, <1>2, <1>3, RteNextInv, PTL DEF RingsSpec, RteIsFifo, Rte!IsFifo, Rte!Fifo!FifoSpec
=============================================================================
