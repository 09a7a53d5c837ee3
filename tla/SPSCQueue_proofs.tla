-------------------------- MODULE SPSCQueue_proofs --------------------------
(***************************************************************************)
(* For every capacity, counter width and set of values: the ring of module *)
(* SPSCQueue keeps its counters in order, never lets its two threads into  *)
(* the same slot, and implements the bounded FIFO queue of BoundedFifo.    *)
(***************************************************************************)
EXTENDS SPSCQueue, TLAPS

\* Counter arithmetic: what % Modulus does to counters, case by case.
LEMMA ModulusFacts ==
  Capacity \in Nat /\ Capacity >= 2 /\ Modulus \in Nat /\ Modulus >= 2 * Capacity
PROOF
<1>1. PICK laps \in 2..Modulus : Modulus = laps * Capacity
  BY QueueAssumption
<1>2. laps * Capacity >= 2 * Capacity
  BY <1>1, QueueAssumption
<1> QED
  BY <1>1, <1>2, QueueAssumption

LEMMA IncFact ==
  ASSUME NEW x \in Counter
  PROVE  /\ Inc(x) = IF x + 1 = Modulus THEN 0 ELSE x + 1
         /\ Inc(x) \in Counter
BY ModulusFacts DEF Inc, Counter

LEMMA DiffFact ==
  ASSUME NEW x \in Counter, NEW y \in Counter
  PROVE  /\ Diff(x, y) = IF x >= y THEN x - y ELSE x - y + Modulus
         /\ Diff(x, y) \in Counter
BY ModulusFacts DEF Diff, Counter

LEMMA SeenFact ==
  ASSUME NEW x \in Counter, NEW d \in Counter
  PROVE  /\ Seen(x, d) = IF x + d < Modulus THEN x + d ELSE x + d - Modulus
         /\ Seen(x, d) \in Counter
BY ModulusFacts DEF Seen, Counter

\* How a distance changes when one of its ends moves.
LEMMA DiffZero ==
  ASSUME NEW x \in Counter, NEW y \in Counter
  PROVE  Diff(x, y) = 0 <=> x = y
PROOF
<1>1. Diff(x, y) = IF x >= y THEN x - y ELSE x - y + Modulus
  BY DiffFact
<1> QED
  BY <1>1, ModulusFacts DEF Counter

LEMMA DiffAdd ==
  ASSUME NEW x \in Counter, NEW y \in Counter, NEW z \in Counter,
         Diff(x, y) + Diff(y, z) < Modulus
  PROVE  Diff(x, z) = Diff(x, y) + Diff(y, z)
PROOF
<1>1. Diff(x, y) = IF x >= y THEN x - y ELSE x - y + Modulus
  BY DiffFact
<1>2. Diff(y, z) = IF y >= z THEN y - z ELSE y - z + Modulus
  BY DiffFact
<1>3. Diff(x, z) = IF x >= z THEN x - z ELSE x - z + Modulus
  BY DiffFact
<1> QED
  BY <1>1, <1>2, <1>3, ModulusFacts DEF Counter

LEMMA DiffIncHigh ==
  ASSUME NEW x \in Counter, NEW y \in Counter, Diff(x, y) + 1 < Modulus
  PROVE  Diff(Inc(x), y) = Diff(x, y) + 1
PROOF
<1>1. Diff(x, y) = IF x >= y THEN x - y ELSE x - y + Modulus
  BY DiffFact
<1>2. Inc(x) = (IF x + 1 = Modulus THEN 0 ELSE x + 1) /\ Inc(x) \in Counter
  BY IncFact
<1>3. Diff(Inc(x), y) = IF Inc(x) >= y THEN Inc(x) - y ELSE Inc(x) - y + Modulus
  BY <1>2, DiffFact
<1> QED
  BY <1>1, <1>2, <1>3, ModulusFacts DEF Counter

LEMMA DiffIncLow ==
  ASSUME NEW x \in Counter, NEW y \in Counter, x # y
  PROVE  Diff(x, Inc(y)) = Diff(x, y) - 1
PROOF
<1>1. Diff(x, y) = IF x >= y THEN x - y ELSE x - y + Modulus
  BY DiffFact
<1>2. Inc(y) = (IF y + 1 = Modulus THEN 0 ELSE y + 1) /\ Inc(y) \in Counter
  BY IncFact
<1>3. Diff(x, Inc(y)) = IF x >= Inc(y) THEN x - Inc(y) ELSE x - Inc(y) + Modulus
  BY <1>2, DiffFact
<1> QED
  BY <1>1, <1>2, <1>3, ModulusFacts DEF Counter

\* A load that catches up by d with a counter x last seen as y.
LEMMA SeenBetween ==
  ASSUME NEW x \in Counter, NEW y \in Counter, NEW d \in 0..Diff(x, y)
  PROVE  /\ Seen(y, d) \in Counter
         /\ Diff(x, Seen(y, d)) = Diff(x, y) - d
         /\ Diff(Seen(y, d), y) = d
PROOF
<1>1. /\ Diff(x, y) = IF x >= y THEN x - y ELSE x - y + Modulus
      /\ Diff(x, y) \in Counter
  BY DiffFact
<1>2. d \in Counter
  BY <1>1, ModulusFacts DEF Counter
<1>3. /\ Seen(y, d) = IF y + d < Modulus THEN y + d ELSE y + d - Modulus
      /\ Seen(y, d) \in Counter
  BY <1>2, SeenFact
<1>4. Diff(x, Seen(y, d)) =
        IF x >= Seen(y, d) THEN x - Seen(y, d) ELSE x - Seen(y, d) + Modulus
  BY <1>3, DiffFact
<1>5. Diff(Seen(y, d), y) =
        IF Seen(y, d) >= y THEN Seen(y, d) - y ELSE Seen(y, d) - y + Modulus
  BY <1>3, DiffFact
<1> QED
  BY <1>1, <1>2, <1>3, <1>4, <1>5, ModulusFacts DEF Counter

\* Slot arithmetic: Capacity divides Modulus, so wrapping a counter does not
\* change its slot, and positions less than Capacity apart are in different
\* slots.
LEMMA IndexRange ==
  ASSUME NEW x \in Nat
  PROVE  Index(x) \in Slot
BY ModulusFacts DEF Index, Slot

LEMMA IndexUnique ==
  ASSUME NEW a \in Nat, NEW b \in Nat, b < a, a < b + Capacity
  PROVE  Index(a) # Index(b)
PROOF
<1> SUFFICES ASSUME Index(a) = Index(b) PROVE FALSE
  OBVIOUS
<1> DEFINE qa == a \div Capacity
           qb == b \div Capacity
<1>1. a = Capacity * qa + Index(a) /\ qa \in Int /\ Index(a) \in Int
  BY ModulusFacts DEF Index
<1>2. b = Capacity * qb + Index(b) /\ qb \in Int /\ Index(b) \in Int
  BY ModulusFacts DEF Index
<1> HIDE DEF qa, qb
<1>3. Capacity * qa - Capacity * qb = Capacity * (qa - qb)
  BY <1>1, <1>2, ModulusFacts
<1>4. a - b = Capacity * (qa - qb)
  BY <1>1, <1>2, <1>3, ModulusFacts
<1>5. 0 < Capacity * (qa - qb) /\ Capacity * (qa - qb) < Capacity
  BY <1>4, ModulusFacts
<1>6. qa - qb \in Int
  BY <1>1, <1>2
<1>7. ASSUME NEW k \in Int, 0 < Capacity * k, Capacity * k < Capacity
      PROVE  FALSE
  BY <1>7, ModulusFacts
<1> QED
  BY <1>5, <1>6, <1>7

LEMMA IndexWrap ==
  ASSUME NEW x \in Nat
  PROVE  Index(x + Modulus) = Index(x)
PROOF
<1>1. PICK laps \in 2..Modulus : Modulus = laps * Capacity
  BY QueueAssumption
<1> DEFINE q == x \div Capacity
<1>2. x = Capacity * q + Index(x) /\ q \in Int /\ Index(x) \in 0..(Capacity - 1)
  BY ModulusFacts DEF Index
<1> HIDE DEF q
<1>3. x + Modulus = Capacity * (q + laps) + Index(x)
  BY <1>1, <1>2, ModulusFacts
<1>4. ASSUME NEW k \in Int, NEW r \in 0..(Capacity - 1)
      PROVE  (Capacity * k + r) % Capacity = r
  BY ModulusFacts
<1>5. q + laps \in Int
  BY <1>1, <1>2
<1> QED
  BY <1>2, <1>3, <1>4, <1>5 DEF Index

-----------------------------------------------------------------------------
(* Counters in order, threads in different slots *)

\* Type correctness: the counters stay counters, a slot holds a queued value
\* or nothing, in every step of try_push and try_pop.
THEOREM TypeCorrect == Spec => []TypeOK
PROOF
<1>1. Init => TypeOK
  BY ModulusFacts DEF Init, TypeOK, Counter, Slot
<1>2. TypeOK /\ [Next]_vars => TypeOK'
  <2> SUFFICES ASSUME TypeOK, [Next]_vars PROVE TypeOK'
    OBVIOUS
  <2> USE DEF TypeOK, ring, producer, consumer
  <2>0. ASSUME NEW x \in Counter, NEW y \in Counter, NEW d \in 0..Diff(x, y)
        PROVE  Seen(y, d) \in Counter
    BY <2>0, SeenBetween
  <2>1. CASE PushFull
    BY <2>1, <2>0 DEF PushFull
  <2>2. ASSUME NEW v \in Values, PushAdmit(v) PROVE TypeOK'
    BY <2>2, <2>0 DEF PushAdmit
  <2>3. CASE PushCopy
    BY <2>3, IndexRange DEF PushCopy, Counter
  <2>4. CASE PushPublish
    BY <2>4, IncFact DEF PushPublish
  <2>5. CASE PopEmpty
    BY <2>5, <2>0 DEF PopEmpty
  <2>6. CASE PopAdmit
    BY <2>6, <2>0 DEF PopAdmit
  <2>7. CASE PopCopy
    BY <2>7, IndexRange DEF PopCopy, Counter
  <2>8. CASE PopRelease
    BY <2>8, IncFact DEF PopRelease
  <2>9. CASE UNCHANGED vars
    BY <2>9 DEF vars
  <2> QED
    BY <2>1, <2>2, <2>3, <2>4, <2>5, <2>6, <2>7, <2>8, <2>9 DEF Next, Push, Pop
<1> QED
  BY <1>1, <1>2, PTL DEF Spec

\* The counters and the views of them stay in order, in every interleaving
\* and with every staleness of the acquire loads.
THEOREM CursorsOrdered == Spec => []CursorOrder
PROOF
<1>1. Init => CursorOrder
  <2> SUFFICES ASSUME Init PROVE CursorOrder
    OBVIOUS
  <2>1. 0 \in Counter
    BY ModulusFacts DEF Counter
  <2> QED
    BY <2>1, DiffZero, ModulusFacts DEF Init, CursorOrder
<1>2. TypeOK /\ CursorOrder /\ [Next]_vars => CursorOrder'
  <2> SUFFICES ASSUME TypeOK, CursorOrder, [Next]_vars PROVE CursorOrder'
    OBVIOUS
  <2> USE ModulusFacts DEF CursorOrder, Full, ring, producer, consumer
  <2>0. /\ head \in Counter /\ tail \in Counter
        /\ pTail \in Counter /\ cHead \in Counter
        /\ Diff(tail, pTail) \in Nat /\ Diff(cHead, tail) \in Nat
        /\ Diff(head, cHead) \in Nat /\ Diff(head, pTail) \in Nat
    BY DiffFact DEF TypeOK, Counter
  <2>1. CASE PushFull
    BY <2>1, <2>0, SeenBetween DEF PushFull
  <2>2. ASSUME NEW v \in Values, PushAdmit(v) PROVE CursorOrder'
    <3>1. PICK d \in 0..Diff(tail, pTail) :
            ~Full(Seen(pTail, d)) /\ pTail' = Seen(pTail, d)
      BY <2>2 DEF PushAdmit
    <3>2. Diff(tail, pTail') = Diff(tail, pTail) - d
      BY <3>1, <2>0, SeenBetween
    <3> QED
      BY <2>2, <2>0, <3>1, <3>2 DEF PushAdmit
  <2>3. CASE PushCopy
    BY <2>3 DEF PushCopy
  <2>4. CASE PushPublish
    <3>1. head' = Inc(head) /\ UNCHANGED <<tail, pTail, cHead, cPc>> /\ pPc' = "idle"
      BY <2>4 DEF PushPublish
    <3>2. Diff(head, pTail) < Capacity
      BY <2>4, <2>0 DEF PushPublish
    <3>3. Diff(cHead, pTail) = Diff(cHead, tail) + Diff(tail, pTail)
      BY <2>0, DiffAdd
    <3>4. Diff(head, pTail) = Diff(head, cHead) + Diff(cHead, pTail)
      BY <2>0, <3>3, DiffAdd
    <3>5. Diff(Inc(head), cHead) = Diff(head, cHead) + 1
      BY <2>0, <3>2, <3>3, <3>4, DiffIncHigh
    <3> QED
      BY <2>0, <3>1, <3>2, <3>3, <3>4, <3>5
  <2>5. CASE PopEmpty
    <3>1. PICK d \in 0..Diff(head, cHead) :
            Seen(cHead, d) = tail /\ cHead' = Seen(cHead, d)
      BY <2>5 DEF PopEmpty
    <3>2. /\ Diff(head, cHead') = Diff(head, cHead) - d
          /\ Diff(cHead', cHead) = d
          /\ cHead' \in Counter
      BY <3>1, <2>0, SeenBetween
    <3>3. Diff(cHead', tail) = Diff(cHead', cHead) + Diff(cHead, tail)
      BY <2>0, <3>1, <3>2, DiffAdd
    <3> QED
      BY <2>5, <2>0, <3>1, <3>2, <3>3 DEF PopEmpty
  <2>6. CASE PopAdmit
    <3>1. PICK d \in 0..Diff(head, cHead) :
            Seen(cHead, d) # tail /\ cHead' = Seen(cHead, d)
      BY <2>6 DEF PopAdmit
    <3>2. /\ Diff(head, cHead') = Diff(head, cHead) - d
          /\ Diff(cHead', cHead) = d
          /\ cHead' \in Counter
      BY <3>1, <2>0, SeenBetween
    <3>3. Diff(cHead', tail) = Diff(cHead', cHead) + Diff(cHead, tail)
      BY <2>0, <3>1, <3>2, DiffAdd
    <3> QED
      BY <2>6, <2>0, <3>1, <3>2, <3>3 DEF PopAdmit
  <2>7. CASE PopCopy
    BY <2>7 DEF PopCopy
  <2>8. CASE PopRelease
    <3>1. tail' = Inc(tail) /\ UNCHANGED <<head, pTail, cHead, pPc>> /\ cPc' = "idle"
      BY <2>8 DEF PopRelease
    <3>2. cHead # tail /\ Diff(cHead, tail) > 0
      BY <2>8, <2>0, DiffZero DEF PopRelease
    <3>3. Diff(cHead, Inc(tail)) = Diff(cHead, tail) - 1
      BY <3>2, <2>0, DiffIncLow
    <3>4. Diff(Inc(tail), pTail) = Diff(tail, pTail) + 1
      BY <3>2, <2>0, DiffIncHigh
    <3> QED
      BY <2>0, <3>1, <3>2, <3>3, <3>4
  <2>9. CASE UNCHANGED vars
    BY <2>9 DEF vars
  <2> QED
    BY <2>1, <2>2, <2>3, <2>4, <2>5, <2>6, <2>7, <2>8, <2>9 DEF Next, Push, Pop
<1> QED
  BY <1>1, <1>2, TypeCorrect, PTL DEF Spec

\* The producer and the consumer are never inside the same slot.
THEOREM RaceFreedom == Spec => []NoDataRace
PROOF
<1>1. TypeOK /\ CursorOrder => NoDataRace
  <2> SUFFICES ASSUME TypeOK, CursorOrder, pPc = "copy", cPc = "copy"
               PROVE  Index(head) # Index(tail)
    BY DEF NoDataRace
  <2>1. Diff(head, tail) > 0 /\ Diff(head, tail) < Capacity
    <3>1. /\ head \in Counter /\ tail \in Counter
          /\ pTail \in Counter /\ cHead \in Counter
          /\ Diff(tail, pTail) \in Nat /\ Diff(cHead, tail) \in Nat
          /\ Diff(head, cHead) \in Nat /\ Diff(head, pTail) \in Nat
      BY DiffFact DEF TypeOK, Counter
    <3>2. Diff(head, tail) = Diff(head, cHead) + Diff(cHead, tail)
      BY <3>1, DiffAdd, ModulusFacts DEF CursorOrder
    <3>3. Diff(head, pTail) = Diff(head, tail) + Diff(tail, pTail)
      BY <3>1, <3>2, DiffAdd, ModulusFacts DEF CursorOrder
    <3>4. Diff(cHead, tail) > 0
      BY <3>1, DiffZero DEF CursorOrder
    <3> QED
      BY <3>1, <3>2, <3>3, <3>4, ModulusFacts DEF CursorOrder, Full
  <2>2. CASE head >= tail
    BY <2>1, <2>2, DiffFact, IndexUnique, ModulusFacts DEF TypeOK, Counter
  <2>3. CASE head < tail
    <3>1. Index(head + Modulus) # Index(tail)
      BY <2>1, <2>3, DiffFact, IndexUnique, ModulusFacts DEF TypeOK, Counter
    <3> QED
      BY <3>1, IndexWrap DEF TypeOK, Counter
  <2> QED
    BY <2>2, <2>3 DEF TypeOK, Counter
<1> QED
  BY <1>1, TypeCorrect, CursorsOrdered, PTL

-----------------------------------------------------------------------------
(* The ring is a FIFO queue *)

Stored == Values \cup {NoValue}

\* Sequences written as functions on 1..n.
LEMMA SeqAppend ==
  ASSUME NEW n \in Nat, NEW f \in [1..(n + 1) -> Stored]
  PROVE  /\ Len([i \in 1..n |-> f[i]]) = n
         /\ Append([i \in 1..n |-> f[i]], f[n + 1]) = f
PROOF
<1> DEFINE g == [i \in 1..n |-> f[i]]
<1>1. g \in Seq(Stored) /\ Len(g) = n
  OBVIOUS
<1>2. f \in Seq(Stored) /\ Len(f) = n + 1
  OBVIOUS
<1>3. Append(g, f[n + 1]) \in Seq(Stored) /\ Len(Append(g, f[n + 1])) = n + 1
  BY <1>1
<1>4. \A i \in 1..(n + 1) : Append(g, f[n + 1])[i] = f[i]
  BY <1>1
<1> QED
  BY <1>1, <1>2, <1>3, <1>4

LEMMA SeqTail ==
  ASSUME NEW n \in Nat, n > 0, NEW f \in [1..n -> Stored]
  PROVE  f # << >> /\ Head(f) = f[1] /\ Tail(f) = [i \in 1..(n - 1) |-> f[i + 1]]
PROOF
<1> DEFINE g == [i \in 1..(n - 1) |-> f[i + 1]]
<1>1. f \in Seq(Stored) /\ Len(f) = n
  OBVIOUS
<1>2. g \in Seq(Stored) /\ Len(g) = n - 1
  OBVIOUS
<1>3. Tail(f) \in Seq(Stored) /\ Len(Tail(f)) = n - 1
  BY <1>1
<1>4. \A i \in 1..(n - 1) : Tail(f)[i] = g[i]
  BY <1>1, <1>2
<1>5. f # << >> /\ Head(f) = f[1]
  BY <1>1
<1>6. Tail(f) = g
  <2> HIDE DEF g
  <2> QED
    BY <1>2, <1>3, <1>4
<1> QED
  BY <1>5, <1>6

\* The slots of the queued positions: they are not the slot of the next push
\* while the ring is not full, which is the slot right after the last one.
LEMMA QueuedSlots ==
  ASSUME NEW h \in Counter, NEW f \in Counter, Diff(h, f) < Capacity
  PROVE  /\ \A i \in 1..Diff(h, f) : Index(f + i - 1) # Index(h)
         /\ Index(f + Diff(h, f)) = Index(h)
PROOF
<1>1. Diff(h, f) = (IF h >= f THEN h - f ELSE h - f + Modulus) /\ Diff(h, f) \in Counter
  BY DiffFact
<1>2. h \in Nat /\ f \in Nat /\ Diff(h, f) \in Nat
  BY <1>1 DEF Counter
<1>3. CASE h >= f
  <2>1. ASSUME NEW i \in 1..Diff(h, f) PROVE Index(f + i - 1) # Index(h)
    <3>1. f + i - 1 \in Nat /\ f + i - 1 < h /\ h < (f + i - 1) + Capacity
      BY <1>1, <1>2, <1>3, ModulusFacts
    <3> QED
      BY <3>1, <1>2, IndexUnique
  <2>2. f + Diff(h, f) = h
    BY <1>1, <1>2, <1>3
  <2> QED
    BY <2>1, <2>2
<1>4. CASE h < f
  <2>1. ASSUME NEW i \in 1..Diff(h, f) PROVE Index(f + i - 1) # Index(h)
    <3>1. /\ f + i - 1 \in Nat /\ h + Modulus \in Nat
          /\ f + i - 1 < h + Modulus /\ h + Modulus < (f + i - 1) + Capacity
      BY <1>1, <1>2, <1>4, ModulusFacts
    <3>2. Index(h + Modulus) # Index(f + i - 1)
      BY <3>1, IndexUnique
    <3> QED
      BY <3>2, <1>2, IndexWrap
  <2>2. f + Diff(h, f) = h + Modulus
    BY <1>1, <1>2, <1>4, ModulusFacts
  <2> QED
    BY <2>1, <2>2, <1>2, IndexWrap
<1> QED
  BY <1>2, <1>3, <1>4

\* Stepping over the first queued position, also at the counter's wrap-around.
LEMMA SteppedSlots ==
  ASSUME NEW t \in Counter, NEW i \in Nat, i >= 1
  PROVE  Index(Inc(t) + i - 1) = Index(t + (i + 1) - 1)
PROOF
<1>1. Inc(t) = IF t + 1 = Modulus THEN 0 ELSE t + 1
  BY IncFact
<1>2. CASE t + 1 = Modulus
  <2>1. Inc(t) + i - 1 = i - 1 /\ t + (i + 1) - 1 = (i - 1) + Modulus /\ i - 1 \in Nat
    BY <1>1, <1>2, ModulusFacts DEF Counter
  <2> QED
    BY <2>1, IndexWrap
<1>3. CASE t + 1 # Modulus
  <2>1. Inc(t) + i - 1 = t + (i + 1) - 1
    BY <1>1, <1>3, ModulusFacts DEF Counter
  <2> QED
    BY <2>1
<1> QED
  BY <1>2, <1>3

\* What the producer has written and not yet published.
PendingValue ==
  /\ pPc # "idle" => pVal \in Values
  /\ pPc = "publish" => slots[Index(head)] = pVal

\* A value copied but not published is in its slot.
LEMMA PendingValueInvariant == Spec => []PendingValue
PROOF
<1>1. Init => PendingValue
  BY DEF Init, PendingValue
<1>2. TypeOK /\ PendingValue /\ [Next]_vars => PendingValue'
  <2> SUFFICES ASSUME TypeOK, PendingValue, [Next]_vars PROVE PendingValue'
    OBVIOUS
  <2> USE DEF PendingValue, ring, producer, consumer
  <2>1. CASE PushFull
    BY <2>1 DEF PushFull
  <2>2. ASSUME NEW v \in Values, PushAdmit(v) PROVE PendingValue'
    BY <2>2 DEF PushAdmit
  <2>3. CASE PushCopy
    BY <2>3, IndexRange DEF PushCopy, TypeOK, Counter
  <2>4. CASE PushPublish
    BY <2>4 DEF PushPublish
  <2>5. CASE Pop
    BY <2>5 DEF Pop, PopEmpty, PopAdmit, PopCopy, PopRelease
  <2>6. CASE UNCHANGED vars
    BY <2>6 DEF vars
  <2> QED
    BY <2>1, <2>2, <2>3, <2>4, <2>5, <2>6 DEF Next, Push
<1> QED
  BY <1>1, <1>2, TypeCorrect, PTL DEF Spec

\* The length of the queue, from the order of the counters.
LEMMA QueueLength ==
  ASSUME TypeOK, CursorOrder
  PROVE  /\ head \in Counter /\ tail \in Counter /\ FirstPos \in Counter
         /\ Diff(head, tail) \in 0..Capacity
         /\ Diff(head, FirstPos) =
              IF cPc = "release" THEN Diff(head, tail) - 1 ELSE Diff(head, tail)
         /\ Diff(head, FirstPos) \in 0..Capacity
         /\ cPc # "idle" => Diff(head, tail) > 0
         /\ pPc # "idle" => Diff(head, tail) < Capacity
PROOF
<1>1. /\ head \in Counter /\ tail \in Counter
      /\ pTail \in Counter /\ cHead \in Counter
      /\ Diff(tail, pTail) \in Nat /\ Diff(cHead, tail) \in Nat
      /\ Diff(head, cHead) \in Nat /\ Diff(head, pTail) \in Nat
  BY DiffFact DEF TypeOK, Counter
<1>2. Diff(head, tail) = Diff(head, cHead) + Diff(cHead, tail)
  BY <1>1, DiffAdd, ModulusFacts DEF CursorOrder
<1>3. Diff(head, pTail) = Diff(head, tail) + Diff(tail, pTail)
  BY <1>1, <1>2, DiffAdd, ModulusFacts DEF CursorOrder
<1>4. Diff(head, tail) \in 0..Capacity
  BY <1>1, <1>2, ModulusFacts DEF CursorOrder
<1>5. cPc # "idle" => Diff(cHead, tail) > 0
  BY <1>1, DiffZero DEF CursorOrder
<1>6. pPc # "idle" => Diff(head, tail) < Capacity
  BY <1>1, <1>3, <1>4, ModulusFacts DEF CursorOrder, Full
<1>7. CASE cPc = "release"
  <2>1. FirstPos = Inc(tail) /\ Inc(tail) \in Counter
    BY <1>1, <1>7, IncFact DEF FirstPos
  <2>2. Diff(head, tail) > 0 /\ head # tail
    BY <1>1, <1>2, <1>5, <1>7, DiffZero
  <2>3. Diff(head, Inc(tail)) = Diff(head, tail) - 1
    BY <1>1, <2>2, DiffIncLow
  <2> QED
    BY <1>1, <1>4, <1>6, <1>7, <2>1, <2>2, <2>3, ModulusFacts
<1>8. CASE cPc # "release"
  <2>1. FirstPos = tail
    BY <1>8 DEF FirstPos
  <2> QED
    BY <1>1, <1>2, <1>4, <1>5, <1>6, <1>8, <2>1, ModulusFacts
<1> QED
  BY <1>7, <1>8

\* The ring of SPSCQueue implements the bounded FIFO queue of BoundedFifo.
THEOREM RingIsFifo == Spec => RefinesFifo
PROOF
<1>1. Init => Fifo!Init
  <2> SUFFICES ASSUME Init PROVE Contents = << >> /\ out = NoValue
    BY DEF Fifo!Init
  <2>1. FirstPos = 0 /\ 0 \in Counter /\ head = 0
    BY ModulusFacts DEF Init, FirstPos, Counter
  <2>2. Diff(head, FirstPos) = 0
    BY <2>1, DiffZero
  <2> QED
    BY <2>2 DEF Contents, Init
<1>2. /\ TypeOK /\ TypeOK' /\ CursorOrder /\ CursorOrder' /\ PendingValue
      /\ [Next]_vars
      => [Fifo!Next]_Fifo!fifoVars
  <2> SUFFICES ASSUME TypeOK, TypeOK', CursorOrder, CursorOrder', PendingValue,
                      [Next]_vars
               PROVE  \/ Fifo!Next
                      \/ Contents' = Contents /\ out' = out
    BY DEF Fifo!fifoVars
  <2> DEFINE n == Diff(head, FirstPos)
  <2>0. /\ head \in Counter /\ tail \in Counter /\ FirstPos \in Counter
        /\ Diff(head, tail) \in 0..Capacity
        /\ n = IF cPc = "release" THEN Diff(head, tail) - 1 ELSE Diff(head, tail)
        /\ n \in 0..Capacity
        /\ cPc # "idle" => Diff(head, tail) > 0
        /\ pPc # "idle" => Diff(head, tail) < Capacity
    BY QueueLength
  <2>a. \A i \in 1..n : slots[Index(FirstPos + i - 1)] \in Stored
    <3> TAKE i \in 1..n
    <3>1. FirstPos + i - 1 \in Nat
      BY <2>0 DEF Counter
    <3> QED
      BY <3>1, IndexRange DEF TypeOK, Stored
  <2>b. ASSUME UNCHANGED <<head, slots, FirstPos, out>>
        PROVE  Contents' = Contents /\ out' = out
    BY <2>b DEF Contents
  <2>1. CASE PushFull
    BY <2>1, <2>b DEF PushFull, ring, consumer, FirstPos
  <2>2. ASSUME NEW v \in Values, PushAdmit(v)
        PROVE  Contents' = Contents /\ out' = out
    BY <2>2, <2>b DEF PushAdmit, ring, consumer, FirstPos
  <2>3. CASE PushCopy
    <3>1. /\ UNCHANGED <<head, FirstPos, out>> /\ pPc = "copy"
          /\ slots' = [slots EXCEPT ![Index(head)] = pVal]
      BY <2>3 DEF PushCopy, consumer, FirstPos
    <3>2. n < Capacity
      BY <2>0, <3>1, ModulusFacts
    <3>3. \A i \in 1..n : Index(FirstPos + i - 1) # Index(head)
      BY <2>0, <3>2, QueuedSlots
    <3>4. \A i \in 1..n : Index(FirstPos + i - 1) \in Slot
      <4> TAKE i \in 1..n
      <4>1. FirstPos + i - 1 \in Nat
        BY <2>0 DEF Counter
      <4> QED
        BY <4>1, IndexRange
    <3>5. \A i \in 1..n : slots'[Index(FirstPos + i - 1)] = slots[Index(FirstPos + i - 1)]
      BY <3>1, <3>3, <3>4 DEF TypeOK
    <3> QED
      BY <3>1, <3>5 DEF Contents
  <2>4. CASE PushPublish
    <3>1. /\ UNCHANGED <<slots, FirstPos, out>> /\ pPc = "publish"
          /\ head' = Inc(head)
      BY <2>4 DEF PushPublish, consumer, FirstPos
    <3>2. n < Capacity
      BY <2>0, <3>1, ModulusFacts
    <3>3. Diff(head', FirstPos) = n + 1
      BY <2>0, <3>1, <3>2, DiffIncHigh, ModulusFacts
    <3>4. slots[Index(FirstPos + n)] = pVal /\ pVal \in Values
      BY <2>0, <3>1, <3>2, QueuedSlots DEF PendingValue
    <3> DEFINE f == [i \in 1..(n + 1) |-> slots[Index(FirstPos + i - 1)]]
    <3>5. n \in Nat /\ FirstPos \in Nat /\ FirstPos + (n + 1) - 1 = FirstPos + n
      BY <2>0, ModulusFacts DEF Counter
    <3>6. f[n + 1] = pVal
      BY <3>4, <3>5
    <3>7. f \in [1..(n + 1) -> Stored]
      <4>1. \A i \in 1..(n + 1) : slots[Index(FirstPos + i - 1)] \in Stored
        <5> TAKE i \in 1..(n + 1)
        <5>1. FirstPos + i - 1 \in Nat
          BY <3>5
        <5> QED
          BY <5>1, IndexRange DEF TypeOK, Stored
      <4> QED
        BY <4>1
    <3>8. Contents' = f
      BY <3>1, <3>3 DEF Contents
    <3>9. Contents = [i \in 1..n |-> f[i]]
      BY <3>5 DEF Contents
    <3> HIDE DEF f, n
    <3>10. Len(Contents) = n /\ Contents' = Append(Contents, pVal)
      BY <3>5, <3>6, <3>7, <3>8, <3>9, SeqAppend
    <3>11. Fifo!Put(pVal)
      BY <3>1, <3>2, <3>10 DEF Fifo!Put
    <3> QED
      BY <3>4, <3>11 DEF Fifo!Next
  <2>5. CASE PopEmpty
    BY <2>5, <2>b DEF PopEmpty, ring, FirstPos
  <2>6. CASE PopAdmit
    BY <2>6, <2>b DEF PopAdmit, ring, FirstPos
  <2>7. CASE PopCopy
    <3>1. /\ UNCHANGED <<head, slots>> /\ cPc = "copy"
          /\ FirstPos = tail /\ FirstPos' = Inc(tail)
          /\ out' = slots[Index(tail)]
      BY <2>7 DEF PopCopy, ring, FirstPos
    <3>2. n > 0 /\ n \in Nat /\ tail \in Nat
      BY <2>0, <3>1, ModulusFacts DEF Counter
    <3>3. Diff(head', FirstPos') = n - 1
      <4>1. head # tail
        BY <2>0, <3>1, DiffZero
      <4> QED
        BY <4>1, <2>0, <3>1, DiffIncLow
    <3>4. Contents \in [1..n -> Stored]
      BY <2>a DEF Contents
    <3>5. \A i \in 1..(n - 1) :
            slots'[Index(FirstPos' + i - 1)] = slots[Index(FirstPos + (i + 1) - 1)]
      BY <2>0, <3>1, SteppedSlots
    <3>6. Contents' = [i \in 1..(n - 1) |-> Contents[i + 1]]
      <4>1. \A i \in 1..(n - 1) : Contents[i + 1] = slots[Index(FirstPos + (i + 1) - 1)]
        BY <3>2 DEF Contents
      <4> QED
        BY <3>3, <3>5, <4>1 DEF Contents
    <3>7. Contents[1] = slots[Index(tail)]
      <4>1. tail + 1 - 1 = tail
        BY <3>2
      <4> QED
        BY <3>1, <3>2, <4>1 DEF Contents
    <3> HIDE DEF n
    <3>8. Contents # << >> /\ Head(Contents) = out' /\ Tail(Contents) = Contents'
      BY <3>1, <3>2, <3>4, <3>6, <3>7, SeqTail
    <3> QED
      BY <3>8 DEF Fifo!Next, Fifo!Get
  <2>8. CASE PopRelease
    <3>1. UNCHANGED <<head, slots, out>> /\ FirstPos = Inc(tail) /\ FirstPos' = Inc(tail)
      BY <2>8 DEF PopRelease, FirstPos
    <3> QED
      BY <3>1, <2>b
  <2>9. CASE UNCHANGED vars
    BY <2>9, <2>b DEF vars, ring, consumer, FirstPos
  <2> QED
    BY <2>1, <2>2, <2>3, <2>4, <2>5, <2>6, <2>7, <2>8, <2>9 DEF Next, Push, Pop
<1> QED
  BY <1>1, <1>2, TypeCorrect, CursorsOrdered, PendingValueInvariant, PTL
     DEF Spec, RefinesFifo, Fifo!Spec

=============================================================================
