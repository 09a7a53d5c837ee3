-------------------------- MODULE BookFeed_proofs --------------------------
(***************************************************************************)
(* For every window, word size, set of prices and set of messages: the     *)
(* index of the order book never disagrees with its ladders, recentering   *)
(* keeps the touch, and the book shows no level that the exchange does not *)
(* have, whatever of the feed was malformed or lost.  A snapshot leaves    *)
(* the window on its mid; until the window moves the book has every level  *)
(* of the exchange inside it, and a move loses only what leaves it.        *)
(*                                                                         *)
(* The book is a record and its methods are operators on it, so most of    *)
(* this is about one book b and holds of every caller: of Spec, which      *)
(* calls the methods in any order, and of FeedSpec.                        *)
(***************************************************************************)
EXTENDS BookFeed, FiniteSetTheorems, TLAPS

Books ==
  [ref : Int, haveRef : BOOLEAN,
   ladder : [Sides -> [Slots -> Int]],
   bits : [Sides -> SUBSET Slots],
   summary : [Sides -> SUBSET Words],
   best : [Sides -> -1..Capacity],
   rebases : Nat]

LiveSlots(b, side) == {s \in Slots : Live(b.ladder[side][s])}

\* s is the best of a set of slots, or no slot if it is empty.
IsBest(side, slots, s) ==
  IF slots = {} THEN s = NoBest(side)
  ELSE s \in slots /\ \A t \in slots : ~Better(side, t, s)

\* IndexAgrees of one side of a book.
Agrees(b, side) ==
  /\ b.bits[side] = LiveSlots(b, side)
  /\ b.summary[side] = {WordOf(s) : s \in LiveSlots(b, side)}
  /\ IsBest(side, LiveSlots(b, side), b.best[side])

GoodBooks == {b \in Books : \A side \in Sides : Agrees(b, side)}

-----------------------------------------------------------------------------
(* Least and greatest elements *)

\* A set of naturals that is not empty has a least element.
LEMMA LeastExists ==
  ASSUME NEW S \in SUBSET Nat, S # {}
  PROVE  \E x \in S : \A y \in S : x <= y
PROOF
<1> DEFINE before == {p \in Nat \X Nat : p[1] < p[2]}
<1>1. IsWellFoundedOn(before, Nat)
  BY NatLessThanWellFounded, Zenon DEF OpToRel
<1>2. PICK x \in S : \A y \in S : ~(<<y, x>> \in before)
  BY <1>1, WFMin, Zenon
<1>3. ASSUME NEW y \in S PROVE x <= y
  <2>1. x \in Nat /\ y \in Nat /\ <<y, x>> \notin before
    BY <1>2, <1>3
  <2>2. <<y, x>> \in before <=> y < x
    BY <2>1
  <2> HIDE DEF before
  <2> QED
    BY <2>1, <2>2
<1> QED
  BY <1>2, <1>3

\* Min and Max of a set of slots or words.
LEMMA Extremes ==
  ASSUME NEW hi \in Nat, NEW S \in SUBSET (0..hi), S # {}
  PROVE  /\ Min(S) \in S /\ \A y \in S : Min(S) <= y
         /\ Max(S) \in S /\ \A y \in S : y <= Max(S)
PROOF
<1>1. Min(S) \in S /\ \A y \in S : Min(S) <= y
  <2>1. \E x \in S : \A y \in S : x <= y
    BY LeastExists
  <2> QED
    BY <2>1, Zenon DEF Min
<1>2. Max(S) \in S /\ \A y \in S : Max(S) >= y
  <2> DEFINE T == {hi - y : y \in S}
  <2>1. T \subseteq Nat /\ T # {}
    <3>1. \A y \in S : hi - y \in Nat
      OBVIOUS
    <3>2. PICK y : y \in S
      OBVIOUS
    <3>3. hi - y \in T
      BY <3>2
    <3> QED
      BY <3>1, <3>3
  <2>2. PICK z \in T : \A y \in T : z <= y
    BY <2>1, LeastExists
  <2>3. PICK x \in S : z = hi - x
    BY <2>2
  <2>4. ASSUME NEW y \in S PROVE x >= y
    <3>1. hi - y \in T /\ x \in Int /\ y \in Int
      BY <2>3, <2>4
    <3>2. hi - x <= hi - y
      BY <2>2, <2>3, <3>1
    <3> QED
      BY <3>1, <3>2
  <2>5. \E m \in S : \A y \in S : m >= y
    BY <2>4
  <2> QED
    BY <2>5, Zenon DEF Max
<1>3. \A y \in S : y \in Int
  OBVIOUS
<1> QED
  BY <1>1, <1>2, <1>3

\* Bounds of an integer quotient.
LEMMA DivBounds ==
  ASSUME NEW a \in Int, NEW b \in Nat \ {0}, NEW k \in Int
  PROVE  /\ a \div b \in Int
         /\ a < b * (k + 1) => a \div b <= k
         /\ a >= b * k => a \div b >= k
PROOF
<1> DEFINE q == a \div b
           r == a % b
<1>1. a = b * q + r /\ q \in Int /\ r \in Int /\ 0 <= r /\ r < b
  OBVIOUS
<1> HIDE DEF q, r
<1>2. ASSUME a < b * (k + 1), q > k PROVE FALSE
  <2>1. b * q >= b * (k + 1)
    BY <1>1, <1>2
  <2> QED
    BY <1>1, <1>2, <2>1
<1>3. ASSUME a >= b * k, q < k PROVE FALSE
  <2>1. b * (q + 1) <= b * k /\ b * (q + 1) = b * q + b
    BY <1>1, <1>3
  <2> QED
    BY <1>1, <1>3, <2>1
<1> QED
  BY <1>1, <1>2, <1>3 DEF q

-----------------------------------------------------------------------------
(* Recursion over a sequence *)

\* A set of naturals with 0 and every successor has all of them.
LEMMA SetInduction ==
  ASSUME NEW S, 0 \in S, \A n \in Nat : n \in S => n + 1 \in S
  PROVE  Nat \subseteq S
PROOF
<1> SUFFICES ASSUME NEW T \in SUBSET Nat, T = Nat \ S, T # {} PROVE FALSE
  OBVIOUS
<1>1. PICK x \in T : \A y \in T : x <= y
  BY LeastExists
<1>2. x \in Nat /\ x \notin S /\ x # 0
  OBVIOUS
<1>3. x - 1 \in Nat /\ ~(x <= x - 1) /\ (x - 1) + 1 = x
  BY <1>2
<1>4. x - 1 \in S
  BY <1>1, <1>3
<1> QED
  BY <1>2, <1>3, <1>4

\* The same along 0..m.
LEMMA BoundedInduction ==
  ASSUME NEW m \in Nat, NEW S, 0 \in S, \A i \in 1..m : i - 1 \in S => i \in S
  PROVE  \A i \in 0..m : i \in S
PROOF
<1> DEFINE T == {n \in Nat : n <= m => n \in S}
<1>1. 0 \in T
  OBVIOUS
<1>2. ASSUME NEW n \in Nat, n \in T PROVE n + 1 \in T
  <2> SUFFICES ASSUME n + 1 <= m PROVE n + 1 \in S
    OBVIOUS
  <2>1. n + 1 \in 1..m /\ (n + 1) - 1 = n /\ n \in S
    BY <1>2
  <2> QED
    BY <2>1
<1> HIDE DEF T
<1>3. Nat \subseteq T
  BY <1>1, <1>2, SetInduction
<1> QED
  BY <1>3 DEF T

\* g starts with first, and F leads from each of its values to the next.
Recursive(g, V, first, m, F) ==
  /\ g \in [0..m -> V]
  /\ g[0] = first /\ \A i \in 1..m : g[i] = F[i][g[i - 1]]

\* A function may be defined by recursion along 0..m.
LEMMA Recursion ==
  ASSUME NEW V, NEW first \in V, NEW m \in Nat, NEW F \in [1..m -> [V -> V]]
  PROVE  \E g : Recursive(g, V, first, m, F)
PROOF
<1> DEFINE Upto(n) == \E g \in [0..n -> V] :
                        g[0] = first /\ \A i \in 1..n : g[i] = F[i][g[i - 1]]
           S == {n \in Nat : Upto(n)}
<1>1. 0 \in S
  <2> DEFINE g == [i \in 0..0 |-> first]
  <2>1. g \in [0..0 -> V] /\ g[0] = first /\ \A i \in 1..0 : g[i] = F[i][g[i - 1]]
    OBVIOUS
  <2> QED
    BY <2>1
<1>2. ASSUME NEW n \in 1..m, n - 1 \in S PROVE n \in S
  <2>1. PICK g \in [0..(n - 1) -> V] :
          g[0] = first /\ \A i \in 1..(n - 1) : g[i] = F[i][g[i - 1]]
    BY <1>2
  <2> DEFINE h == [i \in 0..n |-> IF i < n THEN g[i] ELSE F[n][g[n - 1]]]
  <2>2. F[n] \in [V -> V] /\ g[n - 1] \in V
    BY <2>1
  <2>3. h \in [0..n -> V]
    BY <2>1, <2>2
  <2>4. h[0] = first
    BY <2>1
  <2>5. ASSUME NEW i \in 1..n PROVE h[i] = F[i][h[i - 1]]
    <3>1. i - 1 \in 0..(n - 1) /\ h[i - 1] = g[i - 1]
      OBVIOUS
    <3>2. CASE i < n
      BY <2>1, <3>1, <3>2
    <3>3. CASE i = n
      BY <3>1, <3>3
    <3> QED
      BY <3>2, <3>3
  <2> HIDE DEF h
  <2>6. n \in Nat
    OBVIOUS
  <2> QED
    BY <2>3, <2>4, <2>5, <2>6
<1>3. S \subseteq Nat
  OBVIOUS
<1> HIDE DEF S
<1>4. \A n \in 0..m : n \in S
  BY <1>1, <1>2, BoundedInduction, Zenon
<1>5. m \in S
  BY <1>4
<1> QED
  BY <1>5 DEF S, Recursive

\* A walk that starts in a set and never leaves it stays in it.
LEMMA Stays ==
  ASSUME NEW m \in Nat, NEW V, NEW f, f = [i \in 0..m |-> f[i]],
         f[0] \in V, \A i \in 1..m : f[i - 1] \in V => f[i] \in V
  PROVE  f \in [0..m -> V]
PROOF
<1> DEFINE S == {i \in 0..m : f[i] \in V}
<1>1. 0 \in S
  OBVIOUS
<1>2. ASSUME NEW i \in 1..m, i - 1 \in S PROVE i \in S
  BY <1>2
<1> HIDE DEF S
<1>3. \A i \in 0..m : i \in S
  BY <1>1, <1>2, BoundedInduction, Zenon
<1>4. \A i \in 0..m : f[i] \in V
  BY <1>3 DEF S
<1> QED
  BY <1>4

-----------------------------------------------------------------------------
(* The geometry of the window *)

\* The window has an even number of slots, which are integers.
LEMMA Geometry ==
  /\ Capacity \in Nat /\ Capacity > 0 /\ WordBits \in Nat \ {0}
  /\ Center \in Nat /\ Capacity = 2 * Center
  /\ Slots \subseteq Nat /\ Slots \subseteq Int /\ (\A s \in Slots : s \in Int)
  /\ RecenterMargin \in Int
PROOF
<1>1. Capacity \in Nat /\ Capacity > 0 /\ WordBits \in Nat \ {0}
  BY BookAssumption
<1>2. Center \in Nat /\ Capacity = 2 * Center
  BY <1>1, BookAssumption DEF Center
<1>3. RecenterMargin \in Int
  BY <1>1, DivBounds DEF RecenterMargin
<1> QED
  BY <1>1, <1>2, <1>3 DEF Slots

\* Words cover the slots in order.
LEMMA WordFacts ==
  /\ \A s \in Slots : WordOf(s) \in Words
  /\ \A s, t \in Slots : s <= t => WordOf(s) <= WordOf(t)
  /\ \E n \in Nat : Words = 0..n
PROOF
<1>1. PICK words \in 1..Capacity : Capacity = words * WordBits
  BY BookAssumption
<1>2. words \in Nat /\ words > 0 /\ WordBits \in Nat \ {0} /\ Capacity \in Nat
  BY <1>1, Geometry
<1>3. Capacity \div WordBits = words
  <2>1. Capacity >= WordBits * words /\ Capacity < WordBits * (words + 1)
    BY <1>1, <1>2
  <2>2. /\ Capacity \div WordBits \in Int
        /\ Capacity \div WordBits <= words /\ Capacity \div WordBits >= words
    BY <1>2, <2>1, DivBounds
  <2> QED
    BY <1>2, <2>2
<1>4. Words = 0..(words - 1)
  BY <1>3 DEF Words
<1>5. ASSUME NEW s \in Slots
      PROVE  /\ WordOf(s) \in 0..(words - 1)
             /\ \A k \in Int : /\ s < WordBits * (k + 1) => WordOf(s) <= k
                               /\ s >= WordBits * k => WordOf(s) >= k
  <2>1. s \in Nat /\ s < words * WordBits
    BY <1>1, <1>5, Geometry DEF Slots
  <2>2. s >= WordBits * 0 /\ s < WordBits * ((words - 1) + 1)
    BY <1>2, <2>1
  <2>3. /\ WordOf(s) \in Int /\ WordOf(s) <= words - 1 /\ WordOf(s) >= 0
    BY <1>2, <2>1, <2>2, DivBounds DEF WordOf
  <2>4. \A k \in Int : /\ s < WordBits * (k + 1) => WordOf(s) <= k
                       /\ s >= WordBits * k => WordOf(s) >= k
    BY <1>2, <2>1, DivBounds DEF WordOf
  <2> QED
    BY <1>2, <2>3, <2>4
<1>6. ASSUME NEW s \in Slots, NEW t \in Slots, s <= t PROVE WordOf(s) <= WordOf(t)
  <2> DEFINE k == WordOf(s)
  <2>1. k \in Int /\ s \in Nat /\ t \in Nat
    BY <1>5, Geometry
  <2>2. WordBits * k <= s
    <3>1. s = WordBits * (s \div WordBits) + (s % WordBits) /\ s % WordBits >= 0
      BY <1>2, <2>1
    <3>2. WordBits * k \in Int /\ s % WordBits \in Int /\ s = WordBits * k + (s % WordBits)
      BY <1>2, <2>1, <3>1 DEF WordOf
    <3> QED
      BY <2>1, <3>1, <3>2
  <2> HIDE DEF k
  <2>3. t >= WordBits * k
    BY <1>2, <1>6, <2>1, <2>2
  <2>4. WordOf(t) >= k /\ WordOf(t) \in Int
    BY <1>5, <2>1, <2>3
  <2> QED
    BY <2>1, <2>4 DEF k
<1> QED
  BY <1>2, <1>4, <1>5, <1>6

-----------------------------------------------------------------------------
(* The index *)

\* A book's slots and no-slot are integers in order.
LEMMA BetterFacts ==
  ASSUME NEW side \in Sides, NEW s \in Slots
  PROVE  /\ Better(side, s, NoBest(side)) /\ s # NoBest(side)
         /\ NoBest(side) \in -1..Capacity /\ s \in -1..Capacity /\ s \in Int
BY Geometry DEF Better, NoBest, Slots, Sides

\* highestSet() and lowestSet() find the best set bit through the summary.
LEMMA BestSetFacts ==
  ASSUME NEW side \in Sides, NEW bits \in SUBSET Slots
  PROVE  IsBest(side, bits, BestSet(side, bits, {WordOf(s) : s \in bits}))
PROOF
<1> DEFINE summary == {WordOf(s) : s \in bits}
           best == BestSet(side, bits, summary)
<1>1. CASE bits = {}
  <2>1. summary = {}
    BY <1>1
  <2> QED
    BY <1>1, <2>1 DEF BestSet, HighestSet, LowestSet, IsBest, NoBest
<1>2. CASE bits # {}
  <2>1. PICK s0 : s0 \in bits
    BY <1>2
  <2>2. summary # {} /\ summary \subseteq Words
    BY <2>1, WordFacts
  <2>3. PICK n \in Nat : Words = 0..n
    BY WordFacts
  <2>4. /\ Min(summary) \in summary /\ \A y \in summary : Min(summary) <= y
        /\ Max(summary) \in summary /\ \A y \in summary : y <= Max(summary)
    <3> HIDE DEF summary
    <3> QED
      BY <2>2, <2>3, Extremes
  <2>5. Slots = 0..(Capacity - 1) /\ Capacity - 1 \in Nat
    BY Geometry DEF Slots
  <2>6. CASE side = "Bid"
    <3> DEFINE w == Max(summary)
               B == {s \in bits : WordOf(s) = w}
               h == Max(B)
    <3>1. best = h
      BY <2>2, <2>6 DEF BestSet, HighestSet
    <3>2. B \in SUBSET (0..(Capacity - 1)) /\ B # {}
      BY <2>4, <2>5
    <3>3. h \in B /\ \A y \in B : y <= h
      <4> HIDE DEF B
      <4> QED
        BY <2>5, <3>2, Extremes
    <3>4. h \in bits /\ WordOf(h) = w
      BY <3>3
    <3>5. ASSUME NEW t \in bits PROVE ~(t > h)
      <4>1. t \in Slots /\ h \in Slots /\ t \in Int /\ h \in Int
        <5> HIDE DEF h, w
        <5> QED
          BY <3>4, Geometry
      <4>2. WordOf(t) \in summary
        OBVIOUS
      <4>3. WordOf(t) <= w
        BY <2>4, <4>2
      <4>4. WordOf(t) \in Int /\ w \in Int
        BY <2>3, <3>4, <4>1, WordFacts
      <4>5. CASE WordOf(t) = w
        <5>1. t \in B
          BY <4>5
        <5> HIDE DEF h, B
        <5> QED
          BY <3>3, <4>1, <5>1
      <4>6. CASE WordOf(t) < w
        <5>1. ~(h <= t)
          <6>1. h <= t => WordOf(h) <= WordOf(t)
            BY <4>1, WordFacts
          <6> HIDE DEF w, h
          <6> QED
            BY <3>4, <4>4, <4>6, <6>1
        <5> QED
          BY <4>1, <5>1
      <4> QED
        BY <4>3, <4>4, <4>5, <4>6
    <3> QED
      BY <1>2, <2>6, <3>1, <3>4, <3>5 DEF IsBest, Better
  <2>7. CASE side = "Ask"
    <3> DEFINE w == Min(summary)
               B == {s \in bits : WordOf(s) = w}
               h == Min(B)
    <3>1. best = h
      BY <2>2, <2>7 DEF BestSet, LowestSet
    <3>2. B \in SUBSET (0..(Capacity - 1)) /\ B # {}
      BY <2>4, <2>5
    <3>3. h \in B /\ \A y \in B : h <= y
      <4> HIDE DEF B
      <4> QED
        BY <2>5, <3>2, Extremes
    <3>4. h \in bits /\ WordOf(h) = w
      BY <3>3
    <3>5. ASSUME NEW t \in bits PROVE ~(t < h)
      <4>1. t \in Slots /\ h \in Slots /\ t \in Int /\ h \in Int
        <5> HIDE DEF h, w
        <5> QED
          BY <3>4, Geometry
      <4>2. WordOf(t) \in summary
        OBVIOUS
      <4>3. w <= WordOf(t)
        BY <2>4, <4>2
      <4>4. WordOf(t) \in Int /\ w \in Int
        BY <2>3, <3>4, <4>1, WordFacts
      <4>5. CASE WordOf(t) = w
        <5>1. t \in B
          BY <4>5
        <5> HIDE DEF h, B
        <5> QED
          BY <3>3, <4>1, <5>1
      <4>6. CASE w < WordOf(t)
        <5>1. ~(t <= h)
          <6>1. t <= h => WordOf(t) <= WordOf(h)
            BY <4>1, WordFacts
          <6> HIDE DEF w, h
          <6> QED
            BY <3>4, <4>4, <4>6, <6>1
        <5> QED
          BY <4>1, <5>1
      <4> QED
        BY <4>3, <4>4, <4>5, <4>6
    <3> QED
      BY <1>2, <2>7, <3>1, <3>4, <3>5 DEF IsBest, Better
  <2> QED
    BY <2>6, <2>7 DEF Sides
<1> QED
  BY <1>1, <1>2

\* The summary of a bitmap without one of its slots: clearBit().
LEMMA ClearSummaryFacts ==
  ASSUME NEW bits \in SUBSET Slots, NEW slot \in Slots
  PROVE  ClearSummary(bits, {WordOf(s) : s \in bits}, slot) =
           {WordOf(s) : s \in bits \ {slot}}
BY DEF ClearSummary

-----------------------------------------------------------------------------
(* The methods keep a good book good *)

\* The parts of a book.
LEMMA BookFields ==
  ASSUME NEW b \in Books
  PROVE  /\ b.ref \in Int /\ b.haveRef \in BOOLEAN /\ b.rebases \in Nat
         /\ b.ladder \in [Sides -> [Slots -> Int]]
         /\ b.bits \in [Sides -> SUBSET Slots]
         /\ b.summary \in [Sides -> SUBSET Words]
         /\ b.best \in [Sides -> -1..Capacity]
BY DEF Books

\* rebuildIndex() makes any ladders a good book.
LEMMA IndexedGood ==
  ASSUME NEW b \in Books
  PROVE  /\ Indexed(b) \in GoodBooks
         /\ Indexed(b).ref = b.ref /\ Indexed(b).haveRef = b.haveRef
         /\ Indexed(b).ladder = b.ladder /\ Indexed(b).rebases = b.rebases
PROOF
<1> DEFINE bits == [side \in Sides |-> {s \in Slots : Live(b.ladder[side][s])}]
           summary == [side \in Sides |-> {WordOf(s) : s \in bits[side]}]
           best == [side \in Sides |-> BestSet(side, bits[side], summary[side])]
           c == Indexed(b)
<1>1. c = [b EXCEPT !.bits = bits, !.summary = summary, !.best = best]
  BY DEF Indexed
<1>2. \A side \in Sides : /\ bits[side] \in SUBSET Slots
                          /\ bits[side] = LiveSlots(b, side)
                          /\ summary[side] = {WordOf(s) : s \in LiveSlots(b, side)}
  BY DEF LiveSlots
<1>3. ASSUME NEW side \in Sides
      PROVE  IsBest(side, bits[side], best[side]) /\ best[side] \in -1..Capacity
  <2>1. best[side] = BestSet(side, bits[side], {WordOf(s) : s \in bits[side]})
    OBVIOUS
  <2>2. bits[side] \in SUBSET Slots
    BY <1>2
  <2> HIDE DEF bits, best, summary
  <2>3. IsBest(side, bits[side], best[side])
    BY <2>1, <2>2, BestSetFacts
  <2>4. best[side] = NoBest(side) \/ best[side] \in Slots
    BY <2>2, <2>3 DEF IsBest
  <2> QED
    BY <2>3, <2>4, Geometry DEF NoBest, Slots
<1>4. /\ bits \in [Sides -> SUBSET Slots] /\ summary \in [Sides -> SUBSET Words]
      /\ best \in [Sides -> -1..Capacity]
  <2>1. \A side \in Sides : summary[side] \in SUBSET Words
    BY <1>2, WordFacts DEF LiveSlots
  <2> QED
    BY <1>2, <1>3, <2>1
<1> HIDE DEF bits, summary, best
<1>5. c \in Books
  BY <1>1, <1>4 DEF Books
<1>6. /\ c.bits = bits /\ c.summary = summary /\ c.best = best /\ c.ladder = b.ladder
      /\ c.ref = b.ref /\ c.haveRef = b.haveRef /\ c.rebases = b.rebases
  BY <1>1 DEF Books
<1>7. ASSUME NEW side \in Sides PROVE Agrees(c, side)
  <2>1. LiveSlots(c, side) = LiveSlots(b, side)
    BY <1>6 DEF LiveSlots
  <2> QED
    BY <1>2, <1>3, <1>6, <2>1 DEF Agrees
<1> QED
  BY <1>5, <1>6, <1>7 DEF GoodBooks

\* The ladders with one level written.
Written(ladder, side, slot, qty) ==
  [ladder EXCEPT ![side] = [ladder[side] EXCEPT ![slot] = qty]]

\* update() without the recentering: one level is written, and the index and
\* the best slot follow.
LEMMA WithLevelGood ==
  ASSUME NEW b \in GoodBooks, NEW side \in Sides, NEW slot \in Slots, NEW qty \in Int
  PROVE  /\ WithLevel(b, side, slot, qty) \in GoodBooks
         /\ WithLevel(b, side, slot, qty).ladder = Written(b.ladder, side, slot, qty)
         /\ WithLevel(b, side, slot, qty).ref = b.ref
         /\ WithLevel(b, side, slot, qty).haveRef = b.haveRef
         /\ WithLevel(b, side, slot, qty).rebases = b.rebases
PROOF
<1> DEFINE bits == IF Live(qty) THEN b.bits[side] \cup {slot} ELSE b.bits[side] \ {slot}
           summary == IF Live(qty) THEN b.summary[side] \cup {WordOf(slot)}
                      ELSE ClearSummary(b.bits[side], b.summary[side], slot)
           best == CASE Live(qty) /\ Better(side, slot, b.best[side]) -> slot
                     [] ~Live(qty) /\ slot = b.best[side] -> BestSet(side, bits, summary)
                     [] OTHER -> b.best[side]
           ladder == [b.ladder EXCEPT ![side] = [b.ladder[side] EXCEPT ![slot] = qty]]
           c == WithLevel(b, side, slot, qty)
           L == LiveSlots(b, side)
<1>1. b \in Books /\ Agrees(b, side)
  BY DEF GoodBooks
<1>2. c = [b EXCEPT !.ladder = ladder, !.bits = [@ EXCEPT ![side] = bits],
                    !.summary = [@ EXCEPT ![side] = summary],
                    !.best = [@ EXCEPT ![side] = best]]
  BY <1>1 DEF WithLevel, Books
<1>3. /\ b.bits[side] = L /\ b.summary[side] = {WordOf(s) : s \in L}
      /\ IsBest(side, L, b.best[side]) /\ L \in SUBSET Slots
  BY <1>1 DEF Agrees, LiveSlots
<1>4. /\ ladder \in [Sides -> [Slots -> Int]]
      /\ {s \in Slots : Live(ladder[side][s])} = bits
      /\ \A other \in Sides \ {side} : ladder[other] = b.ladder[other]
  <2>1. b.ladder \in [Sides -> [Slots -> Int]] /\ b.ladder[side] \in [Slots -> Int]
    BY <1>1, BookFields
  <2>2. \A s \in Slots : ladder[side][s] = IF s = slot THEN qty ELSE b.ladder[side][s]
    BY <2>1
  <2>3. bits = {s \in Slots : IF s = slot THEN Live(qty) ELSE Live(b.ladder[side][s])}
    BY <1>3 DEF LiveSlots
  <2> QED
    BY <2>1, <2>2, <2>3
<1>5. bits \in SUBSET Slots /\ summary = {WordOf(s) : s \in bits}
  <2>1. CASE Live(qty)
    BY <1>3, <2>1
  <2>2. CASE ~Live(qty)
    <3>1. summary = ClearSummary(L, {WordOf(s) : s \in L}, slot) /\ bits = L \ {slot}
      BY <1>3, <2>2
    <3> HIDE DEF L, summary, bits
    <3> QED
      BY <1>3, <3>1, ClearSummaryFacts
  <2> QED
    BY <2>1, <2>2
<1> HIDE DEF L, ladder
<1>6. IsBest(side, bits, best)
  <2>0. b.best[side] \in Int /\ slot \in Int /\ (\A s \in L : s \in Int)
    BY <1>1, <1>3, BookFields, Geometry
  <2>1. CASE Live(qty)
    <3>1. bits = L \cup {slot}
      BY <1>3, <2>1
    <3>2. CASE Better(side, slot, b.best[side])
      <4>1. best = slot
        BY <2>1, <3>2
      <4>2. \A t \in L : ~Better(side, t, slot)
        BY <1>3, <2>0, <3>2 DEF IsBest, Better
      <4>3. ~Better(side, slot, slot)
        BY <2>0 DEF Better
      <4> QED
        BY <3>1, <4>1, <4>2, <4>3 DEF IsBest
    <3>3. CASE ~Better(side, slot, b.best[side])
      <4>1. best = b.best[side]
        BY <2>1, <3>3
      <4>2. L # {}
        BY <1>3, <3>3, BetterFacts DEF IsBest
      <4> QED
        BY <1>3, <3>1, <3>3, <4>1, <4>2 DEF IsBest
    <3> QED
      BY <3>2, <3>3
  <2>2. CASE ~Live(qty) /\ slot = b.best[side]
    <3>1. best = BestSet(side, bits, {WordOf(s) : s \in bits})
      BY <1>5, <2>2
    <3> HIDE DEF bits, best
    <3> QED
      BY <1>5, <3>1, BestSetFacts
  <2>3. CASE ~Live(qty) /\ slot # b.best[side]
    <3>1. best = b.best[side] /\ bits = L \ {slot}
      BY <1>3, <2>3
    <3>2. CASE L = {}
      BY <1>3, <3>1, <3>2 DEF IsBest
    <3>3. CASE L # {}
      BY <1>3, <2>3, <3>1, <3>3 DEF IsBest
    <3> QED
      BY <3>2, <3>3
  <2> QED
    BY <2>1, <2>2, <2>3
<1>7. best \in -1..Capacity
  <2> HIDE DEF best, bits
  <2>1. best = NoBest(side) \/ best \in Slots
    BY <1>5, <1>6 DEF IsBest
  <2> QED
    BY <2>1, Geometry DEF NoBest, Slots
<1>8. summary \in SUBSET Words
  BY <1>5, WordFacts
<1> HIDE DEF bits, summary, best
<1>9. c \in Books
  <2> DEFINE x == [b.bits EXCEPT ![side] = bits]
             y == [b.summary EXCEPT ![side] = summary]
             z == [b.best EXCEPT ![side] = best]
  <2>1. c = [b EXCEPT !.ladder = ladder, !.bits = x, !.summary = y, !.best = z]
    BY <1>1, <1>2 DEF Books
  <2>2. /\ x \in [Sides -> SUBSET Slots] /\ y \in [Sides -> SUBSET Words]
        /\ z \in [Sides -> -1..Capacity]
    BY <1>1, <1>5, <1>7, <1>8, BookFields
  <2> HIDE DEF c, x, y, z
  <2> QED
    BY <1>1, <1>4, <2>1, <2>2 DEF Books
<1>10. /\ c.ladder = ladder /\ c.bits = [b.bits EXCEPT ![side] = bits]
       /\ c.summary = [b.summary EXCEPT ![side] = summary]
       /\ c.best = [b.best EXCEPT ![side] = best]
       /\ c.ref = b.ref /\ c.haveRef = b.haveRef /\ c.rebases = b.rebases
  BY <1>1, <1>2 DEF Books
<1>11. ASSUME NEW other \in Sides PROVE Agrees(c, other)
  <2> HIDE DEF c
  <2>0. /\ b.bits \in [Sides -> SUBSET Slots] /\ b.summary \in [Sides -> SUBSET Words]
        /\ b.best \in [Sides -> -1..Capacity]
    BY <1>1, BookFields
  <2>1. CASE other = side
    <3>1. /\ c.bits[side] = bits /\ c.summary[side] = summary /\ c.best[side] = best
      BY <1>10, <2>0
    <3>2. LiveSlots(c, side) = bits
      BY <1>4, <1>10 DEF LiveSlots
    <3> QED
      BY <1>5, <1>6, <2>1, <3>1, <3>2 DEF Agrees
  <2>2. CASE other # side
    <3>1. /\ c.bits[other] = b.bits[other] /\ c.summary[other] = b.summary[other]
          /\ c.best[other] = b.best[other]
      BY <1>10, <2>0, <2>2
    <3>2. LiveSlots(c, other) = LiveSlots(b, other)
      BY <1>4, <1>10, <2>2 DEF LiveSlots
    <3>3. Agrees(b, other)
      BY DEF GoodBooks
    <3> QED
      BY <3>1, <3>2, <3>3 DEF Agrees
  <2> QED
    BY <2>1, <2>2
<1> QED
  BY <1>9, <1>10, <1>11 DEF GoodBooks, ladder, Written

\* clear(), from any book.
LEMMA ClearedGood ==
  ASSUME NEW b \in Books
  PROVE  /\ Cleared(b) \in GoodBooks /\ ~Cleared(b).haveRef
         /\ Cleared(b).ladder = EmptySides([s \in Slots |-> 0])
         /\ Cleared(b).rebases = b.rebases
PROOF
<1> DEFINE ladder == EmptySides([s \in Slots |-> 0])
           bits == EmptySides({})
           best == [side \in Sides |-> NoBest(side)]
           have == FALSE
           c == Cleared(b)
<1>1. c = [b EXCEPT !.ladder = ladder, !.bits = bits, !.summary = bits,
                    !.best = best, !.haveRef = have]
  BY DEF Cleared
<1>2. have \in BOOLEAN /\ ~have
  BY Zenon
<1>3. /\ ladder \in [Sides -> [Slots -> Int]] /\ bits \in [Sides -> SUBSET Slots]
      /\ bits \in [Sides -> SUBSET Words] /\ best \in [Sides -> -1..Capacity]
  BY Geometry DEF EmptySides, NoBest
<1>4. \A side \in Sides : /\ bits[side] = {} /\ best[side] = NoBest(side)
                          /\ {s \in Slots : Live(ladder[side][s])} = {}
  BY DEF EmptySides, Live
<1> HIDE DEF ladder, bits, best, have
<1>5. c \in Books
  BY <1>1, <1>2, <1>3 DEF Books
<1>6. /\ c.ladder = ladder /\ c.bits = bits /\ c.summary = bits /\ c.best = best
      /\ c.haveRef = have /\ c.rebases = b.rebases
  BY <1>1 DEF Books
<1>7. \A side \in Sides : Agrees(c, side)
  BY <1>4, <1>6 DEF Agrees, LiveSlots, IsBest
<1> QED
  BY <1>2, <1>5, <1>6, <1>7 DEF GoodBooks, ladder

\* seedReference() touches no level.
LEMMA SeededGood ==
  ASSUME NEW b \in GoodBooks, NEW price \in Int
  PROVE  /\ Seeded(b, price) \in GoodBooks /\ Seeded(b, price).haveRef
         /\ Seeded(b, price).ladder = b.ladder /\ Seeded(b, price).best = b.best
         /\ Seeded(b, price).rebases = b.rebases
PROOF
<1> DEFINE have == TRUE
           c == [b EXCEPT !.ref = price, !.haveRef = have]
<1>1. b \in Books
  BY DEF GoodBooks
<1>2. have \in BOOLEAN /\ have
  BY Zenon
<1>3. Seeded(b, price) = IF b.haveRef THEN b ELSE c
  BY DEF Seeded
<1> HIDE DEF have
<1>4. /\ c \in Books /\ c.haveRef = have /\ c.ladder = b.ladder /\ c.bits = b.bits
      /\ c.summary = b.summary /\ c.best = b.best /\ c.rebases = b.rebases
  BY <1>1, <1>2 DEF Books
<1> HIDE DEF c
<1>5. c \in GoodBooks
  <2>1. ASSUME NEW side \in Sides PROVE Agrees(c, side)
    <3>1. Agrees(b, side)
      BY DEF GoodBooks
    <3> QED
      BY <1>4, <3>1 DEF Agrees, LiveSlots
  <2> QED
    BY <1>4, <2>1 DEF GoodBooks
<1>6. CASE b.haveRef
  BY <1>3, <1>6
<1>7. CASE ~b.haveRef
  BY <1>2, <1>3, <1>4, <1>5, <1>7
<1> QED
  BY <1>6, <1>7

\* The ladders of rebase(): the levels of the old window at their prices.
Shifted(ladder, shift) ==
  [side \in Sides |->
     [s \in Slots |-> IF s + shift \in Slots THEN ladder[side][s + shift] ELSE 0]]

\* rebase(): a good book again, with the same levels where the windows overlap.
LEMMA RebasedGood ==
  ASSUME NEW b \in Books, NEW newRef \in Int
  PROVE  /\ Rebased(b, newRef) \in GoodBooks
         /\ Rebased(b, newRef).ref = newRef
         /\ Rebased(b, newRef).haveRef = b.haveRef
         /\ Rebased(b, newRef).rebases = b.rebases + 1
         /\ Rebased(b, newRef).ladder = Shifted(b.ladder, newRef - b.ref)
PROOF
<1> DEFINE ladder == Shifted(b.ladder, newRef - b.ref)
           n == b.rebases + 1
           c == [b EXCEPT !.ladder = ladder, !.ref = newRef, !.rebases = n]
<1>1. Rebased(b, newRef) = Indexed(c)
  BY DEF Rebased, Shifted, Books
<1>2. ladder \in [Sides -> [Slots -> Int]]
  BY BookFields DEF Shifted
<1>a. n \in Nat
  BY BookFields
<1> HIDE DEF ladder, n
<1>3. /\ c \in Books /\ c.ladder = ladder /\ c.ref = newRef /\ c.haveRef = b.haveRef
      /\ c.rebases = n
  BY <1>2, <1>a DEF Books
<1> HIDE DEF c
<1> QED
  BY <1>1, <1>3, IndexedGood DEF ladder, n

\* The touch of a good book: what recenterIfNearEdge() computes from it.
LEMMA TouchFacts ==
  ASSUME NEW b \in GoodBooks
  PROVE  /\ TouchSlots(b) \subseteq Slots
         /\ \A side \in Sides : HaveBest(b, side) <=> LiveSlots(b, side) # {}
         /\ \A side \in Sides : HaveBest(b, side) => b.best[side] \in TouchSlots(b)
         /\ TouchSlots(b) # {} =>
              /\ Min(TouchSlots(b)) \in TouchSlots(b) /\ Max(TouchSlots(b)) \in TouchSlots(b)
              /\ \A s \in TouchSlots(b) : Min(TouchSlots(b)) <= s /\ s <= Max(TouchSlots(b))
PROOF
<1>1. ASSUME NEW side \in Sides
      PROVE  /\ HaveBest(b, side) <=> LiveSlots(b, side) # {}
             /\ HaveBest(b, side) => b.best[side] \in Slots
  <2>1. IsBest(side, LiveSlots(b, side), b.best[side]) /\ LiveSlots(b, side) \subseteq Slots
    BY DEF GoodBooks, Agrees, LiveSlots
  <2> QED
    BY <2>1, BetterFacts DEF IsBest, HaveBest
<1>2. TouchSlots(b) \subseteq Slots
  BY <1>1 DEF TouchSlots
<1>3. \A side \in Sides : HaveBest(b, side) => b.best[side] \in TouchSlots(b)
  BY DEF TouchSlots
<1>4. Slots = 0..(Capacity - 1) /\ Capacity - 1 \in Nat
  BY Geometry DEF Slots
<1>5. ASSUME TouchSlots(b) # {}
      PROVE  /\ Min(TouchSlots(b)) \in TouchSlots(b) /\ Max(TouchSlots(b)) \in TouchSlots(b)
             /\ \A s \in TouchSlots(b) :
                  Min(TouchSlots(b)) <= s /\ s <= Max(TouchSlots(b))
  BY <1>2, <1>4, <1>5, Extremes
<1> QED
  BY <1>1, <1>2, <1>3, <1>5

\* Where recenterIfNearEdge() puts the window.
NewRef(b) == b.ref + ((Min(TouchSlots(b)) + Max(TouchSlots(b))) \div 2 - Center)

\* recenterIfNearEdge() leaves the book alone, or rebases it on its touch.
LEMMA RecenteredCases ==
  ASSUME NEW b \in GoodBooks
  PROVE  \/ Recentered(b) = b
         \/ /\ TouchSlots(b) # {} /\ NewRef(b) \in Int /\ NewRef(b) # b.ref
            /\ Recentered(b) = Rebased(b, NewRef(b))
PROOF
<1>1. CASE TouchSlots(b) = {}
  BY <1>1 DEF Recentered
<1>2. CASE TouchSlots(b) # {}
  <2> DEFINE lo == Min(TouchSlots(b))
             hi == Max(TouchSlots(b))
  <2>1. lo \in Int /\ hi \in Int
    <3>1. /\ TouchSlots(b) \subseteq Slots
          /\ lo \in TouchSlots(b) /\ hi \in TouchSlots(b)
      BY <1>2, TouchFacts
    <3> HIDE DEF lo, hi
    <3> QED
      BY <3>1, Geometry
  <2>2. b.ref \in Int
    BY BookFields DEF GoodBooks
  <2>3. NewRef(b) = b.ref + ((lo + hi) \div 2 - Center)
    BY DEF NewRef
  <2>4. Recentered(b) = b \/ (NewRef(b) # b.ref /\ Recentered(b) = Rebased(b, NewRef(b)))
    BY DEF Recentered, NewRef
  <2> HIDE DEF lo, hi
  <2>5. NewRef(b) \in Int
    BY <2>1, <2>2, <2>3, Geometry
  <2> QED
    BY <1>2, <2>4, <2>5
<1> QED
  BY <1>1, <1>2

\* update(): of every price and quantity.
LEMMA UpdatedGood ==
  ASSUME NEW b \in GoodBooks, NEW side \in Sides, NEW price \in Int, NEW qty \in Int
  PROVE  Updated(b, side, price, qty) \in GoodBooks
PROOF
<1> DEFINE a == Seeded(b, price)
           slot == SlotOf(a, price)
           c == WithLevel(a, side, slot, qty)
<1>1. a \in GoodBooks
  BY SeededGood
<1>2. Updated(b, side, price, qty) = IF slot \notin Slots THEN a ELSE Recentered(c)
  BY DEF Updated
<1>3. CASE slot \notin Slots
  BY <1>1, <1>2, <1>3
<1>4. CASE slot \in Slots
  <2> HIDE DEF a, slot
  <2>1. c \in GoodBooks
    BY <1>1, <1>4, WithLevelGood
  <2> HIDE DEF c
  <2>2. Recentered(c) \in GoodBooks
    BY <2>1, RecenteredCases, RebasedGood DEF GoodBooks
  <2> QED
    BY <1>2, <1>4, <2>2
<1> QED
  BY <1>3, <1>4

-----------------------------------------------------------------------------
(* Recentering keeps the touch *)

\* Moving every slot of a set by the same distance moves its best slot by it.
LEMMA BestMoves ==
  ASSUME NEW side \in Sides, NEW X \in SUBSET Int, NEW Y \in SUBSET Int, NEW d \in Int,
         \A y \in Y : y + d \in X, NEW x \in X, NEW y0 \in Y,
         x - d \in Y, IsBest(side, X, x), IsBest(side, Y, y0)
  PROVE  y0 = x - d
PROOF
<1>1. y0 + d \in X /\ ~Better(side, y0 + d, x) /\ ~Better(side, x - d, y0)
  BY DEF IsBest
<1>2. x \in Int /\ y0 \in Int
  OBVIOUS
<1> QED
  BY <1>1, <1>2 DEF Better

\* The window moved on the middle of a touch that is narrower than it still
\* holds the touch.
LEMMA TouchStaysInside ==
  ASSUME NEW lo \in Int, NEW hi \in Int, NEW s \in Int, lo <= s, s <= hi,
         hi - lo < Capacity - 1
  PROVE  s - ((lo + hi) \div 2 - Center) \in Slots
PROOF
<1> DEFINE m == (lo + hi) \div 2
<1>1. m \in Int /\ 2 * m <= lo + hi /\ lo + hi <= 2 * m + 1
  OBVIOUS
<1> HIDE DEF m
<1>2. s - (m - Center) \in 0..(Capacity - 1)
  BY <1>1, Geometry
<1> QED
  BY <1>2 DEF Slots, m

\* recenterIfNearEdge() of a touch narrower than the window.
LEMMA RecenteredKeeps ==
  ASSUME NEW b \in GoodBooks, SpreadOf(b) < Capacity - 1
  PROVE  Tops(Recentered(b)) = Tops(b) /\ Recentered(Recentered(b)) = Recentered(b)
PROOF
<1>1. CASE Recentered(b) = b
  BY <1>1
<1>2. CASE Recentered(b) # b
  <2> DEFINE lo == Min(TouchSlots(b))
             hi == Max(TouchSlots(b))
             m == (lo + hi) \div 2
             d == m - Center
             c == Rebased(b, NewRef(b))
  <2>1. /\ TouchSlots(b) # {} /\ NewRef(b) \in Int /\ Recentered(b) = c
        /\ NewRef(b) = b.ref + d
    BY <1>2, RecenteredCases DEF NewRef
  <2>2. /\ b \in Books /\ b.ref \in Int /\ b.ladder \in [Sides -> [Slots -> Int]]
        /\ \A side \in Sides : IsBest(side, LiveSlots(b, side), b.best[side])
    BY BookFields DEF GoodBooks, Agrees
  <2>3. /\ c \in GoodBooks /\ c.ref = NewRef(b)
        /\ c.ladder = Shifted(b.ladder, NewRef(b) - b.ref)
    BY <2>1, <2>2, RebasedGood
  <2>4. /\ lo \in TouchSlots(b) /\ hi \in TouchSlots(b) /\ TouchSlots(b) \subseteq Slots
        /\ \A s \in TouchSlots(b) : lo <= s /\ s <= hi
    BY <2>1, TouchFacts
  <2>5. hi - lo < Capacity - 1
    BY <2>1 DEF SpreadOf
  <2> HIDE DEF lo, hi, c
  <2>6. lo \in Int /\ hi \in Int /\ Slots \subseteq Int
    BY <2>4, Geometry
  <2>7. /\ m \in Int /\ d \in Int
    BY <2>6, Geometry
  <2>8. \A s \in TouchSlots(b) : s - d \in Slots
    BY <2>4, <2>5, <2>6, TouchStaysInside
  <2> HIDE DEF m
  <2>9. c.ref = b.ref + d /\ c.ladder = Shifted(b.ladder, d)
    <3>1. NewRef(b) - b.ref = d
      BY <2>1, <2>2, <2>7
    <3> QED
      BY <2>1, <2>3, <3>1
  <2> HIDE DEF d
  <2>10. ASSUME NEW side \in Sides, NEW s \in Slots
         PROVE  c.ladder[side][s] =
                  IF s + d \in Slots THEN b.ladder[side][s + d] ELSE 0
    BY <2>9 DEF Shifted
  <2>11. ASSUME NEW side \in Sides
         PROVE  LiveSlots(c, side) = {s \in Slots : s + d \in LiveSlots(b, side)}
    BY <2>10 DEF LiveSlots, Live
  <2>12. ASSUME NEW side \in Sides, HaveBest(b, side)
         PROVE  /\ c.best[side] = b.best[side] - d /\ HaveBest(c, side)
                /\ b.best[side] \in Slots /\ b.best[side] - d \in Slots
    <3>1. b.best[side] \in TouchSlots(b) /\ LiveSlots(b, side) # {}
      BY <2>12, TouchFacts
    <3>2. /\ b.best[side] \in LiveSlots(b, side) /\ b.best[side] \in Slots
          /\ IsBest(side, LiveSlots(b, side), b.best[side])
      BY <2>2, <2>4, <3>1 DEF IsBest
    <3>3. b.best[side] - d \in Slots
      BY <2>8, <3>1
    <3>4. b.best[side] - d \in LiveSlots(c, side)
      <4>0. b.best[side] \in Int
        BY <3>2, Geometry
      <4>1. (b.best[side] - d) + d = b.best[side]
        BY <2>7, <4>0
      <4> QED
        BY <2>11, <3>2, <3>3, <4>1
    <3>5. /\ IsBest(side, LiveSlots(c, side), c.best[side])
          /\ c.best[side] \in LiveSlots(c, side)
      BY <2>3, <3>4 DEF GoodBooks, Agrees, IsBest
    <3>6. /\ LiveSlots(c, side) \in SUBSET Int /\ LiveSlots(b, side) \in SUBSET Int
          /\ \A y \in LiveSlots(c, side) : y + d \in LiveSlots(b, side)
      BY <2>6, <2>11 DEF LiveSlots
    <3>7. c.best[side] = b.best[side] - d
      <4> DEFINE X == LiveSlots(b, side)
                 Y == LiveSlots(c, side)
                 x == b.best[side]
                 y == c.best[side]
      <4>1. /\ X \in SUBSET Int /\ Y \in SUBSET Int /\ d \in Int
            /\ \A z \in Y : z + d \in X
            /\ x \in X /\ y \in Y /\ x - d \in Y
            /\ IsBest(side, X, x) /\ IsBest(side, Y, y)
        BY <2>7, <3>2, <3>4, <3>5, <3>6
      <4> HIDE DEF X, Y, x, y
      <4>2. y = x - d
        BY <4>1, BestMoves
      <4> QED
        BY <4>2 DEF x, y
    <3>8. HaveBest(c, side)
      BY <2>3, <3>4, TouchFacts
    <3> QED
      BY <3>2, <3>3, <3>7, <3>8
  <2>13. ASSUME NEW side \in Sides, ~HaveBest(b, side)
         PROVE  ~HaveBest(c, side)
    <3>1. LiveSlots(b, side) = {}
      BY <2>13, TouchFacts
    <3>2. LiveSlots(c, side) = {}
      BY <2>11, <3>1
    <3> QED
      BY <2>3, <3>2, TouchFacts
  <2>14. ASSUME NEW side \in Sides PROVE TopOfBook(c, side) = TopOfBook(b, side)
    <3>1. CASE HaveBest(b, side)
      <4> DEFINE s == b.best[side]
                 t == c.best[side]
      <4>1. /\ t = s - d /\ HaveBest(c, side) /\ s \in Slots /\ t \in Slots
            /\ s \in Int /\ t \in Int /\ b.ref \in Int
        BY <2>2, <2>6, <2>12, <3>1
      <4>2. /\ {s} \ {NoBest(side)} = {s} /\ {t} \ {NoBest(side)} = {t}
        BY <3>1, <4>1 DEF HaveBest
      <4> HIDE DEF s, t
      <4>3. PriceOf(c, t) = PriceOf(b, s)
        BY <2>7, <2>9, <4>1, Geometry DEF PriceOf
      <4>4. c.ladder[side][t] = b.ladder[side][s]
        <5>1. t + d = s
          BY <2>7, <4>1
        <5> QED
          BY <2>10, <4>1, <5>1
      <4> QED
        BY <4>2, <4>3, <4>4 DEF TopOfBook, s, t
    <3>2. CASE ~HaveBest(b, side)
      BY <2>13, <3>2 DEF TopOfBook, HaveBest
    <3> QED
      BY <3>1, <3>2
  <2>15. Tops(c) = Tops(b)
    BY <2>14 DEF Tops
  <2>16. TouchSlots(c) = {s - d : s \in TouchSlots(b)}
    <3>1. {s \in Sides : HaveBest(c, s)} = {s \in Sides : HaveBest(b, s)}
      BY <2>12, <2>13
    <3>2. \A side \in {s \in Sides : HaveBest(b, s)} : c.best[side] = b.best[side] - d
      BY <2>12
    <3> QED
      BY <3>1, <3>2 DEF TouchSlots
  <2>17. Min(TouchSlots(c)) = lo - d /\ Max(TouchSlots(c)) = hi - d
    <3> DEFINE lo2 == Min(TouchSlots(c))
               hi2 == Max(TouchSlots(c))
    <3>1. /\ lo - d \in TouchSlots(c) /\ hi - d \in TouchSlots(c)
          /\ TouchSlots(c) \subseteq Int /\ TouchSlots(b) \subseteq Int
      BY <2>3, <2>4, <2>6, <2>16, TouchFacts
    <3>2. /\ lo2 \in TouchSlots(c) /\ hi2 \in TouchSlots(c)
          /\ \A s \in TouchSlots(c) : lo2 <= s /\ s <= hi2
      BY <2>3, <3>1, TouchFacts
    <3>3. /\ lo2 <= lo - d /\ hi - d <= hi2 /\ lo2 \in Int /\ hi2 \in Int
      <4> HIDE DEF lo2, hi2
      <4> QED
        BY <3>1, <3>2
    <3>4. PICK s \in TouchSlots(b) : lo2 = s - d
      <4> HIDE DEF lo2
      <4> QED
        BY <2>16, <3>2
    <3>5. PICK t \in TouchSlots(b) : hi2 = t - d
      <4> HIDE DEF hi2
      <4> QED
        BY <2>16, <3>2
    <3>6. lo <= s /\ t <= hi /\ s \in Int /\ t \in Int
      BY <2>4, <3>1
    <3> HIDE DEF lo2, hi2
    <3>7. lo2 = lo - d /\ hi2 = hi - d
      BY <2>6, <2>7, <3>3, <3>4, <3>5, <3>6
    <3> QED
      BY <3>7 DEF lo2, hi2
  <2>18. NewRef(c) = c.ref
    <3>1. ((lo - d) + (hi - d)) \div 2 = m - d
      <4>1. (lo - d) + (hi - d) = (lo + hi) - 2 * d
        BY <2>6, <2>7
      <4>2. ((lo + hi) - 2 * d) \div 2 = (lo + hi) \div 2 - d
        BY <2>6, <2>7
      <4> QED
        BY <4>1, <4>2 DEF m
    <3>2. m - d = Center
      BY <2>7, Geometry DEF d
    <3>3. c.ref \in Int
      BY <2>2, <2>7, <2>9
    <3> QED
      BY <2>17, <3>1, <3>2, <3>3, Geometry DEF NewRef
  <2>19. Recentered(c) = c
    BY <2>18 DEF Recentered, NewRef
  <2> QED
    BY <2>1, <2>15, <2>19
<1> QED
  BY <1>1, <1>2

-----------------------------------------------------------------------------
(* The levels of the book and those of the market *)

\* Every live level of a book is the market's level at that price, except for
\* the levels in open.
Holds(b, m, open) ==
  \A side \in Sides, s \in Slots :
    Live(b.ladder[side][s]) =>
      /\ PriceOf(b, s) \in Prices
      /\ \/ <<side, PriceOf(b, s)>> \in open
         \/ m[side][PriceOf(b, s)] = b.ladder[side][s]

\* A book without a reference has no level.
Blank(b) == \A side \in Sides, s \in Slots : ~Live(b.ladder[side][s])

Markets == [Sides -> [Prices -> Qtys]]

\* A price of the window is that of one slot only.
LEMMA PriceOfSlot ==
  ASSUME NEW b, b.ref \in Int, NEW price \in Int, NEW s \in Slots
  PROVE  PriceOf(b, s) \in Int /\ (PriceOf(b, s) = price <=> s = SlotOf(b, price))
BY Geometry DEF PriceOf, SlotOf

\* recenterIfNearEdge() moves slots, not prices.
LEMMA RecenteredHolds ==
  ASSUME NEW b \in GoodBooks, NEW m \in Markets, NEW open, Holds(b, m, open)
  PROVE  Holds(Recentered(b), m, open) /\ Recentered(b).haveRef = b.haveRef
PROOF
<1>1. CASE Recentered(b) = b
  BY <1>1
<1>2. CASE Recentered(b) # b
  <2> DEFINE r == NewRef(b)
             c == Rebased(b, r)
             d == r - b.ref
  <2>1. r \in Int /\ Recentered(b) = c
    BY <1>2, RecenteredCases
  <2>2. b \in Books /\ b.ref \in Int
    BY BookFields DEF GoodBooks
  <2> HIDE DEF r
  <2>3. c.ref = r /\ c.haveRef = b.haveRef /\ c.ladder = Shifted(b.ladder, d)
    BY <2>1, <2>2, RebasedGood
  <2> HIDE DEF c
  <2>4. ASSUME NEW side \in Sides, NEW s \in Slots, Live(c.ladder[side][s])
        PROVE  /\ PriceOf(c, s) \in Prices
               /\ \/ <<side, PriceOf(c, s)>> \in open
                  \/ m[side][PriceOf(c, s)] = c.ladder[side][s]
    <3>1. c.ladder[side][s] = IF s + d \in Slots THEN b.ladder[side][s + d] ELSE 0
      BY <2>3 DEF Shifted
    <3>2. s + d \in Slots /\ c.ladder[side][s] = b.ladder[side][s + d]
      BY <2>4, <3>1 DEF Live
    <3>3. PriceOf(c, s) = PriceOf(b, s + d)
      BY <2>1, <2>2, <2>3, Geometry DEF PriceOf
    <3> QED
      BY <2>4, <3>2, <3>3 DEF Holds
  <2> QED
    BY <2>1, <2>3, <2>4 DEF Holds
<1> QED
  BY <1>1, <1>2

\* update() with a change of the market: also when the level is outside of the
\* window, and when the window moves.
LEMMA UpdatedHolds ==
  ASSUME NEW b \in GoodBooks, NEW m \in Markets, NEW open, Holds(b, m, open),
         b.haveRef \/ Blank(b), NEW side \in Sides, NEW price \in Prices, NEW qty \in Qtys
  PROVE  /\ Holds(Updated(b, side, price, qty), [m EXCEPT ![side][price] = qty],
                  open \ {<<side, price>>})
         /\ Updated(b, side, price, qty).haveRef
PROOF
<1> DEFINE a == Seeded(b, price)
           slot == SlotOf(a, price)
           c == WithLevel(a, side, slot, qty)
           n == [m EXCEPT ![side][price] = qty]
           left == open \ {<<side, price>>}
<1>0. price \in Int /\ qty \in Int
  BY BookAssumption
<1>1. a \in GoodBooks /\ a.haveRef /\ a.ladder = b.ladder /\ a.ref \in Int
  BY <1>0, SeededGood, BookFields DEF GoodBooks
<1>2. Holds(a, m, open)
  <2>1. CASE b.haveRef
    BY <2>1 DEF Seeded
  <2>2. CASE Blank(b)
    BY <1>1, <2>2 DEF Holds, Blank
  <2> QED
    BY <2>1, <2>2
<1>3. Updated(b, side, price, qty) = IF slot \notin Slots THEN a ELSE Recentered(c)
  BY DEF Updated
<1>4. /\ n \in Markets /\ n[side][price] = qty
      /\ \A other \in Sides, p \in Prices :
           other # side \/ p # price => n[other][p] = m[other][p]
  BY DEF Markets
<1> HIDE DEF a, n
<1>5. CASE slot \notin Slots
  <2>1. ASSUME NEW other \in Sides, NEW s \in Slots, Live(a.ladder[other][s])
        PROVE  /\ PriceOf(a, s) \in Prices
               /\ \/ <<other, PriceOf(a, s)>> \in left
                  \/ n[other][PriceOf(a, s)] = a.ladder[other][s]
    <3>1. PriceOf(a, s) # price
      BY <1>0, <1>1, <1>5, PriceOfSlot
    <3>2. /\ PriceOf(a, s) \in Prices
          /\ \/ <<other, PriceOf(a, s)>> \in open
             \/ m[other][PriceOf(a, s)] = a.ladder[other][s]
      BY <1>2, <2>1 DEF Holds
    <3> QED
      BY <1>4, <3>1, <3>2
  <2>2. Holds(a, n, left)
    BY <2>1 DEF Holds
  <2> QED
    BY <1>1, <1>3, <1>5, <2>2 DEF n, left
<1>6. CASE slot \in Slots
  <2>1. /\ c \in GoodBooks /\ c.ref = a.ref /\ c.haveRef = a.haveRef
        /\ c.ladder = Written(a.ladder, side, slot, qty)
    <3>1. a \in GoodBooks /\ side \in Sides /\ slot \in Slots /\ qty \in Int
      BY <1>0, <1>1, <1>6
    <3> HIDE DEF slot
    <3>2. /\ WithLevel(a, side, slot, qty) \in GoodBooks
          /\ WithLevel(a, side, slot, qty).ref = a.ref
          /\ WithLevel(a, side, slot, qty).haveRef = a.haveRef
          /\ WithLevel(a, side, slot, qty).ladder = Written(a.ladder, side, slot, qty)
      BY <3>1, WithLevelGood
    <3> QED
      BY <3>2
  <2>2. a.ladder \in [Sides -> [Slots -> Int]]
    BY <1>1, BookFields DEF GoodBooks
  <2>3. ASSUME NEW other \in Sides, NEW s \in Slots, Live(c.ladder[other][s])
        PROVE  /\ PriceOf(c, s) \in Prices
               /\ \/ <<other, PriceOf(c, s)>> \in left
                  \/ n[other][PriceOf(c, s)] = c.ladder[other][s]
    <3>1. PriceOf(c, s) = PriceOf(a, s)
      BY <2>1 DEF PriceOf
    <3>2. CASE other = side /\ s = slot
      <4>1. c.ladder[other][s] = qty
        BY <2>1, <2>2, <3>2 DEF Written
      <4>2. PriceOf(a, s) = price
        BY <1>0, <1>1, <3>2, PriceOfSlot
      <4> QED
        BY <1>4, <3>1, <3>2, <4>1, <4>2
    <3>3. CASE ~(other = side /\ s = slot)
      <4>1. c.ladder[other][s] = a.ladder[other][s]
        BY <2>1, <2>2, <3>3 DEF Written
      <4>2. /\ PriceOf(a, s) \in Prices
            /\ \/ <<other, PriceOf(a, s)>> \in open
               \/ m[other][PriceOf(a, s)] = a.ladder[other][s]
        BY <1>2, <2>3, <4>1 DEF Holds
      <4>3. other # side \/ PriceOf(a, s) # price
        BY <1>0, <1>1, <3>3, PriceOfSlot
      <4> QED
        BY <1>4, <3>1, <4>1, <4>2, <4>3
    <3> QED
      BY <3>2, <3>3
  <2> HIDE DEF c
  <2>4. Holds(c, n, left)
    BY <2>3 DEF Holds
  <2>5. Holds(Recentered(c), n, left) /\ Recentered(c).haveRef
    BY <1>1, <1>4, <2>1, <2>4, RecenteredHolds
  <2> QED
    BY <1>3, <1>6, <2>5 DEF n, left
<1> QED
  BY <1>5, <1>6

-----------------------------------------------------------------------------
(* The specification of the book *)

\* No phantom levels: every live level of the book is the market's level at its
\* price, though updates outside of the window are ignored, the window moves and
\* levels leave it and come back.
BookNoPhantoms == Holds(book, market, {})

Inv ==
  /\ book \in GoodBooks /\ market \in Markets
  /\ BookNoPhantoms
  /\ book.haveRef \/ Blank(book)

\* The book and the market that the program starts with.
LEMMA EmptyFacts ==
  EmptyBook \in GoodBooks /\ Blank(EmptyBook) /\ EmptyMarket \in Markets
PROOF
<1> DEFINE have == FALSE
           ladder == EmptySides([s \in Slots |-> 0])
           bits == EmptySides({})
           best == [side \in Sides |-> NoBest(side)]
           b == EmptyBook
<1>1. b = [ref |-> 0, haveRef |-> have, ladder |-> ladder, bits |-> bits,
           summary |-> bits, best |-> best, rebases |-> 0]
  BY DEF EmptyBook
<1>2. have \in BOOLEAN
  BY Zenon
<1>3. /\ ladder \in [Sides -> [Slots -> Int]] /\ bits \in [Sides -> SUBSET Slots]
      /\ bits \in [Sides -> SUBSET Words] /\ best \in [Sides -> -1..Capacity]
  BY Geometry DEF EmptySides, NoBest
<1>4. \A side \in Sides : /\ bits[side] = {} /\ best[side] = NoBest(side)
                          /\ {s \in Slots : Live(ladder[side][s])} = {}
  BY DEF EmptySides, Live
<1>5. EmptyMarket \in Markets
  BY BookAssumption DEF EmptyMarket, EmptySides, Markets
<1> HIDE DEF have, ladder, bits, best, b
<1>6. b \in Books
  BY <1>1, <1>2, <1>3 DEF Books
<1>7. b.ladder = ladder /\ b.bits = bits /\ b.summary = bits /\ b.best = best
  BY <1>1
<1>8. \A side \in Sides : Agrees(b, side)
  BY <1>4, <1>7 DEF Agrees, LiveSlots, IsBest
<1>9. Blank(b)
  BY <1>4, <1>7 DEF Blank
<1> QED
  BY <1>5, <1>6, <1>8, <1>9 DEF GoodBooks, b

\* A client that calls clear(), seedReference() and update() in any order.
LEMMA Invariant == Spec => []Inv
PROOF
<1>1. Init => Inv
  BY EmptyFacts DEF Init, Inv, BookNoPhantoms, Holds, Blank
<1>2. Inv /\ [Next]_vars => Inv'
  <2> SUFFICES ASSUME Inv, [Next]_vars PROVE Inv'
    OBVIOUS
  <2>1. CASE Clear
    <3>1. book \in Books
      BY DEF Inv, GoodBooks
    <3>2. /\ book' \in GoodBooks /\ book'.ladder = EmptySides([s \in Slots |-> 0])
      BY <2>1, <3>1, ClearedGood DEF Clear
    <3>3. market' \in Markets
      BY <2>1, BookAssumption DEF Clear, EmptyMarket, EmptySides, Markets
    <3>4. Blank(book')
      BY <3>2 DEF Blank, EmptySides, Live
    <3>5. Holds(book', market', {})
      BY <3>4 DEF Holds, Blank
    <3> QED
      BY <3>2, <3>3, <3>4, <3>5 DEF Inv, BookNoPhantoms, Holds, Blank
  <2>2. ASSUME NEW price \in Prices, SeedReference(price) PROVE Inv'
    <3>1. price \in Int
      BY BookAssumption
    <3>2. book' = Seeded(book, price) /\ market' = market
      BY <2>2 DEF SeedReference
    <3>3. book' \in GoodBooks /\ book'.haveRef /\ book'.ladder = book.ladder
      BY <3>1, <3>2, SeededGood DEF Inv
    <3>4. CASE book.haveRef
      <4>1. book' = book
        BY <3>2, <3>4 DEF Seeded
      <4> QED
        BY <3>2, <4>1 DEF Inv, BookNoPhantoms, Holds, Blank
    <3>5. CASE Blank(book)
      <4>1. Holds(book', market', {})
        BY <3>3, <3>5 DEF Holds, Blank
      <4> QED
        BY <3>2, <3>3, <4>1 DEF Inv, BookNoPhantoms, Holds
    <3> QED
      BY <3>4, <3>5 DEF Inv
  <2>3. ASSUME NEW side \in Sides, NEW price \in Prices, NEW qty \in Qtys,
               Update(side, price, qty)
        PROVE  Inv'
    <3>1. price \in Int /\ qty \in Int
      BY BookAssumption
    <3>2. /\ book' = Updated(book, side, price, qty)
          /\ market' = [market EXCEPT ![side][price] = qty]
      BY <2>3 DEF Update
    <3>3. book' \in GoodBooks
      BY <3>1, <3>2, UpdatedGood DEF Inv
    <3>4. Holds(book', market', {}) /\ book'.haveRef
      <4>1. {} \ {<<side, price>>} = {}
        OBVIOUS
      <4>2. Holds(book, market, {}) /\ (book.haveRef \/ Blank(book))
            /\ book \in GoodBooks /\ market \in Markets
        BY DEF Inv, BookNoPhantoms
      <4>3. /\ Holds(Updated(book, side, price, qty), [market EXCEPT ![side][price] = qty],
                     {} \ {<<side, price>>})
            /\ Updated(book, side, price, qty).haveRef
        BY <4>2, UpdatedHolds, Zenon
      <4> QED
        BY <3>2, <4>1, <4>3, Zenon
    <3>5. market' \in Markets
      BY <3>2 DEF Inv, Markets
    <3> QED
      BY <3>3, <3>4, <3>5 DEF Inv, BookNoPhantoms, Holds
  <2>4. CASE UNCHANGED vars
    BY <2>4 DEF vars, Inv, BookNoPhantoms, Holds, Blank, PriceOf
  <2> QED
    BY <2>1, <2>2, <2>3, <2>4 DEF Next
<1> QED
  BY <1>1, <1>2, PTL DEF Spec

\* Type correctness of the book and the market.
THEOREM TypeCorrect == Spec => []TypeOK
PROOF
<1>1. Inv => TypeOK
  BY DEF Inv, TypeOK, GoodBooks, Books, Markets
<1> QED
  BY <1>1, Invariant, PTL

\* A good book's index agrees with its ladders.
LEMMA GoodIndex == book \in GoodBooks => IndexAgrees
PROOF
<1> SUFFICES ASSUME book \in GoodBooks PROVE IndexAgrees
  OBVIOUS
<1>1. \A side \in Sides : Agrees(book, side)
  BY DEF GoodBooks
<1> QED
  BY <1>1 DEF IndexAgrees, Agrees, LiveSlots, IsBest

\* A good book's touch survives the recentering.
LEMMA GoodTouch == book \in GoodBooks => RecenterKeepsNarrowTouch
PROOF
<1> SUFFICES ASSUME book \in GoodBooks, NEW u \in Landing,
                    SpreadOf(BeforeRecenter(u[1], u[2], u[3])) < Capacity - 1
             PROVE  LET b == BeforeRecenter(u[1], u[2], u[3])
                    IN /\ Tops(Recentered(b)) = Tops(b)
                       /\ Recentered(Recentered(b)) = Recentered(b)
  BY DEF RecenterKeepsNarrowTouch
<1> DEFINE a == Seeded(book, u[2])
<1>1. /\ u[1] \in Sides /\ u[2] \in Int /\ u[3] \in Int
      /\ SlotOf(a, u[2]) \in Slots
  BY BookAssumption DEF Landing
<1>2. a \in GoodBooks
  BY <1>1, SeededGood
<1>3. BeforeRecenter(u[1], u[2], u[3]) = WithLevel(a, u[1], SlotOf(a, u[2]), u[3])
  BY DEF BeforeRecenter
<1> HIDE DEF a
<1>4. BeforeRecenter(u[1], u[2], u[3]) \in GoodBooks
  <2> DEFINE side == u[1]
             slot == SlotOf(a, u[2])
             qty == u[3]
  <2>1. side \in Sides /\ slot \in Slots /\ qty \in Int
    BY <1>1
  <2>2. BeforeRecenter(u[1], u[2], u[3]) = WithLevel(a, side, slot, qty)
    BY <1>3
  <2> HIDE DEF side, slot, qty
  <2>3. WithLevel(a, side, slot, qty) \in GoodBooks
    BY <1>2, <2>1, WithLevelGood
  <2> QED
    BY <2>2, <2>3
<1> QED
  BY <1>4, RecenteredKeeps

\* The bits, the summary and the cached best slots agree with the ladders after
\* every sequence of calls of clear(), seedReference() and update().
THEOREM IndexNeverDisagrees == Spec => []IndexAgrees
PROOF
<1>1. Inv => book \in GoodBooks
  BY DEF Inv
<1> QED
  BY <1>1, GoodIndex, Invariant, PTL

\* recenterIfNearEdge() never changes what topOfBook() returns, and one
\* recentering is enough, for every touch narrower than the window.
THEOREM NarrowTouchKept == Spec => []RecenterKeepsNarrowTouch
PROOF
<1>1. Inv => book \in GoodBooks
  BY DEF Inv
<1> QED
  BY <1>1, GoodTouch, Invariant, PTL

\* No phantom levels: every live level of the book is one of the market.
THEOREM NoPhantoms == Spec => []BookNoPhantoms
PROOF
<1>1. Inv => BookNoPhantoms
  BY DEF Inv
<1> QED
  BY <1>1, Invariant, PTL

-----------------------------------------------------------------------------
(* The parser *)

\* Picked() looks at one element after the other.
PickedWalk(f, E, s, at) ==
  /\ f \in [0..Len(s) -> Seq(E)] /\ f[0] = << >>
  /\ \A i \in 1..Len(s) : f[i] = (IF i \in at THEN Append(f[i - 1], s[i]) ELSE f[i - 1])
  /\ Picked(s, at) = f[Len(s)]

\* There is such a walk: the recursion of the definition has a solution.
LEMMA PickedWalkExists ==
  ASSUME NEW E, NEW s \in Seq(E), NEW at
  PROVE  \E f : PickedWalk(f, E, s, at)
PROOF
<1> DEFINE n == Len(s)
           V == Seq(E)
           first == << >>
           F == [i \in 1..n |-> [v \in V |-> (IF i \in at THEN Append(v, s[i]) ELSE v)]]
           G(h) == [i \in 0..n |-> IF i = 0 THEN first ELSE
                      (IF i \in at THEN Append(h[i - 1], s[i]) ELSE h[i - 1])]
           f == CHOOSE h : h = G(h)
<1>1. n \in Nat /\ first \in V
  OBVIOUS
<1>2. \A i \in 1..n, v \in V : (IF i \in at THEN Append(v, s[i]) ELSE v) \in V
  <2>1. \A i \in 1..n : s[i] \in E
    OBVIOUS
  <2> QED
    BY <2>1
<1>3. F \in [1..n -> [V -> V]]
  <2> HIDE DEF V, n
  <2> QED
    BY <1>2
<1>4. PICK g : /\ g \in [0..n -> V]
               /\ g[0] = first /\ \A i \in 1..n : g[i] = F[i][g[i - 1]]
  <2> HIDE DEF F, V, n, first
  <2>1. \E g : Recursive(g, V, first, n, F)
    BY <1>1, <1>3, Recursion
  <2> QED
    BY <2>1, Zenon DEF Recursive
<1>5. g = G(g)
  <2> HIDE DEF V, n, first
  <2>1. ASSUME NEW i \in 0..n, i # 0
        PROVE  g[i] = (IF i \in at THEN Append(g[i - 1], s[i]) ELSE g[i - 1])
    <3>1. i \in 1..n /\ i - 1 \in 0..n
      BY <1>1, <2>1
    <3>2. g[i - 1] \in V /\ g[i] = F[i][g[i - 1]]
      BY <1>4, <3>1
    <3> QED
      BY <3>1, <3>2
  <2>2. g = [i \in 0..n |-> g[i]]
    BY <1>4
  <2> QED
    BY <1>4, <2>1, <2>2, Zenon
<1>6. f = G(f)
  <2> HIDE DEF G
  <2> QED
    BY <1>5, Zenon
<1>7. /\ f[0] = first
      /\ \A i \in 1..n : f[i] = (IF i \in at THEN Append(f[i - 1], s[i]) ELSE f[i - 1])
  <2>1. 0 \in 0..n /\ \A i \in 1..n : i \in 0..n /\ i # 0
    BY <1>1
  <2> HIDE DEF f, n, first
  <2> QED
    BY <1>6, <2>1, Zenon
<1>8. Picked(s, at) = f[n]
  BY Zenon DEF Picked
<1>9. f = [i \in 0..n |-> f[i]]
  <2>1. \A h : h = G(h) => h = [i \in 0..n |-> h[i]]
    OBVIOUS
  <2> HIDE DEF f, G
  <2> QED
    BY <1>6, <2>1
<1>10. f \in [0..n -> V]
  <2> HIDE DEF f, V, n, first
  <2>1. f[0] \in V
    BY <1>1, <1>7
  <2>2. \A i \in 1..n : f[i - 1] \in V => f[i] \in V
    BY <1>2, <1>7
  <2> QED
    BY <1>1, <1>9, <2>1, <2>2, Stays
<1>11. PickedWalk(f, E, s, at)
  BY <1>7, <1>8, <1>10, Zenon DEF PickedWalk
<1> QED
  BY <1>11

\* What is picked has what the picked positions have.
LEMMA PickedType ==
  ASSUME NEW E, NEW s \in Seq(E), NEW at, NEW T,
         \A i \in 1..Len(s) : i \in at => s[i] \in T
  PROVE  Picked(s, at) \in Seq(T)
PROOF
<1>0. PICK f : PickedWalk(f, E, s, at)
  BY PickedWalkExists
<1>1. /\ f \in [0..Len(s) -> Seq(E)] /\ f[0] = << >>
      /\ \A i \in 1..Len(s) : f[i] = IF i \in at THEN Append(f[i - 1], s[i]) ELSE f[i - 1]
      /\ Picked(s, at) = f[Len(s)]
  BY <1>0 DEF PickedWalk
<1> DEFINE V == Seq(T)
           n == Len(s)
<1>2. n \in Nat /\ f = [i \in 0..n |-> f[i]] /\ n \in 0..n
  BY <1>1
<1>3. f[0] \in V
  BY <1>1
<1>4. ASSUME NEW i \in 1..n, f[i - 1] \in V PROVE f[i] \in V
  <2>1. f[i] = IF i \in at THEN Append(f[i - 1], s[i]) ELSE f[i - 1]
    BY <1>1
  <2>2. \A v \in V, e \in T : Append(v, e) \in V
    OBVIOUS
  <2>3. i \in at => s[i] \in T
    OBVIOUS
  <2> HIDE DEF V
  <2> QED
    BY <1>4, <2>1, <2>2, <2>3
<1> HIDE DEF V, n
<1>5. f \in [0..n -> V]
  BY <1>2, <1>3, <1>4, Stays
<1>6. f[n] \in V
  BY <1>2, <1>5
<1> QED
  BY <1>1, <1>6 DEF V, n

\* The positions of s after the k-th.
Rest(at, s, k) == k \in 0..Len(s) /\ \A i \in 1..Len(s) : i \in at <=> i > k

\* If these are picked, those elements are there.
LEMMA PickedAfter ==
  ASSUME NEW E, NEW s \in Seq(E), NEW at, NEW k, Rest(at, s, k)
  PROVE  /\ Picked(s, at) \in Seq(E) /\ Len(Picked(s, at)) = Len(s) - k
         /\ \A j \in 1..(Len(s) - k) : Picked(s, at)[j] = s[k + j]
PROOF
<1>0. PICK f : PickedWalk(f, E, s, at)
  BY PickedWalkExists
<1>1. /\ f \in [0..Len(s) -> Seq(E)] /\ f[0] = << >>
      /\ \A i \in 1..Len(s) : f[i] = IF i \in at THEN Append(f[i - 1], s[i]) ELSE f[i - 1]
      /\ Picked(s, at) = f[Len(s)]
  BY <1>0 DEF PickedWalk
<1> DEFINE n == Len(s)
           Copied(i) == IF i <= k THEN f[i] = << >>
                        ELSE Len(f[i]) = i - k /\ \A j \in 1..(i - k) : f[i][j] = s[k + j]
           S == {i \in 0..n : Copied(i)}
<1>2. n \in Nat /\ n \in 0..n /\ 0 \in 0..n /\ k \in Nat /\ k <= n
  BY DEF Rest
<1>3. 0 \in S
  BY <1>1, <1>2
<1>4. ASSUME NEW i \in 1..n, i - 1 \in S PROVE i \in S
  <2>0. Copied(i - 1) /\ i - 1 \in 0..n
    BY <1>4, Zenon
  <2>1. i - 1 \in 0..n /\ i \in Int /\ Copied(i - 1) /\ f[i - 1] \in Seq(E) /\ s[i] \in E
    <3> HIDE DEF Copied
    <3> QED
      BY <1>1, <2>0
  <2>2. f[i] = IF i > k THEN Append(f[i - 1], s[i]) ELSE f[i - 1]
    BY <1>1 DEF Rest
  <2>3. CASE i <= k
    BY <1>2, <2>1, <2>2, <2>3
  <2>4. CASE i > k
    <3>1. Len(f[i - 1]) = (i - 1) - k
      BY <1>2, <2>1, <2>4
    <3>2. \A j \in 1..((i - 1) - k) : f[i - 1][j] = s[k + j]
      BY <1>2, <2>1, <2>4
    <3>3. f[i] = Append(f[i - 1], s[i])
      BY <2>2, <2>4
    <3>4. /\ Len(f[i]) = i - k /\ f[i][i - k] = s[i]
          /\ \A j \in 1..((i - 1) - k) : f[i][j] = f[i - 1][j]
      BY <1>2, <2>1, <2>4, <3>1, <3>3
    <3>5. \A j \in 1..(i - k) : j = i - k \/ j \in 1..((i - 1) - k)
      BY <1>2, <2>1
    <3>6. k + (i - k) = i
      BY <1>2, <2>1
    <3>7. \A j \in 1..(i - k) : f[i][j] = s[k + j]
      BY <3>2, <3>4, <3>5, <3>6
    <3>8. Copied(i)
      BY <1>2, <2>1, <2>4, <3>4, <3>7
    <3> QED
      BY <3>8
  <2> QED
    BY <1>2, <2>1, <2>3, <2>4
<1> HIDE DEF S, n
<1>5. \A i \in 0..n : i \in S
  BY <1>2, <1>3, <1>4, BoundedInduction, Zenon
<1>6. Copied(n) /\ f[n] \in Seq(E)
  BY <1>1, <1>2, <1>5 DEF S, n
<1>7. Len(f[n]) = n - k /\ \A j \in 1..(n - k) : f[n][j] = s[k + j]
  <2>1. CASE n <= k
    <3>1. n = k /\ f[n] = << >>
      BY <1>2, <1>6, <2>1
    <3> QED
      BY <1>2, <3>1
  <2>2. CASE n > k
    BY <1>2, <1>6, <2>2
  <2> QED
    BY <1>2, <2>1, <2>2
<1> QED
  BY <1>1, <1>6, <1>7 DEF n

\* Every position of s.
Whole(at, s) == \A i \in 1..Len(s) : i \in at

\* If every position is picked, every element is there, in its place.
LEMMA PickedAll ==
  ASSUME NEW E, NEW s \in Seq(E), NEW at, Whole(at, s)
  PROVE  /\ Picked(s, at) \in Seq(E) /\ Len(Picked(s, at)) = Len(s)
         /\ \A j \in 1..Len(s) : Picked(s, at)[j] = s[j]
PROOF
<1> DEFINE k == 0
<1>1. Rest(at, s, k)
  BY DEF Rest, Whole
<1>2. Len(s) - k = Len(s) /\ \A j \in 1..Len(s) : k + j = j
  OBVIOUS
<1> HIDE DEF k
<1>3. /\ Picked(s, at) \in Seq(E) /\ Len(Picked(s, at)) = Len(s) - k
      /\ \A j \in 1..(Len(s) - k) : Picked(s, at)[j] = s[k + j]
  BY <1>1, PickedAfter
<1> QED
  BY <1>2, <1>3

\* The parser finds both numbers of an entry that has only them.
LEMMA TwoNumbers ==
  ASSUME NEW E, NEW s \in Seq(E), Len(s) = 2, IsNumber(s[1]), IsNumber(s[2])
  PROVE  Len(Numbers(s)) = 2 /\ Numbers(s)[1] = s[1] /\ Numbers(s)[2] = s[2]
PROOF
<1> DEFINE at == {i \in 1..Len(s) : IsNumber(s[i])}
<1>1. \A i \in 1..Len(s) : i = 1 \/ i = 2
  OBVIOUS
<1>2. Whole(at, s)
  BY <1>1 DEF Whole
<1>3. Numbers(s) = Picked(s, at)
  BY DEF Numbers
<1> HIDE DEF at
<1>4. Len(Picked(s, at)) = Len(s) /\ \A j \in 1..Len(s) : Picked(s, at)[j] = s[j]
  BY <1>2, PickedAll
<1> QED
  BY <1>3, <1>4

\* A level as the feed writes it.
LEMMA LevelParsed ==
  ASSUME NEW v, NEW q
  PROVE  LET s == <<Num(v), Num(q)>>
         IN IsLevel(s) /\ Numbers(s)[1].value = v /\ Numbers(s)[2].value = q
PROOF
<1> DEFINE s == <<Num(v), Num(q)>>
<1>1. s \in Seq({Num(v), Num(q)}) /\ Len(s) = 2 /\ s[1] = Num(v) /\ s[2] = Num(q)
  OBVIOUS
<1>2. IsNumber(s[1]) /\ IsNumber(s[2]) /\ s[1].value = v /\ s[2].value = q
  BY <1>1 DEF IsNumber, Num
<1> HIDE DEF s
<1>3. Len(Numbers(s)) = 2 /\ Numbers(s)[1] = s[1] /\ Numbers(s)[2] = s[2]
  BY <1>1, <1>2, TwoNumbers
<1>4. IsLevel(s)
  BY <1>3 DEF IsLevel
<1> QED
  BY <1>2, <1>3, <1>4 DEF s

\* What is left of a sequence without its first element.
LEMMA TailFacts ==
  ASSUME NEW E, NEW w \in Seq(E), NEW k \in Nat, Len(w) = k + 1
  PROVE  /\ Tail(w) \in Seq(E) /\ Len(Tail(w)) = k
         /\ \A i \in 1..k : Tail(w)[i] = w[i + 1]
OBVIOUS

\* A change as the feed writes it.
LEMMA ChangeParsed ==
  ASSUME NEW t, NEW v, NEW q
  PROVE  LET s == <<Str(t), Num(v), Num(q)>>
             n == Numbers(Tail(Strings(s)))
         IN /\ IsChange(s) /\ Strings(s)[1] = Str(t)
            /\ n[1].value = v /\ n[2].value = q
PROOF
<1> DEFINE s == <<Str(t), Num(v), Num(q)>>
           at == {i \in 1..Len(s) : IsString(s[i])}
           E == {Str(t), Num(v), Num(q)}
<1>1. s \in Seq(E) /\ Len(s) = 3 /\ s[1] = Str(t) /\ s[2] = Num(v) /\ s[3] = Num(q)
  OBVIOUS
<1>2. /\ IsString(s[1]) /\ IsString(s[2]) /\ IsString(s[3])
      /\ IsNumber(s[2]) /\ IsNumber(s[3]) /\ s[2].value = v /\ s[3].value = q
  BY <1>1 DEF IsString, IsNumber, Num, Str
<1> HIDE DEF s
<1>3. Whole(at, s)
  <2>1. \A i \in 1..Len(s) : i = 1 \/ i = 2 \/ i = 3
    BY <1>1
  <2> QED
    BY <1>2, <2>1 DEF Whole
<1>4. Strings(s) = Picked(s, at)
  BY DEF Strings
<1> HIDE DEF at, E
<1>5. /\ Strings(s) \in Seq(E) /\ Len(Strings(s)) = 3
      /\ Strings(s)[1] = s[1] /\ Strings(s)[2] = s[2] /\ Strings(s)[3] = s[3]
  <2>1. /\ Picked(s, at) \in Seq(E) /\ Len(Picked(s, at)) = Len(s)
        /\ \A j \in 1..Len(s) : Picked(s, at)[j] = s[j]
    BY <1>1, <1>3, PickedAll
  <2>2. 1 \in 1..Len(s) /\ 2 \in 1..Len(s) /\ 3 \in 1..Len(s)
    BY <1>1
  <2> QED
    BY <1>1, <1>4, <2>1, <2>2
<1> DEFINE u == Tail(Strings(s))
<1>6. u \in Seq(E) /\ Len(u) = 2 /\ u[1] = s[2] /\ u[2] = s[3] /\ Strings(s) # << >>
  <2> DEFINE w == Strings(s)
  <2>1. w \in Seq(E) /\ Len(w) = 3
    BY <1>5
  <2>2. u = Tail(w)
    OBVIOUS
  <2> HIDE DEF w, u
  <2>3. w # << >> /\ 2 \in Nat /\ Len(w) = 2 + 1
    BY <2>1
  <2>4. /\ Tail(w) \in Seq(E) /\ Len(Tail(w)) = 2
        /\ \A i \in 1..2 : Tail(w)[i] = w[i + 1]
    BY <2>1, <2>3, TailFacts
  <2>5. 1 \in 1..2 /\ 2 \in 1..2 /\ 1 + 1 = 2 /\ 2 + 1 = 3
    OBVIOUS
  <2>6. Tail(w)[1] = w[2] /\ Tail(w)[2] = w[3]
    BY <2>4, <2>5
  <2> QED
    BY <1>5, <2>2, <2>3, <2>4, <2>6 DEF w
<1> HIDE DEF u
<1>7. Len(Numbers(u)) = 2 /\ Numbers(u)[1] = s[2] /\ Numbers(u)[2] = s[3]
  BY <1>2, <1>6, TwoNumbers
<1>8. IsChange(s)
  BY <1>6, <1>7 DEF IsChange, u
<1> QED
  BY <1>1, <1>2, <1>5, <1>7, <1>8 DEF s, u

-----------------------------------------------------------------------------
(* The walks of the feed *)

\* A level of an event; what the parser makes of an l2update, and what the
\* exchange means by one.
LevelRecords == [price : Int, qty : Int]
Changes == [side : Sides, price : Int, qty : Int]
Meanings == [side : Sides, price : Prices, qty : Qtys]

\* The nearest tick is an integer.
LEMMA FromDoubleType ==
  ASSUME NEW v \in Int
  PROVE  FromDouble(v) \in Int
PROOF
<1>1. 2 * v + Parts \in Int /\ 2 * Parts \in Nat \ {0}
  BY FeedAssumption
<1> DEFINE a == 2 * v + Parts
           d == 2 * Parts
<1> HIDE DEF a, d
<1>2. a \div d \in Int
  BY <1>1 DEF a, d
<1> QED
  BY <1>2 DEF FromDouble, a, d

\* A side of a snapshot goes into the book level by level.
WithSideWalk(f, b, side, levels) ==
  /\ f \in [0..Len(levels) -> GoodBooks] /\ f[0] = b
  /\ \A i \in 1..Len(levels) : f[i] = Updated(f[i - 1], side, levels[i].price, levels[i].qty)
  /\ WithSide(b, side, levels) = f[Len(levels)]

\* There is such a walk: the recursion of the definition has a solution.
LEMMA WithSideWalkExists ==
  ASSUME NEW b \in GoodBooks, NEW side \in Sides, NEW levels \in Seq(LevelRecords)
  PROVE  \E f : WithSideWalk(f, b, side, levels)
PROOF
<1> DEFINE n == Len(levels)
           V == GoodBooks
           first == b
           F == [i \in 1..n |-> [v \in V |-> Updated(v, side, levels[i].price, levels[i].qty)]]
           G(h) == [i \in 0..n |-> IF i = 0 THEN first ELSE
                      Updated(h[i - 1], side, levels[i].price, levels[i].qty)]
           f == CHOOSE h : h = G(h)
<1>1. n \in Nat /\ first \in V
  OBVIOUS
<1>2. \A i \in 1..n, v \in V : Updated(v, side, levels[i].price, levels[i].qty) \in V
  <2>1. \A i \in 1..n : levels[i] \in LevelRecords
    OBVIOUS
  <2>2. \A i \in 1..n : levels[i].price \in Int /\ levels[i].qty \in Int
    BY <2>1 DEF LevelRecords
  <2> HIDE DEF n
  <2> QED
    BY <2>2, UpdatedGood, Zenon
<1>3. F \in [1..n -> [V -> V]]
  <2> HIDE DEF V, n
  <2> QED
    BY <1>2
<1>4. PICK g : /\ g \in [0..n -> V]
               /\ g[0] = first /\ \A i \in 1..n : g[i] = F[i][g[i - 1]]
  <2> HIDE DEF F, V, n, first
  <2>1. \E g : Recursive(g, V, first, n, F)
    BY <1>1, <1>3, Recursion
  <2> QED
    BY <2>1, Zenon DEF Recursive
<1>5. g = G(g)
  <2> HIDE DEF V, n, first
  <2>1. ASSUME NEW i \in 0..n, i # 0
        PROVE  g[i] = Updated(g[i - 1], side, levels[i].price, levels[i].qty)
    <3>1. i \in 1..n /\ i - 1 \in 0..n
      BY <1>1, <2>1
    <3>2. g[i - 1] \in V /\ g[i] = F[i][g[i - 1]]
      BY <1>4, <3>1
    <3> QED
      BY <3>1, <3>2
  <2>2. g = [i \in 0..n |-> g[i]]
    BY <1>4
  <2> QED
    BY <1>4, <2>1, <2>2, Zenon
<1>6. f = G(f)
  <2> HIDE DEF G
  <2> QED
    BY <1>5, Zenon
<1>7. /\ f[0] = first
      /\ \A i \in 1..n : f[i] = Updated(f[i - 1], side, levels[i].price, levels[i].qty)
  <2>1. 0 \in 0..n /\ \A i \in 1..n : i \in 0..n /\ i # 0
    BY <1>1
  <2> HIDE DEF f, n, first
  <2> QED
    BY <1>6, <2>1, Zenon
<1>8. WithSide(b, side, levels) = f[n]
  BY Zenon DEF WithSide
<1>9. f = [i \in 0..n |-> f[i]]
  <2>1. \A h : h = G(h) => h = [i \in 0..n |-> h[i]]
    OBVIOUS
  <2> HIDE DEF f, G
  <2> QED
    BY <1>6, <2>1
<1>10. f \in [0..n -> V]
  <2> HIDE DEF f, V, n, first
  <2>1. f[0] \in V
    BY <1>1, <1>7
  <2>2. \A i \in 1..n : f[i - 1] \in V => f[i] \in V
    BY <1>2, <1>7
  <2> QED
    BY <1>1, <1>9, <2>1, <2>2, Stays
<1>11. WithSideWalk(f, b, side, levels)
  BY <1>7, <1>8, <1>10, Zenon DEF WithSideWalk
<1> QED
  BY <1>11

\* An L2Update event goes into the book change by change.
ChangesWalk(f, b, changes) ==
  /\ f \in [0..Len(changes) -> GoodBooks] /\ f[0] = b
  /\ \A i \in 1..Len(changes) :
       f[i] = Updated(f[i - 1], changes[i].side, FromDouble(changes[i].price), changes[i].qty)
  /\ ChangesApplied(b, changes) = f[Len(changes)]

\* There is such a walk: the recursion of the definition has a solution.
LEMMA ChangesWalkExists ==
  ASSUME NEW b \in GoodBooks, NEW changes \in Seq(Changes)
  PROVE  \E f : ChangesWalk(f, b, changes)
PROOF
<1> DEFINE n == Len(changes)
           V == GoodBooks
           first == b
           F == [i \in 1..n |-> [v \in V |->
                  Updated(v, changes[i].side, FromDouble(changes[i].price), changes[i].qty)]]
           G(h) == [i \in 0..n |-> IF i = 0 THEN first ELSE
                      Updated(h[i - 1], changes[i].side, FromDouble(changes[i].price),
                              changes[i].qty)]
           f == CHOOSE h : h = G(h)
<1>1. n \in Nat /\ first \in V
  OBVIOUS
<1>2. \A i \in 1..n, v \in V :
        Updated(v, changes[i].side, FromDouble(changes[i].price), changes[i].qty) \in V
  <2>1. \A i \in 1..n : changes[i] \in Changes
    OBVIOUS
  <2>2. \A i \in 1..n : /\ changes[i].side \in Sides /\ changes[i].price \in Int
                        /\ changes[i].qty \in Int
    BY <2>1 DEF Changes
  <2>3. \A i \in 1..n : FromDouble(changes[i].price) \in Int
    BY <2>2, FromDoubleType
  <2> HIDE DEF n
  <2> QED
    BY <2>2, <2>3, UpdatedGood, Zenon
<1>3. F \in [1..n -> [V -> V]]
  <2> HIDE DEF V, n
  <2> QED
    BY <1>2
<1>4. PICK g : /\ g \in [0..n -> V]
               /\ g[0] = first /\ \A i \in 1..n : g[i] = F[i][g[i - 1]]
  <2> HIDE DEF F, V, n, first
  <2>1. \E g : Recursive(g, V, first, n, F)
    BY <1>1, <1>3, Recursion
  <2> QED
    BY <2>1, Zenon DEF Recursive
<1>5. g = G(g)
  <2> HIDE DEF V, n, first
  <2>1. ASSUME NEW i \in 0..n, i # 0
        PROVE  g[i] = Updated(g[i - 1], changes[i].side, FromDouble(changes[i].price),
                              changes[i].qty)
    <3>1. i \in 1..n /\ i - 1 \in 0..n
      BY <1>1, <2>1
    <3>2. g[i - 1] \in V /\ g[i] = F[i][g[i - 1]]
      BY <1>4, <3>1
    <3> QED
      BY <3>1, <3>2
  <2>2. g = [i \in 0..n |-> g[i]]
    BY <1>4
  <2> QED
    BY <1>4, <2>1, <2>2, Zenon
<1>6. f = G(f)
  <2> HIDE DEF G
  <2> QED
    BY <1>5, Zenon
<1>7. /\ f[0] = first
      /\ \A i \in 1..n : f[i] = Updated(f[i - 1], changes[i].side,
                                         FromDouble(changes[i].price), changes[i].qty)
  <2>1. 0 \in 0..n /\ \A i \in 1..n : i \in 0..n /\ i # 0
    BY <1>1
  <2> HIDE DEF f, n, first
  <2> QED
    BY <1>6, <2>1, Zenon
<1>8. ChangesApplied(b, changes) = f[n]
  BY Zenon DEF ChangesApplied
<1>9. f = [i \in 0..n |-> f[i]]
  <2>1. \A h : h = G(h) => h = [i \in 0..n |-> h[i]]
    OBVIOUS
  <2> HIDE DEF f, G
  <2> QED
    BY <1>6, <2>1
<1>10. f \in [0..n -> V]
  <2> HIDE DEF f, V, n, first
  <2>1. f[0] \in V
    BY <1>1, <1>7
  <2>2. \A i \in 1..n : f[i - 1] \in V => f[i] \in V
    BY <1>2, <1>7
  <2> QED
    BY <1>1, <1>9, <2>1, <2>2, Stays
<1>11. ChangesWalk(f, b, changes)
  BY <1>7, <1>8, <1>10, Zenon DEF ChangesWalk
<1> QED
  BY <1>11

\* The exchange's book changes with each change.
MarketWalk(f, m, said) ==
  /\ f \in [0..Len(said) -> Markets] /\ f[0] = m
  /\ \A i \in 1..Len(said) : f[i] = WithChange(f[i - 1], said[i])
  /\ MarketAfter(m, said) = f[Len(said)]

\* There is such a walk: the recursion of the definition has a solution.
LEMMA MarketWalkExists ==
  ASSUME NEW m \in Markets, NEW said \in Seq(Meanings)
  PROVE  \E f : MarketWalk(f, m, said)
PROOF
<1> DEFINE n == Len(said)
           V == Markets
           first == m
           F == [i \in 1..n |-> [v \in V |-> WithChange(v, said[i])]]
           G(h) == [i \in 0..n |-> IF i = 0 THEN first ELSE WithChange(h[i - 1], said[i])]
           f == CHOOSE h : h = G(h)
<1>1. n \in Nat /\ first \in V
  OBVIOUS
<1>2. \A i \in 1..n, v \in V : WithChange(v, said[i]) \in V
  <2>1. \A i \in 1..n : said[i] \in Meanings
    OBVIOUS
  <2>2. \A v \in V, ch \in Meanings : WithChange(v, ch) \in V
    BY DEF Markets, Meanings, WithChange
  <2> HIDE DEF n, V
  <2> QED
    BY <2>1, <2>2, Zenon
<1>3. F \in [1..n -> [V -> V]]
  <2> HIDE DEF V, n
  <2> QED
    BY <1>2
<1>4. PICK g : /\ g \in [0..n -> V]
               /\ g[0] = first /\ \A i \in 1..n : g[i] = F[i][g[i - 1]]
  <2> HIDE DEF F, V, n, first
  <2>1. \E g : Recursive(g, V, first, n, F)
    BY <1>1, <1>3, Recursion
  <2> QED
    BY <2>1, Zenon DEF Recursive
<1>5. g = G(g)
  <2> HIDE DEF V, n, first
  <2>1. ASSUME NEW i \in 0..n, i # 0
        PROVE  g[i] = WithChange(g[i - 1], said[i])
    <3>1. i \in 1..n /\ i - 1 \in 0..n
      BY <1>1, <2>1
    <3>2. g[i - 1] \in V /\ g[i] = F[i][g[i - 1]]
      BY <1>4, <3>1
    <3> QED
      BY <3>1, <3>2
  <2>2. g = [i \in 0..n |-> g[i]]
    BY <1>4
  <2> QED
    BY <1>4, <2>1, <2>2, Zenon
<1>6. f = G(f)
  <2> HIDE DEF G
  <2> QED
    BY <1>5, Zenon
<1>7. /\ f[0] = first
      /\ \A i \in 1..n : f[i] = WithChange(f[i - 1], said[i])
  <2>1. 0 \in 0..n /\ \A i \in 1..n : i \in 0..n /\ i # 0
    BY <1>1
  <2> HIDE DEF f, n, first
  <2> QED
    BY <1>6, <2>1, Zenon
<1>8. MarketAfter(m, said) = f[n]
  BY Zenon DEF MarketAfter
<1>9. f = [i \in 0..n |-> f[i]]
  <2>1. \A h : h = G(h) => h = [i \in 0..n |-> h[i]]
    OBVIOUS
  <2> HIDE DEF f, G
  <2> QED
    BY <1>6, <2>1
<1>10. f \in [0..n -> V]
  <2> HIDE DEF f, V, n, first
  <2>1. f[0] \in V
    BY <1>1, <1>7
  <2>2. \A i \in 1..n : f[i - 1] \in V => f[i] \in V
    BY <1>2, <1>7
  <2> QED
    BY <1>1, <1>9, <2>1, <2>2, Stays
<1>11. MarketWalk(f, m, said)
  BY <1>7, <1>8, <1>10, Zenon DEF MarketWalk
<1> QED
  BY <1>11

\* The best price is taken off the list, again and again.
ListedWalk(f, side, prices) ==
  /\ f \in [0..Cardinality(prices) -> (SUBSET prices)] /\ f[0] = prices
  /\ \A i \in 1..Cardinality(prices) : f[i] = f[i - 1] \ {BestOf(side, f[i - 1])}
  /\ Listed(side, prices) = [i \in 1..Cardinality(prices) |-> BestOf(side, f[i - 1])]

\* There is such a walk: the recursion of the definition has a solution.
LEMMA ListedWalkExists ==
  ASSUME NEW side \in Sides, NEW prices, Cardinality(prices) \in Nat
  PROVE  \E f : ListedWalk(f, side, prices)
PROOF
<1> DEFINE n == Cardinality(prices)
           V == (SUBSET prices)
           first == prices
           F == [i \in 1..n |-> [v \in V |-> v \ {BestOf(side, v)}]]
           G(h) == [i \in 0..n |-> IF i = 0 THEN first ELSE h[i - 1] \ {BestOf(side, h[i - 1])}]
           f == CHOOSE h : h = G(h)
<1>1. n \in Nat /\ first \in V
  OBVIOUS
<1>2. \A i \in 1..n, v \in V : v \ {BestOf(side, v)} \in V
  OBVIOUS
<1>3. F \in [1..n -> [V -> V]]
  <2> HIDE DEF V, n
  <2> QED
    BY <1>2
<1>4. PICK g : /\ g \in [0..n -> V]
               /\ g[0] = first /\ \A i \in 1..n : g[i] = F[i][g[i - 1]]
  <2> HIDE DEF F, V, n, first
  <2>1. \E g : Recursive(g, V, first, n, F)
    BY <1>1, <1>3, Recursion
  <2> QED
    BY <2>1, Zenon DEF Recursive
<1>5. g = G(g)
  <2> HIDE DEF V, n, first
  <2>1. ASSUME NEW i \in 0..n, i # 0
        PROVE  g[i] = g[i - 1] \ {BestOf(side, g[i - 1])}
    <3>1. i \in 1..n /\ i - 1 \in 0..n
      BY <1>1, <2>1
    <3>2. g[i - 1] \in V /\ g[i] = F[i][g[i - 1]]
      BY <1>4, <3>1
    <3> QED
      BY <3>1, <3>2
  <2>2. g = [i \in 0..n |-> g[i]]
    BY <1>4
  <2> QED
    BY <1>4, <2>1, <2>2, Zenon
<1>6. f = G(f)
  <2> HIDE DEF G
  <2> QED
    BY <1>5, Zenon
<1>7. /\ f[0] = first
      /\ \A i \in 1..n : f[i] = f[i - 1] \ {BestOf(side, f[i - 1])}
  <2>1. 0 \in 0..n /\ \A i \in 1..n : i \in 0..n /\ i # 0
    BY <1>1
  <2> HIDE DEF f, n, first
  <2> QED
    BY <1>6, <2>1, Zenon
<1>8. Listed(side, prices) = [i \in 1..Cardinality(prices) |-> BestOf(side, f[i - 1])]
  BY Zenon DEF Listed
<1>9. f = [i \in 0..n |-> f[i]]
  <2>1. \A h : h = G(h) => h = [i \in 0..n |-> h[i]]
    OBVIOUS
  <2> HIDE DEF f, G
  <2> QED
    BY <1>6, <2>1
<1>10. f \in [0..n -> V]
  <2> HIDE DEF f, V, n, first
  <2>1. f[0] \in V
    BY <1>1, <1>7
  <2>2. \A i \in 1..n : f[i - 1] \in V => f[i] \in V
    BY <1>2, <1>7
  <2> QED
    BY <1>1, <1>9, <2>1, <2>2, Stays
<1>11. ListedWalk(f, side, prices)
  BY <1>7, <1>8, <1>10, Zenon DEF ListedWalk
<1> QED
  BY <1>11

-----------------------------------------------------------------------------
(* The snapshot *)

HasExtremes(S) == \E lo, hi \in S : \A y \in S : lo <= y /\ y <= hi

\* A finite set of integers that is not empty has a least and a greatest element.
LEMMA ExtremesExist ==
  ASSUME NEW S \in SUBSET Int, IsFiniteSet(S), S # {}
  PROVE  HasExtremes(S)
PROOF
<1> DEFINE Sized(T, n) == T \in SUBSET Int /\ IsFiniteSet(T) /\ Cardinality(T) = n + 1
           P == {n \in Nat : \A T : Sized(T, n) => HasExtremes(T)}
<1>1. 0 \in P
  <2> SUFFICES ASSUME NEW T, Sized(T, 0) PROVE HasExtremes(T)
    OBVIOUS
  <2>1. Cardinality(T) = 1 /\ IsFiniteSet(T)
    OBVIOUS
  <2>2. PICK x : T = {x}
    BY <2>1, FS_Singleton, Zenon
  <2>3. x \in Int /\ x \in T
    BY <2>2
  <2>4. \A y \in T : x <= y /\ y <= x
    BY <2>2, <2>3
  <2> QED
    BY <2>3, <2>4 DEF HasExtremes
<1>2. ASSUME NEW n \in Nat, n \in P PROVE n + 1 \in P
  <2> SUFFICES ASSUME NEW T, Sized(T, n + 1) PROVE HasExtremes(T)
    OBVIOUS
  <2>1. Cardinality(T) # 0 /\ IsFiniteSet(T) /\ T \in SUBSET Int
    OBVIOUS
  <2>2. PICK x : x \in T
    BY <2>1, FS_EmptySet
  <2> DEFINE R == T \ {x}
  <2>3. IsFiniteSet(R) /\ Cardinality(R) = Cardinality(T) - 1
    BY <2>1, <2>2, FS_RemoveElement
  <2>4. Sized(R, n)
    <3>1. Cardinality(T) = (n + 1) + 1 /\ R \in SUBSET Int
      BY <2>1
    <3> HIDE DEF R
    <3>2. Cardinality(R) = n + 1
      BY <2>3, <3>1
    <3> QED
      BY <2>3, <3>1, <3>2
  <2>5. HasExtremes(R)
    BY <1>2, <2>4
  <2>6. PICK lo \in R, hi \in R : \A y \in R : lo <= y /\ y <= hi
    BY <2>5 DEF HasExtremes
  <2> DEFINE low == IF x < lo THEN x ELSE lo
             high == IF x > hi THEN x ELSE hi
  <2>7. x \in Int /\ lo \in Int /\ hi \in Int /\ low \in T /\ high \in T
    BY <2>1, <2>2, <2>6
  <2>8. \A y \in T : y = x \/ y \in R
    OBVIOUS
  <2>9. ASSUME NEW y \in T PROVE low <= y /\ y <= high
    <3>1. y \in Int
      BY <2>1
    <3>2. y = x \/ (lo <= y /\ y <= hi)
      BY <2>6, <2>8
    <3>3. lo <= hi
      BY <2>6
    <3> QED
      BY <2>7, <3>1, <3>2, <3>3
  <2> HIDE DEF low, high
  <2> QED
    BY <2>7, <2>9 DEF HasExtremes
<1> HIDE DEF P
<1>3. Nat \subseteq P
  BY <1>1, <1>2, SetInduction
<1>4. Cardinality(S) \in Nat /\ Cardinality(S) # 0
  BY FS_CardinalityType, FS_EmptySet
<1>5. Cardinality(S) - 1 \in Nat /\ Cardinality(S) = (Cardinality(S) - 1) + 1
  BY <1>4
<1> DEFINE k == Cardinality(S) - 1
<1>6. k \in P /\ Sized(S, k)
  BY <1>3, <1>5
<1> HIDE DEF k, Sized
<1> QED
  BY <1>6 DEF P

\* Min and Max of a finite set of prices.
LEMMA FiniteExtremes ==
  ASSUME NEW S \in SUBSET Int, IsFiniteSet(S), S # {}
  PROVE  /\ Min(S) \in S /\ \A y \in S : Min(S) <= y
         /\ Max(S) \in S /\ \A y \in S : Max(S) >= y
PROOF
<1>1. PICK lo \in S, hi \in S : \A y \in S : lo <= y /\ y <= hi
  BY ExtremesExist DEF HasExtremes
<1>2. \E x \in S : \A y \in S : x <= y
  BY <1>1
<1>3. \E x \in S : \A y \in S : x >= y
  BY <1>1
<1>4. Min(S) \in S /\ \A y \in S : Min(S) <= y
  BY <1>2, Zenon DEF Min
<1>5. Max(S) \in S /\ \A y \in S : Max(S) >= y
  BY <1>3, Zenon DEF Max
<1> QED
  BY <1>4, <1>5

\* Any set of prices is finite, and its best is one of them.
LEMMA BestOfFacts ==
  ASSUME NEW side \in Sides, NEW S \in SUBSET Prices
  PROVE  /\ IsFiniteSet(S) /\ Cardinality(S) \in Nat
         /\ S # {} => BestOf(side, S) \in S /\ \A y \in S : ~Better(side, y, BestOf(side, S))
PROOF
<1>1. IsFiniteSet(S) /\ S \in SUBSET Int
  BY FeedAssumption, BookAssumption, FS_Subset
<1>2. Cardinality(S) \in Nat
  BY <1>1, FS_CardinalityType
<1>3. ASSUME S # {}
      PROVE  BestOf(side, S) \in S /\ \A y \in S : ~Better(side, y, BestOf(side, S))
  <2>1. /\ Min(S) \in S /\ \A y \in S : Min(S) <= y
        /\ Max(S) \in S /\ \A y \in S : Max(S) >= y
    BY <1>1, <1>3, FiniteExtremes
  <2>2. Min(S) \in Int /\ Max(S) \in Int /\ \A y \in S : y \in Int
    BY <1>1, <2>1
  <2> QED
    BY <2>1, <2>2 DEF BestOf, Better
<1> QED
  BY <1>1, <1>2, <1>3

\* The list has the prices it is made of, the best of them first.
LEMMA ListedFacts ==
  ASSUME NEW side \in Sides, NEW prices \in SUBSET Prices
  PROVE  /\ Listed(side, prices) \in Seq(prices)
         /\ Len(Listed(side, prices)) = Cardinality(prices)
         /\ prices # {} => Listed(side, prices)[1] = BestOf(side, prices)
PROOF
<1> DEFINE n == Cardinality(prices)
<1>1. n \in Nat /\ IsFiniteSet(prices)
  BY BestOfFacts
<1>2. PICK f : ListedWalk(f, side, prices)
  BY <1>1, ListedWalkExists
<1>3. /\ f \in [0..n -> SUBSET prices] /\ f[0] = prices
      /\ \A i \in 1..n : f[i] = f[i - 1] \ {BestOf(side, f[i - 1])}
      /\ Listed(side, prices) = [i \in 1..n |-> BestOf(side, f[i - 1])]
  BY <1>2 DEF ListedWalk
<1> DEFINE S == {i \in 0..n : Cardinality(f[i]) = n - i}
<1>4. 0 \in S
  BY <1>1, <1>3
<1>5. ASSUME NEW i \in 1..n, Cardinality(f[i - 1]) = n - (i - 1)
      PROVE  f[i - 1] # {} /\ BestOf(side, f[i - 1]) \in f[i - 1]
  <2>1. i - 1 \in 0..n /\ n - (i - 1) # 0
    BY <1>1
  <2>2. f[i - 1] \in SUBSET Prices
    BY <1>3, <2>1
  <2>3. f[i - 1] # {}
    BY <1>5, <2>1, FS_EmptySet
  <2> QED
    BY <2>2, <2>3, BestOfFacts
<1>6. ASSUME NEW i \in 1..n, i - 1 \in S PROVE i \in S
  <2>1. i - 1 \in 0..n /\ Cardinality(f[i - 1]) = n - (i - 1)
    BY <1>6
  <2> DEFINE r == f[i - 1]
             x == BestOf(side, r)
  <2>2. x \in r
    BY <1>5, <2>1
  <2>3. f[i] = r \ {x}
    BY <1>3
  <2>4. IsFiniteSet(r)
    BY <1>3, <2>1, BestOfFacts
  <2> HIDE DEF r, x
  <2>5. Cardinality(r \ {x}) = Cardinality(r) - 1
    BY <2>2, <2>4, FS_RemoveElement
  <2>6. Cardinality(f[i]) = (n - (i - 1)) - 1
    BY <2>1, <2>3, <2>5 DEF r
  <2> QED
    BY <1>1, <2>6
<1> HIDE DEF S
<1>7. \A i \in 0..n : i \in S
  <2> HIDE DEF n
  <2> QED
    BY <1>1, <1>4, <1>6, BoundedInduction, Zenon
<1>8. ASSUME NEW i \in 1..n PROVE BestOf(side, f[i - 1]) \in prices
  <2>1. i - 1 \in 0..n
    BY <1>1
  <2>2. Cardinality(f[i - 1]) = n - (i - 1) /\ f[i - 1] \subseteq prices
    BY <1>3, <1>7, <2>1 DEF S
  <2> QED
    BY <1>5, <2>2
<1>9. prices # {} => 1 \in 1..n
  <2>1. prices # {} => n # 0
    BY <1>1, FS_EmptySet
  <2> QED
    BY <1>1, <2>1
<1> HIDE DEF n
<1> DEFINE list == [i \in 1..n |-> BestOf(side, f[i - 1])]
<1>10. list \in Seq(prices) /\ Len(list) = n
  BY <1>1, <1>8
<1>11. prices # {} => list[1] = BestOf(side, f[1 - 1])
  BY <1>9
<1>12. 1 - 1 = 0
  OBVIOUS
<1> HIDE DEF list
<1>13. Listed(side, prices) = list
  BY <1>3 DEF list
<1> QED
  BY <1>3, <1>10, <1>11, <1>12, <1>13 DEF n

\* The prices of a set that are ahead of a price.
Ahead(side, S, p) == {q \in S : Better(side, q, p)}

\* The list has every price where as many are before it as are ahead of it.
LEMMA ListedRanks ==
  ASSUME NEW side \in Sides, NEW prices \in SUBSET Prices
  PROVE  \A i \in 1..Cardinality(prices) :
           /\ Listed(side, prices)[i] \in prices
           /\ Cardinality(Ahead(side, prices, Listed(side, prices)[i])) = i - 1
PROOF
<1> DEFINE n == Cardinality(prices)
<1>1. n \in Nat /\ IsFiniteSet(prices)
  BY BestOfFacts
<1>2. PICK f : ListedWalk(f, side, prices)
  BY <1>1, ListedWalkExists
<1>3. /\ f \in [0..n -> SUBSET prices] /\ f[0] = prices
      /\ \A i \in 1..n : f[i] = f[i - 1] \ {BestOf(side, f[i - 1])}
      /\ Listed(side, prices) = [i \in 1..n |-> BestOf(side, f[i - 1])]
  BY <1>2 DEF ListedWalk
<1>4. \A x, y, z \in prices : /\ x # y => Better(side, x, y) \/ Better(side, y, x)
                              /\ Better(side, x, y) /\ Better(side, y, z) => Better(side, x, z)
                              /\ ~(Better(side, x, y) /\ Better(side, y, x))
                              /\ ~Better(side, x, x)
  <2>1. prices \subseteq Int
    BY BookAssumption
  <2> QED
    BY <2>1 DEF Better
<1> DEFINE Taken(i) == /\ Cardinality(f[i]) = n - i
                       /\ \A x \in prices \ f[i], y \in f[i] : Better(side, x, y)
           S == {i \in 0..n : Taken(i)}
<1>5. 0 \in S
  BY <1>1, <1>3
<1>6. ASSUME NEW i \in 1..n, Taken(i - 1)
      PROVE  LET r == f[i - 1]
                 x == BestOf(side, r)
             IN /\ r \in SUBSET prices /\ x \in r /\ x \in prices /\ \A y \in r : ~Better(side, y, x)
                /\ IsFiniteSet(r) /\ f[i] = r \ {x}
  <2> DEFINE r == f[i - 1]
  <2>1. i - 1 \in 0..n /\ n - (i - 1) # 0
    BY <1>1
  <2>2. r \in SUBSET Prices /\ r \in SUBSET prices
    BY <1>3, <2>1
  <2>3. r # {}
    BY <1>6, <2>1, FS_EmptySet
  <2>4. f[i] = r \ {BestOf(side, r)}
    BY <1>3
  <2> HIDE DEF r
  <2>5. /\ IsFiniteSet(r) /\ BestOf(side, r) \in r
        /\ \A y \in r : ~Better(side, y, BestOf(side, r))
    BY <2>2, <2>3, BestOfFacts
  <2> QED
    BY <2>2, <2>4, <2>5 DEF r
<1>7. ASSUME NEW i \in 1..n, i - 1 \in S PROVE i \in S
  <2> DEFINE r == f[i - 1]
             x == BestOf(side, r)
  <2>1. i - 1 \in 0..n /\ Taken(i - 1)
    BY <1>7
  <2>2. /\ r \in SUBSET prices /\ x \in r /\ x \in prices /\ \A y \in r : ~Better(side, y, x)
        /\ IsFiniteSet(r) /\ f[i] = r \ {x}
    BY <1>6, <2>1
  <2>3. Cardinality(r) = n - (i - 1) /\ \A z \in prices \ r, y \in r : Better(side, z, y)
    BY <2>1
  <2> HIDE DEF r, x
  <2>4. Cardinality(r \ {x}) = Cardinality(r) - 1
    BY <2>2, FS_RemoveElement
  <2>5. Cardinality(f[i]) = n - i
    BY <1>1, <2>2, <2>3, <2>4
  <2>6. ASSUME NEW z \in prices \ f[i], NEW y \in f[i] PROVE Better(side, z, y)
    BY <1>4, <2>2, <2>3
  <2> QED
    BY <2>5, <2>6
<1> HIDE DEF S
<1>8. \A i \in 0..n : i \in S
  <2> HIDE DEF n
  <2> QED
    BY <1>1, <1>5, <1>7, BoundedInduction, Zenon
<1>9. ASSUME NEW i \in 1..n
      PROVE  /\ Listed(side, prices)[i] \in prices
             /\ Cardinality(Ahead(side, prices, Listed(side, prices)[i])) = i - 1
  <2> DEFINE r == f[i - 1]
             x == BestOf(side, r)
  <2>1. i - 1 \in 0..n /\ Taken(i - 1)
    BY <1>1, <1>8 DEF S
  <2>2. /\ r \in SUBSET prices /\ x \in r /\ x \in prices /\ \A y \in r : ~Better(side, y, x)
        /\ IsFiniteSet(r)
    BY <1>6, <2>1
  <2>3. Cardinality(r) = n - (i - 1) /\ \A z \in prices \ r, y \in r : Better(side, z, y)
    BY <2>1
  <2>4. Listed(side, prices)[i] = x
    BY <1>3
  <2> HIDE DEF r, x
  <2>5. Ahead(side, prices, x) = prices \ r
    BY <2>2, <2>3 DEF Ahead
  <2>6. Cardinality(prices \ r) = n - Cardinality(prices \cap r)
    BY <1>1, FS_Difference
  <2>7. prices \cap r = r
    BY <2>2
  <2>8. Cardinality(prices \ r) = i - 1
    BY <1>1, <2>3, <2>6, <2>7
  <2> QED
    BY <2>2, <2>4, <2>5, <2>8
<1> QED
  BY <1>9

\* No two elements have the same rank.
LEMMA RankUnique ==
  ASSUME NEW side \in Sides, NEW S \in SUBSET Int, IsFiniteSet(S), NEW p \in S, NEW q \in S
  PROVE  /\ Cardinality(Ahead(side, S, p)) \in Nat
         /\ Cardinality(Ahead(side, S, p)) < Cardinality(S)
         /\ Cardinality(Ahead(side, S, p)) = Cardinality(Ahead(side, S, q)) => p = q
PROOF
<1>1. ASSUME NEW x \in S, NEW y \in S, Better(side, x, y)
      PROVE  Cardinality(Ahead(side, S, x)) < Cardinality(Ahead(side, S, y))
  <2> DEFINE A == Ahead(side, S, x)
             B == Ahead(side, S, y)
  <2>0. x \in Int /\ y \in Int /\ \A z \in S : z \in Int
    OBVIOUS
  <2>1. A \subseteq B /\ x \in B /\ x \notin A
    <3>1. ~Better(side, x, x) /\ \A z \in S : Better(side, z, x) => Better(side, z, y)
      BY <1>1, <2>0 DEF Better
    <3> QED
      BY <1>1, <3>1 DEF Ahead
  <2>2. IsFiniteSet(B)
    BY FS_Subset DEF Ahead
  <2>3. Cardinality(A) <= Cardinality(B) /\ (Cardinality(A) = Cardinality(B) => A = B)
    BY <2>1, <2>2, FS_Subset
  <2>4. IsFiniteSet(A)
    BY <2>1, <2>2, FS_Subset
  <2>5. Cardinality(A) \in Nat /\ Cardinality(B) \in Nat /\ A # B
    BY <2>1, <2>2, <2>4, FS_CardinalityType
  <2> HIDE DEF A, B
  <2>6. Cardinality(A) < Cardinality(B)
    BY <2>3, <2>5
  <2> QED
    BY <2>6 DEF A, B
<1>2. ASSUME NEW x \in S
      PROVE  /\ Cardinality(Ahead(side, S, x)) \in Nat
             /\ Cardinality(Ahead(side, S, x)) < Cardinality(S)
  <2> DEFINE A == Ahead(side, S, x)
  <2>1. A \subseteq S /\ x \notin A
    BY DEF Ahead, Better
  <2>2. Cardinality(A) <= Cardinality(S) /\ (Cardinality(A) = Cardinality(S) => A = S) /\ IsFiniteSet(A)
    BY <2>1, FS_Subset
  <2>3. Cardinality(A) \in Nat /\ Cardinality(S) \in Nat /\ A # S
    BY <2>1, <2>2, FS_CardinalityType
  <2> HIDE DEF A
  <2>4. Cardinality(A) < Cardinality(S)
    BY <2>2, <2>3
  <2> QED
    BY <2>3, <2>4 DEF A
<1>3. p # q => Better(side, p, q) \/ Better(side, q, p)
  BY DEF Better
<1>4. p # q => \/ Cardinality(Ahead(side, S, p)) < Cardinality(Ahead(side, S, q))
               \/ Cardinality(Ahead(side, S, q)) < Cardinality(Ahead(side, S, p))
  BY <1>1, <1>3
<1>5. Cardinality(Ahead(side, S, p)) \in Nat /\ Cardinality(Ahead(side, S, q)) \in Nat
  BY <1>2
<1> QED
  BY <1>2, <1>4, <1>5

\* So every price is in the list, at its place.
LEMMA ListedHasAll ==
  ASSUME NEW side \in Sides, NEW prices \in SUBSET Prices, NEW p \in prices,
         NEW i, i = Cardinality(Ahead(side, prices, p)) + 1
  PROVE  i \in 1..Cardinality(prices) /\ Listed(side, prices)[i] = p
PROOF
<1> DEFINE n == Cardinality(prices)
           a == Cardinality(Ahead(side, prices, p))
           q == Listed(side, prices)[i]
<1>1. n \in Nat /\ IsFiniteSet(prices) /\ prices \in SUBSET Int
  BY BestOfFacts, BookAssumption
<1>2. a \in Nat /\ a < n
  BY <1>1, RankUnique
<1>3. i \in 1..n /\ i - 1 = a
  <2> HIDE DEF a, n
  <2>1. i = a + 1
    BY DEF a
  <2> QED
    BY <1>1, <1>2, <2>1
<1>4. q \in prices /\ Cardinality(Ahead(side, prices, q)) = a
  BY <1>3, ListedRanks
<1> HIDE DEF q
<1>5. q = p
  BY <1>1, <1>4, RankUnique
<1> QED
  BY <1>3, <1>5 DEF q, n

-----------------------------------------------------------------------------
(* The l2update *)

\* A walk through the changes of an event keeps a good book good.
LEMMA ChangesGood ==
  ASSUME NEW b \in GoodBooks, NEW changes \in Seq(Changes)
  PROVE  ChangesApplied(b, changes) \in GoodBooks
PROOF
<1>1. PICK f : ChangesWalk(f, b, changes)
  BY ChangesWalkExists
<1>2. f \in [0..Len(changes) -> GoodBooks] /\ ChangesApplied(b, changes) = f[Len(changes)]
  BY <1>1 DEF ChangesWalk
<1>3. Len(changes) \in 0..Len(changes)
  OBVIOUS
<1> QED
  BY <1>2, <1>3

\* The number of changes in the first k events of an l2update with n changes.
Sent(n, k) == IF k * ChunkSize <= n THEN k * ChunkSize ELSE n

\* The events of n changes: no event is beyond the changes, the last one ends
\* with them.
LEMMA SentFacts ==
  ASSUME NEW n \in Nat, NEW K,
         K = IF n = 0 THEN 1 ELSE (n + ChunkSize - 1) \div ChunkSize
  PROVE  /\ K \in Nat /\ Sent(n, 0) = 0 /\ Sent(n, K) = n
         /\ \A k \in 1..K : /\ Sent(n, k - 1) = (k - 1) * ChunkSize
                            /\ Sent(n, k - 1) \in Nat /\ Sent(n, k) \in Nat
                            /\ Sent(n, k - 1) <= Sent(n, k) /\ Sent(n, k) <= n
PROOF
<1> DEFINE C == ChunkSize
<1>1. C \in Nat \ {0}
  BY FeedAssumption
<1>2. K \in Nat /\ n <= K * C /\ \A k \in 1..K : (k - 1) * C <= n
  <2>1. CASE n = 0
    <3>1. K = 1
      BY <2>1
    <3>2. \A k \in 1..1 : k - 1 = 0
      OBVIOUS
    <3> HIDE DEF C
    <3>3. 0 * C = 0 /\ 1 * C = C
      BY <1>1
    <3> QED
      BY <1>1, <2>1, <3>1, <3>2, <3>3
  <2>2. CASE n # 0
    <3> DEFINE a == n + C - 1
    <3>1. K = a \div C /\ a \in Int
      BY <1>1, <2>2
    <3> HIDE DEF C
    <3>2. a >= C * 1
      BY <1>1, <2>2
    <3>3. a = n + C - 1
      OBVIOUS
    <3> HIDE DEF a
    <3>4. K \in Int /\ K >= 1
      <4>1. a \div C \in Int /\ a \div C >= 1
        BY <1>1, <3>1, <3>2, DivBounds
      <4> QED
        BY <3>1, <4>1
    <3>5. ~(a >= C * (K + 1))
      <4> DEFINE k1 == K + 1
      <4>1. k1 \in Int /\ k1 > K
        BY <3>4
      <4> HIDE DEF k1
      <4>2. a >= C * k1 => a \div C >= k1
        BY <1>1, <3>1, <4>1, DivBounds
      <4>3. ~(a >= C * k1)
        BY <3>1, <3>4, <4>1, <4>2
      <4> QED
        BY <4>3 DEF k1
    <3>6. C * (K + 1) = K * C + C /\ K * C \in Int
      BY <1>1, <3>4
    <3> DEFINE KC == K * C
    <3> HIDE DEF KC
    <3>7. n <= KC
      BY <1>1, <3>1, <3>3, <3>5, <3>6 DEF KC
    <3>8. ASSUME NEW k \in 1..K PROVE (k - 1) * C <= n
      <4>1. k \in Int /\ k <= K /\ k - 1 \in Int /\ (k - 1) + 1 = k
        BY <3>4
      <4>2. a < C * ((k - 1) + 1) => a \div C <= k - 1
        BY <1>1, <3>1, <4>1, DivBounds
      <4>3. ~(a < C * k)
        BY <3>1, <4>1, <4>2, <3>4
      <4>4. C * k = (k - 1) * C + C /\ (k - 1) * C \in Int
        BY <1>1, <4>1
      <4> DEFINE y == (k - 1) * C
                 z == C * k
      <4> HIDE DEF y, z
      <4>5. z = y + C /\ y \in Int /\ ~(a < z)
        BY <4>3, <4>4 DEF y, z
      <4>6. y <= n
        BY <1>1, <3>1, <3>3, <4>5
      <4> QED
        BY <4>6 DEF y
    <3> QED
      BY <3>4, <3>7, <3>8 DEF KC
  <2> QED
    BY <2>1, <2>2
<1> HIDE DEF C
<1>3. \A k \in Nat : k * C \in Nat
  BY <1>1
<1>4. 0 * C = 0
  BY <1>1
<1>5. Sent(n, 0) = 0
  BY <1>4 DEF Sent, C
<1>6. Sent(n, K) = n
  <2> DEFINE y == K * C
  <2>1. y \in Nat /\ n <= y
    BY <1>2, <1>3
  <2> HIDE DEF y
  <2>2. (IF y <= n THEN y ELSE n) = n
    BY <2>1
  <2> QED
    BY <2>2 DEF Sent, C, y
<1>7. ASSUME NEW k \in 1..K
      PROVE  /\ Sent(n, k - 1) = (k - 1) * ChunkSize
             /\ Sent(n, k - 1) \in Nat /\ Sent(n, k) \in Nat
             /\ Sent(n, k - 1) <= Sent(n, k) /\ Sent(n, k) <= n
  <2> DEFINE x == (k - 1) * C
             y == k * C
  <2>1. k \in Nat /\ k - 1 \in Nat
    BY <1>2
  <2>2. x \in Nat /\ y \in Nat /\ x <= n
    BY <1>2, <1>3, <2>1
  <2>3. y = x + C
    BY <1>1, <2>1
  <2>4. Sent(n, k - 1) = (IF x <= n THEN x ELSE n) /\ Sent(n, k) = IF y <= n THEN y ELSE n
    BY DEF Sent, C
  <2>5. x = (k - 1) * ChunkSize
    BY DEF C
  <2> HIDE DEF x, y
  <2>6. Sent(n, k - 1) = x
    BY <2>2, <2>4
  <2> QED
    BY <1>1, <2>2, <2>3, <2>4, <2>5, <2>6
<1> QED
  BY <1>2, <1>5, <1>6, <1>7

\* The k-th event has the changes after those of the events before it.
LEMMA ChunkFacts ==
  ASSUME NEW E, NEW s \in Seq(E)
  PROVE  /\ NumChunks(s) \in Nat
         /\ \A k \in 1..NumChunks(s) :
              LET lo == Sent(Len(s), k - 1)
                  hi == Sent(Len(s), k)
              IN /\ Chunk(s, k) \in Seq(E) /\ Len(Chunk(s, k)) = hi - lo
                 /\ \A j \in 1..(hi - lo) : Chunk(s, k)[j] = s[lo + j]
PROOF
<1> DEFINE n == Len(s)
           K == NumChunks(s)
<1>1. n \in Nat /\ K = IF n = 0 THEN 1 ELSE (n + ChunkSize - 1) \div ChunkSize
  BY DEF NumChunks
<1>2. /\ K \in Nat
      /\ \A k \in 1..K : /\ Sent(n, k - 1) = (k - 1) * ChunkSize
                         /\ Sent(n, k - 1) \in Nat /\ Sent(n, k) \in Nat
                         /\ Sent(n, k - 1) <= Sent(n, k) /\ Sent(n, k) <= n
  <2> HIDE DEF n, K
  <2> QED
    BY <1>1, SentFacts, Zenon
<1>3. ASSUME NEW k \in 1..K
      PROVE  LET lo == Sent(n, k - 1)
                 hi == Sent(n, k)
             IN /\ Chunk(s, k) \in Seq(E) /\ Len(Chunk(s, k)) = hi - lo
                /\ \A j \in 1..(hi - lo) : Chunk(s, k)[j] = s[lo + j]
  <2> DEFINE lo == Sent(n, k - 1)
             hi == Sent(n, k)
  <2>1. lo \in Nat /\ hi \in Nat /\ lo <= hi /\ hi <= n /\ lo = (k - 1) * ChunkSize
    BY <1>2
  <2>2. Min({k * ChunkSize, n}) = hi
    <3> DEFINE y == k * ChunkSize
               both == {y, n}
    <3>1. y \in Nat
      BY <1>2, FeedAssumption
    <3>2. hi = IF y <= n THEN y ELSE n
      BY DEF Sent
    <3>3. Min(both) \in both /\ \A z \in both : Min(both) <= z
      <4>1. y + n \in Nat /\ both \in SUBSET (0..(y + n)) /\ both # {}
        BY <1>1, <3>1
      <4> HIDE DEF y, both, n
      <4> QED
        BY <4>1, Extremes
    <3>4. y \in both /\ n \in both /\ \A z \in both : z = y \/ z = n
      OBVIOUS
    <3> DEFINE low == Min(both)
    <3>5. (low = y \/ low = n) /\ low <= y /\ low <= n
      <4> HIDE DEF y, n, both
      <4> QED
        BY <3>3, <3>4
    <3> HIDE DEF y, n, hi, low
    <3>6. low = hi
      BY <1>1, <3>1, <3>2, <3>5
    <3> QED
      BY <3>6 DEF low, y
  <2>3. Chunk(s, k) = SubSeq(s, lo + 1, hi)
    BY <2>1, <2>2 DEF Chunk
  <2> HIDE DEF lo, hi
  <2>4. /\ SubSeq(s, lo + 1, hi) \in Seq(E) /\ Len(SubSeq(s, lo + 1, hi)) = hi - lo
        /\ \A j \in 1..(hi - lo) : SubSeq(s, lo + 1, hi)[j] = s[lo + j]
    BY <2>1
  <2> QED
    BY <2>3, <2>4 DEF lo, hi
<1> QED
  BY <1>2, <1>3

\* The events of an l2update go into the book one after the other.
ChunksWalk(f, b, changes, lost) ==
  /\ f \in [0..NumChunks(changes) -> GoodBooks] /\ f[0] = b
  /\ \A i \in 1..NumChunks(changes) :
       f[i] = (IF i \in lost THEN f[i - 1] ELSE ChangesApplied(f[i - 1], Chunk(changes, i)))
  /\ ChunksApplied(b, changes, lost) = f[NumChunks(changes)]

\* There is such a walk: the recursion of the definition has a solution.
LEMMA ChunksWalkExists ==
  ASSUME NEW b \in GoodBooks, NEW changes \in Seq(Changes), NEW lost
  PROVE  \E f : ChunksWalk(f, b, changes, lost)
PROOF
<1> DEFINE n == NumChunks(changes)
           V == GoodBooks
           first == b
           F == [i \in 1..n |-> [v \in V |->
                  (IF i \in lost THEN v ELSE ChangesApplied(v, Chunk(changes, i)))]]
           G(h) == [i \in 0..n |-> IF i = 0 THEN first ELSE
                      (IF i \in lost THEN h[i - 1]
                       ELSE ChangesApplied(h[i - 1], Chunk(changes, i)))]
           f == CHOOSE h : h = G(h)
<1>1. n \in Nat /\ first \in V
  BY ChunkFacts
<1>2. \A i \in 1..n, v \in V :
        (IF i \in lost THEN v ELSE ChangesApplied(v, Chunk(changes, i))) \in V
  <2>1. ASSUME NEW i \in 1..n, NEW v \in V PROVE ChangesApplied(v, Chunk(changes, i)) \in V
    <3>1. Chunk(changes, i) \in Seq(Changes)
      BY ChunkFacts
    <3> QED
      BY <3>1, ChangesGood
  <2> QED
    BY <2>1
<1>3. F \in [1..n -> [V -> V]]
  <2> HIDE DEF V, n
  <2> QED
    BY <1>2
<1>4. PICK g : /\ g \in [0..n -> V]
               /\ g[0] = first /\ \A i \in 1..n : g[i] = F[i][g[i - 1]]
  <2> HIDE DEF F, V, n, first
  <2>1. \E g : Recursive(g, V, first, n, F)
    BY <1>1, <1>3, Recursion
  <2> QED
    BY <2>1, Zenon DEF Recursive
<1>5. g = G(g)
  <2> HIDE DEF V, n, first
  <2>1. ASSUME NEW i \in 0..n, i # 0
        PROVE  g[i] = (IF i \in lost THEN g[i - 1] ELSE ChangesApplied(g[i - 1], Chunk(changes, i)))
    <3>1. i \in 1..n /\ i - 1 \in 0..n
      BY <1>1, <2>1
    <3>2. g[i - 1] \in V /\ g[i] = F[i][g[i - 1]]
      BY <1>4, <3>1
    <3> QED
      BY <3>1, <3>2
  <2>2. g = [i \in 0..n |-> g[i]]
    BY <1>4
  <2> QED
    BY <1>4, <2>1, <2>2, Zenon
<1>6. f = G(f)
  <2> HIDE DEF G
  <2> QED
    BY <1>5, Zenon
<1>7. /\ f[0] = first
      /\ \A i \in 1..n : f[i] = (IF i \in lost THEN f[i - 1]
                                 ELSE ChangesApplied(f[i - 1], Chunk(changes, i)))
  <2>1. 0 \in 0..n /\ \A i \in 1..n : i \in 0..n /\ i # 0
    BY <1>1
  <2> HIDE DEF f, n, first
  <2> QED
    BY <1>6, <2>1, Zenon
<1>8. ChunksApplied(b, changes, lost) = f[n]
  BY Zenon DEF ChunksApplied
<1>9. f = [i \in 0..n |-> f[i]]
  <2>1. \A h : h = G(h) => h = [i \in 0..n |-> h[i]]
    OBVIOUS
  <2> HIDE DEF f, G
  <2> QED
    BY <1>6, <2>1
<1>10. f \in [0..n -> V]
  <2> HIDE DEF f, V, n, first
  <2>1. f[0] \in V
    BY <1>1, <1>7
  <2>2. \A i \in 1..n : f[i - 1] \in V => f[i] \in V
    BY <1>2, <1>7
  <2> QED
    BY <1>1, <1>9, <2>1, <2>2, Stays
<1>11. ChunksWalk(f, b, changes, lost)
  BY <1>7, <1>8, <1>10, Zenon DEF ChunksWalk
<1> QED
  BY <1>11


-----------------------------------------------------------------------------
(* What the parser makes of the feed *)

\* The nearest tick of a price in the text is the price.
LEMMA QuotientRead ==
  ASSUME NEW p \in Int
  PROVE  Quotient(p) \in Int /\ FromDouble(Quotient(p)) = p
PROOF
<1>1. Parts \in Nat /\ Parts > 2
  BY FeedAssumption
<1>2. p % 2 \in 0..1
  OBVIOUS
<1> DEFINE r == p % 2
           x == Parts * p
           d == 2 * Parts
           a == 2 * (x - r) + Parts
<1>3. x \in Int /\ r \in 0..1
  BY <1>1, <1>2
<1>4. d * p = 2 * x /\ d * (p + 1) = 2 * x + 2 * Parts
  BY <1>1
<1>5. Quotient(p) = x - r
  BY DEF Quotient
<1> DEFINE dp == d * p
           dq == d * (p + 1)
<1> HIDE DEF x, r, dp, dq
<1>6. a >= dp /\ a < dq /\ a \in Int /\ d \in Nat \ {0}
  BY <1>1, <1>3, <1>4 DEF dp, dq
<1> HIDE DEF a, d
<1>7. a \div d \in Int /\ a \div d <= p /\ a \div d >= p
  BY <1>6, DivBounds DEF dp, dq
<1>8. FromDouble(x - r) = a \div d
  BY DEF FromDouble, a, d
<1>9. a \div d = p
  <2> DEFINE z == a \div d
  <2> HIDE DEF z
  <2>1. z = p
    BY <1>7 DEF z
  <2> QED
    BY <2>1 DEF z
<1> QED
  BY <1>3, <1>5, <1>8, <1>9

\* The levels that the feed may list of a side of the market, as an event has
\* them.
MarketLevels(m, side) == {[price |-> p, qty |-> m[side][p]] : p \in Prices}

\* How many of n levels fit in a Snapshot event.
Shown(n) == IF n <= SnapLevels THEN n ELSE SnapLevels

\* A side of a Snapshot event has the first levels of the market's list, whatever
\* malformed entries the message begins with.
LEMMA SnapshotParsed ==
  ASSUME NEW m \in Markets, NEW side \in Sides, NEW junk \in Junk, NEW text,
         NEW list \in Seq(Prices),
         text = [i \in 1..Len(list) |-> WireLevel(list[i], m[side][list[i]])]
  PROVE  LET part == SnapSide(ParsedLevels(junk \o text))
         IN /\ part \in Seq(MarketLevels(m, side)) /\ Len(part) = Shown(Len(list))
            /\ \A i \in 1..Len(part) : part[i] = [price |-> list[i], qty |-> m[side][list[i]]]
PROOF
<1> DEFINE D == {WireLevel(p, m[side][p]) : p \in Prices}
           E == Entries \cup D
           wire == junk \o text
           at == {i \in 1..Len(wire) : IsLevel(wire[i])}
           usable == Picked(wire, at)
           n == Len(list)
           k == Len(junk)
<1>1. /\ junk \in Seq(Entries) /\ k \in Nat /\ n \in Nat
      /\ \A i \in 1..k : ~IsLevel(junk[i])
  BY FeedAssumption
<1>2. text \in Seq(D) /\ Len(text) = n /\ \A i \in 1..n : text[i] = WireLevel(list[i], m[side][list[i]])
  BY <1>1
<1>3. ASSUME NEW p, NEW q
      PROVE  /\ IsLevel(WireLevel(p, q)) /\ Numbers(WireLevel(p, q))[1].value = Quotient(p)
             /\ Numbers(WireLevel(p, q))[2].value = q
  BY LevelParsed DEF WireLevel
<1>4. /\ wire \in Seq(E) /\ Len(wire) = k + n
      /\ \A i \in 1..k : wire[i] = junk[i]
      /\ \A i \in 1..n : wire[k + i] = text[i]
  <2> HIDE DEF D
  <2>1. junk \in Seq(E) /\ text \in Seq(E)
    BY <1>1, <1>2
  <2> HIDE DEF E
  <2> QED
    BY <1>1, <1>2, <2>1
<1>5. \A i \in 1..Len(wire) : i \in at <=> i > k
  <2> HIDE DEF D, E, wire
  <2>1. ASSUME NEW i \in 1..Len(wire), i <= k PROVE ~IsLevel(wire[i])
    <3>1. i \in 1..k
      BY <1>1, <1>4, <2>1
    <3> QED
      BY <1>1, <1>4, <3>1
  <2>2. ASSUME NEW i \in 1..Len(wire), i > k PROVE IsLevel(wire[i])
    <3>1. i - k \in 1..n /\ k + (i - k) = i
      BY <1>1, <1>4, <2>2
    <3>2. wire[i] = WireLevel(list[i - k], m[side][list[i - k]])
      BY <1>2, <1>4, <3>1
    <3> QED
      BY <1>3, <3>2
  <2>3. k \in Int /\ \A i \in 1..Len(wire) : i \in Int
    BY <1>1
  <2> QED
    BY <2>1, <2>2, <2>3
<1>6. /\ Len(usable) = n
      /\ \A i \in 1..n : usable[i] = WireLevel(list[i], m[side][list[i]])
  <2> HIDE DEF D, E, wire, at
  <2>1. k \in 0..Len(wire) /\ Len(wire) - k = n
    BY <1>1, <1>4
  <2> HIDE DEF k, n
  <2>2. /\ Len(usable) = Len(wire) - k
        /\ \A j \in 1..(Len(wire) - k) : usable[j] = wire[k + j]
    <3>1. wire \in Seq(E) /\ Rest(at, wire, k)
      BY <1>4, <1>5, <2>1 DEF Rest
    <3> QED
      BY <3>1, PickedAfter
  <2> QED
    BY <1>2, <1>4, <2>1, <2>2
<1> DEFINE levels == [i \in 1..Len(usable) |->
                        [price |-> Numbers(usable[i])[1].value,
                         qty |-> Numbers(usable[i])[2].value]]
<1>7. ParsedLevels(wire) = levels
  BY DEF ParsedLevels
<1> HIDE DEF usable
<1>8. /\ Len(levels) = n
      /\ \A i \in 1..n : levels[i] = [price |-> Quotient(list[i]), qty |-> m[side][list[i]]]
  <2>1. levels = [i \in 1..n |-> [price |-> Quotient(list[i]), qty |-> m[side][list[i]]]]
    BY <1>3, <1>6
  <2> HIDE DEF levels
  <2> QED
    BY <1>1, <2>1
<1> HIDE DEF levels
<1> DEFINE both == {Len(levels), SnapLevels}
<1>9. Min(both) = Shown(n) /\ Shown(n) \in Nat /\ Shown(n) <= n
  <2>1. n \in Nat /\ SnapLevels \in Nat /\ both = {n, SnapLevels}
    BY <1>1, <1>8, FeedAssumption
  <2>2. n + SnapLevels \in Nat /\ both \in SUBSET (0..(n + SnapLevels)) /\ both # {}
    BY <2>1
  <2> HIDE DEF n
  <2>3. Min(both) \in both /\ \A z \in both : Min(both) <= z
    <3> HIDE DEF both
    <3> QED
      BY <2>2, Extremes
  <2> QED
    BY <2>1, <2>3 DEF Shown
<1> DEFINE part == [i \in 1..Shown(n) |-> [price |-> FromDouble(levels[i].price),
                                           qty |-> levels[i].qty]]
<1>10. SnapSide(levels) = part
  BY <1>9 DEF SnapSide
<1>11. ASSUME NEW i \in 1..Shown(n)
       PROVE  /\ [price |-> FromDouble(levels[i].price), qty |-> levels[i].qty]
                   = [price |-> list[i], qty |-> m[side][list[i]]]
              /\ list[i] \in Prices
  <2>1. i \in 1..n
    BY <1>1, <1>9
  <2> DEFINE p == list[i]
  <2>2. p \in Prices
    BY <2>1
  <2> HIDE DEF p
  <2>3. p \in Int
    BY <2>2, BookAssumption
  <2>4. FromDouble(Quotient(p)) = p
    BY <2>3, QuotientRead
  <2>5. levels[i] = [price |-> Quotient(p), qty |-> m[side][p]]
    BY <1>8, <2>1 DEF p
  <2>6. levels[i].price = Quotient(p) /\ levels[i].qty = m[side][p]
    BY <2>5
  <2>7. [price |-> FromDouble(levels[i].price), qty |-> levels[i].qty]
          = [price |-> p, qty |-> m[side][p]]
    BY <2>4, <2>6
  <2> QED
    BY <2>2, <2>7 DEF p
<1>12. part = [i \in 1..Shown(n) |-> [price |-> list[i], qty |-> m[side][list[i]]]]
  BY <1>11
<1> HIDE DEF part
<1>13. \A i \in 1..Shown(n) : [price |-> list[i], qty |-> m[side][list[i]]] \in MarketLevels(m, side)
  BY <1>11 DEF MarketLevels
<1>14. /\ part \in Seq(MarketLevels(m, side)) /\ Len(part) = Shown(n)
       /\ \A i \in 1..Len(part) : part[i] = [price |-> list[i], qty |-> m[side][list[i]]]
  <2> HIDE DEF n
  <2> QED
    BY <1>9, <1>12, <1>13
<1> QED
  BY <1>7, <1>10, <1>14 DEF n

\* What the parser makes of an l2update is what the exchange says, in its order.
Relayed(said, changes) ==
  /\ said \in Seq(Meanings) /\ changes \in Seq(Changes) /\ Len(changes) = Len(said)
  /\ \A i \in 1..Len(said) :
       /\ changes[i].side = said[i].side /\ changes[i].qty = said[i].qty
       /\ FromDouble(changes[i].price) = said[i].price

\* Entry by entry: what is malformed is dropped, what is not is understood.
LEMMA WireFacts ==
  ASSUME NEW wire \in Updates
  PROVE  Relayed(Said[wire], Received[wire])
PROOF
<1> DEFINE W == {WireChange(side, price, qty) : side \in Sides, price \in Prices, qty \in Qtys}
           at == {i \in 1..Len(wire) : WellFormed(wire[i])}
           u == Picked(wire, at)
<1>1. wire \in Seq(Entries)
  BY FeedAssumption
<1>2. ASSUME NEW side \in Sides, NEW price \in Prices, NEW qty \in Qtys,
             NEW e, e = WireChange(side, price, qty)
      PROVE  /\ IsChange(e) /\ price \in Int /\ Quotient(price) \in Int /\ qty \in Int
             /\ Strings(e)[1] = e[1] /\ Numbers(Tail(Strings(e)))[1].value = e[2].value
             /\ Numbers(Tail(Strings(e)))[2].value = e[3].value
             /\ e[1].kind = "text" /\ (e[1].value = "buy" <=> side = "Bid")
             /\ e[2].value = Quotient(price) /\ e[3].value = qty
             /\ (CHOOSE p \in Prices : Quotient(p) = e[2].value) = price
             /\ FromDouble(e[2].value) = price
  <2> DEFINE t == IF side = "Bid" THEN "buy" ELSE "sell"
             v == Quotient(price)
  <2>1. e = <<Str(t), Num(v), Num(qty)>>
    BY <1>2 DEF WireChange
  <2>2. t = "buy" <=> side = "Bid"
    BY DEF Sides
  <2>3. Prices \subseteq Int /\ Qtys \subseteq Int
    BY BookAssumption
  <2>4. v \in Int /\ FromDouble(v) = price
    BY <2>3, QuotientRead
  <2>5. \A p \in Prices : Quotient(p) = v => p = price
    BY <2>3, <2>4, QuotientRead
  <2>6. (CHOOSE p \in Prices : Quotient(p) = v) = price
    BY <2>5, Zenon
  <2> HIDE DEF t, v
  <2>7. /\ IsChange(e) /\ Strings(e)[1] = Str(t)
        /\ Numbers(Tail(Strings(e)))[1].value = v /\ Numbers(Tail(Strings(e)))[2].value = qty
    BY <2>1, ChangeParsed
  <2>8. e[1] = Str(t) /\ e[2].value = v /\ e[3].value = qty
    BY <2>1 DEF Num
  <2>9. e[1].kind = "text" /\ e[1].value = t
    BY <2>8 DEF Str
  <2>10. v = Quotient(price)
    BY DEF v
  <2> QED
    BY <2>2, <2>3, <2>4, <2>6, <2>7, <2>8, <2>9, <2>10
<1>3. \A i \in 1..Len(wire) : /\ WellFormed(wire[i]) => wire[i] \in W
                              /\ ~WellFormed(wire[i]) => ~IsChange(wire[i])
  BY FeedAssumption
<1>4. \A e \in W : IsChange(e)
  BY <1>2
<1>5. at = {i \in 1..Len(wire) : IsChange(wire[i])}
  <2> HIDE DEF W
  <2> QED
    BY <1>3, <1>4
<1>6. u \in Seq(W)
  <2> HIDE DEF W
  <2>1. \A i \in 1..Len(wire) : i \in at => wire[i] \in W
    BY <1>3
  <2> HIDE DEF at
  <2> QED
    BY <1>1, <2>1, PickedType
<1> DEFINE Tick(e) == CHOOSE p \in Prices : Quotient(p) = e[2].value
           SaidOf(e) == [side |-> IF e[1].value = "buy" THEN "Bid" ELSE "Ask",
                         price |-> Tick(e),
                         qty |-> e[3].value]
           ReadOf(e) ==
             LET first == Strings(e)[1]
                 n == Numbers(Tail(Strings(e)))
             IN [side |-> IF first.kind = "text" /\ first.value = "buy" THEN "Bid" ELSE "Ask",
                 price |-> n[1].value, qty |-> n[2].value]
<1>7. Said[wire] = [i \in 1..Len(u) |-> SaidOf(u[i])]
  BY DEF Said, Meant
<1>8. Received[wire] = [i \in 1..Len(u) |-> ReadOf(u[i])]
  <2>1. Received[wire] = ParsedChanges(wire)
    BY DEF Received
  <2> DEFINE bt == {i \in 1..Len(wire) : IsChange(wire[i])}
  <2>2. ParsedChanges(wire) = [i \in 1..Len(Picked(wire, bt)) |-> ReadOf(Picked(wire, bt)[i])]
    BY DEF ParsedChanges
  <2>3. at = bt
    BY <1>5
  <2> HIDE DEF at, bt, ReadOf
  <2> QED
    BY <2>1, <2>2, <2>3
<1>9. ASSUME NEW e \in W
      PROVE  /\ SaidOf(e) \in Meanings /\ ReadOf(e) \in Changes
             /\ ReadOf(e).side = SaidOf(e).side /\ ReadOf(e).qty = SaidOf(e).qty
             /\ FromDouble(ReadOf(e).price) = SaidOf(e).price
  <2>1. PICK side \in Sides, price \in Prices, qty \in Qtys : e = WireChange(side, price, qty)
    OBVIOUS
  <2>2. /\ price \in Int /\ Quotient(price) \in Int /\ qty \in Int
        /\ Strings(e)[1] = e[1] /\ Numbers(Tail(Strings(e)))[1].value = e[2].value
        /\ Numbers(Tail(Strings(e)))[2].value = e[3].value
        /\ e[1].kind = "text" /\ (e[1].value = "buy" <=> side = "Bid")
        /\ e[2].value = Quotient(price) /\ e[3].value = qty
        /\ Tick(e) = price
        /\ FromDouble(e[2].value) = price
    BY <1>2, <2>1
  <2> HIDE DEF Tick
  <2>3. (IF e[1].value = "buy" THEN "Bid" ELSE "Ask") = side
    BY <2>2 DEF Sides
  <2>4. SaidOf(e) = [side |-> side, price |-> price, qty |-> qty]
    BY <2>2, <2>3
  <2>5. ReadOf(e) = [side |-> side, price |-> Quotient(price), qty |-> qty]
    BY <2>2, <2>3
  <2>6. FromDouble(Quotient(price)) = price
    BY <2>2
  <2> HIDE DEF SaidOf, ReadOf
  <2> QED
    BY <2>2, <2>4, <2>5, <2>6 DEF Meanings, Changes
<1> HIDE DEF u, W, SaidOf, ReadOf
<1> DEFINE said == [i \in 1..Len(u) |-> SaidOf(u[i])]
           changes == [i \in 1..Len(u) |-> ReadOf(u[i])]
<1>10. /\ said \in Seq(Meanings) /\ changes \in Seq(Changes)
       /\ Len(said) = Len(u) /\ Len(changes) = Len(u)
  BY <1>6, <1>9
<1>11. \A i \in 1..Len(u) : /\ changes[i].side = said[i].side /\ changes[i].qty = said[i].qty
                            /\ FromDouble(changes[i].price) = said[i].price
  BY <1>6, <1>9
<1> HIDE DEF said, changes
<1>12. Relayed(said, changes)
  BY <1>10, <1>11 DEF Relayed
<1> QED
  BY <1>7, <1>8, <1>12 DEF said, changes

-----------------------------------------------------------------------------
(* The feed and the book *)

\* The good books that have no phantom level, except for the levels in open.
Faithful(m, open) == {c \in GoodBooks : (c.haveRef \/ Blank(c)) /\ Holds(c, m, open)}

LevelOf(ch) == <<ch.side, ch.price>>

\* A change that reaches the book settles its level.
LEMMA ReachedFaithful ==
  ASSUME NEW m \in Markets, NEW open, NEW b \in Faithful(m, open), NEW ch \in Meanings,
         NEW left, open \ {LevelOf(ch)} \subseteq left
  PROVE  Updated(b, ch.side, ch.price, ch.qty) \in Faithful(WithChange(m, ch), left)
PROOF
<1> DEFINE side == ch.side
           price == ch.price
           qty == ch.qty
           c == Updated(b, side, price, qty)
           M == WithChange(m, ch)
<1>1. side \in Sides /\ price \in Prices /\ qty \in Qtys
  BY DEF Meanings
<1>2. M = [m EXCEPT ![side][price] = qty]
  BY DEF WithChange
<1>3. LevelOf(ch) = <<side, price>>
  BY DEF LevelOf
<1>4. b \in GoodBooks /\ (b.haveRef \/ Blank(b)) /\ Holds(b, m, open)
  BY DEF Faithful
<1> HIDE DEF side, price, qty, M
<1>5. price \in Int /\ qty \in Int
  BY <1>1, BookAssumption
<1>6. c \in GoodBooks
  BY <1>1, <1>4, <1>5, UpdatedGood
<1>7. /\ Holds(c, [m EXCEPT ![side][price] = qty], open \ {<<side, price>>})
      /\ c.haveRef
  BY <1>1, <1>4, UpdatedHolds, Zenon
<1> HIDE DEF c
<1>8. Holds(c, M, left)
  <2>1. Holds(c, M, open \ {LevelOf(ch)})
    BY <1>2, <1>3, <1>7, Zenon
  <2> QED
    BY <2>1 DEF Holds
<1>9. c \in Faithful(M, left)
  BY <1>6, <1>7, <1>8 DEF Faithful
<1> QED
  BY <1>9 DEF c, side, price, qty, M

\* A change that does not reach the book leaves its level open.
LEMMA LostFaithful ==
  ASSUME NEW m \in Markets, NEW open, NEW b \in Faithful(m, open), NEW ch \in Meanings,
         NEW left, open \cup {LevelOf(ch)} \subseteq left
  PROVE  b \in Faithful(WithChange(m, ch), left)
PROOF
<1> DEFINE M == WithChange(m, ch)
<1>1. ch.side \in Sides /\ ch.price \in Prices /\ ch.qty \in Qtys
  BY DEF Meanings
<1>2. \A side \in Sides, p \in Prices : <<side, p>> = LevelOf(ch) \/ M[side][p] = m[side][p]
  BY <1>1 DEF WithChange, Markets, LevelOf
<1>3. b \in GoodBooks /\ (b.haveRef \/ Blank(b)) /\ Holds(b, m, open)
  BY DEF Faithful
<1> HIDE DEF M
<1>4. Holds(b, M, left)
  <2> SUFFICES ASSUME NEW side \in Sides, NEW s \in Slots, Live(b.ladder[side][s])
               PROVE  /\ PriceOf(b, s) \in Prices
                      /\ \/ <<side, PriceOf(b, s)>> \in left
                         \/ M[side][PriceOf(b, s)] = b.ladder[side][s]
    BY DEF Holds
  <2>1. /\ PriceOf(b, s) \in Prices
        /\ \/ <<side, PriceOf(b, s)>> \in open
           \/ m[side][PriceOf(b, s)] = b.ladder[side][s]
    BY <1>3 DEF Holds
  <2>2. <<side, PriceOf(b, s)>> = LevelOf(ch) \/ M[side][PriceOf(b, s)] = m[side][PriceOf(b, s)]
    BY <1>2, <2>1
  <2> QED
    BY <2>1, <2>2
<1> QED
  BY <1>3, <1>4 DEF Faithful, M

\* A book without a level has no phantom.
LEMMA BlankFaithful ==
  ASSUME NEW b \in GoodBooks, Blank(b), NEW m, NEW open
  PROVE  b \in Faithful(m, open)
BY DEF Blank, Holds, Faithful

\* The levels of a side of a snapshot go into the book.
LEMMA WithSideFaithful ==
  ASSUME NEW m \in Markets, NEW side \in Sides, NEW b \in Faithful(m, {}),
         NEW levels \in Seq(MarketLevels(m, side))
  PROVE  WithSide(b, side, levels) \in Faithful(m, {})
PROOF
<1> DEFINE V == Faithful(m, {})
           n == Len(levels)
<1>1. \A l \in MarketLevels(m, side) : l.price \in Prices /\ l.qty = m[side][l.price]
  BY DEF MarketLevels
<1>2. MarketLevels(m, side) \subseteq LevelRecords
  <2>1. ASSUME NEW p \in Prices PROVE p \in Int /\ m[side][p] \in Int
    BY BookAssumption DEF Markets
  <2> QED
    BY <2>1 DEF MarketLevels, LevelRecords
<1>3. levels \in Seq(LevelRecords) /\ b \in GoodBooks
  BY <1>2 DEF Faithful
<1>4. PICK f : WithSideWalk(f, b, side, levels)
  BY <1>3, WithSideWalkExists
<1>5. /\ f \in [0..n -> GoodBooks] /\ f[0] = b /\ n \in Nat
      /\ \A i \in 1..n : f[i] = Updated(f[i - 1], side, levels[i].price, levels[i].qty)
      /\ WithSide(b, side, levels) = f[n]
  BY <1>4 DEF WithSideWalk
<1>6. ASSUME NEW i \in 1..n, f[i - 1] \in V PROVE f[i] \in V
  <2> DEFINE l == levels[i]
             ch == [side |-> side, price |-> l.price, qty |-> l.qty]
  <2>1. l \in MarketLevels(m, side)
    OBVIOUS
  <2>2. l.price \in Prices /\ l.qty = m[side][l.price]
    BY <1>1, <2>1
  <2>3. ch \in Meanings /\ ch.side = side /\ ch.price = l.price /\ ch.qty = l.qty
    BY <2>2 DEF Meanings, Markets
  <2>4. WithChange(m, ch) = m
    BY <2>2, <2>3 DEF WithChange, Markets
  <2>5. f[i] = Updated(f[i - 1], ch.side, ch.price, ch.qty)
    BY <1>5, <2>3
  <2> HIDE DEF ch, l
  <2> DEFINE none == {}
             c == f[i - 1]
  <2>6. none \ {LevelOf(ch)} \subseteq none /\ c \in Faithful(m, none)
    BY <1>6
  <2> HIDE DEF none, c
  <2>7. Updated(c, ch.side, ch.price, ch.qty) \in Faithful(WithChange(m, ch), none)
    BY <2>3, <2>6, ReachedFaithful
  <2> QED
    BY <2>4, <2>5, <2>7 DEF none, c
<1>7. f[0] \in V /\ f = [i \in 0..n |-> f[i]] /\ n \in 0..n
  BY <1>5
<1> HIDE DEF V, n
<1>8. f \in [0..n -> V]
  BY <1>5, <1>6, <1>7, Stays
<1>9. f[n] \in V
  BY <1>7, <1>8
<1> QED
  BY <1>5, <1>9 DEF V, n

\* The mid of a snapshot is a price.
LEMMA LivePricesFacts ==
  ASSUME NEW m \in Markets, NEW side \in Sides, NEW levels \in Seq(MarketLevels(m, side))
  PROVE  /\ LivePrices(levels) \in SUBSET Int /\ IsFiniteSet(LivePrices(levels))
         /\ LivePrices(levels) # {} => /\ Max(LivePrices(levels)) \in Int
                                       /\ Min(LivePrices(levels)) \in Int
PROOF
<1> DEFINE S == LivePrices(levels)
<1>1. S \subseteq Prices
  BY DEF LivePrices, MarketLevels
<1>2. S \in SUBSET Int /\ IsFiniteSet(S)
  BY <1>1, BookAssumption, FeedAssumption, FS_Subset
<1> HIDE DEF S
<1>3. S # {} => Max(S) \in Int /\ Min(S) \in Int
  BY <1>2, FiniteExtremes
<1> QED
  BY <1>2, <1>3 DEF S

\* The case Snapshot of processEvent(): whatever the book held before.
LEMMA SnapshotFaithful ==
  ASSUME NEW m \in Markets, NEW b \in GoodBooks,
         NEW bids \in Seq(MarketLevels(m, "Bid")), NEW asks \in Seq(MarketLevels(m, "Ask"))
  PROVE  SnapshotApplied(b, bids, asks) \in Faithful(m, {})
PROOF
<1> DEFINE c == Cleared(b)
           d == Anchored(c, bids, asks)
<1>1. b \in Books
  BY DEF GoodBooks
<1>2. c \in GoodBooks /\ c.ladder = EmptySides([s \in Slots |-> 0])
  BY <1>1, ClearedGood
<1>3. Blank(c)
  BY <1>2 DEF Blank, EmptySides, Live
<1>4. d \in GoodBooks /\ Blank(d)
  <2> DEFINE B == LivePrices(bids)
             A == LivePrices(asks)
             bid == Max(B)
             ask == Min(A)
             mid == bid + (ask - bid) \div 2
  <2> HIDE DEF c
  <2>1. d = IF B = {} \/ A = {} THEN c ELSE Seeded(c, mid)
    BY DEF Anchored
  <2>2. ASSUME B # {}, A # {} PROVE mid \in Int
    <3>1. bid \in Int /\ ask \in Int
      BY <2>2, LivePricesFacts DEF Sides
    <3> HIDE DEF bid, ask
    <3> QED
      BY <3>1
  <2> HIDE DEF mid, A, B, d
  <2>3. CASE B = {} \/ A = {}
    BY <1>2, <1>3, <2>1, <2>3
  <2>4. CASE B # {} /\ A # {}
    <3>1. d = Seeded(c, mid) /\ mid \in Int
      BY <2>1, <2>2, <2>4
    <3>2. d \in GoodBooks /\ d.ladder = c.ladder
      BY <1>2, <3>1, SeededGood
    <3> QED
      BY <1>3, <3>2 DEF Blank
  <2> QED
    BY <2>3, <2>4
<1> HIDE DEF d
<1>5. d \in Faithful(m, {})
  BY <1>4, BlankFaithful
<1>6. WithSide(d, "Bid", bids) \in Faithful(m, {})
  BY <1>5, WithSideFaithful DEF Sides
<1>7. WithSide(WithSide(d, "Bid", bids), "Ask", asks) \in Faithful(m, {})
  BY <1>6, WithSideFaithful DEF Sides
<1> QED
  BY <1>7 DEF SnapshotApplied, d

\* The levels that are open after i changes, if those in missed are lost.
OpenAfter(open, said, missed, i) ==
  (open \ {LevelOf(said[j]) : j \in 1..i}) \cup missed

\* One more change.
LEMMA OpenStep ==
  ASSUME NEW open, NEW said, NEW missed, NEW i \in Nat, i # 0
  PROVE  /\ OpenAfter(open, said, missed, i - 1) \ {LevelOf(said[i])}
              \subseteq OpenAfter(open, said, missed, i)
         /\ LevelOf(said[i]) \in missed =>
              OpenAfter(open, said, missed, i - 1) \cup {LevelOf(said[i])}
                \subseteq OpenAfter(open, said, missed, i)
PROOF
<1>1. \A j \in 1..i : j = i \/ j \in 1..(i - 1)
  OBVIOUS
<1>2. \A j \in 1..(i - 1) : j \in 1..i
  OBVIOUS
<1>3. \A x \in {LevelOf(said[j]) : j \in 1..i} :
        x = LevelOf(said[i]) \/ x \in {LevelOf(said[j]) : j \in 1..(i - 1)}
  BY <1>1
<1> QED
  BY <1>3, Zenon DEF OpenAfter

\* Sets of books, one after each change of a message: a change leads from a set
\* to the next one, and one that may be lost leaves nothing behind.
Carried(V, said, missed) ==
  /\ V \in [0..Len(said) -> SUBSET GoodBooks]
  /\ \A i \in 1..Len(said) : \A c \in V[i - 1] :
       Updated(c, said[i].side, said[i].price, said[i].qty) \in V[i]
  /\ \A i \in 1..Len(said) : LevelOf(said[i]) \in missed => V[i - 1] \subseteq V[i]

\* The event with the changes after lo up to hi.
EventOf(part, changes, lo, hi) ==
  /\ lo \in Nat /\ hi \in Nat /\ lo <= hi /\ hi <= Len(changes)
  /\ part \in Seq(Changes) /\ Len(part) = hi - lo
  /\ \A j \in 1..(hi - lo) : part[j] = changes[lo + j]

\* It reaches the book, or is lost.
LEMMA ChunkCarried ==
  ASSUME NEW said, NEW changes, Relayed(said, changes),
         NEW V, NEW missed, Carried(V, said, missed),
         NEW part, NEW lo, NEW hi, EventOf(part, changes, lo, hi), NEW b \in V[lo],
         NEW lost \in BOOLEAN,
         lost => \A j \in 1..(hi - lo) : LevelOf(said[lo + j]) \in missed
  PROVE  (IF lost THEN b ELSE ChangesApplied(b, part)) \in V[hi]
PROOF
<1> DEFINE n == hi - lo
<1>0. /\ lo \in Nat /\ hi \in Nat /\ lo <= hi /\ hi <= Len(said)
      /\ part \in Seq(Changes) /\ Len(part) = n
      /\ \A j \in 1..n : part[j] = changes[lo + j]
  BY DEF EventOf, Relayed
<1>1. /\ Len(said) \in Nat
      /\ \A i \in 1..Len(said) : /\ changes[i].side = said[i].side
                                 /\ FromDouble(changes[i].price) = said[i].price
                                 /\ changes[i].qty = said[i].qty
  BY DEF Relayed
<1>2. n \in Nat /\ lo + n = hi /\ lo + 0 = lo /\ n \in 0..n /\ 0 \in 0..n
  BY <1>0
<1>3. ASSUME NEW j \in 1..n
      PROVE  lo + j \in 1..Len(said) /\ (lo + j) - 1 = lo + (j - 1)
  BY <1>0, <1>1
<1>4. CASE lost
  <2> DEFINE S == {j \in 0..n : b \in V[lo + j]}
  <2>1. 0 \in S
    BY <1>2
  <2>2. ASSUME NEW j \in 1..n, j - 1 \in S PROVE j \in S
    <3> DEFINE i == lo + j
    <3>1. i \in 1..Len(said) /\ i - 1 = lo + (j - 1)
      BY <1>3
    <3>2. b \in V[i - 1]
      BY <2>2, <3>1
    <3>3. LevelOf(said[i]) \in missed
      BY <1>4
    <3> HIDE DEF i
    <3>4. b \in V[i]
      BY <3>1, <3>2, <3>3 DEF Carried
    <3> QED
      BY <3>4 DEF i
  <2> HIDE DEF S, n
  <2>3. \A j \in 0..n : j \in S
    BY <1>2, <2>1, <2>2, BoundedInduction, Zenon
  <2>4. b \in V[lo + n]
    BY <1>2, <2>3 DEF S
  <2> QED
    BY <1>2, <1>4, <2>4
<1>5. CASE ~lost
  <2>1. b \in GoodBooks
    <3>1. lo \in 0..Len(said)
      BY <1>0, <1>1
    <3> QED
      BY <3>1 DEF Carried
  <2>2. PICK f : ChangesWalk(f, b, part)
    BY <1>0, <2>1, ChangesWalkExists
  <2>3. /\ f[0] = b /\ ChangesApplied(b, part) = f[n]
        /\ \A j \in 1..n : f[j] = Updated(f[j - 1], part[j].side,
                                         FromDouble(part[j].price), part[j].qty)
    BY <1>0, <2>2 DEF ChangesWalk
  <2> DEFINE S == {j \in 0..n : f[j] \in V[lo + j]}
  <2>4. 0 \in S
    BY <1>2, <2>3
  <2>5. ASSUME NEW j \in 1..n, j - 1 \in S PROVE j \in S
    <3> DEFINE i == lo + j
               c == f[j - 1]
    <3>1. i \in 1..Len(said) /\ i - 1 = lo + (j - 1)
      BY <1>3
    <3>2. c \in V[i - 1]
      BY <2>5, <3>1
    <3>3. part[j] = changes[i]
      BY <1>0
    <3>4. f[j] = Updated(c, part[j].side, FromDouble(part[j].price), part[j].qty)
      BY <2>3
    <3> HIDE DEF i, c
    <3>5. f[j] = Updated(c, said[i].side, said[i].price, said[i].qty)
      BY <1>1, <3>1, <3>3, <3>4
    <3>6. f[j] \in V[i]
      BY <3>1, <3>2, <3>5 DEF Carried
    <3> QED
      BY <3>6 DEF i
  <2> HIDE DEF S, n
  <2>6. \A j \in 0..n : j \in S
    BY <1>2, <2>4, <2>5, BoundedInduction, Zenon
  <2>7. f[n] \in V[lo + n]
    BY <1>2, <2>6 DEF S
  <2> QED
    BY <1>2, <1>5, <2>3, <2>7
<1> QED
  BY <1>4, <1>5

\* The levels that the lost events of an l2update speak of.
MissedIn(said, lost) == UNION {LevelsIn(Chunk(said, k)) : k \in lost}

\* The case L2Update of processEvent(), for every event of the message.
LEMMA MessageCarried ==
  ASSUME NEW said, NEW changes, Relayed(said, changes), NEW lost, lost \subseteq Chunks(changes),
         NEW V, Carried(V, said, MissedIn(said, lost)), NEW b \in V[0]
  PROVE  ChunksApplied(b, changes, lost) \in V[Len(said)]
PROOF
<1> DEFINE n == Len(said)
           K == NumChunks(said)
           missed == MissedIn(said, lost)
<1>1. /\ said \in Seq(Meanings) /\ changes \in Seq(Changes)
      /\ Len(changes) = n /\ n \in Nat /\ 0 \in 0..n
  BY DEF Relayed
<1>2. NumChunks(changes) = K /\ K = IF n = 0 THEN 1 ELSE (n + ChunkSize - 1) \div ChunkSize
  BY <1>1 DEF NumChunks
<1>3. b \in GoodBooks
  BY <1>1 DEF Carried
<1>4. PICK f : ChunksWalk(f, b, changes, lost)
  BY <1>1, <1>3, ChunksWalkExists
<1>5. /\ f[0] = b /\ ChunksApplied(b, changes, lost) = f[K]
      /\ \A k \in 1..K : f[k] = IF k \in lost THEN f[k - 1]
                                ELSE ChangesApplied(f[k - 1], Chunk(changes, k))
  BY <1>2, <1>4 DEF ChunksWalk
<1>6. /\ K \in Nat /\ Sent(n, 0) = 0 /\ Sent(n, K) = n
      /\ \A k \in 1..K : /\ Sent(n, k - 1) \in Nat /\ Sent(n, k) \in Nat
                         /\ Sent(n, k - 1) <= Sent(n, k) /\ Sent(n, k) <= n
  <2> HIDE DEF n, K
  <2> QED
    BY <1>1, <1>2, SentFacts, Zenon
<1> DEFINE S == {k \in 0..K : f[k] \in V[Sent(n, k)]}
<1>7. 0 \in S
  BY <1>5, <1>6
<1>8. ASSUME NEW k \in 1..K, k - 1 \in S PROVE k \in S
  <2> DEFINE lo == Sent(n, k - 1)
             hi == Sent(n, k)
             part == Chunk(changes, k)
             gone == IF k \in lost THEN TRUE ELSE FALSE
             c == f[k - 1]
  <2>1. lo \in Nat /\ hi \in Nat /\ lo <= hi /\ hi <= Len(said)
    BY <1>6
  <2>2. c \in V[lo]
    BY <1>8
  <2>3. k \in 1..NumChunks(changes) /\ k \in 1..NumChunks(said)
    BY <1>2
  <2>4. /\ part \in Seq(Changes) /\ Len(part) = hi - lo
        /\ \A j \in 1..(hi - lo) : part[j] = changes[lo + j]
    <3>1. LET l == Sent(Len(changes), k - 1)
              h == Sent(Len(changes), k)
          IN /\ Chunk(changes, k) \in Seq(Changes) /\ Len(Chunk(changes, k)) = h - l
             /\ \A j \in 1..(h - l) : Chunk(changes, k)[j] = changes[l + j]
      BY <1>1, <2>3, ChunkFacts
    <3> QED
      BY <1>1, <3>1
  <2>5. ASSUME gone, NEW j \in 1..(hi - lo) PROVE LevelOf(said[lo + j]) \in missed
    <3> DEFINE ck == Chunk(said, k)
    <3>1. /\ ck \in Seq(Meanings) /\ Len(ck) = hi - lo
          /\ \A i \in 1..(hi - lo) : ck[i] = said[lo + i]
      BY <1>1, <2>3, ChunkFacts
    <3> HIDE DEF ck
    <3>2. ck[j] = said[lo + j] /\ j \in 1..Len(ck)
      BY <2>5, <3>1
    <3>3. <<ck[j].side, ck[j].price>> \in LevelsIn(ck)
      BY <3>2 DEF LevelsIn
    <3>4. LevelsIn(ck) \subseteq missed
      BY <2>5 DEF MissedIn, ck
    <3> QED
      BY <3>2, <3>3, <3>4 DEF LevelOf
  <2>6. f[k] = IF gone THEN c ELSE ChangesApplied(c, part)
    BY <1>5
  <2>7. gone \in BOOLEAN
    BY Zenon
  <2> HIDE DEF lo, hi, part, gone, c, missed
  <2>8. gone => \A j \in 1..(hi - lo) : LevelOf(said[lo + j]) \in missed
    BY <2>5
  <2>9. Carried(V, said, missed)
    BY DEF missed
  <2>10. (IF gone THEN c ELSE ChangesApplied(c, part)) \in V[hi]
    <3>1. EventOf(part, changes, lo, hi)
      BY <1>1, <2>1, <2>4 DEF EventOf
    <3> QED
      BY <2>2, <2>7, <2>8, <2>9, <3>1, ChunkCarried
  <2>11. f[k] \in V[Sent(n, k)]
    BY <2>6, <2>10 DEF hi
  <2>12. k \in 0..K
    BY <1>6
  <2> QED
    BY <2>11, <2>12
<1> HIDE DEF S, K
<1>9. \A k \in 0..K : k \in S
  BY <1>6, <1>7, <1>8, BoundedInduction, Zenon
<1>10. f[K] \in V[Sent(n, K)]
  <2>1. K \in 0..K
    BY <1>6
  <2> QED
    BY <1>9, <2>1 DEF S
<1> QED
  BY <1>5, <1>6, <1>10

\* What is known of the market and of the open levels on the way.
LEMMA MarketOnTheWay ==
  ASSUME NEW m \in Markets, NEW said \in Seq(Meanings), NEW g, MarketWalk(g, m, said),
         NEW open, NEW missed, NEW i \in 1..Len(said)
  PROVE  LET before == OpenAfter(open, said, missed, i - 1)
             left == OpenAfter(open, said, missed, i)
             level == LevelOf(said[i])
         IN /\ g[i - 1] \in Markets /\ g[i] = WithChange(g[i - 1], said[i])
            /\ said[i] \in Meanings /\ before \ {level} \subseteq left
            /\ level \in missed => before \cup {level} \subseteq left
PROOF
<1>1. i \in Nat /\ i # 0 /\ i - 1 \in 0..Len(said) /\ said[i] \in Meanings
  OBVIOUS
<1>2. g[i - 1] \in Markets /\ g[i] = WithChange(g[i - 1], said[i])
  BY <1>1 DEF MarketWalk
<1> QED
  BY <1>1, <1>2, OpenStep

\* ... and at both ends.
LEMMA MarketAtTheEnds ==
  ASSUME NEW m \in Markets, NEW said \in Seq(Meanings), NEW g, MarketWalk(g, m, said),
         NEW open, NEW missed
  PROVE  /\ g[0] = m /\ open \subseteq OpenAfter(open, said, missed, 0)
         /\ g[Len(said)] = MarketAfter(m, said) /\ MarketAfter(m, said) \in Markets
         /\ OpenAfter(open, said, missed, Len(said)) = (open \ LevelsIn(said)) \cup missed
PROOF
<1>1. {LevelOf(said[j]) : j \in 1..0} = {}
  OBVIOUS
<1>2. open \subseteq OpenAfter(open, said, missed, 0)
  BY <1>1 DEF OpenAfter
<1>3. OpenAfter(open, said, missed, Len(said)) = (open \ LevelsIn(said)) \cup missed
  BY DEF OpenAfter, LevelsIn, LevelOf
<1>4. Len(said) \in 0..Len(said)
  OBVIOUS
<1> QED
  BY <1>2, <1>3, <1>4 DEF MarketWalk

\* No event of a message makes a phantom.
LEMMA L2UpdateFaithful ==
  ASSUME NEW m \in Markets, NEW said, NEW changes, Relayed(said, changes),
         NEW open, NEW b \in Faithful(m, open), NEW lost, lost \subseteq Chunks(changes)
  PROVE  /\ MarketAfter(m, said) \in Markets
         /\ ChunksApplied(b, changes, lost)
              \in Faithful(MarketAfter(m, said),
                           (open \ LevelsIn(said)) \cup MissedIn(said, lost))
PROOF
<1> DEFINE n == Len(said)
           missed == MissedIn(said, lost)
<1>1. said \in Seq(Meanings) /\ n \in Nat /\ n \in 0..n /\ 0 \in 0..n
  BY DEF Relayed
<1>2. PICK g : MarketWalk(g, m, said)
  BY <1>1, MarketWalkExists
<1> DEFINE F(i) == Faithful(g[i], OpenAfter(open, said, missed, i))
           V == [i \in 0..n |-> F(i)]
<1>3. /\ g[0] = m /\ open \subseteq OpenAfter(open, said, missed, 0)
      /\ g[n] = MarketAfter(m, said) /\ MarketAfter(m, said) \in Markets
      /\ OpenAfter(open, said, missed, n) = (open \ LevelsIn(said)) \cup missed
  BY <1>1, <1>2, MarketAtTheEnds
<1>4. b \in F(0)
  BY <1>3 DEF Faithful, Holds
<1>5. ASSUME NEW i \in 1..n
      PROVE  /\ \A c \in F(i - 1) : Updated(c, said[i].side, said[i].price, said[i].qty) \in F(i)
             /\ LevelOf(said[i]) \in missed => F(i - 1) \subseteq F(i)
  <2> DEFINE before == OpenAfter(open, said, missed, i - 1)
             left == OpenAfter(open, said, missed, i)
             level == LevelOf(said[i])
             M == g[i - 1]
  <2>1. /\ M \in Markets /\ g[i] = WithChange(M, said[i])
        /\ said[i] \in Meanings /\ before \ {level} \subseteq left
        /\ level \in missed => before \cup {level} \subseteq left
    BY <1>1, <1>2, MarketOnTheWay
  <2> HIDE DEF before, left, M, level
  <2>2. ASSUME NEW c \in Faithful(M, before)
        PROVE  Updated(c, said[i].side, said[i].price, said[i].qty) \in Faithful(g[i], left)
    BY <2>1, ReachedFaithful DEF level
  <2>3. ASSUME level \in missed, NEW c \in Faithful(M, before)
        PROVE  c \in Faithful(g[i], left)
    BY <2>1, <2>3, LostFaithful DEF level
  <2> QED
    BY <2>2, <2>3 DEF before, left, M, level
<1>6. ASSUME NEW i \in 0..n PROVE F(i) \subseteq GoodBooks
  BY DEF Faithful
<1>7. \A i \in 1..n : i \in 0..n /\ i - 1 \in 0..n
  BY <1>1
<1> HIDE DEF F, missed
<1>8. Carried(V, said, missed)
  BY <1>5, <1>6, <1>7 DEF Carried
<1>9. b \in V[0]
  BY <1>1, <1>4
<1> HIDE DEF V
<1>10. ChunksApplied(b, changes, lost) \in V[n]
  BY <1>8, <1>9, MessageCarried DEF missed
<1>11. ChunksApplied(b, changes, lost) \in F(n)
  BY <1>1, <1>10 DEF V
<1> QED
  BY <1>3, <1>11 DEF F, missed

-----------------------------------------------------------------------------
(* What a message leaves of the levels *)

\* update() writes its level and leaves the others, wherever the window was and
\* wherever it is now.
LEMMA UpdatedLevels ==
  ASSUME NEW b \in GoodBooks, NEW side \in Sides, NEW price \in Int, NEW qty \in Int
  PROVE  LET a == Seeded(b, price)
             c == Updated(b, side, price, qty)
         IN /\ c \in GoodBooks /\ c.haveRef
            /\ c.rebases = b.rebases + 1 \/ (c.rebases = b.rebases /\ c.ref = a.ref)
            /\ \A other \in Sides, p \in Int :
                 InWindow(a, p) /\ InWindow(c, p) =>
                   LevelAt(c, other, p) = IF other = side /\ p = price THEN qty
                                          ELSE LevelAt(a, other, p)
PROOF
<1> DEFINE a == Seeded(b, price)
           slot == SlotOf(a, price)
           d == WithLevel(a, side, slot, qty)
           c == Updated(b, side, price, qty)
<1>0. c \in GoodBooks
  BY UpdatedGood
<1>1. a \in GoodBooks /\ a.haveRef /\ a.rebases = b.rebases
  BY SeededGood
<1>2. c = IF slot \notin Slots THEN a ELSE Recentered(d)
  BY DEF Updated
<1>3. a.ref \in Int /\ a.ladder \in [Sides -> [Slots -> Int]] /\ Center \in Int
  BY <1>1, BookFields, Geometry DEF GoodBooks
<1> HIDE DEF a, c
<1>4. CASE slot \notin Slots
  <2>1. c = a
    BY <1>2, <1>4
  <2>2. ~InWindow(a, price)
    BY <1>4 DEF InWindow
  <2> QED
    BY <1>0, <1>1, <2>1, <2>2 DEF a, c
<1>5. CASE slot \in Slots
  <2>0. slot = Center + (price - a.ref)
    BY DEF SlotOf
  <2> HIDE DEF slot
  <2>1. /\ d \in GoodBooks /\ d.ref = a.ref /\ d.haveRef = a.haveRef
        /\ d.ladder = Written(a.ladder, side, slot, qty) /\ d.rebases = a.rebases
    BY <1>1, <1>5, WithLevelGood
  <2> HIDE DEF d
  <2>2. ASSUME NEW other \in Sides, NEW p \in Int, InWindow(a, p)
        PROVE  /\ InWindow(d, p)
               /\ LevelAt(d, other, p) = IF other = side /\ p = price THEN qty
                                         ELSE LevelAt(a, other, p)
    <3> DEFINE t == SlotOf(a, p)
    <3>1. t = Center + (p - a.ref) /\ SlotOf(d, p) = t
      BY <2>1 DEF SlotOf
    <3>2. t \in Slots /\ InWindow(d, p)
      BY <1>1, <2>1, <2>2, <3>1 DEF InWindow
    <3>3. t = slot <=> p = price
      BY <1>3, <2>0, <3>1
    <3>4. LevelAt(d, other, p) = d.ladder[other][t] /\ LevelAt(a, other, p) = a.ladder[other][t]
      BY <2>2, <3>1, <3>2 DEF LevelAt
    <3> HIDE DEF t
    <3>5. d.ladder[other][t] = IF other = side /\ t = slot THEN qty ELSE a.ladder[other][t]
      BY <1>3, <1>5, <2>1, <3>2 DEF Written
    <3> QED
      BY <3>2, <3>3, <3>4, <3>5
  <2>3. CASE Recentered(d) = d
    <3>1. c = d
      BY <1>2, <1>5, <2>3
    <3> QED
      BY <1>0, <1>1, <2>1, <2>2, <3>1 DEF a, c
  <2>4. CASE Recentered(d) # d
    <3> DEFINE r == NewRef(d)
               shift == r - d.ref
    <3>1. r \in Int /\ c = Rebased(d, r)
      BY <1>2, <1>5, <2>1, <2>4, RecenteredCases
    <3>2. d \in Books
      BY <2>1 DEF GoodBooks
    <3> HIDE DEF r
    <3>3. /\ c.ref = r /\ c.haveRef = d.haveRef /\ c.rebases = d.rebases + 1
          /\ c.ladder = Shifted(d.ladder, shift)
      BY <3>1, <3>2, RebasedGood
    <3>4. ASSUME NEW other \in Sides, NEW p \in Int, InWindow(a, p), InWindow(c, p)
          PROVE  LevelAt(c, other, p) = LevelAt(d, other, p)
      <4> DEFINE t == SlotOf(c, p)
      <4>1. t = Center + (p - r) /\ t \in Slots
        BY <3>3, <3>4 DEF InWindow, SlotOf
      <4>2. SlotOf(d, p) = t + shift
        BY <1>3, <2>1, <3>1, <4>1 DEF SlotOf
      <4>3. InWindow(d, p)
        BY <2>2, <3>4
      <4>4. t + shift \in Slots /\ LevelAt(d, other, p) = d.ladder[other][t + shift]
        BY <4>2, <4>3 DEF InWindow, LevelAt
      <4>5. LevelAt(c, other, p) = c.ladder[other][t]
        BY <3>4 DEF LevelAt
      <4> HIDE DEF t
      <4>6. c.ladder[other][t] = d.ladder[other][t + shift]
        BY <3>3, <4>1, <4>4 DEF Shifted
      <4> QED
        BY <4>4, <4>5, <4>6
    <3> QED
      BY <1>0, <1>1, <2>1, <2>2, <3>3, <3>4 DEF a, c
  <2> QED
    BY <2>3, <2>4
<1> QED
  BY <1>4, <1>5

\* The books that a message makes of o and in which every level of o that is still
\* inside the window has the market's quantity, unless it is open.
Kept(o, m, open) ==
  {c \in GoodBooks :
     /\ c.haveRef /\ c.rebases >= o.rebases
     /\ c.rebases = o.rebases => c.ref = o.ref
     /\ c.rebases <= o.rebases + 1 =>
          \A side \in Sides, p \in Prices :
            /\ Live(LevelAt(o, side, p)) /\ InWindow(c, p) /\ <<side, p>> \notin open
            => LevelAt(c, side, p) = m[side][p]}

\* A change keeps them,
LEMMA ReachedKept ==
  ASSUME NEW o \in GoodBooks, o.haveRef, NEW m \in Markets, NEW open, NEW b \in Kept(o, m, open),
         NEW ch \in Meanings, NEW left, open \ {LevelOf(ch)} \subseteq left
  PROVE  Updated(b, ch.side, ch.price, ch.qty) \in Kept(o, WithChange(m, ch), left)
PROOF
<1> DEFINE side == ch.side
           price == ch.price
           qty == ch.qty
           c == Updated(b, side, price, qty)
           M == WithChange(m, ch)
<1>1. side \in Sides /\ price \in Prices /\ price \in Int /\ qty \in Int
  BY BookAssumption DEF Meanings
<1>2. /\ b \in GoodBooks /\ b.haveRef /\ b.rebases >= o.rebases
      /\ b.rebases = o.rebases => b.ref = o.ref
      /\ b.rebases <= o.rebases + 1 =>
           \A s \in Sides, p \in Prices :
             /\ Live(LevelAt(o, s, p)) /\ InWindow(b, p) /\ <<s, p>> \notin open
             => LevelAt(b, s, p) = m[s][p]
  BY DEF Kept
<1>3. Seeded(b, price) = b
  BY <1>2 DEF Seeded
<1>4. \A s \in Sides, p \in Prices :
        M[s][p] = IF s = side /\ p = price THEN qty ELSE m[s][p]
  BY <1>1 DEF WithChange, Markets
<1>5. LevelOf(ch) = <<side, price>>
  BY DEF LevelOf
<1> HIDE DEF side, price, qty, M
<1>6. /\ c \in GoodBooks /\ c.haveRef
      /\ c.rebases = b.rebases + 1 \/ (c.rebases = b.rebases /\ c.ref = b.ref)
      /\ \A s \in Sides, p \in Int :
           InWindow(b, p) /\ InWindow(c, p) =>
             LevelAt(c, s, p) = IF s = side /\ p = price THEN qty ELSE LevelAt(b, s, p)
  BY <1>1, <1>2, <1>3, UpdatedLevels
<1>7. b.rebases \in Nat /\ c.rebases \in Nat /\ o.rebases \in Nat
  BY <1>2, <1>6, BookFields DEF GoodBooks
<1> HIDE DEF c
<1>8. ASSUME c.rebases <= o.rebases + 1, NEW s \in Sides, NEW p \in Prices,
             Live(LevelAt(o, s, p)), InWindow(c, p), <<s, p>> \notin left
      PROVE  LevelAt(c, s, p) = M[s][p]
  <2>1. b.rebases <= o.rebases + 1
    BY <1>6, <1>7, <1>8
  <2>2. InWindow(b, p)
    <3>1. CASE c.rebases = b.rebases /\ c.ref = b.ref
      BY <1>2, <1>8, <3>1 DEF InWindow, SlotOf
    <3>2. CASE c.rebases = b.rebases + 1
      <4>1. b.ref = o.ref
        BY <1>2, <1>7, <1>8, <3>2
      <4>2. InWindow(o, p)
        BY <1>8 DEF LevelAt, Live
      <4> QED
        BY <1>2, <4>1, <4>2 DEF InWindow, SlotOf
    <3> QED
      BY <1>6, <3>1, <3>2
  <2>3. LevelAt(c, s, p) = IF s = side /\ p = price THEN qty ELSE LevelAt(b, s, p)
    BY <1>6, <1>8, <2>2, BookAssumption
  <2>4. CASE s = side /\ p = price
    BY <1>4, <2>3, <2>4
  <2>5. CASE ~(s = side /\ p = price)
    <3>1. <<s, p>> # LevelOf(ch)
      BY <1>5, <2>5
    <3>2. <<s, p>> \notin open
      BY <1>8, <3>1
    <3>3. LevelAt(b, s, p) = m[s][p]
      BY <1>2, <1>8, <2>1, <2>2, <3>2
    <3> QED
      BY <1>4, <2>3, <2>5, <3>3
  <2> QED
    BY <2>4, <2>5
<1>9. c.rebases = o.rebases => c.ref = o.ref
  BY <1>2, <1>6, <1>7
<1>10. c.rebases >= o.rebases
  BY <1>2, <1>6, <1>7
<1>11. c \in Kept(o, M, left)
  BY <1>6, <1>8, <1>9, <1>10 DEF Kept
<1> QED
  BY <1>11 DEF c, side, price, qty, M

\* and so does the loss of one.
LEMMA LostKept ==
  ASSUME NEW o, NEW m \in Markets, NEW open, NEW b \in Kept(o, m, open),
         NEW ch \in Meanings, NEW left, open \cup {LevelOf(ch)} \subseteq left
  PROVE  b \in Kept(o, WithChange(m, ch), left)
PROOF
<1> DEFINE M == WithChange(m, ch)
<1>1. ch.side \in Sides /\ ch.price \in Prices /\ ch.qty \in Qtys
  BY DEF Meanings
<1>2. \A s \in Sides, p \in Prices : <<s, p>> = LevelOf(ch) \/ M[s][p] = m[s][p]
  BY <1>1 DEF WithChange, Markets, LevelOf
<1> HIDE DEF M
<1>3. b \in Kept(o, M, left)
  BY <1>2 DEF Kept
<1> QED
  BY <1>3 DEF M

\* What a message keeps of the levels of a book.
LEMMA L2UpdateKept ==
  ASSUME NEW m \in Markets, NEW said, NEW changes, Relayed(said, changes),
         NEW open, NEW b \in Faithful(m, open), b.haveRef,
         NEW lost, lost \subseteq Chunks(changes)
  PROVE  ChunksApplied(b, changes, lost)
           \in Kept(b, MarketAfter(m, said), (open \ LevelsIn(said)) \cup MissedIn(said, lost))
PROOF
<1> DEFINE n == Len(said)
           missed == MissedIn(said, lost)
<1>1. said \in Seq(Meanings) /\ n \in Nat /\ n \in 0..n /\ 0 \in 0..n
  BY DEF Relayed
<1>2. PICK g : MarketWalk(g, m, said)
  BY <1>1, MarketWalkExists
<1> DEFINE F(i) == Kept(b, g[i], OpenAfter(open, said, missed, i))
           V == [i \in 0..n |-> F(i)]
<1>3. /\ g[0] = m /\ open \subseteq OpenAfter(open, said, missed, 0)
      /\ g[n] = MarketAfter(m, said)
      /\ OpenAfter(open, said, missed, n) = (open \ LevelsIn(said)) \cup missed
  BY <1>1, <1>2, MarketAtTheEnds
<1>4. b \in GoodBooks /\ Holds(b, m, open) /\ b.rebases \in Nat
  BY BookFields DEF Faithful, GoodBooks
<1>5. b \in F(0)
  <2>1. ASSUME NEW s \in Sides, NEW p \in Prices, Live(LevelAt(b, s, p)),
               <<s, p>> \notin OpenAfter(open, said, missed, 0)
        PROVE  LevelAt(b, s, p) = m[s][p]
    <3> DEFINE t == SlotOf(b, p)
    <3>1. t \in Slots /\ LevelAt(b, s, p) = b.ladder[s][t]
      BY <2>1 DEF LevelAt, InWindow, Live
    <3>2. PriceOf(b, t) = p
      <4>1. b.ref \in Int /\ p \in Int
        BY <1>4, BookFields, BookAssumption DEF GoodBooks
      <4> QED
        BY <3>1, <4>1, PriceOfSlot
    <3> HIDE DEF t
    <3> QED
      BY <1>3, <1>4, <2>1, <3>1, <3>2 DEF Holds
  <2> QED
    BY <1>3, <1>4, <2>1 DEF Kept
<1>6. ASSUME NEW i \in 1..n
      PROVE  /\ \A c \in F(i - 1) : Updated(c, said[i].side, said[i].price, said[i].qty) \in F(i)
             /\ LevelOf(said[i]) \in missed => F(i - 1) \subseteq F(i)
  <2> DEFINE before == OpenAfter(open, said, missed, i - 1)
             left == OpenAfter(open, said, missed, i)
             level == LevelOf(said[i])
             M == g[i - 1]
  <2>1. /\ M \in Markets /\ g[i] = WithChange(M, said[i])
        /\ said[i] \in Meanings /\ before \ {level} \subseteq left
        /\ level \in missed => before \cup {level} \subseteq left
    BY <1>1, <1>2, MarketOnTheWay
  <2> HIDE DEF before, left, M, level
  <2>2. ASSUME NEW c \in Kept(b, M, before)
        PROVE  Updated(c, said[i].side, said[i].price, said[i].qty) \in Kept(b, g[i], left)
    BY <1>4, <2>1, ReachedKept DEF level
  <2>3. ASSUME level \in missed, NEW c \in Kept(b, M, before)
        PROVE  c \in Kept(b, g[i], left)
    BY <2>1, <2>3, LostKept DEF level
  <2> QED
    BY <2>2, <2>3 DEF before, left, M, level
<1>7. ASSUME NEW i \in 0..n PROVE F(i) \subseteq GoodBooks
  BY DEF Kept
<1>8. \A i \in 1..n : i \in 0..n /\ i - 1 \in 0..n
  BY <1>1
<1> HIDE DEF F, missed
<1>9. Carried(V, said, missed)
  BY <1>6, <1>7, <1>8 DEF Carried
<1>10. b \in V[0]
  BY <1>1, <1>5
<1> HIDE DEF V
<1>11. ChunksApplied(b, changes, lost) \in V[n]
  BY <1>9, <1>10, MessageCarried DEF missed
<1>12. ChunksApplied(b, changes, lost) \in F(n)
  BY <1>1, <1>11 DEF V
<1> QED
  BY <1>3, <1>12 DEF F, missed

-----------------------------------------------------------------------------
(* The book is complete while the window stands *)

\* Inside the window every level that is not open has the market's quantity.  A
\* window that is not anchored yet is empty, and so is the market as far as known.
Complete(b, m, open) ==
  /\ b.haveRef =>
       \A side \in Sides, p \in Prices :
         InWindow(b, p) /\ <<side, p>> \notin open => LevelAt(b, side, p) = m[side][p]
  /\ ~b.haveRef =>
       /\ b.ladder = EmptySides([s \in Slots |-> 0])
       /\ \A side \in Sides, p \in Prices : <<side, p>> \notin open => m[side][p] = 0

\* The good books that are complete unless the window moved: rebase_count_ was r.
Tracks(r, m, open) ==
  {c \in GoodBooks : c.rebases >= r /\ (c.rebases = r => Complete(c, m, open))}

\* A change that reaches the book settles its level,
LEMMA ReachedTracks ==
  ASSUME NEW r \in Nat, NEW m \in Markets, NEW open, NEW b \in Tracks(r, m, open),
         NEW ch \in Meanings, NEW left, open \ {LevelOf(ch)} \subseteq left
  PROVE  Updated(b, ch.side, ch.price, ch.qty) \in Tracks(r, WithChange(m, ch), left)
PROOF
<1> DEFINE side == ch.side
           price == ch.price
           qty == ch.qty
           c == Updated(b, side, price, qty)
           a == Seeded(b, price)
           M == WithChange(m, ch)
<1>1. side \in Sides /\ price \in Prices /\ price \in Int /\ qty \in Int
  BY BookAssumption DEF Meanings
<1>2. b \in GoodBooks /\ b.rebases >= r /\ (b.rebases = r => Complete(b, m, open))
  BY DEF Tracks
<1>3. \A s \in Sides, p \in Prices :
        M[s][p] = IF s = side /\ p = price THEN qty ELSE m[s][p]
  BY <1>1 DEF WithChange, Markets
<1>4. LevelOf(ch) = <<side, price>>
  BY DEF LevelOf
<1> HIDE DEF side, price, qty, M
<1>5. /\ c \in GoodBooks /\ c.haveRef
      /\ c.rebases = b.rebases + 1 \/ (c.rebases = b.rebases /\ c.ref = a.ref)
      /\ \A s \in Sides, p \in Int :
           InWindow(a, p) /\ InWindow(c, p) =>
             LevelAt(c, s, p) = IF s = side /\ p = price THEN qty ELSE LevelAt(a, s, p)
  BY <1>1, <1>2, UpdatedLevels
<1>6. b.rebases \in Nat /\ c.rebases \in Nat
  BY <1>2, <1>5, BookFields DEF GoodBooks
<1>7. a.haveRef /\ a.ladder = b.ladder
  BY <1>1, <1>2, SeededGood
<1>8. b.haveRef => a = b
  BY DEF Seeded
<1> HIDE DEF c, a
<1>9. ASSUME c.rebases = r, NEW s \in Sides, NEW p \in Prices,
             InWindow(c, p), <<s, p>> \notin left
      PROVE  LevelAt(c, s, p) = M[s][p]
  <2>1. b.rebases = r /\ c.ref = a.ref
    BY <1>2, <1>5, <1>6, <1>9
  <2>2. InWindow(a, p)
    BY <1>7, <1>9, <2>1 DEF InWindow, SlotOf
  <2>3. LevelAt(c, s, p) = IF s = side /\ p = price THEN qty ELSE LevelAt(a, s, p)
    BY <1>5, <1>9, <2>2, BookAssumption
  <2>4. CASE s = side /\ p = price
    BY <1>3, <2>3, <2>4
  <2>5. CASE ~(s = side /\ p = price)
    <3>1. <<s, p>> # LevelOf(ch)
      BY <1>4, <2>5
    <3>2. <<s, p>> \notin open
      BY <1>9, <3>1
    <3>3. Complete(b, m, open)
      BY <1>2, <2>1
    <3>4. LevelAt(a, s, p) = m[s][p]
      <4>1. CASE b.haveRef
        BY <1>8, <2>2, <3>2, <3>3, <4>1 DEF Complete
      <4>2. CASE ~b.haveRef
        <5>1. m[s][p] = 0 /\ a.ladder = EmptySides([t \in Slots |-> 0])
          BY <1>7, <3>2, <3>3, <4>2 DEF Complete
        <5>2. SlotOf(a, p) \in Slots
          BY <2>2 DEF InWindow
        <5> QED
          BY <2>2, <5>1, <5>2 DEF LevelAt, EmptySides
      <4> QED
        BY <4>1, <4>2
    <3> QED
      BY <1>3, <2>3, <2>5, <3>4
  <2> QED
    BY <2>4, <2>5
<1>10. c.rebases = r => Complete(c, M, left)
  BY <1>5, <1>9 DEF Complete
<1>11. c.rebases >= r
  BY <1>2, <1>5, <1>6
<1>12. c \in Tracks(r, M, left)
  BY <1>5, <1>10, <1>11 DEF Tracks
<1> QED
  BY <1>12 DEF c, side, price, qty, M

\* and one that does not leaves it open.
LEMMA LostTracks ==
  ASSUME NEW r, NEW m \in Markets, NEW open, NEW b \in Tracks(r, m, open),
         NEW ch \in Meanings, NEW left, open \cup {LevelOf(ch)} \subseteq left
  PROVE  b \in Tracks(r, WithChange(m, ch), left)
PROOF
<1> DEFINE M == WithChange(m, ch)
<1>1. ch.side \in Sides /\ ch.price \in Prices /\ ch.qty \in Qtys
  BY DEF Meanings
<1>2. \A s \in Sides, p \in Prices : <<s, p>> = LevelOf(ch) \/ M[s][p] = m[s][p]
  BY <1>1 DEF WithChange, Markets, LevelOf
<1> HIDE DEF M
<1>3. Complete(b, m, open) => Complete(b, M, left)
  BY <1>2 DEF Complete
<1>4. b \in Tracks(r, M, left)
  BY <1>3 DEF Tracks
<1> QED
  BY <1>4 DEF M

\* More may be open.
LEMMA OpenTracks ==
  ASSUME NEW r, NEW m, NEW open, NEW left, open \subseteq left, NEW b \in Tracks(r, m, open)
  PROVE  b \in Tracks(r, m, left)
PROOF
<1>1. Complete(b, m, open) => Complete(b, m, left)
  BY DEF Complete
<1> QED
  BY <1>1 DEF Tracks

\* An l2update, with any of its events lost.
LEMMA L2UpdateTracks ==
  ASSUME NEW m \in Markets, NEW said, NEW changes, Relayed(said, changes), NEW r \in Nat,
         NEW open, NEW b \in Tracks(r, m, open), NEW lost, lost \subseteq Chunks(changes)
  PROVE  ChunksApplied(b, changes, lost)
           \in Tracks(r, MarketAfter(m, said), (open \ LevelsIn(said)) \cup MissedIn(said, lost))
PROOF
<1> DEFINE n == Len(said)
           missed == MissedIn(said, lost)
<1>1. said \in Seq(Meanings) /\ n \in Nat /\ n \in 0..n /\ 0 \in 0..n
  BY DEF Relayed
<1>2. PICK g : MarketWalk(g, m, said)
  BY <1>1, MarketWalkExists
<1> DEFINE F(i) == Tracks(r, g[i], OpenAfter(open, said, missed, i))
           V == [i \in 0..n |-> F(i)]
<1>3. /\ g[0] = m /\ open \subseteq OpenAfter(open, said, missed, 0)
      /\ g[n] = MarketAfter(m, said)
      /\ OpenAfter(open, said, missed, n) = (open \ LevelsIn(said)) \cup missed
  BY <1>1, <1>2, MarketAtTheEnds
<1>4. b \in F(0)
  <2> DEFINE more == OpenAfter(open, said, missed, 0)
  <2> HIDE DEF more
  <2>1. open \subseteq more
    BY <1>3 DEF more
  <2>2. b \in Tracks(r, m, more)
    BY <2>1, OpenTracks
  <2> QED
    BY <1>3, <2>2 DEF more
<1>5. ASSUME NEW i \in 1..n
      PROVE  /\ \A c \in F(i - 1) : Updated(c, said[i].side, said[i].price, said[i].qty) \in F(i)
             /\ LevelOf(said[i]) \in missed => F(i - 1) \subseteq F(i)
  <2> DEFINE before == OpenAfter(open, said, missed, i - 1)
             left == OpenAfter(open, said, missed, i)
             level == LevelOf(said[i])
             M == g[i - 1]
  <2>1. /\ M \in Markets /\ g[i] = WithChange(M, said[i])
        /\ said[i] \in Meanings /\ before \ {level} \subseteq left
        /\ level \in missed => before \cup {level} \subseteq left
    BY <1>1, <1>2, MarketOnTheWay
  <2> HIDE DEF before, left, M, level
  <2>2. ASSUME NEW c \in Tracks(r, M, before)
        PROVE  Updated(c, said[i].side, said[i].price, said[i].qty) \in Tracks(r, g[i], left)
    BY <2>1, ReachedTracks DEF level
  <2>3. ASSUME level \in missed, NEW c \in Tracks(r, M, before)
        PROVE  c \in Tracks(r, g[i], left)
    BY <2>1, <2>3, LostTracks DEF level
  <2> QED
    BY <2>2, <2>3 DEF before, left, M, level
<1>6. ASSUME NEW i \in 0..n PROVE F(i) \subseteq GoodBooks
  BY DEF Tracks
<1>7. \A i \in 1..n : i \in 0..n /\ i - 1 \in 0..n
  BY <1>1
<1> HIDE DEF F, missed
<1>8. Carried(V, said, missed)
  BY <1>5, <1>6, <1>7 DEF Carried
<1>9. b \in V[0]
  BY <1>1, <1>4
<1> HIDE DEF V
<1>10. ChunksApplied(b, changes, lost) \in V[n]
  BY <1>8, <1>9, MessageCarried DEF missed
<1>11. ChunksApplied(b, changes, lost) \in F(n)
  BY <1>1, <1>10 DEF V
<1> QED
  BY <1>3, <1>11 DEF F, missed

\* The levels of a side that an event lists.
ListedIn(side, levels) == {<<side, levels[j].price>> : j \in 1..Len(levels)}

\* A side of a snapshot settles the levels that it lists.
LEMMA WithSideTracks ==
  ASSUME NEW m \in Markets, NEW side \in Sides, NEW r \in Nat, NEW open,
         NEW b \in Tracks(r, m, open), NEW levels \in Seq(MarketLevels(m, side))
  PROVE  WithSide(b, side, levels) \in Tracks(r, m, open \ ListedIn(side, levels))
PROOF
<1> DEFINE n == Len(levels)
           left(i) == open \ {<<side, levels[j].price>> : j \in 1..i}
<1>1. \A l \in MarketLevels(m, side) : l.price \in Prices /\ l.qty = m[side][l.price]
  BY DEF MarketLevels
<1>2. MarketLevels(m, side) \subseteq LevelRecords
  <2>1. ASSUME NEW p \in Prices PROVE p \in Int /\ m[side][p] \in Int
    BY BookAssumption DEF Markets
  <2> QED
    BY <2>1 DEF MarketLevels, LevelRecords
<1>3. levels \in Seq(LevelRecords) /\ b \in GoodBooks
  BY <1>2 DEF Tracks
<1>4. PICK f : WithSideWalk(f, b, side, levels)
  BY <1>3, WithSideWalkExists
<1>5. /\ f[0] = b /\ n \in Nat
      /\ \A i \in 1..n : f[i] = Updated(f[i - 1], side, levels[i].price, levels[i].qty)
      /\ WithSide(b, side, levels) = f[n]
  BY <1>4 DEF WithSideWalk
<1> DEFINE S == {i \in 0..n : f[i] \in Tracks(r, m, left(i))}
<1>6. ASSUME NEW i \in 1..n, i - 1 \in S PROVE i \in S
  <2> DEFINE l == levels[i]
             ch == [side |-> side, price |-> l.price, qty |-> l.qty]
             o == left(i - 1)
             e == left(i)
  <2>1. l \in MarketLevels(m, side)
    OBVIOUS
  <2>2. l.price \in Prices /\ l.qty = m[side][l.price]
    BY <1>1, <2>1
  <2>3. ch \in Meanings /\ ch.side = side /\ ch.price = l.price /\ ch.qty = l.qty
    BY <2>2 DEF Meanings, Markets
  <2>4. WithChange(m, ch) = m
    BY <2>2, <2>3 DEF WithChange, Markets
  <2>5. f[i] = Updated(f[i - 1], ch.side, ch.price, ch.qty)
    BY <1>5, <2>3
  <2>6. LevelOf(ch) = <<side, levels[i].price>>
    BY <2>3 DEF LevelOf
  <2>7. o \ {LevelOf(ch)} \subseteq e
    <3>1. \A j \in 1..i : j = i \/ j \in 1..(i - 1)
      OBVIOUS
    <3> QED
      BY <2>6, <3>1
  <2> HIDE DEF ch, l, e, o
  <2> DEFINE c == f[i - 1]
  <2>8. c \in Tracks(r, m, o)
    BY <1>6 DEF o
  <2> HIDE DEF c
  <2>9. Updated(c, ch.side, ch.price, ch.qty) \in Tracks(r, WithChange(m, ch), e)
    BY <2>3, <2>7, <2>8, ReachedTracks
  <2>10. f[i] \in Tracks(r, m, left(i))
    BY <2>4, <2>5, <2>9 DEF c, e
  <2> QED
    BY <2>10
<1>7. 0 \in S
  <2>1. open \subseteq left(0)
    OBVIOUS
  <2> DEFINE e == left(0)
  <2> HIDE DEF e
  <2>2. b \in Tracks(r, m, e)
    BY <2>1, OpenTracks DEF e
  <2> QED
    BY <1>5, <2>2 DEF e
<1> HIDE DEF S
<1>8. \A i \in 0..n : i \in S
  <2> HIDE DEF n
  <2> QED
    BY <1>5, <1>6, <1>7, BoundedInduction, Zenon
<1>9. f[n] \in Tracks(r, m, left(n))
  <2>1. n \in S
    BY <1>5, <1>8
  <2> QED
    BY <2>1 DEF S
<1> QED
  BY <1>5, <1>9 DEF ListedIn

\* The levels that the market has.
Quoted(m) == {l \in Sides \X Prices : m[l[1]][l[2]] # 0}

\* The case Snapshot of processEvent(): only the levels that it does not list are
\* open, whatever the book held before.
LEMMA SnapshotTracks ==
  ASSUME NEW m \in Markets, NEW b \in GoodBooks,
         NEW bids \in Seq(MarketLevels(m, "Bid")), NEW asks \in Seq(MarketLevels(m, "Ask"))
  PROVE  /\ b.rebases \in Nat
         /\ SnapshotApplied(b, bids, asks)
              \in Tracks(b.rebases, m, (Quoted(m) \ ListedIn("Bid", bids)) \ ListedIn("Ask", asks))
PROOF
<1> DEFINE c == Cleared(b)
           d == Anchored(c, bids, asks)
           r == b.rebases
           empty == EmptySides([s \in Slots |-> 0])
           open == Quoted(m)
<1>1. b \in Books /\ r \in Nat
  BY BookFields DEF GoodBooks
<1>2. c \in GoodBooks /\ c.ladder = empty /\ c.rebases = r
  BY <1>1, ClearedGood DEF Cleared, Books
<1>3. d \in GoodBooks /\ d.ladder = empty /\ d.rebases = r
  <2> DEFINE B == LivePrices(bids)
             A == LivePrices(asks)
             bid == Max(B)
             ask == Min(A)
             mid == bid + (ask - bid) \div 2
  <2> HIDE DEF c
  <2>1. d = IF B = {} \/ A = {} THEN c ELSE Seeded(c, mid)
    BY DEF Anchored
  <2>2. ASSUME B # {}, A # {} PROVE mid \in Int
    <3>1. bid \in Int /\ ask \in Int
      BY <2>2, LivePricesFacts DEF Sides
    <3> HIDE DEF bid, ask
    <3> QED
      BY <3>1
  <2> HIDE DEF mid, A, B, d
  <2>3. CASE B = {} \/ A = {}
    BY <1>2, <2>1, <2>3
  <2>4. CASE B # {} /\ A # {}
    <3>1. d = Seeded(c, mid) /\ mid \in Int
      BY <2>1, <2>2, <2>4
    <3> QED
      BY <1>2, <3>1, SeededGood
  <2> QED
    BY <2>3, <2>4
<1>4. ASSUME NEW side \in Sides, NEW p \in Prices, <<side, p>> \notin open
      PROVE  m[side][p] = 0
  BY <1>4 DEF Quoted
<1> HIDE DEF d, open, r
<1>5. ASSUME NEW side \in Sides, NEW p \in Prices, InWindow(d, p)
      PROVE  LevelAt(d, side, p) = 0
  BY <1>3, <1>5 DEF LevelAt, InWindow, EmptySides
<1>6. d \in Tracks(r, m, open)
  <2>1. Complete(d, m, open)
    BY <1>3, <1>4, <1>5 DEF Complete
  <2> QED
    BY <1>1, <1>3, <2>1 DEF Tracks
<1> DEFINE e == WithSide(d, "Bid", bids)
           left == open \ ListedIn("Bid", bids)
<1>7. e \in Tracks(r, m, left)
  BY <1>1, <1>6, WithSideTracks DEF Sides
<1> HIDE DEF e, left
<1>8. WithSide(e, "Ask", asks) \in Tracks(r, m, left \ ListedIn("Ask", asks))
  BY <1>1, <1>7, WithSideTracks DEF Sides
<1> QED
  BY <1>1, <1>8 DEF SnapshotApplied, d, e, left, open, r

-----------------------------------------------------------------------------
(* What depth() returns *)

\* The levels of the market inside the window, and the first n of them.
Visible(b, m, side) == {p \in LevelsOf(m, side) : InWindow(b, p)}

MarketDepth(b, m, side, n) ==
  LET order == Listed(side, Visible(b, m, side))
  IN [i \in 1..Min({n, Len(order)}) |-> [price |-> order[i], qty |-> m[side][order[i]]]]

Moved(S, k) == {x + k : x \in S}

\* A set that is moved as a whole keeps its size,
LEMMA MovedSize ==
  ASSUME NEW S \in SUBSET Int, IsFiniteSet(S), NEW k \in Int
  PROVE  IsFiniteSet(Moved(S, k)) /\ Cardinality(Moved(S, k)) = Cardinality(S)
PROOF
<1> DEFINE T == Moved(S, k)
           f == [x \in S |-> x + k]
<1>1. f \in [S -> T] /\ \A y \in T : \E x \in S : f[x] = y
  BY DEF Moved
<1>2. \A x, y \in S : f[x] = f[y] => x = y
  OBVIOUS
<1> HIDE DEF f, T
<1>3. f \in Bijection(S, T)
  BY <1>1, <1>2 DEF Bijection, Injection, Surjection, IsInjective
<1>4. ExistsBijection(S, T)
  BY <1>3 DEF ExistsBijection
<1>5. IsFiniteSet(T) /\ Cardinality(S) = Cardinality(T)
  BY <1>4, FS_Bijection
<1> QED
  BY <1>5 DEF T

\* and its elements their ranks.
LEMMA MovedRanks ==
  ASSUME NEW side \in Sides, NEW S \in SUBSET Int, IsFiniteSet(S), NEW k \in Int, NEW x \in S
  PROVE  Cardinality(Ahead(side, Moved(S, k), x + k)) = Cardinality(Ahead(side, S, x))
PROOF
<1> DEFINE A == Ahead(side, S, x)
<1>1. A \in SUBSET Int /\ IsFiniteSet(A)
  BY FS_Subset DEF Ahead
<1>2. \A y \in S : Better(side, y + k, x + k) <=> Better(side, y, x)
  <2>1. \A y \in S : y \in Int /\ x \in Int
    OBVIOUS
  <2> QED
    BY <2>1 DEF Better
<1>3. Ahead(side, Moved(S, k), x + k) = Moved(A, k)
  BY <1>2 DEF Ahead, Moved
<1> HIDE DEF A
<1>4. Cardinality(Moved(A, k)) = Cardinality(A)
  BY <1>1, MovedSize
<1> QED
  BY <1>3, <1>4 DEF A

\* A complete book holds the levels of the market inside the window, and no other.
LEMMA LiveSlotsVisible ==
  ASSUME NEW m \in Markets, NEW b \in Faithful(m, {}), b.haveRef, Complete(b, m, {}),
         NEW side \in Sides
  PROVE  /\ Visible(b, m, side) = Moved(LiveSlots(b, side), b.ref - Center)
         /\ \A s \in LiveSlots(b, side) : m[side][PriceOf(b, s)] = b.ladder[side][s]
PROOF
<1> DEFINE L == LiveSlots(b, side)
           W == Visible(b, m, side)
           k == b.ref - Center
<1>1. b.ref \in Int /\ Center \in Int /\ Slots \subseteq Int /\ Prices \subseteq Int
  BY BookFields, Geometry, BookAssumption DEF Faithful, GoodBooks, Slots
<1>2. ASSUME NEW s \in L
      PROVE  PriceOf(b, s) = s + k /\ s + k \in W /\ m[side][PriceOf(b, s)] = b.ladder[side][s]
  <2> DEFINE p == PriceOf(b, s)
  <2>1. s \in Slots /\ Live(b.ladder[side][s])
    BY DEF LiveSlots
  <2>2. p \in Prices /\ m[side][p] = b.ladder[side][s]
    BY <2>1 DEF Faithful, Holds
  <2>3. p = s + k /\ SlotOf(b, p) = s
    BY <1>1, <2>1 DEF PriceOf, SlotOf
  <2> HIDE DEF p
  <2>4. p \in LevelsOf(m, side) /\ InWindow(b, p)
    BY <2>1, <2>2, <2>3 DEF LevelsOf, InWindow
  <2> QED
    BY <2>2, <2>3, <2>4 DEF Visible, p
<1>3. ASSUME NEW p \in W PROVE \E s \in L : p = s + k
  <2> DEFINE s == SlotOf(b, p)
  <2>1. p \in Prices /\ Live(m[side][p]) /\ InWindow(b, p)
    BY DEF Visible, LevelsOf
  <2>2. LevelAt(b, side, p) = m[side][p]
    BY <2>1 DEF Complete
  <2>3. s \in Slots /\ LevelAt(b, side, p) = b.ladder[side][s]
    BY <2>1 DEF InWindow, LevelAt
  <2>4. p = s + k
    BY <1>1, <2>1, <2>3 DEF SlotOf
  <2> HIDE DEF s, k
  <2>5. s \in L
    BY <2>1, <2>2, <2>3 DEF LiveSlots
  <2> QED
    BY <2>4, <2>5
<1> HIDE DEF L, W, k
<1>4. W = Moved(L, k)
  BY <1>2, <1>3 DEF Moved
<1> QED
  BY <1>2, <1>4 DEF L, W, k

\* depth() of a complete book.
LEMMA DepthIsMarket ==
  ASSUME NEW m \in Markets, NEW b \in Faithful(m, {}), b.haveRef, Complete(b, m, {}),
         NEW side \in Sides, NEW n \in Nat
  PROVE  Depth(b, side, n) = MarketDepth(b, m, side, n)
PROOF
<1> DEFINE L == LiveSlots(b, side)
           W == Visible(b, m, side)
           k == b.ref - Center
           order == Listed(side, W)
           rank(s) == Cardinality({t \in L : Better(side, t, s)})
           out(i) == CHOOSE s \in L : rank(s) = i - 1
<1>1. /\ b.ref \in Int /\ Center \in Int /\ k \in Int
      /\ Slots \in SUBSET Int /\ IsFiniteSet(Slots) /\ L \in SUBSET Slots
  <2>1. b.ref \in Int /\ Center \in Int
    BY BookFields, Geometry DEF Faithful, GoodBooks
  <2>2. IsFiniteSet(Slots) /\ Slots \in SUBSET Int
    BY FS_Interval, Geometry, BookAssumption DEF Slots
  <2> QED
    BY <2>1, <2>2 DEF LiveSlots
<1>2. L \in SUBSET Int /\ IsFiniteSet(L)
  BY <1>1, FS_Subset
<1>3. W = Moved(L, k) /\ \A s \in L : m[side][PriceOf(b, s)] = b.ladder[side][s]
  BY LiveSlotsVisible
<1>4. {s \in Slots : /\ ~Better(side, s, b.best[side])
                     /\ Live(b.ladder[side][s])} = L
  <2>1. IsBest(side, L, b.best[side])
    BY DEF Faithful, GoodBooks, Agrees
  <2>2. \A s \in L : ~Better(side, s, b.best[side])
    BY <2>1 DEF IsBest
  <2> QED
    BY <2>2 DEF LiveSlots
<1>5. Depth(b, side, n) = [i \in 1..Min({n, Cardinality(L)}) |->
                             [price |-> PriceOf(b, out(i)), qty |-> b.ladder[side][out(i)]]]
  <2> HIDE DEF L
  <2> QED
    BY <1>4, Zenon DEF Depth
<1>6. W \in SUBSET Prices
  BY DEF Visible, LevelsOf
<1>7. \A s : rank(s) = Cardinality(Ahead(side, L, s))
  BY DEF Ahead
<1> HIDE DEF L, W, k, rank
<1>8. Cardinality(W) = Cardinality(L) /\ Len(order) = Cardinality(W) /\ Cardinality(W) \in Nat
  BY <1>1, <1>2, <1>3, <1>6, MovedSize, ListedFacts, BestOfFacts
<1>9. ASSUME NEW i \in 1..Cardinality(W)
      PROVE  PriceOf(b, out(i)) = order[i] /\ b.ladder[side][out(i)] = m[side][order[i]]
  <2> DEFINE q == order[i]
  <2>1. q \in W /\ Cardinality(Ahead(side, W, q)) = i - 1
    BY <1>6, ListedRanks
  <2> HIDE DEF q
  <2>2. PICK s \in L : q = s + k
    BY <1>3, <2>1 DEF Moved
  <2>3. Cardinality(Ahead(side, L, s)) = i - 1
    BY <1>1, <1>2, <1>3, <2>1, <2>2, MovedRanks
  <2>4. ASSUME NEW t \in L, rank(t) = i - 1 PROVE t = s
    BY <1>2, <1>7, <2>3, <2>4, RankUnique
  <2>5. rank(s) = i - 1
    BY <1>7, <2>3
  <2>6. out(i) = s
    BY <2>4, <2>5, Zenon
  <2>7. PriceOf(b, s) = q
    BY <1>1, <1>2, <2>2 DEF PriceOf, k
  <2> HIDE DEF out
  <2> QED
    BY <1>3, <2>6, <2>7 DEF q
<1> DEFINE both == {n, Cardinality(W)}
<1>10. Min(both) \in Nat /\ Min(both) <= Cardinality(W)
  <2> DEFINE y == Cardinality(W)
  <2>1. y \in Nat /\ both = {n, y}
    BY <1>8
  <2>2. n + y \in Nat /\ both \in SUBSET (0..(n + y)) /\ both # {}
    BY <2>1
  <2> HIDE DEF y
  <2>3. Min(both) \in both /\ \A z \in both : Min(both) <= z
    <3> HIDE DEF both
    <3> QED
      BY <2>2, Extremes
  <2> QED
    BY <2>1, <2>3 DEF y
<1> HIDE DEF out, order
<1>11. \A i \in 1..Min(both) : i \in 1..Cardinality(W)
  BY <1>8, <1>10
<1>12. [i \in 1..Min(both) |-> [price |-> PriceOf(b, out(i)), qty |-> b.ladder[side][out(i)]]]
         = [i \in 1..Min(both) |-> [price |-> order[i], qty |-> m[side][order[i]]]]
  BY <1>9, <1>11
<1>13. MarketDepth(b, m, side, n)
         = [i \in 1..Min(both) |-> [price |-> order[i], qty |-> m[side][order[i]]]]
  BY <1>8 DEF MarketDepth, order, W
<1> QED
  BY <1>5, <1>8, <1>12, <1>13

-----------------------------------------------------------------------------
(* The event of a snapshot *)

\* The side of the event that a snapshot of the market makes.
EventSide(part, m, side) ==
  /\ part \in Seq(MarketLevels(m, side))
  /\ Len(part) = Shown(Cardinality(LevelsOf(m, side)))
  /\ \A i \in 1..Len(part) : part[i].price = BestFirst(m, side)[i]

\* What processEvent() gets of a snapshot.
LEMMA SnapshotEvent ==
  ASSUME market \in Markets, NEW junk \in Junk, Snapshot(junk)
  PROVE  \E bids, asks : /\ EventSide(bids, market, "Bid") /\ EventSide(asks, market, "Ask")
                         /\ book' = SnapshotApplied(book, bids, asks)
PROOF
<1> DEFINE list(side) == BestFirst(market, side)
           text(side) == [i \in 1..Len(list(side)) |->
                            WireLevel(list(side)[i], market[side][list(side)[i]])]
           part(side) == SnapSide(ParsedLevels(junk \o text(side)))
           event == [side \in Sides |-> part(side)]
<1>1. book' = SnapshotApplied(book, event["Bid"], event["Ask"])
  BY DEF Snapshot
<1>2. ASSUME NEW side \in Sides PROVE EventSide(part(side), market, side)
  <2> DEFINE t == text(side)
             l == list(side)
             e == part(side)
  <2>1. l \in Seq(Prices) /\ Len(l) = Cardinality(LevelsOf(market, side))
    <3> DEFINE prices == LevelsOf(market, side)
    <3>1. prices \in SUBSET Prices
      BY DEF LevelsOf
    <3> HIDE DEF prices
    <3>2. /\ Listed(side, prices) \in Seq(prices) /\ prices \subseteq Prices
          /\ Len(Listed(side, prices)) = Cardinality(prices)
      BY <3>1, ListedFacts
    <3>3. Listed(side, prices) \in Seq(Prices)
      BY <3>2
    <3> QED
      BY <3>2, <3>3 DEF BestFirst, prices
  <2>2. t = [i \in 1..Len(l) |-> WireLevel(l[i], market[side][l[i]])]
    OBVIOUS
  <2>3. e = SnapSide(ParsedLevels(junk \o t)) /\ l = BestFirst(market, side)
    OBVIOUS
  <2> HIDE DEF t, l, part, text
  <2>4. /\ e \in Seq(MarketLevels(market, side)) /\ Len(e) = Shown(Len(l))
        /\ \A i \in 1..Len(e) : e[i] = [price |-> l[i], qty |-> market[side][l[i]]]
    BY <2>1, <2>2, <2>3, SnapshotParsed
  <2>5. \A i \in 1..Len(e) : e[i].price = l[i]
    BY <2>4
  <2> QED
    BY <2>1, <2>3, <2>4, <2>5 DEF EventSide
<1> HIDE DEF part
<1>3. EventSide(event["Bid"], market, "Bid") /\ EventSide(event["Ask"], market, "Ask")
  BY <1>2 DEF Sides
<1> HIDE DEF event
<1> QED
  BY <1>1, <1>3

\* A level of the market that the event does not list was cut off.
LEMMA EventListsAll ==
  ASSUME NEW m \in Markets, NEW side \in Sides, NEW part, EventSide(part, m, side),
         NEW p \in Prices, m[side][p] # 0
  PROVE  /\ p \in LevelsOf(m, side)
         /\ \/ <<side, p>> \in ListedIn(side, part)
            \/ Cardinality(Ahead(side, LevelsOf(m, side), p)) >= SnapLevels
PROOF
<1> DEFINE prices == LevelsOf(m, side)
           a == Cardinality(Ahead(side, prices, p))
           i == a + 1
           n == Cardinality(prices)
<1>1. p \in prices /\ prices \in SUBSET Prices
  <2>1. m[side][p] \in Nat
    BY FeedAssumption DEF Markets
  <2>2. Live(m[side][p])
    BY <2>1 DEF Live
  <2> QED
    BY <2>2 DEF LevelsOf
<1>2. /\ Len(part) = Shown(n)
      /\ \A j \in 1..Len(part) : part[j].price = Listed(side, prices)[j]
  BY DEF EventSide, BestFirst
<1>3. n \in Nat /\ IsFiniteSet(prices) /\ prices \in SUBSET Int
  BY <1>1, BestOfFacts, BookAssumption
<1> HIDE DEF prices
<1>4. a \in Nat /\ i \in 1..n /\ Listed(side, prices)[i] = p
  <2>1. a \in Nat
    BY <1>1, <1>3, RankUnique
  <2> QED
    BY <1>1, <2>1, ListedHasAll
<1> HIDE DEF a, n
<1>5. CASE a >= SnapLevels
  BY <1>1, <1>5 DEF a, prices
<1>6. CASE ~(a >= SnapLevels)
  <2>1. i \in 1..Len(part)
    BY <1>2, <1>3, <1>4, <1>6, FeedAssumption DEF Shown
  <2>2. part[i].price = p
    BY <1>2, <1>4, <2>1
  <2> HIDE DEF i
  <2> QED
    BY <1>1, <2>1, <2>2 DEF ListedIn, prices
<1> QED
  BY <1>5, <1>6

-----------------------------------------------------------------------------
(* The window of a snapshot *)

\* The good books with a window at ref, rebase_count_ r and best slots x.
At(ref, r, x) ==
  {c \in GoodBooks : c.haveRef /\ c.ref = ref /\ c.rebases = r /\ c.best = x}

\* recenterIfNearEdge() leaves them alone.
Still(ref, r, x) == \A c \in At(ref, r, x) : Recentered(c) = c

\* update() of a live level, as far as the best slots are concerned.
LEMMA LevelPlaced ==
  ASSUME NEW b \in GoodBooks, NEW side \in Sides, NEW slot \in Slots, NEW qty \in Int, Live(qty)
  PROVE  WithLevel(b, side, slot, qty).best =
           [b.best EXCEPT ![side] = IF Better(side, slot, b.best[side]) THEN slot
                                    ELSE b.best[side]]
PROOF
<1> DEFINE bits == IF Live(qty) THEN b.bits[side] \cup {slot} ELSE b.bits[side] \ {slot}
           summary == IF Live(qty) THEN b.summary[side] \cup {WordOf(slot)}
                      ELSE ClearSummary(b.bits[side], b.summary[side], slot)
           best == CASE Live(qty) /\ Better(side, slot, b.best[side]) -> slot
                     [] ~Live(qty) /\ slot = b.best[side] -> BestSet(side, bits, summary)
                     [] OTHER -> b.best[side]
           ladder == [b.ladder EXCEPT ![side] = [b.ladder[side] EXCEPT ![slot] = qty]]
           c == WithLevel(b, side, slot, qty)
<1>1. b \in Books
  BY DEF GoodBooks
<1>2. c = [b EXCEPT !.ladder = ladder, !.bits = [@ EXCEPT ![side] = bits],
                    !.summary = [@ EXCEPT ![side] = summary],
                    !.best = [@ EXCEPT ![side] = best]]
  BY <1>1 DEF WithLevel, Books
<1>3. best = IF Better(side, slot, b.best[side]) THEN slot ELSE b.best[side]
  BY Zenon
<1> HIDE DEF c, best, bits, summary, ladder
<1>4. c.best = [b.best EXCEPT ![side] = best]
  BY <1>1, <1>2 DEF Books
<1> QED
  BY <1>3, <1>4 DEF c

\* It reaches the book, and the window stands.
LEMMA PlacedStill ==
  ASSUME NEW ref \in Int, NEW r, NEW x, NEW b \in At(ref, r, x), NEW side \in Sides,
         NEW price \in Int, NEW qty \in Int, Live(qty), NEW y,
         y = IF Better(side, SlotOf(b, price), x[side]) /\ SlotOf(b, price) \in Slots
             THEN [x EXCEPT ![side] = SlotOf(b, price)] ELSE x,
         Still(ref, r, y)
  PROVE  Updated(b, side, price, qty) \in At(ref, r, y)
PROOF
<1> DEFINE slot == SlotOf(b, price)
           d == WithLevel(b, side, slot, qty)
<1>1. b \in GoodBooks /\ b.haveRef /\ b.ref = ref /\ b.rebases = r /\ b.best = x
  BY DEF At
<1>2. Seeded(b, price) = b
  BY <1>1 DEF Seeded
<1>3. Updated(b, side, price, qty) = IF slot \notin Slots THEN b ELSE Recentered(d)
  BY <1>2 DEF Updated
<1>4. y = IF Better(side, slot, x[side]) /\ slot \in Slots THEN [x EXCEPT ![side] = slot] ELSE x
  OBVIOUS
<1> HIDE DEF slot
<1>5. CASE slot \notin Slots
  BY <1>1, <1>3, <1>4, <1>5 DEF At
<1>6. CASE slot \in Slots
  <2>1. /\ d \in GoodBooks /\ d.ref = ref /\ d.haveRef /\ d.rebases = r
    BY <1>1, <1>6, WithLevelGood
  <2>2. d.best = [x EXCEPT ![side] = IF Better(side, slot, x[side]) THEN slot ELSE x[side]]
    <3>1. d.best = [b.best EXCEPT ![side] = IF Better(side, slot, b.best[side]) THEN slot
                                            ELSE b.best[side]]
      <4>1. b \in GoodBooks
        BY <1>1
      <4> QED
        BY <1>6, <4>1, LevelPlaced
    <3> HIDE DEF d
    <3> QED
      BY <1>1, <3>1
  <2>3. x = [s \in Sides |-> x[s]]
    BY <1>1, BookFields DEF GoodBooks
  <2>4. d.best = y
    <3> HIDE DEF d
    <3>1. CASE Better(side, slot, x[side])
      BY <1>4, <1>6, <2>2, <3>1
    <3>2. CASE ~Better(side, slot, x[side])
      <4>1. d.best = [x EXCEPT ![side] = x[side]] /\ y = x
        BY <1>4, <2>2, <3>2
      <4>2. [x EXCEPT ![side] = x[side]] = x
        BY <2>3
      <4> QED
        BY <4>1, <4>2
    <3> QED
      BY <3>1, <3>2
  <2> HIDE DEF d
  <2>5. d \in At(ref, r, y)
    BY <2>1, <2>4 DEF At
  <2>6. Recentered(d) = d
    BY <2>5 DEF Still
  <2> QED
    BY <1>3, <1>6, <2>5, <2>6
<1> QED
  BY <1>5, <1>6

\* A side of a snapshot goes in, its best level first: best is its slot.
LEMMA SidePlaced ==
  ASSUME NEW ref \in Int, NEW r, NEW x, NEW b \in At(ref, r, x), NEW side \in Sides,
         NEW levels \in Seq(LevelRecords), Len(levels) >= 1,
         \A i \in 1..Len(levels) : Live(levels[i].qty),
         NEW best \in Slots, best = Center + (levels[1].price - ref),
         \A i \in 1..Len(levels) : ~Better(side, Center + (levels[i].price - ref), best),
         x[side] = NoBest(side), NEW y, y = [x EXCEPT ![side] = best], Still(ref, r, y)
  PROVE  WithSide(b, side, levels) \in At(ref, r, y)
PROOF
<1> DEFINE n == Len(levels)
<1>1. b \in GoodBooks /\ b.best = x
  BY DEF At
<1>2. x \in [Sides -> -1..Capacity]
  BY <1>1, BookFields DEF GoodBooks
<1>3. PICK f : WithSideWalk(f, b, side, levels)
  BY <1>1, WithSideWalkExists
<1>4. /\ f[0] = b /\ n \in Nat /\ n >= 1
      /\ \A i \in 1..n : f[i] = Updated(f[i - 1], side, levels[i].price, levels[i].qty)
      /\ WithSide(b, side, levels) = f[n]
  BY <1>3 DEF WithSideWalk
<1>5. y[side] = best
  BY <1>2
<1> DEFINE S == {i \in 0..n : f[i] \in At(ref, r, IF i = 0 THEN x ELSE y)}
<1>6. 0 \in S
  BY <1>4
<1>7. ASSUME NEW i \in 1..n, i - 1 \in S PROVE i \in S
  <2> DEFINE c == f[i - 1]
             price == levels[i].price
             qty == levels[i].qty
             slot == SlotOf(c, price)
  <2>1. price \in Int /\ qty \in Int /\ Live(qty)
    <3>1. levels[i] \in LevelRecords
      OBVIOUS
    <3> QED
      BY <3>1 DEF LevelRecords
  <2>2. c \in At(ref, r, IF i = 1 THEN x ELSE y)
    BY <1>7
  <2>3. slot = Center + (price - ref) /\ ~Better(side, slot, best)
    BY <2>2 DEF At, SlotOf
  <2>4. f[i] = Updated(c, side, price, qty)
    BY <1>4
  <2>5. i = 1 => slot = best
    BY <2>3
  <2> HIDE DEF c, price, qty
  <2>6. CASE i = 1
    <3>1. Better(side, slot, x[side]) /\ slot \in Slots
      BY <2>5, <2>6, BetterFacts
    <3>2. y = IF Better(side, slot, x[side]) /\ slot \in Slots
              THEN [x EXCEPT ![side] = slot] ELSE x
      BY <2>5, <2>6, <3>1
    <3>3. c \in At(ref, r, x)
      BY <2>2, <2>6
    <3>4. Updated(c, side, price, qty) \in At(ref, r, y)
      BY <2>1, <3>2, <3>3, PlacedStill
    <3> QED
      BY <2>4, <3>4
  <2>7. CASE i # 1
    <3>1. ~Better(side, slot, y[side])
      BY <1>5, <2>3
    <3>2. y = IF Better(side, slot, y[side]) /\ slot \in Slots
              THEN [y EXCEPT ![side] = slot] ELSE y
      BY <3>1
    <3>3. c \in At(ref, r, y)
      BY <2>2, <2>7
    <3>4. Updated(c, side, price, qty) \in At(ref, r, y)
      BY <2>1, <3>2, <3>3, PlacedStill
    <3> QED
      BY <2>4, <3>4
  <2> QED
    BY <2>6, <2>7
<1> HIDE DEF S
<1>8. \A i \in 0..n : i \in S
  <2> HIDE DEF n
  <2> QED
    BY <1>4, <1>6, <1>7, BoundedInduction, Zenon
<1>9. n \in S /\ n # 0
  BY <1>4, <1>8
<1> QED
  BY <1>4, <1>9 DEF S

\* The best bid alone leaves the window, as do both best levels if they are as far
\* from its center as each other, or one tick apart.
LEMMA TouchStill ==
  ASSUME NEW ref \in Int, NEW r, NEW x \in [Sides -> Int], NEW bid \in Slots, x["Bid"] = bid,
         bid >= RecenterMargin, bid < Capacity - RecenterMargin,
         \/ x["Ask"] = NoBest("Ask")
         \/ /\ x["Ask"] \in Slots /\ x["Ask"] >= bid
            /\ (bid + x["Ask"]) \div 2 = Center
  PROVE  Still(ref, r, x)
PROOF
<1> SUFFICES ASSUME NEW c \in At(ref, r, x) PROVE Recentered(c) = c
  BY DEF Still
<1>1. c \in GoodBooks /\ c.ref = ref /\ c.best = x
  BY DEF At
<1> DEFINE T == TouchSlots(c)
           ask == x["Ask"]
           newRef == c.ref + ((Min(T) + Max(T)) \div 2 - Center)
<1>2. bid \in Int /\ HaveBest(c, "Bid") /\ Center \in Int
  BY <1>1, BetterFacts, Geometry DEF HaveBest, Sides
<1>3. Recentered(c) = IF \/ T = {}
                         \/ Min(T) >= RecenterMargin /\ Max(T) < Capacity - RecenterMargin
                         \/ newRef = c.ref
                      THEN c ELSE Rebased(c, newRef)
  BY DEF Recentered
<1>4. CASE ask = NoBest("Ask")
  <2>1. ~HaveBest(c, "Ask")
    BY <1>1, <1>4 DEF HaveBest
  <2>2. T = {bid}
    BY <1>1, <1>2, <2>1 DEF TouchSlots, Sides
  <2>3. Min(T) = bid /\ Max(T) = bid
    <3>1. Min(T) \in T /\ Max(T) \in T
      BY <1>1, <2>2, TouchFacts
    <3> QED
      BY <2>2, <3>1
  <2> HIDE DEF T
  <2> QED
    BY <1>3, <2>3
<1>5. CASE ask \in Slots /\ ask >= bid /\ (bid + ask) \div 2 = Center
  <2>1. HaveBest(c, "Ask") /\ ask \in Int
    BY <1>1, <1>5, BetterFacts DEF HaveBest, Sides
  <2>2. T = {bid, ask}
    BY <1>1, <1>2, <2>1 DEF TouchSlots, Sides
  <2>3. Min(T) = bid /\ Max(T) = ask
    <3>1. /\ Min(T) \in T /\ Max(T) \in T
          /\ \A s \in T : Min(T) <= s /\ s <= Max(T)
      BY <1>1, <2>2, TouchFacts
    <3> DEFINE lo == Min(T)
               hi == Max(T)
    <3>2. lo \in {bid, ask} /\ hi \in {bid, ask} /\ lo <= bid /\ ask <= hi
      BY <2>2, <3>1
    <3> HIDE DEF lo, hi
    <3>3. lo = bid /\ hi = ask
      BY <1>2, <1>5, <2>1, <3>2
    <3> QED
      BY <3>3 DEF lo, hi
  <2> HIDE DEF T
  <2>4. newRef = c.ref + (Center - Center)
    BY <1>5, <2>3
  <2>5. newRef = c.ref
    BY <1>1, <1>2, <2>4
  <2> QED
    BY <1>3, <2>5
<1> QED
  BY <1>4, <1>5

\* The touch of a market lies around the center of a window on its mid.
LEMMA MidSlots ==
  ASSUME NEW bid \in Int, NEW ask \in Int, bid < ask,
         ask - bid < Capacity - 2 * RecenterMargin,
         NEW mid, mid = bid + (ask - bid) \div 2, NEW lo, NEW hi,
         lo = Center + (bid - mid), hi = Center + (ask - mid)
  PROVE  /\ mid \in Int /\ mid = (bid + ask) \div 2
         /\ lo \in Slots /\ hi \in Slots /\ hi >= lo
         /\ lo >= RecenterMargin /\ lo < Capacity - RecenterMargin
         /\ (lo + hi) \div 2 = Center
PROOF
<1> DEFINE h == (ask - bid) \div 2
           e == (ask - bid) % 2
           M == RecenterMargin
<1>1. ask - bid = 2 * h + e /\ h \in Int /\ e \in {0, 1} /\ h >= 0
  OBVIOUS
<1>2. Center \in Nat /\ Capacity = 2 * Center /\ Capacity >= 8
  BY Geometry, FeedAssumption
<1>3. M \in Int /\ 8 * M <= Capacity /\ M >= 1
  <2>1. Capacity \in Int /\ M = Capacity \div 8
    BY Geometry DEF RecenterMargin
  <2> QED
    BY <1>2, <2>1
<1> HIDE DEF h, e, M
<1>4. mid = bid + h
  BY DEF h
<1>5. mid \in Int /\ mid = (bid + ask) \div 2
  BY <1>1, <1>4
<1>6. lo = Center - h /\ hi = Center + h + e
  BY <1>1, <1>2, <1>4
<1>7. 2 * h + e < 2 * Center - 2 * M
  BY <1>1, <1>2 DEF M
<1>8. h + 1 <= Center - M
  BY <1>1, <1>2, <1>3, <1>7
<1>9. /\ lo \in Int /\ hi \in Int /\ 0 <= lo /\ lo < Capacity /\ 0 <= hi /\ hi < Capacity
      /\ hi >= lo /\ lo >= M /\ lo < Capacity - M /\ (lo + hi) \div 2 = Center
  BY <1>1, <1>2, <1>3, <1>6, <1>8
<1> QED
  BY <1>5, <1>9, <1>2 DEF Slots, M

\* The levels of a side of the event: all are live, the best comes first.
LEMMA EventFacts ==
  ASSUME NEW m \in Markets, NEW side \in Sides, NEW part, EventSide(part, m, side),
         LevelsOf(m, side) # {}
  PROVE  LET best == BestOf(side, LevelsOf(m, side))
         IN /\ part \in Seq(LevelRecords) /\ Len(part) >= 1
            /\ best \in Int /\ best \in LevelsOf(m, side) /\ BestFirst(m, side)[1] = best
            /\ part[1].price = best
            /\ \A i \in 1..Len(part) : /\ Live(part[i].qty) /\ part[i].price \in Int
                                       /\ ~Better(side, part[i].price, best)
PROOF
<1> DEFINE L == LevelsOf(m, side)
           best == BestOf(side, L)
           list == Listed(side, L)
           n == Cardinality(L)
<1>1. L \in SUBSET Prices /\ L \in SUBSET Int
  BY BookAssumption DEF LevelsOf
<1>2. /\ part \in Seq(MarketLevels(m, side)) /\ Len(part) = Shown(n)
      /\ \A i \in 1..Len(part) : part[i].price = list[i]
  BY DEF EventSide, BestFirst
<1>3. ASSUME NEW l \in MarketLevels(m, side)
      PROVE  l \in LevelRecords /\ (l.price \in L => Live(l.qty))
  <2>1. PICK p \in Prices : l = [price |-> p, qty |-> m[side][p]]
    BY DEF MarketLevels
  <2>2. p \in Int /\ m[side][p] \in Int
    BY BookAssumption DEF Markets
  <2> QED
    BY <2>1, <2>2 DEF LevelRecords, LevelsOf
<1>4. L # {}
  OBVIOUS
<1> HIDE DEF L
<1>5. n \in Nat /\ IsFiniteSet(L) /\ best \in L /\ \A y \in L : ~Better(side, y, best)
  BY <1>1, <1>4, BestOfFacts
<1>6. n # 0
  BY <1>4, <1>5, FS_EmptySet
<1>7. list[1] = best /\ list \in Seq(L) /\ Len(list) = n
  BY <1>1, <1>4, ListedFacts
<1> HIDE DEF n, list, best
<1>8. Len(part) \in Nat /\ Len(part) >= 1 /\ Len(part) <= n
  BY <1>2, <1>5, <1>6, FeedAssumption DEF Shown
<1>9. part \in Seq(LevelRecords)
  BY <1>2, <1>3
<1>10. ASSUME NEW i \in 1..Len(part)
       PROVE  /\ Live(part[i].qty) /\ part[i].price \in Int
              /\ ~Better(side, part[i].price, best)
  <2>1. i \in 1..Len(list)
    BY <1>7, <1>8
  <2>2. list[i] \in L
    BY <1>7, <2>1
  <2>3. part[i].price \in L
    BY <1>2, <2>2
  <2>4. part[i] \in MarketLevels(m, side)
    BY <1>2
  <2> QED
    BY <1>1, <1>3, <1>5, <2>3, <2>4
<1>11. part[1].price = best
  <2>1. 1 \in 1..Len(part)
    BY <1>8
  <2> QED
    BY <1>2, <1>7, <2>1
<1>12. best \in Int /\ BestFirst(m, side)[1] = best
  BY <1>1, <1>5, <1>7 DEF BestFirst, list, L
<1> QED
  BY <1>5, <1>8, <1>9, <1>10, <1>11, <1>12 DEF best, L

\* The greatest live bid and the least live ask of the event are the market's.
LEMMA EventTouch ==
  ASSUME NEW m \in Markets, NEW side \in Sides, NEW part, EventSide(part, m, side),
         LevelsOf(m, side) # {}
  PROVE  LivePrices(part) # {} /\ BestOf(side, LivePrices(part)) = BestOf(side, LevelsOf(m, side))
PROOF
<1> DEFINE S == LivePrices(part)
           best == BestOf(side, LevelsOf(m, side))
           first == BestOf(side, S)
<1>1. /\ Len(part) >= 1 /\ best \in Int /\ part[1].price = best
      /\ \A i \in 1..Len(part) : /\ Live(part[i].qty) /\ part[i].price \in Int
                                 /\ ~Better(side, part[i].price, best)
  BY EventFacts
<1>2. part \in Seq(MarketLevels(m, side))
  BY DEF EventSide
<1>3. S \in SUBSET Int /\ IsFiniteSet(S)
  BY <1>2, LivePricesFacts
<1>4. S = {part[i].price : i \in 1..Len(part)}
  BY <1>1 DEF LivePrices
<1> HIDE DEF S, best
<1>5. best \in S /\ \A y \in S : ~Better(side, y, best)
  <2>1. 1 \in 1..Len(part)
    BY <1>1, <1>2
  <2> QED
    BY <1>1, <1>4, <2>1
<1>6. /\ Min(S) \in S /\ \A y \in S : Min(S) <= y
      /\ Max(S) \in S /\ \A y \in S : Max(S) >= y
  BY <1>3, <1>5, FiniteExtremes
<1>7. Min(S) \in Int /\ Max(S) \in Int
  BY <1>3, <1>6
<1>8. first = best
  BY <1>1, <1>5, <1>6, <1>7 DEF BestOf, Better
<1> QED
  BY <1>5, <1>8 DEF best, S

\* A market with a touch bid < ask that is narrower than the window less its margins.
NarrowTouch(m, bid, ask) ==
  /\ m \in Markets /\ LevelsOf(m, "Bid") # {} /\ LevelsOf(m, "Ask") # {}
  /\ bid = BestOf("Bid", LevelsOf(m, "Bid")) /\ ask = BestOf("Ask", LevelsOf(m, "Ask"))
  /\ bid < ask /\ ask - bid < Capacity - 2 * RecenterMargin

\* The case Snapshot of processEvent() for such a market: the window is on the mid
\* and stays there, and the touch of the book is the market's.
LEMMA SnapshotCentred ==
  ASSUME NEW m, NEW bid, NEW ask, NarrowTouch(m, bid, ask), NEW b \in GoodBooks,
         NEW bids, EventSide(bids, m, "Bid"), NEW asks, EventSide(asks, m, "Ask")
  PROVE  LET c == SnapshotApplied(b, bids, asks)
         IN /\ c \in GoodBooks /\ c.rebases = b.rebases /\ c.ref = (bid + ask) \div 2
            /\ c.best["Bid"] \in Slots /\ PriceOf(c, c.best["Bid"]) = bid
            /\ c.best["Ask"] \in Slots /\ PriceOf(c, c.best["Ask"]) = ask
PROOF
<1> DEFINE mid == bid + (ask - bid) \div 2
           lo == Center + (bid - mid)
           hi == Center + (ask - mid)
           r == b.rebases
           x == [side \in Sides |-> NoBest(side)]
           y == [x EXCEPT !["Bid"] = lo]
           z == [y EXCEPT !["Ask"] = hi]
           d == Anchored(Cleared(b), bids, asks)
           e == WithSide(d, "Bid", bids)
           c == WithSide(e, "Ask", asks)
<1>1. /\ m \in Markets /\ LevelsOf(m, "Bid") # {} /\ LevelsOf(m, "Ask") # {}
      /\ bid = BestOf("Bid", LevelsOf(m, "Bid")) /\ ask = BestOf("Ask", LevelsOf(m, "Ask"))
      /\ bid < ask /\ ask - bid < Capacity - 2 * RecenterMargin
      /\ "Bid" \in Sides /\ "Ask" \in Sides /\ "Bid" # "Ask"
  BY DEF NarrowTouch, Sides
<1>2. /\ bids \in Seq(LevelRecords) /\ Len(bids) >= 1 /\ bid \in Int /\ bids[1].price = bid
      /\ \A i \in 1..Len(bids) : /\ Live(bids[i].qty) /\ bids[i].price \in Int
                                 /\ ~Better("Bid", bids[i].price, bid)
  BY <1>1, EventFacts
<1>3. /\ asks \in Seq(LevelRecords) /\ Len(asks) >= 1 /\ ask \in Int /\ asks[1].price = ask
      /\ \A i \in 1..Len(asks) : /\ Live(asks[i].qty) /\ asks[i].price \in Int
                                 /\ ~Better("Ask", asks[i].price, ask)
  BY <1>1, EventFacts
<1>4. /\ mid \in Int /\ mid = (bid + ask) \div 2
      /\ lo \in Slots /\ hi \in Slots /\ hi >= lo
      /\ lo >= RecenterMargin /\ lo < Capacity - RecenterMargin
      /\ (lo + hi) \div 2 = Center
  <2>1. /\ mid = bid + (ask - bid) \div 2
        /\ lo = Center + (bid - mid) /\ hi = Center + (ask - mid)
    OBVIOUS
  <2> HIDE DEF mid, lo, hi
  <2>2. /\ bid \in Int /\ ask \in Int /\ bid < ask
        /\ ask - bid < Capacity - 2 * RecenterMargin
    BY <1>1, <1>2, <1>3
  <2> QED
    BY <2>1, <2>2, MidSlots
<1>5. d \in At(mid, r, x)
  <2> DEFINE a == Cleared(b)
             B == LivePrices(bids)
             A == LivePrices(asks)
  <2>1. B # {} /\ BestOf("Bid", B) = bid
    BY <1>1, EventTouch
  <2>2. A # {} /\ BestOf("Ask", A) = ask
    BY <1>1, EventTouch
  <2>3. Max(B) = bid /\ Min(A) = ask
    BY <2>1, <2>2 DEF BestOf
  <2>4. d = Seeded(a, mid)
    BY <2>1, <2>2, <2>3 DEF Anchored
  <2>5. b \in Books
    BY DEF GoodBooks
  <2>6. a \in GoodBooks /\ ~a.haveRef /\ a.best = x /\ a.rebases = r
    BY <2>5, ClearedGood DEF Cleared, Books
  <2> HIDE DEF a, mid, x, r
  <2>7. d \in GoodBooks /\ d.haveRef /\ d.best = x /\ d.rebases = r
    BY <1>4, <2>4, <2>6, SeededGood
  <2>8. d.ref = mid
    BY <2>4, <2>6 DEF Seeded, GoodBooks, Books
  <2> QED
    BY <2>7, <2>8 DEF At
<1>6. /\ x["Bid"] = NoBest("Bid") /\ y["Ask"] = NoBest("Ask") /\ y["Bid"] = lo
      /\ z["Bid"] = lo /\ z["Ask"] = hi
  BY <1>1
<1>7. y \in [Sides -> Int] /\ z \in [Sides -> Int]
  <2>1. x \in [Sides -> Int]
    BY Geometry DEF NoBest
  <2>2. lo \in Int /\ hi \in Int
    BY <1>4, Geometry
  <2> HIDE DEF x, lo, hi
  <2> QED
    BY <2>1, <2>2
<1> HIDE DEF mid, x, y, z, d, e, r
<1>8. ASSUME NEW p \in Int, NEW q \in Int, NEW side \in Sides, ~Better(side, p, q)
      PROVE  ~Better(side, Center + (p - mid), Center + (q - mid))
  BY <1>4, <1>8, Geometry DEF Better
<1>9. \A i \in 1..Len(bids) : ~Better("Bid", Center + (bids[i].price - mid), lo)
  BY <1>1, <1>2, <1>8
<1>10. \A i \in 1..Len(asks) : ~Better("Ask", Center + (asks[i].price - mid), hi)
  BY <1>1, <1>3, <1>8
<1>11. lo = Center + (bids[1].price - mid) /\ hi = Center + (asks[1].price - mid)
  BY <1>2, <1>3
<1> HIDE DEF lo, hi
<1>12. Still(mid, r, y) /\ Still(mid, r, z)
  BY <1>4, <1>6, <1>7, TouchStill
<1>13. y = [x EXCEPT !["Bid"] = lo] /\ z = [y EXCEPT !["Ask"] = hi]
  BY DEF y, z
<1>14. e \in At(mid, r, y)
  <2>1. \A i \in 1..Len(bids) : Live(bids[i].qty)
    BY <1>2
  <2> QED
    BY <1>1, <1>2, <1>4, <1>5, <1>6, <1>9, <1>11, <1>12, <1>13, <2>1, SidePlaced DEF e
<1>15. c \in At(mid, r, z)
  <2>1. \A i \in 1..Len(asks) : Live(asks[i].qty)
    BY <1>3
  <2> QED
    BY <1>1, <1>3, <1>4, <1>6, <1>10, <1>11, <1>12, <1>13, <1>14, <2>1, SidePlaced
<1>16. SnapshotApplied(b, bids, asks) = c
  BY DEF SnapshotApplied, d, e
<1> HIDE DEF c
<1>17. c \in GoodBooks /\ c.ref = mid /\ c.rebases = r /\ c.best = z
  BY <1>15 DEF At
<1>18. PriceOf(c, lo) = bid /\ PriceOf(c, hi) = ask
  <2>1. PriceOf(c, lo) = mid + (lo - Center) /\ PriceOf(c, hi) = mid + (hi - Center)
    BY <1>17 DEF PriceOf
  <2>2. lo = Center + (bid - mid) /\ hi = Center + (ask - mid)
    BY DEF lo, hi
  <2>3. mid \in Int /\ Center \in Int /\ bid \in Int /\ ask \in Int
    BY <1>2, <1>3, <1>4, Geometry
  <2> QED
    BY <2>1, <2>2, <2>3
<1> QED
  BY <1>4, <1>6, <1>16, <1>17, <1>18 DEF r

-----------------------------------------------------------------------------
(* The specification of the feed *)

\* Between snapshots the levels whose last change was lost are open; before the
\* first snapshot the book has no level.
FeedInv ==
  /\ market \in Markets /\ book \in Faithful(market, untold)
  /\ ready \/ Blank(book)

\* A snapshot: what it leaves out is not in the book.
LEMMA SnapshotStep ==
  ASSUME FeedInv, NEW junk \in Junk, Snapshot(junk)
  PROVE  FeedInv'
PROOF
<1>1. market \in Markets /\ book \in GoodBooks /\ market' = market /\ ready'
  BY DEF FeedInv, Faithful, Snapshot
<1>2. PICK bids, asks : /\ EventSide(bids, market, "Bid") /\ EventSide(asks, market, "Ask")
                        /\ book' = SnapshotApplied(book, bids, asks)
  BY <1>1, SnapshotEvent
<1>3. bids \in Seq(MarketLevels(market, "Bid")) /\ asks \in Seq(MarketLevels(market, "Ask"))
  BY <1>2 DEF EventSide
<1>4. book' \in Faithful(market, {})
  BY <1>1, <1>2, <1>3, SnapshotFaithful
<1>5. book' \in Faithful(market', untold')
  BY <1>1, <1>4 DEF Faithful, Holds
<1> QED
  BY <1>1, <1>5 DEF FeedInv

\* An l2update, with any of its events lost.
LEMMA L2UpdateStep ==
  ASSUME FeedInv, NEW wire \in Updates, NEW lost \in SUBSET Chunks(Received[wire]),
         L2Update(wire, lost)
  PROVE  FeedInv'
PROOF
<1> DEFINE changes == Received[wire]
           said == Said[wire]
<1>1. Relayed(said, changes)
  BY WireFacts
<1>2. lost \subseteq Chunks(changes) /\ market \in Markets /\ book \in Faithful(market, untold)
  BY DEF FeedInv
<1>3. /\ market' = MarketAfter(market, said) /\ ready' = ready
      /\ book' = IF ready THEN ChunksApplied(book, changes, lost) ELSE book
      /\ ready => untold' = (untold \ LevelsIn(said)) \cup MissedIn(said, lost)
  BY DEF L2Update, MissedIn
<1> HIDE DEF changes, said
<1>4. /\ market' \in Markets
      /\ ChunksApplied(book, changes, lost)
           \in Faithful(market', (untold \ LevelsIn(said)) \cup MissedIn(said, lost))
  BY <1>1, <1>2, <1>3, L2UpdateFaithful
<1>5. CASE ready
  BY <1>3, <1>4, <1>5 DEF FeedInv
<1>6. CASE ~ready
  <2>1. book' = book /\ Blank(book) /\ book \in GoodBooks
    BY <1>2, <1>3, <1>6 DEF FeedInv, Faithful
  <2>2. book' \in Faithful(market', untold')
    BY <2>1, BlankFaithful
  <2> QED
    BY <1>4, <2>1, <2>2 DEF FeedInv, Blank
<1> QED
  BY <1>5, <1>6

\* The messages of the exchange, malformed entries and lost events included.
LEMMA FeedInvariant == FeedSpec => []FeedInv
PROOF
<1>1. FeedInit => FeedInv
  BY EmptyFacts, BlankFaithful DEF FeedInit, FeedInv
<1>2. FeedInv /\ [FeedNext]_feedVars => FeedInv'
  <2> SUFFICES ASSUME FeedInv, [FeedNext]_feedVars PROVE FeedInv'
    OBVIOUS
  <2>1. CASE UNCHANGED feedVars
    BY <2>1 DEF feedVars, FeedInv, Blank
  <2>2. ASSUME NEW junk \in Junk, Snapshot(junk) PROVE FeedInv'
    BY <2>2, SnapshotStep
  <2>3. ASSUME NEW wire \in Updates, NEW lost \in SUBSET Chunks(Received[wire]),
               L2Update(wire, lost)
        PROVE  FeedInv'
    BY <2>3, L2UpdateStep
  <2> QED
    BY <2>1, <2>2, <2>3 DEF FeedNext
<1> QED
  BY <1>1, <1>2, PTL DEF FeedSpec

\* Whatever the feed sends, the bits, the summary and the cached best slots
\* agree with the ladders.
THEOREM FeedIndexNeverDisagrees == FeedSpec => []IndexAgrees
PROOF
<1>1. FeedInv => book \in GoodBooks
  BY DEF FeedInv, Faithful
<1> QED
  BY <1>1, GoodIndex, FeedInvariant, PTL

\* Whatever the feed sends, recenterIfNearEdge() keeps a touch that is narrower
\* than the window, for every update that may come next.
THEOREM FeedNarrowTouchKept == FeedSpec => []RecenterKeepsNarrowTouch
PROOF
<1>1. FeedInv => book \in GoodBooks
  BY DEF FeedInv, Faithful
<1> QED
  BY <1>1, GoodTouch, FeedInvariant, PTL

\* No phantom levels, from the text to the book: every live level of the book
\* is the exchange's level at its price, unless the last word on it was lost.
THEOREM FeedHasNoPhantoms == FeedSpec => []FeedNoPhantoms
PROOF
<1>1. FeedInv => FeedNoPhantoms
  BY DEF FeedInv, Faithful, Holds, FeedNoPhantoms, Told
<1> QED
  BY <1>1, FeedInvariant, PTL

\* What FeedWindowLevelsKept says of one step.
WindowLevelsKept ==
  ready /\ ~fresh' /\ book'.rebases <= book.rebases + 1 =>
    \A side \in Sides, price \in Prices :
      /\ Live(LevelAt(book, side, price)) /\ InWindow(book', price)
      /\ <<side, price>> \notin untold'
      => LevelAt(book', side, price) = market'[side][price]

\* It holds of an l2update.
LEMMA L2UpdateKeepsLevels ==
  ASSUME FeedInv, NEW wire \in Updates, NEW lost \in SUBSET Chunks(Received[wire]),
         L2Update(wire, lost)
  PROVE  WindowLevelsKept
PROOF
<1> DEFINE changes == Received[wire]
           said == Said[wire]
           left == (untold \ LevelsIn(said)) \cup MissedIn(said, lost)
<1> SUFFICES ASSUME ready, book'.rebases <= book.rebases + 1,
                    NEW side \in Sides, NEW price \in Prices,
                    Live(LevelAt(book, side, price)), InWindow(book', price),
                    <<side, price>> \notin untold'
             PROVE  LevelAt(book', side, price) = market'[side][price]
  BY DEF WindowLevelsKept
<1>1. Relayed(said, changes)
  BY WireFacts
<1>2. lost \subseteq Chunks(changes) /\ market \in Markets /\ book \in Faithful(market, untold)
  BY DEF FeedInv
<1>3. /\ market' = MarketAfter(market, said) /\ untold' = left
      /\ book' = ChunksApplied(book, changes, lost)
  BY DEF L2Update, MissedIn
<1>4. book.haveRef
  BY DEF LevelAt, InWindow, Live
<1> HIDE DEF changes, said
<1>5. book' \in Kept(book, market', untold')
  BY <1>1, <1>2, <1>3, <1>4, L2UpdateKept
<1> QED
  BY <1>5 DEF Kept

\* A level the book holds is lost only by leaving the window: every l2update that
\* moves the window at most once leaves the live levels that are still inside at
\* the exchange's quantity.
THEOREM FeedKeepsWindowLevels == FeedSpec => FeedWindowLevelsKept
PROOF
<1>1. FeedInv /\ [FeedNext]_feedVars => [WindowLevelsKept]_feedVars
  <2> SUFFICES ASSUME FeedInv, FeedNext PROVE WindowLevelsKept
    OBVIOUS
  <2>1. ASSUME NEW junk \in Junk, Snapshot(junk) PROVE WindowLevelsKept
    BY <2>1 DEF Snapshot, WindowLevelsKept
  <2>2. ASSUME NEW wire \in Updates, NEW lost \in SUBSET Chunks(Received[wire]),
               L2Update(wire, lost)
        PROVE  WindowLevelsKept
    BY <2>2, L2UpdateKeepsLevels
  <2> QED
    BY <2>1, <2>2 DEF FeedNext
<1>2. FeedSpec => [][WindowLevelsKept]_feedVars
  BY <1>1, FeedInvariant, PTL DEF FeedSpec
<1> QED
  BY <1>2 DEF FeedWindowLevelsKept, WindowLevelsKept

\* The book is complete until the window moves.
FeedComplete == ready /\ ~moved => Complete(book, market, untold)

\* A snapshot makes it complete,
LEMMA SnapshotCompletes ==
  ASSUME FeedInv, NEW junk \in Junk, Snapshot(junk)
  PROVE  FeedComplete'
PROOF
<1>1. /\ market \in Markets /\ book \in GoodBooks /\ market' = market
      /\ moved' = (book'.rebases # book.rebases)
      /\ \A side \in Sides : \A p \in LevelsOf(market, side) :
           Cardinality(Ahead(side, LevelsOf(market, side), p)) >= SnapLevels
             => <<side, p>> \in untold'
  <2> DEFINE cut(side) == {p \in LevelsOf(market, side) :
                      Cardinality({q \in LevelsOf(market, side) : Better(side, q, p)})
                        >= SnapLevels}
  <2>1. untold' = UNION {{side} \X cut(side) : side \in Sides}
    BY DEF Snapshot
  <2>2. ASSUME NEW side \in Sides, NEW p \in LevelsOf(market, side),
               Cardinality(Ahead(side, LevelsOf(market, side), p)) >= SnapLevels
        PROVE  <<side, p>> \in untold'
    <3>1. p \in cut(side)
      BY <2>2 DEF Ahead
    <3> HIDE DEF cut
    <3> QED
      BY <2>1, <3>1
  <2> QED
    BY <2>2 DEF FeedInv, Faithful, Snapshot
<1>2. PICK bids, asks : /\ EventSide(bids, market, "Bid") /\ EventSide(asks, market, "Ask")
                        /\ book' = SnapshotApplied(book, bids, asks)
  BY <1>1, SnapshotEvent
<1>3. bids \in Seq(MarketLevels(market, "Bid")) /\ asks \in Seq(MarketLevels(market, "Ask"))
  BY <1>2 DEF EventSide
<1> DEFINE open == (Quoted(market) \ ListedIn("Bid", bids)) \ ListedIn("Ask", asks)
           r == book.rebases
<1>4. book' \in Tracks(r, market, open) /\ r \in Nat
  BY <1>1, <1>2, <1>3, SnapshotTracks
<1>5. ASSUME NEW side \in Sides, NEW p \in Prices, <<side, p>> \in open
      PROVE  <<side, p>> \in untold'
  <2> DEFINE part == IF side = "Bid" THEN bids ELSE asks
  <2>1. EventSide(part, market, side) /\ <<side, p>> \notin ListedIn(side, part)
    BY <1>2, <1>5 DEF Sides
  <2>2. market[side][p] # 0
    BY <1>5 DEF Quoted
  <2> HIDE DEF part
  <2>3. /\ p \in LevelsOf(market, side)
        /\ Cardinality(Ahead(side, LevelsOf(market, side), p)) >= SnapLevels
    BY <1>1, <2>1, <2>2, EventListsAll
  <2> QED
    BY <1>1, <2>3
<1>6. open \subseteq untold'
  <2>1. open \subseteq Sides \X Prices
    BY DEF Quoted
  <2> HIDE DEF open
  <2> QED
    BY <1>5, <2>1
<1> HIDE DEF open, r
<1> DEFINE left == untold'
           c == book'
<1>7. open \subseteq left /\ c \in Tracks(r, market, open)
  BY <1>4, <1>6
<1> HIDE DEF left, c
<1>8. c \in Tracks(r, market, left)
  BY <1>7, OpenTracks
<1>9. book'.rebases = book.rebases => Complete(book', market', untold')
  BY <1>1, <1>8 DEF Tracks, left, c, r
<1> QED
  BY <1>1, <1>9 DEF FeedComplete

\* and an l2update leaves it so.
LEMMA L2UpdateCompletes ==
  ASSUME FeedInv, FeedComplete, NEW wire \in Updates,
         NEW lost \in SUBSET Chunks(Received[wire]), L2Update(wire, lost)
  PROVE  FeedComplete'
PROOF
<1> DEFINE changes == Received[wire]
           said == Said[wire]
           r == book.rebases
<1> SUFFICES ASSUME ready', ~moved' PROVE Complete(book', market', untold')
  BY DEF FeedComplete
<1>1. Relayed(said, changes)
  BY WireFacts
<1>2. ready /\ ~moved /\ book'.rebases = r
  BY DEF L2Update
<1>3. /\ market' = MarketAfter(market, said)
      /\ book' = ChunksApplied(book, changes, lost)
      /\ untold' = (untold \ LevelsIn(said)) \cup MissedIn(said, lost)
  BY <1>2 DEF L2Update, MissedIn
<1>4. /\ lost \subseteq Chunks(changes) /\ market \in Markets
      /\ book \in GoodBooks /\ r \in Nat /\ r >= r
  BY BookFields DEF FeedInv, Faithful, GoodBooks
<1>5. book \in Tracks(r, market, untold)
  BY <1>2, <1>4 DEF Tracks, FeedComplete
<1> HIDE DEF changes, said, r
<1>6. book' \in Tracks(r, market', untold')
  BY <1>1, <1>3, <1>4, <1>5, L2UpdateTracks
<1> QED
  BY <1>2, <1>6 DEF Tracks

\* So it is complete in every state.
LEMMA FeedCompleteInvariant == FeedSpec => []FeedComplete
PROOF
<1>1. FeedInit => FeedComplete
  BY DEF FeedInit, FeedComplete
<1>2. FeedInv /\ FeedComplete /\ [FeedNext]_feedVars => FeedComplete'
  <2> SUFFICES ASSUME FeedInv, FeedComplete, [FeedNext]_feedVars PROVE FeedComplete'
    OBVIOUS
  <2>1. CASE UNCHANGED feedVars
    BY <2>1 DEF feedVars, FeedComplete
  <2>2. ASSUME NEW junk \in Junk, Snapshot(junk) PROVE FeedComplete'
    BY <2>2, SnapshotCompletes
  <2>3. ASSUME NEW wire \in Updates, NEW lost \in SUBSET Chunks(Received[wire]),
               L2Update(wire, lost)
        PROVE  FeedComplete'
    BY <2>3, L2UpdateCompletes
  <2> QED
    BY <2>1, <2>2, <2>3 DEF FeedNext
<1> QED
  BY <1>1, <1>2, FeedInvariant, PTL DEF FeedSpec

\* The book is complete: until the window moves, what it holds and what depth()
\* returns is what the exchange has inside the window.
THEOREM BookTracksMarket == FeedSpec => []BookIsMarket
PROOF
<1>1. FeedInv /\ FeedComplete => BookIsMarket
  <2> SUFFICES ASSUME FeedInv, FeedComplete, ready, ~moved, book.haveRef
               PROVE  /\ \A side \in Sides, price \in Prices :
                           InWindow(book, price) /\ Told(side, price) =>
                             LevelAt(book, side, price) = market[side][price]
                      /\ untold = {} =>
                           \A side \in Sides, n \in 1..MaxLevels :
                             Depth(book, side, n) = MarketDepth(book, market, side, n)
    BY DEF BookIsMarket, MarketDepth, Visible
  <2>1. Complete(book, market, untold)
    BY DEF FeedComplete
  <2>2. \A side \in Sides, price \in Prices :
          InWindow(book, price) /\ Told(side, price) =>
            LevelAt(book, side, price) = market[side][price]
    BY <2>1 DEF Complete, Told
  <2>3. ASSUME untold = {}, NEW side \in Sides, NEW n \in 1..MaxLevels
        PROVE  Depth(book, side, n) = MarketDepth(book, market, side, n)
    <3>1. /\ market \in Markets /\ book \in Faithful(market, {})
          /\ Complete(book, market, {}) /\ n \in Nat
      BY <2>1, <2>3, FeedAssumption DEF FeedInv
    <3> QED
      BY <3>1, DepthIsMarket
  <2> QED
    BY <2>2, <2>3
<1> QED
  BY <1>1, FeedInvariant, FeedCompleteInvariant, PTL

\* The exchange's book is never crossed.
LEMMA NeverCrossed == FeedSpec => []Uncrossed(market)
PROOF
<1>1. FeedInit => Uncrossed(market)
  BY DEF FeedInit, Uncrossed, LevelsOf, EmptyMarket, EmptySides, Sides, Live
<1>2. Uncrossed(market) /\ [FeedNext]_feedVars => Uncrossed(market)'
  <2> SUFFICES ASSUME Uncrossed(market), [FeedNext]_feedVars PROVE Uncrossed(market')
    OBVIOUS
  <2>1. CASE UNCHANGED feedVars
    BY <2>1 DEF feedVars
  <2>2. ASSUME NEW junk \in Junk, Snapshot(junk) PROVE Uncrossed(market')
    BY <2>2 DEF Snapshot
  <2>3. ASSUME NEW wire \in Updates, NEW lost \in SUBSET Chunks(Received[wire]),
               L2Update(wire, lost)
        PROVE  Uncrossed(market')
    BY <2>3 DEF L2Update
  <2> QED
    BY <2>1, <2>2, <2>3 DEF FeedNext
<1> QED
  BY <1>1, <1>2, PTL DEF FeedSpec

\* A snapshot anchors the window.
LEMMA SnapshotAnchors ==
  ASSUME FeedInv, FeedInv', Uncrossed(market), NEW junk \in Junk, Snapshot(junk)
  PROVE  SnapshotAnchored'
PROOF
<1> DEFINE B == LevelsOf(market, "Bid")
           A == LevelsOf(market, "Ask")
           bid == BestOf("Bid", B)
           ask == BestOf("Ask", A)
           c == book'
<1>1. /\ market \in Markets /\ book \in GoodBooks /\ market' = market
      /\ moved' = (c.rebases # book.rebases) /\ Holds(c, market, untold')
  BY DEF FeedInv, Faithful, Snapshot
<1>2. bid = Max(B) /\ ask = Min(A) /\ "Bid" \in Sides /\ "Ask" \in Sides
  BY DEF BestOf, Sides
<1> HIDE DEF bid, ask
<1> SUFFICES ASSUME B # {}, A # {}, ask - bid < Capacity - 2 * RecenterMargin
             PROVE  /\ c.ref = (bid + ask) \div 2 /\ ~moved'
                    /\ Tops(c) = [side \in Sides |->
                         LET best == BestFirst(market, side)[1]
                         IN {[price |-> best, qty |-> market[side][best]]}]
  BY <1>1, <1>2 DEF SnapshotAnchored
<1>3. B \in SUBSET Prices /\ A \in SUBSET Prices
  BY DEF LevelsOf
<1>4. /\ bid \in B /\ BestFirst(market, "Bid")[1] = bid
      /\ ask \in A /\ BestFirst(market, "Ask")[1] = ask
  BY <1>2, <1>3, BestOfFacts, ListedFacts DEF bid, ask, BestFirst
<1>5. NarrowTouch(market, bid, ask)
  BY <1>1, <1>4 DEF NarrowTouch, Uncrossed, bid, ask
<1>6. PICK bids, asks : /\ EventSide(bids, market, "Bid") /\ EventSide(asks, market, "Ask")
                        /\ c = SnapshotApplied(book, bids, asks)
  BY <1>1, SnapshotEvent
<1> HIDE DEF c
<1>7. /\ c \in GoodBooks /\ c.rebases = book.rebases /\ c.ref = (bid + ask) \div 2
      /\ c.best["Bid"] \in Slots /\ PriceOf(c, c.best["Bid"]) = bid
      /\ c.best["Ask"] \in Slots /\ PriceOf(c, c.best["Ask"]) = ask
  BY <1>1, <1>5, <1>6, SnapshotCentred
<1>8. c \in Faithful(market, {})
  <2>1. bids \in Seq(MarketLevels(market, "Bid")) /\ asks \in Seq(MarketLevels(market, "Ask"))
    BY <1>6 DEF EventSide
  <2> QED
    BY <1>1, <1>6, <2>1, SnapshotFaithful
<1>9. ASSUME NEW side \in Sides, NEW p, c.best[side] \in Slots, PriceOf(c, c.best[side]) = p
      PROVE  TopOfBook(c, side) = {[price |-> p, qty |-> market[side][p]]}
  <2> DEFINE s == c.best[side]
  <2>1. s # NoBest(side)
    BY <1>9, BetterFacts
  <2>2. s \in LiveSlots(c, side)
    BY <1>7, <2>1 DEF GoodBooks, Agrees, IsBest
  <2>3. market[side][p] = c.ladder[side][s]
    BY <1>8, <1>9, <2>2 DEF Faithful, Holds, LiveSlots
  <2>4. {s} \ {NoBest(side)} = {s}
    BY <2>1
  <2> QED
    BY <1>9, <2>3, <2>4 DEF TopOfBook
<1>10. ASSUME NEW side \in Sides
       PROVE  LET best == BestFirst(market, side)[1]
              IN TopOfBook(c, side) = {[price |-> best, qty |-> market[side][best]]}
  <2>1. CASE side = "Bid"
    BY <1>4, <1>7, <1>9, <2>1
  <2>2. CASE side = "Ask"
    BY <1>4, <1>7, <1>9, <2>2
  <2> QED
    BY <2>1, <2>2 DEF Sides
<1> QED
  BY <1>1, <1>7, <1>10 DEF Tops

\* "Anchor the window on the snapshot mid, not on whichever level lands first":
\* putting the levels of a snapshot in does not move the window off the mid, and
\* the touch of the book is the exchange's.
THEOREM SnapshotIsAnchored == FeedSpec => []SnapshotAnchored
PROOF
<1>1. FeedInit => SnapshotAnchored
  BY DEF FeedInit, SnapshotAnchored
<1>2. FeedInv /\ FeedInv' /\ Uncrossed(market) /\ SnapshotAnchored /\ [FeedNext]_feedVars
        => SnapshotAnchored'
  <2> SUFFICES ASSUME FeedInv, FeedInv', Uncrossed(market), SnapshotAnchored,
                      [FeedNext]_feedVars
               PROVE  SnapshotAnchored'
    OBVIOUS
  <2>1. CASE UNCHANGED feedVars
    BY <2>1 DEF feedVars, SnapshotAnchored
  <2>2. ASSUME NEW junk \in Junk, Snapshot(junk) PROVE SnapshotAnchored'
    BY <2>2, SnapshotAnchors
  <2>3. ASSUME NEW wire \in Updates, NEW lost \in SUBSET Chunks(Received[wire]),
               L2Update(wire, lost)
        PROVE  SnapshotAnchored'
    BY <2>3 DEF L2Update, SnapshotAnchored
  <2> QED
    BY <2>1, <2>2, <2>3 DEF FeedNext
<1> QED
  BY <1>1, <1>2, FeedInvariant, NeverCrossed, PTL DEF FeedSpec

=============================================================================
