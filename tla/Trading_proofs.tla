--------------------------- MODULE Trading_proofs ---------------------------
(***************************************************************************)
(* For every book that depth() can return, every parameter of the strategy *)
(* and every length of run: the ledgers of risk manager and PnL tracker    *)
(* agree and balance, the limits hold of what is filled, an order is       *)
(* filled whole on the book it was sized from, and there is one position   *)
(* at a time.                                                              *)
(***************************************************************************)
EXTENDS Trading, TLAPS, WellFoundedInduction

-----------------------------------------------------------------------------
(* Recursion over the levels of a book *)

\* A set of naturals with 0 and every successor has all of them.
LEMMA SetInduction ==
  ASSUME NEW S, 0 \in S, \A n \in Nat : n \in S => n + 1 \in S
  PROVE  Nat \subseteq S
PROOF
<1> SUFFICES ASSUME NEW T, T = Nat \ S, T # {} PROVE FALSE
  OBVIOUS
<1> DEFINE before == {p \in Nat \X Nat : p[1] < p[2]}
<1>1. IsWellFoundedOn(before, Nat)
  BY NatLessThanWellFounded, Zenon DEF OpToRel
<1>2. PICK x \in T : \A y \in T : ~(<<y, x>> \in before)
  BY <1>1, WFMin, Zenon
<1>3. \A y \in T : ~(y < x)
  BY <1>2
<1>4. x \in Nat /\ x \notin S /\ x # 0
  BY <1>2
<1>5. x - 1 \in Nat /\ x - 1 < x /\ (x - 1) + 1 = x
  BY <1>4
<1>6. x - 1 \in S
  BY <1>3, <1>5
<1> QED
  BY <1>4, <1>5, <1>6

\* A function may be defined by recursion along 0..m, given its first value and
\* the function that leads from each value to the next.
Recursive(g, V, first, m, F) ==
  /\ g \in [0..m -> V]
  /\ g = [i \in 0..m |-> IF i = 0 THEN first ELSE F[i][g[i - 1]]]

LEMMA Recursion ==
  ASSUME NEW V, NEW first \in V, NEW m \in Nat, NEW F \in [1..m -> [V -> V]]
  PROVE  \E g : Recursive(g, V, first, m, F)
PROOF
<1> DEFINE Upto(n) == \E g : /\ g \in [0..n -> V]
                             /\ g[0] = first
                             /\ \A i \in 1..n : g[i] = F[i][g[i - 1]]
           S == {n \in Nat : n <= m => Upto(n)}
<1>1. 0 \in S
  <2>1. [i \in 0..0 |-> first] \in [0..0 -> V]
    OBVIOUS
  <2>2. Upto(0)
    <3> WITNESS [i \in 0..0 |-> first]
    <3> QED
      BY <2>1
  <2> QED
    BY <2>2
<1>2. ASSUME NEW n \in Nat, n \in S PROVE n + 1 \in S
  <2> SUFFICES ASSUME n + 1 <= m PROVE Upto(n + 1)
    OBVIOUS
  <2>1. PICK g : /\ g \in [0..n -> V]
                 /\ g[0] = first
                 /\ \A i \in 1..n : g[i] = F[i][g[i - 1]]
    BY <1>2
  <2> DEFINE h == [i \in 0..(n + 1) |-> IF i <= n THEN g[i] ELSE F[n + 1][g[n]]]
  <2>2. F[n + 1] \in [V -> V] /\ g[n] \in V
    BY <2>1
  <2>3. h \in [0..(n + 1) -> V]
    BY <2>1, <2>2
  <2>4. h[0] = first
    BY <2>1
  <2>5. ASSUME NEW i \in 1..(n + 1) PROVE h[i] = F[i][h[i - 1]]
    <3>1. i - 1 \in 0..n /\ h[i - 1] = g[i - 1]
      OBVIOUS
    <3>2. CASE i \in 1..n
      BY <2>1, <3>1, <3>2
    <3>3. CASE i = n + 1
      BY <3>1, <3>3
    <3> QED
      BY <3>2, <3>3
  <2> HIDE DEF h
  <2> QED
    BY <2>3, <2>4, <2>5
<1> HIDE DEF S
<1>3. m \in S
  BY <1>1, <1>2, SetInduction
<1>4. PICK g : /\ g \in [0..m -> V]
               /\ g[0] = first
               /\ \A i \in 1..m : g[i] = F[i][g[i - 1]]
  BY <1>3 DEF S
<1>5. g = [i \in 0..m |-> IF i = 0 THEN first ELSE F[i][g[i - 1]]]
  BY <1>4
<1> QED
  BY <1>4, <1>5 DEF Recursive

-----------------------------------------------------------------------------
(* The order sizer and the execution engine *)

PriceLevels == [px : Nat, qty : Nat \ {0}]

Sides == {"Bid", "Ask"}

\* The first of two prices of a side is better than the second, or as good.
NoWorse(side, a, b) == IF side = "Bid" THEN a >= b ELSE a <= b

\* Live levels of a side, the best first.
Ladder(lvls, side) ==
  /\ lvls \in Seq(PriceLevels)
  /\ \A i, j \in 1..Len(lvls) : i < j => NoWorse(side, lvls[i].px, lvls[j].px)

\* depth() returns live levels, the best first.
LEMMA DepthIsLadder ==
  ASSUME NEW bk \in Books, NEW side \in Sides, NEW n \in Nat \ {0}
  PROVE  /\ Ladder(Levels(bk, side, n), side)
         /\ bk[side] # << >> => Levels(bk, side, n) # << >>
PROOF
<1> DEFINE s == bk[side]
           k == Least(n, Len(s))
           lvls == Levels(bk, side, n)
<1>1. s \in Seq(PriceLevels)
  BY BooksAssumption DEF Sides, PriceLevels
<1>2. \A i, j \in 1..Len(s) : i < j => NoWorse(side, s[i].px, s[j].px)
  <2> SUFFICES ASSUME NEW i \in 1..Len(s), NEW j \in 1..Len(s), i < j
               PROVE  NoWorse(side, s[i].px, s[j].px)
    OBVIOUS
  <2>1. IF side = "Bid" THEN s[i].px > s[j].px ELSE s[i].px < s[j].px
    BY BooksAssumption DEF Sides
  <2>2. s[i] \in PriceLevels /\ s[j] \in PriceLevels
    BY <1>1
  <2>3. s[i].px \in Nat /\ s[j].px \in Nat
    BY <2>2 DEF PriceLevels
  <2> QED
    BY <2>1, <2>3 DEF NoWorse
<1>3. lvls = SubSeq(s, 1, k)
  BY DEF Levels
<1>4. k \in 0..Len(s) /\ Len(s) \in Nat /\ (Len(s) > 0 => k > 0)
  BY <1>1 DEF Least
<1> HIDE DEF s, k, lvls
<1>5. /\ lvls \in Seq(PriceLevels) /\ Len(lvls) = k
      /\ \A i \in 1..k : lvls[i] = s[i]
  BY <1>1, <1>3, <1>4
<1>6. Ladder(lvls, side)
  BY <1>2, <1>4, <1>5 DEF Ladder
<1>7. s # << >> => lvls # << >>
  BY <1>1, <1>4, <1>5
<1> QED
  BY <1>6, <1>7 DEF lvls, s

\* Taking of a level keeps an order an order, no larger than the target, and
\* adds to it exactly while it is smaller.
LEMMA TakenFacts ==
  ASSUME NEW o \in Reports, NEW l \in PriceLevels, NEW target \in Nat
  PROVE  /\ Taken(o, l, target) \in Reports
         /\ Taken(o, l, target).side = o.side
         /\ o.qty >= target => Taken(o, l, target) = o
         /\ o.qty < target =>
              /\ Taken(o, l, target).px = l.px
              /\ Taken(o, l, target).qty = o.qty + Least(target - o.qty, l.qty)
              /\ o.qty < Taken(o, l, target).qty
              /\ Taken(o, l, target).qty <= target
PROOF
<1>1. /\ o.qty \in Nat /\ o.px \in Nat /\ o.side \in {"Bid", "Ask"}
      /\ l.qty \in Nat /\ l.qty > 0 /\ l.px \in Nat
  BY DEF Reports, PriceLevels
<1>2. CASE o.qty >= target
  <2>1. Taken(o, l, target) = o
    BY <1>1, <1>2 DEF Taken, Least
  <2> QED
    BY <1>1, <1>2, <2>1
<1>3. CASE o.qty < target
  <2> DEFINE fill == Least(target - o.qty, l.qty)
  <2>1. fill \in Nat /\ fill > 0 /\ o.qty + fill <= target
    BY <1>1, <1>3 DEF Least
  <2>2. Taken(o, l, target) = [side |-> o.side, px |-> l.px, qty |-> o.qty + fill]
    BY <2>1 DEF Taken
  <2> HIDE DEF fill
  <2> QED
    BY <1>1, <1>3, <2>1, <2>2 DEF Reports, fill
<1> QED
  BY <1>1, <1>2, <1>3

\* The recursion of the sizer.
LEMMA SizedFacts ==
  ASSUME NEW lvls \in Seq(PriceLevels), NEW side \in Sides, NEW target \in Nat
  PROVE  /\ Sized(lvls, side, target) \in [0..Len(lvls) -> Reports]
         /\ Sized(lvls, side, target)[0] = [side |-> side, px |-> 0, qty |-> 0]
         /\ \A i \in 1..Len(lvls) :
              Sized(lvls, side, target)[i] =
                Taken(Sized(lvls, side, target)[i - 1], lvls[i], target)
PROOF
<1> DEFINE n == Len(lvls)
           first == [side |-> side, px |-> 0, qty |-> 0]
           F == [i \in 1..n |-> [o \in Reports |-> Taken(o, lvls[i], target)]]
           G(g) == [i \in 0..n |-> IF i = 0 THEN first ELSE Taken(g[i - 1], lvls[i], target)]
           order == Sized(lvls, side, target)
<1>1. n \in Nat /\ \A i \in 1..n : lvls[i] \in PriceLevels
  OBVIOUS
<1>2. first \in Reports
  BY DEF Reports, Sides
<1>3. F \in [1..n -> [Reports -> Reports]]
  BY <1>1, TakenFacts
<1>4. PICK g : Recursive(g, Reports, first, n, F)
  <2> HIDE DEF n, first, F
  <2> QED
    BY <1>1, <1>2, <1>3, Recursion
<1>5. /\ g \in [0..n -> Reports]
      /\ g = [i \in 0..n |-> IF i = 0 THEN first ELSE F[i][g[i - 1]]]
  BY <1>4 DEF Recursive
<1>6. g = G(g)
  <2>1. ASSUME NEW i \in 0..n, i # 0 PROVE F[i][g[i - 1]] = Taken(g[i - 1], lvls[i], target)
    <3>1. i \in 1..n /\ i - 1 \in 0..n
      BY <2>1, <1>1
    <3>2. g[i - 1] \in Reports
      BY <1>5, <3>1
    <3> QED
      BY <3>1, <3>2
  <2> QED
    BY <1>5, <2>1, Zenon
<1>7. order = G(order)
  <2>1. order = CHOOSE f : f = G(f)
    BY DEF Sized
  <2> HIDE DEF G, order
  <2> QED
    BY <1>6, <2>1, Zenon
<1>8. /\ order[0] = first
      /\ \A i \in 1..n : order[i] = Taken(order[i - 1], lvls[i], target)
  <2>1. 0 \in 0..n /\ \A i \in 1..n : i \in 0..n /\ i # 0
    BY <1>1
  <2> HIDE DEF order
  <2> QED
    BY <1>7, <2>1, Zenon
<1>9. ASSUME NEW k \in 0..n PROVE order[k] \in Reports
  <2> DEFINE S == {i \in Nat : i <= n => order[i] \in Reports}
  <2> HIDE DEF order
  <2>1. 0 \in S
    BY <1>2, <1>8
  <2>2. ASSUME NEW i \in Nat, i \in S PROVE i + 1 \in S
    <3> SUFFICES ASSUME i + 1 <= n PROVE order[i + 1] \in Reports
      OBVIOUS
    <3>1. i + 1 \in 1..n /\ (i + 1) - 1 = i /\ order[i] \in Reports
      BY <2>2, <1>1
    <3>2. order[i + 1] = Taken(order[i], lvls[i + 1], target)
      BY <1>8, <3>1
    <3>3. lvls[i + 1] \in PriceLevels
      BY <1>1, <3>1
    <3>4. Taken(order[i], lvls[i + 1], target) \in Reports
      BY <3>1, <3>3, TakenFacts, Zenon
    <3> QED
      BY <3>2, <3>4
  <2> HIDE DEF S
  <2>3. k \in S
    BY <2>1, <2>2, SetInduction
  <2> QED
    BY <2>3, <1>1 DEF S
<1>10. order \in [0..n -> Reports]
  <2>1. \A f : f = G(f) => DOMAIN f = 0..n /\ f = [i \in 0..n |-> f[i]]
    OBVIOUS
  <2> HIDE DEF order, G
  <2> QED
    BY <1>7, <1>9, <2>1
<1> QED
  BY <1>8, <1>10

\* What the walk of the sizer keeps true: the order does not shrink, does not
\* exceed the target, is not empty after the first level, and its limit reaches
\* every level it takes of.
LEMMA SizedWalk ==
  ASSUME NEW side \in Sides, NEW lvls, Ladder(lvls, Opposite(side)),
         NEW target \in Nat \ {0}
  PROVE  LET s == Sized(lvls, side, target)
         IN \A k \in 0..Len(lvls) :
              /\ s[k].side = side /\ s[k].qty <= target
              /\ k > 0 => s[k].qty > 0
              /\ \A i \in 0..k : s[i].qty <= s[k].qty
              /\ \A i \in 1..k : s[i - 1].qty < target =>
                   NoWorse(Opposite(side), lvls[i].px, s[k].px)
PROOF
<1> DEFINE s == Sized(lvls, side, target)
           n == Len(lvls)
           P(k) == /\ s[k].side = side /\ s[k].qty <= target
                   /\ k > 0 => s[k].qty > 0
                   /\ \A i \in 0..k : s[i].qty <= s[k].qty
                   /\ \A i \in 1..k : s[i - 1].qty < target =>
                        NoWorse(Opposite(side), lvls[i].px, s[k].px)
           S == {k \in Nat : k <= n => P(k)}
<1>0. lvls \in Seq(PriceLevels)
  BY DEF Ladder
<1>1. /\ lvls \in Seq(PriceLevels) /\ n \in Nat
      /\ \A i \in 1..n : lvls[i] \in PriceLevels /\ lvls[i].px \in Nat
  <2>1. n \in Nat /\ \A i \in 1..n : lvls[i] \in PriceLevels
    BY <1>0
  <2> QED
    BY <1>0, <2>1 DEF PriceLevels
<1>2. /\ s \in [0..n -> Reports]
      /\ s[0] = [side |-> side, px |-> 0, qty |-> 0]
      /\ \A i \in 1..n : s[i] = Taken(s[i - 1], lvls[i], target)
  BY <1>1, SizedFacts
<1>3. \A i \in 0..n : s[i].qty \in Nat /\ s[i].px \in Nat
  BY <1>2 DEF Reports
<1> HIDE DEF s, n
<1>4. 0 \in S
  BY <1>2
<1>5. ASSUME NEW k \in Nat, k \in S PROVE k + 1 \in S
  <2> SUFFICES ASSUME k + 1 <= n PROVE P(k + 1)
    OBVIOUS
  <2>a. P(k)
    <3> HIDE DEF P
    <3> QED
      BY <1>1, <1>5
  <2>b. /\ k \in 0..n /\ k + 1 \in 0..n /\ k + 1 \in 1..n /\ (k + 1) - 1 = k
        /\ \A i \in 0..(k + 1) : i \in 0..n /\ (i \in 0..k \/ i = k + 1)
        /\ \A i \in 1..(k + 1) : i \in 1..n /\ (i \in 1..k \/ i = k + 1)
    BY <1>1
  <2>1. /\ k \in 0..n /\ k + 1 \in 0..n /\ k + 1 \in 1..n /\ (k + 1) - 1 = k /\ P(k)
        /\ \A i \in 0..(k + 1) : i \in 0..n /\ (i \in 0..k \/ i = k + 1)
        /\ \A i \in 1..(k + 1) : i \in 1..n /\ (i \in 1..k \/ i = k + 1)
    BY <2>a, <2>b
  <2>2. s[k + 1] = Taken(s[k], lvls[k + 1], target) /\ s[k] \in Reports
    BY <1>2, <2>b
  <2>3. /\ s[k + 1].side = side
        /\ s[k].qty >= target => s[k + 1] = s[k]
        /\ s[k].qty < target => /\ s[k + 1].px = lvls[k + 1].px
                                /\ s[k].qty < s[k + 1].qty
                                /\ s[k + 1].qty <= target
    <3>1. lvls[k + 1] \in PriceLevels /\ s[k].side = side /\ target \in Nat
      BY <1>1, <2>a, <2>b
    <3> QED
      BY <2>2, <3>1, TakenFacts
  <2>4. s[k].qty <= s[k + 1].qty /\ s[k + 1].qty <= target /\ s[k + 1].qty > 0
    BY <1>3, <2>1, <2>3
  <2>5. ASSUME NEW i \in 0..(k + 1) PROVE s[i].qty <= s[k + 1].qty
    <3>1. CASE i \in 0..k
      <4>1. s[i].qty <= s[k].qty
        BY <2>1, <3>1
      <4> QED
        BY <1>3, <2>1, <2>4, <3>1, <4>1
    <3>2. CASE i = k + 1
      BY <1>3, <2>1, <3>2
    <3> QED
      BY <2>1, <3>1, <3>2
  <2>6. ASSUME NEW i \in 1..(k + 1), s[i - 1].qty < target
        PROVE  NoWorse(Opposite(side), lvls[i].px, s[k + 1].px)
    <3>1. CASE s[k].qty < target
      <4>1. s[k + 1].px = lvls[k + 1].px
        BY <2>3, <3>1
      <4>2. CASE i \in 1..k
        <5>1. i \in 1..n /\ i < k + 1
          BY <2>1, <4>2
        <5> QED
          BY <2>1, <4>1, <5>1 DEF Ladder, n
      <4>3. CASE i = k + 1
        BY <1>1, <2>1, <4>1, <4>3 DEF NoWorse
      <4> QED
        BY <2>1, <4>2, <4>3
    <3>2. CASE ~(s[k].qty < target)
      <4>1. s[k + 1] = s[k]
        BY <1>3, <2>1, <2>3, <3>2
      <4>2. i \in 1..k
        BY <2>1, <2>6, <3>2
      <4> QED
        BY <2>1, <2>6, <4>1, <4>2
    <3> QED
      BY <3>1, <3>2
  <2> QED
    BY <2>1, <2>3, <2>4, <2>5, <2>6
<1> HIDE DEF S
<1>6. \A k \in 0..n : k \in S
  BY <1>4, <1>5, SetInduction
<1>7. \A k \in 0..n : P(k)
  BY <1>1, <1>6 DEF S
<1> HIDE DEF P
<1> QED
  BY <1>7 DEF P, s, n

\* computeOrder() sizes an order between one lot and the target, or none.
LEMMA ComputeOrderFacts ==
  ASSUME NEW bk \in Books, NEW side \in Sides, NEW target \in Int,
         ComputeOrder(bk, side, target) # NoOrder
  PROVE  LET o == ComputeOrder(bk, side, target)
             lvls == Levels(bk, Opposite(side), MaxBookWalk)
         IN /\ target \in Nat \ {0} /\ Ladder(lvls, Opposite(side)) /\ Len(lvls) \in Nat
            /\ o = Sized(lvls, side, target)[Len(lvls)]
            /\ o \in Reports /\ o.side = side
            /\ o.qty \in Nat /\ 0 < o.qty /\ o.qty <= target
PROOF
<1> DEFINE o == ComputeOrder(bk, side, target)
           lvls == Levels(bk, Opposite(side), MaxBookWalk)
<1>1. Opposite(side) \in Sides /\ MaxBookWalk \in Nat \ {0}
  BY ExecutionAssumption DEF Opposite, Sides
<1>2. Ladder(lvls, Opposite(side))
  BY <1>1, DepthIsLadder
<1>3. /\ ~(target <= 0) /\ lvls # << >>
      /\ o = Sized(lvls, side, target)[Len(lvls)]
  BY DEF ComputeOrder
<1> HIDE DEF o, lvls
<1>4. target \in Nat \ {0} /\ Len(lvls) \in Nat \ {0} /\ lvls \in Seq(PriceLevels)
  BY <1>2, <1>3 DEF Ladder
<1>5. o \in Reports
  <2>1. Sized(lvls, side, target) \in [0..Len(lvls) -> Reports]
    BY <1>4, SizedFacts
  <2> QED
    BY <1>3, <1>4, <2>1
<1>6. o.side = side /\ o.qty <= target /\ o.qty > 0
  BY <1>2, <1>3, <1>4, SizedWalk
<1>7. o.qty \in Nat
  BY <1>5 DEF Reports
<1> QED
  BY <1>2, <1>3, <1>4, <1>5, <1>6, <1>7 DEF o, lvls

\* What an order can be filled with: no more than it asks for, at no more than
\* its limit on the average (no less, for a sale).
Fills(o) ==
  {f \in [qty : Nat, cost : Nat] :
     /\ f.qty <= o.qty
     /\ IF o.side = "Bid" THEN f.cost <= f.qty * o.px ELSE f.cost >= f.qty * o.px}

\* What one level adds to a fill.
LEMMA MatchedFacts ==
  ASSUME NEW o \in Reports, NEW f \in Fills(o), NEW l \in PriceLevels
  PROVE  /\ Matched(f, l, o) \in Fills(o)
         /\ Matched(f, l, o).qty =
              IF Matches(o, l) THEN f.qty + Least(o.qty - f.qty, l.qty) ELSE f.qty
PROOF
<1>1. /\ o.qty \in Nat /\ o.px \in Nat /\ o.side \in {"Bid", "Ask"}
      /\ l.qty \in Nat /\ l.px \in Nat
      /\ f.qty \in Nat /\ f.cost \in Nat /\ f.qty <= o.qty
      /\ IF o.side = "Bid" THEN f.cost <= f.qty * o.px ELSE f.cost >= f.qty * o.px
  BY DEF Reports, PriceLevels, Fills
<1>2. CASE ~Matches(o, l)
  BY <1>2 DEF Matched
<1>3. CASE Matches(o, l)
  <2> DEFINE fill == Least(o.qty - f.qty, l.qty)
             q == f.qty + fill
             c == f.cost + fill * l.px
  <2>1. fill \in Nat /\ q \in Nat /\ q <= o.qty
    BY <1>1 DEF Least
  <2>2. Matched(f, l, o) = [qty |-> q, cost |-> c]
    BY <1>3 DEF Matched
  <2> HIDE DEF fill
  <2>3. c \in Nat
    BY <1>1, <2>1
  <2>4. q * o.px = f.qty * o.px + fill * o.px
    BY <1>1, <2>1
  <2>5. IF o.side = "Bid" THEN c <= q * o.px ELSE c >= q * o.px
    <3>1. /\ fill * o.px \in Nat /\ fill * l.px \in Nat /\ f.qty * o.px \in Nat
      BY <1>1, <2>1
    <3>2. IF o.side = "Bid" THEN l.px <= o.px ELSE l.px >= o.px
      BY <1>3 DEF Matches
    <3>3. l.px <= o.px => fill * l.px <= fill * o.px
      BY <1>1, <2>1
    <3>4. l.px >= o.px => fill * l.px >= fill * o.px
      BY <1>1, <2>1
    <3> QED
      BY <1>1, <2>4, <3>1, <3>2, <3>3, <3>4
  <2> HIDE DEF q, c
  <2>6. [qty |-> q, cost |-> c] \in Fills(o)
    BY <2>1, <2>3, <2>5 DEF Fills
  <2> QED
    BY <1>3, <2>2, <2>6 DEF q, fill
<1> QED
  BY <1>2, <1>3

\* The recursion of the engine.
LEMMA FilledFacts ==
  ASSUME NEW lvls \in Seq(PriceLevels), NEW o \in Reports
  PROVE  /\ Filled(lvls, o) \in [0..Len(lvls) -> Fills(o)]
         /\ Filled(lvls, o)[0] = [qty |-> 0, cost |-> 0]
         /\ \A i \in 1..Len(lvls) :
              Filled(lvls, o)[i] = Matched(Filled(lvls, o)[i - 1], lvls[i], o)
PROOF
<1> DEFINE n == Len(lvls)
           first == [qty |-> 0, cost |-> 0]
           F == [i \in 1..n |-> [f \in Fills(o) |-> Matched(f, lvls[i], o)]]
           G(g) == [i \in 0..n |-> IF i = 0 THEN first ELSE Matched(g[i - 1], lvls[i], o)]
           fill == Filled(lvls, o)
<1>1. n \in Nat /\ \A i \in 1..n : lvls[i] \in PriceLevels
  OBVIOUS
<1>2. first \in Fills(o)
  BY DEF Reports, Fills
<1>3. F \in [1..n -> [Fills(o) -> Fills(o)]]
  BY <1>1, MatchedFacts
<1>4. PICK g : Recursive(g, Fills(o), first, n, F)
  <2> HIDE DEF n, first, F
  <2> QED
    BY <1>1, <1>2, <1>3, Recursion
<1>5. /\ g \in [0..n -> Fills(o)]
      /\ g = [i \in 0..n |-> IF i = 0 THEN first ELSE F[i][g[i - 1]]]
  BY <1>4 DEF Recursive
<1>6. g = G(g)
  <2>1. ASSUME NEW i \in 0..n, i # 0 PROVE F[i][g[i - 1]] = Matched(g[i - 1], lvls[i], o)
    <3>1. i \in 1..n /\ i - 1 \in 0..n
      BY <2>1, <1>1
    <3>2. g[i - 1] \in Fills(o)
      BY <1>5, <3>1
    <3> QED
      BY <3>1, <3>2
  <2> QED
    BY <1>5, <2>1, Zenon
<1>7. fill = G(fill)
  <2>1. fill = CHOOSE f : f = G(f)
    BY DEF Filled
  <2> HIDE DEF G, fill
  <2> QED
    BY <1>6, <2>1, Zenon
<1>8. /\ fill[0] = first
      /\ \A i \in 1..n : fill[i] = Matched(fill[i - 1], lvls[i], o)
  <2>1. 0 \in 0..n /\ \A i \in 1..n : i \in 0..n /\ i # 0
    BY <1>1
  <2> HIDE DEF fill
  <2> QED
    BY <1>7, <2>1, Zenon
<1>9. ASSUME NEW k \in 0..n PROVE fill[k] \in Fills(o)
  <2> DEFINE S == {i \in Nat : i <= n => fill[i] \in Fills(o)}
  <2> HIDE DEF fill
  <2>1. 0 \in S
    BY <1>2, <1>8
  <2>2. ASSUME NEW i \in Nat, i \in S PROVE i + 1 \in S
    <3> SUFFICES ASSUME i + 1 <= n PROVE fill[i + 1] \in Fills(o)
      OBVIOUS
    <3>1. i + 1 \in 1..n /\ (i + 1) - 1 = i /\ fill[i] \in Fills(o)
      BY <2>2, <1>1
    <3>2. fill[i + 1] = Matched(fill[i], lvls[i + 1], o)
      BY <1>8, <3>1
    <3> QED
      BY <1>1, <3>1, <3>2, MatchedFacts
  <2> HIDE DEF S
  <2>3. k \in S
    BY <2>1, <2>2, SetInduction
  <2> QED
    BY <2>3, <1>1 DEF S
<1>10. fill \in [0..n -> Fills(o)]
  <2>1. \A f : f = G(f) => DOMAIN f = 0..n /\ f = [i \in 0..n |-> f[i]]
    OBVIOUS
  <2> HIDE DEF fill, G
  <2> QED
    BY <1>7, <1>9, <2>1
<1> QED
  BY <1>8, <1>10

\* Bounds of an integer quotient.
LEMMA DivBounds ==
  ASSUME NEW a \in Int, NEW b \in Nat \ {0}, NEW k \in Int
  PROVE  /\ a \div b \in Int
         /\ a < b * (k + 1) => a \div b <= k
         /\ a >= b * k => a \div b >= k
PROOF
<1> DEFINE q == a \div b
           r == a % b
<1>1. a = b * q + r /\ q \in Int /\ r \in Int /\ 0 <= r /\ r < b
  OBVIOUS
<1> HIDE DEF q, r
<1>2. ASSUME a < b * (k + 1), q > k PROVE FALSE
  <2>1. b * q >= b * (k + 1)
    BY <1>1, <1>2
  <2> QED
    BY <1>1, <1>2, <2>1
<1>3. ASSUME a >= b * k, q < k PROVE FALSE
  <2>1. b * (q + 1) <= b * k /\ b * (q + 1) = b * q + b
    BY <1>1, <1>3
  <2> QED
    BY <1>1, <1>3, <2>1
<1> QED
  BY <1>1, <1>2, <1>3 DEF q

\* simulate() fills no more than the order, at its limit or better: rounding the
\* average to a tick does not cross the limit.
LEMMA SimulateFacts ==
  ASSUME NEW o \in Reports, NEW bk \in Books
  PROVE  LET r == Simulate(o, bk)
             lvls == Levels(bk, Opposite(o.side), MaxBookWalk)
         IN /\ Ladder(lvls, Opposite(o.side)) /\ Len(lvls) \in Nat
            /\ r.qty = Filled(lvls, o)[Len(lvls)].qty
            /\ r \in Reports /\ r.side = o.side /\ r.qty <= o.qty /\ Matches(o, r)
PROOF
<1> DEFINE lvls == Levels(bk, Opposite(o.side), MaxBookWalk)
           done == Filled(lvls, o)[Len(lvls)]
           px == IF done.qty > 0 THEN Rounded(done.cost, done.qty) ELSE o.px
<1>1. /\ Opposite(o.side) \in Sides /\ MaxBookWalk \in Nat \ {0}
      /\ o.qty \in Nat /\ o.px \in Nat /\ o.side \in {"Bid", "Ask"}
  BY ExecutionAssumption DEF Opposite, Sides, Reports
<1>2. Ladder(lvls, Opposite(o.side))
  BY <1>1, DepthIsLadder
<1>3. Simulate(o, bk) = [side |-> o.side, qty |-> done.qty, px |-> px]
  BY DEF Simulate
<1> HIDE DEF lvls
<1>4. lvls \in Seq(PriceLevels) /\ Len(lvls) \in Nat
  BY <1>2 DEF Ladder
<1>5. done \in Fills(o)
  <2>1. Filled(lvls, o) \in [0..Len(lvls) -> Fills(o)]
    BY <1>4, FilledFacts
  <2> QED
    BY <1>4, <2>1
<1> HIDE DEF done
<1>6. /\ done.qty \in Nat /\ done.cost \in Nat /\ done.qty <= o.qty
      /\ IF o.side = "Bid" THEN done.cost <= done.qty * o.px
         ELSE done.cost >= done.qty * o.px
  BY <1>5 DEF Fills
<1>7. /\ px \in Nat
      /\ IF o.side = "Bid" THEN px <= o.px ELSE px >= o.px
  <2>1. CASE done.qty = 0
    BY <1>1, <2>1
  <2>2. CASE done.qty > 0
    <3> DEFINE a == 2 * done.cost + done.qty
               b == 2 * done.qty
    <3>1. px = a \div b
      BY <2>2 DEF Rounded
    <3>2. a \in Int /\ b \in Nat \ {0} /\ a >= 0
      BY <1>6, <2>2
    <3>3. o.side = "Bid" => a < b * (o.px + 1)
      <4>1. b * (o.px + 1) = 2 * (done.qty * o.px) + 2 * done.qty
        BY <1>1, <1>6
      <4>2. done.qty * o.px \in Nat
        BY <1>1, <1>6
      <4> QED
        BY <1>6, <2>2, <4>1, <4>2
    <3>4. o.side # "Bid" => a >= b * o.px
      <4>1. b * o.px = 2 * (done.qty * o.px)
        BY <1>1, <1>6
      <4>2. done.qty * o.px \in Nat
        BY <1>1, <1>6
      <4> QED
        BY <1>6, <2>2, <4>1, <4>2
    <3>5. a >= b * 0
      BY <3>2
    <3> HIDE DEF a, b
    <3>6. px \in Int /\ px >= 0
      <4> HIDE DEF px
      <4> QED
        BY <3>1, <3>2, <3>5, DivBounds
    <3>7. /\ o.side = "Bid" => px <= o.px
          /\ o.side # "Bid" => px >= o.px
      <4> HIDE DEF px
      <4> QED
        BY <1>1, <3>1, <3>2, <3>3, <3>4, DivBounds
    <3> HIDE DEF px
    <3> QED
      BY <3>6, <3>7
  <2> HIDE DEF px
  <2> QED
    BY <1>6, <2>1, <2>2
<1> HIDE DEF px
<1>8. /\ Simulate(o, bk).side = o.side /\ Simulate(o, bk).qty = done.qty
      /\ Simulate(o, bk).px = px
  BY <1>3
<1>9. Simulate(o, bk) \in Reports
  BY <1>1, <1>3, <1>6, <1>7 DEF Reports
<1>10. Matches(o, Simulate(o, bk))
  BY <1>7, <1>8 DEF Matches
<1> QED
  BY <1>2, <1>4, <1>6, <1>8, <1>9, <1>10 DEF lvls, done

\* The engine fills an order whole on the book it was sized from: level by level
\* it fills what the sizer took.
LEMMA FilledIsSized ==
  ASSUME NEW bk \in Books, NEW side \in Sides, NEW target \in Int,
         ComputeOrder(bk, side, target) # NoOrder
  PROVE  Simulate(ComputeOrder(bk, side, target), bk).qty =
           ComputeOrder(bk, side, target).qty
PROOF
<1> DEFINE o == ComputeOrder(bk, side, target)
           lvls == Levels(bk, Opposite(side), MaxBookWalk)
           n == Len(lvls)
           s == Sized(lvls, side, target)
           f == Filled(lvls, o)
           S == {k \in Nat : k <= n => f[k].qty = s[k].qty}
<1>1. /\ target \in Nat \ {0} /\ Ladder(lvls, Opposite(side)) /\ n \in Nat
      /\ o = s[n] /\ o \in Reports /\ o.side = side
  BY ComputeOrderFacts
<1>2. Simulate(o, bk).qty = f[n].qty
  BY <1>1, SimulateFacts
<1> HIDE DEF o, lvls
<1>3. lvls \in Seq(PriceLevels)
  BY <1>1 DEF Ladder
<1>4. /\ s \in [0..n -> Reports] /\ s[0] = [side |-> side, px |-> 0, qty |-> 0]
      /\ \A i \in 1..n : s[i] = Taken(s[i - 1], lvls[i], target)
  BY <1>1, <1>3, SizedFacts
<1>5. /\ f \in [0..n -> Fills(o)] /\ f[0] = [qty |-> 0, cost |-> 0]
      /\ \A i \in 1..n : f[i] = Matched(f[i - 1], lvls[i], o)
  BY <1>1, <1>3, FilledFacts
<1>6. /\ \A k \in 0..n : s[k].qty <= target /\ s[k].qty <= o.qty
      /\ \A i \in 1..n : s[i - 1].qty < target =>
           NoWorse(Opposite(side), lvls[i].px, o.px)
  <2>1. /\ n \in 0..n
        /\ \A k \in 0..n : s[k].qty <= target
        /\ \A i \in 0..n : s[i].qty <= s[n].qty
        /\ \A i \in 1..n : s[i - 1].qty < target =>
             NoWorse(Opposite(side), lvls[i].px, s[n].px)
    BY <1>1, SizedWalk
  <2> HIDE DEF s, n
  <2> QED
    BY <1>1, <2>1
<1> HIDE DEF n, s, f
<1>7. 0 \in S
  BY <1>4, <1>5
<1>8. ASSUME NEW k \in Nat, k \in S PROVE k + 1 \in S
  <2> SUFFICES ASSUME k + 1 <= n PROVE f[k + 1].qty = s[k + 1].qty
    OBVIOUS
  <2>1. k \in 0..n /\ n \in 0..n /\ k + 1 \in 0..n /\ k + 1 \in 1..n /\ (k + 1) - 1 = k
    BY <1>1
  <2> DEFINE l == lvls[k + 1]
  <2>2. f[k].qty = s[k].qty
    BY <1>8, <2>1
  <2>3. l \in PriceLevels
    BY <1>3, <2>1 DEF n
  <2>4. s[k] \in Reports /\ s[k + 1] = Taken(s[k], l, target)
    BY <1>4, <2>1
  <2>5. f[k] \in Fills(o) /\ f[k + 1] = Matched(f[k], l, o)
    BY <1>5, <2>1
  <2>6. f[k + 1].qty = IF Matches(o, l) THEN s[k].qty + Least(o.qty - s[k].qty, l.qty)
                       ELSE s[k].qty
    BY <1>1, <2>2, <2>3, <2>5, MatchedFacts
  <2>7. /\ s[k].qty >= target => s[k + 1] = s[k]
        /\ s[k].qty < target =>
             s[k + 1].qty = s[k].qty + Least(target - s[k].qty, l.qty)
    BY <1>1, <2>3, <2>4, TakenFacts
  <2>8. /\ s[k].qty \in Nat /\ s[k + 1].qty \in Nat /\ o.qty \in Nat
        /\ l.qty \in Nat /\ l.qty > 0
    BY <1>1, <1>4, <2>1, <2>3 DEF Reports, PriceLevels
  <2>9. s[k].qty <= o.qty /\ s[k + 1].qty <= o.qty /\ o.qty <= target
    BY <1>1, <1>6, <2>1
  <2> HIDE DEF l
  <2>10. CASE s[k].qty >= target
    <3>1. s[k + 1] = s[k] /\ o.qty - s[k].qty = 0
      BY <1>1, <2>7, <2>8, <2>9, <2>10
    <3> QED
      BY <2>6, <2>8, <3>1 DEF Least
  <2>11. CASE s[k].qty < target
    <3>1. Matches(o, l)
      BY <1>1, <1>6, <2>1, <2>11 DEF Matches, NoWorse, Opposite, Sides, l
    <3>2. /\ f[k + 1].qty = s[k].qty + Least(o.qty - s[k].qty, l.qty)
          /\ s[k + 1].qty = s[k].qty + Least(target - s[k].qty, l.qty)
      BY <2>6, <2>7, <2>11, <3>1
    <3> QED
      BY <1>1, <2>8, <2>9, <2>11, <3>2 DEF Least
  <2> QED
    BY <1>1, <2>8, <2>10, <2>11
<1> HIDE DEF S
<1>9. n \in S
  BY <1>1, <1>7, <1>8, SetInduction
<1>10. f[n].qty = s[n].qty
  BY <1>1, <1>9 DEF S
<1> QED
  BY <1>1, <1>2, <1>10 DEF o

-----------------------------------------------------------------------------
(* The ledgers *)

Ledgers == [cash : Int, position : Int, avgEntry : Nat, realized : Int]

\* The order a strategy may send with a position: it closes, and no more than
\* the position.  Without a position any order may be sent.
Reduces(o, position) ==
  /\ position > 0 => o.side = "Ask" /\ o.qty <= position
  /\ position < 0 => o.side = "Bid" /\ o.qty <= -position

\* A fill that opens or reduces a position keeps the money: cash and position at
\* its entry price move with the realized profit.
LEMMA FillBalances ==
  ASSUME NEW s \in Ledgers, NEW r \in Reports, r.qty > 0, Reduces(r, s.position)
  PROVE  LET t == PnlOnFill(s, r)
         IN /\ t \in Ledgers
            /\ t.position = s.position + Signed(r.side, r.qty)
            /\ t.cash = s.cash - Signed(r.side, r.qty) * r.px
            /\ t.cash + t.position * t.avgEntry - t.realized =
                 s.cash + s.position * s.avgEntry - s.realized
            /\ s.position # 0 =>
                 /\ Magnitude(t.position) <= Magnitude(s.position)
                 /\ s.position > 0 => t.position >= 0
                 /\ s.position < 0 => t.position <= 0
                 /\ t.position # 0 => t.avgEntry = s.avgEntry
PROOF
<1> DEFINE t == PnlOnFill(s, r)
           p == s.position
           a == s.avgEntry
           q == r.qty
           x == r.px
<1>1. /\ s.cash \in Int /\ p \in Int /\ a \in Nat /\ s.realized \in Int
      /\ q \in Nat /\ q > 0 /\ x \in Nat /\ r.side \in {"Bid", "Ask"}
  BY DEF Ledgers, Reports
<1> DEFINE signed == Signed(r.side, q)
<1>2. signed = (IF r.side = "Bid" THEN q ELSE -q) /\ signed \in Int
  BY <1>1 DEF Signed
<1>3. CASE p = 0
  <2>1. SameDirection(p, signed)
    BY <1>3 DEF SameDirection
  <2>2. p + signed = signed /\ signed # 0 /\ Magnitude(p) = 0 /\ Magnitude(signed) = q
    BY <1>1, <1>2, <1>3 DEF Magnitude
  <2>3. /\ t.cash = s.cash - signed * x /\ t.position = signed
        /\ t.realized = s.realized
        /\ t.avgEntry = (a * 0 + x * q) \div q
    BY <2>1, <2>2 DEF PnlOnFill
  <2>4. (a * 0 + x * q) \div q = x
    <3>1. a * 0 + x * q = q * x
      BY <1>1
    <3>2. q * x \in Int /\ q * x < q * (x + 1) /\ q * x >= q * x
      BY <1>1
    <3>3. (q * x) \div q \in Int /\ (q * x) \div q <= x /\ (q * x) \div q >= x
      BY <1>1, <3>2, DivBounds
    <3> QED
      BY <1>1, <3>1, <3>3
  <2>5. t = [cash |-> t.cash, position |-> t.position, avgEntry |-> t.avgEntry,
             realized |-> t.realized]
    BY DEF PnlOnFill
  <2> HIDE DEF t, signed
  <2>6. signed * x \in Int
    BY <1>1, <1>2
  <2>7. t \in Ledgers
    <3>1. t.cash \in Int /\ t.position \in Int /\ t.avgEntry \in Nat /\ t.realized \in Int
      BY <1>1, <1>2, <2>3, <2>4, <2>6
    <3> QED
      BY <2>5, <3>1 DEF Ledgers
  <2>8. t.cash + t.position * t.avgEntry - t.realized = s.cash + p * a - s.realized
    <3>1. p * a = 0 /\ t.position * t.avgEntry = signed * x
      BY <1>1, <1>3, <2>3, <2>4
    <3> DEFINE m == signed * x
    <3>2. /\ m \in Int /\ p * a = 0 /\ t.position * t.avgEntry = m
          /\ t.cash = s.cash - m /\ t.realized = s.realized
      BY <2>3, <2>6, <3>1
    <3> HIDE DEF m
    <3> QED
      BY <1>1, <3>2
  <2> QED
    BY <1>1, <1>2, <1>3, <2>3, <2>7, <2>8 DEF t, signed
<1>4. CASE p # 0
  <2> DEFINE d == IF p > 0 THEN 1 ELSE -1
  <2>1. /\ signed = -(d * q) /\ p + signed \in Int /\ d \in {1, -1}
        /\ p = d * Magnitude(p) /\ q <= Magnitude(p) /\ Magnitude(p) \in Nat
        /\ p > 0 => p + signed >= 0
        /\ p < 0 => p + signed <= 0
    BY <1>1, <1>2, <1>4 DEF Reduces, Magnitude
  <2>2. ~SameDirection(p, signed)
    BY <1>1, <1>2, <1>4 DEF SameDirection, Reduces
  <2>3. /\ Magnitude(signed) = q /\ Least(q, Magnitude(p)) = q
        /\ ~(p + signed # 0 /\ (p + signed > 0) # (p > 0))
    BY <1>1, <1>2, <1>4, <2>1 DEF Magnitude, Least
  <2>4. /\ t.cash = s.cash - signed * x /\ t.position = p + signed
        /\ t.realized = s.realized + d * (x - a) * q
        /\ t.avgEntry = IF p + signed = 0 THEN 0 ELSE a
    BY <2>2, <2>3 DEF PnlOnFill
  <2>5. t = [cash |-> t.cash, position |-> t.position, avgEntry |-> t.avgEntry,
             realized |-> t.realized]
    BY DEF PnlOnFill
  <2> HIDE DEF t, d, signed
  <2>6. signed * x \in Int /\ d * (x - a) * q \in Int
    BY <1>1, <1>2, <2>1
  <2>7. t \in Ledgers
    <3>1. t.cash \in Int /\ t.position \in Int /\ t.avgEntry \in Nat /\ t.realized \in Int
      BY <1>1, <1>2, <2>1, <2>4, <2>6
    <3> QED
      BY <2>5, <3>1 DEF Ledgers
  <2>8. t.cash + t.position * t.avgEntry - t.realized = s.cash + p * a - s.realized
    <3>1. t.position * t.avgEntry = (p + signed) * a
      <4>1. CASE p + signed = 0
        <5>1. t.position = 0 /\ t.avgEntry = 0
          BY <2>4, <4>1
        <5> QED
          BY <1>1, <4>1, <5>1
      <4>2. CASE p + signed # 0
        BY <2>4, <4>2
      <4> QED
        BY <4>1, <4>2
    <3>2. (p + signed) * a = p * a + signed * a
      BY <1>1, <1>2
    <3>3. d * (x - a) * q = signed * a - signed * x
      <4>1. CASE d = 1
        <5>1. signed = -q /\ d * (x - a) * q = (x - a) * q
          BY <1>1, <2>1, <4>1
        <5>2. (x - a) * q = (-q) * a - (-q) * x
          <6>1. (-q) * a = -(q * a) /\ (-q) * x = -(q * x)
            BY <1>1
          <6>2. (x - a) * q = q * x - q * a /\ q * x \in Int /\ q * a \in Int
            BY <1>1
          <6> QED
            BY <6>1, <6>2
        <5> QED
          BY <5>1, <5>2
      <4>2. CASE d = -1
        <5>1. signed = q /\ d * (x - a) * q = -((x - a) * q)
          BY <1>1, <2>1, <4>2
        <5>2. -((x - a) * q) = q * a - q * x
          BY <1>1
        <5> QED
          BY <5>1, <5>2
      <4> QED
        BY <2>1, <4>1, <4>2
    <3>4. p * a \in Int /\ signed * a \in Int
      BY <1>1, <1>2
    <3> DEFINE m == signed * x
               k == signed * a
               e == p * a
    <3>5. /\ m \in Int /\ k \in Int /\ e \in Int
          /\ t.position * t.avgEntry = e + k
          /\ t.cash = s.cash - m /\ t.realized = s.realized + (k - m)
      BY <2>4, <2>6, <3>1, <3>2, <3>3, <3>4
    <3> HIDE DEF m, k
    <3>6. t.cash + t.position * t.avgEntry - t.realized = s.cash + e - s.realized
      <4> HIDE DEF e
      <4> QED
        BY <1>1, <3>5
    <3> QED
      BY <3>6
  <2>9. /\ Magnitude(t.position) <= Magnitude(p)
        /\ p > 0 => t.position >= 0
        /\ p < 0 => t.position <= 0
        /\ t.position # 0 => t.avgEntry = a
    BY <1>1, <1>2, <1>4, <2>1, <2>4 DEF Magnitude, d
  <2> QED
    BY <2>4, <2>7, <2>8, <2>9 DEF t, signed
<1> QED
  BY <1>3, <1>4

\* A signal: no order, or an order that the engine will fill whole and that opens
\* a position or reduces the one there is.
Sendable(o, bk) ==
  \/ o = NoOrder
  \/ /\ o \in Reports /\ o.qty > 0 /\ Reduces(o, pnl.position)
     /\ Simulate(o, bk).qty = o.qty

\* An order sized against the position can be sent.
LEMMA ComputedSendable ==
  ASSUME NEW bk \in Books, NEW side \in Sides, NEW target \in Int,
         pnl.position > 0 => side = "Ask" /\ target <= pnl.position,
         pnl.position < 0 => side = "Bid" /\ target <= -pnl.position,
         pnl.position \in Int
  PROVE  Sendable(ComputeOrder(bk, side, target), bk)
PROOF
<1> DEFINE o == ComputeOrder(bk, side, target)
<1> SUFFICES ASSUME o # NoOrder PROVE Sendable(o, bk)
  BY DEF Sendable
<1>1. /\ o \in Reports /\ o.side = side
      /\ o.qty \in Nat /\ 0 < o.qty /\ o.qty <= target
  BY ComputeOrderFacts
<1>2. Simulate(o, bk).qty = o.qty
  BY FilledIsSized
<1> HIDE DEF o
<1>3. Reduces(o, pnl.position)
  BY <1>1 DEF Reduces
<1> QED
  BY <1>1, <1>2, <1>3 DEF Sendable

\* What onMarketUpdate() decides on is such a signal, whatever the imbalance and
\* the clock.
LEMMA SignalSendable ==
  ASSUME TypeOK, NEW bk \in Books, Usable(bk), NEW sum, NEW n, NEW elapsed
  PROVE  Sendable(SignalOf(bk, sum, n, elapsed), bk)
PROOF
<1>1. pnl.position \in Int /\ pnl.cash \in Int
  BY DEF TypeOK
<1>2. TargetQty(bk, pnl.cash) \in Int
  <2>1. /\ bk.Bid \in Seq(PriceLevels) /\ bk.Ask \in Seq(PriceLevels)
        /\ bk.Bid # << >> /\ bk.Ask # << >>
    BY BooksAssumption DEF PriceLevels, Usable
  <2>2. bk.Bid[1] \in PriceLevels /\ bk.Ask[1] \in PriceLevels
    BY <2>1
  <2>3. BestBid(bk) \in Nat /\ BestAsk(bk) \in Nat
    BY <2>2 DEF BestBid, BestAsk, PriceLevels
  <2> DEFINE a == TradeFraction * pnl.cash * 2
             b == 100 * (BestBid(bk) + BestAsk(bk))
  <2>4. b \in Nat \ {0}
    BY <2>3 DEF Usable
  <2>5. a \in Int
    BY <1>1, TradingAssumption
  <2> HIDE DEF a, b
  <2>6. a \div b \in Int
    BY <2>4, <2>5, DivBounds
  <2> QED
    BY <2>6 DEF TargetQty, a, b
<1>3. Sendable(NoOrder, bk)
  BY DEF Sendable
<1>4. CASE pnl.position # 0
  <2>1. pnl.position > 0 => Sendable(ComputeOrder(bk, "Ask", pnl.position), bk)
    BY <1>1, ComputedSendable DEF Sides
  <2>2. pnl.position < 0 => Sendable(ComputeOrder(bk, "Bid", -pnl.position), bk)
    BY <1>1, ComputedSendable DEF Sides
  <2> QED
    BY <1>1, <1>3, <1>4, <2>1, <2>2 DEF SignalOf, ExitSignal
<1>5. CASE pnl.position = 0
  <2>1. \A side \in Sides : Sendable(ComputeOrder(bk, side, TargetQty(bk, pnl.cash)), bk)
    BY <1>1, <1>2, <1>5, ComputedSendable
  <2>2. "Bid" \in Sides /\ "Ask" \in Sides
    BY DEF Sides
  <2> QED
    BY <1>3, <1>5, <2>1, <2>2 DEF SignalOf, EntrySignal
<1> QED
  BY <1>4, <1>5

-----------------------------------------------------------------------------
(* dispatchOrder() *)

Breakers == [msgs : 0..MaxEvents, errors : Nat, tripped : BOOLEAN]

\* recordMessage() and recordError() keep the breaker a breaker.
LEMMA BreakerMethods ==
  ASSUME breaker \in Breakers, breaker.msgs < MaxEvents
  PROVE  /\ Breaker!Recorded(breaker) \in Breakers
         /\ Breaker!Errored(Breaker!Recorded(breaker)) \in Breakers
PROOF
<1> DEFINE b == Breaker!Recorded(breaker)
<1>1. breaker.msgs \in 0..MaxEvents /\ breaker.errors \in Nat /\ breaker.tripped \in BOOLEAN
  BY DEF Breakers
<1>2. b \in Breakers
  <2> DEFINE n == breaker.msgs + 1
             e == IF Breaker!WindowEnds(n) THEN 0 ELSE breaker.errors
             t == breaker.tripped /\ ~(Breaker!WindowEnds(n) /\ breaker.errors = 0)
  <2>1. n \in 0..MaxEvents /\ e \in Nat
    BY <1>1, TradingAssumption
  <2>2. t \in BOOLEAN
    BY Zenon
  <2>3. b = [msgs |-> n, errors |-> e, tripped |-> t]
    BY TradingAssumption DEF Breaker!Recorded
  <2> HIDE DEF n, e, t, b
  <2> QED
    BY <2>1, <2>2, <2>3 DEF Breakers
<1>3. ASSUME NEW c \in Breakers PROVE Breaker!Errored(c) \in Breakers
  <2> DEFINE e == c.errors + 1
             t == c.tripped \/ e >= Threshold
  <2>1. e \in Nat
    BY DEF Breakers
  <2>2. t \in BOOLEAN
    BY Zenon
  <2>3. Breaker!Errored(c) = [c EXCEPT !.errors = e, !.tripped = t]
    BY DEF Breaker!Errored
  <2> HIDE DEF e, t
  <2> QED
    BY <2>1, <2>2, <2>3 DEF Breakers
<1> HIDE DEF b
<1> QED
  BY <1>2, <1>3 DEF b

\* What becomes of a signal.
LEMMA DispatchedFacts ==
  ASSUME NEW bk \in Books, NEW o, Sendable(o, bk), NEW b
  PROVE  LET d == Dispatched(o, bk, b)
             r == Simulate(o, bk)
         IN /\ d \in [outcome : Outcomes, order : Orders, report : Orders]
            /\ d.outcome \in {"filled", "unfilled"} =>
                 /\ o \in Reports /\ Approve(risk, o) /\ d.order = o /\ d.report = r
                 /\ d.outcome = "filled"
                 /\ r \in Reports /\ r.side = o.side /\ r.qty = o.qty /\ r.qty > 0
                 /\ Matches(o, r) /\ Reduces(o, pnl.position)
            /\ d.outcome = "rejected" =>
                 o \in Reports /\ d.order = o /\ ~Approve(risk, o) /\ Reduces(o, pnl.position)
PROOF
<1> DEFINE d == Dispatched(o, bk, b)
           r == Simulate(o, bk)
<1>1. NoOrder \in Orders /\ Reports \subseteq Orders
  BY DEF Orders, Reports
<1>2. CASE o = NoOrder
  <2>1. d = [outcome |-> "no order", order |-> NoOrder, report |-> NoOrder]
    BY <1>2 DEF Dispatched, NoEvent
  <2> HIDE DEF d
  <2>2. /\ d.outcome = "no order"
        /\ d \in [outcome : Outcomes, order : Orders, report : Orders]
    BY <1>1, <2>1 DEF Outcomes
  <2> QED
    BY <2>2 DEF d
<1>3. CASE o # NoOrder
  <2>1. /\ o \in Reports /\ o.qty > 0 /\ Reduces(o, pnl.position)
        /\ r.qty = o.qty
    BY <1>3 DEF Sendable
  <2>2. r \in Reports /\ r.side = o.side /\ Matches(o, r)
    BY <2>1, SimulateFacts
  <2>3. IsFill(r)
    BY <2>1 DEF IsFill
  <2>4. d = IF b.tripped THEN [outcome |-> "blocked", order |-> o, report |-> NoOrder]
            ELSE IF ~Approve(risk, o)
                 THEN [outcome |-> "rejected", order |-> o, report |-> NoOrder]
            ELSE [outcome |-> "filled", order |-> o, report |-> r]
    BY <1>3, <2>3 DEF Dispatched
  <2> HIDE DEF d, r
  <2>5. o \in Orders /\ r \in Orders
    BY <1>1, <2>1, <2>2
  <2>6. CASE b.tripped
    <3>1. d = [outcome |-> "blocked", order |-> o, report |-> NoOrder]
      BY <2>4, <2>6
    <3> QED
      BY <1>1, <2>5, <3>1 DEF Outcomes, d
  <2>7. CASE ~b.tripped /\ ~Approve(risk, o)
    <3>1. d = [outcome |-> "rejected", order |-> o, report |-> NoOrder]
      BY <2>4, <2>7
    <3> QED
      BY <1>1, <2>1, <2>5, <2>7, <3>1 DEF Outcomes, d
  <2>8. CASE ~b.tripped /\ Approve(risk, o)
    <3>1. d = [outcome |-> "filled", order |-> o, report |-> r]
      BY <2>4, <2>8
    <3>2. /\ d.outcome = "filled" /\ d.order = o /\ d.report = r
          /\ d \in [outcome : Outcomes, order : Orders, report : Orders]
      BY <2>5, <3>1 DEF Outcomes
    <3> QED
      BY <2>1, <2>2, <2>8, <3>2 DEF d, r
  <2> QED
    BY <2>6, <2>7, <2>8
<1> QED
  BY <1>2, <1>3

\* The ledgers agree, balance and are within their limits.
LedgerInv == BooksAgree /\ PnlIdentity /\ WithinLimits

\* What OnePosition says of a step.
OnePositionStep ==
  pnl.position # 0 =>
    /\ Magnitude(pnl'.position) <= Magnitude(pnl.position)
    /\ pnl'.position * pnl.position >= 0
    /\ pnl'.position # 0 => pnl'.avgEntry = pnl.avgEntry

\* What moves no ledger keeps what is said of them.
LEMMA UnfilledKeeps ==
  ASSUME TypeOK, LedgerInv, UNCHANGED <<pnl, risk>>
  PROVE  LedgerInv' /\ OnePositionStep
PROOF
<1>1. pnl.position \in Int
  BY DEF TypeOK
<1>2. /\ Magnitude(pnl.position) <= Magnitude(pnl.position)
      /\ pnl.position * pnl.position >= 0
  BY <1>1 DEF Magnitude
<1> QED
  BY <1>2 DEF LedgerInv, BooksAgree, PnlIdentity, WithinLimits, OnePositionStep

\* A fill of an approved signal.
LEMMA FillKeeps ==
  ASSUME TypeOK, LedgerInv, NEW o \in Reports, NEW r \in Reports,
         Approve(risk, o), Reduces(o, pnl.position),
         r.side = o.side, r.qty = o.qty, r.qty > 0, Matches(o, r),
         risk' = RiskOnFill(risk, r), pnl' = PnlOnFill(pnl, r)
  PROVE  /\ pnl' \in Ledgers /\ risk' \in [position : Int, cash : Int]
         /\ LedgerInv' /\ OnePositionStep
PROOF
<1> DEFINE signed == Signed(r.side, r.qty)
<1>1. /\ pnl \in Ledgers /\ pnl.cash \in Int /\ pnl.position \in Int
      /\ pnl.realized \in Int /\ pnl.avgEntry \in Nat
      /\ risk.position \in Int /\ risk.cash \in Int
      /\ risk.position = pnl.position /\ risk.cash = pnl.cash /\ pnl.cash >= 0
      /\ InitialCash \in Int
  BY TradingAssumption DEF TypeOK, Ledgers, LedgerInv, BooksAgree, WithinLimits
<1>2. /\ o.qty \in Nat /\ o.px \in Nat /\ r.px \in Nat /\ r.qty \in Nat
      /\ r.side \in {"Bid", "Ask"}
  BY DEF Reports
<1>3. Reduces(r, pnl.position)
  BY DEF Reduces
<1>4. /\ pnl' \in Ledgers
      /\ pnl'.position = pnl.position + signed
      /\ pnl'.cash = pnl.cash - signed * r.px
      /\ pnl'.cash + pnl'.position * pnl'.avgEntry - pnl'.realized =
           pnl.cash + pnl.position * pnl.avgEntry - pnl.realized
      /\ pnl.position # 0 =>
           /\ Magnitude(pnl'.position) <= Magnitude(pnl.position)
           /\ pnl.position > 0 => pnl'.position >= 0
           /\ pnl.position < 0 => pnl'.position <= 0
           /\ pnl'.position # 0 => pnl'.avgEntry = pnl.avgEntry
  BY <1>1, <1>3, FillBalances
<1>5. signed = (IF r.side = "Bid" THEN r.qty ELSE -r.qty) /\ signed \in Int
  BY <1>2 DEF Signed
<1>6. risk'.position = risk.position + signed /\ risk'.cash = risk.cash - signed * r.px
  BY DEF RiskOnFill
<1>7. signed * r.px \in Int
  <2> HIDE DEF signed
  <2> QED
    BY <1>2, <1>5
<1>8. risk' \in [position : Int, cash : Int]
  <2>1. risk' = [position |-> risk.position + signed, cash |-> risk.cash - signed * r.px]
    BY DEF RiskOnFill
  <2> HIDE DEF signed
  <2> QED
    BY <1>1, <1>5, <1>7, <2>1
<1>9. BooksAgree'
  BY <1>1, <1>4, <1>6 DEF BooksAgree
<1>10. PnlIdentity'
  <2>1. pnl.cash + pnl.position * pnl.avgEntry = InitialCash + pnl.realized
    BY DEF LedgerInv, PnlIdentity
  <2> DEFINE e == pnl.position * pnl.avgEntry
             g == pnl'.position * pnl'.avgEntry
  <2>2. pnl'.cash \in Int /\ pnl'.position \in Int /\ pnl'.avgEntry \in Int
        /\ pnl'.realized \in Int
    BY <1>4 DEF Ledgers
  <2>3. e \in Int /\ g \in Int
    BY <1>1, <2>2
  <2>4. /\ pnl.cash + e = InitialCash + pnl.realized
        /\ pnl'.cash + g - pnl'.realized = pnl.cash + e - pnl.realized
    BY <1>4, <2>1
  <2> HIDE DEF e
  <2>5. pnl'.cash + g = InitialCash + pnl'.realized
    <3> HIDE DEF g
    <3> QED
      BY <1>1, <2>2, <2>3, <2>4
  <2> QED
    BY <2>5 DEF PnlIdentity
<1>11. WithinLimits'
  <2>1. pnl'.position \in -MaxPosition..MaxPosition
    BY <1>1, <1>4 DEF Approve
  <2>2. CASE r.side = "Bid"
    <3>1. o.qty * o.px <= pnl.cash /\ r.px <= o.px
      BY <1>1, <2>2 DEF Approve, Matches
    <3>2. r.qty * r.px <= r.qty * o.px /\ r.qty * o.px = o.qty * o.px
      BY <1>2, <3>1
    <3>3. r.qty * r.px \in Int /\ o.qty * o.px \in Int
      BY <1>2
    <3>4. signed * r.px = r.qty * r.px
      BY <1>5, <2>2
    <3> HIDE DEF signed
    <3>5. pnl'.cash >= 0
      BY <1>1, <1>4, <3>1, <3>2, <3>3, <3>4
    <3> QED
      BY <2>1, <3>5 DEF WithinLimits
  <2>3. CASE r.side # "Bid"
    <3>1. signed = -r.qty
      BY <1>5, <2>3
    <3>2. signed * r.px = -(r.qty * r.px) /\ r.qty * r.px \in Nat
      BY <1>2, <3>1
    <3> HIDE DEF signed
    <3>3. pnl'.cash >= 0
      BY <1>1, <1>4, <3>2
    <3> QED
      BY <2>1, <3>3 DEF WithinLimits
  <2> QED
    BY <2>2, <2>3
<1>12. OnePositionStep
  <2>1. pnl'.position \in Int
    BY <1>4 DEF Ledgers
  <2>2. pnl.position # 0 => pnl'.position * pnl.position >= 0
    BY <1>1, <1>4, <2>1
  <2> QED
    BY <1>4, <2>2 DEF OnePositionStep
<1> QED
  BY <1>4, <1>8, <1>9, <1>10, <1>11, <1>12 DEF LedgerInv

\* A signal that closes a position passes the position limit, and a sale is not
\* checked against the cash.
LEMMA ExitApproved ==
  ASSUME TypeOK, LedgerInv, NEW o \in Reports, Reduces(o, pnl.position),
         o.side = "Ask", pnl.position # 0
  PROVE  Approve(risk, o)
PROOF
<1>1. /\ pnl.position \in Int /\ risk.position = pnl.position
      /\ pnl.position >= -MaxPosition /\ pnl.position <= MaxPosition
      /\ o.qty \in Nat /\ MaxPosition \in Nat
  BY ExecutionAssumption DEF TypeOK, LedgerInv, BooksAgree, WithinLimits, Reports
<1>2. pnl.position > 0 /\ o.qty <= pnl.position
  BY <1>1 DEF Reduces
<1>3. Signed(o.side, o.qty) = -o.qty
  BY DEF Signed
<1> QED
  BY <1>1, <1>2, <1>3 DEF Approve

\* dispatchOrder() of a signal.
LEMMA DispatchKeeps ==
  ASSUME TypeOK, LedgerInv, breaker.msgs < MaxEvents,
         NEW bk \in Books, NEW o, Sendable(o, bk), Dispatch(o, bk)
  PROVE  /\ pnl' \in Ledgers /\ risk' \in [position : Int, cash : Int]
         /\ breaker' \in Breakers
         /\ last' \in [outcome : Outcomes, order : Orders, report : Orders]
         /\ LedgerInv' /\ OnePositionStep
         /\ FilledWhole' /\ LongExitApproved'
PROOF
<1> DEFINE b == Breaker!Recorded(breaker)
           d == Dispatched(o, bk, b)
           r == Simulate(o, bk)
<1>1. /\ d \in [outcome : Outcomes, order : Orders, report : Orders]
      /\ d.outcome \in {"filled", "unfilled"} =>
           /\ o \in Reports /\ Approve(risk, o) /\ d.order = o /\ d.report = r
           /\ d.outcome = "filled"
           /\ r \in Reports /\ r.side = o.side /\ r.qty = o.qty /\ r.qty > 0
           /\ Matches(o, r) /\ Reduces(o, pnl.position)
      /\ d.outcome = "rejected" =>
           o \in Reports /\ d.order = o /\ ~Approve(risk, o) /\ Reduces(o, pnl.position)
  BY DispatchedFacts
<1>2. /\ last' = d
      /\ breaker' = IF d.outcome = "rejected" THEN Breaker!Errored(b) ELSE b
      /\ risk' = IF d.outcome = "filled" THEN RiskOnFill(risk, d.report) ELSE risk
      /\ pnl' = IF d.outcome = "filled" THEN PnlOnFill(pnl, d.report) ELSE pnl
  BY DEF Dispatch
<1>3. breaker' \in Breakers
  <2>1. breaker \in Breakers
    BY DEF TypeOK, Breakers
  <2>2. b \in Breakers /\ Breaker!Errored(b) \in Breakers
    BY <2>1, BreakerMethods
  <2> HIDE DEF b, d
  <2> QED
    BY <1>2, <2>2
<1> HIDE DEF b, d, r
<1>4. CASE d.outcome = "filled"
  <2>1. /\ pnl' \in Ledgers /\ risk' \in [position : Int, cash : Int]
        /\ LedgerInv' /\ OnePositionStep
    BY <1>1, <1>2, <1>4, FillKeeps
  <2>2. FilledWhole' /\ LongExitApproved'
    BY <1>1, <1>2, <1>4 DEF FilledWhole, LongExitApproved
  <2> QED
    BY <1>1, <1>2, <1>3, <2>1, <2>2
<1>5. CASE d.outcome # "filled"
  <2>1. pnl' = pnl /\ risk' = risk
    BY <1>2, <1>5
  <2>2. LedgerInv' /\ OnePositionStep
    BY <2>1, UnfilledKeeps
  <2>3. FilledWhole'
    BY <1>1, <1>2, <1>5 DEF FilledWhole
  <2>4. LongExitApproved'
    <3> SUFFICES ASSUME d.outcome = "rejected", d.order.side = "Ask"
                 PROVE  pnl.position = 0
      BY <1>2, <2>1 DEF LongExitApproved
    <3> QED
      BY <1>1, ExitApproved
  <2>5. pnl' \in Ledgers /\ risk' \in [position : Int, cash : Int]
    BY <2>1 DEF TypeOK, Ledgers
  <2> QED
    BY <1>1, <1>2, <1>3, <2>2, <2>3, <2>4, <2>5
<1> QED
  BY <1>4, <1>5

-----------------------------------------------------------------------------
(* The smoothed imbalance *)

\* The quantity of one or more levels is a positive number.
LEMMA SizeFacts ==
  ASSUME NEW lvls \in Seq(PriceLevels), lvls # << >>
  PROVE  Size(lvls) \in Nat \ {0}
PROOF
<1> DEFINE n == Len(lvls)
           F == [i \in 1..n |-> [v \in Nat |-> v + lvls[i].qty]]
           G(g) == [i \in 0..n |-> IF i = 0 THEN 0 ELSE g[i - 1] + lvls[i].qty]
           size == Sizes(lvls)
<1>1. n \in Nat \ {0} /\ \A i \in 1..n : lvls[i] \in PriceLevels
  OBVIOUS
<1>2. \A i \in 1..n : lvls[i].qty \in Nat /\ lvls[i].qty > 0
  BY <1>1 DEF PriceLevels
<1>3. F \in [1..n -> [Nat -> Nat]]
  BY <1>2
<1>4. PICK g : Recursive(g, Nat, 0, n, F)
  <2>1. 0 \in Nat /\ n \in Nat
    BY <1>1
  <2> HIDE DEF n, F
  <2> QED
    BY <1>3, <2>1, Recursion
<1>5. /\ g \in [0..n -> Nat]
      /\ g = [i \in 0..n |-> IF i = 0 THEN 0 ELSE F[i][g[i - 1]]]
  BY <1>4 DEF Recursive
<1>6. g = G(g)
  <2>1. ASSUME NEW i \in 0..n, i # 0 PROVE F[i][g[i - 1]] = g[i - 1] + lvls[i].qty
    <3>1. i \in 1..n /\ i - 1 \in 0..n
      BY <2>1, <1>1
    <3>2. g[i - 1] \in Nat
      BY <1>5, <3>1
    <3> QED
      BY <3>1, <3>2
  <2> QED
    BY <1>5, <2>1, Zenon
<1>7. size = G(size)
  <2>1. size = CHOOSE f : f = G(f)
    BY DEF Sizes
  <2> HIDE DEF G, size
  <2> QED
    BY <1>6, <2>1, Zenon
<1>8. /\ size[0] = 0
      /\ \A i \in 1..n : size[i] = size[i - 1] + lvls[i].qty
  <2>1. 0 \in 0..n /\ \A i \in 1..n : i \in 0..n /\ i # 0
    BY <1>1
  <2> HIDE DEF size
  <2> QED
    BY <1>7, <2>1, Zenon
<1>9. ASSUME NEW k \in 0..n PROVE size[k] \in Nat
  <2> DEFINE S == {i \in Nat : i <= n => size[i] \in Nat}
  <2> HIDE DEF size
  <2>1. 0 \in S
    BY <1>8
  <2>2. ASSUME NEW i \in Nat, i \in S PROVE i + 1 \in S
    <3> SUFFICES ASSUME i + 1 <= n PROVE size[i + 1] \in Nat
      OBVIOUS
    <3>1. i + 1 \in 1..n /\ (i + 1) - 1 = i /\ size[i] \in Nat
      BY <2>2, <1>1
    <3>2. size[i + 1] = size[i] + lvls[i + 1].qty
      BY <1>8, <3>1
    <3> QED
      BY <1>2, <3>1, <3>2
  <2> HIDE DEF S
  <2>3. k \in S
    BY <2>1, <2>2, SetInduction
  <2> QED
    BY <2>3, <1>1 DEF S
<1>10. size[n] = size[n - 1] + lvls[n].qty /\ size[n - 1] \in Nat /\ n \in 1..n
  <2>1. n \in 1..n /\ n - 1 \in 0..n
    BY <1>1
  <2> QED
    BY <1>8, <1>9, <2>1
<1>11. Size(lvls) = size[n]
  BY DEF Size
<1> HIDE DEF size, n
<1> QED
  BY <1>2, <1>10, <1>11

\* An imbalance is a part of Scale, of either sign.
LEMMA ImbalanceRange ==
  ASSUME NEW bk \in Books, Usable(bk)
  PROVE  Imbalance(bk) \in -Scale..Scale
PROOF
<1> DEFINE bidLvls == Levels(bk, "Bid", DepthLevels)
           askLvls == Levels(bk, "Ask", DepthLevels)
           b == Size(bidLvls)
           a == Size(askLvls)
<1>1. bk["Bid"] # << >> /\ bk["Ask"] # << >> /\ DepthLevels \in Nat \ {0} /\ Scale \in Nat
  BY TradingAssumption DEF Usable
<1>2. /\ bidLvls \in Seq(PriceLevels) /\ bidLvls # << >>
      /\ askLvls \in Seq(PriceLevels) /\ askLvls # << >>
  BY <1>1, DepthIsLadder DEF Ladder, Sides
<1>3. b \in Nat \ {0} /\ a \in Nat \ {0}
  BY <1>2, SizeFacts
<1>4. Imbalance(bk) = ((b - a) * Scale) \div (b + a)
  BY DEF Imbalance
<1> HIDE DEF bidLvls, askLvls, a, b
<1>5. /\ (b - a) * Scale = b * Scale - a * Scale
      /\ (b + a) * Scale = b * Scale + a * Scale
      /\ (b + a) * (Scale + 1) = b * Scale + a * Scale + b + a
      /\ (b + a) * (-Scale) = -(b * Scale) - a * Scale
  BY <1>1, <1>3
<1>6. b * Scale \in Nat /\ a * Scale \in Nat
  BY <1>1, <1>3
<1> DEFINE x == (b - a) * Scale
           y == b + a
<1>7. /\ x \in Int /\ y \in Nat \ {0}
      /\ x < y * (Scale + 1) /\ x >= y * (-Scale)
  BY <1>1, <1>3, <1>5, <1>6
<1> HIDE DEF x, y
<1>8. x \div y \in Int /\ x \div y <= Scale /\ x \div y >= -Scale
  BY <1>1, <1>7, DivBounds
<1> QED
  BY <1>1, <1>4, <1>8 DEF x, y

\* The ring is filled from slot 0 after a reconnect.
RingInv == (count < SmoothingWindow => head = count) /\ SmoothsRecent

\* The next slot of the ring.
LEMMA WrapFacts ==
  ASSUME NEW x \in Nat, x < 2 * SmoothingWindow
  PROVE  x % SmoothingWindow = IF x < SmoothingWindow THEN x ELSE x - SmoothingWindow
BY TradingAssumption

\* The next imbalance replaces the oldest of a full ring, or follows the newest.
LEMMA RingKeeps ==
  ASSUME TypeOK, RingInv, NEW v \in -Scale..Scale,
         rolling' = [rolling EXCEPT ![head] = v],
         head' = NextSlot(head),
         count' = Least(count + 1, SmoothingWindow),
         recent' = LET r == Append(recent, v)
                   IN IF Len(r) > SmoothingWindow THEN Tail(r) ELSE r
  PROVE  /\ rolling' \in [0..(SmoothingWindow - 1) -> -Scale..Scale]
         /\ count' \in 0..SmoothingWindow /\ head' \in 0..(SmoothingWindow - 1)
         /\ recent' \in Seq(-Scale..Scale)
         /\ RingInv'
PROOF
<1> DEFINE W == SmoothingWindow
           V == -Scale..Scale
           r == Append(recent, v)
<1>1. /\ W \in Nat /\ W > 0
      /\ rolling \in [0..(W - 1) -> V] /\ recent \in Seq(V)
      /\ count \in Nat /\ count <= W /\ head \in Nat /\ head < W
      /\ count < W => head = count
      /\ Len(recent) = count
  <2>1. Len(recent) = count /\ (count < W => head = count)
    BY DEF RingInv, SmoothsRecent
  <2>2. /\ rolling \in [0..(W - 1) -> V] /\ recent \in Seq(V)
        /\ count \in 0..W /\ head \in 0..(W - 1)
    BY DEF TypeOK
  <2>3. W \in Nat /\ W > 0
    BY TradingAssumption
  <2> HIDE DEF W, V
  <2> QED
    BY <2>1, <2>2, <2>3
<1>2. head' = IF head + 1 < W THEN head + 1 ELSE 0
  BY <1>1, WrapFacts DEF NextSlot
<1>3. /\ r \in Seq(V) /\ Len(r) = count + 1 /\ r[count + 1] = v
      /\ \A i \in 1..count : r[i] = recent[i]
  BY <1>1
<1>4. /\ rolling' \in [0..(W - 1) -> V] /\ rolling'[head] = v
      /\ \A i \in 0..(W - 1) : i # head => rolling'[i] = rolling[i]
  BY <1>1
<1>5. recent' = IF Len(r) > W THEN Tail(r) ELSE r
  OBVIOUS
<1> HIDE DEF r, V
<1>6. CASE count < W
  <2>1. /\ recent' = r /\ count' = count + 1 /\ head = count
        /\ count' < W => head' = count'
        /\ count' = W => head' = 0
    BY <1>1, <1>2, <1>3, <1>5, <1>6 DEF Least
  <2>2. ASSUME NEW i \in 1..count' PROVE rolling'[i - 1] = recent'[i]
    <3>1. CASE i = count + 1
      BY <1>1, <1>3, <1>4, <2>1, <3>1
    <3>2. CASE i \in 1..count
      <4>1. i - 1 \in Nat /\ i - 1 < W /\ i - 1 # head /\ (0 + i) - 1 = i - 1
        BY <1>1, <1>6, <3>2
      <4>2. (i - 1) % W = i - 1
        BY <4>1, <1>1, WrapFacts
      <4>3. rolling[((0 + i) - 1) % W] = recent[i]
        BY <1>6, <3>2 DEF RingInv, SmoothsRecent
      <4>4. rolling'[i - 1] = rolling[i - 1]
        BY <1>1, <1>4, <4>1
      <4> QED
        BY <1>3, <2>1, <3>2, <4>1, <4>2, <4>3, <4>4
    <3> QED
      BY <1>1, <2>1, <3>1, <3>2
  <2> DEFINE oldest == IF count' < W THEN 0 ELSE head'
  <2>3. oldest = 0
    BY <1>1, <1>6, <2>1
  <2> HIDE DEF oldest
  <2>4. ASSUME NEW i \in 1..count' PROVE (oldest + i - 1) % W = i - 1
    <3>1. i - 1 \in Nat /\ i - 1 < W /\ oldest + i - 1 = i - 1
      BY <1>1, <1>6, <2>1, <2>3
    <3>2. (i - 1) % W = i - 1
      BY <1>1, <3>1, WrapFacts
    <3> QED
      BY <3>1, <3>2
  <2>5. SmoothsRecent'
    <3>1. \A i \in 1..count' : rolling'[(oldest + i - 1) % W] = recent'[i]
      BY <2>2, <2>4
    <3> QED
      BY <1>3, <2>1, <3>1 DEF SmoothsRecent, oldest
  <2>6. count' \in 0..W /\ head' \in 0..(W - 1)
    BY <1>1, <1>2, <1>6, <2>1
  <2> QED
    BY <1>3, <1>4, <2>1, <2>5, <2>6 DEF RingInv, V
<1>7. CASE count = W
  <2>1. recent' = Tail(r) /\ count' = W
    BY <1>1, <1>3, <1>5, <1>7 DEF Least
  <2>2. /\ recent' \in Seq(V) /\ Len(recent') = W
        /\ \A i \in 1..W : recent'[i] = r[i + 1]
    <3>1. r \in Seq(V) /\ Len(r) = W + 1 /\ r # << >>
      BY <1>1, <1>3, <1>7
    <3>2. /\ Tail(r) \in Seq(V) /\ Len(Tail(r)) = W
          /\ \A i \in 1..W : Tail(r)[i] = r[i + 1]
      BY <1>1, <3>1
    <3> QED
      BY <2>1, <3>2
  <2>3. ASSUME NEW i \in 1..W PROVE rolling'[(head' + i - 1) % W] = recent'[i]
    <3>1. CASE i = W
      <4>1. (head' + i - 1) % W = head
        <5>1. head' + i - 1 \in Nat /\ head' + i - 1 < 2 * W
          BY <1>1, <1>2, <3>1
        <5> DEFINE y == head' + i - 1
        <5> HIDE DEF y
        <5>2. y % W = IF y < W THEN y ELSE y - W
          BY <5>1, WrapFacts DEF y
        <5> QED
          BY <1>1, <1>2, <3>1, <5>2 DEF y
      <4> QED
        BY <1>3, <1>4, <1>7, <2>2, <3>1, <4>1
    <3>2. CASE i # W
      <4>0. i \in Nat /\ i >= 1 /\ i < W /\ i + 1 \in 1..W
        BY <1>1, <3>2
      <4>1. (head + i) % W = IF head + i < W THEN head + i ELSE head + i - W
        BY <1>1, <4>0, WrapFacts
      <4>2. (head' + i - 1) % W = (head + i) % W
        <5>1. head' + i - 1 \in Nat /\ head' + i - 1 < 2 * W
          BY <1>1, <1>2, <4>0
        <5> DEFINE y == head' + i - 1
        <5>2. y % W = IF y < W THEN y ELSE y - W
          <6> HIDE DEF y
          <6> QED
            BY <5>1, WrapFacts DEF y
        <5> HIDE DEF y
        <5> QED
          BY <1>1, <1>2, <4>0, <4>1, <5>2 DEF y
      <4>3. (head + i) % W \in 0..(W - 1) /\ (head + i) % W # head
        BY <1>1, <4>0, <4>1
      <4>4. rolling[(head + (i + 1) - 1) % W] = recent[i + 1]
        <5>1. \A j \in 1..count :
                rolling[((IF count < W THEN 0 ELSE head) + j - 1) % W] = recent[j]
          BY DEF RingInv, SmoothsRecent
        <5>2. ~(count < W) /\ i + 1 \in 1..count
          BY <1>1, <1>7, <4>0
        <5> QED
          BY <5>1, <5>2
      <4>5. head + (i + 1) - 1 = head + i
        BY <1>1, <4>0
      <4>6. rolling'[(head' + i - 1) % W] = recent[i + 1]
        BY <1>4, <4>2, <4>3, <4>4, <4>5
      <4>7. recent'[i] = recent[i + 1]
        BY <1>3, <1>7, <2>2, <4>0
      <4> QED
        BY <4>6, <4>7
    <3> QED
      BY <3>1, <3>2
  <2>4. SmoothsRecent'
    <3>1. (IF count' < W THEN 0 ELSE head') = head' /\ ~(count' < W)
      BY <1>1, <2>1
    <3> QED
      BY <2>1, <2>2, <2>3, <3>1 DEF SmoothsRecent
  <2>5. count' \in 0..W /\ head' \in 0..(W - 1) /\ ~(count' < W)
    BY <1>1, <1>2, <2>1
  <2> QED
    BY <1>4, <2>2, <2>4, <2>5 DEF RingInv, V
<1> QED
  BY <1>1, <1>6, <1>7

-----------------------------------------------------------------------------
(* The strategy thread *)

Inv == TypeOK /\ LedgerInv /\ FilledWhole /\ LongExitApproved /\ RingInv

\* An event without an order says nothing about fills.
LEMMA NoEventFacts ==
  ASSUME last' = NoEvent
  PROVE  /\ last' \in [outcome : Outcomes, order : Orders, report : Orders]
         /\ FilledWhole' /\ LongExitApproved'
PROOF
<1>1. NoEvent \in [outcome : Outcomes, order : Orders, report : Orders]
  BY DEF NoEvent, Outcomes, Orders
<1>2. NoEvent.outcome = "no order"
  BY DEF NoEvent
<1>3. last'.outcome = "no order"
  BY <1>2
<1>4. FilledWhole'
  BY <1>3 DEF FilledWhole
<1>5. LongExitApproved'
  BY <1>3 DEF LongExitApproved
<1> QED
  BY <1>1, <1>4, <1>5

\* The invariant holds at the start.
LEMMA InitInv == Init => Inv
PROOF
<1> SUFFICES ASSUME Init PROVE Inv
  OBVIOUS
<1>1. TypeOK
  <2>1. rolling \in [0..(SmoothingWindow - 1) -> -Scale..Scale]
    BY TradingAssumption DEF Init
  <2>2. /\ count \in 0..SmoothingWindow /\ head \in 0..(SmoothingWindow - 1)
        /\ since \in 0..Cooldown /\ recent \in Seq(-Scale..Scale)
    BY TradingAssumption DEF Init
  <2>3. skip \in BOOLEAN
    BY Zenon DEF Init
  <2>4. /\ pnl \in [cash : Int, position : Int, avgEntry : Nat, realized : Int]
        /\ risk \in [position : Int, cash : Int]
    BY TradingAssumption DEF Init
  <2>5. breaker \in [msgs : 0..MaxEvents, errors : Nat, tripped : BOOLEAN]
    <3>1. 0 \in 0..MaxEvents /\ 0 \in Nat
      BY TradingAssumption
    <3>2. FALSE \in BOOLEAN
      BY Zenon
    <3> QED
      BY <3>1, <3>2, Zenon DEF Init
  <2>6. last \in [outcome : Outcomes, order : Orders, report : Orders]
    BY DEF Init, NoEvent, Outcomes, Orders
  <2> QED
    BY <2>1, <2>2, <2>3, <2>4, <2>5, <2>6 DEF TypeOK
<1>2. LedgerInv
  BY TradingAssumption, ExecutionAssumption
     DEF Init, LedgerInv, BooksAgree, PnlIdentity, WithinLimits
<1>3. FilledWhole /\ LongExitApproved
  BY DEF Init, NoEvent, FilledWhole, LongExitApproved
<1>4. RingInv
  BY TradingAssumption DEF Init, RingInv, SmoothsRecent
<1> QED
  BY <1>1, <1>2, <1>3, <1>4 DEF Inv

\* The time since the last order stays within the cooldown.
LEMMA ElapsedRange ==
  ASSUME TypeOK, NEW dt \in {0, 1}
  PROVE  Elapsed(dt) \in 0..Cooldown /\ 0 \in 0..Cooldown
BY TradingAssumption DEF TypeOK, Elapsed, Least

\* It is kept by an event whose book is empty, locked or crossed,
LEMMA UnusableKeeps ==
  ASSUME Inv, breaker.msgs < MaxEvents, NEW bk \in Books, NEW dt \in {0, 1},
         UnusableBook(bk, dt)
  PROVE  Inv' /\ OnePositionStep
PROOF
<1>1. TypeOK /\ LedgerInv /\ RingInv
  BY DEF Inv
<1>2. /\ since' = Elapsed(dt) /\ Dispatch(NoOrder, bk)
      /\ UNCHANGED <<rolling, count, head, skip, recent>>
  BY DEF UnusableBook
<1>3. Sendable(NoOrder, bk)
  BY DEF Sendable
<1>4. /\ pnl' \in Ledgers /\ risk' \in [position : Int, cash : Int]
      /\ breaker' \in Breakers
      /\ last' \in [outcome : Outcomes, order : Orders, report : Orders]
      /\ LedgerInv' /\ OnePositionStep
      /\ FilledWhole' /\ LongExitApproved'
  BY <1>1, <1>2, <1>3, DispatchKeeps
<1>5. since' \in 0..Cooldown
  BY <1>1, <1>2, ElapsedRange
<1>6. TypeOK'
  BY <1>1, <1>2, <1>4, <1>5 DEF TypeOK, Ledgers, Breakers
<1>7. RingInv'
  BY <1>1, <1>2 DEF RingInv, SmoothsRecent
<1> QED
  BY <1>4, <1>6, <1>7 DEF Inv

\* by one whose book is usable, with or without an order,
LEMMA MarketKeeps ==
  ASSUME Inv, breaker.msgs < MaxEvents, NEW bk \in Books, NEW dt \in {0, 1},
         MarketUpdate(bk, dt)
  PROVE  Inv' /\ OnePositionStep
PROOF
<1>1. TypeOK /\ LedgerInv /\ RingInv
  BY DEF Inv
<1> DEFINE v == Imbalance(bk)
           sig == IF skip THEN NoOrder
                  ELSE SignalOf(bk, SumOfFirst(rolling', count'), count', Elapsed(dt))
<1>2. /\ Usable(bk)
      /\ rolling' = [rolling EXCEPT ![head] = v]
      /\ head' = NextSlot(head)
      /\ count' = Least(count + 1, SmoothingWindow)
      /\ recent' = LET r == Append(recent, v)
                   IN IF Len(r) > SmoothingWindow THEN Tail(r) ELSE r
      /\ skip' = FALSE
      /\ since' = IF sig = NoOrder THEN Elapsed(dt) ELSE 0
      /\ Dispatch(sig, bk)
  BY DEF MarketUpdate
<1>3. v \in -Scale..Scale
  BY <1>2, ImbalanceRange
<1> HIDE DEF v
<1>4. /\ rolling' \in [0..(SmoothingWindow - 1) -> -Scale..Scale]
      /\ count' \in 0..SmoothingWindow /\ head' \in 0..(SmoothingWindow - 1)
      /\ recent' \in Seq(-Scale..Scale)
      /\ RingInv'
  BY <1>1, <1>2, <1>3, RingKeeps
<1>5. Sendable(sig, bk)
  <2>1. Sendable(NoOrder, bk)
    BY DEF Sendable
  <2>2. Sendable(SignalOf(bk, SumOfFirst(rolling', count'), count', Elapsed(dt)), bk)
    BY <1>1, <1>2, SignalSendable
  <2> QED
    BY <2>1, <2>2
<1> HIDE DEF sig
<1>6. /\ pnl' \in Ledgers /\ risk' \in [position : Int, cash : Int]
      /\ breaker' \in Breakers
      /\ last' \in [outcome : Outcomes, order : Orders, report : Orders]
      /\ LedgerInv' /\ OnePositionStep
      /\ FilledWhole' /\ LongExitApproved'
  BY <1>1, <1>2, <1>5, DispatchKeeps
<1>7. since' \in 0..Cooldown
  BY <1>1, <1>2, ElapsedRange
<1>8. skip' \in BOOLEAN
  BY <1>2, Zenon
<1>9. TypeOK'
  BY <1>4, <1>6, <1>7, <1>8 DEF TypeOK, Ledgers, Breakers
<1> QED
  BY <1>4, <1>6, <1>9 DEF Inv

\* by an event the strategy does not see,
LEMMA OtherKeeps ==
  ASSUME Inv, breaker.msgs < MaxEvents, OtherEvent
  PROVE  Inv' /\ OnePositionStep
PROOF
<1>1. TypeOK /\ LedgerInv /\ RingInv
  BY DEF Inv
<1>2. /\ breaker' = Breaker!Recorded(breaker) /\ last' = NoEvent
      /\ UNCHANGED <<rolling, count, head, skip, since, recent, pnl, risk>>
  BY DEF OtherEvent, strategyVars
<1>3. breaker' \in Breakers
  BY <1>1, <1>2, BreakerMethods DEF TypeOK, Breakers
<1>4. TypeOK'
  BY <1>1, <1>2, <1>3, NoEventFacts DEF TypeOK, Breakers
<1>5. RingInv'
  BY <1>1, <1>2 DEF RingInv, SmoothsRecent
<1> QED
  BY <1>1, <1>2, <1>4, <1>5, NoEventFacts, UnfilledKeeps DEF Inv

\* and by a reconnect.
LEMMA ReconnectKeeps ==
  ASSUME Inv, OnReconnect
  PROVE  Inv' /\ OnePositionStep
PROOF
<1>1. TypeOK /\ LedgerInv /\ RingInv
  BY DEF Inv
<1>2. /\ count' = 0 /\ head' = 0 /\ skip' = TRUE /\ recent' = << >> /\ last' = NoEvent
      /\ UNCHANGED <<rolling, since, pnl, risk, breaker>>
  BY DEF OnReconnect
<1>3. /\ count' \in 0..SmoothingWindow /\ head' \in 0..(SmoothingWindow - 1)
      /\ recent' \in Seq(-Scale..Scale) /\ Len(recent') = 0
  BY <1>2, TradingAssumption
<1>4. skip' \in BOOLEAN
  BY <1>2, Zenon
<1>5. TypeOK'
  <2>1. /\ rolling' \in [0..(SmoothingWindow - 1) -> -Scale..Scale] /\ since' \in 0..Cooldown
        /\ pnl' \in [cash : Int, position : Int, avgEntry : Nat, realized : Int]
        /\ risk' \in [position : Int, cash : Int]
    BY <1>1, <1>2 DEF TypeOK
  <2>2. breaker' \in [msgs : 0..MaxEvents, errors : Nat, tripped : BOOLEAN]
    BY <1>1, <1>2 DEF TypeOK
  <2> QED
    BY <1>2, <1>3, <1>4, <2>1, <2>2, NoEventFacts DEF TypeOK
<1>6. RingInv'
  BY <1>2, <1>3 DEF RingInv, SmoothsRecent
<1> QED
  BY <1>1, <1>2, <1>5, <1>6, NoEventFacts, UnfilledKeeps DEF Inv

\* Every step keeps the invariant.
LEMMA NextInv == Inv /\ [Next]_vars => Inv' /\ OnePositionStep
PROOF
<1> SUFFICES ASSUME Inv, [Next]_vars PROVE Inv' /\ OnePositionStep
  OBVIOUS
<1>1. CASE UNCHANGED vars
  <2>1. UNCHANGED <<rolling, count, head, skip, since, recent, pnl, risk, breaker, last>>
    BY <1>1 DEF vars, strategyVars
  <2>2. TypeOK'
    BY <2>1 DEF Inv, TypeOK
  <2>3. RingInv' /\ FilledWhole' /\ LongExitApproved'
    BY <2>1 DEF Inv, RingInv, SmoothsRecent, FilledWhole, LongExitApproved
  <2>4. LedgerInv' /\ OnePositionStep
    BY <2>1, UnfilledKeeps DEF Inv
  <2> QED
    BY <2>2, <2>3, <2>4 DEF Inv
<1>2. CASE /\ breaker.msgs < MaxEvents
           /\ \E bk \in Books, dt \in {0, 1} : UnusableBook(bk, dt) \/ MarketUpdate(bk, dt)
  BY <1>2, UnusableKeeps, MarketKeeps
<1>3. CASE breaker.msgs < MaxEvents /\ (OtherEvent \/ OnReconnect)
  BY <1>3, OtherKeeps, ReconnectKeeps
<1> QED
  BY <1>1, <1>2, <1>3 DEF Next, Stopped

\* The inductive invariant.
LEMMA Invariance == Spec => []Inv
PROOF
<1>1. Inv /\ [Next]_vars => Inv'
  BY NextInv
<1> QED
  BY <1>1, InitInv, PTL DEF Spec

-----------------------------------------------------------------------------
\* Type correctness.
THEOREM TypeCorrect == Spec => []TypeOK
PROOF
<1>1. Inv => TypeOK
  BY DEF Inv
<1> QED
  BY <1>1, Invariance, PTL

\* The positions and the cash that the risk manager checks orders against and
\* those the strategy trades on are the same in every reachable state: no event,
\* rejection, block, partial or whole fill separates them.
THEOREM LedgersAgree == Spec => []BooksAgree
PROOF
<1>1. Inv => BooksAgree
  BY DEF Inv, LedgerInv
<1> QED
  BY <1>1, Invariance, PTL

\* PnlTracker::onFill makes and loses no money: cash plus position at its entry
\* price is the initial cash plus the realized profit.
THEOREM MoneyKept == Spec => []PnlIdentity
PROOF
<1>1. Inv => PnlIdentity
  BY DEF Inv, LedgerInv
<1> QED
  BY <1>1, Invariance, PTL

\* The limits that RiskManager::approve checks of an order hold of what is
\* filled: the cash never becomes negative, the position never exceeds its limit.
THEOREM LimitsHold == Spec => []WithinLimits
PROOF
<1>1. Inv => WithinLimits
  BY DEF Inv, LedgerInv
<1> QED
  BY <1>1, Invariance, PTL

\* simulate() fills every approved order whole, at its limit or better, on the
\* book computeOrder() sized it from.
THEOREM OrdersFilledWhole == Spec => []FilledWhole
PROOF
<1>1. Inv => FilledWhole
  BY DEF Inv
<1> QED
  BY <1>1, Invariance, PTL

\* approve() never rejects the signal that closes a long position.
THEOREM LongExitsPass == Spec => []LongExitApproved
PROOF
<1>1. Inv => LongExitApproved
  BY DEF Inv
<1> QED
  BY <1>1, Invariance, PTL

\* The first rolling_count_ slots of rolling_ are the last imbalances since the
\* last reconnect, at any fill level and wrap of the ring.
THEOREM RingSmoothsRecent == Spec => []SmoothsRecent
PROOF
<1>1. Inv => SmoothsRecent
  BY DEF Inv, RingInv
<1> QED
  BY <1>1, Invariance, PTL

\* A fill opens a position from flat or reduces one; it never adds to it or turns
\* it around.
THEOREM OneAtATime == Spec => OnePosition
PROOF
<1>1. Inv /\ [Next]_vars => OnePositionStep
  BY NextInv
<1> QED
  BY <1>1, Invariance, PTL DEF Spec, OnePosition, OnePositionStep

=============================================================================
