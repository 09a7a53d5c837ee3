-------------------------- MODULE Reporting_proofs --------------------------
(***************************************************************************)
(* For every width of a histogram, every duration, every price and every   *)
(* interleaving of the main thread's loads with the strategy thread's      *)
(* stores: no percentile of a dump is above the maximum that ends it, the  *)
(* final report balances, and its percentiles are accurate.                *)
(***************************************************************************)
EXTENDS Reporting, FiniteSetTheorems, TLAPS

Sides == {"Bid", "Ask"}
Ledgers == [cash : Int, position : -1..1, avgEntry : Nat, realized : Int]

Types ==
  /\ events \in Nat
  /\ pnl \in Ledgers /\ mark \in [Sides -> Nat]
  /\ records \in Seq(Nat)
  /\ mPc \in {"loop", "dump", "stopped", "done"}
  /\ seen \in [count : Nat, max : Nat, counts : [Cells -> Nat]]
  /\ printed \in 0..4 /\ highest \in Int /\ printedMax \in Nat

\* The figures of a dump are below the maximum loaded with the last of them,
\* and a later load of max_ is not below an earlier one.
DumpInv == highest <= seen.max /\ DumpBelowMax

\* The ledger balances, it is published as it is, and a position has been opened
\* by a fill that left both marks set.
MoneyInv ==
  /\ published = pnl
  /\ pnl.cash + pnl.position * pnl.avgEntry = InitialCash + pnl.realized
  /\ pnl.position # 0 => mark["Bid"] > 0 /\ mark["Ask"] > 0
  /\ FinalReportBalances

Inv == Types /\ DumpInv /\ MoneyInv

-----------------------------------------------------------------------------
(* Least and greatest elements *)

\* A set of naturals that is not empty has a least element, and Min is it.
LEMMA MinOfNaturals ==
  ASSUME NEW S \in SUBSET Nat, S # {}
  PROVE  Min(S) \in S /\ \A y \in S : Min(S) <= y
PROOF
<1> DEFINE before == {p \in Nat \X Nat : p[1] < p[2]}
<1>1. IsWellFoundedOn(before, Nat)
  BY NatLessThanWellFounded, Zenon DEF OpToRel
<1>2. PICK x \in S : \A y \in S : ~(<<y, x>> \in before)
  BY <1>1, WFMin, Zenon
<1>3. ASSUME NEW y \in S PROVE x <= y
  <2>1. x \in Nat /\ y \in Nat /\ <<y, x>> \notin before
    BY <1>2, <1>3
  <2>2. <<y, x>> \in before <=> y < x
    BY <2>1
  <2> HIDE DEF before
  <2> QED
    BY <2>1, <2>2
<1>4. \A y \in S : x <= y
  BY <1>3
<1> QED
  BY <1>2, <1>4, Zenon DEF Min

\* A set of naturals with 0 and every successor has all of them.
LEMMA SetInduction ==
  ASSUME NEW S, 0 \in S, \A n \in Nat : n \in S => n + 1 \in S
  PROVE  Nat \subseteq S
PROOF
<1> SUFFICES ASSUME NEW T, T = Nat \ S, T # {} PROVE FALSE
  OBVIOUS
<1> DEFINE x == Min(T)
<1>1. x \in T /\ \A y \in T : x <= y
  BY MinOfNaturals
<1> HIDE DEF x
<1>2. x \in Nat /\ x \notin S /\ x # 0
  BY <1>1
<1>3. x - 1 \in Nat /\ (x - 1) + 1 = x /\ x - 1 \notin T
  BY <1>1, <1>2
<1> QED
  BY <1>2, <1>3

\* Max and Min of two integers.
LEMMA OfTwo ==
  ASSUME NEW a \in Int, NEW b \in Int
  PROVE  /\ Max({a, b}) = IF a >= b THEN a ELSE b
         /\ Min({a, b}) = IF a <= b THEN a ELSE b
PROOF
<1>1. Max({a, b}) = IF a >= b THEN a ELSE b
  <2> DEFINE m == IF a >= b THEN a ELSE b
             P(x) == \A y \in {a, b} : x >= y
  <2>1. m \in {a, b} /\ P(m)
    OBVIOUS
  <2>2. \A x \in {a, b} : P(x) => x = m
    OBVIOUS
  <2>3. Max({a, b}) = CHOOSE x \in {a, b} : P(x)
    BY DEF Max
  <2> HIDE DEF m, P
  <2>4. Max({a, b}) = m
    BY <2>1, <2>2, <2>3, Zenon
  <2> QED
    BY <2>4 DEF m
<1>2. Min({a, b}) = IF a <= b THEN a ELSE b
  <2> DEFINE m == IF a <= b THEN a ELSE b
             P(x) == \A y \in {a, b} : x <= y
  <2>1. m \in {a, b} /\ P(m)
    OBVIOUS
  <2>2. \A x \in {a, b} : P(x) => x = m
    OBVIOUS
  <2>3. Min({a, b}) = CHOOSE x \in {a, b} : P(x)
    BY DEF Min
  <2> HIDE DEF m, P
  <2>4. Min({a, b}) = m
    BY <2>1, <2>2, <2>3, Zenon
  <2> QED
    BY <2>4 DEF m
<1> QED
  BY <1>1, <1>2

\* max_ after some of the records is the greatest of them, or 0.
LEMMA MaxAfterFacts ==
  ASSUME records \in Seq(Nat), NEW k \in 0..Len(records)
  PROVE  /\ MaxAfter(k) \in Nat /\ \A i \in 1..k : records[i] <= MaxAfter(k)
         /\ MaxAfter(k) = 0 \/ \E i \in 1..k : MaxAfter(k) = records[i]
PROOF
<1> DEFINE V(j) == {0} \cup {records[i] : i \in 1..j}
           S == {j \in Nat : j <= Len(records) =>
                   \E m \in V(j) : m \in Nat /\ \A y \in V(j) : m >= y}
<1>0. Len(records) \in Nat /\ \A i \in 1..Len(records) : records[i] \in Nat
  OBVIOUS
<1>1. 0 \in S
  OBVIOUS
<1>2. ASSUME NEW j \in Nat, j \in S PROVE j + 1 \in S
  <2> SUFFICES ASSUME j + 1 <= Len(records)
               PROVE  \E m \in V(j + 1) : m \in Nat /\ \A y \in V(j + 1) : m >= y
    OBVIOUS
  <2>1. PICK m \in V(j) : m \in Nat /\ \A y \in V(j) : m >= y
    BY <1>0, <1>2
  <2>2. V(j + 1) = V(j) \cup {records[j + 1]}
    BY <1>0
  <2>3. records[j + 1] \in Nat /\ V(j) \subseteq Nat
    BY <1>0
  <2>4. CASE records[j + 1] >= m
    <3> WITNESS records[j + 1] \in V(j + 1)
    <3> QED
      BY <2>1, <2>2, <2>3, <2>4
  <2>5. CASE ~(records[j + 1] >= m)
    <3>1. m \in V(j + 1)
      BY <2>2
    <3> WITNESS m \in V(j + 1)
    <3> QED
      BY <2>1, <2>2, <2>3, <2>5
  <2> QED
    BY <2>4, <2>5
<1>3. k \in S
  <2>1. \A j \in Nat : j \in S => j + 1 \in S
    BY <1>2
  <2> HIDE DEF S
  <2>2. Nat \subseteq S
    BY <1>1, <2>1, SetInduction
  <2>3. k \in Nat
    BY <1>0
  <2> QED
    BY <2>2, <2>3
<1>4. \E m \in V(k) : \A y \in V(k) : m >= y
  <2>1. k <= Len(records)
    BY <1>0
  <2> HIDE DEF V
  <2> QED
    BY <1>3, <2>1
<1>5. MaxAfter(k) = CHOOSE m \in V(k) : \A y \in V(k) : m >= y
  BY DEF MaxAfter, Max
<1>6. MaxAfter(k) \in V(k) /\ \A y \in V(k) : MaxAfter(k) >= y
  <2> HIDE DEF V
  <2> QED
    BY <1>4, <1>5, Zenon
<1>7. MaxAfter(k) \in Nat /\ \A y \in V(k) : y \in Nat
  BY <1>0, <1>6
<1>8. \A i \in 1..k : records[i] \in V(k)
  OBVIOUS
<1> QED
  BY <1>6, <1>7, <1>8

-----------------------------------------------------------------------------
(* The histogram *)

\* A power of two is a positive number: it counts the subsets of a set.
LEMMA Powers ==
  ASSUME NEW n \in Nat
  PROVE  2^n \in Nat /\ 2^n > 0
PROOF
<1>1. IsFiniteSet(1..n) /\ Cardinality(1..n) = n
  BY FS_Interval
<1>2. IsFiniteSet(SUBSET (1..n)) /\ Cardinality(SUBSET (1..n)) = 2^n
  BY <1>1, FS_SUBSET
<1>3. SUBSET (1..n) # {}
  OBVIOUS
<1>4. Cardinality(SUBSET (1..n)) \in Nat /\ Cardinality(SUBSET (1..n)) # 0
  BY <1>2, <1>3, FS_CardinalityType, FS_EmptySet
<1> QED
  BY <1>2, <1>4

\* The cells are numbered by naturals.
LEMMA CellsAreNaturals == Cells \subseteq Nat /\ SubCount \in Nat \ {0}
PROOF
<1>1. SubCount \in Nat /\ SubCount > 0
  BY Powers, HistogramAssumption DEF SubCount
<1> QED
  BY <1>1 DEF Cells

\* The value of a cell is a natural number.
LEMMA ValueAtType ==
  ASSUME NEW idx \in Cells
  PROVE  ValueAt(idx) \in Nat
PROOF
<1>1. idx \in Nat /\ SubCount \in Nat /\ SubCount > 0
  BY CellsAreNaturals
<1>2. CASE idx < SubCount
  BY <1>1, <1>2 DEF ValueAt
<1>3. CASE idx >= SubCount
  <2> DEFINE d == idx - SubCount
             octave == d \div SubCount
             sub == d % SubCount
             p == 2^octave
  <2>1. d \in Nat
    BY <1>1, <1>3
  <2>2. octave \in Nat /\ sub \in Nat
    BY <1>1, <2>1
  <2>3. p \in Nat
    BY <2>2, Powers
  <2>4. ValueAt(idx) = (SubCount + sub) * p + p \div 2
    BY <1>1, <1>3 DEF ValueAt
  <2> HIDE DEF p, sub
  <2>5. p \div 2 \in Nat
    BY <2>3
  <2>6. (SubCount + sub) * p \in Nat
    BY <1>1, <2>2, <2>3
  <2> QED
    BY <2>4, <2>5, <2>6
<1> QED
  BY <1>1, <1>2, <1>3

\* percentileNs() never answers more than the maximum it loaded.
LEMMA PercentileBelowMax ==
  ASSUME NEW n, NEW mx \in Nat, NEW counts, NEW permille
  PROVE  Percentile(n, mx, counts, permille) \in 0..mx
PROOF
<1> DEFINE reached == {i \in Cells : Cumulated(counts)[i] >= Target(n, permille)}
<1>1. Percentile(n, mx, counts, permille) =
        IF n = 0 THEN 0
        ELSE IF reached = {} THEN mx
        ELSE Min({ValueAt(Min(reached)), mx})
  BY DEF Percentile
<1>2. reached \subseteq Cells
  OBVIOUS
<1> HIDE DEF reached
<1>3. CASE n = 0 \/ reached = {}
  BY <1>1, <1>3
<1>4. CASE n # 0 /\ reached # {}
  <2>1. Min(reached) \in Cells
    BY <1>2, <1>4, MinOfNaturals, CellsAreNaturals
  <2>2. ValueAt(Min(reached)) \in Nat
    BY <2>1, ValueAtType
  <2> DEFINE v == ValueAt(Min(reached))
  <2>3. Percentile(n, mx, counts, permille) = Min({v, mx}) /\ v \in Nat
    BY <1>1, <1>4, <2>2
  <2> HIDE DEF v
  <2>4. Min({v, mx}) = IF v <= mx THEN v ELSE mx
    BY <2>3, OfTwo
  <2> QED
    BY <2>3, <2>4
<1> QED
  BY <1>3, <1>4

-----------------------------------------------------------------------------
(* Powers of two and cells *)

\* One more element doubles the subsets of a set.
LEMMA DoublePower ==
  ASSUME NEW n \in Nat
  PROVE  2^(n + 1) = 2 * 2^n
PROOF
<1> DEFINE x == n + 1
           A == SUBSET (1..n)
           B == {X \cup {x} : X \in A}
           f == [X \in A |-> X \cup {x}]
<1>1. IsFiniteSet(1..n) /\ Cardinality(1..n) = n
  BY FS_Interval
<1>2. IsFiniteSet(A) /\ Cardinality(A) = 2^n
  BY <1>1, FS_SUBSET
<1>3. x \in Nat /\ x \notin 1..n /\ 1..x = (1..n) \cup {x}
  OBVIOUS
<1>4. IsFiniteSet(1..x) /\ Cardinality(1..x) = x
  BY <1>3, FS_Interval
<1>5. Cardinality(SUBSET (1..x)) = 2^x
  BY <1>4, FS_SUBSET
<1> HIDE DEF x
<1>6. f \in Bijection(A, B)
  <2>1. \A X \in A : x \notin X
    BY <1>3
  <2>2. \A X, Y \in A : X \cup {x} = Y \cup {x} => X = Y
    BY <2>1
  <2>3. f \in [A -> B] /\ \A b \in B : \E X \in A : f[X] = b
    OBVIOUS
  <2>4. \A X, Y \in A : f[X] = f[Y] => X = Y
    BY <2>2
  <2> HIDE DEF A, B, f
  <2> QED
    BY <2>3, <2>4 DEF Bijection, Injection, Surjection, IsInjective
<1>7. IsFiniteSet(B) /\ Cardinality(B) = Cardinality(A)
  BY <1>2, <1>6, FS_Bijection DEF ExistsBijection
<1>8. SUBSET (1..x) = A \cup B
  <2>1. ASSUME NEW X \in SUBSET (1..x), x \in X PROVE X \in B
    <3>1. X \ {x} \in A /\ X = (X \ {x}) \cup {x}
      BY <1>3, <2>1
    <3> QED
      BY <3>1
  <2>2. ASSUME NEW X \in SUBSET (1..x), x \notin X PROVE X \in A
    BY <1>3, <2>2
  <2>3. A \subseteq SUBSET (1..x) /\ B \subseteq SUBSET (1..x)
    BY <1>3
  <2> HIDE DEF A, B
  <2> QED
    BY <2>1, <2>2, <2>3
<1>9. A \cap B = {}
  BY <1>3
<1> HIDE DEF A, B
<1>10. Cardinality(A \cup B) = Cardinality(A) + Cardinality(B) - 0
  BY <1>2, <1>7, <1>9, FS_Union, FS_EmptySet
<1> DEFINE p == 2^n
           d == 2^x
<1>11. p \in Nat
  BY Powers
<1>12. Cardinality(A) = p /\ Cardinality(B) = p /\ Cardinality(A \cup B) = d
  BY <1>2, <1>5, <1>7, <1>8
<1> HIDE DEF p, d
<1>13. d = 2 * p
  BY <1>10, <1>11, <1>12
<1> QED
  BY <1>13 DEF p, d, x

\* Exponents add up.
LEMMA PowerSum ==
  ASSUME NEW a \in Nat, NEW b \in Nat
  PROVE  2^(a + b) = 2^a * 2^b
PROOF
<1> DEFINE S == {k \in Nat : 2^(a + k) = 2^a * 2^k}
           pa == 2^a
<1>0. pa \in Nat
  BY Powers
<1>1. 0 \in S
  <2>1. 2^0 = 1 /\ a + 0 = a
    OBVIOUS
  <2> HIDE DEF pa
  <2>2. pa * 1 = pa
    BY <1>0
  <2> QED
    BY <2>1, <2>2 DEF pa
<1>2. ASSUME NEW k \in Nat, k \in S PROVE k + 1 \in S
  <2> DEFINE pk == 2^k
  <2>1. 2^(k + 1) = 2 * pk /\ pk \in Nat
    BY DoublePower, Powers
  <2>2. a + k \in Nat /\ a + (k + 1) = (a + k) + 1
    OBVIOUS
  <2>3. 2^(a + (k + 1)) = 2 * 2^(a + k)
    BY <2>2, DoublePower
  <2>4. 2^(a + k) = pa * pk
    BY <1>2
  <2> HIDE DEF pa, pk
  <2>5. 2 * (pa * pk) = pa * (2 * pk)
    BY <1>0, <2>1
  <2>6. 2^(a + (k + 1)) = pa * 2^(k + 1)
    BY <2>1, <2>3, <2>4, <2>5
  <2> QED
    BY <2>6 DEF pa
<1> HIDE DEF S
<1>3. b \in S
  <2>1. \A k \in Nat : k \in S => k + 1 \in S
    BY <1>2
  <2> QED
    BY <1>1, <2>1, SetInduction
<1> QED
  BY <1>3 DEF S

\* Powers grow.
LEMMA PowersGrow ==
  ASSUME NEW a \in Nat, NEW b \in Nat, a <= b
  PROVE  2^a <= 2^b
PROOF
<1> DEFINE d == b - a
           p == 2^a
           q == 2^d
<1>1. d \in Nat /\ a + d = b
  OBVIOUS
<1>2. 2^b = p * q
  <2>1. 2^(a + d) = 2^a * 2^d
    BY <1>1, PowerSum
  <2> QED
    BY <1>1, <2>1
<1> HIDE DEF d
<1>3. p \in Nat /\ q \in Nat /\ q > 0 /\ p > 0
  BY <1>1, Powers
<1> HIDE DEF p, q
<1>4. p * q >= p * 1 /\ p * 1 = p
  BY <1>3
<1> QED
  BY <1>2, <1>3, <1>4 DEF p

\* What a value of the histogram may be.
Values == {v \in Nat : v < 2^Width}

\* A positive value has a leading bit.
LEMMA LeadingBitFacts ==
  ASSUME NEW v \in Values, v > 0
  PROVE  /\ LeadingBit(v) \in Nat /\ LeadingBit(v) <= Width - 1
         /\ 2^LeadingBit(v) <= v /\ v < 2^(LeadingBit(v) + 1)
PROOF
<1> DEFINE E == {e \in Nat : v < 2^(e + 1)}
           e == Min(E)
<1>1. Width \in Nat /\ Width > 0 /\ v \in Nat /\ v < 2^Width
  BY HistogramAssumption DEF Values
<1>2. Width - 1 \in E
  <2>1. Width - 1 \in Nat /\ (Width - 1) + 1 = Width
    BY <1>1
  <2> QED
    BY <1>1, <2>1
<1>3. e \in E /\ \A y \in E : e <= y
  <2>1. E \in SUBSET Nat /\ E # {}
    BY <1>2
  <2> HIDE DEF E
  <2> QED
    BY <2>1, MinOfNaturals
<1> HIDE DEF e
<1>4. e \in Nat /\ v < 2^(e + 1) /\ e <= Width - 1
  BY <1>1, <1>2, <1>3
<1>5. 2^e <= v
  <2>1. CASE e = 0
    <3>1. 2^0 = 1
      OBVIOUS
    <3> QED
      BY <1>1, <2>1, <3>1
  <2>2. CASE e # 0
    <3>1. e - 1 \in Nat /\ (e - 1) + 1 = e /\ ~(e <= e - 1)
      BY <1>4, <2>2
    <3>2. e - 1 \notin E
      BY <1>3, <3>1
    <3>3. ~(v < 2^e)
      BY <3>1, <3>2
    <3>4. 2^e \in Nat
      BY <1>4, Powers
    <3> QED
      BY <1>1, <3>3, <3>4
  <2> QED
    BY <2>1, <2>2
<1>6. e \in 0..(Width - 1)
  BY <1>1, <1>4
<1>7. \E x \in 0..(Width - 1) : 2^x <= v /\ v < 2^(x + 1)
  BY <1>4, <1>5, <1>6
<1>8. /\ LeadingBit(v) \in 0..(Width - 1)
      /\ 2^LeadingBit(v) <= v /\ v < 2^(LeadingBit(v) + 1)
  BY <1>7, Zenon DEF LeadingBit
<1> QED
  BY <1>1, <1>8

\* Quotient and remainder by what is known of a number.
LEMMA DivUnique ==
  ASSUME NEW a \in Int, NEW d \in Nat, d > 0, NEW k \in Int, NEW r \in Nat, r < d,
         a = d * k + r
  PROVE  a \div d = k /\ a % d = r
PROOF
<1> DEFINE q == a \div d
           m == a % d
<1>1. q \in Int /\ m \in Nat /\ m < d /\ a = d * q + m
  OBVIOUS
<1> HIDE DEF q, m
<1>2. q = k
  <2>1. CASE q >= k + 1
    <3>1. d * q >= d * (k + 1) /\ d * (k + 1) = d * k + d
      BY <1>1, <2>1
    <3> DEFINE x == d * q
               y == d * k
    <3>2. x \in Int /\ y \in Int
      BY <1>1
    <3> HIDE DEF x, y
    <3> QED
      BY <1>1, <3>1, <3>2 DEF x, y
  <2>2. CASE k >= q + 1
    <3>1. d * k >= d * (q + 1) /\ d * (q + 1) = d * q + d
      BY <1>1, <2>2
    <3> DEFINE x == d * q
               y == d * k
    <3>2. x \in Int /\ y \in Int
      BY <1>1
    <3> HIDE DEF x, y
    <3> QED
      BY <1>1, <3>1, <3>2 DEF x, y
  <2> QED
    BY <1>1, <2>1, <2>2
<1>3. m = r
  <2> DEFINE y == d * k
  <2>1. y \in Int /\ a = y + m /\ a = y + r
    BY <1>1, <1>2
  <2> HIDE DEF y
  <2> QED
    BY <1>1, <2>1
<1> QED
  BY <1>2, <1>3 DEF q, m

\* Where a value above the first cells is counted: o doublings of the unit, and
\* the q-th of them.
InCell(v, o, q) ==
  /\ o \in Nat /\ q \in Nat /\ o + 2 <= Width
  /\ SubCount <= q /\ q < 2 * SubCount
  /\ q * 2^o <= v /\ v < q * 2^o + 2^o
  /\ IndexFor(v) = SubCount * o + q

\* Every such value has its cell.
LEMMA CellFacts ==
  ASSUME NEW v \in Values, v >= SubCount
  PROVE  \E o, q : InCell(v, o, q)
PROOF
<1> DEFINE e == LeadingBit(v)
           o == e - SubBits
           p == 2^o
           q == v \div p
           C == SubCount
<1>1. /\ Width \in Nat /\ SubBits \in Nat /\ SubBits >= 1 /\ v \in Nat
      /\ C \in Nat /\ C > 0 /\ v > 0
  BY HistogramAssumption, CellsAreNaturals DEF Values
<1>2. /\ e \in Nat /\ e <= Width - 1 /\ 2^e <= v /\ v < 2^(e + 1)
  BY <1>1, LeadingBitFacts
<1> HIDE DEF e
<1>3. e >= SubBits
  <2> SUFFICES ASSUME ~(e >= SubBits) PROVE FALSE
    OBVIOUS
  <2>1. e + 1 \in Nat /\ e + 1 <= SubBits
    BY <1>1, <1>2
  <2>2. 2^(e + 1) <= C /\ 2^(e + 1) \in Nat
    BY <1>1, <2>1, PowersGrow, Powers DEF SubCount
  <2> DEFINE z == 2^(e + 1)
  <2>3. z <= C /\ z \in Nat /\ v < z
    BY <1>2, <2>2
  <2> HIDE DEF z, C
  <2> QED
    BY <1>1, <2>3 DEF C
<1>4. o \in Nat /\ o + 2 <= Width /\ SubBits + o = e
  BY <1>1, <1>2, <1>3
<1>5. p \in Nat /\ p > 0
  BY <1>4, Powers
<1>6. 2^e = C * p
  BY <1>1, <1>4, PowerSum DEF SubCount
<1>7. 2^(e + 1) = 2 * (C * p)
  BY <1>2, <1>6, DoublePower
<1> HIDE DEF p
<1> DEFINE m == v % p
<1>8. q \in Nat /\ m \in Nat /\ m < p /\ v = p * q + m
  BY <1>1, <1>5
<1>9. IndexFor(v) = Min({C * (o + 1) + (q - C), NumCells - 1})
  BY <1>1 DEF IndexFor, e, o, p
<1> HIDE DEF m, q, C, o
<1>10. p * q \in Nat /\ p * C \in Nat /\ C * p = p * C /\ q * p = p * q
  BY <1>1, <1>5, <1>8
<1>11. q >= C
  <2> SUFFICES ASSUME q + 1 <= C PROVE FALSE
    BY <1>1, <1>8
  <2>1. p * (q + 1) <= p * C /\ p * (q + 1) = p * q + p
    BY <1>1, <1>5, <1>8
  <2> DEFINE x == p * q
             y == p * C
  <2>2. x \in Nat /\ y \in Nat /\ v = x + m /\ y <= v /\ x + p <= y
    BY <1>2, <1>6, <1>8, <1>10, <2>1
  <2> HIDE DEF x, y
  <2> QED
    BY <1>5, <1>8, <2>2
<1>12. q < 2 * C
  <2> SUFFICES ASSUME q >= C + C PROVE FALSE
    BY <1>1, <1>8
  <2>1. p * q >= p * (C + C) /\ p * (C + C) = p * C + p * C
    BY <1>1, <1>5, <1>8
  <2> DEFINE x == p * q
             y == p * C
  <2>2. x \in Nat /\ y \in Nat /\ v = x + m /\ v < 2 * y /\ x >= y + y
    BY <1>2, <1>7, <1>8, <1>10, <2>1
  <2> HIDE DEF x, y
  <2> QED
    BY <1>5, <1>8, <2>2
<1>13. IndexFor(v) = C * o + q
  <2> DEFINE i == C * o
             n == C * Width
  <2>1. C * (o + 1) = i + C /\ i \in Nat /\ n \in Nat
    BY <1>1, <1>4
  <2>2. C * (o + 2) <= C * Width /\ C * (o + 2) = i + 2 * C
    BY <1>1, <1>4
  <2>3. NumCells = n
    BY <1>1 DEF NumCells, C
  <2> HIDE DEF i, n
  <2>4. i + q \in Int /\ n - 1 \in Int /\ i + q <= n - 1
    BY <1>1, <1>8, <1>12, <2>1, <2>2 DEF n
  <2>5. C * (o + 1) + (q - C) = i + q
    BY <1>1, <1>8, <2>1
  <2>6. IndexFor(v) = Min({i + q, n - 1})
    BY <1>9, <2>3, <2>5
  <2> QED
    BY <2>4, <2>6, OfTwo DEF i
<1>14. q * p <= v /\ v < q * p + p
  <2> DEFINE x == p * q
  <2>1. x \in Nat /\ v = x + m /\ q * p = x
    BY <1>8, <1>10
  <2> HIDE DEF x
  <2> QED
    BY <1>5, <1>8, <2>1
<1>15. InCell(v, o, q)
  BY <1>4, <1>8, <1>11, <1>12, <1>13, <1>14 DEF InCell, p, C
<1> QED
  BY <1>15

\* A value is counted in a cell of the table.
LEMMA IndexType ==
  ASSUME NEW v \in Values
  PROVE  IndexFor(v) \in Cells /\ (v >= SubCount => IndexFor(v) >= SubCount)
PROOF
<1> DEFINE C == SubCount
           n == C * Width
<1>1. C \in Nat /\ C > 0 /\ v \in Nat /\ Width \in Nat /\ Width >= 1
  BY CellsAreNaturals, HistogramAssumption DEF Values
<1>2. NumCells = n /\ n \in Nat /\ C * 1 <= n /\ C * 1 = C
  BY <1>1 DEF NumCells
<1>3. CASE v < C
  <2>1. IndexFor(v) = v
    BY <1>3 DEF IndexFor
  <2> HIDE DEF C, n
  <2> QED
    BY <1>1, <1>2, <1>3, <2>1 DEF Cells, C
<1>4. CASE v >= C
  <2>1. PICK o, q : InCell(v, o, q)
    BY <1>4, CellFacts
  <2>2. /\ o \in Nat /\ q \in Nat /\ o + 2 <= Width /\ C <= q /\ q < 2 * C
        /\ IndexFor(v) = C * o + q
    BY <2>1 DEF InCell
  <2> HIDE DEF C
  <2> DEFINE i == C * o
  <2>3. i \in Nat /\ C * (o + 2) <= C * Width /\ C * (o + 2) = i + 2 * C
    BY <1>1, <2>2
  <2>4. IndexFor(v) = i + q /\ i + 2 * C <= n
    BY <2>2, <2>3
  <2> HIDE DEF i, n
  <2> QED
    BY <1>1, <1>2, <2>2, <2>3, <2>4 DEF Cells, C
<1> QED
  BY <1>1, <1>3, <1>4

\* A greater value is not counted in an earlier cell.
LEMMA IndexMonotone ==
  ASSUME NEW v \in Values, NEW w \in Values, v <= w
  PROVE  IndexFor(v) <= IndexFor(w)
PROOF
<1> DEFINE C == SubCount
<1>1. C \in Nat /\ C > 0 /\ v \in Nat /\ w \in Nat
  BY CellsAreNaturals DEF Values
<1>2. CASE w < C
  BY <1>1, <1>2 DEF IndexFor
<1>3. CASE v < C /\ w >= C
  <2>1. IndexFor(v) = v /\ IndexFor(w) >= C /\ IndexFor(w) \in Nat
    BY <1>3, IndexType, CellsAreNaturals DEF IndexFor
  <2> HIDE DEF C
  <2> QED
    BY <1>1, <1>3, <2>1
<1>4. CASE v >= C
  <2>1. w >= C
    <3> HIDE DEF C
    <3> QED
      BY <1>1, <1>4
  <2>2. PICK o, q : InCell(v, o, q)
    BY <1>4, CellFacts
  <2>3. PICK a, b : InCell(w, a, b)
    BY <2>1, CellFacts
  <2> DEFINE p == 2^o
             r == 2^a
  <2>4. /\ o \in Nat /\ q \in Nat /\ C <= q /\ q < 2 * C
        /\ q * p <= v /\ v < q * p + p /\ IndexFor(v) = C * o + q
    BY <2>2 DEF InCell
  <2>5. /\ a \in Nat /\ b \in Nat /\ C <= b /\ b < 2 * C
        /\ b * r <= w /\ w < b * r + r /\ IndexFor(w) = C * a + b
    BY <2>3 DEF InCell
  <2>6. p \in Nat /\ r \in Nat /\ p > 0 /\ r > 0
    BY <2>4, <2>5, Powers
  <2>7. a + 1 <= o => 2 * r <= p
    <3> SUFFICES ASSUME a + 1 <= o PROVE 2 * r <= p
      OBVIOUS
    <3>1. 2^(a + 1) <= 2^o /\ 2^(a + 1) = 2 * 2^a
      BY <2>4, <2>5, PowersGrow, DoublePower
    <3> QED
      BY <3>1
  <2>8. o = a => p = r
    OBVIOUS
  <2> HIDE DEF C, p, r
  <2>9. CASE o = a
    <3>1. q <= b
      <4> SUFFICES ASSUME b + 1 <= q PROVE FALSE
        BY <2>4, <2>5
      <4>1. (b + 1) * p <= q * p /\ (b + 1) * p = b * p + p
        BY <2>4, <2>5, <2>6
      <4> DEFINE x == b * p
                 y == q * p
      <4>2. x \in Nat /\ y \in Nat /\ x + p <= y /\ y <= v /\ w < x + p
        BY <2>4, <2>5, <2>6, <2>8, <2>9, <4>1
      <4> HIDE DEF x, y
      <4> QED
        BY <1>1, <2>6, <4>2
    <3> DEFINE i == C * o
    <3>2. i \in Nat /\ IndexFor(v) = i + q /\ IndexFor(w) = i + b
      BY <1>1, <2>4, <2>5, <2>9
    <3> HIDE DEF i
    <3> QED
      BY <2>4, <2>5, <3>1, <3>2
  <2>10. CASE o + 1 <= a
    <3> DEFINE i == C * o
               j == C * a
    <3>1. i \in Nat /\ j \in Nat /\ C * (o + 1) <= C * a /\ C * (o + 1) = i + C
      BY <1>1, <2>4, <2>5, <2>10
    <3>2. IndexFor(v) = i + q /\ IndexFor(w) = j + b /\ i + C <= j
      BY <2>4, <2>5, <3>1
    <3> HIDE DEF i, j
    <3> QED
      BY <1>1, <2>4, <2>5, <3>1, <3>2
  <2>11. CASE a + 1 <= o
    <3>1. C * (2 * r) <= C * p /\ C * p <= q * p /\ (b + 1) * r <= (2 * C) * r
      BY <1>1, <2>4, <2>5, <2>6, <2>7, <2>11
    <3>2. /\ C * (2 * r) = 2 * (C * r) /\ (2 * C) * r = 2 * (C * r)
          /\ (b + 1) * r = b * r + r
      BY <1>1, <2>5, <2>6
    <3> DEFINE x == C * r
               y == C * p
               z == q * p
               t == b * r
    <3>3. x \in Nat /\ y \in Nat /\ z \in Nat /\ t \in Nat
      BY <1>1, <2>4, <2>5, <2>6
    <3>4. 2 * x <= y /\ y <= z /\ t + r <= 2 * x /\ z <= v /\ w < t + r
      BY <2>4, <2>5, <3>1, <3>2
    <3> HIDE DEF x, y, z, t
    <3> QED
      BY <1>1, <2>6, <3>3, <3>4
  <2> QED
    BY <2>4, <2>5, <2>9, <2>10, <2>11
<1> QED
  BY <1>1, <1>2, <1>3, <1>4

\* The middle of its cell is within half a cell of a value.
LEMMA ValueAccurate ==
  ASSUME NEW v \in Values
  PROVE  Magnitude(ValueAt(IndexFor(v)) - v) * 2 * SubCount <= v
PROOF
<1> DEFINE C == SubCount
<1>1. C \in Nat /\ C > 0 /\ v \in Nat
  BY CellsAreNaturals DEF Values
<1>2. CASE v < C
  <2>1. IndexFor(v) = v
    BY <1>2 DEF IndexFor
  <2>2. ValueAt(IndexFor(v)) = v
    BY <1>2, <2>1 DEF ValueAt
  <2>3. Magnitude(ValueAt(IndexFor(v)) - v) = 0
    BY <1>1, <2>2 DEF Magnitude
  <2> HIDE DEF C
  <2>4. 0 * 2 * C = 0
    BY <1>1
  <2> QED
    BY <1>1, <2>3, <2>4 DEF C
<1>3. CASE v >= C
  <2>1. PICK o, q : InCell(v, o, q)
    BY <1>3, CellFacts
  <2> DEFINE p == 2^o
             h == p \div 2
             idx == IndexFor(v)
             x == q * p
             i == C * o
  <2>2. /\ o \in Nat /\ q \in Nat /\ C <= q /\ q < 2 * C
        /\ x <= v /\ v < x + p /\ idx = i + q
    BY <2>1 DEF InCell
  <2>3. p \in Nat /\ p > 0 /\ x \in Nat /\ i \in Nat
    <3>1. p \in Nat /\ p > 0
      BY <2>2, Powers
    <3> HIDE DEF p, C
    <3> QED
      BY <1>1, <2>2, <3>1
  <2>4. idx \in Nat /\ ~(idx < C) /\ idx - C = C * o + (q - C)
    <3> HIDE DEF C, i, idx
    <3> QED
      BY <1>1, <2>2, <2>3 DEF i
  <2>5. (idx - C) \div C = o /\ (idx - C) % C = q - C
    <3>1. idx - C \in Int /\ q - C \in Nat /\ q - C < C
      BY <1>1, <2>2, <2>4
    <3> DEFINE d == idx - C
               u == q - C
    <3>2. d \in Int /\ u \in Nat /\ u < C /\ d = C * o + u
      BY <2>4, <3>1
    <3> HIDE DEF d, u, C
    <3> QED
      BY <1>1, <2>2, <3>2, DivUnique DEF d, u
  <2>6. ValueAt(idx) = (C + (q - C)) * p + h
    BY <2>4, <2>5 DEF ValueAt
  <2>7. C + (q - C) = q
    <3> HIDE DEF C
    <3> QED
      BY <1>1, <2>2
  <2>8. ValueAt(idx) = x + h
    BY <2>6, <2>7
  <2> HIDE DEF p, idx
  <2>9. h \in Nat /\ 2 * h <= p /\ p <= 2 * h + 1
    BY <2>3
  <2> DEFINE d == Magnitude(ValueAt(idx) - v)
             y == C * p
             z == C * h
             t == d * C
  <2>10. d \in Nat /\ d <= h
    <3> HIDE DEF x, h
    <3> QED
      BY <1>1, <2>2, <2>3, <2>8, <2>9 DEF Magnitude
  <2> HIDE DEF h, C, d
  <2>11. t <= z /\ t \in Nat /\ z \in Nat /\ C * h = h * C
    BY <1>1, <2>9, <2>10
  <2>12. C * (2 * h) <= C * p /\ C * (2 * h) = 2 * z /\ y \in Nat
    BY <1>1, <2>3, <2>9
  <2>13. y <= x
    BY <1>1, <2>2, <2>3
  <2>14. d * 2 * C = 2 * t
    BY <1>1, <2>10
  <2> HIDE DEF x, y, z, t
  <2>15. 2 * t <= v
    BY <1>1, <2>2, <2>3, <2>11, <2>12, <2>13 DEF y
  <2> QED
    BY <2>14, <2>15 DEF d, C, idx
<1> QED
  BY <1>1, <1>2, <1>3

-----------------------------------------------------------------------------
(* Ranks *)

\* How many records the cells up to a cell hold, and how many are at or below a
\* value.
Held(i) == {k \in 1..Len(records) : IndexFor(records[k]) <= i}
AtOrBelow(v) == {k \in 1..Len(records) : records[k] <= v}

\* A part of the records can be counted.
LEMMA RecordsFinite ==
  ASSUME records \in Seq(Values), NEW K \in SUBSET (1..Len(records))
  PROVE  /\ IsFiniteSet(K) /\ Cardinality(K) \in Nat
         /\ \A L \in SUBSET K : IsFiniteSet(L) /\ Cardinality(L) <= Cardinality(K)
         /\ Cardinality(1..Len(records)) = Len(records)
PROOF
<1>1. Len(records) \in Nat
  OBVIOUS
<1>2. /\ IsFiniteSet(1..Len(records))
      /\ Cardinality(1..Len(records)) = Len(records)
  <2> DEFINE n == Len(records)
  <2> HIDE DEF n
  <2>1. IsFiniteSet(1..n) /\ Cardinality(1..n) = IF 1 > n THEN 0 ELSE n - 1 + 1
    BY <1>1, FS_Interval DEF n
  <2> QED
    BY <1>1, <2>1 DEF n
<1>3. IsFiniteSet(K)
  BY <1>2, FS_Subset
<1> QED
  BY <1>2, <1>3, FS_Subset, FS_CardinalityType

\* Every cell adds its own count.
LEMMA HeldStep ==
  ASSUME records \in Seq(Values), NEW i \in Cells
  PROVE  /\ CountIn(i) \in Nat /\ Cardinality(Held(i)) \in Nat
         /\ i = 0 => Cardinality(Held(i)) = CountIn(i)
         /\ i # 0 => Cardinality(Held(i)) = Cardinality(Held(i - 1)) + CountIn(i)
PROOF
<1> DEFINE K == {k \in 1..Len(records) : IndexFor(records[k]) = i}
<1>1. i \in Nat
  BY CellsAreNaturals
<1>2. ASSUME NEW k \in 1..Len(records) PROVE IndexFor(records[k]) \in Nat
  <2> DEFINE v == records[k]
  <2>1. v \in Values
    OBVIOUS
  <2> HIDE DEF v
  <2>2. IndexFor(v) \in Nat
    BY <2>1, IndexType, CellsAreNaturals
  <2> QED
    BY <2>2 DEF v
<1>3. CountIn(i) = Cardinality(K)
  BY DEF CountIn
<1>4. K \in SUBSET (1..Len(records)) /\ Held(i) \in SUBSET (1..Len(records))
  BY DEF Held
<1>5. CountIn(i) \in Nat /\ Cardinality(Held(i)) \in Nat
  BY <1>3, <1>4, RecordsFinite
<1>6. i = 0 => Held(i) = K
  BY <1>1, <1>2 DEF Held
<1>7. ASSUME i # 0
      PROVE  Cardinality(Held(i)) = Cardinality(Held(i - 1)) + CountIn(i)
  <2> DEFINE H == Held(i - 1)
  <2>1. Held(i) = H \cup K /\ H \cap K = {} /\ H \in SUBSET (1..Len(records))
    BY <1>1, <1>2, <1>7 DEF Held
  <2> HIDE DEF H, K
  <2>2. IsFiniteSet(H) /\ IsFiniteSet(K) /\ Cardinality(H) \in Nat
    BY <1>4, <2>1, RecordsFinite
  <2>3. Cardinality(H \cup K) = Cardinality(H) + Cardinality(K) - 0
    BY <2>1, <2>2, FS_Union, FS_EmptySet
  <2> QED
    BY <1>3, <1>5, <2>1, <2>2, <2>3 DEF H
<1> QED
  BY <1>3, <1>5, <1>6, <1>7

\* cum of the walk of percentileNs() counts the records of the cells so far.
LEMMA CumulatedCounts ==
  ASSUME records \in Seq(Values), NEW i \in Cells
  PROVE  Cumulated([c \in Cells |-> CountIn(c)])[i] = Cardinality(Held(i))
PROOF
<1> DEFINE counts == [c \in Cells |-> CountIn(c)]
           G(h) == [j \in Cells |-> IF j = 0 THEN counts[0] ELSE h[j - 1] + counts[j]]
           g == [j \in Cells |-> Cardinality(Held(j))]
           cum == CHOOSE h : h = G(h)
<1>1. Cumulated(counts) = cum
  BY Zenon DEF Cumulated
<1>2. 0 \in Cells /\ \A j \in Cells : j # 0 => j - 1 \in Cells
  <2>1. NumCells \in Nat /\ NumCells > 0
    <3>1. SubCount \in Nat /\ SubCount > 0 /\ Width \in Nat /\ Width > 0
      BY CellsAreNaturals, HistogramAssumption
    <3> QED
      BY <3>1 DEF NumCells
  <2> QED
    BY <2>1 DEF Cells
<1>3. g = G(g)
  <2>1. ASSUME NEW j \in Cells
        PROVE  g[j] = IF j = 0 THEN counts[0] ELSE g[j - 1] + counts[j]
    <3>1. /\ j = 0 => Cardinality(Held(j)) = CountIn(j)
          /\ j # 0 => Cardinality(Held(j)) = Cardinality(Held(j - 1)) + CountIn(j)
      BY HeldStep
    <3> QED
      BY <1>2, <3>1
  <2>2. g = [j \in Cells |-> g[j]]
    OBVIOUS
  <2> HIDE DEF g, counts
  <2> QED
    BY <2>1, <2>2
<1> HIDE DEF counts
<1>4. cum = G(cum)
  <2> HIDE DEF g, G
  <2>1. \E h : h = G(h)
    BY <1>3
  <2> QED
    BY <2>1, Zenon
<1> HIDE DEF cum
<1>5. \A j \in Cells : cum[j] = IF j = 0 THEN counts[0] ELSE cum[j - 1] + counts[j]
  BY <1>4
<1>6. \A j \in Cells : counts[j] = CountIn(j)
  BY DEF counts
<1> DEFINE S == {j \in Nat : j \in Cells => cum[j] = Cardinality(Held(j))}
<1>7. 0 \in S
  BY <1>2, <1>5, <1>6, HeldStep
<1>8. ASSUME NEW j \in Nat, j \in S PROVE j + 1 \in S
  <2> SUFFICES ASSUME j + 1 \in Cells PROVE cum[j + 1] = Cardinality(Held(j + 1))
    OBVIOUS
  <2> DEFINE n == j + 1
  <2>1. n # 0 /\ n - 1 = j /\ n \in Cells
    OBVIOUS
  <2>2. j \in Cells
    BY <1>2, <2>1
  <2> HIDE DEF n
  <2>3. cum[n] = cum[j] + CountIn(n)
    BY <1>5, <1>6, <2>1
  <2>4. Cardinality(Held(n)) = Cardinality(Held(j)) + CountIn(n)
    BY <2>1, HeldStep
  <2>5. cum[n] = Cardinality(Held(n))
    BY <1>8, <2>2, <2>3, <2>4
  <2> QED
    BY <2>5 DEF n
<1>9. i \in S
  <2>1. \A j \in Nat : j \in S => j + 1 \in S
    BY <1>8
  <2> HIDE DEF S
  <2>2. Nat \subseteq S
    BY <1>7, <2>1, SetInduction
  <2> QED
    BY <2>2, CellsAreNaturals
<1> QED
  BY <1>1, <1>9 DEF counts

\* A bounded set of naturals that is not empty has a greatest element.
LEMMA GreatestOfNaturals ==
  ASSUME NEW S \in SUBSET Nat, S # {}, NEW b \in Nat, \A y \in S : y <= b
  PROVE  \E x \in S : \A y \in S : y <= x
PROOF
<1> DEFINE U == {u \in Nat : \A y \in S : y <= u}
           x == Min(U)
<1>1. U \in SUBSET Nat /\ b \in U
  OBVIOUS
<1>2. x \in U /\ \A u \in U : x <= u
  <2> HIDE DEF U
  <2> QED
    BY <1>1, MinOfNaturals
<1> HIDE DEF x
<1>3. x \in Nat /\ \A y \in S : y <= x
  BY <1>2
<1>4. x \in S
  <2> SUFFICES ASSUME x \notin S PROVE FALSE
    OBVIOUS
  <2>1. \A y \in S : y \in Nat /\ y < x
    BY <1>3
  <2>2. x # 0
    <3>1. PICK y \in S : TRUE
      OBVIOUS
    <3> QED
      BY <2>1, <3>1
  <2>3. x - 1 \in U
    BY <1>3, <2>1, <2>2
  <2> QED
    BY <1>2, <1>3, <2>3
<1> QED
  BY <1>3, <1>4

Permilles == 0..1000

\* The rank looked for is one of the records'.
LEMMA TargetFacts ==
  ASSUME NEW n \in Nat \ {0}, NEW permille \in Permilles
  PROVE  Target(n, permille) \in 1..n
PROOF
<1> DEFINE a == permille * n
           t == a \div 1000
<1>1. a \in Nat /\ a <= 1000 * n
  BY DEF Permilles
<1> HIDE DEF a
<1>2. t \in Nat /\ t <= n
  BY <1>1
<1>3. Target(n, permille) = Max({1, t})
  BY DEF Target, a
<1> HIDE DEF t
<1>4. Max({1, t}) = IF 1 >= t THEN 1 ELSE t
  BY <1>2, OfTwo
<1> QED
  BY <1>2, <1>3, <1>4

\* The value of a rank is a record with that many at or below it, the least one.
LEMMA RankedFacts ==
  ASSUME records \in Seq(Values), NEW rank \in 1..Len(records)
  PROVE  LET v == RankedValue(rank)
         IN /\ \E i \in 1..Len(records) : records[i] = v
            /\ Cardinality(AtOrBelow(v)) >= rank
            /\ \A i \in 1..Len(records) :
                 Cardinality(AtOrBelow(records[i])) >= rank => v <= records[i]
PROOF
<1> DEFINE n == Len(records)
           J == {j \in 1..n : Cardinality(AtOrBelow(records[j])) >= rank}
           R == {records[i] : i \in J}
<1>1. n \in Nat /\ n >= 1 /\ \A i \in 1..n : records[i] \in Nat
  BY DEF Values
<1>2. RankedValue(rank) = Min(R)
  BY DEF RankedValue, AtOrBelow
<1>3. J # {}
  <2> DEFINE A == {records[i] : i \in 1..n}
  <2>1. A \in SUBSET Nat /\ records[1] \in A
    BY <1>1
  <2>2. 2^Width \in Nat /\ \A y \in A : y <= 2^Width
    BY <1>1, Powers, HistogramAssumption DEF Values
  <2>3. PICK x \in A : \A y \in A : y <= x
    <3> DEFINE b == 2^Width
    <3> HIDE DEF A, b
    <3> QED
      BY <2>1, <2>2, GreatestOfNaturals DEF b
  <2>4. PICK j \in 1..n : x = records[j]
    BY <2>3
  <2>5. AtOrBelow(records[j]) = 1..n
    BY <2>3, <2>4 DEF AtOrBelow
  <2>6. Cardinality(1..n) = n
    BY RecordsFinite
  <2>7. j \in J
    BY <1>1, <2>5, <2>6
  <2> QED
    BY <2>7
<1>4. R \in SUBSET Nat /\ R # {}
  BY <1>1, <1>3
<1>5. Min(R) \in R /\ \A y \in R : Min(R) <= y
  <2> HIDE DEF R
  <2> QED
    BY <1>4, MinOfNaturals
<1>6. PICK i \in J : Min(R) = records[i]
  BY <1>5
<1>7. \A j \in J : Min(R) <= records[j]
  BY <1>5
<1> QED
  BY <1>2, <1>6, <1>7

\* The walk of percentileNs() stops at the cell of the value of the rank it looks
\* for: no earlier cell has held as many records.
LEMMA FirstReached ==
  ASSUME records \in Seq(Values), NEW rank \in 1..Len(records)
  PROVE  LET cell == IndexFor(RankedValue(rank))
             reached == {i \in Cells : Cardinality(Held(i)) >= rank}
         IN cell \in reached /\ \A i \in reached : cell <= i
PROOF
<1> DEFINE n == Len(records)
           v == RankedValue(rank)
           cell == IndexFor(v)
<1>1. /\ n \in Nat /\ rank \in Nat /\ rank >= 1
      /\ \A k \in 1..n : records[k] \in Values /\ records[k] \in Nat
  BY DEF Values
<1>2. PICK j \in 1..n : records[j] = v
  BY RankedFacts
<1>3. /\ Cardinality(AtOrBelow(v)) >= rank
      /\ \A k \in 1..n : Cardinality(AtOrBelow(records[k])) >= rank => v <= records[k]
  BY RankedFacts
<1>4. v \in Values /\ v \in Nat
  BY <1>1, <1>2
<1> HIDE DEF v
<1>5. cell \in Cells /\ cell \in Nat
  BY <1>4, IndexType, CellsAreNaturals
<1>6. \A k \in 1..n : /\ IndexFor(records[k]) \in Nat
                      /\ records[k] <= v => IndexFor(records[k]) <= cell
                      /\ v <= records[k] => cell <= IndexFor(records[k])
  <2> SUFFICES ASSUME NEW k \in 1..n
               PROVE  /\ IndexFor(records[k]) \in Nat
                      /\ records[k] <= v => IndexFor(records[k]) <= cell
                      /\ v <= records[k] => cell <= IndexFor(records[k])
    OBVIOUS
  <2> DEFINE w == records[k]
  <2>1. w \in Values
    BY <1>1
  <2> HIDE DEF w
  <2>2. /\ IndexFor(w) \in Nat
        /\ w <= v => IndexFor(w) <= cell
        /\ v <= w => cell <= IndexFor(w)
    BY <1>4, <2>1, IndexType, IndexMonotone, CellsAreNaturals
  <2> QED
    BY <2>2 DEF w
<1>7. Cardinality(Held(cell)) >= rank
  <2>1. AtOrBelow(v) \subseteq Held(cell) /\ Held(cell) \in SUBSET (1..n)
    BY <1>6 DEF AtOrBelow, Held
  <2>2. /\ Cardinality(AtOrBelow(v)) <= Cardinality(Held(cell))
        /\ Cardinality(Held(cell)) \in Nat /\ Cardinality(AtOrBelow(v)) \in Nat
    <3>1. AtOrBelow(v) \in SUBSET (1..n)
      BY DEF AtOrBelow
    <3> QED
      BY <2>1, <3>1, RecordsFinite
  <2> QED
    BY <1>1, <1>3, <2>2
<1>8. ASSUME NEW i \in Cells, Cardinality(Held(i)) >= rank
      PROVE  cell <= i
  <2> DEFINE H == Held(i)
             A == {records[k] : k \in H}
  <2>1. H \in SUBSET (1..n) /\ \A k \in H : IndexFor(records[k]) <= i
    BY DEF Held
  <2>2. H # {}
    <3>1. Cardinality({}) = 0
      BY FS_EmptySet
    <3> SUFFICES ASSUME H = {} PROVE FALSE
      OBVIOUS
    <3>2. 0 >= rank
      BY <1>8, <3>1, Zenon
    <3> QED
      BY <1>1, <3>2
  <2>3. i \in Nat
    BY CellsAreNaturals
  <2> HIDE DEF H
  <2>4. PICK x \in A : \A y \in A : y <= x
    <3>1. A \in SUBSET Nat /\ A # {}
      BY <1>1, <2>1, <2>2
    <3>2. 2^Width \in Nat /\ \A y \in A : y <= 2^Width
      BY <1>1, <2>1, Powers, HistogramAssumption DEF Values
    <3> DEFINE b == 2^Width
    <3> HIDE DEF A, b
    <3> QED
      BY <3>1, <3>2, GreatestOfNaturals DEF b
  <2>5. PICK k \in H : x = records[k]
    BY <2>4
  <2>6. H \subseteq AtOrBelow(records[k]) /\ AtOrBelow(records[k]) \in SUBSET (1..n)
    BY <2>1, <2>4, <2>5 DEF AtOrBelow
  <2>7. /\ Cardinality(H) <= Cardinality(AtOrBelow(records[k]))
        /\ Cardinality(H) \in Nat /\ Cardinality(AtOrBelow(records[k])) \in Nat
    BY <2>1, <2>6, RecordsFinite
  <2>8. Cardinality(AtOrBelow(records[k])) >= rank
    BY <1>1, <1>8, <2>7 DEF H
  <2>9. k \in 1..n /\ v <= records[k]
    BY <1>3, <2>1, <2>8
  <2>10. cell <= IndexFor(records[k]) /\ IndexFor(records[k]) <= i
    BY <1>6, <2>1, <2>9
  <2> HIDE DEF cell
  <2>11. IndexFor(records[k]) \in Nat
    BY <1>6, <2>9
  <2> QED
    BY <1>5, <2>3, <2>10, <2>11
<1> QED
  BY <1>5, <1>7, <1>8 DEF v

\* The recorded value that a percentile stands for, what percentileNs() answers of
\* a histogram at rest, and how near it must be.
Exact(permille) == RankedValue(Target(Len(records), permille))
AtRest(permille) ==
  Percentile(Len(records), MaxAfter(Len(records)), [c \in Cells |-> CountIn(c)], permille)
Near(p, exact) == Magnitude(p - exact) * 2 * SubCount <= exact

\* percentileNs() on a histogram at rest is within half a cell of the record of
\* the rank it looks for.
LEMMA PercentileAccurate ==
  ASSUME records \in Seq(Values), records # << >>, NEW permille \in Permilles
  PROVE  Near(AtRest(permille), Exact(permille))
PROOF
<1> DEFINE n == Len(records)
           rank == Target(n, permille)
           exact == RankedValue(rank)
           mx == MaxAfter(n)
           counts == [c \in Cells |-> CountIn(c)]
           p == Percentile(n, mx, counts, permille)
           reached == {i \in Cells : Cumulated(counts)[i] >= rank}
           cell == IndexFor(exact)
           v == ValueAt(cell)
           C == SubCount
<1>1. n \in Nat \ {0}
  OBVIOUS
<1>2. rank \in 1..n
  <2> HIDE DEF n
  <2> QED
    BY <1>1, TargetFacts, Zenon
<1>3. reached = {i \in Cells : Cardinality(Held(i)) >= rank}
  <2>1. \A i \in Cells : Cumulated(counts)[i] = Cardinality(Held(i))
    BY CumulatedCounts
  <2> HIDE DEF counts, rank
  <2> QED
    BY <2>1
<1>4. p = IF n = 0 THEN 0
          ELSE IF reached = {} THEN mx
          ELSE Min({ValueAt(Min(reached)), mx})
  BY DEF Percentile
<1> HIDE DEF rank, n, p, counts
<1>5. cell \in reached /\ \A i \in reached : cell <= i
  <2> HIDE DEF reached
  <2> QED
    BY <1>2, <1>3, FirstReached DEF n
<1>6. reached \in SUBSET Nat /\ reached \subseteq Cells
  BY CellsAreNaturals
<1> HIDE DEF reached, cell
<1>7. Min(reached) = cell
  <2>1. Min(reached) \in reached /\ \A y \in reached : Min(reached) <= y
    BY <1>5, <1>6, MinOfNaturals
  <2>2. Min(reached) <= cell /\ cell <= Min(reached) /\ cell \in Nat /\ Min(reached) \in Nat
    BY <1>5, <1>6, <2>1
  <2> QED
    BY <2>2
<1>8. p = Min({v, mx}) /\ v \in Nat
  <2>1. reached # {} /\ n # 0 /\ cell \in Cells
    BY <1>1, <1>5, <1>6
  <2> QED
    BY <1>4, <1>7, <2>1, ValueAtType
<1>9. exact \in Values /\ exact \in Nat /\ mx \in Nat /\ exact <= mx
  <2>1. PICK j \in 1..n : records[j] = exact
    BY <1>2, RankedFacts DEF n
  <2>2. records[j] \in Values
    BY DEF n
  <2>3. records \in Seq(Nat) /\ n \in 0..Len(records)
    <3>1. Len(records) \in Nat /\ records \in [1..Len(records) -> Values]
      OBVIOUS
    <3>2. \A k \in 1..Len(records) : records[k] \in Nat
      BY <3>1 DEF Values
    <3>3. records \in [1..Len(records) -> Nat]
      BY <3>1, <3>2
    <3> QED
      BY <3>1, <3>3 DEF n
  <2>4. mx \in Nat /\ \A i \in 1..n : records[i] <= mx
    BY <2>3, MaxAfterFacts
  <2> QED
    BY <2>1, <2>2, <2>4 DEF Values
<1>10. Magnitude(v - exact) * 2 * C <= exact
  BY <1>9, ValueAccurate DEF cell
<1> HIDE DEF exact, mx, v
<1>11. p = IF v <= mx THEN v ELSE mx
  <2>1. v \in Int /\ mx \in Int
    BY <1>8, <1>9
  <2>2. Min({v, mx}) = IF v <= mx THEN v ELSE mx
    BY <2>1, OfTwo
  <2> QED
    BY <1>8, <2>2
<1>12. /\ Magnitude(p - exact) \in Nat /\ Magnitude(v - exact) \in Nat
       /\ Magnitude(p - exact) <= Magnitude(v - exact)
  BY <1>8, <1>9, <1>11 DEF Magnitude
<1> DEFINE a == Magnitude(p - exact)
           b == Magnitude(v - exact)
<1>13. C \in Nat
  BY CellsAreNaturals
<1>14. a \in Nat /\ b \in Nat /\ a <= b /\ b * 2 * C <= exact
  BY <1>10, <1>12
<1> HIDE DEF a, b, C
<1>15. a * 2 * C <= b * 2 * C /\ a * 2 * C \in Nat /\ b * 2 * C \in Nat
  BY <1>13, <1>14
<1> DEFINE x == a * 2 * C
           y == b * 2 * C
<1>16. x <= y /\ x \in Nat /\ y \in Nat /\ y <= exact
  BY <1>14, <1>15
<1> HIDE DEF x, y
<1>17. x <= exact
  BY <1>9, <1>16
<1>18. Near(p, exact)
  BY <1>17 DEF Near, x, a, C
<1>19. p = AtRest(permille) /\ exact = Exact(permille)
  BY DEF AtRest, Exact, p, exact, mx, counts, rank, n
<1> QED
  BY <1>18, <1>19

-----------------------------------------------------------------------------
(* The ledger *)

\* A fill of one lot that opens a position when flat and closes it otherwise
\* leaves the balance of PnlTracker unchanged.
LEMMA LotBalances ==
  ASSUME NEW s \in Ledgers, NEW side \in Sides, NEW px \in Nat,
         s.position * Signed(side, 1) <= 0
  PROVE  LET t == PnlOnFill(s, [side |-> side, px |-> px, qty |-> 1])
         IN /\ t \in Ledgers
            /\ t.cash + t.position * t.avgEntry - t.realized =
                 s.cash + s.position * s.avgEntry - s.realized
PROOF
<1> DEFINE r == [side |-> side, px |-> px, qty |-> 1]
           t == PnlOnFill(s, r)
           q == Signed(side, 1)
<1>1. /\ s.cash \in Int /\ s.position \in {-1, 0, 1} /\ s.avgEntry \in Nat
      /\ s.realized \in Int
  BY DEF Ledgers
<1>2. q \in {-1, 1} /\ Signed(r.side, r.qty) = q /\ r.px = px
  BY DEF Signed, Sides
<1>3. CASE s.position = 0
  <2>1. /\ SameDirection(s.position, q) /\ s.position + q = q /\ q # 0
        /\ Magnitude(q) = 1 /\ Magnitude(s.position) = 0
    BY <1>1, <1>2, <1>3 DEF SameDirection, Magnitude
  <2>2. (s.avgEntry * 0 + px * 1) \div 1 = px
    BY <1>1
  <2>3. t = [cash |-> s.cash - q * px, position |-> q, avgEntry |-> px,
             realized |-> s.realized]
    BY <1>1, <1>2, <2>1, <2>2 DEF PnlOnFill
  <2> QED
    BY <1>1, <1>2, <1>3, <2>3 DEF Ledgers
<1>4. CASE s.position # 0
  <2>1. s.position = -q
    BY <1>1, <1>2, <1>4
  <2>2. /\ ~SameDirection(s.position, q) /\ s.position + q = 0
        /\ Least(Magnitude(q), Magnitude(s.position)) = 1
    BY <1>1, <1>2, <2>1 DEF SameDirection, Magnitude, Least
  <2> DEFINE d == IF s.position > 0 THEN 1 ELSE -1
  <2>3. d = -q
    BY <1>2, <2>1
  <2>4. t = [cash |-> s.cash - q * px, position |-> 0, avgEntry |-> 0,
             realized |-> s.realized + d * (px - s.avgEntry) * 1]
    BY <1>1, <1>2, <2>2 DEF PnlOnFill
  <2>5. /\ t.cash = s.cash - q * px /\ t.position = 0 /\ t.avgEntry = 0
        /\ t.realized = s.realized + d * (px - s.avgEntry) * 1
    BY <2>4
  <2> HIDE DEF d, t, q
  <2>6. CASE q = 1
    <3>1. /\ t.cash = s.cash - px /\ t.realized = s.realized - (px - s.avgEntry)
          /\ s.position = -1
      BY <1>1, <2>1, <2>3, <2>5, <2>6
    <3>2. t \in Ledgers
      BY <1>1, <2>3, <2>4, <2>6 DEF Ledgers
    <3> QED
      BY <1>1, <2>5, <3>1, <3>2 DEF t
  <2>7. CASE q = -1
    <3>1. /\ t.cash = s.cash + px /\ t.realized = s.realized + (px - s.avgEntry)
          /\ s.position = 1
      BY <1>1, <2>1, <2>3, <2>5, <2>7
    <3>2. t \in Ledgers
      BY <1>1, <2>3, <2>4, <2>7 DEF Ledgers
    <3> QED
      BY <1>1, <2>5, <3>1, <3>2 DEF t
  <2> QED
    BY <1>2, <2>6, <2>7
<1> QED
  BY <1>3, <1>4

\* Two balances that differ by nothing.
LEMMA Rebalanced ==
  ASSUME NEW x \in Int, NEW y \in Int, NEW z \in Int,
         NEW u \in Int, NEW v \in Int, NEW w \in Int, NEW i \in Int,
         u + v - w = x + y - z, x + y = i + z
  PROVE  u + v = i + w
OBVIOUS

\* ... so it stays what it was at the start.
LEMMA BalanceKept ==
  ASSUME NEW s \in Ledgers, NEW t \in Ledgers, NEW i \in Int,
         t.cash + t.position * t.avgEntry - t.realized =
           s.cash + s.position * s.avgEntry - s.realized,
         s.cash + s.position * s.avgEntry = i + s.realized
  PROVE  t.cash + t.position * t.avgEntry = i + t.realized
PROOF
<1>1. /\ s.cash \in Int /\ s.realized \in Int /\ s.position * s.avgEntry \in Int
      /\ t.cash \in Int /\ t.realized \in Int /\ t.position * t.avgEntry \in Int
  BY DEF Ledgers
<1> QED
  BY <1>1, Rebalanced

-----------------------------------------------------------------------------
(* The inductive invariant *)

\* The invariant holds at the start.
LEMMA InitInv == Init => Inv
PROOF
<1> SUFFICES ASSUME Init PROVE Inv
  OBVIOUS
<1>1. Types
  <2>1. pnl \in Ledgers /\ mark \in [Sides -> Nat]
    BY ReportingAssumption DEF Init, Ledgers, Sides
  <2>2. seen \in [count : Nat, max : Nat, counts : [Cells -> Nat]]
    BY DEF Init
  <2> QED
    BY <2>1, <2>2 DEF Init, Types
<1>2. DumpInv
  BY DEF Init, DumpInv, DumpBelowMax
<1>3. MoneyInv
  BY ReportingAssumption DEF Init, MoneyInv, FinalReportBalances
<1> QED
  BY <1>1, <1>2, <1>3 DEF Inv

\* What a load may return: numbers, and a maximum not below the last one seen.
LEMMA LoadFacts ==
  ASSUME Types, NEW load \in Loads
  PROVE  /\ load \in [count : Nat, max : Nat, counts : [Cells -> Nat]]
         /\ load.max \in Nat /\ load.max >= seen.max
PROOF
<1> DEFINE n == Len(records)
           used == {IndexFor(records[i]) : i \in 1..n}
           since == {f \in [used -> 0..n] :
                       \A c \in used : f[c] \in seen.counts[c]..CountIn(c)}
           maxima == {m \in {MaxAfter(k) : k \in 0..n} : m >= seen.max}
           tables == {[c \in Cells |-> IF c \in used THEN f[c] ELSE 0] : f \in since}
<1>1. n \in Nat /\ seen.count \in Nat
  BY DEF Types
<1>2. Loads = [count : seen.count..n, max : maxima, counts : tables]
  BY DEF Loads
<1>3. seen.count..n \subseteq Nat
  BY <1>1
<1>4. \A k \in 0..n : MaxAfter(k) \in Nat
  BY MaxAfterFacts DEF Types
<1>5. maxima \subseteq Nat /\ \A m \in maxima : m >= seen.max
  BY <1>4
<1>6. tables \subseteq [Cells -> Nat]
  <2> SUFFICES ASSUME NEW f \in since
               PROVE  [c \in Cells |-> IF c \in used THEN f[c] ELSE 0] \in [Cells -> Nat]
    OBVIOUS
  <2>1. f \in [used -> 0..n]
    OBVIOUS
  <2> HIDE DEF used, since, n
  <2>2. \A c \in used : f[c] \in Nat
    BY <1>1, <2>1
  <2> QED
    BY <2>2
<1> HIDE DEF n, used, since, maxima, tables
<1>7. load \in [count : seen.count..n, max : maxima, counts : tables]
  BY <1>2
<1> QED
  BY <1>3, <1>5, <1>6, <1>7

\* An event moves marks only to a price of the book.
LEMMA MarksFacts ==
  ASSUME Types, NEW bid \in Bids, NEW sides \in SUBSET Sides
  PROVE  /\ MarksAt(bid, sides) \in [Sides -> Nat]
         /\ \A side \in Sides :
              mark[side] > 0 \/ side \in sides => MarksAt(bid, sides)[side] > 0
PROOF
<1>1. bid \in Nat /\ bid > 0
  BY ReportingAssumption
<1>2. mark \in [Sides -> Nat]
  BY DEF Types
<1>3. MarksAt(bid, sides) =
        [side \in Sides |-> IF side \notin sides THEN mark[side]
                            ELSE IF side = "Bid" THEN bid ELSE bid + 1]
  BY DEF MarksAt, Sides
<1> QED
  BY <1>1, <1>2, <1>3

\* It is kept by an event without a fill,
LEMMA QuoteKeeps ==
  ASSUME Inv, NEW bid \in Bids, NEW sides \in SUBSET Sides, Quote(bid, sides)
  PROVE  Inv'
PROOF
<1>1. Types /\ DumpInv /\ MoneyInv
  BY DEF Inv
<1>2. /\ mPc \in {"loop", "dump"} /\ events' = events + 1
      /\ mark' = MarksAt(bid, sides)
      /\ UNCHANGED <<pnl, published, records, mPc, seen, printed, highest,
                     printedMax, final>>
  BY DEF Quote, StrategyRuns, dumpVars
<1>3. /\ mark' \in [Sides -> Nat]
      /\ \A side \in Sides : mark[side] > 0 => mark'[side] > 0
  BY <1>1, <1>2, MarksFacts
<1>4. Types'
  BY <1>1, <1>2, <1>3 DEF Types
<1>5. DumpInv'
  BY <1>1, <1>2 DEF DumpInv, DumpBelowMax
<1>6. MoneyInv'
  BY <1>1, <1>2, <1>3 DEF MoneyInv, FinalReportBalances, Sides
<1> QED
  BY <1>4, <1>5, <1>6 DEF Inv

\* by a fill, which moves the ledger, publishes it and records a duration,
LEMMA FillKeeps ==
  ASSUME Inv, NEW side \in Sides, NEW bid \in Bids, NEW ns \in Durations,
         Fill(side, bid, ns)
  PROVE  Inv'
PROOF
<1> DEFINE px == IF side = "Bid" THEN bid + 1 ELSE bid
<1>1. Types /\ DumpInv /\ MoneyInv
  BY DEF Inv
<1>2. /\ mPc \in {"loop", "dump"} /\ events' = events + 1
      /\ pnl.position * Signed(side, 1) <= 0
      /\ mark' = MarksAt(bid, Sides)
      /\ records' = Append(records, Recorded(ns))
      /\ pnl' = PnlOnFill(pnl, [side |-> side, px |-> px, qty |-> 1])
      /\ published' = pnl'
      /\ UNCHANGED <<mPc, seen, printed, highest, printedMax, final>>
  BY DEF Fill, StrategyRuns, dumpVars, Published, Sides
<1>3. mark' \in [Sides -> Nat] /\ \A s \in Sides : mark'[s] > 0
  BY <1>1, <1>2, MarksFacts
<1>4. px \in Nat
  BY ReportingAssumption
<1>5. records' \in Seq(Nat)
  <2>1. Recorded(ns) \in Nat
    BY ReportingAssumption DEF Recorded
  <2> QED
    BY <1>1, <1>2, <2>1 DEF Types
<1> HIDE DEF px
<1>6. /\ pnl' \in Ledgers
      /\ pnl'.cash + pnl'.position * pnl'.avgEntry - pnl'.realized =
           pnl.cash + pnl.position * pnl.avgEntry - pnl.realized
  BY <1>1, <1>2, <1>4, LotBalances DEF Types
<1>7. Types'
  BY <1>1, <1>2, <1>3, <1>5, <1>6 DEF Types
<1>8. DumpInv'
  BY <1>1, <1>2 DEF DumpInv, DumpBelowMax
<1>9. MoneyInv'
  <2>1. pnl \in Ledgers /\ pnl' \in Ledgers /\ InitialCash \in Int
    BY <1>1, <1>6, ReportingAssumption DEF Types
  <2>2. pnl.cash + pnl.position * pnl.avgEntry = InitialCash + pnl.realized
    BY <1>1 DEF MoneyInv
  <2>4. pnl'.cash + pnl'.position * pnl'.avgEntry = InitialCash + pnl'.realized
    BY <1>6, <2>1, <2>2, BalanceKept
  <2>5. published' = pnl' /\ mark'["Bid"] > 0 /\ mark'["Ask"] > 0 /\ mPc' # "done"
    BY <1>2, <1>3 DEF Sides
  <2> QED
    BY <2>4, <2>5 DEF MoneyInv, FinalReportBalances
<1> QED
  BY <1>7, <1>8, <1>9 DEF Inv

\* by one percentile of a dump, whatever the loads return,
LEMMA PercentileKeeps ==
  ASSUME Inv, NEW load \in Loads, DumpPercentile(load), mPc = "dump"
  PROVE  Inv'
PROOF
<1> DEFINE p == Percentile(load.count, load.max, load.counts, Percentiles[printed + 1])
<1>1. Types /\ DumpInv /\ MoneyInv
  BY DEF Inv
<1>2. /\ load \in [count : Nat, max : Nat, counts : [Cells -> Nat]]
      /\ load.max \in Nat /\ load.max >= seen.max
  BY <1>1, LoadFacts
<1>3. p \in 0..load.max
  BY <1>2, PercentileBelowMax
<1>4. highest' = Max({highest, p})
  BY DEF DumpPercentile
<1>5. Len(Percentiles) = 4
  BY DEF Percentiles
<1>6. /\ printed < 4 /\ seen' = load /\ printed' = printed + 1
      /\ UNCHANGED <<events, pnl, published, mark, records, mPc, printedMax, final>>
  BY <1>5 DEF DumpPercentile
<1>7. highest \in Int /\ seen.max \in Nat /\ highest <= seen.max
  BY <1>1 DEF Types, DumpInv
<1> HIDE DEF p
<1>8. highest' \in Int /\ highest' <= load.max
  <2>1. highest' = IF highest >= p THEN highest ELSE p
    BY <1>3, <1>4, <1>7, OfTwo
  <2> QED
    BY <1>2, <1>3, <1>7, <2>1
<1>9. Types'
  BY <1>1, <1>2, <1>6, <1>8 DEF Types
<1>10. DumpInv'
  BY <1>6, <1>8 DEF DumpInv, DumpBelowMax
<1>11. MoneyInv'
  BY <1>1, <1>6 DEF MoneyInv, FinalReportBalances
<1> QED
  BY <1>9, <1>10, <1>11 DEF Inv

\* and by the end of a dump.
LEMMA MaxKeeps ==
  ASSUME Inv, NEW load \in Loads, DumpMax(load), mPc = "dump"
  PROVE  Inv'
PROOF
<1>1. Types /\ DumpInv /\ MoneyInv
  BY DEF Inv
<1>2. load.max \in Nat /\ load.max >= seen.max
  BY <1>1, LoadFacts
<1>3. /\ seen' = [seen EXCEPT !.max = load.max]
      /\ printedMax' = load.max /\ mPc' = "loop"
      /\ UNCHANGED <<events, pnl, published, mark, records, printed, highest, final>>
  BY DEF DumpMax
<1>4. /\ seen' \in [count : Nat, max : Nat, counts : [Cells -> Nat]]
      /\ seen'.max = load.max
  BY <1>1, <1>2, <1>3 DEF Types
<1>5. Types'
  BY <1>1, <1>2, <1>3, <1>4 DEF Types
<1>6. DumpInv'
  <2>1. highest \in Int /\ seen.max \in Nat /\ highest <= seen.max
    BY <1>1 DEF Types, DumpInv
  <2> QED
    BY <1>2, <1>3, <1>4, <2>1 DEF DumpInv, DumpBelowMax
<1>7. MoneyInv'
  BY <1>1, <1>3 DEF MoneyInv, FinalReportBalances
<1> QED
  BY <1>5, <1>6, <1>7 DEF Inv

\* The report reads the published fields and the marks, and nothing moves any
\* more: the strategy thread has been joined.
LEMMA FinalKeeps ==
  ASSUME Inv, FinalReport
  PROVE  Inv'
PROOF
<1> DEFINE at == IF pnl.position > 0 THEN mark["Bid"] ELSE mark["Ask"]
           u == Unrealized(pnl, mark)
           a == pnl.position * pnl.avgEntry
           m == pnl.position * at
<1>1. Types /\ DumpInv /\ MoneyInv
  BY DEF Inv
<1>2. /\ mPc' = "done"
      /\ UNCHANGED <<events, pnl, published, mark, records, seen, printed,
                     highest, printedMax>>
  BY DEF FinalReport, dumpVars
<1>3. /\ final'.cash = pnl.cash /\ final'.position = pnl.position
      /\ final'.realized = pnl.realized /\ final'.unrealized = u
  BY <1>1 DEF FinalReport, MoneyInv
<1>4. /\ pnl.cash \in Int /\ pnl.position \in Int /\ pnl.avgEntry \in Nat
      /\ pnl.realized \in Int /\ mark["Bid"] \in Nat /\ mark["Ask"] \in Nat
      /\ InitialCash \in Int
  BY <1>1, ReportingAssumption DEF Types, Ledgers, Sides
<1>5. /\ pnl.cash + a = InitialCash + pnl.realized
      /\ pnl.position # 0 => mark["Bid"] > 0 /\ mark["Ask"] > 0
  BY <1>1 DEF MoneyInv
<1>6. u = m - a /\ a \in Int /\ m \in Int
  <2>1. CASE pnl.position = 0
    BY <1>4, <2>1 DEF Unrealized
  <2>2. CASE pnl.position # 0
    <3>1. at \in Nat /\ at > 0
      BY <1>4, <1>5, <2>2
    <3>2. u = pnl.position * (at - pnl.avgEntry)
      BY <2>2, <3>1, <1>4 DEF Unrealized
    <3> HIDE DEF at, u
    <3>3. pnl.position * (at - pnl.avgEntry) = pnl.position * at - pnl.position * pnl.avgEntry
      BY <1>4, <3>1
    <3> QED
      BY <1>4, <3>1, <3>2, <3>3
  <2> QED
    BY <2>1, <2>2
<1>7. FinalReportBalances'
  <2>1. at = (IF final'.position > 0 THEN mark'["Bid"] ELSE mark'["Ask"])
    BY <1>2, <1>3
  <2>2. final'.position * at = m
    BY <1>3
  <2> HIDE DEF a, m, u, at
  <2>3. pnl.cash + m = InitialCash + pnl.realized + u
    BY <1>4, <1>5, <1>6
  <2> QED
    BY <1>2, <1>3, <2>1, <2>2, <2>3 DEF FinalReportBalances
<1>8. Types'
  BY <1>1, <1>2 DEF Types
<1>9. DumpInv'
  BY <1>1, <1>2 DEF DumpInv, DumpBelowMax
<1>10. MoneyInv'
  BY <1>1, <1>2, <1>7 DEF MoneyInv
<1> QED
  BY <1>8, <1>9, <1>10 DEF Inv

\* Every step keeps the invariant.
LEMMA NextInv == Inv /\ [Next]_vars => Inv'
PROOF
<1> SUFFICES ASSUME Inv, [Next]_vars PROVE Inv'
  OBVIOUS
<1>0. Types /\ DumpInv /\ MoneyInv
  BY DEF Inv
<1>1. ASSUME NEW bid \in Bids, NEW sides \in SUBSET {"Bid", "Ask"}, Quote(bid, sides)
      PROVE  Inv'
  BY <1>1, QuoteKeeps DEF Sides
<1>2. ASSUME NEW side \in {"Bid", "Ask"}, NEW bid \in Bids, NEW ns \in Durations,
             Fill(side, bid, ns)
      PROVE  Inv'
  BY <1>2, FillKeeps DEF Sides
<1>3. CASE DumpBegin
  <2>1. Types'
    BY <1>0, <1>3 DEF DumpBegin, Types
  <2>2. DumpInv'
    BY <1>0, <1>3 DEF DumpBegin, DumpInv, DumpBelowMax, Types
  <2>3. MoneyInv'
    BY <1>0, <1>3 DEF DumpBegin, MoneyInv, FinalReportBalances
  <2> QED
    BY <2>1, <2>2, <2>3 DEF Inv
<1>4. CASE Stop
  <2>1. Types'
    BY <1>0, <1>4 DEF Stop, dumpVars, Types
  <2>2. DumpInv'
    BY <1>0, <1>4 DEF Stop, dumpVars, DumpInv, DumpBelowMax
  <2>3. MoneyInv'
    BY <1>0, <1>4 DEF Stop, MoneyInv, FinalReportBalances
  <2> QED
    BY <2>1, <2>2, <2>3 DEF Inv
<1>5. CASE FinalReport
  BY <1>5, FinalKeeps
<1>6. ASSUME mPc = "dump", NEW load \in Loads, DumpPercentile(load) \/ DumpMax(load)
      PROVE  Inv'
  BY <1>6, PercentileKeeps, MaxKeeps
<1>7. CASE UNCHANGED vars
  BY <1>0, <1>7 DEF vars, Inv, Types, DumpInv, DumpBelowMax, MoneyInv, FinalReportBalances
<1> QED
  BY <1>1, <1>2, <1>3, <1>4, <1>5, <1>6, <1>7 DEF Next, Done

\* The inductive invariant.
LEMMA Invariant == Spec => []Inv
BY InitInv, NextInv, PTL DEF Spec

\* No percentile of a dump is above the maximum the same dump ends with, though
\* the strategy thread records while the main thread loads, cell by cell.
THEOREM DumpsBelowMax == Spec => []DumpBelowMax
PROOF
<1>1. Inv => DumpBelowMax
  BY DEF Inv, DumpInv
<1> QED
  BY <1>1, Invariant, PTL

\* The final report balances, whatever was traded: what it prints is the
\* strategy's own, and cash plus the position at the closing side of the last
\* touch is the initial cash plus both profits.
THEOREM ReportsBalance == Spec => []FinalReportBalances
PROOF
<1>1. Inv => FinalReportBalances
  BY DEF Inv, MoneyInv
<1> QED
  BY <1>1, Invariant, PTL

-----------------------------------------------------------------------------
(* The percentiles of the final report *)

\* What is recorded is a value of the histogram, and the report is accurate once
\* it is printed.
AccuracyInv ==
  /\ records \in Seq(Values)
  /\ mPc = "done" /\ records # << >> =>
       \A i \in 1..Len(Percentiles) : Near(final.percentiles[i], Exact(Percentiles[i]))

\* Every percentile of the report is one in a thousand parts.
LEMMA PercentilesList ==
  Len(Percentiles) = 4 /\ \A i \in 1..4 : Percentiles[i] \in Permilles
BY DEF Percentiles, Permilles

\* A report printed once the strategy thread has stopped is accurate.
LEMMA FinalAccurate ==
  ASSUME AccuracyInv, FinalReport
  PROVE  AccuracyInv'
PROOF
<1>1. records \in Seq(Values) /\ records' = records
  BY DEF AccuracyInv, FinalReport
<1>2. final'.percentiles = [i \in 1..Len(Percentiles) |-> AtRest(Percentiles[i])]
  BY DEF FinalReport, AtRest
<1>3. ASSUME records # << >>, NEW i \in 1..Len(Percentiles)
      PROVE  Near(final'.percentiles[i], Exact(Percentiles[i]))
  <2> DEFINE permille == Percentiles[i]
  <2>1. permille \in Permilles
    BY PercentilesList
  <2>2. final'.percentiles[i] = AtRest(permille)
    BY <1>2
  <2> HIDE DEF permille
  <2>3. Near(AtRest(permille), Exact(permille))
    BY <1>1, <1>3, <2>1, PercentileAccurate, Zenon
  <2> QED
    BY <2>2, <2>3 DEF permille
<1>4. ASSUME records' # << >>, NEW i \in 1..Len(Percentiles)
      PROVE  Near(final.percentiles[i], Exact(Percentiles[i]))'
  <2>1. Exact(Percentiles[i])' = Exact(Percentiles[i])
    BY <1>1 DEF Exact, RankedValue
  <2> QED
    BY <1>1, <1>3, <1>4, <2>1
<1> QED
  BY <1>1, <1>4 DEF AccuracyInv

\* Nothing else touches a printed report.
LEMMA AccuracyStep == AccuracyInv /\ [Next]_vars => AccuracyInv'
PROOF
<1> SUFFICES ASSUME AccuracyInv, [Next]_vars PROVE AccuracyInv'
  OBVIOUS
<1>1. records \in Seq(Values)
  BY DEF AccuracyInv
<1>2. ASSUME records' = records, mPc' # "done" PROVE AccuracyInv'
  BY <1>1, <1>2 DEF AccuracyInv
<1>3. ASSUME NEW bid \in Bids, NEW sides \in SUBSET {"Bid", "Ask"}, Quote(bid, sides)
      PROVE  AccuracyInv'
  BY <1>2, <1>3 DEF Quote, StrategyRuns
<1>4. ASSUME NEW side \in {"Bid", "Ask"}, NEW bid \in Bids, NEW ns \in Durations,
             Fill(side, bid, ns)
      PROVE  AccuracyInv'
  <2>1. Recorded(ns) \in Values
    <3>1. ns \in Int /\ ns < 2^Width
      BY ReportingAssumption
    <3>2. 2^Width > 0
      BY Powers, HistogramAssumption
    <3> QED
      BY <3>1, <3>2 DEF Recorded, Values
  <2>2. records' = Append(records, Recorded(ns)) /\ mPc' # "done"
    BY <1>4 DEF Fill, StrategyRuns
  <2>3. records' \in Seq(Values)
    BY <1>1, <2>1, <2>2
  <2> QED
    BY <2>2, <2>3 DEF AccuracyInv
<1>5. CASE DumpBegin \/ Stop
  BY <1>2, <1>5 DEF DumpBegin, Stop
<1>6. CASE FinalReport
  BY <1>6, FinalAccurate
<1>7. ASSUME mPc = "dump", NEW load \in Loads, DumpPercentile(load) \/ DumpMax(load)
      PROVE  AccuracyInv'
  BY <1>2, <1>7 DEF DumpPercentile, DumpMax
<1>8. CASE UNCHANGED vars
  <2>1. records' = records /\ mPc' = mPc /\ final' = final
    BY <1>8 DEF vars
  <2>2. \A permille : Exact(permille)' = Exact(permille)
    BY <2>1 DEF Exact, RankedValue
  <2> QED
    BY <2>1, <2>2 DEF AccuracyInv, Exact, RankedValue, Near
<1> QED
  BY <1>3, <1>4, <1>5, <1>6, <1>7, <1>8 DEF Next, Done

\* The percentiles of the final report are accurate, whatever was recorded: each
\* is within one part in 2 * SubCount of the recorded value of its rank.
THEOREM PercentilesAreAccurate == Spec => []PercentilesAccurate
PROOF
<1>1. Init => AccuracyInv
  BY DEF Init, AccuracyInv
<1>2. AccuracyInv => PercentilesAccurate
  BY DEF AccuracyInv, PercentilesAccurate, Near, Exact
<1> QED
  BY <1>1, <1>2, AccuracyStep, PTL DEF Spec

=============================================================================
