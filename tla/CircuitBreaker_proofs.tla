----------------------- MODULE CircuitBreaker_proofs -----------------------
(***************************************************************************)
(* For every threshold and window: the circuit breaker is tripped exactly  *)
(* when the README says so, and a trip lasts for more than one and at most *)
(* two windows of messages.                                                *)
(***************************************************************************)
EXTENDS CircuitBreaker, FiniteSetTheorems, TLAPS

\* Where in its window the breaker tripped, told by how long ago that was: in
\* the current window while errors_ is not 0, in the previous one after that.
\* msgs_ % WindowMsgs is the age of the current window.
HaltAge ==
  LET age == breaker.msgs - trippedAt
      inWindow == breaker.msgs % WindowMsgs
  IN /\ trippedAt <= breaker.msgs
     /\ breaker.tripped /\ breaker.errors > 0 => age <= inWindow
     /\ breaker.tripped /\ breaker.errors = 0 =>
          inWindow < age /\ age <= inWindow + WindowMsgs
     /\ ~breaker.tripped /\ trippedAt > 0 => age > WindowMsgs

\* The position in the window advances by one, or starts again.
LEMMA NextInWindow ==
  ASSUME NEW m \in Nat, WindowMsgs > 0
  PROVE  /\ m % WindowMsgs \in 0..(WindowMsgs - 1)
         /\ (m + 1) % WindowMsgs =
              IF m % WindowMsgs = WindowMsgs - 1 THEN 0 ELSE (m % WindowMsgs) + 1
PROOF
<1> DEFINE q == m \div WindowMsgs
           r == m % WindowMsgs
<1>1. m = WindowMsgs * q + r /\ q \in Int /\ r \in 0..(WindowMsgs - 1)
  BY BreakerAssumption
<1>2. ASSUME NEW k \in Int, NEW i \in 0..(WindowMsgs - 1)
      PROVE  (WindowMsgs * k + i) % WindowMsgs = i
  BY BreakerAssumption
<1> HIDE DEF q, r
<1>3. CASE r = WindowMsgs - 1
  <2>1. m + 1 = WindowMsgs * (q + 1) + 0
    BY <1>1, <1>3, BreakerAssumption
  <2>2. (m + 1) % WindowMsgs = 0
    BY <2>1, <1>1, <1>2, BreakerAssumption
  <2> QED
    BY <1>1, <1>3, <2>2 DEF r
<1>4. CASE r # WindowMsgs - 1
  <2>1. m + 1 = WindowMsgs * q + (r + 1) /\ r + 1 \in 0..(WindowMsgs - 1)
    BY <1>1, <1>4, BreakerAssumption
  <2>2. (m + 1) % WindowMsgs = r + 1
    BY <2>1, <1>1, <1>2
  <2> QED
    BY <1>1, <1>4, <2>2 DEF r
<1> QED
  BY <1>3, <1>4

\* recordMessage() and recordError() keep the breaker a breaker.
LEMMA BreakerMethods ==
  ASSUME NEW b \in Breakers
  PROVE  Recorded(b) \in Breakers /\ Errored(b) \in Breakers
PROOF
<1>1. b.msgs \in Nat /\ b.errors \in Nat /\ b.tripped \in BOOLEAN
  BY DEF Breakers
<1>2. Recorded(b) \in Breakers
  <2> DEFINE n == b.msgs + 1
             e == IF WindowEnds(n) THEN 0 ELSE b.errors
             t == b.tripped /\ ~(WindowEnds(n) /\ b.errors = 0)
  <2>1. n \in Nat /\ e \in Nat
    BY <1>1
  <2>2. t \in BOOLEAN
    BY Zenon
  <2>3. Recorded(b) = IF WindowMsgs = 0 THEN b
                      ELSE [msgs |-> n, errors |-> e, tripped |-> t]
    BY DEF Recorded
  <2> HIDE DEF n, e, t
  <2> QED
    BY <2>1, <2>2, <2>3 DEF Breakers
<1>3. Errored(b) \in Breakers
  <2> DEFINE e == b.errors + 1
             t == b.tripped \/ e >= Threshold
  <2>1. e \in Nat
    BY <1>1
  <2>2. t \in BOOLEAN
    BY Zenon
  <2>3. Errored(b) = [b EXCEPT !.errors = e, !.tripped = t]
    BY DEF Errored
  <2> HIDE DEF e, t
  <2> QED
    BY <2>1, <2>2, <2>3 DEF Breakers
<1> QED
  BY <1>2, <1>3

\* Type correctness.
THEOREM TypeCorrect == Spec => []TypeOK
PROOF
<1>1. Init => TypeOK
  BY DEF Init, TypeOK, Breakers
<1>2. TypeOK /\ [Next]_vars => TypeOK'
  <2> SUFFICES ASSUME TypeOK, [Next]_vars PROVE TypeOK'
    OBVIOUS
  <2>0. Recorded(breaker) \in Breakers /\ Errored(Recorded(breaker)) \in Breakers
    BY BreakerMethods DEF TypeOK
  <2>a. \A r \in Results : Append(log, r) \in Seq(Results)
    BY DEF TypeOK
  <2>b. /\ "no order" \in Results /\ "blocked" \in Results
        /\ "approved" \in Results /\ "rejected" \in Results
    BY DEF Results
  <2> USE <2>0, <2>a, <2>b DEF TypeOK
  <2>1. CASE EventOnly
    BY <2>1 DEF EventOnly
  <2>2. CASE OrderBlocked
    BY <2>2 DEF OrderBlocked
  <2>3. CASE OrderApproved
    BY <2>3 DEF OrderApproved
  <2>4. CASE OrderRejected
    <3>1. breaker' \in Breakers /\ log' \in Seq(Results)
      BY <2>4 DEF OrderRejected
    <3>2. trippedAt' \in Nat
      BY <2>4, <3>1 DEF OrderRejected, Breakers
    <3> QED
      BY <3>1, <3>2
  <2>5. CASE UNCHANGED vars
    BY <2>5 DEF vars
  <2> QED
    BY <2>1, <2>2, <2>3, <2>4, <2>5 DEF Next, Event, Stopped
<1> QED
  BY <1>1, <1>2, PTL DEF Spec

\* What recordMessage() does to the age of a trip: HaltAge holds of the breaker
\* it returns, whatever the event then leads to.
LEMMA RecordKeepsAge ==
  ASSUME TypeOK, HaltAge, WindowMsgs > 0
  PROVE  LET b == Recorded(breaker)
             age == b.msgs - trippedAt
             inWindow == b.msgs % WindowMsgs
         IN /\ b.msgs \in Nat /\ b.errors \in Nat /\ b.tripped \in BOOLEAN
            /\ trippedAt <= b.msgs
            /\ b.tripped /\ b.errors > 0 => age <= inWindow
            /\ b.tripped /\ b.errors = 0 =>
                 inWindow < age /\ age <= inWindow + WindowMsgs
            /\ ~b.tripped /\ trippedAt > 0 => age > WindowMsgs
PROOF
<1> DEFINE n == breaker.msgs + 1
<1>1. /\ breaker.msgs \in Nat /\ breaker.errors \in Nat /\ trippedAt \in Nat
      /\ breaker.tripped \in BOOLEAN
  BY DEF TypeOK, Breakers
<1>2. /\ Recorded(breaker).msgs = n
      /\ Recorded(breaker).errors = IF WindowEnds(n) THEN 0 ELSE breaker.errors
      /\ Recorded(breaker).tripped <=>
           breaker.tripped /\ ~(WindowEnds(n) /\ breaker.errors = 0)
      /\ Recorded(breaker).tripped \in BOOLEAN
  <2> DEFINE e == IF WindowEnds(n) THEN 0 ELSE breaker.errors
             t == breaker.tripped /\ ~(WindowEnds(n) /\ breaker.errors = 0)
  <2>1. Recorded(breaker) = [msgs |-> n, errors |-> e, tripped |-> t]
    BY BreakerAssumption DEF Recorded
  <2>2. Recorded(breaker).tripped \in BOOLEAN
    BY BreakerMethods DEF TypeOK, Breakers
  <2> HIDE DEF n, e, t
  <2>3. /\ Recorded(breaker).msgs = n /\ Recorded(breaker).errors = e
        /\ Recorded(breaker).tripped = t
    BY <2>1
  <2> QED
    BY <2>2, <2>3 DEF e, t
<1>3. /\ breaker.msgs % WindowMsgs \in 0..(WindowMsgs - 1)
      /\ n % WindowMsgs = IF breaker.msgs % WindowMsgs = WindowMsgs - 1 THEN 0
                          ELSE (breaker.msgs % WindowMsgs) + 1
  BY <1>1, NextInWindow
<1>4. WindowEnds(n) <=> n % WindowMsgs = 0
  BY DEF WindowEnds
<1> HIDE DEF n
<1> QED
  BY <1>1, <1>2, <1>3, <1>4, BreakerAssumption DEF HaltAge, n

\* The age of a trip fits the position in the window.
LEMMA HaltAgeInvariant == WindowMsgs > 0 /\ Spec => []HaltAge
PROOF
<1> SUFFICES ASSUME WindowMsgs > 0 PROVE Spec => []HaltAge
  OBVIOUS
<1>1. Init => HaltAge
  BY BreakerAssumption DEF Init, HaltAge
<1>2. TypeOK /\ HaltAge /\ [Next]_vars => HaltAge'
  <2> SUFFICES ASSUME TypeOK, HaltAge, [Next]_vars PROVE HaltAge'
    OBVIOUS
  <2>1. CASE breaker' = Recorded(breaker) /\ UNCHANGED trippedAt
    BY <2>1, RecordKeepsAge DEF HaltAge
  <2>2. CASE OrderRejected
    <3> DEFINE b == Recorded(breaker)
    <3>1. /\ b.msgs \in Nat /\ b.errors \in Nat /\ ~b.tripped
          /\ trippedAt \in Nat /\ trippedAt <= b.msgs
          /\ trippedAt > 0 => b.msgs - trippedAt > WindowMsgs
      BY <2>2, RecordKeepsAge DEF OrderRejected, TypeOK
    <3>2. /\ breaker'.msgs = b.msgs /\ breaker'.errors = b.errors + 1
          /\ trippedAt' = IF breaker'.tripped THEN breaker'.msgs ELSE trippedAt
      <4>1. b \in Breakers
        BY BreakerMethods DEF TypeOK
      <4> QED
        BY <2>2, <4>1 DEF OrderRejected, Errored, Breakers
    <3>3. b.msgs % WindowMsgs \in 0..(WindowMsgs - 1)
      BY <3>1, NextInWindow
    <3> HIDE DEF b
    <3> QED
      BY <3>1, <3>2, <3>3, BreakerAssumption DEF HaltAge
  <2>3. CASE UNCHANGED vars
    BY <2>3 DEF vars, HaltAge
  <2> QED
    BY <2>1, <2>2, <2>3
       DEF Next, Event, Stopped, EventOnly, OrderBlocked, OrderApproved
<1> QED
  BY <1>1, <1>2, TypeCorrect, PTL DEF Spec

\* A trip halts order dispatch for more than one and at most two windows.
THEOREM HaltBounded == Spec => []HaltIsBounded
PROOF
<1>1. CASE WindowMsgs > 0
  <2>1. TypeOK /\ HaltAge => HaltIsBounded
    <3> SUFFICES ASSUME TypeOK, HaltAge PROVE HaltIsBounded
      OBVIOUS
    <3>1. /\ breaker.msgs \in Nat /\ breaker.errors \in Nat /\ trippedAt \in Nat
      BY DEF TypeOK, Breakers
    <3>2. breaker.msgs % WindowMsgs \in 0..(WindowMsgs - 1)
      BY <1>1, <3>1, NextInWindow
    <3> QED
      BY <1>1, <3>1, <3>2, BreakerAssumption DEF HaltAge, HaltIsBounded
  <2> QED
    BY <1>1, <2>1, TypeCorrect, HaltAgeInvariant, PTL
<1>2. CASE ~(WindowMsgs > 0)
  <2>1. HaltIsBounded
    BY <1>2 DEF HaltIsBounded
  <2> QED
    BY <2>1, PTL
<1> QED
  BY <1>1, <1>2

-----------------------------------------------------------------------------
(* The counters and the flag against the documented sentence *)

Limit == IF Threshold = 0 THEN 1 ELSE Threshold

\* Rejections per window, as a function, and the sentence over such a function.
Rejections == [w \in Nat |-> RejectionsUpTo(w, Len(log))]

Halted(r, now) ==
  \E w \in 0..now : r[w] >= Limit /\ \A v \in w..(now - 1) : r[v] > 0

\* The breaker's counters hold the position in the log and the rejections of the
\* current window: all that the sentence needs of the log, given the flag.
CountsWindow ==
  /\ WindowMsgs > 0 => breaker.msgs = Len(log)
  /\ breaker.errors = RejectionsUpTo(WindowOf(Len(log)), Len(log))
  /\ \A w \in Nat : w > WindowOf(Len(log)) => RejectionsUpTo(w, Len(log)) = 0

TripInv == CountsWindow /\ TripsAsDocumented

\* An event is in the window of the event before it, or in the next window when
\* recordMessage() ends one with it.
LEMMA NextWindow ==
  ASSUME NEW n \in Nat
  PROVE  /\ WindowOf(n) \in Nat
         /\ WindowOf(n + 1) = IF WindowEnds(n + 1) THEN WindowOf(n) + 1
                              ELSE WindowOf(n)
PROOF
<1>1. CASE WindowMsgs = 0
  BY <1>1 DEF WindowOf, WindowEnds
<1>2. CASE WindowMsgs > 0
  <2> DEFINE q == n \div WindowMsgs
             r == n % WindowMsgs
  <2>1. n = WindowMsgs * q + r /\ q \in Int /\ r \in 0..(WindowMsgs - 1)
    BY <1>2, BreakerAssumption
  <2>2. ASSUME NEW k \in Int, NEW i \in 0..(WindowMsgs - 1)
        PROVE  (WindowMsgs * k + i) \div WindowMsgs = k
    BY <1>2, BreakerAssumption
  <2>3. q \in Nat
    BY <1>2, BreakerAssumption
  <2>4. WindowOf(n) = q /\ WindowOf(n + 1) = (n + 1) \div WindowMsgs
    BY <1>2 DEF WindowOf
  <2>5. WindowEnds(n + 1) <=> r = WindowMsgs - 1
    BY <1>2, NextInWindow, BreakerAssumption DEF WindowEnds
  <2> HIDE DEF q, r
  <2>6. CASE r = WindowMsgs - 1
    <3>1. n + 1 = WindowMsgs * (q + 1) + 0 /\ 0 \in 0..(WindowMsgs - 1)
      BY <1>2, <2>1, <2>6, BreakerAssumption
    <3>2. (n + 1) \div WindowMsgs = q + 1
      BY <2>1, <2>2, <3>1
    <3> QED
      BY <2>3, <2>4, <2>5, <2>6, <3>2
  <2>7. CASE r # WindowMsgs - 1
    <3>1. n + 1 = WindowMsgs * q + (r + 1) /\ r + 1 \in 0..(WindowMsgs - 1)
      BY <1>2, <2>1, <2>7, BreakerAssumption
    <3>2. (n + 1) \div WindowMsgs = q
      BY <2>1, <2>2, <3>1
    <3> QED
      BY <2>3, <2>4, <2>5, <2>7, <3>2
  <2> QED
    BY <2>6, <2>7
<1> QED
  BY <1>1, <1>2, BreakerAssumption

\* Only a rejection, and only in its own window, changes the number of
\* rejections of a window.
LEMMA RejectionsStep ==
  ASSUME TypeOK, NEW res \in Results, log' = Append(log, res), NEW w \in Nat
  PROVE  /\ RejectionsUpTo(w, Len(log)) \in Nat
         /\ RejectionsUpTo(w, Len(log))' =
              IF res = "rejected" /\ w = WindowOf(Len(log) + 1)
              THEN RejectionsUpTo(w, Len(log)) + 1
              ELSE RejectionsUpTo(w, Len(log))
PROOF
<1> DEFINE n == Len(log)
           S == {i \in 1..n : WindowOf(i) = w /\ log[i] = "rejected"}
           T == {i \in 1..(n + 1) : WindowOf(i) = w /\ log'[i] = "rejected"}
<1>1. /\ n \in Nat /\ Len(log') = n + 1 /\ log'[n + 1] = res
      /\ \A i \in 1..n : log'[i] = log[i]
  BY DEF TypeOK
<1>2. /\ RejectionsUpTo(w, Len(log)) = Cardinality(S)
      /\ RejectionsUpTo(w, Len(log))' = Cardinality(T)
  BY <1>1 DEF RejectionsUpTo, WindowOf
<1>3. IsFiniteSet(S) /\ Cardinality(S) \in Nat
  <2>1. IsFiniteSet(1..n)
    BY <1>1, FS_Interval
  <2>2. S \subseteq 1..n
    OBVIOUS
  <2> QED
    BY <2>1, <2>2, FS_Subset, FS_CardinalityType
<1>4. n + 1 \notin S
  BY <1>1
<1>5. T = IF res = "rejected" /\ w = WindowOf(n + 1) THEN S \cup {n + 1} ELSE S
  <2>1. 1..(n + 1) = (1..n) \cup {n + 1}
    BY <1>1
  <2> QED
    BY <1>1, <1>4, <2>1
<1>6. Cardinality(S \cup {n + 1}) = Cardinality(S) + 1
  BY <1>3, <1>4, FS_AddElement
<1> QED
  BY <1>2, <1>3, <1>5, <1>6

\* A window that ends without a rejection resets the breaker.
LEMMA WindowClosed ==
  ASSUME NEW r \in [Nat -> Nat], NEW now \in Nat, r[now + 1] = 0
  PROVE  Halted(r, now + 1) <=> Halted(r, now) /\ r[now] > 0
PROOF
<1>1. Limit \in Nat /\ Limit > 0
  BY BreakerAssumption DEF Limit
<1>2. ASSUME Halted(r, now + 1) PROVE Halted(r, now) /\ r[now] > 0
  <2>1. PICK w \in 0..(now + 1) :
          r[w] >= Limit /\ \A v \in w..(now + 1 - 1) : r[v] > 0
    BY <1>2 DEF Halted
  <2>2. w \in 0..now
    BY <1>1, <2>1
  <2>3. \A v \in w..(now - 1) : r[v] > 0
    BY <2>1, <2>2
  <2>4. r[now] > 0
    BY <2>1, <2>2
  <2> QED
    BY <2>1, <2>2, <2>3, <2>4 DEF Halted
<1>3. ASSUME Halted(r, now), r[now] > 0 PROVE Halted(r, now + 1)
  <2>1. PICK w \in 0..now : r[w] >= Limit /\ \A v \in w..(now - 1) : r[v] > 0
    BY <1>3 DEF Halted
  <2>2. w \in 0..(now + 1)
    BY <2>1
  <2>3. ASSUME NEW v \in w..(now + 1 - 1) PROVE r[v] > 0
    <3>1. v \in w..(now - 1) \/ v = now
      BY <2>1, <2>3
    <3> QED
      BY <1>3, <2>1, <3>1
  <2> QED
    BY <2>1, <2>2, <2>3 DEF Halted
<1> QED
  BY <1>2, <1>3

\* While the breaker is not tripped, one more rejection in the current window
\* trips it exactly when that window reaches the threshold.
LEMMA RejectionCounted ==
  ASSUME NEW r \in [Nat -> Nat], NEW s \in [Nat -> Nat], NEW now \in Nat,
         ~Halted(r, now), s[now] = r[now] + 1,
         \A w \in 0..(now - 1) : s[w] = r[w]
  PROVE  Halted(s, now) <=> s[now] >= Limit
PROOF
<1>1. ASSUME Halted(s, now) PROVE s[now] >= Limit
  <2>1. PICK w \in 0..now : s[w] >= Limit /\ \A v \in w..(now - 1) : s[v] > 0
    BY <1>1 DEF Halted
  <2>2. CASE w = now
    BY <2>1, <2>2
  <2>3. CASE w # now
    <3>1. w \in 0..(now - 1) /\ r[w] >= Limit
      BY <2>1, <2>3
    <3>2. \A v \in w..(now - 1) : r[v] > 0
      BY <2>1, <3>1
    <3> QED
      BY <2>1, <3>1, <3>2 DEF Halted
  <2> QED
    BY <2>2, <2>3
<1>2. ASSUME s[now] >= Limit PROVE Halted(s, now)
  <2>1. now \in 0..now /\ now..(now - 1) = {}
    OBVIOUS
  <2> QED
    BY <1>2, <2>1 DEF Halted
<1> QED
  BY <1>1, <1>2

\* The sentence reads the log through Rejections only.
LEMMA SentenceIsHalted ==
  ASSUME TypeOK, \A w \in Nat : RejectionsUpTo(w, Len(log)) \in Nat
  PROVE  /\ Rejections \in [Nat -> Nat]
         /\ ShouldBeTripped <=> Halted(Rejections, WindowOf(Len(log)))
PROOF
<1>1. Rejections \in [Nat -> Nat]
  BY DEF Rejections
<1>2. Len(log) \in Nat /\ WindowOf(Len(log)) \in Nat
  BY NextWindow DEF TypeOK
<1>3. \A w \in Nat : Rejections[w] = RejectionsUpTo(w, Len(log))
  BY DEF Rejections
<1> DEFINE now == WindowOf(Len(log))
<1>4. now \in Nat
  BY <1>2
<1>5. ShouldBeTripped <=>
        \E w \in 0..now : /\ RejectionsUpTo(w, Len(log)) >= Limit
                          /\ \A v \in w..(now - 1) : RejectionsUpTo(v, Len(log)) > 0
  BY DEF ShouldBeTripped, Limit
<1> HIDE DEF now
<1>6. \A w \in 0..now : w \in Nat /\ \A v \in w..(now - 1) : v \in Nat
  BY <1>4
<1>7. ShouldBeTripped <=> Halted(Rejections, now)
  BY <1>3, <1>5, <1>6 DEF Halted
<1> QED
  BY <1>1, <1>7 DEF now

\* What recordMessage() does to the counters and the flag.
LEMMA RecordedFields ==
  ASSUME NEW b \in Breakers, NEW n, n = b.msgs + 1
  PROVE  /\ WindowMsgs > 0 => Recorded(b).msgs = n
         /\ Recorded(b).errors = IF WindowMsgs > 0 /\ WindowEnds(n) THEN 0 ELSE b.errors
         /\ Recorded(b).tripped <=>
              b.tripped /\ ~(WindowMsgs > 0 /\ WindowEnds(n) /\ b.errors = 0)
PROOF
<1>1. CASE WindowMsgs = 0
  BY <1>1 DEF Recorded
<1>2. CASE WindowMsgs > 0
  <2> DEFINE e == IF WindowEnds(n) THEN 0 ELSE b.errors
             t == b.tripped /\ ~(WindowEnds(n) /\ b.errors = 0)
  <2>1. Recorded(b) = [msgs |-> n, errors |-> e, tripped |-> t]
    BY <1>2, BreakerAssumption DEF Recorded
  <2> HIDE DEF e, t
  <2>2. Recorded(b).msgs = n /\ Recorded(b).errors = e /\ Recorded(b).tripped = t
    BY <2>1
  <2> QED
    BY <1>2, <2>2 DEF e, t
<1> QED
  BY <1>1, <1>2, BreakerAssumption

\* What recordError() does to them.
LEMMA ErroredFields ==
  ASSUME NEW b \in Breakers
  PROVE  /\ Errored(b).msgs = b.msgs /\ Errored(b).errors = b.errors + 1
         /\ Errored(b).tripped <=> b.tripped \/ b.errors + 1 >= Threshold
PROOF
<1> DEFINE t == b.tripped \/ b.errors + 1 >= Threshold
<1>1. Errored(b) = [b EXCEPT !.errors = b.errors + 1, !.tripped = t]
  BY DEF Errored
<1> HIDE DEF t
<1>2. /\ Errored(b).msgs = b.msgs /\ Errored(b).errors = b.errors + 1
      /\ Errored(b).tripped = t
  BY <1>1 DEF Breakers
<1> QED
  BY <1>2 DEF t

\* Every event: recordMessage(), then recordError() if the order was rejected.
LEMMA EventKeepsTrip ==
  ASSUME TypeOK, TypeOK', TripInv, NEW res \in Results, log' = Append(log, res),
         res = "rejected" => /\ ~Recorded(breaker).tripped
                             /\ breaker' = Errored(Recorded(breaker)),
         res # "rejected" => breaker' = Recorded(breaker)
  PROVE  TripInv'
PROOF
<1> DEFINE n == Len(log)
           w0 == WindowOf(n)
           w1 == WindowOf(n + 1)
           R == Rejections
           S == Rejections'
           b == Recorded(breaker)
<1>1. /\ n \in Nat /\ Len(log') = n + 1 /\ WindowOf(Len(log))' = w1
  BY DEF TypeOK, WindowOf
<1>2. /\ w0 \in Nat /\ w1 \in Nat
      /\ w1 = IF WindowEnds(n + 1) THEN w0 + 1 ELSE w0
  BY <1>1, NextWindow
<1>3. \A w \in Nat : RejectionsUpTo(w, Len(log)) \in Nat
  BY RejectionsStep
<1>4. \A w \in Nat : RejectionsUpTo(w, Len(log))' =
        IF res = "rejected" /\ w = w1 THEN RejectionsUpTo(w, Len(log)) + 1
        ELSE RejectionsUpTo(w, Len(log))
  BY RejectionsStep
<1>5. \A w \in Nat : RejectionsUpTo(w, Len(log))' \in Nat
  <2> SUFFICES ASSUME NEW w \in Nat PROVE RejectionsUpTo(w, Len(log))' \in Nat
    OBVIOUS
  <2>1. RejectionsUpTo(w, Len(log)) \in Nat
    BY <1>3
  <2>2. \/ RejectionsUpTo(w, Len(log))' = RejectionsUpTo(w, Len(log)) + 1
        \/ RejectionsUpTo(w, Len(log))' = RejectionsUpTo(w, Len(log))
    BY RejectionsStep
  <2> QED
    BY <2>1, <2>2
<1>6. R \in [Nat -> Nat] /\ (ShouldBeTripped <=> Halted(R, w0))
  BY <1>3, SentenceIsHalted
<1>7. S \in [Nat -> Nat] /\ (ShouldBeTripped' <=> Halted(S, w1))
  <2>1. /\ S \in [Nat -> Nat]
        /\ \A w \in Nat : S[w] = RejectionsUpTo(w, Len(log))'
    BY <1>5 DEF Rejections
  <2>2. ShouldBeTripped' <=>
          \E w \in 0..w1 : /\ RejectionsUpTo(w, Len(log))' >= Limit
                           /\ \A v \in w..(w1 - 1) : RejectionsUpTo(v, Len(log))' > 0
    BY <1>1 DEF ShouldBeTripped, Limit
  <2> HIDE DEF S, w1
  <2>3. \A w \in 0..w1 : w \in Nat /\ \A v \in w..(w1 - 1) : v \in Nat
    BY <1>2
  <2>4. ShouldBeTripped' <=> Halted(S, w1)
    BY <2>1, <2>2, <2>3 DEF Halted
  <2> QED
    BY <2>1, <2>4
<1>8. /\ \A w \in Nat : R[w] = RejectionsUpTo(w, Len(log))
      /\ \A w \in Nat : S[w] = RejectionsUpTo(w, Len(log))'
      /\ \A w \in Nat : S[w] = IF res = "rejected" /\ w = w1 THEN R[w] + 1 ELSE R[w]
  BY <1>4 DEF Rejections
<1>9. /\ breaker \in Breakers /\ b \in Breakers
      /\ b.errors \in Nat /\ breaker.errors \in Nat
  <2>1. breaker \in Breakers /\ b \in Breakers
    BY BreakerMethods DEF TypeOK
  <2> QED
    BY <2>1 DEF Breakers
<1>10. /\ WindowMsgs > 0 => b.msgs = n + 1
       /\ b.errors = IF WindowEnds(n + 1) THEN 0 ELSE breaker.errors
       /\ b.tripped <=> breaker.tripped /\ ~(WindowEnds(n + 1) /\ breaker.errors = 0)
  <2>1. CASE WindowMsgs > 0
    <3>1. n + 1 = breaker.msgs + 1
      BY <2>1 DEF TripInv, CountsWindow
    <3> QED
      BY <1>9, <2>1, <3>1, RecordedFields
  <2>2. CASE ~(WindowMsgs > 0)
    BY <1>9, <2>2, RecordedFields DEF WindowEnds
  <2> QED
    BY <2>1, <2>2
<1>11. /\ breaker.errors = R[w0] /\ \A w \in Nat : w > w0 => R[w] = 0
  BY <1>2, <1>8 DEF TripInv, CountsWindow
<1>12. breaker.tripped <=> Halted(R, w0)
  BY <1>6 DEF TripInv, TripsAsDocumented
\* After recordMessage(): the window's rejections and the flag, before the order.
<1>13. b.errors = R[w1] /\ (b.tripped <=> Halted(R, w1))
  <2>1. CASE WindowEnds(n + 1)
    <3>1. w1 = w0 + 1 /\ R[w0 + 1] = 0 /\ R[w0] \in Nat
      BY <1>2, <1>6, <1>11, <2>1
    <3>2. Halted(R, w0 + 1) <=> Halted(R, w0) /\ R[w0] > 0
      BY <1>2, <1>6, <3>1, WindowClosed
    <3>3. b.errors = R[w1]
      BY <1>10, <2>1, <3>1
    <3>4. b.tripped <=> breaker.tripped /\ R[w0] > 0
      BY <1>10, <1>11, <2>1, <3>1
    <3> QED
      BY <1>12, <3>1, <3>2, <3>3, <3>4
  <2>2. CASE ~WindowEnds(n + 1)
    BY <1>2, <1>10, <1>11, <1>12, <2>2
  <2> QED
    BY <2>1, <2>2
<1>14. \A w \in Nat : w > w1 => S[w] = 0
  BY <1>2, <1>8, <1>11
<1>15. breaker'.msgs = b.msgs /\ breaker'.errors = S[w1] /\ (breaker'.tripped <=> Halted(S, w1))
  <2>1. CASE res = "rejected"
    <3>1. /\ breaker'.msgs = b.msgs /\ breaker'.errors = b.errors + 1
          /\ breaker'.tripped <=> b.errors + 1 >= Threshold
      <4>1. breaker' = Errored(b) /\ ~b.tripped
        BY <2>1
      <4> HIDE DEF b
      <4> QED
        BY <1>9, <4>1, ErroredFields
    <3>2. S[w1] = R[w1] + 1 /\ \A w \in 0..(w1 - 1) : S[w] = R[w]
      BY <1>2, <1>8, <2>1
    <3>3. ~Halted(R, w1)
      BY <1>13, <2>1
    <3>4. Halted(S, w1) <=> S[w1] >= Limit
      BY <1>2, <1>6, <1>7, <3>2, <3>3, RejectionCounted
    <3>5. b.errors + 1 >= Threshold <=> S[w1] >= Limit
      BY <1>9, <1>13, <3>2, BreakerAssumption DEF Limit
    <3> QED
      BY <1>13, <3>1, <3>2, <3>4, <3>5
  <2>2. CASE res # "rejected"
    <3>1. breaker' = b
      BY <2>2
    <3>2. S = R
      <4>1. \A w \in Nat : S[w] = R[w]
        BY <1>8, <2>2
      <4> QED
        BY <1>6, <1>7, <4>1
    <3> QED
      BY <1>13, <3>1, <3>2
  <2> QED
    BY <2>1, <2>2
<1>16. CountsWindow'
  <2>1. WindowMsgs > 0 => breaker'.msgs = Len(log')
    BY <1>1, <1>10, <1>15
  <2>2. breaker'.errors = RejectionsUpTo(WindowOf(Len(log)), Len(log))'
    <3>1. WindowOf(Len(log))' \in Nat /\ WindowOf(Len(log))' = w1
      BY <1>1, <1>2
    <3>2. S[WindowOf(Len(log))'] = RejectionsUpTo(WindowOf(Len(log)), Len(log))'
      BY <3>1 DEF Rejections
    <3> QED
      BY <1>15, <3>1, <3>2
  <2>3. \A w \in Nat : w > WindowOf(Len(log))' => RejectionsUpTo(w, Len(log))' = 0
    BY <1>1, <1>8, <1>14
  <2> QED
    BY <2>1, <2>2, <2>3 DEF CountsWindow
<1>17. TripsAsDocumented'
  BY <1>7, <1>15 DEF TripsAsDocumented
<1> QED
  BY <1>16, <1>17 DEF TripInv

\* The two counters and the flag of circuit_breaker.hpp, with which
\* recordMessage() and recordError() decide, implement the README's sentence:
\* the breaker is tripped exactly when some window reached the threshold and no
\* window that has ended since was free of rejections.
THEOREM TripsExactly == Spec => []TripsAsDocumented
PROOF
<1>1. Init => TripInv
  <2> SUFFICES ASSUME Init PROVE TripInv
    OBVIOUS
  <2>1. Len(log) = 0 /\ WindowOf(0) \in Nat
    BY NextWindow DEF Init
  <2>2. \A w \in Nat : RejectionsUpTo(w, Len(log)) = 0
    <3>1. \A w \in Nat : {i \in 1..0 : WindowOf(i) = w /\ log[i] = "rejected"} = {}
      OBVIOUS
    <3> QED
      BY <2>1, <3>1, FS_EmptySet DEF RejectionsUpTo
  <2>3. CountsWindow
    BY <2>1, <2>2 DEF Init, CountsWindow
  <2>4. ~ShouldBeTripped
    <3>1. Rejections = [w \in Nat |-> 0]
      BY <2>2 DEF Rejections
    <3>2. ~Halted(Rejections, WindowOf(Len(log)))
      BY <2>1, <3>1, BreakerAssumption DEF Halted, Limit
    <3>3. TypeOK
      BY DEF Init, TypeOK, Breakers
    <3> QED
      BY <2>2, <3>2, <3>3, SentenceIsHalted
  <2>5. ~breaker.tripped
    BY DEF Init
  <2> QED
    BY <2>3, <2>4, <2>5 DEF TripInv, TripsAsDocumented
<1>2. TypeOK /\ TypeOK' /\ TripInv /\ [Next]_vars => TripInv'
  <2> SUFFICES ASSUME TypeOK, TypeOK', TripInv, [Next]_vars PROVE TripInv'
    OBVIOUS
  <2>0. /\ "no order" \in Results /\ "blocked" \in Results
        /\ "approved" \in Results /\ "rejected" \in Results
    BY DEF Results
  <2>1. CASE EventOnly
    BY <2>0, <2>1, EventKeepsTrip DEF EventOnly
  <2>2. CASE OrderBlocked
    BY <2>0, <2>2, EventKeepsTrip DEF OrderBlocked
  <2>3. CASE OrderApproved
    BY <2>0, <2>3, EventKeepsTrip DEF OrderApproved
  <2>4. CASE OrderRejected
    BY <2>0, <2>4, EventKeepsTrip DEF OrderRejected
  <2>5. CASE UNCHANGED vars
    <3>1. breaker' = breaker /\ log' = log
      BY <2>5 DEF vars
    <3>2. \A w, i : RejectionsUpTo(w, i)' = RejectionsUpTo(w, i)
      BY <3>1 DEF RejectionsUpTo, WindowOf
    <3>3. CountsWindow'
      BY <3>1, <3>2 DEF TripInv, CountsWindow, WindowOf
    <3>4. ShouldBeTripped' <=> ShouldBeTripped
      BY <3>1, <3>2 DEF ShouldBeTripped, WindowOf
    <3> QED
      BY <3>1, <3>3, <3>4, Zenon DEF TripInv, TripsAsDocumented
  <2> QED
    BY <2>1, <2>2, <2>3, <2>4, <2>5 DEF Next, Event, Stopped
<1>3. TripInv => TripsAsDocumented
  BY DEF TripInv
<1> QED
  BY <1>1, <1>2, <1>3, TypeCorrect, PTL DEF Spec

=============================================================================
