-------------------------- MODULE WSClient_proofs --------------------------
(***************************************************************************)
(* For every timeout, back-off and slice: the client does not listen to a  *)
(* silent connection for longer than the heartbeat timeout and one read,   *)
(* does not keep stop() waiting, and does not dial before the documented   *)
(* pause is over.                                                          *)
(***************************************************************************)
EXTENDS WSClient, TLAPS, WellFoundedInduction

\* The time that k reads may take.
Reading(k) == k * ReadLimit

\* The blocking calls and their limits; outside a connection nothing is heard.
LimitsInv ==
  /\ pc = "read" => limit <= ReadLimit
  /\ pc = "callback" => limit <= PushLimit
  /\ pc = "sleep" => limit <= NextSlice(remaining)
  /\ pc \in {"off", "top", "dial", "sleep", "exited"} => silent = 0

\* How long a connection has been silent, by where the thread is: every piece
\* of a message bought one more read.
SilenceInv ==
  /\ quiet = silent
  /\ pc = "read" => silent + limit <= HeartbeatTimeout + Reading(pieces + 1)
  /\ pc = "callback" => silent + limit <= PushLimit
  /\ pc = "test" => silent <= HeartbeatTimeout + Reading(MaxPieces)

\* How long stop() has waited, by where the thread is.
StopInv ==
  /\ running \/ pc \in {"off", "dial"} => stopAge = 0
  /\ pc = "sleep" => stopAge + limit <= Slice
  /\ pc = "read" => stopAge + limit <= Reading(pieces + 1)
  /\ pc = "callback" => stopAge + limit <= Reading(MaxPieces) + PushLimit
  /\ stopAge <= Greatest(Slice, Reading(MaxPieces) + PushLimit)

\* The back-off that the next exception will sleep, and how much of the pause is
\* over.
PauseInv ==
  /\ pc \in {"top", "dial", "test", "read", "callback"} =>
       backoff >= Least(Doublings[fails], BackoffMax)
  /\ pc = "sleep" =>
       /\ fails > 0 /\ backoff >= Least(Doublings[fails - 1], BackoffMax)
       /\ remaining <= backoff
       /\ sinceDial + remaining + limit >= backoff + NextSlice(remaining)
  /\ pc \in {"test", "read", "callback"} => fails = 0 /\ silent <= sinceDial
  /\ pc = "top" /\ running => sinceDial >= Pause

ClockInv == LimitsInv /\ SilenceInv /\ StopInv /\ PauseInv

Inv == TypeOK /\ ClockInv

-----------------------------------------------------------------------------
\* A set of naturals with 0 and every successor has all of them.
LEMMA SetInduction ==
  ASSUME NEW S, 0 \in S, \A n \in Nat : n \in S => n + 1 \in S
  PROVE  Nat \subseteq S
PROOF
<1> SUFFICES ASSUME NEW T, T = Nat \ S, T # {} PROVE FALSE
  OBVIOUS
<1> DEFINE before == {p \in Nat \X Nat : p[1] < p[2]}
<1>1. IsWellFoundedOn(before, Nat)
  BY NatLessThanWellFounded, Zenon DEF OpToRel
<1>2. PICK x \in T : \A y \in T : ~(<<y, x>> \in before)
  BY <1>1, WFMin, Zenon
<1>3. \A y \in T : ~(y < x)
  BY <1>2
<1>4. x \in Nat /\ x \notin S /\ x # 0
  BY <1>2
<1>5. x - 1 \in Nat /\ x - 1 < x /\ (x - 1) + 1 = x
  BY <1>4
<1>6. x - 1 \in S
  BY <1>3, <1>5
<1> QED
  BY <1>4, <1>5, <1>6

\* A function may be defined by recursion along 0..m, given its first value and
\* the function that leads from each value to the next.
Recursive(g, V, first, m, F) ==
  /\ g \in [0..m -> V]
  /\ g = [i \in 0..m |-> IF i = 0 THEN first ELSE F[i][g[i - 1]]]

LEMMA Recursion ==
  ASSUME NEW V, NEW first \in V, NEW m \in Nat, NEW F \in [1..m -> [V -> V]]
  PROVE  \E g : Recursive(g, V, first, m, F)
PROOF
<1> DEFINE Upto(n) == \E g : /\ g \in [0..n -> V]
                             /\ g[0] = first
                             /\ \A i \in 1..n : g[i] = F[i][g[i - 1]]
           S == {n \in Nat : n <= m => Upto(n)}
<1>1. 0 \in S
  <2>1. [i \in 0..0 |-> first] \in [0..0 -> V]
    OBVIOUS
  <2>2. Upto(0)
    <3> WITNESS [i \in 0..0 |-> first]
    <3> QED
      BY <2>1
  <2> QED
    BY <2>2
<1>2. ASSUME NEW n \in Nat, n \in S PROVE n + 1 \in S
  <2> SUFFICES ASSUME n + 1 <= m PROVE Upto(n + 1)
    OBVIOUS
  <2>1. PICK g : /\ g \in [0..n -> V]
                 /\ g[0] = first
                 /\ \A i \in 1..n : g[i] = F[i][g[i - 1]]
    BY <1>2
  <2> DEFINE h == [i \in 0..(n + 1) |-> IF i <= n THEN g[i] ELSE F[n + 1][g[n]]]
  <2>2. F[n + 1] \in [V -> V] /\ g[n] \in V
    BY <2>1
  <2>3. h \in [0..(n + 1) -> V]
    BY <2>1, <2>2
  <2>4. h[0] = first
    BY <2>1
  <2>5. ASSUME NEW i \in 1..(n + 1) PROVE h[i] = F[i][h[i - 1]]
    <3>1. i - 1 \in 0..n /\ h[i - 1] = g[i - 1]
      OBVIOUS
    <3>2. CASE i \in 1..n
      BY <2>1, <3>1, <3>2
    <3>3. CASE i = n + 1
      BY <3>1, <3>3
    <3> QED
      BY <3>2, <3>3
  <2> HIDE DEF h
  <2> QED
    BY <2>3, <2>4, <2>5
<1> HIDE DEF S
<1>3. m \in S
  BY <1>1, <1>2, SetInduction
<1>4. PICK g : /\ g \in [0..m -> V]
               /\ g[0] = first
               /\ \A i \in 1..m : g[i] = F[i][g[i - 1]]
  BY <1>3 DEF S
<1>5. g = [i \in 0..m |-> IF i = 0 THEN first ELSE F[i][g[i - 1]]]
  BY <1>4
<1> QED
  BY <1>4, <1>5 DEF Recursive

-----------------------------------------------------------------------------
\* What the assumptions say of each constant.
LEMMA Constants ==
  /\ HeartbeatTimeout \in Nat /\ HeartbeatTimeout > 0
  /\ BackoffInitial \in Nat /\ BackoffInitial > 0
  /\ Slice \in Nat /\ Slice > 0 /\ ReadLimit \in Nat /\ ReadLimit > 0
  /\ MaxPieces \in Nat /\ MaxPieces > 0 /\ MaxFails \in Nat /\ MaxFails > 0
  /\ BackoffMax \in Nat /\ PushLimit \in Nat
  /\ BackoffInitial <= BackoffMax /\ PushLimit <= HeartbeatTimeout
BY WSAssumption

\* How long the pieces of a message may take.
LEMMA ReadingFacts ==
  /\ \A k \in Nat : Reading(k) \in Nat /\ Reading(k + 1) = Reading(k) + ReadLimit
  /\ \A k \in 0..(MaxPieces - 1) : Reading(k + 1) <= Reading(MaxPieces)
  /\ \A k \in Nat : ReadLimit <= Reading(k + 1)
PROOF
<1>1. ASSUME NEW k \in Nat
      PROVE  k * ReadLimit \in Nat /\ (k + 1) * ReadLimit = k * ReadLimit + ReadLimit
  BY Constants
<1>2. ASSUME NEW k \in 0..(MaxPieces - 1)
      PROVE  (k + 1) * ReadLimit <= MaxPieces * ReadLimit
  <2> DEFINE d == MaxPieces - (k + 1)
  <2>1. d \in Nat /\ MaxPieces = (k + 1) + d /\ k \in Nat
    BY Constants
  <2> HIDE DEF d
  <2>2. d * ReadLimit \in Nat
    BY <2>1, Constants
  <2>3. MaxPieces * ReadLimit = (k + 1) * ReadLimit + d * ReadLimit
    BY <2>1, Constants
  <2>4. (k + 1) * ReadLimit \in Nat
    BY <2>1, Constants
  <2> QED
    BY <2>2, <2>3, <2>4
<1> QED
  BY <1>1, <1>2, Constants DEF Reading

\* The properties' clocks do not reach their bound before the properties fail.
LEMMA AgeFacts ==
  /\ MaxAge \in Nat /\ MaxAge > HeartbeatTimeout + Reading(MaxPieces)
  /\ MaxAge > BackoffMax /\ MaxAge > 0
  /\ \A t \in 0..MaxAge : /\ Later(t) \in 0..MaxAge
                          /\ t <= Later(t) /\ Later(t) <= t + 1
                          /\ t < MaxAge => Later(t) = t + 1
PROOF
<1>1. Reading(MaxPieces) \in Nat
  BY ReadingFacts, Constants
<1>2. MaxAge = HeartbeatTimeout + Reading(MaxPieces) + BackoffMax + 1
  BY DEF MaxAge, Reading
<1>3. MaxAge \in Nat
  BY <1>1, <1>2, Constants
<1> QED
  BY <1>1, <1>2, <1>3, Constants DEF Later, Least

\* The initial back-off doubled, step by step.
LEMMA DoublingsFacts ==
  /\ Doublings \in [0..MaxFails -> Nat]
  /\ Doublings[0] = BackoffInitial
  /\ \A k \in 1..MaxFails : Doublings[k] = 2 * Doublings[k - 1]
PROOF
<1> DEFINE F == [i \in 1..MaxFails |-> [v \in Nat |-> 2 * v]]
<1>1. F \in [1..MaxFails -> [Nat -> Nat]]
  OBVIOUS
<1>a. PICK g : Recursive(g, Nat, BackoffInitial, MaxFails, F)
  <2>1. BackoffInitial \in Nat /\ MaxFails \in Nat
    BY Constants
  <2> HIDE DEF F
  <2> QED
    BY <1>1, <2>1, Recursion
<1>2. /\ g \in [0..MaxFails -> Nat]
      /\ g = [i \in 0..MaxFails |-> IF i = 0 THEN BackoffInitial ELSE F[i][g[i - 1]]]
  BY <1>a DEF Recursive
<1>3. g = [k \in 0..MaxFails |-> IF k = 0 THEN BackoffInitial ELSE 2 * g[k - 1]]
  <2>1. ASSUME NEW k \in 0..MaxFails, k # 0
        PROVE  F[k][g[k - 1]] = 2 * g[k - 1]
    <3>1. k \in 1..MaxFails /\ k - 1 \in 0..MaxFails
      BY <2>1, Constants
    <3> QED
      BY <1>2, <3>1
  <2> QED
    BY <1>2, <2>1, Zenon
<1>4. Doublings = [k \in 0..MaxFails |->
                     IF k = 0 THEN BackoffInitial ELSE 2 * Doublings[k - 1]]
  BY <1>3, Zenon DEF Doublings
<1>5. ASSUME NEW k \in 0..MaxFails PROVE Doublings[k] = g[k]
  <2> DEFINE S == {i \in Nat : i <= MaxFails => Doublings[i] = g[i]}
  <2>1. 0 \in S
    BY <1>3, <1>4, Constants
  <2>2. ASSUME NEW i \in Nat, i \in S PROVE i + 1 \in S
    BY <2>2, <1>3, <1>4, Constants
  <2> HIDE DEF S
  <2>3. k \in S
    BY <2>1, <2>2, SetInduction
  <2> QED
    BY <2>3, Constants DEF S
<1>6. Doublings \in [0..MaxFails -> Nat]
  BY <1>2, <1>4, <1>5
<1>7. \A k \in 1..MaxFails : k \in 0..MaxFails /\ k # 0
  OBVIOUS
<1>8. \A k \in 1..MaxFails : Doublings[k] = 2 * Doublings[k - 1]
  BY <1>4, <1>7, Zenon
<1>9. Doublings[0] = BackoffInitial
  BY <1>4, Constants
<1> QED
  BY <1>6, <1>8, <1>9

-----------------------------------------------------------------------------
\* The variables as numbers.
LEMMA Types ==
  ASSUME TypeOK
  PROVE  /\ backoff \in Nat /\ BackoffInitial <= backoff /\ backoff <= BackoffMax
         /\ remaining \in Nat /\ limit \in Nat /\ pieces \in 0..(MaxPieces - 1)
         /\ silent \in 0..MaxAge /\ quiet \in 0..MaxAge /\ stopAge \in 0..MaxAge
         /\ sinceDial \in 0..MaxAge
         /\ pieces \in Nat /\ silent \in Nat /\ stopAge \in Nat /\ sinceDial \in Nat
         /\ fails \in 0..MaxFails /\ running \in BOOLEAN
         /\ Doublings[fails] \in Nat
         /\ fails < MaxFails => Doublings[fails + 1] = 2 * Doublings[fails]
         /\ fails > 0 => /\ Doublings[fails - 1] \in Nat
                        /\ Doublings[fails] = 2 * Doublings[fails - 1]
PROOF
<1>1. /\ fails \in 0..MaxFails /\ fails + 1 \in Nat
      /\ fails < MaxFails => fails + 1 \in 1..MaxFails /\ (fails + 1) - 1 = fails
      /\ fails > 0 => fails \in 1..MaxFails /\ fails - 1 \in 0..MaxFails
  BY Constants DEF TypeOK
<1>2. /\ Doublings[fails] \in Nat
      /\ fails < MaxFails => Doublings[fails + 1] = 2 * Doublings[fails]
      /\ fails > 0 => /\ Doublings[fails - 1] \in Nat
                     /\ Doublings[fails] = 2 * Doublings[fails - 1]
  BY <1>1, DoublingsFacts
<1>3. /\ backoff \in Nat /\ BackoffInitial <= backoff /\ backoff <= BackoffMax
      /\ remaining \in Nat /\ limit \in Nat /\ pieces \in 0..(MaxPieces - 1)
      /\ silent \in 0..MaxAge /\ quiet \in 0..MaxAge /\ stopAge \in 0..MaxAge
      /\ sinceDial \in 0..MaxAge /\ running \in BOOLEAN
  BY Constants DEF TypeOK
<1> QED
  BY <1>1, <1>2, <1>3

\* start().
LEMMA StartKeeps ==
  ASSUME Inv, Start
  PROVE  Inv'
PROOF
<1> USE Types, Constants DEF Inv, ClockInv
<1>1. TypeOK'
  BY AgeFacts DEF Start, TypeOK, Greatest
<1>2. LimitsInv'
  BY DEF Start, LimitsInv, TypeOK
<1>3. SilenceInv'
  BY ReadingFacts, AgeFacts DEF Start, SilenceInv, LimitsInv, TypeOK
<1>4. StopInv'
  BY ReadingFacts, AgeFacts
     DEF Start, StopInv, LimitsInv, TypeOK, Greatest, NextSlice, Least
<1>5. PauseInv'
  <2>1. /\ pc' = "top" /\ fails' = 0 /\ backoff' = BackoffInitial /\ sinceDial' = MaxAge
    BY DEF Start
  <2>2. Doublings[fails'] = BackoffInitial
    BY <2>1, DoublingsFacts
  <2>3. ReadLimit \in Nat /\ MaxAge \in Nat /\ MaxAge > HeartbeatTimeout
    BY AgeFacts, ReadingFacts
  <2> QED
    BY <2>1, <2>2, <2>3 DEF PauseInv, Pause, Least
<1> QED
  BY <1>1, <1>2, <1>3, <1>4, <1>5

\* stop().
LEMMA StopKeeps ==
  ASSUME Inv, Stop
  PROVE  Inv'
PROOF
<1> USE Types, Constants DEF Inv, ClockInv
<1>1. TypeOK'
  <2> HIDE Types, Constants
  <2>1. running' \in BOOLEAN
    BY Zenon DEF Stop
  <2>2. stopAge' \in 0..MaxAge
    BY AgeFacts DEF Stop
  <2>3. UNCHANGED <<pc, backoff, remaining, limit, pieces, silent, quiet, sinceDial, fails>>
    BY DEF Stop
  <2> QED
    BY <2>1, <2>2, <2>3 DEF TypeOK
<1>2. LimitsInv'
  BY DEF Stop, LimitsInv, TypeOK
<1>3. SilenceInv'
  BY ReadingFacts, AgeFacts DEF Stop, SilenceInv, LimitsInv, TypeOK
<1>4. StopInv'
  BY ReadingFacts, AgeFacts
     DEF Stop, StopInv, LimitsInv, TypeOK, Greatest, NextSlice, Least
<1>5. PauseInv'
  BY AgeFacts, DoublingsFacts DEF Stop, PauseInv, TypeOK, Pause, Least
<1> QED
  BY <1>1, <1>2, <1>3, <1>4, <1>5

\* The join of stop().
LEMMA JoinKeeps ==
  ASSUME Inv, Join
  PROVE  Inv'
PROOF
<1> USE Types, Constants DEF Inv, ClockInv
<1>1. TypeOK'
  BY AgeFacts DEF Join, TypeOK, Greatest
<1>2. LimitsInv'
  BY DEF Join, LimitsInv, TypeOK
<1>3. SilenceInv'
  BY ReadingFacts, AgeFacts DEF Join, SilenceInv, LimitsInv, TypeOK
<1>4. StopInv'
  BY ReadingFacts, AgeFacts
     DEF Join, StopInv, LimitsInv, TypeOK, Greatest, NextSlice, Least
<1>5. PauseInv'
  BY AgeFacts, DoublingsFacts DEF Join, PauseInv, TypeOK, Pause, Least
<1> QED
  BY <1>1, <1>2, <1>3, <1>4, <1>5

\* The outer loop of run().
LEMMA TopKeeps ==
  ASSUME Inv, Top
  PROVE  Inv'
PROOF
<1> USE Types, Constants DEF Inv, ClockInv
<1>1. TypeOK'
  BY AgeFacts DEF Top, TypeOK, Greatest
<1>2. LimitsInv'
  BY DEF Top, LimitsInv, TypeOK
<1>3. SilenceInv'
  BY ReadingFacts, AgeFacts DEF Top, SilenceInv, LimitsInv, TypeOK
<1>4. StopInv'
  BY ReadingFacts, AgeFacts
     DEF Top, StopInv, LimitsInv, TypeOK, Greatest, NextSlice, Least
<1>5. PauseInv'
  BY AgeFacts, DoublingsFacts DEF Top, PauseInv, TypeOK, Pause, Least
<1> QED
  BY <1>1, <1>2, <1>3, <1>4, <1>5

\* A dial that succeeds.
LEMMA ConnectedKeeps ==
  ASSUME Inv, Connected
  PROVE  Inv'
PROOF
<1> USE Types, Constants DEF Inv, ClockInv
<1>1. TypeOK'
  BY AgeFacts DEF Connected, TypeOK, Greatest
<1>2. LimitsInv'
  BY DEF Connected, LimitsInv, TypeOK
<1>3. SilenceInv'
  BY ReadingFacts, AgeFacts DEF Connected, SilenceInv, LimitsInv, TypeOK
<1>4. StopInv'
  BY ReadingFacts, AgeFacts
     DEF Connected, StopInv, LimitsInv, TypeOK, Greatest, NextSlice, Least
<1>5. PauseInv'
  BY AgeFacts, DoublingsFacts DEF Connected, PauseInv, TypeOK, Pause, Least
<1> QED
  BY <1>1, <1>2, <1>3, <1>4, <1>5

\* The handler of an exception, from a dial or from a read.
LEMMA CaughtKeeps ==
  ASSUME Inv, pc \in {"dial", "read"}, Caught
  PROVE  Inv'
PROOF
<1> USE Types, Constants DEF Inv, ClockInv
<1>1. TypeOK'
  BY AgeFacts DEF Caught, TypeOK, Greatest, Least, NextSlice
<1>2. LimitsInv'
  BY DEF Caught, LimitsInv, TypeOK, NextSlice, Least
<1>3. SilenceInv'
  BY DEF Caught, SilenceInv, TypeOK
<1>4. StopInv'
  BY ReadingFacts DEF Caught, StopInv, TypeOK, Greatest, NextSlice, Least
<1>5. PauseInv'
  <2>1. /\ running' = running /\ backoff' = backoff /\ sinceDial' = sinceDial
        /\ fails' = IF fails < MaxFails THEN fails + 1 ELSE MaxFails
        /\ pc' \in {"sleep", "exited"}
        /\ pc' = "sleep" => remaining' = backoff /\ limit' = NextSlice(backoff)
    BY DEF Caught, Least
  <2>2. backoff >= Least(Doublings[fails], BackoffMax)
    BY DEF PauseInv
  <2>3. fails' > 0 /\ backoff >= Least(Doublings[fails' - 1], BackoffMax)
    <3>1. CASE fails < MaxFails
      <4>1. fails' = fails + 1 /\ fails' - 1 = fails
        BY <2>1, <3>1
      <4> QED
        BY <2>2, <4>1
    <3>2. CASE ~(fails < MaxFails)
      <4>1. fails = MaxFails /\ fails' = fails /\ fails > 0
        BY <2>1, <3>2
      <4>2. Doublings[fails - 1] \in Nat /\ Doublings[fails] = 2 * Doublings[fails - 1]
        BY <4>1
      <4> HIDE Types
      <4> QED
        BY <2>2, <4>1, <4>2, Types DEF Least
    <3> QED
      BY <3>1, <3>2
  <2>4. backoff + NextSlice(backoff) <= sinceDial + backoff + NextSlice(backoff)
    BY DEF NextSlice, Least
  <2> QED
    BY <2>1, <2>3, <2>4 DEF PauseInv
<1> QED
  BY <1>1, <1>2, <1>3, <1>4, <1>5

\* The end of a slice of the back-off sleep.
LEMMA SliceEndKeeps ==
  ASSUME Inv, SliceEnd
  PROVE  Inv'
PROOF
<1> USE Types, Constants DEF Inv, ClockInv
<1>1. TypeOK'
  BY AgeFacts DEF SliceEnd, TypeOK, Greatest, Least, NextSlice, Doubled
<1>2. LimitsInv'
  BY DEF SliceEnd, LimitsInv, TypeOK, Least, NextSlice
<1>3. SilenceInv'
  BY ReadingFacts, AgeFacts DEF SliceEnd, SilenceInv, LimitsInv, TypeOK
<1>4. StopInv'
  BY ReadingFacts, AgeFacts
     DEF SliceEnd, StopInv, LimitsInv, TypeOK, Greatest, NextSlice, Least
<1>5. PauseInv'
  <2> DEFINE left == remaining - NextSlice(remaining)
  <2>1. /\ NextSlice(remaining) \in Nat /\ NextSlice(remaining) <= remaining
        /\ left \in Nat /\ NextSlice(left) \in Nat
    BY DEF NextSlice, Least
  <2>2. /\ pc = "sleep" /\ limit = 0 /\ fails' = fails /\ running' = running
        /\ sinceDial' = sinceDial
    BY DEF SliceEnd
  <2>3. /\ fails > 0 /\ backoff >= Least(Doublings[fails - 1], BackoffMax)
        /\ remaining <= backoff
        /\ sinceDial + remaining + limit >= backoff + NextSlice(remaining)
    BY <2>2 DEF PauseInv
  <2>4. CASE left > 0 /\ running
    <3>1. /\ pc' = "sleep" /\ backoff' = backoff /\ remaining' = left
          /\ limit' = NextSlice(left)
      BY <2>2, <2>4 DEF SliceEnd
    <3>2. /\ left <= backoff
          /\ sinceDial + left + NextSlice(left) >= backoff + NextSlice(left)
      BY <2>1, <2>2, <2>3
    <3> HIDE DEF left
    <3> QED
      BY <2>2, <2>3, <3>1, <3>2 DEF PauseInv
  <2>5. CASE ~(left > 0 /\ running)
    <3>1. pc' = "top" /\ backoff' = Doubled(backoff)
      BY <2>2, <2>5 DEF SliceEnd
    <3>2. Doublings[fails - 1] \in Nat /\ Doublings[fails] = 2 * Doublings[fails - 1]
      BY <2>3
    <3>3. Doubled(backoff) >= Least(Doublings[fails], BackoffMax)
      BY <2>3, <3>2 DEF Doubled, Least
    <3>4. running => sinceDial >= Pause
      <4>1. running => left = 0
        BY <2>1, <2>5
      <4>2. running => sinceDial >= backoff
        BY <4>1, <2>1, <2>2, <2>3
      <4> QED
        BY <2>3, <4>2, <3>2 DEF Pause, Least
    <3> HIDE DEF left
    <3> QED
      BY <2>2, <3>1, <3>3, <3>4 DEF PauseInv, Pause
  <2> QED
    BY <2>4, <2>5
<1> QED
  BY <1>1, <1>2, <1>3, <1>4, <1>5

\* The test of the read loop.
LEMMA ReadTestKeeps ==
  ASSUME Inv, ReadTest
  PROVE  Inv'
PROOF
<1> USE Types, Constants DEF Inv, ClockInv
<1>1. TypeOK'
  BY AgeFacts DEF ReadTest, TypeOK, Greatest
<1>2. LimitsInv'
  BY DEF ReadTest, LimitsInv, TypeOK
<1>3. SilenceInv'
  BY ReadingFacts, AgeFacts DEF ReadTest, SilenceInv, LimitsInv, TypeOK
<1>4. StopInv'
  BY ReadingFacts, AgeFacts
     DEF ReadTest, StopInv, LimitsInv, TypeOK, Greatest, NextSlice, Least
<1>5. PauseInv'
  <2>1. /\ fails = 0 /\ silent <= sinceDial
        /\ backoff >= Least(Doublings[fails], BackoffMax)
        /\ fails' = fails /\ running' = running /\ sinceDial' = sinceDial
        /\ backoff' = backoff
    BY DEF PauseInv, ReadTest
  <2>2. CASE running /\ silent <= HeartbeatTimeout
    BY <2>1, <2>2 DEF PauseInv, ReadTest
  <2>3. CASE ~(running /\ silent <= HeartbeatTimeout)
    BY <2>1, <2>3 DEF PauseInv, Pause, ReadTest
  <2> QED
    BY <2>2, <2>3
<1> QED
  BY <1>1, <1>2, <1>3, <1>4, <1>5

\* A recv that timed out.
LEMMA ReadTimeoutKeeps ==
  ASSUME Inv, ReadTimeout
  PROVE  Inv'
PROOF
<1> USE Types, Constants DEF Inv, ClockInv
<1>1. TypeOK'
  BY AgeFacts DEF ReadTimeout, TypeOK, Greatest
<1>2. LimitsInv'
  BY DEF ReadTimeout, LimitsInv, TypeOK
<1>3. SilenceInv'
  BY ReadingFacts, AgeFacts DEF ReadTimeout, SilenceInv, LimitsInv, TypeOK
<1>4. StopInv'
  BY ReadingFacts, AgeFacts
     DEF ReadTimeout, StopInv, LimitsInv, TypeOK, Greatest, NextSlice, Least
<1>5. PauseInv'
  BY AgeFacts, DoublingsFacts DEF ReadTimeout, PauseInv, TypeOK, Pause, Least
<1> QED
  BY <1>1, <1>2, <1>3, <1>4, <1>5

\* A piece of a message.
LEMMA ReadPieceKeeps ==
  ASSUME Inv, ReadPiece
  PROVE  Inv'
PROOF
<1> USE Types, Constants DEF Inv, ClockInv
<1>1. TypeOK'
  BY AgeFacts DEF ReadPiece, TypeOK, Greatest
<1>2. LimitsInv'
  BY DEF ReadPiece, LimitsInv, TypeOK
<1>3. SilenceInv'
  BY ReadingFacts, AgeFacts DEF ReadPiece, SilenceInv, LimitsInv, TypeOK
<1>4. StopInv'
  BY ReadingFacts, AgeFacts
     DEF ReadPiece, StopInv, LimitsInv, TypeOK, Greatest, NextSlice, Least
<1>5. PauseInv'
  BY AgeFacts, DoublingsFacts DEF ReadPiece, PauseInv, TypeOK, Pause, Least
<1> QED
  BY <1>1, <1>2, <1>3, <1>4, <1>5

\* A message that parses.
LEMMA ReadMessageKeeps ==
  ASSUME Inv, NEW busy \in 0..PushLimit, ReadMessage(busy)
  PROVE  Inv'
PROOF
<1> USE Types, Constants DEF Inv, ClockInv
<1>1. TypeOK'
  BY AgeFacts DEF ReadMessage, TypeOK, Greatest
<1>2. LimitsInv'
  BY DEF ReadMessage, LimitsInv, TypeOK
<1>3. SilenceInv'
  BY ReadingFacts, AgeFacts DEF ReadMessage, SilenceInv, LimitsInv, TypeOK
<1>4. StopInv'
  BY ReadingFacts, AgeFacts
     DEF ReadMessage, StopInv, LimitsInv, TypeOK, Greatest, NextSlice, Least
<1>5. PauseInv'
  BY AgeFacts, DoublingsFacts DEF ReadMessage, PauseInv, TypeOK, Pause, Least
<1> QED
  BY <1>1, <1>2, <1>3, <1>4, <1>5

\* The end of the callback.
LEMMA CallbackEndKeeps ==
  ASSUME Inv, CallbackEnd
  PROVE  Inv'
PROOF
<1> USE Types, Constants DEF Inv, ClockInv
<1>1. TypeOK'
  BY AgeFacts DEF CallbackEnd, TypeOK, Greatest
<1>2. LimitsInv'
  BY DEF CallbackEnd, LimitsInv, TypeOK
<1>3. SilenceInv'
  BY ReadingFacts, AgeFacts DEF CallbackEnd, SilenceInv, LimitsInv, TypeOK
<1>4. StopInv'
  BY ReadingFacts, AgeFacts
     DEF CallbackEnd, StopInv, LimitsInv, TypeOK, Greatest, NextSlice, Least
<1>5. PauseInv'
  BY AgeFacts, DoublingsFacts DEF CallbackEnd, PauseInv, TypeOK, Pause, Least
<1> QED
  BY <1>1, <1>2, <1>3, <1>4, <1>5

\* A message that does not parse.
LEMMA ReadParseErrorKeeps ==
  ASSUME Inv, ReadParseError
  PROVE  Inv'
PROOF
<1> USE Types, Constants DEF Inv, ClockInv
<1>1. TypeOK'
  BY AgeFacts DEF ReadParseError, TypeOK, Greatest
<1>2. LimitsInv'
  BY DEF ReadParseError, LimitsInv, TypeOK
<1>3. SilenceInv'
  BY ReadingFacts, AgeFacts DEF ReadParseError, SilenceInv, LimitsInv, TypeOK
<1>4. StopInv'
  BY ReadingFacts, AgeFacts
     DEF ReadParseError, StopInv, LimitsInv, TypeOK, Greatest, NextSlice, Least
<1>5. PauseInv'
  BY AgeFacts, DoublingsFacts DEF ReadParseError, PauseInv, TypeOK, Pause, Least
<1> QED
  BY <1>1, <1>2, <1>3, <1>4, <1>5

\* A unit of time.
LEMMA TickKeeps ==
  ASSUME Inv, Tick
  PROVE  Inv'
PROOF
<1> USE Types, Constants DEF Inv, ClockInv
<1>1. TypeOK'
  BY AgeFacts DEF Tick, TypeOK, Greatest, Limited
<1>2. LimitsInv'
  <2>1. /\ pc' = pc /\ remaining' = remaining
        /\ pc # "dial" => limit' = limit - 1 /\ limit > 0
        /\ pc \in {"dial", "read", "callback", "sleep"}
        /\ pc \notin {"read", "callback"} => silent' = silent
    BY DEF Tick, Limited
  <2>2. NextSlice(remaining) \in Int
    BY DEF NextSlice, Least
  <2> QED
    BY <2>1, <2>2 DEF LimitsInv, NextSlice
<1>3. SilenceInv'
  BY ReadingFacts, AgeFacts DEF Tick, SilenceInv, LimitsInv, TypeOK, Limited
<1>4. StopInv'
  BY ReadingFacts, AgeFacts
     DEF Tick, StopInv, LimitsInv, TypeOK, Greatest, NextSlice, Least, Limited
<1>5. PauseInv'
  <2>1. /\ pc' = pc /\ running' = running /\ backoff' = backoff
        /\ remaining' = remaining /\ fails' = fails
        /\ sinceDial' = Later(sinceDial)
        /\ pc \in {"dial", "read", "callback", "sleep"}
    BY DEF Tick, Limited
  <2>2. Later(sinceDial) \in Nat /\ sinceDial <= Later(sinceDial)
    BY AgeFacts
  <2>3. CASE pc \in {"read", "callback"}
    <3>1. silent' = Later(silent) /\ fails = 0 /\ silent <= sinceDial
      BY <2>3 DEF Tick, PauseInv
    <3>2. Later(silent) <= Later(sinceDial)
      BY <3>1, AgeFacts DEF Later, Least
    <3> QED
      BY <2>1, <2>3, <3>1, <3>2 DEF PauseInv
  <2>4. CASE pc = "dial"
    BY <2>1, <2>4 DEF PauseInv
  <2>5. CASE pc = "sleep"
    <3>1. limit > 0 /\ limit' = limit - 1
      BY <2>5 DEF Tick, Limited
    <3>2. /\ fails > 0 /\ backoff >= Least(Doublings[fails - 1], BackoffMax)
          /\ remaining <= backoff
          /\ sinceDial + remaining + limit >= backoff + NextSlice(remaining)
      BY <2>5 DEF PauseInv
    <3>3. NextSlice(remaining) \in Nat /\ NextSlice(remaining) <= remaining
      BY DEF NextSlice, Least
    <3>4. Later(sinceDial) + remaining + (limit - 1) >= backoff + NextSlice(remaining)
      <4>1. CASE sinceDial < MaxAge
        <5>1. Later(sinceDial) = sinceDial + 1
          BY <4>1, AgeFacts
        <5> QED
          BY <3>1, <3>2, <3>3, <5>1
      <4>2. CASE ~(sinceDial < MaxAge)
        <5>1. Later(sinceDial) >= BackoffMax
          BY <4>2, <2>2, AgeFacts
        <5> QED
          BY <2>2, <3>1, <3>3, <5>1
      <4> QED
        BY <4>1, <4>2
    <3> QED
      BY <2>1, <2>5, <3>1, <3>2, <3>4 DEF PauseInv
  <2> QED
    BY <2>1, <2>3, <2>4, <2>5
<1> QED
  BY <1>1, <1>2, <1>3, <1>4, <1>5

\* The invariant holds at the start.
LEMMA InitInv == Init => Inv
PROOF
<1> SUFFICES ASSUME Init PROVE Inv
  OBVIOUS
<1> USE Constants DEF Init
<1>1. TypeOK
  <2>1. 0 \in 0..MaxAge /\ MaxAge \in 0..MaxAge
    BY AgeFacts
  <2>2. 0 \in 0..Greatest(ReadLimit, Greatest(Slice, PushLimit))
    BY DEF Greatest
  <2>3. running \in BOOLEAN
    BY Zenon
  <2>4. /\ pc = "off" /\ backoff = BackoffInitial /\ remaining = 0 /\ limit = 0
        /\ pieces = 0 /\ silent = 0 /\ quiet = 0 /\ stopAge = 0 /\ sinceDial = MaxAge
        /\ fails = 0
    OBVIOUS
  <2> HIDE DEF Init
  <2> QED
    BY <2>1, <2>2, <2>3, <2>4 DEF TypeOK
<1>2. LimitsInv /\ SilenceInv
  BY DEF LimitsInv, SilenceInv
<1>3. StopInv
  BY ReadingFacts DEF StopInv, Greatest
<1>4. PauseInv
  BY DEF PauseInv
<1> QED
  BY <1>1, <1>2, <1>3, <1>4 DEF Inv, ClockInv

\* Every step keeps the invariant.
LEMMA NextInv == Inv /\ [Next]_vars => Inv'
PROOF
<1> SUFFICES ASSUME Inv, [Next]_vars PROVE Inv'
  OBVIOUS
<1>1. CASE Start \/ Stop \/ Join \/ Tick
  BY <1>1, StartKeeps, StopKeeps, JoinKeeps, TickKeeps
<1>2. CASE Thread
  BY <1>2, TopKeeps, SliceEndKeeps, ReadTestKeeps, ReadTimeoutKeeps, CallbackEndKeeps
     DEF Thread
<1>3. CASE Peer
  BY <1>3, ConnectedKeeps, CaughtKeeps, ReadPieceKeeps, ReadParseErrorKeeps,
     ReadMessageKeeps DEF Peer, DialFails, ReadFails
<1>4. CASE UNCHANGED vars
  <2>1. UNCHANGED <<running, pc, backoff, remaining, limit, pieces, silent, quiet,
                    stopAge, sinceDial, fails>>
    BY <1>4 DEF vars
  <2>2. TypeOK'
    BY <2>1 DEF Inv, TypeOK
  <2>3. ClockInv'
    BY <2>1 DEF Inv, ClockInv, LimitsInv, SilenceInv, StopInv, PauseInv, Pause
  <2> QED
    BY <2>2, <2>3 DEF Inv
<1> QED
  BY <1>1, <1>2, <1>3, <1>4 DEF Next

\* The inductive invariant.
LEMMA Invariance == Spec => []Inv
BY InitInv, NextInv, PTL DEF Spec

-----------------------------------------------------------------------------
\* Type correctness.
THEOREM TypeCorrect == Spec => []TypeOK
PROOF
<1>1. Inv => TypeOK
  BY DEF Inv
<1> QED
  BY <1>1, Invariance, PTL

\* The dead-man timer of the read loop: no connection without a valid message is
\* listened to for longer than the heartbeat timeout and one read, however the
\* messages are cut and whether or not they parse.
THEOREM SilenceIsEnded == Spec => []SilenceEnds
PROOF
<1>1. Inv => SilenceEnds
  <2> SUFFICES ASSUME Inv PROVE SilenceEnds
    OBVIOUS
  <2>1. quiet <= HeartbeatTimeout + Reading(MaxPieces)
    BY Types, Constants, ReadingFacts
       DEF Inv, ClockInv, LimitsInv, SilenceInv, TypeOK
  <2> QED
    BY <2>1 DEF SilenceEnds, Reading
<1> QED
  BY <1>1, Invariance, PTL

\* stop() waits for a slice of the back-off, or for one read and one callback,
\* and no longer; only a dial may take more time.
THEOREM StopIsPrompt == Spec => []StopPrompt
PROOF
<1>1. Inv => StopPrompt
  <2> SUFFICES ASSUME Inv PROVE StopPrompt
    OBVIOUS
  <2>1. stopAge <= IF pc = "sleep" THEN Slice
                   ELSE Greatest(Slice, Reading(MaxPieces) + PushLimit)
    BY Types, Constants DEF Inv, ClockInv, StopInv
  <2> QED
    BY <2>1 DEF StopPrompt, Reading
<1> QED
  BY <1>1, Invariance, PTL

\* The outer loop of run() never dials before the pause after the last dial is
\* over: the doubled back-off after exceptions, the heartbeat timeout after a
\* silent connection.
THEOREM DialsArePaced == Spec => DialsPaced
PROOF
<1>1. Inv => (Top /\ running => sinceDial >= Pause)
  BY DEF Inv, ClockInv, PauseInv, Top
<1> QED
  BY <1>1, Invariance, PTL DEF DialsPaced

=============================================================================
