--------------------------- MODULE Logger_proofs ---------------------------
(***************************************************************************)
(* For every ring size and every set of logging threads: no two threads    *)
(* are ever inside the same record of the logger's ring, and what the      *)
(* drainer prints is every claimed record, complete and in order.          *)
(***************************************************************************)
EXTENDS Logger, TLAPS

\* The counters: what was released, what was printed, what the drainer saw and
\* what was claimed come in this order, no more than a ring apart.  The drainer
\* has nothing printed and unreleased outside its scan.
CountersOrdered ==
  /\ tail <= dTail /\ dTail <= dHead /\ dHead <= head
  /\ head <= tail + RingSize
  /\ dPc \in {"load", "test", "exited"} => dTail = tail
  /\ \A p \in Producers : pPc[p] = "claim" => pHead[p] < tail + RingSize

\* The stamps: none is ahead of the claims.
StampsClaimed == \A s \in Slots : ready[s] <= head

\* A producer inside a record: its position is its own, not printed and not
\* stamped yet, and once it has written the record, the record is its own.
WritersOwn ==
  \A p \in Producers :
    pPc[p] \in {"write", "stamp"} =>
      /\ dTail <= pHead[p] /\ pHead[p] < head
      /\ ~Stamped(pHead[p])
      /\ claimed[pHead[p] + 1] = p
      /\ pPc[p] = "stamp" => text[Slot(pHead[p])] = p

\* A stamped record that is still to be printed is complete.
StampedComplete ==
  \A pos \in dTail..(head - 1) :
    Stamped(pos) => text[Slot(pos)] = claimed[pos + 1]

\* The print is a prefix of the claims.
PrintedPrefix ==
  /\ Len(printed) = dTail
  /\ \A i \in 1..dTail : printed[i] = claimed[i]

RingInv ==
  /\ CountersOrdered /\ StampsClaimed /\ WritersOwn /\ StampedComplete
  /\ PrintedPrefix

Inv == TypeOK /\ RingInv

-----------------------------------------------------------------------------
\* Positions less than a ring apart are in different slots.
LEMMA SlotRange ==
  ASSUME NEW a \in Nat
  PROVE  Slot(a) \in Slots
BY LoggerAssumption DEF Slot, Slots

\* Positions less than a ring apart have different slots.
LEMMA SlotUnique ==
  ASSUME NEW a \in Nat, NEW b \in Nat, b < a, a < b + RingSize
  PROVE  Slot(a) # Slot(b)
PROOF
<1> DEFINE qa == a \div RingSize
           qb == b \div RingSize
           r == Slot(a)
<1> SUFFICES ASSUME Slot(b) = r PROVE FALSE
  OBVIOUS
<1>1. a = RingSize * qa + r /\ qa \in Int /\ r \in Int
  BY LoggerAssumption DEF Slot
<1>2. b = RingSize * qb + r /\ qb \in Int
  BY LoggerAssumption DEF Slot
<1> HIDE DEF qa, qb, r
<1>3. a - b = RingSize * (qa - qb)
  BY <1>1, <1>2, LoggerAssumption
<1> DEFINE k == qa - qb
<1>4. k \in Int /\ 0 < RingSize * k /\ RingSize * k < RingSize
  BY <1>1, <1>2, <1>3, LoggerAssumption
<1> HIDE DEF k
<1>5. k >= 1 \/ k <= 0
  BY <1>4
<1>6. k >= 1 => RingSize * k >= RingSize
  BY <1>4, LoggerAssumption
<1>7. k <= 0 => RingSize * k <= 0
  BY <1>4, LoggerAssumption
<1> QED
  BY <1>4, <1>5, <1>6, <1>7, LoggerAssumption

\* Two positions among those claimed and not yet printed share a slot only if
\* they are the same.
LEMMA WindowUnique ==
  ASSUME TypeOK, CountersOrdered,
         NEW a \in dTail..(head - 1), NEW b \in dTail..(head - 1), a # b
  PROVE  Slot(a) # Slot(b)
PROOF
<1>1. /\ a \in Nat /\ b \in Nat
      /\ a < b + RingSize /\ b < a + RingSize
  BY LoggerAssumption DEF TypeOK, CountersOrdered
<1>2. CASE b < a
  BY <1>1, <1>2, SlotUnique
<1>3. CASE a < b
  BY <1>1, <1>3, SlotUnique
<1> QED
  BY <1>1, <1>2, <1>3

\* The ring that does not look full has room, although the subtraction is
\* unsigned: a head that lags behind the tail looks full.
LEMMA RoomIsRoom ==
  ASSUME TypeOK, NEW h \in 0..MaxLogs, ~Saturated(h)
  PROVE  h < tail + RingSize
PROOF
<1> DEFINE d == h - tail
<1>1. /\ h \in Nat /\ tail \in Nat /\ RingSize \in Nat /\ Modulus \in Nat
      /\ d \in Int /\ d < Modulus
  BY LoggerAssumption DEF TypeOK
<1>2. ~(d % Modulus >= RingSize)
  BY DEF Saturated
<1> HIDE DEF d
<1>3. CASE d >= 0
  <2>1. d % Modulus = d
    BY <1>1, <1>3
  <2> QED
    BY <1>1, <1>2, <2>1 DEF d
<1>4. CASE d < 0
  <2>1. RingSize > 0
    BY LoggerAssumption
  <2> QED
    BY <1>1, <1>4, <2>1 DEF d
<1> QED
  BY <1>1, <1>3, <1>4

-----------------------------------------------------------------------------
\* No two threads are inside the same record.
LEMMA InvExclusive == Inv => RecordsExclusive
PROOF
<1> SUFFICES ASSUME Inv PROVE RecordsExclusive
  OBVIOUS
<1> USE DEF Inv, RingInv
<1> DEFINE writing == {p \in Producers : pPc[p] \in {"write", "stamp"}}
<1>1. \A p \in writing : /\ p \in Producers
                         /\ pHead[p] \in dTail..(head - 1)
                         /\ ~Stamped(pHead[p]) /\ claimed[pHead[p] + 1] = p
  BY DEF WritersOwn, TypeOK
<1>2. \A p, q \in writing : p # q => Slot(pHead[p]) # Slot(pHead[q])
  BY <1>1, WindowUnique
<1>3. ASSUME dTail < dHead, Stamped(dTail), NEW p \in writing
      PROVE  Slot(pHead[p]) # Slot(dTail)
  <2>1. dTail \in dTail..(head - 1)
    BY <1>3 DEF TypeOK, CountersOrdered
  <2>2. dTail # pHead[p]
    BY <1>1, <1>3
  <2> QED
    BY <1>1, <2>1, <2>2, WindowUnique
<1> QED
  BY <1>2, <1>3 DEF RecordsExclusive

\* The invariant holds at the start.
LEMMA InitInv == Init => Inv
BY LoggerAssumption
   DEF Init, Inv, TypeOK, RingInv, CountersOrdered, StampsClaimed, WritersOwn,
       StampedComplete, PrintedPrefix, Stamped, Slot, Slots

\* Steps that leave the records, the claims and the print alone.
LEMMA QuietStep ==
  ASSUME Inv, TypeOK', CountersOrdered',
         UNCHANGED <<head, ready, text, claimed, printed, dTail>>,
         \A p \in Producers : pPc'[p] \in {"write", "stamp"} =>
            pPc'[p] = pPc[p] /\ pHead'[p] = pHead[p]
  PROVE  Inv'
PROOF
<1> USE DEF Inv, RingInv
<1>1. StampsClaimed'
  BY DEF StampsClaimed
<1>2. WritersOwn'
  BY DEF WritersOwn, Stamped
<1>3. StampedComplete'
  BY DEF StampedComplete, Stamped
<1>4. PrintedPrefix'
  BY DEF PrintedPrefix
<1> QED
  BY <1>1, <1>2, <1>3, <1>4

\* One lemma for each step of log() and drainLoop() that touches the ring:
\* the producer reads the cursors, also again after a failed claim,
LEMMA LoadKeeps ==
  ASSUME Inv, NEW p \in Producers, LogLoad(p) \/ LogClaimFails(p)
  PROVE  Inv'
PROOF
<1> USE DEF LogLoad, LogClaimFails, drainerVars
<1>1. TypeOK'
  BY DEF Inv, TypeOK
<1>2. CountersOrdered'
  BY DEF Inv, RingInv, TypeOK, CountersOrdered
<1>3. \A q \in Producers : pPc'[q] \in {"write", "stamp"} =>
            pPc'[q] = pPc[q] /\ pHead'[q] = pHead[q]
  BY DEF Inv, TypeOK
<1> QED
  BY <1>1, <1>2, <1>3, QuietStep

\* it finds no room,
LEMMA DropKeeps ==
  ASSUME Inv, NEW p \in Producers, LogDrop(p)
  PROVE  Inv'
PROOF
<1> USE DEF LogDrop, drainerVars
<1>1. TypeOK'
  BY DEF Inv, TypeOK
<1>2. CountersOrdered'
  BY DEF Inv, RingInv, TypeOK, CountersOrdered
<1>3. \A q \in Producers : pPc'[q] \in {"write", "stamp"} =>
            pPc'[q] = pPc[q] /\ pHead'[q] = pHead[q]
  BY DEF Inv, TypeOK
<1> QED
  BY <1>1, <1>2, <1>3, QuietStep

\* it finds room,
LEMMA RoomKeeps ==
  ASSUME Inv, NEW p \in Producers, LogRoom(p)
  PROVE  Inv'
PROOF
<1> USE DEF LogRoom, drainerVars
<1>1. TypeOK'
  BY DEF Inv, TypeOK
<1>2. pHead[p] < tail + RingSize
  BY RoomIsRoom DEF Inv, TypeOK
<1>3. CountersOrdered'
  BY <1>2 DEF Inv, RingInv, TypeOK, CountersOrdered
<1>4. \A q \in Producers : pPc'[q] \in {"write", "stamp"} =>
            pPc'[q] = pPc[q] /\ pHead'[q] = pHead[q]
  BY DEF Inv, TypeOK
<1> QED
  BY <1>1, <1>3, <1>4, QuietStep

\* it claims a record,
LEMMA ClaimKeeps ==
  ASSUME Inv, NEW p \in Producers, LogClaim(p)
  PROVE  Inv'
PROOF
<1> USE DEF Inv, RingInv, LogClaim, drainerVars
<1>1. /\ Len(claimed) = head /\ claimed \in Seq(Producers)
      /\ head \in Nat
  BY DEF TypeOK
<1>2. /\ claimed' = Append(claimed, p) /\ claimed' \in Seq(Producers)
      /\ Len(claimed') = head' /\ claimed'[head + 1] = p
      /\ \A i \in 1..head : claimed'[i] = claimed[i]
  BY <1>1
<1>3. TypeOK'
  BY <1>2, LoggerAssumption DEF TypeOK
<1>4. CountersOrdered'
  <2>1. /\ tail \in Nat /\ dTail \in Nat /\ dHead \in Nat /\ RingSize \in Nat
        /\ head < tail + RingSize
    BY <1>1, LoggerAssumption DEF TypeOK, CountersOrdered
  <2>2. \A q \in Producers : pPc'[q] = "claim" => pPc[q] = "claim"
    BY DEF TypeOK
  <2> QED
    BY <1>1, <2>1, <2>2 DEF CountersOrdered
<1>5. StampsClaimed'
  BY DEF TypeOK, StampsClaimed
<1>6. \A pos : Stamped(pos)' <=> Stamped(pos)
  BY DEF Stamped
<1>7. ~Stamped(head)
  <2>1. ready[Slot(head)] \in Nat /\ ready[Slot(head)] <= head
    BY <1>1, SlotRange DEF TypeOK, StampsClaimed
  <2> QED
    BY <1>1, <2>1 DEF Stamped
<1>8. WritersOwn'
  <2> SUFFICES ASSUME NEW q \in Producers, pPc'[q] \in {"write", "stamp"}
               PROVE  /\ dTail <= pHead[q] /\ pHead[q] < head'
                      /\ ~Stamped(pHead[q])
                      /\ claimed'[pHead[q] + 1] = q
                      /\ pPc'[q] = "stamp" => text[Slot(pHead[q])] = q
    BY <1>6 DEF WritersOwn
  <2>1. CASE q = p
    BY <2>1, <1>1, <1>2, <1>7 DEF TypeOK, CountersOrdered
  <2>2. CASE q # p
    BY <2>2, <1>1, <1>2 DEF TypeOK, WritersOwn
  <2> QED
    BY <2>1, <2>2
<1>9. StampedComplete'
  <2> SUFFICES ASSUME NEW pos \in dTail..head, Stamped(pos)
               PROVE  text[Slot(pos)] = claimed'[pos + 1]
    <3>1. head' - 1 = head
      BY <1>1
    <3> QED
      BY <1>6, <3>1 DEF StampedComplete
  <2>1. pos \in dTail..(head - 1) /\ pos + 1 \in 1..head
    BY <1>1, <1>7 DEF TypeOK
  <2> QED
    BY <2>1, <1>2 DEF StampedComplete
<1>10. PrintedPrefix'
  BY <1>1, <1>2 DEF TypeOK, CountersOrdered, PrintedPrefix
<1> QED
  BY <1>3, <1>4, <1>5, <1>8, <1>9, <1>10

\* it writes its record,
LEMMA WriteKeeps ==
  ASSUME Inv, NEW p \in Producers, LogWrite(p)
  PROVE  Inv'
PROOF
<1> USE DEF Inv, RingInv, LogWrite, drainerVars
<1>1. /\ pHead[p] \in dTail..(head - 1) /\ ~Stamped(pHead[p])
      /\ Slot(pHead[p]) \in Slots /\ claimed[pHead[p] + 1] = p
  BY SlotRange DEF TypeOK, WritersOwn
<1>2. TypeOK'
  BY <1>1 DEF TypeOK
<1>3. CountersOrdered'
  BY DEF TypeOK, CountersOrdered
<1>4. StampsClaimed'
  BY DEF StampsClaimed
<1>5. \A pos : Stamped(pos)' <=> Stamped(pos)
  BY DEF Stamped
<1>6. /\ text'[Slot(pHead[p])] = p
      /\ \A pos \in dTail..(head - 1) : pos # pHead[p] => text'[Slot(pos)] = text[Slot(pos)]
  BY <1>1, WindowUnique DEF TypeOK
<1>7. WritersOwn'
  <2> SUFFICES ASSUME NEW q \in Producers, pPc'[q] \in {"write", "stamp"}
               PROVE  /\ dTail <= pHead[q] /\ pHead[q] < head
                      /\ ~Stamped(pHead[q])
                      /\ claimed[pHead[q] + 1] = q
                      /\ pPc'[q] = "stamp" => text'[Slot(pHead[q])] = q
    BY <1>5 DEF WritersOwn
  <2>1. CASE q = p
    BY <2>1, <1>1, <1>6 DEF TypeOK
  <2>2. CASE q # p
    <3>1. /\ pPc'[q] = pPc[q] /\ pHead[q] \in dTail..(head - 1)
          /\ ~Stamped(pHead[q]) /\ claimed[pHead[q] + 1] = q
          /\ pPc'[q] = "stamp" => text[Slot(pHead[q])] = q
      BY <2>2 DEF TypeOK, WritersOwn
    <3>2. pHead[q] # pHead[p]
      BY <3>1, <1>1, <2>2
    <3>3. text'[Slot(pHead[q])] = text[Slot(pHead[q])]
      BY <3>1, <3>2, <1>6
    <3>4. dTail <= pHead[q] /\ pHead[q] < head
      BY <3>1 DEF TypeOK
    <3> QED
      BY <3>1, <3>3, <3>4
  <2> QED
    BY <2>1, <2>2
<1>8. StampedComplete'
  BY <1>1, <1>5, <1>6 DEF StampedComplete
<1>9. PrintedPrefix'
  BY DEF PrintedPrefix
<1> QED
  BY <1>2, <1>3, <1>4, <1>7, <1>8, <1>9

\* it stamps the record as complete;
LEMMA StampKeeps ==
  ASSUME Inv, NEW p \in Producers, LogStamp(p)
  PROVE  Inv'
PROOF
<1> USE DEF Inv, RingInv, LogStamp, drainerVars
<1>1. /\ pHead[p] \in dTail..(head - 1) /\ pHead[p] \in Nat /\ head \in Nat
      /\ Slot(pHead[p]) \in Slots /\ claimed[pHead[p] + 1] = p
      /\ text[Slot(pHead[p])] = p
  BY SlotRange DEF TypeOK, WritersOwn
<1>2. TypeOK'
  <2>1. pHead[p] + 1 \in 0..MaxLogs
    <3>1. head <= MaxLogs /\ dTail \in Nat
      BY LoggerAssumption DEF TypeOK
    <3> QED
      BY <1>1, <3>1, LoggerAssumption
  <2>2. ready' \in [Slots -> 0..MaxLogs]
    BY <2>1 DEF TypeOK
  <2> QED
    BY <2>2 DEF TypeOK
<1>3. CountersOrdered'
  BY DEF TypeOK, CountersOrdered
<1>4. StampsClaimed'
  BY <1>1 DEF StampsClaimed, TypeOK
<1>5. \A pos \in dTail..(head - 1) : pos # pHead[p] => (Stamped(pos)' <=> Stamped(pos))
  <2> SUFFICES ASSUME NEW pos \in dTail..(head - 1), pos # pHead[p]
               PROVE  ready'[Slot(pos)] = ready[Slot(pos)]
    BY DEF Stamped, Slot
  <2>1. Slot(pos) # Slot(pHead[p])
    BY <1>1, WindowUnique
  <2>2. Slot(pos) \in Slots
    BY SlotRange DEF TypeOK
  <2> QED
    BY <2>1, <2>2 DEF TypeOK
<1>6. WritersOwn'
  <2> SUFFICES ASSUME NEW q \in Producers, pPc'[q] \in {"write", "stamp"}
               PROVE  /\ dTail <= pHead[q] /\ pHead[q] < head
                      /\ ~Stamped(pHead[q])'
                      /\ claimed[pHead[q] + 1] = q
                      /\ pPc'[q] = "stamp" => text[Slot(pHead[q])] = q
    BY DEF WritersOwn
  <2>1. q # p /\ pPc'[q] = pPc[q]
    BY DEF TypeOK
  <2>2. /\ pHead[q] \in dTail..(head - 1)
        /\ ~Stamped(pHead[q]) /\ claimed[pHead[q] + 1] = q
        /\ pPc'[q] = "stamp" => text[Slot(pHead[q])] = q
    BY <2>1 DEF TypeOK, WritersOwn
  <2>3. pHead[q] # pHead[p]
    BY <2>1, <2>2, <1>1
  <2>4. ~Stamped(pHead[q])'
    BY <2>2, <2>3, <1>5
  <2>5. dTail <= pHead[q] /\ pHead[q] < head
    BY <2>2 DEF TypeOK
  <2> QED
    BY <2>2, <2>4, <2>5
<1>7. StampedComplete'
  BY <1>1, <1>5 DEF StampedComplete
<1>8. PrintedPrefix'
  BY DEF PrintedPrefix
<1> QED
  BY <1>2, <1>3, <1>4, <1>6, <1>7, <1>8

\* the drainer prints a record.
LEMMA PrintKeeps ==
  ASSUME Inv, DrainPrint
  PROVE  Inv'
PROOF
<1> USE DEF Inv, RingInv, DrainPrint, producerVars
<1>1. /\ dTail \in Nat /\ head \in Nat /\ dHead \in Nat
      /\ dTail \in dTail..(head - 1) /\ Slot(dTail) \in Slots
      /\ Len(printed) = dTail
  BY SlotRange DEF TypeOK, CountersOrdered, PrintedPrefix
<1>2. text[Slot(dTail)] = claimed[dTail + 1] /\ text[Slot(dTail)] \in Producers \cup {Blank}
  BY <1>1 DEF StampedComplete, TypeOK
<1>3. TypeOK'
  <2>1. printed' \in Seq(Producers \cup {Blank})
    BY <1>2 DEF TypeOK
  <2>2. dTail' \in 0..MaxLogs
    <3>1. head <= MaxLogs /\ dHead <= head
      BY LoggerAssumption DEF TypeOK, CountersOrdered
    <3> QED
      BY <1>1, <3>1, LoggerAssumption
  <2> QED
    BY <2>1, <2>2 DEF TypeOK
<1>4. CountersOrdered'
  BY <1>1 DEF TypeOK, CountersOrdered
<1>5. StampsClaimed'
  BY DEF StampsClaimed
<1>6. \A pos : Stamped(pos)' <=> Stamped(pos)
  BY DEF Stamped
<1>7. WritersOwn'
  <2> SUFFICES ASSUME NEW q \in Producers, pPc[q] \in {"write", "stamp"}
               PROVE  /\ dTail + 1 <= pHead[q] /\ pHead[q] < head
                      /\ ~Stamped(pHead[q])
                      /\ claimed[pHead[q] + 1] = q
                      /\ pPc[q] = "stamp" => text[Slot(pHead[q])] = q
    BY <1>6 DEF WritersOwn
  <2>1. pHead[q] # dTail /\ pHead[q] \in Nat
    BY DEF WritersOwn, TypeOK
  <2> QED
    BY <2>1, <1>1 DEF WritersOwn
<1>8. StampedComplete'
  BY <1>1, <1>6 DEF StampedComplete
<1>9. PrintedPrefix'
  <2>1. /\ Len(printed') = dTail + 1 /\ printed'[dTail + 1] = text[Slot(dTail)]
        /\ \A i \in 1..dTail : printed'[i] = printed[i]
    <3> DEFINE t == text[Slot(dTail)]
               P == Producers \cup {Blank}
    <3>1. printed \in Seq(P) /\ t \in P /\ printed' = Append(printed, t)
      BY <1>2 DEF TypeOK
    <3> HIDE DEF t, P
    <3>2. /\ Len(Append(printed, t)) = Len(printed) + 1
          /\ Append(printed, t)[Len(printed) + 1] = t
          /\ \A i \in 1..Len(printed) : Append(printed, t)[i] = printed[i]
      BY <3>1
    <3> QED
      BY <1>1, <3>1, <3>2 DEF t
  <2> QED
    BY <1>1, <1>2, <2>1 DEF PrintedPrefix
<1> QED
  BY <1>3, <1>4, <1>5, <1>7, <1>8, <1>9

\* The drainer's other steps.
LEMMA DrainKeeps ==
  ASSUME Inv, DrainLoad \/ DrainTest \/ DrainStop \/ DrainStore
  PROVE  Inv'
PROOF
<1>1. TypeOK'
  BY DEF Inv, TypeOK, DrainLoad, DrainTest, DrainStop, DrainStore, producerVars
<1>2. CountersOrdered'
  <2> USE DEF CountersOrdered, producerVars
  <2>1. /\ CountersOrdered
        /\ head \in Nat /\ tail \in Nat /\ dHead \in Nat /\ dTail \in Nat
        /\ RingSize \in Nat
        /\ \A p \in Producers : pHead[p] \in Nat
    BY LoggerAssumption DEF Inv, RingInv, TypeOK
  <2>2. CASE DrainLoad
    BY <2>1, <2>2 DEF DrainLoad
  <2>3. CASE DrainTest
    BY <2>1, <2>3 DEF DrainTest
  <2>4. CASE DrainStop
    BY <2>1, <2>4 DEF DrainStop
  <2>5. CASE DrainStore
    BY <2>1, <2>5 DEF DrainStore
  <2> QED
    BY <2>2, <2>3, <2>4, <2>5
<1>3. UNCHANGED <<head, ready, text, claimed, printed, dTail, pPc, pHead>>
  BY DEF Inv, RingInv, CountersOrdered, DrainLoad, DrainTest, DrainStop, DrainStore,
         producerVars
<1> QED
  BY <1>1, <1>2, <1>3, QuietStep

\* Every step keeps the invariant.
LEMMA NextInv == Inv /\ [Next]_vars => Inv'
PROOF
<1> SUFFICES ASSUME Inv, [Next]_vars PROVE Inv'
  OBVIOUS
<1>1. ASSUME NEW p \in Producers, LogLoad(p) \/ LogStep(p) PROVE Inv'
  BY <1>1, LoadKeeps, DropKeeps, RoomKeeps, ClaimKeeps, WriteKeeps, StampKeeps
     DEF LogStep
<1>2. CASE Drain
  BY <1>2, PrintKeeps, DrainKeeps DEF Drain
<1>3. CASE StopRequest \/ StopJoin \/ UNCHANGED vars
  <2>1. TypeOK'
    BY <1>3 DEF Inv, TypeOK, StopRequest, StopJoin, vars, producerVars, drainerVars
  <2>2. UNCHANGED <<head, tail, ready, text, claimed, producerVars, drainerVars>>
    BY <1>3 DEF StopRequest, StopJoin, vars
  <2>3. CountersOrdered'
    BY <2>2 DEF Inv, RingInv, CountersOrdered, producerVars, drainerVars
  <2> QED
    BY <2>1, <2>2, <2>3, QuietStep DEF producerVars, drainerVars
<1> QED
  BY <1>1, <1>2, <1>3 DEF Next

\* The inductive invariant.
LEMMA Invariance == Spec => []Inv
BY InitInv, NextInv, PTL DEF Spec

\* Type correctness.
THEOREM TypeCorrect == Spec => []TypeOK
PROOF
<1>1. Inv => TypeOK
  BY DEF Inv
<1> QED
  BY <1>1, Invariance, PTL

\* log() and drainLoop() never meet in a record: neither two producers that
\* write, nor a producer and the drainer that reads.
THEOREM NoSharedRecord == Spec => []RecordsExclusive
BY Invariance, InvExclusive, PTL

\* drainLoop() prints the record of every claimed position, complete and in
\* order: none skipped, repeated, half-built or overwritten.
THEOREM PrintsClaimed == Spec => []PrintedInOrder
PROOF
<1>1. Inv => PrintedInOrder
  BY DEF Inv, RingInv, TypeOK, CountersOrdered, PrintedPrefix, PrintedInOrder
<1> QED
  BY <1>1, Invariance, PTL

=============================================================================
