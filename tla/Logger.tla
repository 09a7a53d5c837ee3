------------------------------ MODULE Logger ------------------------------
(***************************************************************************)
(* The asynchronous logger of core/logger.cpp: any thread logs into a ring *)
(* of records (log()), one drainer thread prints them (drainLoop()), and   *)
(* the main thread stops it (stop()).  One action per atomic access.       *)
(*                                                                         *)
(* head_ and tail_ count positions from 0; what log() computes from them   *)
(* is uint64_t arithmetic, modulo Modulus.  A producer writes its record   *)
(* between the Claim and the Stamp step and the drainer reads it in Print. *)
(* A record is the position it was claimed for and the thread that wrote   *)
(* it.  The variables claimed and printed are not in the code.             *)
(***************************************************************************)
EXTENDS Integers, Sequences, FiniteSets

CONSTANTS Producers,  \* the threads that log
          RingSize,   \* RING_SIZE (4096)
          Modulus,    \* the number of uint64_t values
          Blank,      \* a record never written
          MaxLogs     \* bound: positions claimed

ASSUME LoggerAssumption ==
  /\ RingSize \in Nat \ {0} /\ MaxLogs \in Nat
  /\ Modulus \in Nat /\ Modulus > MaxLogs + RingSize
  /\ Blank \notin Producers

VARIABLES head, tail, running,      \* head_, tail_, running_
          ready, text,              \* the records: stamp and content
          dropped,                  \* dropped_
          pPc, pHead,               \* each producer: step, its copy of head_
          dPc, dHead, dTail,        \* the drainer: step, its copies
          mPc,                      \* the main thread in stop()
          claimed, printed          \* writer of each position; what was printed

producerVars == <<pPc, pHead>>
drainerVars == <<dPc, dHead, dTail, printed>>
vars == <<head, tail, running, ready, text, dropped, producerVars, drainerVars,
          mPc, claimed>>

Slots == 0..(RingSize - 1)
Slot(pos) == pos % RingSize

TypeOK ==
  /\ head \in 0..MaxLogs /\ tail \in 0..MaxLogs /\ running \in BOOLEAN
  /\ ready \in [Slots -> 0..MaxLogs]
  /\ text \in [Slots -> Producers \cup {Blank}]
  /\ dropped \in BOOLEAN
  /\ pPc \in [Producers -> {"idle", "check", "claim", "write", "stamp"}]
  /\ pHead \in [Producers -> 0..MaxLogs]
  /\ dPc \in {"load", "test", "scan", "store", "exited"}
  /\ dHead \in 0..MaxLogs /\ dTail \in 0..MaxLogs
  /\ mPc \in {"run", "join", "stopped"}
  /\ claimed \in Seq(Producers) /\ Len(claimed) = head
  /\ printed \in Seq(Producers \cup {Blank})

Init ==
  /\ head = 0 /\ tail = 0 /\ running = TRUE
  /\ ready = [s \in Slots |-> 0] /\ text = [s \in Slots |-> Blank]
  /\ dropped = FALSE
  /\ pPc = [p \in Producers |-> "idle"] /\ pHead = [p \in Producers |-> 0]
  /\ dPc = "load" /\ dHead = 0 /\ dTail = 0
  /\ mPc = "run"
  /\ claimed = << >> /\ printed = << >>

-----------------------------------------------------------------------------
(* log() *)

\* head_.load()
LogLoad(p) ==
  /\ pPc[p] = "idle"
  /\ pPc' = [pPc EXCEPT ![p] = "check"]
  /\ pHead' = [pHead EXCEPT ![p] = head]
  /\ UNCHANGED <<head, tail, running, ready, text, dropped, drainerVars, mPc, claimed>>

\* Mutant: the fullness test lets one record too many in.
SaturatedOffByOne(h) == (h - tail) % Modulus > RingSize

\* head - tail_.load() >= RING_SIZE, unsigned.
Saturated(h) == (h - tail) % Modulus >= RingSize

\* The ring looks full: count the record as dropped.  (Only whether dropped_
\* has been incremented is kept.)
LogDrop(p) ==
  /\ pPc[p] = "check" /\ Saturated(pHead[p])
  /\ pPc' = [pPc EXCEPT ![p] = "idle"]
  /\ dropped' = TRUE
  /\ UNCHANGED <<head, tail, running, ready, text, pHead, drainerVars, mPc, claimed>>

\* The ring has room.
LogRoom(p) ==
  /\ pPc[p] = "check" /\ ~Saturated(pHead[p])
  /\ pPc' = [pPc EXCEPT ![p] = "claim"]
  /\ UNCHANGED <<head, tail, running, ready, text, dropped, pHead, drainerVars, mPc,
                 claimed>>

\* compare_exchange_weak succeeds: the position is this producer's.
LogClaim(p) ==
  /\ pPc[p] = "claim" /\ head = pHead[p] /\ head < MaxLogs
  /\ head' = head + 1
  /\ pPc' = [pPc EXCEPT ![p] = "write"]
  /\ claimed' = Append(claimed, p)
  /\ UNCHANGED <<tail, running, ready, text, dropped, pHead, drainerVars, mPc>>

\* compare_exchange_weak fails, because head_ has moved or spuriously: head
\* becomes the current value and the loop starts over.
LogClaimFails(p) ==
  /\ pPc[p] = "claim"
  /\ pPc' = [pPc EXCEPT ![p] = "check"]
  /\ pHead' = [pHead EXCEPT ![p] = head]
  /\ UNCHANGED <<head, tail, running, ready, text, dropped, drainerVars, mPc, claimed>>

\* The record is written.
LogWrite(p) ==
  /\ pPc[p] = "write"
  /\ pPc' = [pPc EXCEPT ![p] = "stamp"]
  /\ text' = [text EXCEPT ![Slot(pHead[p])] = p]
  /\ UNCHANGED <<head, tail, running, ready, dropped, pHead, drainerVars, mPc, claimed>>

\* Mutant: the stamp is taken from the current head_ instead of the claimed
\* position.
LogStampCurrent(p) ==
  /\ pPc[p] = "stamp"
  /\ pPc' = [pPc EXCEPT ![p] = "idle"]
  /\ ready' = [ready EXCEPT ![Slot(pHead[p])] = head + 1]
  /\ UNCHANGED <<head, tail, running, text, dropped, pHead, drainerVars, mPc, claimed>>

\* r.ready.store(head + 1)
LogStamp(p) ==
  /\ pPc[p] = "stamp"
  /\ pPc' = [pPc EXCEPT ![p] = "idle"]
  /\ ready' = [ready EXCEPT ![Slot(pHead[p])] = pHead[p] + 1]
  /\ UNCHANGED <<head, tail, running, text, dropped, pHead, drainerVars, mPc, claimed>>

\* What a producer that is inside log() does next.
LogStep(p) ==
  LogDrop(p) \/ LogRoom(p) \/ LogClaim(p) \/ LogClaimFails(p) \/ LogWrite(p) \/ LogStamp(p)

-----------------------------------------------------------------------------
(* drainLoop() and stop() *)

\* head_ and tail_ are loaded.
DrainLoad ==
  /\ dPc = "load"
  /\ dPc' = IF head = tail THEN "test" ELSE "scan"
  /\ dHead' = head /\ dTail' = tail
  /\ UNCHANGED <<head, tail, running, ready, text, dropped, producerVars, printed, mPc,
                 claimed>>

\* Mutant: the drainer never looks at running_.
DrainTestForever ==
  /\ dPc = "test"
  /\ dPc' = "load"
  /\ UNCHANGED <<head, tail, running, ready, text, dropped, producerVars, dHead, dTail,
                 printed, mPc, claimed>>

\* Nothing to print: look at running_.
DrainTest ==
  /\ dPc = "test"
  /\ dPc' = IF running THEN "load" ELSE "exited"
  /\ UNCHANGED <<head, tail, running, ready, text, dropped, producerVars, dHead, dTail,
                 printed, mPc, claimed>>

\* Mutant: any stamp will do.
StampedEver(pos) == ready[Slot(pos)] # 0

\* The record at a position has been written.
Stamped(pos) == ready[Slot(pos)] = pos + 1

\* The next record is ready: print it.
DrainPrint ==
  /\ dPc = "scan" /\ dTail < dHead /\ Stamped(dTail)
  /\ printed' = Append(printed, text[Slot(dTail)])
  /\ dTail' = dTail + 1
  /\ UNCHANGED <<head, tail, running, ready, text, dropped, producerVars, dPc, dHead, mPc,
                 claimed>>

\* All printed up to head, or a record is still being written.
DrainStop ==
  /\ dPc = "scan" /\ (dTail = dHead \/ ~Stamped(dTail))
  /\ dPc' = "store"
  /\ UNCHANGED <<head, tail, running, ready, text, dropped, producerVars, dHead, dTail,
                 printed, mPc, claimed>>

\* Mutant: one record more is released than was printed.
DrainStoreOffByOne ==
  /\ dPc = "store"
  /\ dPc' = "load"
  /\ tail' = dTail + 1
  /\ UNCHANGED <<head, running, ready, text, dropped, producerVars, dHead, dTail, printed,
                 mPc, claimed>>

\* tail_.store(tail)
DrainStore ==
  /\ dPc = "store"
  /\ dPc' = "load"
  /\ tail' = dTail
  /\ UNCHANGED <<head, running, ready, text, dropped, producerVars, dHead, dTail, printed,
                 mPc, claimed>>

Drain == DrainLoad \/ DrainTest \/ DrainPrint \/ DrainStop \/ DrainStore

\* stop(): running_.exchange(false), then join.
StopRequest ==
  /\ mPc = "run" /\ running
  /\ mPc' = "join" /\ running' = FALSE
  /\ UNCHANGED <<head, tail, ready, text, dropped, producerVars, drainerVars, claimed>>

StopJoin ==
  /\ mPc = "join" /\ dPc = "exited"
  /\ mPc' = "stopped"
  /\ UNCHANGED <<head, tail, running, ready, text, dropped, producerVars, drainerVars,
                 claimed>>

-----------------------------------------------------------------------------
Next ==
  \/ \E p \in Producers : LogLoad(p) \/ LogStep(p)
  \/ Drain
  \/ StopRequest \/ StopJoin

Spec == Init /\ [][Next]_vars

\* Threads inside log(), the drainer and the joining main thread are run; a
\* thread may stop logging at any time, and stop() need never be called.
Fairness ==
  /\ \A p \in Producers : WF_vars(LogStep(p))
  /\ WF_vars(Drain)
  /\ WF_vars(StopJoin)

FairSpec == Spec /\ Fairness

-----------------------------------------------------------------------------
(* Correctness *)

\* "The drainer never prints a half-built record": what is printed is, in
\* order, the complete record of each claimed position, none skipped, repeated
\* or overwritten by a producer one lap ahead.
PrintedInOrder ==
  /\ Len(printed) <= Len(claimed)
  /\ \A i \in 1..Len(printed) : printed[i] = claimed[i]

\* No two threads are inside the same record: two producers that write have
\* different slots, and neither is the slot the drainer is about to read.
RecordsExclusive ==
  LET writing == {p \in Producers : pPc[p] \in {"write", "stamp"}}
  IN /\ \A p, q \in writing : p # q => Slot(pHead[p]) # Slot(pHead[q])
     /\ dPc = "scan" /\ dTail < dHead /\ Stamped(dTail) =>
          \A p \in writing : Slot(pHead[p]) # Slot(dTail)

\* While the logger is not stopped, every claimed record is printed at last: the
\* ring does not get stuck, full or empty.
EventuallyPrinted ==
  \A n \in 1..MaxLogs :
    (Len(claimed) >= n) ~> (Len(printed) >= n \/ ~running)

\* stop() returns.
StopReturns == (mPc = "join") ~> (mPc = "stopped")

\* "A full ring drops rather than blocks": a record is dropped only when the
\* ring is full.
DropOnlyWhenFull ==
  [][ \A p \in Producers : LogDrop(p) => head - tail = RingSize ]_vars

=============================================================================
