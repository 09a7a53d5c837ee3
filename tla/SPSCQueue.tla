----------------------------- MODULE SPSCQueue -----------------------------
(***************************************************************************)
(* The single-producer single-consumer ring of util/spsc_queue.hpp, one    *)
(* action per atomic access of try_push and try_pop.                       *)
(*                                                                         *)
(* head_ and tail_ are uint64_t counters that wrap: they are modelled      *)
(* modulo Modulus, a multiple of Capacity as 2^64 is.  A thread reads its  *)
(* own counter exactly (it is the only writer) and the other one with an   *)
(* acquire load, which may return any value the other thread has stored    *)
(* since this thread's previous load of it: pTail and cHead are what the   *)
(* producer and the consumer have seen so far.  The copy into and out of a *)
(* slot is not atomic; it lasts from the step that admits the operation to *)
(* the Copy step.                                                          *)
(***************************************************************************)
EXTENDS Integers, Sequences

CONSTANTS Capacity,  \* slots of the ring, a power of two in the code
          Modulus,   \* the number of counter values (2^64 in the code)
          Values,    \* what may be queued
          NoValue    \* the content of a slot, or of out, never written

ASSUME QueueAssumption ==
  /\ Capacity \in Nat
  /\ Capacity >= 2
  /\ Modulus \in Nat
  /\ \E laps \in 2..Modulus : Modulus = laps * Capacity
  /\ NoValue \notin Values

VARIABLES head, tail, slots,    \* the shared ring
          pPc, pTail, pVal,     \* the producer: step, seen tail_, argument
          cPc, cHead, out       \* the consumer: step, seen head_, result

ring == <<head, tail, slots>>
producer == <<pPc, pTail, pVal>>
consumer == <<cPc, cHead, out>>
vars == <<ring, producer, consumer>>

Counter == 0..(Modulus - 1)
Slot == 0..(Capacity - 1)

\* uint64_t arithmetic: x + 1, x - y, and the values a load may return.
Inc(x) == (x + 1) % Modulus
Diff(x, y) == (x - y) % Modulus
Seen(last, d) == (last + d) % Modulus

\* head & (Capacity - 1), for a power of two.
Index(x) == x % Capacity

TypeOK ==
  /\ head \in Counter /\ tail \in Counter
  /\ slots \in [Slot -> Values \cup {NoValue}]
  /\ pPc \in {"idle", "copy", "publish"}
  /\ cPc \in {"idle", "copy", "release"}
  /\ pTail \in Counter /\ cHead \in Counter
  /\ pVal \in Values \cup {NoValue}
  /\ out \in Values \cup {NoValue}

Init ==
  /\ head = 0 /\ tail = 0
  /\ slots = [i \in Slot |-> NoValue]
  /\ pPc = "idle" /\ pTail = 0 /\ pVal = NoValue
  /\ cPc = "idle" /\ cHead = 0 /\ out = NoValue

-----------------------------------------------------------------------------
(* try_push *)

\* Mutant: the fullness test lets one value too many in.
FullOffByOne(t) == Diff(head, t) > Capacity

\* head - tail >= Capacity, for the tail_ value the producer loaded.
Full(t) == Diff(head, t) >= Capacity

\* The load of tail_ shows a full ring: try_push returns false.
PushFull ==
  /\ pPc = "idle"
  /\ \E d \in 0..Diff(tail, pTail) :
       /\ Full(Seen(pTail, d))
       /\ pTail' = Seen(pTail, d)
  /\ UNCHANGED <<ring, pPc, pVal, consumer>>

\* The load of tail_ shows a free slot: start copying v into it.
PushAdmit(v) ==
  /\ pPc = "idle"
  /\ \E d \in 0..Diff(tail, pTail) :
       /\ ~Full(Seen(pTail, d))
       /\ pTail' = Seen(pTail, d)
  /\ pPc' = "copy"
  /\ pVal' = v
  /\ UNCHANGED <<ring, consumer>>

\* Mutant: the slot is chosen with the incremented head.
PushCopyAfterIncrement ==
  /\ pPc = "copy"
  /\ pPc' = "publish"
  /\ slots' = [slots EXCEPT ![Index(head + 1)] = pVal]
  /\ UNCHANGED <<head, tail, pTail, pVal, consumer>>

\* slots_[head & (Capacity - 1)] = value
PushCopy ==
  /\ pPc = "copy"
  /\ pPc' = "publish"
  /\ slots' = [slots EXCEPT ![Index(head)] = pVal]
  /\ UNCHANGED <<head, tail, pTail, pVal, consumer>>

\* head_.store(head + 1, release)
PushPublish ==
  /\ pPc = "publish"
  /\ pPc' = "idle"
  /\ head' = Inc(head)
  /\ UNCHANGED <<tail, slots, pTail, pVal, consumer>>

-----------------------------------------------------------------------------
(* try_pop *)

\* The load of head_ shows an empty ring: try_pop returns false.
PopEmpty ==
  /\ cPc = "idle"
  /\ \E d \in 0..Diff(head, cHead) :
       /\ Seen(cHead, d) = tail
       /\ cHead' = Seen(cHead, d)
  /\ UNCHANGED <<ring, producer, cPc, out>>

\* Mutant: the last queued value is taken for an empty ring.
PopAdmitOffByOne ==
  /\ cPc = "idle"
  /\ \E d \in 0..Diff(head, cHead) :
       /\ Diff(Seen(cHead, d), tail) > 1
       /\ cHead' = Seen(cHead, d)
  /\ cPc' = "copy"
  /\ UNCHANGED <<ring, producer, out>>

\* Mutant: the emptiness test is dropped.
PopAdmitUnchecked ==
  /\ cPc = "idle"
  /\ \E d \in 0..Diff(head, cHead) : cHead' = Seen(cHead, d)
  /\ cPc' = "copy"
  /\ UNCHANGED <<ring, producer, out>>

\* The load of head_ shows a value: start copying it out.
PopAdmit ==
  /\ cPc = "idle"
  /\ \E d \in 0..Diff(head, cHead) :
       /\ Seen(cHead, d) # tail
       /\ cHead' = Seen(cHead, d)
  /\ cPc' = "copy"
  /\ UNCHANGED <<ring, producer, out>>

\* out = std::move(slots_[tail & (Capacity - 1)])
PopCopy ==
  /\ cPc = "copy"
  /\ cPc' = "release"
  /\ out' = slots[Index(tail)]
  /\ UNCHANGED <<ring, producer, cHead>>

\* tail_.store(tail + 1, release)
PopRelease ==
  /\ cPc = "release"
  /\ cPc' = "idle"
  /\ tail' = Inc(tail)
  /\ UNCHANGED <<head, slots, producer, cHead, out>>

-----------------------------------------------------------------------------
Push == PushFull \/ (\E v \in Values : PushAdmit(v)) \/ PushCopy \/ PushPublish
Pop == PopEmpty \/ PopAdmit \/ PopCopy \/ PopRelease

Next == Push \/ Pop

Spec == Init /\ [][Next]_vars

\* The strategy thread never stops polling, and a store becomes visible to an
\* acquire load in finite time: a pop that could see a value does so at last.
Fairness == WF_vars(PopAdmit) /\ WF_vars(PopCopy) /\ WF_vars(PopRelease)

FairSpec == Spec /\ Fairness

-----------------------------------------------------------------------------
(* Correctness *)

\* The two threads are never inside the same slot: the producer does not copy
\* into slots_[head & mask] while the consumer copies out of
\* slots_[tail & mask] and the two are the same slot.
NoDataRace ==
  ~ (pPc = "copy" /\ cPc = "copy" /\ Index(head) = Index(tail))

\* The counters and the stale views of them never get out of order, whatever
\* the wrap-around: going up from the producer's view of tail_, one meets
\* tail_, the consumer's view of head_, head_, all within Capacity; and a
\* thread inside a slot has seen the other thread leave it.
CursorOrder ==
  /\ Diff(tail, pTail) + Diff(cHead, tail) + Diff(head, cHead) <= Capacity
  /\ pPc # "idle" => ~Full(pTail)
  /\ cPc # "idle" => cHead # tail

\* The values between the counters, oldest first.  A value leaves the queue
\* when it has been copied out, one step before its slot is released.
FirstPos == IF cPc = "release" THEN Inc(tail) ELSE tail
Contents ==
  [i \in 1..Diff(head, FirstPos) |-> slots[Index(FirstPos + i - 1)]]

Fifo == INSTANCE BoundedFifo WITH items <- Contents, got <- out

\* The ring is a bounded FIFO queue: values come out in the order they were
\* published, none lost, duplicated or torn, also across the wrap-around of
\* the slots and of the counters.
RefinesFifo == Fifo!Spec

\* Whatever is at the front of the queue is eventually handed to a consumer
\* that keeps calling try_pop.
Delivered ==
  \A v \in Values :
    (Contents # << >> /\ Contents[1] = v) ~> (out = v)

=============================================================================
