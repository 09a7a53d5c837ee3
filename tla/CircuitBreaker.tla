--------------------------- MODULE CircuitBreaker ---------------------------
(***************************************************************************)
(* The circuit breaker of exec/circuit_breaker.hpp where the program uses  *)
(* it: processEvent() records every event, and dispatchOrder() asks the    *)
(* breaker before the risk check and records every rejection in it.  Both  *)
(* run on the strategy thread, so one event is one step, with at most one  *)
(* order in it.                                                            *)
(*                                                                         *)
(* The variables log and trippedAt are not in the code.                    *)
(***************************************************************************)
EXTENDS Integers, Sequences, FiniteSets

CONSTANTS Threshold,   \* circuitErrorThreshold
          WindowMsgs,  \* circuitWindowMsgs
          MaxEvents    \* bound: events processed

ASSUME BreakerAssumption ==
  /\ Threshold \in Nat /\ WindowMsgs \in Nat
  /\ MaxEvents \in Nat

VARIABLES breaker,     \* msgs_, errors_ and tripped_
          log,         \* what became of each event: see Results
          trippedAt    \* msgs_ when the breaker last tripped

vars == <<breaker, log, trippedAt>>

Breakers == [msgs : Nat, errors : Nat, tripped : BOOLEAN]
Results == {"no order", "blocked", "rejected", "approved"}

TypeOK ==
  /\ breaker \in Breakers
  /\ log \in Seq(Results)
  /\ trippedAt \in Nat

Init ==
  /\ breaker = [msgs |-> 0, errors |-> 0, tripped |-> FALSE]
  /\ log = << >>
  /\ trippedAt = 0

-----------------------------------------------------------------------------
WindowEnds(n) == WindowMsgs > 0 /\ n % WindowMsgs = 0

\* Mutant: the window's errors are kept.
RecordedKeepErrors(b) ==
  LET n == b.msgs + 1
  IN IF WindowMsgs = 0 THEN b
     ELSE [msgs |-> n, errors |-> b.errors,
           tripped |-> b.tripped /\ ~(WindowEnds(n) /\ b.errors = 0)]

\* Mutant: any window end resets the breaker, clean or not.
RecordedUntripAlways(b) ==
  LET n == b.msgs + 1
  IN IF WindowMsgs = 0 THEN b
     ELSE [msgs |-> n, errors |-> IF WindowEnds(n) THEN 0 ELSE b.errors,
           tripped |-> b.tripped /\ ~WindowEnds(n)]

\* recordMessage(): at the end of a window the errors are forgotten, and only
\* a clean window resets the breaker.
Recorded(b) ==
  LET n == b.msgs + 1
  IN IF WindowMsgs = 0 THEN b
     ELSE [msgs |-> n, errors |-> IF WindowEnds(n) THEN 0 ELSE b.errors,
           tripped |-> b.tripped /\ ~(WindowEnds(n) /\ b.errors = 0)]

\* recordError()
Errored(b) ==
  [b EXCEPT !.errors = @ + 1, !.tripped = @ \/ b.errors + 1 >= Threshold]

\* processEvent() of an event that leads to no order.
EventOnly ==
  /\ breaker' = Recorded(breaker)
  /\ log' = Append(log, "no order")
  /\ UNCHANGED trippedAt

\* processEvent() of an event that leads to an order the breaker blocks.
OrderBlocked ==
  /\ Recorded(breaker).tripped
  /\ breaker' = Recorded(breaker)
  /\ log' = Append(log, "blocked")
  /\ UNCHANGED trippedAt

\* ... to an order the risk manager approves.
OrderApproved ==
  /\ ~Recorded(breaker).tripped
  /\ breaker' = Recorded(breaker)
  /\ log' = Append(log, "approved")
  /\ UNCHANGED trippedAt

\* ... to an order the risk manager rejects.
OrderRejected ==
  /\ ~Recorded(breaker).tripped
  /\ breaker' = Errored(Recorded(breaker))
  /\ log' = Append(log, "rejected")
  /\ trippedAt' = IF breaker'.tripped THEN breaker'.msgs ELSE trippedAt

Event == EventOnly \/ OrderBlocked \/ OrderApproved \/ OrderRejected

\* The program is stopped.
Stopped == Len(log) = MaxEvents /\ UNCHANGED vars

Next == (Len(log) < MaxEvents /\ Event) \/ Stopped

Spec == Init /\ [][Next]_vars

-----------------------------------------------------------------------------
(* Correctness *)

\* The tumbling window an event falls in.  Event i is counted by recordMessage
\* before its order is looked at, so the order of the last event of a window
\* belongs to the next one.
WindowOf(i) == IF WindowMsgs = 0 THEN 0 ELSE i \div WindowMsgs

RejectionsUpTo(w, n) ==
  Cardinality({i \in 1..n : WindowOf(i) = w /\ log[i] = "rejected"})

\* The README: the breaker "halts order dispatch after circuit_error_threshold
\* rejected orders inside a circuit_window_msgs message window and auto-resets
\* after a clean window".  From the log alone: some window reached the
\* threshold and no window that has ended since was free of rejections.
\* (The code counts a threshold of 0 as 1.)
ShouldBeTripped ==
  LET now == WindowOf(Len(log))
      limit == IF Threshold = 0 THEN 1 ELSE Threshold
  IN \E w \in 0..now :
       /\ RejectionsUpTo(w, Len(log)) >= limit
       /\ \A v \in w..(now - 1) : RejectionsUpTo(v, Len(log)) > 0

\* The two counters and the flag implement that sentence.
TripsAsDocumented == breaker.tripped <=> ShouldBeTripped

\* A trip halts order dispatch for more than one and at most two windows of
\* messages: it is neither forgotten at the next window end nor kept for ever.
HaltIsBounded ==
  WindowMsgs > 0 =>
    /\ breaker.tripped => breaker.msgs - trippedAt < 2 * WindowMsgs
    /\ ~breaker.tripped /\ trippedAt > 0 => breaker.msgs - trippedAt > WindowMsgs

=============================================================================
