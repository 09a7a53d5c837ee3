----------------------------- MODULE Reporting -----------------------------
(***************************************************************************)
(* What the main thread prints of the strategy thread's work (main.cpp):   *)
(* the percentiles of a latency histogram, dumped while the strategy       *)
(* thread is recording into it, and the final report after stop().         *)
(*                                                                         *)
(* The histogram and the PnL fields are relaxed atomics with one writer.   *)
(* A load of one may return any value since the one this thread saw last,  *)
(* so the writer's stores are one step, and the reader keeps for every     *)
(* location the value it saw last.  stop() joins the strategy thread:      *)
(* loads after it return the last values.                                  *)
(*                                                                         *)
(* One histogram, orderToFill, stands for all of them.  An event fills one *)
(* lot at the touch, or none.  Money is counted as in module Execution.    *)
(***************************************************************************)
EXTENDS HdrHistogram, Execution

CONSTANTS Durations,    \* what a clock difference may be, also negative
          Bids,         \* best bids; the best ask is a tick above
          InitialCash,
          MaxEvents     \* bound: events processed

ASSUME ReportingAssumption ==
  /\ Durations \subseteq Int /\ (\A ns \in Durations : ns < 2^Width)
  /\ Bids \subseteq Nat \ {0}
  /\ InitialCash \in Nat /\ MaxEvents \in Nat

VARIABLES
  events,               \* events processed so far
  pnl,                  \* the strategy's own PnlTracker
  published,            \* pnlCash_, pnlPosition_, pnlAvgEntry_, pnlRealized_
  mark,                 \* markBid_ and markAsk_, 0 before the first book
  records,              \* values recorded so far
  mPc,                  \* main thread: "loop", "dump", "stopped", "done"
  seen,                 \* last values of count_, max_ and counts_ it loaded
  printed, highest,     \* figures of the current dump, highest of them
  printedMax,           \* the maximum that ends the dump
  final                 \* the final report

vars == <<events, pnl, published, mark, records, mPc, seen, printed,
          highest, printedMax, final>>
dumpVars == <<seen, printed, highest, printedMax>>

Percentiles == <<500, 950, 990, 999>>

\* count_, max_ and counts_ after the first k records.
MaxAfter(k) == Max({0} \cup {records[i] : i \in 1..k})
CountIn(cell) == Cardinality({i \in 1..Len(records) : IndexFor(records[i]) = cell})

Init ==
  /\ events = 0
  /\ pnl = [cash |-> InitialCash, position |-> 0, avgEntry |-> 0, realized |-> 0]
  /\ published = pnl
  /\ mark = [Bid |-> 0, Ask |-> 0]
  /\ records = << >>
  /\ mPc = "loop"
  /\ seen = [count |-> 0, max |-> 0, counts |-> [c \in Cells |-> 0]]
  /\ printed = 0 /\ highest = 0 /\ printedMax = 0 /\ final = << >>

-----------------------------------------------------------------------------
(* Strategy thread *)

StrategyRuns == mPc \in {"loop", "dump"} /\ events < MaxEvents

\* The mark of a side is stored when the side has a level.
MarksAt(bid, sides) ==
  [side \in {"Bid", "Ask"} |->
     IF side \notin sides THEN mark[side] ELSE IF side = "Bid" THEN bid ELSE bid + 1]

\* An event without a fill moves the marks of the sides that have levels.
Quote(bid, sides) ==
  /\ StrategyRuns
  /\ events' = events + 1
  /\ mark' = MarksAt(bid, sides)
  /\ UNCHANGED <<pnl, published, records, mPc, dumpVars, final>>

\* Mutant: the fields are published before the strategy has booked the fill.
PublishedEarly(before, after) == before

\* publishPnl(), after strategy_.onFill(): every field is the strategy's.
Published(before, after) == after

\* An event with a fill of one lot: opening when flat, closing otherwise.
Fill(side, bid, ns) ==
  LET px == IF side = "Bid" THEN bid + 1 ELSE bid
  IN /\ StrategyRuns
     /\ pnl.position * Signed(side, 1) <= 0
     /\ events' = events + 1
     /\ mark' = MarksAt(bid, {"Bid", "Ask"})
     /\ records' = Append(records, Recorded(ns))
     /\ pnl' = PnlOnFill(pnl, [side |-> side, px |-> px, qty |-> 1])
     /\ published' = Published(pnl, pnl')
     /\ UNCHANGED <<mPc, dumpVars, final>>

-----------------------------------------------------------------------------
(* Main thread *)

\* The periodic dump begins.
DumpBegin ==
  /\ mPc = "loop"
  /\ mPc' = "dump" /\ printed' = 0 /\ highest' = 0 /\ printedMax' = 0
  /\ UNCHANGED <<events, pnl, published, mark, records, seen, final>>

\* What the counters may show the main thread now.
Loads ==
  LET used == {IndexFor(records[i]) : i \in 1..Len(records)}
      since == {f \in [used -> 0..Len(records)] :
                  \A c \in used : f[c] \in seen.counts[c]..CountIn(c)}
  IN [count : seen.count..Len(records),
      max : {m \in {MaxAfter(k) : k \in 0..Len(records)} : m >= seen.max},
      counts : {[c \in Cells |-> IF c \in used THEN f[c] ELSE 0] : f \in since}]

\* One percentileNs() of the dump.
DumpPercentile(load) ==
  /\ printed < Len(Percentiles)
  /\ seen' = load
  /\ printed' = printed + 1
  /\ highest' = Max({highest, Percentile(load.count, load.max, load.counts,
                                         Percentiles[printed + 1])})
  /\ UNCHANGED <<events, pnl, published, mark, records, mPc, printedMax, final>>

\* max(), the last figure of the dump.
DumpMax(load) ==
  /\ printed = Len(Percentiles)
  /\ seen' = [seen EXCEPT !.max = load.max]
  /\ printedMax' = load.max
  /\ mPc' = "loop"
  /\ UNCHANGED <<events, pnl, published, mark, records, printed, highest, final>>

\* The loop ends on a signal; stop() returns when the strategy thread has.
Stop ==
  /\ mPc = "loop"
  /\ mPc' = "stopped"
  /\ UNCHANGED <<events, pnl, published, mark, records, dumpVars, final>>

\* pnlUnrealized(): at the side the position would be closed on.
Unrealized(p, m) ==
  LET at == IF p.position > 0 THEN m["Bid"] ELSE m["Ask"]
  IN IF p.position = 0 \/ at <= 0 THEN 0 ELSE p.position * (at - p.avgEntry)

\* The final metrics and PnL line.
FinalReport ==
  /\ mPc = "stopped"
  /\ mPc' = "done"
  /\ final' = [percentiles |->
                 [i \in 1..Len(Percentiles) |->
                    Percentile(Len(records), MaxAfter(Len(records)),
                               [c \in Cells |-> CountIn(c)], Percentiles[i])],
               cash |-> published.cash, position |-> published.position,
               realized |-> published.realized,
               unrealized |-> Unrealized(published, mark)]
  /\ UNCHANGED <<events, pnl, published, mark, records, dumpVars>>

\* The process ends.
Done == mPc = "done" /\ UNCHANGED vars

Next ==
  \/ \E bid \in Bids, sides \in SUBSET {"Bid", "Ask"} : Quote(bid, sides)
  \/ \E side \in {"Bid", "Ask"}, bid \in Bids, ns \in Durations : Fill(side, bid, ns)
  \/ DumpBegin \/ Stop \/ FinalReport \/ Done
  \/ mPc = "dump" /\ \E load \in Loads : DumpPercentile(load) \/ DumpMax(load)

Spec == Init /\ [][Next]_vars

-----------------------------------------------------------------------------
(* Correctness *)

\* "one writer can record while a reader dumps": no percentile of a dump is
\* above the maximum the same dump ends with, whatever the loads saw.
DumpBelowMax ==
  mPc = "loop" /\ printed > 0 => highest <= printedMax

\* The recorded value of a rank: the least with that many at or below it.
RankedValue(rank) ==
  Min({records[i] : i \in {j \in 1..Len(records) :
         Cardinality({k \in 1..Len(records) : records[k] <= records[j]}) >= rank}})

\* "constant ~3% relative error": every percentile of the final report is within
\* half a cell, one part in 2 * SubCount, of the recorded value of that rank.
PercentilesAccurate ==
  mPc = "done" /\ records # << >> =>
    \A i \in 1..Len(Percentiles) :
      LET exact == RankedValue(Target(Len(records), Percentiles[i]))
      IN Magnitude(final.percentiles[i] - exact) * 2 * SubCount <= exact

\* The final report balances: the cash, position, realized and unrealized profit
\* it prints are the strategy's own after the last fill, and the money that
\* closing the position at the last touch would leave is the initial cash plus
\* both profits.
FinalReportBalances ==
  mPc = "done" =>
    LET at == IF final.position > 0 THEN mark["Bid"] ELSE mark["Ask"]
    IN /\ final.cash = pnl.cash /\ final.position = pnl.position
       /\ final.cash + final.position * at =
            InitialCash + final.realized + final.unrealized

=============================================================================
