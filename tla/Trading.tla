------------------------------ MODULE Trading ------------------------------
(***************************************************************************)
(* What the strategy thread does with a market event once the book is      *)
(* updated: the imbalance strategy (strategy/imbalance_strategy.cpp), the  *)
(* signal's way through circuit breaker, risk check, simulated fill and    *)
(* bookkeeping (Runtime::dispatchOrder), all in one step, and the reset    *)
(* after a reconnect.                                                      *)
(*                                                                         *)
(* The book of an event is an input: any member of Books.  Ratios are      *)
(* compared by cross-multiplication: an imbalance is a number of parts of  *)
(* Scale, a move in basis points is a product with 10000.  The variables   *)
(* recent and last are not in the code.                                    *)
(***************************************************************************)
EXTENDS Execution

CONSTANTS Books,           \* the books an event may leave: [Bid, Ask], levels best first
          DepthLevels,     \* depth_levels
          SmoothingWindow, \* smoothing_window
          Scale,           \* an imbalance of 1
          EntryImbalance,  \* entry_imbalance, in parts of Scale
          TakeProfitBps, StopLossBps, MaxSpreadBps,
          TradeFraction,   \* trade_fraction, in percent of the cash
          Cooldown,        \* cooldown_s, in ticks of the clock
          AllowShort,      \* allow_short
          InitialCash,     \* initial_cash
          Threshold, WindowMsgs,  \* of the circuit breaker
          MaxEvents        \* bound: events processed

ASSUME TradingAssumption ==
  /\ DepthLevels \in Nat \ {0} /\ SmoothingWindow \in Nat \ {0}
  /\ Scale \in Nat \ {0} /\ EntryImbalance \in 0..Scale
  /\ TakeProfitBps \in Nat \ {0} /\ StopLossBps \in Nat \ {0} /\ MaxSpreadBps \in Nat
  /\ TradeFraction \in 1..100
  /\ Cooldown \in Nat /\ AllowShort \in BOOLEAN /\ InitialCash \in Nat
  /\ Threshold \in Nat \ {0} /\ WindowMsgs \in Nat \ {0} /\ MaxEvents \in Nat

\* What depth() returns of either side: live levels, the best first.
ASSUME BooksAssumption ==
  \A bk \in Books : \A side \in {"Bid", "Ask"} :
    /\ bk[side] \in Seq([px : Nat, qty : Nat \ {0}])
    /\ \A i, j \in 1..Len(bk[side]) :
         i < j => IF side = "Bid" THEN bk[side][i].px > bk[side][j].px
                  ELSE bk[side][i].px < bk[side][j].px

VARIABLES rolling, count, head,  \* rolling_, rolling_count_, rolling_head_
          skip,                  \* skip_next_signal_
          since,                 \* time since last_trade_ns_, up to Cooldown
          pnl,                   \* the strategy's PnlState
          risk,                  \* positions_ and cash_ of the risk manager
          breaker,               \* the circuit breaker
          recent,                \* the imbalances smoothed, oldest first
          last                   \* what became of the last event's order

strategyVars == <<rolling, count, head, skip, since, recent>>
vars == <<strategyVars, pnl, risk, breaker, last>>

Breaker == INSTANCE CircuitBreaker WITH log <- << >>, trippedAt <- 0

Outcomes == {"no order", "blocked", "rejected", "unfilled", "filled"}
NoEvent == [outcome |-> "no order", order |-> NoOrder, report |-> NoOrder]

TypeOK ==
  /\ rolling \in [0..(SmoothingWindow - 1) -> -Scale..Scale]
  /\ count \in 0..SmoothingWindow /\ head \in 0..(SmoothingWindow - 1)
  /\ skip \in BOOLEAN /\ since \in 0..Cooldown
  /\ pnl \in [cash : Int, position : Int, avgEntry : Nat, realized : Int]
  /\ risk \in [position : Int, cash : Int]
  /\ breaker \in [msgs : 0..MaxEvents, errors : Nat, tripped : BOOLEAN]
  /\ recent \in Seq(-Scale..Scale)
  /\ last \in [outcome : Outcomes, order : Orders, report : Orders]

Init ==
  /\ rolling = [i \in 0..(SmoothingWindow - 1) |-> 0] /\ count = 0 /\ head = 0
  /\ skip = FALSE /\ since = Cooldown
  /\ pnl = [cash |-> InitialCash, position |-> 0, avgEntry |-> 0, realized |-> 0]
  /\ risk = [position |-> 0, cash |-> InitialCash]
  /\ breaker = [msgs |-> 0, errors |-> 0, tripped |-> FALSE]
  /\ recent = << >>
  /\ last = NoEvent

-----------------------------------------------------------------------------
(* ImbalanceStrategy::onMarketUpdate *)

\* The quantity of the first levels, after each number of them.
Sizes(lvls) ==
  LET size[i \in 0..Len(lvls)] == IF i = 0 THEN 0 ELSE size[i - 1] + lvls[i].qty
  IN size

Size(lvls) == Sizes(lvls)[Len(lvls)]

BestBid(bk) == bk.Bid[1].px
BestAsk(bk) == bk.Ask[1].px

\* Both sides are there and the book is neither locked nor crossed.
Usable(bk) == bk.Bid # << >> /\ bk.Ask # << >> /\ BestAsk(bk) > BestBid(bk)

Imbalance(bk) ==
  LET bidSz == Size(Levels(bk, "Bid", DepthLevels))
      askSz == Size(Levels(bk, "Ask", DepthLevels))
  IN ((bidSz - askSz) * Scale) \div (bidSz + askSz)

\* The move since entry reached the profit or the loss at which to close.
Closes(gain, entry) ==
  \/ gain * 10000 >= TakeProfitBps * entry
  \/ gain * 10000 <= -StopLossBps * entry

SpreadTight(bk) ==
  (BestAsk(bk) - BestBid(bk)) * 20000 <= MaxSpreadBps * (BestBid(bk) + BestAsk(bk))

\* trade_fraction * cash / mid, in whole lots.
TargetQty(bk, cash) ==
  (TradeFraction * cash * 2) \div (100 * (BestBid(bk) + BestAsk(bk)))

\* While holding: only take-profit and stop-loss.
ExitSignal(bk) ==
  IF pnl.position > 0
  THEN IF Closes(BestBid(bk) - pnl.avgEntry, pnl.avgEntry)
       THEN ComputeOrder(bk, "Ask", pnl.position) ELSE NoOrder
  ELSE IF Closes(pnl.avgEntry - BestAsk(bk), pnl.avgEntry)
       THEN ComputeOrder(bk, "Bid", -pnl.position) ELSE NoOrder

\* While flat: a strong smoothed imbalance (the sum of n values), a tight
\* spread and the cooldown over.
EntrySignal(bk, sum, n, elapsed) ==
  IF elapsed < Cooldown \/ ~SpreadTight(bk) \/ pnl.cash <= 0 THEN NoOrder
  ELSE IF sum > EntryImbalance * n THEN ComputeOrder(bk, "Bid", TargetQty(bk, pnl.cash))
  ELSE IF AllowShort /\ sum < -EntryImbalance * n
       THEN ComputeOrder(bk, "Ask", TargetQty(bk, pnl.cash))
  ELSE NoOrder

\* Mutant: entries are made with a position open.
SignalOfHolding(bk, sum, n, elapsed) ==
  IF pnl.position # 0 /\ ExitSignal(bk) # NoOrder THEN ExitSignal(bk)
  ELSE EntrySignal(bk, sum, n, elapsed)

SignalOf(bk, sum, n, elapsed) ==
  IF pnl.position # 0 THEN ExitSignal(bk) ELSE EntrySignal(bk, sum, n, elapsed)

\* The sum of the first n slots of the ring.
SumOfFirst(f, n) ==
  LET sum[i \in 0..n] == IF i = 0 THEN 0 ELSE sum[i - 1] + f[i - 1]
  IN sum[n]

-----------------------------------------------------------------------------
(* Runtime::dispatchOrder *)

\* What becomes of an order.
Dispatched(o, bk, b) ==
  LET r == Simulate(o, bk)
  IN IF o = NoOrder THEN NoEvent
     ELSE IF b.tripped THEN [outcome |-> "blocked", order |-> o, report |-> NoOrder]
     ELSE IF ~Approve(risk, o)
          THEN [outcome |-> "rejected", order |-> o, report |-> NoOrder]
     ELSE [outcome |-> IF IsFill(r) THEN "filled" ELSE "unfilled",
           order |-> o, report |-> r]

\* dispatchOrder(), with the recordMessage() at the start of processEvent(): a
\* rejection is an error of the breaker, and a fill goes to the risk manager
\* and to the strategy.
Dispatch(o, bk) ==
  LET b == Breaker!Recorded(breaker)
      d == Dispatched(o, bk, b)
  IN /\ last' = d
     /\ breaker' = IF d.outcome = "rejected" THEN Breaker!Errored(b) ELSE b
     /\ risk' = IF d.outcome = "filled" THEN RiskOnFill(risk, d.report) ELSE risk
     /\ pnl' = IF d.outcome = "filled" THEN PnlOnFill(pnl, d.report) ELSE pnl

-----------------------------------------------------------------------------
(* The strategy thread *)

\* The clock moves on between two events.
Elapsed(dt) == Least(since + dt, Cooldown)

\* A book with a side missing, or crossed: nothing but the breaker's count.
UnusableBook(bk, dt) ==
  /\ ~Usable(bk)
  /\ since' = Elapsed(dt)
  /\ Dispatch(NoOrder, bk)
  /\ UNCHANGED <<rolling, count, head, skip, recent>>

\* Mutant: the write position does not wrap.
NextSlotNoWrap(h) == h + 1

\* Where the next imbalance goes.
NextSlot(h) == (h + 1) % SmoothingWindow

\* onMarketUpdate() of a usable book: smooth the imbalance, then signal unless
\* this is the first update after a reconnect.  emit() restarts the cooldown
\* for every order, whatever becomes of it.
MarketUpdate(bk, dt) ==
  /\ Usable(bk)
  /\ rolling' = [rolling EXCEPT ![head] = Imbalance(bk)]
  /\ head' = NextSlot(head)
  /\ count' = Least(count + 1, SmoothingWindow)
  /\ recent' = LET r == Append(recent, Imbalance(bk))
               IN IF Len(r) > SmoothingWindow THEN Tail(r) ELSE r
  /\ skip' = FALSE
  /\ LET sig == IF skip THEN NoOrder
                ELSE SignalOf(bk, SumOfFirst(rolling', count'), count', Elapsed(dt))
     IN /\ since' = IF sig = NoOrder THEN Elapsed(dt) ELSE 0
        /\ Dispatch(sig, bk)

\* An event the strategy does not see: a heartbeat, an update before the
\* snapshot.
OtherEvent ==
  /\ breaker' = Breaker!Recorded(breaker)
  /\ last' = NoEvent
  /\ UNCHANGED <<strategyVars, pnl, risk>>

\* Mutant: the write position is kept.
OnReconnectKeepHead ==
  /\ count' = 0 /\ skip' = TRUE /\ recent' = << >>
  /\ last' = NoEvent
  /\ UNCHANGED <<rolling, head, since, pnl, risk, breaker>>

\* onReconnect()
OnReconnect ==
  /\ count' = 0 /\ head' = 0 /\ skip' = TRUE /\ recent' = << >>
  /\ last' = NoEvent
  /\ UNCHANGED <<rolling, since, pnl, risk, breaker>>

Stopped == breaker.msgs = MaxEvents /\ UNCHANGED vars

Next ==
  \/ /\ breaker.msgs < MaxEvents
     /\ \/ \E bk \in Books, dt \in {0, 1} : UnusableBook(bk, dt) \/ MarketUpdate(bk, dt)
        \/ OtherEvent
        \/ OnReconnect
  \/ Stopped

Spec == Init /\ [][Next]_vars

-----------------------------------------------------------------------------
(* Correctness *)

\* The risk manager and the strategy's PnL tracker each keep the position and
\* the cash, by different code; they never disagree.
BooksAgree == risk.position = pnl.position /\ risk.cash = pnl.cash

\* No money is made or lost by the bookkeeping: the cash and the position at
\* its entry price are the initial cash and what has been realized.  When the
\* position is closed the profit shown is the change of the cash.
PnlIdentity == pnl.cash + pnl.position * pnl.avgEntry = InitialCash + pnl.realized

\* The limits hold of what is filled, not only of what is ordered: the fill's
\* average price, rounded to a tick, never makes the cash negative.
WithinLimits == pnl.cash >= 0 /\ pnl.position \in -MaxPosition..MaxPosition

\* "or a deep order would spuriously partial-fill against the very book it was
\* sized from": an approved order is filled whole, at its limit or better.
FilledWhole ==
  last.outcome \in {"filled", "unfilled"} =>
    /\ last.report.qty = last.order.qty
    /\ Matches(last.order, last.report)

\* The signal that closes a long position is never rejected.
LongExitApproved ==
  last.outcome = "rejected" /\ last.order.side = "Ask" => pnl.position = 0

\* The README's "One position at a time": a fill opens a position from flat or
\* reduces one; it never adds to it or turns it around.
OnePosition ==
  [][ pnl.position # 0 =>
        /\ Magnitude(pnl'.position) <= Magnitude(pnl.position)
        /\ pnl'.position * pnl.position >= 0
        /\ pnl'.position # 0 => pnl'.avgEntry = pnl.avgEntry ]_vars

\* The first count slots of the ring, which the mean is taken of, hold the last
\* imbalances since the last reconnect and nothing older.
SmoothsRecent ==
  LET oldest == IF count < SmoothingWindow THEN 0 ELSE head
  IN /\ count = Len(recent)
     /\ \A i \in 1..count : rolling[(oldest + i - 1) % SmoothingWindow] = recent[i]

=============================================================================
