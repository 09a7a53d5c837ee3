----------------------------- MODULE Execution -----------------------------
(***************************************************************************)
(* The order path without its state: sizing an order from the book         *)
(* (strategy/order_sizer.hpp), the risk check (exec/risk_manager.hpp), the *)
(* simulated fill (exec/execution_engine.hpp) and the profit and loss of a *)
(* fill (strategy/pnl_tracker.hpp).                                        *)
(*                                                                         *)
(* A price is its number of ticks and a quantity a number of lots, so the  *)
(* money an order costs is an integer.  One side of the book is what       *)
(* depth() returns: live levels [px, qty], the best first.  The tolerance  *)
(* of 1e-12 in the code is 0 here.                                         *)
(***************************************************************************)
EXTENDS Integers, Sequences

CONSTANTS MaxBookWalk,  \* MAX_BOOK_WALK (32)
          MaxPosition   \* max_position

ASSUME ExecutionAssumption ==
  /\ MaxBookWalk \in Nat \ {0}
  /\ MaxPosition \in Nat \ {0}

Opposite(side) == IF side = "Bid" THEN "Ask" ELSE "Bid"
Least(a, b) == IF a <= b THEN a ELSE b
Magnitude(n) == IF n < 0 THEN -n ELSE n
Signed(side, qty) == IF side = "Bid" THEN qty ELSE -qty

\* depth(side, out, n)
Levels(bk, side, n) == SubSeq(bk[side], 1, Least(n, Len(bk[side])))

\* Price::fromDouble(cost / qty): the nearest tick, halves away from zero.
Rounded(cost, qty) == (2 * cost + qty) \div (2 * qty)

-----------------------------------------------------------------------------
(* OrderSizer *)

NoOrder == [side |-> "none", px |-> 0, qty |-> 0]
Orders == {NoOrder} \cup [side : {"Bid", "Ask"}, px : Nat, qty : Nat]

\* The order with what a level adds to it.
Taken(o, l, target) ==
  LET fill == Least(target - o.qty, l.qty)
  IN IF fill <= 0 THEN o ELSE [side |-> o.side, px |-> l.px, qty |-> o.qty + fill]

\* The order after each number of levels.
Sized(lvls, side, target) ==
  LET order[i \in 0..Len(lvls)] ==
        IF i = 0 THEN [side |-> side, px |-> 0, qty |-> 0]
        ELSE Taken(order[i - 1], lvls[i], target)
  IN order

\* computeOrder(): as much of the target as the book offers, with the limit at
\* the last level needed.
ComputeOrder(bk, side, target) ==
  LET lvls == Levels(bk, Opposite(side), MaxBookWalk)
  IN IF target <= 0 \/ lvls = << >> THEN NoOrder
     ELSE Sized(lvls, side, target)[Len(lvls)]

-----------------------------------------------------------------------------
(* ExecutionEngine *)

Reports == [side : {"Bid", "Ask"}, px : Nat, qty : Nat]

Matches(o, l) == IF o.side = "Bid" THEN l.px <= o.px ELSE l.px >= o.px

\* Mutant: only the best level is walked.
SimulateTop(o, bk) ==
  LET l == bk[Opposite(o.side)][1]
  IN [side |-> o.side, px |-> l.px, qty |-> Least(o.qty, l.qty)]

\* The quantity filled and its cost, with what a level adds to them.
Matched(f, l, o) ==
  LET fill == Least(o.qty - f.qty, l.qty)
  IN IF ~Matches(o, l) THEN f
     ELSE [qty |-> f.qty + fill, cost |-> f.cost + fill * l.px]

\* The fill after each number of levels.
Filled(lvls, o) ==
  LET fill[i \in 0..Len(lvls)] ==
        IF i = 0 THEN [qty |-> 0, cost |-> 0] ELSE Matched(fill[i - 1], lvls[i], o)
  IN fill

\* simulate(): walk the opposing side up to the limit; the price of the fill is
\* the average paid, rounded to a tick.
Simulate(o, bk) ==
  LET lvls == Levels(bk, Opposite(o.side), MaxBookWalk)
      done == Filled(lvls, o)[Len(lvls)]
  IN [side |-> o.side, qty |-> done.qty,
      px |-> IF done.qty > 0 THEN Rounded(done.cost, done.qty) ELSE o.px]

IsFill(r) == r.qty > 0

-----------------------------------------------------------------------------
(* RiskManager: a record of position and cash *)

\* Mutant: the cash check forgets the quantity.
ApproveUnitCash(risk, o) ==
  LET projected == risk.position + Signed(o.side, o.qty)
  IN /\ projected \in -MaxPosition..MaxPosition
     /\ o.side = "Bid" => o.px <= risk.cash

\* Mutant: sells are checked against the cash too.
ApproveBothSides(risk, o) ==
  LET projected == risk.position + Signed(o.side, o.qty)
  IN /\ projected \in -MaxPosition..MaxPosition
     /\ o.qty * o.px <= risk.cash

\* approve(): the position stays within the limit and a buy is paid for.
Approve(risk, o) ==
  LET projected == risk.position + Signed(o.side, o.qty)
  IN /\ projected \in -MaxPosition..MaxPosition
     /\ o.side = "Bid" => o.qty * o.px <= risk.cash

\* Mutant: the cash is moved by the unsigned quantity.
RiskOnFillUnsigned(risk, r) ==
  [position |-> risk.position + Signed(r.side, r.qty),
   cash |-> risk.cash - r.qty * r.px]

\* onFill()
RiskOnFill(risk, r) ==
  [position |-> risk.position + Signed(r.side, r.qty),
   cash |-> risk.cash - Signed(r.side, r.qty) * r.px]

-----------------------------------------------------------------------------
(* PnlTracker: a record of cash, position, avgEntry and realized *)

SameDirection(pos, signedQty) == pos = 0 \/ (pos > 0 <=> signedQty > 0)

\* Mutant: the profit of a short is counted as that of a long.
PnlOnFillLongOnly(s, r) ==
  LET signedQty == Signed(r.side, r.qty)
      newPos == s.position + signedQty
      closeQty == Least(Magnitude(signedQty), Magnitude(s.position))
  IN IF SameDirection(s.position, signedQty)
     THEN [s EXCEPT !.cash = @ - signedQty * r.px, !.position = newPos,
                    !.avgEntry = r.px]
     ELSE [s EXCEPT !.cash = @ - signedQty * r.px, !.position = newPos,
                    !.avgEntry = IF newPos = 0 THEN 0 ELSE @,
                    !.realized = @ + (r.px - s.avgEntry) * closeQty]

\* onFill(): the same direction averages the entry price; the other realizes
\* the profit of what it closes and keeps, resets or restarts the entry price.
\* (An average is an integer here whenever a position is opened by one fill,
\* which OnePosition shows of every position.)
PnlOnFill(s, r) ==
  LET signedQty == Signed(r.side, r.qty)
      newPos == s.position + signedQty
      totalCost == s.avgEntry * Magnitude(s.position) + r.px * Magnitude(signedQty)
      closeQty == Least(Magnitude(signedQty), Magnitude(s.position))
      direction == IF s.position > 0 THEN 1 ELSE -1
      flipped == newPos # 0 /\ (newPos > 0) # (s.position > 0)
      same == SameDirection(s.position, signedQty)
  IN [cash |-> s.cash - signedQty * r.px,
      position |-> newPos,
      avgEntry |-> IF newPos = 0 THEN 0
                   ELSE IF same THEN totalCost \div Magnitude(newPos)
                   ELSE IF flipped THEN r.px
                   ELSE s.avgEntry,
      realized |-> IF same THEN s.realized
                   ELSE s.realized + direction * (r.px - s.avgEntry) * closeQty]

=============================================================================
