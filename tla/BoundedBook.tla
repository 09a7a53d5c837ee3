---------------------------- MODULE BoundedBook ----------------------------
(***************************************************************************)
(* The order book of md/bounded_book.hpp: two quantity ladders over a      *)
(* window of Capacity ticks, an index of the live levels of each (a bit    *)
(* per slot and a summary bit per word of bits), the cached best slots,    *)
(* and the recentering of the window when the touch drifts to an edge.     *)
(*                                                                         *)
(* The book is one record and each method of the class an operator on it,  *)
(* so that other modules can use the book as the program does.  A bitmap   *)
(* is the set of the slots whose bit is set, a summary the set of the      *)
(* words that have one.  Prices are in ticks and quantities are integers.  *)
(*                                                                         *)
(* The variable market is not in the code: it holds every level since the  *)
(* last clear(), as the std::map in the repository's randomized test does. *)
(***************************************************************************)
EXTENDS Integers, Sequences, FiniteSets, FiniteSetsExt

CONSTANTS Capacity,   \* slots of a ladder (4096)
          WordBits,   \* bits of a bitmap word (64)
          Prices,     \* the prices, in ticks, that updates may carry
          Qtys,       \* the quantities that updates may carry
          MaxLevels,  \* bound: live levels of the market at one time
          MaxRebases  \* bound: value of rebase_count_

ASSUME BookAssumption ==
  /\ Capacity \in Nat /\ WordBits \in Nat
  /\ WordBits >= 1
  /\ \E words \in 1..Capacity : Capacity = words * WordBits
  /\ Capacity % 2 = 0
  /\ Prices \subseteq Int
  /\ Qtys \subseteq Int /\ 0 \in Qtys

VARIABLES book, market

vars == <<book, market>>

Sides == {"Bid", "Ask"}
Slots == 0..(Capacity - 1)
Words == 0..((Capacity \div WordBits) - 1)
Center == Capacity \div 2
RecenterMargin == Capacity \div 8

\* best_bid_idx_ and best_ask_idx_ of a side with no level.
NoBest(side) == IF side = "Bid" THEN -1 ELSE Capacity

-----------------------------------------------------------------------------
(* The index *)

WordOf(slot) == slot \div WordBits

\* Mutant: the word's summary bit goes although other bits of it are set.
ClearSummaryEager(bits, summary, slot) == summary \ {WordOf(slot)}

\* The summary after clearBit: the word's bit goes with its last slot.
ClearSummary(bits, summary, slot) ==
  IF \E s \in bits \ {slot} : WordOf(s) = WordOf(slot)
    THEN summary
    ELSE summary \ {WordOf(slot)}

HighestSet(bits, summary) ==
  IF summary = {} THEN -1
  ELSE LET w == Max(summary) IN Max({s \in bits : WordOf(s) = w})

LowestSet(bits, summary) ==
  IF summary = {} THEN Capacity
  ELSE LET w == Min(summary) IN Min({s \in bits : WordOf(s) = w})

BestSet(side, bits, summary) ==
  IF side = "Bid" THEN HighestSet(bits, summary) ELSE LowestSet(bits, summary)

Better(side, s, t) == IF side = "Bid" THEN s > t ELSE s < t

-----------------------------------------------------------------------------
(* The methods *)

Live(qty) == qty > 0
EmptySides(x) == [side \in Sides |-> x]

\* clear(): the window keeps ref_tick_ and rebase_count_.
Cleared(b) ==
  [b EXCEPT !.ladder = EmptySides([s \in Slots |-> 0]),
            !.bits = EmptySides({}), !.summary = EmptySides({}),
            !.best = [side \in Sides |-> NoBest(side)],
            !.haveRef = FALSE]

\* seedReference(price)
Seeded(b, price) ==
  IF b.haveRef THEN b ELSE [b EXCEPT !.ref = price, !.haveRef = TRUE]

\* Slot of a price, and price of a slot.
SlotOf(b, price) == Center + (price - b.ref)
PriceOf(b, slot) == b.ref + (slot - Center)

\* The ladder, index and best slot of one side after a level is written.
WithLevel(b, side, slot, qty) ==
  LET bits    == IF Live(qty) THEN b.bits[side] \cup {slot}
                 ELSE b.bits[side] \ {slot}
      summary == IF Live(qty) THEN b.summary[side] \cup {WordOf(slot)}
                 ELSE ClearSummary(b.bits[side], b.summary[side], slot)
      best    == CASE Live(qty) /\ Better(side, slot, b.best[side]) -> slot
                   [] ~Live(qty) /\ slot = b.best[side] ->
                        BestSet(side, bits, summary)
                   [] OTHER -> b.best[side]
  IN [b EXCEPT !.ladder[side][slot] = qty,
               !.bits[side] = bits, !.summary[side] = summary,
               !.best[side] = best]

HaveBest(b, side) == b.best[side] # NoBest(side)

\* lo and hi of recenterIfNearEdge(): the slots of the touch.
TouchSlots(b) == {b.best[side] : side \in {s \in Sides : HaveBest(b, s)}}

\* rebuildIndex()
Indexed(b) ==
  LET bits == [side \in Sides |-> {s \in Slots : Live(b.ladder[side][s])}]
      summary == [side \in Sides |-> {WordOf(s) : s \in bits[side]}]
  IN [b EXCEPT !.bits = bits, !.summary = summary,
               !.best = [side \in Sides |->
                           BestSet(side, bits[side], summary[side])]]

\* Mutant: the loop stops one slot early.
RebasedShort(b, newRef) ==
  LET shift == newRef - b.ref
      Moved(q) == [s \in Slots |-> IF s + shift \in Slots /\ s < Capacity - 1
                                   THEN q[s + shift] ELSE 0]
  IN Indexed([b EXCEPT !.ladder = [side \in Sides |-> Moved(b.ladder[side])],
                       !.ref = newRef, !.rebases = @ + 1])

\* rebase(newRef): levels shifted out of the window are dropped.
Rebased(b, newRef) ==
  LET shift == newRef - b.ref
      Moved(q) == [s \in Slots |-> IF s + shift \in Slots THEN q[s + shift] ELSE 0]
  IN Indexed([b EXCEPT !.ladder = [side \in Sides |-> Moved(b.ladder[side])],
                       !.ref = newRef, !.rebases = @ + 1])

\* Mutant: the window is centred on the lower of the two touch slots.
RecenteredOnLow(b) ==
  LET touch == TouchSlots(b)
      newRef == b.ref + (Min(touch) - Center)
  IN IF \/ touch = {}
        \/ Min(touch) >= RecenterMargin /\ Max(touch) < Capacity - RecenterMargin
        \/ newRef = b.ref
     THEN b
     ELSE Rebased(b, newRef)

\* recenterIfNearEdge()
Recentered(b) ==
  LET touch == TouchSlots(b)
      newRef == b.ref + ((Min(touch) + Max(touch)) \div 2 - Center)
  IN IF \/ touch = {}
        \/ Min(touch) >= RecenterMargin /\ Max(touch) < Capacity - RecenterMargin
        \/ newRef = b.ref
     THEN b
     ELSE Rebased(b, newRef)

\* update(side, price, qty)
Updated(b, side, price, qty) ==
  LET a == Seeded(b, price)
      slot == SlotOf(a, price)
  IN IF slot \notin Slots THEN a
     ELSE Recentered(WithLevel(a, side, slot, qty))

\* topOfBook(side), as a set of at most one level.
TopOfBook(b, side) ==
  {[price |-> PriceOf(b, s), qty |-> b.ladder[side][s]] :
     s \in {b.best[side]} \ {NoBest(side)}}

\* depth(side, out, n): the first n live slots from the best slot outwards.  A
\* slot goes where as many have been filled as the walk met before it.
Depth(b, side, n) ==
  LET walked == {s \in Slots : /\ ~Better(side, s, b.best[side])
                               /\ Live(b.ladder[side][s])}
      filled(s) == Cardinality({t \in walked : Better(side, t, s)})
      out(i) == CHOOSE s \in walked : filled(s) = i - 1
  IN [i \in 1..Min({n, Cardinality(walked)}) |->
        [price |-> PriceOf(b, out(i)), qty |-> b.ladder[side][out(i)]]]

-----------------------------------------------------------------------------
(* The state machine: a client calls the three mutators in any order.      *)

EmptyBook ==
  [ref |-> 0, haveRef |-> FALSE,
   ladder |-> EmptySides([s \in Slots |-> 0]),
   bits |-> EmptySides({}), summary |-> EmptySides({}),
   best |-> [side \in Sides |-> NoBest(side)],
   rebases |-> 0]

EmptyMarket == EmptySides([p \in Prices |-> 0])

LevelsOf(m, side) == {p \in Prices : Live(m[side][p])}

LiveLevels(m) == {sp \in Sides \X Prices : Live(m[sp[1]][sp[2]])}

Init == book = EmptyBook /\ market = EmptyMarket

Clear ==
  /\ book' = Cleared(book)
  /\ market' = EmptyMarket

SeedReference(price) ==
  /\ book' = Seeded(book, price)
  /\ UNCHANGED market

Update(side, price, qty) ==
  /\ market' = [market EXCEPT ![side][price] = qty]
  /\ Cardinality(LiveLevels(market')) <= MaxLevels
  /\ book' = Updated(book, side, price, qty)
  /\ book'.rebases <= MaxRebases

Next ==
  \/ Clear
  \/ \E price \in Prices : SeedReference(price)
  \/ \E side \in Sides, price \in Prices, qty \in Qtys :
       Update(side, price, qty)

Spec == Init /\ [][Next]_vars

\* Every bid of an exchange is below every ask.
Uncrossed(m) == \A b \in LevelsOf(m, "Bid"), a \in LevelsOf(m, "Ask") : b < a

\* The book under a client that relays a market that is never crossed.
UncrossedSpec == Init /\ [][Next /\ Uncrossed(market')]_vars

-----------------------------------------------------------------------------
(* Correctness *)

TypeOK ==
  /\ book \in [ref : Int, haveRef : BOOLEAN,
               ladder : [Sides -> [Slots -> Int]],
               bits : [Sides -> SUBSET Slots],
               summary : [Sides -> SUBSET Words],
               best : [Sides -> -1..Capacity],
               rebases : Nat]
  /\ market \in [Sides -> [Prices -> Qtys]]

\* The index and the ladder never disagree (update()'s comment): after any
\* sequence of updates, removals and rebases the bits are the live slots, the
\* summary names the words that hold one, and the cached best slot is the
\* highest live bid and the lowest live ask.
IndexAgrees ==
  \A side \in Sides :
    LET liveSlots == {s \in Slots : Live(book.ladder[side][s])}
    IN /\ book.bits[side] = liveSlots
       /\ book.summary[side] = {WordOf(s) : s \in liveSlots}
       /\ IF liveSlots = {} THEN book.best[side] = NoBest(side)
          ELSE /\ book.best[side] \in liveSlots
               /\ \A s \in liveSlots : ~Better(side, s, book.best[side])

InWindow(b, price) == b.haveRef /\ SlotOf(b, price) \in Slots
LevelAt(b, side, price) ==
  IF InWindow(b, price) THEN b.ladder[side][SlotOf(b, price)] ELSE 0

\* The book right before recenterIfNearEdge() in update().
BeforeRecenter(side, price, qty) ==
  LET a == Seeded(book, price)
  IN WithLevel(a, side, SlotOf(a, price), qty)

Tops(b) == [side \in Sides |-> TopOfBook(b, side)]

\* Every update that reaches recenterIfNearEdge().
Landing == {u \in Sides \X Prices \X Qtys :
              SlotOf(Seeded(book, u[2]), u[2]) \in Slots}

SpreadOf(b) == IF TouchSlots(b) = {} THEN 0
               ELSE Max(TouchSlots(b)) - Min(TouchSlots(b))

\* Recentering keeps the touch: it never changes what topOfBook() returns, and
\* one recentering is enough.  (For a touch that does not span the whole
\* window: RecenterKeepsTouch below.)
RecenterKeepsNarrowTouch ==
  \A u \in Landing :
    LET b == BeforeRecenter(u[1], u[2], u[3])
    IN SpreadOf(b) < Capacity - 1 =>
         /\ Tops(Recentered(b)) = Tops(b)
         /\ Recentered(Recentered(b)) = Recentered(b)

\* "Recenter the window on the current touch ... so the book follows genuine
\* price movement" without dropping "the real near-touch levels": whatever the
\* spread, recentering keeps the best bid and the best ask of a market that is
\* not crossed.
RecenterKeepsTouch ==
  \A u \in Landing :
    LET b == BeforeRecenter(u[1], u[2], u[3])
    IN Uncrossed([market EXCEPT ![u[1]][u[2]] = u[3]]) =>
         Tops(Recentered(b)) = Tops(b)

=============================================================================
