------------------------------ MODULE BookFeed ------------------------------
(***************************************************************************)
(* The way of market data from the JSON text to the order book: the parser *)
(* (md/coinbase_parser.cpp), the events made of a message                  *)
(* (Runtime::onCoinbaseMessage) and their effect on the book               *)
(* (Runtime::processEvent), over the book of module BoundedBook.           *)
(*                                                                         *)
(* A level or a change in the text is a sequence of items.  An item is a   *)
(* string that strtod reads as a number, another string, or no string at   *)
(* all.  The queue between the threads is a FIFO (module SPSCQueue), so a  *)
(* message is applied in the step that sends it; any of its events may     *)
(* have been lost to a full queue.  A message that does not parse as JSON  *)
(* is one of which everything is lost.                                     *)
(*                                                                         *)
(* The variables market, untold, moved and fresh are not in the code.      *)
(* market is the exchange's own book, untold the levels whose present      *)
(* quantity the program has not been told.                                 *)
(***************************************************************************)
EXTENDS BoundedBook

CONSTANTS SnapLevels,  \* levels of a side that a Snapshot event holds (64)
          ChunkSize,   \* changes that an L2Update event holds (128)
          Parts,       \* parts of a tick that a quotient of doubles tells apart
          Updates,     \* the l2update messages, as sequences of wire changes
          Junk,        \* malformed levels that a snapshot may begin with
          MaxUntold    \* bound: levels the program has not been told of

VARIABLES ready,   \* bookReady_
          untold,  \* levels the program has not been told of
          moved,   \* the window was recentred since the last snapshot
          fresh    \* the last message was a snapshot

feedVars == <<book, market, ready, untold, moved, fresh>>

-----------------------------------------------------------------------------
(* The text *)

Num(v) == [kind |-> "number", value |-> v]
Str(s) == [kind |-> "text", value |-> s]
NoString == [kind |-> "other", value |-> 0]

Items == [kind : {"number"}, value : Int] \cup [kind : {"text"}, value : STRING]
           \cup {NoString}
Entries == Seq(Items)

\* The price of a tick in the text: px / tickSize is not exact in doubles, and
\* may fall short of the tick.
Quotient(price) == Parts * price - (price % 2)

WireLevel(price, qty) == <<Num(Quotient(price)), Num(qty)>>
WireChange(side, price, qty) ==
  <<Str(IF side = "Bid" THEN "buy" ELSE "sell"), Num(Quotient(price)), Num(qty)>>

\* Price::fromDouble(px, tickSize): llround of the quotient.
FromDouble(v) == (2 * v + Parts) \div (2 * Parts)

-----------------------------------------------------------------------------
(* CoinbaseParser::parse *)

\* The elements of a sequence at some of its positions, in their order.
Picked(s, at) ==
  LET upto[i \in 0..Len(s)] ==
        IF i = 0 THEN << >>
        ELSE IF i \in at THEN Append(upto[i - 1], s[i]) ELSE upto[i - 1]
  IN upto[Len(s)]

IsString(item) == item.kind # "other"
IsNumber(item) == item.kind = "number"
Strings(items) == Picked(items, {i \in 1..Len(items) : IsString(items[i])})
Numbers(items) == Picked(items, {i \in 1..Len(items) : IsNumber(items[i])})

\* Mutant: a level is taken although its quantity was never set; the build
\* leaves an arbitrary number there.
ParsedLevelsShort(wire) ==
  LET usable == Picked(wire, {i \in 1..Len(wire) : Len(Numbers(wire[i])) >= 1})
  IN [i \in 1..Len(usable) |->
        LET n == Numbers(usable[i])
        IN [price |-> n[1].value, qty |-> IF Len(n) = 1 THEN Max(Qtys) ELSE n[2].value]]

\* slot >= 2 at the end of the entry of a level.
IsLevel(items) == Len(Numbers(items)) >= 2

\* The levels of a snapshot: the first two numbers of every entry that has two.
ParsedLevels(wire) ==
  LET usable == Picked(wire, {i \in 1..Len(wire) : IsLevel(wire[i])})
  IN [i \in 1..Len(usable) |->
        LET n == Numbers(usable[i]) IN [price |-> n[1].value, qty |-> n[2].value]]

\* slot >= 3 at the end of a change: a string for the side, and two numbers
\* after it.
IsChange(items) ==
  Strings(items) # << >> /\ Len(Numbers(Tail(Strings(items)))) >= 2

\* The changes of an l2update.  Of the side only "buy" is looked for.
ParsedChanges(wire) ==
  LET usable == Picked(wire, {i \in 1..Len(wire) : IsChange(wire[i])})
  IN [i \in 1..Len(usable) |->
        LET first == Strings(usable[i])[1]
            n == Numbers(Tail(Strings(usable[i])))
        IN [side |-> IF first.kind = "text" /\ first.value = "buy" THEN "Bid" ELSE "Ask",
            price |-> n[1].value, qty |-> n[2].value]]

-----------------------------------------------------------------------------
(* Runtime::onCoinbaseMessage *)

\* The levels of one side in a Snapshot event.
SnapSide(levels) ==
  [i \in 1..Min({Len(levels), SnapLevels}) |->
     [price |-> FromDouble(levels[i].price), qty |-> levels[i].qty]]

\* The events of an l2update: full chunks, and what is left, perhaps nothing.
NumChunks(changes) ==
  IF Len(changes) = 0 THEN 1 ELSE (Len(changes) + ChunkSize - 1) \div ChunkSize
Chunks(changes) == 1..NumChunks(changes)

\* Mutant: off is advanced by one too many after a chunk.
ChunkGap(changes, k) ==
  SubSeq(changes, (k - 1) * (ChunkSize + 1) + 1,
         Min({(k - 1) * (ChunkSize + 1) + ChunkSize, Len(changes)}))

Chunk(changes, k) ==
  SubSeq(changes, (k - 1) * ChunkSize + 1, Min({k * ChunkSize, Len(changes)}))

-----------------------------------------------------------------------------
(* Runtime::processEvent *)

WithSide(b, side, levels) ==
  LET upto[i \in 0..Len(levels)] ==
        IF i = 0 THEN b ELSE Updated(upto[i - 1], side, levels[i].price, levels[i].qty)
  IN upto[Len(levels)]

LivePrices(levels) ==
  {levels[i].price : i \in {j \in 1..Len(levels) : Live(levels[j].qty)}}

\* Mutant: the window is left to the level that lands first.
AnchoredFirst(b, bids, asks) == b

\* The window is anchored on the mid of the snapshot, if it has both sides.
Anchored(b, bids, asks) ==
  LET bid == Max(LivePrices(bids))
      ask == Min(LivePrices(asks))
  IN IF LivePrices(bids) = {} \/ LivePrices(asks) = {} THEN b
     ELSE Seeded(b, bid + (ask - bid) \div 2)

\* The case Snapshot.
SnapshotApplied(b, bids, asks) ==
  WithSide(WithSide(Anchored(Cleared(b), bids, asks), "Bid", bids), "Ask", asks)

\* The case L2Update, when bookReady_ is set.
ChangesApplied(b, changes) ==
  LET upto[i \in 0..Len(changes)] ==
        IF i = 0 THEN b
        ELSE Updated(upto[i - 1], changes[i].side, FromDouble(changes[i].price),
                     changes[i].qty)
  IN upto[Len(changes)]

\* The events of an l2update, one after the other, less those that were lost.
ChunksApplied(b, changes, lost) ==
  LET upto[k \in 0..NumChunks(changes)] ==
        IF k = 0 THEN b
        ELSE IF k \in lost THEN upto[k - 1]
        ELSE ChangesApplied(upto[k - 1], Chunk(changes, k))
  IN upto[NumChunks(changes)]

-----------------------------------------------------------------------------
(* The exchange *)

BestOf(side, prices) == IF side = "Bid" THEN Max(prices) ELSE Min(prices)

\* Prices of a side, best first, as the feed lists its levels.
Listed(side, prices) ==
  LET rest[i \in 0..Cardinality(prices)] ==
        IF i = 0 THEN prices ELSE rest[i - 1] \ {BestOf(side, rest[i - 1])}
  IN [i \in 1..Cardinality(prices) |-> BestOf(side, rest[i - 1])]

BestFirst(m, side) == Listed(side, LevelsOf(m, side))

\* What the exchange says with a well-formed change; other entries say nothing.
WellFormed(items) ==
  /\ Len(items) = 3 /\ items[1].kind = "text"
  /\ IsNumber(items[2]) /\ IsNumber(items[3])

Meant(wire) ==
  LET said == Picked(wire, {i \in 1..Len(wire) : WellFormed(wire[i])})
  IN [i \in 1..Len(said) |->
        [side |-> IF said[i][1].value = "buy" THEN "Bid" ELSE "Ask",
         price |-> CHOOSE p \in Prices : Quotient(p) = said[i][2].value,
         qty |-> said[i][3].value]]

\* What each message says, and what the parser makes of it.
Said == [wire \in Updates |-> Meant(wire)]
Received == [wire \in Updates |-> ParsedChanges(wire)]

WithChange(m, ch) == [m EXCEPT ![ch.side][ch.price] = ch.qty]

MarketAfter(m, changes) ==
  LET upto[i \in 0..Len(changes)] ==
        IF i = 0 THEN m ELSE WithChange(upto[i - 1], changes[i])
  IN upto[Len(changes)]

LevelsIn(changes) == {<<changes[i].side, changes[i].price>> : i \in 1..Len(changes)}

\* The feed speaks of its prices and quantities, and what is malformed in it is
\* nothing that the parser takes for a level or a change.  The window has a margin
\* (bounded_book.hpp asserts Capacity >= 64).
ASSUME FeedAssumption ==
  /\ SnapLevels \in Nat \ {0} /\ ChunkSize \in Nat \ {0}
  /\ MaxLevels \in Nat /\ MaxUntold \in Nat /\ Capacity >= 8
  /\ Parts \in Nat /\ Parts > 2 /\ IsFiniteSet(Prices) /\ Qtys \subseteq Nat
  /\ Updates \subseteq Seq(Entries) /\ Junk \subseteq Seq(Entries)
  /\ \A wire \in Updates : \A i \in 1..Len(wire) :
       IF WellFormed(wire[i])
         THEN \E side \in Sides, price \in Prices, qty \in Qtys :
                wire[i] = WireChange(side, price, qty)
         ELSE ~IsChange(wire[i])
  /\ \A junk \in Junk : \A i \in 1..Len(junk) : ~IsLevel(junk[i])

-----------------------------------------------------------------------------
FeedInit ==
  /\ book = EmptyBook /\ market = EmptyMarket
  /\ ready = FALSE /\ untold = {} /\ moved = FALSE /\ fresh = FALSE

\* A snapshot of the exchange's book, perhaps with malformed entries.
Snapshot(junk) ==
  LET wire(side) == junk \o [i \in 1..Len(BestFirst(market, side)) |->
                       LET p == BestFirst(market, side)[i]
                       IN WireLevel(p, market[side][p])]
      event == [side \in Sides |-> SnapSide(ParsedLevels(wire(side)))]
      cut(side) == {p \in LevelsOf(market, side) :
                      Cardinality({q \in LevelsOf(market, side) : Better(side, q, p)})
                        >= SnapLevels}
  IN /\ book' = SnapshotApplied(book, event["Bid"], event["Ask"])
     /\ book'.rebases <= MaxRebases
     /\ ready' = TRUE
     /\ untold' = UNION {{side} \X cut(side) : side \in Sides}
     /\ moved' = (book'.rebases # book.rebases) /\ fresh' = TRUE
     /\ UNCHANGED market

\* An l2update: the events in lost do not reach the book; without a snapshot
\* none does.
L2Update(wire, lost) ==
  LET changes == Received[wire]
      said == Said[wire]
      missed == IF ready THEN UNION {LevelsIn(Chunk(said, k)) : k \in lost}
                ELSE LevelsIn(said)
  IN /\ ~ready => lost = {}
     /\ market' = MarketAfter(market, said)
     /\ Uncrossed(market') /\ Cardinality(LiveLevels(market')) <= MaxLevels
     /\ book' = IF ready THEN ChunksApplied(book, changes, lost) ELSE book
     /\ book'.rebases <= MaxRebases
     /\ untold' = (untold \ LevelsIn(said)) \cup missed
     /\ Cardinality(untold') <= MaxUntold
     /\ moved' = (moved \/ book'.rebases # book.rebases) /\ fresh' = FALSE
     /\ UNCHANGED ready

FeedNext ==
  \/ \E junk \in Junk : Snapshot(junk)
  \/ \E wire \in Updates : \E lost \in SUBSET Chunks(Received[wire]) : L2Update(wire, lost)

FeedSpec == FeedInit /\ [][FeedNext]_feedVars

-----------------------------------------------------------------------------
(* Correctness *)

Told(side, price) == <<side, price>> \notin untold

\* No phantom levels: whatever was malformed, lost, ignored outside the window,
\* dropped by a rebase or seen again after the window came back, a live level
\* of a ready book is the exchange's level at that price and quantity, unless
\* the exchange's last word on it was lost.
FeedNoPhantoms ==
  ready =>
    \A side \in Sides, s \in Slots :
      Live(book.ladder[side][s]) =>
        /\ PriceOf(book, s) \in Prices
        /\ Told(side, PriceOf(book, s)) =>
             market[side][PriceOf(book, s)] = book.ladder[side][s]

\* A level the book holds is lost only by leaving the window: an l2update that
\* moves the window at most once leaves every live level that is still inside
\* at the exchange's quantity.  A rebase moves slots, not prices.  (A batch can
\* move it there and back, and so drop levels at the far edge.)
FeedWindowLevelsKept ==
  [][ready /\ ~fresh' /\ book'.rebases <= book.rebases + 1 =>
       \A side \in Sides, price \in Prices :
         /\ Live(LevelAt(book, side, price)) /\ InWindow(book', price)
         /\ <<side, price>> \notin untold'
         => LevelAt(book', side, price) = market'[side][price]]_feedVars

\* The book is complete: until the window moves, every level of the exchange
\* inside it is in the book, and what depth() returns is the exchange's depth
\* there, best first.  Missing are only the levels cut off the snapshot and
\* the changes lost, each until the feed next mentions it; a new snapshot
\* makes up for all losses.
BookIsMarket ==
  ready /\ ~moved /\ book.haveRef =>
    /\ \A side \in Sides, price \in Prices :
         InWindow(book, price) /\ Told(side, price) =>
           LevelAt(book, side, price) = market[side][price]
    /\ untold = {} =>
         \A side \in Sides, n \in 1..MaxLevels :
           LET order == Listed(side, {p \in LevelsOf(market, side) : InWindow(book, p)})
           IN Depth(book, side, n) =
                [i \in 1..Min({n, Len(order)}) |->
                   [price |-> order[i], qty |-> market[side][order[i]]]]

\* "Anchor the window on the snapshot mid, not on whichever level lands first":
\* if the touch of the exchange is narrower than the window less its margins,
\* putting the levels in does not move the window away from the mid.
SnapshotAnchored ==
  LET bids == LevelsOf(market, "Bid")
      asks == LevelsOf(market, "Ask")
  IN /\ fresh /\ bids # {} /\ asks # {}
     /\ Min(asks) - Max(bids) < Capacity - 2 * RecenterMargin
     => /\ book.ref = (Max(bids) + Min(asks)) \div 2
        /\ ~moved
        /\ Tops(book) = [side \in Sides |->
             LET best == BestFirst(market, side)[1]
             IN {[price |-> best, qty |-> market[side][best]]}]

=============================================================================
