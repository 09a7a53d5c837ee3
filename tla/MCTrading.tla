----------------------------- MODULE MCTrading -----------------------------
(***************************************************************************)
(* Books for Trading: prices around 20 ticks, with the moves, shapes and   *)
(* gaps that decide between the strategy's cases.                          *)
(***************************************************************************)
EXTENDS Trading

L(px, qty) == [px |-> px, qty |-> qty]
Book(bids, asks) == [Bid |-> bids, Ask |-> asks]

MCBooks ==
  { Book(<<L(20, 4)>>, <<L(21, 1), L(22, 1)>>),             \* bid-heavy, two ask levels
    Book(<<L(20, 1), L(18, 1)>>, <<L(21, 4)>>),             \* ask-heavy, two bid levels
    Book(<<L(13, 6)>>, <<L(14, 3)>>),                       \* low and bid-heavy
    Book(<<L(13, 3)>>, <<L(14, 6)>>),                       \* low and ask-heavy
    Book(<<L(20, 2)>>, <<L(21, 2)>>),                       \* balanced
    Book(<<L(23, 1)>>, <<L(24, 1)>>),                       \* up, thin
    Book(<<L(23, 1), L(22, 1)>>, <<L(24, 1), L(25, 1)>>),   \* up
    Book(<<L(18, 1), L(17, 1)>>, <<L(19, 1), L(20, 1)>>),   \* down
    Book(<<L(80, 2)>>, <<L(81, 2)>>),                       \* far up
    Book(<<L(10, 4)>>, <<L(30, 2)>>),                       \* wide
    Book(<<L(22, 1)>>, <<L(21, 1)>>),                       \* crossed
    Book(<<L(20, 1)>>, << >>) }                             \* one side

=============================================================================
