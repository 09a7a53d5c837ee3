----------------------------- MODULE MCBookFeed -----------------------------
(***************************************************************************)
(* Messages for BookFeed: single changes at prices on both sides of the    *)
(* window, an empty l2update, batches that replace the touch, and batches  *)
(* with malformed entries.                                                 *)
(***************************************************************************)
EXTENDS BookFeed

\* Where the levels of a side come and go one at a time.
Home(side) == IF side = "Bid" THEN {0, 4, 8} ELSE {1, 5, 9}

MCUpdates ==
  UNION {{<<WireChange(side, price, qty)>> : price \in Home(side), qty \in Qtys} :
           side \in Sides} \cup
  { << >>,
    <<WireChange("Bid", 4, 0), WireChange("Bid", 5, 1), WireChange("Ask", 6, 1)>>,
    <<WireChange("Ask", 5, 0), WireChange("Ask", 6, 1), WireChange("Ask", 9, 0)>>,
    << <<Str("buy"), Num(Quotient(3))>>, WireChange("Bid", 4, 1) >>,
    << <<Str("sell"), NoString, Num(1)>>, <<NoString>>, WireChange("Ask", 9, 1) >> }

MCJunk ==
  { << >>,
    << <<Num(Quotient(5))>>, <<Num(Quotient(6)), Str("x")>>, <<NoString, NoString>> >> }

=============================================================================
