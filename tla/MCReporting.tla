---------------------------- MODULE MCReporting ----------------------------
(***************************************************************************)
(* Durations for Reporting: a negative one, one below the middle of its    *)
(* cell, a power of two, where the cells get wider, and one below the      *)
(* middle of a wider cell.                                                 *)
(***************************************************************************)
EXTENDS Reporting

MCDurations == {-1, 6, 8, 13}

=============================================================================
