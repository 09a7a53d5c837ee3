---------------------------- MODULE HdrHistogram ----------------------------
(***************************************************************************)
(* The arithmetic of util/hdr_histogram.hpp: which cell a value is counted *)
(* in, which value a cell stands for, and the percentile found by walking  *)
(* the cells.  Percentiles are given in thousandths.                       *)
(***************************************************************************)
EXTENDS Integers, FiniteSetsExt

CONSTANTS SubBits,  \* SUB_BITS (5)
          Width     \* bits of a value (64)

ASSUME HistogramAssumption ==
  /\ SubBits \in Nat /\ Width \in Nat
  /\ 0 < SubBits /\ SubBits < Width

SubCount == 2^SubBits
NumCells == Width * SubCount
Cells == 0..(NumCells - 1)

\* recordNs() takes a negative duration for none.
Recorded(ns) == IF ns < 0 THEN 0 ELSE ns

\* Position of the leading set bit of a positive value.
LeadingBit(v) == CHOOSE e \in 0..(Width - 1) : 2^e <= v /\ v < 2^(e + 1)

\* indexFor(v): below SubCount a cell per value, above it SubCount cells per
\* power of two.
IndexFor(v) ==
  IF v < SubCount THEN v
  ELSE LET octave == LeadingBit(v) - SubBits
           sub == (v \div 2^octave) - SubCount
       IN Min({SubCount * (octave + 1) + sub, NumCells - 1})

\* Mutant: the whole width of the cell is added instead of the half.
ValueAtUpper(idx) ==
  IF idx < SubCount THEN idx
  ELSE LET octave == (idx - SubCount) \div SubCount
           sub == (idx - SubCount) % SubCount
       IN (SubCount + sub) * 2^octave + 2^octave

\* valueAt(idx): the middle of the cell.
ValueAt(idx) ==
  IF idx < SubCount THEN idx
  ELSE LET octave == (idx - SubCount) \div SubCount
           sub == (idx - SubCount) % SubCount
       IN (SubCount + sub) * 2^octave + 2^octave \div 2

\* The rank that percentileNs() looks for among n values.
Target(n, permille) == Max({1, (permille * n) \div 1000})

\* cum: what the cells up to a cell hold.
Cumulated(counts) ==
  LET cum[i \in Cells] == IF i = 0 THEN counts[0] ELSE cum[i - 1] + counts[i]
  IN cum

\* Mutant: the value of the cell is not held against the maximum.
PercentileUnclamped(n, mx, counts, permille) ==
  LET reached == {i \in Cells : Cumulated(counts)[i] >= Target(n, permille)}
  IN IF n = 0 THEN 0
     ELSE IF reached = {} THEN mx
     ELSE ValueAt(Min(reached))

\* percentileNs(): the first cell at which the cells so far hold the target.
Percentile(n, mx, counts, permille) ==
  LET reached == {i \in Cells : Cumulated(counts)[i] >= Target(n, permille)}
  IN IF n = 0 THEN 0
     ELSE IF reached = {} THEN mx
     ELSE Min({ValueAt(Min(reached)), mx})

=============================================================================
