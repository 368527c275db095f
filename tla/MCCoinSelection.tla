--------------------------- MODULE MCCoinSelection ---------------------------
(* Instances of CoinSelection for TLC.  The protocol parameters are those of *)
(* the unit tests (coin_selection.rs:372-382), so the amounts are real ones. *)
EXTENDS CoinSelection

\* Around the thresholds of one output of 1 ADA: next to nothing, short, exactly
\* enough for one input (1 000 000 + 181 253 + 935 270), and enough for both
\* change outputs.  An output of 3 815 747 leaves 3 000 of change on the last,
\* and target, fee and min-ADA together wrap a u64 of 4 500 000.
MCCoins == {1000, 1000000, 2116523, 4000000}
=============================================================================
