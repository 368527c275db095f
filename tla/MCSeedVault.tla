---------------------------- MODULE MCSeedVault ----------------------------
(* An instance of SeedVault for TLC. *)
EXTENDS SeedVault, TLC

MCDefaultParams == [mem |-> 3, iters |-> 1, lanes |-> 1]

MCSymmetry == Permutations(Screens) \cup Permutations(Passwords)
=============================================================================
