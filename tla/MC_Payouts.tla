----------------------------- MODULE MC_Payouts -----------------------------
(* Small instances of RefundCommand, that is of spawns and refunds together. *)
EXTENDS RefundCommand, TLC

CONSTANTS s1, e1, e2, k1, k2, c1, c2

MC_Symmetry ==
    Permutations(Execs) \cup Permutations(Calls) \cup Permutations(Canisters)

=============================================================================
