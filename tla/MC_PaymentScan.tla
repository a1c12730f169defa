--------------------------- MODULE MC_PaymentScan ---------------------------
(* Small instances of PaymentScan.  Poll slots are interchangeable; sessions *)
(* are not, the code walks them in the order of their ids.                   *)
EXTENDS PaymentScan, TLC

CONSTANTS p1, p2

MC_Symmetry == Permutations({p1, p2})
=============================================================================
