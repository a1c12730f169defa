--------------------------- MODULE MC_LocalEscrow ---------------------------
EXTENDS LocalEscrow, TLC

CONSTANTS releaser, alice, bob, claim1, claim2

MC_Holders == {releaser, alice, bob}
MC_Claims == {claim1, claim2}

\* Claims are interchangeable, and so are the holders but for the releaser.
MC_Symmetry == Permutations({alice, bob}) \cup Permutations(MC_Claims)
=============================================================================
