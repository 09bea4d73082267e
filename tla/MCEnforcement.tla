---------------------------- MODULE MCEnforcement ----------------------------
EXTENDS Enforcement, TLC
MCAmounts == {3, 5, -5}
Symmetry == Permutations(Workers) \cup Permutations(Payments) \cup Permutations(Files)
=============================================================================
