----------------------------- MODULE MCSessions -----------------------------
EXTENDS Sessions, TLC
Symmetry == Permutations(Workers) \cup Permutations(Users) \cup Permutations(Ids)
=============================================================================
