----------------------------- MODULE MCDocuments -----------------------------
EXTENDS Documents, TLC
Symmetry == Permutations(Workers) \cup Permutations(Docs)
=============================================================================
