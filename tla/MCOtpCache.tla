----------------------------- MODULE MCOtpCache -----------------------------
EXTENDS OtpCache, TLC
Symmetry == Permutations(Procs) \cup Permutations(Codes)
=============================================================================
