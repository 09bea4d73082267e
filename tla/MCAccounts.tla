----------------------------- MODULE MCAccounts -----------------------------
EXTENDS Accounts, TLC
Symmetry == Permutations(Workers) \cup Permutations(Emails) \cup Permutations(Offices)
              \cup Permutations(Users) \cup Permutations(Tokens)
=============================================================================
