------------------------- MODULE MCOfficeNumbering -------------------------
(* Two workers, a fresh office and a seeded one, three rows to create.     *)
EXTENDS OfficeNumbering, TLC

CONSTANTS fresh, demo

MCSeeded == [s \in Series |-> IF s[2] = demo THEN 3 ELSE 0]

Symmetry == Permutations(Workers) \cup Permutations(Ids)
=============================================================================
