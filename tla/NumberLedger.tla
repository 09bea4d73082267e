---------------------------- MODULE NumberLedger ----------------------------
(***************************************************************************)
(* What an office is promised about the numbers printed on its client      *)
(* files and invoices: every series (one per kind of record and office) is *)
(* issued one number at a time, consecutively, and an entry once issued    *)
(* keeps its number for ever.  OfficeNumbering implements it.              *)
(***************************************************************************)
EXTENDS Naturals

CONSTANTS Series,  \* the numbering series
          Ids,     \* identities of the records that receive numbers
          First    \* First[s]: the first number the series s issues

VARIABLE issued    \* the entries: which record received which number

EntriesOf(s) == {e \in issued : e.series = s}

Init == issued = {}

(* The number after the last one of the series.                            *)
NextOf(s) ==
  {n \in {First[s]} \cup {e.number + 1 : e \in EntriesOf(s)} :
     \A e \in EntriesOf(s) : e.number < n}

Issue(s, i) ==
  /\ i \notin {e.id : e \in issued}
  /\ \E n \in NextOf(s) :
       issued' = issued \cup {[series |-> s, number |-> n, id |-> i]}

Next == \E s \in Series, i \in Ids : Issue(s, i)

Spec == Init /\ [][Next]_issued
=============================================================================
