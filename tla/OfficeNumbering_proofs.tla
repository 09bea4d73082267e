------------------------ MODULE OfficeNumbering_proofs ------------------------
(***************************************************************************)
(* OfficeNumbering for every set of workers, offices and ids.  The key     *)
(* fact: the number a worker carries was one past the count when it        *)
(* counted, and counts only grow, so a free key can only be the one right  *)
(* after the current count.                                                *)
(***************************************************************************)
EXTENDS OfficeNumbering, FiniteSetTheorems, TLAPS

Carried ==
  \A w \in Workers : req[w] # Idle =>
    /\ req[w].number >= Seeded[req[w].series] + 1
    /\ req[w].number <= Count(req[w].series) + 1

IInv == TypeOK /\ IsFiniteSet(rows) /\ Gapless /\ Carried

(* The numbers of a set of rows with one row more.                         *)
LEMMA NumbersAdd ==
  ASSUME NEW R, NEW x
  PROVE  {r.number : r \in R \cup {x}} = {r.number : r \in R} \cup {x.number}
  BY Zenon

(* The count of a series is a natural number.                              *)
LEMMA CountNat ==
  ASSUME IsFiniteSet(rows), NEW s \in Series
  PROVE  /\ IsFiniteSet(RowsOf(s))
         /\ Cardinality(RowsOf(s)) \in Nat
         /\ Count(s) \in Nat
         /\ Seeded[s] \in Nat
         /\ Count(s) >= Seeded[s]
<1>1. RowsOf(s) \in SUBSET rows
  BY DEF RowsOf
<1>2. IsFiniteSet(RowsOf(s))
  BY <1>1, FS_Subset
<1>3. Cardinality(RowsOf(s)) \in Nat
  BY <1>2, FS_CardinalityType
<1>4. Seeded[s] \in Nat
  BY SeededAssumption
<1>. QED
  BY <1>2, <1>3, <1>4 DEF Count

(* Inserting one row lengthens its series by one and leaves the others.    *)
LEMMA InsertCounts ==
  ASSUME IInv, NEW w \in Workers, NEW i \in Ids, Insert(w, i)
  PROVE  /\ req[w] \in Pending
         /\ req[w].number = Count(req[w].series) + 1
         /\ IsFiniteSet(rows')
         /\ \A s \in Series :
              Count(s)' = IF s = req[w].series THEN Count(s) + 1 ELSE Count(s)
<1> DEFINE q == req[w]
           new == [series |-> q.series, number |-> q.number, id |-> i]
<1>1. q \in Pending /\ q.series \in Series /\ q.number \in Nat
  BY DEF IInv, TypeOK, Insert, Pending
<1>2. Count(q.series) \in Nat /\ Seeded[q.series] \in Nat
  BY <1>1, CountNat DEF IInv
<1>3. q.number \notin (Seeded[q.series] + 1) .. Count(q.series)
  BY <1>1 DEF IInv, Gapless, Insert, KeyTaken
<1>4. q.number = Count(q.series) + 1
  BY <1>1, <1>2, <1>3 DEF IInv, Carried, Insert
<1>5. new \notin rows /\ rows' = rows \cup {new}
  BY DEF Insert
<1>6. IsFiniteSet(rows')
  BY <1>5, FS_AddElement DEF IInv
<1>7. ASSUME NEW s \in Series
      PROVE  Count(s)' = IF s = q.series THEN Count(s) + 1 ELSE Count(s)
  <2>1. CASE s = q.series
    <3>1. RowsOf(s)' = RowsOf(s) \cup {new}
      BY <1>5, <2>1 DEF RowsOf
    <3>2. new \notin RowsOf(s)
      BY <1>5 DEF RowsOf
    <3>3. Cardinality(RowsOf(s)') = Cardinality(RowsOf(s)) + 1
      BY <3>1, <3>2, CountNat, FS_AddElement DEF IInv
    <3>. QED
      BY <3>3, <2>1, CountNat, SeededAssumption DEF Count, IInv
  <2>2. CASE s # q.series
    <3>1. RowsOf(s)' = RowsOf(s)
      BY <1>5, <2>2 DEF RowsOf
    <3>. QED
      BY <3>1, <2>2 DEF Count
  <2>. QED
    BY <2>1, <2>2
<1>. QED
  BY <1>1, <1>4, <1>6, <1>7

(* With no rows yet, every series is empty and without gap.                *)
LEMMA InitIInv == Init => IInv
<1> SUFFICES ASSUME Init PROVE IInv
  OBVIOUS
<1>1. TypeOK
  BY DEF Init, TypeOK
<1>2. IsFiniteSet(rows) /\ \A s \in Series : RowsOf(s) = {} /\ Count(s) = Seeded[s]
  BY FS_EmptySet, SeededAssumption DEF Init, RowsOf, Count
<1>3. Gapless
  BY <1>2, SeededAssumption DEF Gapless
<1>4. Carried
  BY DEF Init, Carried
<1>. QED
  BY <1>1, <1>2, <1>3, <1>4 DEF IInv

(* A row inserted under a free number extends its series by the next one.  *)
LEMMA InsertIInv ==
  ASSUME IInv, NEW w \in Workers, NEW i \in Ids, Insert(w, i)
  PROVE  IInv'
<1> DEFINE q == req[w]
           new == [series |-> q.series, number |-> q.number, id |-> i]
<1>1. /\ q \in Pending /\ q.series \in Series /\ q.number \in Nat
      /\ q.number = Count(q.series) + 1
      /\ IsFiniteSet(rows')
      /\ \A s \in Series :
           Count(s)' = IF s = q.series THEN Count(s) + 1 ELSE Count(s)
  BY InsertCounts DEF Pending
<1>2. rows' = rows \cup {new}
  BY DEF Insert
<1>3. \A s \in Series : Count(s) \in Nat /\ Seeded[s] \in Nat /\ Count(s) >= Seeded[s]
  BY CountNat DEF IInv
<1>4. TypeOK'
  <2>1. new \in Row
    BY <1>1 DEF Row
  <2>2. req' \in [Workers -> Pending \cup {Idle}]
    BY DEF IInv, TypeOK, Insert
  <2>. QED
    BY <1>2, <2>1, <2>2 DEF IInv, TypeOK, Insert
<1>5. Gapless'
  <2> SUFFICES ASSUME NEW s \in Series
               PROVE  {r.number : r \in RowsOf(s)'} = (Seeded[s] + 1) .. Count(s)'
    BY DEF Gapless
  <2>1. {r.number : r \in RowsOf(s)} = (Seeded[s] + 1) .. Count(s)
    BY DEF IInv, Gapless
  <2>2. CASE s = q.series
    <3>1. RowsOf(s)' = RowsOf(s) \cup {new}
      BY <1>2, <2>2 DEF RowsOf
    <3>2. {r.number : r \in RowsOf(s)'} = {r.number : r \in RowsOf(s)} \cup {q.number}
      <4>1. new.number = q.number
        OBVIOUS
      <4>2. {r.number : r \in RowsOf(s) \cup {new}}
              = {r.number : r \in RowsOf(s)} \cup {new.number}
        BY NumbersAdd, Zenon
      <4>. QED
        BY <3>1, <4>1, <4>2
    <3>3. Count(s)' = Count(s) + 1 /\ q.number = Count(s) + 1
      BY <1>1, <2>2
    <3>. QED
      BY <1>3, <2>1, <3>2, <3>3
  <2>3. CASE s # q.series
    <3>1. RowsOf(s)' = RowsOf(s)
      BY <1>2, <2>3 DEF RowsOf
    <3>. QED
      BY <1>1, <2>1, <2>3, <3>1
  <2>. QED
    BY <2>2, <2>3
<1>6. Carried'
  <2> SUFFICES ASSUME NEW v \in Workers, (req[v] # Idle)'
               PROVE  (/\ req[v].number >= Seeded[req[v].series] + 1
                       /\ req[v].number <= Count(req[v].series) + 1)'
    BY DEF Carried
  <2>1. req'[v] = req[v] /\ req[v] # Idle
    BY DEF Insert, IInv, TypeOK
  <2>2. req[v].series \in Series /\ req[v].number \in Nat
    BY <2>1 DEF IInv, TypeOK, Pending
  <2>3. PICK s \in Series : s = req[v].series /\ s = req'[v].series
    BY <2>1, <2>2
  <2>4. req[v].number >= Seeded[s] + 1 /\ req[v].number <= Count(s) + 1
    BY <2>1, <2>3 DEF IInv, Carried
  <2>5. Count(s)' >= Count(s) /\ Count(s)' \in Nat
    BY <1>1, <1>3
  <2>6. Count(s)' = Count(req[v].series)'
    BY <2>3 DEF Count, RowsOf
  <2>. QED
    BY <1>3, <2>1, <2>2, <2>3, <2>4, <2>5, <2>6
<1>. QED
  BY <1>1, <1>4, <1>5, <1>6 DEF IInv

(* Steps that leave the table alone and carry over, drop or start requests. *)
LEMMA SameRowsIInv ==
  ASSUME IInv, UNCHANGED rows, deleted' \subseteq Ids,
         req' \in [Workers -> Pending \cup {Idle}],
         \A w \in Workers : \/ req'[w] = req[w]
                            \/ req'[w] = Idle
                            \/ /\ req'[w].series \in Series
                               /\ req'[w].number = Count(req'[w].series) + 1
  PROVE  IInv'
<1>1. \A s : RowsOf(s)' = RowsOf(s) /\ Count(s)' = Count(s)
  BY DEF RowsOf, Count
<1>2. TypeOK' /\ IsFiniteSet(rows)'
  BY DEF IInv, TypeOK
<1>3. Gapless'
  BY <1>1 DEF IInv, Gapless
<1>4. Carried'
  <2> SUFFICES ASSUME NEW w \in Workers, req'[w] # Idle
               PROVE  /\ req'[w].number >= Seeded[req'[w].series] + 1
                      /\ req'[w].number <= Count(req'[w].series) + 1
    BY <1>1 DEF Carried
  <2>1. CASE req'[w] = req[w]
    BY <2>1 DEF IInv, Carried
  <2>2. CASE req'[w].series \in Series /\ req'[w].number = Count(req'[w].series) + 1
    <3>1. /\ Count(req'[w].series) \in Nat /\ Seeded[req'[w].series] \in Nat
          /\ Count(req'[w].series) >= Seeded[req'[w].series]
      BY <2>2, CountNat DEF IInv
    <3>. QED
      BY <2>2, <3>1
  <2>. QED
    BY <2>1, <2>2
<1>. QED
  BY <1>2, <1>3, <1>4 DEF IInv

(* Every step keeps the inductive invariant.                               *)
LEMMA NextIInv == IInv /\ [Next]_vars => IInv'
<1> SUFFICES ASSUME IInv, [Next]_vars PROVE IInv'
  OBVIOUS
<1>0. /\ deleted \subseteq Ids /\ rows \subseteq Row
      /\ req \in [Workers -> Pending \cup {Idle}]
  BY DEF IInv, TypeOK
<1>1. ASSUME NEW w \in Workers, NEW s \in Series, CountRows(w, s)
      PROVE  IInv'
  <2>1. Count(s) + 1 \in Nat
    BY CountNat DEF IInv
  <2>2. req' \in [Workers -> Pending \cup {Idle}]
    BY <1>0, <1>1, <2>1 DEF CountRows, Pending
  <2>3. req'[w].series = s /\ req'[w].number = Count(s) + 1
    BY <1>0, <1>1 DEF CountRows
  <2>4. \A v \in Workers : v # w => req'[v] = req[v]
    BY <1>0, <1>1 DEF CountRows
  <2>. QED
    BY <1>0, <1>1, <2>2, <2>3, <2>4, SameRowsIInv DEF CountRows
<1>2. ASSUME NEW w \in Workers, NEW i \in Ids, Insert(w, i)
      PROVE  IInv'
  BY <1>2, InsertIInv
<1>3. ASSUME NEW w \in Workers, Conflict(w)
      PROVE  IInv'
  BY <1>0, <1>3, SameRowsIInv DEF Conflict
<1>4. ASSUME NEW w \in Workers, Abandon(w)
      PROVE  IInv'
  BY <1>0, <1>4, SameRowsIInv DEF Abandon
<1>5. ASSUME NEW r \in rows, DeleteClient(r)
      PROVE  IInv'
  <2>1. deleted' \subseteq Ids
    BY <1>0, <1>5 DEF DeleteClient, Row
  <2>. QED
    BY <1>0, <1>5, <2>1, SameRowsIInv DEF DeleteClient
<1>6. CASE UNCHANGED vars
  BY <1>0, <1>6, SameRowsIInv DEF vars
<1>. QED
  BY <1>1, <1>2, <1>3, <1>4, <1>5, <1>6 DEF Next

(* The invariant holds in every reachable state.                           *)
LEMMA SpecIInv == Spec => []IInv
  BY InitIInv, NextIInv, PTL DEF Spec

(* The state is always well-typed.                                         *)
THEOREM TypeCorrect == Spec => []TypeOK
<1>1. IInv => TypeOK
  BY DEF IInv
<1>. QED
  BY <1>1, SpecIInv, PTL

(* However many workers race, an office's numbers have no gap, and there   *)
(* are as many numbers as rows.                                            *)
THEOREM GaplessNumbers == Spec => []Gapless
<1>1. IInv => Gapless
  BY DEF IInv
<1>. QED
  BY <1>1, SpecIInv, PTL

(* A creation is answered 409 only if its count was out of date.           *)
THEOREM RefusedOnlyIfStale == Spec => []ConflictIffStale
<1>1. IInv => ConflictIffStale
  <2> SUFFICES ASSUME IInv, NEW w \in Workers, req[w] # Idle
               PROVE  KeyTaken(req[w].series, req[w].number)
                        <=> req[w].number <= Count(req[w].series)
    BY DEF ConflictIffStale
  <2>1. req[w].series \in Series /\ req[w].number \in Nat
    BY DEF IInv, TypeOK, Pending
  <2>2. Count(req[w].series) \in Nat /\ Seeded[req[w].series] \in Nat
    BY <2>1, CountNat DEF IInv
  <2>3. {r.number : r \in RowsOf(req[w].series)}
          = (Seeded[req[w].series] + 1) .. Count(req[w].series)
    BY <2>1 DEF IInv, Gapless
  <2>4. req[w].number >= Seeded[req[w].series] + 1
    BY DEF IInv, Carried
  <2>5. KeyTaken(req[w].series, req[w].number)
          <=> req[w].number \in {r.number : r \in RowsOf(req[w].series)}
    BY DEF KeyTaken
  <2>. QED
    BY <2>1, <2>2, <2>3, <2>4, <2>5
<1>. QED
  BY <1>1, SpecIInv, PTL

(* Counting and inserting implement the ledger that issues the next number *)
(* to a new record, and nothing else.                                      *)
THEOREM NumberingRefinesLedger == Spec => IssuesInOrder
<1>1. Init => Ledger!Init
  BY DEF Init, Ledger!Init
<1>2. IInv /\ [Next]_vars => [Ledger!Next]_rows
  <2> SUFFICES ASSUME IInv, Next PROVE Ledger!Next \/ UNCHANGED rows
    BY DEF vars
  <2>1. ASSUME NEW w \in Workers, NEW i \in Ids, Insert(w, i)
        PROVE  Ledger!Next
    <3>1. /\ req[w].series \in Series
          /\ req[w].number = Seeded[req[w].series] + Cardinality(RowsOf(req[w].series)) + 1
      BY <2>1, InsertCounts DEF Pending, Count
    <3>2. /\ Cardinality(RowsOf(req[w].series)) \in Nat
          /\ Seeded[req[w].series] \in Nat
      BY <3>1, CountNat DEF IInv
    <3>3. Ledger!EntriesOf(req[w].series) = RowsOf(req[w].series)
      BY DEF Ledger!EntriesOf, RowsOf
    <3>4. {r.number : r \in RowsOf(req[w].series)}
            = (Seeded[req[w].series] + 1) .. Count(req[w].series)
      BY <3>1 DEF IInv, Gapless
    <3>5. req[w].number \in Ledger!NextOf(req[w].series)
      <4> DEFINE t == req[w].series
                 R == RowsOf(t)
                 c == Cardinality(R)
      <4>1. /\ \A r \in R : r.number \in (Seeded[t] + 1) .. (Seeded[t] + c)
            /\ \A n \in (Seeded[t] + 1) .. (Seeded[t] + c) : \E r \in R : n = r.number
        BY <3>4 DEF Count
      <4>2. \A r \in R : r.number < Seeded[t] + c + 1
        BY <3>2, <4>1
      <4>3. \/ Seeded[t] + c + 1 = Seeded[t] + 1
            \/ \E r \in R : Seeded[t] + c + 1 = r.number + 1
        <5>1. CASE c = 0
          BY <3>2, <5>1
        <5>2. CASE c # 0
          <6>1. Seeded[t] + c \in (Seeded[t] + 1) .. (Seeded[t] + c)
            BY <3>2, <5>2
          <6>. QED
            BY <4>1, <6>1
        <5>. QED
          BY <5>1, <5>2
      <4>4. [s \in Series |-> Seeded[s] + 1][t] = Seeded[t] + 1
        BY <3>1
      <4>5. /\ Seeded[t] + c + 1 \in {[s \in Series |-> Seeded[s] + 1][t]}
                                      \cup {r.number + 1 : r \in R}
            /\ \A r \in R : r.number < Seeded[t] + c + 1
        BY <4>2, <4>3, <4>4
      <4>. QED
        BY <3>1, <3>3, <4>5 DEF Ledger!NextOf
    <3>6. Ledger!Issue(req[w].series, i)
      BY <2>1, <3>5 DEF Insert, Ledger!Issue
    <3>. QED
      BY <3>1, <3>6 DEF Ledger!Next
  <2>. QED
    BY <2>1 DEF Next, CountRows, Conflict, Abandon, DeleteClient
<1>. QED
  BY <1>1, <1>2, SpecIInv, PTL DEF Spec, IssuesInOrder, Ledger!Spec
=============================================================================
