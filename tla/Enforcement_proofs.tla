-------------------------- MODULE Enforcement_proofs --------------------------
(***************************************************************************)
(* Proofs about Enforcement for any workers, files, payments and amounts,  *)
(* negative ones included: the types, that lost updates never take the     *)
(* amount collected on a file out of the bounds of what was recorded on it,*)
(* and that the amount is the sum of the payments where no requests        *)
(* overlapped and no deletion was cut off.                                 *)
(*                                                                         *)
(* The bounds need the same bounds of the amount each request has read,    *)
(* which may be old: they hold because credit and debit never decrease.    *)
(* The sum needs that without overlaps what a request has read is the      *)
(* present amount; and facts about sums over finite sets, proved here from *)
(* the well-foundedness of the subset ordering.                            *)
(***************************************************************************)
EXTENDS Enforcement, TLAPS, FiniteSetTheorems

(* All the ledgers of a file exist together.                               *)
SameFiles == DOMAIN judgmentOf = Exists /\ DOMAIN credit = Exists /\ DOMAIN debit = Exists

Within(x, f) == -debit[f] <= x /\ x <= credit[f]

(* Each amount, also one that a request read some time ago, lies within    *)
(* what has been recorded on the file since.  A request whose negative     *)
(* payment another one has deleted read its amount before that: it adds    *)
(* what that deletion has already added to the credit.                     *)
AmountsBounded == \A f \in Exists : Within(collected[f], f)
ReadBounded(q) ==
  /\ q.file \in Exists
  /\ Within(q.read, q.file)
  /\ q.op \in {"add", "delete"} => q.pay.file = q.file
  /\ q.op = "delete" /\ q.pay \notin payments => q.read + Down(q.pay.amount) <= credit[q.file]
ReadsBounded == \A w \in Workers : web[w].op \in {"add", "find", "delete"} => ReadBounded(web[w])

IInv == TypeOK /\ SameFiles /\ AmountsBounded /\ ReadsBounded

(* There are no files at first.                                            *)
LEMMA InitIInv == Init => IInv
BY DEF Init, IInv, TypeOK, SameFiles, AmountsBounded, ReadsBounded, Exists, Idle

(* What an amount adds and takes off.                                      *)
LEMMA UpDown ==
  ASSUME NEW a \in Int
  PROVE  /\ Up(a) \in Nat /\ Down(a) \in Nat /\ a = Up(a) - Down(a)
         /\ a > 0 => Down(a) = 0
BY DEF Up, Down

(* An amount within its bounds stays there when it moves with them.        *)
LEMMA Shift ==
  ASSUME NEW x \in Int, NEW c \in Nat, NEW d \in Nat, NEW up \in Nat, NEW down \in Nat,
         -d <= x, x <= c
  PROVE  -(d + down) <= x + (up - down) /\ x + (up - down) <= c + up /\ x + down <= c + down
OBVIOUS

(* A new file starts with nothing collected and nothing recorded.          *)
LEMMA NewFileBounds ==
  ASSUME IInv, NEW f, NEW j \in Judgments \cup {NoJudgment}, NewFile(f, j)
  PROVE  /\ Exists' = Exists \cup {f} /\ f \in Files \ Exists
         /\ judgmentOf' \in [Exists' -> Judgments \cup {NoJudgment}]
         /\ collected' \in [Exists' -> Int]
         /\ credit' \in [Exists' -> Nat] /\ debit' \in [Exists' -> Nat]
         /\ collected'[f] = 0 /\ credit'[f] = 0 /\ debit'[f] = 0
         /\ \A g \in Exists : /\ collected'[g] = collected[g]
                               /\ credit'[g] = credit[g] /\ debit'[g] = debit[g]
<1>1. /\ f \in Files \ Exists /\ collected \in [Exists -> Int]
      /\ credit \in [Exists -> Nat] /\ debit \in [Exists -> Nat]
      /\ judgmentOf \in [Exists -> Judgments \cup {NoJudgment}]
  BY DEF NewFile, IInv, TypeOK
<1>2. /\ collected' = With(collected, f, 0) /\ judgmentOf' = With(judgmentOf, f, j)
      /\ credit' = With(credit, f, 0) /\ debit' = With(debit, f, 0)
  BY DEF NewFile
<1>3. /\ DOMAIN judgmentOf = Exists /\ DOMAIN collected = Exists
      /\ DOMAIN credit = Exists /\ DOMAIN debit = Exists
  BY DEF IInv, SameFiles, Exists
<1>4. /\ Exists' = Exists \cup {f} /\ collected' \in [Exists \cup {f} -> Int]
      /\ collected'[f] = 0 /\ \A g \in Exists : collected'[g] = collected[g]
  BY <1>1, <1>2, <1>3 DEF With, Exists
<1>5. /\ credit' \in [Exists \cup {f} -> Nat]
      /\ credit'[f] = 0 /\ \A g \in Exists : credit'[g] = credit[g]
  BY <1>1, <1>2, <1>3 DEF With
<1>6. /\ debit' \in [Exists \cup {f} -> Nat]
      /\ debit'[f] = 0 /\ \A g \in Exists : debit'[g] = debit[g]
  BY <1>1, <1>2, <1>3 DEF With
<1>7. judgmentOf' \in [Exists \cup {f} -> Judgments \cup {NoJudgment}]
  BY <1>1, <1>2, <1>3 DEF With
<1> QED BY <1>1, <1>4, <1>5, <1>6, <1>7

(* Adding a file keeps the invariant when requests only end.               *)
LEMMA NewFileIInv ==
  ASSUME IInv, NEW f, NEW j \in Judgments \cup {NoJudgment}, NewFile(f, j),
         UNCHANGED <<payments, used, overlapped, clamped>>,
         DOMAIN web' = Workers, \A w \in Workers : web'[w] \in {web[w], Idle},
         web' \in [Workers -> Request \cup {Idle}]
  PROVE  IInv'
<1>1. /\ Exists' = Exists \cup {f} /\ f \in Files \ Exists
      /\ judgmentOf' \in [Exists' -> Judgments \cup {NoJudgment}]
      /\ collected' \in [Exists' -> Int]
      /\ credit' \in [Exists' -> Nat] /\ debit' \in [Exists' -> Nat]
      /\ collected'[f] = 0 /\ credit'[f] = 0 /\ debit'[f] = 0
      /\ \A g \in Exists : /\ collected'[g] = collected[g]
                            /\ credit'[g] = credit[g] /\ debit'[g] = debit[g]
  BY NewFileBounds
<1>2. TypeOK'
  BY <1>1 DEF IInv, TypeOK
<1>3. SameFiles'
  BY <1>1 DEF SameFiles
<1>4. AmountsBounded'
  BY <1>1 DEF IInv, AmountsBounded, Within
<1>5. ReadsBounded'
  BY <1>1 DEF IInv, ReadsBounded, ReadBounded, Within, Idle
<1> QED BY <1>2, <1>3, <1>4, <1>5 DEF IInv

(* A step that only starts or ends requests keeps the invariant, if what a *)
(* started request read is bounded.                                        *)
LEMMA WebIInv ==
  ASSUME IInv, UNCHANGED <<judgmentOf, collected, payments, histories>>,
         used' \subseteq Payments,
         web' \in [Workers -> Request \cup {Idle}],
         \A w \in Workers : web'[w].op \in {"add", "find", "delete"} => ReadBounded(web'[w])
  PROVE  IInv'
<1>1. TypeOK' /\ SameFiles'
  BY DEF IInv, TypeOK, SameFiles, Exists, histories
<1>2. AmountsBounded'
  BY DEF IInv, AmountsBounded, Within, Exists, histories
<1>3. ReadsBounded'
  BY DEF ReadsBounded, ReadBounded, Within, Exists, histories
<1> QED BY <1>1, <1>2, <1>3 DEF IInv

(* The commit of a payment request.                                        *)
LEMMA CommitIInv == ASSUME IInv, NEW w \in Workers, CommitPayment(w) PROVE IInv'
<1>0. PICK q, f, up, down : /\ q = web[w] /\ f = q.file
                            /\ up = Up(q.pay.amount) /\ down = Down(q.pay.amount)
  OBVIOUS
<1> USE <1>0
<1>1. q \in Request /\ q.op \in {"add", "delete"}
  BY DEF CommitPayment, IInv, TypeOK, Idle
<1>2. q.pay \in Payment /\ q.pay.amount \in Int /\ q.read \in Int
  BY <1>1, AmountsAssumption DEF Request, Payment
<1>3. up \in Nat /\ down \in Nat /\ q.pay.amount = up - down /\ (q.pay.amount > 0 => down = 0)
  BY <1>2, UpDown
<1>4. /\ f \in Exists /\ -debit[f] <= q.read /\ q.read <= credit[f] /\ q.pay.file = f
      /\ q.op = "delete" /\ q.pay \notin payments => q.read + down <= credit[f]
  BY <1>1 DEF IInv, ReadsBounded, ReadBounded, Within
<1>5. collected \in [Exists -> Int] /\ credit \in [Exists -> Nat] /\ debit \in [Exists -> Nat]
  BY DEF IInv, TypeOK
<1> DEFINE more == IF q.op = "add" THEN up ELSE IF q.pay \in payments THEN down ELSE 0
<1> DEFINE less == IF q.op = "add" THEN down ELSE 0
<1>6. credit' = [credit EXCEPT ![f] = @ + more] /\ debit' = [debit EXCEPT ![f] = @ + less]
  BY DEF CommitPayment
<1>7. more \in Nat /\ less \in Nat
  BY <1>3
<1>8. /\ credit' \in [Exists -> Nat] /\ debit' \in [Exists -> Nat]
      /\ credit'[f] = credit[f] + more /\ debit'[f] = debit[f] + less
      /\ \A g \in Exists : credit[g] <= credit'[g] /\ debit[g] <= debit'[g]
  <2> HIDE DEF more, less
  <2> QED BY <1>4, <1>5, <1>6, <1>7
<1>9. NewAmount(q) \in Int /\ -debit'[f] <= NewAmount(q) /\ NewAmount(q) <= credit'[f]
  <2>1. CASE q.op = "add"
    <3>1. NewAmount(q) = q.read + q.pay.amount /\ more = up /\ less = down
      BY <2>1 DEF NewAmount
    <3>2. credit[f] \in Nat /\ debit[f] \in Nat
      BY <1>4, <1>5
    <3>3. -(debit[f] + down) <= q.read + (up - down) /\ q.read + (up - down) <= credit[f] + up
      BY <1>2, <1>3, <1>4, <3>2, Shift
    <3>4. NewAmount(q) = q.read + (up - down) /\ NewAmount(q) \in Int
      BY <1>2, <1>3, <3>1
    <3>5. credit'[f] = credit[f] + up /\ debit'[f] = debit[f] + down
      BY <1>8, <3>1
    <3> QED BY <3>3, <3>4, <3>5
  <2>2. CASE q.op # "add"
    <3>1. /\ NewAmount(q) = 0 \/ NewAmount(q) = q.read - q.pay.amount
          /\ 0 <= NewAmount(q) /\ NewAmount(q) \in Int
      BY <1>2, <2>2 DEF NewAmount
    <3>2. q.read + down <= credit'[f]
      <4>1. CASE q.pay \in payments
        <5>1. credit[f] \in Nat /\ debit[f] \in Nat
          BY <1>4, <1>5
        <5>2. q.read + down <= credit[f] + down
          BY <1>2, <1>3, <1>4, <5>1, Shift
        <5>3. more = down
          BY <2>2, <4>1
        <5> QED BY <1>8, <5>2, <5>3
      <4>2. CASE q.pay \notin payments
        BY <1>1, <1>2, <1>3, <1>4, <1>5, <1>8, <2>2, <4>2
      <4> QED BY <4>1, <4>2
    <3>3. debit'[f] \in Nat /\ credit'[f] \in Nat
      BY <1>4, <1>8
    <3> HIDE DEF more, less
    <3> QED BY <1>2, <1>3, <1>8, <3>1, <3>2, <3>3
  <2> QED BY <2>1, <2>2
<1> HIDE DEF more, less
<1>10. /\ collected' \in [Exists -> Int] /\ Exists' = Exists
       /\ \A g \in Exists : collected'[g] = collected[g] \/ (g = f /\ collected'[g] = NewAmount(q))
  BY <1>4, <1>5, <1>9 DEF CommitPayment, Exists
<1>11. web' \in [Workers -> Request \cup {Idle}] /\ \A v \in Workers : web'[v] \in {web[v], Idle}
  BY DEF CommitPayment, Finish, IInv, TypeOK
<1>12. payments' = IF q.op = "add" THEN payments \cup {q.pay} ELSE payments \ {q.pay}
  BY DEF CommitPayment
<1>13. TypeOK'
  <2>1. f \in Files
    BY <1>4 DEF IInv, TypeOK
  <2>2. overlapped' \subseteq Files /\ clamped' \subseteq Files
    BY <2>1 DEF CommitPayment, IInv, TypeOK
  <2>3. payments' \subseteq Payment
    BY <1>2, <1>12 DEF IInv, TypeOK
  <2>4. judgmentOf' = judgmentOf /\ used' = used
    BY DEF CommitPayment
  <2> QED BY <1>8, <1>10, <1>11, <2>2, <2>3, <2>4 DEF IInv, TypeOK
<1>14. SameFiles'
  BY <1>8, <1>10 DEF IInv, SameFiles, CommitPayment
<1>15. AmountsBounded'
  <2> SUFFICES ASSUME NEW g \in Exists PROVE -debit'[g] <= collected'[g] /\ collected'[g] <= credit'[g]
    BY <1>10 DEF AmountsBounded, Within
  <2>1. -debit[g] <= collected[g] /\ collected[g] <= credit[g]
    BY DEF IInv, AmountsBounded, Within
  <2>2. /\ collected[g] \in Int /\ credit[g] \in Nat /\ debit[g] \in Nat
        /\ credit'[g] \in Nat /\ debit'[g] \in Nat
    BY <1>5, <1>8
  <2>3. CASE collected'[g] = collected[g]
    BY <1>8, <2>1, <2>2, <2>3
  <2>4. CASE g = f /\ collected'[g] = NewAmount(q)
    BY <1>9, <2>4
  <2> QED BY <1>10, <2>3, <2>4
<1>16. ReadsBounded'
  <2>0. \A v \in Workers : web'[v].op \in {"add", "find", "delete"} => web'[v] = web[v]
    BY <1>11 DEF Idle
  <2> SUFFICES ASSUME NEW v \in Workers, web'[v].op \in {"add", "find", "delete"}
               PROVE  ReadBounded(web[v])'
    BY <2>0 DEF ReadsBounded, ReadBounded, Within
  <2>1. web'[v] = web[v] /\ web[v] \in Request
    BY <1>11 DEF Idle
  <2> DEFINE r == web[v]
  <2>2. ReadBounded(r)
    BY <2>1 DEF IInv, ReadsBounded
  <2>3. r.read \in Int
    BY <2>1 DEF Request
  <2>4. /\ r.file \in Exists /\ credit[r.file] \in Nat /\ debit[r.file] \in Nat
        /\ credit'[r.file] \in Nat /\ debit'[r.file] \in Nat
        /\ credit[r.file] <= credit'[r.file] /\ debit[r.file] <= debit'[r.file]
    BY <1>5, <1>8, <2>2 DEF ReadBounded
  <2>5. r.file \in Exists' /\ -debit'[r.file] <= r.read /\ r.read <= credit'[r.file]
    BY <1>10, <2>2, <2>3, <2>4 DEF ReadBounded, Within
  <2>6. r.op \in {"add", "delete"} => r.pay.file = r.file
    BY <2>2 DEF ReadBounded
  <2>7. ASSUME r.op = "delete", r.pay \notin payments'
        PROVE  r.read + Down(r.pay.amount) <= credit'[r.file]
    <3>1. r.pay.amount \in Int /\ Down(r.pay.amount) \in Nat
      <4>1. r.pay \in Payment
        BY <2>1, <2>7 DEF Request
      <4>2. r.pay.amount \in Int
        BY <4>1, AmountsAssumption DEF Payment
      <4> QED BY <4>2, UpDown
    <3>2. CASE r.pay \notin payments
      <4>1. r.read + Down(r.pay.amount) <= credit[r.file]
        BY <2>2, <2>7, <3>2 DEF ReadBounded
      <4> QED BY <2>3, <2>4, <3>1, <4>1
    <3>3. CASE r.pay \in payments
      <4>1. q.op = "delete" /\ r.pay = q.pay
        BY <1>1, <1>12, <2>7, <3>3
      <4>2. r.file = f /\ more = down
        BY <1>4, <2>6, <2>7, <3>3, <4>1 DEF more
      <4>3. r.read <= credit[f]
        BY <2>2, <4>2 DEF ReadBounded, Within
      <4>4. Down(r.pay.amount) = down
        BY <4>1
      <4>5. r.read + down <= credit[f] + down
        BY <1>3, <2>2, <2>3, <2>4, <4>2, <4>3, Shift DEF ReadBounded, Within
      <4> QED BY <1>8, <4>2, <4>4, <4>5
    <3> QED BY <3>2, <3>3
  <2> QED BY <2>1, <2>5, <2>6, <2>7 DEF ReadBounded, Within
<1> QED BY <1>13, <1>14, <1>15, <1>16 DEF IInv

(* Every step keeps the invariant.                                         *)
LEMMA NextIInv == IInv /\ [Next]_vars => IInv'
<1> SUFFICES ASSUME IInv, [Next]_vars PROVE IInv'
  OBVIOUS
<1>0. web \in [Workers -> Request \cup {Idle}]
  BY DEF IInv, TypeOK
<1>1. ASSUME NEW f \in Files, NEW j \in Judgments \cup {NoJudgment}, create_enforcement_file(f, j)
      PROVE  IInv'
  BY <1>0, <1>1, NewFileIInv DEF create_enforcement_file
<1>2. ASSUME NEW f \in Files, NEW j \in Judgments \cup {NoJudgment}, update_enforcement_file(f, j)
      PROVE  IInv'
  BY <1>2 DEF update_enforcement_file, IInv, TypeOK, SameFiles, AmountsBounded, ReadsBounded,
               ReadBounded, Within, Exists, histories
<1>3. ASSUME NEW w \in Workers, NEW j \in Judgments, open_enforcement(w, j) PROVE IInv'
  <2> DEFINE r == [op |-> "open", judgment |-> j]
  <2>1. web' = [web EXCEPT ![w] = r] /\ r \in Request
    BY <1>3 DEF open_enforcement, Start, Request
  <2> QED BY <1>0, <1>3, <2>1, WebIInv DEF open_enforcement, IInv, TypeOK, ReadsBounded
<1>4. ASSUME NEW w \in Workers, NEW f \in Files, InsertOpened(w, f) PROVE IInv'
  <2>1. web[w].judgment \in Judgments
    BY <1>0, <1>4 DEF InsertOpened, Request, Idle
  <2>2. web' \in [Workers -> Request \cup {Idle}] /\ \A v \in Workers : web'[v] \in {web[v], Idle}
    BY <1>0, <1>4 DEF InsertOpened, Finish
  <2> QED BY <1>4, <2>1, <2>2, NewFileIInv DEF InsertOpened
<1>5. ASSUME NEW w \in Workers, NEW f \in Files, NEW p \in Payments, NEW a \in Amounts,
             add_payment(w, f, p, a)
      PROVE  IInv'
  <2> DEFINE r == [op |-> "add", file |-> f, read |-> collected[f],
                   pay |-> [id |-> p, file |-> f, amount |-> a]]
  <2>1. f \in Exists /\ collected[f] \in Int /\ Within(collected[f], f)
    BY <1>5 DEF add_payment, IInv, TypeOK, AmountsBounded
  <2>2. web' = [web EXCEPT ![w] = r] /\ r \in Request
    BY <1>5, <2>1 DEF add_payment, Start, Request, Payment
  <2> QED BY <1>0, <1>5, <2>1, <2>2, WebIInv DEF add_payment, IInv, TypeOK, ReadsBounded, ReadBounded
<1>6. ASSUME NEW w \in Workers, NEW f \in Files, NEW p \in Payments, delete_payment(w, f, p)
      PROVE  IInv'
  <2> DEFINE r == [op |-> "find", file |-> f, read |-> collected[f], id |-> p]
  <2>1. f \in Exists /\ collected[f] \in Int /\ Within(collected[f], f)
    BY <1>6 DEF delete_payment, IInv, TypeOK, AmountsBounded
  <2>2. web' = [web EXCEPT ![w] = r] /\ r \in Request
    BY <1>6, <2>1 DEF delete_payment, Start, Request
  <2> QED BY <1>0, <1>6, <2>1, <2>2, WebIInv DEF delete_payment, IInv, TypeOK, ReadsBounded, ReadBounded
<1>7. ASSUME NEW w \in Workers, FindPayment(w) PROVE IInv'
  <2>1. web[w] \in Request /\ web[w].op = "find"
    BY <1>0, <1>7 DEF FindPayment, Idle
  <2>2. web[w].file \in Files /\ web[w].read \in Int
    BY <2>1 DEF Request
  <2>3. ASSUME NEW p \in payments, p.file = web[w].file,
               web' = [web EXCEPT ![w] = [op |-> "delete", file |-> @.file, read |-> @.read, pay |-> p]]
        PROVE  IInv'
    <3> DEFINE r == [op |-> "delete", file |-> web[w].file, read |-> web[w].read, pay |-> p]
    <3>1. p \in Payment
      BY DEF IInv, TypeOK
    <3>2. r \in Request
      BY <2>2, <3>1 DEF Request
    <3>3. web' = [web EXCEPT ![w] = r]
      BY <2>3
    <3>4. ReadBounded(r)
      BY <2>1, <2>3 DEF IInv, ReadsBounded, ReadBounded
    <3>5. \A v \in Workers : web'[v].op \in {"add", "find", "delete"} => ReadBounded(web'[v])
      <4> HIDE DEF r
      <4> QED BY <1>0, <3>3, <3>4 DEF IInv, ReadsBounded
    <3>6. web' \in [Workers -> Request \cup {Idle}]
      BY <1>0, <3>2, <3>3
    <3> QED BY <1>7, <3>5, <3>6, WebIInv DEF FindPayment, IInv, TypeOK
  <2>4. CASE Finish(w)
    BY <1>0, <1>7, <2>4, WebIInv DEF FindPayment, Finish, IInv, TypeOK, ReadsBounded, Idle
  <2> QED BY <1>7, <2>3, <2>4 DEF FindPayment
<1>8. ASSUME NEW w \in Workers, CommitPayment(w) PROVE IInv'
  BY <1>8, CommitIInv
<1>9. ASSUME NEW w \in Workers, Abandon(w) PROVE IInv'
  BY <1>0, <1>9, WebIInv DEF Abandon, Finish, IInv, TypeOK, ReadsBounded, Idle
<1>10. CASE UNCHANGED vars
  BY <1>10 DEF vars, histories, IInv, TypeOK, SameFiles, AmountsBounded, ReadsBounded, ReadBounded, Within, Exists
<1> QED BY <1>1, <1>2, <1>3, <1>4, <1>5, <1>6, <1>7, <1>8, <1>9, <1>10 DEF Next

(* The invariant holds in every reachable state.                           *)
LEMMA SpecIInv == Spec => []IInv
BY InitIInv, NextIInv, PTL DEF Spec

-----------------------------------------------------------------------------
(* The variables keep their types.                                         *)
THEOREM TypeCorrect == Spec => []TypeOK
BY SpecIInv, PTL DEF IInv

(* Whatever payments are recorded and deleted at the same time, the amount *)
(* of a file never exceeds what was ever added to it, and is negative only *)
(* by the negative payments recorded on it.                                *)
THEOREM AmountWithinRecorded == Spec => []WithinRecorded
<1>1. IInv => WithinRecorded
  BY DEF IInv, AmountsBounded, Within, WithinRecorded
<1> QED BY <1>1, SpecIInv, PTL

-----------------------------------------------------------------------------
(* What a set of payments comes to.                                        *)
Total(S) == MapThenSumSet(LAMBDA p : p.amount, S)

(* MapThenSumSet takes the payments in the order CHOOSE picks them: h is   *)
(* the function its recursion defines on the subsets of S.                 *)
First(s) == CHOOSE p \in s : TRUE
Recurs(h, S) ==
  h = [s \in SUBSET S |-> IF s = {} THEN 0 ELSE First(s).amount + h[s \ {First(s)}]]

Iter(S) == CHOOSE h : Recurs(h, S)

(* The sum is that function's value, if there is such a function.          *)
LEMMA TotalDef == ASSUME NEW S PROVE Total(S) = Iter(S)[S]
BY DEF Total, Iter, MapThenSumSet, MapThenFoldSet, Recurs, First

(* A set of subsets of a finite set has a smallest one: what the inductions*)
(* below rest on.                                                          *)
LEMMA SmallestSet ==
  ASSUME NEW S, IsFiniteSet(S), NEW Q, Q \subseteq SUBSET S, Q # {}
  PROVE  \E T \in Q : \A U \in SUBSET T : U \in Q => U = T
<1> DEFINE R == StrictSubsetOrdering(S)
<1>1. Q \subseteq FiniteSubsetsOf(S)
  BY FS_Subset DEF FiniteSubsetsOf
<1>2. IsWellFoundedOn(R, FiniteSubsetsOf(S))
  BY FS_StrictSubsetOrderingWellFounded
<1>3. \E T \in Q : \A U \in Q : ~ (<<U, T>> \in R)
  <2> HIDE DEF R
  <2> QED BY <1>1, <1>2, WFMin
<1>4. PICK T \in Q : \A U \in Q : ~ (<<U, T>> \in R)
  BY <1>3
<1>5. ASSUME NEW U \in SUBSET T, U \in Q, U # T PROVE FALSE
  <2>1. <<U, T>> \in R
    BY <1>5 DEF StrictSubsetOrdering
  <2> QED BY <1>4, <1>5, <2>1
<1> QED BY <1>4, <1>5

(* The functions of two sets agree on what they share.                     *)
LEMMA RecursAgree ==
  ASSUME NEW S, IsFiniteSet(S), NEW T \in SUBSET S,
         NEW g, Recurs(g, S), NEW h, Recurs(h, T)
  PROVE  g[T] = h[T]
<1> DEFINE Q == {U \in SUBSET T : g[U] # h[U]}
<1> SUFFICES Q = {}
  OBVIOUS
<1> SUFFICES ASSUME Q # {} PROVE FALSE
  OBVIOUS
<1>1. IsFiniteSet(T)
  BY FS_Subset
<1>2. PICK U \in Q : \A V \in SUBSET U : V \in Q => V = U
  <2>1. Q \subseteq SUBSET T
    OBVIOUS
  <2> HIDE DEF Q
  <2> QED BY <1>1, <2>1, SmallestSet
<1>3. U # {}
  <2>1. g[{}] = 0 /\ h[{}] = 0
    BY DEF Recurs
  <2> QED BY <2>1
<1> DEFINE V == U \ {First(U)}
<1>4. First(U) \in U
  BY <1>3 DEF First
<1>5. V \in SUBSET U /\ V # U /\ V \in SUBSET T
  BY <1>4
<1>6. g[V] = h[V]
  BY <1>2, <1>5
<1>7. g[U] = First(U).amount + g[V]
  BY <1>3 DEF Recurs
<1>8. h[U] = First(U).amount + h[V]
  BY <1>3 DEF Recurs
<1> QED BY <1>2, <1>6, <1>7, <1>8

(* There is one for every finite set.                                      *)
LEMMA RecursExists == ASSUME NEW S, IsFiniteSet(S) PROVE \E h : Recurs(h, S)
<1> DEFINE Q == {T \in SUBSET S : \A h : ~Recurs(h, T)}
<1> SUFFICES ASSUME Q # {} PROVE FALSE
  OBVIOUS
<1>1. PICK T \in Q : \A U \in SUBSET T : U \in Q => U = T
  <2>1. Q \subseteq SUBSET S
    OBVIOUS
  <2> HIDE DEF Q
  <2> QED BY <2>1, SmallestSet
<1>2. IsFiniteSet(T)
  BY FS_Subset
<1> DEFINE G(U) == (CHOOSE h : Recurs(h, U))[U]
<1> DEFINE h == [s \in SUBSET T |-> IF s = {} THEN 0 ELSE First(s).amount + G(s \ {First(s)})]
<1>3. \A U \in SUBSET T : U # T => Recurs(CHOOSE g : Recurs(g, U), U)
  <2> TAKE U \in SUBSET T
  <2> HAVE U # T
  <2>1. U \notin Q
    BY <1>1
  <2>2. \E g : Recurs(g, U)
    BY <2>1
  <2> QED BY <2>2
<1>4. \A U \in SUBSET T : U # T => h[U] = G(U)
  <2> TAKE U \in SUBSET T
  <2> HAVE U # T
  <2> DEFINE g == CHOOSE g : Recurs(g, U)
  <2>1. Recurs(g, U)
    BY <1>3
  <2>2. CASE U = {}
    <3>1. g[U] = 0
      BY <2>1, <2>2 DEF Recurs
    <3> QED BY <2>2, <3>1
  <2>3. CASE U # {}
    <3> DEFINE V == U \ {First(U)}
    <3>1. V \in SUBSET U /\ V \in SUBSET T /\ V # T
      OBVIOUS
    <3>2. g[U] = First(U).amount + g[V]
      BY <2>1, <2>3 DEF Recurs
    <3>3. IsFiniteSet(U)
      BY <1>2, FS_Subset
    <3>4. Recurs(CHOOSE k : Recurs(k, V), V)
      BY <1>3, <3>1
    <3>5. g[V] = G(V)
      <4> HIDE DEF g, V
      <4> QED BY <2>1, <3>1, <3>3, <3>4, RecursAgree
    <3>6. h[U] = First(U).amount + G(V)
      BY <2>3
    <3> QED BY <3>2, <3>5, <3>6
  <2> QED BY <2>2, <2>3
<1>5. Recurs(h, T)
  <2>1. ASSUME NEW s \in SUBSET T, s # {} PROVE G(s \ {First(s)}) = h[s \ {First(s)}]
    <3>1. First(s) \in s
      BY <2>1 DEF First
    <3>2. s \ {First(s)} \in SUBSET T /\ s \ {First(s)} # T
      BY <3>1
    <3> QED BY <1>4, <3>2
  <2>2. h = [s \in SUBSET T |-> IF s = {} THEN 0 ELSE First(s).amount + h[s \ {First(s)}]]
    <3>1. \A s \in SUBSET T : h[s] = IF s = {} THEN 0 ELSE First(s).amount + h[s \ {First(s)}]
      <4> TAKE s \in SUBSET T
      <4>1. h[s] = IF s = {} THEN 0 ELSE First(s).amount + G(s \ {First(s)})
        OBVIOUS
      <4> HIDE DEF h, G
      <4> QED BY <2>1, <4>1
    <3>2. h = [s \in SUBSET T |-> h[s]]
      <4> HIDE DEF G
      <4> QED OBVIOUS
    <3> HIDE DEF h, G
    <3> QED BY <3>1, <3>2
  <2> QED BY <2>2 DEF Recurs
<1> QED BY <1>1, <1>5

(* So the sum takes off the payment that CHOOSE picks ...                  *)
LEMMA TotalFirst ==
  ASSUME NEW S, IsFiniteSet(S)
  PROVE  /\ S = {} => Total(S) = 0
         /\ S # {} => Total(S) = First(S).amount + Total(S \ {First(S)})
<1>1. \A T \in SUBSET S : IsFiniteSet(T) /\ Recurs(Iter(T), T)
  <2> TAKE T \in SUBSET S
  <2>1. IsFiniteSet(T)
    BY FS_Subset
  <2>2. \E h : Recurs(h, T)
    BY <2>1, RecursExists
  <2> QED BY <2>1, <2>2 DEF Iter
<1>2. ASSUME S = {} PROVE Total(S) = 0
  <2>1. Iter(S)[S] = 0
    BY <1>1, <1>2 DEF Recurs
  <2> QED BY <2>1, TotalDef
<1>3. ASSUME S # {} PROVE Total(S) = First(S).amount + Total(S \ {First(S)})
  <2> DEFINE T == S \ {First(S)}
  <2>1. Iter(S)[S] = First(S).amount + Iter(S)[T]
    BY <1>1, <1>3 DEF Recurs
  <2>2. Iter(S)[T] = Iter(T)[T]
    <3>1. Recurs(Iter(S), S) /\ Recurs(Iter(T), T) /\ T \in SUBSET S
      BY <1>1
    <3> HIDE DEF T
    <3> QED BY <3>1, RecursAgree
  <2> QED BY <2>1, <2>2, TotalDef
<1> QED BY <1>2, <1>3

(* ... and, the order of additions being irrelevant, any other just as well.*)
LEMMA TotalSplit ==
  ASSUME NEW S, IsFiniteSet(S), \A p \in S : p.amount \in Int
  PROVE  /\ Total(S) \in Int
         /\ \A p \in S : Total(S) = p.amount + Total(S \ {p})
<1> DEFINE Good(T) == /\ Total(T) \in Int
                      /\ \A p \in T : Total(T) = p.amount + Total(T \ {p})
<1> DEFINE Q == {T \in SUBSET S : ~Good(T)}
<1> SUFFICES ASSUME Q # {} PROVE FALSE
  OBVIOUS
<1>1. PICK T \in Q : \A U \in SUBSET T : U \in Q => U = T
  <2>1. Q \subseteq SUBSET S
    OBVIOUS
  <2> HIDE DEF Q
  <2> QED BY <2>1, SmallestSet
<1>2. \A U \in SUBSET T : U # T => Good(U)
  <2> HIDE DEF Good
  <2> QED BY <1>1
<1>3. IsFiniteSet(T)
  BY FS_Subset
<1>4. T # {}
  <2>1. T = {} => Total(T) = 0
    BY <1>3, TotalFirst
  <2> QED BY <2>1
<1> DEFINE q == First(T)
<1>5. q \in T
  BY <1>4 DEF First
<1>6. Total(T) = q.amount + Total(T \ {q})
  BY <1>3, <1>4, TotalFirst
<1>7. q.amount \in Int /\ Total(T \ {q}) \in Int
  BY <1>2, <1>5
<1>8. ASSUME NEW p \in T PROVE Total(T) = p.amount + Total(T \ {p})
  <2>1. CASE p = q
    BY <2>1, <1>6
  <2>2. CASE p # q
    <3> DEFINE both == T \ {p, q}
    <3>1. both = (T \ {q}) \ {p} /\ both = (T \ {p}) \ {q} /\ both # T
      BY <1>5
    <3>2. Total(T \ {q}) = p.amount + Total(both)
      <4> HIDE DEF q, both
      <4> QED BY <1>2, <1>5, <2>2, <3>1
    <3>3. Total(T \ {p}) = q.amount + Total(both)
      <4> HIDE DEF q, both
      <4> QED BY <1>2, <1>5, <2>2, <3>1
    <3>4. p.amount \in Int /\ Total(both) \in Int
      BY <1>2, <3>1
    <3> QED BY <1>6, <1>7, <3>2, <3>3, <3>4
  <2> QED BY <2>1, <2>2
<1>9. Good(T)
  <2>1. Total(T) \in Int
    <3> HIDE DEF q
    <3> QED BY <1>6, <1>7
  <2> QED BY <2>1, <1>8
<1> QED BY <1>9

(* Only a negative payment makes a sum negative.                           *)
LEMMA TotalNegative ==
  ASSUME NEW S, IsFiniteSet(S), \A p \in S : p.amount \in Int, Total(S) < 0
  PROVE  \E p \in S : p.amount < 0
<1> DEFINE Q == {T \in SUBSET S : Total(T) < 0}
<1>1. PICK T \in Q : \A U \in SUBSET T : U \in Q => U = T
  <2>1. Q \subseteq SUBSET S /\ Q # {}
    OBVIOUS
  <2> HIDE DEF Q
  <2> QED BY <2>1, SmallestSet
<1>2. IsFiniteSet(T) /\ \A p \in T : p.amount \in Int
  BY FS_Subset
<1>3. T # {}
  <2>1. T = {} => Total(T) = 0
    BY <1>2, TotalFirst
  <2> QED BY <2>1
<1>4. PICK p \in T : TRUE
  BY <1>3
<1> DEFINE U == T \ {p}
<1>5. Total(T) = p.amount + Total(U)
  BY <1>2, TotalSplit
<1>6. Total(U) \in Int /\ ~(Total(U) < 0)
  <2>1. IsFiniteSet(U) /\ \A r \in U : r.amount \in Int
    BY <1>2, FS_Subset
  <2>2. U \in SUBSET T /\ U # T /\ U \in SUBSET S
    OBVIOUS
  <2> HIDE DEF U
  <2>3. Total(U) \in Int
    BY <2>1, TotalSplit
  <2> QED BY <1>1, <2>2, <2>3
<1>7. p.amount \in Int /\ Total(T) < 0
  BY <1>2
<1> HIDE DEF U
<1>8. p.amount < 0
  BY <1>5, <1>6, <1>7
<1> QED BY <1>8

-----------------------------------------------------------------------------
Paying(w) == web[w].op \in {"add", "find", "delete"}

(* A payment about to be recorded has an id no row and no other request has.*)
FreshIds ==
  /\ \A p \in payments : p.id \in used /\ p.file \in Exists
  /\ \A w \in Workers : web[w].op = "add" =>
       /\ web[w].pay.id \in used
       /\ \A p \in payments : p.id # web[w].pay.id
       /\ \A v \in Workers \ {w} : web[v].op = "add" => web[v].pay.id # web[w].pay.id

(* On a file without overlaps a request's read is still the amount, and the*)
(* payment it deletes still there.                                         *)
ReadsCurrent ==
  \A w \in Workers : Paying(w) /\ web[w].file \notin overlapped =>
    /\ web[w].read = collected[web[w].file]
    /\ web[w].op = "delete" => web[w].pay \in PaymentsOf(web[w].file)

(* The amount of a file is what its payments come to until a deletion is   *)
(* cut off, and then no less; that takes a negative payment.               *)
SumExact(f) ==
  /\ collected[f] >= Total(PaymentsOf(f))
  /\ collected[f] # Total(PaymentsOf(f)) => f \in clamped
  /\ f \in clamped => debit[f] > 0

(* The sums are over finite sets, and right; no negative payment escapes   *)
(* the debit.                                                              *)
Exact ==
  /\ IsFiniteSet(payments)
  /\ clamped \subseteq Exists
  /\ \A p \in payments : p.amount < 0 => debit[p.file] > 0
  /\ \A f \in Exists \ overlapped : SumExact(f)

LInv == FreshIds /\ ReadsCurrent /\ Exact

(* No rows, no requests at first.                                          *)
LEMMA InitLInv == Init => LInv
BY FS_EmptySet DEF Init, LInv, FreshIds, ReadsCurrent, Exact, Exists, Idle, Paying

(* A new file has no payments: LInv holds on when requests only end.       *)
LEMMA NewFileLInv ==
  ASSUME IInv, LInv, NEW f, NEW j \in Judgments \cup {NoJudgment}, NewFile(f, j),
         UNCHANGED <<payments, used, overlapped, clamped>>,
         \A w \in Workers : web'[w] \in {web[w], Idle}
  PROVE  LInv'
<1>1. /\ Exists' = Exists \cup {f} /\ f \in Files \ Exists /\ collected'[f] = 0
      /\ \A g \in Exists : collected'[g] = collected[g] /\ debit'[g] = debit[g]
  BY NewFileBounds
<1>2. FreshIds'
  BY <1>1 DEF LInv, FreshIds, Idle
<1>3. ReadsCurrent'
  <2> SUFFICES ASSUME NEW w \in Workers, Paying(w)', web'[w].file \notin overlapped
               PROVE  /\ web'[w].read = collected'[web'[w].file]
                      /\ web'[w].op = "delete" =>
                           web'[w].pay \in {p \in payments' : p.file = web'[w].file}
    BY DEF ReadsCurrent, PaymentsOf
  <2>1. web'[w] = web[w] /\ Paying(w)
    BY DEF Paying, Idle
  <2>2. web[w].file \in Exists
    BY <2>1 DEF IInv, ReadsBounded, ReadBounded, Paying
  <2> QED BY <1>1, <2>1, <2>2 DEF LInv, ReadsCurrent, PaymentsOf
<1>4. Exact'
  <2>1. PaymentsOf(f) = {} /\ Total({}) = 0
    BY <1>1, FS_EmptySet, TotalFirst DEF PaymentsOf, LInv, FreshIds
  <2>2. \A g : PaymentsOf(g)' = PaymentsOf(g)
    BY DEF PaymentsOf
  <2>3. f \notin clamped'
    BY <1>1 DEF LInv, Exact
  <2>4. SumExact(f)'
    <3>1. Total(PaymentsOf(f)') = 0
      BY <2>1, <2>2
    <3> QED BY <1>1, <2>3, <3>1 DEF SumExact
  <2>5. \A g \in Exists \ overlapped : SumExact(g)'
    BY <1>1, <2>2 DEF LInv, Exact, SumExact
  <2>6. \A p \in payments : p.amount < 0 => debit'[p.file] > 0
    BY <1>1 DEF LInv, FreshIds, Exact
  <2> QED BY <1>1, <2>4, <2>5, <2>6 DEF LInv, Exact
<1> QED BY <1>2, <1>3, <1>4 DEF LInv

(* A step of one request that touches no row keeps LInv if what it leaves  *)
(* in the request is current.                                              *)
LEMMA WebLInv ==
  ASSUME LInv, NEW w \in Workers, NEW r, web' = [web EXCEPT ![w] = r], web \in [Workers -> Request \cup {Idle}],
         UNCHANGED <<collected, payments, histories>>,
         used \subseteq used',
         r.op = "add" => r.pay.id \in used' \ used,
         r.op \in {"add", "find", "delete"} /\ r.file \notin overlapped =>
           /\ r.read = collected[r.file]
           /\ r.op = "delete" => r.pay \in PaymentsOf(r.file)
  PROVE  LInv'
<1>1. web'[w] = r /\ \A v \in Workers \ {w} : web'[v] = web[v]
  OBVIOUS
<1>2. FreshIds'
  <2>1. \A p \in payments : p.id \in used' /\ p.file \in Exists'
    BY DEF LInv, FreshIds, Exists
  <2>2. ASSUME NEW v \in Workers, web'[v].op = "add"
        PROVE  /\ web'[v].pay.id \in used'
               /\ \A p \in payments : p.id # web'[v].pay.id
               /\ \A u \in Workers \ {v} : web'[u].op = "add" => web'[u].pay.id # web'[v].pay.id
    <3>1. CASE v = w
      BY <1>1, <2>2, <3>1 DEF LInv, FreshIds
    <3>2. CASE v # w
      BY <1>1, <2>2, <3>2 DEF LInv, FreshIds
    <3> QED BY <3>1, <3>2
  <2> QED BY <2>1, <2>2 DEF FreshIds
<1>3. ReadsCurrent'
  BY <1>1 DEF LInv, ReadsCurrent, Paying, PaymentsOf, histories
<1>4. Exact'
  BY DEF LInv, Exact, SumExact, PaymentsOf, Exists, histories
<1> QED BY <1>2, <1>3, <1>4 DEF LInv

(* The commit of a payment request: if no other request works on the file, *)
(* the amount it read is current, and row and amount change alike unless a *)
(* deletion is cut off.                                                    *)
LEMMA CommitLInv == ASSUME IInv, LInv, NEW w \in Workers, CommitPayment(w) PROVE LInv'
<1>0. PICK q, f : q = web[w] /\ f = q.file
  OBVIOUS
<1> USE <1>0
<1>1. q \in Request /\ q.op \in {"add", "delete"} /\ Paying(w)
  BY DEF CommitPayment, IInv, TypeOK, Idle, Paying
<1>2. q.pay \in Payment /\ q.pay.amount \in Int /\ q.read \in Int
  BY <1>1, AmountsAssumption DEF Request, Payment
<1>3. f \in Exists /\ q.pay.file = f /\ collected \in [Exists -> Int] /\ debit \in [Exists -> Nat]
  BY <1>1 DEF IInv, ReadsBounded, ReadBounded, TypeOK
<1>4. web'[w] = Idle /\ \A v \in Workers \ {w} : web'[v] = web[v]
  BY DEF CommitPayment, Finish, IInv, TypeOK
<1>5. /\ Exists' = Exists /\ \A g \in Exists : g # f => collected'[g] = collected[g]
      /\ overlapped \subseteq overlapped' /\ used' = used
      /\ collected'[f] = collected[f] \/ collected'[f] = NewAmount(q)
      /\ NewAmount(q) = q.read => collected'[f] = collected[f]
      /\ NewAmount(q) # q.read => collected'[f] = NewAmount(q)
  BY <1>3 DEF CommitPayment, Exists
<1>6. payments' = IF q.op = "add" THEN payments \cup {q.pay} ELSE payments \ {q.pay}
  BY DEF CommitPayment
<1>7. q.pay.file = f
  BY <1>3
<1>8. q.op = "add" => /\ q.pay.id \in used /\ \A p \in payments : p.id # q.pay.id
                      /\ \A v \in Workers \ {w} : web[v].op = "add" => web[v].pay.id # q.pay.id
  BY DEF LInv, FreshIds
<1>9. FreshIds'
  <2>1. \A p \in payments' : p.id \in used' /\ p.file \in Exists'
    BY <1>3, <1>5, <1>6, <1>7 DEF LInv, FreshIds
  <2>2. ASSUME NEW v \in Workers, web'[v].op = "add"
        PROVE  /\ web'[v].pay.id \in used'
               /\ \A p \in payments' : p.id # web'[v].pay.id
               /\ \A u \in Workers \ {v} : web'[u].op = "add" => web'[u].pay.id # web'[v].pay.id
    <3>1. v # w /\ web'[v] = web[v]
      BY <1>4, <2>2 DEF Idle
    <3>2. \A u \in Workers : web'[u].op = "add" => web'[u] = web[u]
      BY <1>4 DEF Idle
    <3> QED BY <1>5, <1>6, <1>7, <2>2, <3>1, <3>2 DEF LInv, FreshIds
  <2> QED BY <2>1, <2>2 DEF FreshIds
<1>10. ASSUME NEW v \in Workers, Paying(v)', web'[v].file \notin overlapped'
      PROVE  /\ v # w /\ web'[v] = web[v] /\ Paying(v) /\ web[v].file \in Exists
             /\ web[v].file # f /\ web[v].file \notin overlapped
  <2>1. v # w /\ web'[v] = web[v] /\ Paying(v)
    BY <1>4, <1>10 DEF Paying, Idle
  <2>2. web[v].file # f
    BY <1>10, <2>1 DEF CommitPayment, Paying
  <2> QED BY <1>5, <1>10, <2>1, <2>2 DEF IInv, ReadsBounded, ReadBounded, Paying
<1>11. f \notin overlapped =>
         /\ q.read = collected[f]
         /\ q.op = "delete" => q.pay \in PaymentsOf(f)
  BY <1>1 DEF LInv, ReadsCurrent
<1>12. \A g : g # f => PaymentsOf(g)' = PaymentsOf(g)
  BY <1>6, <1>7 DEF PaymentsOf
<1>13. ReadsCurrent'
  <2> SUFFICES ASSUME NEW v \in Workers, Paying(v)', web'[v].file \notin overlapped'
               PROVE  /\ web'[v].read = collected'[web'[v].file]
                      /\ web'[v].op = "delete" =>
                           web'[v].pay \in {p \in payments' : p.file = web'[v].file}
    BY DEF ReadsCurrent, PaymentsOf
  <2>0. PICK g : g = web[v].file
    OBVIOUS
  <2>1. /\ web'[v] = web[v] /\ Paying(v) /\ g \in Exists
        /\ g # f /\ g \notin overlapped
    BY <1>10, <2>0
  <2>2. collected'[g] = collected[g] /\ PaymentsOf(g)' = PaymentsOf(g)
    BY <1>5, <1>12, <2>1
  <2>3. web[v].read = collected[g] /\ (web[v].op = "delete" => web[v].pay \in PaymentsOf(g))
    BY <2>0, <2>1 DEF LInv, ReadsCurrent
  <2> QED BY <2>0, <2>1, <2>2, <2>3 DEF PaymentsOf
<1> DEFINE less == IF q.op = "add" THEN Down(q.pay.amount) ELSE 0
<1>14. /\ debit'[f] = debit[f] + less /\ less \in Nat /\ debit[f] \in Nat
       /\ \A g \in Exists : g # f => debit'[g] = debit[g]
       /\ q.op = "add" /\ q.pay.amount < 0 => less > 0
       /\ q.op = "delete" => less = 0
  <2>1. less \in Nat /\ (q.op = "add" /\ q.pay.amount < 0 => less > 0)
        /\ (q.op = "delete" => less = 0)
    BY <1>2 DEF Down
  <2>2. debit' = [debit EXCEPT ![f] = @ + less]
    BY DEF CommitPayment
  <2> HIDE DEF less
  <2> QED BY <1>3, <2>1, <2>2
<1> HIDE DEF less
<1>15. /\ clamped' = IF CutOff(q) THEN clamped \cup {f} ELSE clamped
       /\ clamped \subseteq Exists
  BY DEF CommitPayment, LInv, Exact
<1>16. \A p \in payments' : p.amount < 0 => debit'[p.file] > 0
  <2> SUFFICES ASSUME NEW p \in payments', p.amount < 0 PROVE debit'[p.file] > 0
    OBVIOUS
  <2>1. CASE p \in payments
    <3>1. debit[p.file] > 0 /\ p.file \in Exists
      BY <2>1 DEF LInv, Exact, FreshIds
    <3> QED BY <1>3, <1>14, <3>1
  <2>2. CASE p \notin payments
    <3>1. p = q.pay /\ q.op = "add"
      BY <1>6, <2>2
    <3> QED BY <1>7, <1>14, <3>1
  <2> QED BY <2>1, <2>2
<1>17. ASSUME f \notin overlapped PROVE SumExact(f)'
  <2>0. PICK S : S = PaymentsOf(f)
    OBVIOUS
  <2> USE <2>0
  <2>1. /\ q.read = collected[f] /\ q.read >= Total(S)
        /\ q.read # Total(S) => f \in clamped
        /\ f \in clamped => debit[f] > 0
    BY <1>3, <1>11, <1>17 DEF LInv, Exact, SumExact
  <2>2. IsFiniteSet(S) /\ IsFiniteSet(S \cup {q.pay})
    BY FS_Subset, FS_AddElement DEF LInv, Exact, PaymentsOf
  <2>3. \A p \in S \cup {q.pay} : p.amount \in Int
    BY <1>2, AmountsAssumption DEF PaymentsOf, IInv, TypeOK, Payment
  <2>4. Total(S) \in Int
    BY <2>2, <2>3, TotalSplit
  <2>5. CASE q.op = "add"
    <3>1. PaymentsOf(f)' = S \cup {q.pay} /\ q.pay \notin S
      BY <1>6, <1>7, <1>8, <2>5 DEF PaymentsOf
    <3>2. (S \cup {q.pay}) \ {q.pay} = S
      BY <3>1
    <3>3. Total(S \cup {q.pay}) = q.pay.amount + Total(S)
      BY <2>2, <2>3, <3>2, TotalSplit
    <3>4. collected'[f] = q.read + q.pay.amount
      <4>1. NewAmount(q) = q.read + q.pay.amount
        BY <2>5 DEF NewAmount
      <4> QED BY <1>5, <2>1, <4>1
    <3>5. clamped' = clamped
      BY <1>15, <2>5 DEF CutOff
    <3>6. debit[f] > 0 => debit'[f] > 0
      BY <1>14
    <3>7. /\ collected'[f] >= Total(S \cup {q.pay})
          /\ collected'[f] # Total(S \cup {q.pay}) => f \in clamped'
      BY <1>2, <2>1, <2>4, <3>3, <3>4, <3>5
    <3> QED BY <2>1, <3>1, <3>5, <3>6, <3>7 DEF SumExact
  <2>6. CASE q.op = "delete"
    <3>1. PaymentsOf(f)' = S \ {q.pay} /\ q.pay \in S
      BY <1>6, <1>11, <1>17, <2>6 DEF PaymentsOf
    <3>2. Total(S) = q.pay.amount + Total(S \ {q.pay})
      BY <2>2, <2>3, <3>1, TotalSplit
    <3>3. IsFiniteSet(S \ {q.pay}) /\ \A p \in S \ {q.pay} : p.amount \in Int
      BY <2>2, <2>3, FS_RemoveElement
    <3>4. Total(S \ {q.pay}) \in Int
      BY <3>3, TotalSplit
    <3>5. debit'[f] = debit[f]
      BY <1>14, <2>6
    <3>6. CASE q.read >= q.pay.amount
      <4>1. collected'[f] = q.read - q.pay.amount
        <5>1. NewAmount(q) = q.read - q.pay.amount
          BY <2>6, <3>6 DEF NewAmount
        <5> QED BY <1>5, <2>1, <5>1
      <4>2. clamped' = clamped
        BY <1>2, <1>15, <3>6 DEF CutOff
      <4>3. /\ collected'[f] >= Total(S \ {q.pay})
            /\ collected'[f] # Total(S \ {q.pay}) => f \in clamped'
        BY <1>2, <2>1, <2>4, <3>2, <3>4, <4>1, <4>2
      <4> QED BY <2>1, <3>1, <3>5, <4>2, <4>3 DEF SumExact
    <3>7. CASE q.read < q.pay.amount
      <4>1. collected'[f] = 0
        <5>1. NewAmount(q) = 0
          BY <1>2, <2>6, <3>7 DEF NewAmount
        <5> QED BY <1>5, <2>1, <5>1
      <4>2. f \in clamped'
        BY <1>15, <2>6, <3>7 DEF CutOff
      <4>3. Total(S \ {q.pay}) < 0
        BY <1>2, <2>1, <2>4, <3>2, <3>4, <3>7
      <4>4. PICK p \in S : p.amount < 0
        BY <3>3, <4>3, TotalNegative
      <4>5. debit[f] > 0
        BY <4>4 DEF PaymentsOf, LInv, Exact
      <4>6. collected'[f] >= Total(S \ {q.pay})
        BY <3>4, <4>1, <4>3
      <4> QED BY <3>1, <3>5, <4>2, <4>5, <4>6 DEF SumExact
    <3> QED BY <1>2, <3>6, <3>7
  <2> QED BY <1>1, <2>5, <2>6
<1>18. ASSUME NEW g \in Exists, g \notin overlapped' PROVE SumExact(g)'
  <2>1. CASE g = f
    BY <1>5, <1>17, <1>18, <2>1
  <2>2. CASE g # f
    <3>1. SumExact(g)
      BY <1>5, <1>18 DEF LInv, Exact
    <3>2. g \in clamped' <=> g \in clamped
      BY <1>15, <2>2
    <3> QED BY <1>5, <1>12, <1>14, <2>2, <3>1, <3>2 DEF SumExact
  <2> QED BY <2>1, <2>2
<1>19. Exact'
  <2>1. IsFiniteSet(payments')
    BY <1>6, FS_AddElement, FS_RemoveElement DEF LInv, Exact
  <2>2. clamped' \subseteq Exists'
    BY <1>3, <1>5, <1>15
  <2> QED BY <1>5, <1>16, <1>18, <2>1, <2>2 DEF Exact
<1> QED BY <1>9, <1>13, <1>19 DEF LInv

(* LInv is inductive relative to IInv.                                     *)
LEMMA NextLInv == IInv /\ LInv /\ [Next]_vars => LInv'
<1> SUFFICES ASSUME IInv, LInv, [Next]_vars PROVE LInv'
  OBVIOUS
<1>0. web \in [Workers -> Request \cup {Idle}]
  BY DEF IInv, TypeOK
<1>1. ASSUME NEW f \in Files, NEW j \in Judgments \cup {NoJudgment}, create_enforcement_file(f, j)
      PROVE  LInv'
  BY <1>1, NewFileLInv DEF create_enforcement_file
<1>2. CASE (\E f \in Files, j \in Judgments \cup {NoJudgment} : update_enforcement_file(f, j))
           \/ UNCHANGED vars
  BY <1>2 DEF update_enforcement_file, vars, histories, LInv, FreshIds, ReadsCurrent, Exact, SumExact,
               PaymentsOf, Exists, Paying
<1>3. ASSUME NEW w \in Workers, NEW j \in Judgments, open_enforcement(w, j) PROVE LInv'
  <2> DEFINE r == [op |-> "open", judgment |-> j]
  <2>1. web' = [web EXCEPT ![w] = r]
    BY <1>3 DEF open_enforcement, Start
  <2> QED BY <1>0, <1>3, <2>1, WebLInv DEF open_enforcement
<1>4. ASSUME NEW w \in Workers, NEW f \in Files, InsertOpened(w, f) PROVE LInv'
  <2>1. web[w].judgment \in Judgments
    BY <1>0, <1>4 DEF InsertOpened, Request, Idle
  <2>2. \A v \in Workers : web'[v] \in {web[v], Idle}
    BY <1>0, <1>4 DEF InsertOpened, Finish
  <2> QED BY <1>4, <2>1, <2>2, NewFileLInv DEF InsertOpened
<1>5. ASSUME NEW w \in Workers, NEW f \in Files, NEW p \in Payments, NEW a \in Amounts,
             add_payment(w, f, p, a)
      PROVE  LInv'
  <2> DEFINE r == [op |-> "add", file |-> f, read |-> collected[f],
                   pay |-> [id |-> p, file |-> f, amount |-> a]]
  <2>1. web' = [web EXCEPT ![w] = r] /\ p \in used' \ used /\ used \subseteq used'
    BY <1>5 DEF add_payment, Start
  <2> QED BY <1>0, <1>5, <2>1, WebLInv DEF add_payment
<1>6. ASSUME NEW w \in Workers, NEW f \in Files, NEW p \in Payments, delete_payment(w, f, p)
      PROVE  LInv'
  <2> DEFINE r == [op |-> "find", file |-> f, read |-> collected[f], id |-> p]
  <2>1. web' = [web EXCEPT ![w] = r]
    BY <1>6 DEF delete_payment, Start
  <2> QED BY <1>0, <1>6, <2>1, WebLInv DEF delete_payment
<1>7. ASSUME NEW w \in Workers, FindPayment(w) PROVE LInv'
  <2>1. web[w].op = "find" /\ UNCHANGED <<collected, payments, histories, used>>
    BY <1>7 DEF FindPayment
  <2>2. ASSUME NEW p \in payments, p.file = web[w].file,
               web' = [web EXCEPT ![w] = [op |-> "delete", file |-> @.file, read |-> @.read, pay |-> p]]
        PROVE  LInv'
    <3> DEFINE r == [op |-> "delete", file |-> web[w].file, read |-> web[w].read, pay |-> p]
    <3>1. web' = [web EXCEPT ![w] = r]
      BY <2>2
    <3>2. r.file \notin overlapped => r.read = collected[r.file]
      BY <2>1 DEF LInv, ReadsCurrent, Paying
    <3>3. r.pay \in PaymentsOf(r.file)
      BY <2>2 DEF PaymentsOf
    <3> QED BY <1>0, <2>1, <2>2, <3>1, <3>2, <3>3, WebLInv
  <2>3. CASE Finish(w)
    BY <1>0, <2>1, <2>3, WebLInv DEF Finish, Idle
  <2> QED BY <1>7, <2>2, <2>3 DEF FindPayment
<1>8. ASSUME NEW w \in Workers, CommitPayment(w) PROVE LInv'
  BY <1>8, CommitLInv
<1>9. ASSUME NEW w \in Workers, Abandon(w) PROVE LInv'
  BY <1>0, <1>9, WebLInv DEF Abandon, Finish, Idle
<1> QED BY <1>1, <1>2, <1>3, <1>4, <1>5, <1>6, <1>7, <1>8, <1>9 DEF Next

(* A file on which no two payment requests ever overlapped shows exactly   *)
(* the sum of its payments, however many were recorded and deleted, until a*)
(* deletion is cut off at zero; that takes a negative payment, and leaves  *)
(* the amount above the sum.                                               *)
THEOREM AmountExact == Spec => []ExactUnlessOverlapped
<1>1. LInv => ExactUnlessOverlapped
  BY DEF LInv, Exact, SumExact, ExactUnlessOverlapped, Total
<1> QED BY <1>1, InitIInv, NextIInv, InitLInv, NextLInv, PTL DEF Spec
=============================================================================
