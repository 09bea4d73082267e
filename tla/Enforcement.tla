----------------------------- MODULE Enforcement -----------------------------
(***************************************************************************)
(* Enforcement files and the money collected on them (api/enforcement.py,  *)
(* open_enforcement of api/judgments.py).  A file keeps collected_amount   *)
(* beside its payment rows; both handlers that touch it read the amount,   *)
(* compute a new one and store it absolutely in a later commit.            *)
(***************************************************************************)
EXTENDS Integers, FiniteSetsExt

CONSTANTS Workers, Judgments,
          Files,      \* enforcement file ids
          Payments,   \* payment ids
          Amounts     \* amounts an office records, in cents: the schema has no lower bound

ASSUME AmountsAssumption == Amounts \subseteq Int

VARIABLES judgmentOf,  \* the judgment of each existing file
          collected,   \* collected_amount of each existing file
          payments,    \* committed payment rows
          web,         \* the request each worker serves
          used,        \* payment ids handed out so far
          credit,      \* all that ever spoke for more on a file: positive
                       \* payments recorded, negative ones deleted
          debit,       \* all that ever spoke for less: negative payments recorded
          overlapped,  \* files on which two payment requests ever overlapped
          clamped      \* files on which a deletion was ever cut off at zero

histories == <<credit, debit, overlapped, clamped>>
vars == <<judgmentOf, collected, payments, web, used, histories>>

Idle == [op |-> "idle"]
NoJudgment == "none"
Exists == DOMAIN collected

Payment == [id : Payments, file : Files, amount : Amounts]
Request ==
  [op : {"add", "delete"}, file : Files, read : Int, pay : Payment]
    \cup [op : {"find"}, file : Files, read : Int, id : Payments]
    \cup [op : {"open"}, judgment : Judgments]

TypeOK ==
  /\ Exists \subseteq Files
  /\ judgmentOf \in [Exists -> Judgments \cup {NoJudgment}]
  /\ collected \in [Exists -> Int]
  /\ credit \in [Exists -> Nat] /\ debit \in [Exists -> Nat]
  /\ payments \subseteq Payment
  /\ web \in [Workers -> Request \cup {Idle}]
  /\ used \subseteq Payments
  /\ overlapped \subseteq Files /\ clamped \subseteq Files

Init ==
  /\ judgmentOf = <<>> /\ collected = <<>> /\ credit = <<>> /\ debit = <<>>
  /\ payments = {} /\ used = {} /\ overlapped = {} /\ clamped = {}
  /\ web = [w \in Workers |-> Idle]

Start(w, q) == web[w] = Idle /\ web' = [web EXCEPT ![w] = q]
Finish(w) == web' = [web EXCEPT ![w] = Idle]

\* f with x mapped to v as well.
With(f, x, v) == [y \in DOMAIN f \cup {x} |-> IF y = x THEN v ELSE f[y]]

\* Mutant: the new file is not attached to its judgment.
NewFileUnattached(f, j) ==
  /\ f \in Files \ Exists
  /\ collected' = With(collected, f, 0)
  /\ credit' = With(credit, f, 0) /\ debit' = With(debit, f, 0)
  /\ UNCHANGED judgmentOf

(* A new file: default collected_amount 0.                                 *)
NewFile(f, j) ==
  /\ f \in Files \ Exists
  /\ judgmentOf' = With(judgmentOf, f, j)
  /\ collected' = With(collected, f, 0)
  /\ credit' = With(credit, f, 0) /\ debit' = With(debit, f, 0)

-----------------------------------------------------------------------------
(* POST /enforcement: any judgment or none, no look at existing files.     *)
create_enforcement_file(f, j) ==
  /\ NewFile(f, j)
  /\ UNCHANGED <<payments, web, used, overlapped, clamped>>

(* PUT /enforcement/<id>: may re-attach the file; never the amount.        *)
update_enforcement_file(f, j) ==
  /\ f \in Exists
  /\ judgmentOf' = [judgmentOf EXCEPT ![f] = j]
  /\ UNCHANGED <<collected, payments, web, used, histories>>

(* POST /judgments/<id>/open-enforcement: an existing file is returned ... *)
open_enforcement(w, j) ==
  /\ \A f \in Exists : judgmentOf[f] # j
  /\ Start(w, [op |-> "open", judgment |-> j])
  /\ UNCHANGED <<judgmentOf, collected, payments, used, histories>>

(* ... and otherwise one is inserted: nothing in the table forbids two.    *)
InsertOpened(w, f) ==
  /\ web[w].op = "open"
  /\ NewFile(f, web[w].judgment)
  /\ Finish(w)
  /\ UNCHANGED <<payments, used, overlapped, clamped>>

-----------------------------------------------------------------------------
(* POST .../payments: the file is loaded ...                               *)
add_payment(w, f, p, a) ==
  /\ f \in Exists
  /\ p \notin used
  /\ used' = used \cup {p}
  /\ Start(w, [op |-> "add", file |-> f, read |-> collected[f],
               pay |-> [id |-> p, file |-> f, amount |-> a]])
  /\ UNCHANGED <<judgmentOf, collected, payments, histories>>

(* DELETE .../payments/<id>: the file is loaded, then the payment.         *)
delete_payment(w, f, p) ==
  /\ f \in Exists
  /\ Start(w, [op |-> "find", file |-> f, read |-> collected[f], id |-> p])
  /\ UNCHANGED <<judgmentOf, collected, payments, used, histories>>

FindPayment(w) ==
  /\ web[w].op = "find"
  /\ \/ \E p \in payments :
          /\ p.id = web[w].id /\ p.file = web[w].file
          /\ web' = [web EXCEPT ![w] =
               [op |-> "delete", file |-> @.file, read |-> @.read, pay |-> p]]
     \/ /\ \A p \in payments : ~(p.id = web[w].id /\ p.file = web[w].file)  \* 404
        /\ Finish(w)
  /\ UNCHANGED <<judgmentOf, collected, payments, used, histories>>

\* Mutants: no clamp; a deletion that adds.
NewAmountUnclamped(q) == IF q.op = "add" THEN q.read + q.pay.amount ELSE q.read - q.pay.amount
NewAmountOnlyAdds(q) == q.read + q.pay.amount

(* The amount a request stores: a deletion is cut off at zero, adding a    *)
(* negative payment is not.                                                *)
NewAmount(q) ==
  IF q.op = "add" THEN q.read + q.pay.amount
  ELSE IF q.read >= q.pay.amount THEN q.read - q.pay.amount ELSE 0

\* For the histories: what an amount adds, what it takes off, and deletions cut off.
Up(a) == IF a > 0 THEN a ELSE 0
Down(a) == IF a < 0 THEN -a ELSE 0
CutOff(q) == q.op = "delete" /\ q.read < q.pay.amount

(* ... and one commit writes the payment row and the amount.  An amount    *)
(* equal to the loaded one is not written; deleting a payment that is gone *)
(* already is only a warning.                                              *)
CommitPayment(w) ==
  LET q == web[w] IN
  /\ q.op \in {"add", "delete"}
  /\ payments' = IF q.op = "add" THEN payments \cup {q.pay} ELSE payments \ {q.pay}
  /\ collected' = IF NewAmount(q) = q.read THEN collected
                  ELSE [collected EXCEPT ![q.file] = NewAmount(q)]
  /\ credit' = [credit EXCEPT ![q.file] = @ +
       IF q.op = "add" THEN Up(q.pay.amount)
       ELSE IF q.pay \in payments THEN Down(q.pay.amount) ELSE 0]
  /\ debit' = [debit EXCEPT ![q.file] = @ + IF q.op = "add" THEN Down(q.pay.amount) ELSE 0]
  /\ clamped' = IF CutOff(q) THEN clamped \cup {q.file} ELSE clamped
  /\ overlapped' = IF \E v \in Workers \ {w} : web[v].op \in {"add", "find", "delete"} /\ web[v].file = q.file
                     THEN overlapped \cup {q.file} ELSE overlapped
  /\ Finish(w)
  /\ UNCHANGED <<judgmentOf, used>>

(* The worker dies before its commit.                                      *)
Abandon(w) ==
  /\ web[w] # Idle
  /\ Finish(w)
  /\ UNCHANGED <<judgmentOf, collected, payments, used, histories>>

Next ==
  \/ \E f \in Files, j \in Judgments \cup {NoJudgment} :
       create_enforcement_file(f, j) \/ update_enforcement_file(f, j)
  \/ \E w \in Workers :
       \/ \E j \in Judgments : open_enforcement(w, j)
       \/ \E f \in Files : InsertOpened(w, f)
       \/ \E f \in Files, p \in Payments :
            delete_payment(w, f, p) \/ \E a \in Amounts : add_payment(w, f, p, a)
       \/ FindPayment(w)
       \/ CommitPayment(w)
       \/ Abandon(w)

Spec == Init /\ [][Next]_vars

-----------------------------------------------------------------------------
PaymentsOf(f) == {p \in payments : p.file = f}

(* Whatever updates are lost and payments deleted twice, the amount of a   *)
(* file never exceeds what was ever added to it, and never falls below zero*)
(* by more than the negative payments ever recorded on it: deletions alone,*)
(* in any order and however stale, never make it negative.                 *)
WithinRecorded == \A f \in Exists : -debit[f] <= collected[f] /\ collected[f] <= credit[f]

(* As long as no two requests on a file ever overlapped, its amount is the *)
(* sum of its payments until a deletion is cut off at zero, which takes a  *)
(* negative payment; from then on it may exceed the sum, never fall short. *)
ExactUnlessOverlapped ==
  \A f \in Exists \ overlapped :
    LET sum == MapThenSumSet(LAMBDA p : p.amount, PaymentsOf(f)) IN
    /\ collected[f] >= sum
    /\ collected[f] # sum => f \in clamped
    /\ f \in clamped => debit[f] > 0
=============================================================================
