--------------------------- MODULE OfficeNumbering ---------------------------
(***************************************************************************)
(* How client files and invoices get their numbers (api/clients.py and     *)
(* api/financial.py).  A web worker counts the office's rows, formats      *)
(* count + 1 as the number, and inserts the row in a commit of its own;    *)
(* between the two any other worker may commit.  The table's unique        *)
(* constraint on (office, number) is the only arbiter: the loser's         *)
(* transaction is rolled back and answered 409.                            *)
(*                                                                         *)
(* "CL-%06d" is injective on the numbers, so a number stands for its       *)
(* label.  The rows of a seeded demo office carry other labels             *)
(* ("CL-<code>-001") but are counted: Seeded[k, o] is how many there are.  *)
(***************************************************************************)
EXTENDS Naturals, FiniteSets

CONSTANTS Workers,   \* web worker processes, each serving one request at a time
          Offices,   \* tenants
          Ids,       \* row identities (uuid4 primary keys)
          Seeded     \* Seeded[<<k, o>>]: rows of kind k the seed gave office o

Kinds == {"client", "invoice"}
Series == Kinds \X Offices

ASSUME SeededAssumption == Seeded \in [Series -> Nat]

VARIABLES rows,      \* committed rows created through the API
          deleted,   \* ids of the client rows whose is_deleted flag is set
          req        \* the creation each worker has in flight

vars == <<rows, deleted, req>>

Idle == [phase |-> "idle"]
Pending == [phase : {"counted"}, series : Series, number : Nat]
Row == [series : Series, number : Nat, id : Ids]

TypeOK ==
  /\ rows \subseteq Row
  /\ deleted \subseteq Ids
  /\ req \in [Workers -> Pending \cup {Idle}]

RowsOf(s) == {r \in rows : r.series = s}

\* Mutants: a count over every tenant's rows, or one that skips deleted clients.
CountAnyOffice(s) == Seeded[s] + Cardinality(rows)
CountLive(s) == Seeded[s] + Cardinality({r \in RowsOf(s) : r.id \notin deleted})

(* Client.query.filter_by(office_id=...).count(): soft-deleted rows count. *)
Count(s) == Seeded[s] + Cardinality(RowsOf(s))

(* The unique constraint on (office_id, client_number / invoice_number).   *)
KeyTaken(s, n) == \E r \in RowsOf(s) : r.number = n

-----------------------------------------------------------------------------
Init ==
  /\ rows = {}
  /\ deleted = {}
  /\ req = [w \in Workers |-> Idle]

(* create_client / create_invoice, up to the number: committed rows only.  *)
CountRows(w, s) ==
  /\ req[w] = Idle
  /\ req' = [req EXCEPT ![w] =
       [phase |-> "counted", series |-> s, number |-> Count(s) + 1]]
  /\ UNCHANGED <<rows, deleted>>

(* db.session.commit() inserts the row if its key is free.                 *)
Insert(w, i) ==
  /\ req[w] # Idle
  /\ ~KeyTaken(req[w].series, req[w].number)
  /\ i \notin {r.id : r \in rows}
  /\ rows' = rows \cup {[series |-> req[w].series, number |-> req[w].number, id |-> i]}
  /\ req' = [req EXCEPT ![w] = Idle]
  /\ UNCHANGED deleted

(* IntegrityError: rolled back, the caller gets 409.                       *)
Conflict(w) ==
  /\ req[w] # Idle
  /\ KeyTaken(req[w].series, req[w].number)
  /\ req' = [req EXCEPT ![w] = Idle]
  /\ UNCHANGED <<rows, deleted>>

(* The worker dies, or loses its connection, before the commit.            *)
Abandon(w) ==
  /\ req[w] # Idle
  /\ req' = [req EXCEPT ![w] = Idle]
  /\ UNCHANGED <<rows, deleted>>

\* Mutant: the flag is looked up by the file's number.
DeleteByNumber(r) ==
  /\ r.series[1] = "client"
  /\ r.id \notin deleted
  /\ deleted' = deleted \cup {r.number}
  /\ UNCHANGED <<rows, req>>

(* delete_client sets a flag and keeps the row; invoices are never deleted. *)
DeleteClient(r) ==
  /\ r.series[1] = "client"
  /\ r.id \notin deleted
  /\ deleted' = deleted \cup {r.id}
  /\ UNCHANGED <<rows, req>>

Next ==
  \/ \E w \in Workers, s \in Series : CountRows(w, s)
  \/ \E w \in Workers, i \in Ids : Insert(w, i)
  \/ \E w \in Workers : Conflict(w)
  \/ \E w \in Workers : Abandon(w)
  \/ \E r \in rows : DeleteClient(r)

Spec == Init /\ [][Next]_vars

-----------------------------------------------------------------------------
(* The numbers of a series are consecutive, and as many as its rows: so no *)
(* two rows share one.  Counting races lose requests, never numbers,       *)
(* although nothing locks the count.                                       *)
Gapless ==
  \A s \in Series : {r.number : r \in RowsOf(s)} = (Seeded[s] + 1) .. Count(s)

(* A creation is refused with 409 exactly when a row was committed to its  *)
(* series after it counted; so a retry that runs alone succeeds, and       *)
(* deleting clients never makes an office unable to open new files.        *)
ConflictIffStale ==
  \A w \in Workers : req[w] # Idle =>
    (KeyTaken(req[w].series, req[w].number) <=> req[w].number <= Count(req[w].series))

(* The workers, races and rollbacks together only ever issue the next      *)
(* number to a new record (module NumberLedger).                           *)
Ledger == INSTANCE NumberLedger
            WITH First <- [s \in Series |-> Seeded[s] + 1], issued <- rows
IssuesInOrder == Ledger!Spec
=============================================================================
