------------------------ MODULE InvoiceLifecycle_proofs ------------------------
(***************************************************************************)
(* What invoices amount to and in which status they are, for any invoices, *)
(* workers, payloads and numbers of updates and crashes.                   *)
(***************************************************************************)
EXTENDS InvoiceLifecycle, TLAPS

-----------------------------------------------------------------------------
Lines(r) == Apart(r.total, r.subtotal + r.tax_amount) <= 1

(* Rounding moves an amount by half a cent at most.                        *)
LEMMA StoredNear ==
  ASSUME NEW x \in Int
  PROVE  /\ Stored(x) \in Int
         /\ 2 * x - 10000 <= 20000 * Stored(x) /\ 20000 * Stored(x) <= 2 * x + 10000
BY DEF Stored, Exact

(* A whole number of cents is kept as it is.                              *)
LEMMA StoredWhole == ASSUME NEW k \in Int PROVE Stored(k * Exact) = k
BY DEF Stored, Exact

(* So three rounded amounts add up to a cent if the exact ones do.         *)
LEMMA RoundedAddUp ==
  ASSUME NEW d \in Int, NEW t \in Int
  PROVE  Apart(Stored(d + t), Stored(d) + Stored(t)) <= 1
<1>1. PICK x, y, z : x = Stored(d) /\ y = Stored(t) /\ z = Stored(d + t)
  OBVIOUS
<1>2. /\ x \in Int /\ 2 * d - 10000 <= 20000 * x /\ 20000 * x <= 2 * d + 10000
      /\ y \in Int /\ 2 * t - 10000 <= 20000 * y /\ 20000 * y <= 2 * t + 10000
      /\ z \in Int /\ 2 * (d + t) - 10000 <= 20000 * z /\ 20000 * z <= 2 * (d + t) + 10000
  BY <1>1, StoredNear
<1> QED BY <1>1, <1>2 DEF Apart, Largest

(* The exact total is the sum of the exact subtotal and the exact tax.     *)
LEMMA Priced ==
  ASSUME NEW p, p.subtotal \in Int, p.discount_value \in Int, p.tax_rate \in Int
  PROVE  \E d, t \in Int :
           Amounts(p) = [subtotal |-> d, tax_amount |-> t, total |-> d + t]
<1>1. Discounted(p) \in Int
  <2>1. Unclamped(p) \in Int
    BY DEF Unclamped, Exact
  <2> QED BY <2>1 DEF Discounted, Largest
<1>2. TaxAmount(p) \in Int
  <2>1. EffectiveRate(p) \in Int
    BY DEF EffectiveRate, DefaultRate
  <2>2. Discounted(p) \div 100 \in Int
    BY <1>1
  <2> QED BY <2>1, <2>2 DEF TaxAmount
<1> QED BY <1>1, <1>2 DEF Amounts

-----------------------------------------------------------------------------
(* The tables keep their rows; due dates and requests are of issued ones;  *)
(* only updates touch more than the status.                                *)
Tables == DOMAIN inv = Invoices /\ inv = [i \in Invoices |-> inv[i]]
          /\ DOMAIN web = Workers /\ web = [w \in Workers |-> web[w]]
PastIssued == past \cup racing \subseteq Issued
Loaded ==
  \A w \in Workers : web[w] # Idle =>
    /\ web[w].inv \in Issued
    /\ web[w].op # "update" => DOMAIN web[w].writes \subseteq {"status"}

(* What an update will write adds up with the columns it leaves, if no     *)
(* other update has written the invoice since it was loaded.               *)
WritesAddUp ==
  \A w \in Workers : web[w].op = "update" /\ <<w, "update">> \notin overlapped =>
    Lines(Over(web[w].writes, inv[web[w].inv]))

(* A request about to move the total has loaded a draft, and it still is   *)
(* one if nothing has written it since.                                    *)
PricesDraft ==
  \A w \in Workers : web[w] # Idle /\ "total" \in DOMAIN web[w].writes =>
    inv[web[w].inv].status = "draft" \/ \E o \in overlapped : o[1] = w

(* What the job will mark is past due and unpaid, or known to race.        *)
MarksDue ==
  job.running => \A i \in job.todo \cup job.written :
    (i \in past /\ inv[i].status # "paid") \/ i \in racing

IInv == TypeOK /\ Tables /\ PastIssued /\ Loaded /\ LinesAddUp /\ WritesAddUp /\ PricesDraft /\ MarksDue

-----------------------------------------------------------------------------
(* The fields of a row, and of a request.                                  *)
LEMMA RowFields ==
  ASSUME NEW r, Row(r)
  PROVE  /\ r # NoInvoice
         /\ r.status \in Status /\ r.subtotal \in Int /\ r.tax_amount \in Int /\ r.total \in Int
         /\ r.discount_value \in Int /\ r.tax_rate \in Int
<1>1. \A c \in DOMAIN Column : r[c] \in Column[c]
  BY DEF Row, Columns
<1> QED BY <1>1 DEF Column, NoInvoice, Status

(* Columns over a row make a row.                                          *)
LEMMA OverRow ==
  ASSUME NEW r, NEW f, Row(r), Columns(f)
  PROVE  Row(Over(f, r))
BY DEF Row, Columns, Over

(* At first no invoice is issued.                                          *)
LEMMA InitIInv == Init => IInv
<1> SUFFICES ASSUME Init PROVE IInv
  OBVIOUS
<1>1. TypeOK
  BY CountsAssumption DEF Init, TypeOK, NoRun
<1>2. Tables /\ PastIssued /\ Loaded /\ WritesAddUp /\ PricesDraft /\ MarksDue
  BY DEF Init, Tables, PastIssued, Loaded, WritesAddUp, PricesDraft, MarksDue, Idle, NoRun
<1>3. LinesAddUp
  BY DEF Init, LinesAddUp, Issued
<1> QED BY <1>1, <1>2, <1>3 DEF IInv

-----------------------------------------------------------------------------
(* What the columns keep of a price.                                       *)
LEMMA RoundedPrice ==
  ASSUME NEW p, p.subtotal \in Int, p.discount_value \in Int, p.tax_rate \in Int
  PROVE  /\ DOMAIN Amounts(p) = {"subtotal", "tax_amount", "total"}
         /\ \A c \in DOMAIN Amounts(p) : Amounts(p)[c] \in Int /\ Stored(Amounts(p)[c]) \in Int
         /\ Apart(Stored(Amounts(p).total), Stored(Amounts(p).subtotal) + Stored(Amounts(p).tax_amount)) <= 1
<1>1. PICK d \in Int, t \in Int : Amounts(p) = [subtotal |-> d, tax_amount |-> t, total |-> d + t]
  BY Priced
<1>2. Apart(Stored(d + t), Stored(d) + Stored(t)) <= 1
  BY RoundedAddUp
<1>3. Stored(d) \in Int /\ Stored(t) \in Int /\ Stored(d + t) \in Int
  BY StoredNear
<1> QED BY <1>1, <1>2, <1>3

(* A new row is complete and adds up.                                      *)
LEMMA CreateIInv ==
  ASSUME IInv, NEW i \in Invoices, NEW p \in Creations, create_invoice(i, p)
  PROVE  IInv'
<1>1. PICK a, r : a = Amounts(p) /\ r = Over(Rounded(a), p)
  OBVIOUS
<1>2. DOMAIN p = DOMAIN Column \ {"tax_amount", "total"} /\ Columns(p)
  BY PayloadsAssumption
<1>3. p.subtotal \in Int /\ p.discount_value \in Int /\ p.tax_rate \in Int
  <2>1. \A c \in DOMAIN p : p[c] \in Column[c]
    BY <1>2 DEF Columns
  <2> QED BY <2>1, <1>2 DEF Column
<1>4. /\ DOMAIN a = {"subtotal", "tax_amount", "total"}
      /\ \A c \in DOMAIN a : Stored(a[c]) \in Int
      /\ Apart(Stored(a.total), Stored(a.subtotal) + Stored(a.tax_amount)) <= 1
  BY <1>1, <1>3, RoundedPrice
<1>5. /\ DOMAIN r = DOMAIN Column
      /\ \A c \in DOMAIN r : r[c] = IF c \in DOMAIN a THEN Stored(a[c]) ELSE p[c]
  BY <1>1, <1>2, <1>4 DEF Over, Rounded, Column
<1>6. Row(r)
  <2>1. ASSUME NEW c \in DOMAIN Column PROVE r[c] \in Column[c]
    <3>1. CASE c \in DOMAIN a
      BY <3>1, <1>4, <1>5 DEF Column
    <3>2. CASE c \notin DOMAIN a
      BY <3>2, <1>2, <1>4, <1>5 DEF Columns
    <3> QED BY <3>1, <3>2
  <2> QED BY <2>1, <1>5 DEF Row, Columns
<1>7. Lines(r)
  BY <1>4, <1>5 DEF Lines, Column
<1>8. /\ i \notin Issued /\ \A j \in Invoices : inv'[j] = IF j = i THEN r ELSE inv[j]
      /\ DOMAIN inv' = Invoices /\ inv' = [j \in Invoices |-> inv'[j]]
      /\ UNCHANGED <<past, web, overlapped, mixed, job, racing, edits, crashes>>
  BY <1>1 DEF create_invoice, IInv, Tables
<1>9. TypeOK'
  BY <1>6, <1>8 DEF IInv, TypeOK, Busy
<1>10. Issued' = Issued \cup {i} /\ Tables'
  BY <1>6, <1>8, RowFields DEF Issued, IInv, Tables
<1>11. PastIssued' /\ Loaded' /\ PricesDraft' /\ MarksDue'
  <2>1. PastIssued' /\ Loaded'
    BY <1>8, <1>10 DEF IInv, PastIssued, Loaded
  <2>2. \A j \in Issued : j \in Invoices /\ inv'[j] = inv[j]
    BY <1>8 DEF Issued
  <2>3. PricesDraft'
    BY <2>2, <1>8 DEF IInv, Loaded, PricesDraft
  <2>4. MarksDue'
    BY <2>2, <1>8 DEF IInv, PastIssued, MarksDue
  <2> QED BY <2>1, <2>3, <2>4
<1>12. WritesAddUp'
  <2> SUFFICES ASSUME NEW w \in Workers, web[w].op = "update", <<w, "update">> \notin overlapped
               PROVE  Lines(Over(web[w].writes, inv'[web[w].inv]))
    BY <1>8 DEF WritesAddUp
  <2>1. web[w].inv \in Issued
    BY DEF IInv, Loaded, Idle
  <2> QED BY <2>1, <1>8 DEF IInv, WritesAddUp, Issued
<1>13. LinesAddUp'
  <2> SUFFICES ASSUME NEW j \in Issued', j \notin mixed PROVE Lines(inv'[j])
    BY <1>8 DEF LinesAddUp, Lines
  <2> QED BY <1>7, <1>8, <1>10 DEF IInv, LinesAddUp, Lines, Issued
<1> QED BY <1>9, <1>10, <1>11, <1>12, <1>13 DEF IInv

(* A request loads an issued invoice.                                      *)
LEMMA LoadIInv ==
  ASSUME IInv, NEW w \in Workers, NEW op \in {"update", "send", "status"}, NEW i \in Invoices,
         NEW writes, NEW due \in Due, Load(w, op, i, writes, due),
         Columns(writes), edits' \in 0 .. MaxEdits,
         op # "update" => DOMAIN writes \subseteq {"status"},
         op = "update" => Lines(Over(writes, inv[i])) /\ inv[i].status = "draft"
  PROVE  IInv'
<1> DEFINE q == [op |-> op, inv |-> i, writes |-> writes, due |-> due]
<1>1. /\ i \in Issued /\ web[w] = Idle /\ q # Idle
      /\ \A v \in Workers : web'[v] = IF v = w THEN q ELSE web[v]
      /\ DOMAIN web' = Workers /\ web' = [v \in Workers |-> web'[v]]
      /\ UNCHANGED <<inv, past, overlapped, mixed, job, racing, crashes>>
  BY DEF Load, IInv, Tables, Idle
<1>2. TypeOK'
  <2>1. Busy(q)
    BY DEF Busy
  <2> QED BY <2>1, <1>1 DEF IInv, TypeOK, Busy
<1>3. Issued' = Issued
  BY <1>1 DEF Issued
<1>4. Tables' /\ PastIssued' /\ Loaded' /\ LinesAddUp' /\ MarksDue'
  BY <1>1, <1>3 DEF IInv, Tables, PastIssued, Loaded, LinesAddUp, MarksDue
<1>5. WritesAddUp'
  BY <1>1 DEF IInv, WritesAddUp
<1>6. PricesDraft'
  BY <1>1 DEF IInv, PricesDraft
<1> QED BY <1>2, <1>4, <1>5, <1>6 DEF IInv

(* An update prices the row it loaded: a column it leaves has the exact    *)
(* amount already.                                                         *)
LEMMA UpdateIInv ==
  ASSUME IInv, NEW w \in Workers, NEW i \in Invoices, NEW u \in Updates, update_invoice(w, i, u)
  PROVE  IInv'
<1>1. PICK row : row = inv[i]
  OBVIOUS
<1>2. PICK merged : merged = Over(u, row)
  OBVIOUS
<1>3. PICK amounts : amounts = Amounts(merged)
  OBVIOUS
<1>4. PICK moved : moved = {c \in DOMAIN amounts : amounts[c] # row[c] * Exact}
  OBVIOUS
<1>5. PICK kept : kept = [f \in DOMAIN u \ (DOMAIN amounts \cup {"due"}) |-> u[f]]
  OBVIOUS
<1>6. PICK writes : writes = Over([c \in moved |-> Stored(amounts[c])], Differing(row, kept))
  OBVIOUS
<1>7. PICK due : due = IF "due" \in DOMAIN u THEN u.due ELSE "keep"
  OBVIOUS
<1>8. /\ row.status = "draft" /\ Load(w, "update", i, writes, due)
      /\ i \in Issued /\ edits < MaxEdits /\ edits' = edits + 1
  BY <1>1, <1>2, <1>3, <1>4, <1>5, <1>6, <1>7 DEF update_invoice
<1>9. Row(row)
  BY <1>1, <1>8 DEF IInv, TypeOK, Issued
<1>10. /\ \A c \in DOMAIN u \ {"due"} : c \in DOMAIN Column /\ u[c] \in Column[c]
       /\ due \in Due
  <2>1. \A f \in DOMAIN u :
          IF f = "due" THEN u[f] \in Due ELSE f \in DOMAIN Column /\ u[f] \in Column[f]
    BY PayloadsAssumption
  <2> QED BY <2>1, <1>7 DEF Due
<1>11. merged.subtotal \in Int /\ merged.discount_value \in Int /\ merged.tax_rate \in Int
  <2>1. ASSUME NEW c \in DOMAIN Column PROVE merged[c] \in Column[c]
    BY <1>2, <1>9, <1>10 DEF Over, Row, Columns, Column
  <2> QED BY <2>1 DEF Column
<1>12. /\ DOMAIN amounts = {"subtotal", "tax_amount", "total"}
       /\ \A c \in DOMAIN amounts : amounts[c] \in Int /\ Stored(amounts[c]) \in Int
       /\ Apart(Stored(amounts.total), Stored(amounts.subtotal) + Stored(amounts.tax_amount)) <= 1
  BY <1>3, <1>11, RoundedPrice
<1>13. /\ DOMAIN writes \subseteq moved \cup DOMAIN kept /\ moved \subseteq DOMAIN writes
       /\ \A c \in DOMAIN writes : writes[c] = IF c \in moved THEN Stored(amounts[c]) ELSE kept[c]
  BY <1>6 DEF Over, Differing
<1>14. Columns(writes)
  <2>1. ASSUME NEW c \in DOMAIN writes PROVE c \in DOMAIN Column /\ writes[c] \in Column[c]
    <3>1. CASE c \in moved
      BY <3>1, <1>4, <1>12, <1>13 DEF Column
    <3>2. CASE c \notin moved
      BY <3>2, <1>5, <1>10, <1>13
    <3> QED BY <3>1, <3>2
  <2> QED BY <2>1 DEF Columns
<1>15. Lines(Over(writes, row))
  <2>1. ASSUME NEW c \in DOMAIN amounts PROVE Over(writes, row)[c] = Stored(amounts[c])
    <3>1. c \in DOMAIN row /\ row[c] \in Int
      BY <1>9, <1>12 DEF Row, Columns, Column
    <3>2. CASE c \in moved
      BY <3>2, <1>13 DEF Over
    <3>3. CASE c \notin moved
      <4>1. c \notin DOMAIN writes
        BY <3>3, <1>5, <1>13
      <4>2. Over(writes, row)[c] = row[c]
        BY <4>1, <3>1 DEF Over
      <4>3. amounts[c] = row[c] * Exact
        BY <3>3, <1>4
      <4> QED BY <4>2, <4>3, <3>1, StoredWhole
    <3> QED BY <3>2, <3>3
  <2> QED BY <2>1, <1>12 DEF Lines
<1>16. edits' \in 0 .. MaxEdits
  BY <1>8, CountsAssumption DEF IInv, TypeOK
<1> QED BY <1>1, <1>8, <1>10, <1>14, <1>15, <1>16, LoadIInv

(* Sending and setting a status write the status at most.                  *)
LEMMA StatusIInv ==
  ASSUME IInv, NEW w \in Workers, NEW i \in Invoices, NEW s \in Status,
         send_invoice(w, i) \/ update_invoice_status(w, i, s)
  PROVE  IInv'
<1>1. PICK t \in Status, op \in {"send", "status"} :
        Load(w, op, i, Differing(inv[i], [status |-> t]), "keep") /\ UNCHANGED edits
  BY DEF send_invoice, update_invoice_status, Status
<1>2. PICK writes : writes = Differing(inv[i], [status |-> t])
  OBVIOUS
<1>3. DOMAIN writes \subseteq {"status"} /\ \A c \in DOMAIN writes : writes[c] = t
  BY <1>2 DEF Differing
<1>4. Columns(writes)
  BY <1>3 DEF Columns, Column
<1>5. edits' \in 0 .. MaxEdits
  BY <1>1 DEF IInv, TypeOK
<1> QED BY <1>1, <1>2, <1>3, <1>4, <1>5, LoadIInv DEF Due

(* A commit writes what the request would, unless the job holds the row.   *)
LEMMA CommitIInv ==
  ASSUME IInv, NEW w \in Workers, Commit(w)
  PROVE  IInv'
<1>1. PICK q, i, r : q = web[w] /\ i = q.inv /\ r = Over(q.writes, inv[i])
  OBVIOUS
<1>2. PICK update \in BOOLEAN : update <=> DOMAIN q.writes # {} \/ q.due # "keep"
  OBVIOUS
<1>3. /\ q # Idle /\ Busy(q) /\ i \in Issued /\ i \in Invoices /\ Row(inv[i]) /\ Columns(q.writes)
      /\ q.op # "update" => DOMAIN q.writes \subseteq {"status"}
  BY <1>1 DEF Commit, IInv, TypeOK, Loaded, Busy, Issued
<1>4. /\ \A j \in Invoices : inv'[j] = IF j = i THEN r ELSE inv[j]
      /\ DOMAIN inv' = Invoices /\ inv' = [j \in Invoices |-> inv'[j]]
      /\ \A v \in Workers : web'[v] = IF v = w THEN Idle ELSE web[v]
      /\ DOMAIN web' = Workers /\ web' = [v \in Workers |-> web'[v]]
  BY <1>1, <1>3 DEF Commit, IInv, Tables
<1>5. /\ Row(r) /\ DOMAIN r = DOMAIN Column
      /\ \A c \in DOMAIN Column : r[c] = IF c \in DOMAIN q.writes THEN q.writes[c] ELSE inv[i][c]
      /\ r # NoInvoice
  <2>1. Row(r)
    BY <1>1, <1>3, OverRow
  <2> QED BY <2>1, <1>1, <1>3, RowFields DEF Over, Row
<1>6. /\ update => i \notin Locked
      /\ past' = CASE q.due = "past"   -> past \cup {i}
                   [] q.due = "future" -> past \ {i}
                   [] OTHER            -> past
      /\ mixed' = IF q.op # "update" THEN mixed
                  ELSE IF <<w, "update">> \in overlapped THEN mixed \cup {i} ELSE mixed \ {i}
      /\ UNCHANGED <<job, edits, crashes>>
  BY <1>1, <1>2 DEF Commit
<1>7. overlapped' = {o \in overlapped : o[1] # w}
                      \cup (IF update THEN Updating({i}) \ {w} ELSE {}) \X {q.op}
  BY <1>1, <1>2 DEF Commit
<1>8. racing' = IF job.running /\ i \in job.todo /\ (r.status = "paid" \/ i \notin past')
                  THEN racing \cup {i} ELSE racing
  BY <1>1, <1>3, <1>4 DEF Commit
<1>9. Tables' /\ Issued' = Issued
  BY <1>3, <1>4, <1>5 DEF Tables, Issued
<1>10. TypeOK'
  <2>1. past' \subseteq Invoices /\ mixed' \subseteq Invoices /\ racing' \subseteq Invoices
    BY <1>3, <1>6, <1>8 DEF IInv, TypeOK
  <2>2. overlapped' \subseteq Workers \X {"update", "send", "status", "job"}
    BY <1>3, <1>7 DEF IInv, TypeOK, Updating, Busy
  <2>3. \A j \in Invoices : inv'[j] = NoInvoice \/ Row(inv'[j])
    BY <1>4, <1>5 DEF IInv, TypeOK
  <2>4. \A v \in Workers : web'[v] = Idle \/ Busy(web'[v])
    BY <1>4 DEF IInv, TypeOK
  <2> QED BY <2>1, <2>2, <2>3, <2>4, <1>6 DEF IInv, TypeOK, Busy
<1>11. PastIssued' /\ Loaded'
  BY <1>3, <1>4, <1>6, <1>8, <1>9 DEF IInv, PastIssued, Loaded
<1>12. ASSUME NEW v \in Workers, v # w, web[v] # Idle, web[v].op = "update", web[v].inv = i
       PROVE  update => <<v, q.op>> \in overlapped'
  BY <1>7, <1>12 DEF Updating
<1>13. \A v \in Workers : v # w /\ <<v, "update">> \in overlapped => <<v, "update">> \in overlapped'
  BY <1>7
<1>14. ~update => \A c \in DOMAIN Column : r[c] = inv[i][c]
  BY <1>2, <1>5
<1>15. ~update \/ q.op # "update" =>
         r.subtotal = inv[i].subtotal /\ r.tax_amount = inv[i].tax_amount /\ r.total = inv[i].total
  BY <1>3, <1>5, <1>14 DEF Column
<1>16. WritesAddUp'
  <2> SUFFICES ASSUME NEW v \in Workers, web'[v].op = "update", <<v, "update">> \notin overlapped'
               PROVE  Lines(Over(web'[v].writes, inv'[web'[v].inv]))
    BY DEF WritesAddUp
  <2>1. v # w /\ web'[v] = web[v] /\ web[v].op = "update" /\ web[v] # Idle
    BY <1>4 DEF Idle
  <2>2. PICK f, j : f = web[v].writes /\ j = web[v].inv
    OBVIOUS
  <2>3. Lines(Over(f, inv[j])) /\ j \in Issued /\ j \in Invoices
    <3>1. <<v, "update">> \notin overlapped
      BY <2>1, <1>13
    <3>2. Lines(Over(web[v].writes, inv[web[v].inv]))
      BY <3>1, <2>1 DEF IInv, WritesAddUp
    <3>3. j \in Issued
      BY <2>1, <2>2 DEF IInv, Loaded
    <3> QED BY <3>2, <3>3, <2>2 DEF Issued
  <2>4. CASE j # i
    BY <2>1, <2>2, <2>3, <2>4, <1>4
  <2>5. CASE j = i
    <3>1. r.subtotal = inv[i].subtotal /\ r.tax_amount = inv[i].tax_amount /\ r.total = inv[i].total
      BY <2>1, <2>2, <2>5, <1>12, <1>15
    <3>2. DOMAIN inv[i] = DOMAIN r
      BY <1>3, <1>5 DEF Row
    <3>3. \A c \in {"subtotal", "tax_amount", "total"} : Over(f, r)[c] = Over(f, inv[i])[c]
      BY <3>1, <3>2, <1>5 DEF Over, Column
    <3>4. Lines(Over(f, r))
      BY <2>3, <2>5, <3>3 DEF Lines
    <3> QED BY <3>4, <2>1, <2>2, <2>5, <1>3, <1>4
  <2> QED BY <2>4, <2>5
<1>17. LinesAddUp'
  <2> SUFFICES ASSUME NEW j \in Issued, j \notin mixed' PROVE Lines(inv'[j])
    BY <1>9 DEF LinesAddUp, Lines
  <2>1. CASE j # i
    BY <2>1, <1>4, <1>6 DEF IInv, LinesAddUp, Lines, Issued
  <2>2. CASE j = i /\ q.op = "update"
    BY <2>2, <1>1, <1>3, <1>4, <1>6 DEF IInv, WritesAddUp
  <2>3. CASE j = i /\ q.op # "update"
    BY <2>3, <1>3, <1>4, <1>6, <1>15 DEF IInv, LinesAddUp, Lines
  <2> QED BY <2>1, <2>2, <2>3
<1>18. PricesDraft'
  <2> SUFFICES ASSUME NEW v \in Workers, web'[v] # Idle, "total" \in DOMAIN web'[v].writes
               PROVE  inv'[web'[v].inv].status = "draft" \/ \E o \in overlapped' : o[1] = v
    BY DEF PricesDraft
  <2>1. v # w /\ web'[v] = web[v] /\ web[v] # Idle /\ web[v].op = "update" /\ web[v].inv \in Invoices
    BY <1>4 DEF IInv, Loaded, Issued
  <2>2. CASE \E o \in overlapped : o[1] = v
    BY <2>1, <2>2, <1>7
  <2>3. CASE inv[web[v].inv].status = "draft" /\ web[v].inv # i
    BY <2>1, <2>3, <1>4
  <2>4. CASE inv[web[v].inv].status = "draft" /\ web[v].inv = i
    <3>1. update => \E o \in overlapped' : o[1] = v
      BY <2>1, <2>4, <1>12
    <3>2. ~update => r.status = "draft"
      BY <2>4, <1>14 DEF Column
    <3> QED BY <3>1, <3>2, <2>1, <2>4, <1>4
  <2> QED BY <2>1, <2>2, <2>3, <2>4 DEF IInv, PricesDraft
<1>19. MarksDue'
  <2> SUFFICES ASSUME job.running, NEW j \in job.todo \cup job.written
               PROVE  (j \in past' /\ inv'[j].status # "paid") \/ j \in racing'
    BY <1>6 DEF MarksDue
  <2>1. (j \in past /\ inv[j].status # "paid") \/ j \in racing
    BY DEF IInv, MarksDue
  <2>2. racing \subseteq racing'
    BY <1>8
  <2>3. CASE j # i
    <3>1. j \in past => j \in past' /\ j \in Invoices
      BY <2>3, <1>6 DEF IInv, TypeOK
    <3> QED BY <2>1, <2>2, <2>3, <3>1, <1>4
  <2>4. CASE j = i /\ j \in job.todo
    BY <2>1, <2>2, <2>4, <1>3, <1>4, <1>8
  <2>5. CASE j = i /\ j \in job.written
    <3>1. ~update
      BY <2>5, <1>6 DEF Locked
    <3>2. past' = past /\ r.status = inv[i].status
      BY <3>1, <1>2, <1>6, <1>14 DEF Column
    <3> QED BY <2>1, <2>2, <2>5, <3>2, <1>3, <1>4
  <2> QED BY <2>3, <2>4, <2>5
<1> QED BY <1>9, <1>10, <1>11, <1>16, <1>17, <1>18, <1>19 DEF IInv

(* The job starts with invoices past due and unpaid ...                    *)
LEMMA StartIInv == ASSUME IInv, JobStart PROVE IInv'
<1>1. /\ job' = [running |-> TRUE, loaded |-> Overdue, todo |-> Overdue, written |-> {},
                 flagged |-> {i \in Overdue : inv[i].status = "overdue"}]
      /\ racing' = {} /\ UNCHANGED <<inv, past, web, overlapped, mixed, edits, crashes>>
  BY DEF JobStart
<1>2. Overdue \subseteq Invoices /\ \A i \in Overdue : i \in past /\ inv[i].status # "paid"
  BY DEF IInv, TypeOK, Overdue
<1>3. job' \in Run
  BY <1>1, <1>2 DEF Run
<1>4. TypeOK'
  BY <1>1, <1>3 DEF IInv, TypeOK, Busy
<1>5. MarksDue'
  BY <1>1, <1>2 DEF MarksDue
<1>6. Tables' /\ PastIssued' /\ Loaded' /\ LinesAddUp' /\ WritesAddUp' /\ PricesDraft'
  BY <1>1 DEF IInv, Tables, PastIssued, Loaded, LinesAddUp, WritesAddUp, PricesDraft, Issued
<1> QED BY <1>4, <1>5, <1>6 DEF IInv

(* ... goes through them ...                                               *)
LEMMA IterateIInv == ASSUME IInv, NEW i \in Invoices, JobInvoice(i) PROVE IInv'
<1>1. /\ job.running /\ i \in job.todo
      /\ job' = [job EXCEPT !.todo = @ \ {i},
                            !.written = IF i \in job.flagged THEN @ ELSE @ \cup {i}]
      /\ UNCHANGED <<inv, past, web, overlapped, mixed, racing, edits, crashes>>
  BY DEF JobInvoice
<1>2. job \in Run
  BY <1>1 DEF IInv, TypeOK, NoRun
<1>3. job' \in Run /\ job'.todo \cup job'.written \subseteq job.todo \cup job.written
  BY <1>1, <1>2 DEF Run
<1>4. TypeOK'
  BY <1>1, <1>3 DEF IInv, TypeOK, Busy
<1>5. MarksDue'
  BY <1>1, <1>3 DEF IInv, MarksDue
<1>6. Tables' /\ PastIssued' /\ Loaded' /\ LinesAddUp' /\ WritesAddUp' /\ PricesDraft'
  BY <1>1 DEF IInv, Tables, PastIssued, Loaded, LinesAddUp, WritesAddUp, PricesDraft, Issued
<1> QED BY <1>4, <1>5, <1>6 DEF IInv

(* ... and marks what it wrote.                                            *)
LEMMA MarkIInv == ASSUME IInv, JobCommit PROVE IInv'
<1>1. /\ job.running /\ job' = NoRun /\ overlapped' = overlapped \cup (Updating(job.written) \X {"job"})
      /\ UNCHANGED <<past, web, mixed, racing, edits, crashes>>
  BY DEF JobCommit
<1>2. /\ DOMAIN inv' = Invoices /\ inv' = [i \in Invoices |-> inv'[i]]
      /\ \A i \in Invoices :
           inv'[i] = IF i \in job.written THEN [inv[i] EXCEPT !.status = "overdue"] ELSE inv[i]
  BY DEF JobCommit
<1>3. \A i \in Invoices : inv[i] = NoInvoice \/ Row(inv[i])
  BY DEF IInv, TypeOK
<1>4. Updating(job.written) \subseteq Workers
  BY DEF Updating
<1>5. \A i \in job.written : i \in Invoices /\ i \in Issued
  <2>1. job \in Run
    BY <1>1 DEF IInv, TypeOK, NoRun
  <2> QED BY <2>1, <1>1 DEF IInv, MarksDue, PastIssued, Issued, Run
<1>6. ASSUME NEW i \in job.written
      PROVE  /\ Row(inv'[i]) /\ inv'[i].subtotal = inv[i].subtotal
             /\ inv'[i].tax_amount = inv[i].tax_amount /\ inv'[i].total = inv[i].total
  <2>1. Row(inv[i])
    BY <1>3, <1>5 DEF Issued
  <2>2. inv'[i] = [inv[i] EXCEPT !.status = "overdue"]
    BY <1>2, <1>5
  <2>3. DOMAIN inv'[i] = DOMAIN Column
    BY <2>1, <2>2 DEF Row
  <2>4. \A c \in DOMAIN Column : inv'[i][c] = IF c = "status" THEN "overdue" ELSE inv[i][c]
    BY <2>1, <2>2 DEF Row
  <2>5. Columns(inv'[i])
    BY <2>1, <2>3, <2>4 DEF Row, Columns, Column, Status
  <2> QED BY <2>3, <2>4, <2>5 DEF Row, Column
<1>7. Issued' = Issued
  BY <1>2, <1>3, <1>5, <1>6, RowFields DEF Issued
<1>8. TypeOK'
  <2>1. \A i \in Invoices : inv'[i] = NoInvoice \/ Row(inv'[i])
    BY <1>2, <1>3, <1>6
  <2>2. overlapped' \subseteq Workers \X {"update", "send", "status", "job"}
    BY <1>1, <1>4 DEF IInv, TypeOK
  <2> QED BY <2>1, <2>2, <1>1 DEF IInv, TypeOK, Busy
<1>9. Tables' /\ PastIssued' /\ Loaded' /\ MarksDue'
  BY <1>1, <1>2, <1>7 DEF IInv, Tables, PastIssued, Loaded, MarksDue, NoRun
<1>10. \A i \in Issued : /\ DOMAIN inv'[i] = DOMAIN inv[i] /\ inv'[i].subtotal = inv[i].subtotal
                         /\ inv'[i].tax_amount = inv[i].tax_amount /\ inv'[i].total = inv[i].total
  BY <1>2, <1>3, <1>6 DEF Issued, Row
<1>11. LinesAddUp'
  BY <1>1, <1>7, <1>10 DEF IInv, LinesAddUp
<1>12. WritesAddUp'
  <2> SUFFICES ASSUME NEW v \in Workers, web[v].op = "update", <<v, "update">> \notin overlapped
               PROVE  Lines(Over(web[v].writes, inv'[web[v].inv]))
    BY <1>1 DEF WritesAddUp
  <2>1. PICK f, j : f = web[v].writes /\ j = web[v].inv
    OBVIOUS
  <2>2. j \in Issued /\ Lines(Over(f, inv[j]))
    BY <2>1 DEF IInv, Loaded, WritesAddUp, Idle
  <2>3. {"subtotal", "tax_amount", "total"} \subseteq DOMAIN inv[j]
    BY <2>2, <1>3 DEF Issued, Row, Column
  <2>4. \A c \in {"subtotal", "tax_amount", "total"} : Over(f, inv'[j])[c] = Over(f, inv[j])[c]
    BY <2>2, <2>3, <1>10 DEF Over
  <2>5. Lines(Over(f, inv'[j]))
    BY <2>2, <2>4 DEF Lines
  <2> QED BY <2>1, <2>5
<1>13. PricesDraft'
  <2> SUFFICES ASSUME NEW v \in Workers, web[v] # Idle, "total" \in DOMAIN web[v].writes
               PROVE  inv'[web[v].inv].status = "draft" \/ \E o \in overlapped' : o[1] = v
    BY <1>1 DEF PricesDraft
  <2>1. web[v].op = "update" /\ web[v].inv \in Invoices
    BY DEF IInv, Loaded, Issued
  <2>2. CASE web[v].inv \in job.written
    <3>1. <<v, "job">> \in overlapped'
      BY <2>1, <2>2, <1>1 DEF Updating
    <3> QED BY <3>1
  <2>3. CASE web[v].inv \notin job.written
    <3>1. inv'[web[v].inv] = inv[web[v].inv] /\ overlapped \subseteq overlapped'
      BY <2>1, <2>3, <1>1, <1>2
    <3>2. inv[web[v].inv].status = "draft" \/ \E o \in overlapped : o[1] = v
      BY DEF IInv, PricesDraft
    <3> QED BY <3>1, <3>2
  <2> QED BY <2>2, <2>3
<1> QED BY <1>8, <1>9, <1>11, <1>12, <1>13 DEF IInv

(* A due date passes, or a run is lost.                                    *)
LEMMA PassIInv ==
  ASSUME IInv, past \subseteq past', past' \subseteq Issued, job' = job \/ job' = NoRun,
         crashes' \in 0 .. MaxCrashes, UNCHANGED <<inv, web, overlapped, mixed, racing, edits>>
  PROVE  IInv'
<1>1. TypeOK'
  BY DEF IInv, TypeOK, Busy, Issued
<1>2. MarksDue'
  BY DEF IInv, MarksDue, NoRun
<1> QED
  BY <1>1, <1>2
  DEF IInv, Tables, PastIssued, Loaded, LinesAddUp, WritesAddUp, PricesDraft, Issued

-----------------------------------------------------------------------------
(* One step of anybody.                                                    *)
LEMMA NextIInv == IInv /\ [Next]_vars => IInv'
<1> SUFFICES ASSUME IInv, [Next]_vars PROVE IInv'
  OBVIOUS
<1>1. ASSUME NEW i \in Invoices, NEW p \in Creations, create_invoice(i, p) PROVE IInv'
  BY <1>1, CreateIInv
<1>2. ASSUME NEW w \in Workers, NEW i \in Invoices, NEW u \in Updates, update_invoice(w, i, u)
      PROVE  IInv'
  BY <1>2, UpdateIInv
<1>3. ASSUME NEW w \in Workers, NEW i \in Invoices, send_invoice(w, i) PROVE IInv'
  BY <1>3, StatusIInv DEF Status
<1>4. ASSUME NEW w \in Workers, NEW i \in Invoices, NEW s \in Status, update_invoice_status(w, i, s)
      PROVE  IInv'
  BY <1>4, StatusIInv
<1>5. ASSUME NEW w \in Workers, Commit(w) PROVE IInv'
  BY <1>5, CommitIInv
<1>6. ASSUME NEW i \in Invoices, DueDatePasses(i) PROVE IInv'
  BY <1>6, PassIInv DEF DueDatePasses, IInv, TypeOK, PastIssued
<1>7. CASE JobStart
  BY <1>7, StartIInv
<1>8. ASSUME NEW i \in Invoices, JobInvoice(i) PROVE IInv'
  BY <1>8, IterateIInv
<1>9. CASE JobCommit
  BY <1>9, MarkIInv
<1>10. CASE JobCrash
  <2>1. crashes' \in 0 .. MaxCrashes
    BY <1>10, CountsAssumption DEF JobCrash, IInv, TypeOK
  <2> QED BY <1>10, <2>1, PassIInv DEF JobCrash, IInv, PastIssued
<1>11. CASE UNCHANGED vars
  BY <1>11, PassIInv DEF vars, IInv, TypeOK, PastIssued
<1> QED BY <1>1, <1>2, <1>3, <1>4, <1>5, <1>6, <1>7, <1>8, <1>9, <1>10, <1>11 DEF Next

(* The strengthened invariant holds for ever.                              *)
LEMMA Invariance == Spec => []IInv
BY InitIInv, NextIInv, PTL DEF Spec

(* Invoices, requests and runs are well-typed.                             *)
THEOREM TypeCorrect == Spec => []TypeOK
<1>1. IInv => TypeOK
  BY DEF IInv
<1> QED BY <1>1, Invariance, PTL

(* The three amounts of an invoice add up to the cent that rounding costs, *)
(* unless updates of it overlapped.                                        *)
THEOREM AmountsAddUp == Spec => []LinesAddUp
<1>1. IInv => LinesAddUp
  BY DEF IInv
<1> QED BY <1>1, Invariance, PTL

(* An invoice that is no draft is priced by an overtaken update at most.   *)
THEOREM PriceFixedOnceSent == Spec => PricedWhileDraft
<1> DEFINE A == \A w \in Workers, i \in Issued :
       Commit(w) /\ inv[i].status # "draft" /\ inv'[i].total # inv[i].total =>
         \E o \in overlapped : o[1] = w
<1>1. IInv /\ [Next]_vars => [A]_vars
  <2> SUFFICES ASSUME IInv, NEW w \in Workers, NEW i \in Issued, Commit(w),
                      inv[i].status # "draft", inv'[i].total # inv[i].total
               PROVE  \E o \in overlapped : o[1] = w
    OBVIOUS
  <2>1. web[w] # Idle /\ inv' = [inv EXCEPT ![web[w].inv] = Over(web[w].writes, @)]
    BY DEF Commit
  <2>2. Row(inv[i]) /\ i \in Invoices
    BY DEF IInv, TypeOK, Issued
  <2>3. i = web[w].inv /\ inv'[i] = Over(web[w].writes, inv[i])
    BY <2>1, <2>2 DEF IInv, Tables
  <2>4. "total" \in DOMAIN web[w].writes
    <3>1. "total" \in DOMAIN inv[i]
      BY <2>2 DEF Row, Column
    <3> QED BY <2>3, <3>1 DEF Over
  <2> QED BY <2>1, <2>3, <2>4 DEF IInv, PricesDraft
<1> QED BY <1>1, Invariance, PTL DEF Spec, PricedWhileDraft

(* The job overwrites only invoices past due and unpaid, or paid or        *)
(* postponed while it was running.                                         *)
THEOREM JobOverwritesRacing == Spec => OnlyRacingOverwritten
<1> DEFINE A == JobCommit => \A i \in Invoices :
       inv'[i].status # inv[i].status =>
         (i \in past /\ inv[i].status # "paid") \/ i \in racing
<1>1. IInv /\ [Next]_vars => [A]_vars
  <2> SUFFICES ASSUME IInv, JobCommit, NEW i \in Invoices, inv'[i].status # inv[i].status
               PROVE  (i \in past /\ inv[i].status # "paid") \/ i \in racing
    OBVIOUS
  <2>1. i \in job.written /\ job.running
    BY DEF JobCommit
  <2> QED BY <2>1 DEF IInv, MarksDue
<1> QED BY <1>1, Invariance, PTL DEF Spec, OnlyRacingOverwritten
=============================================================================
