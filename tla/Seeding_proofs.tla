---------------------------- MODULE Seeding_proofs ----------------------------
(***************************************************************************)
(* The removal of the demo offices, for every set of offices and every     *)
(* bound: it is all or nothing, and it is refused for no other reason than *)
(* the three that PurgeBlockedOnlyBy names.  Then the seeding: the audit   *)
(* trail takes the ids of invoices that wait for their flush, it reads no  *)
(* other id too early, and for this one the seed never commits.            *)
(***************************************************************************)
EXTENDS Seeding, TLAPS

-----------------------------------------------------------------------------
(* The place of each table in PurgeOrder.                                  *)
Place(t) ==
  CASE t = "enforcement_payments" -> 1  [] t = "active_sessions" -> 2
    [] t = "audit_logs" -> 3            [] t = "notifications" -> 4
    [] t = "documents" -> 5             [] t = "client_appointments" -> 6
    [] t = "tasks" -> 7                 [] t = "expenses" -> 8
    [] t = "invoices" -> 9              [] t = "payments" -> 10
    [] t = "powers_of_attorney" -> 11   [] t = "appeal_reminders" -> 12
    [] t = "judgments" -> 13            [] t = "sessions" -> 14
    [] t = "case_notes" -> 15           [] t = "enforcement_files" -> 16
    [] t = "cases" -> 17                [] t = "client_documents" -> 18
    [] t = "member_invites" -> 19       [] t = "legal_templates" -> 20
    [] t = "clients" -> 21              [] t = "users" -> 22
    [] t = "offices" -> 23

(* PurgeOrder has 23 entries, the last of them the offices.                *)
LEMMA PurgeLength == Len(PurgeOrder) = 23 /\ PurgeOrder[23] = "offices"
  BY DEF PurgeOrder

(* Each entry of PurgeOrder stands at its place.                           *)
LEMMA PlaceOfEntry == \A n \in 1 .. 23 : Place(PurgeOrder[n]) = n
  BY DEF PurgeOrder, Place

(* The places, one by one.                                                 *)
LEMMA Places ==
  /\ Place("enforcement_payments") = 1 /\ PurgeOrder[1] = "enforcement_payments"
  /\ Place("active_sessions") = 2 /\ PurgeOrder[2] = "active_sessions"
  /\ Place("audit_logs") = 3 /\ PurgeOrder[3] = "audit_logs"
  /\ Place("notifications") = 4 /\ PurgeOrder[4] = "notifications"
  /\ Place("documents") = 5 /\ PurgeOrder[5] = "documents"
  /\ Place("client_appointments") = 6 /\ PurgeOrder[6] = "client_appointments"
  /\ Place("tasks") = 7 /\ PurgeOrder[7] = "tasks"
  /\ Place("expenses") = 8 /\ PurgeOrder[8] = "expenses"
  /\ Place("invoices") = 9 /\ PurgeOrder[9] = "invoices"
  /\ Place("payments") = 10 /\ PurgeOrder[10] = "payments"
  /\ Place("powers_of_attorney") = 11 /\ PurgeOrder[11] = "powers_of_attorney"
  /\ Place("appeal_reminders") = 12 /\ PurgeOrder[12] = "appeal_reminders"
  /\ Place("judgments") = 13 /\ PurgeOrder[13] = "judgments"
  /\ Place("sessions") = 14 /\ PurgeOrder[14] = "sessions"
  /\ Place("case_notes") = 15 /\ PurgeOrder[15] = "case_notes"
  /\ Place("enforcement_files") = 16 /\ PurgeOrder[16] = "enforcement_files"
  /\ Place("cases") = 17 /\ PurgeOrder[17] = "cases"
  /\ Place("client_documents") = 18 /\ PurgeOrder[18] = "client_documents"
  /\ Place("member_invites") = 19 /\ PurgeOrder[19] = "member_invites"
  /\ Place("legal_templates") = 20 /\ PurgeOrder[20] = "legal_templates"
  /\ Place("clients") = 21 /\ PurgeOrder[21] = "clients"
  /\ Place("users") = 22 /\ PurgeOrder[22] = "users"
  /\ Place("offices") = 23 /\ PurgeOrder[23] = "offices"
  BY DEF Place, PurgeOrder

(* The DELETEs are of tables of the schema.                                *)
LEMMA PurgeTables == \A n \in 1 .. 23 : PurgeOrder[n] \in Tables
<1>1. \A t \in {"legal_templates", "users", "audit_logs"} : <<t, "offices">> \in ForeignKeys
  BY DEF ForeignKeys, AccountKeys
<1>2. \A t \in {"clients", "documents", "member_invites", "notifications"} : <<t, "offices">> \in ForeignKeys
  BY DEF ForeignKeys, ClientKeys
<1>3. \A t \in {"cases", "client_appointments", "client_documents", "case_notes"} : <<t, "offices">> \in ForeignKeys
  BY DEF ForeignKeys, CaseKeys
<1>4. \A t \in {"expenses", "invoices", "payments", "judgments"} : <<t, "offices">> \in ForeignKeys
  BY DEF ForeignKeys, BookKeys
<1>5. \A t \in {"powers_of_attorney", "sessions", "tasks", "appeal_reminders", "enforcement_files"} :
        <<t, "offices">> \in ForeignKeys
  BY DEF ForeignKeys, WorkKeys
<1>6. /\ <<"active_sessions", "users">> \in ForeignKeys
      /\ <<"enforcement_payments", "enforcement_files">> \in ForeignKeys
  BY DEF ForeignKeys, AccountKeys, WorkKeys
<1>7. \A t, p : <<t, p>> \in ForeignKeys => t \in Tables
  BY DEF Tables
<1>8. "offices" \in Tables
  BY DEF Tables
<1> QED BY <1>1, <1>2, <1>3, <1>4, <1>5, <1>6, <1>7, <1>8 DEF PurgeOrder

(* A foreign key that is always set leads to a table deleted later.        *)
LEMMA ChildrenFirst ==
  ASSUME NEW c, NEW p, <<c, p>> \in ForeignKeys, <<c, p>> \notin Optional
  PROVE  /\ Place(c) \in 1 .. 23 /\ Place(p) \in 1 .. 23
         /\ Place(c) < Place(p)
         /\ PurgeOrder[Place(c)] = c
<1>1. CASE <<c, p>> \in AccountKeys
  BY <1>1, Places DEF AccountKeys
<1>2. CASE <<c, p>> \in ClientKeys
  BY <1>2, Places DEF ClientKeys
<1>3. CASE <<c, p>> \in CaseKeys
  BY <1>3, Places DEF CaseKeys
<1>4. CASE <<c, p>> \in BookKeys
  BY <1>4, Places DEF BookKeys
<1>5. CASE <<c, p>> \in WorkKeys
  BY <1>5, Places DEF WorkKeys, Optional
<1> QED BY <1>1, <1>2, <1>3, <1>4, <1>5 DEF ForeignKeys

(* Every table but offices has a foreign key to its owner, always set.     *)
LEMMA OwnerKey ==
  ASSUME NEW t \in Tables, t # "offices"
  PROVE  <<t, Owner(t)>> \in ForeignKeys \ Optional
<1>1. PICK k \in ForeignKeys : t = k[1]
  BY DEF Tables
<1>2. CASE k \in AccountKeys
  BY <1>1, <1>2 DEF AccountKeys, Owner, ForeignKeys, Optional
<1>3. CASE k \in ClientKeys
  BY <1>1, <1>3 DEF ClientKeys, Owner, ForeignKeys, Optional
<1>4. CASE k \in CaseKeys
  BY <1>1, <1>4 DEF CaseKeys, Owner, ForeignKeys, Optional
<1>5. CASE k \in BookKeys
  BY <1>1, <1>5 DEF BookKeys, Owner, ForeignKeys, Optional
<1>6. CASE k \in WorkKeys
  BY <1>1, <1>6 DEF WorkKeys, Owner, ForeignKeys, Optional
<1> QED BY <1>1, <1>2, <1>3, <1>4, <1>5, <1>6 DEF ForeignKeys

(* A foreign key leads from a table of the schema to another.              *)
LEMMA KeyTables == \A k \in ForeignKeys : k = <<k[1], k[2]>> /\ k[1] \in Tables /\ k[2] \in Tables
<1> TAKE k \in ForeignKeys
<1>1. k = <<k[1], k[2]>>
  BY DEF ForeignKeys, AccountKeys, ClientKeys, CaseKeys, BookKeys, WorkKeys
<1>2. k[1] \in Tables
  BY DEF Tables
<1>3. k[2] = "offices" \/ k[2] \in {q[1] : q \in ForeignKeys}
  <2>1. /\ <<"users", "offices">> \in ForeignKeys
        /\ <<"clients", "offices">> \in ForeignKeys
        /\ <<"cases", "offices">> \in ForeignKeys
        /\ <<"judgments", "offices">> \in ForeignKeys
        /\ <<"enforcement_files", "offices">> \in ForeignKeys
    BY DEF ForeignKeys, AccountKeys, ClientKeys, CaseKeys, BookKeys, WorkKeys
  <2>2. k[2] \in {"offices", "users", "clients", "cases", "judgments", "enforcement_files"}
    BY DEF ForeignKeys, AccountKeys, ClientKeys, CaseKeys, BookKeys, WorkKeys
  <2> QED BY <2>1, <2>2
<1> QED BY <1>1, <1>2, <1>3 DEF Tables

-----------------------------------------------------------------------------
(* A row hangs on its owner, a row of the same office that is not younger. *)
Owned(r) ==
  \/ r.table = "offices" /\ r.gen = 0
  \/ r.table # "offices" /\ \E p \in rows : /\ <<r, p>> \in refs
                                            /\ p.table = Owner(r.table)
                                            /\ p.office = r.office
                                            /\ p.gen <= r.gen

(* What the foreign keys and the handlers keep of the committed rows.      *)
Graph ==
  /\ rows \subseteq [office : Offices, table : Tables, gen : Nat]
  /\ refs \subseteq rows \X rows
  /\ \A k \in refs :
       /\ <<k[1].table, k[2].table>> \in ForeignKeys
       /\ k[1].table \in {"active_sessions", "enforcement_payments"} => k[1].office = k[2].office
  /\ \A r \in rows : Owned(r) /\ r.gen <= writes
  /\ writes \in Nat /\ began \in Nat /\ began <= writes

(* What is deleted and not committed is closed under children, and of the  *)
(* offices read.                                                           *)
Deleting ==
  /\ gone \subseteq rows
  /\ phase # "purge" => gone = {}
  /\ \A k \in refs : k[2] \in gone => k[1] \in gone
  /\ \A r \in gone \cup userIds \cup fileIds : r.office \in found

(* What was there when the ids were read is deleted table by table.        *)
Old(r) == r.office \in found /\ r.gen <= began
Progress ==
  phase = "purge" =>
    /\ step \in 1 .. 24
    /\ \A r \in rows : Old(r) =>
         /\ r.table = "users" => r \in userIds
         /\ r.table = "enforcement_files" => r \in fileIds
         /\ \A n \in 1 .. 23 : n < step /\ r.table = PurgeOrder[n] => r \in gone

IInv == Graph /\ Deleting /\ Progress /\ PurgeBlockedOnlyBy

(* Initially every table has one row per office, with its keys set.        *)
LEMMA InitIInv == Init => IInv
<1> SUFFICES ASSUME Init PROVE IInv
  OBVIOUS
<1>1. PICK linked \in SUBSET Offices :
        refs = {<<First(k[1], k[2][1]), First(k[1], k[2][2])>> :
                  k \in (Offices \X ForeignKeys) \ ((Offices \ linked) \X Optional)}
  BY DEF Init
<1>2. rows = {First(o, t) : o \in Offices, t \in Tables}
  BY DEF Init
<1>3. \A o \in Offices, k \in ForeignKeys \ Optional : <<First(o, k[1]), First(o, k[2])>> \in refs
  <2> TAKE o \in Offices, k \in ForeignKeys \ Optional
  <2>1. <<o, k>> \in (Offices \X ForeignKeys) \ ((Offices \ linked) \X Optional)
    OBVIOUS
  <2> QED BY <2>1, <1>1
<1>4. \A k \in ForeignKeys : k = <<k[1], k[2]>> /\ k[1] \in Tables /\ k[2] \in Tables
  BY KeyTables
<1>5. \A r \in rows : r \in [office : Offices, table : Tables, gen : Nat] /\ r.gen = 0
  BY <1>2 DEF First
<1>6. \A k \in refs : /\ k \in rows \X rows
                      /\ <<k[1].table, k[2].table>> \in ForeignKeys
                      /\ k[1].office = k[2].office
  <2> TAKE k \in refs
  <2>1. PICK o \in Offices, q \in ForeignKeys : k = <<First(o, q[1]), First(o, q[2])>>
    BY <1>1
  <2> QED BY <2>1, <1>2, <1>4 DEF First
<1>7. ASSUME NEW r \in rows PROVE Owned(r)
  <2>1. PICK o \in Offices, t \in Tables : r = First(o, t)
    BY <1>2
  <2>2. CASE t = "offices"
    BY <2>1, <2>2 DEF Owned, First
  <2>3. CASE t # "offices"
    <3>1. <<t, Owner(t)>> \in ForeignKeys \ Optional
      BY <2>3, OwnerKey
    <3>2. <<r, First(o, Owner(t))>> \in refs /\ First(o, Owner(t)) \in rows
      BY <3>1, <1>3, <1>4, <1>2, <2>1
    <3> QED BY <2>1, <2>3, <3>2 DEF Owned, First
  <2> QED BY <2>2, <2>3
<1>8. Graph
  <2>1. writes = 0 /\ began = 0
    BY DEF Init
  <2>2. rows \subseteq [office : Offices, table : Tables, gen : Nat]
    BY <1>5
  <2>3. refs \subseteq rows \X rows
    BY <1>6
  <2>4. \A r \in rows : Owned(r) /\ r.gen <= writes
    BY <2>1, <1>5, <1>7
  <2> QED BY <2>1, <2>2, <2>3, <2>4, <1>6 DEF Graph
<1> QED BY <1>8 DEF IInv, Deleting, Progress, PurgeBlockedOnlyBy, Init

-----------------------------------------------------------------------------
(* A committed insert: the new row is younger than all, and what it names  *)
(* is committed and not deleted.                                           *)
LEMMA InsertIInv ==
  ASSUME IInv, NEW o \in Offices, NEW c \in Offices, NEW t \in Tables \ {"offices"},
         t \in {"active_sessions", "enforcement_payments"} => c = o,
         NEW unset \in {{}, {"judgments"}},
         Insert(o, c, t, unset)
  PROVE  IInv'
<1>1. PICK g \in [Parents(t) -> 0 .. writes] :
        LET new   == [office |-> o, table |-> t, gen |-> writes + 1]
            named == {[office |-> IF p \in {"offices", "users"} THEN o ELSE c, table |-> p, gen |-> g[p]] :
                         p \in Parents(t) \ unset}
        IN  /\ named \subseteq rows \ gone
            /\ writes' = writes + 1
            /\ rows' = rows \cup {new}
            /\ refs' = refs \cup ({new} \X named)
            /\ UNCHANGED <<bar, program>>
  BY DEF Insert
<1>0. PICK new : new = [office |-> o, table |-> t, gen |-> writes + 1]
  OBVIOUS
<1> DEFINE row(p) == [office |-> IF p \in {"offices", "users"} THEN o ELSE c, table |-> p, gen |-> g[p]]
           named == {row(p) : p \in Parents(t) \ unset}
<1>2. /\ named \subseteq rows \ gone
      /\ writes' = writes + 1
      /\ rows' = rows \cup {new}
      /\ refs' = refs \cup ({new} \X named)
  BY <1>0, <1>1
<1>3. UNCHANGED <<phase, step, found, userIds, fileIds, gone, began>>
  BY <1>1 DEF program
<1>4. writes \in Nat /\ began \in Nat /\ began <= writes
  BY DEF IInv, Graph
<1>5. new.table = t /\ new.office = o /\ new.gen = writes + 1 /\ new \notin rows
  BY <1>0, <1>4 DEF IInv, Graph
<1>6. \A q \in named : <<t, q.table>> \in ForeignKeys
  <2> TAKE q \in named
  <2>1. PICK p \in Parents(t) \ unset : q = row(p)
    OBVIOUS
  <2>2. q.table = p
    BY <2>1
  <2> QED BY <2>2 DEF Parents
<1>7. Owner(t) \in Parents(t) \ unset /\ row(Owner(t)) \in named
  <2>1. <<t, Owner(t)>> \in ForeignKeys
    BY OwnerKey
  <2>2. Owner(t) \in {"users", "enforcement_files", "offices"}
    BY DEF Owner
  <2>3. Owner(t) \in Tables
    <3>1. <<"users", "offices">> \in ForeignKeys /\ <<"enforcement_files", "offices">> \in ForeignKeys
      BY DEF ForeignKeys, AccountKeys, WorkKeys
    <3> QED BY <2>2, <3>1 DEF Tables
  <2> QED BY <2>1, <2>2, <2>3 DEF Parents
<1>8. row(Owner(t)).office = o
  <2>1. Owner(t) \in {"offices", "users"} \/ c = o
    BY DEF Owner
  <2> QED BY <2>1
<1>9. Owned(new)'
  <2>1. <<new, row(Owner(t))>> \in refs'
    BY <1>2, <1>7
  <2>2. row(Owner(t)) \in rows'
    BY <1>2, <1>7
  <2>3. g[Owner(t)] \in 0 .. writes
    BY <1>7
  <2>4. /\ row(Owner(t)).table = Owner(new.table)
        /\ row(Owner(t)).office = new.office
        /\ row(Owner(t)).gen <= new.gen
    BY <2>3, <1>4, <1>5, <1>8
  <2>5. new.table # "offices"
    BY <1>5
  <2> HIDE DEF row
  <2> QED BY <2>1, <2>2, <2>4, <2>5 DEF Owned
<1>10. \A r \in rows : Owned(r)'
  BY <1>2 DEF IInv, Graph, Owned
<1>11. \A q \in named : t \in {"active_sessions", "enforcement_payments"} => q.office = o
  OBVIOUS
<1>12. Graph'
  <2>1. rows' \subseteq [office : Offices, table : Tables, gen : Nat]
    BY <1>0, <1>2, <1>4 DEF IInv, Graph
  <2>2. refs' \subseteq rows' \X rows'
    BY <1>2 DEF IInv, Graph
  <2>3. \A k \in refs' :
          /\ <<k[1].table, k[2].table>> \in ForeignKeys
          /\ k[1].table \in {"active_sessions", "enforcement_payments"} => k[1].office = k[2].office
    <3> TAKE k \in refs'
    <3>1. CASE k \in refs
      BY <3>1 DEF IInv, Graph
    <3>2. CASE k \in {new} \X named
      <4>1. k[1] = new /\ k[2] \in named
        BY <3>2
      <4>2. k[1].table = t /\ k[1].office = o
        BY <4>1, <1>5
      <4> QED BY <4>1, <4>2, <1>6, <1>11
    <3> QED BY <3>1, <3>2, <1>2
  <2>4. \A r \in rows' : Owned(r)' /\ r.gen <= writes'
    BY <1>2, <1>4, <1>5, <1>9, <1>10 DEF IInv, Graph
  <2> QED BY <2>1, <2>2, <2>3, <2>4, <1>2, <1>3, <1>4 DEF Graph
<1>13. Deleting'
  <2>1. gone \subseteq rows'
    BY <1>2 DEF IInv, Deleting
  <2>2. \A k \in refs' : k[2] \in gone => k[1] \in gone
    BY <1>2, <1>5 DEF IInv, Deleting
  <2> QED BY <2>1, <2>2, <1>3 DEF IInv, Deleting
<1>14. Progress'
  <2>1. ~Old(new)
    BY <1>4, <1>5 DEF Old
  <2> QED BY <2>1, <1>2, <1>3 DEF IInv, Progress, Old
<1>15. PurgeBlockedOnlyBy'
  BY <1>2, <1>3 DEF IInv, PurgeBlockedOnlyBy
<1> QED BY <1>12, <1>13, <1>14, <1>15 DEF IInv

(* The ids are read: everything of the offices found is still there.       *)
LEMMA RunIInv == IInv /\ run_seed => IInv'
<1> SUFFICES ASSUME IInv, run_seed PROVE IInv'
  OBVIOUS
<1>1. /\ rows' = rows /\ refs' = refs /\ writes' = writes /\ gone' = gone /\ gone = {}
      /\ began' = writes /\ step' = 1 /\ phase' \in {"purge", "seed"}
      /\ found' = Demo
      /\ userIds' = RowsOf("users", Demo)
      /\ fileIds' = RowsOf("enforcement_files", Demo)
  BY DEF run_seed, data, IInv, Deleting, Ended
<1>2. Graph'
  <2>1. \A r \in rows : Owned(r)'
    BY <1>1 DEF IInv, Graph, Owned
  <2>2. writes \in Nat /\ writes <= writes
    BY DEF IInv, Graph
  <2> QED BY <1>1, <2>1, <2>2 DEF IInv, Graph
<1>3. Deleting'
  BY <1>1 DEF Deleting, RowsOf
<1>4. Progress'
  <2>1. \A n \in 1 .. 23 : ~(n < 1)
    OBVIOUS
  <2> QED BY <1>1, <2>1 DEF Progress, Old, RowsOf
<1> QED BY <1>1, <1>2, <1>3, <1>4 DEF IInv, PurgeBlockedOnlyBy

(* What a DELETE selects has its table and an office read, and is all that *)
(* is left of the old rows of that table.                                  *)
LEMMA DoomedRows ==
  ASSUME IInv, phase = "purge", NEW t \in Tables
  PROVE  /\ \A r \in Doomed(t) : r \in rows /\ r.table = t /\ r.office \in found
         /\ \A r \in rows : r.table = t /\ Old(r) => r \in gone \cup Doomed(t)
<1>1. ASSUME NEW r \in Doomed(t) PROVE r \in rows /\ r.table = t /\ r.office \in found
  <2>1. r \in rows /\ r.table = t
    BY DEF Doomed
  <2>2. CASE t \in {"enforcement_payments", "active_sessions"}
    <3>1. PICK p \in fileIds \cup userIds : <<r, p>> \in refs
      BY <2>2 DEF Doomed
    <3>2. <<r, p>>[1].office = <<r, p>>[2].office
      BY <2>1, <2>2, <3>1 DEF IInv, Graph
    <3> QED BY <2>1, <3>1, <3>2 DEF IInv, Deleting
  <2>3. CASE t \notin {"enforcement_payments", "active_sessions"}
    BY <2>1, <2>3 DEF Doomed
  <2> QED BY <2>2, <2>3
<1>2. ASSUME NEW r \in rows, r.table = t, Old(r), r \notin gone PROVE r \in Doomed(t)
  <2>1. CASE t \notin {"enforcement_payments", "active_sessions"}
    BY <1>2, <2>1 DEF Doomed, Old
  <2>2. CASE t \in {"enforcement_payments", "active_sessions"}
    <3>1. PICK p \in rows : /\ <<r, p>> \in refs /\ p.table = Owner(t)
                            /\ p.office = r.office /\ p.gen <= r.gen
      BY <1>2, <2>2 DEF IInv, Graph, Owned
    <3>2. r.gen \in Nat /\ p.gen \in Nat /\ began \in Nat
      BY DEF IInv, Graph
    <3>3. Old(p)
      BY <1>2, <3>1, <3>2 DEF Old
    <3>4. /\ t = "active_sessions" => p \in userIds
          /\ t = "enforcement_payments" => p \in fileIds
      BY <3>1, <3>3 DEF IInv, Progress, Owner
    <3> QED BY <1>2, <2>2, <3>1, <3>4 DEF Doomed
  <2> QED BY <2>1, <2>2
<1> QED BY <1>1, <1>2

(* A DELETE goes through with no orphan, or it is refused for one of the   *)
(* three reasons: old rows of these offices that could be orphans are gone.*)
LEMMA DeleteIInv == IInv /\ PurgeDelete => IInv'
<1> SUFFICES ASSUME IInv, PurgeDelete PROVE IInv'
  OBVIOUS
<1> DEFINE t == PurgeOrder[step]
           D == Doomed(t)
<1>1. phase = "purge" /\ step \in 1 .. 23
  BY PurgeLength DEF PurgeDelete, IInv, Progress
<1>2. t \in Tables /\ Place(t) = step
  <2>1. \A n \in 1 .. 23 : PurgeOrder[n] \in Tables
    BY PurgeTables
  <2> QED BY <1>1, <2>1, PlaceOfEntry
<1>3. /\ \A r \in D : r \in rows /\ r.table = t /\ r.office \in found
      /\ \A r \in rows : r.table = t /\ Old(r) => r \in gone \cup D
  BY <1>1, <1>2, DoomedRows
<1>4. UNCHANGED <<rows, refs, writes, began, found, userIds, fileIds>>
  BY DEF PurgeDelete, data
<1>5. Graph'
  BY <1>4 DEF IInv, Graph, Owned
<1>6. CASE Orphans(D) = {}
  <2>1. gone' = gone \cup D /\ step' = step + 1 /\ phase' = "purge"
    BY <1>1, <1>6 DEF PurgeDelete
  <2>2. \A k \in refs : k[2] \in gone' => k[1] \in gone'
    BY <1>6, <2>1 DEF Orphans, IInv, Deleting
  <2>3. Deleting'
    BY <1>3, <1>4, <2>1, <2>2 DEF IInv, Deleting
  <2>4. Progress'
    <3> SUFFICES ASSUME NEW r \in rows, Old(r), NEW n \in 1 .. 23, n < step + 1, r.table = PurgeOrder[n]
                 PROVE  r \in gone \cup D
      BY <1>1, <1>4, <2>1 DEF IInv, Progress, Old
    <3>1. CASE n = step
      BY <1>3, <3>1
    <3>2. CASE n # step
      BY <1>1, <3>2 DEF IInv, Progress
    <3> QED BY <3>1, <3>2
  <2> QED BY <1>5, <2>1, <2>3, <2>4 DEF IInv, PurgeBlockedOnlyBy
<1>7. CASE Orphans(D) # {}
  <2>1. gone' = {} /\ phase' = "blocked"
    BY <1>7 DEF PurgeDelete
  <2>2. PICK k \in refs : k[2] \in D /\ k[1] \notin gone \cup D
    BY <1>7 DEF Orphans
  <2>3. k[1] \in rows /\ k[2].office \in found /\ k[2].table = t
    BY <1>3, <2>2 DEF IInv, Graph
  <2>4. <<k[1].table, k[2].table>> \in Optional \/ ~Old(k[1])
    <3> SUFFICES ASSUME <<k[1].table, k[2].table>> \notin Optional, Old(k[1]) PROVE FALSE
      OBVIOUS
    <3>1. <<k[1].table, t>> \in ForeignKeys
      BY <2>3 DEF IInv, Graph
    <3>2. /\ Place(k[1].table) \in 1 .. 23
          /\ Place(k[1].table) < step
          /\ PurgeOrder[Place(k[1].table)] = k[1].table
      BY <1>2, <2>3, <3>1, ChildrenFirst
    <3>3. k[1] \in gone
      BY <1>1, <2>3, <3>2 DEF IInv, Progress
    <3> QED BY <2>2, <3>3
  <2>5. k[1].gen \in Nat /\ began \in Nat
    BY <2>3 DEF IInv, Graph
  <2>6. PurgeBlockedOnlyBy'
    <3>1. \/ <<k[1].table, k[2].table>> \in Optional
          \/ k[1].office \notin found
          \/ k[1].gen > began
      BY <2>4, <2>5 DEF Old
    <3> QED BY <1>4, <2>3, <3>1 DEF PurgeBlockedOnlyBy
  <2> QED BY <1>4, <1>5, <2>1, <2>6 DEF IInv, Deleting, Progress
<1> QED BY <1>6, <1>7

(* When the DELETEs are through, the rows of the offices are all deleted:  *)
(* an office's row is, so what hangs on it is, owner by owner.             *)
LEMMA AllGone ==
  ASSUME IInv, phase = "purge", step > 23
  PROVE  gone = {r \in rows : r.office \in found}
<1>1. step = 24 /\ began \in Nat /\ \A k \in refs : k[2] \in gone => k[1] \in gone
  BY DEF IInv, Progress, Graph, Deleting
<1>2. ASSUME NEW r \in rows, r.table = "offices", r.office \in found PROVE r \in gone
  <2>1. Old(r)
    BY <1>1, <1>2 DEF IInv, Graph, Owned, Old
  <2> QED BY <1>1, <1>2, <2>1, PurgeLength DEF IInv, Progress
<1>3. ASSUME NEW r \in rows, r.table # "offices", Owner(r.table) = "offices", r.office \in found
      PROVE  r \in gone
  <2>1. PICK p \in rows : <<r, p>> \in refs /\ p.table = "offices" /\ p.office = r.office
    BY <1>3 DEF IInv, Graph, Owned
  <2>2. <<r, p>>[2] \in gone
    BY <1>2, <1>3, <2>1
  <2> QED BY <1>1, <2>1, <2>2
<1>4. ASSUME NEW r \in rows, r.table # "offices", Owner(r.table) # "offices", r.office \in found
      PROVE  r \in gone
  <2>1. PICK p \in rows : <<r, p>> \in refs /\ p.table = Owner(r.table) /\ p.office = r.office
    BY <1>4 DEF IInv, Graph, Owned
  <2>2. p.table # "offices" /\ Owner(p.table) = "offices"
    BY <1>4, <2>1 DEF Owner
  <2>3. <<r, p>>[2] \in gone
    BY <1>3, <1>4, <2>1, <2>2
  <2> QED BY <1>1, <2>1, <2>3
<1> QED BY <1>2, <1>3, <1>4 DEF IInv, Deleting

(* What is left after the commit refers to nothing that went.              *)
LEMMA CommitIInv == IInv /\ PurgeCommit => IInv'
<1> SUFFICES ASSUME IInv, PurgeCommit PROVE IInv'
  OBVIOUS
<1>1. /\ rows' = {r \in rows : r \notin gone} /\ refs' = {k \in refs : k[1] \notin gone}
      /\ gone' = {} /\ phase' = "seed"
      /\ UNCHANGED <<writes, found, userIds, fileIds, began>>
  BY DEF PurgeCommit
<1>2. refs' \subseteq rows' \X rows'
  BY <1>1 DEF IInv, Graph, Deleting
<1>3. ASSUME NEW r \in rows' PROVE Owned(r)'
  <2>1. r \in rows /\ r \notin gone /\ Owned(r)
    BY <1>1 DEF IInv, Graph
  <2>2. CASE r.table = "offices"
    BY <2>1, <2>2 DEF Owned
  <2>3. CASE r.table # "offices"
    <3>1. PICK p \in rows : /\ <<r, p>> \in refs /\ p.table = Owner(r.table)
                            /\ p.office = r.office /\ p.gen <= r.gen
      BY <2>1, <2>3 DEF Owned
    <3>2. <<r, p>> \in refs'
      BY <1>1, <2>1, <3>1
    <3>3. p \in rows'
      BY <1>2, <3>2
    <3> QED BY <2>3, <3>1, <3>2, <3>3 DEF Owned
  <2> QED BY <2>2, <2>3
<1>4. Graph'
  BY <1>1, <1>2, <1>3 DEF IInv, Graph
<1>5. Deleting'
  BY <1>1 DEF IInv, Deleting
<1> QED BY <1>1, <1>4, <1>5 DEF IInv, Progress, PurgeBlockedOnlyBy

(* Steps that leave the rows alone and end the program or go on seeding.   *)
LEMMA ElseIInv ==
  IInv /\ (SeedStep \/ Kill \/ (\E o \in Offices, b \in Bars : update_office(o, b))) => IInv'
<1>1. ASSUME IInv, SeedStep \/ Kill PROVE IInv'
  <2>1. /\ UNCHANGED <<rows, refs, writes, began, found, userIds, fileIds>>
        /\ phase' \in {"seed", "unseeded", "done", "killed"}
        /\ gone' = {}
    BY <1>1 DEF SeedStep, Kill, data, IInv, Deleting
  <2>2. Graph'
    BY <1>1, <2>1 DEF IInv, Graph, Owned
  <2>3. Deleting'
    BY <1>1, <2>1 DEF IInv, Deleting
  <2> QED BY <2>1, <2>2, <2>3 DEF IInv, Progress, PurgeBlockedOnlyBy
<1>2. ASSUME IInv, NEW o \in Offices, NEW b \in Bars, update_office(o, b) PROVE IInv'
  <2>1. /\ UNCHANGED <<rows, refs, phase, step, gone, began, found, userIds, fileIds>>
        /\ writes' = writes + 1
    BY <1>2 DEF update_office, program
  <2>2. writes \in Nat /\ began \in Nat /\ began <= writes /\ \A r \in rows : r.gen \in Nat /\ r.gen <= writes
    BY <1>2 DEF IInv, Graph
  <2>3. Graph'
    <3>1. \A r \in rows : Owned(r)' /\ r.gen <= writes'
      <4>1. \A r \in rows : Owned(r)'
        BY <1>2, <2>1 DEF IInv, Graph, Owned
      <4>2. \A r \in rows : r.gen <= writes + 1
        BY <2>2
      <4> QED BY <2>1, <4>1, <4>2
    <3>2. writes' \in Nat /\ began' \in Nat /\ began' <= writes'
      BY <2>1, <2>2
    <3> QED BY <1>2, <2>1, <3>1, <3>2 DEF IInv, Graph
  <2>4. Deleting' /\ Progress'
    BY <1>2, <2>1 DEF IInv, Deleting, Progress, Old
  <2> QED BY <1>2, <2>1, <2>3, <2>4 DEF IInv, PurgeBlockedOnlyBy
<1> QED BY <1>1, <1>2

(* The API inserts into tables of the schema.                              *)
LEMMA ApiTables ==
  /\ {"cases", "judgments", "payments", "enforcement_files", "enforcement_payments", "users",
      "active_sessions", "audit_logs"} \subseteq Tables \ {"offices"}
<1>1. /\ <<"cases", "offices">> \in ForeignKeys /\ <<"judgments", "offices">> \in ForeignKeys
      /\ <<"payments", "offices">> \in ForeignKeys /\ <<"enforcement_files", "offices">> \in ForeignKeys
      /\ <<"enforcement_payments", "enforcement_files">> \in ForeignKeys
      /\ <<"users", "offices">> \in ForeignKeys /\ <<"active_sessions", "users">> \in ForeignKeys
      /\ <<"audit_logs", "offices">> \in ForeignKeys
  BY DEF ForeignKeys, AccountKeys, CaseKeys, BookKeys, WorkKeys
<1> QED BY <1>1 DEF Tables

(* IInv is inductive.                                                      *)
LEMMA StepIInv == IInv /\ [Next]_vars => IInv'
<1> SUFFICES ASSUME IInv, [Next]_vars PROVE IInv'
  OBVIOUS
<1>1. CASE run_seed
  BY <1>1, RunIInv
<1>2. CASE PurgeDelete
  BY <1>2, DeleteIInv
<1>3. CASE PurgeCommit
  BY <1>3, CommitIInv
<1>4. CASE SeedStep \/ Kill \/ \E o \in Offices, b \in Bars : update_office(o, b)
  BY <1>4, ElseIInv
<1>5. ASSUME NEW o \in Offices, NEW c \in Offices, NEW unset \in {{}, {"judgments"}},
             \/ Insert(o, c, "cases", {}) \/ Insert(o, c, "judgments", {})
             \/ Insert(o, c, "payments", {}) \/ Insert(o, c, "enforcement_files", unset)
      PROVE  IInv'
  BY <1>5, ApiTables, InsertIInv
<1>6. ASSUME NEW o \in Offices,
             \/ Insert(o, o, "enforcement_payments", {}) \/ Insert(o, o, "users", {})
             \/ Insert(o, o, "active_sessions", {}) \/ Insert(o, o, "audit_logs", {})
      PROVE  IInv'
  BY <1>6, ApiTables, InsertIInv
<1>7. CASE UNCHANGED vars
  BY <1>7 DEF vars, data, program, IInv, Graph, Owned, Deleting, Progress, Old, PurgeBlockedOnlyBy
<1> QED BY <1>1, <1>2, <1>3, <1>4, <1>5, <1>6, <1>7
        DEF Next, create_case, create_judgment, create_payment, create_enforcement_file,
            add_payment, accept_invite, login, write_audit_log

-----------------------------------------------------------------------------
(* A purge is refused for no other reason than those three.                *)
THEOREM BlockedTheorem == Spec => []PurgeBlockedOnlyBy
<1>1. IInv => PurgeBlockedOnlyBy
  BY DEF IInv
<1> QED BY <1>1, InitIInv, StepIInv, PTL DEF Spec

(* Only the commit of a purge removes rows, and it removes all the rows of *)
(* the offices read and no others.                                         *)
LEMMA RowsLost ==
  IInv /\ [Next]_vars => (rows \ rows' # {} => rows \ rows' = {r \in rows : r.office \in found})
<1> SUFFICES ASSUME IInv, [Next]_vars, rows \ rows' # {}
             PROVE  rows \ rows' = {r \in rows : r.office \in found}
  OBVIOUS
<1>1. CASE PurgeCommit
  <2>1. gone = {r \in rows : r.office \in found}
    BY <1>1, AllGone, PurgeLength DEF PurgeCommit
  <2>2. rows' = {r \in rows : r \notin gone}
    BY <1>1 DEF PurgeCommit
  <2> QED BY <2>1, <2>2
<1>2. CASE ~PurgeCommit
  <2>1. rows \subseteq rows'
    BY <1>2 DEF Next, vars, data, run_seed, PurgeDelete, SeedStep, Kill, update_office, Insert,
                create_case, create_judgment, create_payment, create_enforcement_file,
                add_payment, accept_invite, login, write_audit_log
  <2> QED BY <2>1
<1> QED BY <1>1, <1>2

(* The removal of the demo offices is all or nothing.                      *)
THEOREM PurgeTheorem == Spec => PurgeAllOrNothing
BY InitIInv, StepIInv, RowsLost, PTL DEF Spec, PurgeAllOrNothing

-----------------------------------------------------------------------------
(* The tables the seed flushes as soon as it has added rows to them, and   *)
(* what is then true of every group: it reads ids of such tables only,     *)
(* except the invoice's that the audit trail takes.                        *)
FlushedTables ==
  {"offices", "users", "clients", "cases", "sessions", "judgments", "enforcement_files"}
Group ==
  {g \in [table : Tables, reads : SUBSET Tables, flush : BOOLEAN] :
     /\ g.table \in FlushedTables => g.flush
     /\ g.reads \subseteq FlushedTables \cup (IF g.table = "audit_logs" THEN {"invoices"} ELSE {})}

(* All tables of the schema, by name.                                      *)
LEMMA TableNames ==
  {"offices", "users", "active_sessions", "clients", "client_documents", "cases", "case_notes",
   "sessions", "judgments", "appeal_reminders", "enforcement_files", "enforcement_payments",
   "powers_of_attorney", "payments", "invoices", "expenses", "tasks", "client_appointments",
   "documents", "notifications", "audit_logs", "legal_templates", "member_invites"} \subseteq Tables
BY Places, PurgeTables

LEMMA TemplateShape == TemplateGroup \in Seq(Group)
<1>1. Added("legal_templates", {}) \in Group
  BY TableNames DEF Added, Group, FlushedTables
<1> QED BY <1>1 DEF TemplateGroup

LEMMA AccountShape == AccountGroups \in Seq(Group)
<1>1. Flushed("offices", {}) \in Group /\ Flushed("users", {"offices"}) \in Group
  BY TableNames DEF Flushed, Group, FlushedTables
<1>2. Added("active_sessions", {"users"}) \in Group
  BY TableNames DEF Added, Group, FlushedTables
<1> QED BY <1>1, <1>2 DEF AccountGroups

LEMMA ClientShape == ClientGroups \in Seq(Group)
<1>1. Flushed("clients", {"offices", "users"}) \in Group
  BY TableNames DEF Flushed, Group, FlushedTables
<1>2. Added("client_documents", {"offices", "users", "clients"}) \in Group
  BY TableNames DEF Added, Group, FlushedTables
<1> QED BY <1>1, <1>2 DEF ClientGroups

LEMMA CaseShape == CaseGroups \in Seq(Group)
<1>1. Flushed("cases", {"offices", "users", "clients"}) \in Group
  BY TableNames DEF Flushed, Group, FlushedTables
<1>2. Added("case_notes", {"offices", "users", "cases"}) \in Group
  BY TableNames DEF Added, Group, FlushedTables
<1> QED BY <1>1, <1>2 DEF CaseGroups

LEMMA HearingShape == HearingGroups \in Seq(Group)
<1>1. /\ Flushed("sessions", {"offices", "users", "cases"}) \in Group
      /\ Flushed("judgments", {"offices", "users", "cases"}) \in Group
  BY TableNames DEF Flushed, Group, FlushedTables
<1>2. Added("appeal_reminders", {"offices", "judgments"}) \in Group
  BY TableNames DEF Added, Group, FlushedTables
<1> QED BY <1>1, <1>2 DEF HearingGroups

LEMMA EnforcementShape == EnforcementGroups \in Seq(Group)
<1>1. Flushed("enforcement_files", {"offices", "cases", "judgments"}) \in Group
  BY TableNames DEF Flushed, Group, FlushedTables
<1>2. /\ Added("enforcement_payments", {"enforcement_files"}) \in Group
      /\ Added("powers_of_attorney", {"offices", "users", "clients", "cases"}) \in Group
  BY TableNames DEF Added, Group, FlushedTables
<1> QED BY <1>1, <1>2 DEF EnforcementGroups

LEMMA MoneyShape == MoneyGroups \in Seq(Group)
<1>1. \A t \in {"payments", "invoices", "expenses"} :
        Added(t, {"offices", "users", "clients", "cases"}) \in Group
  BY TableNames DEF Added, Group, FlushedTables
<1> QED BY <1>1 DEF MoneyGroups

LEMMA WorkShape == WorkGroups \in Seq(Group)
<1>1. /\ Added("tasks", {"offices", "users", "cases"}) \in Group
      /\ Added("client_appointments", {"offices", "users", "clients"}) \in Group
  BY TableNames DEF Added, Group, FlushedTables
<1>2. Added("documents", {"offices", "users", "cases", "clients", "sessions"}) \in Group
  BY TableNames DEF Added, Group, FlushedTables
<1> QED BY <1>1, <1>2 DEF WorkGroups

LEMMA TrailShape == TrailGroups \in Seq(Group)
<1>1. Added("notifications", {"offices", "users"}) \in Group
  BY TableNames DEF Added, Group, FlushedTables
<1>2. Added("audit_logs", {"offices", "users", "cases", "invoices"}) \in Group
  BY TableNames DEF Added, Group, FlushedTables
<1> QED BY <1>1, <1>2 DEF TrailGroups

LEMMA InviteShape == InviteGroups \in Seq(Group)
<1>1. Added("legal_templates", {"offices"}) \in Group /\ Added("member_invites", {"offices", "users"}) \in Group
  BY TableNames DEF Added, Group, FlushedTables
<1> QED BY <1>1 DEF InviteGroups

(* Groups of rows one after the other.                                     *)
LEMMA Joined == ASSUME NEW s \in Seq(Group), NEW t \in Seq(Group) PROVE s \o t \in Seq(Group)
OBVIOUS

(* The 47 groups of the seed: between the invoices and the audit trail of  *)
(* the first office nothing is flushed.                                    *)
LEMMA SeedShape ==
  /\ SeedGroups \in Seq(Group) /\ Len(SeedGroups) = 47
  /\ SeedGroups[16].table = "invoices"
  /\ \A n \in 16 .. 22 : ~SeedGroups[n].flush
  /\ "invoices" \in SeedGroups[22].reads
<1>1. OfficeGroups \in Seq(Group)
  BY AccountShape, ClientShape, CaseShape, HearingShape, EnforcementShape, MoneyShape,
     WorkShape, TrailShape, InviteShape, Joined, Zenon DEF OfficeGroups
<1>2. SeedGroups \in Seq(Group)
  BY <1>1, TemplateShape, Joined, Zenon DEF SeedGroups
<1> USE DEF SeedGroups, TemplateGroup, OfficeGroups, AccountGroups, ClientGroups, CaseGroups,
            HearingGroups, EnforcementGroups, MoneyGroups, WorkGroups, TrailGroups, InviteGroups
<1>3. Len(SeedGroups) = 47
  OBVIOUS
<1>4. SeedGroups[16].table = "invoices"
  BY DEF Added
<1>5. ~SeedGroups[16].flush /\ ~SeedGroups[17].flush /\ ~SeedGroups[18].flush /\ ~SeedGroups[19].flush
  BY DEF Added
<1>6. ~SeedGroups[20].flush /\ ~SeedGroups[21].flush /\ ~SeedGroups[22].flush
  BY DEF Added
<1>7. "invoices" \in SeedGroups[22].reads
  BY DEF Added
<1> HIDE DEF SeedGroups
<1>8. \A n \in 16 .. 22 : n = 16 \/ n = 17 \/ n = 18 \/ n = 19 \/ n = 20 \/ n = 21 \/ n = 22
  OBVIOUS
<1> QED BY <1>2, <1>3, <1>4, <1>5, <1>6, <1>7, <1>8

(* The program's next group is one of them.                                *)
LEMMA SeedSteps == 1 .. Len(SeedGroups) = 1 .. 47 /\ \A n \in 1 .. 47 : SeedGroups[n] \in Group
<1>1. Len(SeedGroups) = 47 /\ SeedGroups \in Seq(Group)
  BY SeedShape, Zenon
<1>2. PICK s \in Seq(Group) : s = SeedGroups
  BY <1>1, Zenon
<1>3. \A n \in 1 .. Len(s) : s[n] \in Group
  OBVIOUS
<1> QED BY <1>1, <1>2, <1>3, Zenon

-----------------------------------------------------------------------------
(* No table waits whose ids another group may read, but the invoices; once *)
(* these have been added they wait until the audit trail has read them.    *)
Waiting ==
  /\ pending \cap FlushedTables = {}
  /\ OnlyInvoiceIdUnassigned
  /\ phase = "seed" => /\ step \in 17 .. 22 => "invoices" \in pending
                       /\ step > 22 => missing # {}
                       /\ "invoices" \notin FlushedTables

(* The seed ends at its last group at the latest, and never by success.    *)
NeverSeeded == phase # "done"

SeedInv == TypeOK /\ Waiting /\ NeverSeeded

LEMMA SeedInit == Init => SeedInv
<1> SUFFICES ASSUME Init PROVE SeedInv
  OBVIOUS
<1>1. \A o \in Offices, t \in Tables : First(o, t) \in Row
  BY BoundsAssumption DEF First, Row, Gens
<1>2. rows \subseteq Row
  BY <1>1 DEF Init
<1>3. \A k \in ForeignKeys : k[1] \in Tables /\ k[2] \in Tables
  BY KeyTables
<1>4. refs \subseteq Row \X Row
  BY <1>1, <1>3 DEF Init
<1>5. TypeOK
  <2>1. step \in 1 .. Len(SeedGroups)
    BY SeedSteps DEF Init
  <2>2. began \in Gens /\ writes \in Gens /\ runs \in 0 .. MaxRuns
    BY BoundsAssumption DEF Init, Gens
  <2>3. gone \subseteq rows /\ pending \subseteq Tables /\ missing \subseteq Tables \X Tables
    BY DEF Init
  <2> QED BY <1>2, <1>4, <2>1, <2>2, <2>3 DEF Init, TypeOK, Ended
<1> QED BY <1>5 DEF Init, SeedInv, Waiting, NeverSeeded, OnlyInvoiceIdUnassigned

(* A group reads no id that was not assigned, but the invoice's.           *)
LEMMA GroupStep ==
  ASSUME SeedInv, SeedStep
  PROVE  SeedInv'
<1>0. step \in 1 .. 47
  BY SeedSteps DEF SeedInv, TypeOK
<1>1. PICK g \in Group : g = SeedGroups[step]
  BY <1>0, SeedSteps
<1>2. /\ g.table \in Tables /\ g.reads \subseteq Tables /\ g.flush \in BOOLEAN
      /\ g.table \in FlushedTables => g.flush
      /\ g.reads \subseteq FlushedTables \cup (IF g.table = "audit_logs" THEN {"invoices"} ELSE {})
  BY DEF Group
<1>3. PICK last \in BOOLEAN : last <=> step = Len(SeedGroups)
  OBVIOUS
<1>4. PICK nulls : nulls = missing \cup ({g.table} \X (g.reads \cap pending))
  OBVIOUS
<1>5. PICK occupied \in BOOLEAN :
        occupied <=> g.table = "offices" /\ \E r \in rows : r.table = "offices" /\ bar[r.office] = BarOf(step)
  OBVIOUS
<1>6. PICK refused \in BOOLEAN : refused <=> (g.flush \/ last) /\ (nulls # {} \/ occupied)
  OBVIOUS
<1>7. /\ phase = "seed"
      /\ missing' = nulls
      /\ taken' \in BOOLEAN
      /\ pending' = IF g.flush \/ last THEN {} ELSE pending \cup {g.table}
      /\ phase' = IF refused THEN "unseeded" ELSE IF last THEN "done" ELSE phase
      /\ step' = IF refused \/ last THEN step ELSE step + 1
      /\ UNCHANGED <<data, found, userIds, fileIds, gone, began, runs>>
  BY <1>1, <1>3, <1>4, <1>5, <1>6 DEF SeedStep
<1>8. step \in 1 .. 47 /\ Len(SeedGroups) = 47
  BY <1>0, SeedShape
<1>9. g.reads \cap pending \subseteq IF g.table = "audit_logs" THEN {"invoices"} ELSE {}
  BY <1>2 DEF SeedInv, Waiting
<1>10. OnlyInvoiceIdUnassigned' /\ missing' \subseteq Tables \X Tables
  <2>1. {g.table} \X (g.reads \cap pending) \subseteq {<<"audit_logs", "invoices">>}
    BY <1>9
  <2>2. missing \subseteq {<<"audit_logs", "invoices">>}
    BY DEF SeedInv, Waiting, OnlyInvoiceIdUnassigned
  <2> QED BY <1>4, <1>7, <2>1, <2>2, TableNames DEF OnlyInvoiceIdUnassigned
<1>11. pending' \cap FlushedTables = {} /\ pending' \subseteq Tables
  BY <1>2, <1>7 DEF SeedInv, Waiting, TypeOK
<1>12. "invoices" \notin FlushedTables
  BY DEF FlushedTables
<1>13. step > 22 => missing' # {}
  BY <1>4, <1>7 DEF SeedInv, Waiting
<1>14. NeverSeeded'
  BY <1>3, <1>6, <1>7, <1>8, <1>13 DEF NeverSeeded
<1>15. ASSUME phase' = "seed", step' \in 17 .. 22 PROVE "invoices" \in pending'
  <2>1. ~last /\ step' = step + 1 /\ step \in 16 .. 21
    BY <1>7, <1>8, <1>15
  <2>2. ~g.flush
    BY <1>1, <2>1, SeedShape
  <2>3. pending' = pending \cup {g.table}
    BY <1>7, <2>1, <2>2
  <2>4. CASE step = 16
    BY <1>1, <2>3, <2>4, SeedShape
  <2>5. CASE step \in 17 .. 21
    BY <1>7, <2>3, <2>5 DEF SeedInv, Waiting
  <2> QED BY <2>1, <2>4, <2>5
<1>16. ASSUME phase' = "seed", step' > 22 PROVE missing' # {}
  <2>1. step' = step + 1
    BY <1>7, <1>16
  <2>2. CASE step = 22
    <3>1. "invoices" \in g.reads /\ "invoices" \in pending
      BY <1>1, <1>7, <2>2, SeedShape DEF SeedInv, Waiting
    <3>2. <<g.table, "invoices">> \in nulls
      BY <1>4, <3>1
    <3> QED BY <1>7, <3>2
  <2> QED BY <1>8, <1>13, <1>16, <2>1, <2>2
<1>17. Waiting'
  BY <1>10, <1>11, <1>12, <1>15, <1>16 DEF Waiting
<1>18. TypeOK'
  <2>1. step' \in 1 .. Len(SeedGroups)
    BY <1>3, <1>7, <1>8
  <2>2. phase' \in Ended \cup {"purge", "seed"}
    BY <1>7 DEF Ended
  <2> QED BY <1>7, <1>10, <1>11, <2>1, <2>2 DEF SeedInv, TypeOK, data
<1> QED BY <1>14, <1>17, <1>18 DEF SeedInv

(* The rest of the program neither adds rows nor copies ids.               *)
LEMMA RunStep ==
  ASSUME SeedInv, run_seed
  PROVE  SeedInv'
<1>1. /\ UNCHANGED <<rows, refs, bar, writes, gone, pending>>
      /\ phase' \in {"seed", "purge"} /\ step' = 1 /\ missing' = {} /\ taken' = FALSE
      /\ began' = writes /\ runs' = runs + 1 /\ runs < MaxRuns
  BY DEF run_seed, data
<1>2. found' \subseteq Offices /\ userIds' \subseteq Row /\ fileIds' \subseteq Row
  <2>1. Demo \subseteq Offices
    BY DEF Demo, SeedInv, TypeOK, Row
  <2> QED BY <2>1 DEF run_seed, RowsOf, SeedInv, TypeOK
<1>3. TypeOK'
  <2>1. step' \in 1 .. Len(SeedGroups)
    BY <1>1, SeedSteps
  <2>2. runs' \in 0 .. MaxRuns
    BY <1>1, BoundsAssumption DEF SeedInv, TypeOK
  <2> QED BY <1>1, <1>2, <2>1, <2>2 DEF SeedInv, TypeOK, Ended
<1>4. Waiting'
  BY <1>1 DEF SeedInv, Waiting, OnlyInvoiceIdUnassigned, FlushedTables
<1> QED BY <1>1, <1>3, <1>4 DEF SeedInv, NeverSeeded

LEMMA PurgeStep ==
  ASSUME SeedInv, PurgeDelete \/ PurgeCommit \/ Kill
  PROVE  SeedInv'
<1>1. /\ UNCHANGED <<bar, writes, found, userIds, fileIds, missing, taken, began, runs>>
      /\ pending' = pending \/ pending' = {}
  BY DEF PurgeDelete, PurgeCommit, Kill, data
<1>2. rows' \subseteq rows /\ refs' \subseteq refs /\ gone' \subseteq rows'
  <2>1. CASE PurgeDelete
    BY <2>1 DEF PurgeDelete, Doomed, data, SeedInv, TypeOK
  <2>2. CASE PurgeCommit
    BY <2>2 DEF PurgeCommit
  <2>3. CASE Kill
    BY <2>3 DEF Kill, data
  <2> QED BY <2>1, <2>2, <2>3
<1>3. step' \in 1 .. 47
  <2>1. step \in 1 .. 47
    BY SeedSteps DEF SeedInv, TypeOK
  <2> QED BY <2>1, PurgeLength DEF PurgeDelete, PurgeCommit, Kill
<1>4. phase' \in {"purge", "blocked", "killed"} \/ (phase' = "seed" /\ step' = 1)
  BY DEF PurgeDelete, PurgeCommit, Kill
<1>5. TypeOK'
  <2>1. step' \in 1 .. Len(SeedGroups)
    BY <1>3, SeedSteps
  <2> QED BY <1>1, <1>2, <1>4, <2>1 DEF SeedInv, TypeOK, Ended
<1>6. Waiting'
  BY <1>1, <1>4 DEF SeedInv, Waiting, OnlyInvoiceIdUnassigned, FlushedTables
<1> QED BY <1>4, <1>5, <1>6 DEF SeedInv, NeverSeeded

(* The API's writes change the committed rows only.                        *)
LEMMA WriteStep ==
  ASSUME SeedInv, UNCHANGED program, writes < MaxWrites, writes' = writes + 1,
         rows' \subseteq Row, rows \subseteq rows', refs' \subseteq Row \X Row, bar' \in [Offices -> Bars]
  PROVE  SeedInv'
<1>1. writes' \in Gens
  BY BoundsAssumption DEF SeedInv, TypeOK, Gens
<1>2. TypeOK'
  BY <1>1 DEF SeedInv, TypeOK, program
<1> QED BY <1>2 DEF SeedInv, Waiting, OnlyInvoiceIdUnassigned, NeverSeeded, program

LEMMA InsertStep ==
  ASSUME SeedInv, NEW o \in Offices, NEW c, NEW t \in Tables, NEW unset, Insert(o, c, t, unset)
  PROVE  SeedInv'
<1>1. PICK g, named :
        /\ g \in [Parents(t) -> 0 .. writes]
        /\ writes < MaxWrites
        /\ named \subseteq rows \ gone
        /\ writes' = writes + 1
        /\ rows' = rows \cup {[office |-> o, table |-> t, gen |-> writes + 1]}
        /\ refs' = refs \cup ({[office |-> o, table |-> t, gen |-> writes + 1]} \X named)
        /\ UNCHANGED <<bar, program>>
  BY DEF Insert
<1>2. [office |-> o, table |-> t, gen |-> writes + 1] \in Row
  BY <1>1, BoundsAssumption DEF SeedInv, TypeOK, Row, Gens
<1>3. rows \subseteq Row /\ refs \subseteq Row \X Row /\ bar \in [Offices -> Bars]
  BY DEF SeedInv, TypeOK
<1>4. rows' \subseteq Row /\ rows \subseteq rows'
  BY <1>1, <1>2, <1>3
<1>5. refs' \subseteq Row \X Row
  BY <1>1, <1>2, <1>3
<1>6. UNCHANGED program /\ bar' \in [Offices -> Bars]
  BY <1>1, <1>3
<1> QED BY <1>1, <1>4, <1>5, <1>6, WriteStep

LEMMA SeedInvStep == SeedInv /\ [Next]_vars => SeedInv'
<1> SUFFICES ASSUME SeedInv, [Next]_vars PROVE SeedInv'
  OBVIOUS
<1>1. ASSUME NEW o \in Offices, NEW b \in Bars, update_office(o, b) PROVE SeedInv'
  <2>1. /\ UNCHANGED program /\ writes < MaxWrites /\ writes' = writes + 1
        /\ rows' = rows /\ refs' = refs
    BY <1>1 DEF update_office
  <2>2. rows' \subseteq Row /\ rows \subseteq rows' /\ refs' \subseteq Row \X Row /\ bar' \in [Offices -> Bars]
    BY <1>1, <2>1 DEF update_office, SeedInv, TypeOK
  <2> QED BY <2>1, <2>2, WriteStep
<1>2. ASSUME NEW o \in Offices, NEW c \in Offices, NEW unset \in {{}, {"judgments"}},
             \/ Insert(o, c, "cases", {}) \/ Insert(o, c, "judgments", {})
             \/ Insert(o, c, "payments", {}) \/ Insert(o, c, "enforcement_files", unset)
      PROVE  SeedInv'
  BY <1>2, TableNames, InsertStep
<1>3. ASSUME NEW o \in Offices,
             \/ Insert(o, o, "enforcement_payments", {}) \/ Insert(o, o, "users", {})
             \/ Insert(o, o, "active_sessions", {}) \/ Insert(o, o, "audit_logs", {})
      PROVE  SeedInv'
  BY <1>3, TableNames, InsertStep
<1>4. CASE UNCHANGED vars
  BY <1>4 DEF vars, data, program, SeedInv, TypeOK, Waiting, OnlyInvoiceIdUnassigned, NeverSeeded
<1> QED BY <1>1, <1>2, <1>3, <1>4, RunStep, PurgeStep, GroupStep
        DEF Next, create_case, create_judgment, create_payment, create_enforcement_file,
            add_payment, accept_invite, login, write_audit_log

LEMMA SeedInvariant == Spec => []SeedInv
BY SeedInit, SeedInvStep, PTL DEF Spec

(* The rows, the foreign keys and the program keep their types.            *)
THEOREM TypeCorrect == Spec => []TypeOK
<1>1. SeedInv => TypeOK
  BY DEF SeedInv
<1> QED BY <1>1, SeedInvariant, PTL

(* Whatever the API does meanwhile, the seed copies one id too early, that *)
(* of the invoices in the audit trail, and no other.                       *)
THEOREM InvoiceIdTheorem == Spec => []OnlyInvoiceIdUnassigned
<1>1. SeedInv => OnlyInvoiceIdUnassigned
  BY DEF SeedInv, Waiting
<1> QED BY <1>1, SeedInvariant, PTL

(* That one is enough: no run of the program, on any data, ever commits    *)
(* the rows it adds.                                                       *)
THEOREM NeverSeededTheorem == Spec => []NeverSeeded
<1>1. SeedInv => NeverSeeded
  BY DEF SeedInv
<1> QED BY <1>1, SeedInvariant, PTL
=============================================================================
