--------------------------- MODULE Documents_proofs ---------------------------
(***************************************************************************)
(* Files, rows and summaries of documents, for any number of workers,      *)
(* documents and seconds.                                                  *)
(***************************************************************************)
EXTENDS Documents, TLAPS

-----------------------------------------------------------------------------
(* Whoever names a path names the one of its document's upload.            *)
RowsPlaced == \A d \in DOMAIN rows : d \in DOMAIN at /\ rows[d].path = at[d]
FilesPlaced == \A f \in DOMAIN files : files[f] \in DOMAIN at /\ at[files[f]] = f
WebPlaced ==
  \A w \in Workers : web[w] # Idle => web[w].doc \in DOMAIN at /\ web[w].path = at[web[w].doc]
TaskPlaced ==
  task # Idle =>
    /\ task.doc \in DOMAIN at
    /\ task.step = "read" => task.path = at[task.doc]
    /\ task.step = "commit" => task.text \in DOMAIN at /\ at[task.text] = at[task.doc]
SummariesPlaced ==
  \A d \in DOMAIN rows :
    rows[d].summary # NoDoc => rows[d].summary \in DOMAIN at /\ at[rows[d].summary] = at[d]

(* The document a file was last written for has its row, or gets it, or    *)
(* its upload died; once its deletion is at the row the file is gone.      *)
Owned ==
  \A f \in DOMAIN files :
    \/ files[f] \in DOMAIN rows \cup halfDone
    \/ \E w \in Workers : web[w].op = "insert" /\ web[w].doc = files[f]
Unlinked ==
  \A w \in Workers : web[w].op = "delete" =>
    \A f \in DOMAIN files : files[f] # web[w].doc

(* A document not yet listed is in nobody else's hands.                    *)
InsertAlone ==
  \A w \in Workers : web[w].op = "insert" =>
    /\ web[w].doc \notin DOMAIN rows
    /\ \A v \in Workers \ {w} : web[v] # Idle => web[v].doc # web[w].doc

(* A row without its file is about to be deleted, or has a twin.           *)
Shared == {d \in DOMAIN at : \E c \in DOMAIN at \ {d} : at[c] = at[d]}
InsertFiled ==
  \A w \in Workers : web[w].op = "insert" => at[web[w].doc] \in DOMAIN files \/ web[w].doc \in Shared
RowFiled ==
  \A d \in DOMAIN rows :
    \/ at[d] \in DOMAIN files \/ d \in halfDone \/ d \in Shared
    \/ \E w \in Workers : web[w].op = "delete" /\ web[w].doc = d

Placed == RowsPlaced /\ FilesPlaced /\ WebPlaced /\ TaskPlaced /\ SummariesPlaced
Filed == Owned /\ Unlinked /\ InsertAlone /\ InsertFiled /\ RowFiled
IInv == TypeOK /\ Placed /\ Filed

-----------------------------------------------------------------------------
(* A worker that is not idle serves a request.                             *)
LEMMA Serving ==
  ASSUME TypeOK, NEW w \in Workers
  PROVE  /\ web[w].op \in {"insert", "unlink", "delete"} <=> web[w] # Idle
         /\ web[w] # Idle => /\ web[w] \in Request /\ web[w].doc \in Docs
                             /\ web[w].path \in Seconds
<1>1. web[w] \in Request \cup {Idle}
  BY DEF TypeOK
<1> QED BY <1>1 DEF Request, Idle

(* At first there is nothing.                                              *)
LEMMA InitIInv == Init => IInv
<1> SUFFICES ASSUME Init PROVE IInv
  OBVIOUS
<1>1. DOMAIN files = {} /\ DOMAIN rows = {} /\ DOMAIN at = {}
  BY DEF Init
<1>2. TypeOK
  BY <1>1, SecondsAssumption DEF Init, TypeOK
<1>3. Placed
  BY <1>1 DEF Init, Placed, RowsPlaced, FilesPlaced, WebPlaced, TaskPlaced, SummariesPlaced
<1>4. Filed
  BY <1>1 DEF Init, Filed, Owned, Unlinked, InsertAlone, InsertFiled, RowFiled, Idle
<1> QED BY <1>2, <1>3, <1>4 DEF IInv

(* An upload writes its file over that of a twin at most.                  *)
LEMMA UploadIInv ==
  ASSUME IInv, NEW w \in Workers, NEW d \in Docs, upload_document(w, d)
  PROVE  IInv'
<1> DEFINE q == [op |-> "insert", doc |-> d, path |-> second]
<1>1. /\ DOMAIN at' = DOMAIN at \cup {d} /\ d \notin DOMAIN at /\ at'[d] = second
      /\ \A c \in DOMAIN at : at'[c] = at[c]
  BY DEF upload_document, With
<1>2. /\ DOMAIN files' = DOMAIN files \cup {second} /\ files'[second] = d
      /\ \A f \in DOMAIN files : f # second => files'[f] = files[f]
  BY DEF upload_document, With, object_key
<1>3. \A v \in Workers : web'[v] = IF v = w THEN q ELSE web[v]
  BY DEF upload_document, Serve, object_key, IInv, TypeOK
<1>4. web[w] = Idle /\ UNCHANGED <<second, rows, queue, task, halfDone>>
  BY DEF upload_document
<1>5. TypeOK'
  <2>1. q \in Request
    BY DEF IInv, TypeOK, Request
  <2>2. web' \in [Workers -> Request \cup {Idle}]
    BY <2>1 DEF upload_document, Serve, object_key, IInv, TypeOK
  <2>3. files' \in [DOMAIN files' -> Docs] /\ at' \in [DOMAIN at' -> Seconds]
    BY <1>1, <1>2 DEF upload_document, With, object_key, IInv, TypeOK
  <2> QED BY <1>1, <1>2, <1>4, <2>2, <2>3 DEF IInv, TypeOK
<1>6. Placed'
  <2>1. RowsPlaced' /\ SummariesPlaced'
    BY <1>1, <1>4 DEF IInv, Placed, RowsPlaced, SummariesPlaced
  <2>2. FilesPlaced'
    BY <1>1, <1>2 DEF IInv, Placed, FilesPlaced
  <2>3. WebPlaced' /\ TaskPlaced'
    BY <1>1, <1>3, <1>4 DEF IInv, Placed, WebPlaced, TaskPlaced, Idle
  <2> QED BY <2>1, <2>2, <2>3 DEF Placed
<1>7. d \notin DOMAIN rows /\ \A v \in Workers : web[v] # Idle => web[v].doc # d
  BY <1>1 DEF IInv, Placed, RowsPlaced, WebPlaced
<1>8. Owned' /\ Unlinked'
  <2>1. Owned'
    BY <1>2, <1>3, <1>4 DEF IInv, Filed, Owned, Idle
  <2>2. Unlinked'
    BY <1>2, <1>3, <1>4, <1>7 DEF IInv, Filed, Unlinked, Idle
  <2> QED BY <2>1, <2>2
<1>9. InsertAlone'
  BY <1>3, <1>4, <1>7 DEF IInv, Filed, InsertAlone, Idle
<1>10. Shared \subseteq Shared'
  BY <1>1 DEF Shared
<1>11. InsertFiled'
  <2> SUFFICES ASSUME NEW v \in Workers, web'[v].op = "insert"
               PROVE  at'[web'[v].doc] \in DOMAIN files' \/ web'[v].doc \in Shared'
    BY DEF InsertFiled
  <2>1. CASE v = w
    BY <2>1, <1>1, <1>2, <1>3
  <2>2. CASE v # w
    <3>1. web'[v] = web[v] /\ web[v] # Idle
      BY <2>2, <1>3 DEF Idle
    <3>2. web[v].doc \in DOMAIN at
      BY <3>1 DEF IInv, Placed, WebPlaced
    <3>3. at[web[v].doc] \in DOMAIN files \/ web[v].doc \in Shared
      BY <3>1 DEF IInv, Filed, InsertFiled
    <3> QED BY <3>1, <3>2, <3>3, <1>1, <1>2, <1>10
  <2> QED BY <2>1, <2>2
<1>12. RowFiled'
  <2> SUFFICES ASSUME NEW c \in DOMAIN rows
               PROVE  \/ at'[c] \in DOMAIN files' \/ c \in halfDone \/ c \in Shared'
                      \/ \E v \in Workers : web'[v].op = "delete" /\ web'[v].doc = c
    BY <1>4 DEF RowFiled
  <2>1. c \in DOMAIN at
    BY DEF IInv, Placed, RowsPlaced
  <2>2. CASE \E v \in Workers : web[v].op = "delete" /\ web[v].doc = c
    BY <2>2, <1>3, <1>4 DEF Idle
  <2>3. CASE at[c] \in DOMAIN files \/ c \in halfDone \/ c \in Shared
    BY <2>1, <2>3, <1>1, <1>2, <1>10
  <2> QED BY <2>2, <2>3 DEF IInv, Filed, RowFiled
<1> QED BY <1>5, <1>6, <1>8, <1>9, <1>11, <1>12 DEF IInv, Filed

(* The row of an upload.                                                   *)
LEMMA InsertIInv ==
  ASSUME IInv, NEW w \in Workers, InsertRow(w)
  PROVE  IInv'
<1>1. PICK d : d = web[w].doc
  OBVIOUS
<1>2. /\ web[w] # Idle /\ web[w].op = "insert" /\ d \in Docs /\ d \in DOMAIN at
      /\ web[w].path = at[d] /\ at[d] \in Seconds
      /\ d \notin DOMAIN rows /\ \A v \in Workers \ {w} : web[v] # Idle => web[v].doc # d
  BY <1>1, Serving DEF InsertRow, IInv, TypeOK, Placed, WebPlaced, Filed, InsertAlone
<1>3. /\ DOMAIN rows' = DOMAIN rows \cup {d} /\ rows'[d] = [path |-> at[d], summary |-> NoDoc]
      /\ \A c \in DOMAIN rows : rows'[c] = rows[c]
  BY <1>1, <1>2 DEF InsertRow, With
<1>4. \A v \in Workers : web'[v] = IF v = w THEN Idle ELSE web[v]
  BY DEF InsertRow, Finish, Serve, IInv, TypeOK
<1>5. UNCHANGED <<second, files, queue, task, at, halfDone>>
  BY DEF InsertRow
<1>6. TypeOK'
  <2>1. [path |-> at[d], summary |-> NoDoc] \in Row
    BY <1>2 DEF Row
  <2>2. rows' \in [DOMAIN rows' -> Row]
    BY <2>1, <1>1, <1>2 DEF InsertRow, With, IInv, TypeOK
  <2>3. web' \in [Workers -> Request \cup {Idle}]
    BY DEF InsertRow, Finish, Serve, IInv, TypeOK
  <2> QED BY <1>2, <1>3, <1>5, <2>2, <2>3 DEF IInv, TypeOK
<1>7. Placed'
  <2>1. RowsPlaced' /\ SummariesPlaced'
    BY <1>2, <1>3, <1>5 DEF IInv, Placed, RowsPlaced, SummariesPlaced
  <2>2. FilesPlaced' /\ WebPlaced' /\ TaskPlaced'
    BY <1>4, <1>5 DEF IInv, Placed, FilesPlaced, WebPlaced, TaskPlaced, Idle
  <2> QED BY <2>1, <2>2 DEF Placed
<1>8. Shared' = Shared
  BY <1>5 DEF Shared
<1>9. Owned' /\ Unlinked' /\ InsertAlone' /\ InsertFiled'
  <2>1. Owned'
    BY <1>1, <1>3, <1>4, <1>5 DEF IInv, Filed, Owned
  <2>2. Unlinked' /\ InsertFiled'
    BY <1>4, <1>5, <1>8 DEF IInv, Filed, Unlinked, InsertFiled, Idle
  <2>3. InsertAlone'
    <3> SUFFICES ASSUME NEW v \in Workers, web'[v].op = "insert"
                 PROVE  /\ web'[v].doc \notin DOMAIN rows'
                        /\ \A u \in Workers \ {v} : web'[u] # Idle => web'[u].doc # web'[v].doc
      BY DEF InsertAlone
    <3>1. v # w /\ web'[v] = web[v] /\ web[v] # Idle
      BY <1>4 DEF Idle
    <3> QED BY <3>1, <1>2, <1>3, <1>4 DEF IInv, Filed, InsertAlone
  <2> QED BY <2>1, <2>2, <2>3
<1>10. RowFiled'
  <2> SUFFICES ASSUME NEW c \in DOMAIN rows'
               PROVE  \/ at[c] \in DOMAIN files \/ c \in halfDone \/ c \in Shared
                      \/ \E v \in Workers : web'[v].op = "delete" /\ web'[v].doc = c
    BY <1>5, <1>8 DEF RowFiled
  <2>1. CASE c = d
    BY <2>1, <1>1, <1>2 DEF IInv, Filed, InsertFiled
  <2>2. CASE c # d
    BY <2>2, <1>2, <1>3, <1>4 DEF IInv, Filed, RowFiled
  <2> QED BY <2>1, <2>2
<1> QED BY <1>6, <1>7, <1>9, <1>10 DEF IInv, Filed

(* A deletion takes the row it will delete.                                *)
LEMMA DeleteIInv ==
  ASSUME IInv, NEW w \in Workers, NEW d \in Docs, delete_document(w, d)
  PROVE  IInv'
<1> DEFINE q == [op |-> "unlink", doc |-> d, path |-> rows[d].path]
<1>1. web[w] = Idle /\ d \in DOMAIN rows /\ d \in DOMAIN at /\ rows[d].path = at[d]
  BY DEF delete_document, IInv, Placed, RowsPlaced
<1>2. \A v \in Workers : web'[v] = IF v = w THEN q ELSE web[v]
  BY DEF delete_document, Serve, IInv, TypeOK
<1>3. UNCHANGED <<second, files, rows, queue, task, at, halfDone>>
  BY DEF delete_document
<1>4. TypeOK'
  <2>1. q \in Request
    BY <1>1 DEF IInv, TypeOK, Request
  <2>2. web' \in [Workers -> Request \cup {Idle}]
    BY <2>1 DEF delete_document, Serve, IInv, TypeOK
  <2> QED BY <1>3, <2>2 DEF IInv, TypeOK
<1>5. Placed'
  BY <1>1, <1>2, <1>3
  DEF IInv, Placed, RowsPlaced, FilesPlaced, WebPlaced, TaskPlaced, SummariesPlaced
<1>6. Shared' = Shared
  BY <1>3 DEF Shared
<1>7. Owned' /\ Unlinked' /\ InsertFiled'
  BY <1>1, <1>2, <1>3, <1>6 DEF IInv, Filed, Owned, Unlinked, InsertFiled, Idle
<1>8. InsertAlone'
  BY <1>1, <1>2, <1>3 DEF IInv, Filed, InsertAlone, Idle
<1>9. RowFiled'
  BY <1>1, <1>2, <1>3, <1>6 DEF IInv, Filed, RowFiled, Idle
<1> QED BY <1>4, <1>5, <1>7, <1>8, <1>9 DEF IInv, Filed

(* The file goes.  A request that finds none stops before its row, but     *)
(* then whoever removed the file is at the row, died there, or the file    *)
(* was a twin's.                                                           *)
LEMMA UnlinkIInv ==
  ASSUME IInv, NEW w \in Workers, delete_file(w)
  PROVE  IInv'
<1>1. PICK d, p : d = web[w].doc /\ p = web[w].path
  OBVIOUS
<1>2. web[w] # Idle /\ web[w].op = "unlink" /\ d \in Docs /\ d \in DOMAIN at /\ p = at[d]
  BY <1>1, Serving DEF delete_file, IInv, Placed, WebPlaced
<1>3. /\ DOMAIN files' = DOMAIN files \ {p}
      /\ \A f \in DOMAIN files' : files'[f] = files[f]
  BY <1>1 DEF delete_file, Without
<1>4. UNCHANGED <<second, rows, queue, task, at, halfDone>>
  BY DEF delete_file
<1>5. /\ \A v \in Workers : v # w => web'[v] = web[v]
      /\ \/ web'[w] = [web[w] EXCEPT !.op = "delete"]
         \/ web'[w] = Idle /\ p \notin DOMAIN files
  BY <1>1 DEF delete_file, Finish, Serve, IInv, TypeOK
<1>6. \/ web'[w] = Idle /\ p \notin DOMAIN files
      \/ web'[w].op = "delete" /\ web'[w].doc = d /\ web'[w].path = p
  BY <1>1, <1>2, <1>5, Serving DEF IInv, Request
<1>7. TypeOK'
  <2>1. files' \in [DOMAIN files' -> Docs]
    BY DEF delete_file, Without, IInv, TypeOK
  <2>2. web'[w] \in Request \cup {Idle}
    BY <1>2, <1>5, Serving DEF IInv, Request
  <2>3. web' \in [Workers -> Request \cup {Idle}]
    BY <2>2 DEF delete_file, Finish, Serve, IInv, TypeOK
  <2> QED BY <1>3, <1>4, <2>1, <2>3 DEF IInv, TypeOK
<1>8. Placed'
  <2>1. RowsPlaced' /\ SummariesPlaced' /\ TaskPlaced' /\ FilesPlaced'
    BY <1>3, <1>4
    DEF IInv, Placed, RowsPlaced, FilesPlaced, TaskPlaced, SummariesPlaced
  <2>2. WebPlaced'
    BY <1>2, <1>4, <1>5, <1>6 DEF IInv, Placed, WebPlaced
  <2> QED BY <2>1, <2>2 DEF Placed
<1>9. Shared' = Shared /\ \A c \in DOMAIN at : at[c] = p => c = d \/ c \in Shared
  BY <1>2, <1>4 DEF Shared
<1>10. Owned'
  <2>1. \A v \in Workers : web[v].op = "insert" => v # w
    BY <1>2
  <2> QED BY <2>1, <1>3, <1>4, <1>5 DEF IInv, Filed, Owned
<1>11. Unlinked'
  <2> SUFFICES ASSUME NEW v \in Workers, web'[v].op = "delete", NEW f \in DOMAIN files'
               PROVE  files'[f] # web'[v].doc
    BY DEF Unlinked
  <2>1. CASE v # w
    BY <2>1, <1>3, <1>5 DEF IInv, Filed, Unlinked
  <2>2. CASE v = w
    BY <2>2, <1>2, <1>3, <1>6 DEF IInv, Placed, FilesPlaced, Idle
  <2> QED BY <2>1, <2>2
<1>12. \A v \in Workers : web'[v].op = "insert" => v # w
  BY <1>6 DEF Idle
<1>13. InsertAlone'
  <2> SUFFICES ASSUME NEW v \in Workers, web'[v].op = "insert"
               PROVE  /\ web'[v].doc \notin DOMAIN rows
                      /\ \A u \in Workers \ {v} : web'[u] # Idle => web'[u].doc # web'[v].doc
    BY <1>4 DEF InsertAlone
  <2>1. v # w /\ web'[v] = web[v]
    BY <1>5, <1>12
  <2>2. \A u \in Workers : web'[u] # Idle => web[u] # Idle /\ web'[u].doc = web[u].doc
    BY <1>1, <1>2, <1>5, <1>6
  <2> QED BY <2>1, <2>2 DEF IInv, Filed, InsertAlone
<1>14. InsertFiled'
  <2> SUFFICES ASSUME NEW v \in Workers, web'[v].op = "insert"
               PROVE  at[web[v].doc] \in DOMAIN files' \/ web[v].doc \in Shared
    BY <1>4, <1>5, <1>9, <1>12 DEF InsertFiled
  <2>1. v # w /\ web[v].op = "insert" /\ web[v] # Idle
    BY <1>5, <1>12 DEF Idle
  <2>2. web[v].doc # d /\ web[v].doc \in DOMAIN at
    BY <2>1, <1>1, <1>2 DEF IInv, Filed, InsertAlone, Placed, WebPlaced
  <2> QED BY <2>1, <2>2, <1>3, <1>9 DEF IInv, Filed, InsertFiled
<1>15. RowFiled'
  <2> SUFFICES ASSUME NEW c \in DOMAIN rows
               PROVE  \/ at[c] \in DOMAIN files' \/ c \in halfDone \/ c \in Shared
                      \/ \E v \in Workers : web'[v].op = "delete" /\ web'[v].doc = c
    BY <1>4, <1>9 DEF RowFiled
  <2>1. CASE \E v \in Workers : web[v].op = "delete" /\ web[v].doc = c
    BY <2>1, <1>2, <1>5
  <2>2. CASE at[c] \in DOMAIN files
    <3>1. CASE at[c] # p
      BY <3>1, <2>2, <1>3
    <3>2. CASE at[c] = p
      BY <3>2, <2>2, <1>6, <1>9 DEF IInv, Placed, RowsPlaced
    <3> QED BY <3>1, <3>2
  <2> QED BY <2>1, <2>2 DEF IInv, Filed, RowFiled
<1> QED BY <1>7, <1>8, <1>10, <1>11, <1>13, <1>14, <1>15 DEF IInv, Filed

(* A request ends and may take its row with it, or leave it half done.     *)
LEMMA EndIInv ==
  ASSUME IInv, NEW w \in Workers, NEW d, d = web[w].doc, web[w] # Idle,
         Finish(w),
         DOMAIN rows' \subseteq DOMAIN rows, \A c \in DOMAIN rows' : rows'[c] = rows[c],
         rows' \in [DOMAIN rows' -> Row],
         halfDone \subseteq halfDone', halfDone' \subseteq Docs,
         DOMAIN rows' # DOMAIN rows => web[w].op = "delete",
         DOMAIN rows \ {d} \subseteq DOMAIN rows',
         web[w].op \in {"insert", "delete"} => d \in halfDone' \/ d \notin DOMAIN rows',
         web[w].op = "insert" => d \in halfDone',
         UNCHANGED <<second, files, queue, task, at>>
  PROVE  IInv'
<1>1. \A v \in Workers : web'[v] = IF v = w THEN Idle ELSE web[v]
  BY DEF Finish, Serve, IInv, TypeOK
<1>2. web' \in [Workers -> Request \cup {Idle}]
  BY DEF Finish, Serve, IInv, TypeOK
<1>3. TypeOK'
  BY <1>2 DEF IInv, TypeOK
<1>4. RowsPlaced' /\ FilesPlaced' /\ TaskPlaced' /\ SummariesPlaced'
  BY DEF IInv, Placed, RowsPlaced, FilesPlaced, TaskPlaced, SummariesPlaced
<1>5. WebPlaced' /\ Unlinked' /\ Shared' = Shared
  BY <1>1 DEF IInv, Placed, WebPlaced, Filed, Unlinked, Shared, Idle
<1>6. Owned'
  <2>1. \A f \in DOMAIN files : files[f] \in DOMAIN rows => files[f] \in DOMAIN rows'
    BY DEF IInv, Filed, Unlinked
  <2> QED BY <2>1, <1>1 DEF IInv, Filed, Owned
<1>7. InsertAlone' /\ InsertFiled'
  <2> SUFFICES ASSUME NEW v \in Workers, web'[v].op = "insert"
               PROVE  /\ web'[v].doc \notin DOMAIN rows'
                      /\ \A u \in Workers \ {v} : web'[u] # Idle => web'[u].doc # web'[v].doc
                      /\ at'[web'[v].doc] \in DOMAIN files' \/ web'[v].doc \in Shared'
    BY DEF InsertAlone, InsertFiled
  <2>1. v # w /\ web'[v] = web[v]
    BY <1>1 DEF Idle
  <2> QED BY <2>1, <1>1, <1>5 DEF IInv, Filed, InsertAlone, InsertFiled
<1>8. RowFiled'
  <2> SUFFICES ASSUME NEW c \in DOMAIN rows'
               PROVE  \/ at[c] \in DOMAIN files \/ c \in halfDone' \/ c \in Shared
                      \/ \E v \in Workers : web'[v].op = "delete" /\ web'[v].doc = c
    BY <1>5 DEF RowFiled
  <2> QED BY <1>1 DEF IInv, Filed, RowFiled
<1> QED BY <1>3, <1>4, <1>5, <1>6, <1>7, <1>8 DEF IInv, Placed, Filed

(* Steps of the summary task and of time touch no file, no request and of  *)
(* the rows at most summaries, which they take from the document's path.   *)
LEMMA TaskIInv ==
  ASSUME IInv, TypeOK', TaskPlaced', SummariesPlaced',
         DOMAIN rows' = DOMAIN rows, \A d \in DOMAIN rows : rows'[d].path = rows[d].path,
         UNCHANGED <<files, web, at, halfDone>>
  PROVE  IInv'
<1>1. RowsPlaced' /\ FilesPlaced' /\ WebPlaced'
  BY DEF IInv, Placed, RowsPlaced, FilesPlaced, WebPlaced
<1>2. Owned' /\ Unlinked' /\ InsertAlone'
  BY DEF IInv, Filed, Owned, Unlinked, InsertAlone
<1>3. InsertFiled' /\ RowFiled'
  <2>1. Shared' = Shared
    BY DEF Shared
  <2> QED BY <2>1 DEF IInv, Filed, InsertFiled, RowFiled
<1> QED BY <1>1, <1>2, <1>3 DEF IInv, Placed, Filed

-----------------------------------------------------------------------------
(* One step of anybody.                                                    *)
LEMMA NextIInv == IInv /\ [Next]_vars => IInv'
<1> SUFFICES ASSUME IInv, [Next]_vars PROVE IInv'
  OBVIOUS
<1>1. CASE SecondPasses
  BY <1>1, TaskIInv DEF SecondPasses, IInv, TypeOK, Placed, TaskPlaced, SummariesPlaced
<1>2. ASSUME NEW w \in Workers, NEW d \in Docs, upload_document(w, d) \/ delete_document(w, d)
      PROVE  IInv'
  BY <1>2, UploadIInv, DeleteIInv
<1>3. ASSUME NEW w \in Workers, InsertRow(w) \/ delete_file(w) PROVE IInv'
  BY <1>3, InsertIInv, UnlinkIInv
<1>4. ASSUME NEW w \in Workers, DeleteRow(w) PROVE IInv'
  <2>1. PICK d : d = web[w].doc
    OBVIOUS
  <2>2. web[w] # Idle /\ web[w].op = "delete"
    BY <1>4 DEF DeleteRow, Idle
  <2>3. /\ DOMAIN rows' = DOMAIN rows \ {d} /\ rows' \in [DOMAIN rows' -> Row]
        /\ \A c \in DOMAIN rows' : rows'[c] = rows[c]
    BY <1>4, <2>1 DEF DeleteRow, Without, IInv, TypeOK
  <2>4. Finish(w) /\ UNCHANGED <<second, files, queue, task, at, halfDone>>
    BY <1>4 DEF DeleteRow
  <2>5. halfDone \subseteq Docs
    BY DEF IInv, TypeOK
  <2> QED BY <2>1, <2>2, <2>3, <2>4, <2>5, EndIInv
<1>5. ASSUME NEW w \in Workers, Abandon(w) PROVE IInv'
  <2>1. PICK d : d = web[w].doc
    OBVIOUS
  <2>2. web[w] # Idle /\ d \in Docs
    BY <1>5, <2>1, Serving DEF Abandon, IInv
  <2>3. /\ halfDone \subseteq halfDone' /\ halfDone' \subseteq Docs
        /\ web[w].op \in {"insert", "delete"} => d \in halfDone'
    BY <1>5, <2>1, <2>2 DEF Abandon, IInv, TypeOK
  <2>4. Finish(w) /\ UNCHANGED <<second, files, rows, queue, task, at>>
    BY <1>5 DEF Abandon
  <2>5. rows' \in [DOMAIN rows' -> Row]
    BY <2>4 DEF IInv, TypeOK
  <2> QED BY <2>1, <2>2, <2>3, <2>4, <2>5, EndIInv
<1>6. ASSUME NEW d \in Docs, summarize_document(d) PROVE IInv'
  BY <1>6, TaskIInv DEF summarize_document, IInv, TypeOK, Placed, TaskPlaced, SummariesPlaced
<1>7. ASSUME NEW d \in Docs, TaskStart(d) PROVE IInv'
  <2>1. /\ UNCHANGED <<second, files, rows, web, at, halfDone>> /\ queue' \subseteq queue
        /\ \/ task' = Idle
           \/ d \in DOMAIN rows /\ task' = [step |-> "read", doc |-> d, path |-> rows[d].path]
    BY <1>7 DEF TaskStart
  <2>2. TaskPlaced' /\ SummariesPlaced'
    BY <2>1 DEF IInv, Placed, TaskPlaced, RowsPlaced, SummariesPlaced
  <2>3. task' \in Task \cup {Idle}
    BY <2>1 DEF IInv, TypeOK, Task, Row
  <2>4. TypeOK'
    BY <2>1, <2>3 DEF IInv, TypeOK
  <2> QED BY <2>1, <2>2, <2>4, TaskIInv
<1>8. CASE TaskRead
  <2>1. /\ UNCHANGED <<second, files, rows, web, queue, at, halfDone>>
        /\ task # Idle /\ task.step = "read"
        /\ \/ task' = Idle
           \/ /\ task.path \in DOMAIN files
              /\ task' = [step |-> "commit", doc |-> task.doc, text |-> files[task.path]]
    BY <1>8 DEF TaskRead
  <2>2. TaskPlaced' /\ SummariesPlaced'
    BY <2>1 DEF IInv, Placed, TaskPlaced, FilesPlaced, SummariesPlaced
  <2>3. task.doc \in Docs
    BY <2>1 DEF IInv, TypeOK, Task
  <2>4. task' \in Task \cup {Idle}
    BY <2>1, <2>3 DEF IInv, TypeOK, Task
  <2>5. TypeOK'
    BY <2>1, <2>4 DEF IInv, TypeOK
  <2> QED BY <2>1, <2>2, <2>5, TaskIInv
<1>9. CASE TaskCommit
  <2>1. /\ UNCHANGED <<second, files, web, queue, at, halfDone>>
        /\ task # Idle /\ task.step = "commit" /\ task' = Idle
    BY <1>9 DEF TaskCommit
  <2>2. task.text \in Docs
    BY <2>1 DEF IInv, TypeOK, Task
  <2>3. /\ DOMAIN rows' = DOMAIN rows
        /\ \A d \in DOMAIN rows :
             /\ rows[d] \in Row /\ rows'[d] \in Row
             /\ rows'[d].path = rows[d].path
             /\ rows'[d].summary = IF d = task.doc THEN task.text ELSE rows[d].summary
    BY <1>9, <2>2 DEF TaskCommit, IInv, TypeOK, Row
  <2>4. rows' \in [DOMAIN rows' -> Row]
    BY <1>9, <2>3 DEF TaskCommit
  <2>5. TypeOK'
    BY <2>1, <2>3, <2>4 DEF IInv, TypeOK
  <2>6. TaskPlaced' /\ SummariesPlaced'
    BY <2>1, <2>3 DEF IInv, Placed, TaskPlaced, SummariesPlaced
  <2> QED BY <2>1, <2>3, <2>5, <2>6, TaskIInv
<1>10. CASE TaskCrash
  BY <1>10, TaskIInv DEF TaskCrash, IInv, TypeOK, Placed, TaskPlaced, SummariesPlaced
<1>11. CASE UNCHANGED vars
  BY <1>11, TaskIInv DEF vars, IInv, TypeOK, Placed, TaskPlaced, SummariesPlaced
<1> QED
  BY <1>1, <1>2, <1>3, <1>4, <1>5, <1>6, <1>7, <1>8, <1>9, <1>10, <1>11 DEF Next

(* The strengthened invariant holds for ever.                              *)
LEMMA Invariance == Spec => []IInv
BY InitIInv, NextIInv, PTL DEF Spec

(* Files, rows, requests and the summary task are well-typed.              *)
THEOREM TypeCorrect == Spec => []TypeOK
<1>1. IInv => TypeOK
  BY DEF IInv
<1> QED BY <1>1, Invariance, PTL

(* Every document listed can be downloaded, except in the middle of a      *)
(* deletion, after one that died there, or when a twin took the file.      *)
THEOREM ListedHasFile == Spec => []RowHasFile
<1>1. IInv => RowHasFile
  <2> SUFFICES ASSUME IInv, NEW d \in DOMAIN rows
               PROVE  rows[d].path \in DOMAIN files \/ BeingDone(d) \/ d \in halfDone \/ Twins(d) # {}
    BY DEF RowHasFile
  <2>1. rows[d].path = at[d] /\ (d \in Shared => Twins(d) # {})
    BY DEF IInv, Placed, RowsPlaced, Shared, Twins
  <2> QED BY <2>1 DEF IInv, Filed, RowFiled, BeingDone
<1> QED BY <1>1, Invariance, PTL

(* No file is left behind but by an upload that died before its row.       *)
THEOREM NoFileLeftBehind == Spec => []FileHasRow
<1>1. IInv => FileHasRow
  <2> SUFFICES ASSUME IInv, NEW f \in DOMAIN files
               PROVE  \/ \E d \in DOMAIN rows : rows[d].path = f
                      \/ \E d \in DOMAIN at : object_key(at[d]) = f /\ (BeingDone(d) \/ d \in halfDone)
    BY DEF FileHasRow
  <2>1. files[f] \in DOMAIN at /\ at[files[f]] = f
    BY DEF IInv, Placed, FilesPlaced
  <2>2. CASE files[f] \in DOMAIN rows
    BY <2>1, <2>2 DEF IInv, Placed, RowsPlaced
  <2>3. CASE files[f] \in halfDone \/ BeingDone(files[f])
    BY <2>1, <2>3 DEF object_key
  <2> QED BY <2>2, <2>3 DEF IInv, Filed, Owned, BeingDone
<1> QED BY <1>1, Invariance, PTL

(* A summary is of the document's own file or of a twin's.                 *)
THEOREM SummaryIsOwn == Spec => []SummaryOfOwnFile
<1>1. IInv => SummaryOfOwnFile
  BY DEF IInv, Placed, SummariesPlaced, SummaryOfOwnFile, Twins
<1> QED BY <1>1, Invariance, PTL
=============================================================================
