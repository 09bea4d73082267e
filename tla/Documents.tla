------------------------------- MODULE Documents -------------------------------
(***************************************************************************)
(* Uploaded documents: a file in storage, a row in the database and an     *)
(* optional summary a Celery task writes (api/documents.py, api/ai.py,     *)
(* services/storage_service.py, summarize_document_task of tasks/jobs.py). *)
(* File and row are written and deleted in separate steps, in the order    *)
(* file first, and no transaction spans both.                              *)
(*                                                                         *)
(* A file's path is its office, entity and name and the second of the      *)
(* upload.  The model has uploads to one entity under names that           *)
(* secure_filename makes one, so a path is a second; others never meet.    *)
(***************************************************************************)
EXTENDS Naturals, FiniteSets

CONSTANTS Workers,   \* web workers
          Docs,      \* documents, each uploaded once
          Seconds    \* the seconds of the model, 0 .. a bound

ASSUME SecondsAssumption == 0 \in Seconds

VARIABLES second,
          files,     \* storage: path -> the document whose upload wrote it
          rows,      \* database: document -> its path and what its summary summarises
          web,       \* the request each worker serves
          queue,     \* documents with a summary task in the broker
          task,      \* the summary task the Celery worker runs
          at,        \* document -> second of its upload
          halfDone   \* documents whose upload or deletion died between file and row

vars == <<second, files, rows, web, queue, task, at, halfDone>>

Idle == [op |-> "idle"]
NoDoc == "none"
Request == [op : {"insert", "unlink", "delete"}, doc : Docs, path : Seconds]
Task == [step : {"read"}, doc : Docs, path : Seconds]
          \cup [step : {"commit"}, doc : Docs, text : Docs]
Row == [path : Seconds, summary : Docs \cup {NoDoc}]

TypeOK ==
  /\ second \in Seconds
  /\ DOMAIN files \subseteq Seconds /\ files \in [DOMAIN files -> Docs]
  /\ DOMAIN rows \subseteq Docs /\ rows \in [DOMAIN rows -> Row]
  /\ web \in [Workers -> Request \cup {Idle}]
  /\ queue \subseteq Docs /\ halfDone \subseteq Docs
  /\ task \in Task \cup {Idle}
  /\ DOMAIN at \subseteq Docs /\ at \in [DOMAIN at -> Seconds]

Init ==
  /\ second = 0
  /\ files = <<>> /\ rows = <<>> /\ at = <<>>
  /\ web = [w \in Workers |-> Idle]
  /\ queue = {} /\ task = Idle /\ halfDone = {}

With(f, x, v) == [y \in DOMAIN f \cup {x} |-> IF y = x THEN v ELSE f[y]]
Without(f, x) == [y \in DOMAIN f \ {x} |-> f[y]]
Serve(w, q) == web' = [web EXCEPT ![w] = q]
Finish(w) == Serve(w, Idle)

SecondPasses ==
  /\ second + 1 \in Seconds
  /\ second' = second + 1
  /\ UNCHANGED <<files, rows, web, queue, task, at, halfDone>>

-----------------------------------------------------------------------------
\* Mutant: no timestamp in the path.
name_only(s) == 0
object_key(s) == s

(* upload: the file is saved, over one of the same second ...              *)
upload_document(w, d) ==
  /\ web[w] = Idle
  /\ d \notin DOMAIN at
  /\ at' = With(at, d, second)
  /\ files' = With(files, object_key(second), d)
  /\ Serve(w, [op |-> "insert", doc |-> d, path |-> object_key(second)])
  /\ UNCHANGED <<second, rows, queue, task, halfDone>>

(* ... and its row inserted.                                               *)
InsertRow(w) ==
  /\ web[w].op = "insert"
  /\ rows' = With(rows, web[w].doc, [path |-> web[w].path, summary |-> NoDoc])
  /\ Finish(w)
  /\ UNCHANGED <<second, files, queue, task, at, halfDone>>

(* delete: the row is loaded ...                                           *)
delete_document(w, d) ==
  /\ web[w] = Idle
  /\ d \in DOMAIN rows
  /\ Serve(w, [op |-> "unlink", doc |-> d, path |-> rows[d].path])
  /\ UNCHANGED <<second, files, rows, queue, task, at, halfDone>>

\* Mutants: another object's key, which storage ignores; no delete after it.
unlink_other(w) ==
  /\ web[w].op = "unlink"
  /\ Serve(w, [web[w] EXCEPT !.op = "delete"])
  /\ UNCHANGED <<second, files, rows, queue, task, at, halfDone>>
unlink_only(w) ==
  /\ web[w].op = "unlink"
  /\ files' = Without(files, web[w].path)
  /\ Finish(w)
  /\ UNCHANGED <<second, rows, queue, task, at, halfDone>>

(* ... its file removed if it is there; when another request removes it    *)
(* between the look and the unlink, the request ends in an error ...       *)
delete_file(w) ==
  /\ web[w].op = "unlink"
  /\ files' = Without(files, web[w].path)
  /\ \/ Serve(w, [web[w] EXCEPT !.op = "delete"])
     \/ web[w].path \notin DOMAIN files /\ Finish(w)
  /\ UNCHANGED <<second, rows, queue, task, at, halfDone>>

(* ... and the row deleted; one already gone is only a warning.            *)
DeleteRow(w) ==
  /\ web[w].op = "delete"
  /\ rows' = Without(rows, web[w].doc)
  /\ Finish(w)
  /\ UNCHANGED <<second, files, queue, task, at, halfDone>>

(* The worker dies, or the database fails, before the row is written.      *)
Abandon(w) ==
  /\ web[w] # Idle
  /\ halfDone' = IF web[w].op = "unlink" THEN halfDone ELSE halfDone \cup {web[w].doc}
  /\ Finish(w)
  /\ UNCHANGED <<second, files, rows, queue, task, at>>

-----------------------------------------------------------------------------
summarize_document(d) ==
  /\ d \in DOMAIN rows
  /\ queue' = queue \cup {d}
  /\ UNCHANGED <<second, files, rows, web, task, at, halfDone>>

(* The task loads the row, if there still is one ...                       *)
TaskStart(d) ==
  /\ task = Idle
  /\ d \in queue
  /\ queue' = queue \ {d}
  /\ task' = IF d \in DOMAIN rows THEN [step |-> "read", doc |-> d, path |-> rows[d].path] ELSE Idle
  /\ UNCHANGED <<second, files, rows, web, at, halfDone>>

(* ... reads the file, or fails without one ...                            *)
TaskRead ==
  /\ task # Idle /\ task.step = "read"
  /\ task' = IF task.path \in DOMAIN files
               THEN [step |-> "commit", doc |-> task.doc, text |-> files[task.path]]
               ELSE Idle
  /\ UNCHANGED <<second, files, rows, web, queue, at, halfDone>>

\* Mutant: the row is replaced by one that has only the summary.
ReplaceBySummary ==
  /\ task # Idle /\ task.step = "commit"
  /\ rows' = With(rows, task.doc, [summary |-> task.text])
  /\ task' = Idle
  /\ UNCHANGED <<second, files, web, queue, at, halfDone>>

(* ... and updates the row; if it is gone the commit fails.                *)
TaskCommit ==
  /\ task # Idle /\ task.step = "commit"
  /\ rows' = [d \in DOMAIN rows |->
       IF d = task.doc THEN [rows[d] EXCEPT !.summary = task.text] ELSE rows[d]]
  /\ task' = Idle
  /\ UNCHANGED <<second, files, web, queue, at, halfDone>>

TaskCrash ==
  /\ task # Idle
  /\ task' = Idle
  /\ UNCHANGED <<second, files, rows, web, queue, at, halfDone>>

Next ==
  \/ SecondPasses
  \/ \E w \in Workers :
       \/ \E d \in Docs : upload_document(w, d) \/ delete_document(w, d)
       \/ InsertRow(w) \/ delete_file(w) \/ DeleteRow(w) \/ Abandon(w)
  \/ \E d \in Docs : summarize_document(d) \/ TaskStart(d)
  \/ TaskRead \/ TaskCommit \/ TaskCrash

Spec == Init /\ [][Next]_vars

-----------------------------------------------------------------------------
\* Documents uploaded in the same second as d, under names that secure_filename
\* makes one: it drops what is not ASCII, so many Arabic names are.
Twins(d) == {c \in DOMAIN at \ {d} : at[c] = at[d]}
BeingDone(d) == \E w \in Workers : web[w].op # "idle" /\ web[w].doc = d

(* Every document listed can be downloaded, whatever summaries, deletions  *)
(* and uploads overlap, unless its deletion is under way or died half-way, *)
(* or a twin shares, and took, its file.                                   *)
RowHasFile ==
  \A d \in DOMAIN rows :
    rows[d].path \in DOMAIN files \/ BeingDone(d) \/ d \in halfDone \/ Twins(d) # {}

(* No file is left behind but where an upload or a deletion died between   *)
(* file and row: a deletion that runs to its end never keeps the file and  *)
(* loses the row.                                                          *)
FileHasRow ==
  \A f \in DOMAIN files :
    \/ \E d \in DOMAIN rows : rows[d].path = f
    \/ \E d \in DOMAIN at : object_key(at[d]) = f /\ (BeingDone(d) \/ d \in halfDone)

(* A summary is of the document's own file, except between twins, although *)
(* the row may have been deleted or its file replaced since it was asked.  *)
SummaryOfOwnFile ==
  \A d \in DOMAIN rows : rows[d].summary \in {NoDoc, d} \/ Twins(d) # {}
=============================================================================
