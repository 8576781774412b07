----------------------------- MODULE Attachments -----------------------------
(* Attachments: a row in the database and a file in the attachment storage.   *)
(*                                                                            *)
(* An upload writes the file and then the row; a deletion marks the row,      *)
(* removes the file and marks the row again. Each step may fail, be lost, or  *)
(* succeed without an answer. The reconciler lists rows, then files, finishes *)
(* stale deletions and, when it is not confined to a tenant and saw every     *)
(* row, removes files without one. Its dry runs change nothing and are left   *)
(* out, as are contents, inspection, scanning, integrity checks and audit.    *)
(*                                                                            *)
(* One tenant, whose quota counts files; a storage key is the number of its   *)
(* upload, and rows are listed in that order. At most one scheduled run and   *)
(* one of the tenant's administrator at a time.                               *)
EXTENDS Naturals, FiniteSets

CONSTANTS Procs,         \* API requests at a time
          MaxFiles,      \* attachmentTenantMaxFiles
          RecordLimit,   \* rows that a reconciliation lists
          MaxUploads,    \* bound on the uploads
          MaxFaults      \* bound on the failures of the reconciler

ASSUME AttachmentsAssumption ==
  /\ IsFiniteSet(Procs)
  /\ {MaxFiles, RecordLimit} \subseteq Nat \ {0} /\ {MaxUploads, MaxFaults} \subseteq Nat

VARIABLES row,       \* lifecycle_state of the row
          stale,     \* whether a deleting row is older than staleDeletingAfterMs
          files,     \* the attachment storage
          temps,     \* temporary files beside them, each by the upload that wrote it
          proc,      \* the handlers
          run,       \* the reconciliations
          faults,
          answered,  \* uploads that were answered 201, until they are deleted
          met        \* of these and of those in progress, the ones during which
                     \* the scheduled run was listing

db == <<row, stale>>
vars == <<row, stale, files, temps, proc, run, faults, answered, met>>
-----------------------------------------------------------------------------
Ids == 1 .. MaxUploads
Scopes == {"global", "tenant"}
States == {"none", "active", "deleting", "deleted"}
Idle == [at |-> "idle", id |-> 0]
NoRun == [at |-> "idle", cut |-> FALSE, expected |-> {}, overdue |-> {}, orphans |-> {}]

Init ==
  /\ row = [i \in Ids |-> "none"] /\ stale = [i \in Ids |-> FALSE]
  /\ files = {} /\ temps = {}
  /\ proc = [p \in Procs |-> Idle]
  /\ run = [s \in Scopes |-> NoRun] /\ faults = 0
  /\ answered = {} /\ met = {}

Uploading == {proc[p].id : p \in {q \in Procs : proc[q].at \in {"put", "link", "tidy", "create", "cleanUp"}}}

\* generateAttachmentStorageKey. The key of an upload that left nothing behind
\* stands for a new one.
Unused == {i \in Ids : row[i] = "none" /\ i \notin files \cup temps \cup Uploading
                        /\ \A s \in Scopes : i \notin run[s].orphans}
NewId == CHOOSE i \in Unused : \A j \in Unused : i <= j
Goto(p, at) == proc' = [proc EXCEPT ![p].at = at]
Finish(p) == proc' = [proc EXCEPT ![p] = Idle]
-----------------------------------------------------------------------------
(* POST /assets/:stableId/attachments.                                        *)

\* getAttachmentUsage: rows that are not deleted.
Usage == Cardinality({i \in Ids : row[i] \in {"active", "deleting"}})
UnderQuota == Usage + 1 <= MaxFiles

StartUpload(p, i) ==
  /\ proc[p].at = "idle" /\ UnderQuota
  /\ proc' = [proc EXCEPT ![p] = [at |-> "put", id |-> i]]
  /\ met' = IF run["global"].at = "list" THEN met \cup {i} ELSE met
  /\ UNCHANGED <<db, files, temps, run, faults, answered>>

\* put: the content under a temporary name, which is linked to the storage key
\* and then unlinked.
WriteTemporary(p) ==
  /\ proc[p].at = "put"
  /\ temps' = temps \cup {proc[p].id}
  /\ Goto(p, "link")
  /\ UNCHANGED <<db, files, run, faults, answered, met>>

Link(p) ==
  /\ proc[p].at = "link"
  /\ files' = files \cup {proc[p].id}
  /\ Goto(p, "tidy")
  /\ UNCHANGED <<db, temps, run, faults, answered, met>>

UnlinkTemporary(p) ==
  /\ proc[p].at = "tidy"
  /\ temps' = temps \ {proc[p].id}
  /\ Goto(p, "create")
  /\ UNCHANGED <<db, files, run, faults, answered, met>>

\* A call of put fails. The temporary file is unlinked if that does not fail
\* too; nothing else ever looks for it.
PutFails(p) ==
  /\ proc[p].at \in {"put", "link", "tidy"}
  /\ temps' \in {temps, temps \ {proc[p].id}}
  /\ Finish(p)
  /\ met' = met \ {proc[p].id}
  /\ UNCHANGED <<db, files, run, faults, answered>>

Insert(i) == row' = [row EXCEPT ![i] = "active"] /\ UNCHANGED stale

CreateAttachment(p) ==
  /\ proc[p].at = "create"
  /\ Insert(proc[p].id)
  /\ answered' = answered \cup {proc[p].id}
  /\ Finish(p)
  /\ UNCHANGED <<files, temps, run, faults, met>>

\* createAttachment throws, and may have committed.
CreateFails(p) ==
  /\ proc[p].at = "create"
  /\ Insert(proc[p].id) \/ UNCHANGED db
  /\ Goto(p, "cleanUp")
  /\ UNCHANGED <<files, temps, run, faults, answered, met>>

CleanUp(p) ==
  /\ proc[p].at = "cleanUp"
  /\ files' \in {files, files \ {proc[p].id}}
  /\ Finish(p)
  /\ met' = met \ {proc[p].id}
  /\ UNCHANGED <<db, temps, run, faults, answered>>
-----------------------------------------------------------------------------
(* DELETE /assets/:stableId/attachments/:attachmentId.                        *)

MarkAttachmentDeleted(i) ==
  /\ row' = [row EXCEPT ![i] = IF @ = "deleting" THEN "deleted" ELSE @]
  /\ stale' = [stale EXCEPT ![i] = FALSE]

StartDelete(p, i) ==
  /\ proc[p].at = "idle" /\ row[i] \in {"active", "deleting"}
  /\ proc' = [proc EXCEPT ![p] = [at |-> "markDeleting", id |-> i]]
  /\ UNCHANGED <<db, files, temps, run, faults, answered, met>>

\* MUTANT of StillStale: updated_at is set by every request.
StillStaleNever(i) == FALSE

\* updated_at is set by the first request only.
StillStale(i) == row[i] = "deleting" /\ stale[i]

MarkDeleting(p) ==
  LET i == proc[p].id
  IN /\ proc[p].at = "markDeleting"
     /\ IF row[i] \in {"active", "deleting"}
        THEN /\ row' = [row EXCEPT ![i] = "deleting"]
             /\ stale' = [stale EXCEPT ![i] = StillStale(i)]
             /\ answered' = answered \ {i} /\ met' = met \ {i}
             /\ Goto(p, "unlink")
        ELSE Finish(p) /\ UNCHANGED <<db, answered, met>>
     /\ UNCHANGED <<files, temps, run, faults>>

Unlink(p) ==
  /\ proc[p].at = "unlink"
  /\ \/ files' = files \ {proc[p].id} /\ Goto(p, "markDeleted")
     \/ UNCHANGED files /\ Finish(p)
  /\ UNCHANGED <<db, temps, run, faults, answered, met>>

MarkDeleted(p) ==
  /\ proc[p].at = "markDeleted"
  /\ MarkAttachmentDeleted(proc[p].id)
  /\ Finish(p)
  /\ UNCHANGED <<files, temps, run, faults, answered, met>>

\* The process dies, or a statement fails.
Die(p) ==
  /\ proc[p].at # "idle"
  /\ Finish(p)
  /\ met' = met \ (Uploading \cap {proc[p].id})
  /\ UNCHANGED <<db, files, temps, run, faults, answered>>

BecomeStale(i) ==
  /\ row[i] = "deleting" /\ ~stale[i]
  /\ stale' = [stale EXCEPT ![i] = TRUE]
  /\ UNCHANGED <<row, files, temps, proc, run, faults, answered, met>>
-----------------------------------------------------------------------------
(* reconcileAttachments.                                                      *)

Rows == {i \in Ids : row[i] # "none"}
Listed == {i \in Rows : Cardinality({j \in Rows : j < i}) < RecordLimit}

\* listAttachmentsForReconciliation, oldest row first; one row more than the
\* limit is read to know that there are more. The files tell an administrator's
\* run only what to report: it looks for no orphans.
StartRun(s) ==
  /\ run[s].at = "idle"
  /\ run' = [run EXCEPT ![s] = [NoRun EXCEPT !.at = IF s = "global" THEN "list" ELSE "delete",
                                  !.cut = Listed # Rows,
                                  !.expected = {i \in Listed : row[i] # "deleted"},
                                  !.overdue = {i \in Listed : row[i] = "deleting" /\ stale[i]}]]
  /\ met' = IF s = "global" THEN met \cup Uploading ELSE met
  /\ UNCHANGED <<db, files, temps, proc, faults, answered>>

\* MUTANT of Orphans: a list that was cut is taken for all rows.
OrphansOfCut(r) == files \ r.expected

Orphans(r) == IF r.cut THEN {} ELSE files \ r.expected

\* inventory, after the rows were listed.
ListFiles(s) ==
  /\ run[s].at = "list"
  /\ run' = [run EXCEPT ![s] = [NoRun EXCEPT !.at = "delete", !.overdue = run[s].overdue,
                                          !.orphans = Orphans(run[s])]]
  /\ UNCHANGED <<db, files, temps, proc, faults, answered, met>>

Oldest(S) == CHOOSE i \in S : \A j \in S : i <= j

DeleteStale(s) ==
  /\ run[s].at = "delete" /\ run[s].overdue # {}
  /\ files' = files \ {Oldest(run[s].overdue)}
  /\ run' = [run EXCEPT ![s].at = "mark"]
  /\ UNCHANGED <<db, temps, proc, faults, answered, met>>

MarkStale(s) ==
  LET i == Oldest(run[s].overdue)
  IN /\ run[s].at = "mark"
     /\ MarkAttachmentDeleted(i)
     /\ run' = [run EXCEPT ![s].at = "delete", ![s].overdue = @ \ {i}]
     /\ UNCHANGED <<files, temps, proc, faults, answered, met>>

DeleteOrphan(s) ==
  /\ run[s].at = "delete" /\ run[s].overdue = {}
  /\ \E i \in run[s].orphans :
       /\ files' = files \ {i}
       /\ run' = [run EXCEPT ![s].orphans = @ \ {i}]
  /\ UNCHANGED <<db, temps, proc, faults, answered, met>>

EndRun(s) ==
  /\ run[s].at = "delete" /\ run[s].overdue = {} /\ run[s].orphans = {}
  /\ run' = [run EXCEPT ![s] = NoRun]
  /\ UNCHANGED <<db, files, temps, proc, faults, answered, met>>

\* An error ends the run, as the end of its process does.
FailRun(s) ==
  /\ run[s].at # "idle" /\ faults < MaxFaults
  /\ run' = [run EXCEPT ![s] = NoRun] /\ faults' = faults + 1
  /\ UNCHANGED <<db, files, temps, proc, answered, met>>
-----------------------------------------------------------------------------
ReconcileStep(s) ==
  StartRun(s) \/ ListFiles(s) \/ DeleteStale(s) \/ MarkStale(s) \/ DeleteOrphan(s) \/ EndRun(s)

Next ==
  \/ \E p \in Procs :
       \/ Unused # {} /\ StartUpload(p, NewId)
       \/ WriteTemporary(p) \/ Link(p) \/ UnlinkTemporary(p) \/ PutFails(p)
       \/ CreateAttachment(p) \/ CreateFails(p) \/ CleanUp(p)
       \/ \E i \in Ids : StartDelete(p, i)
       \/ MarkDeleting(p) \/ Unlink(p) \/ MarkDeleted(p) \/ Die(p)
  \/ \E i \in Ids : BecomeStale(i)
  \/ \E s \in Scopes : ReconcileStep(s) \/ FailRun(s)

\* Time passes, and the scheduled run comes back.
Fairness ==
  /\ \A i \in Ids : WF_vars(BecomeStale(i))
  /\ WF_vars(ReconcileStep("global"))

Spec == Init /\ [][Next]_vars /\ Fairness
-----------------------------------------------------------------------------
(* Properties.                                                                *)

\* Every variable is of its type.
TypeOK ==
  /\ row \in [Ids -> States] /\ stale \in [Ids -> BOOLEAN]
  /\ UNION {files, temps, answered, met} \subseteq Ids

\* An upload that was answered keeps its file until its deletion, unless the
\* scheduled run was listing while it was in progress. A row that says deleted
\* has no file, and no row's content is kept under a temporary name as well. The
\* files of the tenant exceed its quota by no more than the uploads between their
\* count and their insert.
FilesAreKept ==
  /\ TypeOK
  /\ \A i \in answered \ met : row[i] = "active" => i \in files
  /\ \A i \in files : row[i] # "deleted"
  /\ \A i \in temps : row[i] = "none"
  /\ Usage <= MaxFiles + Cardinality(Procs) - 1

\* A deletion that was asked for is finished in the end, and a file under a
\* storage key whose upload failed is removed, however often either is tried
\* again, fails or dies: as long as there are no more rows, deleted ones
\* included, than a run lists. A temporary file that a failed upload left is in
\* no list and stays.
Leftover(i) == row[i] = "deleting" \/ (i \in files \ Uploading /\ row[i] = "none")
LeftoversGo == \A i \in Ids : Leftover(i) ~> (~Leftover(i) \/ Cardinality(Rows) > RecordLimit)
=============================================================================
