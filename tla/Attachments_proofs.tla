-------------------------- MODULE Attachments_proofs --------------------------
(***************************************************************************)
(* Proofs about Attachments.  The argument: a number belongs to one upload *)
(* at a time; whoever removes a file knows something of its row that no    *)
(* later step undoes (a row that is deleting never becomes active again);  *)
(* and what the scheduled run takes for an orphan is neither answered nor  *)
(* on its way to be, unless the run was listing meanwhile.                 *)
(***************************************************************************)
EXTENDS Attachments, FiniteSetTheorems, WellFoundedInduction, TLAPS

Handler ==
  [at : {"idle", "put", "link", "tidy", "create", "cleanUp", "markDeleting", "unlink", "markDeleted"},
   id : 0 .. MaxUploads]
Run == [at : {"idle", "list", "delete", "mark"}, cut : BOOLEAN,
        expected : SUBSET Ids, overdue : SUBSET Ids, orphans : SUBSET Ids]

Types ==
  /\ row \in [Ids -> States] /\ stale \in [Ids -> BOOLEAN]
  /\ files \subseteq Ids /\ answered \subseteq Ids /\ met \subseteq Ids
  /\ proc \in [Procs -> Handler] /\ run \in [Scopes -> Run]

\* Rows against files and answers.
RowsInv ==
  /\ \A i \in answered : row[i] = "active" /\ i \in files \cup met
  /\ \A i \in files : row[i] # "deleted"

\* What a handler knows of its row and file.
HandlerOK(h) ==
  /\ h.at # "idle" => h.id \in Ids
  /\ h.at \in {"put", "link", "tidy", "create"} => row[h.id] = "none"
  /\ h.at \in {"tidy", "create"} => h.id \in files \cup met
  /\ h.at = "cleanUp" => h.id \notin answered
  /\ h.at = "markDeleting" => row[h.id] # "none"
  /\ h.at \in {"unlink", "markDeleted"} => row[h.id] \in {"deleting", "deleted"}
  /\ h.at = "markDeleted" => h.id \notin files

HandlersInv == \A p \in Procs : HandlerOK(proc[p])

\* An upload's number is its own.
IsUpload(h) == h.at \in {"put", "link", "tidy", "create", "cleanUp"}
DistinctInv ==
  \A p, q \in Procs : IsUpload(proc[p]) /\ IsUpload(proc[q]) /\ proc[p].id = proc[q].id => p = q

\* Uploads that were answered, or still may be.
IsPending(h) == h.at \in {"put", "link", "tidy", "create"}
Live == answered \cup {proc[p].id : p \in {q \in Procs : IsPending(proc[q])}}

\* What a reconciliation knows.
RunOK(r) ==
  /\ r.at = "list" => r.cut \/ Live \subseteq r.expected \cup met
  /\ Live \cap r.orphans \subseteq met
  /\ \A i \in r.overdue : row[i] \in {"deleting", "deleted"}
  /\ r.at = "mark" => r.overdue # {} /\ Oldest(r.overdue) \notin files

RunsInv ==
  /\ \A s \in Scopes : RunOK(run[s])
  /\ run["tenant"].at # "list"

Inv == Types /\ RowsInv /\ HandlersInv /\ DistinctInv /\ RunsInv

-----------------------------------------------------------------------------
(* The data.                                                               *)

LEMMA StrictPair ==
    ASSUME NEW S, NEW A \in SUBSET S, NEW B \in SUBSET S, A \subseteq B, A # B
    PROVE  <<A, B>> \in StrictSubsetOrdering(S)
BY DEF StrictSubsetOrdering

\* A finite set of numbers has a least element.
LEMMA Least ==
    ASSUME NEW S \in SUBSET Ids, S # {}
    PROVE  \E i \in S : \A j \in S : i <= j
<1> DEFINE Under(i) == {j \in S : j < i}
           T == {Under(i) : i \in S}
<1>1. IsFiniteSet(S) /\ S \subseteq Nat
  <2>1. MaxUploads \in Nat
    BY AttachmentsAssumption
  <2>2. IsFiniteSet(Ids) /\ Ids \subseteq Nat
    BY <2>1, FS_Interval DEF Ids
  <2> QED  BY <2>2, FS_Subset
<1>2. T \subseteq FiniteSubsetsOf(S) /\ T # {}
  <2>1. ASSUME NEW i \in S PROVE Under(i) \in FiniteSubsetsOf(S)
    <3>1. Under(i) \in SUBSET S
      OBVIOUS
    <3> QED  BY <1>1, <3>1, FS_Subset DEF FiniteSubsetsOf
  <2> QED  BY <2>1
<1>3. PICK U \in T : \A V \in T : ~(<<V, U>> \in StrictSubsetOrdering(S))
  <2> HIDE DEF T
  <2>1. IsWellFoundedOn(StrictSubsetOrdering(S), FiniteSubsetsOf(S))
    BY FS_StrictSubsetOrderingWellFounded
  <2> QED  BY <1>2, <2>1, WFMin, Zenon
<1>4. PICK i \in S : U = Under(i)
  OBVIOUS
<1>5. ASSUME NEW j \in S, ~(i <= j)
      PROVE  FALSE
  <2>1. i \in Nat /\ j \in Nat /\ j < i
    BY <1>1, <1>5
  <2>2. Under(i) \in SUBSET S /\ Under(j) \subseteq Under(i) /\ Under(j) # Under(i)
    <3>1. ASSUME NEW k \in Under(j) PROVE k \in Under(i)
      <4>1. k \in Nat /\ k < j
        BY <1>1
      <4> QED  BY <2>1, <4>1
    <3>2. j \in Under(i) /\ j \notin Under(j)
      BY <2>1
    <3> QED  BY <3>1, <3>2
  <2>3. <<Under(j), Under(i)>> \in StrictSubsetOrdering(S)
    BY <1>1, <2>2, StrictPair
  <2> QED  BY <1>3, <1>4, <2>3
<1> QED  BY <1>5

LEMMA OldestIn ==
    ASSUME NEW S \in SUBSET Ids, S # {}
    PROVE  Oldest(S) \in S
BY Least DEF Oldest

LEMMA NewIdUnused == Unused # {} => NewId \in Unused
<1> SUFFICES ASSUME Unused # {} PROVE NewId \in Unused
  OBVIOUS
<1>1. Unused \subseteq Ids
  BY DEF Unused
<1>2. \E i \in Unused : \A j \in Unused : i <= j
  BY <1>1, Least
<1> QED  BY <1>2 DEF NewId

LEMMA IdsAreNumbers == /\ 0 \notin Ids /\ Ids \subseteq 0 .. MaxUploads
                       /\ IsFiniteSet(Ids) /\ MaxUploads \in Nat
<1>1. MaxUploads \in Nat
  BY AttachmentsAssumption
<1> QED  BY <1>1, FS_Interval DEF Ids

\* Who uploads, by its handler.
LEMMA UploadingIs ==
    /\ \A p \in Procs : IsUpload(proc[p]) => proc[p].id \in Uploading
    /\ \A i \in Uploading : \E p \in Procs : IsUpload(proc[p]) /\ proc[p].id = i
BY DEF Uploading, IsUpload

\* An upload in progress was not answered.
LEMMA UnansweredUploads ==
    ASSUME Inv, NEW p \in Procs, IsUpload(proc[p])
    PROVE  proc[p].id \notin answered /\ proc[p].id \in Ids
BY DEF Inv, HandlersInv, HandlerOK, RowsInv, IsUpload

-----------------------------------------------------------------------------
(* The steps.                                                              *)

LEMMA InvInit == Init => Inv
<1> SUFFICES ASSUME Init PROVE Inv
  OBVIOUS
<1> USE DEF Init
<1>1. \A p \in Procs : proc[p] = Idle
  OBVIOUS
<1>2. \A s \in Scopes : run[s] = NoRun
  OBVIOUS
<1>3. Types
  <2>1. Idle \in Handler /\ NoRun \in Run
    BY IdsAreNumbers DEF Idle, NoRun, Handler, Run
  <2> QED  BY <2>1 DEF Types, States
<1>4. RowsInv
  BY DEF RowsInv
<1>5. HandlersInv /\ DistinctInv
  BY <1>1 DEF HandlersInv, HandlerOK, DistinctInv, IsUpload, Idle
<1>6. Live = {}
  BY <1>1 DEF Live, IsPending, Idle
<1>7. RunsInv
  BY <1>2, <1>6 DEF RunsInv, RunOK, NoRun, Scopes
<1> QED  BY <1>3, <1>4, <1>5, <1>7 DEF Inv

\* A handler goes on, and nothing that others rely on is lost: no row leaves its
\* deletion or vanishes, no file that is needed goes, no upload becomes live.
LEMMA HandlerStep ==
    ASSUME Inv, NEW p \in Procs, NEW h \in Handler, proc' = [proc EXCEPT ![p] = h],
           UNCHANGED run,
           row' \in [Ids -> States], stale' \in [Ids -> BOOLEAN],
           files' \subseteq Ids, answered' \subseteq Ids, met' \subseteq Ids,
           HandlerOK(h)', IsUpload(h) => IsUpload(proc[p]) /\ h.id = proc[p].id,
           RowsInv',
           Live' \subseteq Live,
           \A i \in Ids : row[i] \in {"deleting", "deleted"} => row'[i] \in {"deleting", "deleted"},
           \A i \in Ids : row[i] # "none" => row'[i] # "none",
           \A i \in Ids : row[i] = "none" /\ row'[i] # "none" => IsUpload(proc[p]) /\ proc[p].id = i,
           \A i \in answered' : i \in answered \/ (IsUpload(proc[p]) /\ proc[p].id = i),
           \A i \in met : i \in met' \/ i \notin Live',
           \A i \in files : i \in files' \/ i \notin Live',
           \A i \in files' : i \in files \/ row[i] = "none"
    PROVE  Inv'
<1>1. Types
  BY DEF Inv
<1>2. Types'
  BY <1>1 DEF Types
<1>3. \A q \in Procs : proc'[q] = IF q = p THEN h ELSE proc[q]
  BY <1>1 DEF Types
<1>4. HandlersInv'
  <2> SUFFICES ASSUME NEW q \in Procs PROVE HandlerOK(proc[q])'
    BY DEF HandlersInv
  <2>1. CASE q = p
    BY <1>3, <2>1
  <2>2. CASE q # p
    <3>1. proc'[q] = proc[q]
      BY <1>3, <2>2
    <3>2. HandlerOK(proc[q])
      BY DEF Inv, HandlersInv
    <3>3. IsUpload(proc[q]) => ~(IsUpload(proc[p]) /\ proc[p].id = proc[q].id)
      BY <2>2 DEF Inv, DistinctInv
    <3>4. IsPending(proc[q]) => proc[q].id \in Live'
      BY <3>1 DEF Live
    <3>5. CASE proc[q].at = "idle"
      BY <3>1, <3>5 DEF HandlerOK
    <3>6. CASE proc[q].at \in {"put", "link", "tidy", "create"}
      BY <3>1, <3>2, <3>3, <3>4, <3>6 DEF HandlerOK, IsUpload, IsPending
    <3>7. CASE proc[q].at = "cleanUp"
      BY <3>1, <3>2, <3>3, <3>7 DEF HandlerOK, IsUpload
    <3>8. CASE proc[q].at \in {"markDeleting", "unlink", "markDeleted"}
      <4>1. row[proc[q].id] # "none" /\ proc[q].id \in Ids
        BY <3>2, <3>8 DEF HandlerOK
      <4>2. proc[q].id \in files' => proc[q].id \in files
        BY <4>1
      <4> QED  BY <3>1, <3>2, <3>8, <4>1, <4>2 DEF HandlerOK
    <3> QED  BY <1>1, <3>5, <3>6, <3>7, <3>8 DEF Types, Handler
  <2> QED  BY <2>1, <2>2
<1>5. DistinctInv'
  BY <1>3 DEF Inv, DistinctInv
<1>6. RunsInv'
  <2> SUFFICES ASSUME NEW s \in Scopes PROVE RunOK(run[s])'
    BY DEF Inv, RunsInv
  <2>1. RunOK(run[s]) /\ run[s] \in Run /\ run'[s] = run[s]
    BY <1>1 DEF Inv, RunsInv, Types
  <2>2. Live' \cap met \subseteq met'
    BY <1>1 DEF Types
  <2>3. run[s].overdue \subseteq Ids
    BY <2>1 DEF Run
  <2>4. \A i \in run[s].overdue : row[i] \in {"deleting", "deleted"} /\ row'[i] \in {"deleting", "deleted"}
    BY <2>1, <2>3 DEF RunOK
  <2>5. run[s].at = "mark" => run[s].overdue # {} /\ Oldest(run[s].overdue) \notin files'
    BY <2>1, <2>3, <2>4, OldestIn DEF RunOK
  <2> QED  BY <2>1, <2>2, <2>4, <2>5 DEF RunOK
<1> QED  BY <1>2, <1>4, <1>5, <1>6 DEF Inv

\* Live uploads have no row or an active one.
LEMMA LiveRows ==
    ASSUME Inv
    PROVE  \A i \in Live : i \in Ids /\ row[i] \in {"none", "active"}
BY DEF Inv, Types, RowsInv, HandlersInv, HandlerOK, Live, IsPending

\* Live uploads after a handler went on.
LEMMA LiveAfter ==
    ASSUME Inv, NEW p \in Procs, NEW h \in Handler, proc' = [proc EXCEPT ![p] = h],
           IsPending(h) => IsPending(proc[p]) /\ h.id = proc[p].id
    PROVE  /\ \A i \in Live' : i \in answered' \/ i \in Live
           /\ IsUpload(proc[p]) /\ ~IsPending(h) => \A i \in Live' : i \in answered' \/ i # proc[p].id
<1>1. \A q \in Procs : proc'[q] = IF q = p THEN h ELSE proc[q]
  BY DEF Inv, Types
<1>2. ASSUME NEW i \in Live', i \notin answered'
      PROVE  /\ i \in Live
             /\ IsUpload(proc[p]) /\ ~IsPending(h) => i # proc[p].id
  <2>1. PICK q \in Procs : IsPending(proc'[q]) /\ proc'[q].id = i
    BY <1>2 DEF Live
  <2>2. IsPending(proc[q]) /\ proc[q].id = i
    BY <1>1, <2>1
  <2>3. IsUpload(proc[p]) /\ ~IsPending(h) => q # p /\ i # proc[p].id
    BY <1>1, <2>1, <2>2 DEF Inv, DistinctInv, IsPending, IsUpload
  <2> QED  BY <2>2, <2>3 DEF Live
<1> QED  BY <1>2

LEMMA IdleHandler == Idle \in Handler /\ Idle.at = "idle" /\ ~IsPending(Idle) /\ ~IsUpload(Idle)
BY IdsAreNumbers DEF Idle, Handler, IsPending, IsUpload

LEMMA Went ==
    ASSUME NEW h \in Handler, NEW at \in {"link", "tidy", "create", "cleanUp", "unlink", "markDeleted"}
    PROVE  \E g \in Handler : g = [h EXCEPT !.at = at] /\ g.at = at /\ g.id = h.id
<1> DEFINE g == [h EXCEPT !.at = at]
<1>1. g \in Handler /\ g.at = at /\ g.id = h.id
  BY DEF Handler
<1> QED  BY <1>1

\* Only a handler changes, and it takes up no upload.
LEMMA QuietStep ==
    ASSUME Inv, NEW p \in Procs, NEW h \in Handler, proc' = [proc EXCEPT ![p] = h],
           UNCHANGED <<db, run, answered, met>>, files' \subseteq files,
           \A i \in files : i \in files' \/ i \notin Live',
           HandlerOK(h)', IsUpload(h) => IsUpload(proc[p]) /\ h.id = proc[p].id,
           IsPending(h) => IsPending(proc[p])
    PROVE  Inv'
<1>1. UNCHANGED <<row, stale, run, answered, met>>
  BY DEF db
<1>2. row \in [Ids -> States] /\ stale \in [Ids -> BOOLEAN] /\ files \subseteq Ids
      /\ answered \subseteq Ids /\ met \subseteq Ids
  BY DEF Inv, Types
<1>3. IsPending(h) => h.id = proc[p].id
  BY DEF IsPending, IsUpload
<1>4. Live' \subseteq Live
  BY <1>1, <1>3, LiveAfter DEF Live
<1>5. RowsInv'
  BY <1>1 DEF Inv, RowsInv, Live
<1> QED  BY <1>1, <1>2, <1>4, <1>5, HandlerStep

\* The steps of put.
LEMMA PutSteps ==
    ASSUME Inv, NEW p \in Procs, WriteTemporary(p) \/ Link(p) \/ UnlinkTemporary(p)
    PROVE  Inv'
<1> DEFINE i == proc[p].id
<1>1. /\ proc[p] \in Handler /\ HandlerOK(proc[p]) /\ files \subseteq Ids
      /\ row \in [Ids -> States] /\ stale \in [Ids -> BOOLEAN]
      /\ answered \subseteq Ids /\ met \subseteq Ids
  BY DEF Inv, Types, HandlersInv
<1>2. ASSUME NEW at \in {"link", "create"}, Goto(p, at), UNCHANGED <<db, files, run, answered, met>>,
             proc[p].at \in {"put", "tidy"}, at = "create" => proc[p].at = "tidy"
      PROVE  Inv'
  <2>1. PICK h \in Handler : h = [proc[p] EXCEPT !.at = at] /\ h.at = at /\ h.id = i
    <3>1. [proc[p] EXCEPT !.at = at] \in Handler /\ [proc[p] EXCEPT !.at = at].at = at
          /\ [proc[p] EXCEPT !.at = at].id = i
      BY <1>1, <1>2 DEF Handler
    <3> QED  BY <3>1, Zenon
  <2>2. proc' = [proc EXCEPT ![p] = h]
    BY <1>2, <2>1 DEF Goto, Inv, Types
  <2>3. HandlerOK(h)'
    BY <1>1, <1>2, <2>1 DEF HandlerOK, db
  <2> QED  BY <1>2, <2>1, <2>2, <2>3, QuietStep DEF IsUpload, IsPending
<1>3. CASE Link(p)
  <2>1. i \in Ids /\ row[i] = "none" /\ proc[p].at = "link"
    BY <1>1, <1>3 DEF Link, HandlerOK
  <2>2. PICK h \in Handler : h = [proc[p] EXCEPT !.at = "tidy"] /\ h.at = "tidy" /\ h.id = i
    BY <1>1, Went
  <2>3. proc' = [proc EXCEPT ![p] = h]
    BY <1>3, <2>2 DEF Link, Goto, Inv, Types
  <2>4. UNCHANGED <<row, stale, run, answered, met>> /\ files' = files \cup {i}
    BY <1>3 DEF Link, db
  <2>5. HandlerOK(h)'
    BY <2>1, <2>2, <2>4 DEF HandlerOK
  <2>6. RowsInv'
    BY <2>1, <2>4 DEF Inv, RowsInv
  <2>7. Live' \subseteq Live
    BY <2>1, <2>2, <2>3, <2>4, LiveAfter DEF Live, IsPending
  <2> QED  BY <1>1, <2>1, <2>2, <2>3, <2>4, <2>5, <2>6, <2>7, HandlerStep DEF IsUpload
<1> QED  BY <1>2, <1>3 DEF WriteTemporary, UnlinkTemporary

\* An upload that ends without an answer, and may leave or remove its file.
LEMMA UploadEnds ==
    ASSUME Inv, NEW p \in Procs, IsUpload(proc[p]),
           proc' = [proc EXCEPT ![p] = Idle],
           UNCHANGED <<db, run, answered>>, met' \in {met, met \ {proc[p].id}},
           files' \in {files, files \ {proc[p].id}}
    PROVE  Inv'
<1> DEFINE i == proc[p].id
<1>1. /\ i \in Ids /\ i \notin answered
      /\ row \in [Ids -> States] /\ stale \in [Ids -> BOOLEAN] /\ files \subseteq Ids
      /\ answered \subseteq Ids /\ met \subseteq Ids
  BY UnansweredUploads DEF Inv, Types, HandlersInv, HandlerOK
<1>2. UNCHANGED <<row, stale, run, answered>>
  BY DEF db
<1>3. HandlerOK(Idle)'
  BY IdleHandler DEF HandlerOK
<1>4. RowsInv'
  BY <1>1, <1>2 DEF Inv, RowsInv
<1>5. Live' \subseteq Live /\ i \notin Live'
  BY <1>1, <1>2, LiveAfter, IdleHandler DEF Live
<1> QED  BY <1>1, <1>2, <1>3, <1>4, <1>5, IdleHandler, HandlerStep

\* The row of an upload is stored, with the answer or without.
LEMMA RowStored ==
    ASSUME Inv, NEW p \in Procs, proc[p].at = "create", NEW h \in Handler,
           proc' = [proc EXCEPT ![p] = h], Insert(proc[p].id), UNCHANGED <<files, run, met>>,
           \/ h = Idle /\ answered' = answered \cup {proc[p].id}
           \/ h = [proc[p] EXCEPT !.at = "cleanUp"] /\ answered' = answered
    PROVE  Inv'
<1> DEFINE i == proc[p].id
<1>1. /\ i \in Ids /\ i \notin answered /\ row[i] = "none" /\ i \in files \cup met
      /\ row \in [Ids -> States] /\ stale \in [Ids -> BOOLEAN] /\ files \subseteq Ids
      /\ answered \subseteq Ids /\ met \subseteq Ids /\ proc[p] \in Handler
  BY UnansweredUploads DEF Inv, Types, HandlersInv, HandlerOK, IsUpload
<1>2. row' = [row EXCEPT ![i] = "active"] /\ stale' = stale
  BY DEF Insert
<1>3. row' \in [Ids -> States] /\ \A j \in Ids : row'[j] = IF j = i THEN "active" ELSE row[j]
  BY <1>1, <1>2 DEF States
<1>4. /\ ~IsPending(h) /\ (IsUpload(h) => h.id = i) /\ HandlerOK(h)'
      /\ answered' \subseteq answered \cup {i}
  <2>1. CASE h = Idle
    BY <2>1, IdleHandler DEF HandlerOK
  <2>2. CASE h = [proc[p] EXCEPT !.at = "cleanUp"] /\ answered' = answered
    <3>1. h.at = "cleanUp" /\ h.id = i
      BY <1>1, <2>2 DEF Handler
    <3> QED  BY <1>1, <2>2, <3>1 DEF HandlerOK, IsPending
  <2> QED  BY <2>1, <2>2, IdleHandler
<1>5. RowsInv'
  BY <1>1, <1>3, <1>4 DEF Inv, RowsInv
<1>6. Live' \subseteq Live
  <2>1. i \in Live
    BY DEF Live, IsPending
  <2> QED  BY <1>4, <2>1, LiveAfter DEF Live
<1> QED  BY <1>1, <1>2, <1>3, <1>4, <1>5, <1>6, HandlerStep DEF IsUpload

LEMMA UploadSteps ==
    ASSUME Inv, NEW p \in Procs,
           \/ WriteTemporary(p) \/ Link(p) \/ UnlinkTemporary(p) \/ PutFails(p)
           \/ CreateAttachment(p) \/ CreateFails(p) \/ CleanUp(p)
    PROVE  Inv'
<1>1. CASE WriteTemporary(p) \/ Link(p) \/ UnlinkTemporary(p)
  BY <1>1, PutSteps
<1>2. CASE PutFails(p) \/ CleanUp(p)
  BY <1>2, UploadEnds DEF PutFails, CleanUp, Finish, IsUpload
<1>3. CASE CreateAttachment(p)
  BY <1>3, RowStored, IdleHandler DEF CreateAttachment, Finish
<1>4. CASE CreateFails(p)
  <2>1. PICK h \in Handler : /\ h = [proc[p] EXCEPT !.at = "cleanUp"] /\ h.at = "cleanUp"
                              /\ h.id = proc[p].id /\ proc[p].at = "create"
    BY <1>4, Went DEF Inv, Types, CreateFails
  <2>2. proc' = [proc EXCEPT ![p] = h]
    BY <1>4, <2>1 DEF CreateFails, Goto, Inv, Types
  <2>3. CASE Insert(proc[p].id)
    BY <1>4, <2>1, <2>2, <2>3, RowStored DEF CreateFails
  <2>4. CASE UNCHANGED db
    <3>1. proc[p].id \notin answered /\ proc[p].id \in Ids
      BY <2>1, UnansweredUploads DEF IsUpload
    <3>2. HandlerOK(h)'
      BY <1>4, <2>1, <3>1 DEF HandlerOK, CreateFails
    <3> QED  BY <1>4, <2>1, <2>2, <2>4, <3>2, QuietStep DEF CreateFails, IsUpload, IsPending
  <2> QED  BY <1>4, <2>3, <2>4 DEF CreateFails
<1> QED  BY <1>1, <1>2, <1>3, <1>4

LEMMA DeleteStarts ==
    ASSUME Inv, NEW p \in Procs, NEW i \in Ids, StartDelete(p, i)
    PROVE  Inv'
<1>1. PICK h \in Handler : h = [at |-> "markDeleting", id |-> i]
  BY IdsAreNumbers DEF Handler
<1>2. HandlerOK(h)'
  BY <1>1 DEF StartDelete, HandlerOK, db
<1>3. ~IsUpload(h) /\ ~IsPending(h)
  BY <1>1 DEF IsUpload, IsPending
<1> QED  BY <1>1, <1>2, <1>3, QuietStep DEF StartDelete

LEMMA DeletionMarked ==
    ASSUME Inv, NEW p \in Procs, MarkDeleting(p)
    PROVE  Inv'
<1> DEFINE i == proc[p].id
<1>1. /\ i \in Ids /\ row[i] # "none" /\ proc[p] \in Handler /\ proc[p].at = "markDeleting"
      /\ row \in [Ids -> States] /\ stale \in [Ids -> BOOLEAN] /\ files \subseteq Ids
      /\ answered \subseteq Ids /\ met \subseteq Ids
  BY DEF MarkDeleting, Inv, Types, HandlersInv, HandlerOK
<1>2. CASE row[i] \in {"active", "deleting"}
  <2>1. /\ row' = [row EXCEPT ![i] = "deleting"] /\ UNCHANGED <<files, run>>
        /\ answered' = answered \ {i} /\ met' = met \ {i}
    BY <1>2 DEF MarkDeleting
  <2>2. stale' \in [Ids -> BOOLEAN]
    <3>1. StillStale(i) \in BOOLEAN
      BY DEF StillStale
    <3>2. PICK b \in BOOLEAN : b = StillStale(i)
      BY <3>1
    <3>3. stale' = [stale EXCEPT ![i] = b]
      BY <1>2, <3>2 DEF MarkDeleting
    <3> QED  BY <1>1, <3>3
  <2>3. PICK h \in Handler : h = [proc[p] EXCEPT !.at = "unlink"] /\ h.at = "unlink" /\ h.id = i
    BY <1>1, Went
  <2>4. proc' = [proc EXCEPT ![p] = h]
    BY <1>2, <2>3 DEF MarkDeleting, Goto, Inv, Types
  <2>5. row' \in [Ids -> States] /\ \A j \in Ids : row'[j] = IF j = i THEN "deleting" ELSE row[j]
    BY <1>1, <2>1 DEF States
  <2>6. HandlerOK(h)' /\ ~IsUpload(h) /\ ~IsPending(h)
    BY <1>1, <2>3, <2>5 DEF HandlerOK, IsUpload, IsPending
  <2>7. RowsInv'
    BY <1>1, <2>1, <2>5 DEF Inv, RowsInv
  <2>8. \A j \in Live' : j \in answered' \/ j \in Live
    BY <2>4, <2>6, LiveAfter
  <2>9. \A j \in Live' : j \in Live /\ j # i
    <3>1. ASSUME NEW q \in Procs, IsPending(proc'[q])
          PROVE  proc[q] = proc'[q] /\ proc[q].id # i
      <4>1. proc'[q] = proc[q]
        BY <2>4, <2>6, <3>1 DEF Inv, Types
      <4>2. row[proc[q].id] = "none"
        BY <3>1, <4>1 DEF Inv, HandlersInv, HandlerOK, IsPending
      <4> QED  BY <1>1, <4>1, <4>2
    <3> QED  BY <2>1, <3>1 DEF Live
  <2> QED
    BY <1>1, <1>2, <2>1, <2>2, <2>3, <2>4, <2>5, <2>6, <2>7, <2>9, HandlerStep
<1>3. CASE row[i] \notin {"active", "deleting"}
  <2>1. proc' = [proc EXCEPT ![p] = Idle] /\ UNCHANGED <<db, run, files, answered, met>>
    BY <1>3 DEF MarkDeleting, Finish
  <2>2. HandlerOK(Idle)'
    BY IdleHandler DEF HandlerOK
  <2> QED  BY <2>1, <2>2, IdleHandler, QuietStep
<1> QED  BY <1>2, <1>3

\* The file of a row whose deletion began is needed by nobody.
LEMMA FileRemoved ==
    ASSUME Inv, NEW p \in Procs, Unlink(p)
    PROVE  Inv'
<1> DEFINE i == proc[p].id
<1>1. /\ i \in Ids /\ row[i] \in {"deleting", "deleted"} /\ proc[p] \in Handler
      /\ proc[p].at = "unlink" /\ UNCHANGED <<db, run, answered, met>>
  BY DEF Unlink, Inv, Types, HandlersInv, HandlerOK
<1>2. CASE files' = files \ {i} /\ Goto(p, "markDeleted")
  <2>1. PICK h \in Handler : /\ h = [proc[p] EXCEPT !.at = "markDeleted"]
                             /\ h.at = "markDeleted" /\ h.id = i
    BY <1>1, Went
  <2>2. proc' = [proc EXCEPT ![p] = h]
    BY <1>2, <2>1 DEF Goto, Inv, Types
  <2>3. HandlerOK(h)' /\ ~IsUpload(h) /\ ~IsPending(h)
    BY <1>1, <1>2, <2>1 DEF HandlerOK, IsUpload, IsPending, db
  <2>4. i \notin Live'
    <3>1. i \in Live' => i \in Live
      BY <1>1, <2>2, <2>3, LiveAfter DEF Live
    <3> QED  BY <1>1, <3>1, LiveRows
  <2> QED  BY <1>1, <1>2, <2>2, <2>3, <2>4, QuietStep
<1>3. CASE UNCHANGED files /\ Finish(p)
  <2>1. HandlerOK(Idle)'
    BY IdleHandler DEF HandlerOK
  <2> QED  BY <1>1, <1>3, <2>1, IdleHandler, QuietStep DEF Finish
<1> QED  BY <1>2, <1>3 DEF Unlink

\* A row that is marked was in its deletion.
LEMMA MarkedRow ==
    ASSUME Inv, NEW i \in Ids, MarkAttachmentDeleted(i)
    PROVE  /\ row' \in [Ids -> States] /\ stale' \in [Ids -> BOOLEAN]
           /\ \A j \in Ids : row'[j] = IF j = i /\ row[i] = "deleting" THEN "deleted" ELSE row[j]
BY DEF Inv, Types, MarkAttachmentDeleted, States

LEMMA DeletionEnds ==
    ASSUME Inv, NEW p \in Procs, MarkDeleted(p)
    PROVE  Inv'
<1> DEFINE i == proc[p].id
<1>1. /\ i \in Ids /\ row[i] \in {"deleting", "deleted"} /\ i \notin files
      /\ files \subseteq Ids /\ answered \subseteq Ids /\ met \subseteq Ids
      /\ UNCHANGED <<files, run, answered, met>> /\ proc' = [proc EXCEPT ![p] = Idle]
  BY DEF MarkDeleted, Finish, Inv, Types, HandlersInv, HandlerOK
<1>2. /\ row' \in [Ids -> States] /\ stale' \in [Ids -> BOOLEAN]
      /\ \A j \in Ids : row'[j] = IF j = i /\ row[i] = "deleting" THEN "deleted" ELSE row[j]
  BY <1>1, MarkedRow DEF MarkDeleted
<1>3. HandlerOK(Idle)'
  BY IdleHandler DEF HandlerOK
<1>4. RowsInv'
  BY <1>1, <1>2 DEF Inv, RowsInv
<1>5. Live' \subseteq Live
  BY <1>1, LiveAfter, IdleHandler DEF Live
<1> QED  BY <1>1, <1>2, <1>3, <1>4, <1>5, IdleHandler, HandlerStep

LEMMA HandlerDies ==
    ASSUME Inv, NEW p \in Procs, Die(p)
    PROVE  Inv'
<1>1. /\ proc' = [proc EXCEPT ![p] = Idle] /\ met' = met \ (Uploading \cap {proc[p].id})
      /\ UNCHANGED <<db, files, run, answered>>
  BY DEF Die, Finish
<1>2. CASE IsUpload(proc[p])
  <2>1. met' = met \ {proc[p].id}
    BY <1>1, <1>2, UploadingIs
  <2> QED  BY <1>1, <1>2, <2>1, UploadEnds
<1>3. CASE proc[p].id \notin Uploading
  <2>1. met' = met
    BY <1>1, <1>3
  <2>2. HandlerOK(Idle)'
    BY IdleHandler DEF HandlerOK
  <2> QED  BY <1>1, <2>1, <2>2, IdleHandler, QuietStep
\* The deletion of an attachment whose upload is being cleaned up.
<1>4. CASE proc[p].id \in Uploading /\ ~IsUpload(proc[p])
  <2> DEFINE i == proc[p].id
  <2>1. /\ i \in Ids /\ row[i] # "none" /\ i \notin answered
        /\ row \in [Ids -> States] /\ stale \in [Ids -> BOOLEAN] /\ files \subseteq Ids
        /\ answered \subseteq Ids /\ met \subseteq Ids
    <3>1. PICK q \in Procs : IsUpload(proc[q]) /\ proc[q].id = i
      BY <1>4, UploadingIs
    <3>2. proc[p].at \in {"markDeleting", "unlink", "markDeleted"}
      BY <1>4 DEF Die, Inv, Types, Handler, IsUpload
    <3> QED  BY <3>1, <3>2, UnansweredUploads DEF Inv, Types, HandlersInv, HandlerOK
  <2>2. UNCHANGED <<row, stale>> /\ met' = met \ {i}
    BY <1>1, <1>4 DEF db
  <2>3. Live' \subseteq Live
    BY <1>1, LiveAfter, IdleHandler DEF Live
  <2>4. i \notin Live
    <3>1. \A q \in Procs : IsPending(proc[q]) => row[proc[q].id] = "none"
      BY DEF Inv, HandlersInv, HandlerOK, IsPending
    <3> QED  BY <2>1, <3>1 DEF Live
  <2>5. RowsInv'
    BY <1>1, <2>1, <2>2 DEF Inv, RowsInv
  <2>6. HandlerOK(Idle)'
    BY IdleHandler DEF HandlerOK
  <2> QED  BY <1>1, <2>1, <2>2, <2>3, <2>4, <2>5, <2>6, IdleHandler, HandlerStep
<1> QED  BY <1>2, <1>3, <1>4

\* A new upload takes a number that nobody uses and no run will remove; a run
\* that is listing meets it.
LEMMA UploadStarts ==
    ASSUME Inv, NEW p \in Procs, NEW i \in Unused, StartUpload(p, i)
    PROVE  Inv'
<1> DEFINE h == [at |-> "put", id |-> i]
<1>1. /\ i \in Ids /\ row[i] = "none" /\ i \notin files /\ i \notin Uploading
      /\ \A s \in Scopes : i \notin run[s].orphans
  BY DEF Unused
<1>2. /\ proc' = [proc EXCEPT ![p] = h] /\ UNCHANGED <<row, stale, files, run, answered>>
      /\ met' = IF run["global"].at = "list" THEN met \cup {i} ELSE met
  BY DEF StartUpload, db
<1>3. h \in Handler /\ IsUpload(h) /\ IsPending(h)
  BY <1>1, IdsAreNumbers DEF Handler, IsUpload, IsPending
<1>4. \A q \in Procs : proc'[q] = IF q = p THEN h ELSE proc[q]
  BY <1>2 DEF Inv, Types
<1>5. Types'
  BY <1>1, <1>2, <1>3 DEF Inv, Types
<1>6. RowsInv'
  BY <1>2 DEF Inv, RowsInv
<1>7. HandlersInv'
  <2> SUFFICES ASSUME NEW q \in Procs PROVE HandlerOK(proc[q])'
    BY DEF HandlersInv
  <2>1. CASE q = p
    BY <1>1, <1>2, <1>4, <2>1 DEF HandlerOK
  <2>2. CASE q # p
    <3>1. HandlerOK(proc[q]) /\ proc'[q] = proc[q]
      BY <1>4, <2>2 DEF Inv, HandlersInv
    <3> QED  BY <1>2, <3>1 DEF HandlerOK
  <2> QED  BY <2>1, <2>2
<1>8. DistinctInv'
  <2>1. \A q \in Procs : IsUpload(proc[q]) => proc[q].id # i
    BY <1>1, UploadingIs
  <2> QED  BY <1>4, <2>1 DEF Inv, DistinctInv
<1>9. Live' \subseteq Live \cup {i}
  BY <1>2, <1>4 DEF Live
<1>10. RunsInv'
  <2> SUFFICES ASSUME NEW s \in Scopes PROVE RunOK(run[s])'
    BY <1>2 DEF Inv, RunsInv
  <2>1. RunOK(run[s]) /\ run'[s] = run[s] /\ i \notin run[s].orphans
    BY <1>1, <1>2 DEF Inv, RunsInv
  <2>2. run[s].at = "list" => i \in met'
    BY <1>2 DEF Inv, RunsInv, Scopes
  <2>3. met \subseteq met'
    BY <1>2
  <2> QED  BY <1>2, <1>9, <2>1, <2>2, <2>3 DEF RunOK
<1> QED  BY <1>5, <1>6, <1>7, <1>8, <1>10 DEF Inv

LEMMA TimePasses ==
    ASSUME Inv, NEW i \in Ids, BecomeStale(i)
    PROVE  Inv'
<1>1. UNCHANGED <<row, files, proc, run, answered, met>> /\ stale' = [stale EXCEPT ![i] = TRUE]
  BY DEF BecomeStale
<1>2. Types'
  BY <1>1 DEF Inv, Types
<1>3. RowsInv' /\ DistinctInv' /\ Live' = Live
  BY <1>1 DEF Inv, RowsInv, DistinctInv, Live
<1>4. HandlersInv'
  BY <1>1 DEF Inv, HandlersInv, HandlerOK
<1>5. RunsInv'
  BY <1>1, <1>3 DEF Inv, RunsInv, RunOK
<1> QED  BY <1>2, <1>3, <1>4, <1>5 DEF Inv

\* A run goes on. It marks rows that were in their deletion and removes files
\* that nobody needs.
LEMMA RunStep ==
    ASSUME Inv, NEW s \in Scopes, NEW r \in Run, run' = [run EXCEPT ![s] = r],
           UNCHANGED <<proc, answered>>, met \subseteq met', met' \subseteq Ids,
           row' \in [Ids -> States], stale' \in [Ids -> BOOLEAN],
           \A i \in Ids : row'[i] = row[i] \/ (row[i] = "deleting" /\ i \notin files /\ row'[i] = "deleted"),
           files' \subseteq files,
           \A i \in files : i \in files' \/ i \notin Live \/ i \in met,
           RunOK(r)', s = "tenant" => r.at # "list"
    PROVE  Inv'
<1>0. Types
  BY DEF Inv
<1>1. Types'
  BY <1>0 DEF Types
<1>2. Live' = Live
  BY DEF Live
<1>3. \A i \in Live : i \in Ids /\ row'[i] = row[i]
  BY LiveRows
<1>4. RowsInv'
  <2>1. \A i \in answered : i \in Live
    BY DEF Live
  <2> QED  BY <1>0, <1>3, <2>1 DEF Inv, RowsInv, Types
<1>5. HandlersInv'
  <2> SUFFICES ASSUME NEW p \in Procs PROVE HandlerOK(proc[p])'
    BY DEF HandlersInv
  <2>1. HandlerOK(proc[p]) /\ (IsPending(proc[p]) => proc[p].id \in Live)
    BY DEF Inv, HandlersInv, Live
  <2> QED  BY <1>3, <2>1 DEF HandlerOK, IsPending
<1>6. DistinctInv'
  BY DEF Inv, DistinctInv
<1>7. \A t \in Scopes : run'[t] = IF t = s THEN r ELSE run[t]
  BY <1>0 DEF Types
<1>8. RunsInv'
  <2>1. ASSUME NEW t \in Scopes PROVE RunOK(run[t])'
    <3>1. CASE t = s
      BY <1>7, <3>1
    <3>2. CASE t # s
      <4>1. RunOK(run[t]) /\ run'[t] = run[t] /\ run[t].overdue \subseteq Ids
        BY <1>0, <1>7, <3>2 DEF Inv, RunsInv, Types, Run
      <4>2. run[t].at = "mark" => Oldest(run[t].overdue) \notin files'
        BY <4>1 DEF RunOK
      <4> QED  BY <1>2, <4>1, <4>2 DEF RunOK
    <3> QED  BY <3>1, <3>2
  <2>2. run'["tenant"].at # "list"
    BY <1>7 DEF Inv, RunsInv, Scopes
  <2> QED  BY <2>1, <2>2 DEF RunsInv
<1> QED  BY <1>1, <1>4, <1>5, <1>6, <1>8 DEF Inv

LEMMA NoRunOK == NoRun \in Run /\ NoRun.at = "idle" /\ NoRun.overdue = {} /\ NoRun.orphans = {}
BY DEF NoRun, Run

\* A run that only goes on or ends, and keeps what it knows.
LEMMA RunGoesOn ==
    ASSUME Inv, NEW s \in Scopes, NEW r \in Run, run' = [run EXCEPT ![s] = r],
           UNCHANGED <<db, files, proc, answered, met>>,
           r.at \in {"idle", "delete"}, r.overdue \subseteq run[s].overdue,
           Live \cap r.orphans \subseteq met
    PROVE  Inv'
<1>1. UNCHANGED <<row, stale, files, proc, answered, met>>
  BY DEF db
<1>2. Live' = Live
  BY <1>1 DEF Live
<1>3. RunOK(r)'
  BY <1>1, <1>2 DEF Inv, RunsInv, RunOK
<1> QED  BY <1>1, <1>3, RunStep DEF Inv, Types

LEMMA RunStarts ==
    ASSUME Inv, NEW s \in Scopes, StartRun(s)
    PROVE  Inv'
<1>1. /\ UNCHANGED <<row, stale, files, proc, answered>>
      /\ met' = IF s = "global" THEN met \cup Uploading ELSE met
  BY DEF StartRun, db
<1>2. PICK b \in BOOLEAN : b = (Listed # Rows)
  OBVIOUS
<1> DEFINE expected == {i \in Listed : row[i] # "deleted"}
           overdue == {i \in Listed : row[i] = "deleting" /\ stale[i]}
           at == IF s = "global" THEN "list" ELSE "delete"
<1>3. Listed \subseteq Ids /\ expected \subseteq Ids /\ overdue \subseteq Ids
  BY DEF Listed, Rows
<1>4. PICK r \in Run : r = [NoRun EXCEPT !.at = at, !.cut = b, !.expected = expected, !.overdue = overdue]
  <2> HIDE DEF expected, overdue, at
  <2>1. at \in {"list", "delete"}
    BY DEF at
  <2>2. [NoRun EXCEPT !.at = at, !.cut = b, !.expected = expected, !.overdue = overdue] \in Run
    BY <1>3, <2>1 DEF NoRun, Run
  <2> QED  BY <2>2
<1>5. run' = [run EXCEPT ![s] = r]
  BY <1>2, <1>4 DEF StartRun
<1>6. /\ r.at = at /\ r.cut = b /\ r.expected = expected /\ r.overdue = overdue /\ r.orphans = {}
  BY <1>4 DEF NoRun
<1>7. met \subseteq met' /\ met' \subseteq Ids
  BY <1>1, UploadingIs, UnansweredUploads DEF Inv, Types
<1>8. Live' = Live
  BY <1>1 DEF Live
<1>9. s = "global" => b \/ Live \subseteq expected \cup met'
  <2> SUFFICES ASSUME s = "global", Listed = Rows, NEW i \in Live, i \notin met'
               PROVE  i \in expected
    BY <1>2
  <2>1. i \notin Uploading
    BY <1>1
  <2>2. i \in answered
    BY <2>1, UploadingIs DEF Live, IsPending, IsUpload
  <2>3. i \in Ids /\ row[i] = "active"
    BY <2>2 DEF Inv, RowsInv, Types
  <2> QED  BY <2>3 DEF Rows
<1>10. \A i \in overdue : row[i] \in {"deleting", "deleted"}
  OBVIOUS
<1> HIDE DEF expected, overdue
<1>11. RunOK(r)'
  BY <1>1, <1>6, <1>8, <1>9, <1>10 DEF RunOK
<1> QED  BY <1>1, <1>5, <1>6, <1>7, <1>11, RunStep DEF Inv, Types

LEMMA FilesListed ==
    ASSUME Inv, NEW s \in Scopes, ListFiles(s)
    PROVE  Inv'
<1>1. /\ run[s] \in Run /\ RunOK(run[s]) /\ files \subseteq Ids /\ run[s].at = "list"
      /\ UNCHANGED <<db, files, proc, answered, met>>
  BY DEF Inv, Types, RunsInv, ListFiles
<1> DEFINE orphans == Orphans(run[s])
<1>2. orphans \subseteq Ids /\ Live \cap orphans \subseteq met
  BY <1>1 DEF Orphans, RunOK
<1>3. [NoRun EXCEPT !.at = "delete", !.overdue = run[s].overdue, !.orphans = orphans] \in Run
  BY <1>1, <1>2 DEF NoRun, Run
<1>4. PICK r \in Run : r = [NoRun EXCEPT !.at = "delete", !.overdue = run[s].overdue, !.orphans = orphans]
  BY <1>3
<1>5. run' = [run EXCEPT ![s] = r]
  BY <1>4 DEF ListFiles
<1>6. r.at = "delete" /\ r.overdue = run[s].overdue /\ r.orphans = orphans
  BY <1>4 DEF NoRun
<1> QED  BY <1>1, <1>2, <1>5, <1>6, RunGoesOn

LEMMA StaleDeleted ==
    ASSUME Inv, NEW s \in Scopes, DeleteStale(s)
    PROVE  Inv'
<1> DEFINE i == Oldest(run[s].overdue)
<1>1. /\ run[s] \in Run /\ RunOK(run[s]) /\ run[s].at = "delete" /\ run[s].overdue # {}
      /\ UNCHANGED <<row, stale, proc, answered, met>> /\ files' = files \ {i}
  BY DEF Inv, Types, RunsInv, DeleteStale, db
<1>2. i \in run[s].overdue /\ i \in Ids
  BY <1>1, OldestIn DEF Run
<1>3. [run[s] EXCEPT !.at = "mark"] \in Run
  BY <1>1 DEF Run
<1>4. PICK r \in Run : r = [run[s] EXCEPT !.at = "mark"]
  BY <1>3
<1>5. run' = [run EXCEPT ![s] = r]
  BY <1>4 DEF DeleteStale, Inv, Types
<1>6. r.at = "mark" /\ r.overdue = run[s].overdue /\ r.orphans = run[s].orphans
  BY <1>1, <1>4 DEF Run
<1>7. i \notin Live
  BY <1>1, <1>2, LiveRows DEF RunOK
<1>8. Live' = Live
  BY <1>1 DEF Live
<1>9. RunOK(r)'
  BY <1>1, <1>6, <1>8 DEF RunOK
<1> QED  BY <1>1, <1>5, <1>6, <1>7, <1>9, RunStep DEF Inv, Types

LEMMA StaleMarked ==
    ASSUME Inv, NEW s \in Scopes, MarkStale(s)
    PROVE  Inv'
<1> DEFINE i == Oldest(run[s].overdue)
<1>1. /\ run[s] \in Run /\ RunOK(run[s]) /\ run[s].at = "mark"
      /\ UNCHANGED <<files, proc, answered, met>> /\ MarkAttachmentDeleted(i)
  BY DEF Inv, Types, RunsInv, MarkStale
<1>2. i \in run[s].overdue /\ i \in Ids /\ i \notin files
  BY <1>1, OldestIn DEF Run, RunOK
<1>3. /\ row' \in [Ids -> States] /\ stale' \in [Ids -> BOOLEAN]
      /\ \A j \in Ids : row'[j] = IF j = i /\ row[i] = "deleting" THEN "deleted" ELSE row[j]
  BY <1>1, <1>2, MarkedRow
<1>4. [run[s] EXCEPT !.at = "delete", !.overdue = run[s].overdue \ {i}] \in Run
  BY <1>1 DEF Run
<1>5. PICK r \in Run : r = [run[s] EXCEPT !.at = "delete", !.overdue = run[s].overdue \ {i}]
  BY <1>4
<1>6. run' = [run EXCEPT ![s] = r]
  BY <1>1, <1>5 DEF MarkStale, Inv, Types, Run
<1>7. r.at = "delete" /\ r.overdue \subseteq run[s].overdue /\ r.orphans = run[s].orphans
  BY <1>1, <1>5 DEF Run
<1>8. Live' = Live
  BY <1>1 DEF Live
<1>9. \A j \in run[s].overdue : j \in Ids /\ row'[j] \in {"deleting", "deleted"}
  BY <1>1, <1>3 DEF RunOK, Run
<1>10. RunOK(r)'
  BY <1>1, <1>7, <1>8, <1>9 DEF RunOK
<1> QED  BY <1>1, <1>2, <1>3, <1>6, <1>7, <1>10, RunStep DEF Inv, Types

LEMMA OrphanDeleted ==
    ASSUME Inv, NEW s \in Scopes, DeleteOrphan(s)
    PROVE  Inv'
<1>1. /\ run[s] \in Run /\ RunOK(run[s]) /\ run[s].at = "delete"
      /\ UNCHANGED <<row, stale, proc, answered, met>>
  BY DEF Inv, Types, RunsInv, DeleteOrphan, db
<1>2. PICK i \in run[s].orphans : /\ files' = files \ {i}
                                  /\ run' = [run EXCEPT ![s].orphans = @ \ {i}]
  BY DEF DeleteOrphan
<1>3. [run[s] EXCEPT !.orphans = run[s].orphans \ {i}] \in Run
  BY <1>1 DEF Run
<1>4. PICK r \in Run : r = [run[s] EXCEPT !.orphans = run[s].orphans \ {i}]
  BY <1>3
<1>5. run' = [run EXCEPT ![s] = r]
  BY <1>2, <1>4 DEF Inv, Types
<1>6. r.at = "delete" /\ r.overdue = run[s].overdue /\ r.orphans \subseteq run[s].orphans
  BY <1>1, <1>4 DEF Run
<1>7. i \in Live => i \in met
  BY <1>1 DEF RunOK
<1>8. Live' = Live
  BY <1>1 DEF Live
<1>9. RunOK(r)'
  BY <1>1, <1>6, <1>8 DEF RunOK
<1> QED  BY <1>1, <1>2, <1>5, <1>6, <1>7, <1>9, RunStep DEF Inv, Types

LEMMA RunEnds ==
    ASSUME Inv, NEW s \in Scopes, EndRun(s) \/ FailRun(s)
    PROVE  Inv'
BY NoRunOK, RunGoesOn DEF EndRun, FailRun

LEMMA InvNext == Inv /\ [Next]_vars => Inv'
<1> SUFFICES ASSUME Inv, [Next]_vars PROVE Inv'
  OBVIOUS
<1>1. ASSUME NEW p \in Procs, Unused # {}, StartUpload(p, NewId)
      PROVE  Inv'
  BY <1>1, NewIdUnused, UploadStarts
<1>2. ASSUME NEW p \in Procs,
             \/ WriteTemporary(p) \/ Link(p) \/ UnlinkTemporary(p) \/ PutFails(p)
             \/ CreateAttachment(p) \/ CreateFails(p) \/ CleanUp(p)
      PROVE  Inv'
  BY <1>2, UploadSteps
<1>3. ASSUME NEW p \in Procs, NEW i \in Ids, StartDelete(p, i)
      PROVE  Inv'
  BY <1>3, DeleteStarts
<1>4. ASSUME NEW p \in Procs, MarkDeleting(p) \/ Unlink(p) \/ MarkDeleted(p) \/ Die(p)
      PROVE  Inv'
  BY <1>4, DeletionMarked, FileRemoved, DeletionEnds, HandlerDies
<1>5. ASSUME NEW i \in Ids, BecomeStale(i)
      PROVE  Inv'
  BY <1>5, TimePasses
<1>6. ASSUME NEW s \in Scopes, ReconcileStep(s) \/ FailRun(s)
      PROVE  Inv'
  BY <1>6, RunStarts, FilesListed, StaleDeleted, StaleMarked, OrphanDeleted, RunEnds DEF ReconcileStep
<1>7. CASE UNCHANGED vars
  <2>1. UNCHANGED <<row, stale, files, proc, run, answered, met>>
    BY <1>7 DEF vars, db
  <2>2. Types' /\ RowsInv' /\ DistinctInv' /\ Live' = Live
    BY <2>1 DEF Inv, Types, RowsInv, DistinctInv, Live
  <2>3. HandlersInv'
    BY <2>1 DEF Inv, HandlersInv, HandlerOK
  <2>4. RunsInv'
    BY <2>1, <2>2 DEF Inv, RunsInv, RunOK
  <2> QED  BY <2>2, <2>3, <2>4 DEF Inv
<1> QED  BY <1>1, <1>2, <1>3, <1>4, <1>5, <1>6, <1>7 DEF Next

\* The invariant holds in every reachable state.
THEOREM Invariance == Spec => []Inv
<1> QED  BY InvInit, InvNext, PTL DEF Spec

-----------------------------------------------------------------------------
(* The quota.                                                              *)

Counted == {i \in Ids : row[i] \in {"active", "deleting"}}
Pending == {p \in Procs : IsPending(proc[p])}

\* Counted files, and uploads that may yet become counted.
QuotaInv == Cardinality(Counted) + Cardinality(Pending) <= MaxFiles + Cardinality(Procs) - 1

LEMMA Countable ==
    /\ IsFiniteSet(Counted) /\ Cardinality(Counted) \in Nat
    /\ IsFiniteSet(Pending) /\ Cardinality(Pending) \in Nat
    /\ IsFiniteSet(Procs) /\ Cardinality(Procs) \in Nat
    /\ Cardinality(Pending) <= Cardinality(Procs)
    /\ MaxFiles \in Nat \ {0}
<1>1. IsFiniteSet(Procs) /\ Pending \subseteq Procs /\ MaxFiles \in Nat \ {0}
  BY AttachmentsAssumption DEF Pending
<1>2. IsFiniteSet(Ids) /\ Counted \subseteq Ids
  BY IdsAreNumbers DEF Counted
<1> QED  BY <1>1, <1>2, FS_Subset, FS_CardinalityType

\* A step that counts no more rows and begins no upload.
LEMMA FewerKeepQuota ==
    ASSUME QuotaInv, Counted' \subseteq Counted, Pending' \subseteq Pending
    PROVE  QuotaInv'
<1>1. /\ Cardinality(Counted') \in Nat /\ Cardinality(Counted') <= Cardinality(Counted)
      /\ Cardinality(Pending') \in Nat /\ Cardinality(Pending') <= Cardinality(Pending)
  BY Countable, FS_Subset, FS_CardinalityType
<1> QED  BY <1>1, Countable DEF QuotaInv

\* An upload begins where there was room.
LEMMA StartKeepsQuota ==
    ASSUME NEW p \in Procs, NEW i \in Ids, StartUpload(p, i)
    PROVE  QuotaInv'
<1>1. Counted' = Counted
  BY DEF StartUpload, db, Counted
<1>2. Pending' \in SUBSET Procs
  BY DEF Pending
<1>3. Cardinality(Pending') \in Nat /\ Cardinality(Pending') <= Cardinality(Procs)
  BY <1>2, Countable, FS_Subset, FS_CardinalityType
<1>4. Cardinality(Counted) + 1 <= MaxFiles
  BY DEF StartUpload, UnderQuota, Usage, Counted
<1> QED  BY <1>1, <1>3, <1>4, Countable DEF QuotaInv

\* An upload in progress becomes a row.
LEMMA InsertKeepsQuota ==
    ASSUME Inv, QuotaInv, NEW p \in Procs, IsPending(proc[p]), NEW h, ~IsPending(h),
           proc' = [proc EXCEPT ![p] = h], Insert(proc[p].id)
    PROVE  QuotaInv'
<1> DEFINE i == proc[p].id
<1>1. row' = [row EXCEPT ![i] = "active"] /\ i \in Ids /\ row[i] = "none"
  BY DEF Insert, Inv, HandlersInv, HandlerOK, IsPending
<1>2. Counted' \subseteq Counted \cup {i} /\ i \notin Counted
  BY <1>1 DEF Inv, Types, Counted
<1>3. Pending' = Pending \ {p} /\ p \in Pending
  BY DEF Inv, Types, Pending
<1>4. IsFiniteSet(Counted \cup {i}) /\ Cardinality(Counted \cup {i}) = Cardinality(Counted) + 1
  BY <1>2, Countable, FS_AddElement
<1>5. Cardinality(Counted') \in Nat /\ Cardinality(Counted') <= Cardinality(Counted) + 1
  BY <1>2, <1>4, FS_Subset, FS_CardinalityType
<1>6. Cardinality(Pending') = Cardinality(Pending) - 1
  BY <1>3, Countable, FS_RemoveElement
<1> QED  BY <1>5, <1>6, Countable DEF QuotaInv

LEMMA StepKeepsQuota ==
    ASSUME Inv, QuotaInv, [Next]_vars
    PROVE  QuotaInv'
<1>0. row \in [Ids -> States] /\ proc \in [Procs -> Handler]
  BY DEF Inv, Types
\* What a handler other than one that begins or stores an upload does.
<1>1. ASSUME NEW p \in Procs, NEW h, proc' = [proc EXCEPT ![p] = h], IsPending(h) => IsPending(proc[p]),
             Counted' \subseteq Counted
      PROVE  QuotaInv'
  <2>1. Pending' \subseteq Pending
    BY <1>0, <1>1 DEF Pending
  <2> QED  BY <1>1, <2>1, FewerKeepQuota
<1>2. UNCHANGED row => Counted' = Counted
  BY DEF Counted
<1>3. ~IsPending(Idle)
  BY IdleHandler
<1>4. ASSUME NEW p \in Procs, Unused # {}, StartUpload(p, NewId)
      PROVE  QuotaInv'
  <2>1. NewId \in Ids
    BY <1>4, NewIdUnused DEF Unused
  <2> QED  BY <1>4, <2>1, StartKeepsQuota
<1>5. ASSUME NEW p \in Procs, NEW at \in {"link", "tidy", "create", "cleanUp", "unlink", "markDeleted"}, Goto(p, at),
             at \in {"link", "tidy", "create"} => IsPending(proc[p]), Counted' \subseteq Counted
      PROVE  QuotaInv'
  <2>1. PICK h \in Handler : h = [proc[p] EXCEPT !.at = at] /\ h.at = at
    <3>1. proc[p] \in Handler
      BY <1>0
    <3>2. [proc[p] EXCEPT !.at = at] \in Handler /\ [proc[p] EXCEPT !.at = at].at = at
      BY <3>1 DEF Handler
    <3> QED  BY <3>2
  <2>2. proc' = [proc EXCEPT ![p] = h]
    BY <1>0, <1>5, <2>1 DEF Goto
  <2> QED  BY <1>1, <1>5, <2>1, <2>2 DEF IsPending
<1>6. ASSUME NEW p \in Procs,
             \/ WriteTemporary(p) \/ Link(p) \/ UnlinkTemporary(p) \/ PutFails(p)
             \/ CleanUp(p) \/ Die(p) \/ Unlink(p)
      PROVE  QuotaInv'
  <2>1. CASE WriteTemporary(p) \/ Link(p) \/ UnlinkTemporary(p)
    BY <1>2, <1>5, <2>1 DEF WriteTemporary, Link, UnlinkTemporary, db, IsPending
  <2>2. CASE PutFails(p) \/ CleanUp(p) \/ Die(p) \/ Unlink(p)
    BY <1>1, <1>2, <1>3, <1>5, <2>2 DEF PutFails, CleanUp, Die, Unlink, Finish, db, IsPending
  <2> QED  BY <1>6, <2>1, <2>2
<1>7. ASSUME NEW p \in Procs, CreateAttachment(p)
      PROVE  QuotaInv'
  BY <1>3, <1>7, InsertKeepsQuota DEF CreateAttachment, Finish, IsPending
<1>8. ASSUME NEW p \in Procs, CreateFails(p)
      PROVE  QuotaInv'
  <2>1. CASE Insert(proc[p].id)
    <3>1. PICK h \in Handler : h = [proc[p] EXCEPT !.at = "cleanUp"] /\ h.at = "cleanUp"
      BY <1>0, Went
    <3>2. proc' = [proc EXCEPT ![p] = h]
      BY <1>0, <1>8, <3>1 DEF CreateFails, Goto
    <3> QED  BY <1>8, <2>1, <3>1, <3>2, InsertKeepsQuota DEF CreateFails, IsPending
  <2>2. CASE UNCHANGED db
    BY <1>2, <1>5, <1>8, <2>2 DEF CreateFails, db
  <2> QED  BY <1>8, <2>1, <2>2 DEF CreateFails
<1>9. ASSUME NEW p \in Procs, NEW i \in Ids, StartDelete(p, i)
      PROVE  QuotaInv'
  <2>1. PICK h : h = [at |-> "markDeleting", id |-> i]
    OBVIOUS
  <2> QED  BY <1>1, <1>2, <1>9, <2>1 DEF StartDelete, db, IsPending
<1>10. ASSUME NEW p \in Procs, MarkDeleting(p)
       PROVE  QuotaInv'
  <2>1. CASE row[proc[p].id] \in {"active", "deleting"}
    <3>1. row' = [row EXCEPT ![proc[p].id] = "deleting"] /\ Goto(p, "unlink")
      BY <1>10, <2>1 DEF MarkDeleting
    <3>2. Counted' \subseteq Counted
      BY <1>0, <2>1, <3>1 DEF Counted
    <3> QED  BY <1>5, <3>1, <3>2
  <2>2. CASE row[proc[p].id] \notin {"active", "deleting"}
    BY <1>1, <1>2, <1>3, <1>10, <2>2 DEF MarkDeleting, Finish, db
  <2> QED  BY <2>1, <2>2
<1>11. ASSUME NEW i \in Ids, MarkAttachmentDeleted(i)
       PROVE  Counted' \subseteq Counted
  BY <1>11, MarkedRow DEF Counted
<1>12. ASSUME NEW p \in Procs, MarkDeleted(p)
       PROVE  QuotaInv'
  <2>1. proc[p].id \in Ids
    BY <1>12 DEF MarkDeleted, Inv, HandlersInv, HandlerOK
  <2> QED  BY <1>1, <1>3, <1>11, <1>12, <2>1 DEF MarkDeleted, Finish
<1>13. ASSUME UNCHANGED proc, Counted' \subseteq Counted
       PROVE  QuotaInv'
  BY <1>13, FewerKeepQuota DEF Pending
<1>14. ASSUME NEW i \in Ids, BecomeStale(i)
       PROVE  QuotaInv'
  BY <1>2, <1>13, <1>14 DEF BecomeStale
<1>15. ASSUME NEW s \in Scopes, ReconcileStep(s) \/ FailRun(s)
       PROVE  QuotaInv'
  <2>1. CASE MarkStale(s)
    <3>1. Oldest(run[s].overdue) \in Ids
      BY <2>1, OldestIn DEF MarkStale, Inv, Types, Run, RunsInv, RunOK
    <3> QED  BY <1>11, <1>13, <2>1, <3>1 DEF MarkStale
  <2>2. CASE UNCHANGED <<row, proc>>
    BY <1>2, <1>13, <2>2
  <2> QED
    BY <1>15, <2>1, <2>2 DEF ReconcileStep, StartRun, ListFiles, DeleteStale, DeleteOrphan,
                             EndRun, FailRun, db
<1>16. CASE UNCHANGED vars
  BY <1>2, <1>13, <1>16 DEF vars, db
<1> QED
  BY <1>4, <1>6, <1>7, <1>8, <1>9, <1>10, <1>12, <1>14, <1>15, <1>16 DEF Next

LEMMA QuotaInit == Init => QuotaInv
<1> SUFFICES ASSUME Init PROVE QuotaInv
  OBVIOUS
<1>1. Counted = {} /\ Pending = {}
  BY DEF Init, Counted, Pending, IsPending, Idle
<1>2. Cardinality(Counted) = 0 /\ Cardinality(Pending) = 0
  BY <1>1, FS_EmptySet
<1> QED  BY <1>2, Countable DEF QuotaInv

-----------------------------------------------------------------------------
(* The temporary files.                                                    *)

\* Whoever is about to store a row has unlinked its temporary file.
TempsInv ==
  /\ temps \subseteq Ids
  /\ \A i \in temps : row[i] = "none"
  /\ \A p \in Procs : proc[p].at = "create" => proc[p].id \notin temps

LEMMA StepKeepsTemps ==
    ASSUME Inv, TempsInv, [Next]_vars
    PROVE  TempsInv'
<1>0. row \in [Ids -> States] /\ proc \in [Procs -> Handler] /\ \A p \in Procs : HandlerOK(proc[p])
  BY DEF Inv, Types, HandlersInv
\* A handler goes on, writes or removes the temporary file of its upload, or none,
\* and inserts no row.
<1>1. ASSUME NEW p \in Procs, NEW h, proc' = [proc EXCEPT ![p] = h],
             temps' \subseteq temps \cup (IF proc[p].at = "put" THEN {proc[p].id} ELSE {}),
             h.at = "create" => h.id \notin temps',
             \A i \in Ids : row[i] = "none" => row'[i] = "none"
      PROVE  TempsInv'
  <2>1. temps' \subseteq Ids /\ \A i \in temps' : row'[i] = "none"
    BY <1>0, <1>1 DEF TempsInv, HandlerOK
  <2>2. ASSUME NEW q \in Procs, proc'[q].at = "create"
        PROVE  proc'[q].id \notin temps'
    <3>1. CASE q = p
      BY <1>0, <1>1, <2>2, <3>1
    <3>2. CASE q # p
      <4>1. proc'[q] = proc[q]
        BY <1>0, <1>1, <3>2
      <4>2. proc[p].at = "put" => proc[p].id # proc[q].id
        BY <2>2, <3>2, <4>1 DEF Inv, DistinctInv, IsUpload
      <4> QED  BY <1>1, <2>2, <4>1, <4>2 DEF TempsInv
    <3> QED  BY <3>1, <3>2
  <2> QED  BY <2>1, <2>2 DEF TempsInv
<1>2. Idle.at # "create"
  BY DEF Idle
<1>3. ASSUME NEW p \in Procs, NEW at \in {"link", "tidy", "create", "cleanUp", "unlink", "markDeleted"}
      PROVE  \E h : h = [proc[p] EXCEPT !.at = at] /\ h.at = at /\ h.id = proc[p].id
  <2>1. proc[p] \in Handler
    BY <1>0
  <2>2. /\ [proc[p] EXCEPT !.at = at].at = at /\ [proc[p] EXCEPT !.at = at].id = proc[p].id
    BY <2>1 DEF Handler
  <2> QED  BY <2>2, Zenon
<1>4. ASSUME NEW p \in Procs, NEW at \in {"link", "tidy", "create", "cleanUp", "unlink", "markDeleted"},
             Goto(p, at),
             temps' \subseteq temps \cup (IF proc[p].at = "put" THEN {proc[p].id} ELSE {}),
             at = "create" => proc[p].id \notin temps',
             \A i \in Ids : row[i] = "none" => row'[i] = "none"
      PROVE  TempsInv'
  <2>1. PICK h : h = [proc[p] EXCEPT !.at = at] /\ h.at = at /\ h.id = proc[p].id
    BY <1>3
  <2>2. proc' = [proc EXCEPT ![p] = h]
    BY <1>0, <1>4, <2>1 DEF Goto
  <2> QED  BY <1>1, <1>4, <2>1, <2>2
<1>5. ASSUME NEW p \in Procs, WriteTemporary(p) \/ Link(p) \/ UnlinkTemporary(p)
      PROVE  TempsInv'
  BY <1>4, <1>5 DEF WriteTemporary, Link, UnlinkTemporary, db
<1>6. ASSUME NEW p \in Procs, NEW i, StartUpload(p, i)
      PROVE  TempsInv'
  <2>1. PICK h : h = [at |-> "put", id |-> i]
    OBVIOUS
  <2> QED  BY <1>1, <1>6, <2>1 DEF StartUpload, db
<1>7. ASSUME NEW p \in Procs, NEW i \in Ids, StartDelete(p, i)
      PROVE  TempsInv'
  <2>1. PICK h : h = [at |-> "markDeleting", id |-> i]
    OBVIOUS
  <2> QED  BY <1>1, <1>7, <2>1 DEF StartDelete, db
<1>8. ASSUME NEW p \in Procs, PutFails(p) \/ CleanUp(p) \/ Die(p) \/ Unlink(p)
      PROVE  TempsInv'
  BY <1>1, <1>2, <1>4, <1>8 DEF PutFails, CleanUp, Die, Unlink, Finish, db
\* A row is stored.
<1>9. ASSUME NEW p \in Procs, proc[p].at = "create", Insert(proc[p].id), UNCHANGED temps,
             NEW h, proc' = [proc EXCEPT ![p] = h], h.at # "create"
      PROVE  TempsInv'
  <2>1. proc[p].id \notin temps
    BY <1>9 DEF TempsInv
  <2>2. \A i \in Ids : i # proc[p].id => row'[i] = row[i]
    BY <1>0, <1>9 DEF Insert
  <2>3. ASSUME NEW q \in Procs, proc'[q].at = "create"
        PROVE  proc'[q].id \notin temps'
    BY <1>0, <1>9, <2>3 DEF TempsInv
  <2> QED  BY <1>9, <2>1, <2>2, <2>3 DEF TempsInv
<1>10. ASSUME NEW p \in Procs, CreateAttachment(p)
       PROVE  TempsInv'
  BY <1>2, <1>9, <1>10 DEF CreateAttachment, Finish
<1>11. ASSUME NEW p \in Procs, CreateFails(p)
       PROVE  TempsInv'
  <2>1. CASE Insert(proc[p].id)
    <3>1. PICK h : h = [proc[p] EXCEPT !.at = "cleanUp"] /\ h.at = "cleanUp"
      BY <1>3
    <3>2. proc' = [proc EXCEPT ![p] = h]
      BY <1>0, <1>11, <3>1 DEF CreateFails, Goto
    <3> QED  BY <1>9, <1>11, <2>1, <3>1, <3>2 DEF CreateFails
  <2>2. CASE UNCHANGED db
    BY <1>4, <1>11, <2>2 DEF CreateFails, db
  <2> QED  BY <1>11, <2>1, <2>2 DEF CreateFails
<1>12. ASSUME NEW p \in Procs, MarkDeleting(p)
       PROVE  TempsInv'
  <2>1. CASE row[proc[p].id] \in {"active", "deleting"}
    <3>1. /\ row' = [row EXCEPT ![proc[p].id] = "deleting"] /\ Goto(p, "unlink") /\ temps' = temps
          /\ row[proc[p].id] # "none"
      BY <1>12, <2>1 DEF MarkDeleting
    <3>2. \A i \in Ids : row[i] = "none" => row'[i] = "none"
      BY <1>0, <3>1
    <3> QED  BY <1>4, <3>1, <3>2
  <2>2. CASE row[proc[p].id] \notin {"active", "deleting"}
    BY <1>1, <1>2, <1>12, <2>2 DEF MarkDeleting, Finish, db
  <2> QED  BY <2>1, <2>2
<1>13. ASSUME NEW i \in Ids, MarkAttachmentDeleted(i)
       PROVE  \A j \in Ids : row[j] = "none" => row'[j] = "none"
  BY <1>13, MarkedRow
<1>14. ASSUME NEW p \in Procs, MarkDeleted(p)
       PROVE  TempsInv'
  <2>1. proc[p].id \in Ids
    BY <1>0, <1>14 DEF MarkDeleted, HandlerOK
  <2> QED  BY <1>1, <1>2, <1>13, <1>14, <2>1 DEF MarkDeleted, Finish
<1>15. ASSUME UNCHANGED <<proc, temps>>, \A i \in Ids : row[i] = "none" => row'[i] = "none"
       PROVE  TempsInv'
  BY <1>15 DEF TempsInv
<1>16. ASSUME NEW i \in Ids, BecomeStale(i)
       PROVE  TempsInv'
  BY <1>15, <1>16 DEF BecomeStale
<1>17. ASSUME NEW s \in Scopes, ReconcileStep(s) \/ FailRun(s)
       PROVE  TempsInv'
  <2>1. CASE MarkStale(s)
    <3>1. Oldest(run[s].overdue) \in Ids
      BY <2>1, OldestIn DEF MarkStale, Inv, Types, Run, RunsInv, RunOK
    <3> QED  BY <1>13, <1>15, <2>1, <3>1 DEF MarkStale
  <2>2. CASE UNCHANGED <<row, proc, temps>>
    BY <1>15, <2>2
  <2> QED
    BY <1>17, <2>1, <2>2 DEF ReconcileStep, StartRun, ListFiles, DeleteStale, DeleteOrphan,
                             EndRun, FailRun, db
<1>18. CASE UNCHANGED vars
  BY <1>15, <1>18 DEF vars, db
<1> QED
  BY <1>5, <1>6, <1>7, <1>8, <1>10, <1>11, <1>12, <1>14, <1>16, <1>17, <1>18 DEF Next

LEMMA TempsInit == Init => TempsInv
BY DEF Init, TempsInv, Idle

-----------------------------------------------------------------------------
\* An answered upload keeps its file until its deletion unless the scheduled
\* run was listing while it was in progress, no row says deleted while there is
\* a file, no row's content is kept under a temporary name as well, and the
\* quota is exceeded by at most the uploads counted together: for any handlers,
\* uploads, limits and failures (attachment-storage, attachment-reconciliation,
\* POST and DELETE of attachments).
THEOREM FilesAreKeptHolds == Spec => []FilesAreKept
<1>1. Inv /\ QuotaInv /\ TempsInv => FilesAreKept
  <2> SUFFICES ASSUME Inv, QuotaInv, TempsInv PROVE FilesAreKept
    OBVIOUS
  <2>1. TypeOK
    BY DEF Inv, Types, TempsInv, TypeOK
  <2>2. /\ \A i \in answered \ met : row[i] = "active" => i \in files
        /\ \A i \in files : row[i] # "deleted"
        /\ \A i \in temps : row[i] = "none"
    BY DEF Inv, RowsInv, TempsInv
  <2>3. Usage = Cardinality(Counted)
    BY DEF Usage, Counted
  <2>4. Usage <= MaxFiles + Cardinality(Procs) - 1
    BY <2>3, Countable DEF QuotaInv
  <2> QED  BY <2>1, <2>2, <2>4 DEF FilesAreKept
<1>2. Spec => []QuotaInv
  BY QuotaInit, StepKeepsQuota, Invariance, PTL DEF Spec
<1>3. Spec => []TempsInv
  BY TempsInit, StepKeepsTemps, Invariance, PTL DEF Spec
<1> QED  BY <1>1, <1>2, <1>3, Invariance, PTL
=============================================================================
