----------------------- MODULE ActionApproval_proofs -----------------------
(***************************************************************************)
(* Proofs about ActionApproval.  Rows only ever gain a status, a key is    *)
(* stored once, and what a handler carries stays true of the rows that     *)
(* others change meanwhile; the hourly limit is a counting argument.       *)
(***************************************************************************)
EXTENDS ActionApproval, FiniteSetTheorems, TLAPS

Statuses == {"blocked", "dry-run", "approval-required", "executed",
             "approved", "denied", "expired"}
Decided == {"executed", "approved", "denied", "expired"}
Request == [key : Keys \cup {NoKey}, kind : Kinds, status : Statuses, first : Statuses,
            ran : BOOLEAN, limit : Limits, recent : BOOLEAN, due : BOOLEAN, undisturbed : BOOLEAN]
Handler == [at : {"idle", "lookup", "policy", "count", "create", "decide", "putPolicy"},
            key : Keys \cup {NoKey}, kind : Kinds, policy : Policies, row : Nat,
            status : Statuses \cup {"none"}, earlier : Nat, undisturbed : BOOLEAN]

\* What RequestsOK says of a row, and that a waiting one was stored to wait.
RowOK(r) ==
  /\ r.status # r.first => r.first = "approval-required"
  /\ r.status = "executed" => r.ran
  /\ r.ran => r.kind = "task" /\ r.first \in {"executed", "approval-required"}
  /\ r.undisturbed => r.first = "blocked"

RowsInv ==
  /\ requests \in Seq(Request)
  /\ \A i \in Ids : RowOK(requests[i])
  /\ \A i, j \in Ids : requests[i].key = requests[j].key /\ requests[i].key # NoKey => i = j

\* A handler that looks up its key still finds the row that was there when it
\* began; past the lookup there was none. What it decided holds of its row.
HandlerOK(h, pol, rows) ==
  /\ h.undisturbed => pol.killSwitch
  /\ h.at = "lookup" /\ h.earlier # NoRow =>
       h.earlier \in DOMAIN rows /\ h.key # NoKey /\ rows[h.earlier].key = h.key
  /\ h.at \in {"policy", "count", "create"} => h.earlier = NoRow
  /\ h.at = "count" /\ h.undisturbed => h.policy.killSwitch
  /\ h.at = "create" =>
       /\ h.status \in Statuses
       /\ h.status = "executed" => h.kind = "task"
       /\ h.undisturbed => h.status = "blocked"
  /\ h.at = "decide" =>
       /\ h.row \in DOMAIN rows /\ rows[h.row].first = "approval-required"
       /\ h.status \in Decided
       /\ h.status = "executed" => rows[h.row].kind = "task"

HandlersInv ==
  /\ policy \in Policies
  /\ proc \in [Procs -> Handler]
  /\ \A p \in Procs : HandlerOK(proc[p], policy, requests)

AnswersInv ==
  \A a \in answers :
    /\ a.key # NoKey
    /\ a.earlier # NoRow => a.row = a.earlier
    /\ a.row # NoRow => a.row \in Ids /\ requests[a.row].key = a.key

BatchInv == \A i \in batch : i \in Ids /\ requests[i].first = "approval-required"

Inv == RowsInv /\ HandlersInv /\ AnswersInv /\ BatchInv

\* No step removes a row or changes what it was stored with.
RowsStay ==
  \A i \in Ids : /\ i \in Ids'
                 /\ requests'[i].key = requests[i].key
                 /\ requests'[i].kind = requests[i].kind
                 /\ requests'[i].first = requests[i].first

-----------------------------------------------------------------------------

\* The lookup finds a row of the key if there is one.
LEMMA RowOfFinds ==
    ASSUME NEW key, RowsInv
    PROVE  /\ RowOf(key) # NoRow => RowOf(key) \in Ids /\ requests[RowOf(key)].key = key
           /\ (\E i \in Ids : requests[i].key = key) => RowOf(key) # NoRow
           /\ RowOf(key) \in Nat
<1>1. NoRow \notin Ids /\ Ids \subseteq Nat
  BY DEF RowsInv, Ids, NoRow
<1>2. CASE \E i \in Ids : requests[i].key = key
  <2>1. RowOf(key) \in Ids /\ requests[RowOf(key)].key = key
    BY <1>2 DEF RowOf
  <2> QED  BY <2>1, <1>1
<1>3. CASE ~ \E i \in Ids : requests[i].key = key
  BY <1>3 DEF RowOf, NoRow
<1> QED  BY <1>2, <1>3

\* A new version of one row that keeps what the row was stored with.
LEMMA RowReplaced ==
    ASSUME RowsInv, NEW i \in Ids, NEW r \in Request, RowOK(r),
           r.key = requests[i].key, r.kind = requests[i].kind, r.first = requests[i].first,
           requests' = [requests EXCEPT ![i] = r]
    PROVE  RowsInv' /\ RowsStay
<1>1. requests \in Seq(Request) /\ Ids = 1 .. Len(requests)
  BY DEF RowsInv, Ids
<1>2. requests' \in Seq(Request) /\ Len(requests') = Len(requests) /\ Ids' = Ids
  BY <1>1 DEF Ids
<1>3. \A j \in Ids : requests'[j] = IF j = i THEN r ELSE requests[j]
  BY <1>1
<1>4. \A j \in Ids : /\ RowOK(requests'[j])
                     /\ requests'[j].key = requests[j].key
                     /\ requests'[j].kind = requests[j].kind
                     /\ requests'[j].first = requests[j].first
  BY <1>3 DEF RowsInv
<1> QED  BY <1>2, <1>4 DEF RowsInv, RowsStay, RowOK

\* A row gets a status that a decision or the worker chose for it.
LEMMA DecisionKeepsRows ==
    ASSUME RowsInv, NEW i \in Ids, NEW status \in Decided,
           requests[i].first = "approval-required",
           status = "executed" => requests[i].kind = "task",
           DecideRequest(i, status)
    PROVE  RowsInv' /\ RowsStay
<1> DEFINE r == [requests[i] EXCEPT !.status = status, !.ran = @ \/ status = "executed"]
<1>1. requests \in Seq(Request) /\ requests[i] \in Request /\ RowOK(requests[i])
  BY DEF RowsInv, Ids
<1>2. requests' = [requests EXCEPT ![i] = r]
  BY <1>1 DEF DecideRequest
<1>3. r \in Request
  BY <1>1 DEF Request, Decided, Statuses
<1>4. /\ r.key = requests[i].key /\ r.kind = requests[i].kind /\ r.first = requests[i].first
      /\ r.status = status /\ r.undisturbed = requests[i].undisturbed
      /\ r.ran = (requests[i].ran \/ status = "executed")
  BY <1>1 DEF Request
<1>5. RowOK(r)
  BY <1>1, <1>4 DEF RowOK
<1> HIDE DEF r
<1> QED  BY <1>2, <1>3, <1>4, <1>5, RowReplaced

\* Time changes neither the status of a row nor what it was stored with.
LEMMA TimeKeepsRows ==
    ASSUME RowsInv, NEW i \in Ids, LeaveHour(i) \/ PassDeadline(i)
    PROVE  RowsInv' /\ RowsStay
<1>1. requests \in Seq(Request) /\ requests[i] \in Request /\ RowOK(requests[i])
  BY DEF RowsInv, Ids
<1> DEFINE past == [requests[i] EXCEPT !.recent = FALSE]
           late == [requests[i] EXCEPT !.due = TRUE]
<1>2. past \in Request /\ late \in Request
  BY <1>1 DEF Request
<1>3. \A r \in {past, late} :
        /\ r.key = requests[i].key /\ r.kind = requests[i].kind /\ r.first = requests[i].first
        /\ r.status = requests[i].status /\ r.ran = requests[i].ran
        /\ r.undisturbed = requests[i].undisturbed
  BY <1>1 DEF Request
<1>4. RowOK(past) /\ RowOK(late)
  BY <1>1, <1>3 DEF RowOK
<1>5. \E r \in {past, late} : requests' = [requests EXCEPT ![i] = r]
  BY <1>1 DEF LeaveHour, PassDeadline
<1> HIDE DEF past, late
<1> QED  BY <1>2, <1>3, <1>4, <1>5, RowReplaced

\* An insert that does not collide keeps the keys apart.
LEMMA InsertKeepsRows ==
    ASSUME RowsInv, NEW r \in Request, RowOK(r), ~Collides(r.key),
           requests' = Append(requests, r)
    PROVE  /\ RowsInv' /\ RowsStay
           /\ Len(requests) + 1 \in Ids' /\ requests'[Len(requests) + 1] = r
<1>1. requests \in Seq(Request) /\ Ids = 1 .. Len(requests) /\ Len(requests) \in Nat
  BY DEF RowsInv, Ids
<1>2. /\ requests' \in Seq(Request) /\ Len(requests') = Len(requests) + 1
      /\ Ids' = 1 .. Len(requests) + 1
      /\ \A j \in Ids : requests'[j] = requests[j]
      /\ requests'[Len(requests) + 1] = r
  BY <1>1 DEF Ids
<1>3. r.key # NoKey => \A j \in Ids : requests[j].key # r.key
  BY RowOfFinds DEF Collides
<1>4. \A j \in Ids' : RowOK(requests'[j])
  BY <1>1, <1>2 DEF RowsInv
<1>5. \A j, k \in Ids' : requests'[j].key = requests'[k].key /\ requests'[j].key # NoKey => j = k
  BY <1>1, <1>2, <1>3 DEF RowsInv
<1>6. \A j \in Ids' : RowOK(requests[j])'
  BY <1>4 DEF RowOK
<1> QED  BY <1>1, <1>2, <1>5, <1>6 DEF RowsInv, RowsStay

\* What createRequest stores is sound.
LEMMA CreateKeepsRows ==
    ASSUME RowsInv, HandlersInv, NEW p \in Procs, CreateRequest(p)
    PROVE  RowsInv' /\ RowsStay
<1> DEFINE new == [key |-> proc[p].key, kind |-> proc[p].kind, status |-> proc[p].status,
                   first |-> proc[p].status, ran |-> proc[p].status = "executed",
                   limit |-> proc[p].policy.maxRequestsPerHour, recent |-> TRUE,
                   due |-> FALSE, undisturbed |-> proc[p].undisturbed]
<1>1. proc[p] \in Handler /\ HandlerOK(proc[p], policy, requests) /\ proc[p].at = "create"
  BY DEF HandlersInv, CreateRequest
<1>2. new \in Request /\ RowOK(new) /\ new.key = proc[p].key
  BY <1>1 DEF Handler, HandlerOK, Policies, Request, RowOK
<1>3. CASE Collides(proc[p].key)
  BY <1>3 DEF CreateRequest, RowsInv, RowsStay, Ids, RowOK
<1>4. CASE ~Collides(proc[p].key)
  <2>1. requests' = Append(requests, new)
    BY <1>4 DEF CreateRequest
  <2> HIDE DEF new
  <2> QED  BY <1>2, <1>4, <2>1, InsertKeepsRows
<1> QED  BY <1>3, <1>4

\* Every step keeps the rows sound and in their place.
LEMMA StepKeepsRows ==
    ASSUME Inv, [Next]_vars
    PROVE  RowsInv' /\ RowsStay
<1> USE DEF Inv
<1>1. ASSUME NEW p \in Procs, CreateRequest(p)
      PROVE  RowsInv' /\ RowsStay
  BY <1>1, CreateKeepsRows
<1>2. ASSUME NEW p \in Procs, WriteDecision(p)
      PROVE  RowsInv' /\ RowsStay
  <2>1. HandlerOK(proc[p], policy, requests) /\ proc[p].at = "decide"
    BY <1>2 DEF WriteDecision, HandlersInv
  <2> QED  BY <1>2, <2>1, DecisionKeepsRows DEF WriteDecision, HandlerOK, Ids
<1>3. CASE ExpireNext
  <2>1. PICK i \in batch : DecideRequest(i, "expired")
    BY <1>3 DEF ExpireNext
  <2> QED  BY <2>1, DecisionKeepsRows DEF BatchInv, Decided
<1>4. ASSUME NEW i \in Ids, LeaveHour(i) \/ PassDeadline(i)
      PROVE  RowsInv' /\ RowsStay
  BY <1>4, TimeKeepsRows
<1>5. ASSUME UNCHANGED requests
      PROVE  RowsInv' /\ RowsStay
  BY <1>5 DEF RowsInv, RowsStay, Ids, RowOK
<1> QED
  BY <1>1, <1>2, <1>3, <1>4, <1>5
  DEF Next, vars, StartExecute, LookUp, ReadPolicy, CountRequests, StartDecision, StartPolicy,
      PutPolicy, Drop, Maintenance, StartMaintenance, FailMaintenance

-----------------------------------------------------------------------------

\* What is true of a handler stays true of the rows that others write.
LEMMA HandlerStays ==
    ASSUME RowsStay, NEW h, HandlerOK(h, policy, requests),
           h.undisturbed => policy'.killSwitch
    PROVE  HandlerOK(h, policy', requests')
<1>1. \A i \in DOMAIN requests :
        /\ i \in DOMAIN requests'
        /\ requests'[i].key = requests[i].key
        /\ requests'[i].kind = requests[i].kind
        /\ requests'[i].first = requests[i].first
  BY DEF RowsStay, Ids
<1> QED  BY <1>1 DEF HandlerOK

\* A step of one handler.
LEMMA OneHandler ==
    ASSUME HandlersInv, RowsStay, policy' = policy,
           NEW p \in Procs, NEW h \in Handler, HandlerOK(h, policy', requests'),
           proc' = [proc EXCEPT ![p] = h]
    PROVE  HandlersInv'
<1>1. proc' \in [Procs -> Handler] /\ policy' \in Policies
  BY DEF HandlersInv
<1>2. \A q \in Procs : HandlerOK(proc[q], policy', requests')
  <2> TAKE q \in Procs
  <2>1. HandlerOK(proc[q], policy, requests) /\ (proc[q].undisturbed => policy.killSwitch)
    BY DEF HandlersInv, HandlerOK
  <2> QED  BY <2>1, HandlerStays
<1>3. \A q \in Procs : proc'[q] = IF q = p THEN h ELSE proc[q]
  BY DEF HandlersInv
<1>4. \A q \in Procs : HandlerOK(proc'[q], policy', requests')
  BY <1>2, <1>3
<1> QED  BY <1>1, <1>4 DEF HandlersInv

\* A handler that ends carries nothing.
LEMMA IdleIsOK ==
    ASSUME NEW pol, NEW rows
    PROVE  Idle \in Handler /\ HandlerOK(Idle, pol, rows)
  BY DEF Idle, Handler, HandlerOK, Kinds, Policies, Limits, DefaultPolicy, NoRow

\* A handler that begins, with what it read as it began.
LEMMA BeginKeepsHandlers ==
    ASSUME Inv, RowsStay, NEW p \in Procs,
           \/ \E key \in Keys \cup {NoKey}, kind \in Kinds : StartExecute(p, key, kind)
           \/ \E i \in Ids, decision \in {"approve", "deny"} : StartDecision(p, i, decision)
           \/ \E b \in BOOLEAN : \/ StartPolicy(p, [policy EXCEPT !.killSwitch = b])
                                 \/ StartPolicy(p, [policy EXCEPT !.requireApproval = b])
           \/ \E n \in HourLimits : StartPolicy(p, [policy EXCEPT !.maxRequestsPerHour = n])
    PROVE  HandlersInv'
<1>0. policy \in Policies /\ policy.killSwitch \in BOOLEAN
  BY DEF Inv, HandlersInv, Policies
<1>1. ASSUME NEW key \in Keys \cup {NoKey}, NEW kind \in Kinds, StartExecute(p, key, kind)
      PROVE  HandlersInv'
  <2> DEFINE earlier == IF key = NoKey THEN NoRow ELSE RowOf(key)
             h == [Idle EXCEPT !.at = "lookup", !.key = key, !.kind = kind,
                               !.earlier = earlier, !.undisturbed = policy.killSwitch]
  <2>1. /\ earlier \in Nat
        /\ earlier # NoRow => earlier \in DOMAIN requests /\ key # NoKey /\ requests[earlier].key = key
    BY RowOfFinds DEF Inv, NoRow, Ids
  <2> HIDE DEF earlier
  <2>2. h \in Handler
    BY <1>0, <2>1, IdleIsOK DEF Handler, Idle, NoRow
  <2>3. HandlerOK(h, policy, requests)
    BY <2>1 DEF HandlerOK, Idle
  <2>4. proc' = [proc EXCEPT ![p] = h] /\ policy' = policy /\ requests' = requests
    BY <1>1 DEF StartExecute, Begin, earlier
  <2> HIDE DEF h
  <2> QED  BY <2>2, <2>3, <2>4, OneHandler DEF Inv
<1>2. ASSUME NEW i \in Ids, NEW decision \in {"approve", "deny"}, StartDecision(p, i, decision)
      PROVE  HandlersInv'
  <2> DEFINE h == [Idle EXCEPT !.at = "decide", !.row = i, !.status = OutcomeOf(decision, i)]
  <2>1. requests[i].first = "approval-required" /\ i \in Nat /\ i \in DOMAIN requests
    <3>1. RowOK(requests[i]) /\ requests[i].status = "approval-required"
      BY <1>2 DEF Inv, RowsInv, StartDecision, Decidable, Waiting
    <3>2. requests \in Seq(Request)
      BY DEF Inv, RowsInv
    <3> QED  BY <3>1, <3>2 DEF RowOK, Ids
  <2>2. /\ OutcomeOf(decision, i) \in Decided
        /\ OutcomeOf(decision, i) = "executed" => requests[i].kind = "task"
    BY DEF OutcomeOf, Decided
  <2>3. h \in Handler
    BY <2>1, <2>2, IdleIsOK DEF Handler, Idle, Decided, Statuses
  <2>4. HandlerOK(h, policy, requests)
    BY <2>1, <2>2 DEF HandlerOK, Idle
  <2>5. proc' = [proc EXCEPT ![p] = h] /\ policy' = policy /\ requests' = requests
    BY <1>2 DEF StartDecision, Begin
  <2> HIDE DEF h
  <2> QED  BY <2>3, <2>4, <2>5, OneHandler DEF Inv
<1>3. ASSUME NEW change \in Policies, StartPolicy(p, change)
      PROVE  HandlersInv'
  <2> DEFINE h == [Idle EXCEPT !.at = "putPolicy", !.policy = change]
  <2>1. h \in Handler
    BY IdleIsOK DEF Handler, Idle
  <2>2. HandlerOK(h, policy, requests)
    BY DEF HandlerOK, Idle
  <2>3. proc' = [proc EXCEPT ![p] = h] /\ policy' = policy /\ requests' = requests
    BY <1>3 DEF StartPolicy, Begin
  <2> HIDE DEF h
  <2> QED  BY <2>1, <2>2, <2>3, OneHandler DEF Inv
<1>4. \A b \in BOOLEAN : /\ [policy EXCEPT !.killSwitch = b] \in Policies
                         /\ [policy EXCEPT !.requireApproval = b] \in Policies
  BY <1>0 DEF Policies
<1>5. \A n \in HourLimits : [policy EXCEPT !.maxRequestsPerHour = n] \in Policies
  BY <1>0 DEF Policies, Limits
<1> QED  BY <1>1, <1>2, <1>3, <1>4, <1>5

\* A handler that goes on, or ends.
LEMMA StepKeepsHandlers ==
    ASSUME Inv, RowsStay, NEW p \in Procs,
           \/ LookUp(p) \/ ReadPolicy(p) \/ CountRequests(p) \/ CreateRequest(p)
           \/ WriteDecision(p) \/ PutPolicy(p) \/ Drop(p)
    PROVE  HandlersInv'
<1>0. /\ proc \in [Procs -> Handler] /\ proc[p] \in Handler
      /\ HandlerOK(proc[p], policy, requests) /\ policy \in Policies
  BY DEF Inv, HandlersInv
<1>1. ASSUME proc' = [proc EXCEPT ![p] = Idle], policy' = policy
      PROVE  HandlersInv'
  BY <1>1, IdleIsOK, OneHandler DEF Inv
<1>2. CASE LookUp(p)
  <2>1. CASE proc[p].key # NoKey /\ RowOf(proc[p].key) # NoRow
    BY <1>1, <1>2, <2>1 DEF LookUp, Answer
  <2>2. CASE ~(proc[p].key # NoKey /\ RowOf(proc[p].key) # NoRow)
    <3> DEFINE h == [proc[p] EXCEPT !.at = "policy"]
    <3>1. proc' = [proc EXCEPT ![p] = h] /\ policy' = policy
      BY <1>0, <1>2, <2>2 DEF LookUp
    <3>2. proc[p].earlier = NoRow
      <4>1. proc[p].at = "lookup"
        BY <1>2 DEF LookUp
      <4>2. SUFFICES ASSUME proc[p].earlier # NoRow  PROVE FALSE
        OBVIOUS
      <4>3. /\ proc[p].key # NoKey /\ proc[p].earlier \in Ids
            /\ requests[proc[p].earlier].key = proc[p].key
        BY <1>0, <4>1, <4>2 DEF HandlerOK, Ids
      <4> QED  BY <2>2, <4>3, RowOfFinds DEF Inv
    <3>3. h \in Handler /\ HandlerOK(h, policy, requests)
      BY <1>0, <3>2 DEF Handler, HandlerOK
    <3>4. requests' = requests
      BY <1>2 DEF LookUp
    <3> HIDE DEF h
    <3> QED  BY <3>1, <3>3, <3>4, OneHandler DEF Inv
  <2> QED  BY <2>1, <2>2
<1>3. CASE ReadPolicy(p)
  <2>1. PICK pol \in {policy, DefaultPolicy} :
          proc' = [proc EXCEPT ![p].at = "count", ![p].policy = pol]
    BY <1>3 DEF ReadPolicy
  <2> DEFINE h == [proc[p] EXCEPT !.at = "count", !.policy = pol]
  <2>2. proc' = [proc EXCEPT ![p] = h] /\ policy' = policy /\ requests' = requests
    BY <1>0, <1>3, <2>1 DEF ReadPolicy
  <2>3. pol \in Policies /\ (proc[p].undisturbed => pol.killSwitch)
    <3>1. DefaultPolicy \in Policies /\ DefaultPolicy.killSwitch
      BY DEF DefaultPolicy, Policies, Limits
    <3>2. proc[p].undisturbed => policy.killSwitch
      BY <1>0 DEF HandlerOK
    <3>3. CASE pol = policy
      BY <1>0, <3>2, <3>3
    <3>4. CASE pol = DefaultPolicy
      BY <3>1, <3>4
    <3> QED  BY <3>3, <3>4
  <2>4. h \in Handler
    BY <1>0, <2>3 DEF Handler
  <2>5. HandlerOK(h, policy, requests)
    BY <1>0, <1>3, <2>3 DEF Handler, HandlerOK, ReadPolicy
  <2> HIDE DEF h
  <2> QED  BY <2>2, <2>4, <2>5, OneHandler DEF Inv
<1>4. CASE CountRequests(p)
  <2>1. CASE ~UnderLimit(proc[p].policy)
    BY <1>1, <1>4, <2>1 DEF CountRequests, Answer
  <2>2. CASE UnderLimit(proc[p].policy)
    <3> DEFINE status == Evaluate(proc[p].policy, proc[p].kind)
               h == [proc[p] EXCEPT !.at = "create", !.status = status]
    <3>1. proc' = [proc EXCEPT ![p] = h] /\ policy' = policy /\ requests' = requests
      BY <1>0, <1>4, <2>2 DEF CountRequests
    <3>2. /\ status \in Statuses
          /\ status = "executed" => proc[p].kind = "task"
          /\ proc[p].policy.killSwitch => status = "blocked"
      BY <1>0 DEF Evaluate, Statuses, Handler, Policies, Kinds
    <3> HIDE DEF status
    <3>3. h \in Handler
      BY <1>0, <3>2 DEF Handler
    <3>4. HandlerOK(h, policy, requests)
      BY <1>0, <1>4, <3>2 DEF Handler, HandlerOK, CountRequests
    <3> HIDE DEF h
    <3> QED  BY <3>1, <3>3, <3>4, OneHandler DEF Inv
  <2> QED  BY <2>1, <2>2
<1>5. CASE CreateRequest(p)
  BY <1>1, <1>5 DEF CreateRequest, Answer
<1>6. CASE WriteDecision(p) \/ Drop(p)
  BY <1>1, <1>6 DEF WriteDecision, Drop
<1>7. CASE PutPolicy(p)
  <2> DEFINE g(q) == IF q = p THEN Idle
                     ELSE [proc[q] EXCEPT !.undisturbed = @ /\ proc[p].policy.killSwitch]
  <2>1. policy' = proc[p].policy /\ policy' \in Policies /\ requests' = requests
    BY <1>0, <1>7 DEF PutPolicy, Handler
  <2>2. proc' = [q \in Procs |-> g(q)]
    BY <1>7, <2>1 DEF PutPolicy
  <2>3. ASSUME NEW q \in Procs, q # p
        PROVE  g(q) \in Handler /\ HandlerOK(g(q), proc[p].policy, requests)
    <3>1. proc[q] \in Handler /\ HandlerOK(proc[q], policy, requests)
      BY DEF Inv, HandlersInv
    <3>2. proc[q].undisturbed \in BOOLEAN /\ proc[p].policy.killSwitch \in BOOLEAN
      BY <1>0, <3>1 DEF Handler, Policies
    <3>3. (proc[q].undisturbed /\ proc[p].policy.killSwitch) \in BOOLEAN
      BY <3>2
    <3>4. g(q) = [proc[q] EXCEPT !.undisturbed = @ /\ proc[p].policy.killSwitch]
      BY <2>3
    <3>5. g(q) \in Handler
      BY <3>1, <3>3, <3>4 DEF Handler
    <3>6. /\ g(q).at = proc[q].at /\ g(q).earlier = proc[q].earlier /\ g(q).key = proc[q].key
          /\ g(q).policy = proc[q].policy /\ g(q).row = proc[q].row
          /\ g(q).status = proc[q].status /\ g(q).kind = proc[q].kind
          /\ g(q).undisturbed = (proc[q].undisturbed /\ proc[p].policy.killSwitch)
      BY <3>1, <3>4 DEF Handler
    <3>7. HandlerOK(g(q), proc[p].policy, requests)
      <4> HIDE DEF g
      <4> QED  BY <3>1, <3>6 DEF HandlerOK
    <3> QED  BY <3>5, <3>7
  <2>4. g(p) \in Handler /\ HandlerOK(g(p), proc[p].policy, requests)
    BY IdleIsOK
  <2> HIDE DEF g
  <2>5. \A q \in Procs : g(q) \in Handler /\ HandlerOK(g(q), proc[p].policy, requests)
    BY <2>3, <2>4
  <2>6. proc' \in [Procs -> Handler] /\ \A q \in Procs : HandlerOK(proc'[q], policy', requests')
    BY <2>1, <2>2, <2>5
  <2> QED  BY <2>1, <2>6 DEF HandlersInv
<1> QED  BY <1>2, <1>3, <1>4, <1>5, <1>6, <1>7

\* Steps of the worker and of time leave handlers and policy alone.
LEMMA OthersKeepHandlers ==
    ASSUME HandlersInv, RowsStay, policy' = policy, proc' = proc
    PROVE  HandlersInv'
<1>1. \A p \in Procs : HandlerOK(proc[p], policy', requests')
  <2> TAKE p \in Procs
  <2>1. HandlerOK(proc[p], policy, requests) /\ (proc[p].undisturbed => policy.killSwitch)
    BY DEF HandlersInv, HandlerOK
  <2> QED  BY <2>1, HandlerStays
<1> QED  BY <1>1 DEF HandlersInv

-----------------------------------------------------------------------------

\* An answer names the row of its key, and a retry the row that was there.
LEMMA AnswerIsRight ==
    ASSUME AnswersInv, RowsStay, NEW p \in Procs, NEW id, Answer(p, id),
           proc[p].key # NoKey /\ proc[p].earlier # NoRow => id = proc[p].earlier,
           proc[p].key # NoKey /\ id # NoRow => id \in Ids' /\ requests'[id].key = proc[p].key
    PROVE  AnswersInv'
<1>1. \A a \in answers :
        /\ a.key # NoKey /\ (a.earlier # NoRow => a.row = a.earlier)
        /\ a.row # NoRow => a.row \in Ids' /\ requests'[a.row].key = a.key
  BY DEF AnswersInv, RowsStay
<1>2. CASE proc[p].key = NoKey
  BY <1>1, <1>2 DEF Answer, AnswersInv
<1>3. CASE proc[p].key # NoKey
  <2> DEFINE new == [key |-> proc[p].key, earlier |-> proc[p].earlier, row |-> id]
  <2>1. answers' = answers \cup {new}
    BY <1>3 DEF Answer
  <2>2. /\ new.key # NoKey /\ (new.earlier # NoRow => new.row = new.earlier)
        /\ new.row # NoRow => new.row \in Ids' /\ requests'[new.row].key = new.key
    BY <1>3
  <2> HIDE DEF new
  <2> QED  BY <1>1, <2>1, <2>2 DEF AnswersInv
<1> QED  BY <1>2, <1>3

LEMMA StepKeepsAnswers ==
    ASSUME Inv, RowsInv', RowsStay, [Next]_vars
    PROVE  AnswersInv'
<1> USE DEF Inv
<1>1. ASSUME UNCHANGED answers
      PROVE  AnswersInv'
  BY <1>1 DEF AnswersInv, RowsStay
<1>2. ASSUME NEW p \in Procs, LookUp(p)
      PROVE  AnswersInv'
  <2>1. CASE proc[p].key # NoKey /\ RowOf(proc[p].key) # NoRow
    <3> DEFINE id == RowOf(proc[p].key)
    <3>1. HandlerOK(proc[p], policy, requests) /\ proc[p].at = "lookup"
      BY <1>2 DEF LookUp, HandlersInv
    <3>2. id \in Ids /\ requests[id].key = proc[p].key
      BY <2>1, RowOfFinds
    <3>3. proc[p].earlier # NoRow => id = proc[p].earlier
      BY <2>1, <3>1, <3>2 DEF HandlerOK, RowsInv, Ids
    <3>4. Answer(p, id)
      BY <1>2, <2>1 DEF LookUp
    <3>5. id \in Ids' /\ requests'[id].key = proc[p].key
      BY <3>2 DEF RowsStay
    <3> HIDE DEF id
    <3> QED  BY <3>3, <3>4, <3>5, AnswerIsRight
  <2>2. CASE ~(proc[p].key # NoKey /\ RowOf(proc[p].key) # NoRow)
    BY <1>1, <1>2, <2>2 DEF LookUp
  <2> QED  BY <2>1, <2>2
<1>3. ASSUME NEW p \in Procs, CountRequests(p)
      PROVE  AnswersInv'
  <2>1. CASE UnderLimit(proc[p].policy)
    BY <1>1, <1>3, <2>1 DEF CountRequests
  <2>2. CASE ~UnderLimit(proc[p].policy)
    <3>1. proc[p].earlier = NoRow
      BY <1>3 DEF CountRequests, HandlersInv, HandlerOK
    <3>2. Answer(p, NoRow)
      BY <1>3, <2>2 DEF CountRequests
    <3> QED  BY <3>1, <3>2, AnswerIsRight
  <2> QED  BY <2>1, <2>2
<1>4. ASSUME NEW p \in Procs, CreateRequest(p)
      PROVE  AnswersInv'
  <2>1. HandlerOK(proc[p], policy, requests) /\ proc[p].at = "create" /\ proc[p].earlier = NoRow
    BY <1>4 DEF CreateRequest, HandlersInv, HandlerOK
  <2>2. CASE Collides(proc[p].key)
    <3> DEFINE id == RowOf(proc[p].key)
    <3>1. id \in Ids /\ requests[id].key = proc[p].key
      BY <2>2, RowOfFinds DEF Collides
    <3>2. Answer(p, id) /\ id \in Ids' /\ requests'[id].key = proc[p].key
      BY <1>4, <2>2, <3>1 DEF CreateRequest, RowsStay
    <3> HIDE DEF id
    <3> QED  BY <2>1, <3>2, AnswerIsRight
  <2>3. CASE ~Collides(proc[p].key)
    <3> DEFINE new == [key |-> proc[p].key, kind |-> proc[p].kind, status |-> proc[p].status,
                       first |-> proc[p].status, ran |-> proc[p].status = "executed",
                       limit |-> proc[p].policy.maxRequestsPerHour, recent |-> TRUE,
                   due |-> FALSE, undisturbed |-> proc[p].undisturbed]
    <3>1. Answer(p, Len(requests) + 1) /\ requests' = Append(requests, new)
      BY <1>4, <2>3 DEF CreateRequest
    <3>2. new.key = proc[p].key
      OBVIOUS
    <3> HIDE DEF new
    <3>3. Len(requests) + 1 \in Ids' /\ requests'[Len(requests) + 1] = new
      BY <3>1 DEF RowsInv, Ids
    <3> QED  BY <2>1, <3>1, <3>2, <3>3, AnswerIsRight
  <2> QED  BY <2>2, <2>3
<1> QED
  BY <1>1, <1>2, <1>3, <1>4
  DEF Next, vars, StartExecute, ReadPolicy, StartDecision, WriteDecision, StartPolicy, PutPolicy,
      Drop, Maintenance, StartMaintenance, ExpireNext, FailMaintenance, LeaveHour, PassDeadline

\* The worker's list holds rows that were stored to await approval.
LEMMA StepKeepsBatch ==
    ASSUME Inv, RowsStay, [Next]_vars
    PROVE  BatchInv'
<1> USE DEF Inv
<1>1. ASSUME batch' \subseteq batch
      PROVE  BatchInv'
  BY <1>1 DEF BatchInv, RowsStay
<1>2. CASE StartMaintenance
  <2>1. \A i \in batch' : i \in Ids /\ Waiting(i)
    BY <1>2 DEF StartMaintenance, Stale
  <2>2. \A i \in Ids : Waiting(i) => requests[i].first = "approval-required"
    BY DEF Waiting, RowsInv, RowOK
  <2> QED  BY <2>1, <2>2 DEF BatchInv, RowsStay
<1> QED
  BY <1>1, <1>2
  DEF Next, vars, StartExecute, LookUp, ReadPolicy, CountRequests, CreateRequest, StartDecision,
      WriteDecision, StartPolicy, PutPolicy, Drop, Maintenance, ExpireNext, FailMaintenance,
      LeaveHour, PassDeadline

-----------------------------------------------------------------------------

LEMMA InitInv == Init => Inv
<1> SUFFICES ASSUME Init  PROVE Inv
  OBVIOUS
<1>1. RowsInv
  BY DEF Init, RowsInv, Ids
<1>2. HandlersInv
  <2>1. policy \in Policies
    <3>1. PICK n \in HourLimits :
            policy = [killSwitch |-> FALSE, requireApproval |-> TRUE, maxRequestsPerHour |-> n]
      BY DEF Init
    <3> QED  BY <3>1 DEF Policies, Limits
  <2> QED  BY <2>1, IdleIsOK DEF Init, HandlersInv
<1>3. AnswersInv /\ BatchInv
  BY DEF Init, AnswersInv, BatchInv
<1> QED  BY <1>1, <1>2, <1>3 DEF Inv

LEMMA NextInv == Inv /\ [Next]_vars => Inv'
<1> SUFFICES ASSUME Inv, [Next]_vars  PROVE Inv'
  OBVIOUS
<1>1. RowsInv' /\ RowsStay
  BY StepKeepsRows
<1>2. HandlersInv'
  <2>1. CASE policy' = policy /\ proc' = proc
    BY <1>1, <2>1, OthersKeepHandlers DEF Inv
  <2>2. CASE ~(policy' = policy /\ proc' = proc)
    <3>1. PICK p \in Procs :
            \/ \E key \in Keys \cup {NoKey}, kind \in Kinds : StartExecute(p, key, kind)
            \/ LookUp(p) \/ ReadPolicy(p) \/ CountRequests(p) \/ CreateRequest(p)
            \/ \E i \in Ids, decision \in {"approve", "deny"} : StartDecision(p, i, decision)
            \/ WriteDecision(p)
            \/ \E b \in BOOLEAN : \/ StartPolicy(p, [policy EXCEPT !.killSwitch = b])
                                  \/ StartPolicy(p, [policy EXCEPT !.requireApproval = b])
            \/ \E n \in HourLimits : StartPolicy(p, [policy EXCEPT !.maxRequestsPerHour = n])
            \/ PutPolicy(p) \/ Drop(p)
      BY <2>2 DEF Next, vars, Maintenance, StartMaintenance, ExpireNext, FailMaintenance,
                  LeaveHour, PassDeadline
    <3> QED  BY <1>1, <3>1, BeginKeepsHandlers, StepKeepsHandlers
  <2> QED  BY <2>1, <2>2
<1>3. AnswersInv' /\ BatchInv'
  BY <1>1, StepKeepsAnswers, StepKeepsBatch
<1> QED  BY <1>1, <1>2, <1>3 DEF Inv

\* Whatever handlers, decisions and expiries meet, a request that was not
\* stored to await approval keeps its outcome, and one that the kill switch
\* covered is blocked.
THEOREM RequestsStayOK == Spec => []RequestsOK
<1>1. Inv => RequestsOK
  <2> SUFFICES ASSUME Inv  PROVE RequestsOK
    OBVIOUS
  <2>1. policy \in Policies
    BY DEF Inv, HandlersInv
  <2>2. \A i \in Ids : requests[i] \in Request /\ RowOK(requests[i])
    BY DEF Inv, RowsInv, Ids
  <2> QED  BY <2>1, <2>2 DEF RequestsOK, RowOK, Request, Statuses
<1> QED  BY <1>1, InitInv, NextInv, PTL DEF Spec

\* All answers to one idempotency key name one row, and a retry of a stored
\* request is answered with it.
THEOREM RetriesAlwaysAgree == Spec => []RetriesAgree
<1>1. Inv => RetriesAgree
  BY DEF Inv, RowsInv, AnswersInv, RetriesAgree
<1> QED  BY <1>1, InitInv, NextInv, PTL DEF Spec

-----------------------------------------------------------------------------
(* The hourly limit.  A handler between its count and its insert holds a      *)
(* place: for each limit n, the recent rows counted against n or less and the *)
(* handlers that will add such rows together stay below the bound.            *)

Counted(n) == {i \in Recent : requests[i].limit <= n}
Creating(n) == {p \in Procs : proc[p].at = "create" /\ proc[p].policy.maxRequestsPerHour <= n}

RateInv(n) == Cardinality(Counted(n)) + Cardinality(Creating(n)) <= n + Cardinality(Procs) - 1

LEMMA LimitsAreNumbers == Limits \subseteq Nat \ {0}
BY ActionAssumption DEF Limits

\* Recent rows and creating handlers can be counted.
LEMMA Countable ==
    ASSUME Inv, NEW n \in Limits
    PROVE  /\ IsFiniteSet(Recent) /\ Cardinality(Recent) \in Nat
           /\ IsFiniteSet(Counted(n)) /\ Cardinality(Counted(n)) \in Nat
           /\ Cardinality(Counted(n)) <= Cardinality(Recent)
           /\ IsFiniteSet(Creating(n)) /\ Cardinality(Creating(n)) \in Nat
           /\ IsFiniteSet(Procs) /\ Cardinality(Procs) \in Nat
           /\ Cardinality(Creating(n)) <= Cardinality(Procs)
<1>1. IsFiniteSet(Procs) /\ Creating(n) \subseteq Procs
  BY ActionAssumption DEF Creating
<1>2. IsFiniteSet(Ids) /\ Recent \subseteq Ids /\ Counted(n) \subseteq Recent
  <2>1. requests \in Seq(Request) /\ Ids = 1 .. Len(requests) /\ Len(requests) \in Nat
    BY DEF Inv, RowsInv, Ids
  <2> QED  BY <2>1, FS_Interval DEF Recent, Counted
<1> QED  BY <1>1, <1>2, FS_Subset, FS_CardinalityType

\* A step that takes no place and adds no recent row.
LEMMA FewerKeepRate ==
    ASSUME Inv, NEW n \in Limits, RateInv(n), Counted(n)' \subseteq Counted(n), Creating(n)' \subseteq Creating(n)
    PROVE  RateInv(n)'
<1>1. /\ Cardinality(Counted(n)') \in Nat /\ Cardinality(Counted(n)') <= Cardinality(Counted(n))
      /\ Cardinality(Creating(n)') \in Nat /\ Cardinality(Creating(n)') <= Cardinality(Creating(n))
  BY Countable, FS_Subset, FS_CardinalityType
<1> QED  BY <1>1, Countable, LimitsAreNumbers DEF RateInv

\* Taking a place: there was one below the limit, and so below every higher one.
LEMMA CountKeepsRate ==
    ASSUME Inv, NEW n \in Limits, RateInv(n), NEW p \in Procs, CountRequests(p), UnderLimit(proc[p].policy)
    PROVE  RateInv(n)'
<1> DEFINE m == proc[p].policy.maxRequestsPerHour
<1>0. proc \in [Procs -> Handler] /\ m \in Nat /\ n \in Nat
  BY LimitsAreNumbers DEF Inv, HandlersInv, Handler, Policies
<1>1. Recent' = Recent /\ Counted(n)' = Counted(n)
  BY DEF CountRequests, Recent, Counted, Ids
<1>2. CASE m <= n
  <2>1. Creating(n)' \subseteq Procs
    BY DEF Creating
  <2>2. Cardinality(Creating(n)') \in Nat /\ Cardinality(Creating(n)') <= Cardinality(Procs)
    BY <2>1, Countable, FS_Subset, FS_CardinalityType
  <2>3. Cardinality(Recent) < m
    BY DEF UnderLimit
  <2> HIDE DEF m
  <2> QED  BY <1>0, <1>1, <1>2, <2>2, <2>3, Countable DEF RateInv
<1>3. CASE ~(m <= n)
  <2>1. proc'[p].policy = proc[p].policy /\ \A q \in Procs \ {p} : proc'[q] = proc[q]
    BY <1>0 DEF CountRequests, Handler
  <2>2. Creating(n)' \subseteq Creating(n)
    BY <1>3, <2>1 DEF Creating
  <2> QED  BY <1>1, <2>2, FewerKeepRate
<1> QED  BY <1>2, <1>3

\* The place becomes a row.
LEMMA InsertKeepsRate ==
    ASSUME Inv, NEW n \in Limits, RateInv(n), NEW p \in Procs, CreateRequest(p), ~Collides(proc[p].key)
    PROVE  RateInv(n)'
<1> DEFINE k == Len(requests) + 1
           m == proc[p].policy.maxRequestsPerHour
<1>1. requests \in Seq(Request) /\ Ids = 1 .. Len(requests) /\ Len(requests) \in Nat
  BY DEF Inv, RowsInv, Ids
<1>2. PICK new : requests' = Append(requests, new) /\ new.limit = m /\ proc' = [proc EXCEPT ![p] = Idle]
  BY DEF CreateRequest, Answer
<1>3. /\ Ids' = Ids \cup {k} /\ k \notin Ids /\ requests'[k] = new
      /\ \A i \in Ids : requests'[i] = requests[i]
  BY <1>1, <1>2 DEF Ids
<1>4. /\ Counted(n)' \subseteq Counted(n) \cup {k} /\ k \notin Counted(n)
      /\ ~(m <= n) => Counted(n)' \subseteq Counted(n)
  <2> HIDE DEF k, m
  <2> QED  BY <1>2, <1>3 DEF Recent, Counted
<1>5. Creating(n)' = Creating(n) \ {p} /\ (m <= n => p \in Creating(n))
  <2>1. proc \in [Procs -> Handler] /\ proc[p].at = "create"
    BY DEF Inv, HandlersInv, CreateRequest
  <2>2. Idle.at # "create"
    BY DEF Idle
  <2> QED  BY <1>2, <2>1, <2>2 DEF Creating
<1>6. CASE ~(m <= n)
  <2>1. Counted(n)' \subseteq Counted(n) /\ Creating(n)' \subseteq Creating(n)
    BY <1>4, <1>5, <1>6
  <2> QED  BY <2>1, FewerKeepRate
<1>7. CASE m <= n
  <2>1. /\ IsFiniteSet(Counted(n) \cup {k})
        /\ Cardinality(Counted(n) \cup {k}) = Cardinality(Counted(n)) + 1
    BY <1>4, Countable, FS_AddElement
  <2>2. Cardinality(Counted(n)') \in Nat /\ Cardinality(Counted(n)') <= Cardinality(Counted(n)) + 1
    BY <1>4, <2>1, FS_Subset, FS_CardinalityType
  <2>3. Cardinality(Creating(n)') = Cardinality(Creating(n)) - 1
    BY <1>5, <1>7, Countable, FS_RemoveElement
  <2> QED  BY <2>2, <2>3, Countable, LimitsAreNumbers DEF RateInv
<1> QED  BY <1>6, <1>7

LEMMA StepKeepsRate ==
    ASSUME Inv, NEW n \in Limits, RateInv(n), [Next]_vars
    PROVE  RateInv(n)'
<1>0. requests \in Seq(Request) /\ proc \in [Procs -> Handler] /\ \A i \in Ids : requests[i] \in Request
  BY DEF Inv, RowsInv, HandlersInv, Ids
<1>1. ASSUME UNCHANGED requests, NEW p \in Procs, NEW at, at # "create",
             \E h : proc' = [proc EXCEPT ![p] = h] /\ h.at = at
      PROVE  RateInv(n)'
  <2>1. Counted(n)' \subseteq Counted(n)
    BY <1>1 DEF Recent, Counted, Ids
  <2>2. Creating(n)' \subseteq Creating(n)
    BY <1>0, <1>1 DEF Creating
  <2> QED  BY <2>1, <2>2, FewerKeepRate
<1>2. ASSUME NEW i \in Ids, NEW status, DecideRequest(i, status), Creating(n)' \subseteq Creating(n)
      PROVE  RateInv(n)'
  <2>1. /\ Ids' = Ids
        /\ \A j \in Ids : requests'[j].recent = requests[j].recent /\ requests'[j].limit = requests[j].limit
    BY <1>0, <1>2 DEF DecideRequest, Ids, Request
  <2>2. Counted(n)' \subseteq Counted(n)
    BY <2>1 DEF Recent, Counted
  <2> QED  BY <1>2, <2>2, FewerKeepRate
<1>3. ASSUME NEW i \in Ids, LeaveHour(i) \/ PassDeadline(i)
      PROVE  RateInv(n)'
  <2>1. /\ Ids' = Ids
        /\ \A j \in Ids : /\ requests'[j].recent => requests[j].recent
                         /\ requests'[j].limit = requests[j].limit
    <3>1. PICK r : /\ requests' = [requests EXCEPT ![i] = r] /\ r.limit = requests[i].limit
                   /\ r.recent => requests[i].recent
      BY <1>0, <1>3 DEF LeaveHour, PassDeadline, Request
    <3> QED  BY <1>0, <3>1 DEF Ids
  <2>2. Counted(n)' \subseteq Counted(n) /\ Creating(n)' \subseteq Creating(n)
    BY <1>3, <2>1 DEF Recent, Counted, Creating, LeaveHour, PassDeadline
  <2> QED  BY <2>2, FewerKeepRate
<1>4. ASSUME UNCHANGED <<requests, proc>>
      PROVE  RateInv(n)'
  <2>1. Counted(n)' \subseteq Counted(n) /\ Creating(n)' \subseteq Creating(n)
    BY <1>4 DEF Recent, Counted, Creating, Ids
  <2> QED  BY <2>1, FewerKeepRate
<1>5. ASSUME NEW p \in Procs, Drop(p)
      PROVE  RateInv(n)'
  BY <1>1, <1>5 DEF Drop, Idle
<1>6. ASSUME NEW p \in Procs, WriteDecision(p)
      PROVE  RateInv(n)'
  <2>1. Creating(n)' \subseteq Creating(n)
    BY <1>0, <1>6 DEF WriteDecision, Creating, Idle
  <2>2. proc[p].row \in Ids
    BY <1>6 DEF WriteDecision, Inv, HandlersInv, HandlerOK, Ids
  <2> QED  BY <1>2, <1>6, <2>1, <2>2 DEF WriteDecision
<1>7. CASE ExpireNext
  <2>1. PICK i \in batch : DecideRequest(i, "expired")
    BY <1>7 DEF ExpireNext
  <2>2. i \in Ids /\ Creating(n)' \subseteq Creating(n)
    BY <1>7 DEF Inv, BatchInv, ExpireNext, Creating
  <2> QED  BY <1>2, <2>1, <2>2
<1>8. ASSUME NEW p \in Procs, NEW h, Begin(p, h), h.at # "create", UNCHANGED requests
      PROVE  RateInv(n)'
  BY <1>1, <1>8 DEF Begin
<1>9. ASSUME NEW p \in Procs,
             \/ \E key \in Keys \cup {NoKey}, kind \in Kinds : StartExecute(p, key, kind)
             \/ \E i \in Ids, decision \in {"approve", "deny"} : StartDecision(p, i, decision)
             \/ \E change : StartPolicy(p, change)
      PROVE  RateInv(n)'
  <2>1. ASSUME NEW key, NEW kind, StartExecute(p, key, kind)
        PROVE  RateInv(n)'
    <3> DEFINE h == [Idle EXCEPT !.at = "lookup", !.key = key, !.kind = kind,
                       !.earlier = IF key = NoKey THEN NoRow ELSE RowOf(key),
                       !.undisturbed = policy.killSwitch]
    <3>1. Begin(p, h) /\ UNCHANGED requests /\ h.at = "lookup"
      BY <2>1 DEF StartExecute, Idle
    <3> HIDE DEF h
    <3> QED  BY <1>8, <3>1
  <2>2. ASSUME NEW i, NEW decision, StartDecision(p, i, decision)
        PROVE  RateInv(n)'
    <3> DEFINE h == [Idle EXCEPT !.at = "decide", !.row = i, !.status = OutcomeOf(decision, i)]
    <3>1. Begin(p, h) /\ UNCHANGED requests /\ h.at = "decide"
      BY <2>2 DEF StartDecision, Idle
    <3> HIDE DEF h
    <3> QED  BY <1>8, <3>1
  <2>3. ASSUME NEW change, StartPolicy(p, change)
        PROVE  RateInv(n)'
    <3> DEFINE h == [Idle EXCEPT !.at = "putPolicy", !.policy = change]
    <3>1. Begin(p, h) /\ UNCHANGED requests /\ h.at = "putPolicy"
      BY <2>3 DEF StartPolicy, Idle
    <3> HIDE DEF h
    <3> QED  BY <1>8, <3>1
  <2> QED  BY <1>9, <2>1, <2>2, <2>3
<1>10. ASSUME NEW p \in Procs, LookUp(p) \/ ReadPolicy(p)
       PROVE  RateInv(n)'
  <2>1. Counted(n)' \subseteq Counted(n)
    BY <1>10 DEF LookUp, ReadPolicy, Recent, Counted, Ids
  <2>2. ASSUME NEW q \in Procs, proc'[q].at = "create"
        PROVE  proc[q].at = "create" /\ proc'[q] = proc[q]
    <3>1. CASE q = p
      <4>1. PICK at \in {"idle", "policy", "count"} : proc'[p].at = at
        BY <1>0, <1>10 DEF LookUp, ReadPolicy, Answer, Idle, Handler
      <4> QED  BY <2>2, <3>1, <4>1
    <3>2. CASE q # p
      <4>1. proc'[q] = proc[q]
        BY <1>0, <1>10, <3>2 DEF LookUp, ReadPolicy, Answer
      <4> QED  BY <2>2, <4>1
    <3> QED  BY <3>1, <3>2
  <2>3. Creating(n)' \subseteq Creating(n)
    BY <2>2 DEF Creating
  <2> QED  BY <2>1, <2>3, FewerKeepRate
<1>11. ASSUME NEW p \in Procs, CountRequests(p)
       PROVE  RateInv(n)'
  <2>1. CASE UnderLimit(proc[p].policy)
    BY <1>11, <2>1, CountKeepsRate
  <2>2. CASE ~UnderLimit(proc[p].policy)
    BY <1>1, <1>11, <2>2 DEF CountRequests, Answer, Idle
  <2> QED  BY <2>1, <2>2
<1>12. ASSUME NEW p \in Procs, CreateRequest(p)
       PROVE  RateInv(n)'
  <2>1. CASE Collides(proc[p].key)
    BY <1>1, <1>12, <2>1 DEF CreateRequest, Answer, Idle
  <2>2. CASE ~Collides(proc[p].key)
    BY <1>12, <2>2, InsertKeepsRate
  <2> QED  BY <2>1, <2>2
<1>13. ASSUME NEW p \in Procs, PutPolicy(p)
       PROVE  RateInv(n)'
  <2>1. Counted(n)' \subseteq Counted(n)
    BY <1>13 DEF PutPolicy, Recent, Counted, Ids
  <2>2. \A q \in Procs : proc'[q].at = "create" => proc[q].at = "create" /\ proc'[q].policy = proc[q].policy
    <3> TAKE q \in Procs
    <3>1. CASE q = p
      BY <1>13, <3>1 DEF PutPolicy, Idle
    <3>2. CASE q # p
      <4>1. proc'[q] = [proc[q] EXCEPT !.undisturbed = @ /\ policy'.killSwitch]
        BY <1>13, <3>2 DEF PutPolicy
      <4>2. proc[q] \in Handler
        BY <1>0
      <4> QED  BY <4>1, <4>2 DEF Handler
    <3> QED  BY <3>1, <3>2
  <2>3. Creating(n)' \subseteq Creating(n)
    BY <2>2 DEF Creating
  <2> QED  BY <2>1, <2>3, FewerKeepRate
<1> QED
  BY <1>3, <1>4, <1>5, <1>6, <1>7, <1>9, <1>10, <1>11, <1>12, <1>13
  DEF Next, vars, Maintenance, StartMaintenance, FailMaintenance

\* For every limit, of the rows counted against it or a lower one at most as
\* many are over it as there are further handlers, however counts, inserts,
\* changes of the limit and failing reads of the policy interleave.
THEOREM RateStaysBounded == Spec => []RateIsBounded
<1> DEFINE Rate == \A n \in Limits : RateInv(n)
<1>1. Init => Rate
  <2> SUFFICES ASSUME Init, NEW n \in Limits  PROVE RateInv(n)
    OBVIOUS
  <2>1. Counted(n) = {} /\ Creating(n) = {}
    BY DEF Init, Recent, Counted, Ids, Creating, Idle
  <2>2. Cardinality(Procs) \in Nat
    BY ActionAssumption, FS_CardinalityType
  <2> QED  BY <2>1, <2>2, FS_EmptySet, LimitsAreNumbers DEF RateInv
<1>2. Inv /\ Rate /\ [Next]_vars => Rate'
  BY StepKeepsRate
<1>3. Inv /\ Rate => RateIsBounded
  <2> SUFFICES ASSUME Inv, Rate, NEW n \in Limits
               PROVE  Cardinality(Counted(n)) <= n + Cardinality(Procs) - 1
    BY DEF RateIsBounded, Counted
  <2> QED  BY Countable, LimitsAreNumbers DEF RateInv
<1> HIDE DEF Rate
<1> QED  BY <1>1, <1>2, <1>3, InitInv, NextInv, PTL DEF Spec
=============================================================================
