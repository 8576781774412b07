--------------------------- MODULE ActionApproval ---------------------------
(* Requests of agents to act, their policy and their approval.                *)
(*                                                                            *)
(* A request is looked up by its idempotency key, counted against the hourly  *)
(* limit, evaluated against the tenant's policy and stored. One that awaits   *)
(* approval is decided by an administrator, or expired by the worker after    *)
(* its deadline. Nothing runs in a transaction: each handler is a few         *)
(* statements, and what it read may be stale when it writes.                  *)
(*                                                                            *)
(* One tenant. Time is two facts of a request: whether it is of the last hour *)
(* and whether its deadline passed. Payloads, redaction and audit are left    *)
(* out; so is the dry run of the worker, which writes nothing.                *)
EXTENDS Naturals, FiniteSets, Sequences

CONSTANTS Procs,           \* API requests at a time
          Keys, NoKey,     \* idempotency keys, each with its requester
          HourLimits,      \* what an administrator may set maxRequestsPerHour to
          DefaultLimit,    \* maxRequestsPerHour of the default policy
          Limit,           \* rows the worker takes at a time
          MaxOps,          \* bound on the requests to the API
          MaxFaults        \* bound on the failures of the worker

ASSUME ActionAssumption ==
  /\ NoKey \notin Keys /\ IsFiniteSet(Procs)
  /\ HourLimits \cup {DefaultLimit, Limit} \subseteq Nat \ {0}
  /\ {MaxOps, MaxFaults} \subseteq Nat

VARIABLES policy,    \* the stored policy
          requests,  \* agent_action_requests, in the order they were created
          proc,      \* the handlers
          batch,     \* what the worker has still to expire
          answers,   \* what requests with a key were told
          ops, faults

vars == <<policy, requests, proc, batch, answers, ops, faults>>
-----------------------------------------------------------------------------
(* Data.                                                                      *)

\* dry: a dry run; task: create-task-record; other: a type without an adapter.
Kinds == {"dry", "task", "other"}
\* killSwitch stands for the three ways to block: the switch itself, a policy that
\* is not enabled, an action type that is not allowed.
Limits == HourLimits \cup {DefaultLimit}
Policies == [killSwitch : BOOLEAN, requireApproval : BOOLEAN, maxRequestsPerHour : Limits]
\* What getPolicy answers without a row, or the handler when it fails: disabled,
\* with a limit of its own.
DefaultPolicy == [killSwitch |-> TRUE, requireApproval |-> TRUE, maxRequestsPerHour |-> DefaultLimit]

Ids == DOMAIN requests
NoRow == 0
RowOf(key) == IF \E i \in Ids : requests[i].key = key
              THEN CHOOSE i \in Ids : requests[i].key = key ELSE NoRow

\* earlier: the row of this key when the handler began; undisturbed: the kill
\* switch has been on ever since. Both are kept for the properties.
Idle == [at |-> "idle", key |-> NoKey, kind |-> "dry", policy |-> DefaultPolicy,
         row |-> NoRow, status |-> "none", earlier |-> NoRow, undisturbed |-> FALSE]

Init ==
  /\ policy \in {[killSwitch |-> FALSE, requireApproval |-> TRUE, maxRequestsPerHour |-> n] :
                   n \in HourLimits}
  /\ requests = << >>
  /\ proc = [p \in Procs |-> Idle]
  /\ batch = {}
  /\ answers = {}
  /\ ops = 0 /\ faults = 0

Begin(p, handler) ==
  /\ proc[p].at = "idle" /\ ops < MaxOps
  /\ ops' = ops + 1
  /\ proc' = [proc EXCEPT ![p] = handler]

Answer(p, id) ==
  /\ answers' = IF proc[p].key = NoKey THEN answers
                ELSE answers \cup {[key |-> proc[p].key, earlier |-> proc[p].earlier, row |-> id]}
  /\ proc' = [proc EXCEPT ![p] = Idle]
-----------------------------------------------------------------------------
(* POST /agent/actions/execute.                                               *)

\* evaluateAgentActionExecution.
Evaluate(pol, kind) ==
  CASE pol.killSwitch -> "blocked"
    [] ~pol.killSwitch /\ kind = "dry" -> "dry-run"
    [] ~pol.killSwitch /\ kind # "dry" /\ pol.requireApproval -> "approval-required"
    [] OTHER -> IF kind = "task" THEN "executed" ELSE "blocked"

StartExecute(p, key, kind) ==
  /\ Begin(p, [Idle EXCEPT !.at = "lookup", !.key = key, !.kind = kind,
                           !.earlier = IF key = NoKey THEN NoRow ELSE RowOf(key),
                           !.undisturbed = policy.killSwitch])
  /\ UNCHANGED <<policy, requests, batch, answers, faults>>

LookUp(p) ==
  /\ proc[p].at = "lookup"
  /\ IF proc[p].key # NoKey /\ RowOf(proc[p].key) # NoRow
     THEN Answer(p, RowOf(proc[p].key))
     ELSE /\ proc' = [proc EXCEPT ![p].at = "policy"]
          /\ UNCHANGED answers
  /\ UNCHANGED <<policy, requests, batch, ops, faults>>

\* getPolicy, whose failure is the default policy.
ReadPolicy(p) ==
  /\ proc[p].at = "policy"
  /\ \E pol \in {policy, DefaultPolicy} :
       proc' = [proc EXCEPT ![p].at = "count", ![p].policy = pol]
  /\ UNCHANGED <<policy, requests, batch, answers, ops, faults>>

\* countRequestsSince.
Recent == {i \in Ids : requests[i].recent}

\* MUTANT of UnderLimit: one request over the limit.
UnderLimitOrAt(pol) == Cardinality(Recent) <= pol.maxRequestsPerHour

UnderLimit(pol) == Cardinality(Recent) < pol.maxRequestsPerHour

CountRequests(p) ==
  /\ proc[p].at = "count"
  /\ IF UnderLimit(proc[p].policy)
     THEN /\ proc' = [proc EXCEPT ![p].at = "create", ![p].status = Evaluate(proc[p].policy, proc[p].kind)]
          /\ UNCHANGED answers
     ELSE Answer(p, NoRow)
  /\ UNCHANGED <<policy, requests, batch, ops, faults>>

\* MUTANT of Collides: no unique index over the requester and the key.
CollidesNever(key) == FALSE

\* The unique indexes of migration 027; NULL keys do not collide.
Collides(key) == key # NoKey /\ RowOf(key) # NoRow

\* createRequest: the insert, or on a unique violation the row it met. Of the
\* policy snapshot the row keeps the limit it was counted against.
CreateRequest(p) ==
  LET new == [key |-> proc[p].key, kind |-> proc[p].kind, status |-> proc[p].status,
              first |-> proc[p].status, ran |-> proc[p].status = "executed",
              limit |-> proc[p].policy.maxRequestsPerHour, recent |-> TRUE, due |-> FALSE,
              undisturbed |-> proc[p].undisturbed]
  IN /\ proc[p].at = "create"
     /\ IF Collides(proc[p].key)
        THEN Answer(p, RowOf(proc[p].key)) /\ UNCHANGED requests
        ELSE Answer(p, Len(requests) + 1) /\ requests' = Append(requests, new)
     /\ UNCHANGED <<policy, batch, ops, faults>>
-----------------------------------------------------------------------------
(* Decisions.                                                                 *)

Waiting(i) == requests[i].status = "approval-required"

\* MUTANT of Decidable: the decision is not refused with 409.
DecidableAlways(i) == TRUE

Decidable(i) == Waiting(i)

\* buildActionApprovalResult, denial, and approval after the deadline.
OutcomeOf(decision, i) ==
  IF decision = "deny" THEN "denied"
  ELSE IF requests[i].due THEN "expired"
  ELSE IF requests[i].kind = "task" THEN "executed" ELSE "approved"

\* getRequest and the checks; a request that is not waiting is answered 409.
StartDecision(p, i, decision) ==
  /\ Decidable(i)
  /\ Begin(p, [Idle EXCEPT !.at = "decide", !.row = i, !.status = OutcomeOf(decision, i)])
  /\ UNCHANGED <<policy, requests, batch, answers, faults>>

\* decideRequest: WHERE id, whatever the status is by now. executed_at stays.
DecideRequest(i, status) ==
  requests' = [requests EXCEPT ![i].status = status,
                               ![i].ran = @ \/ status = "executed"]

WriteDecision(p) ==
  /\ proc[p].at = "decide"
  /\ DecideRequest(proc[p].row, proc[p].status)
  /\ proc' = [proc EXCEPT ![p] = Idle]
  /\ UNCHANGED <<policy, batch, answers, ops, faults>>

\* MUTANT of Stale: every request past its deadline, decided or not.
StaleAnyStatus == {i \in Ids : requests[i].due}

\* listExpiredApprovalRequests.
Stale == {i \in Ids : requests[i].due /\ Waiting(i)}

\* runActionApprovalExpiryMaintenance: one run at a time, oldest deadline first.
StartMaintenance ==
  /\ batch = {} /\ Stale # {}
  /\ batch' = {i \in Stale : Cardinality({j \in Stale : j < i}) < Limit}
  /\ UNCHANGED <<policy, requests, proc, answers, ops, faults>>

ExpireNext ==
  /\ \E i \in batch :
       /\ \A j \in batch : i <= j
       /\ DecideRequest(i, "expired")
       /\ batch' = batch \ {i}
  /\ UNCHANGED <<policy, proc, answers, ops, faults>>

\* The run fails, or the worker restarts: what is left waits for another run.
FailMaintenance ==
  /\ batch # {} /\ faults < MaxFaults
  /\ batch' = {} /\ faults' = faults + 1
  /\ UNCHANGED <<policy, requests, proc, answers, ops>>
-----------------------------------------------------------------------------
(* The policy, the clock and failures.                                        *)

\* upsertPolicy reads the row, changes the fields it was given and writes all.
StartPolicy(p, change) ==
  /\ Begin(p, [Idle EXCEPT !.at = "putPolicy", !.policy = change])
  /\ UNCHANGED <<policy, requests, batch, answers, faults>>

PutPolicy(p) ==
  /\ proc[p].at = "putPolicy"
  /\ policy' = proc[p].policy
  /\ proc' = [q \in Procs |-> IF q = p THEN Idle
                ELSE [proc[q] EXCEPT !.undisturbed = @ /\ policy'.killSwitch]]
  /\ UNCHANGED <<requests, batch, answers, ops, faults>>

\* created_at leaves the last hour, oldest first.
LeaveHour(i) ==
  /\ requests[i].recent /\ \A j \in Recent : i <= j
  /\ requests' = [requests EXCEPT ![i].recent = FALSE]
  /\ UNCHANGED <<policy, proc, batch, answers, ops, faults>>

PassDeadline(i) ==
  /\ Waiting(i) /\ ~requests[i].due
  /\ \A j \in Ids : j < i /\ Waiting(j) => requests[j].due
  /\ requests' = [requests EXCEPT ![i].due = TRUE]
  /\ UNCHANGED <<policy, proc, batch, answers, ops, faults>>

\* A statement fails or the process dies: no answer.
Drop(p) ==
  /\ proc[p].at # "idle"
  /\ proc' = [proc EXCEPT ![p] = Idle]
  /\ UNCHANGED <<policy, requests, batch, answers, ops, faults>>
-----------------------------------------------------------------------------
Maintenance == StartMaintenance \/ ExpireNext

Next ==
  \/ \E p \in Procs :
       \/ \E key \in Keys \cup {NoKey}, kind \in Kinds : StartExecute(p, key, kind)
       \/ LookUp(p) \/ ReadPolicy(p) \/ CountRequests(p) \/ CreateRequest(p)
       \/ \E i \in Ids, decision \in {"approve", "deny"} : StartDecision(p, i, decision)
       \/ WriteDecision(p)
       \/ \E b \in BOOLEAN : \/ StartPolicy(p, [policy EXCEPT !.killSwitch = b])
                             \/ StartPolicy(p, [policy EXCEPT !.requireApproval = b])
       \/ \E n \in HourLimits : StartPolicy(p, [policy EXCEPT !.maxRequestsPerHour = n])
       \/ PutPolicy(p) \/ Drop(p)
  \/ Maintenance \/ FailMaintenance
  \/ \E i \in Ids : LeaveHour(i) \/ PassDeadline(i)

\* The worker's schedule; requests and decisions are not assumed to come.
Fairness == WF_vars(StartMaintenance) /\ WF_vars(ExpireNext)

Spec == Init /\ [][Next]_vars /\ Fairness
-----------------------------------------------------------------------------
(* Properties.                                                                *)

\* The rows are of their type. A row whose status changed was stored to await
\* approval, and only such a row, or one stored as executed, ever ran: whatever
\* decisions and expiries met, a blocked or dry request stays what it was. A
\* request during which the kill switch was on is blocked.
RequestsOK ==
  /\ policy \in Policies
  /\ \A i \in Ids :
       LET r == requests[i]
       IN /\ r.status \in {"blocked", "dry-run", "approval-required", "executed",
                           "approved", "denied", "expired"}
          /\ r.status # r.first => r.first = "approval-required"
          /\ r.status = "executed" => r.ran
          /\ r.ran => r.kind = "task" /\ r.first \in {"executed", "approval-required"}
          /\ r.undisturbed => r.first = "blocked"

\* Every answer to an idempotency key names one row, though two requests with
\* the key may both find nothing and insert; and a retry of a stored request
\* gets it, whatever the limit and the policy say by then.
RetriesAgree ==
  \A a \in answers :
    /\ a.earlier # NoRow => a.row = a.earlier
    /\ \A b \in answers : a.key = b.key /\ NoRow \notin {a.row, b.row} => a.row = b.row

\* Of the rows that were counted against a limit, or a lower one, those of an
\* hour exceed it by no more than the requests that can be between their count
\* and their insert. The limit is that of the policy the request was answered
\* under: a lowered one binds from then on, and rows let in by the default policy,
\* when the stored one cannot be read, do not widen what a stored limit lets in.
RateIsBounded ==
  \A n \in Limits :
    Cardinality({i \in Recent : requests[i].limit <= n})
      <= n + Cardinality(Procs) - 1

\* A request that awaits approval after its deadline is settled in the end,
\* whatever rows are before it and however often the worker is interrupted.
StaleApprovalsExpire ==
  \A i \in 1 .. MaxOps :
    (i \in Ids /\ requests[i].due /\ Waiting(i)) ~> (i \in Ids /\ ~Waiting(i))
=============================================================================
