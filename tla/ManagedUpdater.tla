--------------------------- MODULE ManagedUpdater ---------------------------
(***************************************************************************)
(* UpdateManager (packages/updater/src/manager.ts) with its ledger, the    *)
(* approval files of the host operator (approval.ts) and the installation  *)
(* of ManagedHost: requests, decisions, the tick that claims an approved   *)
(* request, the operation it launches, and the restart of the updater.     *)
(*                                                                         *)
(* Requests, the tick and launched operations interleave at every await.   *)
(* Ledger changes go through one queue (mutate) and are atomic, but their  *)
(* write can be lost, or be done and reported as failed.                   *)
(***************************************************************************)
EXTENDS ManagedHost, FiniteSets

CONSTANTS
    Retention,          \* recovery points kept by a completed update
    WriteFaults,        \* how a ledger write may fail
    MaxFaults,          \* bounds failed writes, failed calls and crashes
    MaxWrites           \* bounds the writes users make in the application

ASSUME RetentionAssumption == Retention \in Nat \ {0}
ASSUME WriteFaultsAssumption == WriteFaults \subseteq {"lost", "unacknowledged"}
ASSUME BoundsAssumption == MaxFaults \in Nat /\ MaxWrites \in Nat

VARIABLES
    ledger,         \* state.json: the jobs,
    points,         \* the recovery points, newest first,
    available,      \* and the newer release found by the last check, or 0
    decided,        \* decisions/<job>.json
    consumed,       \* consumed/<job>.json
    shown,          \* requests the approval command has read and validated
    clock,          \* each request's time: before its schedule, due, expired
    feed,           \* the release the signed feed offers, 0 before the first
    asked,          \* requests of apply and rollback before they are admitted
    tick,           \* the tick and the request it is looking at
    run,            \* launched operations: program and next instruction
    launches,       \* how often each job was launched
    up,             \* whether the updater process runs
    written,        \* number of the application's last accepted write
    faults,
    host

files == <<ledger, points, available, decided, consumed>>
process == <<asked, tick, run, up>>
vars == <<files, process, shown, clock, feed, launches, written, faults, host>>

-----------------------------------------------------------------------------
(* The ledger.                                                             *)

\* "queued" is not given to any job any more
Pending == {"awaiting-approval", "scheduled"}

Running == {"preflight", "staging", "maintenance", "backing-up", "migrating",
            "starting", "verifying", "rolling-back"}

Ended == {"completed", "failed", "rolled-back", "cancelled", "denied",
          "expired", "needs-attention"}

ActivePhases == Pending \cup Running

NoJobEntry == [kind |-> "none", phase |-> "none", target |-> 0, source |-> 0,
               point |-> NoJob, automatic |-> FALSE, scheduled |-> FALSE,
               started |-> FALSE, reopened |-> FALSE]

JobEntry == [kind : {"none", "update", "rollback"},
             phase : {"none"} \cup ActivePhases \cup Ended,
             target : Versions, source : Versions, point : Jobs \cup {NoJob},
             automatic : BOOLEAN, scheduled : BOOLEAN,
             started : BOOLEAN, reopened : BOOLEAN]

Active(j) == ledger[j].phase \in ActivePhases

NoActiveJobBut(j) == \A k \in Jobs \ {j} : ~Active(k)

\* pending(): the phase alone is not trusted
IsPending(j) == ledger[j].phase \in Pending /\ ~ledger[j].started

EndAs(j, phase) == [ledger EXCEPT ![j].phase = phase]

\* MUTANT: forgets that a scheduled request is pending too
FinishAwaiting(j, phase) ==
    IF ledger[j].phase = "awaiting-approval" THEN EndAs(j, phase) ELSE ledger

\* finishPending: a request that was cancelled meanwhile keeps its phase
FinishPending(j, phase) == IF IsPending(j) THEN EndAs(j, phase) ELSE ledger

\* the tick holds the ledger's queue while it consumes an approval
LedgerFree == tick.at # "consumed"

-----------------------------------------------------------------------------
(* Operations are lists of ledger writes and executor calls.               *)

Write(phase, reopened) == [op |-> "write", phase |-> phase, reopened |-> reopened]
Phase(phase) == Write(phase, FALSE)
MarkReopened == Write("same", TRUE)
Call(call) == [op |-> "call", call |-> call]
ListPoint == [op |-> "list"]        \* recoveryPoints gets the new point
NamePoint == [op |-> "name"]        \* the job refers to it
RetainPoints == [op |-> "retain"]   \* recoveryPoints after pruning

\* MUTANT: writes are recorded as reopened after they were
UpdateMarkingLate ==
    <<Phase("staging"), Call("stage"),
      Phase("maintenance"), Call("enterMaintenance"),
      Phase("backing-up"), Call("createRecoveryPoint"), ListPoint, NamePoint,
      Phase("migrating"), Call("migrate"),
      Phase("starting"), Call("startCandidate"),
      Phase("verifying"), Call("verifyCandidate"),
      Call("reopenWrites"), MarkReopened,
      Call("deleteRecoveryPoints"), RetainPoints, Write("completed", TRUE)>>

UpdateProgram ==
    <<Phase("staging"), Call("stage"),
      Phase("maintenance"), Call("enterMaintenance"),
      Phase("backing-up"), Call("createRecoveryPoint"), ListPoint, NamePoint,
      Phase("migrating"), Call("migrate"),
      Phase("starting"), Call("startCandidate"),
      Phase("verifying"), Call("verifyCandidate"),
      MarkReopened, Call("reopenWrites"),
      Call("deleteRecoveryPoints"), RetainPoints, Write("completed", TRUE)>>

RollbackProgram ==
    <<Phase("maintenance"), Call("enterMaintenance"), Write("rolling-back", TRUE),
      Call("rollbackDatabase"), Write("rolled-back", TRUE)>>

\* what the failure of an update may be answered with
ResumeProgram == <<MarkReopened, Call("resumeCurrent"), Phase("failed")>>

RestoreProgram ==
    <<Phase("rolling-back"), MarkReopened, Call("restore"), Phase("rolled-back")>>

Program(name) ==
    CASE name = "update" -> UpdateProgram
      [] name = "rollback" -> RollbackProgram
      [] name = "resume" -> ResumeProgram
      [] name = "restore" -> RestoreProgram
      [] name = "attention" -> <<Phase("needs-attention")>>
      [] name = "fail" -> <<Phase("failed")>>
      [] name = "none" -> <<>>

Idle == [program |-> "none", at |-> 1, saved |-> FALSE]

Start(program, saved) == [program |-> program, at |-> 1, saved |-> saved]

Busy(j) == run[j].program # "none"

Instruction(j) == Program(run[j].program)[run[j].at]

Passed(j, instruction) ==
    \E i \in 1..(run[j].at - 1) : Program(run[j].program)[i] = instruction

\* MUTANT: a failed rollback reopens the application
HandlerResumingRollbacks(j, entry) ==
    CASE run[j].program = "update" -> IF run[j].saved THEN "attention" ELSE "fail"
      [] run[j].program = "rollback" -> "resume"
      [] run[j].program \in {"resume", "restore"} -> "attention"
      [] OTHER -> "none"

\* MUTANT: restores without asking whether writes were reopened
HandlerRestoringAlways(j, entry) ==
    CASE run[j].program = "update" ->
            IF entry.automatic /\ run[j].saved THEN "restore" ELSE "fail"
      [] run[j].program \in {"rollback", "resume", "restore"} -> "attention"
      [] OTHER -> "none"

\* the catch blocks: what continues after an instruction of j threw, with the
\* job as the ledger then has it; a release whose rollback mode forbids the
\* restore has not passed preflight
Handler(j, entry) ==
    CASE run[j].program = "update" ->
            IF Passed(j, Phase("maintenance")) /\ ~run[j].saved THEN "resume"
            ELSE IF entry.automatic /\ run[j].saved /\ ~entry.reopened THEN "restore"
            ELSE IF entry.reopened THEN "attention" ELSE "fail"
      [] run[j].program \in {"rollback", "resume", "restore"} -> "attention"
      [] OTHER -> "none"

Advance(j) ==
    /\ run' = [run EXCEPT ![j] =
              IF run[j].at = Len(Program(run[j].program)) THEN Idle
              ELSE [program |-> run[j].program,
                    at |-> run[j].at + 1,
                    saved |-> \/ run[j].saved
                              \/ Instruction(j) = Call("createRecoveryPoint")]]
    /\ UNCHANGED <<asked, tick, up>>

-----------------------------------------------------------------------------
NothingAsked == [kind |-> "none", target |-> 0, source |-> 0, point |-> NoJob,
                 automatic |-> FALSE, scheduled |-> FALSE]

Quiet == [at |-> "idle", job |-> NoJob]

Init == /\ ledger = [j \in Jobs |-> NoJobEntry]
        /\ points = <<>>
        /\ available = 0
        /\ decided = [j \in Jobs |-> "no"]
        /\ consumed = {}
        /\ shown = {}
        /\ clock = [j \in Jobs |-> "due"]
        /\ feed = 0
        /\ asked = [j \in Jobs |-> NothingAsked]
        /\ tick = Quiet
        /\ run = [j \in Jobs |-> Idle]
        /\ launches = [j \in Jobs |-> 0]
        /\ up = TRUE
        /\ written = 0
        /\ faults = 0
        /\ host = HostInit

Fault == faults < MaxFaults /\ faults' = faults + 1

\* A ledger write is done, or it throws: "unacknowledged" after the new file
\* was renamed into place, "lost" before that.
Outcomes == {"done"} \cup WriteFaults

Pays(outcome) == IF outcome = "done" THEN UNCHANGED faults ELSE Fault

Stored(outcome, old, new) == IF outcome = "lost" THEN old ELSE new

\* The process ends: what it keeps in memory is gone.
ProcessEnds == /\ up' = FALSE
               /\ asked' = [j \in Jobs |-> NothingAsked]
               /\ tick' = Quiet
               /\ run' = [j \in Jobs |-> Idle]

-----------------------------------------------------------------------------
(* Requests: apply, rollback, cancel, and the feed.                        *)

New(j) == ledger[j].kind = "none" /\ asked[j] = NothingAsked

FeedPublishes(release) ==
    /\ release > feed
    /\ feed' = release
    /\ UNCHANGED <<files, process, shown, clock, launches, written, faults, host>>

Newer == IF feed > host.identity THEN feed ELSE 0

CheckForUpdates ==
    /\ up /\ LedgerFree
    /\ available' = Newer
    /\ UNCHANGED <<ledger, points, decided, consumed, process, shown, clock, feed,
                   launches, written, faults, host>>

\* apply() up to its last await: identity and feed are read before the
\* request is admitted
AskUpdate(j, automatic, scheduled) ==
    /\ up /\ LedgerFree
    /\ New(j)
    /\ Newer # 0
    /\ available' = Newer
    /\ asked' = [asked EXCEPT ![j] =
                   [kind |-> "update", target |-> feed, source |-> host.identity,
                    point |-> NoJob, automatic |-> automatic, scheduled |-> scheduled]]
    /\ UNCHANGED <<ledger, points, decided, consumed, tick, run, up, shown, clock, feed,
                   launches, written, faults, host>>

\* rollback() up to its last await, with the data loss confirmed
AskRollback(j, point) ==
    /\ up
    /\ New(j)
    /\ \A k \in Jobs : ~Active(k)
    /\ point \in Range(points)
    /\ host.recovery[point] # NoPoint
    /\ asked' = [asked EXCEPT ![j] =
                   [kind |-> "rollback", target |-> host.recovery[point].version,
                    source |-> host.identity, point |-> point,
                    automatic |-> FALSE, scheduled |-> FALSE]]
    /\ UNCHANGED <<files, tick, run, up, shown, clock, feed, launches, written, faults,
                   host>>

\* MUTANT: without assertNoActiveJob
AdmissibleAnytime(j) ==
    IF asked[j].kind = "update" THEN available = asked[j].target
                                ELSE asked[j].point \in Range(points)

\* the slot of the ledger: nobody else is active, and what was read still holds
Admissible(j) ==
    /\ \A k \in Jobs : ~Active(k)
    /\ IF asked[j].kind = "update"
       THEN available = asked[j].target
       ELSE asked[j].point \in Range(points)

Admit(j) ==
    /\ up /\ LedgerFree
    /\ asked[j] # NothingAsked
    /\ asked' = [asked EXCEPT ![j] = NothingAsked]
    /\ \/ /\ Admissible(j)
          /\ ledger' = [ledger EXCEPT ![j] =
                          [kind |-> asked[j].kind, phase |-> "awaiting-approval",
                           target |-> asked[j].target, source |-> asked[j].source,
                           point |-> asked[j].point, automatic |-> asked[j].automatic,
                           scheduled |-> asked[j].scheduled,
                           started |-> FALSE, reopened |-> FALSE]]
          /\ clock' = [clock EXCEPT ![j] = IF asked[j].scheduled THEN "early" ELSE "due"]
       \/ UNCHANGED <<ledger, clock>>      \* refused, or the write failed
    /\ UNCHANGED <<points, available, decided, consumed, tick, run, up, shown, feed,
                   launches, written, faults, host>>

Cancel(j) ==
    /\ up /\ LedgerFree
    /\ IsPending(j)
    /\ ledger' = EndAs(j, "cancelled")
    /\ UNCHANGED <<points, available, decided, consumed, process, shown, clock, feed,
                   launches, written, faults, host>>

-----------------------------------------------------------------------------
(* The host operator's command: it reads and validates the request, then   *)
(* publishes a decision that can be written once.                          *)

Show(j) ==
    /\ IsPending(j) /\ j \notin consumed /\ clock[j] # "expired"
    /\ j \notin shown
    /\ shown' = shown \cup {j}
    /\ UNCHANGED <<files, process, clock, feed, launches, written, faults, host>>

Decide(j, decision) ==
    /\ j \in shown
    /\ decided[j] = "no"
    /\ decided' = [decided EXCEPT ![j] = decision]
    /\ UNCHANGED <<ledger, points, available, consumed, process, shown, clock, feed,
                   launches, written, faults, host>>

\* time matters only while a request is pending
TimePasses(j) ==
    /\ ledger[j].phase \in Pending
    /\ clock[j] # "expired"
    /\ clock' = [clock EXCEPT ![j] = IF @ = "early" THEN "due" ELSE "expired"]
    /\ UNCHANGED <<files, process, shown, feed, launches, written, faults, host>>

-----------------------------------------------------------------------------
(* The tick: it looks at a pending request of its snapshot, and whatever   *)
(* it reads before the claim may be stale when the claim is made.          *)

outside == <<asked, up, shown, clock, feed, decided, points, available, written, host>>

At(step, j) == [at |-> step, job |-> j]

\* one ledger write of the tick; if it throws, the tick's catch block follows
TickEdit(entries) ==
    \E outcome \in Outcomes :
        /\ Pays(outcome)
        /\ ledger' = Stored(outcome, ledger, entries)
        /\ tick' = IF outcome = "done" THEN Quiet ELSE At("catch", tick.job)

TickLook(j) ==
    /\ up
    /\ tick = Quiet
    /\ ledger[j].phase \in Pending
    /\ tick' = At("looking", j)
    /\ UNCHANGED <<ledger, consumed, run, launches, faults, outside>>

TickExpires ==
    /\ tick.at = "looking"
    /\ tick.job \notin consumed /\ clock[tick.job] = "expired"
    /\ TickEdit(FinishPending(tick.job, "expired"))
    /\ UNCHANGED <<consumed, run, launches, outside>>

\* an approval consumed by a claim that did not reach the ledger
TickQuarantines ==
    /\ tick.at = "looking"
    /\ tick.job \in consumed
    /\ TickEdit(FinishPending(tick.job, "needs-attention"))
    /\ UNCHANGED <<consumed, run, launches, outside>>

Actionable(j) == tick.at = "looking" /\ j \notin consumed /\ clock[j] # "expired"

TickWaits ==
    /\ Actionable(tick.job)
    /\ decided[tick.job] = "no"
    /\ tick' = Quiet
    /\ UNCHANGED <<ledger, consumed, run, launches, faults, outside>>

TickDenies ==
    /\ Actionable(tick.job)
    /\ decided[tick.job] = "denied"
    /\ TickEdit(FinishPending(tick.job, "denied"))
    /\ UNCHANGED <<consumed, run, launches, outside>>

TickSchedules ==
    /\ Actionable(tick.job)
    /\ decided[tick.job] = "approved" /\ clock[tick.job] = "early"
    /\ TickEdit(FinishPending(tick.job, "scheduled"))
    /\ UNCHANGED <<consumed, run, launches, outside>>

\* the installed identity, then preflight or the recovery point's receipt;
\* any API container that answers /health counts as healthy
Verifies(j) ==
    /\ host.identity = ledger[j].source
    /\ IF ledger[j].kind = "update"
       THEN /\ feed = ledger[j].target
            /\ ledger[j].target > host.identity
            /\ host.mode # "stopped"
            /\ NoActiveJobBut(j)
       ELSE /\ ledger[j].point \in Range(points)
            /\ host.recovery[ledger[j].point] # NoPoint

TickVerifies ==
    /\ Actionable(tick.job)
    /\ decided[tick.job] = "approved" /\ clock[tick.job] = "due"
    /\ \/ Verifies(tick.job) /\ tick' = At("verified", tick.job)
       \/ tick' = At("catch", tick.job)     \* or a probe or the feed failed
    /\ UNCHANGED <<ledger, consumed, run, launches, faults, outside>>

\* MUTANT: the claim trusts what the tick read before
ClaimableAsRead(j) == clock[j] # "expired"

\* the start of the final claim, under the ledger's queue: everything that
\* can have changed is checked again, then the approval is consumed
Claimable(j) == IsPending(j) /\ clock[j] # "expired"

TickConsumes ==
    /\ tick.at = "verified"
    /\ Claimable(tick.job)
    /\ \/ /\ NoActiveJobBut(tick.job)
          /\ decided[tick.job] = "approved" /\ tick.job \notin consumed
          /\ consumed' = consumed \cup {tick.job}
          /\ tick' = At("consumed", tick.job)
          /\ UNCHANGED faults
       \/ /\ IF NoActiveJobBut(tick.job) THEN Fault ELSE UNCHANGED faults
          /\ consumed' \in {consumed, consumed \cup {tick.job}}
          /\ tick' = At("catch", tick.job)
    /\ UNCHANGED <<ledger, run, launches, outside>>

TickTooLate ==
    /\ tick.at = "verified"
    /\ \/ /\ ~IsPending(tick.job)
          /\ tick' = Quiet
          /\ UNCHANGED <<ledger, faults>>
       \/ /\ IsPending(tick.job) /\ clock[tick.job] = "expired"
          /\ TickEdit(EndAs(tick.job, "expired"))
    /\ UNCHANGED <<consumed, run, launches, outside>>

\* MUTANT: the operation does not wait for the claim in the ledger
LaunchAnyway(j, outcome) == [run EXCEPT ![j] = Start(ledger[j].kind, FALSE)]

\* only an acknowledged claim launches the operation
Launch(j, outcome) ==
    IF outcome = "done" THEN [run EXCEPT ![j] = Start(ledger[j].kind, FALSE)] ELSE run

\* the end of the claim
TickLaunches ==
    /\ tick.at = "consumed"
    /\ LET j == tick.job
           claimed == [ledger EXCEPT ![j].phase = "preflight", ![j].started = TRUE]
       IN  \E outcome \in Outcomes :
              /\ Pays(outcome)
              /\ ledger' = Stored(outcome, ledger, claimed)
              /\ run' = Launch(j, outcome)
              /\ launches' = [launches EXCEPT ![j] = IF run' = run THEN @ ELSE @ + 1]
              /\ tick' = IF outcome = "done" THEN Quiet ELSE At("catch", j)
    /\ UNCHANGED <<consumed, outside>>

TickCatches ==
    /\ tick.at = "catch"
    /\ tick' = Quiet
    /\ LET j == tick.job
           ended == FinishPending(j, IF j \in consumed THEN "needs-attention" ELSE "failed")
       IN  \E outcome \in Outcomes :
              Pays(outcome) /\ ledger' = Stored(outcome, ledger, ended)
    /\ UNCHANGED <<consumed, run, launches, outside>>

TickStep == \/ \E j \in Jobs : TickLook(j)
            \/ TickExpires \/ TickQuarantines \/ TickWaits \/ TickDenies
            \/ TickSchedules \/ TickVerifies \/ TickConsumes \/ TickTooLate
            \/ TickLaunches \/ TickCatches

-----------------------------------------------------------------------------
(* Launched operations.                                                    *)

elsewhere == <<available, decided, consumed, shown, clock, feed, launches, written>>

\* MUTANT: counts the retained points from the wrong end of the slice
ExcessOffByOne == SubSeq(points, Retention, Len(points))

Excess == SubSeq(points, Retention + 1, Len(points))

Given(j) ==
    [job |-> j, release |-> ledger[j].target, source |-> ledger[j].source,
     point |-> IF ledger[j].kind = "update" THEN j ELSE ledger[j].point,
     excess |-> Excess]

CallName(j) ==
    IF Instruction(j).call # "restore" THEN Instruction(j).call
    ELSE IF ledger[j].target \in InPlace THEN "rollbackApplication"
    ELSE "rollbackDatabase"

\* a throw is handled by the next program, or ends the process when the
\* handler itself threw
Throw(j) ==
    LET handler == Handler(j, ledger'[j])
    IN  IF handler = "none"
        THEN ProcessEnds
        ELSE /\ run' = [run EXCEPT ![j] = Start(handler, @.saved)]
             /\ UNCHANGED <<asked, tick, up>>

\* MUTANT: an update of one field clears the phase
WrittenLedgerClobbering(j, i) ==
    CASE i.op = "write" -> [ledger EXCEPT ![j].phase = i.phase,
                                          ![j].reopened = @ \/ i.reopened]
      [] i.op = "name" -> [ledger EXCEPT ![j].point = j]
      [] OTHER -> ledger

WrittenLedger(j, i) ==
    CASE i.op = "write" ->
            [ledger EXCEPT ![j].phase = IF i.phase = "same" THEN @ ELSE i.phase,
                           ![j].reopened = @ \/ i.reopened]
      [] i.op = "name" -> [ledger EXCEPT ![j].point = j]
      [] OTHER -> ledger

Retained == IF Len(points) <= Retention THEN points ELSE SubSeq(points, 1, Retention)

WrittenPoints(j, i) ==
    CASE i.op = "list" -> <<j>> \o points
      [] i.op = "retain" -> Retained
      [] OTHER -> points

RunWrite(j) ==
    /\ up /\ LedgerFree
    /\ Busy(j)
    /\ LET i == Instruction(j)
       IN  /\ i.op # "call"
           /\ \E outcome \in Outcomes :
                 /\ Pays(outcome)
                 /\ ledger' = Stored(outcome, ledger, WrittenLedger(j, i))
                 /\ points' = Stored(outcome, points, WrittenPoints(j, i))
                 /\ IF outcome = "done" THEN Advance(j) ELSE Throw(j)
    /\ UNCHANGED <<elsewhere, host>>

RunCall(j) ==
    /\ up
    /\ Busy(j)
    /\ Instruction(j).op = "call"
    /\ LET c == Given(j)
           call == CallName(j)
       IN  \/ /\ CanSucceed(call, c, host)
              /\ host' = Last(Trace(call, c, host))
              /\ UNCHANGED <<ledger, points, faults>>
              /\ Advance(j)
           \/ /\ IF CanSucceed(call, c, host) THEN Fault ELSE UNCHANGED faults
              /\ host' \in Thrown(call, c, host)
              /\ UNCHANGED <<ledger, points>>
              /\ Throw(j)
    /\ UNCHANGED elsewhere

-----------------------------------------------------------------------------
(* The environment: users of the application, death and restart.           *)

UserWrites ==
    /\ host.mode = "open" /\ host.whole
    /\ written < MaxWrites
    /\ written' = written + 1
    /\ host' = [host EXCEPT !.data = written + 1]
    /\ UNCHANGED <<files, process, shown, clock, feed, launches, faults>>

\* commands hold the host lock, so a restart waits for them to end
Crash ==
    /\ up
    /\ Fault
    /\ ProcessEnds
    /\ \/ UNCHANGED host
       \/ \E j \in Jobs :
            /\ Busy(j) /\ Instruction(j).op = "call"
            /\ host' \in CutOff(CallName(j), Given(j), host)
    /\ UNCHANGED <<files, shown, clock, feed, launches, written>>

\* reconcileInterruptedJobs: a single unclaimed request survives a restart,
\* everything else is left to the operator
Survives(j) ==
    /\ NoActiveJobBut(j)
    /\ IsPending(j)
    /\ ~ledger[j].reopened

SurvivingPhase(j) ==
    IF j \in consumed THEN "needs-attention"
    ELSE IF clock[j] = "expired" THEN "expired" ELSE ledger[j].phase

MayHaveMutated(phase) == phase \notin {"scheduled", "preflight", "staging"}

\* MUTANT: only requests are reconciled
ReconciledRequests(j) ==
    IF IsPending(j) THEN [ledger[j] EXCEPT !.phase = SurvivingPhase(j)] ELSE ledger[j]

Reconciled(j) ==
    IF ~Active(j) THEN ledger[j]
    ELSE IF Survives(j) THEN [ledger[j] EXCEPT !.phase = SurvivingPhase(j)]
    ELSE [ledger[j] EXCEPT !.phase = "needs-attention",
                           !.reopened = @ \/ MayHaveMutated(ledger[j].phase)]

Restart ==
    /\ ~up
    /\ up' = TRUE
    /\ ledger' = [j \in Jobs |-> Reconciled(j)]
    /\ UNCHANGED <<points, available, decided, consumed, asked, tick, run, shown, clock,
                   feed, launches, written, faults, host>>

-----------------------------------------------------------------------------
Request(j) ==
    \/ \E automatic, scheduled \in BOOLEAN : AskUpdate(j, automatic, scheduled)
    \/ \E point \in Jobs : AskRollback(j, point)
    \/ Admit(j)
    \/ Cancel(j)

Operator(j) == Show(j) \/ \E decision \in {"approved", "denied"} : Decide(j, decision)

Next == \/ \E release \in Releases : FeedPublishes(release)
        \/ CheckForUpdates
        \/ \E j \in Jobs : Request(j) \/ Operator(j) \/ TimePasses(j)
        \/ TickStep
        \/ \E j \in Jobs : RunWrite(j) \/ RunCall(j)
        \/ UserWrites
        \/ Crash
        \/ Restart

Spec == Init /\ [][Next]_vars

\* the tick is repeated every 30 seconds and the service is supervised;
\* commands have a timeout; the clock advances
Fairness == /\ WF_vars(TickStep)
            /\ WF_vars(Restart)
            /\ WF_vars(\E j \in Jobs : TimePasses(j))
            /\ WF_vars(\E j \in Jobs : RunWrite(j) \/ RunCall(j))

FairSpec == Spec /\ Fairness

-----------------------------------------------------------------------------
\* Types of ledger, files, process state and installation.
UpdaterTypeOK ==
    /\ ledger \in [Jobs -> JobEntry]
    /\ points \in Seq(Jobs)
    /\ available \in Versions /\ feed \in Versions
    /\ decided \in [Jobs -> {"no", "approved", "denied"}]
    /\ consumed \subseteq Jobs /\ shown \subseteq Jobs
    /\ clock \in [Jobs -> {"early", "due", "expired"}]
    /\ \A j \in Jobs : /\ asked[j].kind \in {"none", "update", "rollback"}
                       /\ asked[j].target \in Versions /\ asked[j].source \in Versions
                       /\ run[j].at \in 1..Len(UpdateProgram)
    /\ tick.at \in {"idle", "looking", "verified", "consumed", "catch"}
    /\ tick.job \in Jobs \cup {NoJob}
    /\ launches \in [Jobs -> Nat]
    /\ up \in BOOLEAN
    /\ written \in 0..MaxWrites /\ faults \in 0..MaxFaults
    /\ host \in Host

Calling(j) == Busy(j) /\ Instruction(j).op = "call"

\* VERSIONING_AND_UPGRADES.md: only one mutating update or rollback job can be
\* active.  The ledger never has two active jobs, and whoever works on the
\* installation is the active one: a job that the ledger shows as ended,
\* through whichever failed write, does not touch it any more.
OneOperationAtATime ==
    \A j \in Jobs : Active(j) \/ Calling(j) => NoActiveJobBut(j) /\ (Calling(j) => Active(j))

\* An operation is launched at most once, and only if the operator approved it,
\* the approval is durably consumed and the ledger durably says it started.
RunsOnlyWhatWasApproved ==
    \A j \in Jobs :
        /\ launches[j] <= 1
        /\ Busy(j) => /\ decided[j] = "approved" /\ j \in consumed
                      /\ ledger[j].started

\* A cancellation, denial or expiry in the ledger is final, also for a tick that
\* looked at the request before.
RefusalIsFinal ==
    [][\A j \in Jobs : ledger[j].phase \in {"cancelled", "denied", "expired"}
                        => ledger'[j].phase = ledger[j].phase]_vars

\* While an update runs, its recovery point holds everything users wrote, or
\* the ledger says that writes were reopened.  A crash may come at any time.
WritesAreRecorded ==
    \A j \in Jobs :
        /\ Active(j) /\ ledger[j].kind = "update"
        /\ host.recovery[j] # NoPoint /\ host.recovery[j].data # host.data
        => ledger[j].reopened

\* The application never runs on a database whose restore did not finish.
OpenDatabaseIsWhole == host.mode = "open" => host.whole

\* The recovery points within the retention count can be asked for: pruning,
\* even when cut off, leaves their files.
RetainedPointsExist ==
    \A i \in 1..Len(points) : i <= Retention => host.recovery[points[i]] # NoPoint

\* Accepted writes are lost only to a rollback job in which the operator
\* confirmed and approved that loss, and then to the state of that point.
OnlyConfirmedLoss ==
    [][host'.data < host.data
         => \E j \in Jobs : /\ Busy(j) /\ ledger[j].kind = "rollback"
                            /\ decided[j] = "approved"
                            /\ host'.data = host.recovery[ledger[j].point].data]_vars

\* VERSIONING_AND_UPGRADES.md on destructive migrations: old code is not assumed
\* compatible.  A release that users write through has the schema of its own
\* version, or every later migration is one it can live with.
OpenReleaseFitsSchema ==
    host.mode = "open" /\ host.whole
        => \A release \in Releases :
              host.running < release /\ release <= host.schema => release \in InPlace

\* A started operation ends: completed, failed, restored, or handed to the
\* operator, also when the updater dies and is restarted.
RunningOperationEnds ==
    \A j \in Jobs : ledger[j].phase \in Running ~> ledger[j].phase \in Ended

\* A request does not block the updater for ever: it is decided or expires.
RequestEnds == \A j \in Jobs : ledger[j].phase \in Pending ~> ledger[j].phase \notin Pending
=============================================================================
