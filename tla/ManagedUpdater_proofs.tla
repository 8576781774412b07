------------------------ MODULE ManagedUpdater_proofs ------------------------
(***************************************************************************)
(* Proofs about ManagedUpdater.  UpdaterInv, which contains the type       *)
(* invariant, ties the request, the tick, the approval and the launched    *)
(* operation of a job together; ExclusionInv, proved on top of it, is      *)
(* about several jobs.  Both need to know what a program of instructions   *)
(* can contain, and the type invariant what hosts a call passes through:   *)
(* those lemmas come first.                                                *)
(***************************************************************************)
EXTENDS ManagedUpdater, TLAPS, SequenceTheorems

ProgramNames == {"update", "rollback", "resume", "restore", "attention", "fail"}

Calls == {"stage", "enterMaintenance", "createRecoveryPoint", "migrate",
          "startCandidate", "verifyCandidate", "reopenWrites", "resumeCurrent",
          "rollbackDatabase", "rollbackApplication", "deleteRecoveryPoints"}

LaunchedPhases == (Running \cup Ended \cup {"same"}) \ {"cancelled", "denied", "expired"}

\* An instruction that is well formed and does not write a refusal.
Sound(i) ==
    \/ /\ i.op = "write"
       /\ i.phase \in LaunchedPhases
       /\ i.reopened \in BOOLEAN
    \/ i.op = "call" /\ i.call \in Calls \cup {"restore"}
    \/ i.op \in {"list", "name", "retain"}

LEMMA SoundInstructions ==
    /\ \A phase \in LaunchedPhases, reopened \in BOOLEAN : Sound(Write(phase, reopened))
    /\ \A call \in Calls \cup {"restore"} : Sound(Call(call))
    /\ Sound(ListPoint) /\ Sound(NamePoint) /\ Sound(RetainPoints)
BY DEF Sound, Write, Call, ListPoint, NamePoint, RetainPoints

\* The instructions of the update, by their position.
LEMMA UpdateInstructions ==
    /\ Len(UpdateProgram) = 19
    /\ \A p \in 1..19 :
          UpdateProgram[p] \in
             {Phase("staging"), Phase("maintenance"), Phase("backing-up"),
              Phase("migrating"), Phase("starting"), Phase("verifying"),
              MarkReopened, Write("completed", TRUE),
              Call("stage"), Call("enterMaintenance"), Call("createRecoveryPoint"),
              Call("migrate"), Call("startCandidate"), Call("verifyCandidate"),
              Call("reopenWrites"), Call("deleteRecoveryPoints"),
              ListPoint, NamePoint, RetainPoints}
<1>1. ASSUME NEW p \in 1..19
      PROVE  \/ p = 1 \/ p = 2 \/ p = 3 \/ p = 4 \/ p = 5 \/ p = 6 \/ p = 7 \/ p = 8
             \/ p = 9 \/ p = 10 \/ p = 11 \/ p = 12 \/ p = 13 \/ p = 14 \/ p = 15
             \/ p = 16 \/ p = 17 \/ p = 18 \/ p = 19
  OBVIOUS
<1> QED
  BY <1>1 DEF UpdateProgram

LEMMA SoundPrograms ==
    ASSUME NEW name \in ProgramNames
    PROVE  /\ Len(Program(name)) \in 1..Len(UpdateProgram)
           /\ \A i \in 1..Len(Program(name)) : Sound(Program(name)[i])
<1> USE SoundInstructions
<1>1. CASE name = "update"
  <2>1. Program(name) = UpdateProgram
    BY <1>1 DEF Program
  <2>2. ASSUME NEW i \in 1..19
        PROVE  Sound(UpdateProgram[i])
    BY UpdateInstructions
    DEF Phase, MarkReopened, LaunchedPhases, Running, Ended, Calls
  <2> QED
    BY <2>1, <2>2, UpdateInstructions
<1>2. CASE name = "rollback"
  <2>1. Program(name) = RollbackProgram
    BY <1>2 DEF Program
  <2>2. /\ Sound(Phase("maintenance"))
        /\ Sound(Call("enterMaintenance"))
        /\ Sound(Write("rolling-back", TRUE))
        /\ Sound(Call("rollbackDatabase"))
        /\ Sound(Write("rolled-back", TRUE))
    BY DEF Phase, MarkReopened, LaunchedPhases, Running, Ended, Calls
  <2>3. /\ Len(RollbackProgram) = 5
        /\ \A i \in 1..5 : RollbackProgram[i] \in
                {Phase("maintenance"), Call("enterMaintenance"),
                 Write("rolling-back", TRUE), Call("rollbackDatabase"),
                 Write("rolled-back", TRUE)}
    BY DEF RollbackProgram
  <2>4. \A i \in 1..5 : Sound(RollbackProgram[i])
    BY <2>2, <2>3
  <2> QED
    BY <2>1, <2>3, <2>4, UpdateInstructions
<1>3. CASE name = "resume"
  <2>1. Program(name) = ResumeProgram
    BY <1>3 DEF Program
  <2>2. /\ Sound(MarkReopened)
        /\ Sound(Call("resumeCurrent"))
        /\ Sound(Phase("failed"))
    BY DEF Phase, MarkReopened, LaunchedPhases, Running, Ended, Calls
  <2>3. /\ Len(ResumeProgram) = 3
        /\ \A i \in 1..3 : ResumeProgram[i] \in
                {MarkReopened, Call("resumeCurrent"), Phase("failed")}
    BY DEF ResumeProgram
  <2> QED
    BY <2>1, <2>2, <2>3, UpdateInstructions
<1>4. CASE name = "restore"
  <2>1. Program(name) = RestoreProgram
    BY <1>4 DEF Program
  <2>2. /\ Sound(Phase("rolling-back"))
        /\ Sound(MarkReopened)
        /\ Sound(Call("restore"))
        /\ Sound(Phase("rolled-back"))
    BY DEF Phase, MarkReopened, LaunchedPhases, Running, Ended, Calls
  <2>3. /\ Len(RestoreProgram) = 4
        /\ \A i \in 1..4 : RestoreProgram[i] \in
                {Phase("rolling-back"), MarkReopened, Call("restore"),
                 Phase("rolled-back")}
    BY DEF RestoreProgram
  <2> QED
    BY <2>1, <2>2, <2>3, UpdateInstructions
<1>5. CASE name = "attention" \/ name = "fail"
  <2>1. /\ name = "attention" => Program(name) = <<Phase("needs-attention")>>
        /\ name = "fail" => Program(name) = <<Phase("failed")>>
    BY DEF Program
  <2>2. Sound(Phase("needs-attention")) /\ Sound(Phase("failed"))
    BY DEF Phase, LaunchedPhases, Running, Ended
  <2> QED
    BY <1>5, <2>1, <2>2, UpdateInstructions
<1> QED
  BY <1>1, <1>2, <1>3, <1>4, <1>5 DEF ProgramNames

-----------------------------------------------------------------------------
(* The installation keeps its type.                                        *)

\* What a call is given.
Arguments == [job : Jobs, release : Versions, source : Versions, point : Jobs,
              excess : Seq(Jobs)]

LEMMA RecoveryPointFields ==
    ASSUME NEW h \in Host, NEW p \in Jobs, h.recovery[p] # NoPoint
    PROVE  /\ h.recovery[p].env \in Versions
           /\ h.recovery[p].version \in Versions
           /\ h.recovery[p].schema \in Versions
           /\ h.recovery[p].data \in Nat
BY DEF Host, RecoveryPoint

LEMMA HostOperations ==
    ASSUME NEW h \in Host, NEW release \in Versions
    PROVE  /\ Stopped(h) \in Host
           /\ Configured(h, release) \in Host
           /\ Identified(h, release) \in Host
           /\ Opened(h) \in Host
           /\ Fenced(h, release) \in Host
           /\ Dropped(h) \in Host
           /\ [h EXCEPT !.schema = release] \in Host
           /\ Stopped(h).recovery = h.recovery
           /\ Configured(h, release).recovery = h.recovery
           /\ Identified(h, release).recovery = h.recovery
           /\ Dropped(h).recovery = h.recovery
BY DEF Host, Stopped, Configured, Identified, Opened, Fenced, Dropped

LEMMA SnapshotType ==
    ASSUME NEW h \in Host, NEW j \in Jobs, NEW version \in Versions
    PROVE  [h EXCEPT !.recovery[j] = Snapshot(h, version)] \in Host
<1>1. Snapshot(h, version) \in RecoveryPoint
  BY DEF Snapshot, RecoveryPoint, Host
<1> QED
  BY <1>1 DEF Host

LEMMA ReloadedType ==
    ASSUME NEW h \in Host, NEW point \in RecoveryPoint
    PROVE  Reloaded(h, point) \in Host /\ Reloaded(h, point).recovery = h.recovery
BY DEF Reloaded, Host, RecoveryPoint

\* Every host a call passes through is a host.
LEMMA TraceType ==
    ASSUME NEW call \in Calls, NEW c \in Arguments, NEW h \in Host
    PROVE  Trace(call, c, h) \in Seq(Host) /\ Trace(call, c, h) # <<>>
<1>0. /\ c.job \in Jobs /\ c.release \in Versions /\ c.source \in Versions
      /\ c.point \in Jobs /\ c.excess \in Seq(Jobs)
  BY DEF Arguments
<1> DEFINE point == PointOf(c, h)
<1>1. ASSUME point # NoPoint
      PROVE  /\ point \in RecoveryPoint /\ point.env \in Versions
             /\ point.version \in Versions
  BY <1>0, <1>1, RecoveryPointFields DEF PointOf, Host, RecoveryPoint
<1> HIDE DEF point
<1>2. CASE call \in {"stage", "verifyCandidate"}
  <2>1. Trace(call, c, h) = <<h>>
    BY <1>2 DEF Trace
  <2> QED
    BY <2>1
<1>3. CASE call = "enterMaintenance"
  <2>1. Stopped(h) \in Host
    BY <1>0, HostOperations
  <2>2. Trace(call, c, h) = <<h, Stopped(h)>>
    BY <1>3 DEF Trace, StopTrace
  <2> QED
    BY <2>1, <2>2
<1>4. CASE call = "createRecoveryPoint"
  <2> DEFINE final == [h EXCEPT !.recovery[c.job] = Snapshot(h, c.source)]
  <2>1. final \in Host
    BY <1>0, SnapshotType
  <2>2. Trace(call, c, h) = <<h, final>>
    BY <1>4 DEF Trace, SnapshotTrace
  <2> HIDE DEF final
  <2> QED
    BY <2>1, <2>2
<1>5. CASE call = "migrate"
  <2>1. [h EXCEPT !.schema = c.release] \in Host
    BY <1>0, HostOperations
  <2> QED
    BY <1>5, <2>1 DEF Trace, MigrateTrace
<1>6. CASE call = "startCandidate"
  <2>1. Fenced(h, c.release) \in Host
    BY <1>0, HostOperations
  <2> QED
    BY <1>6, <2>1 DEF Trace
<1>7. CASE call = "reopenWrites"
  <2> DEFINE configured == Configured(h, c.release)
             identified == Identified(configured, c.release)
  <2>1. configured \in Host
    BY <1>0, HostOperations
  <2> HIDE DEF configured
  <2>2. identified \in Host
    BY <1>0, <2>1, HostOperations
  <2> HIDE DEF identified
  <2>3. Opened(identified) \in Host
    BY <1>0, <2>2, HostOperations
  <2>4. <<h, configured, identified, Opened(identified)>> \in Seq(Host)
    BY <2>1, <2>2, <2>3
  <2>5. Trace(call, c, h) = <<h, configured, identified, Opened(identified)>>
    BY <1>7 DEF Trace, ReopenTrace, configured, identified
  <2> QED
    BY <2>4, <2>5
<1>8. CASE call = "resumeCurrent"
  <2>1. Opened(h) \in Host
    BY <1>0, HostOperations
  <2> QED
    BY <1>8, <2>1 DEF Trace
<1>9. CASE call = "rollbackDatabase" /\ point # NoPoint
  <2> DEFINE stopped == Stopped(h)
             configured == Configured(stopped, point.env)
             dropped == Dropped(configured)
             reloaded == Reloaded(dropped, point)
             identified == Identified(reloaded, point.version)
             trace == <<h, stopped, configured, dropped, reloaded, identified,
                        Opened(identified)>>
  <2>1. stopped \in Host
    BY <1>0, HostOperations
  <2> HIDE DEF stopped
  <2>2. configured \in Host
    BY <1>1, <1>9, <2>1, HostOperations
  <2> HIDE DEF configured
  <2>3. dropped \in Host
    BY <1>0, <2>2, HostOperations
  <2> HIDE DEF dropped
  <2>4. reloaded \in Host
    BY <1>1, <1>9, <2>3, ReloadedType
  <2> HIDE DEF reloaded
  <2>5. identified \in Host
    BY <1>1, <1>9, <2>4, HostOperations
  <2> HIDE DEF identified
  <2>6. Opened(identified) \in Host
    BY <1>0, <2>5, HostOperations
  <2>7. trace \in Seq(Host) /\ trace # <<>>
    BY <2>1, <2>2, <2>3, <2>4, <2>5, <2>6
  <2>8. Trace(call, c, h) = trace
    BY <1>9 DEF Trace, RollbackDatabaseTrace, point, stopped, configured, dropped, reloaded,
                identified
  <2> QED
    BY <2>7, <2>8
<1>10. CASE call = "rollbackApplication" /\ point # NoPoint
  <2> DEFINE stopped == Stopped(h)
             configured == Configured(stopped, point.env)
             identified == Identified(configured, point.version)
             trace == <<h, stopped, configured, identified, Opened(identified)>>
  <2>1. stopped \in Host
    BY <1>0, HostOperations
  <2> HIDE DEF stopped
  <2>2. configured \in Host
    BY <1>1, <1>10, <2>1, HostOperations
  <2> HIDE DEF configured
  <2>3. identified \in Host
    BY <1>1, <1>10, <2>2, HostOperations
  <2> HIDE DEF identified
  <2>4. Opened(identified) \in Host
    BY <1>0, <2>3, HostOperations
  <2>5. trace \in Seq(Host) /\ trace # <<>>
    BY <2>1, <2>2, <2>3, <2>4
  <2>6. Trace(call, c, h) = trace
    BY <1>10 DEF Trace, RollbackApplicationTrace, point, stopped, configured, identified
  <2> QED
    BY <2>5, <2>6
<1>11. CASE call \in {"rollbackDatabase", "rollbackApplication"} /\ point = NoPoint
  <2> DEFINE stopped == Stopped(h)
  <2>1. stopped \in Host
    BY <1>0, HostOperations
  <2>2. /\ RollbackDatabaseTrace(c, h) = <<h, stopped>>
        /\ RollbackApplicationTrace(c, h) = <<h, stopped>>
    BY <1>11 DEF RollbackDatabaseTrace, RollbackApplicationTrace, point
  <2>3. /\ call = "rollbackDatabase" => Trace(call, c, h) = RollbackDatabaseTrace(c, h)
        /\ call = "rollbackApplication" => Trace(call, c, h) = RollbackApplicationTrace(c, h)
    BY DEF Trace
  <2> HIDE DEF stopped
  <2>4. Trace(call, c, h) = <<h, stopped>>
    BY <1>11, <2>2, <2>3
  <2> QED
    BY <2>1, <2>4
<1>12. CASE call = "deleteRecoveryPoints"
  <2> DEFINE pruned(i) ==
               [h EXCEPT !.recovery =
                  [j \in Jobs |-> IF \E k \in 1..(i - 1) : c.excess[k] = j
                                  THEN NoPoint ELSE h.recovery[j]]]
             n == Len(c.excess) + 1
  <2>1. ASSUME NEW i \in 1..n
        PROVE  pruned(i) \in Host
    BY DEF Host
  <2>2. n \in Nat /\ n > 0
    BY <1>0
  <2> HIDE DEF pruned, n
  <2>3. [i \in 1..n |-> pruned(i)] \in [1..n -> Host]
    BY <2>1
  <2>4. [i \in 1..n |-> pruned(i)] \in Seq(Host) /\ [i \in 1..n |-> pruned(i)] # <<>>
    BY <2>2, <2>3
  <2>5. Trace(call, c, h) = PruneTrace(c, h)
    BY <1>12 DEF Trace
  <2>6. PruneTrace(c, h) = [i \in 1..n |-> pruned(i)]
    BY DEF PruneTrace, pruned, n
  <2> QED
    BY <2>4, <2>5, <2>6
<1> QED
  BY <1>2, <1>3, <1>4, <1>5, <1>6, <1>7, <1>8, <1>9, <1>10, <1>11, <1>12 DEF Calls

\* Wherever a call leaves the installation, that is a host.
LEMMA CallOutcomes ==
    ASSUME NEW call \in Calls, NEW c \in Arguments, NEW h \in Host
    PROVE  /\ Last(Trace(call, c, h)) \in Host
           /\ Thrown(call, c, h) \subseteq Host
           /\ CutOff(call, c, h) \subseteq Host
<1>1. Trace(call, c, h) \in Seq(Host) /\ Trace(call, c, h) # <<>>
  BY TraceType
<1> DEFINE trace == Trace(call, c, h)
<1> HIDE DEF trace
<1>2. trace \in Seq(Host) /\ trace # <<>>
  BY <1>1 DEF trace
<1>3. Last(trace) \in Host
  BY <1>2 DEF Last
<1>4. Range(trace) \subseteq Host
  BY <1>2 DEF Range
<1> QED
  BY <1>3, <1>4 DEF trace, Thrown, CutOff

-----------------------------------------------------------------------------
(* The inductive invariant.                                                *)

Question == [kind : {"none", "update", "rollback"}, target : Versions,
             source : Versions, point : Jobs \cup {NoJob},
             automatic : BOOLEAN, scheduled : BOOLEAN]

Thread == [program : ProgramNames \cup {"none"}, at : Nat, saved : BOOLEAN]

TickState == [at : {"idle", "looking", "verified", "consumed", "catch"},
              job : Jobs \cup {NoJob}]

Typed ==
    /\ UpdaterTypeOK
    /\ asked \in [Jobs -> Question]
    /\ run \in [Jobs -> Thread]
    /\ tick \in TickState

Refused == {"cancelled", "denied", "expired"}

\* A job is asked for before it is in the ledger, and never again; one that was
\* refused was not started; a rollback names its recovery point.
RequestInv(j) ==
    /\ asked[j] # NothingAsked => ledger[j].kind = "none" /\ asked[j].kind # "none"
    /\ asked[j].kind = "rollback" => asked[j].point \in Jobs
    /\ ledger[j].kind = "rollback" => ledger[j].point \in Jobs
    /\ ledger[j].kind = "none" => ledger[j] = NoJobEntry
    /\ ledger[j].phase \in Refused => ~ledger[j].started

\* The tick looks at a job of the ledger; what it verified was approved; between
\* consuming the approval and the end of the claim nobody else ends the request.
TickInv ==
    /\ tick.at # "idle" => tick.job \in Jobs
    /\ tick.at = "verified" => decided[tick.job] = "approved"
    /\ tick.at = "consumed" => tick.job \in consumed /\ IsPending(tick.job)
    /\ ~up => tick = Quiet

\* A job is launched only after the ledger says that it started, and is started
\* only with a consumed approval.
LaunchInv(j) ==
    /\ j \in consumed => decided[j] = "approved"
    /\ ledger[j].started => j \in consumed /\ ledger[j].kind # "none"
    /\ launches[j] <= 1
    /\ ~ledger[j].started => launches[j] = 0
    /\ Busy(j) => /\ up
                  /\ ledger[j].started
                  /\ run[j].at \in 1..Len(Program(run[j].program))
    /\ ~Busy(j) => run[j].at = 1

UpdaterInv ==
    /\ Typed
    /\ TickInv
    /\ \A j \in Jobs : RequestInv(j) /\ LaunchInv(j)

LEMMA Initially == Init => UpdaterInv
<1> SUFFICES ASSUME Init PROVE UpdaterInv
  OBVIOUS
<1>1. HostInit \in Host
  BY DEF HostInit, Host, Versions
<1>2. UpdaterTypeOK
  BY <1>1, UpdateInstructions, BoundsAssumption
  DEF Init, UpdaterTypeOK, JobEntry, NoJobEntry, NothingAsked, Versions, Quiet, Idle
<1>3. Typed
  BY <1>2 DEF Init, Typed, Question, NothingAsked, Versions, Thread, Idle, TickState, Quiet
<1>4. TickInv
  BY DEF Init, TickInv, Quiet
<1>5. ASSUME NEW j \in Jobs PROVE RequestInv(j) /\ LaunchInv(j)
  BY DEF Init, RequestInv, LaunchInv, NothingAsked, NoJobEntry, Busy, Idle, Refused
<1> QED
  BY <1>3, <1>4, <1>5 DEF UpdaterInv

\* Nothing of it is about the variables that only the feed, the clock, the
\* operator's command and the users of the application change.
LEMMA Environment ==
    ASSUME UpdaterInv,
           UNCHANGED <<ledger, points, decided, consumed, process, launches>>,
           available' \in Versions, shown' \subseteq Jobs,
           clock' \in [Jobs -> {"early", "due", "expired"}], feed' \in Versions,
           written' \in 0..MaxWrites, faults' \in 0..MaxFaults, host' \in Host
    PROVE  UpdaterInv'
<1>1. Typed'
  BY DEF UpdaterInv, Typed, UpdaterTypeOK, process
<1>2. TickInv'
  BY DEF UpdaterInv, TickInv, IsPending, process
<1>3. ASSUME NEW j \in Jobs PROVE RequestInv(j)' /\ LaunchInv(j)'
  BY DEF UpdaterInv, RequestInv, LaunchInv, Busy, process
<1> QED
  BY <1>1, <1>2, <1>3 DEF UpdaterInv

-----------------------------------------------------------------------------
(* The steps of requests, operator, users and feed.                        *)

LEMMA NewerType == UpdaterInv => Newer \in Versions
BY DEF UpdaterInv, Typed, UpdaterTypeOK, Newer, Versions

LEMMA FaultType == UpdaterInv /\ Fault => faults' \in 0..MaxFaults
BY BoundsAssumption DEF UpdaterInv, Typed, UpdaterTypeOK, Fault

\* Steps that only change what Environment is about.
LEMMA EnvironmentSteps ==
    ASSUME UpdaterInv,
           \/ \E release \in Releases : FeedPublishes(release)
           \/ CheckForUpdates
           \/ \E j \in Jobs : Show(j) \/ TimePasses(j)
           \/ UserWrites
    PROVE  UpdaterInv'
<1> USE DEF UpdaterInv, Typed, UpdaterTypeOK
<1>1. CASE \E release \in Releases : FeedPublishes(release)
  BY <1>1, Environment DEF FeedPublishes, files, process, Versions
<1>2. CASE CheckForUpdates
  BY <1>2, Environment, NewerType DEF CheckForUpdates, process
<1>3. ASSUME NEW j \in Jobs, Show(j) PROVE UpdaterInv'
  BY <1>3, Environment DEF Show, files, process
<1>4. ASSUME NEW j \in Jobs, TimePasses(j) PROVE UpdaterInv'
  BY <1>4, Environment DEF TimePasses, files, process
<1>5. CASE UserWrites
  <2>1. written' \in 0..MaxWrites /\ written + 1 \in Nat
    BY <1>5, BoundsAssumption DEF UserWrites
  <2>2. host' \in Host
    BY <1>5, <2>1 DEF UserWrites, Host
  <2> QED
    BY <1>5, <2>1, <2>2, Environment DEF UserWrites, files, process
<1> QED
  BY <1>1, <1>2, <1>3, <1>4, <1>5

LEMMA DecideStep ==
    ASSUME UpdaterInv, NEW j \in Jobs, NEW decision \in {"approved", "denied"},
           Decide(j, decision)
    PROVE  UpdaterInv'
<1>1. Typed'
  BY DEF UpdaterInv, Typed, UpdaterTypeOK, Decide, process
<1>2. TickInv'
  BY DEF UpdaterInv, Typed, UpdaterTypeOK, TickInv, IsPending, Decide, process
<1>3. ASSUME NEW k \in Jobs PROVE RequestInv(k)' /\ LaunchInv(k)'
  BY DEF UpdaterInv, Typed, UpdaterTypeOK, RequestInv, LaunchInv, Busy, Decide, process
<1> QED
  BY <1>1, <1>2, <1>3 DEF UpdaterInv

\* A request is asked for: the questions of the other jobs stay.
LEMMA AskStep ==
    ASSUME UpdaterInv, NEW j \in Jobs, NEW question \in Question, New(j),
           question.kind # "none",
           question.kind = "rollback" => question.point \in Jobs,
           asked' = [asked EXCEPT ![j] = question], available' \in Versions,
           UNCHANGED <<ledger, points, decided, consumed, tick, run, up, shown, clock,
                       feed, launches, written, faults, host>>
    PROVE  UpdaterInv'
<1>1. Typed'
  BY DEF UpdaterInv, Typed, UpdaterTypeOK, Question
<1>2. TickInv'
  BY DEF UpdaterInv, TickInv, IsPending
<1>3. ASSUME NEW k \in Jobs PROVE RequestInv(k)'
  BY DEF UpdaterInv, Typed, RequestInv, New
<1>4. ASSUME NEW k \in Jobs PROVE LaunchInv(k)'
  BY DEF UpdaterInv, LaunchInv, Busy
<1> QED
  BY <1>1, <1>2, <1>3, <1>4 DEF UpdaterInv

LEMMA AskSteps ==
    ASSUME UpdaterInv, NEW j \in Jobs,
           \/ \E automatic, scheduled \in BOOLEAN : AskUpdate(j, automatic, scheduled)
           \/ \E point \in Jobs : AskRollback(j, point)
    PROVE  UpdaterInv'
<1>1. ASSUME NEW automatic \in BOOLEAN, NEW scheduled \in BOOLEAN,
             AskUpdate(j, automatic, scheduled)
      PROVE  UpdaterInv'
  <2> DEFINE question == [kind |-> "update", target |-> feed, source |-> host.identity,
                          point |-> NoJob, automatic |-> automatic,
                          scheduled |-> scheduled]
  <2>1. question \in Question
    BY DEF UpdaterInv, Typed, UpdaterTypeOK, Host, Question
  <2>2. New(j) /\ available' \in Versions /\ asked' = [asked EXCEPT ![j] = question]
    BY <1>1, NewerType DEF AskUpdate
  <2>3. question.kind # "none" /\ question.kind # "rollback"
    OBVIOUS
  <2> HIDE DEF question
  <2> QED
    BY <1>1, <2>1, <2>2, <2>3, AskStep DEF AskUpdate
<1>2. ASSUME NEW point \in Jobs, AskRollback(j, point)
      PROVE  UpdaterInv'
  <2> DEFINE question == [kind |-> "rollback", target |-> host.recovery[point].version,
                          source |-> host.identity, point |-> point,
                          automatic |-> FALSE, scheduled |-> FALSE]
  <2>1. host \in Host /\ host.recovery[point].version \in Versions
    BY <1>2, RecoveryPointFields DEF UpdaterInv, Typed, UpdaterTypeOK, AskRollback
  <2>2. question \in Question
    BY <2>1 DEF Host, Question
  <2>3. New(j) /\ available' \in Versions /\ asked' = [asked EXCEPT ![j] = question]
    BY <1>2 DEF AskRollback, files, UpdaterInv, Typed, UpdaterTypeOK
  <2>4. question.kind = "rollback" /\ question.point \in Jobs
    OBVIOUS
  <2> HIDE DEF question
  <2> QED
    BY <1>2, <2>2, <2>3, <2>4, AskStep DEF AskRollback, files
<1> QED
  BY <1>1, <1>2

LEMMA AdmitStep ==
    ASSUME UpdaterInv, NEW j \in Jobs, Admit(j)
    PROVE  UpdaterInv'
<1> DEFINE entry == [kind |-> asked[j].kind, phase |-> "awaiting-approval",
                     target |-> asked[j].target, source |-> asked[j].source,
                     point |-> asked[j].point, automatic |-> asked[j].automatic,
                     scheduled |-> asked[j].scheduled,
                     started |-> FALSE, reopened |-> FALSE]
<1>1. entry \in JobEntry /\ entry.kind # "none"
  BY DEF UpdaterInv, Typed, RequestInv, Admit, Question, JobEntry, ActivePhases, Pending
<1>2. /\ entry.phase \notin Refused /\ entry.started = FALSE
      /\ entry.kind = "rollback" => entry.point \in Jobs
  BY DEF UpdaterInv, RequestInv, Refused
<1>3. ledger[j].kind = "none" /\ ledger[j] = NoJobEntry
  BY DEF UpdaterInv, RequestInv, Admit
<1>4. ledger' = ledger \/ ledger' = [ledger EXCEPT ![j] = entry]
  BY DEF Admit
<1> HIDE DEF entry
<1>5. asked' = [asked EXCEPT ![j] = NothingAsked] /\ NothingAsked \in Question
  BY DEF Admit, Question, NothingAsked, Versions
<1>6. /\ clock' \in [Jobs -> {"early", "due", "expired"}]
      /\ UNCHANGED <<points, available, decided, consumed, tick, run, up, shown, feed,
                     launches, written, faults, host>>
      /\ tick.at # "consumed"
  BY DEF UpdaterInv, Typed, UpdaterTypeOK, Admit, LedgerFree
<1>7. Typed'
  <2>1. ledger' \in [Jobs -> JobEntry]
    BY <1>1, <1>4 DEF UpdaterInv, Typed, UpdaterTypeOK
  <2>2. asked' \in [Jobs -> Question]
    BY <1>5 DEF UpdaterInv, Typed
  <2> QED
    BY <1>6, <2>1, <2>2 DEF UpdaterInv, Typed, UpdaterTypeOK, Question
<1>8. TickInv'
  BY <1>6 DEF UpdaterInv, TickInv
<1>9. ASSUME NEW k \in Jobs PROVE RequestInv(k)' /\ LaunchInv(k)'
  <2>1. RequestInv(k)'
    BY <1>1, <1>2, <1>3, <1>4, <1>5 DEF UpdaterInv, Typed, UpdaterTypeOK, RequestInv,
                                        NothingAsked
  <2>2. ledger'[k].started = ledger[k].started
    <3>1. ledger'[k] = ledger[k] \/ (ledger'[k] = entry /\ ledger[k] = NoJobEntry)
      BY <1>3, <1>4 DEF UpdaterInv, Typed, UpdaterTypeOK
    <3>2. NoJobEntry.started = FALSE
      BY DEF NoJobEntry
    <3> QED
      BY <1>2, <3>1, <3>2, Zenon
  <2>3. ledger'[k].kind # "none" \/ ledger[k].kind = "none"
    BY <1>1, <1>4 DEF UpdaterInv, Typed, UpdaterTypeOK
  <2> QED
    BY <1>6, <2>1, <2>2, <2>3 DEF UpdaterInv, LaunchInv, Busy
<1> QED
  BY <1>7, <1>8, <1>9 DEF UpdaterInv

-----------------------------------------------------------------------------
(* The steps of the tick, and cancellation.                                *)

\* A pending request that is ended or scheduled was not started, so nothing was
\* launched for it and nothing is said about its approval.
LEMMA Settle ==
    ASSUME UpdaterInv, NEW j \in Jobs,
           NEW phase \in {"scheduled", "denied", "expired", "cancelled", "failed",
                          "needs-attention"},
           ledger' = ledger \/ ledger' = FinishPending(j, phase),
           tick.at # "consumed",
           \/ tick' = tick
           \/ tick' = Quiet
           \/ tick.at # "idle" /\ tick' = At("catch", j),
           faults' \in 0..MaxFaults,
           UNCHANGED <<points, available, decided, consumed, asked, run, up, shown,
                       clock, feed, launches, written, host>>
    PROVE  UpdaterInv'
<1>1. ledger' = ledger \/ (IsPending(j) /\ ledger' = [ledger EXCEPT ![j].phase = phase])
  BY DEF FinishPending, EndAs
<1>2. phase \in {"none"} \cup ActivePhases \cup Ended
  BY DEF ActivePhases, Pending, Ended
<1>3. ledger' \in [Jobs -> JobEntry]
  <2>1. ledger \in [Jobs -> JobEntry]
    BY DEF UpdaterInv, Typed, UpdaterTypeOK
  <2>2. [ledger[j] EXCEPT !.phase = phase] \in JobEntry
    BY <1>2, <2>1 DEF JobEntry
  <2> QED
    BY <1>1, <2>1, <2>2
<1>4. tick' \in TickState
  BY DEF UpdaterInv, Typed, Quiet, At, TickState
<1>5. Typed'
  BY <1>3, <1>4 DEF UpdaterInv, Typed, UpdaterTypeOK, TickState
<1>6. TickInv'
  BY DEF UpdaterInv, Typed, TickState, TickInv, Quiet, At
<1>7. ASSUME NEW k \in Jobs
      PROVE  /\ ledger'[k].kind = ledger[k].kind /\ ledger'[k].point = ledger[k].point
             /\ ledger'[k].started = ledger[k].started
             /\ ledger'[k] = ledger[k] \/ (IsPending(k) /\ ledger[k].kind # "none")
  <2>1. IsPending(j) => ledger[j].kind # "none"
    BY DEF UpdaterInv, RequestInv, IsPending, NoJobEntry, Pending
  <2>2. ledger[k] \in JobEntry
    BY DEF UpdaterInv, Typed, UpdaterTypeOK
  <2> QED
    BY <1>1, <2>1, <2>2 DEF UpdaterInv, Typed, UpdaterTypeOK, JobEntry
<1>8. ASSUME NEW k \in Jobs PROVE RequestInv(k)'
  BY <1>7 DEF UpdaterInv, RequestInv, IsPending
<1>9. ASSUME NEW k \in Jobs PROVE LaunchInv(k)'
  BY <1>7 DEF UpdaterInv, LaunchInv, Busy
<1> QED
  BY <1>5, <1>6, <1>8, <1>9 DEF UpdaterInv

LEMMA CancelStep ==
    ASSUME UpdaterInv, NEW j \in Jobs, Cancel(j)
    PROVE  UpdaterInv'
BY Settle DEF Cancel, FinishPending, LedgerFree, process, UpdaterInv, Typed, UpdaterTypeOK

\* A ledger write of the tick that may fail.
LEMMA TickEditStep ==
    ASSUME UpdaterInv, NEW phase \in {"scheduled", "denied", "expired", "needs-attention"},
           tick.at \in {"looking", "verified"},
           TickEdit(FinishPending(tick.job, phase)),
           UNCHANGED <<consumed, run, launches, outside>>
    PROVE  UpdaterInv'
<1>1. tick.job \in Jobs
  BY DEF UpdaterInv, TickInv
<1>2. faults' \in 0..MaxFaults
  BY FaultType DEF TickEdit, Pays, UpdaterInv, Typed, UpdaterTypeOK
<1>3. ledger' = ledger \/ ledger' = FinishPending(tick.job, phase)
  BY DEF TickEdit, Stored
<1>4. tick' = Quiet \/ tick' = At("catch", tick.job)
  BY DEF TickEdit
<1> QED
  BY <1>1, <1>2, <1>3, <1>4, Settle DEF outside

\* A step of the tick that changes no file.
LEMMA TickReads ==
    ASSUME UpdaterInv, up, tick' \in TickState,
           tick'.at # "idle" => tick'.job \in Jobs,
           tick'.at # "consumed",
           tick'.at = "verified" => decided[tick'.job] = "approved",
           UNCHANGED <<ledger, consumed, run, launches, faults, outside>>
    PROVE  UpdaterInv'
<1>1. Typed'
  BY DEF UpdaterInv, Typed, UpdaterTypeOK, TickState, outside
<1>2. TickInv'
  BY DEF UpdaterInv, TickInv, outside
<1>3. ASSUME NEW k \in Jobs PROVE RequestInv(k)' /\ LaunchInv(k)'
  BY DEF UpdaterInv, RequestInv, LaunchInv, Busy, outside
<1> QED
  BY <1>1, <1>2, <1>3 DEF UpdaterInv

LEMMA TickConsumesStep ==
    ASSUME UpdaterInv, TickConsumes
    PROVE  UpdaterInv'
<1>1. /\ tick.job \in Jobs /\ decided[tick.job] = "approved" /\ up
      /\ IsPending(tick.job)
  BY DEF UpdaterInv, TickInv, TickConsumes, Claimable, Quiet
<1>2. /\ consumed' = consumed \/ consumed' = consumed \cup {tick.job}
      /\ \/ tick' = At("consumed", tick.job) /\ consumed' = consumed \cup {tick.job}
         \/ tick' = At("catch", tick.job)
  BY DEF TickConsumes
<1>3. faults' \in 0..MaxFaults
  BY FaultType DEF TickConsumes, UpdaterInv, Typed, UpdaterTypeOK
<1>4. UNCHANGED <<ledger, run, launches, outside>>
  BY DEF TickConsumes
<1>5. Typed'
  BY <1>1, <1>2, <1>3, <1>4 DEF UpdaterInv, Typed, UpdaterTypeOK, TickState, At, outside
<1>6. TickInv'
  BY <1>1, <1>2, <1>4 DEF UpdaterInv, TickInv, IsPending, At, outside
<1>7. ASSUME NEW k \in Jobs PROVE RequestInv(k)'
  BY <1>4 DEF UpdaterInv, RequestInv, outside
<1>8. ASSUME NEW k \in Jobs PROVE LaunchInv(k)'
  BY <1>1, <1>2, <1>4 DEF UpdaterInv, LaunchInv, Busy, outside
<1> QED
  BY <1>5, <1>6, <1>7, <1>8 DEF UpdaterInv

\* The claim: the job is started, and launched if the ledger says so.
LEMMA TickLaunchesStep ==
    ASSUME UpdaterInv, TickLaunches
    PROVE  UpdaterInv'
<1> DEFINE j == tick.job
           claimed == [ledger EXCEPT ![j].phase = "preflight", ![j].started = TRUE]
<1>1. j \in Jobs /\ j \in consumed /\ IsPending(j) /\ up /\ ~ledger[j].started
  BY DEF UpdaterInv, TickInv, TickLaunches, Quiet, IsPending
<1>2. /\ ledger[j] \in JobEntry /\ run[j] \in Thread
      /\ ledger[j].kind \in {"update", "rollback"}
      /\ launches[j] = 0
  BY <1>1 DEF UpdaterInv, Typed, UpdaterTypeOK, RequestInv, LaunchInv, IsPending, NoJobEntry,
              Pending, JobEntry
<1>3. /\ claimed \in [Jobs -> JobEntry]
      /\ claimed[j].started = TRUE /\ claimed[j].phase \notin Refused
      /\ claimed[j].kind = ledger[j].kind /\ claimed[j].point = ledger[j].point
      /\ \A k \in Jobs \ {j} : claimed[k] = ledger[k]
  BY <1>1, <1>2 DEF UpdaterInv, Typed, UpdaterTypeOK, JobEntry, ActivePhases, Running,
                    Refused
<1> DEFINE launched == [run EXCEPT ![j] = Start(ledger[j].kind, FALSE)]
<1>4. /\ \/ ledger' = claimed /\ run' = launched
         \/ ledger' \in {ledger, claimed} /\ run' = run
      /\ launches' = [launches EXCEPT ![j] = IF run' = run THEN @ ELSE @ + 1]
      /\ tick' \in {Quiet, At("catch", j)}
  BY DEF TickLaunches, Stored, Launch
<1>5. faults' \in 0..MaxFaults /\ UNCHANGED <<consumed, outside>>
  BY FaultType DEF TickLaunches, Pays, UpdaterInv, Typed, UpdaterTypeOK
<1>6. /\ launched \in [Jobs -> Thread]
      /\ launched[j].program = ledger[j].kind /\ launched[j].at = 1
      /\ \A k \in Jobs \ {j} : launched[k] = run[k]
  BY <1>1, <1>2 DEF UpdaterInv, Typed, Thread, Start, ProgramNames
<1> HIDE DEF claimed, launched, j
<1>7. 1 \in 1..Len(Program(launched[j].program)) /\ 1 \in 1..Len(UpdateProgram)
  <2>1. launched[j].program \in ProgramNames
    BY <1>2, <1>6 DEF ProgramNames
  <2>2. Len(Program(launched[j].program)) \in 1..Len(UpdateProgram)
    BY <2>1, SoundPrograms
  <2>3. Len(UpdateProgram) = 19
    BY UpdateInstructions
  <2>4. \A m \in 1..19 : 1 \in 1..m /\ 1 \in 1..19
    OBVIOUS
  <2> QED
    BY <2>2, <2>3, <2>4
<1>8. Typed'
  <2>1. ledger' \in [Jobs -> JobEntry] /\ run' \in [Jobs -> Thread]
    BY <1>3, <1>4, <1>6 DEF UpdaterInv, Typed, UpdaterTypeOK
  <2>2. launches' \in [Jobs -> Nat]
    BY <1>1, <1>4 DEF UpdaterInv, Typed, UpdaterTypeOK
  <2>3. tick' \in TickState
    BY <1>1, <1>4 DEF Quiet, At, TickState
  <2>4. \A k \in Jobs : run'[k].at \in 1..Len(UpdateProgram)
    BY <1>4, <1>6, <1>7 DEF UpdaterInv, Typed, UpdaterTypeOK
  <2> QED
    BY <1>5, <2>1, <2>2, <2>3, <2>4 DEF UpdaterInv, Typed, UpdaterTypeOK, TickState, outside
<1>9. TickInv'
  BY <1>1, <1>4, <1>5 DEF TickInv, Quiet, At, outside
<1>10. ASSUME NEW k \in Jobs PROVE RequestInv(k)'
  <2>1. CASE k = j
    BY <1>2, <1>3, <1>4, <1>5, <2>1 DEF UpdaterInv, RequestInv, outside
  <2>2. CASE k # j
    BY <1>3, <1>4, <1>5, <2>2 DEF UpdaterInv, RequestInv, outside
  <2> QED
    BY <2>1, <2>2
<1>11. ASSUME NEW k \in Jobs PROVE LaunchInv(k)'
  <2>1. CASE k # j
    <3>1. ledger'[k] = ledger[k] /\ run'[k] = run[k] /\ launches'[k] = launches[k]
      BY <1>3, <1>4, <1>6, <2>1 DEF UpdaterInv, Typed, UpdaterTypeOK
    <3> QED
      BY <3>1, <1>5 DEF UpdaterInv, LaunchInv, Busy, outside
  <2>2. CASE k = j /\ run' = run
    <3>1. launches'[j] = 0 /\ ~Busy(j)
      BY <1>1, <1>2, <1>4, <2>2 DEF UpdaterInv, Typed, UpdaterTypeOK, LaunchInv
    <3> QED
      BY <1>1, <1>2, <1>3, <1>4, <1>5, <2>2, <3>1 DEF UpdaterInv, LaunchInv, Busy, outside
  <2>3. CASE k = j /\ run' # run
    <3>1. launches'[j] = 1 /\ ledger' = claimed /\ run' = launched
      BY <1>1, <1>2, <1>4, <2>3 DEF UpdaterInv, Typed, UpdaterTypeOK
    <3>2. decided[j] = "approved"
      BY <1>1 DEF UpdaterInv, LaunchInv
    <3> QED
      BY <1>1, <1>2, <1>3, <1>5, <1>6, <1>7, <2>3, <3>1, <3>2 DEF LaunchInv, Busy, outside
  <2> QED
    BY <2>1, <2>2, <2>3
<1> QED
  BY <1>8, <1>9, <1>10, <1>11 DEF UpdaterInv

LEMMA TickSteps ==
    ASSUME UpdaterInv, TickStep
    PROVE  UpdaterInv'
<1> USE DEF TickState, At, Quiet
<1>1. ASSUME tick.at # "idle" PROVE up /\ tick.job \in Jobs
  BY <1>1 DEF UpdaterInv, TickInv
<1>2. ASSUME NEW j \in Jobs, TickLook(j) PROVE UpdaterInv'
  BY <1>2, TickReads DEF TickLook
<1>3. CASE TickExpires
  BY <1>3, TickEditStep DEF TickExpires
<1>4. CASE TickQuarantines
  BY <1>4, TickEditStep DEF TickQuarantines
<1>5. CASE TickWaits
  BY <1>1, <1>5, TickReads DEF TickWaits, Actionable
<1>6. CASE TickDenies
  BY <1>6, TickEditStep DEF TickDenies, Actionable
<1>7. CASE TickSchedules
  BY <1>7, TickEditStep DEF TickSchedules, Actionable
<1>8. CASE TickVerifies
  BY <1>1, <1>8, TickReads DEF TickVerifies, Actionable
<1>9. CASE TickConsumes
  BY <1>9, TickConsumesStep
<1>10. CASE TickTooLate
  <2>1. CASE ~IsPending(tick.job)
    BY <1>1, <1>10, <2>1, TickReads DEF TickTooLate
  <2>2. CASE IsPending(tick.job)
    <3>1. TickEdit(FinishPending(tick.job, "expired"))
      BY <1>10, <2>2 DEF TickTooLate, FinishPending
    <3> QED
      BY <1>10, <3>1, TickEditStep DEF TickTooLate
  <2> QED
    BY <2>1, <2>2
<1>11. CASE TickLaunches
  BY <1>11, TickLaunchesStep
<1>12. CASE TickCatches
  <2> DEFINE phase == IF tick.job \in consumed THEN "needs-attention" ELSE "failed"
  <2>1. phase \in {"failed", "needs-attention"}
    OBVIOUS
  <2>2. /\ tick.at = "catch" /\ tick' = Quiet
        /\ ledger' = ledger \/ ledger' = FinishPending(tick.job, phase)
        /\ UNCHANGED <<consumed, run, launches, outside>>
    BY <1>12 DEF TickCatches, Stored
  <2>3. faults' \in 0..MaxFaults
    BY <1>12, FaultType DEF TickCatches, Pays, UpdaterInv, Typed, UpdaterTypeOK
  <2> HIDE DEF phase
  <2> QED
    BY <1>1, <2>1, <2>2, <2>3, Settle DEF outside
<1> QED
  BY <1>2, <1>3, <1>4, <1>5, <1>6, <1>7, <1>8, <1>9, <1>10, <1>11, <1>12 DEF TickStep

-----------------------------------------------------------------------------
(* The steps of launched operations, death and restart.                    *)

SoundThread(thread) ==
    /\ thread \in Thread
    /\ thread.at \in 1..Len(UpdateProgram)
    /\ thread.program = "none" => thread.at = 1
    /\ thread.program # "none" => thread.at \in 1..Len(Program(thread.program))

LEMMA ThreadsAreSound ==
    ASSUME UpdaterInv, NEW j \in Jobs
    PROVE  SoundThread(run[j])
BY DEF UpdaterInv, Typed, UpdaterTypeOK, LaunchInv, Busy, SoundThread

LEMMA StartIsSound ==
    ASSUME NEW name \in ProgramNames, NEW saved \in BOOLEAN
    PROVE  SoundThread(Start(name, saved))
<1>1. Start(name, saved) \in Thread
  BY DEF Start, Thread
<1>2. Len(UpdateProgram) = 19 /\ Len(Program(name)) \in 1..Len(UpdateProgram)
  BY SoundPrograms, UpdateInstructions
<1>3. \A m \in 1..19 : 1 \in 1..m /\ 1 \in 1..19
  OBVIOUS
<1> QED
  BY <1>1, <1>2, <1>3 DEF SoundThread, Start, ProgramNames

LEMMA IdleIsSound == SoundThread(Idle)
<1>1. 1 \in 1..Len(UpdateProgram)
  BY UpdateInstructions
<1> QED
  BY <1>1 DEF SoundThread, Idle, Thread

\* What the next instruction of an operation can be.
LEMMA InstructionIsSound ==
    ASSUME UpdaterInv, NEW j \in Jobs, Busy(j)
    PROVE  /\ Sound(Instruction(j))
           /\ run[j].program \in ProgramNames
           /\ up /\ ledger[j].started
           /\ ledger[j].kind \in {"update", "rollback"}
<1>1. run[j].program \in ProgramNames /\ run[j].at \in 1..Len(Program(run[j].program))
  BY DEF UpdaterInv, Typed, Thread, LaunchInv, Busy
<1>2. Sound(Program(run[j].program)[run[j].at])
  BY <1>1, SoundPrograms
<1>3. up /\ ledger[j].started /\ ledger[j].kind \in {"update", "rollback"}
  BY DEF UpdaterInv, Typed, UpdaterTypeOK, JobEntry, LaunchInv
<1> QED
  BY <1>1, <1>2, <1>3 DEF Instruction

\* Operations go on, end, are replaced by what handles their failure, or end
\* with the process; none appears.
ThreadsGoOn ==
    /\ \A k \in Jobs : SoundThread(run'[k]) /\ (run'[k].program # "none" => Busy(k))
    /\ run' \in [Jobs -> Thread]
    /\ \/ UNCHANGED <<asked, tick, up>>
       \/ ProcessEnds

LEMMA AdvanceGoesOn ==
    ASSUME UpdaterInv, NEW j \in Jobs, Busy(j), Advance(j)
    PROVE  ThreadsGoOn
<1> DEFINE n == Len(Program(run[j].program))
           called == Instruction(j) = Call("createRecoveryPoint")
           next == [program |-> run[j].program, at |-> run[j].at + 1,
                    saved |-> run[j].saved \/ called]
<1>1. /\ run \in [Jobs -> Thread] /\ run[j] \in Thread /\ run[j].at \in 1..n
      /\ run[j].program \in ProgramNames
  BY InstructionIsSound DEF UpdaterInv, Typed, LaunchInv
<1>2. n \in 1..Len(UpdateProgram) /\ Len(UpdateProgram) = 19
  BY <1>1, SoundPrograms, UpdateInstructions
<1>3. run' = [run EXCEPT ![j] = IF run[j].at = n THEN Idle ELSE next]
  BY Zenon DEF Advance
<1>4. called \in BOOLEAN
  OBVIOUS
<1> HIDE DEF n, called
<1>5. ASSUME run[j].at # n PROVE SoundThread(next)
  <2>1. next \in Thread /\ next.program = run[j].program /\ next.at = run[j].at + 1
    <3>1. (run[j].saved \/ called) \in BOOLEAN
      BY Zenon
    <3>2. run[j].program \in ProgramNames \cup {"none"} /\ run[j].at + 1 \in Nat
      BY <1>1 DEF Thread
    <3> QED
      BY <3>1, <3>2 DEF Thread
  <2>2. next.at \in 1..n /\ next.at \in 1..19
    BY <1>1, <1>2, <1>5, <2>1
  <2> QED
    BY <1>1, <1>2, <2>1, <2>2 DEF SoundThread, ProgramNames, n
<1> HIDE DEF next
<1>6. SoundThread(run'[j]) /\ \A k \in Jobs \ {j} : run'[k] = run[k]
  BY <1>1, <1>3, <1>5, IdleIsSound
<1>7. run' \in [Jobs -> Thread]
  BY <1>1, <1>3, <1>5, IdleIsSound DEF SoundThread
<1> QED
  BY <1>6, <1>7, ThreadsAreSound DEF ThreadsGoOn, Advance, Busy

LEMMA ProcessEnding ==
    ASSUME ProcessEnds
    PROVE  ThreadsGoOn
BY IdleIsSound DEF ProcessEnds, ThreadsGoOn, SoundThread, Idle

LEMMA ThrowGoesOn ==
    ASSUME UpdaterInv, NEW j \in Jobs, Busy(j), Throw(j)
    PROVE  ThreadsGoOn
<1> DEFINE handler == Handler(j, ledger'[j])
<1>1. handler \in ProgramNames \cup {"none"}
  BY DEF Handler, ProgramNames
<1>2. CASE handler = "none"
  BY <1>2, ProcessEnding DEF Throw
<1>3. CASE handler # "none"
  <2>1. /\ run' = [run EXCEPT ![j] = Start(handler, run[j].saved)]
        /\ UNCHANGED <<asked, tick, up>>
    BY <1>3 DEF Throw
  <2>2. run \in [Jobs -> Thread] /\ run[j].saved \in BOOLEAN
    BY DEF UpdaterInv, Typed, Thread
  <2> HIDE DEF handler
  <2>3. SoundThread(Start(handler, run[j].saved))
    BY <1>1, <1>3, <2>2, StartIsSound
  <2>4. run' \in [Jobs -> Thread]
    BY <2>1, <2>2, <2>3 DEF SoundThread
  <2>5. SoundThread(run'[j]) /\ \A k \in Jobs \ {j} : run'[k] = run[k]
    BY <2>1, <2>2, <2>3
  <2> QED
    BY <2>1, <2>4, <2>5, ThreadsAreSound DEF ThreadsGoOn, Busy
<1> QED
  BY <1>2, <1>3

\* The ledger's entry of k goes on as that of the same job.
SameJob(k) ==
    /\ ledger'[k].kind = ledger[k].kind
    /\ ledger'[k].started = ledger[k].started
    /\ ledger'[k].point = ledger[k].point \/ ledger'[k].point \in Jobs
    /\ ledger'[k].phase \in Refused => ledger'[k].phase = ledger[k].phase \/ ~ledger[k].started
    /\ ledger[k].kind = "none" => ledger'[k] = ledger[k]

\* Operations and restarts neither start, consume nor launch anything.
LEMMA WorkPreserves ==
    ASSUME UpdaterInv, ThreadsGoOn,
           ledger' \in [Jobs -> JobEntry], \A k \in Jobs : SameJob(k),
           ledger' = ledger \/ tick.at # "consumed",
           points' \in Seq(Jobs), host' \in Host, faults' \in 0..MaxFaults,
           UNCHANGED elsewhere
    PROVE  UpdaterInv'
<1>1. \/ asked' = asked /\ tick' = tick /\ (up' <=> up)
      \/ asked' = [k \in Jobs |-> NothingAsked] /\ tick' = Quiet /\ ~up'
  BY DEF ThreadsGoOn, ProcessEnds
<1>2. /\ asked' \in [Jobs -> Question] /\ tick' \in TickState
      /\ \A k \in Jobs : asked'[k] = asked[k] \/ asked'[k] = NothingAsked
  <2>1. NothingAsked \in Question /\ Quiet \in TickState
    BY DEF Question, NothingAsked, Versions, Quiet, TickState
  <2> QED
    BY <1>1, <2>1 DEF UpdaterInv, Typed
<1>3. up' \in BOOLEAN
  BY <1>1, Zenon DEF ThreadsGoOn, ProcessEnds, UpdaterInv, Typed, UpdaterTypeOK
<1>4. Typed'
  BY <1>2, <1>3 DEF UpdaterInv, Typed, UpdaterTypeOK, ThreadsGoOn, SoundThread, elsewhere,
                    Question, TickState
<1>5. TickInv'
  BY <1>1 DEF UpdaterInv, TickInv, IsPending, Quiet, elsewhere
<1>6. ASSUME NEW k \in Jobs PROVE RequestInv(k)'
  <2>1. RequestInv(k) /\ SameJob(k)
    BY DEF UpdaterInv
  <2>2. asked'[k] = asked[k] \/ asked'[k] = NothingAsked
    BY <1>2
  <2> QED
    BY <2>1, <2>2 DEF RequestInv, SameJob, NothingAsked
<1>7. ASSUME NEW k \in Jobs PROVE LaunchInv(k)'
  <2>1. LaunchInv(k) /\ SameJob(k) /\ SoundThread(run'[k])
    BY DEF UpdaterInv, ThreadsGoOn
  <2>2. run'[k].program # "none" => Busy(k) /\ up'
    BY <2>1 DEF LaunchInv, ThreadsGoOn, ProcessEnds, Idle
  <2> QED
    BY <2>1, <2>2 DEF LaunchInv, SameJob, SoundThread, Busy, elsewhere
<1> QED
  BY <1>4, <1>5, <1>6, <1>7 DEF UpdaterInv

\* A ledger write of an operation changes phase, mark and recovery point of its
\* own job, and never to a refusal.
LEMMA WrittenLedgerIsSound ==
    ASSUME UpdaterInv, NEW j \in Jobs, Busy(j),
           ledger' = ledger \/ ledger' = WrittenLedger(j, Instruction(j))
    PROVE  ledger' \in [Jobs -> JobEntry] /\ \A k \in Jobs : SameJob(k)
<1> DEFINE i == Instruction(j)
           phase == IF i.phase = "same" THEN ledger[j].phase ELSE i.phase
           marked == ledger[j].reopened \/ i.reopened
<1>1. ledger \in [Jobs -> JobEntry] /\ ledger[j] \in JobEntry
  BY DEF UpdaterInv, Typed, UpdaterTypeOK
<1>2. Sound(i) /\ ledger[j].kind \in {"update", "rollback"}
  BY InstructionIsSound
<1>3. CASE ledger' = ledger
  BY <1>1, <1>3 DEF SameJob
<1>4. CASE i.op = "write" /\ ledger' # ledger
  <2>1. i.phase \in LaunchedPhases /\ i.reopened \in BOOLEAN
    BY <1>2, <1>4 DEF Sound
  <2>2. /\ phase \in {"none"} \cup ActivePhases \cup Ended
        /\ phase = ledger[j].phase \/ phase \notin Refused
    BY <1>1, <2>1 DEF JobEntry, LaunchedPhases, ActivePhases, Refused
  <2>3. marked \in BOOLEAN
    BY Zenon
  <2>4. ledger' = [ledger EXCEPT ![j].phase = phase, ![j].reopened = marked]
    BY <1>4 DEF WrittenLedger
  <2> HIDE DEF phase, marked, i
  <2> DEFINE entry == [ledger[j] EXCEPT !.phase = phase, !.reopened = marked]
  <2>5. /\ entry \in JobEntry /\ entry.kind = ledger[j].kind
        /\ entry.started = ledger[j].started /\ entry.point = ledger[j].point
        /\ entry.phase = phase
    BY <1>1, <2>2, <2>3 DEF JobEntry
  <2>6. ledger' = [ledger EXCEPT ![j] = entry]
    BY <1>1, <2>4
  <2> HIDE DEF entry
  <2> QED
    BY <1>1, <1>2, <2>2, <2>5, <2>6 DEF SameJob
<1>5. CASE i.op # "write" /\ ledger' # ledger
  <2>1. i.op = "name" /\ ledger' = [ledger EXCEPT ![j].point = j]
    BY <1>5 DEF WrittenLedger
  <2> QED
    BY <1>1, <1>2, <2>1 DEF SameJob, JobEntry
<1> QED
  BY <1>3, <1>4, <1>5

LEMMA WrittenPointsType ==
    ASSUME UpdaterInv, NEW j \in Jobs, NEW i
    PROVE  WrittenPoints(j, i) \in Seq(Jobs)
<1>1. points \in Seq(Jobs) /\ Retention \in Nat /\ <<j>> \in Seq(Jobs)
  BY RetentionAssumption DEF UpdaterInv, Typed, UpdaterTypeOK
<1>2. <<j>> \o points \in Seq(Jobs)
  BY <1>1
<1>3. Retained \in Seq(Jobs)
  BY <1>1 DEF Retained
<1> QED
  BY <1>1, <1>2, <1>3 DEF WrittenPoints

LEMMA RunWriteStep ==
    ASSUME UpdaterInv, NEW j \in Jobs, RunWrite(j)
    PROVE  UpdaterInv'
<1>1. Busy(j) /\ tick.at # "consumed" /\ UNCHANGED <<elsewhere, host>>
  BY DEF RunWrite, LedgerFree
<1>2. ledger' = ledger \/ ledger' = WrittenLedger(j, Instruction(j))
  BY DEF RunWrite, Stored
<1>3. points' \in Seq(Jobs)
  BY WrittenPointsType DEF RunWrite, Stored, UpdaterInv, Typed, UpdaterTypeOK
<1>4. faults' \in 0..MaxFaults
  BY FaultType DEF RunWrite, Pays, UpdaterInv, Typed, UpdaterTypeOK
<1>5. ThreadsGoOn
  BY <1>1, AdvanceGoesOn, ThrowGoesOn DEF RunWrite
<1>6. host' \in Host
  BY <1>1 DEF UpdaterInv, Typed, UpdaterTypeOK
<1>7. ledger' \in [Jobs -> JobEntry] /\ \A k \in Jobs : SameJob(k)
  BY <1>1, <1>2, WrittenLedgerIsSound
<1> QED
  BY <1>1, <1>3, <1>4, <1>5, <1>6, <1>7, WorkPreserves

\* What an operation gives to the executor.
LEMMA CallType ==
    ASSUME UpdaterInv, NEW j \in Jobs, Busy(j), Instruction(j).op = "call"
    PROVE  CallName(j) \in Calls /\ Given(j) \in Arguments /\ host \in Host
<1>1. Instruction(j).call \in Calls \cup {"restore"}
  BY InstructionIsSound DEF Sound
<1>2. CallName(j) \in Calls
  BY <1>1 DEF CallName, Calls
<1>3. /\ ledger[j].target \in Versions /\ ledger[j].source \in Versions
      /\ points \in Seq(Jobs) /\ host \in Host
  BY DEF UpdaterInv, Typed, UpdaterTypeOK, JobEntry
<1>4. (IF ledger[j].kind = "update" THEN j ELSE ledger[j].point) \in Jobs
  BY InstructionIsSound DEF UpdaterInv, RequestInv
<1>5. Excess \in Seq(Jobs)
  <2>1. \A i \in Retention + 1 .. Len(points) : points[i] \in Jobs
    BY <1>3, RetentionAssumption
  <2>2. Retention + 1 \in Int /\ Len(points) \in Int
    BY <1>3, RetentionAssumption
  <2> QED
    BY <2>1, <2>2, SubSeqProperties DEF Excess
<1> QED
  BY <1>2, <1>3, <1>4, <1>5 DEF Given, Arguments

LEMMA RunCallStep ==
    ASSUME UpdaterInv, NEW j \in Jobs, RunCall(j)
    PROVE  UpdaterInv'
<1>1. /\ Busy(j) /\ Instruction(j).op = "call" /\ UNCHANGED elsewhere
      /\ ledger' = ledger /\ points' = points
  BY DEF RunCall
<1>2. host' \in Host
  <2>1. \/ host' = Last(Trace(CallName(j), Given(j), host))
        \/ host' \in Thrown(CallName(j), Given(j), host)
    BY DEF RunCall
  <2> QED
    BY <1>1, <2>1, CallType, CallOutcomes
<1>3. faults' \in 0..MaxFaults
  BY FaultType DEF RunCall, UpdaterInv, Typed, UpdaterTypeOK
<1>4. ThreadsGoOn
  BY <1>1, AdvanceGoesOn, ThrowGoesOn DEF RunCall
<1>5. ledger' \in [Jobs -> JobEntry] /\ \A k \in Jobs : SameJob(k)
  BY <1>1, WrittenLedgerIsSound
<1>6. points' \in Seq(Jobs)
  BY <1>1 DEF UpdaterInv, Typed, UpdaterTypeOK
<1> QED
  BY <1>1, <1>2, <1>3, <1>4, <1>5, <1>6, WorkPreserves

LEMMA CrashStep ==
    ASSUME UpdaterInv, Crash
    PROVE  UpdaterInv'
<1>1. /\ ThreadsGoOn /\ ledger' = ledger /\ points' = points /\ UNCHANGED elsewhere
  BY ProcessEnding DEF Crash, files, elsewhere
<1>2. faults' \in 0..MaxFaults
  BY FaultType DEF Crash
<1>3. host' \in Host
  <2>1. CASE UNCHANGED host
    BY <2>1 DEF UpdaterInv, Typed, UpdaterTypeOK
  <2>2. ASSUME NEW j \in Jobs, Busy(j), Instruction(j).op = "call",
               host' \in CutOff(CallName(j), Given(j), host)
        PROVE  host' \in Host
    BY <2>2, CallType, CallOutcomes
  <2> QED
    BY <2>1, <2>2 DEF Crash
<1>4. ledger' \in [Jobs -> JobEntry] /\ points' \in Seq(Jobs)
  BY <1>1 DEF UpdaterInv, Typed, UpdaterTypeOK
<1>5. \A k \in Jobs : SameJob(k)
  BY <1>1 DEF SameJob
<1> QED
  BY <1>1, <1>2, <1>3, <1>4, <1>5, WorkPreserves

\* A restart ends jobs, but refuses only requests that were not started.
LEMMA ReconciledIsSound ==
    ASSUME UpdaterInv, NEW k \in Jobs
    PROVE  /\ Reconciled(k) \in JobEntry
           /\ Reconciled(k).kind = ledger[k].kind
           /\ Reconciled(k).started = ledger[k].started
           /\ Reconciled(k).point = ledger[k].point
           /\ Reconciled(k).phase \in Refused =>
                 Reconciled(k) = ledger[k] \/ (Active(k) /\ ~ledger[k].started)
           /\ ledger[k].kind = "none" => Reconciled(k) = ledger[k]
<1>1. ledger[k] \in JobEntry
  BY DEF UpdaterInv, Typed, UpdaterTypeOK
<1>2. ledger[k].kind = "none" => ~Active(k)
  BY DEF UpdaterInv, RequestInv, Active, NoJobEntry, ActivePhases, Pending, Running
<1>3. CASE ~Active(k)
  BY <1>1, <1>3 DEF Reconciled
<1>4. CASE Active(k) /\ Survives(k)
  <2>1. Reconciled(k) = [ledger[k] EXCEPT !.phase = SurvivingPhase(k)] /\ ~ledger[k].started
    BY <1>4 DEF Reconciled, Survives, IsPending
  <2>2. SurvivingPhase(k) \in {"none"} \cup ActivePhases \cup Ended
    BY <1>1 DEF SurvivingPhase, JobEntry, Ended
  <2> QED
    BY <1>1, <1>2, <1>4, <2>1, <2>2 DEF JobEntry
<1>5. CASE Active(k) /\ ~Survives(k)
  <2> DEFINE marked == ledger[k].reopened \/ MayHaveMutated(ledger[k].phase)
  <2>1. Reconciled(k) = [ledger[k] EXCEPT !.phase = "needs-attention", !.reopened = marked]
    BY <1>5, Zenon DEF Reconciled
  <2>2. marked \in BOOLEAN
    BY Zenon
  <2> HIDE DEF marked
  <2> QED
    BY <1>1, <1>2, <1>5, <2>1, <2>2 DEF JobEntry, Ended, Refused
<1> QED
  BY <1>3, <1>4, <1>5

LEMMA RestartStep ==
    ASSUME UpdaterInv, Restart
    PROVE  UpdaterInv'
<1>1. /\ ~up /\ up' /\ ledger' = [k \in Jobs |-> Reconciled(k)]
      /\ UNCHANGED <<points, available, decided, consumed, asked, tick, run, shown,
                     clock, feed, launches, written, faults, host>>
  BY DEF Restart
<1>2. tick = Quiet
  BY <1>1 DEF UpdaterInv, TickInv
<1>3. Typed'
  <2>1. ledger' \in [Jobs -> JobEntry]
    BY <1>1, ReconciledIsSound
  <2>2. up' \in BOOLEAN
    BY Zenon DEF Restart
  <2> QED
    BY <1>1, <2>1, <2>2 DEF UpdaterInv, Typed, UpdaterTypeOK, Question, TickState
<1>4. TickInv'
  BY <1>1, <1>2 DEF TickInv, Quiet
<1>5. ASSUME NEW k \in Jobs PROVE RequestInv(k)' /\ LaunchInv(k)'
  <2> DEFINE entry == Reconciled(k)
  <2>1. ledger'[k] = entry /\ RequestInv(k) /\ LaunchInv(k)
    BY <1>1 DEF UpdaterInv
  <2>2. /\ entry.kind = ledger[k].kind /\ entry.started = ledger[k].started
        /\ entry.point = ledger[k].point
        /\ entry.phase \in Refused => entry = ledger[k] \/ ~ledger[k].started
        /\ ledger[k].kind = "none" => entry = ledger[k]
    BY ReconciledIsSound
  <2> HIDE DEF entry
  <2>3. RequestInv(k)'
    BY <1>1, <2>1, <2>2 DEF RequestInv
  <2>4. LaunchInv(k)'
    BY <1>1, <2>1, <2>2 DEF LaunchInv, Busy
  <2> QED
    BY <2>3, <2>4
<1> QED
  BY <1>3, <1>4, <1>5 DEF UpdaterInv

-----------------------------------------------------------------------------
(* The theorems.                                                           *)

LEMMA StepPreserves == UpdaterInv /\ [Next]_vars => UpdaterInv'
<1> SUFFICES ASSUME UpdaterInv, [Next]_vars PROVE UpdaterInv'
  OBVIOUS
<1>1. CASE \E release \in Releases : FeedPublishes(release)
  BY <1>1, EnvironmentSteps
<1>2. CASE CheckForUpdates \/ UserWrites
  BY <1>2, EnvironmentSteps
<1>3. ASSUME NEW j \in Jobs, Request(j) PROVE UpdaterInv'
  BY <1>3, AskSteps, AdmitStep, CancelStep DEF Request
<1>4. ASSUME NEW j \in Jobs, Operator(j) PROVE UpdaterInv'
  BY <1>4, EnvironmentSteps, DecideStep DEF Operator
<1>5. ASSUME NEW j \in Jobs, TimePasses(j) PROVE UpdaterInv'
  BY <1>5, EnvironmentSteps
<1>6. CASE TickStep
  BY <1>6, TickSteps
<1>7. ASSUME NEW j \in Jobs, RunWrite(j) PROVE UpdaterInv'
  BY <1>7, RunWriteStep
<1>8. ASSUME NEW j \in Jobs, RunCall(j) PROVE UpdaterInv'
  BY <1>8, RunCallStep
<1>9. CASE Crash
  BY <1>9, CrashStep
<1>10. CASE Restart
  BY <1>10, RestartStep
<1>11. CASE UNCHANGED vars
  <2>1. UNCHANGED <<ledger, points, decided, consumed, process, launches>>
    BY <1>11 DEF vars, files, process
  <2>2. UNCHANGED <<available, shown, clock, feed, written, faults, host>>
    BY <1>11 DEF vars, files, process
  <2> QED
    BY <2>1, <2>2, Environment DEF UpdaterInv, Typed, UpdaterTypeOK
<1> QED
  BY <1>1, <1>2, <1>3, <1>4, <1>5, <1>6, <1>7, <1>8, <1>9, <1>10, <1>11 DEF Next

LEMMA Invariance == Spec => []UpdaterInv
BY Initially, StepPreserves, PTL DEF Spec

\* Ledger, files, process state and installation keep their types: in
\* particular no operation runs off its list of instructions, and no call of the
\* executor leaves anything but an installation.
THEOREM UpdaterTypeCorrect == Spec => []UpdaterTypeOK
<1>1. UpdaterInv => UpdaterTypeOK
  BY DEF UpdaterInv, Typed
<1> QED
  BY <1>1, Invariance, PTL

\* Nothing runs that the operator did not approve, that was not durably claimed,
\* or that ran before; through lost and unacknowledged ledger writes, crashes
\* and restarts.
THEOREM OnlyApprovedOperationsRun == Spec => []RunsOnlyWhatWasApproved
<1>1. UpdaterInv => RunsOnlyWhatWasApproved
  BY DEF UpdaterInv, LaunchInv, RunsOnlyWhatWasApproved
<1> QED
  BY <1>1, Invariance, PTL

\* A refused request is neither pending nor started, so no step changes it.
LEMMA RefusalStays ==
    ASSUME UpdaterInv, [Next]_vars, NEW j \in Jobs, ledger[j].phase \in Refused
    PROVE  ledger'[j].phase = ledger[j].phase
<1>1. /\ ~IsPending(j) /\ ~Active(j) /\ ~ledger[j].started /\ ~Busy(j)
      /\ ledger[j].kind # "none"
  BY DEF UpdaterInv, RequestInv, LaunchInv, Refused, IsPending, Active, ActivePhases, Pending,
         Running, NoJobEntry
<1>2. ledger \in [Jobs -> JobEntry]
  BY DEF UpdaterInv, Typed, UpdaterTypeOK
<1>3. ASSUME NEW k \in Jobs, NEW phase, ledger' \in {ledger, FinishPending(k, phase)}
      PROVE  ledger'[j].phase = ledger[j].phase
  BY <1>1, <1>2, <1>3 DEF FinishPending, EndAs
<1>4. CASE UNCHANGED ledger
  BY <1>4
<1>5. ASSUME NEW k \in Jobs, Request(k) PROVE ledger'[j].phase = ledger[j].phase
  <2>1. CASE Admit(k)
    <3>1. k # j
      BY <1>1, <2>1 DEF Admit, UpdaterInv, RequestInv
    <3> QED
      BY <1>2, <2>1, <3>1 DEF Admit
  <2>2. CASE Cancel(k)
    BY <1>1, <1>2, <2>2 DEF Cancel, EndAs
  <2>3. CASE UNCHANGED ledger
    BY <2>3
  <2> QED
    BY <1>5, <2>1, <2>2, <2>3 DEF Request, AskUpdate, AskRollback, files
<1>6. CASE TickStep
  <2>1. tick.at # "idle" => tick.job \in Jobs
    BY DEF UpdaterInv, TickInv
  <2>2. ASSUME NEW phase, tick.at # "idle", TickEdit(FinishPending(tick.job, phase))
        PROVE  ledger'[j].phase = ledger[j].phase
    BY <1>3, <2>1, <2>2 DEF TickEdit, Stored
  <2>3. CASE TickExpires \/ TickQuarantines \/ TickDenies \/ TickSchedules
    BY <2>2, <2>3 DEF TickExpires, TickQuarantines, TickDenies, TickSchedules, Actionable
  <2>4. CASE TickTooLate
    BY <1>2, <1>1, <2>4 DEF TickTooLate, TickEdit, Stored, EndAs
  <2>5. CASE TickLaunches
    <3>1. tick.job # j
      BY <1>1, <2>5 DEF TickLaunches, UpdaterInv, TickInv
    <3> QED
      BY <1>2, <2>5, <3>1 DEF TickLaunches, Stored
  <2>6. CASE TickCatches
    <3>1. \E phase : ledger' \in {ledger, FinishPending(tick.job, phase)}
      BY <2>6 DEF TickCatches, Stored
    <3> QED
      BY <1>3, <2>1, <2>6, <3>1 DEF TickCatches
  <2>7. CASE UNCHANGED ledger
    BY <2>7
  <2> QED
    BY <1>6, <2>3, <2>4, <2>5, <2>6, <2>7
    DEF TickStep, TickLook, TickWaits, TickVerifies, TickConsumes
<1>7. ASSUME NEW k \in Jobs, RunWrite(k) PROVE ledger'[j].phase = ledger[j].phase
  <2>1. k # j
    BY <1>1, <1>7 DEF RunWrite
  <2> QED
    BY <1>2, <1>7, <2>1 DEF RunWrite, Stored, WrittenLedger
<1>8. CASE Restart
  BY <1>1, <1>8 DEF Restart, Reconciled
<1> QED
  BY <1>4, <1>5, <1>6, <1>7, <1>8
  DEF Next, vars, files, FeedPublishes, CheckForUpdates, Operator, Show, Decide, TimePasses,
      RunCall, UserWrites, Crash

\* What was cancelled, denied or expired stays so, whatever the tick had read
\* before and whichever writes fail.
THEOREM RefusalsAreFinal == Spec => RefusalIsFinal
<1>1. UpdaterInv /\ [Next]_vars
      => [\A j \in Jobs : ledger[j].phase \in {"cancelled", "denied", "expired"}
                          => ledger'[j].phase = ledger[j].phase]_vars
  BY RefusalStays DEF Refused
<1> QED
  BY <1>1, Invariance, PTL DEF Spec, RefusalIsFinal

-----------------------------------------------------------------------------
(* One operation at a time.                                                *)

\* Programs that only tell the operator that the job ended.
Farewells == {"attention", "fail"}

Working(thread) == thread.program \notin Farewells \cup {"none"}

\* After the recovery point is created the thread knows it.
RemembersPoint(thread) ==
    thread.program = "update" /\ thread.at > 6 => thread.saved

\* At most one job is active; an operation that works on the installation is
\* active; and an update that threw at its end has its recovery point, so it is
\* not answered as one that threw before it.
ExclusionInv ==
    \A j \in Jobs : /\ Active(j) => NoActiveJobBut(j)
                    /\ Working(run[j]) => Active(j)
                    /\ RemembersPoint(run[j])

\* An instruction that leaves its job active.
Ongoing(i) == i.op = "write" => i.phase \in Running \cup {"same"}

LEMMA OngoingInstructions ==
    /\ \A phase \in Running \cup {"same"}, reopened \in BOOLEAN :
          Ongoing(Write(phase, reopened))
    /\ \A call : Ongoing(Call(call))
    /\ Ongoing(ListPoint) /\ Ongoing(NamePoint) /\ Ongoing(RetainPoints)
BY DEF Ongoing, Write, Call, ListPoint, NamePoint, RetainPoints

\* The last instruction of an operation is the only one that ends the job.
LEMMA OnlyTheLastEnds ==
    ASSUME NEW name \in ProgramNames \ Farewells, NEW p \in 1..Len(Program(name)),
           p # Len(Program(name))
    PROVE  Ongoing(Program(name)[p])
<1>0. /\ \A phase \in Running : Ongoing(Phase(phase))
      /\ Ongoing(MarkReopened) /\ Ongoing(Write("rolling-back", TRUE))
      /\ \A call : Ongoing(Call(call))
      /\ Ongoing(ListPoint) /\ Ongoing(NamePoint) /\ Ongoing(RetainPoints)
  BY OngoingInstructions DEF Phase, MarkReopened, Running
<1>1. CASE name = "update"
  <2>1. Program(name) = UpdateProgram /\ Len(UpdateProgram) = 19
    BY <1>1, UpdateInstructions DEF Program
  <2>2. p \in 1..18
    BY <2>1
  <2>3. \/ p = 1 \/ p = 2 \/ p = 3 \/ p = 4 \/ p = 5 \/ p = 6 \/ p = 7 \/ p = 8 \/ p = 9
        \/ p = 10 \/ p = 11 \/ p = 12 \/ p = 13 \/ p = 14 \/ p = 15 \/ p = 16 \/ p = 17
        \/ p = 18
    BY <2>2
  <2>4. UpdateProgram[p] \in
           {Phase("staging"), Phase("maintenance"), Phase("backing-up"),
            Phase("migrating"), Phase("starting"), Phase("verifying"), MarkReopened,
            Call("stage"), Call("enterMaintenance"), Call("createRecoveryPoint"),
            Call("migrate"), Call("startCandidate"), Call("verifyCandidate"),
            Call("reopenWrites"), Call("deleteRecoveryPoints"),
            ListPoint, NamePoint, RetainPoints}
    BY <2>3 DEF UpdateProgram
  <2> QED
    BY <1>0, <2>1, <2>4 DEF Running
<1>2. CASE name = "rollback"
  <2>1. Program(name) = RollbackProgram /\ Len(RollbackProgram) = 5
    BY <1>2 DEF Program, RollbackProgram
  <2>2. p \in 1..4
    BY <2>1
  <2>3. p = 1 \/ p = 2 \/ p = 3 \/ p = 4
    BY <2>2
  <2>4. /\ RollbackProgram[1] = Phase("maintenance")
        /\ RollbackProgram[2] = Call("enterMaintenance")
        /\ RollbackProgram[3] = Write("rolling-back", TRUE)
        /\ RollbackProgram[4] = Call("rollbackDatabase")
    BY DEF RollbackProgram
  <2> QED
    BY <1>0, <2>1, <2>3, <2>4 DEF Running
<1>3. CASE name = "resume"
  <2>1. Program(name) = ResumeProgram /\ Len(ResumeProgram) = 3
    BY <1>3 DEF Program, ResumeProgram
  <2>2. p \in 1..2
    BY <2>1
  <2>3. ResumeProgram[p] \in {MarkReopened, Call("resumeCurrent")}
    BY <2>2 DEF ResumeProgram
  <2> QED
    BY <1>0, <2>1, <2>3 DEF Running
<1>4. CASE name = "restore"
  <2>1. Program(name) = RestoreProgram /\ Len(RestoreProgram) = 4
    BY <1>4 DEF Program, RestoreProgram
  <2>2. p \in 1..3
    BY <2>1
  <2>3. RestoreProgram[p] \in {Phase("rolling-back"), MarkReopened, Call("restore")}
    BY <2>2 DEF RestoreProgram
  <2> QED
    BY <1>0, <2>1, <2>3 DEF Running
<1> QED
  BY <1>1, <1>2, <1>3, <1>4 DEF ProgramNames, Farewells

\* What is left to say when no job becomes active.
LEMMA NobodyBecomesActive ==
    ASSUME ExclusionInv, \A k \in Jobs : Active(k)' => Active(k),
           \A k \in Jobs : Working(run'[k]) => Active(k)',
           \A k \in Jobs : RemembersPoint(run'[k])
    PROVE  ExclusionInv'
BY DEF ExclusionInv, NoActiveJobBut

LEMMA InitiallyExclusive == Init => ExclusionInv
BY DEF Init, ExclusionInv, Active, ActivePhases, Pending, Running, NoJobEntry, Working, Idle,
       RemembersPoint

LEMMA SettleExcludes ==
    ASSUME UpdaterInv, ExclusionInv, NEW j \in Jobs, NEW phase, run' = run,
           ledger' = ledger \/ ledger' = FinishPending(j, phase)
    PROVE  ExclusionInv'
<1>1. CASE ledger' = ledger
  BY <1>1, NobodyBecomesActive DEF ExclusionInv, Active
<1>2. CASE ledger' # ledger
  <2>1. IsPending(j) /\ ledger' = [ledger EXCEPT ![j].phase = phase]
    BY <1>2 DEF FinishPending, EndAs
  <2>2. Active(j) /\ ~Working(run[j])
    BY <2>1 DEF UpdaterInv, LaunchInv, IsPending, Active, ActivePhases, Busy, Working
  <2>3. \A k \in Jobs \ {j} : ledger'[k] = ledger[k]
    BY <2>1 DEF UpdaterInv, Typed, UpdaterTypeOK
  <2> QED
    BY <2>2, <2>3, NobodyBecomesActive DEF ExclusionInv, Active
<1> QED
  BY <1>1, <1>2

LEMMA AdmitExcludes ==
    ASSUME UpdaterInv, ExclusionInv, NEW j \in Jobs, Admit(j)
    PROVE  ExclusionInv'
<1>1. run' = run /\ ~Working(run[j])
  BY DEF Admit, UpdaterInv, RequestInv, LaunchInv, NoJobEntry, Busy, Working
<1>2. CASE ledger' = ledger
  BY <1>1, <1>2, NobodyBecomesActive DEF ExclusionInv, Active
<1>3. CASE ledger' # ledger
  <2>1. \A k \in Jobs : ~Active(k)
    BY <1>3 DEF Admit, Admissible
  <2>2. \A k \in Jobs \ {j} : ledger'[k] = ledger[k]
    BY <1>3 DEF Admit, UpdaterInv, Typed, UpdaterTypeOK
  <2> QED
    BY <1>1, <2>1, <2>2 DEF ExclusionInv, NoActiveJobBut, Active
<1> QED
  BY <1>2, <1>3

LEMMA LaunchExcludes ==
    ASSUME UpdaterInv, ExclusionInv, TickLaunches
    PROVE  ExclusionInv'
<1>0. PICK j \in Jobs : j = tick.job
  BY DEF UpdaterInv, TickInv, TickLaunches
<1> DEFINE claimed == [ledger EXCEPT ![j].phase = "preflight", ![j].started = TRUE]
           launched == [run EXCEPT ![j] = Start(ledger[j].kind, FALSE)]
<1>1. Active(j)
  BY <1>0 DEF UpdaterInv, TickInv, TickLaunches, IsPending, Active, ActivePhases
<1>2. \/ ledger' = claimed /\ run' = launched
      \/ ledger' \in {ledger, claimed} /\ run' = run
  BY <1>0 DEF TickLaunches, Stored, Launch
<1>3. ledger \in [Jobs -> JobEntry] /\ run \in [Jobs -> Thread]
  BY DEF UpdaterInv, Typed, UpdaterTypeOK
<1>4. /\ claimed[j].phase = "preflight"
      /\ \A k \in Jobs \ {j} : claimed[k] = ledger[k]
  BY <1>1, <1>3 DEF JobEntry
<1>5. /\ launched[j].at = 1
      /\ \A k \in Jobs \ {j} : launched[k] = run[k]
  BY <1>1, <1>3 DEF Start
<1> HIDE DEF claimed, launched
<1>6. Active(j)'
  BY <1>1, <1>2, <1>4 DEF Active, ActivePhases, Running
<1>7. \A k \in Jobs \ {j} : ledger'[k] = ledger[k] /\ run'[k] = run[k]
  BY <1>2, <1>4, <1>5
<1>8. RemembersPoint(run'[j])
  BY <1>1, <1>2, <1>5 DEF ExclusionInv, RemembersPoint
<1> QED
  BY <1>1, <1>6, <1>7, <1>8, NobodyBecomesActive DEF ExclusionInv, Active

\* The thread after an instruction of j that did not throw.
LEMMA AdvanceThread ==
    ASSUME UpdaterInv, ExclusionInv, NEW j \in Jobs, Busy(j), Advance(j)
    PROVE  /\ \A k \in Jobs \ {j} : run'[k] = run[k]
           /\ RemembersPoint(run'[j])
           /\ Working(run'[j]) => /\ run[j].at # Len(Program(run[j].program))
                                  /\ Working(run[j])
<1> DEFINE n == Len(Program(run[j].program))
           called == Instruction(j) = Call("createRecoveryPoint")
           next == [program |-> run[j].program, at |-> run[j].at + 1,
                    saved |-> run[j].saved \/ called]
<1>1. run' = [run EXCEPT ![j] = IF run[j].at = n THEN Idle ELSE next]
  BY Zenon DEF Advance
<1>2. run \in [Jobs -> Thread] /\ run[j] \in Thread
  BY DEF UpdaterInv, Typed
<1>3. run'[j] = (IF run[j].at = n THEN Idle ELSE next)
      /\ \A k \in Jobs \ {j} : run'[k] = run[k]
  BY <1>1, <1>2, Zenon
<1>4. ASSUME run[j].program = "update", run[j].at + 1 > 6
      PROVE  next.saved
  <2>1. CASE run[j].at = 6
    <3>1. Program("update")[6] = Call("createRecoveryPoint")
      BY DEF Program, UpdateProgram
    <3>2. called
      BY <1>4, <2>1, <3>1 DEF Instruction
    <3> QED
      BY <3>2, Zenon
  <2>2. CASE run[j].at # 6
    <3>1. run[j].at > 6
      BY <1>2, <1>4, <2>2 DEF Thread
    <3>2. run[j].saved
      BY <1>4, <3>1 DEF ExclusionInv, RemembersPoint
    <3> QED
      BY <3>2, Zenon
  <2> QED
    BY <2>1, <2>2
<1>5. RemembersPoint(next)
  BY <1>4 DEF RemembersPoint
<1>6. RemembersPoint(Idle) /\ ~Working(Idle) /\ Working(next) = Working(run[j])
  BY DEF RemembersPoint, Idle, Working
<1> HIDE DEF next, n
<1> QED
  BY <1>3, <1>5, <1>6 DEF n

\* The thread after one that threw: it works on only if the ledger did not
\* record the end of the job.
LEMMA ThrowThread ==
    ASSUME UpdaterInv, ExclusionInv, NEW j \in Jobs, Busy(j), Throw(j),
           Working(run[j]) =>
              \/ Active(j)'
              \/ ledger'[j].reopened /\ run[j].program = "update" /\ run[j].at > 6
              \/ run[j].program # "update"
    PROVE  /\ \A k \in Jobs \ {j} : run'[k] = run[k] \/ run'[k] = Idle
           /\ RemembersPoint(run'[j])
           /\ Working(run'[j]) => Active(j)'
<1> DEFINE handler == Handler(j, ledger'[j])
<1>1. ~Working(Idle) /\ RemembersPoint(Idle)
  BY DEF Working, Idle, RemembersPoint
<1>2. CASE handler = "none"
  BY <1>1, <1>2 DEF Throw, ProcessEnds
<1>3. CASE handler # "none"
  <2>1. run' = [run EXCEPT ![j] = Start(handler, run[j].saved)]
    BY <1>3 DEF Throw
  <2>2. run \in [Jobs -> Thread]
    BY DEF UpdaterInv, Typed
  <2>3. handler \in {"resume", "restore"} => run[j].program = "update"
    BY DEF Handler
  <2>4. /\ handler = "resume" => ~run[j].saved
        /\ handler = "restore" => ~ledger'[j].reopened
    BY <2>3 DEF Handler
  <2>5. handler \in {"resume", "restore"} => Active(j)'
    <3>1. run[j].program = "update" => Working(run[j])
      BY DEF Working, Farewells
    <3>2. run[j].program = "update" /\ run[j].at > 6 => run[j].saved
      BY DEF ExclusionInv, RemembersPoint
    <3> QED
      BY <2>3, <2>4, <3>1, <3>2
  <2>6. handler \in {"resume", "restore", "attention", "fail"}
    BY <1>3 DEF Handler
  <2> HIDE DEF handler
  <2>7. run'[j] = Start(handler, run[j].saved) /\ \A k \in Jobs \ {j} : run'[k] = run[k]
    BY <2>1, <2>2
  <2> QED
    BY <2>5, <2>6, <2>7 DEF Start, Working, Farewells, RemembersPoint
<1> QED
  BY <1>2, <1>3

LEMMA RunWriteExcludes ==
    ASSUME UpdaterInv, ExclusionInv, NEW j \in Jobs, RunWrite(j)
    PROVE  ExclusionInv'
<1> DEFINE i == Instruction(j)
           name == run[j].program
           n == Len(Program(name))
           stored == WrittenLedger(j, i)
<1>1. /\ Busy(j) /\ i.op # "call"
      /\ \/ ledger' = stored /\ Advance(j)
         \/ ledger' \in {ledger, stored} /\ Throw(j)
  BY DEF RunWrite, Stored
<1>2. /\ ledger \in [Jobs -> JobEntry] /\ ledger[j] \in JobEntry
      /\ name \in ProgramNames /\ run[j].at \in 1..n /\ Sound(i)
  BY <1>1, InstructionIsSound DEF UpdaterInv, Typed, UpdaterTypeOK, LaunchInv
<1>3. \A k \in Jobs \ {j} : ledger'[k] = ledger[k]
  BY <1>1, <1>2 DEF WrittenLedger
\* the phase the write leaves
<1>4. ASSUME i.op = "write"
      PROVE  stored[j].phase = IF i.phase = "same" THEN ledger[j].phase ELSE i.phase
  BY <1>2, <1>4 DEF WrittenLedger, JobEntry
<1>5. ASSUME i.op # "write" PROVE stored[j].phase = ledger[j].phase
  BY <1>2, <1>5 DEF WrittenLedger, JobEntry
<1> HIDE DEF stored
<1>6. Working(run[j]) => Active(j) /\ name \in ProgramNames \ Farewells
  BY <1>2 DEF ExclusionInv, Working
<1>7. ASSUME Working(run[j]), run[j].at # n, ledger' \in {ledger, stored}
      PROVE  Active(j)'
  <2>1. Ongoing(i)
    BY <1>2, <1>6, <1>7, OnlyTheLastEnds DEF Instruction
  <2>2. ledger'[j].phase = ledger[j].phase \/ ledger'[j].phase \in Running
    BY <1>4, <1>5, <1>7, <2>1 DEF Ongoing
  <2> QED
    BY <1>6, <1>7, <2>2 DEF Active, ActivePhases
<1>8. ASSUME ~Working(run[j]), ledger' \in {ledger, stored}
      PROVE  Active(j)' => Active(j)
  <2>1. name \in Farewells /\ n = 1
    BY <1>1, <1>8 DEF Working, Busy, Program, Farewells
  <2>2. i \in {Phase("needs-attention"), Phase("failed")}
    BY <1>2, <2>1 DEF Instruction, Program, Farewells
  <2>3. i.op = "write" /\ i.phase \in {"needs-attention", "failed"}
    BY <2>2 DEF Phase, Write
  <2> QED
    BY <1>4, <1>8, <2>3 DEF Active, ActivePhases, Pending, Running
<1>9. \A k \in Jobs : Active(k)' => Active(k)
  BY <1>1, <1>3, <1>6, <1>8 DEF Active
<1>10. CASE Advance(j)
  <2>1. /\ \A k \in Jobs \ {j} : run'[k] = run[k]
        /\ RemembersPoint(run'[j])
        /\ Working(run'[j]) => run[j].at # n /\ Working(run[j])
    BY <1>1, <1>10, AdvanceThread
  <2>2. Working(run'[j]) => Active(j)'
    BY <1>1, <1>7, <2>1
  <2> QED
    BY <1>3, <1>9, <2>1, <2>2, NobodyBecomesActive DEF ExclusionInv, Active
<1>11. CASE Throw(j)
  <2>1. Working(run[j]) =>
           \/ Active(j)'
           \/ ledger'[j].reopened /\ name = "update" /\ run[j].at > 6
           \/ name # "update"
    <3>1. SUFFICES ASSUME Working(run[j]), name = "update", ~Active(j)'
                   PROVE  ledger'[j].reopened /\ run[j].at > 6
      OBVIOUS
    <3>2. run[j].at = n /\ ledger' = stored
      BY <1>1, <1>6, <1>7, <3>1 DEF Active
    <3>3. n = 19 /\ i = Write("completed", TRUE)
      <4>1. Program(name) = UpdateProgram
        BY <3>1 DEF Program
      <4> QED
        BY <3>2, <4>1, UpdateInstructions DEF Instruction, UpdateProgram
    <3>4. stored[j].reopened
      <4> DEFINE marked == ledger[j].reopened \/ i.reopened
      <4>1. i.op = "write" /\ i.phase = "completed" /\ i.reopened = TRUE
        BY <3>3 DEF Write
      <4>2. marked = TRUE
        BY <4>1, Zenon
      <4>3. stored = [ledger EXCEPT ![j].phase = "completed", ![j].reopened = marked]
        BY <4>1 DEF stored, WrittenLedger
      <4> HIDE DEF marked
      <4> QED
        BY <1>2, <4>2, <4>3 DEF JobEntry
    <3> QED
      BY <3>2, <3>3, <3>4
  <2>2. /\ \A k \in Jobs \ {j} : run'[k] = run[k] \/ run'[k] = Idle
        /\ RemembersPoint(run'[j])
        /\ Working(run'[j]) => Active(j)'
    BY <1>1, <1>11, <2>1, ThrowThread
  <2>3. ~Working(Idle) /\ RemembersPoint(Idle)
    BY DEF Working, Idle, RemembersPoint
  <2> QED
    BY <1>3, <1>9, <2>2, <2>3, NobodyBecomesActive DEF ExclusionInv, Active
<1> QED
  BY <1>1, <1>10, <1>11

LEMMA RunCallExcludes ==
    ASSUME UpdaterInv, ExclusionInv, NEW j \in Jobs, RunCall(j)
    PROVE  ExclusionInv'
<1>1. Busy(j) /\ ledger' = ledger /\ (Advance(j) \/ Throw(j))
  BY DEF RunCall
<1>2. \A k \in Jobs : Active(k)' <=> Active(k)
  BY <1>1 DEF Active
<1>3. Working(run[j]) => Active(j)'
  BY <1>2 DEF ExclusionInv
<1>4. CASE Advance(j)
  BY <1>1, <1>2, <1>3, <1>4, AdvanceThread, NobodyBecomesActive DEF ExclusionInv
<1>5. CASE Throw(j)
  <2>1. /\ \A k \in Jobs \ {j} : run'[k] = run[k] \/ run'[k] = Idle
        /\ RemembersPoint(run'[j])
        /\ Working(run'[j]) => Active(j)'
    BY <1>1, <1>3, <1>5, ThrowThread
  <2>2. ~Working(Idle) /\ RemembersPoint(Idle)
    BY DEF Working, Idle, RemembersPoint
  <2> QED
    BY <1>2, <2>1, <2>2, NobodyBecomesActive DEF ExclusionInv
<1> QED
  BY <1>1, <1>4, <1>5

LEMMA ExclusionPreserved ==
    UpdaterInv /\ ExclusionInv /\ [Next]_vars => ExclusionInv'
<1> SUFFICES ASSUME UpdaterInv, ExclusionInv, [Next]_vars PROVE ExclusionInv'
  OBVIOUS
<1>1. ASSUME ledger' = ledger, run' = run PROVE ExclusionInv'
  BY <1>1 DEF ExclusionInv, NoActiveJobBut, Active
<1>2. ASSUME NEW j \in Jobs, Request(j) PROVE ExclusionInv'
  <2>1. CASE Admit(j)
    BY <2>1, AdmitExcludes
  <2>2. CASE Cancel(j)
    BY <2>2, SettleExcludes DEF Cancel, FinishPending, process
  <2>3. CASE ledger' = ledger /\ run' = run
    BY <1>1, <2>3
  <2> QED
    BY <1>2, <2>1, <2>2, <2>3 DEF Request, AskUpdate, AskRollback, files
<1>3. CASE TickStep
  <2>1. tick.at # "idle" => tick.job \in Jobs
    BY DEF UpdaterInv, TickInv
  <2>2. ASSUME NEW phase, tick.at # "idle", TickEdit(FinishPending(tick.job, phase)),
               run' = run
        PROVE  ExclusionInv'
    BY <2>1, <2>2, SettleExcludes DEF TickEdit, Stored
  <2>3. CASE TickExpires \/ TickQuarantines \/ TickDenies \/ TickSchedules
    BY <2>2, <2>3 DEF TickExpires, TickQuarantines, TickDenies, TickSchedules, Actionable
  <2>4. CASE TickTooLate
    <3>1. CASE ledger' = ledger /\ run' = run
      BY <1>1, <3>1
    <3>2. CASE TickEdit(FinishPending(tick.job, "expired")) /\ run' = run
      BY <2>2, <2>4, <3>2 DEF TickTooLate
    <3> QED
      BY <2>4, <3>1, <3>2 DEF TickTooLate, FinishPending
  <2>5. CASE TickLaunches
    BY <2>5, LaunchExcludes
  <2>6. CASE TickCatches
    <3>1. \E phase : ledger' \in {ledger, FinishPending(tick.job, phase)}
      BY <2>6 DEF TickCatches, Stored
    <3> QED
      BY <2>1, <2>6, <3>1, SettleExcludes DEF TickCatches
  <2>7. CASE ledger' = ledger /\ run' = run
    BY <1>1, <2>7
  <2> QED
    BY <1>3, <2>3, <2>4, <2>5, <2>6, <2>7
    DEF TickStep, TickLook, TickWaits, TickVerifies, TickConsumes, outside
<1>4. ASSUME NEW j \in Jobs, RunWrite(j) PROVE ExclusionInv'
  BY <1>4, RunWriteExcludes
<1>5. ASSUME NEW j \in Jobs, RunCall(j) PROVE ExclusionInv'
  BY <1>5, RunCallExcludes
<1>6. CASE Crash
  <2>1. ledger' = ledger /\ run' = [j \in Jobs |-> Idle]
    BY <1>6 DEF Crash, ProcessEnds, files
  <2> QED
    BY <2>1, NobodyBecomesActive DEF Active, Working, Idle, RemembersPoint
<1>7. CASE Restart
  <2>1. run' = run /\ \A k \in Jobs : ledger'[k] = Reconciled(k) /\ ~Working(run[k])
    BY <1>7 DEF Restart, UpdaterInv, LaunchInv, Busy, Working
  <2>2. \A k \in Jobs : ~Active(k) => Reconciled(k) = ledger[k]
    BY DEF Reconciled
  <2> QED
    BY <2>1, <2>2, NobodyBecomesActive DEF ExclusionInv, Active
<1>8. CASE ledger' = ledger /\ run' = run
  BY <1>1, <1>8
<1> QED
  BY <1>2, <1>3, <1>4, <1>5, <1>6, <1>7, <1>8
  DEF Next, vars, files, process, FeedPublishes, CheckForUpdates, Operator, Show, Decide,
      TimePasses, UserWrites

\* Only one job is active, and whoever calls the executor is that one: a job
\* that ended in the ledger, through whichever write that threw, touches the
\* installation no more.
THEOREM OperationsExclude == Spec => []OneOperationAtATime
<1>1. UpdaterInv /\ ExclusionInv => OneOperationAtATime
  <2> SUFFICES ASSUME UpdaterInv, ExclusionInv, NEW j \in Jobs, Active(j) \/ Calling(j)
               PROVE  NoActiveJobBut(j) /\ Active(j)
    BY DEF OneOperationAtATime
  <2>1. ASSUME Calling(j) PROVE Active(j)
    <3>1. run[j].program \notin Farewells
      <4>1. SUFFICES ASSUME run[j].program \in Farewells PROVE FALSE
        OBVIOUS
      <4>2. run[j].at \in 1..1
        BY <2>1, <4>1 DEF Calling, UpdaterInv, LaunchInv, Farewells, Program
      <4>3. Instruction(j) \in {Phase("needs-attention"), Phase("failed")}
        BY <4>1, <4>2 DEF Instruction, Program, Farewells
      <4> QED
        BY <2>1, <4>3 DEF Calling, Phase, Write
    <3> QED
      BY <2>1, <3>1 DEF Calling, Busy, ExclusionInv, Working
  <2> QED
    BY <2>1 DEF ExclusionInv
<1>2. UpdaterInv /\ ExclusionInv /\ [Next]_vars => (UpdaterInv /\ ExclusionInv)'
  BY StepPreserves, ExclusionPreserved
<1>3. Init => UpdaterInv /\ ExclusionInv
  BY Initially, InitiallyExclusive
<1> QED
  BY <1>1, <1>2, <1>3, PTL DEF Spec

-----------------------------------------------------------------------------
(***************************************************************************)
(* What an operation does to the data, proved about ManagedUpdater: the    *)
(* database users write to is whole, writes after a recovery point are     *)
(* recorded, retained points exist, and data is lost only where the        *)
(* operator agreed.  Only one operation works on the installation          *)
(* (ExclusionInv), so all of it is about how far that one has come.        *)
(***************************************************************************)

\* An operation at one of some instructions of a program.
Between(thread, name, first, last) ==
    thread.program = name /\ first <= thread.at /\ thread.at <= last

\* What a job's thread remembers of its ledger entry.
ThreadInv(j) ==
    /\ run[j].program \in {"update", "resume", "restore"} => ledger[j].kind = "update"
    /\ run[j].program = "rollback" => ledger[j].kind = "rollback"
    /\ run[j].program = "update" /\ run[j].saved => run[j].at > 6
    /\ \/ Between(run[j], "update", 16, 19)
       \/ Between(run[j], "resume", 2, 3)
       \/ Between(run[j], "restore", 3, 4)
       => ledger[j].reopened

\* Operations that may open the application have found a whole database.
NeedsWhole(thread) ==
    \/ Between(thread, "update", 3, 19)
    \/ Between(thread, "resume", 1, 3)
    \/ Between(thread, "restore", 1, 3)

\* The recovery point of j holds everything, and nobody can write.
Intact(j) == host.mode # "open" /\ host.recovery[j].data = host.data

Recorded(j) ==
    Active(j) /\ ledger[j].kind = "update" /\ ~ledger[j].reopened

\* What a job and its recovery point say of the data, also when it does not run.
PointInv(j) ==
    /\ Recorded(j) => host.recovery[j] = NoPoint \/ Intact(j)
    /\ host.recovery[j] # NoPoint => /\ ledger[j].kind # "none"
                                     /\ host.recovery[j].data <= written

\* What the place of an operation says of the installation.
StageInv(j) ==
    /\ NeedsWhole(run[j]) => host.whole
    /\ Between(run[j], "update", 5, 15) => host.mode # "open"
    /\ Between(run[j], "update", 7, 7) => host.recovery[j] # NoPoint
    /\ Between(run[j], "restore", 1, 3) => host.recovery[j] = NoPoint \/ Intact(j)

\* The list of recovery points: each once, of an update that is past listing it.
PointsInv ==
    /\ \A p, q \in 1..Len(points) : points[p] = points[q] => p = q
    /\ \A p \in 1..Len(points) :
          /\ ledger[points[p]].started
          /\ ~Between(run[points[p]], "update", 1, 7)
    /\ RetainedPointsExist

DataInv ==
    /\ OpenDatabaseIsWhole
    /\ host.data <= written
    /\ \A j \in Jobs : ThreadInv(j) /\ PointInv(j) /\ StageInv(j)
    /\ PointsInv

-----------------------------------------------------------------------------
(* What the calls do to the installation.                                  *)

Opening == {"reopenWrites", "resumeCurrent", "rollbackApplication"}

\* The host x that a call reaches from h.  Only a database rollback changes the
\* data or drops the database, and that is whole again before it is opened.
CallEffect(call, c, h, x) ==
    /\ call # "rollbackDatabase" => x.whole = h.whole /\ x.data = h.data
    /\ call = "rollbackDatabase" /\ x.mode = "open" => x.whole \/ x = h
    /\ x.data # h.data => PointOf(c, h) # NoPoint /\ x.data = PointOf(c, h).data
    /\ call \notin Opening \cup {"rollbackDatabase"} => (x.mode = "open" => h.mode = "open")
    /\ call \notin {"createRecoveryPoint", "deleteRecoveryPoints"} => x.recovery = h.recovery
    /\ call = "createRecoveryPoint" =>
          \A k \in Jobs : \/ x.recovery[k] = h.recovery[k]
                          \/ /\ k = c.job /\ x.recovery[k] # NoPoint
                             /\ x.recovery[k].data = h.data
    /\ call = "deleteRecoveryPoints" =>
          \A k \in Jobs : \/ x.recovery[k] = h.recovery[k]
                          \/ x.recovery[k] = NoPoint /\ k \in Range(c.excess)

LEMMA TwoSteps ==
    ASSUME NEW a, NEW b
    PROVE  Range(<<a, b>>) = {a, b} /\ Last(<<a, b>>) = b
<1>1. Range(<<a, b>>) = {a, b}
  BY DEF Range
<1> QED  BY <1>1 DEF Last

LEMMA CallEffects ==
    ASSUME NEW call \in Calls, NEW c \in Arguments, NEW h \in Host,
           NEW x \in Range(Trace(call, c, h))
    PROVE  CallEffect(call, c, h, x)
<1>0. /\ c.job \in Jobs /\ c.release \in Versions /\ c.source \in Versions
      /\ c.point \in Jobs /\ c.excess \in Seq(Jobs)
  BY DEF Arguments
<1> USE DEF Opening
<1> DEFINE point == PointOf(c, h)
<1>1. ASSUME x = h PROVE CallEffect(call, c, h, x)
  <2> HIDE DEF point
  <2> QED
    BY <1>1 DEF CallEffect
<1>2. CASE call \in {"stage", "verifyCandidate"}
  <2>1. Trace(call, c, h) = <<h>>
    BY <1>2 DEF Trace
  <2> QED
    BY <1>1, <2>1 DEF Range
<1>3. CASE call = "enterMaintenance"
  <2>1. x \in {h, Stopped(h)}
    BY <1>3, TwoSteps DEF Trace, StopTrace
  <2>2. CASE x = Stopped(h)
    BY <1>3, <2>2 DEF CallEffect, Stopped, Host
  <2> QED
    BY <1>1, <2>1, <2>2
<1>4. CASE call = "createRecoveryPoint"
  <2> DEFINE final == [h EXCEPT !.recovery[c.job] = Snapshot(h, c.source)]
  <2>1. x \in {h, final}
    BY <1>4, TwoSteps DEF Trace, SnapshotTrace
  <2>2. Snapshot(h, c.source) # NoPoint /\ Snapshot(h, c.source).data = h.data
    <3>1. Snapshot(h, c.source) \in RecoveryPoint
      BY <1>0 DEF Snapshot, RecoveryPoint, Host
    <3> QED
      BY <3>1, NoPointAssumption DEF Snapshot
  <2>3. /\ final.whole = h.whole /\ final.data = h.data /\ final.mode = h.mode
        /\ \A k \in Jobs : final.recovery[k] =
              IF k = c.job THEN Snapshot(h, c.source) ELSE h.recovery[k]
    BY <1>0 DEF Host
  <2>4. CASE x = final
    BY <1>4, <2>2, <2>3, <2>4 DEF CallEffect
  <2> QED
    BY <1>1, <2>1, <2>4
<1>5. CASE call = "migrate"
  <2>1. x \in {h, [h EXCEPT !.schema = c.release]}
    BY <1>5, TwoSteps DEF Trace, MigrateTrace
  <2>2. CASE x = [h EXCEPT !.schema = c.release]
    BY <1>5, <2>2 DEF CallEffect, Host
  <2> QED
    BY <1>1, <2>1, <2>2
<1>6. CASE call = "startCandidate"
  <2>1. x \in {h, Fenced(h, c.release)}
    BY <1>6, TwoSteps DEF Trace
  <2>2. CASE x = Fenced(h, c.release)
    BY <1>6, <2>2 DEF CallEffect, Fenced, Host
  <2> QED
    BY <1>1, <2>1, <2>2
<1>7. CASE call = "reopenWrites"
  <2> DEFINE configured == Configured(h, c.release)
             identified == Identified(configured, c.release)
  <2>1. Trace(call, c, h) = <<h, configured, identified, Opened(identified)>>
    BY <1>7 DEF Trace, ReopenTrace, configured, identified
  <2>2. /\ configured.whole = h.whole /\ configured.data = h.data
        /\ configured.mode = h.mode /\ configured.recovery = h.recovery
        /\ configured \in Host
    BY <1>0, HostOperations DEF Configured, Host
  <2> HIDE DEF configured
  <2>3. /\ identified.whole = h.whole /\ identified.data = h.data
        /\ identified.mode = h.mode /\ identified.recovery = h.recovery
        /\ identified \in Host
    BY <1>0, <2>2, HostOperations DEF Identified, Host
  <2> HIDE DEF identified
  <2>4. /\ Opened(identified).whole = h.whole /\ Opened(identified).data = h.data
        /\ Opened(identified).recovery = h.recovery
    BY <2>3 DEF Opened, Host
  <2>5. x \in {h, configured, identified, Opened(identified)}
    BY <2>1 DEF Range
  <2> HIDE DEF point
  <2> QED
    BY <1>7, <2>2, <2>3, <2>4, <2>5 DEF CallEffect
<1>8. CASE call = "resumeCurrent"
  <2>1. x \in {h, Opened(h)}
    BY <1>8, TwoSteps DEF Trace
  <2>2. CASE x = Opened(h)
    BY <1>8, <2>2 DEF CallEffect, Opened, Host
  <2> QED
    BY <1>1, <2>1, <2>2
<1>9. CASE call = "rollbackDatabase" /\ point # NoPoint
  <2> DEFINE stopped == Stopped(h)
             configured == Configured(stopped, point.env)
             dropped == Dropped(configured)
             reloaded == Reloaded(dropped, point)
             identified == Identified(reloaded, point.version)
  <2>1. Trace(call, c, h) = <<h, stopped, configured, dropped, reloaded, identified,
                              Opened(identified)>>
    BY <1>9 DEF Trace, RollbackDatabaseTrace, stopped, configured, dropped, reloaded,
                identified
  <2>2. point \in RecoveryPoint
    BY <1>0, <1>9, RecoveryPointFields DEF PointOf, Host, RecoveryPoint
  <2>3. /\ stopped.mode = "stopped" /\ stopped.data = h.data
        /\ stopped.recovery = h.recovery /\ stopped \in Host
    BY HostOperations DEF Stopped, Host
  <2> HIDE DEF stopped
  <2>4. /\ configured.mode = "stopped" /\ configured.data = h.data
        /\ configured.recovery = h.recovery /\ configured \in Host
    BY <2>2, <2>3, HostOperations DEF Configured, Host, RecoveryPoint
  <2> HIDE DEF configured
  <2>5. /\ dropped.mode = "stopped" /\ dropped.data = h.data
        /\ dropped.recovery = h.recovery /\ dropped \in Host
    BY <2>4, HostOperations DEF Dropped, Host
  <2> HIDE DEF dropped
  <2>6. /\ reloaded.mode = "stopped" /\ reloaded.data = point.data /\ reloaded.whole
        /\ reloaded.recovery = h.recovery /\ reloaded \in Host
    BY <2>2, <2>5, ReloadedType DEF Reloaded, Host
  <2> HIDE DEF reloaded
  <2>7. /\ identified.mode = "stopped" /\ identified.data = point.data /\ identified.whole
        /\ identified.recovery = h.recovery /\ identified \in Host
    BY <2>2, <2>6, HostOperations DEF Identified, Host, RecoveryPoint
  <2> HIDE DEF identified
  <2>8. /\ Opened(identified).data = point.data /\ Opened(identified).whole
        /\ Opened(identified).recovery = h.recovery
    BY <2>7 DEF Opened, Host
  <2>9. x \in {h, stopped, configured, dropped, reloaded, identified, Opened(identified)}
    BY <2>1 DEF Range
  <2> QED
    BY <1>1, <1>9, <2>3, <2>4, <2>5, <2>6, <2>7, <2>8, <2>9 DEF CallEffect
<1>10. CASE call = "rollbackApplication" /\ point # NoPoint
  <2> DEFINE stopped == Stopped(h)
             configured == Configured(stopped, point.env)
             identified == Identified(configured, point.version)
  <2>1. Trace(call, c, h) = <<h, stopped, configured, identified, Opened(identified)>>
    BY <1>10 DEF Trace, RollbackApplicationTrace, stopped, configured, identified
  <2>2. point \in RecoveryPoint
    BY <1>0, <1>10, RecoveryPointFields DEF PointOf, Host, RecoveryPoint
  <2>3. /\ stopped.whole = h.whole /\ stopped.data = h.data
        /\ stopped.recovery = h.recovery /\ stopped \in Host
    BY HostOperations DEF Stopped, Host
  <2> HIDE DEF stopped
  <2>4. /\ configured.whole = h.whole /\ configured.data = h.data
        /\ configured.recovery = h.recovery /\ configured \in Host
    BY <2>2, <2>3, HostOperations DEF Configured, Host, RecoveryPoint
  <2> HIDE DEF configured
  <2>5. /\ identified.whole = h.whole /\ identified.data = h.data
        /\ identified.recovery = h.recovery /\ identified \in Host
    BY <2>2, <2>4, HostOperations DEF Identified, Host, RecoveryPoint
  <2> HIDE DEF identified
  <2>6. /\ Opened(identified).whole = h.whole /\ Opened(identified).data = h.data
        /\ Opened(identified).recovery = h.recovery
    BY <2>5 DEF Opened, Host
  <2>7. x \in {h, stopped, configured, identified, Opened(identified)}
    BY <2>1 DEF Range
  <2> QED
    BY <1>1, <1>10, <2>3, <2>4, <2>5, <2>6, <2>7 DEF CallEffect
<1>11. CASE call \in {"rollbackDatabase", "rollbackApplication"} /\ point = NoPoint
  <2>1. x \in {h, Stopped(h)}
    BY <1>11, TwoSteps DEF Trace, RollbackDatabaseTrace, RollbackApplicationTrace
  <2>2. /\ Stopped(h).whole = h.whole /\ Stopped(h).data = h.data
        /\ Stopped(h).mode = "stopped" /\ Stopped(h).recovery = h.recovery
    BY DEF Stopped, Host
  <2>3. CASE x = Stopped(h)
    BY <1>11, <2>2, <2>3 DEF CallEffect
  <2> QED
    BY <1>1, <2>1, <2>3
<1>12. CASE call = "deleteRecoveryPoints"
  <2> DEFINE pruned(p) ==
               [h EXCEPT !.recovery =
                  [k \in Jobs |-> IF \E q \in 1..(p - 1) : c.excess[q] = k
                                  THEN NoPoint ELSE h.recovery[k]]]
             n == Len(c.excess) + 1
  <2>1. Trace(call, c, h) = [p \in 1..n |-> pruned(p)]
    BY <1>12 DEF Trace, PruneTrace, pruned, n
  <2>2. PICK p \in 1..n : x = pruned(p)
    BY <2>1 DEF Range
  <2>3. /\ x.whole = h.whole /\ x.data = h.data /\ x.mode = h.mode
        /\ \A k \in Jobs : x.recovery[k] =
              IF \E q \in 1..(p - 1) : c.excess[q] = k THEN NoPoint ELSE h.recovery[k]
    BY <2>2 DEF pruned, Host
  <2>4. \A q \in 1..(p - 1) : c.excess[q] \in Range(c.excess)
    BY <1>0, <2>2 DEF Range
  <2> HIDE DEF pruned, n
  <2> QED
    BY <1>12, <2>3, <2>4 DEF CallEffect
<1> HIDE DEF point
<1>13. CASE call \in {"rollbackDatabase", "rollbackApplication"}
  BY <1>9, <1>10, <1>11, <1>13
<1>14. \/ call \in {"stage", "verifyCandidate"} \/ call = "enterMaintenance"
       \/ call = "createRecoveryPoint" \/ call = "migrate" \/ call = "startCandidate"
       \/ call = "reopenWrites" \/ call = "resumeCurrent"
       \/ call \in {"rollbackDatabase", "rollbackApplication"}
       \/ call = "deleteRecoveryPoints"
  BY DEF Calls
<1> QED
  BY <1>2, <1>3, <1>4, <1>5, <1>6, <1>7, <1>8, <1>12, <1>13, <1>14

-----------------------------------------------------------------------------
(* Where an operation stands.                                              *)

\* The calls of the programs, by their position.
CallOf(thread, call) ==
    \/ Between(thread, "update", 2, 2) /\ call = "stage"
    \/ Between(thread, "update", 4, 4) /\ call = "enterMaintenance"
    \/ Between(thread, "update", 6, 6) /\ call = "createRecoveryPoint"
    \/ Between(thread, "update", 10, 10) /\ call = "migrate"
    \/ Between(thread, "update", 12, 12) /\ call = "startCandidate"
    \/ Between(thread, "update", 14, 14) /\ call = "verifyCandidate"
    \/ Between(thread, "update", 16, 16) /\ call = "reopenWrites"
    \/ Between(thread, "update", 17, 17) /\ call = "deleteRecoveryPoints"
    \/ Between(thread, "rollback", 2, 2) /\ call = "enterMaintenance"
    \/ Between(thread, "rollback", 4, 4) /\ call = "rollbackDatabase"
    \/ Between(thread, "resume", 2, 2) /\ call = "resumeCurrent"
    \/ /\ Between(thread, "restore", 3, 3)
       /\ call \in {"rollbackApplication", "rollbackDatabase"}

\* The writes that say more than a phase.
Marking(thread) ==
    \/ Between(thread, "update", 15, 15)
    \/ Between(thread, "resume", 1, 1)
    \/ Between(thread, "restore", 2, 2)

WriteOf(thread, i) ==
    /\ i.op \in {"write", "list", "name", "retain"}
    /\ i.op = "list" <=> Between(thread, "update", 7, 7)
    /\ Marking(thread) => i = MarkReopened
    /\ \A p \in {2, 4, 6} : ~Between(thread, "update", p, p)

LEMMA UpdateSteps ==
    /\ UpdateProgram[1] = Phase("staging") /\ UpdateProgram[2] = Call("stage")
    /\ UpdateProgram[3] = Phase("maintenance") /\ UpdateProgram[4] = Call("enterMaintenance")
    /\ UpdateProgram[5] = Phase("backing-up") /\ UpdateProgram[6] = Call("createRecoveryPoint")
    /\ UpdateProgram[7] = ListPoint /\ UpdateProgram[8] = NamePoint
    /\ UpdateProgram[9] = Phase("migrating") /\ UpdateProgram[10] = Call("migrate")
    /\ UpdateProgram[11] = Phase("starting") /\ UpdateProgram[12] = Call("startCandidate")
    /\ UpdateProgram[13] = Phase("verifying") /\ UpdateProgram[14] = Call("verifyCandidate")
    /\ UpdateProgram[15] = MarkReopened /\ UpdateProgram[16] = Call("reopenWrites")
    /\ UpdateProgram[17] = Call("deleteRecoveryPoints") /\ UpdateProgram[18] = RetainPoints
    /\ UpdateProgram[19] = Write("completed", TRUE)
BY DEF UpdateProgram

LEMMA Places ==
    ASSUME UpdaterInv, NEW j \in Jobs, Busy(j)
    PROVE  IF Instruction(j).op = "call" THEN CallOf(run[j], CallName(j))
                                         ELSE WriteOf(run[j], Instruction(j))
<1> DEFINE i == Instruction(j)
<1>1. /\ run[j].program \in ProgramNames /\ run[j].at \in 1..Len(Program(run[j].program))
      /\ i = Program(run[j].program)[run[j].at]
  BY InstructionIsSound DEF UpdaterInv, LaunchInv, Instruction
<1>2. i.op = "call" => IF i.call = "restore"
                       THEN CallName(j) \in {"rollbackApplication", "rollbackDatabase"}
                       ELSE CallName(j) = i.call
  BY DEF CallName
<1> HIDE DEF i
<1>3. CASE run[j].program = "update"
  <2>1. i = UpdateProgram[run[j].at] /\ run[j].at \in 1..19
    BY <1>1, <1>3, UpdateInstructions DEF Program
  <2>2. \/ run[j].at = 1 \/ run[j].at = 2 \/ run[j].at = 3 \/ run[j].at = 4 \/ run[j].at = 5
        \/ run[j].at = 6 \/ run[j].at = 7 \/ run[j].at = 8 \/ run[j].at = 9 \/ run[j].at = 10
        \/ run[j].at = 11 \/ run[j].at = 12 \/ run[j].at = 13 \/ run[j].at = 14
        \/ run[j].at = 15 \/ run[j].at = 16 \/ run[j].at = 17 \/ run[j].at = 18
        \/ run[j].at = 19
    BY <2>1
  <2>3. CASE run[j].at \in {2, 4, 6, 10, 12, 14, 16, 17}
    BY <1>2, <1>3, <2>1, <2>3, UpdateSteps DEF i, CallOf, Between, Call
  <2>4. CASE run[j].at \notin {2, 4, 6, 10, 12, 14, 16, 17}
    BY <1>3, <2>1, <2>2, <2>4, UpdateSteps
    DEF i, WriteOf, Marking, Between, Call, Phase, Write, MarkReopened, ListPoint, NamePoint,
        RetainPoints
  <2> QED
    BY <2>3, <2>4
<1>4. CASE run[j].program = "rollback"
  <2>1. i = RollbackProgram[run[j].at] /\ run[j].at \in 1..5
    BY <1>1, <1>4 DEF Program, RollbackProgram
  <2> QED
    BY <1>2, <1>4, <2>1
    DEF RollbackProgram, i, CallOf, WriteOf, Marking, Between, Call, Phase, Write, MarkReopened
<1>5. CASE run[j].program = "resume"
  <2>1. i = ResumeProgram[run[j].at] /\ run[j].at \in 1..3
    BY <1>1, <1>5 DEF Program, ResumeProgram
  <2>2. run[j].at = 1 \/ run[j].at = 2 \/ run[j].at = 3
    BY <2>1
  <2>3. /\ ResumeProgram[1] = MarkReopened
        /\ ResumeProgram[2] = Call("resumeCurrent")
        /\ ResumeProgram[3] = Phase("failed")
    BY DEF ResumeProgram
  <2> QED
    BY <1>2, <1>5, <2>1, <2>2, <2>3
    DEF i, CallOf, WriteOf, Marking, Between, Call, Phase, Write, MarkReopened
<1>6. CASE run[j].program = "restore"
  <2>1. i = RestoreProgram[run[j].at] /\ run[j].at \in 1..4
    BY <1>1, <1>6 DEF Program, RestoreProgram
  <2>2. run[j].at = 1 \/ run[j].at = 2 \/ run[j].at = 3 \/ run[j].at = 4
    BY <2>1
  <2>3. /\ RestoreProgram[1] = Phase("rolling-back")
        /\ RestoreProgram[2] = MarkReopened
        /\ RestoreProgram[3] = Call("restore")
        /\ RestoreProgram[4] = Phase("rolled-back")
    BY DEF RestoreProgram
  <2> QED
    BY <1>2, <1>6, <2>1, <2>2, <2>3
    DEF i, CallOf, WriteOf, Marking, Between, Call, Phase, Write, MarkReopened
<1>7. CASE run[j].program \in {"attention", "fail"}
  <2>1. i \in {Phase("needs-attention"), Phase("failed")}
    BY <1>1, <1>7 DEF Program
  <2> QED
    BY <1>7, <2>1 DEF i, WriteOf, Marking, Between, Call, Phase, Write
<1> QED
  BY <1>1, <1>3, <1>4, <1>5, <1>6, <1>7 DEF ProgramNames

LEMMA Advances ==
    ASSUME UpdaterInv, NEW j \in Jobs, Busy(j), Advance(j)
    PROVE  /\ \A k \in Jobs \ {j} : run'[k] = run[k]
           /\ \/ run'[j] = Idle
              \/ /\ run'[j].program = run[j].program
                 /\ run'[j].at = run[j].at + 1
                 /\ \/ run'[j].saved = run[j].saved
                    \/ Instruction(j) = Call("createRecoveryPoint")
<1> DEFINE n == Len(Program(run[j].program))
           called == Instruction(j) = Call("createRecoveryPoint")
           next == [program |-> run[j].program, at |-> run[j].at + 1,
                    saved |-> run[j].saved \/ called]
<1>1. run' = [run EXCEPT ![j] = IF run[j].at = n THEN Idle ELSE next]
  BY Zenon DEF Advance
<1>2. run \in [Jobs -> Thread] /\ run[j].saved \in BOOLEAN
  BY DEF UpdaterInv, Typed, Thread
<1>3. run'[j] = (IF run[j].at = n THEN Idle ELSE next)
      /\ \A k \in Jobs \ {j} : run'[k] = run[k]
  BY <1>1, <1>2, Zenon
<1>4. called \/ next.saved = run[j].saved
  <2>1. CASE ~called
    <3>1. (run[j].saved \/ called) = run[j].saved
      BY <1>2, <2>1, Zenon
    <3> QED
      BY <3>1, Zenon
  <2> QED
    BY <2>1
<1>5. next.program = run[j].program /\ next.at = run[j].at + 1
  BY Zenon
<1> HIDE DEF next, n
<1> QED
  BY <1>3, <1>4, <1>5

LEMMA Throws ==
    ASSUME UpdaterInv, NEW j \in Jobs, Busy(j), Throw(j)
    PROVE  /\ \A k \in Jobs \ {j} : run'[k] = run[k] \/ run'[k] = Idle
           /\ \/ run'[j].program \in Farewells \cup {"none"}
              \/ /\ run'[j].program = "resume" /\ run'[j].at = 1
                 /\ run[j].program = "update" /\ run[j].at > 3
              \/ /\ run'[j].program = "restore" /\ run'[j].at = 1
                 /\ run[j].program = "update" /\ run[j].saved /\ ~ledger'[j].reopened
<1> DEFINE handler == Handler(j, ledger'[j])
<1>1. CASE handler = "none"
  BY <1>1 DEF Throw, ProcessEnds, Idle
<1>2. CASE handler # "none"
  <2>1. run' = [run EXCEPT ![j] = Start(handler, run[j].saved)]
    BY <1>2 DEF Throw
  <2>2. run \in [Jobs -> Thread] /\ run[j] \in Thread
    BY DEF UpdaterInv, Typed
  <2>3. handler \in {"resume", "restore", "attention", "fail"}
    BY <1>2 DEF Handler
  <2>4. handler = "restore" =>
           run[j].program = "update" /\ run[j].saved /\ ~ledger'[j].reopened
    BY DEF Handler
  <2>5. handler = "resume" => run[j].program = "update" /\ Passed(j, Phase("maintenance"))
    BY DEF Handler
  <2>6. ASSUME run[j].program = "update", Passed(j, Phase("maintenance"))
        PROVE  run[j].at > 3
    <3>1. PICK p \in 1..(run[j].at - 1) : UpdateProgram[p] = Phase("maintenance")
      BY <2>6 DEF Passed, Program
    <3>2. p # 1 /\ p # 2
      BY <3>1, UpdateSteps DEF Phase, Write, Call
    <3> QED
      BY <2>2, <3>1, <3>2 DEF Thread
  <2> HIDE DEF handler
  <2>7. run'[j] = Start(handler, run[j].saved) /\ \A k \in Jobs \ {j} : run'[k] = run[k]
    BY <2>1, <2>2
  <2> QED
    BY <2>3, <2>4, <2>5, <2>6, <2>7 DEF Start, Farewells
<1> QED
  BY <1>1, <1>2

-----------------------------------------------------------------------------
(* Steps that leave the installation alone.                                *)

LEMMA DataInitially == Init => DataInv
<1> SUFFICES ASSUME Init PROVE DataInv
  OBVIOUS
<1>1. \A j \in Jobs : run[j] = Idle /\ host.recovery[j] = NoPoint
  BY DEF Init, HostInit
<1>2. host.whole /\ host.data = 0 /\ written = 0 /\ points = <<>>
  BY DEF Init, HostInit
<1>3. ASSUME NEW j \in Jobs PROVE ThreadInv(j) /\ PointInv(j) /\ StageInv(j)
  BY <1>1 DEF ThreadInv, PointInv, StageInv, NeedsWhole, Between, Idle
<1>4. PointsInv
  BY <1>2 DEF PointsInv, RetainedPointsExist
<1> QED
  BY <1>2, <1>3, <1>4 DEF DataInv, OpenDatabaseIsWhole

\* A job whose entry changes without losing what was recorded, and whose thread
\* stays, ends, or is launched for a request that was not started.
Continues(k) ==
    /\ \/ /\ ledger'[k].kind = ledger[k].kind
          /\ ledger[k].reopened => ledger'[k].reopened
          /\ Active(k)' => Active(k)
       \/ ledger[k].kind = "none"
    /\ ledger[k].started => ledger'[k].started
    /\ \/ run'[k] = run[k] \/ run'[k] = Idle
       \/ /\ ~ledger[k].started /\ ledger'[k].kind = ledger[k].kind
          /\ run'[k].program = ledger[k].kind
          /\ run'[k].at = 1 /\ ~run'[k].saved

LEMMA LedgerSteps ==
    ASSUME UpdaterInv, DataInv, UNCHANGED <<host, points, written>>,
           \A k \in Jobs : Continues(k)
    PROVE  DataInv'
<1>0. ASSUME NEW k \in Jobs
      PROVE  /\ ThreadInv(k) /\ PointInv(k) /\ StageInv(k) /\ Continues(k)
             /\ RequestInv(k) /\ LaunchInv(k)
             /\ ledger[k].kind = "none" => run[k] = Idle \/ run[k].program = "none"
             /\ ledger[k].kind \in {"none", "update", "rollback"}
  BY DEF DataInv, UpdaterInv, LaunchInv, Busy, Typed, UpdaterTypeOK, JobEntry
<1>1. ASSUME NEW k \in Jobs PROVE ThreadInv(k)'
  BY <1>0 DEF ThreadInv, Continues, Between, Idle
<1>2. ASSUME NEW k \in Jobs PROVE PointInv(k)'
  BY <1>0 DEF PointInv, Continues, Recorded, Intact, RequestInv
<1>3. ASSUME NEW k \in Jobs PROVE StageInv(k)'
  BY <1>0 DEF StageInv, Continues, NeedsWhole, Between, Idle, Intact
<1>4. PointsInv'
  <2>1. ASSUME NEW p \in 1..Len(points)
        PROVE  ledger'[points[p]].started /\ ~Between(run'[points[p]], "update", 1, 7)
    <3>1. points[p] \in Jobs
      BY DEF UpdaterInv, Typed, UpdaterTypeOK
    <3>2. ledger[points[p]].started /\ ~Between(run[points[p]], "update", 1, 7)
      BY DEF DataInv, PointsInv
    <3> QED
      BY <1>0, <3>1, <3>2 DEF Continues, Between, Idle
  <2> QED
    BY <2>1 DEF DataInv, PointsInv, RetainedPointsExist
<1> QED
  BY <1>1, <1>2, <1>3, <1>4 DEF DataInv, OpenDatabaseIsWhole

LEMMA SettleContinues ==
    ASSUME UpdaterInv, NEW j \in Jobs, NEW phase, run' = run,
           ledger' = ledger \/ ledger' = FinishPending(j, phase)
    PROVE  \A k \in Jobs : Continues(k)
<1>1. CASE ledger' = ledger
  BY <1>1 DEF Continues, Active
<1>2. CASE ledger' # ledger
  <2>1. IsPending(j) /\ ledger' = [ledger EXCEPT ![j].phase = phase]
    BY <1>2 DEF FinishPending, EndAs
  <2>2. Active(j)
    BY <2>1 DEF IsPending, Active, ActivePhases
  <2>3. ledger \in [Jobs -> JobEntry] /\ ledger[j] \in JobEntry
    BY DEF UpdaterInv, Typed, UpdaterTypeOK
  <2>4. /\ \A k \in Jobs \ {j} : ledger'[k] = ledger[k]
        /\ ledger'[j].kind = ledger[j].kind /\ ledger'[j].started = ledger[j].started
        /\ ledger'[j].reopened = ledger[j].reopened
    BY <2>1, <2>3 DEF JobEntry
  <2> QED
    BY <2>2, <2>4 DEF Continues, Active
<1> QED
  BY <1>1, <1>2

LEMMA LaunchContinues ==
    ASSUME UpdaterInv, TickLaunches
    PROVE  \A k \in Jobs : Continues(k)
<1>0. PICK j \in Jobs : j = tick.job
  BY DEF UpdaterInv, TickInv, TickLaunches
<1> DEFINE claimed == [ledger EXCEPT ![j].phase = "preflight", ![j].started = TRUE]
           launched == [run EXCEPT ![j] = Start(ledger[j].kind, FALSE)]
<1>1. Active(j) /\ ~ledger[j].started
  BY <1>0 DEF UpdaterInv, TickInv, TickLaunches, IsPending, Active, ActivePhases
<1>2. ledger' \in {ledger, claimed} /\ run' \in {run, launched}
  BY <1>0 DEF TickLaunches, Stored, Launch
<1>3. ledger \in [Jobs -> JobEntry] /\ run \in [Jobs -> Thread] /\ ledger[j] \in JobEntry
  BY DEF UpdaterInv, Typed, UpdaterTypeOK
<1>4. /\ claimed[j].kind = ledger[j].kind /\ claimed[j].reopened = ledger[j].reopened
      /\ \A k \in Jobs \ {j} : claimed[k] = ledger[k]
  BY <1>3 DEF JobEntry
<1>5. /\ launched[j].program = ledger[j].kind /\ launched[j].at = 1
      /\ launched[j].saved = FALSE
      /\ \A k \in Jobs \ {j} : launched[k] = run[k]
  BY <1>3 DEF Start
<1> HIDE DEF claimed, launched
<1> QED
  BY <1>1, <1>2, <1>4, <1>5 DEF Continues, Active

LEMMA AdmitContinues ==
    ASSUME UpdaterInv, NEW j \in Jobs, Admit(j)
    PROVE  \A k \in Jobs : Continues(k)
<1>1. run' = run /\ ledger[j].kind = "none" /\ ~ledger[j].started
  BY DEF Admit, UpdaterInv, RequestInv, LaunchInv
<1>2. \A k \in Jobs \ {j} : ledger'[k] = ledger[k]
  BY DEF Admit, UpdaterInv, Typed, UpdaterTypeOK
<1> QED
  BY <1>1, <1>2 DEF Continues, Active

LEMMA RestartContinues ==
    ASSUME UpdaterInv, Restart
    PROVE  \A k \in Jobs : Continues(k)
<1>1. run' = run /\ \A k \in Jobs : ledger'[k] = Reconciled(k)
  BY DEF Restart
<1> SUFFICES ASSUME NEW k \in Jobs PROVE Continues(k)
  OBVIOUS
<1>2. ledger[k] \in JobEntry
  BY DEF UpdaterInv, Typed, UpdaterTypeOK
<1>3. CASE ~Active(k)
  BY <1>1, <1>3 DEF Continues, Reconciled, Active
<1>4. CASE Active(k) /\ Survives(k)
  <2>1. ledger'[k] = [ledger[k] EXCEPT !.phase = SurvivingPhase(k)]
    BY <1>1, <1>4 DEF Reconciled
  <2> QED
    BY <1>1, <1>2, <1>4, <2>1 DEF Continues, JobEntry
<1>5. CASE Active(k) /\ ~Survives(k)
  <2> DEFINE marked == ledger[k].reopened \/ MayHaveMutated(ledger[k].phase)
  <2>1. ledger'[k] = [ledger[k] EXCEPT !.phase = "needs-attention", !.reopened = marked]
    BY <1>1, <1>5 DEF Reconciled
  <2>2. ledger[k].reopened => marked = TRUE
    BY Zenon
  <2> HIDE DEF marked
  <2>3. /\ ledger'[k].kind = ledger[k].kind /\ ledger'[k].started = ledger[k].started
        /\ ledger'[k].reopened = marked
    BY <1>2, <2>1 DEF JobEntry
  <2> QED
    BY <1>1, <1>5, <2>2, <2>3 DEF Continues
<1> QED
  BY <1>3, <1>4, <1>5

-----------------------------------------------------------------------------
(* The instructions of operations.                                         *)

\* What an instruction of j does to the ledger and to the threads.
Works(j) ==
    LET i == Instruction(j)
    IN  /\ Busy(j)
        /\ \/ i.op # "call" /\ ledger' = WrittenLedger(j, i) /\ Advance(j)
           \/ i.op # "call" /\ ledger' \in {ledger, WrittenLedger(j, i)} /\ Throw(j)
           \/ i.op = "call" /\ ledger' = ledger /\ (Advance(j) \/ Throw(j))

LEMMA WorkingSteps ==
    ASSUME NEW j \in Jobs, RunWrite(j) \/ RunCall(j)
    PROVE  Works(j)
BY DEF RunWrite, RunCall, Works, Stored

\* The entries after a write: nothing that was recorded is lost, and no job
\* that has ended goes on.
LEMMA Entries ==
    ASSUME UpdaterInv, ExclusionInv, NEW j \in Jobs, Works(j)
    PROVE  /\ \A k \in Jobs : /\ ledger'[k].kind = ledger[k].kind
                              /\ ledger'[k].started = ledger[k].started
                              /\ ledger[k].reopened => ledger'[k].reopened
                              /\ Active(k)' => Active(k)
           /\ /\ Marking(run[j]) /\ Instruction(j).op # "call"
              /\ ledger' = WrittenLedger(j, Instruction(j))
              => ledger'[j].reopened
<1> DEFINE i == Instruction(j)
           marked == ledger[j].reopened \/ i.reopened
           phase == IF i.phase = "same" THEN ledger[j].phase ELSE i.phase
<1>1. /\ Busy(j)
      /\ ledger \in [Jobs -> JobEntry] /\ ledger[j] \in JobEntry
      /\ ledger' = ledger \/ (ledger' = WrittenLedger(j, i) /\ i.op # "call")
  BY DEF Works, UpdaterInv, Typed, UpdaterTypeOK
<1>2. \A k \in Jobs : SameJob(k)
  BY <1>1, WrittenLedgerIsSound
<1>3. \A k \in Jobs \ {j} : ledger'[k] = ledger[k]
  BY <1>1 DEF WrittenLedger
<1>4. ledger[j].reopened => marked = TRUE
  BY Zenon
<1>5. i = MarkReopened => marked = TRUE
  <2>1. MarkReopened.reopened = TRUE
    BY DEF MarkReopened, Write
  <2> QED
    BY <2>1, Zenon
<1> HIDE DEF marked, phase
<1>6. ASSUME ledger' # ledger, i.op = "write"
      PROVE  ledger'[j].reopened = marked /\ ledger'[j].phase = phase
  <2>1. ledger' = [ledger EXCEPT ![j].phase = phase, ![j].reopened = marked]
    BY <1>1, <1>6 DEF WrittenLedger, marked, phase
  <2> QED
    BY <1>1, <2>1 DEF JobEntry
<1>7. ASSUME ledger' = WrittenLedger(j, i), i.op = "write"
      PROVE  ledger'[j].reopened = marked
  <2>1. ledger' = [ledger EXCEPT ![j].phase = phase, ![j].reopened = marked]
    BY <1>7 DEF WrittenLedger, marked, phase
  <2> QED
    BY <1>1, <2>1 DEF JobEntry
<1>8. ASSUME i.op # "write"
      PROVE  ledger'[j].reopened = ledger[j].reopened /\ ledger'[j].phase = ledger[j].phase
  BY <1>1, <1>8 DEF WrittenLedger, JobEntry
<1>9. ledger[j].reopened => ledger'[j].reopened
  BY <1>4, <1>6, <1>8
<1>10. Active(j)' => Active(j)
  <2>1. SUFFICES ASSUME ~Active(j) PROVE ~Active(j)'
    OBVIOUS
  <2>2. run[j].program \in Farewells
    BY <1>1, <2>1 DEF ExclusionInv, Working, Busy
  <2>3. run[j].at \in 1..1
    BY <1>1, <2>2 DEF UpdaterInv, LaunchInv, Farewells, Program
  <2>4. i \in {Phase("needs-attention"), Phase("failed")}
    BY <2>2, <2>3 DEF Instruction, Program, Farewells
  <2>5. i.op = "write" /\ i.phase \in {"needs-attention", "failed"}
    BY <2>4 DEF Phase, Write
  <2>6. ledger'[j].phase \in {ledger[j].phase, "needs-attention", "failed"}
    BY <1>6, <2>5 DEF phase
  <2> QED
    BY <2>1, <2>6 DEF Active, ActivePhases, Pending, Running
<1>11. ASSUME Marking(run[j]), i.op # "call", ledger' = WrittenLedger(j, i)
       PROVE  ledger'[j].reopened
  <2>1. i = MarkReopened
    BY <1>1, <1>11, Places DEF WriteOf
  <2>2. i.op = "write"
    BY <2>1 DEF MarkReopened, Write
  <2> QED
    BY <1>5, <1>7, <1>11, <2>1, <2>2
<1>12. ASSUME NEW k \in Jobs
       PROVE  /\ ledger'[k].kind = ledger[k].kind
              /\ ledger'[k].started = ledger[k].started
              /\ ledger[k].reopened => ledger'[k].reopened
              /\ Active(k)' => Active(k)
  BY <1>2, <1>3, <1>9, <1>10 DEF SameJob, Active
<1> QED
  BY <1>11, <1>12

\* The threads after an instruction.
LEMMA WorkThreads ==
    ASSUME UpdaterInv, ExclusionInv, DataInv, NEW j \in Jobs, Works(j), NEW k \in Jobs
    PROVE  ThreadInv(k)'
<1> DEFINE i == Instruction(j)
<1>1. /\ ThreadInv(k) /\ ledger'[k].kind = ledger[k].kind
      /\ ledger[k].reopened => ledger'[k].reopened
  <2>1. ThreadInv(k)
    BY DEF DataInv
  <2>2. /\ ledger'[k].kind = ledger[k].kind
        /\ ledger[k].reopened => ledger'[k].reopened
    BY Entries
  <2> QED
    BY <2>1, <2>2
<1>2. Busy(j) /\ run[j] \in Thread
  BY DEF Works, UpdaterInv, Typed
<1>3. CASE run'[k] = run[k] \/ run'[k].program \in Farewells \cup {"none"}
  <2>1. CASE run'[k] = run[k]
    BY <1>1, <2>1 DEF ThreadInv, Between
  <2>2. CASE run'[k].program \in Farewells \cup {"none"}
    BY <2>2 DEF ThreadInv, Between, Farewells
  <2> QED
    BY <1>3, <2>1, <2>2
<1>4. CASE Throw(j)
  <2>1. CASE k # j
    BY <1>2, <1>3, <1>4, <2>1, Throws DEF Idle
  <2>2. CASE k = j
    <3>1. \/ run'[j].program \in Farewells \cup {"none"}
          \/ /\ run'[j].program \in {"resume", "restore"} /\ run'[j].at = 1
             /\ run[j].program = "update"
      BY <1>2, <1>4, Throws
    <3> QED
      BY <1>1, <1>3, <2>2, <3>1 DEF ThreadInv, Between
  <2> QED
    BY <2>1, <2>2
<1>5. CASE Advance(j) /\ k # j
  BY <1>2, <1>3, <1>5, Advances
<1>6. CASE Advance(j) /\ k = j /\ ~Throw(j)
  <2>1. \/ run'[j] = Idle
        \/ /\ run'[j].program = run[j].program /\ run'[j].at = run[j].at + 1
           /\ run'[j].saved = run[j].saved \/ i = Call("createRecoveryPoint")
    BY <1>2, <1>6, Advances
  <2>2. i = Call("createRecoveryPoint") => Between(run[j], "update", 6, 6)
    <3>1. Call("createRecoveryPoint").op = "call"
          /\ Call("createRecoveryPoint").call = "createRecoveryPoint"
      BY DEF Call
    <3> QED
      BY <1>2, <3>1, Places DEF CallName, CallOf
  <2>3. Marking(run[j]) => ledger'[j].reopened
    <3>1. Marking(run[j]) => i.op # "call"
      BY <1>2, Places DEF Marking, CallOf, Between, Thread
    <3> QED
      BY <1>6, <3>1, Entries DEF Works
  <2> HIDE DEF i
  <2>4. CASE run'[j] = Idle
    BY <1>3, <1>6, <2>4 DEF Idle
  <2>5. ASSUME run'[j].program = run[j].program, run'[j].at = run[j].at + 1
        PROVE  \/ Between(run'[j], "update", 16, 19)
               \/ Between(run'[j], "resume", 2, 3)
               \/ Between(run'[j], "restore", 3, 4)
               => ledger'[j].reopened
    BY <1>1, <1>2, <1>6, <2>3, <2>5 DEF ThreadInv, Between, Marking, Thread
  <2>6. ASSUME run'[j].program = run[j].program, run'[j].at = run[j].at + 1,
               run'[j].saved = run[j].saved \/ i = Call("createRecoveryPoint")
        PROVE  run'[j].program = "update" /\ run'[j].saved => run'[j].at > 6
    <3>1. run[j].program = "update" /\ run[j].saved => run[j].at > 6
      BY <1>1, <1>6 DEF ThreadInv
    <3>2. run[j].at \in Nat
      BY <1>2 DEF Thread
    <3>3. CASE i = Call("createRecoveryPoint")
      BY <2>2, <2>6, <3>2, <3>3 DEF Between
    <3>4. CASE run'[j].saved = run[j].saved
      BY <2>6, <3>1, <3>2, <3>4
    <3> QED
      BY <2>6, <3>3, <3>4
  <2>7. /\ run'[j].program = run[j].program /\ run[j].program \in {"update", "resume", "restore"}
               => ledger'[j].kind = "update"
        /\ run'[j].program = run[j].program /\ run[j].program = "rollback"
               => ledger'[j].kind = "rollback"
    BY <1>1, <1>6 DEF ThreadInv
  <2> QED
    BY <1>6, <2>1, <2>4, <2>5, <2>6, <2>7 DEF ThreadInv
<1> QED
  BY <1>4, <1>5, <1>6 DEF Works

-----------------------------------------------------------------------------
(* The calls of operations.                                                *)

\* Whoever calls is active and the only one that works; where it stands.
LEMMA Caller ==
    ASSUME UpdaterInv, ExclusionInv, NEW j \in Jobs, Calling(j)
    PROVE  /\ CallOf(run[j], CallName(j)) /\ run[j] \in Thread
           /\ CallName(j) \in Calls /\ Given(j) \in Arguments /\ host \in Host
           /\ Given(j).job = j /\ Given(j).excess = Excess
           /\ Active(j)
           /\ \A k \in Jobs \ {j} : ~Active(k) /\ ~Working(run[k])
           /\ ledger[j].kind # "none" /\ decided[j] = "approved"
<1>1. Busy(j) /\ Instruction(j).op = "call"
  BY DEF Calling
<1>2. CallOf(run[j], CallName(j)) /\ run[j] \in Thread
  BY <1>1, Places DEF UpdaterInv, Typed
<1>3. Working(run[j])
  BY <1>2 DEF CallOf, Between, Working, Farewells
<1>4. Active(j)
  BY <1>3 DEF ExclusionInv
<1>5. \A k \in Jobs \ {j} : ~Active(k) /\ ~Working(run[k])
  BY <1>4 DEF ExclusionInv, NoActiveJobBut
<1>6. CallName(j) \in Calls /\ Given(j) \in Arguments /\ host \in Host
  BY <1>1, CallType
<1>7. ledger[j].kind # "none" /\ decided[j] = "approved"
  BY <1>1 DEF UpdaterInv, LaunchInv
<1> QED
  BY <1>2, <1>4, <1>5, <1>6, <1>7 DEF Given

\* What any call, finished or not, keeps.
LEMMA CallKeeps ==
    ASSUME UpdaterInv, ExclusionInv, DataInv, NEW j \in Jobs, Calling(j),
           host' \in Range(Trace(CallName(j), Given(j), host)),
           ledger' = ledger, points' = points, written' = written
    PROVE  /\ OpenDatabaseIsWhole'
           /\ host'.data <= written'
           /\ \A k \in Jobs : PointInv(k)'
           /\ RetainedPointsExist'
<1> DEFINE call == CallName(j)
           c == Given(j)
<1>1. /\ CallOf(run[j], call) /\ run[j] \in Thread
      /\ call \in Calls /\ c \in Arguments /\ host \in Host
      /\ c.job = j /\ c.excess = Excess
      /\ \A k \in Jobs \ {j} : ~Active(k)
      /\ ledger[j].kind # "none"
  BY Caller
<1>2. CallEffect(call, c, host, host')
  BY <1>1, CallEffects
<1>3. /\ ThreadInv(j) /\ StageInv(j) /\ \A k \in Jobs : PointInv(k)
      /\ OpenDatabaseIsWhole /\ host.data <= written /\ PointsInv
  BY DEF DataInv
<1>4. c.point \in Jobs
  BY <1>1 DEF Arguments
<1> HIDE DEF call, c
<1>5. OpenDatabaseIsWhole'
  <2>1. call \in Opening => NeedsWhole(run[j])
    BY <1>1 DEF CallOf, Opening, NeedsWhole, Between, Thread
  <2> QED
    BY <1>2, <1>3, <2>1 DEF CallEffect, OpenDatabaseIsWhole, StageInv
<1>6. host'.data <= written'
  BY <1>2, <1>3, <1>4 DEF CallEffect, PointOf, PointInv
<1>7. ASSUME NEW k \in Jobs, Recorded(k)'
      PROVE  host'.recovery[k] = NoPoint \/ Intact(k)'
  <2>1. Recorded(k) /\ k = j
    BY <1>1, <1>7 DEF Recorded, Active
  <2>2. Between(run[j], "update", 2, 14)
    BY <1>1, <1>3, <2>1 DEF CallOf, ThreadInv, Between, Recorded, Thread
  <2>3. call \in {"stage", "enterMaintenance", "createRecoveryPoint", "migrate",
                  "startCandidate", "verifyCandidate"}
    BY <1>1, <2>2 DEF CallOf, Between, Thread
  <2>4. host'.data = host.data /\ (host'.mode = "open" => host.mode = "open")
    BY <1>2, <2>3 DEF CallEffect, Opening
  <2>5. CASE host'.recovery[j] = host.recovery[j]
    BY <1>3, <2>1, <2>4, <2>5 DEF PointInv, Intact
  <2>6. CASE host'.recovery[j] # host.recovery[j]
    <3>1. call = "createRecoveryPoint"
      BY <1>2, <2>3, <2>6 DEF CallEffect
    <3>2. host.mode # "open"
      BY <1>1, <1>3, <3>1 DEF CallOf, StageInv, Between, Thread
    <3> QED
      BY <1>2, <2>1, <2>4, <2>6, <3>1, <3>2 DEF CallEffect, Intact
  <2> QED
    BY <2>1, <2>5, <2>6
<1>8. ASSUME NEW k \in Jobs, host'.recovery[k] # NoPoint
      PROVE  ledger'[k].kind # "none" /\ host'.recovery[k].data <= written'
  <2>1. CASE host'.recovery[k] = host.recovery[k]
    BY <1>3, <1>8, <2>1 DEF PointInv
  <2>2. CASE host'.recovery[k] # host.recovery[k]
    BY <1>1, <1>2, <1>3, <1>8, <2>2 DEF CallEffect
  <2> QED
    BY <2>1, <2>2
<1>9. ASSUME NEW p \in 1..Len(points), p <= Retention
      PROVE  host'.recovery[points[p]] # NoPoint
  <2>1. points \in Seq(Jobs) /\ points[p] \in Jobs
    BY DEF UpdaterInv, Typed, UpdaterTypeOK
  <2>2. host.recovery[points[p]] # NoPoint
    BY <1>3, <1>9 DEF PointsInv, RetainedPointsExist
  <2>3. points[p] \notin Range(Excess)
    <3>0. Excess \in Seq(Jobs)
      BY <1>1 DEF Arguments
    <3>1. SUFFICES ASSUME NEW q \in 1..Len(Excess), Excess[q] = points[p] PROVE FALSE
      BY <3>0 DEF Range
    <3>2. Retention \in Nat /\ Len(points) \in Nat
      BY <2>1, RetentionAssumption
    <3>3. Retention + q \in 1..Len(points) /\ Excess[q] = points[Retention + q]
      <4>1. \A i \in Retention + 1 .. Len(points) : points[i] \in Jobs
        BY <2>1, <3>2
      <4> DEFINE m == Retention + 1
                 n == Len(points)
      <4>2. m \in Int /\ n \in Int
        BY <3>2
      <4>3. /\ Len(Excess) = IF m <= n THEN n - m + 1 ELSE 0
            /\ \A i \in 1 .. n - m + 1 : Excess[i] = points[m + i - 1]
        BY <4>1, <4>2, SubSeqProperties DEF Excess
      <4> HIDE DEF n
      <4>4. m <= n /\ q \in 1 .. n - m + 1
        BY <3>2, <4>2, <4>3
      <4>5. m + q - 1 = Retention + q /\ Retention + q \in 1..n
        BY <3>2, <4>2, <4>4
      <4> QED
        BY <4>3, <4>4, <4>5 DEF n
    <3>4. Retention + q = p
      BY <1>3, <3>1, <3>3 DEF PointsInv
    <3> QED
      BY <1>9, <3>2, <3>4
  <2> QED
    BY <1>1, <1>2, <2>1, <2>2, <2>3 DEF CallEffect
<1>10. RetainedPointsExist'
  BY <1>9 DEF RetainedPointsExist
<1> QED
  BY <1>5, <1>6, <1>7, <1>8, <1>10 DEF PointInv

LEMMA CallReaches ==
    ASSUME NEW call \in Calls, NEW c \in Arguments, NEW h \in Host, NEW x,
           \/ x = Last(Trace(call, c, h))
           \/ x \in Thrown(call, c, h)
           \/ x \in CutOff(call, c, h)
    PROVE  x \in Range(Trace(call, c, h))
<1>1. Trace(call, c, h) \in Seq(Host) /\ Trace(call, c, h) # <<>>
  BY TraceType
<1> DEFINE trace == Trace(call, c, h)
<1>2. h \in Range(trace) \/ call # "createRecoveryPoint"
  BY TwoSteps DEF Trace, SnapshotTrace
<1> HIDE DEF trace
<1>3. trace \in Seq(Host) /\ trace # <<>>
  BY <1>1 DEF trace
<1>4. Last(trace) \in Range(trace)
  BY <1>3 DEF Last, Range
<1> QED
  BY <1>2, <1>4 DEF trace, Thrown, CutOff

\* Where the operation then stands: after a call it was given back from, or
\* with the handler of its failure.
LEMMA CallStages ==
    ASSUME UpdaterInv, ExclusionInv, DataInv, NEW j \in Jobs, RunCall(j), NEW k \in Jobs,
           \A i \in Jobs : PointInv(i)'
    PROVE  StageInv(k)'
<1> DEFINE call == CallName(j)
           c == Given(j)
<1>1. /\ CallOf(run[j], call) /\ run[j] \in Thread
      /\ call \in Calls /\ c \in Arguments /\ host \in Host
      /\ c.job = j
      /\ Active(j) /\ Calling(j) /\ Busy(j)
      /\ \A i \in Jobs \ {j} : ~Working(run[i])
  BY Caller DEF RunCall, Calling
<1>2. /\ ledger' = ledger
      /\ \/ /\ CanSucceed(call, c, host) /\ host' = Last(Trace(call, c, host)) /\ Advance(j)
         \/ host' \in Thrown(call, c, host) /\ Throw(j)
  BY DEF RunCall
<1>3. Trace(call, c, host) \in Seq(Host) /\ Trace(call, c, host) # <<>>
  BY <1>1, TraceType
<1>4. host' \in Range(Trace(call, c, host))
  BY <1>1, <1>2, CallReaches
<1>5. CallEffect(call, c, host, host')
  BY <1>1, <1>4, CallEffects
<1>6. ThreadInv(j) /\ StageInv(j)
  BY DEF DataInv
<1>7. CASE k # j
  <2>1. run'[k] = run[k] \/ run'[k] = Idle
    BY <1>1, <1>2, <1>7, Advances, Throws
  <2>2. ~Working(run'[k])
    BY <1>1, <1>7, <2>1 DEF Working, Idle
  <2> QED
    BY <2>2 DEF StageInv, NeedsWhole, Between, Working, Farewells
<1>8. CASE k = j /\ Throw(j) /\ host' \in Thrown(call, c, host)
  <2>1. \/ run'[j].program \in Farewells \cup {"none"}
        \/ /\ run'[j].program = "resume" /\ run'[j].at = 1
           /\ run[j].program = "update" /\ run[j].at > 3
        \/ /\ run'[j].program = "restore" /\ run'[j].at = 1
           /\ run[j].program = "update" /\ run[j].saved /\ ~ledger'[j].reopened
    BY <1>1, <1>8, Throws
  <2>2. CASE run'[j].program \in Farewells \cup {"none"}
    BY <1>8, <2>2 DEF StageInv, NeedsWhole, Between, Farewells
  <2>3. CASE run[j].program = "update" /\ run[j].at > 3
    <3>1. host'.whole
      <4>1. host.whole
        BY <1>1, <1>6, <2>3 DEF StageInv, NeedsWhole, CallOf, Between, Thread
      <4>2. call # "rollbackDatabase"
        BY <1>1, <2>3 DEF CallOf, Between
      <4> QED
        BY <1>5, <4>1, <4>2 DEF CallEffect
    <3>2. run'[j].program = "restore" => host'.recovery[j] = NoPoint \/ Intact(j)'
      <4>1. ASSUME run'[j].program = "restore" PROVE Recorded(j)'
        BY <1>1, <1>2, <1>6, <2>1, <2>3, <4>1 DEF Recorded, ThreadInv, Active, Farewells
      <4> QED
        BY <4>1 DEF PointInv
    <3> QED
      BY <1>8, <2>1, <3>1, <3>2 DEF StageInv, Between, Farewells
  <2>4. run[j].program = "update" /\ run[j].saved => run[j].at > 3
    BY <1>1, <1>6 DEF ThreadInv, Thread
  <2> QED
    BY <2>1, <2>2, <2>3, <2>4
<1>9. CASE /\ k = j /\ Advance(j)
           /\ CanSucceed(call, c, host) /\ host' = Last(Trace(call, c, host))
  <2>1. \/ run'[j] = Idle
        \/ run'[j].program = run[j].program /\ run'[j].at = run[j].at + 1
    BY <1>1, <1>9, Advances
  <2>2. CASE run'[j] = Idle
    BY <1>9, <2>2 DEF StageInv, NeedsWhole, Between, Idle
  <2>3. CASE run'[j].program = run[j].program /\ run'[j].at = run[j].at + 1
    <3>1. run[j].at \in Nat
      BY <1>1 DEF Thread
    <3>2. NeedsWhole(run'[j]) => host'.whole
      <4>1. SUFFICES ASSUME NeedsWhole(run'[j]) PROVE host'.whole
        OBVIOUS
      <4>2. Between(run[j], "update", 2, 17) \/ Between(run[j], "resume", 2, 2)
        BY <1>1, <2>3, <3>1, <4>1 DEF NeedsWhole, Between, CallOf
      <4>3. call # "rollbackDatabase"
        BY <1>1, <4>2 DEF CallOf, Between
      <4>4. host.whole
        <5>1. CASE call = "stage"
          BY <1>9, <5>1 DEF CanSucceed
        <5>2. CASE call # "stage"
          <6>1. NeedsWhole(run[j])
            BY <1>1, <3>1, <4>2, <5>2 DEF NeedsWhole, Between, CallOf
          <6> QED
            BY <1>6, <6>1 DEF StageInv
        <5> QED
          BY <5>1, <5>2
      <4> QED
        BY <1>5, <4>3, <4>4 DEF CallEffect
    <3>3. Between(run'[j], "update", 5, 15) => host'.mode # "open"
      <4>1. SUFFICES ASSUME Between(run[j], "update", 4, 14) PROVE host'.mode # "open"
        BY <2>3, <3>1 DEF Between
      <4>2. CASE call = "enterMaintenance"
        <5>1. host' = Stopped(host)
          BY <1>9, <4>2, TwoSteps DEF Trace, StopTrace
        <5> QED
          BY <1>1, <5>1 DEF Stopped, Host
      <4>3. CASE call # "enterMaintenance"
        <5>1. /\ Between(run[j], "update", 5, 15)
              /\ call \notin Opening \cup {"rollbackDatabase"}
          BY <1>1, <3>1, <4>1, <4>3 DEF CallOf, Between, Opening
        <5> QED
          BY <1>5, <1>6, <5>1 DEF CallEffect, StageInv
      <4> QED
        BY <4>2, <4>3
    <3>4. Between(run'[j], "update", 7, 7) => host'.recovery[j] # NoPoint
      <4>1. SUFFICES ASSUME Between(run[j], "update", 6, 6)
                     PROVE  host'.recovery[j] # NoPoint
        BY <2>3, <3>1 DEF Between
      <4>2. call = "createRecoveryPoint"
        BY <1>1, <3>1, <4>1 DEF CallOf, Between
      <4>3. host' = [host EXCEPT !.recovery[c.job] = Snapshot(host, c.source)]
        BY <1>9, <4>2, TwoSteps DEF Trace, SnapshotTrace
      <4>4. Snapshot(host, c.source) \in RecoveryPoint
        BY <1>1 DEF Snapshot, RecoveryPoint, Host, Arguments
      <4> QED
        BY <1>1, <4>3, <4>4, NoPointAssumption DEF Host
    <3>5. ~Between(run'[j], "restore", 1, 3)
      BY <1>1, <2>3, <3>1 DEF CallOf, Between
    <3> QED
      BY <1>9, <3>2, <3>3, <3>4, <3>5 DEF StageInv
  <2> QED
    BY <2>1, <2>2, <2>3
<1> QED
  BY <1>2, <1>7, <1>8, <1>9

\* The list of points after an instruction that does not change it, or prunes it.
LEMMA PointsStay ==
    ASSUME UpdaterInv, ExclusionInv, DataInv, NEW j \in Jobs, Works(j),
           NEW p \in 1..Len(points)
    PROVE  /\ ledger'[points[p]].started
           /\ ~Between(run'[points[p]], "update", 1, 7)
<1>1. points[p] \in Jobs
  BY DEF UpdaterInv, Typed, UpdaterTypeOK
<1>2. ledger[points[p]].started /\ ~Between(run[points[p]], "update", 1, 7)
  BY DEF DataInv, PointsInv
<1>3. ledger'[points[p]].started
  BY <1>1, <1>2, Entries
<1>4. Busy(j) /\ run[j] \in Thread /\ run[j].at >= 1
  BY DEF Works, UpdaterInv, Typed, UpdaterTypeOK, LaunchInv
<1>5. CASE points[p] # j
  BY <1>1, <1>2, <1>3, <1>4, <1>5, Advances, Throws DEF Works, Between, Idle
<1>6. CASE points[p] = j /\ Throw(j)
  BY <1>3, <1>4, <1>6, Throws DEF Between, Farewells
<1>7. CASE points[p] = j /\ Advance(j)
  BY <1>2, <1>3, <1>4, <1>7, Advances DEF Between, Idle, Thread
<1> QED
  BY <1>5, <1>6, <1>7 DEF Works

\* The write that lists the new recovery point.
LEMMA ListKeeps ==
    ASSUME UpdaterInv, ExclusionInv, DataInv, NEW j \in Jobs, Works(j), host' = host,
           Between(run[j], "update", 7, 7), points' = <<j>> \o points
    PROVE  PointsInv'
<1>1. points \in Seq(Jobs) /\ Len(points) \in Nat /\ <<j>> \in Seq(Jobs)
  BY DEF UpdaterInv, Typed, UpdaterTypeOK
<1>2. /\ Len(points') = Len(points) + 1 /\ points'[1] = j
      /\ \A p \in 2..(Len(points) + 1) : p - 1 \in 1..Len(points) /\ points'[p] = points[p - 1]
  BY <1>1
<1>3. host.recovery[j] # NoPoint
  BY DEF DataInv, StageInv
<1>4. \A p \in 1..Len(points) : points[p] # j
  <2>1. run[j] \in Thread
    BY DEF UpdaterInv, Typed
  <2>2. Between(run[j], "update", 1, 7)
    BY <2>1 DEF Between, Thread
  <2> QED
    BY <2>2 DEF DataInv, PointsInv
<1>5. /\ ledger'[j].started /\ ~Between(run'[j], "update", 1, 7)
  <2>1. Busy(j) /\ run[j] \in Thread
    BY DEF Works, UpdaterInv, Typed
  <2>2. ledger'[j].started
    BY <2>1, Entries DEF UpdaterInv, LaunchInv
  <2>3. CASE Advance(j)
    BY <2>1, <2>2, <2>3, Advances DEF Between, Idle, Thread
  <2>4. CASE Throw(j)
    BY <2>1, <2>2, <2>4, Throws DEF Between, Farewells
  <2> QED
    BY <2>3, <2>4 DEF Works
<1>6. ASSUME NEW p \in 1..Len(points'), NEW q \in 1..Len(points'), points'[p] = points'[q]
      PROVE  p = q
  <2>0. ASSUME NEW r \in 1..Len(points'), r # 1 PROVE points'[r] # j
    <3>1. r - 1 \in 1..Len(points) /\ points'[r] = points[r - 1]
      BY <1>1, <1>2, <2>0
    <3> QED
      BY <1>4, <3>1
  <2>1. CASE p = 1 \/ q = 1
    BY <1>2, <1>6, <2>0, <2>1
  <2>2. CASE p # 1 /\ q # 1
    <3>1. /\ p - 1 \in 1..Len(points) /\ q - 1 \in 1..Len(points)
          /\ points[p - 1] = points[q - 1]
      BY <1>1, <1>2, <1>6, <2>2
    <3>2. p - 1 = q - 1
      BY <3>1 DEF DataInv, PointsInv
    <3> QED
      BY <1>1, <1>2, <3>2
  <2> QED
    BY <2>1, <2>2
<1>7. ASSUME NEW p \in 1..Len(points')
      PROVE  /\ ledger'[points'[p]].started /\ ~Between(run'[points'[p]], "update", 1, 7)
             /\ p <= Retention => host.recovery[points'[p]] # NoPoint
  <2>1. CASE p = 1
    BY <1>2, <1>3, <1>5, <2>1
  <2>2. CASE p # 1
    <3>1. p - 1 \in 1..Len(points) /\ points'[p] = points[p - 1]
      BY <1>1, <1>2, <2>2
    <3>2. p <= Retention => p - 1 <= Retention
      BY <1>1, <1>2, RetentionAssumption
    <3>3. p - 1 <= Retention => host.recovery[points[p - 1]] # NoPoint
      BY <3>1 DEF DataInv, PointsInv, RetainedPointsExist
    <3> QED
      BY <3>1, <3>2, <3>3, PointsStay
  <2> QED
    BY <2>1, <2>2
<1> QED
  BY <1>6, <1>7 DEF PointsInv, RetainedPointsExist

LEMMA WritePoints ==
    ASSUME UpdaterInv, ExclusionInv, DataInv, NEW j \in Jobs, RunWrite(j)
    PROVE  PointsInv'
<1> DEFINE i == Instruction(j)
<1>1. /\ Works(j) /\ Busy(j) /\ i.op # "call" /\ host' = host
      /\ points' \in {points, WrittenPoints(j, i)}
  BY WorkingSteps DEF RunWrite, Stored
<1>2. i.op = "list" => Between(run[j], "update", 7, 7)
  BY <1>1, Places DEF WriteOf
<1>3. points' \in {points, Retained, <<j>> \o points}
  BY <1>1 DEF WrittenPoints
<1>4. i.op # "list" => points' \in {points, Retained}
  BY <1>1 DEF WrittenPoints
<1>5. CASE points' \in {points, Retained}
  <2>1. points \in Seq(Jobs) /\ Retention \in Nat
    BY RetentionAssumption DEF UpdaterInv, Typed, UpdaterTypeOK
  <2>2. /\ Len(points') \in Nat /\ Len(points') <= Len(points)
        /\ \A p \in 1..Len(points') : points'[p] = points[p]
    BY <1>5, <2>1 DEF Retained
  <2>3. \A p \in 1..Len(points') : p \in 1..Len(points)
    BY <2>1, <2>2
  <2>4. PointsInv
    BY DEF DataInv
  <2>5. \A p, q \in 1..Len(points') : points'[p] = points'[q] => p = q
    BY <2>2, <2>3, <2>4 DEF PointsInv
  <2>6. ASSUME NEW p \in 1..Len(points')
        PROVE  /\ ledger'[points'[p]].started /\ ~Between(run'[points'[p]], "update", 1, 7)
               /\ p <= Retention => host.recovery[points'[p]] # NoPoint
    <3>1. p \in 1..Len(points) /\ points'[p] = points[p]
      BY <2>2, <2>3
    <3>2. p <= Retention => host.recovery[points[p]] # NoPoint
      BY <2>4, <3>1 DEF PointsInv, RetainedPointsExist
    <3> QED
      BY <1>1, <3>1, <3>2, PointsStay
  <2> QED
    BY <1>1, <2>5, <2>6 DEF PointsInv, RetainedPointsExist
<1>6. CASE i.op = "list" /\ points' = <<j>> \o points
  BY <1>1, <1>2, <1>6, ListKeeps
<1> QED
  BY <1>3, <1>4, <1>5, <1>6

LEMMA WriteStages ==
    ASSUME UpdaterInv, ExclusionInv, DataInv, NEW j \in Jobs, RunWrite(j), NEW k \in Jobs
    PROVE  StageInv(k)'
<1>1. /\ Works(j) /\ Busy(j) /\ host' = host /\ WriteOf(run[j], Instruction(j))
      /\ run[j] \in Thread
      /\ Advance(j) \/ Throw(j)
  BY WorkingSteps, Places DEF RunWrite, UpdaterInv, Typed
<1>2. StageInv(k) /\ ThreadInv(k) /\ PointInv(k) /\ run[j].at >= 1
  BY <1>1 DEF DataInv, UpdaterInv, LaunchInv, Typed, UpdaterTypeOK
<1>3. CASE run'[k] = run[k] \/ run'[k].program \in Farewells \cup {"none"}
  <2>1. CASE run'[k] = run[k]
    BY <1>1, <1>2, <2>1 DEF StageInv, NeedsWhole, Between, Intact
  <2>2. CASE run'[k].program \in Farewells \cup {"none"}
    BY <2>2 DEF StageInv, NeedsWhole, Between, Farewells
  <2> QED
    BY <1>3, <2>1, <2>2
<1>4. CASE k # j
  <2>1. run'[k] = run[k] \/ run'[k] = Idle
    BY <1>1, <1>4, Advances, Throws
  <2> QED
    BY <1>3, <2>1 DEF Idle
<1>5. CASE k = j /\ Throw(j)
  <2>1. \/ run'[j].program \in Farewells \cup {"none"}
        \/ /\ run'[j].program = "resume" /\ run'[j].at = 1
           /\ run[j].program = "update" /\ run[j].at > 3
        \/ /\ run'[j].program = "restore" /\ run'[j].at = 1
           /\ run[j].program = "update" /\ run[j].saved /\ ~ledger'[j].reopened
    BY <1>1, <1>5, Throws
  <2>2. run[j].program = "update" /\ run[j].saved => run[j].at > 3
    BY <1>1, <1>2, <1>5 DEF ThreadInv, Thread
  <2>3. CASE run[j].program = "update" /\ run[j].at > 3
    <3>1. host.whole
      <4>1. run[j].at \in 1..19
        BY UpdateInstructions DEF UpdaterInv, Typed, UpdaterTypeOK
      <4>2. NeedsWhole(run[j])
        BY <2>3, <4>1 DEF NeedsWhole, Between
      <4> QED
        BY <1>2, <1>5, <4>2 DEF StageInv
    <3>2. run'[j].program = "restore" => host.recovery[j] = NoPoint \/ Intact(j)
      <4>1. ASSUME run'[j].program = "restore" PROVE Recorded(j)
        <5>1. ~ledger[j].reopened
          BY <1>1, <2>1, <4>1, Entries DEF Farewells
        <5>2. Active(j)
          BY <2>3 DEF ExclusionInv, Working, Farewells
        <5> QED
          BY <1>2, <1>5, <2>3, <5>1, <5>2 DEF Recorded, ThreadInv
      <4> QED
        BY <1>2, <1>5, <4>1 DEF PointInv
    <3> QED
      BY <1>1, <1>5, <2>1, <3>1, <3>2 DEF StageInv, NeedsWhole, Between, Farewells, Intact
  <2> QED
    BY <1>3, <1>5, <2>1, <2>2, <2>3
<1>6. CASE k = j /\ Advance(j)
  <2>1. \/ run'[j] = Idle
        \/ run'[j].program = run[j].program /\ run'[j].at = run[j].at + 1
    BY <1>1, <1>6, Advances
  <2>2. CASE run'[j].program = run[j].program /\ run'[j].at = run[j].at + 1
    <3>1. ~Between(run[j], "update", 2, 2) /\ ~Between(run[j], "update", 4, 4)
          /\ ~Between(run[j], "update", 6, 6)
      BY <1>1 DEF WriteOf
    <3>2. NeedsWhole(run'[j]) => NeedsWhole(run[j])
      BY <1>1, <1>2, <2>2, <3>1 DEF NeedsWhole, Between, Thread
    <3>3. Between(run'[j], "update", 5, 15) => Between(run[j], "update", 5, 15)
      BY <1>1, <2>2, <3>1 DEF Between, Thread
    <3>4. ~Between(run'[j], "update", 7, 7)
      BY <1>1, <2>2, <3>1 DEF Between, Thread
    <3>5. Between(run'[j], "restore", 1, 3) => Between(run[j], "restore", 1, 3)
      BY <1>1, <1>2, <2>2 DEF Between, Thread
    <3> QED
      BY <1>1, <1>2, <1>6, <3>2, <3>3, <3>4, <3>5 DEF StageInv, Intact
  <2> QED
    BY <1>3, <1>6, <2>1, <2>2 DEF Idle
<1> QED
  BY <1>1, <1>4, <1>5, <1>6

-----------------------------------------------------------------------------
(* The invariant and what follows from it.                                 *)

LEMMA WriteKeeps ==
    ASSUME UpdaterInv, ExclusionInv, DataInv, NEW j \in Jobs, RunWrite(j)
    PROVE  DataInv'
<1>1. Works(j) /\ host' = host /\ written' = written
  BY WorkingSteps DEF RunWrite, elsewhere
<1>2. ASSUME NEW k \in Jobs PROVE ThreadInv(k)' /\ PointInv(k)' /\ StageInv(k)'
  <2>1. PointInv(k)
    BY DEF DataInv
  <2>2. /\ ledger'[k].kind = ledger[k].kind
        /\ ledger[k].reopened => ledger'[k].reopened
        /\ Active(k)' => Active(k)
    BY <1>1, Entries
  <2>3. PointInv(k)'
    BY <1>1, <2>1, <2>2 DEF PointInv, Recorded, Intact
  <2> QED
    BY <1>1, <2>3, WorkThreads, WriteStages
<1> QED
  BY <1>1, <1>2, WritePoints DEF DataInv, OpenDatabaseIsWhole

LEMMA CallingSteps ==
    ASSUME UpdaterInv, NEW j \in Jobs, RunCall(j)
    PROVE  /\ Calling(j) /\ host' \in Range(Trace(CallName(j), Given(j), host))
           /\ ledger' = ledger /\ points' = points /\ written' = written
<1>1. Busy(j) /\ Instruction(j).op = "call"
  BY DEF RunCall
<1>2. CallName(j) \in Calls /\ Given(j) \in Arguments /\ host \in Host
  BY <1>1, CallType
<1>3. \/ host' = Last(Trace(CallName(j), Given(j), host))
      \/ host' \in Thrown(CallName(j), Given(j), host)
  BY DEF RunCall
<1>4. host' \in Range(Trace(CallName(j), Given(j), host))
  BY <1>2, <1>3, CallReaches
<1> QED
  BY <1>1, <1>4 DEF RunCall, Calling, elsewhere

LEMMA CallKeepsAll ==
    ASSUME UpdaterInv, ExclusionInv, DataInv, NEW j \in Jobs, RunCall(j)
    PROVE  DataInv'
<1>1. /\ OpenDatabaseIsWhole' /\ host'.data <= written'
      /\ \A k \in Jobs : PointInv(k)'
      /\ RetainedPointsExist'
  BY CallingSteps, CallKeeps
<1>2. \A k \in Jobs : ThreadInv(k)' /\ StageInv(k)'
  BY <1>1, WorkingSteps, WorkThreads, CallStages
<1>3. PointsInv'
  <2>1. Works(j) /\ points' = points
    BY WorkingSteps, CallingSteps
  <2>2. \A p \in 1..Len(points) :
           ledger'[points[p]].started /\ ~Between(run'[points[p]], "update", 1, 7)
    BY <2>1, PointsStay
  <2> QED
    BY <1>1, <2>1, <2>2 DEF DataInv, PointsInv
<1> QED
  BY <1>1, <1>2, <1>3 DEF DataInv

LEMMA CrashKeeps ==
    ASSUME UpdaterInv, ExclusionInv, DataInv, Crash
    PROVE  DataInv'
<1>1. /\ ledger' = ledger /\ points' = points /\ written' = written
      /\ \A k \in Jobs : run'[k] = Idle
  BY DEF Crash, files, ProcessEnds
<1>2. CASE UNCHANGED host
  BY <1>1, <1>2, LedgerSteps DEF Continues, Active
<1>3. ASSUME NEW j \in Jobs, Busy(j), Instruction(j).op = "call",
             host' \in CutOff(CallName(j), Given(j), host)
      PROVE  DataInv'
  <2>1. Calling(j) /\ host' \in Range(Trace(CallName(j), Given(j), host))
    BY <1>3 DEF Calling, CutOff
  <2>2. /\ OpenDatabaseIsWhole' /\ host'.data <= written'
        /\ \A k \in Jobs : PointInv(k)'
        /\ RetainedPointsExist'
    BY <1>1, <2>1, CallKeeps
  <2>3. \A k \in Jobs : ThreadInv(k)' /\ StageInv(k)'
    BY <1>1 DEF ThreadInv, StageInv, NeedsWhole, Between, Idle
  <2>4. PointsInv'
    <3>1. \A p \in 1..Len(points) : points[p] \in Jobs
      BY DEF UpdaterInv, Typed, UpdaterTypeOK
    <3> QED
      BY <1>1, <2>2, <3>1 DEF DataInv, PointsInv, Between, Idle
  <2> QED
    BY <2>2, <2>3, <2>4 DEF DataInv
<1> QED
  BY <1>2, <1>3 DEF Crash

\* Users can write only while no update has a recovery point to lose it from.
LEMMA UserKeeps ==
    ASSUME UpdaterInv, DataInv, UserWrites
    PROVE  DataInv'
<1>1. /\ host \in Host /\ written \in Nat
      /\ ledger' = ledger /\ points' = points /\ run' = run /\ written' = written + 1
      /\ host' = [host EXCEPT !.data = written + 1] /\ host.mode = "open"
  BY BoundsAssumption DEF UserWrites, files, process, UpdaterInv, Typed, UpdaterTypeOK
<1>2. /\ host'.mode = host.mode /\ host'.whole = host.whole
      /\ host'.recovery = host.recovery /\ host'.data = written + 1
  BY <1>1 DEF Host
<1>3. ASSUME NEW k \in Jobs PROVE ThreadInv(k)' /\ PointInv(k)' /\ StageInv(k)'
  <2>1. ThreadInv(k) /\ PointInv(k) /\ StageInv(k)
    BY DEF DataInv
  <2>2. ThreadInv(k)'
    BY <1>1, <2>1 DEF ThreadInv, Between
  <2>3. host.recovery[k] # NoPoint => host.recovery[k].data \in Nat
    BY <1>1, RecoveryPointFields
  <2>4. PointInv(k)'
    BY <1>1, <1>2, <2>1, <2>3 DEF PointInv, Recorded, Active, Intact
  <2>5. StageInv(k)'
    BY <1>1, <1>2, <2>1 DEF StageInv, NeedsWhole, Between, Intact
  <2> QED
    BY <2>2, <2>4, <2>5
<1>4. PointsInv'
  BY <1>1, <1>2 DEF DataInv, PointsInv, RetainedPointsExist
<1>5. OpenDatabaseIsWhole' /\ host'.data <= written'
  BY <1>1, <1>2 DEF DataInv, OpenDatabaseIsWhole
<1> QED
  BY <1>3, <1>4, <1>5 DEF DataInv

LEMMA DataPreserved ==
    UpdaterInv /\ ExclusionInv /\ DataInv /\ [Next]_vars => DataInv'
<1> SUFFICES ASSUME UpdaterInv, ExclusionInv, DataInv, [Next]_vars PROVE DataInv'
  OBVIOUS
<1>1. ASSUME UNCHANGED <<ledger, run, host, points, written>> PROVE DataInv'
  BY <1>1, LedgerSteps DEF Continues, Active
<1>2. ASSUME NEW j \in Jobs, Request(j) PROVE DataInv'
  <2>1. CASE Admit(j)
    BY <2>1, AdmitContinues, LedgerSteps DEF Admit
  <2>2. CASE Cancel(j)
    BY <2>2, SettleContinues, LedgerSteps DEF Cancel, FinishPending, process
  <2>3. CASE UNCHANGED <<ledger, run, host, points, written>>
    BY <1>1, <2>3
  <2> QED
    BY <1>2, <2>1, <2>2, <2>3 DEF Request, AskUpdate, AskRollback, files
<1>3. CASE TickStep
  <2>0. UNCHANGED <<host, points, written>>
    BY <1>3 DEF TickStep, TickLook, TickExpires, TickQuarantines, TickWaits, TickDenies,
                TickSchedules, TickVerifies, TickConsumes, TickTooLate, TickLaunches,
                TickCatches, outside
  <2>1. tick.at # "idle" => tick.job \in Jobs
    BY DEF UpdaterInv, TickInv
  <2>2. ASSUME NEW phase, tick.at # "idle", TickEdit(FinishPending(tick.job, phase)),
               run' = run
        PROVE  DataInv'
    BY <2>0, <2>1, <2>2, SettleContinues, LedgerSteps DEF TickEdit, Stored
  <2>3. CASE TickExpires \/ TickQuarantines \/ TickDenies \/ TickSchedules
    BY <2>2, <2>3 DEF TickExpires, TickQuarantines, TickDenies, TickSchedules, Actionable
  <2>4. CASE TickTooLate
    <3>1. CASE ledger' = ledger /\ run' = run
      BY <1>1, <2>0, <3>1
    <3>2. CASE TickEdit(FinishPending(tick.job, "expired")) /\ run' = run
      BY <2>2, <2>4, <3>2 DEF TickTooLate
    <3> QED
      BY <2>4, <3>1, <3>2 DEF TickTooLate, FinishPending
  <2>5. CASE TickLaunches
    BY <2>0, <2>5, LaunchContinues, LedgerSteps
  <2>6. CASE TickCatches
    <3>1. \E phase : ledger' \in {ledger, FinishPending(tick.job, phase)}
      BY <2>6 DEF TickCatches, Stored
    <3> QED
      BY <2>0, <2>1, <2>6, <3>1, SettleContinues, LedgerSteps DEF TickCatches
  <2>7. CASE ledger' = ledger /\ run' = run
    BY <1>1, <2>0, <2>7
  <2> QED
    BY <1>3, <2>3, <2>4, <2>5, <2>6, <2>7
    DEF TickStep, TickLook, TickWaits, TickVerifies, TickConsumes
<1>4. ASSUME NEW j \in Jobs, RunWrite(j) PROVE DataInv'
  BY <1>4, WriteKeeps
<1>5. ASSUME NEW j \in Jobs, RunCall(j) PROVE DataInv'
  BY <1>5, CallKeepsAll
<1>6. CASE Crash
  BY <1>6, CrashKeeps
<1>7. CASE Restart
  BY <1>7, RestartContinues, LedgerSteps DEF Restart
<1>8. CASE UserWrites
  BY <1>8, UserKeeps
<1>9. CASE UNCHANGED <<ledger, run, host, points, written>>
  BY <1>1, <1>9
<1> QED
  BY <1>2, <1>3, <1>4, <1>5, <1>6, <1>7, <1>8, <1>9
  DEF Next, vars, files, process, FeedPublishes, CheckForUpdates, Operator, Show, Decide,
      TimePasses

LEMMA DataInvariance == Spec => [](UpdaterInv /\ ExclusionInv /\ DataInv)
<1>1. Init => UpdaterInv /\ ExclusionInv /\ DataInv
  BY Initially, InitiallyExclusive, DataInitially
<1>2. UpdaterInv /\ ExclusionInv /\ DataInv /\ [Next]_vars
         => (UpdaterInv /\ ExclusionInv /\ DataInv)'
  BY StepPreserves, ExclusionPreserved, DataPreserved
<1> QED
  BY <1>1, <1>2, PTL DEF Spec

\* The application is never opened on a database that a restore has dropped and
\* not loaded again, wherever the restore failed or was cut off.
THEOREM DatabasesAreWhole == Spec => []OpenDatabaseIsWhole
<1>1. DataInv => OpenDatabaseIsWhole
  BY DEF DataInv
<1> QED
  BY <1>1, DataInvariance, PTL

\* Pruning leaves the files of every point within the retention count, for any
\* retention, also when it is cut off.
THEOREM PointsAreKept == Spec => []RetainedPointsExist
<1>1. DataInv => RetainedPointsExist
  BY DEF DataInv, PointsInv
<1> QED
  BY <1>1, DataInvariance, PTL

\* Until the ledger says that writes were reopened, the recovery point of the
\* active update holds everything users wrote.
THEOREM WritesAreAlwaysRecorded == Spec => []WritesAreRecorded
<1>1. DataInv => WritesAreRecorded
  BY DEF DataInv, PointInv, Recorded, Intact, WritesAreRecorded
<1> QED
  BY <1>1, DataInvariance, PTL

\* Accepted writes are lost only to a rollback job the operator approved, and
\* then to the state of its recovery point: a restore after a failed update
\* loses nothing.
THEOREM LossIsConfirmed == Spec => OnlyConfirmedLoss
<1> DEFINE Loss == \E j \in Jobs : /\ Busy(j) /\ ledger[j].kind = "rollback"
                                   /\ decided[j] = "approved"
                                   /\ host'.data = host.recovery[ledger[j].point].data
<1>1. ASSUME UpdaterInv, ExclusionInv, DataInv, NEW j \in Jobs, Calling(j),
             host' \in Range(Trace(CallName(j), Given(j), host)), host'.data < host.data
      PROVE  Loss
  <2>1. /\ CallOf(run[j], CallName(j)) /\ run[j] \in Thread
        /\ CallName(j) \in Calls /\ Given(j) \in Arguments /\ host \in Host
        /\ decided[j] = "approved"
    BY <1>1, Caller
  <2>2. CallEffect(CallName(j), Given(j), host, host')
    BY <1>1, <2>1, CallEffects
  <2>3. host.data \in Nat /\ host'.data # host.data
    BY <1>1, <2>1 DEF Host
  <2>4. /\ CallName(j) = "rollbackDatabase"
        /\ host.recovery[Given(j).point] # NoPoint
        /\ host'.data = host.recovery[Given(j).point].data
    BY <2>2, <2>3 DEF CallEffect, PointOf
  <2>5. ThreadInv(j) /\ StageInv(j)
    BY <1>1 DEF DataInv
  <2>6. CASE run[j].program = "rollback"
    <3>1. ledger[j].kind = "rollback" /\ Given(j).point = ledger[j].point
      BY <2>5, <2>6 DEF ThreadInv, Given
    <3> QED
      BY <1>1, <2>1, <2>4, <3>1 DEF Calling
  <2>7. CASE run[j].program = "restore"
    <3>1. Given(j).point = j
      BY <2>5, <2>7 DEF ThreadInv, Given
    <3>2. Between(run[j], "restore", 1, 3)
      BY <2>1, <2>4, <2>7 DEF CallOf, Between, Thread
    <3> QED
      BY <2>3, <2>4, <2>5, <3>1, <3>2 DEF StageInv, Intact
  <2> QED
    BY <2>1, <2>4, <2>6, <2>7 DEF CallOf, Between
<1>2. ASSUME UpdaterInv, ExclusionInv, DataInv, [Next]_vars, host'.data < host.data
      PROVE  Loss
  <2>1. host \in Host /\ written \in Nat /\ host.data \in Nat /\ host.data <= written
    BY <1>2, BoundsAssumption DEF UpdaterInv, Typed, UpdaterTypeOK, Host, DataInv
  <2>2. host' # host
    BY <1>2, <2>1
  <2>3. ASSUME NEW j \in Jobs, RunCall(j) PROVE Loss
    <3>1. Calling(j) /\ host' \in Range(Trace(CallName(j), Given(j), host))
      BY <1>2, <2>3, CallingSteps
    <3> QED
      BY <1>1, <1>2, <3>1
  <2>4. ~UserWrites
    BY <1>2, <2>1 DEF UserWrites, Host
  <2>5. CASE Crash
    <3>1. PICK j \in Jobs : /\ Busy(j) /\ Instruction(j).op = "call"
                            /\ host' \in CutOff(CallName(j), Given(j), host)
      BY <2>2, <2>5 DEF Crash
    <3>2. Calling(j) /\ host' \in Range(Trace(CallName(j), Given(j), host))
      BY <3>1 DEF Calling, CutOff
    <3> QED
      BY <1>1, <1>2, <3>2
  <2>6. ~TickStep
    BY <2>2 DEF TickStep, TickLook, TickExpires, TickQuarantines, TickWaits, TickDenies,
                TickSchedules, TickVerifies, TickConsumes, TickTooLate, TickLaunches,
                TickCatches, outside
  <2>7. \A j \in Jobs : ~Request(j) /\ ~Operator(j) /\ ~TimePasses(j) /\ ~RunWrite(j)
    BY <2>2 DEF Request, AskUpdate, AskRollback, Admit, Cancel, Operator, Show, Decide,
                TimePasses, RunWrite
  <2> QED
    BY <1>2, <2>2, <2>3, <2>4, <2>5, <2>6, <2>7
    DEF Next, vars, FeedPublishes, CheckForUpdates, Restart
<1>3. UpdaterInv /\ ExclusionInv /\ DataInv /\ [Next]_vars
         => [host'.data < host.data => Loss]_vars
  BY <1>2
<1> QED
  BY <1>3, DataInvariance, PTL DEF Spec, OnlyConfirmedLoss
=============================================================================
