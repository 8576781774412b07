# A verification project for ForgetBase

ForgetBase is a self-hosted knowledge base for people and agents: a TypeScript
monorepo over Postgres. This directory holds TLA+ models of its stateful parts,
the TLC runs that check them on small instances, and TLAPS proofs of what
matters most for every instance.

    tlc -workers 2 -config AssetRegistry.cfg MCAssetRegistry
    tlapm AssetReconciliation_proofs.tla

`PROJECT.json` lists the runs, the source lines every definition stands for,
the mutations that each property must catch, the hazards and the theorems.

## The system

| component | state | operations | hard parts |
| --- | --- | --- | --- |
| content registry (`packages/db/src/index.ts`) | head row and append-only versions of each asset | create, update, review, publish, restore | long sequences of legal commands; what a restore brings back |
| asset change outbox (`migrations/039`, `asset-change-outbox.ts`) | one work row per changed asset: generation, lease, attempts | row trigger, claim, complete, fail | leases that run out, generations that restart, retries |
| reconciliation (`apps/worker/src/asset-changes.ts`, `finishAssetChange` in `apps/api/src/server.ts`) | local variables of each run | claim, read, index or clear, invalidate, acknowledge | several reconcilers and commands on one asset; every call can fail |
| retrieval index (`retrieval.ts`) | chunks per asset | index, clear, search | stale chunks |
| managed updater (`packages/updater`, `apps/updater`) | job ledger, host approvals, recovery points, installation | check, apply, approve, tick, execute, roll back, restart | crashes between durable steps; an update that must not be replayed; data accepted after reopening |
| local runtime (`packages/local-runtime`) | offline profile, generation databases, credential, sync marker | connect, sync, query, rebuild, disconnect | crash at each file write, revocation, clock |
| local sync server (`db/src/local-sync.ts`, snapshot repository) | epochs and generations per principal | snapshot, lease issue, bump | content and grants changing between snapshot and signature |
| sessions, keys, grants (`auth.ts`) | users, keys, sessions, refresh tokens | issue, refresh, revoke, rotate | refresh against revoke and refresh |
| agent actions (`action-execution.ts`, server routes) | policy, requests | request, decide, expire | decisions of two admins and the worker; limits |
| attachments | rows and blobs | upload, delete, reconcile | two stores written one after the other |
| managed query cache, export | cached answers, content revision | lookup, store, invalidate; paged export | answers stored after invalidation |
| worker schedule | active runs | trigger, stop | overlap, shutdown |
| migrations | `schema_migrations` | run | several processes at start |
| import planner, governed hash, validation | none | pure functions | |
| API, SDK, CLI, MCP, web | none of their own | requests | |

Components meet through the database: a content command and its outbox row
commit in one transaction; the worker and the API find the row later and write
the index, then invalidate the answer cache. Exports, search, local sync and
attachments read the published projection of the registry. The updater is
outside: it stops the application, migrates, and restarts it.

What makes each component correct:

- registry: readers see approved versions only; withdrawals and narrowed access
  are final until someone publishes or updates again;
- outbox and reconciliation: no change is lost, no stale work is acknowledged,
  an empty outbox means a correct index, and it becomes empty;
- updater: one operation at a time, executed at most once per approval, and no
  restore over writes the application has accepted since, unless an operator
  confirmed that loss;
- local runtime: a profile that answers queries has exactly the content of one
  signed generation, and none after revocation or expiry;
- sessions: a revoked session has no usable key or token; a token is used once;
- actions: one decision per request, and none after its expiry;
- attachments: an active row has its blob, and only orphans are removed;
- export and import plan: what is answered was all there at one moment.
- local sync server: a signed manifest is current, and its counters tell its content.

`PROJECT.json` lists the hazards behind these, each at its line.

## Modules

`AssetRegistry` models `PostgresRegistryRepository`. Each command holds the head
row `FOR UPDATE` in one transaction, so each is one action; all go through
`CommitVersion`, as in the code (`createPostgresVersionFromCurrent`,
`updateAssetRecordFromSnapshot`). `versions` is `asset_versions` in order of
`version_number`; a version is its number; `head` is the `assets` row. `Inputs`
are the snapshots commands may carry. Deprecated, archived and restricted are one
lifecycle `withdrawn`, which the registry treats alike; every status except
`approved` is `draft`; the surfaces stand for all four narrowing policy lists.
Owner, review date, sensitivity and the texts are left out.

`AssetChangeOutbox` extends it with the trigger of migration 039 and the
repository's four statements. `SaveChange` is a command with its trigger: the
trigger fires once per row update, so a publication, which updates the head
twice, advances the generation by two. A lease token is represented by its
holder's name: a reconciler keeps only its latest token, so the row carries the
name exactly while that token is valid. Time is two flags per row, `due` and
`expired`, that the clock sets. Optimistic concurrency (`expectedVersionId`) is
in the registry; here commands leave it out, because a refused command changes
nothing.

`DerivedIndex` is the abstract specification: a derived copy may lag, shows the
present value or nothing, and is called settled only when it is up to date.

`AssetReconciliation` composes commands, outbox, index and reconcilers. Each
statement or transaction of `reconcileAssetChanges` and `finishAssetChange` is
one step, `pc` and `job` are their local variables. `indexAsset` and
`clearAssetIndex` are one step each: both lock the asset row and the outbox row
and compare the published pointer and the lease before they replace chunks. The
embedding before that touches nothing. `Fault` is an exception of a call, the
death of a process or work slower than its lease; `MaxFaults` bounds them.
A reconciliation batch is repeated claims by the same worker. The cache
invalidation is a step (it can fail) without the cache's contents.

`ManagedHost` describes the installation the updater works on: configuration,
identity, running release and its write fence, schema, data and the files of the
recovery points. A method of `ManagedComposeExecutor` is a series of commands, so
it is modelled as the series of hosts it goes through (`Trace`); a call that
throws, or the death of the updater, leaves any of them. Data is the number of
the last write it contains.

`ManagedUpdater` models `UpdateManager` over it: requests that read before they
are admitted, the operator's write-once decision files, the tick that looks,
verifies, consumes the approval and writes the claim, and launched operations as
lists of ledger writes and executor calls, so that a fault can hit each one and
the handlers (`Handler`) are the catch blocks. The ledger's queue (`mutate`)
makes a ledger change atomic; its write may be lost, or be renamed into place and
reported as failed (`durableWriteFile`). `Crash` ends the process inside any call;
`Restart` is `reconcileInterruptedJobs`. A recovery point is named after its job.
Time is the three states of a request: before its schedule, due, expired; the
claim's second look at the schedule is left out, because time does not go back.
The kernel lock that commands inherit is why a restart waits for them to end.
Not in it: signatures, resource probes and manifest contracts (a verification may
fail for any reason), protected points, legacy jobs, the 200-job history.

`LocalRuntime` models a profile directory and its keychain entry, used by processes that
write (connect, sync, rebuild, disconnect) or query. A writer takes the lock file and
writes the marker before anything else; each file write, keychain call and HTTP call is
a step that succeeds, fails or never returns (`Kill`). A query reads credential, profile
and marker before the database and again afterwards (`CheckMarker`, `CheckProfile`). The
server is its two counters, the hashes they commit to and the device session;
`RestoreServer` puts an older backup back, `BumpEpoch` raises its epoch alone, when
another device is revoked. A recursive removal takes the entries of the directory one
by one, in any order, the lock file among them, its own or that of a writer that came
since. Two variables are history: `robbed`, the writers whose lock file another step
took, and `entered`, that a writer began during a removal; the marker has a value
`removed`, which is no file to the code and remembers that a removal took it and left the
profile. `entered` is reset when a writer begins with nobody else at work or reading and
nothing readable. Leases, integrity tags and tampering, `status` and `doctor` are left out.

`LocalSyncServer` is the other end: a manifest request takes a REPEATABLE READ
snapshot under the one serialization row (repeated after a serialization failure),
brings the principal's counters up to date (`Resolve`), authenticates the device
again, and signs after a second transaction compared everything (`IsCurrent`).
A transaction that changes content, grants or devices runs the trigger of
migration 043 and keeps that row until it commits, so `change` holds at most one.
The epoch of a revoked device is raised in another transaction (`bumps`), which
may be lost. Whether a delta is smaller is a choice. Left out: enrolment, paging,
signatures, leases.

`SyncPromise` is the abstract specification of that server: content, device keys and
counters change one at a time, and a manifest is one step, `Answer`, which takes all of
them as they are. `ServesAsPromised` maps the server's state to it; the requests, the
locks and what a transaction has not committed are not seen there.

`LoginSessions` has the transactions of `auth.ts` over one session statement by
statement: a statement sees what was committed when it starts, waits for its rows
(`owner`) and checks its condition again on a row that changed meanwhile; a cycle
of waits aborts one of them (`AbortVictim`). The serialization row of migration 043
is one more row that all of them lock. Expiry, idle time, passwords, OIDC, grants
and audit are left out.

`ActionApproval` has the handlers of agent actions, which use no transactions: the
lookup of the idempotency key, the count of the last hour, the policy, the insert
(unique per key), the decision, and the worker's expiry are steps of their own.
Time is two facts of a request: `recent` and `due`. `killSwitch` stands for the
three ways the policy has to block. The hourly limit is a field of the policy: an
administrator may set it to any of `HourLimits`, a handler whose read fails has the
default policy, which blocks and has `DefaultLimit` (60 in the code), and a row keeps the
limit it was counted against, as its policy snapshot does.

`Attachments` has rows and files: upload, deletion and the reconciler, each
call able to fail before or after it took effect. Storing a file is three steps: the
content under a temporary name (`temps`), the link to the storage key, the unlink of the
temporary name; a failure or a death between them may leave either name. No list of the
reconciler has temporary names, which `inventory` only counts. A reconciliation lists rows up
to `RecordLimit`, oldest first, then files, and removes orphans only when it is
global and its list was not cut. One run of each kind at a time is assumed;
`setInterval` would start another if one took longer than its period.

`OptimisticReads` composes the registry with two reads that lock nothing: the
paged export and the capture of an import plan. Every statement is a step;
`Revision` stands for the digest of `getContentRevision`, in which `updated_at`
and the version ids change with every command, as `head.current` does here.
Grants are an inventory per asset, `past` keeps what they were since the read
began. The planner's classification of the captured targets is a pure function
and left out.

## What the runs check

`registry` (MCAssetRegistry): one asset, all snapshots over two surfaces, four
versions. Four commands are enough to publish, narrow, restore the wide version
and publish again, or to withdraw in between; assets are independent of each
other, so one is enough.
`PublishedIsApproved`, `WithdrawnIsUnpublished`, `PublicationNeverReturns` and
`OnlyUpdatesWidenAccess` are about sequences of commands that no single handler
guarantees.

`reconciliation` (MCAssetReconciliation): a worker and an API request on one
asset, three versions, two faults, two attempts. Outbox rows and chunks are per
asset, so reconcilers interfere only on the same one. Two faults suffice to let
a lease run out under its holder and then kill or fail another; three versions
let the generation restart after an acknowledged change, which is the case a
generation check alone would get wrong. `DrainedIsReconciled` is the promise of
`docs/runbooks/ASSET_CHANGE_RECOVERY.md`, `IndexKeepsItsPromise` the refinement
of `DerivedIndex`: search never shows chunks of another version than the one
published and visible now, whoever wrote them, and the outbox says truthfully
when the index has caught up.

It also has the fairness: a reconciler that can take a step takes one (the worker
is rescheduled after each batch, a request runs to its end) and the clock
advances. Nothing obliges an editor to save or a process to die; faults are
finite, and two of them with two attempts take a row to the failed state.
`WorkIsNeverAbandoned` and `PublishedBecomesSearchable` follow.

`updater` (MCManagedUpdater): two requests in every mix of update and rollback,
one release with a destructive migration, one user write, two faults (failed
calls, failed writes, crashes). Two requests are what two operations need to
meet: one being admitted, ended or rolled back while the other is. Two faults
reach a handler that itself fails and a crash after a lost write.
`OneOperationAtATime`, `RunsOnlyWhatWasApproved` and `RefusalIsFinal` are about
authority; `WritesAreRecorded`, `OnlyConfirmedLoss`, `OpenDatabaseIsWhole` and
`RetainedPointsExist` about users' data.

`updater_live`: the same requests with an additive release (its failure restores
the application only) and fairness for the tick (repeated every 30 seconds), the
supervised process, the operation in progress (commands have timeouts) and the
clock; nobody has to ask, decide or cancel. Ledger writes that fail are lost ones:
with an unacknowledged claim the job stays in preflight until a restart, a hazard
listed in `PROJECT.json`.

`updater_schema` is a disagreement of code and documentation: after a destructive
update failed in verification without automatic rollback, a second update may
resume the old release on the migrated schema. Documentation promises that a
destructive migration is undone by restoring the recovery point. The application
is fenced then, so the second request has to come through the updater's own API.

`local_runtime` (MCLocalRuntime): two processes, a writer and a reader, two writers
or two readers, two epochs and generations, one fault. Two generations are the
old one and the new one that a query may mix up; a fault more than one only repeats
what `Kill` does, since the next writer starts from the marker alone. An epoch that is
raised alone counts as the fault, to keep the run small: a sync that meets it goes
the way of any other new epoch. A writer that enters during a removal counts as the fault
too, and does so only when both generations were built (`EntersFrom`): it can then connect,
renew a lease, fail, be refused or disconnect against the removal, but build no generation.
Without this bound the run does not end in time; the theorems have none.
`ReadableIsLastWord` is the deny-first argument: whatever was interrupted, a query
is answered only from what the server last vouched for, unless a removal took the marker
first or let a second writer in. `AnswersAreAtomic` is about a query that processes
overtake, `HighWaterOnlyRises` about a server restored from an older backup; both hold
until a writer enters during a removal. `WritersExcludeEachOther` says what is left of the
single writer: of two at work one has lost its lock file to a removal, or to the unlink of
a writer that had lost its own; and until one has entered, only a disconnect that has
begun its removal works without a lock.

`local_runtime_removal` is a finding about that removal, on the smallest instance in
which it occurs: one generation, one manifest. The documents promise that one writer is at
work at a time (`SingleWriter`) and that a projection is not read after it was refused
(`DeniedIsUnreadable`). The run refutes `OnePromiseKept`, their disjunction: it reaches a
state in which a second writer is at work because a disconnect has deleted its own lock
file, and the refused profile is readable because the same removal took that writer's
marker. Each promise alone is broken earlier, the second by a single process that
disconnects.

`local_sync_server` (MCLocalSyncServer): two assets, two devices of one user, two
requests at a time and three altogether, two changes. Three requests are a base,
a delta over it and one that meets the changes; two changes are content under one
request and access under the other. `SignedIsCurrent` says a manifest is of the
moment it was signed at; `CountersIdentifyContent` and `CountersNeverFall` are what
a client relies on to detect a rollback; `DeltasGiveTheSnapshot` that nothing
withdrawn survives on a device. `ServesAsPromised`, the refinement of `SyncPromise`,
says all at once that the two transactions are one moment: a counter is kept only for
the content it was given for, and an answer is that content, for a device that is not
revoked.

`login_sessions` (MCLoginSessions): five requests over two connections: a login, a
refresh, and what meets it before and after. `EndedTogether` and
`OneCredentialAtATime` are about refreshes that meet revocations, `RequestsEnd`
about lock cycles; assumed is that a statement that can proceed does, and that
the database aborts a victim of every cycle.

`action_approval` (MCActionApproval): two handlers and the worker, one key, limits of one
and two requests an hour, three requests. The default limit is the larger one, so a failed
read passes where the stored limit would not. `RequestsOK` relates a row's status to how it
began: only one that awaited approval changes it, only a task that was executed or
awaited approval ran, and a request made while the kill switch was on is blocked;
`RetriesAgree` the answers of one key,
`RateIsBounded` says for each limit that the rows counted against it or a lower one exceed
it by no more than the handlers that counted together. It follows that a limit that is
lowered binds from the next read on, and that what passes it is what was counted against
another: by a handler that read before, or one whose read failed, which stores a
blocked row only.
`StaleApprovalsExpire` assumes that the scheduled worker starts and goes on.

`attachments` (MCAttachments): two handlers, two uploads, a quota and a record limit
of one. A limit of one is passed by the second row, which is how a cut list
occurs. `FilesAreKept`: an answered upload keeps its file, unless the scheduled run
was listing during the upload; a deleted row has none; no row's content is under a
temporary name; and the quota is overrun only by uploads counted together. With two
uploads that last clause cannot fail in the run (a third has more states than can be
explored); it is the theorem that says something about it. `LeftoversGo` assumes that the
clock advances and the scheduled run is repeated. It speaks of rows that stay `deleting` and of
files under a storage key, not of temporary files, which stay for ever, and it promises
nothing once there are more rows than a run lists.

`optimistic_reads` (MCOptimisticReads): two assets, pages and batches of one, so
that every boundary lies between them; two changes during a read, which is one
more than tears it. `ExportIsOneMoment` and `PlanIsOneMoment` say that what is
answered was all there at one moment. The exception of the second needs a target
that went back to the grant it had, one that is not the first and one that is not the
last. With two targets both have to, which takes four changes and is not reached; with
three the one in the middle is enough. The proof covers these cases.

Each property has a mutation of the code in `PROJECT.json` that breaks it; the
operators marked MUTANT in the modules are those.

## What is proved

`AssetReconciliation_proofs`, first part: `RegistryInv` (types; the head names its newest version;
the published pointer names an approved active version; nothing published while
withdrawn) is inductive over every command, since all of them are
`CommitVersion` with a pointer that is kept, cleared or the new version. From it
follow the two invariants and the two action properties.

Its second part is about the composition: the runs' invariants are not inductive alone. The
missing part, `HolderIsCurrent`, is the protocol's own argument: whoever holds a
lease still has true knowledge of the asset, because every change to it cancels
the lease, and no one else writes its chunks, because that takes the lease. With
it `ReconInv` is inductive, and `TypeCorrect`, `DrainedMeansReconciled` and
`KeepsThePromise` (the refinement) hold for any number of assets, workers,
requests and faults. The assumptions are the named ones of the modules: the
bounds are numbers, inputs are snapshots, reconcilers have distinct names.

`ManagedUpdater_proofs`: `UpdaterInv` ties each job's request, tick, approval and
operation together: what is asked for is not in the ledger yet, what the tick has
verified was approved, a consumed approval keeps its request pending until the
claim is written or given up, a started job has its approval consumed, and an
operation runs only for a started job. It contains the type invariant, because an
operation must not run off its list of instructions for the rest to follow; that
needs what each program contains (`SoundPrograms`) and that every call leaves a
host (`TraceType`). `UpdaterTypeCorrect`, `OnlyApprovedOperationsRun` and
`RefusalsAreFinal` follow. `OperationsExclude` needs `ExclusionInv` on top: only
the last instruction of an operation ends its job (`OnlyTheLastEnds`), so an
operation that works is active; and if that last write is reported as failed,
the recovery point is known and the job marked reopened, so no handler that works
on the installation follows. Jobs, releases, faults and retention are arbitrary.

Its second part continues with the data. Since only one operation works on the
installation, what is true of it follows from how far that operation has come:
`StageInv` says that an operation which may open the application has found the
database whole (`stage` refuses one that is not, and only the one call that drops it
loads it again), that nobody writes between the maintenance and the mark, and that a
restore starts from a recovery point that lacks nothing. `PointInv` says the same of a
job whose operation died: until its ledger entry is marked, its point holds all data
and the application is closed. `PointsInv` lists each point once, which is why pruning
the tail cannot remove one of the head. From these follow `OpenDatabaseIsWhole`,
`RetainedPointsExist`, `WritesAreRecorded` and `OnlyConfirmedLoss`: for any jobs,
releases, faults and retention, data is lost only to an approved rollback.

`ActionApproval_proofs`: `Inv` says what is true of rows (`RowsInv`), of each
handler against the rows it read earlier (`HandlersInv`), of answers (`AnswersInv`)
and of the worker's batch (`BatchInv`); what a handler read may be stale, so it
claims only what no later step can undo: a key once stored keeps its row, a row
keeps its kind. `RequestsStayOK` and `RetriesAlwaysAgree` follow for any handlers,
keys and limits. `RateStaysBounded` needs `RateInv(n)`: the recent rows counted against a
limit of `n` or less, together with the handlers that have counted against one and not yet
stored, never exceed `n` by more than the handlers that can be in that place at once. It
is an invariant for every `n`, because a handler that counts against a limit of `n` or
less counts all recent rows, however the policy has changed since.

`LocalSyncServer_proofs`: `Inv` says that a snapshot with the database's revision is
the database, which is what the bump in every changing transaction buys; that the
serialization row has one holder, and that a request which holds it, or can still get
it, has read the present counters (the others are overtaken and fail); and that every
manifest signed so far lies below the present counters, with their content where it
reaches them (`Below`). The last part needs the order of the locks: counters are
raised only by who has read the present ones (`ResolveRises`), or by a revocation.
Four properties of the run follow for any assets, devices, payloads and requests. The
refinement, `KeepsThePromise`, takes two facts more (`RunningInv`): a request that is
running is a device's, and the snapshot of the holder of the serialization row is the
database of now. With them the commit of the first transaction is `Count`, the second
is `Answer`, the second transaction of a revocation is `Raise`, a committed change is
`Change`, and every other statement is no step at all.

`LocalRuntime_proofs` assumes nothing of the order in which a removal takes the entries of
the directory. Its invariant has two parts. `Base` holds in any case: the types, what a
writer has in memory at each step, that one without its lock file was robbed of it
(`Robbed`: a writer begins only without a lock file, and only a removal, or the unlink of a
writer robbed itself, takes that of another), and the identities of generations.
`Sound` is the deny-first argument and holds until a writer enters during a removal:
`LockOK` says that only a disconnect that has begun its removal is without its lock;
`MemoryOK` says what a writer may rely on of what it read earlier; `WordsOK` that a ready
profile that no marker denies is what the server said last, where a sync that has just
begun counts as not begun, unless the marker is `removed`. For readers, `OrderOK` keeps the
generations that are or may become active in the order of their numbers, so one that was
passed is not active again (`Gone`), and a query that finds the same generation before and
after its reads was answered from it. `Inv` is `Base` and, while nobody has entered,
`Sound`; when the history starts afresh, nothing is readable and nobody at work, and
`Sound` is so again. `ReadableIsLastWordHolds`, `AnswersAreAtomicHolds`,
`WritersExcludeEachOtherHolds` and `HighWaterOnlyRisesHolds` follow, for any processes,
reads, manifests and faults.

`OptimisticReads_proofs`: every command makes a version, so while the content revision is
that of the start nothing was edited since then, and what was read so far is what was
there at the start (`ExportOK`, `PlanOK`); once it has moved nothing more is claimed,
since the read will be refused or repeated. Grants are not in the revision. An export is
therefore complete only for the assets that never lacked their grant while it went on.
Of a plan's targets the first look at the last and the second look at the first are next
to each other, so the moment between them is one at which every target had
its grant, unless some target went back. `ExportIsOneMomentHolds` and `PlanIsOneMomentHolds`
follow for any assets, batches, attempts and inventories.

`Attachments_proofs`: `Inv` rests on a number of an upload belonging to one handler
at a time (`DistinctInv`) and on what each handler knows that no later step can undo:
who removes a file has seen its row deleted, has seen that there is none, or has
failed to make one. The scheduled run is the exception the code makes: it knows what
it listed. Every upload that is answered or still pending among the files it takes
for orphans was under way while it listed, and is one of those `met`. `QuotaInv` counts
rows together with the uploads that have passed the count and not yet inserted, and
`TempsInv` says that whoever is about to insert a row has unlinked its temporary file. From
the three follows `FilesAreKept`, for any handlers, uploads, limits and failures.

`LoginSessions_proofs`: a transaction changes only rows it holds or creates, and one
that has changed something holds the serialization row or waits for it, so what it
learnt of the rows it holds is still so when it commits. `Inv` says this in two
parts. `RowsOK` is about committed rows alone: every token and every login's key that
is live belongs to the session as it stands. `TxOK` says for each kind of request what
its unwritten changes amount to at each statement, seen against the committed rows:
a refresh that has found its token holds it and the session, so neither can end
before it commits; a revocation that holds the session covers every live token; who
holds a key decides whether the session moves away from it. The properties alone are
not inductive, since a commit is right only because of what the transaction still
knows. `CountsOK` ties ids to the requests that may still take one. Commits, aborts and
deaths of others keep `TxOK` because they leave held rows alone (`Stable`).
`NoUpdateIsLost`, `SessionsEndTogether` and `OneCredentialHolds` follow for any
connections and number of requests.

Only model-checked: liveness, which is out of the prover's reach, and the findings. All
invariants, action properties and refinements of the passing runs are proved.

## What the models showed

Disagreements of code and documentation are runs that fail, `updater_schema` and
`local_runtime_removal`, the second with two findings: a disconnect removes the marker
before the profile, and its own lock before it is done. Other consequences of that
removal: it takes the files and the lock of a writer that came meanwhile, or fails because
of them, and it deletes the credential that a connect has just stored. Others
are visible in the models without a run:

- LAR-NFR-006 of `docs/LOCAL_AGENT_RUNTIME.md` keeps the old generation readable after an
  ordinary failure; the code blocks reads until a sync succeeds.
- A logout that meets a committed refresh finds no session naming the old key, and
  the session goes on under the new key; `docs/DEVELOPMENT.md:202` says that logout
  revokes the session. A key rotated from a login key is not bound to the session
  and outlives its revocation.
- Revocation and refresh lock rows in opposite orders: the victim of the cycle
  answers with a 500.
- `decideRequest` has no condition on the status, so a request that was denied or
  expired meanwhile may still be executed by a decision in flight, and the kill
  switch is not asked again when a waiting request is approved.
- Requests counted together pass the hourly limit by the number of handlers minus
  one; quotas of attachments behave alike. A handler that cannot read the policy counts
  against 60, so blocked rows can pass a lower limit. `upsertPolicy` loses updates.
- The scheduled reconciler may remove the file of an upload that was in flight
  while it listed, and an upload whose insert committed without an answer removes
  the file of an active row.
- A failed or killed upload may leave its content under a temporary name for ever: the
  inventory counts such files as unexpected and nothing removes them.
- Deleted attachments stay listed first: with more of them than the limit, the
  inventory is truncated for ever and no orphan is removed any more
  (`docs/TECHNICAL_SPEC.md:106` makes that a condition of removal).
- A grant that is changed and changed back keeps its row, so an import plan cannot
  see it. That matters when it happens during one capture to a target that is neither
  the first nor the last, or to two targets; that one is enough came out of a proof
  that failed.

## Plan

Done: registry, outbox and reconciliation; the updater; local runtime and sync
server; sessions; action approval; attachments; exports and import capture.

Proofs: done for every safety property of the runs, and for both abstract
specifications.

Next, in this order:

1. Composition: `LocalRuntime` over `SyncPromise` instead of its two counters, so that a
   client meets exactly what the server keeps, and a theorem that an honest server is
   never refused.
2. Leases and the clock in the local runtime.
3. More of the API and of `auth.ts`: device enrolment, invitations, the answer cache.

## Not modelled

- The answer cache: its key names the version ids and content hashes of the results
  an answer was made from, so one stored late is found only for equal results.
- The worker's schedule: the jobs that change modelled state are steps that may
  happen at any time; overlap control and shutdown are not modelled.
- Migrations: one advisory lock is held from the first read to the last write; what
  the SQL does to data is not state of a running system.
- The import planner's classification and the governed hashes: pure functions over
  documents whose cases are the documents' own.
- Tenant policies and evaluation runs: one-row settings, whose lost updates are the
  same as `upsertPolicy`'s, and append-only records.
- The rest of the HTTP API, SDK, CLI, MCP servers, the web interface and the
  scripts: requests, formatting and rendering without state others rely on. They
  are most of the repository's lines.
- `indexAllAssets` of the retrieval repository is called from nowhere.
