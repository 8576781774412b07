------------------------ MODULE AssetReconciliation ------------------------
(***************************************************************************)
(* Content commands, the durable outbox and the search index together:     *)
(* reconcileAssetChanges of the worker (apps/worker/src/asset-changes.ts), *)
(* finishAssetChange of the API (apps/api/src/server.ts) and the index     *)
(* transactions of packages/db/src/retrieval.ts.  Every database statement *)
(* or transaction of a reconciler is a step of its own, so reconcilers     *)
(* interleave with each other, with commands, and with running-out leases. *)
(*                                                                         *)
(* The index of an asset is the version its chunks were built from; chunks *)
(* are replaced in one transaction.  The invalidation of the tenant's      *)
(* answer cache is the step between indexing and acknowledgment; the cache *)
(* itself is not part of this module.  A fault is an exception of a        *)
(* repository or the embedding provider, the death of a process, or work   *)
(* that outlasts its lease.                                                *)
(***************************************************************************)
EXTENDS AssetChangeOutbox

CONSTANT MaxFaults      \* bound: faults of one behaviour

ASSUME MaxFaultsAssumption == MaxFaults \in Nat

VARIABLES
    index,      \* asset_chunks: the version indexed for each asset
    pc,         \* the next step of each reconciler
    job,        \* what each reconciler holds in its local variables
    faults      \* faults so far

vars == <<versions, head, outbox, index, pc, job, faults>>

NoAsset == "no asset"

\* asset and generation: the claimed work (generation 0: none claimed);
\* read: the published version it fetched; expected: expectedPublishedVersionId
NoJob == [asset |-> NoAsset, generation |-> 0,
          read |-> NoVersion, expected |-> NoVersion]

Steps == {"idle", "claim", "read", "readCurrent", "index", "clear", "invalidate",
          "acknowledge", "giveBack", "abandon", "notify"}

TypeOK ==
    /\ RegistryTypeOK
    /\ OutboxTypeOK
    /\ index \in [Assets -> Nat]
    /\ pc \in [Reconcilers -> Steps]
    /\ job \in [Reconcilers -> [asset : Assets \cup {NoAsset}, generation : Nat,
                                read : Nat, expected : Nat]]
    /\ \A r \in Reconcilers : pc[r] # "idle" => job[r].asset \in Assets
    /\ faults \in 0 .. MaxFaults

Init ==
    /\ RegistryInit
    /\ OutboxInit
    /\ index = [a \in Assets |-> NoVersion]
    /\ pc = [r \in Reconcilers |-> "idle"]
    /\ job = [r \in Reconcilers |-> NoJob]
    /\ faults = 0

-----------------------------------------------------------------------------

\* What search returns of an asset: its chunks, if they belong to the version
\* that is published and exposed when the query runs.
Served(a) == IF index[a] = Projection(a) THEN index[a] ELSE NoVersion

Held(r) == LeaseHeld(r, job[r].asset, job[r].generation)

GoTo(r, step) ==
    /\ pc' = [pc EXCEPT ![r] = step]
    /\ UNCHANGED job

Finish(r) ==
    /\ pc' = [pc EXCEPT ![r] = "idle"]
    /\ job' = [job EXCEPT ![r] = NoJob]

\* The catch block: the worker gives the work back at once, the API still
\* invalidates the cache first.
OnError(r) == GoTo(r, IF r \in Workers THEN "giveBack" ELSE "abandon")

Fault ==
    /\ faults < MaxFaults
    /\ faults' = faults + 1

NoFault == UNCHANGED faults

registryAndIndex == <<versions, head, index>>

-----------------------------------------------------------------------------
(* Commands, and how reconcilers come by work.                             *)

\* A content command of API request r commits; finishAssetChange follows with
\* the detail the command returned.
SaveAsset(r, a) ==
    /\ r \in Requests
    /\ pc[r] = "idle"
    /\ SaveChange(a)
    /\ pc' = [pc EXCEPT ![r] = "claim"]
    /\ job' = [job EXCEPT ![r] = [NoJob EXCEPT !.asset = a,
                                               !.expected = head'[a].published]]
    /\ UNCHANGED <<index, faults>>

\* The API claims the work of its own asset.  It leaves the work to the worker
\* when there is none due, its row is locked, or the claim throws.
ClaimForRequest(r) ==
    /\ pc[r] = "claim"
    /\ \/ /\ Claim(r, job[r].asset)
          /\ pc' = [pc EXCEPT ![r] = "read"]
          /\ job' = [job EXCEPT ![r].generation = outbox[job[r].asset].generation]
       \/ /\ GoTo(r, "notify")
          /\ UNCHANGED outbox
    /\ UNCHANGED <<registryAndIndex, faults>>

ClaimForWorker(r, a) ==
    /\ r \in Workers
    /\ pc[r] = "idle"
    /\ Claim(r, a)
    /\ pc' = [pc EXCEPT ![r] = "read"]
    /\ job' = [job EXCEPT ![r] = [NoJob EXCEPT !.asset = a,
                                               !.generation = outbox[a].generation]]
    /\ UNCHANGED <<registryAndIndex, faults>>

-----------------------------------------------------------------------------
(* The steps of a reconciler that claimed work.                            *)

\* getAssetByStableId(view: "published")
ReadPublished(r) ==
    /\ pc[r] = "read"
    /\ \/ /\ Projection(job[r].asset) # NoVersion
          /\ job' = [job EXCEPT ![r].read = Projection(job[r].asset)]
          /\ pc' = [pc EXCEPT ![r] = "index"]
          /\ NoFault
       \/ /\ Projection(job[r].asset) = NoVersion
          /\ GoTo(r, IF r \in Workers THEN "readCurrent" ELSE "clear")
          /\ NoFault
       \/ OnError(r) /\ Fault
    /\ UNCHANGED <<registryAndIndex, outbox>>

\* The worker asks again, for the pointer the clearing transaction checks.
ReadCurrent(r) ==
    /\ pc[r] = "readCurrent"
    /\ \/ /\ job' = [job EXCEPT ![r].expected = head[job[r].asset].published]
          /\ pc' = [pc EXCEPT ![r] = "clear"]
          /\ NoFault
       \/ OnError(r) /\ Fault
    /\ UNCHANGED <<registryAndIndex, outbox>>

\* indexAsset: embeds, then replaces the chunks in a transaction that locks
\* the asset row and the outbox row
IndexAsset(r) ==
    /\ pc[r] = "index"
    /\ \/ /\ head[job[r].asset].published = job[r].read
          /\ Held(r)
          /\ index' = [index EXCEPT ![job[r].asset] = job[r].read]
          /\ GoTo(r, "invalidate")
          /\ NoFault
       \/ /\ head[job[r].asset].published # job[r].read \/ ~Held(r)
          /\ OnError(r)
          /\ NoFault
          /\ UNCHANGED index
       \/ OnError(r) /\ Fault /\ UNCHANGED index
    /\ UNCHANGED <<versions, head, outbox>>

\* clearAssetIndex, under the same two locks
ClearAssetIndex(r) ==
    /\ pc[r] = "clear"
    /\ \/ /\ head[job[r].asset].published = job[r].expected
          /\ Held(r)
          /\ index' = [index EXCEPT ![job[r].asset] = NoVersion]
          /\ GoTo(r, "invalidate")
          /\ NoFault
       \/ /\ head[job[r].asset].published # job[r].expected \/ ~Held(r)
          /\ OnError(r)
          /\ NoFault
          /\ UNCHANGED index
       \/ OnError(r) /\ Fault /\ UNCHANGED index
    /\ UNCHANGED <<versions, head, outbox>>

\* invalidateTenant, and the API's audit event: after an index write, after an
\* error of the API, and by an API request without work
InvalidateCache(r) ==
    /\ \/ pc[r] = "invalidate" /\ GoTo(r, "acknowledge") /\ NoFault
       \/ pc[r] = "invalidate" /\ GoTo(r, "giveBack") /\ Fault
       \/ pc[r] = "abandon" /\ GoTo(r, "giveBack") /\ NoFault
       \/ pc[r] = "notify" /\ Finish(r) /\ NoFault
    /\ UNCHANGED <<registryAndIndex, outbox>>

\* outbox.complete: false when the lease was lost.  An exception may follow a
\* committed deletion; the worker then tries to give the work back.
Complete(r) ==
    /\ pc[r] = "acknowledge"
    /\ \/ /\ Acknowledge(r, job[r].asset, job[r].generation)
          /\ Finish(r)
          /\ NoFault
       \/ /\ Acknowledge(r, job[r].asset, job[r].generation) \/ UNCHANGED outbox
          /\ IF r \in Workers THEN GoTo(r, "giveBack") ELSE Finish(r)
          /\ Fault
    /\ UNCHANGED registryAndIndex

\* outbox.fail; when it throws, the row waits for its lease to run out
Fail(r) ==
    /\ pc[r] = "giveBack"
    /\ \/ GiveBack(r, job[r].asset, job[r].generation) /\ NoFault
       \/ UNCHANGED outbox /\ Fault
    /\ Finish(r)
    /\ UNCHANGED registryAndIndex

\* The process dies, and restarts without any memory of its work.
Crash(r) ==
    /\ pc[r] # "idle"
    /\ Finish(r)
    /\ Fault
    /\ UNCHANGED <<registryAndIndex, outbox>>

\* A lease runs out: freely when nobody is working under it any more,
\* otherwise because its holder is too slow, which is a fault.
Expire(a) ==
    /\ ExpireLease(a)
    /\ IF \E r \in Reconcilers : pc[r] # "idle" /\ job[r].asset = a /\ Held(r)
       THEN Fault ELSE NoFault
    /\ UNCHANGED <<registryAndIndex, pc, job>>

RetryDue(a) ==
    /\ BecomeDue(a)
    /\ UNCHANGED <<registryAndIndex, pc, job, faults>>

-----------------------------------------------------------------------------

Step(r) ==
    \/ ClaimForRequest(r) \/ (\E a \in Assets : ClaimForWorker(r, a))
    \/ ReadPublished(r) \/ ReadCurrent(r)
    \/ IndexAsset(r) \/ ClearAssetIndex(r)
    \/ InvalidateCache(r) \/ Complete(r) \/ Fail(r)

Next ==
    \/ \E r \in Reconcilers :
          Step(r) \/ Crash(r) \/ (\E a \in Assets : SaveAsset(r, a))
    \/ \E a \in Assets : Expire(a) \/ RetryDue(a)

Spec == Init /\ [][Next]_vars

\* Running code goes on: the worker's loop is rescheduled after every batch, a
\* request runs to its end, and the clock advances.  Nothing makes an editor
\* save or a process die.
Fairness ==
    /\ \A r \in Reconcilers : WF_vars(Step(r))
    /\ \A a \in Assets : WF_vars(Expire(a)) /\ WF_vars(RetryDue(a))

FairSpec == Spec /\ Fairness

-----------------------------------------------------------------------------
(* What must hold.                                                         *)

\* When an asset has no row in the outbox, its chunks are exactly those of its
\* published projection: no change was acknowledged by work that had read an
\* earlier state, and no late writer put back or removed chunks afterwards
\* (ASSET_CHANGE_RECOVERY.md: "an older worker cannot erase newer work or
\* restore stale chunks").
DrainedIsReconciled ==
    \A a \in Assets : outbox[a].state = "absent" => index[a] = Projection(a)

\* The promise of DerivedIndex, with a drained outbox as the sign that the
\* index has caught up.
Promise == INSTANCE DerivedIndex WITH
    Keys <- Assets,
    Values <- 1 .. MaxVersions,
    Nothing <- NoVersion,
    source <- [a \in Assets |-> Projection(a)],
    served <- [a \in Assets |-> Served(a)],
    settled <- {a \in Assets : outbox[a].state = "absent"}

IndexKeepsItsPromise == Promise!Spec

\* Work is never abandoned, whatever fails on the way and however often it
\* already failed: the outbox of each asset is drained again and again.
WorkIsNeverAbandoned ==
    \A a \in Assets : []<>(outbox[a].state = "absent")

\* What is published becomes searchable, unless it is changed before that.
PublishedBecomesSearchable ==
    \A a \in Assets, v \in 1 .. MaxVersions :
        Projection(a) = v ~> Served(a) = v \/ Projection(a) # v
=============================================================================
