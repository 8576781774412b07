-------------------------- MODULE LocalSyncServer --------------------------
(* The server side of local sync: how a manifest is built and signed while    *)
(* content, grants and device sessions change underneath it.                  *)
(*                                                                            *)
(* A manifest takes two transactions. The first, at REPEATABLE READ, locks    *)
(* the one serialization row, reads what the principal may cache and brings   *)
(* the principal's two counters up to date; the second, after the device was  *)
(* authenticated once more, locks that row again, compares and signs. Every   *)
(* transaction that changes something a manifest depends on bumps the         *)
(* revision in that row from a trigger, and keeps the row until it commits.   *)
(*                                                                            *)
(* One principal with several devices; a device whose call timed out may ask  *)
(* again while its first request goes on.                                     *)
(* Two transactions conflict through the serialization row and the counters'  *)
(* row only, so whatever a transaction does while it holds the first is one   *)
(* step, except where it may be interrupted.                                  *)
EXTENDS Naturals, FiniteSets, FiniteSetsExt

CONSTANTS Assets, Devices,
          Requests,      \* manifest requests in flight at a time
          MaxPayload,    \* payloads of a published version; a payload is as large as its number
          MaxBytes,      \* the largest snapshot that may be signed
          MaxAttempts,   \* attempts at the first transaction
          MaxChanges,    \* bound on the transactions that change the database
          MaxRequests    \* bound on the manifest requests

ASSUME LocalSyncServerAssumption ==
  /\ IsFiniteSet(Assets)
  /\ MaxPayload \in Nat /\ MaxBytes \in Nat /\ MaxAttempts \in Nat \ {0}
  /\ MaxChanges \in Nat /\ MaxRequests \in Nat

VARIABLES db,        \* what committed transactions left
          counters,  \* the principal's row of local_sync_principal_state
          change,    \* the transaction that holds the serialization row after its trigger
          bumps,     \* revocations whose epoch is yet to be raised
          request,
          issued,    \* the manifests that were signed
          used       \* changes and requests so far

vars == <<db, counters, change, bumps, request, issued, used>>
-----------------------------------------------------------------------------
(* Data.                                                                      *)

NotThere == 0
NotPublished == [a \in Assets |-> NotThere]
NoDevice == 0

\* The records of a snapshot: the payload of every asset the principal may
\* cache. Its record-set hash stands for all of it, its entitlement hash for
\* the assets that are in it.
Eligible(d) == [a \in Assets |-> IF a \in d.granted THEN d.published[a] ELSE NotThere]
EntitlementOf(records) == {a \in Assets : records[a] # NotThere}
Bytes(records) == MapThenSumSet(LAMBDA a : records[a], Assets)

NoRow == [epoch |-> 0, gen |-> 0, records |-> NotPublished, prev |-> {}]
FirstRow == [NoRow EXCEPT !.epoch = 1, !.gen = 1]

\* MUTANT of Resolve: the generation follows the entitlement, not the records.
ResolveByEntitlement(row, records) ==
  LET current == IF row = NoRow THEN FirstRow ELSE row
      changed == EntitlementOf(current.records) # EntitlementOf(records)
  IN [epoch |-> current.epoch + (IF changed THEN 1 ELSE 0),
      gen |-> current.gen + (IF changed THEN 1 ELSE 0),
      records |-> records,
      prev |-> IF changed THEN {current.records} ELSE current.prev]

\* The counters for these records: the epoch moves with the set of assets, the
\* generation with any record, and the records it replaces are kept as the only
\* base of a delta. A first snapshot is compared with an empty row.
Resolve(row, records) ==
  LET current == IF row = NoRow THEN FirstRow ELSE row
      moved == current.records # records
  IN [epoch |-> current.epoch
        + (IF EntitlementOf(current.records) = EntitlementOf(records) THEN 0 ELSE 1),
      gen |-> current.gen + (IF moved THEN 1 ELSE 0),
      records |-> records,
      prev |-> IF moved THEN {current.records} ELSE current.prev]

NoManifest == [device |-> NoDevice, key |-> 0, epoch |-> 0, gen |-> 0,
               records |-> NotPublished, mode |-> "none", base |-> NotPublished,
               changed |-> NotPublished, removed |-> {}]
NoChange == [published |-> NotPublished, granted |-> {},
             key |-> [d \in Devices |-> NoDevice], revision |-> 0]
Idle == [pc |-> "idle", device |-> NoDevice, key |-> 0, known |-> NoManifest, attempt |-> 0, overtaken |-> FALSE,
         snap |-> NoChange, row |-> NoRow]

Init ==
  /\ db = [published |-> NotPublished, granted |-> Assets,
           key |-> [d \in Devices |-> 1], revision |-> 0]
  /\ counters = NoRow
  /\ change = NoChange /\ bumps = {}
  /\ request = [r \in Requests |-> Idle]
  /\ issued = {}
  /\ used = [changes |-> 0, requests |-> 0]

\* The serialization row is held by a change that has run its trigger, or by a
\* snapshot between its lock and its commit.
SerializationFree == change = NoChange /\ \A r \in Requests : request[r].pc # "resolve"
-----------------------------------------------------------------------------
(* Transactions that change what a manifest depends on.                       *)

\* MUTANT of Change: the trigger is missing on one of the tables.
ChangeUnseen(new) ==
  /\ SerializationFree /\ used.changes < MaxChanges
  /\ new # db
  /\ change' = [new EXCEPT !.revision = IF new.granted # db.granted THEN @ ELSE @ + 1]
  /\ used' = [used EXCEPT !.changes = @ + 1]
  /\ UNCHANGED <<db, counters, request, issued>>

\* A row was changed: its trigger waits for the serialization row and bumps the
\* revision. Nothing of the transaction is seen before it commits.
Change(new) ==
  /\ SerializationFree /\ used.changes < MaxChanges
  /\ new # db
  /\ change' = [new EXCEPT !.revision = @ + 1]
  /\ used' = [used EXCEPT !.changes = @ + 1]
  /\ UNCHANGED <<db, counters, request, issued>>

\* A version is published, or the asset archived or made private to the server.
PublishOrWithdraw(a, payload) ==
  Change([db EXCEPT !.published[a] = payload]) /\ UNCHANGED bumps

\* A grant, a group membership or a role changes what the principal may read.
ChangeAuthorization(granted) ==
  Change([db EXCEPT !.granted = granted]) /\ UNCHANGED bumps

\* A refresh rotates the device's key; requests that carry the old one end.
RefreshDevice(d) ==
  /\ db.key[d] # NoDevice
  /\ Change([db EXCEPT !.key[d] = @ + 1]) /\ UNCHANGED bumps

\* A device is revoked, by itself, by its user or by an administrator.
RevokeDevice(d) ==
  /\ db.key[d] # NoDevice
  /\ Change([db EXCEPT !.key[d] = NoDevice])
  /\ bumps' = bumps \cup {d}

\* To revoke once more changes nothing, but it goes on to the second transaction.
RevokeAgain(d) ==
  /\ db.key[d] = NoDevice /\ d \notin bumps /\ used.changes < MaxChanges
  /\ bumps' = bumps \cup {d}
  /\ used' = [used EXCEPT !.changes = @ + 1]
  /\ UNCHANGED <<db, counters, change, request, issued>>

CommitChange ==
  /\ change # NoChange
  /\ db' = change /\ change' = NoChange
  /\ UNCHANGED <<counters, bumps, request, issued, used>>

RollBackChange ==
  /\ change # NoChange
  /\ change' = NoChange
  \* A revocation that fails does not reach its second transaction.
  /\ bumps' = {d \in bumps : db.key[d] = NoDevice}
  /\ UNCHANGED <<db, counters, request, issued, used>>

\* A transaction updated the counters' row: snapshots older than it fail.
Overtake(requests) ==
  [r \in Requests |-> [requests[r] EXCEPT !.overtaken = @ \/ requests[r].pc = "lock"]]

\* The second transaction of a revocation.
BumpEpoch(d) ==
  /\ d \in bumps /\ db.key[d] = NoDevice /\ SerializationFree
  /\ bumps' = bumps \ {d}
  /\ IF counters = NoRow THEN UNCHANGED <<counters, request>>
     ELSE counters' = [counters EXCEPT !.epoch = @ + 1] /\ request' = Overtake(request)
  /\ UNCHANGED <<db, change, issued, used>>

\* It never runs if the process stops in between.
LoseBump(d) ==
  /\ d \in bumps /\ db.key[d] = NoDevice
  /\ bumps' = bumps \ {d}
  /\ UNCHANGED <<db, counters, change, request, issued, used>>
-----------------------------------------------------------------------------
(* A manifest request.                                                        *)

StartRequest(r, d, known) ==
  /\ request[r].pc = "idle" /\ used.requests < MaxRequests
  /\ db.key[d] # NoDevice
  /\ request' = [request EXCEPT ![r] = [Idle EXCEPT !.pc = "begin", !.device = d, !.key = db.key[d],
                                                    !.known = known, !.attempt = 1]]
  /\ used' = [used EXCEPT !.requests = @ + 1]
  /\ UNCHANGED <<db, counters, change, bumps, issued>>

\* REPEATABLE READ: the first statement fixes what the transaction sees.
BeginSnapshot(r) ==
  /\ request[r].pc = "begin"
  /\ request' = [request EXCEPT ![r].pc = "lock", ![r].snap = db, ![r].row = counters,
                                ![r].overtaken = FALSE]
  /\ UNCHANGED <<db, counters, change, bumps, issued, used>>

\* MUTANT of SerializationFails: only a moved revision is noticed.
RevisionMoved(r) == request[r].snap.revision # db.revision

\* A row this transaction must lock was updated after its snapshot (40001).
SerializationFails(r) == request[r].snap.revision # db.revision \/ request[r].overtaken

RetrySnapshot(r) ==
  /\ request[r].pc = "lock" /\ SerializationFree
  /\ SerializationFails(r)
  /\ request' = [request EXCEPT ![r] =
       IF @.attempt < MaxAttempts
       THEN [@ EXCEPT !.pc = "begin", !.attempt = request[r].attempt + 1] ELSE Idle]
  /\ UNCHANGED <<db, counters, change, bumps, issued, used>>

\* The rows are locked in this order: serialization row, then counters' row; the
\* principal is checked in between.
LockSnapshot(r) ==
  /\ request[r].pc = "lock" /\ SerializationFree
  /\ ~SerializationFails(r)
  /\ request' = [request EXCEPT ![r] =
       IF @.snap.key[@.device] = @.key THEN [@ EXCEPT !.pc = "resolve"] ELSE Idle]
  /\ UNCHANGED <<db, counters, change, bumps, issued, used>>

\* Too many or too large records: the transaction is rolled back.
ResolveSnapshot(r) ==
  /\ request[r].pc = "resolve"
  /\ LET records == Eligible(request[r].snap)
         row == Resolve(request[r].row, records)
     IN IF Bytes(records) > MaxBytes
        THEN request' = [request EXCEPT ![r] = Idle] /\ UNCHANGED counters
        ELSE /\ counters' = row
             /\ request' = Overtake([request EXCEPT ![r].pc = "authenticate", ![r].row = row])
  /\ UNCHANGED <<db, change, bumps, issued, used>>

\* The credential is authenticated again, outside any transaction. A role or a
\* group that changed since the start ends the request here already; a grant
\* that did is left to the second transaction.
Reauthenticate(r) ==
  /\ request[r].pc = "authenticate"
  /\ \/ /\ db.key[request[r].device] = request[r].key
        /\ request' = [request EXCEPT ![r].pc = "sign"]
     \/ /\ db.key[request[r].device] # request[r].key \/ db.granted # request[r].snap.granted
        /\ request' = [request EXCEPT ![r] = Idle]
  /\ UNCHANGED <<db, counters, change, bumps, issued, used>>

\* MUTANT of ModesFor: a delta from any earlier generation.
ModesForEarlier(known, row) ==
  IF known.epoch = row.epoch /\ known.gen = row.gen /\ known.records = row.records
  THEN {"unchanged"}
  ELSE {"full"} \cup (IF known # NoManifest /\ known.gen < row.gen /\ row.prev # {}
                      THEN {"delta"} ELSE {})

\* What the device holds already, as it says: nothing is sent for the same
\* counters; a delta needs the previous generation and its exact records.
ModesFor(known, row) ==
  IF known.epoch = row.epoch /\ known.gen = row.gen /\ known.records = row.records
  THEN {"unchanged"}
  ELSE {"full"} \cup
       (IF known # NoManifest /\ known.epoch <= row.epoch /\ known.gen + 1 = row.gen
            /\ known.records \in row.prev
        THEN {"delta"} ELSE {})

Manifest(q, mode) ==
  LET new == q.row.records
      base == IF mode = "delta" THEN CHOOSE p \in q.row.prev : TRUE ELSE q.known.records
      sent == IF mode = "full" THEN Assets
              ELSE IF mode = "delta" THEN {a \in Assets : new[a] # base[a]} ELSE {}
  IN [device |-> q.device, key |-> q.key, epoch |-> q.row.epoch, gen |-> q.row.gen,
      records |-> new, mode |-> mode, base |-> q.known.records,
      changed |-> [a \in Assets |-> IF a \in sent THEN new[a] ELSE NotThere],
      removed |-> IF mode = "delta" THEN {a \in Assets : base[a] # NotThere /\ new[a] = NotThere}
                  ELSE {}]

\* MUTANT of IsCurrent: the counters' row is not compared.
IsCurrentRevision(r) ==
  /\ db.revision = request[r].snap.revision
  /\ db.key[request[r].device] = request[r].key

\* The second transaction compares the revision, the device and the counters.
IsCurrent(r) ==
  /\ db.revision = request[r].snap.revision
  /\ db.key[request[r].device] = request[r].key
  /\ counters = request[r].row

SignManifest(r) ==
  /\ request[r].pc = "sign" /\ SerializationFree
  /\ IF IsCurrent(r)
     THEN \E mode \in ModesFor(request[r].known, request[r].row) :
            issued' = issued \cup {Manifest(request[r], mode)}
     ELSE UNCHANGED issued
  /\ request' = [request EXCEPT ![r] = Idle]
  /\ UNCHANGED <<db, counters, change, bumps, used>>

\* The process dies, or a statement fails: the open transaction is rolled back.
DropRequest(r) ==
  /\ request[r].pc # "idle"
  /\ request' = [request EXCEPT ![r] = Idle]
  /\ UNCHANGED <<db, counters, change, bumps, issued, used>>
-----------------------------------------------------------------------------
Next ==
  \/ \E a \in Assets, payload \in 0 .. MaxPayload : PublishOrWithdraw(a, payload)
  \/ \E granted \in SUBSET Assets : ChangeAuthorization(granted)
  \/ CommitChange \/ RollBackChange
  \/ \E d \in Devices : \/ RefreshDevice(d) \/ RevokeDevice(d) \/ RevokeAgain(d)
                        \/ BumpEpoch(d) \/ LoseBump(d)
  \/ \E r \in Requests :
       \/ \E d \in Devices, known \in issued \cup {NoManifest} : StartRequest(r, d, known)
       \/ BeginSnapshot(r) \/ RetrySnapshot(r) \/ LockSnapshot(r) \/ ResolveSnapshot(r)
       \/ Reauthenticate(r) \/ SignManifest(r) \/ DropRequest(r)

Spec == Init /\ [][Next]_vars
-----------------------------------------------------------------------------
(* Properties.                                                                *)

Records == [Assets -> 0 .. MaxPayload]
Row == [epoch : Nat, gen : Nat, records : Records,
        prev : {{}} \cup {{p} : p \in Records}]
Database == [published : Records, granted : SUBSET Assets,
             key : [Devices -> Nat], revision : Nat]

\* The counters' row is always one that Resolve and BumpEpoch can produce for
\* some history of snapshots, and a request holds the serialization row only if
\* no change does.
TypeOK ==
  /\ db \in Database /\ counters \in Row
  /\ change \in Database
  /\ \A r \in Requests : request[r].snap.revision <= db.revision
  /\ Cardinality({r \in Requests : request[r].pc = "resolve"})
       + (IF change = NoChange THEN 0 ELSE 1) <= 1

\* Two manifests of a principal with one epoch are about the same assets, with
\* one generation about the same records: a client blocks its profile when
\* accepted counters come back with other hashes.
CountersIdentifyContent ==
  /\ TypeOK
  /\ \A m, n \in issued : /\ m.epoch = n.epoch => EntitlementOf(m.records) = EntitlementOf(n.records)
                          /\ m.gen = n.gen => m.records = n.records

\* A delta applied to the records the device named, and an unchanged answer
\* over them, give the records the manifest was signed for: nothing withdrawn
\* survives on a device because it was left out of a delta.
DeltasGiveTheSnapshot ==
  \A m \in issued :
    [a \in Assets |-> IF a \in m.removed THEN NotThere
                      ELSE IF m.changed[a] # NotThere THEN m.changed[a]
                      ELSE IF m.mode = "full" THEN NotThere ELSE m.base[a]] = m.records

\* At the moment a manifest is signed it holds exactly what the principal may
\* cache, and the device is not revoked, whatever was committed since the
\* snapshot was taken and the device authenticated.
SignedIsCurrent ==
  [][\A m \in issued' \ issued : m.records = Eligible(db) /\ m.key = db.key[m.device]]_vars

\* In the order of signing no counter ever falls: a client refuses a manifest
\* below its high-water mark, and would refuse this server for ever.
CountersNeverFall ==
  [][\A m \in issued' \ issued, n \in issued : n.epoch <= m.epoch /\ n.gen <= m.gen]_vars

\* The promise of SyncPromise: for its devices the two transactions of a
\* manifest are one moment, whatever happens before, between and after them.
ContentOf(records) == [scope |-> EntitlementOf(records), records |-> records]

Promise == INSTANCE SyncPromise WITH
  content <- ContentOf(Eligible(db)),
  keys <- db.key,
  counted <- [epoch |-> counters.epoch, gen |-> counters.gen, content |-> ContentOf(counters.records)],
  told <- {[device |-> m.device, key |-> m.key, epoch |-> m.epoch, gen |-> m.gen,
            content |-> ContentOf(m.records)] : m \in issued}

ServesAsPromised == Promise!Spec
=============================================================================
