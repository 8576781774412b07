------------------------- MODULE AssetChangeOutbox -------------------------
(***************************************************************************)
(* The durable queue of derived work for content changes: the row trigger  *)
(* of migration 039_asset_change_outbox.sql and                            *)
(* PostgresAssetChangeOutboxRepository.  There is one row per asset at     *)
(* most.  A change to the asset, in the same transaction, creates the row  *)
(* or advances its generation and cancels the running lease; a reconciler  *)
(* claims the row under a lease, and acknowledges (deletes) it or gives it *)
(* back for a later attempt.                                               *)
(*                                                                         *)
(* A lease token is a random uuid drawn per claim, and a reconciler keeps  *)
(* only the token of its latest claim, so the reconciler's own name stands *)
(* for it: a row carries r's name exactly while the token r drew last for  *)
(* this asset is the row's token.  Wall-clock time is two flags, due       *)
(* (available_at has passed) and expired (lease_expires_at has passed).    *)
(***************************************************************************)
EXTENDS AssetRegistry

CONSTANTS
    Workers,        \* worker processes running reconcileAssetChanges
    Requests,       \* API requests running finishAssetChange
    NoReconciler,   \* lease_token IS NULL
    MaxAttempts     \* attempts at which a row is reported as failed (8)

ASSUME ReconcilerAssumption ==
    /\ NoReconciler \notin Workers \cup Requests
    /\ Workers \cap Requests = {}

ASSUME MaxAttemptsAssumption == MaxAttempts \in Nat \ {0}

VARIABLE outbox     \* asset_change_outbox, by asset

Reconcilers == Workers \cup Requests

Absent == [state |-> "absent", generation |-> 0, attempts |-> 0,
           token |-> NoReconciler, due |-> FALSE, expired |-> FALSE]

Row == [state : {"absent", "pending", "processing", "failed"},
        generation : Nat, attempts : 0 .. MaxAttempts,
        token : Reconcilers \cup {NoReconciler},
        due : BOOLEAN, expired : BOOLEAN]

OutboxTypeOK == outbox \in [Assets -> Row]

OutboxInit == outbox = [a \in Assets |-> Absent]

-----------------------------------------------------------------------------

\* MUTANT of RecordChange: ON CONFLICT DO NOTHING
RecordChangeOnce(a, n) ==
    outbox' = IF outbox[a].state # "absent" THEN outbox
              ELSE [outbox EXCEPT ![a] = [Absent EXCEPT
                      !.state = "pending", !.generation = n, !.due = TRUE]]

\* enqueue_canonical_asset_change, fired by n row updates of one transaction.
\* A row that was acknowledged and deleted starts again at generation 1.
RecordChange(a, n) ==
    outbox' = [outbox EXCEPT ![a] =
                 [state |-> "pending", generation |-> @.generation + n,
                  attempts |-> 0, token |-> NoReconciler,
                  due |-> TRUE, expired |-> FALSE]]

\* A content command with its trigger, which commit together.  Creation
\* inserts a head without a version, which the trigger skips; publication
\* updates the head twice.
SaveChange(a) ==
    \/ /\ \/ \E snapshot \in Inputs : CreateAsset(a, snapshot)
          \/ \E snapshot \in Inputs : UpdateAsset(a, NoVersion, snapshot)
          \/ \E status \in Statuses : ReviewAsset(a, NoVersion, status)
          \/ \E target \in 1 .. MaxVersions : RestoreAssetVersion(a, NoVersion, target)
       /\ RecordChange(a, 1)
    \/ /\ PublishAsset(a, NoVersion)
       /\ RecordChange(a, 2)

-----------------------------------------------------------------------------

\* MUTANT of Claimable: work that failed too often is not offered again
ClaimableUnlessFailed(a) ==
    /\ outbox[a].due
    /\ outbox[a].state = "pending" \/ outbox[a].expired

\* MUTANT of Claimable: work whose holder died is not offered again
ClaimableUnlessTaken(a) ==
    /\ outbox[a].due
    /\ outbox[a].state \in {"pending", "failed"}

Claimable(a) ==
    /\ outbox[a].due
    /\ \/ outbox[a].state \in {"pending", "failed"}
       \/ outbox[a].expired

\* MUTANT of CappedIncrement: attempts + 1 without LEAST
PlainIncrement(attempts) == attempts + 1

CappedIncrement(attempts) ==
    IF attempts + 1 <= MaxAttempts THEN attempts + 1 ELSE MaxAttempts

Claim(r, a) ==
    /\ Claimable(a)
    /\ outbox' = [outbox EXCEPT ![a] =
                    [state |-> "processing", generation |-> @.generation,
                     attempts |-> CappedIncrement(@.attempts), token |-> r,
                     due |-> TRUE, expired |-> FALSE]]

\* MUTANT of LeaseHeld: the generation alone identifies the work
SameGeneration(r, a, generation) ==
    /\ outbox[a].state = "processing"
    /\ outbox[a].generation = generation
    /\ ~outbox[a].expired

\* The predicate complete, fail and requireAssetChangeLease share: the row is
\* still the work that r claimed and its lease has not run out.
LeaseHeld(r, a, generation) ==
    /\ outbox[a].state = "processing"
    /\ outbox[a].generation = generation
    /\ outbox[a].token = r
    /\ ~outbox[a].expired

Acknowledge(r, a, generation) ==
    outbox' = IF LeaseHeld(r, a, generation)
              THEN [outbox EXCEPT ![a] = Absent]
              ELSE outbox

\* PostgresAssetChangeOutboxRepository.fail: back off, keep the work
GiveBack(r, a, generation) ==
    outbox' = IF LeaseHeld(r, a, generation)
              THEN [outbox EXCEPT ![a] =
                      [state |-> IF @.attempts >= MaxAttempts
                                 THEN "failed" ELSE "pending",
                       generation |-> @.generation, attempts |-> @.attempts,
                       token |-> NoReconciler, due |-> FALSE, expired |-> FALSE]]
              ELSE outbox

\* The clock reaches lease_expires_at.
ExpireLease(a) ==
    /\ outbox[a].state = "processing"
    /\ ~outbox[a].expired
    /\ outbox' = [outbox EXCEPT ![a] = [@ EXCEPT !.expired = TRUE]]

\* The clock reaches available_at (retryDelayMs after the failure).
BecomeDue(a) ==
    /\ outbox[a].state \in {"pending", "failed"}
    /\ ~outbox[a].due
    /\ outbox' = [outbox EXCEPT ![a] = [@ EXCEPT !.due = TRUE]]
=============================================================================
