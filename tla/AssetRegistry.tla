---------------------------- MODULE AssetRegistry ----------------------------
(***************************************************************************)
(* The canonical content registry: PostgresRegistryRepository in           *)
(* packages/db/src/index.ts.  An asset is a mutable head row plus an       *)
(* append-only list of version snapshots.  Every command appends one       *)
(* snapshot inside one transaction that holds the head row FOR UPDATE, so  *)
(* each command is one action.  The head names the version being edited    *)
(* (current) and the version readers may see (published).                  *)
(*                                                                         *)
(* Abstractions.  A version is its number within the asset (its uuid and   *)
(* version_number agree one to one).  The instruction, document, title and *)
(* metadata payload of a version is one member of Contents.  "withdrawn"   *)
(* stands for the lifecycle states deprecated, archived and restricted,    *)
(* which the registry treats alike, and status "draft" for every status    *)
(* text other than "approved".  Surfaces stand for the four narrowing      *)
(* policy lists (surfaces, exports, actions, audience).                    *)
(***************************************************************************)
EXTENDS Naturals, Sequences

CONSTANTS
    Assets,         \* stable ids of the tenant
    Surfaces,       \* access surfaces a policy may allow
    Contents,       \* abstract content payloads
    Inputs,         \* the snapshots that commands are given as their input
    MaxVersions     \* bound: versions one asset may accumulate

ASSUME MaxVersionsAssumption == MaxVersions \in Nat

VARIABLES
    versions,       \* asset_versions: the snapshots of each asset, oldest first
    head            \* assets: the head row of each asset

registryVars == <<versions, head>>

-----------------------------------------------------------------------------

\* published_version_id / current_version_id IS NULL, and an omitted
\* expectedVersionId
NoVersion == 0

Lifecycles == {"draft", "active", "withdrawn"}

\* lifecycle states in which a head still exposes its published version
ExposedLifecycles == {"draft", "active"}

Statuses == {"draft", "approved"}

\* schema: allowedSurfaces is an array with at least one member
SurfaceLists == SUBSET Surfaces \ {{}}

\* asset_snapshot together with the content rows of one version
Snapshot == [lifecycle : Lifecycles, status : Statuses,
             surfaces : SurfaceLists, content : Contents]

ASSUME InputsAssumption == Inputs \subseteq Snapshot

\* An asset without a row: no command but create applies to it.
NoHead == [current |-> NoVersion, published |-> NoVersion,
           lifecycle |-> "draft", status |-> "draft", surfaces |-> {}]

Exists(a) == head[a].current # NoVersion

RegistryTypeOK ==
    /\ versions \in [Assets -> Seq(Snapshot)]
    /\ head \in [Assets -> [current : Nat, published : Nat,
                            lifecycle : Lifecycles, status : Statuses,
                            surfaces : SUBSET Surfaces]]

-----------------------------------------------------------------------------
(* The published projection readers, search and agents are given.          *)

\* projectPublishedAssetRecord: the published version, unless the head's
\* current policy hides it
Projection(a) ==
    LET h == head[a]
        snapshot == versions[a][h.published]
    IN  IF /\ h.published # NoVersion
           /\ h.lifecycle \in ExposedLifecycles
           /\ snapshot.lifecycle = "active"
           /\ snapshot.status = "approved"
           /\ snapshot.surfaces \cap h.surfaces # {}
        THEN h.published
        ELSE NoVersion

-----------------------------------------------------------------------------
(* Commands.                                                               *)

\* assertExpectedAssetVersion
ExpectedVersionHolds(a, expected) ==
    expected \in {NoVersion, head[a].current}

\* SELECT COALESCE(MAX(version_number), 0) + 1
NextVersion(a) == Len(versions[a]) + 1

\* A new version row, and the head rewritten from its snapshot; what becomes
\* of the published pointer is the command's own.
CommitVersion(a, snapshot, published) ==
    /\ NextVersion(a) <= MaxVersions
    /\ versions' = [versions EXCEPT ![a] = Append(@, snapshot)]
    /\ head' = [head EXCEPT ![a] =
                  [current |-> NextVersion(a), published |-> published,
                   lifecycle |-> snapshot.lifecycle,
                   status |-> snapshot.status,
                   surfaces |-> snapshot.surfaces]]

\* assetRecordToVersionSnapshot with the content of version v
HeadSnapshot(a, v) ==
    [lifecycle |-> head[a].lifecycle, status |-> head[a].status,
     surfaces |-> head[a].surfaces, content |-> versions[a][v].content]

\* MUTANT of CreateAsset: a draft whose status text is approved is published
CreateAssetByStatus(a, snapshot) ==
    /\ ~Exists(a)
    /\ CommitVersion(a, snapshot,
           IF snapshot.status = "approved" THEN NextVersion(a) ELSE NoVersion)

CreateAsset(a, snapshot) ==
    /\ ~Exists(a)                                   \* DuplicateAssetError
    /\ CommitVersion(a, snapshot,
           IF snapshot.lifecycle = "active" /\ snapshot.status = "approved"
           THEN NextVersion(a) ELSE NoVersion)

\* MUTANT of UpdateAsset: a withdrawing update keeps the published pointer
UpdateAssetKeepingPublished(a, expected, snapshot) ==
    /\ Exists(a)
    /\ ExpectedVersionHolds(a, expected)
    /\ CommitVersion(a, snapshot, head[a].published)

\* A field the input leaves out repeats the head's value.
UpdateAsset(a, expected, snapshot) ==
    /\ Exists(a)
    /\ ExpectedVersionHolds(a, expected)
    /\ CommitVersion(a, snapshot,
           IF snapshot.lifecycle \in ExposedLifecycles
           THEN head[a].published ELSE NoVersion)

ReviewAsset(a, expected, status) ==
    /\ Exists(a)
    /\ ExpectedVersionHolds(a, expected)
    /\ CommitVersion(a, [HeadSnapshot(a, head[a].current) EXCEPT !.status = status],
                     head[a].published)

PublishAsset(a, expected) ==
    /\ Exists(a)
    /\ ExpectedVersionHolds(a, expected)
    /\ CommitVersion(a, [HeadSnapshot(a, head[a].current)
                           EXCEPT !.lifecycle = "active", !.status = "approved"],
                     NextVersion(a))

\* MUTANT of RestoredDraft: the policy comes back with the content
RestoredWithItsPolicy(a, target) ==
    [versions[a][target] EXCEPT !.lifecycle = "draft", !.status = "draft"]

\* buildRestoredDraftSnapshot: content of the target, policy of the head
RestoredDraft(a, target) ==
    [HeadSnapshot(a, target) EXCEPT !.lifecycle = "draft", !.status = "draft"]

\* MUTANT of RestoreAssetVersion: an approved target is published again
RestoreAndRepublish(a, expected, target) ==
    /\ Exists(a)
    /\ target \in 1 .. Len(versions[a])
    /\ ExpectedVersionHolds(a, expected)
    /\ CommitVersion(a, RestoredDraft(a, target),
           IF versions[a][target].status = "approved" THEN target ELSE head[a].published)

RestoreAssetVersion(a, expected, target) ==
    /\ Exists(a)
    /\ target \in 1 .. Len(versions[a])
    /\ ExpectedVersionHolds(a, expected)
    /\ CommitVersion(a, RestoredDraft(a, target), head[a].published)

-----------------------------------------------------------------------------

RegistryInit ==
    /\ versions = [a \in Assets |-> <<>>]
    /\ head = [a \in Assets |-> NoHead]

Command(a, expected) ==
    \/ \E snapshot \in Inputs : UpdateAsset(a, expected, snapshot)
    \/ \E status \in Statuses : ReviewAsset(a, expected, status)
    \/ PublishAsset(a, expected)
    \/ \E target \in 1 .. MaxVersions : RestoreAssetVersion(a, expected, target)

RegistryNext ==
    \E a \in Assets :
        \/ \E snapshot \in Inputs : CreateAsset(a, snapshot)
        \/ \E expected \in 0 .. MaxVersions : Command(a, expected)

RegistrySpec == RegistryInit /\ [][RegistryNext]_registryVars

-----------------------------------------------------------------------------
(* What must hold of the registry.                                         *)

\* The published pointer always names a stored version whose snapshot was
\* approved and active: no sequence of draft saves, reviews and restores makes
\* an unapproved version the one readers see.
PublishedIsApproved ==
    \A a \in Assets :
        head[a].published # NoVersion =>
            /\ head[a].published \in 1 .. Len(versions[a])
            /\ versions[a][head[a].published].lifecycle = "active"
            /\ versions[a][head[a].published].status = "approved"

\* A head in a withdrawn lifecycle has no published version, whichever command
\* withdrew it: restoring or reviewing a withdrawn asset starts from nothing
\* published.
WithdrawnIsUnpublished ==
    \A a \in Assets :
        head[a].lifecycle \notin ExposedLifecycles => head[a].published = NoVersion

\* A version that stopped being published never becomes published again: a
\* withdrawal is undone only by publishing a new version.
PublicationNeverReturns ==
    [][\A a \in Assets :
         head'[a].published \in {head[a].published, NoVersion}
           \/ head'[a].published > Len(versions[a])]_registryVars

\* Bringing old content back, reviewing and publishing never widen who may
\* read: a surface that an update removed from the head stays removed until an
\* update names it again, even when the restored version still allowed it.
OnlyUpdatesWidenAccess ==
    [][\A a \in Assets, expected \in 0 .. MaxVersions :
         \/ \E status \in Statuses : ReviewAsset(a, expected, status)
         \/ PublishAsset(a, expected)
         \/ \E target \in 1 .. MaxVersions : RestoreAssetVersion(a, expected, target)
         => head'[a].surfaces \subseteq head[a].surfaces]_registryVars
=============================================================================
