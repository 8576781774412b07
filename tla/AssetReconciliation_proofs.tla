--------------------- MODULE AssetReconciliation_proofs ---------------------
(***************************************************************************)
(* Proofs about AssetRegistry, and about AssetReconciliation that is built *)
(* on it.                                                                  *)
(***************************************************************************)
EXTENDS AssetReconciliation, TLAPS

(***************************************************************************)
(* Proofs about AssetRegistry.  Every command ends in CommitVersion, so    *)
(* one lemma says what a commit preserves, one lemma that each command is  *)
(* such a commit, and the theorems follow.                                 *)
(***************************************************************************)

\* The newest version is the current one, and a head that exists carries a
\* policy that allows some surface.  Commands copy the current version and the
\* head's policy, so the other invariants need this to be inductive.
HeadIsNewest ==
    \A a \in Assets :
        /\ head[a].current = Len(versions[a])
        /\ Exists(a) => head[a].surfaces \in SurfaceLists

RegistryInv ==
    /\ RegistryTypeOK
    /\ HeadIsNewest
    /\ PublishedIsApproved
    /\ WithdrawnIsUnpublished

\* What a command may do to the published pointer.
SoundPointer(a, snapshot, published) ==
    \/ published = NoVersion
    \/ /\ published = head[a].published
       /\ snapshot.lifecycle \in ExposedLifecycles \/ published = NoVersion
    \/ /\ published = NextVersion(a)
       /\ snapshot.lifecycle = "active"
       /\ snapshot.status = "approved"

\* A command of any kind on asset a.
SomeCommand(a) ==
    \/ \E snapshot \in Inputs : CreateAsset(a, snapshot)
    \/ \E expected \in 0 .. MaxVersions : Command(a, expected)

-----------------------------------------------------------------------------

\* A commit with a sound pointer preserves the registry's invariant.
LEMMA CommitPreserves ==
    ASSUME NEW a \in Assets, NEW snapshot \in Snapshot, NEW published,
           RegistryInv, CommitVersion(a, snapshot, published),
           SoundPointer(a, snapshot, published)
    PROVE  RegistryInv'
<1> USE DEF NoVersion
<1>1. versions \in [Assets -> Seq(Snapshot)] /\ Len(versions[a]) \in Nat
  BY DEF RegistryInv, RegistryTypeOK
<1>2. /\ versions' = [versions EXCEPT ![a] = Append(versions[a], snapshot)]
      /\ versions' \in [Assets -> Seq(Snapshot)]
  BY <1>1 DEF CommitVersion
<1>3. /\ Len(versions'[a]) = NextVersion(a)
      /\ \A v \in 1 .. Len(versions[a]) : versions'[a][v] = versions[a][v]
      /\ versions'[a][NextVersion(a)] = snapshot
  BY <1>1, <1>2 DEF NextVersion
<1>4. /\ snapshot.lifecycle \in Lifecycles
      /\ snapshot.status \in Statuses
      /\ snapshot.surfaces \in SurfaceLists
  BY DEF Snapshot
<1>5. head[a].published \in Nat /\ published \in Nat
  BY <1>1 DEF RegistryInv, RegistryTypeOK, SoundPointer, NextVersion
<1> DEFINE newHead == [current |-> NextVersion(a), published |-> published,
                       lifecycle |-> snapshot.lifecycle,
                       status |-> snapshot.status,
                       surfaces |-> snapshot.surfaces]
<1>6. head' = [head EXCEPT ![a] = newHead]
  BY DEF CommitVersion
<1>7. head'[a] = newHead /\ \A b \in Assets : b # a =>
          head'[b] = head[b] /\ versions'[b] = versions[b]
  BY <1>2, <1>6 DEF RegistryInv, RegistryTypeOK
<1>8. RegistryTypeOK'
  BY <1>1, <1>2, <1>4, <1>5, <1>6 DEF RegistryInv, RegistryTypeOK, NextVersion, SurfaceLists
<1>9. HeadIsNewest'
  BY <1>3, <1>4, <1>7 DEF RegistryInv, HeadIsNewest, Exists
<1>10. PublishedIsApproved'
  <2> SUFFICES ASSUME NEW b \in Assets, head'[b].published # NoVersion
               PROVE  /\ head'[b].published \in 1 .. Len(versions'[b])
                      /\ versions'[b][head'[b].published].lifecycle = "active"
                      /\ versions'[b][head'[b].published].status = "approved"
    BY DEF PublishedIsApproved
  <2>1. CASE b # a
    BY <2>1, <1>7 DEF RegistryInv, PublishedIsApproved
  <2>2. CASE b = a /\ published = head[a].published
    <3>1. /\ published \in 1 .. Len(versions[a])
          /\ versions[a][published].lifecycle = "active"
          /\ versions[a][published].status = "approved"
      BY <2>2, <1>7 DEF RegistryInv, PublishedIsApproved
    <3> QED
      BY <3>1, <2>2, <1>1, <1>3, <1>7 DEF NextVersion
  <2>3. CASE b = a /\ published = NextVersion(a) /\ published # head[a].published
    <3>1. snapshot.lifecycle = "active" /\ snapshot.status = "approved"
      BY <2>3, <1>1 DEF SoundPointer, NextVersion
    <3> QED
      BY <3>1, <2>3, <1>1, <1>3, <1>7 DEF NextVersion
  <2> QED
    BY <2>1, <2>2, <2>3, <1>7 DEF SoundPointer
<1>11. WithdrawnIsUnpublished'
  BY <1>7 DEF RegistryInv, WithdrawnIsUnpublished, SoundPointer, ExposedLifecycles
<1> QED
  BY <1>8, <1>9, <1>10, <1>11 DEF RegistryInv

\* The snapshot taken of an existing head with the content of one of its
\* versions is a well-formed version.
LEMMA HeadSnapshotType ==
    ASSUME NEW a \in Assets, RegistryInv, Exists(a),
           NEW v \in 1 .. Len(versions[a])
    PROVE  HeadSnapshot(a, v) \in Snapshot
<1>1. versions[a][v] \in Snapshot
  BY DEF RegistryInv, RegistryTypeOK
<1>2. head[a].surfaces \in SurfaceLists
  BY DEF RegistryInv, HeadIsNewest
<1> QED
  BY <1>1, <1>2 DEF HeadSnapshot, Snapshot, RegistryInv, RegistryTypeOK

\* Every command commits one version with a sound pointer.
LEMMA CommandCommits ==
    ASSUME NEW a \in Assets, RegistryInv, SomeCommand(a)
    PROVE  \E snapshot \in Snapshot : \E published :
               /\ CommitVersion(a, snapshot, published)
               /\ SoundPointer(a, snapshot, published)
<1> USE DEF NoVersion
<1>0. /\ Exists(a) => head[a].current \in 1 .. Len(versions[a])
      /\ head[a].lifecycle \in ExposedLifecycles \/ head[a].published = NoVersion
  BY DEF RegistryInv, RegistryTypeOK, HeadIsNewest, WithdrawnIsUnpublished, Exists
<1>1. ASSUME NEW snapshot \in Inputs, CreateAsset(a, snapshot)
      PROVE  \E published : /\ CommitVersion(a, snapshot, published)
                            /\ SoundPointer(a, snapshot, published)
  BY <1>1 DEF CreateAsset, SoundPointer
<1>2. ASSUME NEW expected \in 0 .. MaxVersions, NEW snapshot \in Inputs,
             UpdateAsset(a, expected, snapshot)
      PROVE  \E published : /\ CommitVersion(a, snapshot, published)
                            /\ SoundPointer(a, snapshot, published)
  BY <1>2 DEF UpdateAsset, SoundPointer
<1>3. ASSUME NEW expected \in 0 .. MaxVersions, NEW status \in Statuses,
             ReviewAsset(a, expected, status)
      PROVE  \E snapshot \in Snapshot : \E published :
                 /\ CommitVersion(a, snapshot, published)
                 /\ SoundPointer(a, snapshot, published)
  <2> DEFINE base == HeadSnapshot(a, head[a].current)
             snapshot == [base EXCEPT !.status = status]
  <2>1. base \in Snapshot /\ base.lifecycle = head[a].lifecycle
    BY <1>0, <1>3, HeadSnapshotType DEF ReviewAsset, HeadSnapshot
  <2>2. snapshot \in Snapshot /\ snapshot.lifecycle = head[a].lifecycle
    BY <2>1 DEF Snapshot
  <2>3. CommitVersion(a, snapshot, head[a].published)
    BY <1>3 DEF ReviewAsset
  <2>4. SoundPointer(a, snapshot, head[a].published)
    BY <2>2, <1>0 DEF SoundPointer
  <2> QED
    BY <2>2, <2>3, <2>4
<1>4. ASSUME NEW expected \in 0 .. MaxVersions, PublishAsset(a, expected)
      PROVE  \E snapshot \in Snapshot : \E published :
                 /\ CommitVersion(a, snapshot, published)
                 /\ SoundPointer(a, snapshot, published)
  <2> DEFINE base == HeadSnapshot(a, head[a].current)
             snapshot == [base EXCEPT !.lifecycle = "active", !.status = "approved"]
  <2>1. base \in Snapshot
    BY <1>0, <1>4, HeadSnapshotType DEF PublishAsset
  <2>2. /\ snapshot \in Snapshot
        /\ snapshot.lifecycle = "active" /\ snapshot.status = "approved"
    BY <2>1 DEF Snapshot, Lifecycles, Statuses
  <2>3. CommitVersion(a, snapshot, NextVersion(a))
    BY <1>4 DEF PublishAsset
  <2>4. SoundPointer(a, snapshot, NextVersion(a))
    BY <2>2 DEF SoundPointer
  <2> QED
    BY <2>2, <2>3, <2>4
<1>5. ASSUME NEW expected \in 0 .. MaxVersions, NEW target \in 1 .. MaxVersions,
             RestoreAssetVersion(a, expected, target)
      PROVE  \E snapshot \in Snapshot : \E published :
                 /\ CommitVersion(a, snapshot, published)
                 /\ SoundPointer(a, snapshot, published)
  <2> DEFINE base == HeadSnapshot(a, target)
             snapshot == RestoredDraft(a, target)
  <2>1. base \in Snapshot
    BY <1>5, HeadSnapshotType DEF RestoreAssetVersion
  <2>2. snapshot \in Snapshot /\ snapshot.lifecycle = "draft"
    BY <2>1 DEF RestoredDraft, Snapshot, Lifecycles, Statuses
  <2>3. CommitVersion(a, snapshot, head[a].published)
    BY <1>5 DEF RestoreAssetVersion
  <2>4. SoundPointer(a, snapshot, head[a].published)
    BY <2>2 DEF SoundPointer, ExposedLifecycles
  <2> QED
    BY <2>2, <2>3, <2>4
<1> QED
  BY <1>1, <1>2, <1>3, <1>4, <1>5, InputsAssumption DEF SomeCommand, Command

-----------------------------------------------------------------------------

\* The registry's invariant holds initially.
LEMMA RegistryInitInv == RegistryInit => RegistryInv
BY DEF RegistryInit, RegistryInv, RegistryTypeOK, HeadIsNewest, Exists,
       PublishedIsApproved, WithdrawnIsUnpublished, NoHead, NoVersion,
       Lifecycles, ExposedLifecycles, Statuses

\* A command preserves the registry's invariant.
LEMMA CommandPreserves ==
    ASSUME NEW a \in Assets, RegistryInv, SomeCommand(a)
    PROVE  RegistryInv'
BY CommandCommits, CommitPreserves

\* Every step preserves the registry's invariant.
LEMMA RegistryStep == RegistryInv /\ [RegistryNext]_registryVars => RegistryInv'
<1> SUFFICES ASSUME RegistryInv, [RegistryNext]_registryVars
             PROVE  RegistryInv'
  OBVIOUS
<1>1. CASE RegistryNext
  BY <1>1, CommandPreserves DEF RegistryNext, SomeCommand
<1>2. CASE UNCHANGED registryVars
  BY <1>2 DEF registryVars, RegistryInv, RegistryTypeOK, HeadIsNewest, Exists,
             PublishedIsApproved, WithdrawnIsUnpublished
<1> QED
  BY <1>1, <1>2

\* The registry's invariant holds in every reachable state, for any assets,
\* surfaces and contents and any number of versions.
THEOREM RegistryInvariant == RegistrySpec => []RegistryInv
BY RegistryInitInv, RegistryStep, PTL DEF RegistrySpec

\* The head row and the version list keep their types, whatever the commands.
THEOREM RegistryTypeCorrect == RegistrySpec => []RegistryTypeOK
<1>1. RegistryInv => RegistryTypeOK
  BY DEF RegistryInv
<1> QED
  BY <1>1, RegistryInvariant, PTL

\* The published pointer always names an approved, active version.
THEOREM PublishedAlwaysApproved == RegistrySpec => []PublishedIsApproved
<1>1. RegistryInv => PublishedIsApproved
  BY DEF RegistryInv
<1> QED
  BY <1>1, RegistryInvariant, PTL

\* A withdrawn asset never has a published version.
THEOREM WithdrawnNeverPublished == RegistrySpec => []WithdrawnIsUnpublished
<1>1. RegistryInv => WithdrawnIsUnpublished
  BY DEF RegistryInv
<1> QED
  BY <1>1, RegistryInvariant, PTL

\* A version that stopped being published is never published again.
THEOREM PublicationIsFinal == RegistrySpec => PublicationNeverReturns
<1> DEFINE Moves == \A a \in Assets :
               head'[a].published \in {head[a].published, NoVersion}
                 \/ head'[a].published > Len(versions[a])
<1>1. RegistryInv /\ [RegistryNext]_registryVars => [Moves]_registryVars
  <2> SUFFICES ASSUME RegistryInv, RegistryNext
               PROVE  Moves
    OBVIOUS
  <2>1. PICK b \in Assets : SomeCommand(b)
    BY DEF RegistryNext, SomeCommand
  <2>0. PICK snapshot \in Snapshot :
            \E published : /\ CommitVersion(b, snapshot, published)
                           /\ SoundPointer(b, snapshot, published)
    BY <2>1, CommandCommits
  <2>2. PICK published : /\ CommitVersion(b, snapshot, published)
                         /\ SoundPointer(b, snapshot, published)
    BY <2>0
  <2>3. \A a \in Assets : IF a = b THEN head'[a].published = published
                          ELSE head'[a] = head[a]
    BY <2>2 DEF CommitVersion, RegistryInv, RegistryTypeOK
  <2>4. Len(versions[b]) \in Nat
    BY DEF RegistryInv, RegistryTypeOK
  <2> QED
    BY <2>2, <2>3, <2>4 DEF SoundPointer, NextVersion
<1> QED
  BY <1>1, RegistryInvariant, PTL DEF RegistrySpec, PublicationNeverReturns

\* Restores, reviews and publications never widen the head's surfaces.
THEOREM AccessIsNotRegained == RegistrySpec => OnlyUpdatesWidenAccess
<1> DEFINE Narrow == \A a \in Assets, expected \in 0 .. MaxVersions :
               \/ \E status \in Statuses : ReviewAsset(a, expected, status)
               \/ PublishAsset(a, expected)
               \/ \E target \in 1 .. MaxVersions :
                      RestoreAssetVersion(a, expected, target)
               => head'[a].surfaces \subseteq head[a].surfaces
<1>1. RegistryInv => Narrow
  <2> SUFFICES ASSUME RegistryInv, NEW a \in Assets, NEW expected \in 0 .. MaxVersions
               PROVE  \/ \E status \in Statuses : ReviewAsset(a, expected, status)
                      \/ PublishAsset(a, expected)
                      \/ \E target \in 1 .. MaxVersions :
                             RestoreAssetVersion(a, expected, target)
                      => head'[a].surfaces \subseteq head[a].surfaces
    OBVIOUS
  <2>1. ASSUME NEW snapshot, NEW published, CommitVersion(a, snapshot, published)
        PROVE  head'[a].surfaces = snapshot.surfaces
    BY <2>1 DEF CommitVersion, RegistryInv, RegistryTypeOK
  <2>2. ASSUME NEW status \in Statuses, ReviewAsset(a, expected, status)
        PROVE  head'[a].surfaces = head[a].surfaces
    <3> DEFINE snapshot == [HeadSnapshot(a, head[a].current) EXCEPT !.status = status]
    <3>1. CommitVersion(a, snapshot, head[a].published)
      BY <2>2 DEF ReviewAsset
    <3>2. snapshot.surfaces = head[a].surfaces
      BY DEF HeadSnapshot
    <3> HIDE DEF snapshot
    <3> QED
      BY <2>1, <3>1, <3>2
  <2>3. ASSUME PublishAsset(a, expected)
        PROVE  head'[a].surfaces = head[a].surfaces
    <3> DEFINE snapshot == [HeadSnapshot(a, head[a].current)
                              EXCEPT !.lifecycle = "active", !.status = "approved"]
    <3>1. CommitVersion(a, snapshot, NextVersion(a))
      BY <2>3 DEF PublishAsset
    <3>2. snapshot.surfaces = head[a].surfaces
      BY DEF HeadSnapshot
    <3> HIDE DEF snapshot
    <3> QED
      BY <2>1, <3>1, <3>2
  <2>4. ASSUME NEW target \in 1 .. MaxVersions, RestoreAssetVersion(a, expected, target)
        PROVE  head'[a].surfaces = head[a].surfaces
    <3> DEFINE snapshot == RestoredDraft(a, target)
    <3>1. CommitVersion(a, snapshot, head[a].published)
      BY <2>4 DEF RestoreAssetVersion
    <3>2. snapshot.surfaces = head[a].surfaces
      BY DEF RestoredDraft, HeadSnapshot
    <3> HIDE DEF snapshot
    <3> QED
      BY <2>1, <3>1, <3>2
  <2> QED
    BY <2>2, <2>3, <2>4
<1> QED
  BY <1>1, RegistryInvariant, PTL DEF RegistrySpec, OnlyUpdatesWidenAccess

-----------------------------------------------------------------------------
(***************************************************************************)
(* Proofs about AssetReconciliation: a drained outbox means a reconciled   *)
(* index, and the whole implements DerivedIndex.  The argument is the one  *)
(* a holder of the lease relies on.  A change to an asset cancels the      *)
(* lease on it, and a claim cancels the previous lease; so whatever the    *)
(* present holder read since its claim is still true, and nobody else      *)
(* writes the asset's chunks meanwhile.  HolderIsCurrent says so, step by  *)
(* step; a reconciler that lost its lease owes nothing.                    *)
(***************************************************************************)

\* What the holder of a lease knows at each of its steps.
HolderKnows(r) ==
    /\ pc[r] = "index" => job[r].read = Projection(job[r].asset)
    /\ pc[r] \in {"readCurrent", "clear"} => Projection(job[r].asset) = NoVersion
    /\ pc[r] \in {"invalidate", "acknowledge"} =>
           index[job[r].asset] = Projection(job[r].asset)

HolderIsCurrent ==
    \A r \in Reconcilers : (pc[r] # "idle" /\ Held(r)) => HolderKnows(r)

\* A missing row has nothing that a claim could find.
AbsentRowsAreEmpty ==
    \A a \in Assets : outbox[a].state = "absent" => outbox[a] = Absent

ReconInv ==
    /\ TypeOK
    /\ RegistryInv
    /\ AbsentRowsAreEmpty
    /\ HolderIsCurrent
    /\ DrainedIsReconciled

-----------------------------------------------------------------------------
(* Facts about the definitions.                                            *)

\* The projection depends on the asset's own rows only.
LEMMA ProjectionFrame ==
    ASSUME NEW a \in Assets, head'[a] = head[a], versions'[a] = versions[a]
    PROVE  Projection(a)' = Projection(a)
BY DEF Projection

\* A projection is a version number.
LEMMA ProjectionType ==
    ASSUME NEW a \in Assets, RegistryTypeOK
    PROVE  Projection(a) \in Nat
BY DEF Projection, RegistryTypeOK, NoVersion

\* A content command touches one asset, and commits a version of it.
LEMMA SaveChangeIsCommand ==
    ASSUME NEW a \in Assets, SaveChange(a)
    PROVE  /\ SomeCommand(a)
           /\ \E n \in {1, 2} : RecordChange(a, n)
<1>1. NoVersion \in 0 .. MaxVersions
  BY MaxVersionsAssumption DEF NoVersion
<1> QED
  BY <1>1 DEF SaveChange, SomeCommand, Command

\* What a content command leaves behind.
LEMMA SaveChangeEffect ==
    ASSUME NEW a \in Assets, RegistryInv, SaveChange(a)
    PROVE  /\ RegistryInv'
           /\ \A b \in Assets : b # a =>
                  head'[b] = head[b] /\ versions'[b] = versions[b]
           /\ Len(versions'[a]) \in 1 .. MaxVersions
<1>0. PICK snapshot \in Snapshot :
          \E published : /\ CommitVersion(a, snapshot, published)
                         /\ SoundPointer(a, snapshot, published)
  BY SaveChangeIsCommand, CommandCommits
<1>1. PICK published : /\ CommitVersion(a, snapshot, published)
                       /\ SoundPointer(a, snapshot, published)
  BY <1>0
<1>2. RegistryInv'
  BY SaveChangeIsCommand, CommandPreserves
<1>3. versions \in [Assets -> Seq(Snapshot)] /\ DOMAIN head = Assets
  BY DEF RegistryInv, RegistryTypeOK
<1>4. Len(versions'[a]) = NextVersion(a) /\ NextVersion(a) <= MaxVersions
  BY <1>1, <1>3 DEF CommitVersion, NextVersion
<1>5. NextVersion(a) \in Nat /\ NextVersion(a) >= 1
  BY <1>3 DEF NextVersion
<1> QED
  BY <1>1, <1>2, <1>3, <1>4, <1>5, MaxVersionsAssumption DEF CommitVersion

\* Two reconcilers never hold the lease of the same asset.
LEMMA OneHolder ==
    ASSUME NEW r \in Reconcilers, NEW q \in Reconcilers,
           Held(r), Held(q), job[r].asset = job[q].asset
    PROVE  r = q
BY DEF Held, LeaseHeld

\* A reconciler whose asset's row and whose job are untouched holds the lease
\* afterwards only if it held it before.
LEMMA HeldFrame ==
    ASSUME NEW r \in Reconcilers, job'[r] = job[r],
           outbox'[job[r].asset] = outbox[job[r].asset]
    PROVE  Held(r)' <=> Held(r)
BY DEF Held, LeaseHeld

-----------------------------------------------------------------------------
(* The inductive invariant, conjunct by conjunct.                          *)

\* The invariant holds before anything was saved.
LEMMA InitInv == Init => ReconInv
<1> SUFFICES ASSUME Init
             PROVE  ReconInv
  OBVIOUS
<1>1. RegistryInv
  BY RegistryInitInv DEF Init
<1>2. OutboxTypeOK
  BY MaxAttemptsAssumption DEF Init, OutboxInit, OutboxTypeOK, Row, Absent
<1>3. TypeOK
  BY <1>1, <1>2, MaxFaultsAssumption
     DEF Init, TypeOK, RegistryInv, NoVersion, NoJob, Steps
<1>4. AbsentRowsAreEmpty
  BY DEF Init, OutboxInit, AbsentRowsAreEmpty
<1>5. HolderIsCurrent
  BY DEF Init, HolderIsCurrent
<1>6. DrainedIsReconciled
  BY DEF Init, RegistryInit, NoHead, NoVersion, DrainedIsReconciled, Projection
<1> QED
  BY <1>1, <1>3, <1>4, <1>5, <1>6 DEF ReconInv

\* The outbox keeps its type under each of its operations.
LEMMA OutboxOperationsType ==
    ASSUME OutboxTypeOK, NEW a \in Assets, NEW r \in Reconcilers, NEW generation,
           \/ \E n \in {1, 2} : RecordChange(a, n)
           \/ Claim(r, a)
           \/ Acknowledge(r, a, generation)
           \/ GiveBack(r, a, generation)
           \/ ExpireLease(a)
           \/ BecomeDue(a)
    PROVE  OutboxTypeOK'
<1> USE MaxAttemptsAssumption DEF OutboxTypeOK, Row
<1>1. ASSUME NEW n \in {1, 2}, RecordChange(a, n) PROVE OutboxTypeOK'
  BY <1>1 DEF RecordChange
<1>2. CASE Claim(r, a)
  <2>1. CappedIncrement(outbox[a].attempts) \in 0 .. MaxAttempts
    BY DEF CappedIncrement
  <2> QED
    BY <1>2, <2>1 DEF Claim
<1>3. CASE Acknowledge(r, a, generation)
  BY <1>3 DEF Acknowledge, Absent
<1>4. CASE GiveBack(r, a, generation)
  BY <1>4 DEF GiveBack
<1>5. CASE ExpireLease(a)
  BY <1>5 DEF ExpireLease
<1>6. CASE BecomeDue(a)
  BY <1>6 DEF BecomeDue
<1> QED
  BY <1>1, <1>2, <1>3, <1>4, <1>5, <1>6

\* Going idle keeps the types of the control state.
LEMMA FinishType ==
    ASSUME TypeOK, NEW r \in Reconcilers, Finish(r)
    PROVE  /\ pc' \in [Reconcilers -> Steps]
           /\ job' \in [Reconcilers -> [asset : Assets \cup {NoAsset}, generation : Nat,
                                        read : Nat, expected : Nat]]
           /\ \A q \in Reconcilers : pc'[q] # "idle" => job'[q].asset \in Assets
BY DEF TypeOK, Finish, NoJob, NoVersion, Steps

\* So does moving to another step.
LEMMA GoToType ==
    ASSUME TypeOK, NEW r \in Reconcilers, pc[r] # "idle", NEW step \in Steps, GoTo(r, step)
    PROVE  /\ pc' \in [Reconcilers -> Steps]
           /\ job' \in [Reconcilers -> [asset : Assets \cup {NoAsset}, generation : Nat,
                                        read : Nat, expected : Nat]]
           /\ \A q \in Reconcilers : pc'[q] # "idle" => job'[q].asset \in Assets
BY DEF TypeOK, GoTo

\* Faults stay within their bound.
LEMMA FaultType ==
    ASSUME TypeOK, Fault \/ NoFault
    PROVE  faults' \in 0 .. MaxFaults
BY MaxFaultsAssumption DEF TypeOK, Fault, NoFault

\* A caught exception leads to a step that owes nothing about the index.
LEMMA OnErrorIsGoTo ==
    ASSUME NEW r \in Reconcilers, OnError(r)
    PROVE  \E step \in Steps \ {"idle", "index", "readCurrent", "clear",
                                "invalidate", "acknowledge"} : GoTo(r, step)
BY DEF OnError, Steps

\* Every step keeps the type of the composed state.
LEMMA TypeStep == ReconInv /\ [Next]_vars => TypeOK'
<1> SUFFICES ASSUME ReconInv, [Next]_vars
             PROVE  TypeOK'
  OBVIOUS
<1>0. TypeOK /\ RegistryInv /\ RegistryTypeOK /\ OutboxTypeOK
  BY DEF ReconInv, TypeOK
<1>1. ASSUME NEW r \in Reconcilers, NEW a \in Assets, SaveAsset(r, a) PROVE TypeOK'
  <2>1. RegistryTypeOK'
    BY <1>0, <1>1, SaveChangeEffect DEF SaveAsset, RegistryInv
  <2>2. OutboxTypeOK'
    BY <1>0, <1>1, SaveChangeIsCommand, OutboxOperationsType DEF SaveAsset
  <2>3. head'[a].published \in Nat
    BY <2>1 DEF RegistryTypeOK
  <2> QED
    BY <1>0, <1>1, <2>1, <2>2, <2>3 DEF SaveAsset, TypeOK, NoJob, NoVersion, Steps
<1>2. ASSUME NEW r \in Reconcilers, ClaimForRequest(r) PROVE TypeOK'
  <2>1. job[r].asset \in Assets
    BY <1>0, <1>2 DEF ClaimForRequest, TypeOK
  <2>2. OutboxTypeOK'
    BY <1>0, <1>2, <2>1, OutboxOperationsType DEF ClaimForRequest, OutboxTypeOK
  <2>3. outbox[job[r].asset].generation \in Nat
    BY <1>0, <2>1 DEF OutboxTypeOK, Row
  <2>4. UNCHANGED <<versions, head, index, faults>>
    BY <1>2 DEF ClaimForRequest, registryAndIndex
  <2>5. CASE /\ pc' = [pc EXCEPT ![r] = "read"]
             /\ job' = [job EXCEPT ![r].generation = outbox[job[r].asset].generation]
    BY <1>0, <2>1, <2>2, <2>3, <2>4, <2>5 DEF TypeOK, RegistryTypeOK, Steps
  <2>6. CASE GoTo(r, "notify")
    BY <1>0, <1>2, <2>2, <2>4, <2>6, GoToType
       DEF ClaimForRequest, TypeOK, RegistryTypeOK, Steps
  <2> QED
    BY <1>2, <2>5, <2>6 DEF ClaimForRequest
<1>3. ASSUME NEW r \in Reconcilers, NEW a \in Assets, ClaimForWorker(r, a) PROVE TypeOK'
  <2>1. OutboxTypeOK'
    BY <1>0, <1>3, OutboxOperationsType DEF ClaimForWorker
  <2>2. outbox[a].generation \in Nat
    BY <1>0 DEF OutboxTypeOK, Row
  <2> QED
    BY <1>0, <1>3, <2>1, <2>2
       DEF ClaimForWorker, TypeOK, RegistryTypeOK, registryAndIndex, NoJob, NoVersion, Steps
<1>4. ASSUME NEW r \in Reconcilers, ReadPublished(r) PROVE TypeOK'
  <2>1. job[r].asset \in Assets /\ Projection(job[r].asset) \in Nat
    BY <1>0, <1>4, ProjectionType DEF ReadPublished, TypeOK
  <2>2. UNCHANGED <<versions, head, index, outbox>> /\ faults' \in 0 .. MaxFaults
    BY <1>0, <1>4, FaultType DEF ReadPublished, registryAndIndex
  <2>3. CASE job' = [job EXCEPT ![r].read = Projection(job[r].asset)]
             /\ pc' = [pc EXCEPT ![r] = "index"]
    BY <1>0, <2>1, <2>2, <2>3 DEF TypeOK, RegistryTypeOK, OutboxTypeOK, Steps
  <2>4. CASE \E step \in Steps : GoTo(r, step)
    BY <1>0, <1>4, <2>2, <2>4, GoToType
       DEF ReadPublished, TypeOK, RegistryTypeOK, OutboxTypeOK
  <2> QED
    BY <1>4, <2>3, <2>4, OnErrorIsGoTo DEF ReadPublished, Steps
<1>5. ASSUME NEW r \in Reconcilers, ReadCurrent(r) PROVE TypeOK'
  <2>1. job[r].asset \in Assets /\ head[job[r].asset].published \in Nat
    BY <1>0, <1>5 DEF ReadCurrent, TypeOK, RegistryTypeOK
  <2>2. UNCHANGED <<versions, head, index, outbox>> /\ faults' \in 0 .. MaxFaults
    BY <1>0, <1>5, FaultType DEF ReadCurrent, registryAndIndex
  <2>3. CASE job' = [job EXCEPT ![r].expected = head[job[r].asset].published]
             /\ pc' = [pc EXCEPT ![r] = "clear"]
    BY <1>0, <2>1, <2>2, <2>3 DEF TypeOK, RegistryTypeOK, OutboxTypeOK, Steps
  <2>4. CASE OnError(r)
    BY <1>0, <1>5, <2>2, <2>4, GoToType, OnErrorIsGoTo
       DEF ReadCurrent, TypeOK, RegistryTypeOK, OutboxTypeOK
  <2> QED
    BY <1>5, <2>3, <2>4 DEF ReadCurrent
<1>6. ASSUME NEW r \in Reconcilers, IndexAsset(r) \/ ClearAssetIndex(r) PROVE TypeOK'
  <2>1. job[r].asset \in Assets /\ job[r].read \in Nat /\ pc[r] # "idle"
    BY <1>0, <1>6 DEF IndexAsset, ClearAssetIndex, TypeOK
  <2>2. UNCHANGED <<versions, head, outbox>> /\ faults' \in 0 .. MaxFaults
    BY <1>0, <1>6, FaultType DEF IndexAsset, ClearAssetIndex
  <2>3. index' \in [Assets -> Nat]
    BY <1>0, <1>6, <2>1 DEF IndexAsset, ClearAssetIndex, TypeOK, NoVersion
  <2>4. \E step \in Steps : GoTo(r, step)
    BY <1>6, OnErrorIsGoTo DEF IndexAsset, ClearAssetIndex, Steps
  <2> QED
    BY <1>0, <2>1, <2>2, <2>3, <2>4, GoToType DEF TypeOK, RegistryTypeOK, OutboxTypeOK
<1>7. ASSUME NEW r \in Reconcilers, InvalidateCache(r) PROVE TypeOK'
  <2>1. UNCHANGED <<versions, head, index, outbox>> /\ faults' \in 0 .. MaxFaults
    BY <1>0, <1>7, FaultType DEF InvalidateCache, registryAndIndex
  <2>2. pc[r] # "idle" /\ (Finish(r) \/ \E step \in Steps : GoTo(r, step))
    BY <1>7 DEF InvalidateCache, Steps
  <2> QED
    BY <1>0, <2>1, <2>2, GoToType, FinishType DEF TypeOK, RegistryTypeOK, OutboxTypeOK
<1>8. ASSUME NEW r \in Reconcilers, Complete(r) \/ Fail(r) PROVE TypeOK'
  <2>1. UNCHANGED <<versions, head, index>> /\ faults' \in 0 .. MaxFaults
    BY <1>0, <1>8, FaultType DEF Complete, Fail, registryAndIndex
  <2>2. pc[r] # "idle" /\ (Finish(r) \/ \E step \in Steps : GoTo(r, step))
    BY <1>8 DEF Complete, Fail, Steps
  <2>3. job[r].asset \in Assets
    BY <1>0, <2>2 DEF TypeOK
  <2>4. OutboxTypeOK'
    BY <1>0, <1>8, <2>3, OutboxOperationsType DEF Complete, Fail, OutboxTypeOK
  <2> QED
    BY <1>0, <2>1, <2>2, <2>4, GoToType, FinishType DEF TypeOK, RegistryTypeOK
<1>9. ASSUME NEW r \in Reconcilers, Crash(r) PROVE TypeOK'
  BY <1>0, <1>9, FaultType, FinishType
     DEF Crash, TypeOK, RegistryTypeOK, OutboxTypeOK, registryAndIndex
<1>10. ASSUME NEW a \in Assets, Expire(a) \/ RetryDue(a) PROVE TypeOK'
  <2>1. UNCHANGED <<versions, head, index, pc, job>> /\ faults' \in 0 .. MaxFaults
    BY <1>0, <1>10, FaultType DEF Expire, RetryDue, registryAndIndex, NoFault
  <2>2. OutboxTypeOK'
    <3>1. outbox[a] \in Row /\ outbox \in [Assets -> Row]
      BY <1>0 DEF OutboxTypeOK
    <3>2. \E row \in Row : outbox' = [outbox EXCEPT ![a] = row]
      <4>1. [outbox[a] EXCEPT !.expired = TRUE] \in Row /\ [outbox[a] EXCEPT !.due = TRUE] \in Row
        BY <3>1 DEF Row
      <4>2. \/ outbox' = [outbox EXCEPT ![a] = [outbox[a] EXCEPT !.expired = TRUE]]
            \/ outbox' = [outbox EXCEPT ![a] = [outbox[a] EXCEPT !.due = TRUE]]
        BY <1>10 DEF Expire, RetryDue, ExpireLease, BecomeDue
      <4> QED  BY <4>1, <4>2
    <3> QED  BY <3>1, <3>2 DEF OutboxTypeOK
  <2> QED
    BY <1>0, <2>1, <2>2 DEF TypeOK, RegistryTypeOK
<1>11. CASE UNCHANGED vars
  BY <1>0, <1>11 DEF vars, TypeOK, RegistryTypeOK, OutboxTypeOK
<1> QED
  BY <1>1, <1>2, <1>3, <1>4, <1>5, <1>6, <1>7, <1>8, <1>9, <1>10, <1>11 DEF Next, Step

-----------------------------------------------------------------------------
(* Frames for the steps of one reconciler.                                 *)

\* What a reconciler other than the acting one knows stays true, provided the
\* step leaves it the lease only if its asset was not touched.
LEMMA OthersKnow ==
    ASSUME ReconInv, NEW q \in Reconcilers, pc'[q] = pc[q], job'[q] = job[q],
           (pc[q] # "idle" /\ Held(q)') =>
               /\ Held(q)
               /\ head'[job[q].asset] = head[job[q].asset]
               /\ versions'[job[q].asset] = versions[job[q].asset]
               /\ index'[job[q].asset] = index[job[q].asset]
    PROVE  (pc[q] # "idle" /\ Held(q))' => HolderKnows(q)'
<1> SUFFICES ASSUME pc[q] # "idle", Held(q)'
             PROVE  HolderKnows(q)'
  OBVIOUS
<1>1. job[q].asset \in Assets
  BY DEF ReconInv, TypeOK
<1>2. Projection(job[q].asset)' = Projection(job[q].asset)
  BY <1>1, ProjectionFrame DEF Projection
<1>3. HolderKnows(q)
  BY DEF ReconInv, HolderIsCurrent
<1> QED
  BY <1>2, <1>3 DEF HolderKnows

\* A step that leaves the registry, the index and the outbox alone and moves
\* one reconciler, whose knowledge is established, preserves the invariant.
LEMMA QuietStep ==
    ASSUME ReconInv, NEW r \in Reconcilers,
           UNCHANGED <<versions, head, index, outbox>>,
           \A q \in Reconcilers : q # r => pc'[q] = pc[q] /\ job'[q] = job[q],
           (pc[r] # "idle" /\ Held(r))' => HolderKnows(r)'
    PROVE  (AbsentRowsAreEmpty /\ HolderIsCurrent /\ DrainedIsReconciled)'
<1>1. AbsentRowsAreEmpty'
  BY DEF ReconInv, AbsentRowsAreEmpty
<1>2. DrainedIsReconciled'
  BY DEF ReconInv, DrainedIsReconciled, Projection
<1>3. ASSUME NEW q \in Reconcilers, q # r
      PROVE  (pc[q] # "idle" /\ Held(q))' => HolderKnows(q)'
  BY <1>3, OthersKnow, HeldFrame
<1> QED
  BY <1>1, <1>2, <1>3 DEF HolderIsCurrent

\* The steps that give up on work promise nothing.
LEMMA NothingOwed ==
    ASSUME NEW r \in Reconcilers, TypeOK, pc'[r] \in Steps,
           pc'[r] \notin {"index", "readCurrent", "clear", "invalidate", "acknowledge"}
    PROVE  HolderKnows(r)'
BY DEF HolderKnows

\* GoTo and Finish move only the reconciler they name.
LEMMA MovesOne ==
    ASSUME TypeOK, NEW r \in Reconcilers,
           Finish(r) \/ \E step \in Steps : GoTo(r, step)
    PROVE  /\ \A q \in Reconcilers : q # r => pc'[q] = pc[q] /\ job'[q] = job[q]
           /\ Finish(r) => pc'[r] = "idle"
           /\ \A step \in Steps : GoTo(r, step) => pc'[r] = step /\ job'[r] = job[r]
BY DEF TypeOK, Finish, GoTo

\* No operation on the outbox gives a lease to anybody but the claimer: who
\* holds one afterwards held it before, on a row that was not touched.
LEMMA LeaseIsNotGained ==
    ASSUME OutboxTypeOK, NEW a \in Assets, NEW r \in Reconcilers, NEW generation,
           NEW q \in Reconcilers, job'[q] = job[q], Held(q)', job[q].asset \in Assets,
           \/ \E n \in {1, 2} : RecordChange(a, n)
           \/ Claim(r, a) /\ q # r
           \/ Acknowledge(r, a, generation)
           \/ GiveBack(r, a, generation)
           \/ ExpireLease(a)
           \/ BecomeDue(a)
    PROVE  /\ Held(q)
           /\ outbox'[job[q].asset] = outbox[job[q].asset]
           /\ (\E n \in {1, 2} : RecordChange(a, n)) => job[q].asset # a
<1> USE ReconcilerAssumption DEF Held, LeaseHeld, OutboxTypeOK, Reconcilers
<1>1. ASSUME NEW n \in {1, 2}, RecordChange(a, n)
      PROVE  /\ job[q].asset # a
             /\ outbox'[job[q].asset] = outbox[job[q].asset]
  BY <1>1 DEF RecordChange
<1>2. CASE Claim(r, a) /\ q # r
  <2>1. job[q].asset # a /\ outbox'[job[q].asset] = outbox[job[q].asset]
    BY <1>2 DEF Claim
  <2> QED
    BY <2>1, <1>1
<1>3. CASE Acknowledge(r, a, generation)
  <2>1. outbox'[job[q].asset] = outbox[job[q].asset]
    BY <1>3 DEF Acknowledge, Absent
  <2> QED
    BY <2>1, <1>1
<1>4. CASE GiveBack(r, a, generation)
  <2>1. outbox'[job[q].asset] = outbox[job[q].asset]
    BY <1>4 DEF GiveBack
  <2> QED
    BY <2>1, <1>1
<1>5. CASE ExpireLease(a)
  <2>1. outbox'[job[q].asset] = outbox[job[q].asset]
    BY <1>5 DEF ExpireLease, Row
  <2> QED
    BY <2>1, <1>1
<1>6. CASE BecomeDue(a)
  <2>1. outbox'[job[q].asset] = outbox[job[q].asset]
    BY <1>6 DEF BecomeDue, Row
  <2> QED
    BY <2>1, <1>1
<1> QED
  BY <1>1, <1>2, <1>3, <1>4, <1>5, <1>6

\* Missing rows: an operation on a row that leaves it missing leaves it empty,
\* and only an acknowledgment under a lease makes a row disappear.
LEMMA RowsAppear ==
    ASSUME OutboxTypeOK, AbsentRowsAreEmpty,
           NEW a \in Assets, NEW r \in Reconcilers, NEW generation,
           \/ \E n \in {1, 2} : RecordChange(a, n)
           \/ Claim(r, a)
           \/ Acknowledge(r, a, generation)
           \/ GiveBack(r, a, generation)
           \/ ExpireLease(a)
           \/ BecomeDue(a)
    PROVE  /\ AbsentRowsAreEmpty'
           /\ \A b \in Assets : outbox'[b].state = "absent" =>
                  \/ outbox[b].state = "absent"
                  \/ b = a /\ Acknowledge(r, a, generation) /\ LeaseHeld(r, a, generation)
           /\ \A b \in Assets : outbox[b].state = "absent" =>
                  \/ outbox'[b].state = "absent"
                  \/ b = a /\ \E n \in {1, 2} : RecordChange(a, n)
           /\ (\E n \in {1, 2} : RecordChange(a, n)) => outbox'[a].state # "absent"
<1> USE DEF AbsentRowsAreEmpty, OutboxTypeOK
<1>1. ASSUME NEW n \in {1, 2}, RecordChange(a, n)
      PROVE  /\ outbox'[a].state = "pending"
             /\ \A b \in Assets : b # a => outbox'[b] = outbox[b]
  BY <1>1 DEF RecordChange
<1>2. CASE Claim(r, a)
  <2>1. outbox[a].state # "absent" /\ outbox'[a].state = "processing"
    BY <1>2 DEF Claim, Claimable, Absent
  <2>2. \A b \in Assets : b # a => outbox'[b] = outbox[b]
    BY <1>2 DEF Claim
  <2> QED
    BY <2>1, <2>2, <1>1
<1>3. CASE Acknowledge(r, a, generation)
  <2>1. \A b \in Assets : b # a => outbox'[b] = outbox[b]
    BY <1>3 DEF Acknowledge
  <2>2. CASE LeaseHeld(r, a, generation)
    <3>1. outbox'[a] = Absent /\ outbox[a].state = "processing"
      BY <1>3, <2>2 DEF Acknowledge, LeaseHeld
    <3> QED
      BY <1>3, <2>1, <2>2, <3>1, <1>1 DEF Absent
  <2>3. CASE ~LeaseHeld(r, a, generation)
    BY <1>3, <2>3, <1>1 DEF Acknowledge
  <2> QED
    BY <2>2, <2>3
<1>4. CASE GiveBack(r, a, generation)
  <2>1. \/ outbox' = outbox
        \/ /\ outbox[a].state = "processing"
           /\ outbox'[a].state \in {"pending", "failed"}
           /\ \A b \in Assets : b # a => outbox'[b] = outbox[b]
    BY <1>4 DEF GiveBack, LeaseHeld
  <2> QED
    BY <2>1, <1>1
<1>5. CASE ExpireLease(a)
  <2>1. /\ outbox[a].state = "processing" /\ outbox'[a].state = "processing"
        /\ \A b \in Assets : b # a => outbox'[b] = outbox[b]
    BY <1>5 DEF ExpireLease, Row
  <2> QED
    BY <2>1, <1>1
<1>6. CASE BecomeDue(a)
  <2>1. /\ outbox[a].state # "absent" /\ outbox'[a].state = outbox[a].state
        /\ \A b \in Assets : b # a => outbox'[b] = outbox[b]
    BY <1>6 DEF BecomeDue, Row
  <2> QED
    BY <2>1, <1>1
<1> QED
  BY <1>1, <1>2, <1>3, <1>4, <1>5, <1>6

-----------------------------------------------------------------------------
(* The step.                                                               *)

\* What a reconciler knows is preserved by every step.
LEMMA KnowledgeStep ==
    ReconInv /\ [Next]_vars => (AbsentRowsAreEmpty /\ HolderIsCurrent /\ DrainedIsReconciled)'
<1> SUFFICES ASSUME ReconInv, [Next]_vars
             PROVE  (AbsentRowsAreEmpty /\ HolderIsCurrent /\ DrainedIsReconciled)'
  OBVIOUS
<1> DEFINE Goal == (AbsentRowsAreEmpty /\ HolderIsCurrent /\ DrainedIsReconciled)'
<1>0. /\ TypeOK /\ RegistryInv /\ OutboxTypeOK /\ AbsentRowsAreEmpty
      /\ HolderIsCurrent /\ DrainedIsReconciled
      /\ \A r \in Reconcilers : pc[r] # "idle" => job[r].asset \in Assets
  BY DEF ReconInv, TypeOK
<1>t. TypeOK'
  BY TypeStep
<1>1. ASSUME NEW r \in Reconcilers, NEW a \in Assets, SaveAsset(r, a) PROVE Goal
  <2>1. /\ \E n \in {1, 2} : RecordChange(a, n)
        /\ \A b \in Assets : b # a => head'[b] = head[b] /\ versions'[b] = versions[b]
        /\ index' = index
    BY <1>0, <1>1, SaveChangeIsCommand, SaveChangeEffect DEF SaveAsset
  <2>2. /\ \A q \in Reconcilers : q # r => pc'[q] = pc[q] /\ job'[q] = job[q]
        /\ pc'[r] = "claim"
    BY <1>0, <1>1 DEF SaveAsset, TypeOK
  <2>3. AbsentRowsAreEmpty' /\ outbox'[a].state # "absent"
    BY <1>0, <2>1, RowsAppear
  <2>4. DrainedIsReconciled'
    <3> SUFFICES ASSUME NEW b \in Assets, outbox'[b].state = "absent"
                 PROVE  index'[b] = Projection(b)'
      BY DEF DrainedIsReconciled
    <3>1. b # a
      BY <2>3
    <3>2. outbox[b].state = "absent"
      BY <1>0, <2>1, <3>1 DEF RecordChange, OutboxTypeOK
    <3> QED
      BY <1>0, <2>1, <3>1, <3>2, ProjectionFrame DEF DrainedIsReconciled
  <2>5. ASSUME NEW q \in Reconcilers, q # r
        PROVE  (pc[q] # "idle" /\ Held(q))' => HolderKnows(q)'
    <3>1. (pc[q] # "idle" /\ Held(q)') => Held(q) /\ job[q].asset \in Assets \ {a}
      BY <1>0, <2>1, <2>2, <2>5, LeaseIsNotGained
    <3> QED
      BY <2>1, <2>2, <2>5, <3>1, OthersKnow
  <2>6. HolderKnows(r)'
    BY <2>2, <1>0, NothingOwed DEF Steps
  <2> QED
    BY <2>3, <2>4, <2>5, <2>6 DEF HolderIsCurrent
<1>2. ASSUME NEW r \in Reconcilers, NEW a \in Assets,
             Claim(r, a), pc' = [pc EXCEPT ![r] = "read"],
             \A q \in Reconcilers : q # r => job'[q] = job[q],
             UNCHANGED <<versions, head, index>>
      PROVE  Goal
  <2>1. /\ \A q \in Reconcilers : q # r => pc'[q] = pc[q]
        /\ pc'[r] = "read"
    BY <1>0, <1>2 DEF TypeOK
  <2>2. AbsentRowsAreEmpty'
    BY <1>0, <1>2, RowsAppear
  <2>3. DrainedIsReconciled'
    <3>1. \A b \in Assets : outbox'[b].state = "absent" => outbox[b].state = "absent"
      BY <1>2, <1>0 DEF Claim, OutboxTypeOK
    <3> QED
      BY <1>0, <1>2, <3>1, ProjectionFrame DEF DrainedIsReconciled
  <2>4. ASSUME NEW q \in Reconcilers, q # r
        PROVE  (pc[q] # "idle" /\ Held(q))' => HolderKnows(q)'
    <3>1. (pc[q] # "idle" /\ Held(q)') => Held(q)
      BY <1>0, <1>2, <2>4, LeaseIsNotGained
    <3> QED
      BY <1>2, <2>1, <2>4, <3>1, OthersKnow
  <2>5. HolderKnows(r)'
    BY <2>1, <1>0, NothingOwed DEF Steps
  <2> QED
    BY <2>2, <2>3, <2>4, <2>5 DEF HolderIsCurrent
<1>3. ASSUME NEW r \in Reconcilers, ClaimForRequest(r) PROVE Goal
  <2>1. job[r].asset \in Assets /\ UNCHANGED <<versions, head, index>>
    BY <1>0, <1>3 DEF ClaimForRequest, registryAndIndex
  <2>2. CASE /\ Claim(r, job[r].asset)
             /\ pc' = [pc EXCEPT ![r] = "read"]
             /\ job' = [job EXCEPT ![r].generation = outbox[job[r].asset].generation]
    BY <1>0, <1>2, <2>1, <2>2 DEF TypeOK
  <2>3. CASE GoTo(r, "notify") /\ UNCHANGED outbox
    <3>1. pc'[r] = "notify" /\ \A q \in Reconcilers : q # r => pc'[q] = pc[q] /\ job'[q] = job[q]
      BY <1>0, <2>3, MovesOne DEF Steps
    <3> QED
      BY <1>0, <2>1, <2>3, <3>1, QuietStep, NothingOwed DEF Steps
  <2> QED
    BY <1>3, <2>2, <2>3 DEF ClaimForRequest
<1>4. ASSUME NEW r \in Reconcilers, NEW a \in Assets, ClaimForWorker(r, a) PROVE Goal
  BY <1>0, <1>2, <1>4 DEF ClaimForWorker, registryAndIndex, TypeOK
<1>5. ASSUME NEW r \in Reconcilers, pc[r] # "idle", OnError(r),
             UNCHANGED <<versions, head, index, outbox>>
      PROVE  Goal
  <2>1. PICK step \in Steps \ {"idle", "index", "readCurrent", "clear",
                               "invalidate", "acknowledge"} : GoTo(r, step)
    BY <1>5, OnErrorIsGoTo
  <2>2. pc'[r] = step /\ \A q \in Reconcilers : q # r => pc'[q] = pc[q] /\ job'[q] = job[q]
    BY <1>0, <2>1, MovesOne
  <2> QED
    BY <1>0, <1>5, <2>1, <2>2, QuietStep, NothingOwed
<1>6. ASSUME NEW r \in Reconcilers, ReadPublished(r) PROVE Goal
  <2>1. UNCHANGED <<versions, head, index, outbox>> /\ pc[r] # "idle"
    BY <1>6 DEF ReadPublished, registryAndIndex
  <2>2. CASE /\ job' = [job EXCEPT ![r].read = Projection(job[r].asset)]
             /\ pc' = [pc EXCEPT ![r] = "index"]
    <3>1. /\ \A q \in Reconcilers : q # r => pc'[q] = pc[q] /\ job'[q] = job[q]
          /\ pc'[r] = "index" /\ job'[r].asset = job[r].asset
          /\ job'[r].read = Projection(job[r].asset)
      BY <1>0, <2>2 DEF TypeOK
    <3>2. HolderKnows(r)'
      BY <2>1, <3>1 DEF HolderKnows, Projection
    <3> QED
      BY <2>1, <3>1, <3>2, QuietStep
  <2>3. CASE /\ Projection(job[r].asset) = NoVersion
             /\ \E step \in {"readCurrent", "clear"} : GoTo(r, step)
    <3>1. /\ \A q \in Reconcilers : q # r => pc'[q] = pc[q] /\ job'[q] = job[q]
          /\ pc'[r] \in {"readCurrent", "clear"} /\ job'[r] = job[r]
      BY <1>0, <2>3, MovesOne DEF Steps
    <3>2. HolderKnows(r)'
      BY <2>1, <2>3, <3>1 DEF HolderKnows, Projection
    <3> QED
      BY <2>1, <3>1, <3>2, QuietStep
  <2>4. CASE OnError(r)
    BY <1>5, <2>1, <2>4
  <2> QED
    BY <1>6, <2>2, <2>3, <2>4 DEF ReadPublished
<1>7. ASSUME NEW r \in Reconcilers, ReadCurrent(r) PROVE Goal
  <2>1. UNCHANGED <<versions, head, index, outbox>> /\ pc[r] = "readCurrent"
    BY <1>7 DEF ReadCurrent, registryAndIndex
  <2>2. CASE /\ job' = [job EXCEPT ![r].expected = head[job[r].asset].published]
             /\ pc' = [pc EXCEPT ![r] = "clear"]
    <3>1. /\ \A q \in Reconcilers : q # r => pc'[q] = pc[q] /\ job'[q] = job[q]
          /\ pc'[r] = "clear" /\ job'[r].asset = job[r].asset
          /\ job'[r].generation = job[r].generation
      BY <1>0, <2>2 DEF TypeOK
    <3>2. Held(r)' => Held(r)
      BY <2>1, <3>1 DEF Held, LeaseHeld
    <3>3. Held(r) => Projection(job[r].asset) = NoVersion
      BY <1>0, <2>1 DEF HolderIsCurrent, HolderKnows
    <3>4. Held(r)' => HolderKnows(r)'
      BY <2>1, <3>1, <3>2, <3>3 DEF HolderKnows, Projection
    <3> QED
      BY <2>1, <3>1, <3>4, QuietStep
  <2> QED
    BY <1>5, <1>7, <2>1, <2>2 DEF ReadCurrent
<1>8. ASSUME NEW r \in Reconcilers, NEW version, Held(r), pc[r] # "idle",
             version = Projection(job[r].asset),
             index' = [index EXCEPT ![job[r].asset] = version],
             GoTo(r, "invalidate"),
             UNCHANGED <<versions, head, outbox>>
      PROVE  Goal
  <2>1. /\ \A q \in Reconcilers : q # r => pc'[q] = pc[q] /\ job'[q] = job[q]
        /\ pc'[r] = "invalidate" /\ job'[r] = job[r]
        /\ job[r].asset \in Assets
    BY <1>0, <1>8, MovesOne DEF Steps
  <2>2. /\ index'[job[r].asset] = version
        /\ \A b \in Assets : b # job[r].asset => index'[b] = index[b]
    BY <1>0, <1>8, <2>1 DEF TypeOK
  <2>3. \A b \in Assets : Projection(b)' = Projection(b)
    BY <1>8, ProjectionFrame DEF Projection
  <2>4. DrainedIsReconciled'
    BY <1>0, <1>8, <2>2, <2>3 DEF DrainedIsReconciled
  <2>5. HolderKnows(r)'
    BY <1>8, <2>1, <2>2, <2>3 DEF HolderKnows
  <2>6. ASSUME NEW q \in Reconcilers, q # r
        PROVE  (pc[q] # "idle" /\ Held(q))' => HolderKnows(q)'
    <3>1. (pc[q] # "idle" /\ Held(q)') =>
              Held(q) /\ job[q].asset \in Assets /\ job[q].asset # job[r].asset
      BY <1>0, <1>8, <2>1, <2>6, HeldFrame, OneHolder
    <3> QED
      BY <1>8, <2>1, <2>2, <2>6, <3>1, OthersKnow
  <2>7. AbsentRowsAreEmpty'
    BY <1>0, <1>8 DEF AbsentRowsAreEmpty
  <2> QED
    BY <2>4, <2>5, <2>6, <2>7 DEF HolderIsCurrent
<1>9. ASSUME NEW r \in Reconcilers, IndexAsset(r) PROVE Goal
  <2>1. UNCHANGED <<versions, head, outbox>> /\ pc[r] = "index"
    BY <1>9 DEF IndexAsset
  <2>2. CASE /\ Held(r)
             /\ index' = [index EXCEPT ![job[r].asset] = job[r].read]
             /\ GoTo(r, "invalidate")
    <3>1. job[r].read = Projection(job[r].asset)
      BY <1>0, <2>1, <2>2 DEF HolderIsCurrent, HolderKnows
    <3> QED
      BY <1>8, <2>1, <2>2, <3>1
  <2> QED
    BY <1>5, <1>9, <2>1, <2>2 DEF IndexAsset
<1>10. ASSUME NEW r \in Reconcilers, ClearAssetIndex(r) PROVE Goal
  <2>1. UNCHANGED <<versions, head, outbox>> /\ pc[r] = "clear"
    BY <1>10 DEF ClearAssetIndex
  <2>2. CASE /\ Held(r)
             /\ index' = [index EXCEPT ![job[r].asset] = NoVersion]
             /\ GoTo(r, "invalidate")
    <3>1. Projection(job[r].asset) = NoVersion
      BY <1>0, <2>1, <2>2 DEF HolderIsCurrent, HolderKnows
    <3> QED
      BY <1>8, <2>1, <2>2, <3>1
  <2> QED
    BY <1>5, <1>10, <2>1, <2>2 DEF ClearAssetIndex
<1>11. ASSUME NEW r \in Reconcilers, InvalidateCache(r) PROVE Goal
  <2>1. UNCHANGED <<versions, head, index, outbox>>
    BY <1>11 DEF InvalidateCache, registryAndIndex
  <2>2. CASE pc[r] = "invalidate" /\ GoTo(r, "acknowledge")
    <3>1. /\ \A q \in Reconcilers : q # r => pc'[q] = pc[q] /\ job'[q] = job[q]
          /\ pc'[r] = "acknowledge" /\ job'[r] = job[r]
      BY <1>0, <2>2, MovesOne DEF Steps
    <3>2. Held(r)' => index[job[r].asset] = Projection(job[r].asset)
      BY <1>0, <2>1, <2>2, <3>1, HeldFrame DEF HolderIsCurrent, HolderKnows
    <3>3. Held(r)' => HolderKnows(r)'
      BY <2>1, <3>1, <3>2 DEF HolderKnows, Projection
    <3> QED
      BY <2>1, <3>1, <3>3, QuietStep
  <2>3. CASE GoTo(r, "giveBack") \/ Finish(r)
    <3>1. /\ \A q \in Reconcilers : q # r => pc'[q] = pc[q] /\ job'[q] = job[q]
          /\ pc'[r] \in {"giveBack", "idle"}
      BY <1>0, <2>3, MovesOne DEF Steps
    <3> QED
      BY <1>0, <2>1, <3>1, QuietStep, NothingOwed DEF Steps
  <2> QED
    BY <1>11, <2>2, <2>3 DEF InvalidateCache
<1>12. ASSUME NEW r \in Reconcilers, pc[r] # "idle",
              \/ pc[r] = "acknowledge" /\ Acknowledge(r, job[r].asset, job[r].generation)
              \/ GiveBack(r, job[r].asset, job[r].generation)
              \/ UNCHANGED outbox,
              Finish(r) \/ GoTo(r, "giveBack"),
              UNCHANGED <<versions, head, index>>
       PROVE  Goal
  <2> DEFINE a == job[r].asset
  <2>1. /\ \A q \in Reconcilers : q # r => pc'[q] = pc[q] /\ job'[q] = job[q]
        /\ pc'[r] \in {"giveBack", "idle"}
        /\ a \in Assets
    BY <1>0, <1>12, MovesOne DEF Steps
  <2>2. CASE UNCHANGED outbox
    BY <1>0, <1>12, <2>1, <2>2, QuietStep, NothingOwed DEF Steps
  <2>3. CASE \/ Acknowledge(r, a, job[r].generation) /\ pc[r] = "acknowledge"
             \/ GiveBack(r, a, job[r].generation)
    <3>1. /\ AbsentRowsAreEmpty'
          /\ \A b \in Assets : outbox'[b].state = "absent" =>
                 \/ outbox[b].state = "absent"
                 \/ b = a /\ Acknowledge(r, a, job[r].generation) /\ Held(r)
      BY <1>0, <2>1, <2>3, RowsAppear DEF Held
    <3>2. Acknowledge(r, a, job[r].generation) /\ Held(r) /\ pc[r] = "acknowledge"
              => index[a] = Projection(a)
      BY <1>0, <2>1 DEF HolderIsCurrent, HolderKnows
    <3>3. GiveBack(r, a, job[r].generation) /\ Held(r) => outbox'[a].state # "absent"
      BY <1>0, <2>1 DEF GiveBack, Held, LeaseHeld, OutboxTypeOK
    <3>4. \A b \in Assets : outbox'[b].state = "absent" => index[b] = Projection(b)
      BY <1>0, <2>3, <3>1, <3>2, <3>3 DEF DrainedIsReconciled
    <3>5. DrainedIsReconciled'
      BY <1>12, <3>4, ProjectionFrame DEF DrainedIsReconciled
    <3>6. ASSUME NEW q \in Reconcilers, q # r
          PROVE  (pc[q] # "idle" /\ Held(q))' => HolderKnows(q)'
      <4>1. (pc[q] # "idle" /\ Held(q)') => Held(q)
        BY <1>0, <2>1, <2>3, <3>6, LeaseIsNotGained
      <4> QED
        BY <1>12, <2>1, <3>6, <4>1, OthersKnow
    <3>7. HolderKnows(r)'
      BY <1>0, <2>1, NothingOwed DEF Steps
    <3> QED
      BY <3>1, <3>5, <3>6, <3>7 DEF HolderIsCurrent
  <2> QED
    BY <1>12, <2>2, <2>3
<1>13. ASSUME NEW r \in Reconcilers, Complete(r) \/ Fail(r) PROVE Goal
  BY <1>12, <1>13 DEF Complete, Fail, registryAndIndex
<1>14. ASSUME NEW r \in Reconcilers, Crash(r) PROVE Goal
  BY <1>12, <1>14 DEF Crash, registryAndIndex
<1>15. ASSUME NEW a \in Assets, Expire(a) \/ RetryDue(a) PROVE Goal
  <2>1. /\ UNCHANGED <<versions, head, index, pc, job>>
        /\ ExpireLease(a) \/ BecomeDue(a)
    BY <1>15 DEF Expire, RetryDue, registryAndIndex
  <2>2. AbsentRowsAreEmpty'
        /\ \A b \in Assets : outbox'[b].state = "absent" => outbox[b].state = "absent"
    BY <1>0, <2>1 DEF ExpireLease, BecomeDue, AbsentRowsAreEmpty, OutboxTypeOK, Row
  <2>3. DrainedIsReconciled'
    BY <1>0, <2>1, <2>2, ProjectionFrame DEF DrainedIsReconciled
  <2>4. ASSUME NEW q \in Reconcilers
        PROVE  (pc[q] # "idle" /\ Held(q))' => HolderKnows(q)'
    <3>1. (pc[q] # "idle" /\ Held(q)') => Held(q)
      BY <1>0, <2>1, <2>4, LeaseIsNotGained
    <3> QED
      BY <2>1, <2>4, <3>1, OthersKnow
  <2> QED
    BY <2>2, <2>3, <2>4 DEF HolderIsCurrent
<1>16. CASE UNCHANGED vars
  <2>1. UNCHANGED <<versions, head, index, outbox, pc, job>>
    BY <1>16 DEF vars
  <2>2. HolderIsCurrent'
    BY <1>0, <2>1, OthersKnow, HeldFrame DEF HolderIsCurrent
  <2> QED
    BY <1>0, <2>1, <2>2, ProjectionFrame DEF AbsentRowsAreEmpty, DrainedIsReconciled
<1> QED
  BY <1>1, <1>3, <1>4, <1>6, <1>7, <1>9, <1>10, <1>11, <1>13, <1>14, <1>15, <1>16
     DEF Next, Step

\* The inductive invariant is preserved by every step.
LEMMA InvStep == ReconInv /\ [Next]_vars => ReconInv'
<1> SUFFICES ASSUME ReconInv, [Next]_vars
             PROVE  ReconInv'
  OBVIOUS
<1>1. RegistryInv'
  <2>1. CASE \E r \in Reconcilers, a \in Assets : SaveAsset(r, a)
    BY <2>1, SaveChangeEffect DEF SaveAsset, ReconInv
  <2>2. CASE UNCHANGED <<versions, head>>
    BY <2>2, RegistryStep DEF ReconInv, registryVars
  <2> QED
    BY <2>1, <2>2 DEF Next, Step, vars, registryAndIndex, ClaimForRequest, ClaimForWorker,
       ReadPublished, ReadCurrent, IndexAsset, ClearAssetIndex, InvalidateCache,
       Complete, Fail, Crash, Expire, RetryDue
<1> QED
  BY <1>1, TypeStep, KnowledgeStep DEF ReconInv

\* The inductive invariant holds in every reachable state.
LEMMA ReconInvariant == Spec => []ReconInv
BY InitInv, InvStep, PTL DEF Spec

\* The composed state is always well typed.
THEOREM TypeCorrect == Spec => []TypeOK
<1>1. ReconInv => TypeOK
  BY DEF ReconInv
<1> QED
  BY <1>1, ReconInvariant, PTL

\* Whatever reconcilers, commands, faults and leases do, and in whatever order:
\* an asset without a row in the outbox is indexed as its published projection.
THEOREM DrainedMeansReconciled == Spec => []DrainedIsReconciled
<1>1. ReconInv => DrainedIsReconciled
  BY DEF ReconInv
<1> QED
  BY <1>1, ReconInvariant, PTL

-----------------------------------------------------------------------------
(* Refinement of DerivedIndex.                                             *)

Source == [a \in Assets |-> Projection(a)]
Shown == [a \in Assets |-> Served(a)]
Drained == {a \in Assets : outbox[a].state = "absent"}

\* What is served is the projection or nothing, in every state.
LEMMA ServedIsSourceOrNothing ==
    ASSUME NEW a \in Assets
    PROVE  Served(a) \in {NoVersion, Projection(a)}
BY DEF Served

\* An asset whose own rows and chunks are untouched is served as before.
LEMMA ServedFrame ==
    ASSUME NEW a \in Assets, head'[a] = head[a], versions'[a] = versions[a],
           index'[a] = index[a]
    PROVE  Projection(a)' = Projection(a) /\ Served(a)' = Served(a)
BY ProjectionFrame DEF Served, Projection

\* A step that leaves source, shown and drained alone is a stuttering step.
LEMMA Stutter ==
    ASSUME UNCHANGED <<versions, head, index>>, Drained' = Drained
    PROVE  UNCHANGED Promise!derivedVars
BY DEF Promise!derivedVars, Drained, Served, Projection

\* A change of content is a change of the derived index's source.
LEMMA SaveIsChange ==
    ASSUME ReconInv, NEW r \in Reconcilers, NEW a \in Assets, SaveAsset(r, a)
    PROVE  Promise!Change(a)
<1>1. /\ \E n \in {1, 2} : RecordChange(a, n)
      /\ RegistryInv'
      /\ \A b \in Assets : b # a => head'[b] = head[b] /\ versions'[b] = versions[b]
      /\ Len(versions'[a]) \in 1 .. MaxVersions
      /\ index' = index
  BY SaveChangeIsCommand, SaveChangeEffect DEF SaveAsset, ReconInv
<1>2. Projection(a)' \in (1 .. MaxVersions) \cup {NoVersion}
  <2>1. head'[a].published # NoVersion => head'[a].published \in 1 .. Len(versions'[a])
    BY <1>1 DEF RegistryInv, PublishedIsApproved
  <2> QED
    BY <1>1, <2>1, MaxVersionsAssumption DEF Projection
<1>3. \A b \in Assets : b # a =>
          Projection(b)' = Projection(b) /\ Served(b)' = Served(b)
  BY <1>1, ServedFrame
<1>4. Source' = [Source EXCEPT ![a] = Projection(a)']
  BY <1>3 DEF Source
<1>5. Shown' \in {[Shown EXCEPT ![a] = NoVersion], [Shown EXCEPT ![a] = Source'[a]]}
  <2>1. Served(a)' \in {NoVersion, Projection(a)'}
    BY DEF Served
  <2> QED
    BY <1>3, <2>1 DEF Shown, Source
<1>6. Drained' = Drained \ {a}
  BY <1>1 DEF Drained, RecordChange, ReconInv, TypeOK, OutboxTypeOK
<1> QED
  BY <1>2, <1>4, <1>5, <1>6 DEF Promise!Change, Source, Shown, Drained

\* An index write under the lease rebuilds an unsettled key.
LEMMA WriteIsRebuild ==
    ASSUME ReconInv, NEW r \in Reconcilers, NEW a \in Assets, a = job[r].asset,
           Held(r), NEW version,
           index' = [index EXCEPT ![a] = version],
           UNCHANGED <<versions, head, outbox>>
    PROVE  Promise!Rebuild(a)
<1>1. outbox[a].state = "processing"
  BY DEF ReconInv, TypeOK, Held, LeaseHeld
<1>2. \A b \in Assets : b # a => index'[b] = index[b]
  BY <1>1 DEF ReconInv, TypeOK
<1>3. \A b \in Assets : Projection(b)' = Projection(b)
  BY DEF Projection
<1>4. \A b \in Assets : b # a => Served(b)' = Served(b)
  BY <1>2, <1>3 DEF Served
<1>5. Source' = Source /\ Drained' = Drained /\ a \notin Drained
  BY <1>1, <1>3 DEF Source, Drained
<1>6. Shown' \in {[Shown EXCEPT ![a] = NoVersion], [Shown EXCEPT ![a] = Source[a]]}
  <2>1. Served(a)' \in {NoVersion, Projection(a)}
    BY <1>1, <1>3 DEF Served
  <2> QED
    BY <1>1, <1>4, <2>1 DEF Shown, Source
<1> QED
  BY <1>5, <1>6 DEF Promise!Rebuild, Source, Shown, Drained

\* An acknowledgment under the lease settles a key that is up to date.
LEMMA CompleteIsSettle ==
    ASSUME ReconInv, NEW r \in Reconcilers, NEW a \in Assets, a = job[r].asset,
           pc[r] = "acknowledge", Held(r),
           Acknowledge(r, job[r].asset, job[r].generation),
           UNCHANGED <<versions, head, index>>
    PROVE  Promise!Settle(a)
<1>1. outbox[a].state = "processing"
  BY DEF ReconInv, TypeOK, Held, LeaseHeld
<1>2. outbox' = [outbox EXCEPT ![a] = Absent]
  BY DEF Acknowledge, Held
<1>3. Served(a) = Projection(a)
  BY DEF ReconInv, HolderIsCurrent, HolderKnows, Served
<1>4. Source' = Source /\ Shown' = Shown
  BY DEF Source, Shown, Served, Projection
<1>5. Drained' = Drained \cup {a} /\ a \notin Drained
  BY <1>1, <1>2 DEF Drained, Absent, ReconInv, TypeOK, OutboxTypeOK
<1> QED
  BY <1>1, <1>3, <1>4, <1>5 DEF Promise!Settle, Source, Shown, Drained

\* Every step of the program is a step of DerivedIndex or a stutter.
LEMMA PromiseStep == ReconInv /\ [Next]_vars => [Promise!Next]_(Promise!derivedVars)
<1> SUFFICES ASSUME ReconInv, [Next]_vars
             PROVE  [Promise!Next]_(Promise!derivedVars)
  OBVIOUS
<1>0. /\ OutboxTypeOK /\ AbsentRowsAreEmpty
      /\ \A r \in Reconcilers : pc[r] # "idle" => job[r].asset \in Assets
  BY DEF ReconInv, TypeOK
<1>1. ASSUME NEW r \in Reconcilers, NEW a \in Assets, SaveAsset(r, a)
      PROVE  [Promise!Next]_(Promise!derivedVars)
  BY <1>1, SaveIsChange DEF Promise!Next
<1>2. ASSUME UNCHANGED <<versions, head, index, outbox>>
      PROVE  [Promise!Next]_(Promise!derivedVars)
  BY <1>2, Stutter DEF Drained
<1>3. ASSUME NEW r \in Reconcilers, NEW a \in Assets, NEW generation,
             UNCHANGED <<versions, head, index>>,
             \/ Claim(r, a) \/ GiveBack(r, a, generation)
             \/ ExpireLease(a) \/ BecomeDue(a)
      PROVE  [Promise!Next]_(Promise!derivedVars)
  <2>1. \A b \in Assets : outbox'[b].state = "absent" <=> outbox[b].state = "absent"
    BY <1>0, <1>3
       DEF Claim, Claimable, GiveBack, LeaseHeld, ExpireLease, BecomeDue,
           OutboxTypeOK, Row, AbsentRowsAreEmpty, Absent
  <2> QED
    BY <1>3, <2>1, Stutter DEF Drained
<1>4. ASSUME NEW r \in Reconcilers, IndexAsset(r) \/ ClearAssetIndex(r)
      PROVE  [Promise!Next]_(Promise!derivedVars)
  <2>1. pc[r] # "idle" /\ UNCHANGED <<versions, head, outbox>>
    BY <1>4 DEF IndexAsset, ClearAssetIndex
  <2>2. ASSUME NEW version, Held(r), index' = [index EXCEPT ![job[r].asset] = version]
        PROVE  [Promise!Next]_(Promise!derivedVars)
    <3>1. PICK a \in Assets : a = job[r].asset
      BY <1>0, <2>1
    <3>2. Promise!Rebuild(a)
      BY <2>1, <2>2, <3>1, WriteIsRebuild
    <3> QED
      BY <3>2 DEF Promise!Next
  <2> QED
    BY <1>2, <1>4, <2>1, <2>2 DEF IndexAsset, ClearAssetIndex
<1>5. ASSUME NEW r \in Reconcilers, Complete(r)
      PROVE  [Promise!Next]_(Promise!derivedVars)
  <2>1. /\ pc[r] = "acknowledge" /\ UNCHANGED <<versions, head, index>>
        /\ job[r].asset \in Assets
        /\ Acknowledge(r, job[r].asset, job[r].generation) \/ UNCHANGED outbox
    BY <1>0, <1>5 DEF Complete, registryAndIndex
  <2>2. CASE Acknowledge(r, job[r].asset, job[r].generation) /\ Held(r)
    <3>1. PICK a \in Assets : a = job[r].asset
      BY <2>1
    <3>2. Promise!Settle(a)
      BY <2>1, <2>2, <3>1, CompleteIsSettle
    <3> QED
      BY <3>2 DEF Promise!Next
  <2>3. CASE UNCHANGED outbox
    BY <1>2, <2>1, <2>3
  <2> QED
    BY <2>1, <2>2, <2>3 DEF Acknowledge, Held
<1>6. ASSUME NEW r \in Reconcilers, Fail(r)
      PROVE  [Promise!Next]_(Promise!derivedVars)
  BY <1>0, <1>2, <1>3, <1>6 DEF Fail, registryAndIndex
<1>7. ASSUME NEW r \in Reconcilers,
             ClaimForRequest(r) \/ \E a \in Assets : ClaimForWorker(r, a)
      PROVE  [Promise!Next]_(Promise!derivedVars)
  BY <1>0, <1>2, <1>3, <1>7 DEF ClaimForRequest, ClaimForWorker, registryAndIndex
<1>8. ASSUME NEW r \in Reconcilers,
             ReadPublished(r) \/ ReadCurrent(r) \/ InvalidateCache(r) \/ Crash(r)
      PROVE  [Promise!Next]_(Promise!derivedVars)
  BY <1>2, <1>8 DEF ReadPublished, ReadCurrent, InvalidateCache, Crash, registryAndIndex
<1>9. ASSUME NEW a \in Assets, Expire(a) \/ RetryDue(a)
      PROVE  [Promise!Next]_(Promise!derivedVars)
  <2>1. UNCHANGED <<versions, head, index>> /\ (ExpireLease(a) \/ BecomeDue(a))
    BY <1>9 DEF Expire, RetryDue, registryAndIndex
  <2>2. \A b \in Assets : outbox'[b].state = "absent" <=> outbox[b].state = "absent"
    BY <1>0, <2>1 DEF ExpireLease, BecomeDue, OutboxTypeOK, Row
  <2> QED
    BY <2>1, <2>2, Stutter DEF Drained
<1>10. CASE UNCHANGED vars
  BY <1>2, <1>10 DEF vars
<1> QED
  BY <1>1, <1>4, <1>5, <1>6, <1>7, <1>8, <1>9, <1>10 DEF Next, Step

\* Initially nothing is published, indexed or queued.
LEMMA PromiseInit == Init => Promise!Init
<1> SUFFICES ASSUME Init
             PROVE  Promise!Init
  OBVIOUS
<1>1. \A a \in Assets : Projection(a) = NoVersion /\ Served(a) = NoVersion
  BY DEF Init, RegistryInit, NoHead, Projection, Served
<1>2. {a \in Assets : outbox[a].state = "absent"} = Assets
  BY DEF Init, OutboxInit, Absent
<1> QED
  BY <1>1, <1>2 DEF Promise!Init

\* Commands, outbox, reconcilers and index together implement DerivedIndex.
THEOREM KeepsThePromise == Spec => IndexKeepsItsPromise
BY PromiseInit, PromiseStep, ReconInvariant, PTL
   DEF Spec, IndexKeepsItsPromise, Promise!Spec
=============================================================================
