--------------------------- MODULE OptimisticReads ---------------------------
(* Long reads of the registry that lock nothing: the paged export             *)
(* (GET /exports/ai-package) and the capture of an import plan                *)
(* (planGovernedImport). Each statement is a step, between which editors and  *)
(* administrators go on. Both compare the tenant's content revision at the    *)
(* end with the one at the start; grants are not part of it.                  *)
(*                                                                            *)
(* One principal reads, whose access only grants decide. The inventory of an  *)
(* asset's grants is 0 when it does not let the principal in, 1 or 2 when it  *)
(* does; a row's id, which no later row has, is left out, so that more        *)
(* captures pass here than in the code. The exported package is one of the    *)
(* surfaces. Every asset is a target of the plan. The pages of an inventory,  *)
(* the limits on targets, the classification of targets and changes of the    *)
(* principal itself are left out.                                             *)
EXTENDS AssetRegistry, FiniteSets

CONSTANTS Batch,        \* rows that listAssets returns at most
          Limit,        \* assets of an export page
          Package,      \* the exported package
          MaxChanges    \* bound on the edits and changes of grants during a read

ASSUME ReadsAssumption ==
  /\ Assets \subseteq Nat \ {0} /\ IsFiniteSet(Assets)   \* in the order of stable ids
  /\ Package \in Surfaces
  /\ {Batch, Limit} \subseteq Nat \ {0} /\ MaxChanges \in Nat

VARIABLES grants,    \* permission_grants: the inventory of each asset
          read,      \* the export or the capture in progress
          past       \* the grants since it began, change by change, for the properties

vars == <<versions, head, grants, read, past>>

Inventories == 0 .. 2
NoRead == [at |-> "idle"]
Resting == read.at \in {"idle", "done"}

\* A change comes between the steps of the read. An answer is kept until then,
\* for the properties.
Meanwhile ==
  IF Resting THEN read' = NoRead /\ past' = << >>
  ELSE Len(past) <= MaxChanges /\ past' = Append(past, grants') /\ UNCHANGED read

\* canAccessAsset, for an asset that only a grant opens.
Access(a) == grants[a] # 0

\* The version that the package offers of an asset.
Offered(a) ==
  LET v == Projection(a)
  IN IF v # NoVersion /\ Package \in versions[a][v].surfaces \cap head[a].surfaces
     THEN v ELSE NoVersion

Init ==
  /\ RegistryInit
  /\ grants = [a \in Assets |-> 0]
  /\ read = NoRead /\ past = << >>
-----------------------------------------------------------------------------
(* Editors and administrators.                                                *)

Edit(a) ==
  /\ \/ \E snapshot \in Inputs : CreateAsset(a, snapshot)
     \/ Command(a, NoVersion)
  /\ UNCHANGED grants
  /\ Meanwhile

\* createPermissionGrants and revokePermissionGrant.
ChangeGrants(a) ==
  /\ Exists(a)
  /\ \E inventory \in Inventories \ {grants[a]} : grants' = [grants EXCEPT ![a] = inventory]
  /\ Meanwhile
  /\ UNCHANGED registryVars
-----------------------------------------------------------------------------
(* What both reads are made of.                                               *)

\* MUTANT of Revision: the revision of what readers see.
RevisionOfPublished == [a \in Assets |-> <<head[a].published>>]

\* getContentRevision, by what its digest tells apart.
Revision == [a \in Assets |-> <<head[a].current, head[a].published>>]

Lowest(S) == CHOOSE a \in S : \A b \in S : a <= b
Highest(S) == CHOOSE a \in S : \A b \in S : b <= a
FirstOf(n, S) == {a \in S : Cardinality({b \in S : b < a}) < n}

\* was: what there was to read, kept for the properties.
Begin(r) == Resting /\ read' = r /\ past' = <<grants>>
Continue(r) == read' = r /\ UNCHANGED past
Refuse == read' = NoRead /\ past' = << >>
Unread == UNCHANGED <<versions, head, grants>>

\* The client gives up, a statement fails, or the process dies.
Drop == ~Resting /\ Refuse /\ Unread
-----------------------------------------------------------------------------
(* GET /exports/ai-package.                                                   *)

StartExport ==
  /\ Begin([at |-> "list", revision |-> Revision,
            was |-> [a \in Assets |-> Offered(a)],
            after |-> 0, batch |-> {}, offered |-> {}, listed |-> {}, found |-> NoVersion,
            more |-> FALSE, page |-> << >>, package |-> << >>])
  /\ Unread

\* listAssets and the filter on the package.
ListBatch ==
  LET batch == FirstOf(Batch, {a \in Assets : a > read.after /\ Projection(a) # NoVersion})
  IN /\ read.at = "list"
     /\ Continue([read EXCEPT !.at = "filter", !.batch = batch,
                              !.offered = {a \in batch : Offered(a) # NoVersion}])
     /\ Unread

\* filterAccessibleAssets, and the end of the page or the next batch.
FilterBatch ==
  LET permitted == {a \in read.offered : Access(a)}
      room == Limit - Cardinality(read.listed)
      listed == read.listed \cup FirstOf(room, permitted)
      full == Cardinality(permitted) > room
      last == ~full /\ Cardinality(read.batch) < Batch
  IN /\ read.at = "filter"
     /\ Continue([read EXCEPT !.at = IF full \/ last THEN "detail" ELSE "list",
                              !.batch = {}, !.offered = {}, !.listed = listed, !.more = full,
                              !.after = IF full THEN Highest(listed)
                                        ELSE IF last THEN @ ELSE Highest(read.batch)])
     /\ Unread

\* getAssetByStableId; canExportAsset asks for the package before the grant.
ReadDetail ==
  LET a == Lowest(read.listed)
  IN /\ read.at = "detail" /\ read.listed # {}
     /\ IF Offered(a) = NoVersion
        THEN Continue([read EXCEPT !.listed = @ \ {a}])
        ELSE Continue([read EXCEPT !.at = "check", !.found = Offered(a)])
     /\ Unread

CheckGrant ==
  LET a == Lowest(read.listed)
  IN /\ read.at = "check"
     /\ Continue([read EXCEPT !.at = "detail", !.listed = @ \ {a}, !.found = NoVersion,
                    !.page = IF Access(a) THEN Append(@, [asset |-> a, version |-> read.found]) ELSE @])
     /\ Unread

AnswerPage ==
  /\ read.at = "detail" /\ read.listed = {}
  /\ IF Revision = read.revision
     THEN Continue([read EXCEPT !.at = IF read.more THEN "between" ELSE "done",
                                !.page = << >>, !.package = @ \o read.page])
     ELSE Refuse
  /\ Unread

\* The client comes back with the cursor, which holds the revision.
NextPage ==
  /\ read.at = "between"
  /\ IF Revision = read.revision THEN Continue([read EXCEPT !.at = "list"]) ELSE Refuse
  /\ Unread
-----------------------------------------------------------------------------
(* planGovernedImport.                                                        *)

StartPlan ==
  /\ Begin([at |-> "heads", revision |-> Revision,
            was |-> [a \in Assets |-> head[a].current],
            after |-> 0, batch |-> << >>, todo |-> {}, got |-> {}])
  /\ Unread

\* The next target, the next page of heads, or the second look at the grants.
Advance(r) ==
  IF r.todo # {} THEN [r EXCEPT !.at = "access"]
  ELSE IF Cardinality(DOMAIN r.batch) < Batch
       THEN [r EXCEPT !.at = "again", !.after = 0, !.batch = << >>,
                           !.todo = {x.asset : x \in r.got}]
       ELSE [r EXCEPT !.at = "heads", !.after = Highest(DOMAIN r.batch)]

ListHeads ==
  LET rows == FirstOf(Batch, {a \in Assets : a > read.after /\ Exists(a)})
  IN /\ read.at = "heads"
     /\ Continue(Advance([read EXCEPT !.batch = [a \in rows |-> head[a].current], !.todo = rows]))
     /\ Unread

CheckAccess ==
  /\ read.at = "access"
  /\ IF Access(Lowest(read.todo)) THEN Continue([read EXCEPT !.at = "target"]) ELSE Refuse
  /\ Unread

ReadTarget ==
  LET a == Lowest(read.todo)
  IN /\ read.at = "target"
     /\ IF head[a].current = read.batch[a] THEN Continue([read EXCEPT !.at = "grants"]) ELSE Refuse
     /\ Unread

ReadGrants ==
  LET a == Lowest(read.todo)
  IN /\ read.at = "grants"
     /\ Continue(Advance([read EXCEPT !.todo = @ \ {a},
                            !.got = @ \cup {[asset |-> a, version |-> read.batch[a], grant |-> grants[a]]}]))
     /\ Unread

\* MUTANT of Unchanged: the second look only asks whether there still is access.
UnchangedAccess(x) == Access(x.asset)

Unchanged(x) == grants[x.asset] = x.grant

RereadGrants ==
  LET x == CHOOSE y \in read.got : y.asset = Lowest(read.todo)
  IN /\ read.at = "again" /\ read.todo # {}
     /\ IF Unchanged(x) THEN Continue([read EXCEPT !.at = "recheck"]) ELSE Refuse
     /\ Unread

RecheckAccess ==
  LET a == Lowest(read.todo)
  IN /\ read.at = "recheck"
     /\ IF Access(a) THEN Continue([read EXCEPT !.at = "again", !.todo = @ \ {a}]) ELSE Refuse
     /\ Unread

AnswerPlan ==
  /\ read.at = "again" /\ read.todo = {}
  /\ IF Revision = read.revision THEN Continue([read EXCEPT !.at = "done"]) ELSE Refuse
  /\ Unread
-----------------------------------------------------------------------------
ExportStep == \/ StartExport \/ ListBatch \/ FilterBatch \/ ReadDetail \/ CheckGrant
              \/ AnswerPage \/ NextPage
PlanStep == \/ StartPlan \/ ListHeads \/ CheckAccess \/ ReadTarget \/ ReadGrants
            \/ RereadGrants \/ RecheckAccess \/ AnswerPlan

Next ==
  \/ \E a \in Assets : Edit(a) \/ ChangeGrants(a)
  \/ ExportStep \/ PlanStep \/ Drop

Spec == Init /\ [][Next]_vars
-----------------------------------------------------------------------------
(* Properties.                                                                *)

Exported == read.at = "done" /\ "package" \in DOMAIN read
Planned == read.at = "done" /\ "got" \in DOMAIN read

\* An export whose last page was answered is the package of one moment, in
\* spite of the pages, batches and statements it was read in: each asset once
\* and in order, in the version that was offered when the export began, and
\* nothing that was offered is missing, unless the reader had no access to it
\* at some time in between. Nothing is in it to which it never had access.
ExportIsOneMoment ==
  Exported =>
    LET exported == {read.package[i].asset : i \in DOMAIN read.package}
    IN /\ \A i \in DOMAIN read.package :
            /\ read.package[i].version = read.was[read.package[i].asset]
            /\ \A j \in DOMAIN read.package :
                 i < j => read.package[i].asset < read.package[j].asset
       /\ \A a \in Assets : read.was[a] # NoVersion /\ a \notin exported =>
            \E i \in DOMAIN past : past[i][a] = 0
       /\ \A a \in exported : \E i \in DOMAIN past : past[i][a] # 0

\* The inventory of an asset changed and changed back during the read.
WentBack(a) ==
  \E i, j, k \in DOMAIN past :
    i < j /\ j < k /\ past[i][a] = past[k][a] /\ past[i][a] # past[j][a]

\* The targets of a plan that was answered are all heads as they were at its
\* start, and with grants that they all had at one moment of the capture: two
\* looks at each inventory are enough for that, unless a target between the
\* first and the last went back to what it was in between, or both of these.
PlanIsOneMoment ==
  Planned =>
    LET targets == {x.asset : x \in read.got}
    IN /\ targets = {a \in Assets : read.was[a] # NoVersion}
       /\ \A x \in read.got : x.version = read.was[x.asset]
       /\ \/ \E a, b \in targets : /\ WentBack(a) /\ a # Lowest(targets)
                                   /\ WentBack(b) /\ b # Highest(targets)
          \/ \E i \in DOMAIN past : \A x \in read.got : past[i][x.asset] = x.grant
=============================================================================
