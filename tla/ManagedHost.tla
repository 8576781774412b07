----------------------------- MODULE ManagedHost -----------------------------
(***************************************************************************)
(* The managed installation the updater works on, and what each method of  *)
(* ManagedComposeExecutor (packages/updater/src/executor.ts) does to it:   *)
(* control files, containers, database and recovery points, as a record    *)
(* "host".  A method is a series of commands; it may fail or be cut off    *)
(* after any of them, so it is described by the host it leaves when it     *)
(* returns and by the hosts it may leave when it does not.                 *)
(*                                                                         *)
(* A release is its number in version order; 0 is the installed one.  The  *)
(* stored data is the number of the last write it contains; restoring a    *)
(* recovery point brings an earlier number back.                           *)
(***************************************************************************)
EXTENDS Naturals, Sequences, SequencesExt

CONSTANTS
    Jobs,           \* update and rollback jobs; a recovery point is named
                    \* after the job that created it
    NoJob,
    Releases,       \* releases the feed may offer
    InPlace,        \* releases with rollbackMode "application", whose
                    \* migrations older code can live with
    NoPoint         \* no files of a recovery point

ASSUME ReleasesAssumption == Releases \subseteq Nat \ {0}
ASSUME InPlaceAssumption == InPlace \subseteq Releases
ASSUME NoJobAssumption == NoJob \notin Jobs

Versions == Releases \cup {0}

\* configuration, identity and database of one backup set
RecoveryPoint == [env : Versions, version : Versions, schema : Versions,
                  data : Nat]

ASSUME NoPointAssumption == NoPoint \notin RecoveryPoint

Host == [env : Versions,            \* current-release.env
         identity : Versions,       \* identity.json
         running : Versions,        \* release of the api container
         mode : {"open", "fenced", "stopped"},  \* who may write through it
         schema : Versions,         \* newest release whose migrations ran
         data : Nat,
         whole : BOOLEAN,           \* FALSE between dropping and restoring it
         recovery : [Jobs -> RecoveryPoint \cup {NoPoint}]]

HostInit == [env |-> 0, identity |-> 0, running |-> 0, mode |-> "open",
             schema |-> 0, data |-> 0, whole |-> TRUE,
             recovery |-> [j \in Jobs |-> NoPoint]]

-----------------------------------------------------------------------------
(* Intermediate hosts.                                                     *)

Stopped(host) == [host EXCEPT !.mode = "stopped"]

Configured(host, release) == [host EXCEPT !.env = release]

Identified(host, version) == [host EXCEPT !.identity = version]

\* docker compose up with current-release.env, whose fence is open
Opened(host) == [host EXCEPT !.running = host.env, !.mode = "open"]

\* docker compose up with candidate-release.env
Fenced(host, release) == [host EXCEPT !.running = release, !.mode = "fenced"]

\* the restore drops the database before it loads the dump
Dropped(host) == [host EXCEPT !.whole = FALSE]

Reloaded(host, point) ==
    [host EXCEPT !.schema = point.schema, !.data = point.data, !.whole = TRUE]

Snapshot(host, version) ==
    [env |-> host.env, version |-> version, schema |-> host.schema,
     data |-> host.data]

-----------------------------------------------------------------------------
(* The methods.  "c" holds what a call is given: the job, the release, the *)
(* version it updates from, the name of the recovery point and the points  *)
(* to prune.  Trace is the series of hosts a call goes through.            *)

PointOf(c, host) == host.recovery[c.point]

StopTrace(host) == <<host, Stopped(host)>>

SnapshotTrace(c, host) ==
    <<host, [host EXCEPT !.recovery[c.job] = Snapshot(host, c.source)]>>

MigrateTrace(c, host) == <<host, [host EXCEPT !.schema = c.release]>>

\* the opened configuration and the identity are durable before the
\* services are recreated from them
ReopenTrace(c, host) ==
    LET configured == Configured(host, c.release)
        identified == Identified(configured, c.release)
    IN  <<host, configured, identified, Opened(identified)>>

RollbackDatabaseTrace(c, host) ==
    LET point == PointOf(c, host)
        stopped == Stopped(host)
        configured == Configured(stopped, point.env)
        dropped == Dropped(configured)
        reloaded == Reloaded(dropped, point)
        identified == Identified(reloaded, point.version)
    IN  IF point = NoPoint
        THEN <<host, stopped>>
        ELSE <<host, stopped, configured, dropped, reloaded, identified,
               Opened(identified)>>

RollbackApplicationTrace(c, host) ==
    LET point == PointOf(c, host)
        stopped == Stopped(host)
        configured == Configured(stopped, point.env)
        identified == Identified(configured, point.version)
    IN  IF point = NoPoint
        THEN <<host, stopped>>
        ELSE <<host, stopped, configured, identified, Opened(identified)>>

PruneTrace(c, host) ==
    [i \in 1..(Len(c.excess) + 1) |->
        [host EXCEPT !.recovery =
            [j \in Jobs |-> IF \E k \in 1..(i - 1) : c.excess[k] = j
                            THEN NoPoint ELSE host.recovery[j]]]]

Trace(call, c, host) ==
    CASE call \in {"stage", "verifyCandidate"} -> <<host>>
      [] call = "enterMaintenance" -> StopTrace(host)
      [] call = "createRecoveryPoint" -> SnapshotTrace(c, host)
      [] call = "migrate" -> MigrateTrace(c, host)
      [] call = "startCandidate" -> <<host, Fenced(host, c.release)>>
      [] call = "reopenWrites" -> ReopenTrace(c, host)
      [] call = "resumeCurrent" -> <<host, Opened(host)>>
      [] call = "rollbackDatabase" -> RollbackDatabaseTrace(c, host)
      [] call = "rollbackApplication" -> RollbackApplicationTrace(c, host)
      [] call = "deleteRecoveryPoints" -> PruneTrace(c, host)

\* verifyServices: the health answer of the running release has the
\* installed identity and the opened fence
Serves(host, version) == host.mode = "open" /\ host.whole /\ host.running = version

\* What a call checks itself; anything else in it may fail for reasons outside.
CanSucceed(call, c, host) ==
    LET final == Last(Trace(call, c, host))
    IN  CASE call \in {"stage", "migrate"} -> host.whole /\ host.schema <= c.release
          [] call = "createRecoveryPoint" -> host.whole
          [] call = "verifyCandidate" -> /\ host.mode = "fenced"
                                         /\ host.running = c.release
          [] call \in {"reopenWrites", "resumeCurrent"} -> Serves(final, final.identity)
          [] call \in {"rollbackDatabase", "rollbackApplication"} ->
                 PointOf(c, host) # NoPoint /\ Serves(final, final.identity)
          [] OTHER -> TRUE

\* where a call that threw leaves the host: a recovery point that could not
\* be completed is removed again
Thrown(call, c, host) ==
    IF call = "createRecoveryPoint" THEN {host} ELSE Range(Trace(call, c, host))

\* where the death of the updater leaves it
CutOff(call, c, host) == Range(Trace(call, c, host))
=============================================================================
