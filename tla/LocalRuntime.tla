---------------------------- MODULE LocalRuntime ----------------------------
(* The local runtime client: one profile directory and one credential in the  *)
(* keychain, used by processes that write (connect, sync, rebuild and         *)
(* disconnect) or read (search, source and guidance).                         *)
(*                                                                            *)
(* A writer runs under a lock file and starts by writing a deny-first marker; *)
(* every file write, keychain call and HTTP call is a step that may succeed,  *)
(* fail or never return, because the process may be killed between any two.   *)
(* Readers take no lock: they read credential, profile and marker one after   *)
(* the other, before the query and again after it.                            *)
(*                                                                            *)
(* The server is reduced to what the client can tell apart: two counters, the *)
(* hashes they commit to, and the device session with its refresh token.      *)
EXTENDS Naturals, FiniteSets

CONSTANTS Processes,
          NoProcess,        \* the lock file does not exist
          Reads,            \* reads of one guidance call
          MaxCount,         \* bound on the server's epoch and generation
          MaxManifests,     \* bound on the generations built
          EntersFrom,       \* bound: generations built before a writer may enter
                            \* during a removal
          MaxFaults         \* bound on kills, failing I/O calls, restores, epochs raised
                            \* alone and writers entering during a removal

ASSUME RuntimeAssumption ==
  /\ NoProcess \notin Processes
  /\ Reads \in Nat \ {0} /\ MaxCount \in Nat \ {0} /\ MaxManifests \in Nat
  /\ EntersFrom \in Nat /\ MaxFaults \in Nat

VARIABLES server,     \* counters, restored lineage, session
          marker,     \* .sync-state.json, a sync in progress and a failed one alike;
                      \* "removed" is no file, as "none"
          profile,    \* profile.json
          cred,       \* the keychain entry
          files,      \* complete generation files
          lock,       \* .sync.lock
          robbed,     \* writers whose lock file another step took (history)
          entered,    \* a writer began during a removal (history)
          writer, reader,
          issued,     \* snapshot ids used so far
          lastWord,   \* what the server last told this enrolment
          faults

locking == <<lock, robbed, entered>>
disk == <<marker, profile, cred, files, locking>>
vars == <<server, disk, writer, reader, issued, lastWord, faults>>
-----------------------------------------------------------------------------
(* Data.                                                                      *)

\* Counters and the hashes they commit to. A hash is a lineage number: the
\* values a restored server reaches again differ from those it lost.
NoMark == [epoch |-> 0, gen |-> 0, ent |-> 0, rec |-> 0]
Denied == [NoMark EXCEPT !.ent = 1]
HashOf(count, line) == IF count <= 1 THEN 0 ELSE line
At(s) == [epoch |-> s.epoch, gen |-> s.gen,
          ent |-> HashOf(s.epoch, s.line), rec |-> HashOf(s.gen, s.line)]

NoFile == [id |-> 0, rec |-> NoMark]
NoProfile == [state |-> "none", file |-> NoFile, at |-> NoMark]
FirstProfile == [NoProfile EXCEPT !.state = "not-built"]
\* The keychain bundle: whether its refresh token is the one the server would
\* take now, and the accepted counters.
NoCred == [exists |-> FALSE, fresh |-> FALSE, at |-> NoMark]
NewCred == [exists |-> TRUE, fresh |-> TRUE, at |-> NoMark]

\* MUTANT of Behind: only the authorization counter is compared
BehindInEpoch(a, b) == a.epoch < b.epoch

\* An older, or an equal but different, statement about the same counters.
Behind(a, b) == a.epoch < b.epoch \/ a.gen < b.gen
Conflicts(a, b) == \/ a.epoch = b.epoch /\ a.ent # b.ent
                   \/ a.gen = b.gen /\ a.rec # b.rec

\* assertCredentialHighWater, for a profile and the accepted counters.
HighWater(p, mark, behindAllowed) ==
  /\ p.state = "ready" => mark # NoMark
  /\ ~behindAllowed => ~Behind(p.at, mark)
  /\ mark # NoMark => ~Conflicts(p.at, mark)

\* The code sees no marker file. "removed" remembers that a removal took it and
\* left the profile it denied.
Absent == {"none", "removed"}

\* What a query that started now would accept.
Readable == /\ cred.exists /\ marker \in Absent /\ profile.state = "ready"
            /\ HighWater(profile, cred.at, FALSE) /\ profile.file \in files
-----------------------------------------------------------------------------
(* The server. The lease and the clock are left out: an expired lease only    *)
(* makes a reader refuse, so the readers here are the more permissive ones.   *)

Fault == faults < MaxFaults /\ faults' = faults + 1

ServerInit == [epoch |-> 1, gen |-> 1, line |-> 0, live |-> FALSE]

Client == <<disk, writer, reader, issued, lastWord, faults>>

PublishContent == /\ server.gen < MaxCount
                  /\ server' = [server EXCEPT !.gen = @ + 1]
                  /\ UNCHANGED Client

ContractGrants == /\ server.gen < MaxCount /\ server.epoch < MaxCount
                  /\ server' = [server EXCEPT !.gen = @ + 1, !.epoch = @ + 1]
                  /\ UNCHANGED Client

\* Another device of the principal is revoked: the epoch rises alone.
BumpEpoch == /\ server.epoch < MaxCount /\ Fault
             /\ server' = [server EXCEPT !.epoch = @ + 1]
             /\ UNCHANGED <<disk, writer, reader, issued, lastWord>>

\* With the session every copy of its token is worthless.
SessionOver == /\ server.live /\ server' = [server EXCEPT !.live = FALSE]
               /\ cred' = [cred EXCEPT !.fresh = FALSE]

RevokeDevice == /\ SessionOver
                /\ writer' = [v \in Processes |-> [writer[v] EXCEPT !.c.fresh = FALSE]]
                /\ UNCHANGED <<marker, profile, files, locking, reader, issued, lastWord, faults>>

\* The operator restores the backup taken before any change.
RestoreServer == /\ server.line = 0 /\ Fault
                 /\ server' = [server EXCEPT !.epoch = 1, !.gen = 1, !.line = 1]
                 /\ UNCHANGED <<disk, writer, reader, issued, lastWord>>
-----------------------------------------------------------------------------
(* Writers.                                                                   *)

Operations == {"connect", "sync", "rebuild", "disconnect", "disconnect-local"}
NoManifest == [mode |-> "none", at |-> NoMark]
IdleWriter == [pc |-> "idle", op |-> "none", prior |-> "none", p |-> NoProfile,
               c |-> NoCred, m |-> NoManifest]

Syncs(w) == writer[w].op \in {"sync", "rebuild"}
On(w, pc) == writer[w].pc = pc
Reading(r, pc) == reader[r].pc = pc
\* What a writer has in memory is dropped when no later step uses it.
Forgetting(v, pc) ==
  LET op == CASE v.op = "rebuild" /\ pc \notin {"refresh", "store", "manifest"} -> "sync"
              [] v.op = "connect" /\ pc = "release" -> "sync"
              [] v.op = "disconnect-local" /\ pc = "release" -> "disconnect"
              [] OTHER -> v.op
  IN IF pc \in {"remove", "forget", "undo", "fail", "release"}
     THEN [IdleWriter EXCEPT !.pc = pc, !.op = op]
     ELSE [v EXCEPT !.pc = pc, !.op = op,
                    !.prior = IF pc = "refresh" THEN @ ELSE "none",
                    !.p = IF pc = "clear" THEN NoProfile ELSE @,
                    !.c = IF pc \in {"apply", "activate", "prune", "clear", "block-marker", "block-profile", "end-session"}
                          THEN NoCred ELSE @,
                    !.m = IF pc = "apply" THEN @ ELSE NoManifest]
Go(w, pc) == writer' = [writer EXCEPT ![w] = Forgetting(@, pc)]

Removing == \E v \in Processes : On(v, "remove")
\* No other process is left, and nothing that a query would be answered from.
Afresh == (profile.state # "ready" \/ marker \notin Absent) /\ \A p \in Processes : On(p, "idle") /\ Reading(p, "idle")

Acquire(w, op) ==
  /\ On(w, "idle") /\ Reading(w, "idle") /\ lock = NoProcess
  /\ lock' = w /\ robbed' = robbed \ {w}
  /\ entered' = (Removing \/ (entered /\ ~Afresh))
  /\ IF Removing THEN Fault /\ issued >= EntersFrom ELSE UNCHANGED faults
  /\ writer' = [writer EXCEPT ![w].op = op, ![w].pc =
        CASE op = "connect" -> "enroll"
          [] op = "disconnect-local" -> "remove"
          [] OTHER -> "deny"]
  /\ UNCHANGED <<server, marker, profile, cred, files, reader, issued, lastWord>>

\* beginSyncMarker: the profile itself goes when the marker cannot be written.
BeginMarker(w) ==
  /\ On(w, "deny")
  /\ \/ /\ marker # "revocation-pending"
        /\ marker' = "unfinished"
        /\ writer' = [writer EXCEPT ![w].pc = "load", ![w].prior = marker]
        /\ UNCHANGED <<profile, faults>>
     \/ /\ marker = "revocation-pending"
        /\ profile' = NoProfile /\ Go(w, "fail")
        /\ UNCHANGED <<marker, faults>>
     \/ /\ Fault
        /\ marker' \in {marker, "unfinished"}
        /\ profile' \in {NoProfile, profile} /\ Go(w, "fail")
  /\ UNCHANGED <<server, cred, files, locking, reader, issued, lastWord>>

LoadProfile(w) ==
  LET readable == /\ cred.exists /\ profile # NoProfile
                  /\ HighWater(profile, cred.at, writer[w].op = "rebuild")
  IN /\ On(w, "load")
     /\ writer' = IF writer[w].op = "disconnect" /\ profile = NoProfile
                  THEN [writer EXCEPT ![w].pc = "remove"]
                  ELSE IF readable
                  THEN [writer EXCEPT ![w].pc = "refresh", ![w].p = profile, ![w].c = cred]
                  ELSE [writer EXCEPT ![w].pc = "fail"]
     /\ UNCHANGED <<server, disk, reader, issued, lastWord, faults>>
-----------------------------------------------------------------------------
(* Requests of a writer. Each may be refused, or fail without a usable answer *)
(* whether or not the server has acted on it.                                 *)

Accepts(w) == server.live /\ writer[w].c.fresh

\* The session gets a new token, which only writer w may come to know: every
\* copy of an older one is worthless.
NewToken(w, learnt, pc) ==
  writer' = [v \in Processes |->
        IF v = w THEN Forgetting([writer[v] EXCEPT !.c.fresh = learnt], pc)
                 ELSE [writer[v] EXCEPT !.c.fresh = FALSE]]
Rotate(w, learnt, pc) == NewToken(w, learnt, pc) /\ cred' = [cred EXCEPT !.fresh = FALSE]

RefreshToken(w) ==
  /\ On(w, "refresh") /\ Accepts(w)
  /\ Rotate(w, TRUE, "store")
  /\ UNCHANGED <<server, marker, profile, files, locking, reader, issued, lastWord, faults>>

\* 401 or 403, of any request: the client must stop answering.
Refused(w) ==
  /\ writer[w].pc \in {"refresh", "manifest", "end-session"}
  /\ IF On(w, "refresh") THEN ~Accepts(w) ELSE ~server.live
  /\ lastWord' = Denied
  /\ Go(w, "block-marker")
  /\ UNCHANGED <<server, disk, reader, issued, faults>>

\* The pinned identity or policy differs from the server's.
ConfigurationDiffers(w) ==
  /\ On(w, "manifest") /\ server.live
  /\ lastWord' = Denied
  /\ Go(w, "block-marker")
  /\ UNCHANGED <<server, disk, reader, issued, faults>>

\* clearSyncMarker, after a sync that changed nothing.
NoMarkerAgain(w) == IF writer[w].prior = "removed" THEN "removed" ELSE "none"

\* MUTANT of RefreshUnanswered: an earlier failed sync is forgotten
RefreshUnansweredAfterAll(w) ==
  LET keepLease == /\ Syncs(w)
                   /\ writer[w].p.state = "ready"
                   /\ HighWater(writer[w].p, writer[w].c.at, FALSE)
         next(pc) == \/ Accepts(w) /\ Rotate(w, FALSE, pc)
                     \/ Go(w, pc) /\ UNCHANGED cred
  IN /\ On(w, "refresh")
     /\ \/ keepLease /\ marker' = NoMarkerAgain(w) /\ next("release") /\ UNCHANGED faults
        \/ keepLease /\ Fault /\ marker' \in {marker, NoMarkerAgain(w)} /\ next("fail")
        \/ ~keepLease /\ next("fail") /\ UNCHANGED <<marker, faults>>
     /\ UNCHANGED <<server, profile, files, locking, reader, issued, lastWord>>

\* No answer at all to the refresh: a valid lease may go on, unless an
\* earlier sync ended badly. The token may have been rotated all the same.
RefreshUnanswered(w) ==
  LET keepLease == /\ Syncs(w) /\ writer[w].prior \in Absent
                   /\ writer[w].p.state = "ready"
                   /\ HighWater(writer[w].p, writer[w].c.at, FALSE)
         next(pc) == \/ Accepts(w) /\ Rotate(w, FALSE, pc)
                     \/ Go(w, pc) /\ UNCHANGED cred
  IN /\ On(w, "refresh")
     /\ \/ keepLease /\ marker' = NoMarkerAgain(w) /\ next("release") /\ UNCHANGED faults
        \/ keepLease /\ Fault /\ marker' \in {marker, NoMarkerAgain(w)} /\ next("fail")
        \/ ~keepLease /\ next("fail") /\ UNCHANGED <<marker, faults>>
     /\ UNCHANGED <<server, profile, files, locking, reader, issued, lastWord>>

\* A server error or a truncated body.
RequestFails(w) ==
  /\ writer[w].pc \in {"refresh", "manifest", "end-session"}
  /\ \/ Go(w, "fail") /\ UNCHANGED <<server, cred>>
     \/ On(w, "refresh") /\ Accepts(w) /\ Rotate(w, FALSE, "fail") /\ UNCHANGED server
     \/ On(w, "end-session") /\ NewToken(w, FALSE, "fail") /\ SessionOver
  /\ UNCHANGED <<marker, profile, files, locking, reader, issued, lastWord, faults>>

\* The keychain refuses a bundle that lowers or contradicts the stored counters.
CredentialTakes(c) == cred.at = NoMark \/ ~(Behind(c.at, cred.at) \/ Conflicts(c.at, cred.at))

\* The rotated token; without it the device must enrol again.
StoreToken(w) ==
  /\ On(w, "store")
  /\ \/ /\ cred' = IF CredentialTakes(writer[w].c) THEN writer[w].c ELSE cred
        /\ Go(w, IF ~CredentialTakes(writer[w].c) THEN "fail"
                 ELSE IF Syncs(w) THEN "manifest" ELSE "end-session")
        /\ UNCHANGED faults
     \/ Fault /\ Go(w, "fail") /\ UNCHANGED cred
  /\ UNCHANGED <<server, marker, profile, files, locking, reader, issued, lastWord>>

\* "full" may always be answered: a delta must be smaller to be sent.
ModesFor(known, now) ==
  LET same == known.epoch = now.epoch /\ known.gen = now.gen /\ known.rec = now.rec
      base == known.gen = now.gen - 1 /\ known.epoch <= now.epoch
              /\ known.rec = HashOf(now.gen - 1, server.line)
  IN IF same THEN {"unchanged"}
     ELSE IF base /\ known # NoMark THEN {"delta", "full"} ELSE {"full"}

\* A statement older than, or at odds with, what was accepted before.
RolledBack(w, now) == \/ Behind(now, writer[w].p.at) \/ Behind(now, writer[w].c.at)
                      \/ writer[w].p.at # NoMark /\ Conflicts(now, writer[w].p.at)
                      \/ writer[w].c.at # NoMark /\ Conflicts(now, writer[w].c.at)

ReceiveManifest(w) ==
  /\ On(w, "manifest") /\ server.live
  /\ LET known == IF writer[w].op = "rebuild" THEN NoMark ELSE writer[w].p.at
         now == At(server)
     IN IF RolledBack(w, now)
        THEN lastWord' = Denied /\ Go(w, "block-marker")
        ELSE /\ lastWord' = now
             /\ \E mode \in ModesFor(known, now) :
                  writer' = [writer EXCEPT ![w] =
                      [Forgetting(@, "accept") EXCEPT !.m = [mode |-> mode, at |-> now]]]
  /\ UNCHANGED <<server, disk, reader, issued, faults>>

\* persistAcceptedCredential: the high-water mark, before anything is built.
AcceptManifest(w) ==
  /\ On(w, "accept")
  /\ LET accepted == [writer[w].c EXCEPT !.at = writer[w].m.at]
     IN \/ /\ cred' = IF CredentialTakes(accepted) THEN accepted ELSE cred
           /\ Go(w, IF CredentialTakes(accepted) THEN "apply" ELSE "fail")
           /\ UNCHANGED faults
        \/ Fault /\ Go(w, "fail") /\ UNCHANGED cred
  /\ UNCHANGED <<server, marker, profile, files, locking, reader, issued, lastWord>>
-----------------------------------------------------------------------------
(* Building and activating a generation.                                      *)

\* The same profile with a later lease.
RenewLease(w) ==
  LET p == writer[w].p
      current == p.state = "ready" /\ p.at = writer[w].m.at
  IN /\ On(w, "apply") /\ writer[w].m.mode = "unchanged"
     /\ \/ current /\ profile' = p /\ Go(w, "clear") /\ UNCHANGED faults
        \/ current /\ Fault /\ profile' \in {profile, p} /\ Go(w, "fail")
        \/ ~current /\ Go(w, "fail") /\ UNCHANGED <<profile, faults>>
     /\ UNCHANGED <<server, marker, cred, files, locking, reader, issued, lastWord>>

BuildGeneration(w) ==
  /\ On(w, "apply") /\ writer[w].m.mode \in {"delta", "full"}
  /\ LET p == writer[w].p
         based == writer[w].m.mode = "delta" =>
                    p.state = "ready" /\ p.file \in files /\ p.file.rec = p.at
         built == [id |-> issued + 1, rec |-> writer[w].m.at]
     IN \/ /\ based /\ issued < MaxManifests
           /\ issued' = issued + 1
           /\ files' = files \cup {built}
           /\ writer' = [writer EXCEPT ![w] = Forgetting([@ EXCEPT
                 !.p = [state |-> "ready", file |-> built, at |-> built.rec]], "activate")]
           /\ UNCHANGED faults
        \/ /\ ~based /\ Go(w, "fail") /\ UNCHANGED <<files, issued, faults>>
        \/ /\ Fault /\ issued < MaxManifests /\ issued' = issued + 1
           /\ files' \in {files, files \cup {built}} /\ Go(w, "fail")
  /\ UNCHANGED <<server, marker, profile, cred, locking, reader, lastWord>>

\* The profile pointer is what makes the new generation the active one.
Activate(w) ==
  /\ On(w, "activate")
  /\ \/ profile' = writer[w].p /\ Go(w, "prune") /\ UNCHANGED faults
     \/ Fault /\ profile' \in {profile, writer[w].p} /\ Go(w, "fail")
  /\ UNCHANGED <<server, marker, cred, files, locking, reader, issued, lastWord>>

PruneGenerations(w) ==
  /\ On(w, "prune")
  /\ LET active == files \cap {writer[w].p.file}
     IN \/ files' = active /\ Go(w, "clear") /\ UNCHANGED faults
        \/ Fault /\ files' \in {files, active} /\ Go(w, "block-marker")
  /\ UNCHANGED <<server, marker, profile, cred, locking, reader, issued, lastWord>>

ClearMarker(w) ==
  /\ On(w, "clear")
  /\ LET failed == IF Syncs(w) THEN "fail" ELSE "undo"
     IN \/ marker' = "none" /\ Go(w, "release") /\ UNCHANGED faults
        \/ Fault /\ marker' \in {marker, "none"} /\ Go(w, failed)
  /\ UNCHANGED <<server, profile, cred, files, locking, reader, issued, lastWord>>
-----------------------------------------------------------------------------
(* Error paths.                                                               *)

\* markProfileRevocationPending: marker first, profile second. A failure goes
\* to the caller's catch: disconnect removes the profile, sync tries a marker.
BlockMarker(w) ==
  /\ On(w, "block-marker")
  /\ \/ marker' = "revocation-pending" /\ Go(w, "block-profile") /\ UNCHANGED <<profile, faults>>
     \/ /\ Fault /\ marker' \in {marker, "revocation-pending"}
        /\ IF Syncs(w) THEN Go(w, "fail") /\ UNCHANGED profile
                       ELSE Go(w, "release") /\ profile' = NoProfile
  /\ UNCHANGED <<server, cred, files, locking, reader, issued, lastWord>>

BlockProfile(w) ==
  /\ On(w, "block-profile")
  /\ LET blocked == [writer[w].p EXCEPT !.state = "revocation-pending"]
     IN \/ profile' = blocked /\ Go(w, IF Syncs(w) THEN "fail" ELSE "release") /\ UNCHANGED faults
        \/ /\ Fault
           /\ IF Syncs(w) THEN profile' \in {profile, blocked} /\ Go(w, "fail")
                          ELSE profile' = NoProfile /\ Go(w, "release")
  /\ UNCHANGED <<server, marker, cred, files, locking, reader, issued, lastWord>>

\* The outer catch: markTransientSyncFailure, and if that fails the profile goes.
Fail(w) ==
  /\ On(w, "fail")
  /\ Go(w, "release")
  /\ \/ /\ marker' = IF marker = "revocation-pending" THEN marker ELSE "unfinished"
        /\ UNCHANGED <<profile, faults>>
     \/ Fault /\ profile' \in {NoProfile, profile} /\ UNCHANGED marker
  /\ UNCHANGED <<server, cred, files, locking, reader, issued, lastWord>>

Idle(w) == writer' = [writer EXCEPT ![w] = IdleWriter]

\* The lock file is compared with what this writer wrote, and then unlinked.
Release(w) ==
  /\ On(w, "release")
  /\ IF lock = w
     THEN writer' = [writer EXCEPT ![w] = [IdleWriter EXCEPT !.pc = "unlink"]] /\ UNCHANGED robbed
     ELSE Idle(w) /\ robbed' = robbed \ {w}
  /\ UNCHANGED <<server, marker, profile, cred, files, lock, entered, reader, issued, lastWord, faults>>

Unlink(w) ==
  /\ On(w, "unlink")
  /\ lock' = NoProcess /\ robbed' = (robbed \cup {lock}) \ {w, NoProcess}
  /\ Idle(w)
  /\ UNCHANGED <<server, marker, profile, cred, files, entered, reader, issued, lastWord, faults>>

\* The process is killed: its lock file stays.
Kill(w) ==
  /\ ~On(w, "idle") /\ Fault
  /\ Idle(w) /\ robbed' = robbed \ {w}
  /\ UNCHANGED <<server, marker, profile, cred, files, lock, entered, reader, issued, lastWord>>

\* MUTANT of RemoveAbandonedLock: the lock is taken for abandoned
RemoveAnyLock ==
  /\ lock # NoProcess /\ lock' = NoProcess
  /\ UNCHANGED <<server, marker, profile, cred, files, robbed, entered, writer, reader, issued, lastWord, faults>>

\* The operator removes an abandoned lock, with every writer stopped.
RemoveAbandonedLock ==
  /\ lock # NoProcess /\ \A w \in Processes : On(w, "idle")
  /\ lock' = NoProcess
  /\ UNCHANGED <<server, marker, profile, cred, files, robbed, entered, writer, reader, issued, lastWord, faults>>
-----------------------------------------------------------------------------
(* connect and disconnect.                                                    *)

\* authorizeLocalDevice, on a profile that neither exists nor left a credential.
Enroll(w) ==
  /\ On(w, "enroll")
  /\ \/ /\ profile = NoProfile /\ ~cred.exists
        /\ server' = [server EXCEPT !.live = TRUE]
        /\ lastWord' = NoMark
        /\ writer' = [v \in Processes |->
              IF v = w THEN [writer[v] EXCEPT !.pc = "first-cred", !.p = FirstProfile, !.c = NewCred]
                       ELSE [writer[v] EXCEPT !.c.fresh = FALSE]]
     \/ Go(w, "release") /\ UNCHANGED <<server, lastWord>>
  /\ UNCHANGED <<disk, reader, issued, faults>>

FirstCredential(w) ==
  /\ On(w, "first-cred")
  /\ \/ cred' = writer[w].c /\ Go(w, "first-profile") /\ UNCHANGED faults
     \/ Fault /\ Go(w, "release") /\ UNCHANGED cred
  /\ UNCHANGED <<server, marker, profile, files, locking, reader, issued, lastWord>>

WriteFirstProfile(w) ==
  /\ On(w, "first-profile")
  /\ \/ profile' = writer[w].p /\ Go(w, "clear") /\ UNCHANGED faults
     \/ Fault /\ profile' \in {profile, writer[w].p} /\ Go(w, "undo")
  /\ UNCHANGED <<server, marker, cred, files, locking, reader, issued, lastWord>>

\* Both calls are best effort.
UndoConnect(w) ==
  /\ On(w, "undo")
  /\ \/ Go(w, "release") /\ cred' \in {NoCred, cred} /\ UNCHANGED server
     \/ /\ NewToken(w, FALSE, "release")
        /\ server' = [server EXCEPT !.live = FALSE]
        /\ cred' \in {NoCred, [cred EXCEPT !.fresh = FALSE]}
  /\ UNCHANGED <<marker, profile, files, locking, reader, issued, lastWord, faults>>

\* The device's own session.
EndSession(w) ==
  /\ On(w, "end-session")
  /\ SessionOver /\ NewToken(w, FALSE, "remove")
  /\ lastWord' = Denied
  /\ UNCHANGED <<marker, profile, files, locking, reader, issued, faults>>

\* rm(profileDir, recursive): entries go one by one in any order, the lock among
\* them, also one that another writer has made meanwhile.
RemoveProfileDirectory(w) ==
  /\ On(w, "remove")
  /\ \/ /\ marker \notin Absent
        /\ marker' = IF profile = NoProfile THEN "none" ELSE "removed"
        /\ UNCHANGED <<profile, files, lock, robbed, writer>>
     \/ /\ profile # NoProfile
        /\ profile' = NoProfile
        /\ marker' = IF marker = "removed" THEN "none" ELSE marker
        /\ UNCHANGED <<files, lock, robbed, writer>>
     \/ /\ \E f \in files : files' = files \ {f}
        /\ UNCHANGED <<marker, profile, lock, robbed, writer>>
     \/ /\ lock # NoProcess
        /\ lock' = NoProcess /\ robbed' = robbed \cup {lock}
        /\ UNCHANGED <<marker, profile, files, writer>>
     \/ /\ marker \in Absent /\ profile = NoProfile /\ files = {} /\ lock = NoProcess
        /\ Go(w, "forget")
        /\ UNCHANGED <<marker, profile, files, lock, robbed>>
  /\ UNCHANGED <<server, cred, entered, reader, issued, lastWord, faults>>

\* Also when the directory is not empty in the end, because of a writer in it.
RemovalFails(w) ==
  /\ On(w, "remove")
  /\ \/ Fault
     \/ lock \notin {w, NoProcess} /\ UNCHANGED faults
  /\ Go(w, IF writer[w].op = "disconnect" THEN "fail" ELSE "release")
  /\ UNCHANGED <<server, disk, reader, issued, lastWord>>

ForgetCredential(w) ==
  /\ On(w, "forget")
  /\ \/ cred' = NoCred /\ Go(w, "release") /\ UNCHANGED faults
     \/ /\ Fault /\ UNCHANGED cred
        /\ Go(w, IF writer[w].op = "disconnect" THEN "fail" ELSE "release")
  /\ UNCHANGED <<server, marker, profile, files, locking, reader, issued, lastWord>>
-----------------------------------------------------------------------------
(* Readers. A search prepares (credential, profile, marker), reads the        *)
(* generation and checks trust again (credential, marker, profile). Guidance  *)
(* prepares, runs a search and source reads that do the same, and checks      *)
(* trust against the generation it prepared first. A check that only looks at *)
(* what was just read is made at once: a query that fails it ends in an error *)
(* whatever it reads next.                                                    *)

IdleReader == [pc |-> "idle", parts |-> 0, outer |-> NoFile, file |-> NoFile,
               mark |-> NoMark, got |-> {}, lin |-> FALSE]
Aside == <<server, disk, writer, issued, lastWord, faults>>

\* parts: the preparations still to do, the outer one first.
ReadCredential(r) ==
  /\ cred.exists
  /\ \/ /\ Reading(r, "idle") /\ On(r, "idle")
        /\ reader' = [reader EXCEPT ![r].pc = "profile", ![r].parts = Reads + 1, ![r].mark = cred.at]
     \/ /\ Reading(r, "prepare")
        /\ reader' = [reader EXCEPT ![r].pc = "profile", ![r].mark = cred.at]
     \/ /\ Reading(r, "check")
        /\ reader' = [reader EXCEPT ![r].pc = "check-marker", ![r].mark = cred.at]
  /\ UNCHANGED Aside

Trusted(p, mark) == p.state = "ready" /\ HighWater(p, mark, FALSE)

ReadProfile(r) ==
  /\ Reading(r, "profile") /\ Trusted(profile, reader[r].mark)
  /\ reader' = [reader EXCEPT ![r].pc = "marker", ![r].file = profile.file, ![r].mark = NoMark]
  /\ UNCHANGED Aside

\* readyDatabase to its end, and the read of the opened generation with it.
OpenAndRead(r) ==
  LET file == reader[r].file
  IN /\ Reading(r, "marker") /\ marker \in Absent /\ file \in files
     /\ reader' = IF reader[r].parts = Reads + 1
                  THEN [reader EXCEPT ![r].pc = "prepare", ![r].parts = Reads, ![r].outer = file]
                  ELSE [reader EXCEPT ![r].pc = "check", ![r].got = @ \cup {file},
                                      ![r].parts = @ - 1]
     /\ UNCHANGED Aside

\* lin records whether the content was then what the server last said, or the
\* marker that denied it removed.
CheckMarker(r) ==
  /\ Reading(r, "check-marker") /\ marker \in Absent
  /\ reader' = [reader EXCEPT ![r].pc = "check-profile", ![r].lin =
                    (marker = "removed" \/ lastWord = reader[r].file.rec)]
  /\ UNCHANGED Aside

\* MUTANT of CheckProfile: any intact active generation will do
CheckProfileOnly(r) ==
  LET done == [reader[r] EXCEPT !.mark = NoMark]
  IN /\ Reading(r, "check-profile") /\ Trusted(profile, reader[r].mark)
     /\ profile.file \in files
     /\ reader' = [reader EXCEPT ![r] =
           CASE reader[r].parts > 0 -> [done EXCEPT !.pc = "prepare"]
             [] reader[r].parts = 0 /\ reader[r].outer # NoFile ->
                  [done EXCEPT !.pc = "check", !.file = reader[r].outer, !.outer = NoFile]
             [] OTHER -> [done EXCEPT !.pc = "delivered"]]
     /\ UNCHANGED Aside

CheckProfile(r) ==
  LET done == [reader[r] EXCEPT !.mark = NoMark]
  IN /\ Reading(r, "check-profile") /\ Trusted(profile, reader[r].mark)
     /\ profile.file = reader[r].file /\ profile.file \in files
     /\ reader' = [reader EXCEPT ![r] =
           CASE reader[r].parts > 0 -> [done EXCEPT !.pc = "prepare"]
             [] reader[r].parts = 0 /\ reader[r].outer # NoFile ->
                  [done EXCEPT !.pc = "check", !.file = reader[r].outer, !.outer = NoFile]
             [] OTHER -> [done EXCEPT !.pc = "delivered"]]
     /\ UNCHANGED Aside

\* Any failed check or read ends the query with an error.
EndQuery(r) ==
  /\ ~Reading(r, "idle")
  /\ reader' = [reader EXCEPT ![r] = IdleReader]
  /\ UNCHANGED Aside
-----------------------------------------------------------------------------
Init ==
  /\ server = ServerInit /\ marker = "none" /\ profile = NoProfile /\ cred = NoCred
  /\ files = {} /\ lock = NoProcess /\ robbed = {} /\ entered = FALSE
  /\ writer = [w \in Processes |-> IdleWriter]
  /\ reader = [r \in Processes |-> IdleReader]
  /\ issued = 0 /\ lastWord = NoMark /\ faults = 0

Environment == PublishContent \/ ContractGrants \/ BumpEpoch \/ RevokeDevice \/ RestoreServer

Connecting(w) == Enroll(w) \/ FirstCredential(w) \/ WriteFirstProfile(w) \/ UndoConnect(w)

Syncing(w) ==
  \/ BeginMarker(w) \/ LoadProfile(w) \/ RefreshToken(w) \/ Refused(w)
  \/ ConfigurationDiffers(w) \/ RefreshUnanswered(w) \/ RequestFails(w) \/ StoreToken(w)
  \/ ReceiveManifest(w) \/ AcceptManifest(w) \/ RenewLease(w) \/ BuildGeneration(w)
  \/ Activate(w) \/ PruneGenerations(w) \/ ClearMarker(w)
  \/ BlockMarker(w) \/ BlockProfile(w) \/ Fail(w) \/ Release(w) \/ Unlink(w)

Disconnecting(w) == EndSession(w) \/ RemoveProfileDirectory(w) \/ RemovalFails(w) \/ ForgetCredential(w)

Querying(r) == \/ ReadCredential(r) \/ ReadProfile(r) \/ OpenAndRead(r)
               \/ CheckMarker(r) \/ CheckProfile(r) \/ EndQuery(r)

Next == \/ Environment \/ RemoveAbandonedLock
        \/ \E p \in Processes : \/ \E op \in Operations : Acquire(p, op)
                              \/ Connecting(p) \/ Syncing(p) \/ Disconnecting(p) \/ Kill(p)
                              \/ Querying(p)

Spec == Init /\ [][Next]_vars
-----------------------------------------------------------------------------
(* Properties.                                                                *)

Marks == [epoch : 0..MaxCount, gen : 0..MaxCount, ent : 0..1, rec : 0..1]

\* Whatever was interrupted, killed or refused, a query that starts now is
\* answered only from the generation the server last vouched for: never after
\* a refusal, never from a projection older than one already received. Only the
\* removal of the directory may break this, when it takes the marker first or
\* has let a second writer in.
ReadableIsLastWord ==
  Readable => \/ lastWord = profile.at /\ profile.file.rec = profile.at
              \/ marker = "removed" \/ entered

\* A delivered answer comes from one generation, and at one moment during the
\* query that generation was what the server had last vouched for, or its marker
\* removed: a sync, a revocation or a disconnect may overtake the query but not
\* split it, unless a second writer entered during a removal.
AnswersAreAtomic ==
  \A r \in Processes : reader[r].pc = "delivered" =>
      entered \/ (reader[r].lin /\ reader[r].got = {reader[r].file})

\* The accepted counters of one enrolment only grow, and a number once accepted
\* keeps its hash, also when the server was restored from an older backup,
\* unless a second writer entered during a removal.
HighWaterOnlyRises ==
  [][LET old == cred.at new == cred'.at
     IN ~entered /\ cred.exists /\ cred'.exists /\ old # NoMark =>
          /\ new.epoch >= old.epoch /\ new.gen >= old.gen
          /\ new.epoch = old.epoch => new.ent = old.ent
          /\ new.gen = old.gen => new.rec = old.rec]_vars

\* What the documents promise, once of the lock and once of a refusal: only one
\* writer is at work at a time, and a projection is not read once it was denied.
SingleWriter ==
  \A v, w \in Processes : ~On(v, "idle") /\ ~On(w, "idle") => v = w
DeniedIsUnreadable == lastWord = Denied => ~Readable

\* Not even one of the two promises is always kept: a removal of the directory
\* may break both in the same state.
OnePromiseKept == SingleWriter \/ DeniedIsUnreadable

\* Types; what was deleted leaves nothing behind.
TypeOK ==
  /\ server \in [epoch : 1..MaxCount, gen : 1..MaxCount, line : 0..1, live : BOOLEAN]
  /\ marker \in Absent \cup {"unfinished", "revocation-pending"}
  /\ profile.state \in {"none", "not-built", "ready", "revocation-pending"}
  /\ profile.state = "none" => profile = NoProfile
  /\ ~cred.exists => cred = NoCred
  /\ profile.at \in Marks /\ cred.at \in Marks /\ lastWord \in Marks
  /\ lock \in Processes \cup {NoProcess} /\ robbed \subseteq Processes /\ entered \in BOOLEAN
  /\ issued \in 0..MaxManifests /\ faults \in 0..MaxFaults

\* A disconnect that has begun to remove the directory, its own lock with it.
Past(v) == \/ v.pc \in {"remove", "forget"}
           \/ v.pc \in {"fail", "release"} /\ v.op \in {"disconnect", "disconnect-local"}

\* Of two writers at work at once, one lost its lock file to a removal of the
\* directory (or to the unlink of a writer that had lost its own); and as long as
\* no writer entered during a removal, only a disconnect can be without its lock.
WritersExcludeEachOther ==
  LET atWork == {w \in Processes : ~On(w, "idle")}
  IN /\ TypeOK
     /\ \A v, w \in atWork : v # w => v \in robbed \/ w \in robbed
     /\ ~entered => \A w \in atWork : lock # w => Past(writer[w])
=============================================================================
