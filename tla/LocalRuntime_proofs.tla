------------------------- MODULE LocalRuntime_proofs -------------------------
(***************************************************************************)
(* Proofs about LocalRuntime.  The argument: as long as no writer has      *)
(* entered during a removal of the directory, a writer at work holds the   *)
(* lock, or is a disconnect that has begun the removal and only takes      *)
(* things away.  While no sync is under way the ready profile on disk is   *)
(* what the server said last, unless a removal took the marker and left    *)
(* the profile; and generations become active in the order in which they   *)
(* were built, so a generation that a reader finds active twice was active *)
(* all the time in between, or nothing else was.  A writer that enters     *)
(* during a removal voids all this.  What is local to one process survives *)
(* even that (Base), and is enough to start again from once no process is  *)
(* left and no profile answers.                                            *)
(***************************************************************************)
EXTENDS LocalRuntime, TLAPS

Markers == Absent \cup {"unfinished", "revocation-pending"}
File == [id : Nat, rec : Marks]
Profile == [state : {"none", "not-built", "ready", "revocation-pending"}, file : File, at : Marks]
Cred == [exists : BOOLEAN, fresh : BOOLEAN, at : Marks]
Manifest == [mode : {"none", "unchanged", "delta", "full"}, at : Marks]

\* A writer that has loaded the profile, under a marker; one that made the
\* first profile; and the others.
Loaded == {"refresh", "store", "manifest", "accept", "apply", "activate", "prune",
           "block-marker", "block-profile", "end-session"}
First == {"first-cred", "first-profile"}
PCs == {"idle", "enroll", "undo", "deny", "load", "clear", "remove", "forget", "fail",
        "release", "unlink"} \cup Loaded \cup First
Writer == [pc : PCs, op : Operations \cup {"none"}, prior : Markers, p : Profile, c : Cred, m : Manifest]
Checks == {"check", "check-marker", "check-profile"}
Reader == [pc : {"idle", "prepare", "profile", "marker", "delivered"} \cup Checks,
           parts : 0 .. Reads + 1, outer : File, file : File, mark : Marks,
           got : SUBSET File, lin : BOOLEAN]

Types ==
  /\ TypeOK
  /\ profile \in Profile /\ cred \in Cred
  /\ writer \in [Processes -> Writer] /\ reader \in [Processes -> Reader]

Disconnects == {"disconnect", "disconnect-local"}

\* What a writer has in memory, and the operation it is in.
Carries(w) ==
  LET v == writer[w] IN
  /\ v.pc \in {"deny", "load"} \cup (Loaded \ {"end-session"}) => v.op \in {"sync", "rebuild", "disconnect"}
  /\ v.pc = "end-session" => v.op = "disconnect"
  /\ v.pc \in {"remove", "forget"} => v.op \in Disconnects
  /\ v.pc \notin Loaded \cup First => v.p = NoProfile
  /\ v.pc \in First => v.p = FirstProfile
  /\ v.pc = "activate" => v.p.state = "ready"
  /\ v.pc \in {"refresh", "store", "manifest", "accept", "first-cred"} => v.c.exists

\* A writer without its lock file was robbed of it.
Robbed(w) == writer[w].pc # "idle" /\ lock # w => w \in robbed

\* The profiles by which readers may be answered, now or when a writer goes on.
ReadyProfiles == {p \in {profile} \cup {writer[w].p : w \in Processes} : p.state = "ready"}

\* Files are told apart by their ids.
ReadFiles == UNION {reader[r].got \cup {reader[r].file, reader[r].outer} : r \in Processes}
Known == {NoFile} \cup ReadFiles \cup {p.file : p \in ReadyProfiles}
IdsOK == /\ \A f \in Known : f.id <= issued
         /\ \A f, g \in Known : f.id = g.id => f = g

Steady(q) == /\ q.pc = "idle" => q = IdleReader
             /\ q.pc \in {"prepare", "profile", "marker"} => q.parts >= 1

\* What holds in any case.
Base ==
  /\ Types
  /\ \A w \in Processes : Carries(w) /\ Robbed(w)
  /\ \A p \in ReadyProfiles : p.file.rec = p.at /\ p.file.id > 0
  /\ IdsOK
  /\ \A r \in Processes : Steady(reader[r])

-----------------------------------------------------------------------------
(* What holds as long as no writer entered during a removal.               *)

LockOK(w) ==
  /\ writer[w].pc # "idle" /\ lock # w => Past(writer[w])
  /\ writer[w].pc = "remove" => lock \in {w, NoProcess}

\* What a writer may rely on.
MemoryOK(w) ==
  LET v == writer[w] IN
  /\ v.pc \in Loaded \cup {"load"} => marker \notin Absent
  /\ v.pc = "first-cred" => ~cred.exists
  /\ v.pc \in {"accept", "apply"} => v.m.at = lastWord
  /\ v.pc = "activate" => v.p.at = lastWord
  /\ v.pc \in {"prune", "clear"} /\ profile.state = "ready" => profile.at = lastWord

\* Nothing denies the profile or did before a removal, or nothing did when the
\* present sync began.
Settled == \/ marker = "none"
           \/ \E w \in Processes : writer[w].pc \in {"load", "refresh"} /\ writer[w].prior = "none"
WordsOK == Settled /\ profile.state = "ready" => profile.at = lastWord

\* The active generation is the first of those that may become active.
OrderOK == \A p \in ReadyProfiles : profile.state = "ready" => p.file.id >= profile.file.id

\* No generation before a given one can become active any more.
NoneBefore(id) == \A p \in ReadyProfiles : p.file.id >= id
\* A generation is not active and never will be again.
Gone(file) == \A p \in ReadyProfiles : p.file # file

\* A query on its way.
Preparing(q) == q.pc \in {"profile", "marker"} /\ q.parts = Reads + 1 /\ q.outer = NoFile /\ q.got = {}
Inner(q) ==
  /\ q.outer.id > 0 /\ NoneBefore(q.outer.id)
  /\ \A f \in q.got : f.id >= q.outer.id
  /\ \/ q.pc \in {"prepare", "profile", "marker"} /\ q.parts \in 1 .. Reads /\ (q.parts < Reads => q.got # {})
     \/ q.pc \in Checks /\ q.parts < Reads /\ q.got # {}
  /\ q.pc = "marker" => q.file.id >= q.outer.id
Outer(q) ==
  /\ q.pc \in Checks /\ q.parts = 0 /\ q.outer = NoFile /\ q.got # {}
  /\ \A f \in q.got : f.id >= q.file.id
QueryOK(q) ==
  /\ \/ q = IdleReader
     \/ Preparing(q) \/ Inner(q) \/ Outer(q)
     \/ q.pc = "delivered" /\ q.got = {q.file} /\ q.lin
  /\ q.pc = "marker" => q.file.id > 0 /\ NoneBefore(q.file.id)
  /\ q.pc # "delivered" => \A f \in q.got : NoneBefore(f.id)
  /\ q.pc = "check-profile" => q.lin \/ Gone(q.file)

Sound ==
  /\ \A w \in Processes : LockOK(w) /\ MemoryOK(w)
  /\ WordsOK /\ OrderOK
  /\ \A r \in Processes : QueryOK(reader[r])

Inv == Base /\ (~entered => Sound)

-----------------------------------------------------------------------------
(* The data.                                                               *)

LEMMA Numbers == MaxCount \in Nat /\ MaxCount >= 1 /\ Reads \in Nat /\ Reads >= 1
                 /\ MaxManifests \in Nat /\ MaxFaults \in Nat
BY RuntimeAssumption

LEMMA MarkTypes == NoMark \in Marks /\ Denied \in Marks
BY Numbers DEF NoMark, Denied, Marks

\* What the server says is well formed.
LEMMA AtIsMark ==
    ASSUME NEW s \in [epoch : 1..MaxCount, gen : 1..MaxCount, line : 0..1, live : BOOLEAN]
    PROVE  At(s) \in Marks
BY Numbers DEF At, Marks, HashOf

LEMMA DataTypes ==
    /\ NoFile \in File /\ NoProfile \in Profile /\ FirstProfile \in Profile
    /\ NoCred \in Cred /\ NewCred \in Cred /\ NoManifest \in Manifest
    /\ NoProfile.state = "none" /\ FirstProfile.state = "not-built" /\ ~NoCred.exists
    /\ NewCred.exists /\ NoFile.id = 0 /\ NoProfile.at \in Marks /\ FirstProfile.at \in Marks
BY MarkTypes DEF NoFile, NoProfile, FirstProfile, NoCred, NewCred, NoManifest, File, Profile, Cred, Manifest

LEMMA IdleTypes ==
    /\ IdleWriter \in Writer /\ IdleWriter.pc = "idle" /\ IdleWriter.p = NoProfile
    /\ IdleReader \in Reader /\ IdleReader.pc = "idle"
    /\ IdleReader.got = {} /\ IdleReader.file = NoFile /\ IdleReader.outer = NoFile
BY DataTypes, MarkTypes, Numbers
   DEF IdleWriter, IdleReader, Writer, PCs, Reader, Markers, Absent, Operations

\* The steps before a release.
LEMMA UnlinkTypes ==
    ASSUME NEW n, n = [IdleWriter EXCEPT !.pc = "unlink"]
    PROVE  n \in Writer /\ n.pc = "unlink" /\ n.p = NoProfile
BY IdleTypes DEF Writer, PCs

\* What a writer still has when it goes on.
Keeps(v, n) ==
  /\ n.p = IF n.pc \in {"remove", "forget", "undo", "fail", "release", "clear"} THEN NoProfile ELSE v.p
  /\ v.op \in {"sync", "rebuild", "disconnect"} => n.op \in {"sync", "rebuild", "disconnect"}
  /\ v.op \in Disconnects => n.op \in Disconnects
  /\ v.op = "disconnect" => n.op = "disconnect"
  /\ n.pc = "apply" => n.m = v.m
  /\ n.pc \in {"refresh", "store", "manifest", "accept", "first-cred"} => n.c = v.c

LEMMA Forgets ==
    ASSUME NEW v \in Writer, NEW pc \in PCs, NEW n, n = Forgetting(v, pc)
    PROVE  n \in Writer /\ n.pc = pc /\ Keeps(v, n)
<1>1. v.p \in Profile /\ v.c \in Cred /\ v.m \in Manifest /\ v.prior \in Markers
      /\ v.op \in Operations \cup {"none"}
  BY DEF Writer
<1> DEFINE op == CASE v.op = "rebuild" /\ pc \notin {"refresh", "store", "manifest"} -> "sync"
                   [] v.op = "connect" /\ pc = "release" -> "sync"
                   [] v.op = "disconnect-local" /\ pc = "release" -> "disconnect"
                   [] OTHER -> v.op
<1>2. /\ op \in Operations \cup {"none"}
      /\ v.op \in {"sync", "rebuild", "disconnect"} => op \in {"sync", "rebuild", "disconnect"}
      /\ v.op \in Disconnects => op \in Disconnects
      /\ v.op = "disconnect" => op = "disconnect"
  BY <1>1 DEF Operations, Disconnects
<1>3. CASE pc \in {"remove", "forget", "undo", "fail", "release"}
  <2>1. n = [IdleWriter EXCEPT !.pc = pc, !.op = op]
    BY <1>3 DEF Forgetting
  <2> HIDE DEF op
  <2> QED  BY <1>2, <1>3, <2>1, IdleTypes DEF Writer, PCs, Keeps
<1>4. CASE pc \notin {"remove", "forget", "undo", "fail", "release"}
  <2> DEFINE prior == IF pc = "refresh" THEN v.prior ELSE "none"
             p == IF pc = "clear" THEN NoProfile ELSE v.p
             c == IF pc \in {"apply", "activate", "prune", "clear", "block-marker", "block-profile", "end-session"}
                  THEN NoCred ELSE v.c
             m == IF pc = "apply" THEN v.m ELSE NoManifest
  <2>1. n = [v EXCEPT !.pc = pc, !.op = op, !.prior = prior, !.p = p, !.c = c, !.m = m]
    BY <1>4 DEF Forgetting
  <2>2. prior \in Markers /\ p \in Profile /\ c \in Cred /\ m \in Manifest
    BY <1>1, DataTypes DEF Markers, Absent
  <2>3. n.pc = pc /\ n.op = op /\ n.p = p /\ n.m = m /\ n.c = c /\ n \in Writer
    <3> HIDE DEF op, prior, p, c, m
    <3> QED  BY <1>2, <2>1, <2>2 DEF Writer
  <2> QED  BY <1>2, <1>4, <2>3 DEF Keeps
<1> QED  BY <1>3, <1>4

-----------------------------------------------------------------------------
(* How a writer moves.                                                     *)

\* Of the writers other than w at most the token gets stale.
OthersStay(w) ==
  \A v \in Processes \ {w} :
    /\ writer'[v].pc = writer[v].pc /\ writer'[v].op = writer[v].op
    /\ writer'[v].prior = writer[v].prior /\ writer'[v].p = writer[v].p
    /\ writer'[v].m = writer[v].m /\ writer'[v].c.exists = writer[v].c.exists
Moves(w) == writer' \in [Processes -> Writer] /\ OthersStay(w)

\* Writer w goes to n, and no other moves.
LEMMA OneMoves ==
    ASSUME Types, NEW w \in Processes, NEW n \in Writer, writer' = [writer EXCEPT ![w] = n]
    PROVE  Moves(w) /\ writer'[w] = n
BY DEF Types, Moves, OthersStay

LEMMA Goes ==
    ASSUME Types, NEW w \in Processes, NEW pc \in PCs, Go(w, pc)
    PROVE  Moves(w) /\ writer'[w].pc = pc /\ Keeps(writer[w], writer'[w])
<1>1. writer[w] \in Writer
  BY DEF Types
<1> DEFINE n == Forgetting(writer[w], pc)
<1>2. n \in Writer /\ n.pc = pc /\ Keeps(writer[w], n)
  BY <1>1, Forgets
<1>3. writer' = [writer EXCEPT ![w] = n]
  BY DEF Go
<1> HIDE DEF n
<1> QED  BY <1>2, <1>3, OneMoves

\* A writer whose copy of the token is worthless is otherwise the same.
LEMMA Stale ==
    ASSUME NEW v \in Writer, NEW fresh \in BOOLEAN, NEW n, n = [v EXCEPT !.c.fresh = fresh]
    PROVE  /\ n \in Writer /\ n.pc = v.pc /\ n.op = v.op /\ n.prior = v.prior /\ n.p = v.p
           /\ n.m = v.m /\ n.c.exists = v.c.exists
BY DEF Writer, Cred

LEMMA OthersStale ==
    ASSUME Types, NEW w \in Processes, NEW n \in Writer,
           writer' = [v \in Processes |-> IF v = w THEN n ELSE [writer[v] EXCEPT !.c.fresh = FALSE]]
    PROVE  Moves(w) /\ writer'[w] = n
<1> DEFINE stale(v) == [writer[v] EXCEPT !.c.fresh = FALSE]
<1>1. \A v \in Processes : /\ stale(v) \in Writer
                           /\ stale(v).pc = writer[v].pc /\ stale(v).op = writer[v].op
                           /\ stale(v).prior = writer[v].prior /\ stale(v).p = writer[v].p
                           /\ stale(v).m = writer[v].m /\ stale(v).c.exists = writer[v].c.exists
  BY Stale DEF Types
<1>2. writer' = [v \in Processes |-> IF v = w THEN n ELSE stale(v)]
  OBVIOUS
<1> HIDE DEF stale
<1> QED  BY <1>1, <1>2 DEF Moves, OthersStay

\* A new token is known to one writer at most.
LEMMA NewTokens ==
    ASSUME Types, NEW w \in Processes, NEW learnt \in BOOLEAN, NEW pc \in PCs, NewToken(w, learnt, pc)
    PROVE  /\ Moves(w) /\ writer'[w].pc = pc
           /\ Keeps([writer[w] EXCEPT !.c.fresh = learnt], writer'[w])
<1> DEFINE old == [writer[w] EXCEPT !.c.fresh = learnt]
           n == Forgetting(old, pc)
<1>1. old \in Writer
  BY Stale DEF Types
<1>2. n \in Writer /\ n.pc = pc /\ Keeps(old, n)
  <2> HIDE DEF old
  <2> QED  BY <1>1, Forgets
<1>3. writer' = [v \in Processes |-> IF v = w THEN n ELSE [writer[v] EXCEPT !.c.fresh = FALSE]]
  BY DEF NewToken
<1> HIDE DEF n, old
<1>4. Moves(w) /\ writer'[w] = n
  BY <1>2, <1>3, OthersStale
<1> QED  BY <1>2, <1>4 DEF old

\* It goes on, with or without a new token.
LEMMA GoesOrNewToken ==
    ASSUME Types, NEW w \in Processes, NEW pc \in PCs, NEW learnt \in BOOLEAN,
           Go(w, pc) \/ NewToken(w, learnt, pc)
    PROVE  /\ Moves(w) /\ writer'[w].pc = pc
           /\ pc \in {"remove", "forget", "undo", "fail", "release", "clear"} => writer'[w].p = NoProfile
           /\ writer'[w].p \in {writer[w].p, NoProfile}
           /\ writer[w].op \in {"sync", "rebuild", "disconnect"} => writer'[w].op \in {"sync", "rebuild", "disconnect"}
           /\ writer[w].op = "disconnect" => writer'[w].op = "disconnect"
<1>1. CASE Go(w, pc)
  BY <1>1, Goes DEF Keeps
<1>2. CASE NewToken(w, learnt, pc)
  <2> DEFINE v == [writer[w] EXCEPT !.c.fresh = learnt]
  <2>1. v.p = writer[w].p /\ v.op = writer[w].op
    BY Stale DEF Types
  <2>2. Moves(w) /\ writer'[w].pc = pc /\ Keeps(v, writer'[w])
    BY <1>2, NewTokens
  <2> HIDE DEF v
  <2> QED  BY <2>1, <2>2 DEF Keeps
<1> QED  BY <1>1, <1>2

-----------------------------------------------------------------------------
(* What a step of one writer leaves of Base.                               *)

LEMMA Typed ==
    ASSUME Base, NEW w \in Processes
    PROVE  /\ Types /\ TypeOK /\ writer[w] \in Writer /\ profile \in Profile /\ cred \in Cred
           /\ writer[w].p \in Profile /\ writer[w].c \in Cred /\ writer[w].m \in Manifest
           /\ Carries(w) /\ Robbed(w)
BY DEF Base, Types, Writer

LEMMA FaultTyped ==
    ASSUME Types, Fault \/ UNCHANGED faults
    PROVE  faults' \in 0 .. MaxFaults
BY Numbers DEF Fault, TypeOK, Types

LEMMA KnownTypes ==
    ASSUME Types
    PROVE  Known \subseteq File /\ ReadyProfiles \subseteq Profile
<1>1. ReadyProfiles \subseteq Profile
  BY DEF Types, ReadyProfiles, Writer
<1>2. ReadFiles \subseteq File
  BY DEF Types, ReadFiles, Reader
<1> QED  BY <1>1, <1>2, DataTypes DEF Known, Profile

\* The lock may pass on, but who loses it unasked is robbed.
HandsOver(w) == /\ Robbed(w)' /\ robbed \ {w} \subseteq robbed'
                /\ lock' = lock \/ lock \in robbed' \cup {w, NoProcess}

LEMMA OthersCarry ==
    ASSUME Base, NEW w \in Processes, Moves(w), HandsOver(w), Carries(w)'
    PROVE  \A v \in Processes : Carries(v)' /\ Robbed(v)'
<1> SUFFICES ASSUME NEW v \in Processes, v # w
             PROVE  Carries(v)' /\ Robbed(v)'
  BY DEF HandsOver
<1>1. /\ writer'[v].pc = writer[v].pc /\ writer'[v].op = writer[v].op
      /\ writer'[v].p = writer[v].p /\ writer'[v].c.exists = writer[v].c.exists
  BY DEF Moves, OthersStay
<1>2. Carries(v) /\ Robbed(v)
  BY DEF Base
<1>3. Robbed(v)'
  BY <1>1, <1>2, RuntimeAssumption DEF Robbed, HandsOver
<1> QED  BY <1>1, <1>2, <1>3 DEF Carries

LEMMA BaseKept ==
    ASSUME Base, NEW w \in Processes, Moves(w), HandsOver(w), TypeOK', profile' \in Profile,
           cred' \in Cred, UNCHANGED reader, issued' \in {issued, issued + 1},
           ReadyProfiles' \subseteq ReadyProfiles, Carries(w)'
    PROVE  Base'
<1>1. Types'
  BY DEF Types, Base, Moves
<1>2. \A v \in Processes : Carries(v)' /\ Robbed(v)'
  BY OthersCarry
<1>3. IdsOK'
  <2>1. Known' \subseteq Known
    BY DEF Known, ReadFiles
  <2>2. \A f \in Known : f.id \in Nat
    BY KnownTypes DEF File, Base
  <2> QED  BY <2>1, <2>2 DEF IdsOK, Base, Types, TypeOK
<1>4. \A r \in Processes : Steady(reader'[r])
  BY DEF Base
<1> QED  BY <1>1, <1>2, <1>3, <1>4 DEF Base, Steady

\* A profile becomes ready only by a writer that has one.
LEMMA ReadySubset ==
    ASSUME NEW w \in Processes, Moves(w),
           writer'[w].p.state = "ready" => writer'[w].p \in {profile, writer[w].p},
           profile'.state = "ready" => profile' \in {profile, writer[w].p}
    PROVE  ReadyProfiles' \subseteq ReadyProfiles
<1>1. ASSUME NEW p \in ReadyProfiles' PROVE p \in ReadyProfiles
  <2>1. p.state = "ready" /\ (p = profile' \/ \E v \in Processes : p = writer'[v].p)
    BY <1>1 DEF ReadyProfiles
  <2>2. p = profile \/ \E v \in Processes : p = writer[v].p
    BY <2>1 DEF Moves, OthersStay
  <2> QED  BY <2>1, <2>2 DEF ReadyProfiles
<1> QED  BY <1>1

\* A step that has nothing to do with the lock.
LEMMA BaseStays ==
    ASSUME Base, NEW w \in Processes, Moves(w), writer[w].pc # "idle",
           UNCHANGED <<lock, robbed, reader>>, issued' \in {issued, issued + 1},
           TypeOK', profile' \in Profile, cred' \in Cred,
           writer'[w].p.state = "ready" => writer'[w].p \in {profile, writer[w].p},
           profile'.state = "ready" => profile' \in {profile, writer[w].p},
           Carries(w)'
    PROVE  Base'
<1>1. HandsOver(w)
  BY Typed DEF HandsOver, Robbed
<1> QED  BY <1>1, ReadySubset, BaseKept

\* A rotated token changes nothing else.
LEMMA StaleCredential ==
    ASSUME Types, cred' \in {cred, [cred EXCEPT !.fresh = FALSE]}
    PROVE  /\ cred' \in Cred /\ cred'.at = cred.at /\ cred'.exists = cred.exists
           /\ cred'.at \in Marks /\ (~cred'.exists => cred' = NoCred)
<1>1. cred \in Cred /\ (~cred.exists => cred = NoCred)
  BY DEF Types, TypeOK
<1>2. cred' \in Cred /\ cred'.at = cred.at /\ cred'.exists = cred.exists
  BY <1>1 DEF Cred
<1>3. ASSUME ~cred.exists PROVE cred' = NoCred
  BY <1>1, <1>3, MarkTypes DEF NoCred
<1> QED  BY <1>1, <1>2, <1>3 DEF Cred

LEMMA SessionEnds ==
    ASSUME TypeOK, server' \in {server, [server EXCEPT !.live = FALSE], [server EXCEPT !.live = TRUE]}
    PROVE  server' \in [epoch : 1..MaxCount, gen : 1..MaxCount, line : 0..1, live : BOOLEAN]
BY DEF TypeOK

-----------------------------------------------------------------------------
(* What a step of one writer leaves of the rest.                           *)

\* What a step of w may do to what others rely on: anything while nobody else
\* holds the lock, and take things away at any time.
Alone(w) ==
  /\ lock' \in {lock, NoProcess} \/ ~Removing
  /\ \/ lock \in {w, NoProcess}
     \/ /\ lock' = lock /\ lastWord' = lastWord /\ (marker' = marker \/ marker' \notin Absent)
        /\ (cred' = cred \/ ~cred'.exists) /\ profile' \in {profile, NoProfile}

LEMMA OthersGoOn ==
    ASSUME Base, Sound, NEW w \in Processes, Moves(w), Alone(w)
    PROVE  \A v \in Processes \ {w} : LockOK(v)' /\ MemoryOK(v)'
<1> SUFFICES ASSUME NEW v \in Processes, v # w
             PROVE  LockOK(v)' /\ MemoryOK(v)'
  OBVIOUS
<1>1. /\ writer'[v].pc = writer[v].pc /\ writer'[v].op = writer[v].op
      /\ writer'[v].p = writer[v].p /\ writer'[v].m = writer[v].m
      /\ writer'[v].c.exists = writer[v].c.exists
  BY DEF Moves, OthersStay
<1>2. LockOK(v) /\ MemoryOK(v)
  BY DEF Sound
<1>3. CASE lock \in {w, NoProcess}
  <2>1. writer[v].pc = "idle" \/ Past(writer[v])
    BY <1>2, <1>3, RuntimeAssumption DEF LockOK
  <2>2. writer[v].pc = "remove" => lock' \in {v, NoProcess}
    BY <1>2, <1>3, RuntimeAssumption DEF LockOK, Alone, Removing, On
  <2> QED  BY <1>1, <2>1, <2>2 DEF LockOK, MemoryOK, Past, Loaded, First
<1>4. CASE /\ lock' = lock /\ lastWord' = lastWord /\ (marker' = marker \/ marker' \notin Absent)
           /\ (cred' = cred \/ ~cred'.exists) /\ profile' \in {profile, NoProfile}
  <2>1. LockOK(v)'
    BY <1>1, <1>2, <1>4 DEF LockOK, Past
  <2>2. MemoryOK(v)'
    BY <1>1, <1>2, <1>4, DataTypes DEF MemoryOK
  <2> QED  BY <2>1, <2>2
<1> QED  BY <1>3, <1>4 DEF Alone

\* Who holds the lock, or takes it, has the only profile in memory.
LEMMA OthersHaveNone ==
    ASSUME Base, Sound, NEW w \in Processes, lock \in {w, NoProcess}, NEW v \in Processes, v # w
    PROVE  /\ writer[v].p = NoProfile
           /\ writer[v].pc \notin {"load", "refresh"}
<1>1. LockOK(v) /\ Carries(v)
  BY DEF Sound, Base
<1>2. writer[v].pc = "idle" \/ Past(writer[v])
  BY <1>1, RuntimeAssumption DEF LockOK
<1> QED  BY <1>1, <1>2 DEF Carries, Past, Loaded, First

\* No profile becomes ready that was not; the active one stays, or is all there is.
Fewer ==
  /\ ReadyProfiles' \subseteq ReadyProfiles
  /\ profile'.state = "ready" => profile' = profile \/ ReadyProfiles' = {profile'}

LEMMA NoneReady ==
    ASSUME NEW w \in Processes, Moves(w),
           writer'[w].p.state = "ready" => writer'[w].p \in {profile, writer[w].p},
           profile'.state = "ready" => profile' = profile
    PROVE  Fewer
BY ReadySubset DEF Fewer

\* The holder writes the profile it has.
LEMMA OneReady ==
    ASSUME Base, Sound, NEW w \in Processes, Moves(w), lock = w,
           writer[w].p.state = "ready", writer'[w].p \in {writer[w].p, NoProfile},
           profile' \in {profile, writer[w].p}
    PROVE  Fewer
<1>1. ReadyProfiles' \subseteq ReadyProfiles
  BY ReadySubset, DataTypes
<1>2. \A v \in Processes \ {w} : writer'[v].p = NoProfile
  BY OthersHaveNone DEF Moves, OthersStay
<1>3. \A p \in ReadyProfiles' : p = profile' \/ p = writer[w].p
  BY <1>2, DataTypes DEF ReadyProfiles
<1>4. profile' = writer[w].p => ReadyProfiles' = {profile'}
  BY <1>3 DEF ReadyProfiles
<1> QED  BY <1>1, <1>4 DEF Fewer

LEMMA FewerReady ==
    ASSUME Base, Sound, Fewer, UNCHANGED reader
    PROVE  OrderOK' /\ \A r \in Processes : QueryOK(reader[r])'
<1>0. OrderOK /\ \A r \in Processes : QueryOK(reader[r])
  BY DEF Sound
<1>1. OrderOK'
  <2> SUFFICES ASSUME NEW p \in ReadyProfiles', profile'.state = "ready"
               PROVE  p.file.id >= profile'.file.id
    BY DEF OrderOK
  <2>1. p \in ReadyProfiles /\ (profile.state = "ready" => p.file.id >= profile.file.id)
    BY <1>0 DEF Fewer, OrderOK
  <2>2. p.file.id \in Nat
    BY <2>1, KnownTypes DEF Base, Profile, File
  <2> QED  BY <2>1, <2>2 DEF Fewer
<1>2. ASSUME NEW r \in Processes PROVE QueryOK(reader[r])'
  <2> DEFINE q == reader[r]
  <2>1. (\A i : NoneBefore(i) => NoneBefore(i)') /\ (Gone(q.file) => Gone(q.file)') /\ q' = q
    BY DEF Fewer, NoneBefore, Gone
  <2>2. QueryOK(q)
    BY <1>0
  <2>3. Inner(q) => Inner(q)'
    BY <2>1 DEF Inner
  <2> QED  BY <2>1, <2>2, <2>3 DEF QueryOK, Outer, Preparing
<1> QED  BY <1>1, <1>2

LEMMA SoundKept ==
    ASSUME Base, Sound, NEW w \in Processes, Moves(w), Alone(w), UNCHANGED reader, Fewer,
           LockOK(w)', MemoryOK(w)', WordsOK'
    PROVE  Sound'
<1>1. \A v \in Processes : LockOK(v)' /\ MemoryOK(v)'
  BY OthersGoOn
<1> QED  BY <1>1, FewerReady DEF Sound

-----------------------------------------------------------------------------
(* Why the ready profile stays the last word.                              *)

LEMMA WordsStay ==
    ASSUME Sound, NEW w \in Processes, Moves(w),
           marker' # "none" \/ marker' = marker,
           writer'[w].pc \in {"load", "refresh"} =>
             writer[w].pc \in {"load", "refresh"} /\ writer'[w].prior = writer[w].prior,
           UNCHANGED lastWord, profile'.state = "ready" => profile' = profile
    PROVE  WordsOK'
<1>1. ASSUME Settled' PROVE Settled
  <2>1. CASE marker' = "none"
    BY <2>1 DEF Settled
  <2>2. CASE \E v \in Processes : writer'[v].pc \in {"load", "refresh"} /\ writer'[v].prior = "none"
    BY <2>2 DEF Settled, Moves, OthersStay
  <2> QED  BY <1>1, <2>1, <2>2 DEF Settled
<1> QED  BY <1>1 DEF WordsOK, Sound

\* Under a marker, with no sync before its refresh, nothing is settled.
LEMMA WordsUnderMarker ==
    ASSUME Base, Sound, NEW w \in Processes, Moves(w), lock = w,
           marker' # "none", writer'[w].pc \notin {"load", "refresh"}
    PROVE  WordsOK'
<1>1. \A v \in Processes : writer'[v].pc \notin {"load", "refresh"}
  BY OthersHaveNone DEF Moves, OthersStay
<1> QED  BY <1>1 DEF WordsOK, Settled

-----------------------------------------------------------------------------
(* The steps of writers.                                                   *)

LEMMA Holds ==
    ASSUME Sound, NEW w \in Processes, writer[w].pc # "idle", ~Past(writer[w])
    PROVE  lock = w
BY DEF Sound, LockOK

\* What a step at a request or an I/O call starts from.
LEMMA AtWork ==
    ASSUME Sound, NEW w \in Processes, writer[w].pc \in Loaded
    PROVE  lock = w /\ marker \notin Absent /\ MemoryOK(w)
BY Holds DEF Loaded, Past, MemoryOK, Sound

\* The holder goes on under the marker.
LEMMA UnderMarker ==
    ASSUME Base, Sound, NEW w \in Processes, Moves(w), lock = w, UNCHANGED lock,
           writer'[w].pc \notin {"load", "refresh"}, marker' \notin Absent,
           writer'[w].p.state = "ready" => writer'[w].p = writer[w].p,
           profile'.state = "ready" => profile' = profile,
           UNCHANGED reader, MemoryOK(w)'
    PROVE  Sound'
<1>1. Alone(w) /\ LockOK(w)'
  BY DEF Alone, LockOK
<1>2. WordsOK' /\ Fewer
  BY WordsUnderMarker, NoneReady DEF Absent
<1> QED  BY <1>1, <1>2, SoundKept

\* What the server said and the profile stay; at most the marker is set.
LEMMA Quietly ==
    ASSUME Base, Sound, NEW w \in Processes, Moves(w), Alone(w),
           writer'[w].pc \notin {"load", "refresh"}, marker' = marker \/ marker' # "none",
           writer'[w].p.state = "ready" => writer'[w].p = writer[w].p,
           profile'.state = "ready" => profile' = profile,
           UNCHANGED <<reader, lastWord>>,
           LockOK(w)', MemoryOK(w)'
    PROVE  Sound'
<1>1. WordsOK' /\ Fewer
  BY WordsStay, NoneReady
<1> QED  BY <1>1, SoundKept

\* The client stops answering: the server's last word is a refusal.
LEMMA StopsAnswering ==
    ASSUME Base, NEW w \in Processes, writer[w].pc \in {"refresh", "manifest", "end-session"},
           Go(w, "block-marker"), lastWord' = Denied,
           UNCHANGED <<server, marker, profile, cred, files, lock, robbed, entered, reader, issued, faults>>
    PROVE  Base' /\ (Sound => Sound')
<1>0. /\ writer[w].pc \in {"refresh", "manifest", "end-session"} /\ Go(w, "block-marker")
      /\ lastWord' = Denied
      /\ UNCHANGED <<server, marker, profile, cred, files, lock, robbed, entered, reader, issued, faults>>
  OBVIOUS
<1>1. Moves(w) /\ writer'[w].pc = "block-marker" /\ Keeps(writer[w], writer'[w])
  BY <1>0, Goes, Typed DEF PCs, Loaded
<1>2. TypeOK'
  BY <1>0, Typed, MarkTypes DEF TypeOK
<1>3. Carries(w)'
  BY <1>0, <1>1, Typed DEF Carries, Keeps, Loaded, First
<1>4. Base'
  BY <1>0, <1>1, <1>2, <1>3, BaseStays, Typed DEF Keeps
<1>5. ASSUME Sound PROVE Sound'
  <2>1. lock = w /\ marker \notin Absent
    BY <1>0, <1>5, AtWork DEF Loaded
  <2>2. MemoryOK(w)'
    BY <1>0, <1>1, <2>1 DEF MemoryOK
  <2> QED  BY <1>0, <1>1, <1>5, <2>1, <2>2, UnderMarker DEF Keeps
<1> QED  BY <1>4, <1>5

LEMMA RefusedSteps ==
    ASSUME Base, NEW w \in Processes, Refused(w) \/ ConfigurationDiffers(w)
    PROVE  Base' /\ (Sound => Sound')
BY StopsAnswering DEF Refused, ConfigurationDiffers, On, disk, locking

\* BeginMarker: what was settled stays so for the sync that begins.
LEMMA BeginMarkerStep ==
    ASSUME Base, NEW w \in Processes, BeginMarker(w)
    PROVE  Base' /\ (Sound => Sound')
<1>0. /\ writer[w].pc = "deny" /\ writer[w].p = NoProfile
      /\ writer[w].op \in {"sync", "rebuild", "disconnect"}
      /\ UNCHANGED <<server, cred, files, lock, robbed, entered, reader, issued, lastWord>>
  BY Typed DEF BeginMarker, On, Carries, Loaded, First, locking
<1>1. ASSUME marker # "revocation-pending", marker' = "unfinished", UNCHANGED <<profile, faults>>,
             writer' = [writer EXCEPT ![w].pc = "load", ![w].prior = marker]
      PROVE  Base' /\ (Sound => Sound')
  <2> DEFINE n == [writer[w] EXCEPT !.pc = "load", !.prior = marker]
  <2>1. n \in Writer /\ n.pc = "load" /\ n.p = NoProfile /\ n.op = writer[w].op /\ n.prior = marker
    BY <1>0, Typed DEF Writer, PCs, TypeOK, Markers
  <2>2. writer' = [writer EXCEPT ![w] = n]
    BY <1>1, Typed DEF Types
  <2> HIDE DEF n
  <2>3. Moves(w) /\ writer'[w] = n
    BY <2>1, <2>2, OneMoves, Typed
  <2>4. TypeOK'
    BY <1>0, <1>1, Typed DEF TypeOK
  <2>5. Carries(w)'
    BY <1>0, <2>1, <2>3 DEF Carries, Loaded, First
  <2>6. Base'
    BY <1>0, <1>1, <2>1, <2>3, <2>4, <2>5, BaseStays, Typed, DataTypes
  <2>7. ASSUME Sound PROVE Sound'
    <3>1. lock = w
      BY <1>0, <2>7, Holds DEF Past
    <3>2. Alone(w) /\ LockOK(w)' /\ MemoryOK(w)'
      BY <1>0, <1>1, <2>1, <2>3, <3>1 DEF Alone, LockOK, MemoryOK, Absent, Loaded
    <3>3. Fewer
      BY <1>1, <2>1, <2>3, NoneReady, DataTypes
    <3>4. Settled' => marker = "none"
      <4>1. \A v \in Processes \ {w} : writer'[v].pc \notin {"load", "refresh"}
        BY <2>3, <2>7, <3>1, OthersHaveNone DEF Moves, OthersStay
      <4> QED  BY <1>1, <2>1, <2>3, <4>1 DEF Settled
    <3>5. WordsOK'
      BY <1>0, <1>1, <2>7, <3>4 DEF WordsOK, Settled, Sound
    <3> QED  BY <1>0, <2>3, <2>7, <3>2, <3>3, <3>5, SoundKept
  <2> QED  BY <2>6, <2>7
<1>2. ASSUME Go(w, "fail"), marker' \in {marker, "unfinished"}, Fault \/ UNCHANGED faults,
             profile' \in {NoProfile, profile}
      PROVE  Base' /\ (Sound => Sound')
  <2>1. Moves(w) /\ writer'[w].pc = "fail" /\ Keeps(writer[w], writer'[w])
    BY <1>2, Goes, Typed DEF PCs
  <2>2. TypeOK' /\ profile' \in Profile
    BY <1>0, <1>2, Typed, DataTypes, FaultTyped DEF TypeOK
  <2>3. Carries(w)'
    BY <1>0, <2>1 DEF Carries, Keeps, Loaded, First
  <2>4. Base'
    BY <1>0, <1>2, <2>1, <2>2, <2>3, BaseStays, Typed, DataTypes DEF Keeps
  <2>5. ASSUME Sound PROVE Sound'
    <3>1. lock = w
      BY <1>0, <2>5, Holds DEF Past
    <3>2. Alone(w) /\ LockOK(w)' /\ MemoryOK(w)'
      BY <1>0, <2>1, <3>1 DEF Alone, LockOK, MemoryOK, Loaded
    <3> QED  BY <1>0, <1>2, <2>1, <2>5, <3>2, Quietly, DataTypes DEF Keeps
  <2> QED  BY <2>4, <2>5
<1> QED  BY <1>1, <1>2 DEF BeginMarker

-----------------------------------------------------------------------------
(* The requests of a sync.                                                 *)

\* LoadProfile: the copy is the profile on disk.
LEMMA LoadProfileStep ==
    ASSUME Base, NEW w \in Processes, LoadProfile(w)
    PROVE  Base' /\ (Sound => Sound')
<1>0. /\ writer[w].pc = "load" /\ writer[w].p = NoProfile
      /\ writer[w].op \in {"sync", "rebuild", "disconnect"}
      /\ UNCHANGED <<server, marker, profile, cred, files, lock, robbed, entered, reader, issued, lastWord, faults>>
  BY Typed DEF LoadProfile, On, Carries, Loaded, First, disk, locking
<1>1. TypeOK'
  BY <1>0, Typed DEF TypeOK
<1>2. Sound => lock = w /\ Alone(w) /\ marker \notin Absent
  BY <1>0, Holds DEF Past, Alone, Sound, MemoryOK
<1>3. ASSUME NEW pc \in {"remove", "fail"}, pc = "remove" => writer[w].op = "disconnect",
             writer' = [writer EXCEPT ![w].pc = pc]
      PROVE  Base' /\ (Sound => Sound')
  <2> DEFINE n == [writer[w] EXCEPT !.pc = pc]
  <2>1. n \in Writer /\ n.pc = pc /\ n.p = NoProfile /\ n.op = writer[w].op
    BY <1>0, Typed DEF Writer, PCs
  <2>2. writer' = [writer EXCEPT ![w] = n]
    BY <1>3, Typed DEF Types
  <2> HIDE DEF n
  <2>3. Moves(w) /\ writer'[w] = n
    BY <2>1, <2>2, OneMoves, Typed
  <2>4. Carries(w)'
    BY <1>0, <1>3, <2>1, <2>3 DEF Carries, Loaded, First, Disconnects
  <2>5. Base'
    BY <1>0, <1>1, <2>1, <2>3, <2>4, BaseStays, Typed, DataTypes
  <2>6. ASSUME Sound PROVE Sound'
    <3>1. LockOK(w)' /\ MemoryOK(w)'
      BY <1>0, <1>2, <2>1, <2>3, <2>6 DEF LockOK, MemoryOK, Loaded
    <3> QED  BY <1>0, <1>2, <2>1, <2>3, <2>6, <3>1, Quietly, DataTypes
  <2> QED  BY <2>5, <2>6
<1>4. ASSUME cred.exists,
             writer' = [writer EXCEPT ![w].pc = "refresh", ![w].p = profile, ![w].c = cred]
      PROVE  Base' /\ (Sound => Sound')
  <2> DEFINE n == [writer[w] EXCEPT !.pc = "refresh", !.p = profile, !.c = cred]
  <2>1. /\ n \in Writer /\ n.pc = "refresh" /\ n.p = profile /\ n.op = writer[w].op
        /\ n.prior = writer[w].prior /\ n.c = cred
    BY <1>0, Typed DEF Writer, PCs, Loaded
  <2>2. writer' = [writer EXCEPT ![w] = n]
    BY <1>4, Typed DEF Types
  <2> HIDE DEF n
  <2>3. Moves(w) /\ writer'[w] = n
    BY <2>1, <2>2, OneMoves, Typed
  <2>4. Carries(w)'
    BY <1>0, <1>4, <2>1, <2>3 DEF Carries, Loaded, First
  <2>5. Base'
    BY <1>0, <1>1, <2>1, <2>3, <2>4, BaseStays, Typed
  <2>6. ASSUME Sound PROVE Sound'
    <3>1. LockOK(w)' /\ MemoryOK(w)'
      BY <1>0, <1>2, <2>1, <2>3, <2>6 DEF LockOK, MemoryOK, Loaded
    <3>2. Fewer /\ WordsOK'
      BY <1>0, <2>1, <2>3, <2>6, NoneReady, WordsStay
    <3> QED  BY <1>0, <1>2, <2>3, <2>6, <3>1, <3>2, SoundKept
  <2> QED  BY <2>5, <2>6
<1> QED  BY <1>3, <1>4 DEF LoadProfile

\* A holder that gives up or goes on, when it writes nothing that others read
\* but the marker and the credential.
LEMMA GoesOn ==
    ASSUME Base, NEW w \in Processes, writer[w].pc \in Loaded, Moves(w), Carries(w)',
           UNCHANGED <<profile, lock, robbed, entered, reader, issued, lastWord>>,
           marker' \in {marker, "unfinished", "revocation-pending"}, TypeOK', cred' \in Cred,
           writer'[w].p \in {writer[w].p, NoProfile}, writer'[w].pc \notin {"load", "refresh"},
           Sound => MemoryOK(w)'
    PROVE  Base' /\ (Sound => Sound')
<1>1. Base'
  BY BaseStays, Typed, DataTypes DEF Loaded
<1>2. ASSUME Sound PROVE Sound'
  <2>1. lock = w /\ marker \notin Absent
    BY <1>2, AtWork
  <2> QED  BY <1>2, <2>1, UnderMarker, DataTypes DEF Absent
<1> QED  BY <1>1, <1>2

\* RefreshToken.
LEMMA RefreshTokenStep ==
    ASSUME Base, NEW w \in Processes, RefreshToken(w)
    PROVE  Base' /\ (Sound => Sound')
<1>0. /\ writer[w].pc = "refresh" /\ Rotate(w, TRUE, "store")
      /\ UNCHANGED <<server, marker, profile, files, lock, robbed, entered, reader, issued, lastWord, faults>>
  BY DEF RefreshToken, On, locking
<1> DEFINE v == [writer[w] EXCEPT !.c.fresh = TRUE]
<1>1. Moves(w) /\ writer'[w].pc = "store" /\ Keeps(v, writer'[w]) /\ cred' = [cred EXCEPT !.fresh = FALSE]
  BY <1>0, NewTokens, Typed DEF Rotate, PCs, Loaded
<1>2. v.p = writer[w].p /\ v.op = writer[w].op /\ v.c.exists = writer[w].c.exists
  BY Stale, Typed
<1> HIDE DEF v
<1>3. TypeOK' /\ cred' \in Cred
  BY <1>0, <1>1, Typed, StaleCredential DEF TypeOK
<1>4. Carries(w)'
  BY <1>0, <1>1, <1>2, Typed DEF Carries, Loaded, First, Keeps
<1>5. Sound => MemoryOK(w)'
  BY <1>0, <1>1, AtWork DEF MemoryOK, Loaded
<1> QED  BY <1>0, <1>1, <1>2, <1>3, <1>4, <1>5, GoesOn DEF Loaded, Keeps

\* RequestFails: the outer catch follows.
LEMMA RequestFailsStep ==
    ASSUME Base, NEW w \in Processes, RequestFails(w)
    PROVE  Base' /\ (Sound => Sound')
<1>0. /\ writer[w].pc \in {"refresh", "manifest", "end-session"}
      /\ UNCHANGED <<marker, profile, files, lock, robbed, entered, reader, issued, lastWord, faults>>
      /\ server' \in {server, [server EXCEPT !.live = FALSE]}
      /\ cred' \in {cred, [cred EXCEPT !.fresh = FALSE]}
      /\ Go(w, "fail") \/ NewToken(w, FALSE, "fail")
  BY DEF RequestFails, Rotate, SessionOver, On, locking
<1>1. Moves(w) /\ writer'[w].pc = "fail" /\ writer'[w].p = NoProfile
  BY <1>0, GoesOrNewToken, Typed DEF PCs
<1>2. TypeOK' /\ cred' \in Cred
  BY <1>0, Typed, StaleCredential, SessionEnds DEF TypeOK
<1>3. Carries(w)' /\ (Sound => MemoryOK(w)')
  BY <1>1 DEF Carries, MemoryOK, Loaded, First
<1> QED  BY <1>0, <1>1, <1>2, <1>3, GoesOn DEF Loaded

\* RefreshUnanswered: the marker goes only when there was none before the
\* sync, so what was settled is settled again.
LEMMA RefreshUnansweredStep ==
    ASSUME Base, NEW w \in Processes, RefreshUnanswered(w)
    PROVE  Base' /\ (Sound => Sound')
<1>0. /\ writer[w].pc = "refresh" /\ (Fault \/ UNCHANGED faults)
      /\ UNCHANGED <<server, profile, files, lock, robbed, entered, reader, issued, lastWord>>
      /\ marker' \in {marker, NoMarkerAgain(w)} /\ (marker' # marker => writer[w].prior \in Absent)
      /\ cred' \in {cred, [cred EXCEPT !.fresh = FALSE]}
      /\ \E pc \in {"release", "fail"} : Go(w, pc) \/ NewToken(w, FALSE, pc)
  <2> DEFINE next(pc) == \/ Accepts(w) /\ Rotate(w, FALSE, pc)
                         \/ Go(w, pc) /\ UNCHANGED cred
  <2>1. ASSUME NEW pc \in {"release", "fail"}, next(pc)
        PROVE  /\ cred' \in {cred, [cred EXCEPT !.fresh = FALSE]}
               /\ Go(w, pc) \/ NewToken(w, FALSE, pc)
    BY <2>1 DEF Rotate
  <2>2. /\ writer[w].pc = "refresh" /\ (Fault \/ UNCHANGED faults)
        /\ UNCHANGED <<server, profile, files, lock, robbed, entered, reader, issued, lastWord>>
        /\ marker' \in {marker, NoMarkerAgain(w)} /\ (marker' # marker => writer[w].prior \in Absent)
        /\ next("release") \/ next("fail")
    BY DEF RefreshUnanswered, On, locking
  <2> HIDE DEF next
  <2> QED  BY <2>1, <2>2
<1>1. Moves(w) /\ writer'[w].pc \in {"release", "fail"} /\ writer'[w].p = NoProfile
  BY <1>0, GoesOrNewToken, Typed DEF PCs
<1>2. TypeOK' /\ cred' \in Cred
  BY <1>0, Typed, StaleCredential, FaultTyped DEF TypeOK, NoMarkerAgain, Absent
<1>3. Carries(w)' /\ MemoryOK(w)'
  BY <1>1 DEF Carries, MemoryOK, Loaded, First
<1>4. Base'
  BY <1>0, <1>1, <1>2, <1>3, BaseStays, Typed, DataTypes
<1>5. ASSUME Sound PROVE Sound'
  <2>1. lock = w /\ marker \notin Absent
    BY <1>0, <1>5, AtWork DEF Loaded
  <2>2. Fewer /\ Alone(w) /\ LockOK(w)'
    BY <1>0, <1>1, <2>1, NoneReady, DataTypes DEF Alone, LockOK
  <2>3. WordsOK'
    <3>1. CASE marker' # "none"
      BY <1>1, <1>5, <2>1, <3>1, WordsUnderMarker
    <3>2. CASE marker' = "none"
      <4>1. writer[w].prior = "none"
        BY <1>0, <2>1, <3>2 DEF NoMarkerAgain, Absent
      <4>2. Settled
        BY <1>0, <4>1 DEF Settled
      <4> QED  BY <1>0, <1>5, <4>2 DEF WordsOK, Sound
    <3> QED  BY <3>1, <3>2
  <2> QED  BY <1>0, <1>1, <1>3, <1>5, <2>2, <2>3, SoundKept
<1> QED  BY <1>4, <1>5

\* StoreToken.
LEMMA StoreTokenStep ==
    ASSUME Base, NEW w \in Processes, StoreToken(w)
    PROVE  Base' /\ (Sound => Sound')
<1> DEFINE pc == writer'[w].pc
<1>0. /\ writer[w].pc = "store" /\ (Fault \/ UNCHANGED faults)
      /\ UNCHANGED <<server, marker, profile, files, lock, robbed, entered, reader, issued, lastWord>>
      /\ cred' \in {cred, writer[w].c}
      /\ Go(w, "fail") \/ Go(w, "manifest") \/ (Go(w, "end-session") /\ ~Syncs(w))
  BY DEF StoreToken, On, locking
<1>1. writer[w].c.exists /\ writer[w].op \in {"sync", "rebuild", "disconnect"}
  BY <1>0, Typed DEF Carries, Loaded
<1>2. /\ Moves(w) /\ Keeps(writer[w], writer'[w])
      /\ pc \in {"fail", "manifest", "end-session"} /\ (pc = "end-session" => writer[w].op = "disconnect")
  <2>1. "fail" \in PCs /\ "manifest" \in PCs /\ "end-session" \in PCs
    BY DEF PCs, Loaded
  <2> QED  BY <1>0, <1>1, <2>1, Goes, Typed DEF Syncs
<1> HIDE DEF pc
<1>3. TypeOK' /\ cred' \in Cred
  BY <1>0, <1>1, Typed, FaultTyped DEF TypeOK, Cred
<1>4. Carries(w)'
  BY <1>0, <1>1, <1>2 DEF pc, Carries, Loaded, First, Keeps
<1>5. Sound => MemoryOK(w)'
  BY <1>0, <1>2, AtWork DEF pc, MemoryOK, Loaded
<1> QED  BY <1>0, <1>2, <1>3, <1>4, <1>5, GoesOn DEF pc, Keeps, Loaded

\* ReceiveManifest.
LEMMA ReceiveManifestStep ==
    ASSUME Base, NEW w \in Processes, ReceiveManifest(w)
    PROVE  Base' /\ (Sound => Sound')
<1> DEFINE now == At(server)
<1>0. /\ writer[w].pc = "manifest"
      /\ UNCHANGED <<server, marker, profile, cred, files, lock, robbed, entered, reader, issued, faults>>
  BY DEF ReceiveManifest, On, disk, locking
<1>1. CASE lastWord' = Denied /\ Go(w, "block-marker")
  BY <1>0, <1>1, StopsAnswering
<1>2. ASSUME lastWord' = now, NEW mode \in {"unchanged", "delta", "full"},
             writer' = [writer EXCEPT ![w] =
                          [Forgetting(writer[w], "accept") EXCEPT !.m = [mode |-> mode, at |-> now]]]
      PROVE  Base' /\ (Sound => Sound')
  <2> DEFINE v == Forgetting(writer[w], "accept")
             n == [v EXCEPT !.m = [mode |-> mode, at |-> now]]
  <2>1. v \in Writer /\ v.pc = "accept" /\ Keeps(writer[w], v)
    BY Forgets, Typed DEF PCs, Loaded
  <2>2. now \in Marks
    BY AtIsMark, Typed DEF TypeOK
  <2>3. [mode |-> mode, at |-> now] \in Manifest
    BY <2>2 DEF Manifest
  <2>4. n \in Writer /\ n.pc = v.pc /\ n.p = v.p /\ n.c = v.c /\ n.op = v.op /\ n.m.at = now
    <3> HIDE DEF v, now
    <3> QED  BY <2>1, <2>3 DEF Writer
  <2>5. n.p = writer[w].p /\ n.c.exists /\ n.op \in {"sync", "rebuild", "disconnect"}
    <3>1. writer[w].c.exists /\ writer[w].op \in {"sync", "rebuild", "disconnect"}
      BY <1>0, Typed DEF Carries, Loaded
    <3> HIDE DEF v, n
    <3> QED  BY <2>1, <2>4, <3>1 DEF Keeps
  <2>6. Moves(w) /\ writer'[w] = n
    <3>1. writer' = [writer EXCEPT ![w] = n]
      BY <1>2
    <3> HIDE DEF n
    <3> QED  BY <2>4, <3>1, Typed, OneMoves
  <2>7. TypeOK'
    BY <1>0, <1>2, <2>2, Typed DEF TypeOK
  <2> HIDE DEF n
  <2>8. Carries(w)'
    BY <2>1, <2>4, <2>5, <2>6 DEF Carries, Loaded, First
  <2>9. Base'
    BY <1>0, <2>5, <2>6, <2>7, <2>8, BaseStays, Typed
  <2>10. ASSUME Sound PROVE Sound'
    <3>1. lock = w /\ marker \notin Absent
      BY <1>0, <2>10, AtWork DEF Loaded
    <3>2. MemoryOK(w)'
      BY <1>0, <1>2, <2>1, <2>4, <2>6, <3>1 DEF MemoryOK
    <3> QED  BY <1>0, <2>1, <2>4, <2>5, <2>6, <2>10, <3>1, <3>2, UnderMarker
  <2> QED  BY <2>9, <2>10
<1>3. \A known : ModesFor(known, now) \subseteq {"unchanged", "delta", "full"}
  BY DEF ModesFor
<1> QED
  <2>1. \/ lastWord' = Denied /\ Go(w, "block-marker")
        \/ /\ lastWord' = now
           /\ \E mode \in {"unchanged", "delta", "full"} :
                writer' = [writer EXCEPT ![w] =
                            [Forgetting(writer[w], "accept") EXCEPT !.m = [mode |-> mode, at |-> now]]]
    BY <1>3 DEF ReceiveManifest
  <2> QED  BY <1>1, <1>2, <2>1

\* AcceptManifest: the accepted statement is the server's last word.
LEMMA AcceptManifestStep ==
    ASSUME Base, NEW w \in Processes, AcceptManifest(w)
    PROVE  Base' /\ (Sound => Sound')
<1> DEFINE accepted == [writer[w].c EXCEPT !.at = writer[w].m.at]
<1>0. /\ writer[w].pc = "accept" /\ (Fault \/ UNCHANGED faults)
      /\ UNCHANGED <<server, marker, profile, files, lock, robbed, entered, reader, issued, lastWord>>
      /\ cred' \in {cred, accepted}
      /\ Go(w, "fail") \/ Go(w, "apply")
  BY DEF AcceptManifest, On, locking
<1>1. writer[w].c.exists /\ writer[w].op \in {"sync", "rebuild", "disconnect"}
  BY <1>0, Typed DEF Carries, Loaded
<1>2. accepted \in Cred /\ accepted.exists
  BY <1>1, Typed DEF Cred, Manifest
<1> HIDE DEF accepted
<1>3. Moves(w) /\ Keeps(writer[w], writer'[w]) /\ writer'[w].pc \in {"fail", "apply"}
  <2>1. "fail" \in PCs /\ "apply" \in PCs
    BY DEF PCs, Loaded
  <2> QED  BY <1>0, <2>1, Goes, Typed
<1>4. TypeOK' /\ cred' \in Cred
  BY <1>0, <1>2, Typed, FaultTyped DEF TypeOK, Cred
<1>5. Carries(w)'
  BY <1>1, <1>3 DEF Carries, Loaded, First, Keeps
<1>6. Sound => MemoryOK(w)'
  BY <1>0, <1>3, AtWork DEF MemoryOK, Loaded, Keeps
<1> QED  BY <1>0, <1>3, <1>4, <1>5, <1>6, GoesOn DEF Keeps, Loaded

-----------------------------------------------------------------------------
(* Building and activating.                                                *)

\* A new generation is later than all that anybody knows of.
LEMMA OneMore ==
    ASSUME Base, NEW w \in Processes, Moves(w), UNCHANGED <<reader, profile, lock, robbed>>,
           issued' = issued + 1, writer[w].pc # "idle", writer'[w].p.state = "ready",
           writer'[w].p.file.id = issued + 1, writer'[w].p.file.rec = writer'[w].p.at,
           TypeOK', cred' \in Cred, Carries(w)'
    PROVE  /\ Base'
           /\ Sound => OrderOK' /\ \A r \in Processes : QueryOK(reader[r])'
<1> DEFINE new == writer'[w].p
<1>0. /\ IdsOK /\ issued \in Nat /\ new \in Profile /\ Known \subseteq File /\ ReadyProfiles \subseteq Profile
      /\ \A p \in ReadyProfiles : p.file.rec = p.at /\ p.file.id > 0
  BY KnownTypes DEF Base, Types, TypeOK, Moves, Writer
<1>1. ReadyProfiles' \subseteq ReadyProfiles \cup {new}
  BY DEF ReadyProfiles, Moves, OthersStay
<1>2. \A p \in ReadyProfiles : p.file \in Known
  BY DEF Known
<1>3. \A f \in Known : f.id \in Nat /\ f.id <= issued
  BY <1>0 DEF IdsOK, File
<1>4. Types' /\ \A v \in Processes : Carries(v)' /\ Robbed(v)'
  <2>1. HandsOver(w)
    BY Typed DEF HandsOver, Robbed
  <2> QED  BY <2>1, OthersCarry DEF Types, Base, Moves
<1> HIDE DEF new
<1>5. new.file.id = issued + 1 /\ new.file.rec = new.at
  BY DEF new
<1>6. \A p \in ReadyProfiles' : p.file.rec = p.at /\ p.file.id > 0
  BY <1>0, <1>1, <1>5
<1>7. IdsOK'
  <2>1. Known' \subseteq Known \cup {new.file}
    BY <1>1 DEF Known, ReadFiles
  <2> QED  BY <1>0, <1>3, <1>5, <2>1 DEF IdsOK
<1>8. Base'
  BY <1>4, <1>6, <1>7 DEF Base, Steady
<1>9. ASSUME Sound PROVE OrderOK'
  <2> SUFFICES ASSUME NEW p \in ReadyProfiles', profile.state = "ready"
               PROVE  p.file.id >= profile.file.id
    BY DEF OrderOK
  <2>1. profile \in ReadyProfiles
    BY DEF ReadyProfiles
  <2>2. CASE p \in ReadyProfiles
    BY <1>9, <2>2 DEF Sound, OrderOK
  <2>3. CASE p = new
    BY <1>0, <1>2, <1>3, <1>5, <2>1, <2>3
  <2> QED  BY <1>1, <2>2, <2>3
<1>10. ASSUME Sound, NEW r \in Processes PROVE QueryOK(reader[r])'
  <2> DEFINE q == reader[r]
  <2>1. q.file \in Known /\ q.outer \in Known /\ \A f \in q.got : f \in Known
    BY DEF Known, ReadFiles
  <2>2. /\ \A f \in Known : NoneBefore(f.id) => NoneBefore(f.id)'
        /\ \A f \in Known : Gone(f) => Gone(f)'
    BY <1>1, <1>3, <1>5, <1>0 DEF NoneBefore, Gone
  <2>3. QueryOK(q)
    BY <1>10 DEF Sound
  <2>4. Inner(q) => Inner(q)'
    BY <2>1, <2>2 DEF Inner
  <2> QED  BY <2>1, <2>2, <2>3, <2>4 DEF QueryOK, Outer, Preparing
<1> QED  BY <1>8, <1>9, <1>10

\* RenewLease: the same generation, vouched for again.
LEMMA RenewLeaseStep ==
    ASSUME Base, NEW w \in Processes, RenewLease(w)
    PROVE  Base' /\ (Sound => Sound')
<1>0. /\ writer[w].pc = "apply" /\ (Fault \/ UNCHANGED faults)
      /\ UNCHANGED <<server, marker, cred, files, lock, robbed, entered, reader, issued, lastWord>>
      /\ \/ Go(w, "fail") /\ UNCHANGED profile
         \/ /\ writer[w].p.state = "ready" /\ writer[w].p.at = writer[w].m.at
            /\ \/ profile' = writer[w].p /\ Go(w, "clear")
               \/ profile' \in {profile, writer[w].p} /\ Go(w, "fail")
  BY DEF RenewLease, On, locking
<1>1. /\ Moves(w) /\ writer'[w].p = NoProfile /\ writer'[w].pc \in {"fail", "clear"}
      /\ writer'[w].pc = "clear" => profile' = writer[w].p /\ writer[w].p.at = writer[w].m.at
  <2>1. "fail" \in PCs /\ "clear" \in PCs
    BY DEF PCs
  <2>2. Go(w, "fail") => writer'[w].pc = "fail"
    BY <2>1, Goes, Typed
  <2> QED  BY <1>0, <2>1, <2>2, Goes, Typed DEF Keeps
<1>2. profile' \in Profile /\ TypeOK'
  BY <1>0, Typed, FaultTyped DEF TypeOK, Profile
<1>3. Carries(w)'
  BY <1>1 DEF Carries, Loaded, First
<1>4. Base'
  BY <1>0, <1>1, <1>2, <1>3, BaseStays, Typed, DataTypes
<1>5. ASSUME Sound PROVE Sound'
  <2>1. lock = w /\ marker \notin Absent /\ writer[w].m.at = lastWord
    BY <1>0, <1>5, AtWork DEF Loaded, MemoryOK
  <2>2. Alone(w) /\ LockOK(w)' /\ MemoryOK(w)'
    BY <1>0, <1>1, <2>1 DEF Alone, LockOK, MemoryOK, Loaded
  <2>3. Fewer
    <3>1. CASE profile' = profile
      BY <1>1, <3>1, NoneReady, DataTypes
    <3>2. CASE profile' # profile
      BY <1>0, <1>1, <1>5, <2>1, <3>2, OneReady
    <3> QED  BY <3>1, <3>2
  <2>4. WordsOK'
    BY <1>0, <1>1, <1>5, <2>1, WordsUnderMarker DEF Absent
  <2> QED  BY <1>0, <1>1, <1>5, <2>2, <2>3, <2>4, SoundKept
<1> QED  BY <1>4, <1>5

\* BuildGeneration.
LEMMA BuildGenerationStep ==
    ASSUME Base, NEW w \in Processes, BuildGeneration(w)
    PROVE  Base' /\ (Sound => Sound')
<1> DEFINE built == [id |-> issued + 1, rec |-> writer[w].m.at]
           new == [state |-> "ready", file |-> built, at |-> built.rec]
           v == [writer[w] EXCEPT !.p = new]
<1>0. /\ writer[w].pc = "apply" /\ writer[w].op \in {"sync", "rebuild", "disconnect"}
      /\ UNCHANGED <<server, marker, profile, cred, lock, robbed, entered, reader, lastWord>>
  BY Typed DEF BuildGeneration, On, locking, Carries, Loaded
<1>1. Sound => /\ lock = w /\ marker \notin Absent /\ Alone(w) /\ writer[w].m.at = lastWord
  BY <1>0, AtWork DEF Loaded, MemoryOK, Alone
<1>2. CASE Go(w, "fail") /\ (Fault \/ UNCHANGED faults)
           /\ (issued' = issued \/ (issued < MaxManifests /\ issued' = issued + 1))
  <2>1. Moves(w) /\ writer'[w].p = NoProfile /\ writer'[w].pc = "fail"
    BY <1>2, Goes, Typed DEF Keeps, PCs
  <2>2. TypeOK'
    BY <1>0, <1>2, Typed, Numbers, FaultTyped DEF TypeOK
  <2>3. Carries(w)' /\ MemoryOK(w)'
    BY <2>1 DEF Carries, MemoryOK, Loaded, First
  <2>4. Base'
    BY <1>0, <1>2, <2>1, <2>2, <2>3, BaseStays, Typed, DataTypes
  <2>5. Sound => Sound'
    BY <1>0, <1>1, <2>1, <2>3, UnderMarker, DataTypes
  <2> QED  BY <2>4, <2>5
<1>3. CASE /\ issued < MaxManifests /\ issued' = issued + 1 /\ UNCHANGED faults
           /\ writer' = [writer EXCEPT ![w] = Forgetting(v, "activate")]
  <2> DEFINE n == Forgetting(v, "activate")
  <2>1. issued \in Nat /\ built \in File /\ new \in Profile
    BY Typed DEF TypeOK, File, Profile, Manifest
  <2>2. v \in Writer /\ v.p = new /\ v.op = writer[w].op
    <3> HIDE DEF new
    <3> QED  BY <2>1, Typed DEF Writer
  <2>3. n \in Writer /\ n.pc = "activate" /\ n.p = new /\ n.op \in {"sync", "rebuild", "disconnect"}
    <3>1. n \in Writer /\ n.pc = "activate" /\ Keeps(v, n)
      <4> HIDE DEF v
      <4> QED  BY <2>2, Forgets DEF PCs, Loaded
    <3> HIDE DEF n, v, new
    <3> QED  BY <1>0, <2>2, <3>1 DEF Keeps
  <2>4. writer' = [writer EXCEPT ![w] = n]
    BY <1>3
  <2> HIDE DEF n, v
  <2>5. Moves(w) /\ writer'[w] = n
    BY <2>3, <2>4, OneMoves, Typed
  <2>6. TypeOK'
    BY <1>0, <1>3, Typed, Numbers DEF TypeOK
  <2>7. Carries(w)'
    BY <2>3, <2>5 DEF Carries, Loaded, First
  <2>8. Base' /\ (Sound => OrderOK' /\ \A r \in Processes : QueryOK(reader[r])')
    BY <1>0, <1>3, <2>3, <2>5, <2>6, <2>7, OneMore, Typed
  <2>9. ASSUME Sound PROVE Sound'
    <3>1. LockOK(w)' /\ MemoryOK(w)'
      BY <1>0, <1>1, <2>3, <2>5, <2>9 DEF LockOK, MemoryOK, Loaded
    <3>2. WordsOK'
      BY <1>0, <1>1, <2>3, <2>5, <2>9, WordsUnderMarker DEF Absent
    <3>3. \A u \in Processes : LockOK(u)' /\ MemoryOK(u)'
      BY <1>1, <2>5, <2>9, <3>1, OthersGoOn
    <3> QED  BY <2>8, <2>9, <3>2, <3>3 DEF Sound
  <2> QED  BY <2>8, <2>9
<1> QED  BY <1>2, <1>3 DEF BuildGeneration

\* Activate.
LEMMA ActivateStep ==
    ASSUME Base, NEW w \in Processes, Activate(w)
    PROVE  Base' /\ (Sound => Sound')
<1>0. /\ writer[w].pc = "activate" /\ (Fault \/ UNCHANGED faults)
      /\ UNCHANGED <<server, marker, cred, files, lock, robbed, entered, reader, issued, lastWord>>
      /\ \/ profile' = writer[w].p /\ Go(w, "prune")
         \/ profile' \in {profile, writer[w].p} /\ Go(w, "fail")
  BY DEF Activate, On, locking
<1>1. writer[w].p.state = "ready" /\ writer[w].op \in {"sync", "rebuild", "disconnect"}
  BY <1>0, Typed DEF Carries, Loaded
<1>2. /\ Moves(w) /\ Keeps(writer[w], writer'[w])
      /\ \/ writer'[w].pc = "prune" /\ profile' = writer[w].p
         \/ writer'[w].pc = "fail"
  <2>1. "fail" \in PCs /\ "prune" \in PCs
    BY DEF PCs, Loaded
  <2> QED  BY <1>0, <2>1, Goes, Typed
<1>3. profile' \in Profile /\ TypeOK'
  BY <1>0, <1>1, Typed, FaultTyped DEF TypeOK, Profile
<1>4. Carries(w)'
  BY <1>1, <1>2 DEF Carries, Loaded, First, Keeps
<1>5. Base'
  BY <1>0, <1>2, <1>3, <1>4, BaseStays, Typed, DataTypes DEF Keeps
<1>6. ASSUME Sound PROVE Sound'
  <2>1. lock = w /\ marker \notin Absent /\ writer[w].p.at = lastWord
    BY <1>0, <1>6, AtWork DEF Loaded, MemoryOK
  <2>2. Alone(w) /\ LockOK(w)' /\ MemoryOK(w)'
    BY <1>0, <1>2, <2>1 DEF Alone, LockOK, MemoryOK, Loaded
  <2>3. Fewer
    BY <1>0, <1>1, <1>2, <1>6, <2>1, OneReady DEF Keeps
  <2>4. WordsOK'
    BY <1>0, <1>2, <1>6, <2>1, WordsUnderMarker DEF Absent
  <2> QED  BY <1>0, <1>2, <1>6, <2>2, <2>3, <2>4, SoundKept
<1> QED  BY <1>5, <1>6

\* PruneGenerations.
LEMMA PruneStep ==
    ASSUME Base, NEW w \in Processes, PruneGenerations(w)
    PROVE  Base' /\ (Sound => Sound')
<1>0. /\ writer[w].pc = "prune" /\ (Fault \/ UNCHANGED faults)
      /\ UNCHANGED <<server, marker, profile, cred, lock, robbed, entered, reader, issued, lastWord>>
      /\ Go(w, "clear") \/ Go(w, "block-marker")
  BY DEF PruneGenerations, On, locking
<1>1. Moves(w) /\ Keeps(writer[w], writer'[w]) /\ writer'[w].pc \in {"clear", "block-marker"}
  <2>1. "clear" \in PCs /\ "block-marker" \in PCs
    BY DEF PCs, Loaded
  <2> QED  BY <1>0, <2>1, Goes, Typed
<1>2. TypeOK' /\ cred' \in Cred
  BY <1>0, Typed, FaultTyped DEF TypeOK
<1>3. Carries(w)'
  BY <1>0, <1>1, Typed DEF Carries, Loaded, First, Keeps
<1>4. Sound => MemoryOK(w)'
  BY <1>0, <1>1, AtWork DEF MemoryOK, Loaded
<1> QED  BY <1>0, <1>1, <1>2, <1>3, <1>4, GoesOn DEF Keeps, Loaded

\* ClearMarker: what is active now is the last word.
LEMMA ClearMarkerStep ==
    ASSUME Base, NEW w \in Processes, ClearMarker(w)
    PROVE  Base' /\ (Sound => Sound')
<1>0. /\ writer[w].pc = "clear" /\ (Fault \/ UNCHANGED faults)
      /\ UNCHANGED <<server, profile, cred, files, lock, robbed, entered, reader, issued, lastWord>>
      /\ marker' \in {marker, "none"}
      /\ Go(w, "release") \/ Go(w, "fail") \/ Go(w, "undo")
  BY DEF ClearMarker, On, locking
<1>1. Moves(w) /\ writer'[w].p = NoProfile /\ writer'[w].pc \in {"release", "fail", "undo"}
  <2>1. "release" \in PCs /\ "fail" \in PCs /\ "undo" \in PCs
    BY DEF PCs
  <2> QED  BY <1>0, <2>1, Goes, Typed DEF Keeps
<1>2. TypeOK'
  BY <1>0, Typed, FaultTyped DEF TypeOK, Absent
<1>3. Carries(w)' /\ MemoryOK(w)'
  BY <1>1 DEF Carries, MemoryOK, Loaded, First
<1>4. Base'
  BY <1>0, <1>1, <1>2, <1>3, BaseStays, Typed, DataTypes
<1>5. ASSUME Sound PROVE Sound'
  <2>1. lock = w /\ (profile.state = "ready" => profile.at = lastWord)
    BY <1>0, <1>5, Holds DEF Past, Sound, MemoryOK
  <2>2. Alone(w) /\ LockOK(w)' /\ WordsOK' /\ Fewer
    BY <1>0, <1>1, <2>1, NoneReady, DataTypes DEF Alone, LockOK, WordsOK
  <2> QED  BY <1>0, <1>1, <1>3, <1>5, <2>2, SoundKept
<1> QED  BY <1>4, <1>5

-----------------------------------------------------------------------------
(* Error paths.                                                            *)

LEMMA BlockMarkerStep ==
    ASSUME Base, NEW w \in Processes, BlockMarker(w)
    PROVE  Base' /\ (Sound => Sound')
<1>0. /\ writer[w].pc = "block-marker" /\ (Fault \/ UNCHANGED faults)
      /\ UNCHANGED <<server, cred, files, lock, robbed, entered, reader, issued, lastWord>>
      /\ marker' \in {marker, "revocation-pending"} /\ profile' \in {profile, NoProfile}
      /\ Go(w, "block-profile") \/ Go(w, "fail") \/ Go(w, "release")
  BY DEF BlockMarker, On, locking
<1>1. /\ Moves(w) /\ Keeps(writer[w], writer'[w])
      /\ writer'[w].pc \in {"block-profile", "fail", "release"}
  <2>1. "block-profile" \in PCs /\ "fail" \in PCs /\ "release" \in PCs
    BY DEF PCs, Loaded
  <2> QED  BY <1>0, <2>1, Goes, Typed
<1>2. TypeOK' /\ profile' \in Profile
  BY <1>0, Typed, DataTypes, FaultTyped DEF TypeOK
<1>4. Carries(w)'
  BY <1>0, <1>1, Typed DEF Carries, Loaded, First, Keeps
<1>5. Base'
  BY <1>0, <1>1, <1>2, <1>4, BaseStays, Typed, DataTypes DEF Keeps
<1>6. ASSUME Sound PROVE Sound'
  <2>1. lock = w /\ marker' \notin Absent
    BY <1>0, <1>6, AtWork DEF Loaded, Absent
  <2>2. MemoryOK(w)'
    BY <1>1, <2>1 DEF MemoryOK
  <2> QED  BY <1>0, <1>1, <1>6, <2>1, <2>2, UnderMarker, DataTypes DEF Keeps
<1> QED  BY <1>5, <1>6

LEMMA BlockProfileStep ==
    ASSUME Base, NEW w \in Processes, BlockProfile(w)
    PROVE  Base' /\ (Sound => Sound')
<1> DEFINE blocked == [writer[w].p EXCEPT !.state = "revocation-pending"]
<1>0. /\ writer[w].pc = "block-profile" /\ (Fault \/ UNCHANGED faults)
      /\ UNCHANGED <<server, marker, cred, files, lock, robbed, entered, reader, issued, lastWord>>
      /\ profile' \in {profile, NoProfile, blocked}
      /\ Go(w, "fail") \/ Go(w, "release")
  BY DEF BlockProfile, On, locking
<1>1. Moves(w) /\ writer'[w].p = NoProfile /\ writer'[w].pc \in {"fail", "release"}
  <2>1. "fail" \in PCs /\ "release" \in PCs
    BY DEF PCs
  <2> QED  BY <1>0, <2>1, Goes, Typed DEF Keeps
<1>2. blocked \in Profile /\ blocked.state = "revocation-pending"
  BY Typed DEF Profile
<1> HIDE DEF blocked
<1>3. profile' \in Profile /\ (profile'.state = "ready" => profile' = profile)
  BY <1>0, <1>2, Typed, DataTypes
<1>4. TypeOK'
  BY <1>0, <1>2, <1>3, Typed, FaultTyped DEF TypeOK, Profile
<1>5. Carries(w)' /\ MemoryOK(w)'
  BY <1>1 DEF Carries, MemoryOK, Loaded, First
<1>6. Base'
  BY <1>0, <1>1, <1>3, <1>4, <1>5, BaseStays, Typed, DataTypes
<1>7. ASSUME Sound PROVE Sound'
  <2>1. lock = w /\ marker \notin Absent
    BY <1>0, <1>7, AtWork DEF Loaded
  <2> QED  BY <1>0, <1>1, <1>3, <1>5, <1>7, <2>1, UnderMarker, DataTypes
<1> QED  BY <1>6, <1>7

\* Fail: also of a disconnect that has lost its lock; it denies or takes away.
LEMMA FailStep ==
    ASSUME Base, NEW w \in Processes, Fail(w)
    PROVE  Base' /\ (Sound => Sound')
<1>0. /\ writer[w].pc = "fail" /\ (Fault \/ UNCHANGED faults) /\ Go(w, "release")
      /\ UNCHANGED <<server, cred, files, lock, robbed, entered, reader, issued, lastWord>>
      /\ profile' \in {profile, NoProfile}
      /\ marker' \in {marker, "unfinished"}
  BY DEF Fail, On, locking
<1>1. Moves(w) /\ Keeps(writer[w], writer'[w]) /\ writer'[w].pc = "release" /\ writer'[w].p = NoProfile
  BY <1>0, Goes, Typed DEF PCs, Keeps
<1>2. TypeOK' /\ profile' \in Profile /\ (profile'.state = "ready" => profile' = profile)
  BY <1>0, Typed, DataTypes, FaultTyped DEF TypeOK
<1>3. Carries(w)' /\ MemoryOK(w)'
  BY <1>1 DEF Carries, MemoryOK, Loaded, First
<1>4. Base'
  BY <1>0, <1>1, <1>2, <1>3, BaseStays, Typed, DataTypes
<1>5. ASSUME Sound PROVE Sound'
  <2>1. Alone(w)
    BY <1>0 DEF Alone, Absent
  <2>2. LockOK(w)'
    BY <1>0, <1>1, <1>5 DEF Sound, LockOK, Past, Keeps, Disconnects
  <2> QED  BY <1>0, <1>1, <1>2, <1>3, <1>5, <2>1, <2>2, Quietly, DataTypes
<1> QED  BY <1>4, <1>5

-----------------------------------------------------------------------------
(* The lock.                                                               *)

\* Acquire: the new holder has nothing yet. If it enters during a removal only
\* Base is left; if it is the first after all have ended and nothing is
\* answered, the rest holds again.
LEMMA AcquireStep ==
    ASSUME Inv, NEW w \in Processes, NEW op \in Operations, Acquire(w, op)
    PROVE  Inv'
<1>0. /\ writer[w].pc = "idle" /\ lock = NoProcess /\ lock' = w /\ robbed' = robbed \ {w}
      /\ entered' = (Removing \/ (entered /\ ~Afresh)) /\ (Fault \/ UNCHANGED faults)
      /\ UNCHANGED <<server, marker, profile, cred, files, reader, issued, lastWord>>
  BY DEF Acquire, On
<1>1. Base /\ Carries(w) /\ Types /\ TypeOK
  BY Typed DEF Inv
<1> DEFINE pc == CASE op = "connect" -> "enroll" [] op = "disconnect-local" -> "remove" [] OTHER -> "deny"
           n == [writer[w] EXCEPT !.op = op, !.pc = pc]
<1>2. /\ n \in Writer /\ n.pc \in {"enroll", "remove", "deny"} /\ n.p = writer[w].p /\ n.op = op
      /\ n.pc = "remove" => n.op = "disconnect-local"
      /\ n.pc = "deny" => n.op \in {"sync", "rebuild", "disconnect"}
  BY <1>1, Typed DEF Writer, PCs, Operations
<1>3. writer' = [writer EXCEPT ![w] = n]
  BY <1>1 DEF Acquire, Types
<1> HIDE DEF n
<1>4. Moves(w) /\ writer'[w] = n
  BY <1>1, <1>2, <1>3, OneMoves
<1>5. TypeOK' /\ profile' \in Profile /\ cred' \in Cred
  BY <1>0, <1>1, FaultTyped DEF TypeOK, Types
<1>6. Carries(w)' /\ n.p = NoProfile /\ HandsOver(w)
  <2>1. n.p = NoProfile
    BY <1>0, <1>1, <1>2 DEF Carries, Loaded, First
  <2> QED  BY <1>0, <1>2, <1>4, <2>1 DEF Carries, Loaded, First, Disconnects, HandsOver, Robbed
<1>7. Base'
  <2>1. ReadyProfiles' \subseteq ReadyProfiles
    BY <1>0, <1>4, <1>6, ReadySubset, DataTypes
  <2> QED  BY <1>0, <1>1, <1>4, <1>5, <1>6, <2>1, BaseKept
<1>8. LockOK(w)' /\ MemoryOK(w)'
  BY <1>0, <1>2, <1>4 DEF LockOK, MemoryOK, Loaded
<1>9. ASSUME Sound, ~Removing PROVE Sound'
  <2>1. Alone(w)
    BY <1>0, <1>9 DEF Alone
  <2>2. Fewer
    BY <1>0, <1>4, <1>6, NoneReady, DataTypes
  <2>3. WordsOK'
    BY <1>0, <1>2, <1>4, <1>9, WordsStay
  <2> QED  BY <1>0, <1>1, <1>4, <1>8, <1>9, <2>1, <2>2, <2>3, SoundKept
<1>10. ASSUME Afresh PROVE Sound'
  <2>1. /\ \A v \in Processes : writer[v].pc = "idle" /\ writer[v].p = NoProfile /\ reader[v] = IdleReader
        /\ profile.state # "ready" \/ marker \notin Absent
    BY <1>1, <1>10 DEF Afresh, On, Reading, Base, Steady, Carries, Loaded, First
  <2>2. \A v \in Processes : writer'[v].p = NoProfile /\ writer'[v].pc \notin {"load", "refresh"}
    BY <1>2, <1>4, <1>6, <2>1 DEF Moves, OthersStay
  <2>3. \A v \in Processes : LockOK(v)' /\ MemoryOK(v)'
    BY <1>4, <1>8, <2>1 DEF Moves, OthersStay, LockOK, MemoryOK, Loaded
  <2>4. WordsOK'
    BY <1>0, <2>1, <2>2 DEF WordsOK, Settled, Absent
  <2>5. OrderOK'
    <3>1. \A p \in ReadyProfiles' : p = profile'
      BY <2>2, DataTypes DEF ReadyProfiles
    <3>2. profile'.file.id \in Nat
      BY <1>5 DEF Profile, File
    <3> QED  BY <3>1, <3>2 DEF OrderOK
  <2>6. \A r \in Processes : QueryOK(reader[r])'
    BY <1>0, <2>1, IdleTypes DEF QueryOK
  <2> QED  BY <2>3, <2>4, <2>5, <2>6 DEF Sound
<1>11. ~entered' => Sound'
  BY <1>0, <1>9, <1>10 DEF Inv
<1> QED  BY <1>7, <1>11 DEF Inv

\* A writer that only ends, or is about to; its lock file may stay.
LEMMA Ends ==
    ASSUME Base, NEW w \in Processes, NEW n \in Writer, n.pc \in {"idle", "unlink"}, n.p = NoProfile,
           writer' = [writer EXCEPT ![w] = n], HandsOver(w), lock' \in {lock, NoProcess},
           robbed' \subseteq Processes, faults' \in 0 .. MaxFaults,
           UNCHANGED <<server, marker, profile, cred, files, entered, reader, issued, lastWord>>,
           Sound => Alone(w) /\ (n.pc = "unlink" => lock' = w)
    PROVE  Base' /\ (Sound => Sound')
<1>1. Moves(w) /\ writer'[w] = n
  BY OneMoves, Typed
<1>2. TypeOK' /\ profile' \in Profile /\ cred' \in Cred
  BY Typed DEF TypeOK
<1>3. Carries(w)' /\ MemoryOK(w)'
  BY <1>1 DEF Carries, MemoryOK, Loaded, First
<1>4. Base'
  <2>1. ReadyProfiles' \subseteq ReadyProfiles
    BY <1>1, ReadySubset, DataTypes
  <2> QED  BY <1>1, <1>2, <1>3, <2>1, BaseKept
<1>5. ASSUME Sound PROVE Sound'
  <2>1. LockOK(w)'
    BY <1>1, <1>5 DEF LockOK
  <2> QED  BY <1>1, <1>3, <1>5, <2>1, Quietly, DataTypes
<1> QED  BY <1>4, <1>5

LEMMA EndSteps ==
    ASSUME Base, NEW w \in Processes, Release(w) \/ Unlink(w) \/ Kill(w)
    PROVE  Base' /\ (Sound => Sound')
<1>0. /\ UNCHANGED <<server, marker, profile, cred, files, entered, reader, issued, lastWord>>
      /\ faults' \in 0 .. MaxFaults /\ robbed \subseteq Processes /\ lock \in Processes \cup {NoProcess}
  <2>1. Fault \/ UNCHANGED faults
    BY DEF Release, Unlink, Kill
  <2> QED  BY <2>1, FaultTyped, Typed DEF Release, Unlink, Kill, TypeOK
<1>1. IdleWriter \in Writer /\ IdleWriter.pc = "idle" /\ IdleWriter.p = NoProfile
  BY IdleTypes
<1>2. Idle(w) => writer'[w] = IdleWriter
  BY Typed DEF Idle, Types
<1>3. CASE Release(w) /\ lock = w
  <2> DEFINE n == [IdleWriter EXCEPT !.pc = "unlink"]
  <2>1. writer' = [writer EXCEPT ![w] = n] /\ lock' = w /\ UNCHANGED <<lock, robbed>>
    BY <1>3 DEF Release
  <2>2. n \in Writer /\ n.pc = "unlink" /\ n.p = NoProfile
    BY UnlinkTypes
  <2> HIDE DEF n
  <2>3. HandsOver(w) /\ Alone(w)
    BY <1>3, <2>1 DEF HandsOver, Robbed, Alone
  <2> QED  BY <1>0, <2>1, <2>2, <2>3, Ends
<1>4. CASE (Release(w) /\ lock # w) \/ Kill(w)
  <2>1. Idle(w) /\ robbed' = robbed \ {w} /\ lock' = lock
    BY <1>4 DEF Release, Kill
  <2>2. HandsOver(w) /\ Alone(w)
    BY <1>0, <1>1, <1>2, <2>1 DEF HandsOver, Robbed, Alone
  <2> QED  BY <1>0, <1>1, <2>1, <2>2, Ends DEF Idle
<1>5. CASE Unlink(w)
  <2>1. Idle(w) /\ robbed' = (robbed \cup {lock}) \ {w, NoProcess} /\ lock' = NoProcess
    BY <1>5 DEF Unlink
  <2>2. HandsOver(w)
    BY <1>1, <1>2, <2>1, RuntimeAssumption, <1>0 DEF HandsOver, Robbed
  <2>3. Sound => Alone(w)
    BY <1>5, <2>1, Holds DEF Unlink, On, Past, Alone
  <2> QED  BY <1>0, <1>1, <2>1, <2>2, <2>3, Ends DEF Idle
<1> QED  BY <1>3, <1>4, <1>5

\* RemoveAbandonedLock.
LEMMA RemoveAbandonedLockStep ==
    ASSUME Base, RemoveAbandonedLock
    PROVE  Base' /\ (Sound => Sound')
<1>0. /\ lock \in Processes /\ \A w \in Processes : writer[w].pc = "idle"
      /\ lock' = NoProcess
      /\ UNCHANGED <<server, marker, profile, cred, files, robbed, entered, writer, reader, issued, lastWord, faults>>
  BY DEF RemoveAbandonedLock, On, Base, Types, TypeOK
<1> PICK w \in Processes : w = lock
  BY <1>0
<1>1. Moves(w)
  BY <1>0 DEF Moves, OthersStay, Base, Types
<1>2. TypeOK' /\ profile' \in Profile /\ cred' \in Cred /\ Carries(w)'
  BY <1>0, Typed DEF TypeOK, Carries
<1>3. Base'
  <2>1. HandsOver(w)
    BY <1>0 DEF HandsOver, Robbed
  <2>2. ReadyProfiles' \subseteq ReadyProfiles
    BY <1>0 DEF ReadyProfiles
  <2> QED  BY <1>0, <1>1, <1>2, <2>1, <2>2, BaseKept
<1>4. ASSUME Sound PROVE Sound'
  <2>1. Alone(w) /\ LockOK(w)' /\ MemoryOK(w)'
    BY <1>0 DEF Alone, LockOK, MemoryOK, Loaded
  <2>2. Fewer
    BY <1>0, <1>1, NoneReady
  <2>3. WordsOK'
    BY <1>0, <1>4 DEF WordsOK, Settled, Sound
  <2> QED  BY <1>0, <1>1, <1>4, <2>1, <2>2, <2>3, SoundKept
<1> QED  BY <1>3, <1>4

-----------------------------------------------------------------------------
(* Connect and disconnect.                                                 *)

\* Enroll: nothing of an earlier enrolment is left.
LEMMA EnrollStep ==
    ASSUME Base, NEW w \in Processes, Enroll(w)
    PROVE  Base' /\ (Sound => Sound')
<1>0. /\ writer[w].pc = "enroll"
      /\ UNCHANGED <<marker, profile, cred, files, lock, robbed, entered, reader, issued, faults>>
  BY DEF Enroll, On, disk, locking
<1>1. Sound => lock = w /\ Alone(w)
  BY <1>0, Holds DEF Past, Alone
<1>2. CASE Go(w, "release") /\ UNCHANGED <<server, lastWord>>
  <2>1. Moves(w) /\ writer'[w].p = NoProfile /\ writer'[w].pc = "release"
    BY <1>2, Goes, Typed DEF Keeps, PCs
  <2>2. TypeOK'
    BY <1>0, <1>2, Typed DEF TypeOK
  <2>3. Carries(w)' /\ MemoryOK(w)'
    BY <2>1 DEF Carries, MemoryOK, Loaded, First
  <2>4. Base'
    BY <1>0, <2>1, <2>2, <2>3, BaseStays, Typed, DataTypes
  <2>5. Sound => LockOK(w)'
    BY <1>0, <1>1, <2>1 DEF LockOK
  <2> QED  BY <1>0, <1>1, <1>2, <2>1, <2>3, <2>4, <2>5, Quietly, DataTypes
<1>3. CASE /\ profile = NoProfile /\ ~cred.exists
           /\ server' = [server EXCEPT !.live = TRUE] /\ lastWord' = NoMark
           /\ writer' = [v \in Processes |->
                IF v = w THEN [writer[v] EXCEPT !.pc = "first-cred", !.p = FirstProfile, !.c = NewCred]
                         ELSE [writer[v] EXCEPT !.c.fresh = FALSE]]
  <2> DEFINE n == [writer[w] EXCEPT !.pc = "first-cred", !.p = FirstProfile, !.c = NewCred]
  <2>1. n \in Writer /\ n.pc = "first-cred" /\ n.p = FirstProfile /\ n.c = NewCred
    BY Typed, DataTypes DEF Writer, PCs, First
  <2>2. writer' = [v \in Processes |-> IF v = w THEN n ELSE [writer[v] EXCEPT !.c.fresh = FALSE]]
    BY <1>3
  <2> HIDE DEF n
  <2>3. Moves(w) /\ writer'[w] = n
    BY <2>1, <2>2, OthersStale, Typed
  <2>4. TypeOK'
    BY <1>0, <1>3, Typed, MarkTypes, SessionEnds DEF TypeOK
  <2>5. Carries(w)'
    BY <2>1, <2>3, DataTypes DEF Carries, Loaded, First
  <2>6. Base'
    BY <1>0, <2>1, <2>3, <2>4, <2>5, BaseStays, Typed, DataTypes
  <2>7. ASSUME Sound PROVE Sound'
    <3>1. LockOK(w)' /\ MemoryOK(w)'
      BY <1>0, <1>1, <1>3, <2>1, <2>3, <2>7 DEF LockOK, MemoryOK, Loaded
    <3>2. Fewer
      BY <1>0, <2>1, <2>3, NoneReady, DataTypes
    <3>3. WordsOK'
      BY <1>0, <1>3, DataTypes DEF WordsOK
    <3> QED  BY <1>0, <1>1, <2>3, <2>7, <3>1, <3>2, <3>3, SoundKept
  <2> QED  BY <2>6, <2>7
<1> QED  BY <1>2, <1>3 DEF Enroll

LEMMA FirstCredentialStep ==
    ASSUME Base, NEW w \in Processes, FirstCredential(w)
    PROVE  Base' /\ (Sound => Sound')
<1>0. /\ writer[w].pc = "first-cred" /\ (Fault \/ UNCHANGED faults)
      /\ UNCHANGED <<server, marker, profile, files, lock, robbed, entered, reader, issued, lastWord>>
      /\ cred' \in {cred, writer[w].c}
      /\ Go(w, "first-profile") \/ Go(w, "release")
  BY DEF FirstCredential, On, locking
<1>1. writer[w].p = FirstProfile /\ writer[w].c.exists
  BY <1>0, Typed DEF Carries, First
<1>2. /\ Moves(w) /\ writer'[w].p \in {FirstProfile, NoProfile}
      /\ writer'[w].pc \in {"first-profile", "release"}
      /\ writer'[w].pc = "first-profile" => writer'[w].p = FirstProfile
      /\ writer'[w].pc = "release" => writer'[w].p = NoProfile
  <2>1. "first-profile" \in PCs /\ "release" \in PCs
    BY DEF PCs, First
  <2> QED  BY <1>0, <1>1, <2>1, Goes, Typed DEF Keeps
<1>3. TypeOK' /\ cred' \in Cred
  BY <1>0, <1>1, Typed, FaultTyped DEF TypeOK, Cred
<1>4. Carries(w)' /\ MemoryOK(w)'
  BY <1>2 DEF Carries, MemoryOK, Loaded, First
<1>5. Base'
  BY <1>0, <1>2, <1>3, <1>4, BaseStays, Typed, DataTypes
<1>6. ASSUME Sound PROVE Sound'
  <2>1. Alone(w) /\ LockOK(w)'
    BY <1>0, <1>2, <1>6, Holds DEF Past, Alone, LockOK
  <2> QED  BY <1>0, <1>2, <1>4, <1>6, <2>1, Quietly, DataTypes
<1> QED  BY <1>5, <1>6

LEMMA WriteFirstProfileStep ==
    ASSUME Base, NEW w \in Processes, WriteFirstProfile(w)
    PROVE  Base' /\ (Sound => Sound')
<1>0. /\ writer[w].pc = "first-profile" /\ (Fault \/ UNCHANGED faults)
      /\ UNCHANGED <<server, marker, cred, files, lock, robbed, entered, reader, issued, lastWord>>
      /\ \/ profile' = writer[w].p /\ Go(w, "clear")
         \/ profile' \in {profile, writer[w].p} /\ Go(w, "undo")
  BY DEF WriteFirstProfile, On, locking
<1>1. writer[w].p = FirstProfile
  BY <1>0, Typed DEF Carries, First
<1>2. /\ Moves(w) /\ writer'[w].p = NoProfile
      /\ \/ writer'[w].pc = "clear" /\ profile' = FirstProfile
         \/ writer'[w].pc = "undo"
  <2>1. "clear" \in PCs /\ "undo" \in PCs
    BY DEF PCs
  <2> QED  BY <1>0, <1>1, <2>1, Goes, Typed DEF Keeps
<1>3. TypeOK' /\ profile' \in Profile /\ (profile'.state = "ready" => profile' = profile)
  BY <1>0, <1>1, Typed, DataTypes, FaultTyped DEF TypeOK
<1>4. Carries(w)' /\ MemoryOK(w)'
  BY <1>2, DataTypes DEF Carries, MemoryOK, Loaded, First
<1>5. Base'
  BY <1>0, <1>2, <1>3, <1>4, BaseStays, Typed, DataTypes
<1>6. ASSUME Sound PROVE Sound'
  <2>1. Alone(w) /\ LockOK(w)'
    BY <1>0, <1>2, <1>6, Holds DEF Past, Alone, LockOK
  <2> QED  BY <1>0, <1>2, <1>3, <1>4, <1>6, <2>1, Quietly, DataTypes
<1> QED  BY <1>5, <1>6

LEMMA UndoConnectStep ==
    ASSUME Base, NEW w \in Processes, UndoConnect(w)
    PROVE  Base' /\ (Sound => Sound')
<1>0. /\ writer[w].pc = "undo"
      /\ Go(w, "release") \/ NewToken(w, FALSE, "release")
      /\ UNCHANGED <<marker, profile, files, lock, robbed, entered, reader, issued, lastWord, faults>>
      /\ cred' \in {cred, [cred EXCEPT !.fresh = FALSE], NoCred}
      /\ server' \in {server, [server EXCEPT !.live = FALSE]}
  BY DEF UndoConnect, On, locking
<1>1. Moves(w) /\ writer'[w].p = NoProfile /\ writer'[w].pc = "release"
  BY <1>0, GoesOrNewToken, Typed DEF PCs
<1>2. TypeOK' /\ cred' \in Cred
  <2>1. cred' \in Cred /\ (~cred'.exists => cred' = NoCred) /\ cred'.at \in Marks
    <3>1. CASE cred' = NoCred
      BY <3>1, DataTypes DEF Cred
    <3>2. CASE cred' \in {cred, [cred EXCEPT !.fresh = FALSE]}
      BY <3>2, Typed, StaleCredential
    <3> QED  BY <1>0, <3>1, <3>2
  <2> QED  BY <1>0, <2>1, Typed, SessionEnds DEF TypeOK
<1>3. Carries(w)' /\ MemoryOK(w)'
  BY <1>1 DEF Carries, MemoryOK, Loaded, First
<1>4. Base'
  BY <1>0, <1>1, <1>2, <1>3, BaseStays, Typed, DataTypes
<1>5. ASSUME Sound PROVE Sound'
  <2>1. Alone(w) /\ LockOK(w)'
    BY <1>0, <1>1, <1>5, Holds DEF Past, Alone, LockOK
  <2> QED  BY <1>0, <1>1, <1>3, <1>5, <2>1, Quietly, DataTypes
<1> QED  BY <1>4, <1>5

LEMMA EndSessionStep ==
    ASSUME Base, NEW w \in Processes, EndSession(w)
    PROVE  Base' /\ (Sound => Sound')
<1>0. /\ writer[w].pc = "end-session" /\ writer[w].op = "disconnect" /\ NewToken(w, FALSE, "remove")
      /\ UNCHANGED <<marker, profile, files, lock, robbed, entered, reader, issued, faults>>
      /\ lastWord' = Denied /\ server' = [server EXCEPT !.live = FALSE]
      /\ cred' = [cred EXCEPT !.fresh = FALSE]
  BY Typed DEF EndSession, SessionOver, On, locking, Carries
<1>1. Moves(w) /\ writer'[w].p = NoProfile /\ writer'[w].pc = "remove" /\ writer'[w].op = "disconnect"
  BY <1>0, GoesOrNewToken, Typed DEF PCs
<1>2. TypeOK' /\ cred' \in Cred
  BY <1>0, Typed, MarkTypes, SessionEnds, StaleCredential DEF TypeOK
<1>3. Carries(w)' /\ MemoryOK(w)'
  BY <1>1 DEF Carries, MemoryOK, Loaded, First, Disconnects
<1>4. Base'
  BY <1>0, <1>1, <1>2, <1>3, BaseStays, Typed, DataTypes
<1>5. ASSUME Sound PROVE Sound'
  <2>1. lock = w /\ marker \notin Absent
    BY <1>0, <1>5, AtWork DEF Loaded
  <2> QED  BY <1>0, <1>1, <1>3, <1>5, <2>1, UnderMarker, DataTypes
<1> QED  BY <1>4, <1>5

\* RemoveProfileDirectory: a lock that goes was that writer's own.
LEMMA RemoveDirectoryStep ==
    ASSUME Base, NEW w \in Processes, RemoveProfileDirectory(w)
    PROVE  Base' /\ (Sound => Sound')
<1>0. /\ writer[w].pc = "remove" /\ writer[w].op \in Disconnects /\ writer[w].p = NoProfile
      /\ UNCHANGED <<server, cred, entered, reader, issued, lastWord, faults>>
  BY Typed DEF RemoveProfileDirectory, On, Carries, Loaded, First
<1>1. /\ profile' \in {profile, NoProfile} /\ marker' \in {marker} \cup Absent
      /\ profile' = NoProfile \/ marker' \in {marker, "removed"}
      /\ \/ UNCHANGED <<lock, robbed>>
         \/ lock' = NoProcess /\ robbed' = robbed \cup {lock} /\ lock # NoProcess
      /\ Go(w, "forget") \/ UNCHANGED writer
  <2>1. marker \in Absent => profile # NoProfile \/ marker' = marker
    BY DEF RemoveProfileDirectory
  <2> QED  BY DEF RemoveProfileDirectory, Absent
<1>2. /\ Moves(w) /\ writer'[w].p = NoProfile /\ writer'[w].op \in Disconnects
      /\ writer'[w].pc \in {"remove", "forget"}
  <2>1. CASE Go(w, "forget")
    BY <1>0, <2>1, Goes, Typed DEF PCs, Keeps
  <2>2. CASE UNCHANGED writer
    BY <1>0, <2>2, Typed DEF Moves, OthersStay, Types
  <2> QED  BY <1>1, <2>1, <2>2
<1>3. TypeOK' /\ profile' \in Profile /\ cred' \in Cred
  BY <1>0, <1>1, Typed, DataTypes DEF TypeOK
<1>4. Carries(w)' /\ MemoryOK(w)'
  BY <1>2 DEF Carries, MemoryOK, Loaded, First
<1>5. HandsOver(w)
  BY <1>0, <1>1, Typed DEF HandsOver, Robbed
<1>6. Base'
  <2>1. ReadyProfiles' \subseteq ReadyProfiles
    BY <1>1, <1>2, ReadySubset, DataTypes
  <2> QED  BY <1>0, <1>2, <1>3, <1>4, <1>5, <2>1, BaseKept
<1>7. ASSUME Sound PROVE Sound'
  <2>1. lock \in {w, NoProcess} /\ LockOK(w)
    BY <1>0, <1>7 DEF Sound, LockOK
  <2>2. Alone(w)
    BY <1>1, <2>1 DEF Alone
  <2>3. LockOK(w)'
    BY <1>1, <1>2, <2>1 DEF LockOK, Past
  <2>4. Fewer
    BY <1>1, <1>2, NoneReady, DataTypes
  <2>5. WordsOK'
    <3>1. CASE profile' = NoProfile
      BY <3>1, DataTypes DEF WordsOK
    <3>2. CASE profile' = profile /\ marker' \in {marker, "removed"}
      BY <1>0, <1>2, <1>7, <3>2, WordsStay
    <3> QED  BY <1>1, <3>1, <3>2
  <2> QED  BY <1>0, <1>2, <1>4, <1>7, <2>2, <2>3, <2>4, <2>5, SoundKept
<1> QED  BY <1>6, <1>7

LEMMA RemovalFailsStep ==
    ASSUME Base, NEW w \in Processes, RemovalFails(w)
    PROVE  Base' /\ (Sound => Sound')
<1>0. /\ writer[w].pc = "remove" /\ writer[w].op \in Disconnects /\ (Fault \/ UNCHANGED faults)
      /\ Go(w, IF writer[w].op = "disconnect" THEN "fail" ELSE "release")
      /\ UNCHANGED <<server, marker, profile, cred, files, lock, robbed, entered, reader, issued, lastWord>>
  BY Typed DEF RemovalFails, On, disk, locking, Carries
<1>1. /\ Moves(w) /\ writer'[w].pc \in {"release", "fail"} /\ writer'[w].p = NoProfile
      /\ writer'[w].op \in Disconnects
  <2>1. "fail" \in PCs /\ "release" \in PCs
    BY DEF PCs
  <2> QED  BY <1>0, <2>1, Goes, Typed DEF Keeps
<1>2. TypeOK'
  BY <1>0, Typed, FaultTyped DEF TypeOK
<1>3. Carries(w)' /\ MemoryOK(w)'
  BY <1>1 DEF Carries, MemoryOK, Loaded, First
<1>4. Base'
  BY <1>0, <1>1, <1>2, <1>3, BaseStays, Typed, DataTypes
<1>5. ASSUME Sound PROVE Sound'
  <2>1. Alone(w) /\ LockOK(w)'
    BY <1>0, <1>1 DEF Alone, LockOK, Past, Disconnects
  <2> QED  BY <1>0, <1>1, <1>3, <1>5, <2>1, Quietly, DataTypes
<1> QED  BY <1>4, <1>5

LEMMA ForgetStep ==
    ASSUME Base, NEW w \in Processes, ForgetCredential(w)
    PROVE  Base' /\ (Sound => Sound')
<1>0. /\ writer[w].pc = "forget" /\ writer[w].op \in Disconnects /\ (Fault \/ UNCHANGED faults)
      /\ Go(w, "release") \/ Go(w, "fail")
      /\ UNCHANGED <<server, marker, profile, files, lock, robbed, entered, reader, issued, lastWord>>
      /\ cred' \in {cred, NoCred}
  BY Typed DEF ForgetCredential, On, locking, Carries
<1>1. /\ Moves(w) /\ writer'[w].pc \in {"release", "fail"} /\ writer'[w].p = NoProfile
      /\ writer'[w].op \in Disconnects
  <2>1. "fail" \in PCs /\ "release" \in PCs
    BY DEF PCs
  <2> QED  BY <1>0, <2>1, Goes, Typed DEF Keeps
<1>2. TypeOK' /\ cred' \in Cred /\ (cred' = cred \/ ~cred'.exists)
  BY <1>0, Typed, DataTypes, FaultTyped DEF TypeOK, Cred
<1>3. Carries(w)' /\ MemoryOK(w)'
  BY <1>1 DEF Carries, MemoryOK, Loaded, First
<1>4. Base'
  BY <1>0, <1>1, <1>2, <1>3, BaseStays, Typed, DataTypes
<1>5. ASSUME Sound PROVE Sound'
  <2>1. Alone(w) /\ LockOK(w)'
    BY <1>0, <1>1, <1>2 DEF Alone, LockOK, Past, Disconnects
  <2> QED  BY <1>0, <1>1, <1>3, <1>5, <2>1, Quietly, DataTypes
<1> QED  BY <1>4, <1>5

-----------------------------------------------------------------------------
(* The server, and the steps of readers.                                   *)

\* Nothing but the server changes, and tokens that it takes no more.
LEMMA EnvironmentStep ==
    ASSUME Base, Environment
    PROVE  Base' /\ (Sound => Sound')
<1>0. UNCHANGED <<marker, profile, files, lock, robbed, entered, reader, issued, lastWord>>
  BY DEF Environment, PublishContent, ContractGrants, BumpEpoch, RevokeDevice, RestoreServer, Client, disk, locking
<1>1. faults' \in 0 .. MaxFaults
  <2>1. Fault \/ UNCHANGED faults
    BY DEF Environment, PublishContent, ContractGrants, BumpEpoch, RevokeDevice, RestoreServer, Client
  <2> QED  BY <2>1, FaultTyped DEF Base
<1>2. server' \in [epoch : 1..MaxCount, gen : 1..MaxCount, line : 0..1, live : BOOLEAN]
  <2>1. server \in [epoch : 1..MaxCount, gen : 1..MaxCount, line : 0..1, live : BOOLEAN]
    BY DEF Base, Types, TypeOK
  <2>2. /\ PublishContent \/ ContractGrants => server.gen + 1 \in 1 .. MaxCount
        /\ ContractGrants \/ BumpEpoch => server.epoch + 1 \in 1 .. MaxCount
    BY <2>1, Numbers DEF PublishContent, ContractGrants, BumpEpoch
  <2>3. CASE PublishContent
    BY <2>1, <2>2, <2>3 DEF PublishContent
  <2>4. CASE ContractGrants
    BY <2>1, <2>2, <2>4 DEF ContractGrants
  <2>5. CASE BumpEpoch
    BY <2>1, <2>2, <2>5 DEF BumpEpoch
  <2>6. CASE RevokeDevice
    BY <2>1, <2>6 DEF RevokeDevice, SessionOver
  <2>7. CASE RestoreServer
    <3>1. 1 \in 1 .. MaxCount /\ 1 \in 0 .. 1
      BY Numbers
    <3>2. server' = [server EXCEPT !.epoch = 1, !.gen = 1, !.line = 1]
      BY <2>7 DEF RestoreServer
    <3> QED  BY <2>1, <3>1, <3>2
  <2> QED  BY <2>3, <2>4, <2>5, <2>6, <2>7 DEF Environment
<1>3. /\ cred' \in Cred /\ cred'.exists = cred.exists /\ cred'.at \in Marks /\ (~cred'.exists => cred' = NoCred)
      /\ writer' \in [Processes -> Writer]
      /\ \A v \in Processes :
           /\ writer'[v].pc = writer[v].pc /\ writer'[v].op = writer[v].op
           /\ writer'[v].prior = writer[v].prior /\ writer'[v].p = writer[v].p
           /\ writer'[v].m = writer[v].m /\ writer'[v].c.exists = writer[v].c.exists
  <2>1. CASE RevokeDevice
    <3> DEFINE stale(v) == [writer[v] EXCEPT !.c.fresh = FALSE]
    <3>1. cred' = [cred EXCEPT !.fresh = FALSE] /\ writer' = [v \in Processes |-> stale(v)]
      BY <2>1 DEF RevokeDevice, SessionOver
    <3>2. \A v \in Processes : /\ stale(v) \in Writer
                               /\ stale(v).pc = writer[v].pc /\ stale(v).op = writer[v].op
                               /\ stale(v).prior = writer[v].prior /\ stale(v).p = writer[v].p
                               /\ stale(v).m = writer[v].m /\ stale(v).c.exists = writer[v].c.exists
      BY Stale DEF Base, Types
    <3> HIDE DEF stale
    <3> QED  BY <3>1, <3>2, StaleCredential DEF Base
  <2>2. CASE PublishContent \/ ContractGrants \/ BumpEpoch \/ RestoreServer
    <3>1. UNCHANGED <<cred, writer>>
      BY <2>2 DEF PublishContent, ContractGrants, BumpEpoch, RestoreServer, Client, disk
    <3> QED  BY <3>1, StaleCredential DEF Base, Types
  <2> QED  BY <2>1, <2>2 DEF Environment
<1>4. Types'
  BY <1>0, <1>1, <1>2, <1>3 DEF Base, Types, TypeOK
<1>5. ReadyProfiles' = ReadyProfiles
  BY <1>0, <1>3 DEF ReadyProfiles
<1>6. \A w \in Processes : Carries(w)' /\ Robbed(w)'
  BY <1>0, <1>3 DEF Base, Carries, Robbed
<1>7. IdsOK'
  <2>1. Known' = Known
    BY <1>0, <1>5 DEF Known, ReadFiles
  <2> QED  BY <1>0, <2>1 DEF IdsOK, Base
<1>8. Base'
  BY <1>0, <1>4, <1>5, <1>6, <1>7 DEF Base, Steady
<1>9. ASSUME Sound PROVE Sound'
  <2>1. \A w \in Processes : LockOK(w)' /\ MemoryOK(w)'
    BY <1>0, <1>3, <1>9 DEF Sound, LockOK, Past, MemoryOK
  <2>2. WordsOK'
    BY <1>0, <1>3, <1>9 DEF Sound, WordsOK, Settled
  <2>3. Fewer
    BY <1>0, <1>5 DEF Fewer
  <2> QED  BY <1>0, <1>9, <2>1, <2>2, <2>3, FewerReady DEF Sound
<1> QED  BY <1>8, <1>9

\* Reader r goes to n and knows no other files than somebody did.
LEMMA ReaderMoves ==
    ASSUME Base, NEW r \in Processes, UNCHANGED Aside, NEW n \in Reader,
           reader' = [reader EXCEPT ![r] = n],
           n.got \cup {n.file, n.outer} \subseteq Known, Steady(n), Sound => QueryOK(n)
    PROVE  Base' /\ (Sound => Sound')
<1>0. UNCHANGED <<server, marker, profile, cred, files, lock, robbed, entered, writer, issued, lastWord, faults>>
  BY DEF Aside, disk, locking
<1>1. Types'
  BY <1>0 DEF Base, Types, TypeOK
<1>2. ReadyProfiles' = ReadyProfiles
  BY <1>0 DEF ReadyProfiles
<1>3. \A q \in Processes : reader'[q] = IF q = r THEN n ELSE reader[q]
  BY DEF Base, Types
<1>4. IdsOK'
  <2>1. Known' \subseteq Known
    BY <1>2, <1>3 DEF Known, ReadFiles
  <2> QED  BY <1>0, <2>1 DEF Base, IdsOK
<1>5. Base'
  <2>1. \A w \in Processes : Carries(w)' /\ Robbed(w)'
    BY <1>0 DEF Base, Carries, Robbed
  <2>2. \A q \in Processes : Steady(reader'[q])
    BY <1>3 DEF Base
  <2> QED  BY <1>1, <1>2, <1>4, <2>1, <2>2 DEF Base, Steady
<1>6. ASSUME Sound PROVE Sound'
  <2>1. \A w \in Processes : LockOK(w)' /\ MemoryOK(w)'
    BY <1>0, <1>6 DEF Sound, LockOK, MemoryOK, Past
  <2>2. WordsOK' /\ OrderOK'
    BY <1>0, <1>2, <1>6 DEF Sound, WordsOK, Settled, OrderOK
  <2>3. ASSUME NEW q \in Processes PROVE QueryOK(reader[q])'
    <3>1. QueryOK(reader'[q])
      BY <1>3, <1>6 DEF Sound
    <3>2. /\ \A id : NoneBefore(id)' <=> NoneBefore(id)
          /\ Gone(reader[q].file)' <=> Gone(reader'[q].file)
      BY <1>2 DEF NoneBefore, Gone
    <3>3. Inner(reader'[q]) => Inner(reader[q])'
      BY <3>2 DEF Inner
    <3> QED  BY <3>1, <3>2, <3>3 DEF QueryOK, Preparing, Outer
  <2> QED  BY <2>1, <2>2, <2>3 DEF Sound
<1> QED  BY <1>5, <1>6

LEMMA Queries ==
    ASSUME Base, NEW r \in Processes
    PROVE  /\ reader[r] \in Reader /\ Steady(reader[r]) /\ (Sound => QueryOK(reader[r]))
           /\ reader[r].got \cup {reader[r].file, reader[r].outer} \subseteq Known
           /\ NoFile \in Known /\ profile \in Profile /\ cred \in Cred
           /\ reader[r].got \subseteq File /\ reader[r].file \in File /\ reader[r].outer \in File
           /\ reader[r].parts \in 0 .. Reads + 1
BY DEF Base, Sound, Types, Known, ReadFiles, Reader

\* A profile that answers is among the ready ones, and the first of them.
LEMMA ReadyProfile ==
    ASSUME Base, profile.state = "ready"
    PROVE  /\ profile \in ReadyProfiles /\ profile.file \in Known
           /\ profile.file.id > 0 /\ profile.file.rec = profile.at
           /\ Sound => NoneBefore(profile.file.id)
BY DEF Base, Sound, ReadyProfiles, OrderOK, Known, NoneBefore

LEMMA ReadCredentialStep ==
    ASSUME Base, NEW r \in Processes, ReadCredential(r)
    PROVE  Base' /\ (Sound => Sound')
<1> DEFINE q == reader[r]
<1>0. UNCHANGED Aside
  BY DEF ReadCredential
<1>1. CASE /\ Reading(r, "idle")
           /\ reader' = [reader EXCEPT ![r].pc = "profile", ![r].parts = Reads + 1, ![r].mark = cred.at]
  <2> DEFINE m == [q EXCEPT !.pc = "profile", !.parts = Reads + 1, !.mark = cred.at]
  <2>1. q = IdleReader
    BY <1>1, Queries DEF Reading, Steady
  <2>2. m \in Reader /\ m.pc = "profile" /\ m.parts = Reads + 1 /\ m.file = q.file
        /\ m.outer = NoFile /\ m.got = {}
    <3>1. Reads + 1 \in 0 .. Reads + 1 /\ cred.at \in Marks
      BY Queries, Numbers DEF Cred
    <3>2. m \in Reader /\ m.pc = "profile" /\ m.parts = Reads + 1 /\ m.file = q.file
          /\ m.outer = q.outer /\ m.got = q.got
      BY <3>1, Queries DEF Reader
    <3>3. q.outer = NoFile /\ q.got = {}
      BY <2>1 DEF IdleReader
    <3> QED  BY <3>2, <3>3
  <2>3. reader' = [reader EXCEPT ![r] = m]
    BY <1>1, Numbers DEF Base, Types
  <2> HIDE DEF m
  <2>4. QueryOK(m) /\ Steady(m)
    BY <2>2, Numbers DEF QueryOK, Preparing, Steady
  <2> QED  BY <1>0, <2>2, <2>3, <2>4, ReaderMoves, Queries
<1>2. CASE \E from \in {"prepare", "check"} :
             /\ q.pc = from
             /\ reader' = [reader EXCEPT ![r].pc = IF from = "check" THEN "check-marker" ELSE "profile",
                                         ![r].mark = cred.at]
  <2> PICK from \in {"prepare", "check"} :
             /\ q.pc = from
             /\ reader' = [reader EXCEPT ![r].pc = IF from = "check" THEN "check-marker" ELSE "profile",
                                         ![r].mark = cred.at]
    BY <1>2
  <2> DEFINE pc == IF from = "check" THEN "check-marker" ELSE "profile"
             m == [q EXCEPT !.pc = pc, !.mark = cred.at]
  <2>1. /\ m \in Reader /\ m.pc = pc /\ m.parts = q.parts /\ m.file = q.file
        /\ m.outer = q.outer /\ m.got = q.got
    BY Queries DEF Reader, Cred, Checks
  <2>2. reader' = [reader EXCEPT ![r] = m]
    BY DEF Base, Types
  <2> HIDE DEF m
  <2>3. Steady(m)
    BY <2>1, Queries DEF Steady
  <2>4. ASSUME Sound PROVE QueryOK(m)
    <3>1. q.pc \in {"prepare", "check"} /\ QueryOK(q) /\ q # IdleReader
      BY <2>4, Queries DEF IdleReader
    <3>2. Inner(q) \/ (Outer(q) /\ q.pc = "check")
      BY <3>1 DEF QueryOK, Preparing, Outer, Checks
    <3>3. Inner(q) => Inner(m)
      BY <2>1, <3>1 DEF Inner, Checks
    <3>4. Outer(q) => Outer(m)
      BY <2>1, <3>1 DEF Outer, Checks
    <3>5. \A f \in m.got : NoneBefore(f.id)
      BY <2>1, <3>1 DEF QueryOK
    <3> QED  BY <2>1, <3>2, <3>3, <3>4, <3>5 DEF QueryOK
  <2> QED  BY <1>0, <2>1, <2>2, <2>3, <2>4, ReaderMoves, Queries
<1> QED  BY <1>1, <1>2 DEF ReadCredential, Reading

LEMMA ReadProfileStep ==
    ASSUME Base, NEW r \in Processes, ReadProfile(r)
    PROVE  Base' /\ (Sound => Sound')
<1> DEFINE q == reader[r]
           m == [q EXCEPT !.pc = "marker", !.file = profile.file, !.mark = NoMark]
<1>0. UNCHANGED Aside /\ q.pc = "profile" /\ profile.state = "ready" /\ (Sound => QueryOK(q))
  BY Queries DEF ReadProfile, Reading, Trusted
<1>1. /\ m \in Reader /\ m.pc = "marker" /\ m.parts = q.parts /\ m.file = profile.file
      /\ m.outer = q.outer /\ m.got = q.got
  BY Queries, MarkTypes DEF Reader, Profile
<1>2. reader' = [reader EXCEPT ![r] = m]
  BY DEF ReadProfile, Base, Types
<1> HIDE DEF m
<1>3. Steady(m)
  BY <1>0, <1>1, Queries DEF Steady
<1>4. ASSUME Sound PROVE QueryOK(m)
  <2>1. Preparing(q) => Preparing(m)
    BY <1>1 DEF Preparing
  <2>2. Inner(q) => Inner(m)
    BY <1>0, <1>1, <1>4, ReadyProfile DEF Inner, NoneBefore, Checks
  <2>3. Preparing(q) \/ Inner(q)
    BY <1>0, <1>4 DEF QueryOK, Outer, Checks, IdleReader
  <2> QED  BY <1>0, <1>1, <1>4, <2>1, <2>2, <2>3, ReadyProfile DEF QueryOK
<1> QED  BY <1>0, <1>1, <1>2, <1>3, <1>4, ReaderMoves, Queries, ReadyProfile

LEMMA OpenAndReadStep ==
    ASSUME Base, NEW r \in Processes, OpenAndRead(r)
    PROVE  Base' /\ (Sound => Sound')
<1> DEFINE q == reader[r]
           first == [q EXCEPT !.pc = "prepare", !.parts = Reads, !.outer = q.file]
           m == [q EXCEPT !.pc = "check", !.got = q.got \cup {q.file}, !.parts = q.parts - 1]
<1>0. /\ UNCHANGED Aside /\ q.pc = "marker" /\ q # IdleReader /\ q.parts >= 1
      /\ Sound => QueryOK(q) /\ q.file.id > 0 /\ NoneBefore(q.file.id)
  BY Queries DEF OpenAndRead, Reading, QueryOK, IdleReader, Steady
<1>1. Sound => Preparing(q) \/ Inner(q)
  BY <1>0 DEF QueryOK, Outer, Checks
<1>2. CASE q.parts = Reads + 1 /\ reader' = [reader EXCEPT ![r] = first]
  <2>1. /\ first \in Reader /\ first.pc = "prepare" /\ first.parts = Reads /\ first.file = q.file
        /\ first.outer = q.file /\ first.got = q.got
    <3>1. q \in Reader /\ q.file \in File
      BY Queries DEF Reader
    <3>2. Reads \in 0 .. Reads + 1
      BY Numbers
    <3>3. first = [q EXCEPT !.pc = "prepare", !.parts = Reads, !.outer = q.file]
      OBVIOUS
    <3> HIDE DEF q, first
    <3> QED  BY <3>1, <3>2, <3>3 DEF Reader
  <2> HIDE DEF first
  <2>2. Steady(first)
    BY <2>1, Numbers DEF Steady
  <2>3. ASSUME Sound PROVE QueryOK(first)
    <3>1. Preparing(q)
      BY <1>0, <1>1, <1>2, <2>3, Numbers DEF Inner, Checks
    <3> QED  BY <1>0, <2>1, <2>3, <3>1, Numbers DEF QueryOK, Inner, Preparing
  <2> QED  BY <1>0, <1>2, <2>1, <2>2, <2>3, ReaderMoves, Queries
<1>3. CASE q.parts # Reads + 1 /\ reader' = [reader EXCEPT ![r] = m]
  <2>1. /\ m \in Reader /\ m.pc = "check" /\ m.parts = q.parts - 1 /\ m.file = q.file
        /\ m.outer = q.outer /\ m.got = q.got \cup {q.file}
    <3>1. q.parts - 1 \in 0 .. Reads + 1 /\ q.got \cup {q.file} \subseteq File
      BY <1>0, Queries, Numbers
    <3> QED  BY <3>1, Queries DEF Reader, Checks
  <2> HIDE DEF m
  <2>2. Steady(m)
    BY <2>1 DEF Steady
  <2>3. ASSUME Sound PROVE QueryOK(m)
    <3>1. Inner(q) /\ q.parts \in 1 .. Reads /\ q.file.id >= q.outer.id
      BY <1>0, <1>1, <1>3, <2>3, Numbers DEF Inner, Preparing, Checks
    <3>2. Inner(m)
      BY <1>0, <2>1, <3>1, Numbers DEF Inner, Checks
    <3>3. \A f \in m.got : NoneBefore(f.id)
      BY <1>0, <2>1, <2>3 DEF QueryOK
    <3> QED  BY <2>1, <3>2, <3>3 DEF QueryOK
  <2> QED  BY <1>0, <1>3, <2>1, <2>2, <2>3, ReaderMoves, Queries
<1> QED  BY <1>2, <1>3 DEF OpenAndRead

\* CheckMarker: no sync is under way, so if the generation is still the active
\* one it is what the server said last, unless its marker was removed.
LEMMA CheckMarkerStep ==
    ASSUME Base, NEW r \in Processes, CheckMarker(r)
    PROVE  Base' /\ (Sound => Sound')
<1> DEFINE q == reader[r]
           lin == marker = "removed" \/ lastWord = q.file.rec
           m == [q EXCEPT !.pc = "check-profile", !.lin = lin]
<1>0. UNCHANGED Aside /\ q.pc = "check-marker" /\ marker \in Absent
  BY DEF CheckMarker, Reading
<1>1. lin \in BOOLEAN
  BY DEF lin
<1>2. reader' = [reader EXCEPT ![r] = m]
  BY DEF CheckMarker, Base, Types
<1> HIDE DEF lin
<1>3. /\ m \in Reader /\ m.pc = "check-profile" /\ m.parts = q.parts /\ m.file = q.file
      /\ m.outer = q.outer /\ m.got = q.got /\ m.lin = lin
  BY <1>1, Queries DEF Reader, Checks
<1> HIDE DEF m
<1>4. Steady(m)
  BY <1>3 DEF Steady
<1>5. ASSUME Sound PROVE QueryOK(m)
  <2>1. QueryOK(q) /\ (Inner(q) \/ Outer(q))
    BY <1>0, <1>5, Queries DEF QueryOK, IdleReader, Preparing
  <2>2. lin \/ Gone(q.file)
    <3> SUFFICES ASSUME marker = "none", NEW p \in ReadyProfiles, p.file = q.file
                 PROVE  lastWord = q.file.rec
      BY <1>0 DEF Gone, lin, Absent
    <3>1. \A w \in Processes : writer[w].p.state # "ready"
      BY <1>0, <1>5, DataTypes DEF Base, Sound, MemoryOK, Carries, First
    <3>2. p = profile /\ p.state = "ready"
      BY <3>1 DEF ReadyProfiles
    <3>3. profile.at = lastWord
      BY <1>5, <3>2 DEF Sound, WordsOK, Settled
    <3> QED  BY <3>2, <3>3, ReadyProfile
  <2>3. Inner(q) => Inner(m)
    BY <1>0, <1>3 DEF Inner, Checks
  <2>4. Outer(q) => Outer(m)
    BY <1>0, <1>3 DEF Outer, Checks
  <2> QED  BY <1>0, <1>3, <2>1, <2>2, <2>3, <2>4 DEF QueryOK
<1> QED  BY <1>0, <1>2, <1>3, <1>4, <1>5, ReaderMoves, Queries

\* CheckProfile: what was read came from generations between the one prepared
\* first and the one active now; at the end these are the same.
LEMMA CheckProfileStep ==
    ASSUME Base, NEW r \in Processes, CheckProfile(r)
    PROVE  Base' /\ (Sound => Sound')
<1> DEFINE q == reader[r]
           done == [q EXCEPT !.mark = NoMark]
           more == [done EXCEPT !.pc = "prepare"]
           last == [done EXCEPT !.pc = "check", !.file = q.outer, !.outer = NoFile]
           end == [done EXCEPT !.pc = "delivered"]
<1>0. /\ UNCHANGED Aside /\ q.pc = "check-profile" /\ profile.state = "ready"
      /\ profile.file = q.file
      /\ Sound => QueryOK(q) /\ (Inner(q) \/ Outer(q))
  BY Queries DEF CheckProfile, Reading, Trusted, QueryOK, IdleReader, Preparing
<1>1. Sound => q.lin
  BY <1>0, ReadyProfile DEF QueryOK, Gone
<1>2. /\ more \in Reader /\ more.pc = "prepare" /\ more.parts = q.parts /\ more.file = q.file
      /\ more.outer = q.outer /\ more.got = q.got
  BY Queries, MarkTypes DEF Reader
<1>3. /\ last \in Reader /\ last.pc = "check" /\ last.parts = q.parts /\ last.file = q.outer
      /\ last.outer = NoFile /\ last.got = q.got
  BY Queries, MarkTypes, DataTypes DEF Reader, Checks
<1>4. /\ end \in Reader /\ end.pc = "delivered" /\ end.lin = q.lin /\ end.file = q.file
      /\ end.outer = q.outer /\ end.got = q.got
  BY Queries, MarkTypes DEF Reader
<1>5. Sound => \A f \in q.got : NoneBefore(f.id)
  BY <1>0 DEF QueryOK
<1>6. q.parts \in Nat
  BY Queries, Numbers
<1> HIDE DEF done
<1>7. CASE q.parts > 0 /\ reader' = [reader EXCEPT ![r] = more]
  <2> HIDE DEF more
  <2>1. Steady(more)
    BY <1>2, <1>6, <1>7 DEF Steady
  <2>2. ASSUME Sound PROVE QueryOK(more)
    <3>1. Inner(q)
      BY <1>0, <1>7, <2>2 DEF Outer
    <3>2. Inner(more)
      BY <1>0, <1>2, <1>6, <1>7, <3>1, Numbers DEF Inner, Checks
    <3> QED  BY <1>2, <1>5, <2>2, <3>2 DEF QueryOK
  <2> QED  BY <1>0, <1>2, <1>7, <2>1, <2>2, ReaderMoves, Queries
<1>8. CASE q.parts = 0 /\ q.outer # NoFile /\ reader' = [reader EXCEPT ![r] = last]
  <2> HIDE DEF last
  <2>1. Steady(last)
    BY <1>3 DEF Steady
  <2>2. ASSUME Sound PROVE QueryOK(last)
    <3>1. Outer(last)
      BY <1>0, <1>3, <1>8, <2>2 DEF Inner, Outer, Checks
    <3> QED  BY <1>3, <1>5, <2>2, <3>1 DEF QueryOK
  <2> QED  BY <1>0, <1>3, <1>8, <2>1, <2>2, ReaderMoves, Queries
<1>9. CASE q.parts = 0 /\ q.outer = NoFile /\ reader' = [reader EXCEPT ![r] = end]
  <2> HIDE DEF end
  <2>1. Steady(end)
    BY <1>4 DEF Steady
  <2>2. ASSUME Sound PROVE QueryOK(end)
    <3>1. Outer(q)
      BY <1>0, <1>9, <2>2, DataTypes DEF Inner
    <3>2. ASSUME NEW f \in q.got PROVE f = q.file
      <4>1. f.id >= q.file.id
        BY <3>1 DEF Outer
      <4>2. q.file.id >= f.id
        BY <1>0, <1>5, <2>2, ReadyProfile DEF NoneBefore
      <4>3. f.id = q.file.id /\ f \in Known /\ q.file \in Known
        BY <4>1, <4>2, Queries DEF File
      <4> QED  BY <4>3 DEF Base, IdsOK
    <3>3. q.got = {q.file}
      BY <3>1, <3>2 DEF Outer
    <3> QED  BY <1>1, <1>4, <2>2, <3>3 DEF QueryOK
  <2> QED  BY <1>0, <1>4, <1>9, <2>1, <2>2, ReaderMoves, Queries
<1> QED
  <2>1. reader' = [reader EXCEPT ![r] =
           CASE q.parts > 0 -> more
             [] q.parts = 0 /\ q.outer # NoFile -> last
             [] OTHER -> end]
    BY DEF CheckProfile, done
  <2> HIDE DEF more, last, end
  <2>2. CASE q.parts > 0
    <3>1. ~(q.parts = 0)
      BY <1>6, <2>2
    <3>2. reader' = [reader EXCEPT ![r] = more]
      BY <2>1, <2>2, <3>1
    <3> QED  BY <1>7, <2>2, <3>2
  <2>3. CASE q.parts = 0 /\ q.outer # NoFile
    BY <1>8, <2>1, <2>3
  <2>4. CASE q.parts = 0 /\ q.outer = NoFile
    BY <1>9, <2>1, <2>4
  <2> QED  BY <1>6, <2>2, <2>3, <2>4

LEMMA EndQueryStep ==
    ASSUME Base, NEW r \in Processes, EndQuery(r)
    PROVE  Base' /\ (Sound => Sound')
<1>1. QueryOK(IdleReader) /\ Steady(IdleReader)
  BY IdleTypes DEF QueryOK, Steady
<1> QED  BY <1>1, ReaderMoves, Queries, IdleTypes DEF EndQuery

-----------------------------------------------------------------------------
(* The invariant.                                                          *)

LEMMA InvInit ==
    ASSUME Init
    PROVE  Inv
<1>0. /\ server = ServerInit /\ marker = "none" /\ profile = NoProfile /\ cred = NoCred
      /\ lock = NoProcess /\ robbed = {} /\ entered = FALSE
      /\ issued = 0 /\ lastWord = NoMark /\ faults = 0
      /\ \A w \in Processes : writer[w] = IdleWriter /\ reader[w] = IdleReader
      /\ writer \in [Processes -> {IdleWriter}] /\ reader \in [Processes -> {IdleReader}]
  BY DEF Init
<1>1. TypeOK
  <2>1. ServerInit \in [epoch : 1..MaxCount, gen : 1..MaxCount, line : 0..1, live : BOOLEAN]
    BY Numbers DEF ServerInit
  <2>2. 0 \in 0 .. MaxManifests /\ 0 \in 0 .. MaxFaults
    BY Numbers
  <2>3. profile.state = "none" /\ profile.at \in Marks /\ cred.at \in Marks /\ lastWord \in Marks
    BY <1>0, MarkTypes, DataTypes DEF NoCred, Cred
  <2> QED  BY <1>0, <2>1, <2>2, <2>3 DEF TypeOK, Absent
<1>2. Types
  BY <1>0, <1>1, IdleTypes, DataTypes DEF Types
<1>3. ReadyProfiles = {}
  BY <1>0, IdleTypes, DataTypes DEF ReadyProfiles
<1>4. \A w \in Processes : Carries(w) /\ Robbed(w) /\ LockOK(w) /\ MemoryOK(w)
  BY <1>0, IdleTypes DEF Carries, Robbed, LockOK, MemoryOK, Loaded, First
<1>5. WordsOK /\ OrderOK
  BY <1>0, <1>3, DataTypes DEF WordsOK, OrderOK
<1>6. Known = {NoFile}
  BY <1>0, <1>3 DEF Known, ReadFiles, IdleReader
<1>7. IdsOK
  BY <1>0, <1>6, DataTypes DEF IdsOK
<1>8. \A r \in Processes : QueryOK(reader[r]) /\ Steady(reader[r])
  BY <1>0 DEF QueryOK, Steady, IdleReader
<1> QED  BY <1>2, <1>3, <1>4, <1>5, <1>7, <1>8 DEF Inv, Base, Sound

\* Only a writer that begins may change what is known of an entry.
LEMMA EnteredKept ==
    ASSUME [Next]_vars, ~\E p \in Processes, op \in Operations : Acquire(p, op)
    PROVE  entered' = entered
<1>1. ASSUME NEW p \in Processes, Connecting(p) PROVE entered' = entered
  BY <1>1 DEF Connecting, Enroll, FirstCredential, WriteFirstProfile, UndoConnect, disk, locking
<1>2. ASSUME NEW p \in Processes, Disconnecting(p) PROVE entered' = entered
  BY <1>2 DEF Disconnecting, EndSession, RemoveProfileDirectory, RemovalFails, ForgetCredential, disk, locking
<1>3. ASSUME NEW p \in Processes, Syncing(p) PROVE entered' = entered
  <2>1. CASE \/ BeginMarker(p) \/ LoadProfile(p) \/ RefreshToken(p) \/ Refused(p)
             \/ ConfigurationDiffers(p) \/ RefreshUnanswered(p) \/ RequestFails(p) \/ StoreToken(p)
    BY <2>1 DEF BeginMarker, LoadProfile, RefreshToken, Refused, ConfigurationDiffers,
                RefreshUnanswered, RequestFails, StoreToken, disk, locking
  <2>2. CASE \/ ReceiveManifest(p) \/ AcceptManifest(p) \/ RenewLease(p) \/ BuildGeneration(p)
             \/ Activate(p) \/ PruneGenerations(p) \/ ClearMarker(p)
    BY <2>2 DEF ReceiveManifest, AcceptManifest, RenewLease, BuildGeneration, Activate,
                PruneGenerations, ClearMarker, disk, locking
  <2>3. CASE BlockMarker(p) \/ BlockProfile(p) \/ Fail(p) \/ Release(p) \/ Unlink(p)
    BY <2>3 DEF BlockMarker, BlockProfile, Fail, Release, Unlink, locking
  <2> QED  BY <1>3, <2>1, <2>2, <2>3 DEF Syncing
<1>4. ASSUME NEW p \in Processes, Querying(p) \/ Kill(p) PROVE entered' = entered
  BY <1>4 DEF Querying, ReadCredential, ReadProfile, OpenAndRead, CheckMarker, CheckProfile,
              EndQuery, Aside, Kill, disk, locking
<1>5. ASSUME Environment \/ RemoveAbandonedLock \/ UNCHANGED vars PROVE entered' = entered
  BY <1>5 DEF Environment, PublishContent, ContractGrants, BumpEpoch, RevokeDevice, RestoreServer,
              Client, RemoveAbandonedLock, vars, disk, locking
<1> QED  BY <1>1, <1>2, <1>3, <1>4, <1>5 DEF Next

LEMMA InvNext ==
    ASSUME Inv, [Next]_vars
    PROVE  Inv'
<1>1. CASE \E p \in Processes, op \in Operations : Acquire(p, op)
  BY <1>1, AcquireStep
<1>2. CASE ~\E p \in Processes, op \in Operations : Acquire(p, op)
  <2> DEFINE Goal == Base' /\ (Sound => Sound')
  <2>0. Base
    BY DEF Inv
  <2>1. ASSUME NEW p \in Processes, Connecting(p) PROVE Goal
    BY <2>0, <2>1, EnrollStep, FirstCredentialStep, WriteFirstProfileStep, UndoConnectStep DEF Connecting
  <2>2. ASSUME NEW p \in Processes, Syncing(p) PROVE Goal
    BY <2>0, <2>2, BeginMarkerStep, LoadProfileStep, RefreshTokenStep, RefusedSteps, RefreshUnansweredStep,
       RequestFailsStep, StoreTokenStep, ReceiveManifestStep, AcceptManifestStep, RenewLeaseStep,
       BuildGenerationStep, ActivateStep, PruneStep, ClearMarkerStep, BlockMarkerStep,
       BlockProfileStep, FailStep, EndSteps
       DEF Syncing
  <2>3. ASSUME NEW p \in Processes, Disconnecting(p) PROVE Goal
    BY <2>0, <2>3, EndSessionStep, RemoveDirectoryStep, RemovalFailsStep, ForgetStep DEF Disconnecting
  <2>4. ASSUME NEW p \in Processes, Querying(p) PROVE Goal
    BY <2>0, <2>4, ReadCredentialStep, ReadProfileStep, OpenAndReadStep, CheckMarkerStep,
       CheckProfileStep, EndQueryStep
       DEF Querying
  <2>5. ASSUME UNCHANGED vars PROVE Goal
    <3>1. UNCHANGED <<server, marker, profile, cred, files, lock, robbed, entered, writer, reader,
                      issued, lastWord, faults>>
      BY <2>5 DEF vars, disk, locking
    <3>2. /\ \A w \in Processes : /\ Carries(w)' = Carries(w) /\ Robbed(w)' = Robbed(w)
                                  /\ LockOK(w)' = LockOK(w) /\ MemoryOK(w)' = MemoryOK(w)
          /\ ReadyProfiles' = ReadyProfiles /\ TypeOK' = TypeOK
      BY <3>1 DEF Carries, Robbed, LockOK, Past, MemoryOK, ReadyProfiles, TypeOK
    <3>3. IdsOK' = IdsOK /\ WordsOK' = WordsOK /\ OrderOK' = OrderOK
      BY <3>1, <3>2 DEF IdsOK, Known, ReadFiles, WordsOK, Settled, OrderOK
    <3>4. \A r \in Processes : QueryOK(reader[r])' = QueryOK(reader[r]) /\ Steady(reader[r])' = Steady(reader[r])
      BY <3>1, <3>2 DEF QueryOK, Preparing, Inner, Outer, NoneBefore, Gone, Steady
    <3> QED  BY <2>0, <3>1, <3>2, <3>3, <3>4 DEF Base, Types, Sound
  <2>6. ASSUME NEW p \in Processes, Kill(p) PROVE Goal
    BY <2>0, <2>6, EndSteps
  <2>7. ASSUME Environment PROVE Goal
    BY <2>0, <2>7, EnvironmentStep
  <2>8. ASSUME RemoveAbandonedLock PROVE Goal
    BY <2>0, <2>8, RemoveAbandonedLockStep
  <2> HIDE DEF Goal
  <2>9. Goal
    BY <1>2, <2>1, <2>2, <2>3, <2>4, <2>5, <2>6, <2>7, <2>8 DEF Next
  <2>10. entered' = entered
    BY <1>2, EnteredKept
  <2> QED  BY <2>9, <2>10 DEF Inv, Goal
<1> QED  BY <1>1, <1>2

\* The invariant holds in every reachable state, whatever processes are killed,
\* calls fail, devices are revoked, backups are restored and entries removed.
THEOREM Invariance == Spec => []Inv
<1>1. Init => Inv
  BY InvInit
<1>2. Inv /\ [Next]_vars => Inv'
  BY InvNext
<1> QED  BY <1>1, <1>2, PTL DEF Spec

-----------------------------------------------------------------------------
(* What the invariant is for.                                              *)

(***************************************************************************)
(* ReadableIsLastWord: whatever was interrupted, killed or refused, what   *)
(* a query that starts now would be answered from is the generation the    *)
(* server last vouched for, unless a removal took the marker that denied   *)
(* it or let a second writer in.                                           *)
(***************************************************************************)
THEOREM ReadableIsLastWordHolds == Spec => []ReadableIsLastWord
<1>1. Inv => ReadableIsLastWord
  BY ReadyProfile DEF Inv, Sound, ReadableIsLastWord, Readable, Absent, WordsOK, Settled
<1> QED  BY <1>1, Invariance, PTL

(***************************************************************************)
(* AnswersAreAtomic: a delivered answer comes from one generation, and at  *)
(* a moment of the query that generation was what the server had said last *)
(* or its marker removed, unless a second writer was let in.               *)
(***************************************************************************)
THEOREM AnswersAreAtomicHolds == Spec => []AnswersAreAtomic
<1>1. Inv => AnswersAreAtomic
  <2> SUFFICES ASSUME Inv, NEW r \in Processes, reader[r].pc = "delivered", ~entered
               PROVE  reader[r].lin /\ reader[r].got = {reader[r].file}
    BY DEF AnswersAreAtomic
  <2>1. QueryOK(reader[r])
    BY DEF Inv, Sound
  <2> QED  BY <2>1 DEF QueryOK, Preparing, Inner, Outer, Checks, IdleReader
<1> QED  BY <1>1, Invariance, PTL

(***************************************************************************)
(* WritersExcludeEachOther: of two writers at work at once one was robbed  *)
(* of its lock file, and without an entry during a removal only a          *)
(* disconnect that has begun its removal is at work without a lock.        *)
(***************************************************************************)
THEOREM WritersExcludeEachOtherHolds == Spec => []WritersExcludeEachOther
<1>1. Inv => WritersExcludeEachOther
  <2>1. ASSUME Inv, NEW v \in Processes, NEW w \in Processes, v # w, ~On(v, "idle"), ~On(w, "idle")
        PROVE  v \in robbed \/ w \in robbed
    BY <2>1 DEF Inv, Base, Robbed, On
  <2>2. ASSUME Inv, ~entered, NEW w \in Processes, ~On(w, "idle"), lock # w
        PROVE  Past(writer[w])
    BY <2>2 DEF Inv, Sound, LockOK, On
  <2>3. Inv => TypeOK
    BY DEF Inv, Base, Types
  <2> QED  BY <2>1, <2>2, <2>3 DEF WritersExcludeEachOther
<1> QED  BY <1>1, Invariance, PTL

\* Who may write the credential, and what.
LEMMA CredentialChanges ==
    ASSUME Inv, ~entered, [Next]_vars
    PROVE  cred'.at = cred.at \/ ~cred'.exists \/ ~cred.exists \/ CredentialTakes(cred')
<1> DEFINE Goal == cred'.at = cred.at \/ ~cred'.exists \/ ~cred.exists \/ CredentialTakes(cred')
<1>0. Base /\ \A w \in Processes : MemoryOK(w)
  BY DEF Inv, Sound
<1>1. UNCHANGED cred => Goal
  OBVIOUS
<1>2. cred' = NoCred => Goal
  BY DataTypes
<1>3. ASSUME cred' = [cred EXCEPT !.fresh = FALSE] PROVE Goal
  BY <1>0, <1>3, StaleCredential
<1>4. ASSUME NEW p \in Processes, StoreToken(p) PROVE Goal
  BY <1>1, <1>4 DEF StoreToken
<1>5. ASSUME NEW p \in Processes, AcceptManifest(p) PROVE Goal
  BY <1>1, <1>5 DEF AcceptManifest
<1>6. ASSUME NEW p \in Processes, FirstCredential(p) PROVE Goal
  BY <1>0, <1>6 DEF FirstCredential, On, MemoryOK
<1> HIDE DEF Goal
<1>7. ASSUME NEW p \in Processes, Connecting(p) PROVE Goal
  <2>1. CASE UndoConnect(p)
    BY <1>1, <1>2, <1>3, <2>1 DEF UndoConnect
  <2> QED  BY <1>1, <1>6, <1>7, <2>1 DEF Connecting, Enroll, WriteFirstProfile, disk
<1>8. ASSUME NEW p \in Processes, Disconnecting(p) PROVE Goal
  BY <1>1, <1>2, <1>3, <1>8
     DEF Disconnecting, EndSession, SessionOver, RemoveProfileDirectory, RemovalFails, ForgetCredential, disk
<1>9. ASSUME NEW p \in Processes, Syncing(p) PROVE Goal
  <2>1. CASE RefreshToken(p) \/ RequestFails(p)
    BY <1>1, <1>3, <2>1 DEF RefreshToken, RequestFails, Rotate, SessionOver
  <2>2. CASE RefreshUnanswered(p)
    BY <1>1, <1>3, <2>2 DEF RefreshUnanswered, Rotate
  <2>3. CASE \/ BeginMarker(p) \/ LoadProfile(p) \/ Refused(p) \/ ConfigurationDiffers(p)
             \/ ReceiveManifest(p) \/ RenewLease(p) \/ BuildGeneration(p)
    BY <1>1, <2>3 DEF BeginMarker, LoadProfile, Refused, ConfigurationDiffers, ReceiveManifest,
                      RenewLease, BuildGeneration, disk
  <2>4. CASE \/ Activate(p) \/ PruneGenerations(p) \/ ClearMarker(p) \/ BlockMarker(p)
             \/ BlockProfile(p) \/ Fail(p) \/ Release(p) \/ Unlink(p)
    BY <1>1, <2>4 DEF Activate, PruneGenerations, ClearMarker, BlockMarker, BlockProfile, Fail, Release, Unlink
  <2> QED  BY <1>4, <1>5, <1>9, <2>1, <2>2, <2>3, <2>4 DEF Syncing
<1>10. ASSUME NEW p \in Processes, Querying(p) \/ Kill(p) \/ \E op \in Operations : Acquire(p, op)
       PROVE  Goal
  BY <1>1, <1>10 DEF Querying, ReadCredential, ReadProfile, OpenAndRead, CheckMarker, CheckProfile,
                     EndQuery, Aside, disk, Kill, Acquire
<1>11. ASSUME Environment \/ RemoveAbandonedLock \/ UNCHANGED vars PROVE Goal
  <2>1. CASE RevokeDevice
    BY <1>3, <2>1 DEF RevokeDevice, SessionOver
  <2> QED  BY <1>1, <1>11, <2>1 DEF Environment, PublishContent, ContractGrants, BumpEpoch, RestoreServer,
                     Client, RemoveAbandonedLock, vars, disk
<1>12. Goal
  BY <1>7, <1>8, <1>9, <1>10, <1>11 DEF Next
<1> QED  BY <1>12 DEF Goal

(***************************************************************************)
(* HighWaterOnlyRises: within one enrolment the accepted counters never go *)
(* back, nor does a number once accepted change its hash, unless a second  *)
(* writer was let in during a removal.                                     *)
(***************************************************************************)
THEOREM HighWaterOnlyRisesHolds == Spec => HighWaterOnlyRises
<1> DEFINE Rises == LET old == cred.at new == cred'.at
                    IN ~entered /\ cred.exists /\ cred'.exists /\ old # NoMark =>
                         /\ new.epoch >= old.epoch /\ new.gen >= old.gen
                         /\ new.epoch = old.epoch => new.ent = old.ent
                         /\ new.gen = old.gen => new.rec = old.rec
<1>1. ASSUME Inv, Inv', [Next]_vars PROVE Rises
  <2> SUFFICES ASSUME ~entered, cred.exists, cred'.exists, cred.at # NoMark
               PROVE  /\ cred'.at.epoch >= cred.at.epoch /\ cred'.at.gen >= cred.at.gen
                      /\ cred'.at.epoch = cred.at.epoch => cred'.at.ent = cred.at.ent
                      /\ cred'.at.gen = cred.at.gen => cred'.at.rec = cred.at.rec
    OBVIOUS
  <2>1. cred.at \in Marks /\ cred'.at \in Marks
    BY <1>1 DEF Inv, Base, Types, TypeOK
  <2>2. cred'.at = cred.at \/ ~(Behind(cred'.at, cred.at) \/ Conflicts(cred'.at, cred.at))
    BY <1>1, CredentialChanges DEF CredentialTakes
  <2> QED  BY <2>1, <2>2, Numbers DEF Marks, Behind, Conflicts
<1>2. []Inv /\ [][Next]_vars => [][Rises]_vars
  <2>1. Inv /\ Inv' /\ [Next]_vars => [Rises]_vars
    BY <1>1
  <2> HIDE DEF Rises
  <2> QED  BY <2>1, PTL
<1>3. [][Rises]_vars <=> HighWaterOnlyRises
  BY DEF HighWaterOnlyRises
<1> QED  BY <1>2, <1>3, Invariance, PTL DEF Spec
==============================================================================
