----------------------- MODULE LocalSyncServer_proofs -----------------------
(***************************************************************************)
(* Proofs about LocalSyncServer.  Three facts carry everything: a snapshot *)
(* whose revision is the database's is the database; a request that has    *)
(* locked, or still can, has read the present row of counters; and every   *)
(* manifest lies below these counters, with their content if it reaches    *)
(* them.                                                                   *)
(***************************************************************************)
EXTENDS LocalSyncServer, FiniteSetTheorems, TLAPS

Manifests == [device : Devices \cup {NoDevice}, key : Nat, epoch : Nat, gen : Nat,
              records : Records, mode : {"none", "unchanged", "full", "delta"},
              base : Records, changed : Records, removed : SUBSET Assets]
RequestStates == [pc : {"idle", "begin", "lock", "resolve", "authenticate", "sign"},
                  device : Devices \cup {NoDevice}, key : Nat, known : Manifests,
                  attempt : Nat, overtaken : BOOLEAN, snap : Database, row : Row]

Types ==
  /\ db \in Database /\ counters \in Row /\ change \in Database
  /\ request \in [Requests -> RequestStates]
  /\ issued \subseteq Manifests

\* A change that will commit has the next revision.
ChangeInv == change # NoChange => change.revision = db.revision + 1

\* The serialization row has one holder.
HolderInv ==
  \A r \in Requests : request[r].pc = "resolve" =>
    /\ change = NoChange
    /\ \A s \in Requests : request[s].pc = "resolve" => s = r

\* What a request has read, against the database and the counters of now.
RequestOK(q, d, row) ==
  /\ q.snap.revision <= d.revision
  /\ q.pc \in {"lock", "resolve", "authenticate", "sign"} /\ q.snap.revision = d.revision
       => q.snap = d
  /\ (q.pc = "lock" /\ ~q.overtaken) \/ q.pc = "resolve" => q.row = row
  /\ q.pc \in {"authenticate", "sign"} => q.row.records = Eligible(q.snap)

RequestsInv == \A r \in Requests : RequestOK(request[r], db, counters)

\* A manifest, against the counters of now.
Below(m, row) ==
  /\ m.epoch <= row.epoch /\ m.gen <= row.gen
  /\ m.epoch = row.epoch => EntitlementOf(m.records) = EntitlementOf(row.records)
  /\ m.gen = row.gen => m.records = row.records

SameContent(m, n) ==
  /\ m.epoch = n.epoch => EntitlementOf(m.records) = EntitlementOf(n.records)
  /\ m.gen = n.gen => m.records = n.records

\* A device that applies a manifest has its records.
Gives(m) ==
  [a \in Assets |-> IF a \in m.removed THEN NotThere
                    ELSE IF m.changed[a] # NotThere THEN m.changed[a]
                    ELSE IF m.mode = "full" THEN NotThere ELSE m.base[a]] = m.records

IssuedInv ==
  /\ \A m \in issued : Below(m, counters) /\ Gives(m)
  /\ \A m, n \in issued : SameContent(m, n)

Inv == Types /\ ChangeInv /\ HolderInv /\ RequestsInv /\ IssuedInv

-----------------------------------------------------------------------------
(* The data.                                                               *)

LEMMA EligibleType ==
    ASSUME NEW d \in Database
    PROVE  Eligible(d) \in Records
BY LocalSyncServerAssumption DEF Eligible, Records, Database, NotThere

LEMMA Constants ==
    /\ NotPublished \in Records /\ NoRow \in Row /\ FirstRow \in Row
    /\ NoChange \in Database /\ NoManifest \in Manifests /\ Idle \in RequestStates
<1>1. NotPublished \in Records
  BY LocalSyncServerAssumption DEF NotPublished, Records, NotThere
<1>2. NoRow \in Row /\ FirstRow \in Row
  BY <1>1 DEF NoRow, FirstRow, Row
<1>3. NoChange \in Database
  BY <1>1 DEF NoChange, Database, Records, NoDevice
<1>4. NoManifest \in Manifests
  BY <1>1 DEF NoManifest, Manifests, NoDevice
<1> QED  BY <1>1, <1>2, <1>3, <1>4 DEF Idle, RequestStates

\* The counters never fall, and where they stay their content stays.
LEMMA ResolveRises ==
    ASSUME NEW row \in Row, NEW records \in Records
    PROVE  /\ Resolve(row, records) \in Row
           /\ Resolve(row, records).records = records
           /\ row.epoch <= Resolve(row, records).epoch
           /\ row.gen <= Resolve(row, records).gen
           /\ row.epoch = Resolve(row, records).epoch => EntitlementOf(row.records) = EntitlementOf(records)
           /\ row.gen = Resolve(row, records).gen => row.records = records
<1> DEFINE current == IF row = NoRow THEN FirstRow ELSE row
           new == Resolve(row, records)
<1>1. /\ current \in Row /\ current.records = row.records
      /\ row.epoch <= current.epoch /\ row.gen <= current.gen
  BY Constants DEF FirstRow, NoRow, Row
<1>2. new.epoch = current.epoch + (IF EntitlementOf(current.records) = EntitlementOf(records) THEN 0 ELSE 1)
  BY DEF Resolve
<1>3. new.gen = current.gen + (IF current.records # records THEN 1 ELSE 0)
  BY DEF Resolve
<1>4. new.records = records
  BY DEF Resolve
<1>5. new \in Row
  BY <1>1 DEF Resolve, Row
<1>6. /\ current.epoch \in Nat /\ current.gen \in Nat /\ row.epoch \in Nat /\ row.gen \in Nat
      /\ new.epoch \in Nat /\ new.gen \in Nat
  BY <1>1, <1>5 DEF Row
<1> HIDE DEF current, new
<1>7. /\ row.epoch <= new.epoch
      /\ row.epoch = new.epoch => EntitlementOf(current.records) = EntitlementOf(records)
  BY <1>1, <1>2, <1>6
<1>8. row.gen <= new.gen /\ (row.gen = new.gen => current.records = records)
  BY <1>1, <1>3, <1>6
<1> QED  BY <1>1, <1>4, <1>5, <1>7, <1>8 DEF new

\* A manifest has the records of its row of counters, and so does a device that
\* applies it.
LEMMA ManifestGives ==
    ASSUME NEW q \in RequestStates, NEW mode \in ModesFor(q.known, q.row)
    PROVE  LET m == Manifest(q, mode)
           IN /\ m \in Manifests /\ Gives(m)
              /\ m.epoch = q.row.epoch /\ m.gen = q.row.gen /\ m.records = q.row.records
              /\ m.device = q.device /\ m.key = q.key
<1> DEFINE m == Manifest(q, mode)
           new == q.row.records
           known == q.known.records
<1>1. /\ q.row \in Row /\ q.known \in Manifests /\ q.device \in Devices \cup {NoDevice} /\ q.key \in Nat
      /\ new \in Records /\ known \in Records
  BY DEF RequestStates, Row, Records, Manifests
<1>2. /\ mode \in {"unchanged", "full", "delta"}
      /\ mode = "unchanged" => known = new
      /\ mode = "delta" => known \in q.row.prev
  BY DEF ModesFor
<1>3. /\ m.epoch = q.row.epoch /\ m.gen = q.row.gen /\ m.records = new /\ m.mode = mode
      /\ m.device = q.device /\ m.key = q.key /\ m.base = known
  BY DEF Manifest
<1>4. mode = "delta" => (CHOOSE p \in q.row.prev : TRUE) = known
  BY <1>1, <1>2 DEF Row
<1> DEFINE sent == IF mode = "full" THEN Assets
                   ELSE IF mode = "delta" THEN {a \in Assets : new[a] # known[a]} ELSE {}
<1>5. /\ m.changed = [a \in Assets |-> IF a \in sent THEN new[a] ELSE NotThere]
      /\ m.removed = IF mode = "delta" THEN {a \in Assets : known[a] # NotThere /\ new[a] = NotThere}
                     ELSE {}
  BY <1>4 DEF Manifest
<1>6. m \in Manifests
  <2>1. m.changed \in Records /\ m.removed \in SUBSET Assets
    BY <1>1, <1>5, LocalSyncServerAssumption DEF Records, NotThere
  <2>2. m.epoch \in Nat /\ m.gen \in Nat
    BY <1>1, <1>3 DEF Row
  <2> QED  BY <1>1, <1>2, <1>3, <2>1, <2>2 DEF Manifest, Manifests
<1>7. Gives(m)
  <2>1. ASSUME NEW a \in Assets
        PROVE  (IF a \in m.removed THEN NotThere
                ELSE IF m.changed[a] # NotThere THEN m.changed[a]
                ELSE IF m.mode = "full" THEN NotThere ELSE m.base[a]) = new[a]
    <3> HIDE DEF m
    <3> QED  BY <1>2, <1>3, <1>5, <2>1
  <2>2. new = [a \in Assets |-> new[a]]
    BY <1>1 DEF Records
  <2> QED  BY <1>3, <2>1, <2>2 DEF Gives
<1> QED  BY <1>3, <1>6, <1>7

-----------------------------------------------------------------------------
(* The steps.                                                              *)

LEMMA InvInit == Init => Inv
<1> SUFFICES ASSUME Init PROVE Inv
  OBVIOUS
<1> USE Constants DEF Init
<1>1. Types
  <2>1. db \in Database
    BY DEF Database, Records
  <2>2. request \in [Requests -> RequestStates]
    OBVIOUS
  <2> QED  BY <2>1, <2>2 DEF Types
<1>2. \A r \in Requests : request[r].pc = "idle" /\ request[r].snap.revision = 0
  BY DEF Idle, NoChange
<1>3. ChangeInv /\ HolderInv /\ IssuedInv
  BY <1>2 DEF ChangeInv, HolderInv, IssuedInv
<1>4. RequestsInv
  BY <1>2 DEF RequestsInv, RequestOK
<1> QED  BY <1>1, <1>3, <1>4 DEF Inv

\* A step of one request that neither takes the serialization row nor writes
\* anything else.
LEMMA RequestSteps ==
    ASSUME Inv, NEW r \in Requests, NEW q \in RequestStates,
           request' = [request EXCEPT ![r] = q], q.pc # "resolve",
           RequestOK(q, db, counters),
           UNCHANGED <<db, counters, change, issued>>
    PROVE  Inv'
<1>1. Types'
  BY DEF Inv, Types
<1>2. ChangeInv' /\ IssuedInv'
  BY DEF Inv, ChangeInv, IssuedInv
<1>3. \A s \in Requests : request'[s] = IF s = r THEN q ELSE request[s]
  BY DEF Inv, Types
<1>4. HolderInv'
  BY <1>3 DEF Inv, HolderInv
<1>5. RequestsInv'
  BY <1>3 DEF Inv, RequestsInv
<1> QED  BY <1>1, <1>2, <1>4, <1>5 DEF Inv

LEMMA SmallSteps ==
    ASSUME Inv, NEW r \in Requests,
           \/ \E d \in Devices, known \in issued \cup {NoManifest} : StartRequest(r, d, known)
           \/ BeginSnapshot(r) \/ RetrySnapshot(r) \/ Reauthenticate(r) \/ DropRequest(r)
    PROVE  Inv'
<1> DEFINE old == request[r]
<1>1. /\ old \in RequestStates /\ RequestOK(old, db, counters)
      /\ db \in Database /\ counters \in Row /\ issued \subseteq Manifests
      /\ request \in [Requests -> RequestStates]
  BY DEF Inv, Types, RequestsInv
<1>2. RequestOK(Idle, db, counters)
  BY <1>1 DEF RequestOK, Idle, NoChange, Database
<1>3. ASSUME NEW d \in Devices, NEW known \in issued \cup {NoManifest}, StartRequest(r, d, known)
      PROVE  Inv'
  <2> DEFINE q == [Idle EXCEPT !.pc = "begin", !.device = d, !.key = db.key[d],
                               !.known = known, !.attempt = 1]
  <2>1. q \in RequestStates
    BY <1>1, <1>3, Constants DEF RequestStates, Database
  <2>2. RequestOK(q, db, counters) /\ q.pc # "resolve"
    BY <1>1 DEF RequestOK, Idle, NoChange, Database
  <2> HIDE DEF q
  <2> QED  BY <1>3, <2>1, <2>2, RequestSteps DEF StartRequest, q
<1>4. CASE BeginSnapshot(r)
  <2> DEFINE q == [old EXCEPT !.pc = "lock", !.snap = db, !.row = counters, !.overtaken = FALSE]
  <2>1. q \in RequestStates
    BY <1>1 DEF RequestStates
  <2>2. RequestOK(q, db, counters) /\ q.pc # "resolve"
    BY <1>1 DEF RequestOK, RequestStates, Database
  <2>3. request' = [request EXCEPT ![r] = q]
    BY <1>1, <1>4 DEF BeginSnapshot, RequestStates
  <2> HIDE DEF q
  <2> QED  BY <1>4, <2>1, <2>2, <2>3, RequestSteps DEF BeginSnapshot
<1>5. CASE RetrySnapshot(r)
  <2>1. CASE old.attempt < MaxAttempts
    <3>0. PICK n \in Nat : n = old.attempt + 1
      BY <1>1 DEF RequestStates
    <3> DEFINE q == [old EXCEPT !.pc = "begin", !.attempt = n]
    <3>1. q \in RequestStates
      BY <1>1 DEF RequestStates
    <3>2. RequestOK(q, db, counters) /\ q.pc # "resolve"
      BY <1>1 DEF RequestOK, RequestStates
    <3>3. request' = [request EXCEPT ![r] = q]
      <4>1. request' = [request EXCEPT ![r] = [old EXCEPT !.pc = "begin", !.attempt = old.attempt + 1]]
        BY <1>5, <2>1 DEF RetrySnapshot
      <4> QED  BY <3>0, <4>1
    <3> HIDE DEF q
    <3> QED  BY <1>5, <3>1, <3>2, <3>3, RequestSteps DEF RetrySnapshot
  <2>2. CASE ~(old.attempt < MaxAttempts)
    <3>1. request' = [request EXCEPT ![r] = Idle]
      BY <1>1, <1>5, <2>2 DEF RetrySnapshot
    <3> QED  BY <1>2, <1>5, <3>1, Constants, RequestSteps DEF RetrySnapshot, Idle
  <2> QED  BY <2>1, <2>2
<1>6. CASE Reauthenticate(r)
  <2>1. CASE request' = [request EXCEPT ![r] = Idle]
    BY <1>2, <1>6, <2>1, Constants, RequestSteps DEF Reauthenticate, Idle
  <2>2. CASE request' = [request EXCEPT ![r].pc = "sign"]
    <3> DEFINE q == [old EXCEPT !.pc = "sign"]
    <3>1. q \in RequestStates
      BY <1>1 DEF RequestStates
    <3>2. RequestOK(q, db, counters) /\ q.pc # "resolve"
      BY <1>1, <1>6 DEF RequestOK, RequestStates, Reauthenticate
    <3>3. request' = [request EXCEPT ![r] = q]
      BY <1>1, <2>2
    <3> HIDE DEF q
    <3> QED  BY <1>6, <3>1, <3>2, <3>3, RequestSteps DEF Reauthenticate
  <2> QED  BY <1>6, <2>1, <2>2 DEF Reauthenticate
<1>7. CASE DropRequest(r)
  BY <1>2, <1>7, Constants, RequestSteps DEF DropRequest, Idle
<1> QED  BY <1>3, <1>4, <1>5, <1>6, <1>7

\* A request becomes the holder only of a free row, and of what it has read.
LEMMA LockStep ==
    ASSUME Inv, NEW r \in Requests, LockSnapshot(r)
    PROVE  Inv'
<1> DEFINE old == request[r]
           q == [old EXCEPT !.pc = "resolve"]
<1>1. /\ old \in RequestStates /\ RequestOK(old, db, counters)
      /\ db \in Database /\ counters \in Row
      /\ request \in [Requests -> RequestStates]
  BY DEF Inv, Types, RequestsInv
<1>2. RequestOK(Idle, db, counters)
  BY <1>1 DEF RequestOK, Idle, NoChange, Database
<1>3. UNCHANGED <<db, counters, change, issued>>
  BY DEF LockSnapshot
<1>4. CASE old.snap.key[old.device] = old.key
  <2>1. request' = [request EXCEPT ![r] = q]
    BY <1>4 DEF LockSnapshot
  <2>2. q \in RequestStates
    BY <1>1 DEF RequestStates
  <2>3. old.pc = "lock" /\ ~old.overtaken
    BY DEF LockSnapshot, SerializationFails
  <2>4. RequestOK(q, db, counters)
    BY <1>1, <2>3 DEF RequestOK, RequestStates
  <2>5. \A s \in Requests : request'[s] = IF s = r THEN q ELSE request[s]
    BY <1>1, <2>1
  <2>6. Types'
    BY <1>3, <2>1, <2>2 DEF Inv, Types
  <2>7. ChangeInv' /\ IssuedInv'
    BY <1>3 DEF Inv, ChangeInv, IssuedInv
  <2>8. HolderInv'
    BY <1>3, <2>5 DEF HolderInv, LockSnapshot, SerializationFree
  <2>9. RequestsInv'
    BY <1>3, <2>4, <2>5 DEF Inv, RequestsInv
  <2> QED  BY <2>6, <2>7, <2>8, <2>9 DEF Inv
<1>5. CASE old.snap.key[old.device] # old.key
  <2>1. request' = [request EXCEPT ![r] = Idle]
    BY <1>5 DEF LockSnapshot
  <2> QED  BY <1>2, <1>3, <2>1, Constants, RequestSteps DEF Idle
<1> QED  BY <1>4, <1>5

\* Other counters for the same or more: what was signed stays below them.
LEMMA RaisedCounters ==
    ASSUME Inv, NEW row \in Row,
           counters.epoch <= row.epoch, counters.gen <= row.gen,
           counters.epoch = row.epoch => EntitlementOf(counters.records) = EntitlementOf(row.records),
           counters.gen = row.gen => counters.records = row.records
    PROVE  \A m \in issued : Below(m, row)
<1> SUFFICES ASSUME NEW m \in issued PROVE Below(m, row)
  OBVIOUS
<1>1. Below(m, counters)
  BY DEF Inv, IssuedInv
<1>2. /\ m.epoch \in Nat /\ m.gen \in Nat
      /\ counters.epoch \in Nat /\ counters.gen \in Nat /\ row.epoch \in Nat /\ row.gen \in Nat
  BY DEF Inv, Types, Manifests, Row
<1> QED  BY <1>1, <1>2 DEF Below

\* Whoever read the counters before they changed is overtaken.
LEMMA OvertakenRequests ==
    ASSUME NEW requests \in [Requests -> RequestStates], NEW s \in Requests
    PROVE  LET q == Overtake(requests)[s]
           IN /\ Overtake(requests) \in [Requests -> RequestStates]
              /\ q.pc = requests[s].pc /\ q.snap = requests[s].snap /\ q.row = requests[s].row
              /\ q.pc = "lock" => q.overtaken
<1>1. \A t \in Requests :
        LET b == requests[t].overtaken \/ requests[t].pc = "lock"
        IN b \in BOOLEAN /\ Overtake(requests)[t] = [requests[t] EXCEPT !.overtaken = b]
  BY DEF Overtake
<1>2. \A t \in Requests : Overtake(requests)[t] \in RequestStates
  <2> SUFFICES ASSUME NEW t \in Requests PROVE Overtake(requests)[t] \in RequestStates
    OBVIOUS
  <2>1. PICK b \in BOOLEAN : Overtake(requests)[t] = [requests[t] EXCEPT !.overtaken = b]
    BY <1>1
  <2> QED  BY <2>1 DEF RequestStates
<1>3. Overtake(requests) \in [Requests -> RequestStates]
  BY <1>2 DEF Overtake
<1> QED  BY <1>1, <1>3 DEF RequestStates

LEMMA ResolveStep ==
    ASSUME Inv, NEW r \in Requests, ResolveSnapshot(r)
    PROVE  Inv'
<1> DEFINE old == request[r]
           records == Eligible(old.snap)
           row == Resolve(old.row, records)
           q == [old EXCEPT !.pc = "authenticate", !.row = row]
           moved == [request EXCEPT ![r] = q]
<1>1. /\ old \in RequestStates /\ RequestOK(old, db, counters)
      /\ db \in Database /\ counters \in Row
      /\ request \in [Requests -> RequestStates]
  BY DEF Inv, Types, RequestsInv
<1>2. UNCHANGED <<db, change, issued>> /\ old.pc = "resolve"
  BY DEF ResolveSnapshot
<1>3. CASE Bytes(records) > MaxBytes
  <2>1. request' = [request EXCEPT ![r] = Idle] /\ counters' = counters
    BY <1>3 DEF ResolveSnapshot
  <2>2. RequestOK(Idle, db, counters)
    BY <1>1 DEF RequestOK, Idle, NoChange, Database
  <2> QED  BY <1>2, <2>1, <2>2, Constants, RequestSteps DEF Idle
<1>4. CASE ~(Bytes(records) > MaxBytes)
  <2>1. old.row = counters /\ old.snap \in Database
    BY <1>1, <1>2 DEF RequestOK, RequestStates
  <2>2. records \in Records
    BY <2>1, EligibleType
  <2>3. /\ row \in Row /\ row.records = records
        /\ counters.epoch <= row.epoch /\ counters.gen <= row.gen
        /\ counters.epoch = row.epoch => EntitlementOf(counters.records) = EntitlementOf(row.records)
        /\ counters.gen = row.gen => counters.records = row.records
    BY <1>1, <2>1, <2>2, ResolveRises
  <2>4. counters' = row /\ request' = Overtake(moved)
    BY <1>1, <1>4 DEF ResolveSnapshot
  <2> HIDE DEF records, row
  <2>5. q \in RequestStates /\ moved \in [Requests -> RequestStates]
    BY <1>1, <2>3 DEF RequestStates
  <2>6. \A s \in Requests : moved[s] = IF s = r THEN q ELSE request[s]
    BY <1>1
  <2>7. q.pc = "authenticate" /\ q.snap = old.snap /\ q.row = row
    BY <1>1 DEF RequestStates
  <2> HIDE DEF q, moved
  <2>8. /\ request' \in [Requests -> RequestStates]
        /\ \A s \in Requests :
             /\ request'[s].pc = moved[s].pc /\ request'[s].snap = moved[s].snap
             /\ request'[s].row = moved[s].row
             /\ request'[s].pc = "lock" => request'[s].overtaken
    BY <2>4, <2>5, OvertakenRequests
  <2>9. Types'
    BY <1>2, <2>3, <2>4, <2>8 DEF Inv, Types
  <2>10. ChangeInv'
    BY <1>2 DEF Inv, ChangeInv
  <2>11. \A s \in Requests : request'[s].pc # "resolve"
    BY <1>2, <2>6, <2>7, <2>8 DEF Inv, HolderInv
  <2>12. HolderInv'
    BY <2>11 DEF HolderInv
  <2>13. RequestsInv'
    <3> SUFFICES ASSUME NEW s \in Requests PROVE RequestOK(request'[s], db, row)
      BY <1>2, <2>4 DEF RequestsInv
    <3>1. CASE s = r
      BY <1>1, <1>2, <2>3, <2>6, <2>7, <2>8, <3>1 DEF RequestOK, records
    <3>2. CASE s # r
      <4>1. RequestOK(request[s], db, counters) /\ moved[s] = request[s]
        BY <2>6, <3>2 DEF Inv, RequestsInv
      <4> QED  BY <2>8, <2>11, <4>1 DEF RequestOK
    <3> QED  BY <3>1, <3>2
  <2>14. IssuedInv'
    BY <1>2, <2>3, <2>4, RaisedCounters DEF Inv, IssuedInv
  <2> QED  BY <2>9, <2>10, <2>12, <2>13, <2>14 DEF Inv
<1> QED  BY <1>3, <1>4

\* What a signature adds: the content of the snapshot, which is the database's,
\* under the counters of now.
LEMMA SignedManifest ==
    ASSUME Inv, NEW r \in Requests, SignManifest(r), NEW m \in issued', m \notin issued
    PROVE  /\ m \in Manifests /\ Gives(m) /\ Below(m, counters)
           /\ m.epoch = counters.epoch /\ m.gen = counters.gen
           /\ m.records = counters.records /\ m.records = Eligible(db)
           /\ m.key = db.key[m.device]
<1> DEFINE q == request[r]
<1>1. q \in RequestStates /\ RequestOK(q, db, counters) /\ counters \in Row
  BY DEF Inv, Types, RequestsInv
<1>2. IsCurrent(r) /\ q.pc = "sign"
  BY DEF SignManifest
<1>3. PICK mode \in ModesFor(q.known, q.row) : m = Manifest(q, mode)
  BY <1>2 DEF SignManifest
<1>4. /\ m \in Manifests /\ Gives(m)
      /\ m.epoch = q.row.epoch /\ m.gen = q.row.gen /\ m.records = q.row.records
      /\ m.device = q.device /\ m.key = q.key
  BY <1>1, <1>3, ManifestGives
<1>5. counters = q.row /\ q.snap = db /\ q.row.records = Eligible(q.snap)
  BY <1>1, <1>2 DEF IsCurrent, RequestOK
<1>6. Below(m, counters)
  BY <1>1, <1>4, <1>5 DEF Below, Row
<1> QED  BY <1>2, <1>4, <1>5, <1>6 DEF IsCurrent

LEMMA SignStep ==
    ASSUME Inv, NEW r \in Requests, SignManifest(r)
    PROVE  Inv'
<1>1. /\ UNCHANGED <<db, counters, change>>
      /\ request' = [request EXCEPT ![r] = Idle] /\ issued \subseteq issued'
  BY DEF SignManifest
<1>2. \A m \in issued' : m \in Manifests /\ Gives(m) /\ Below(m, counters)
  BY SignedManifest DEF Inv, Types, IssuedInv
<1>3. Types'
  BY <1>1, <1>2, Constants DEF Inv, Types
<1>4. ChangeInv'
  BY <1>1 DEF Inv, ChangeInv
<1>5. \A s \in Requests : request'[s] = IF s = r THEN Idle ELSE request[s]
  BY <1>1 DEF Inv, Types
<1>6. HolderInv'
  BY <1>1, <1>5 DEF Inv, HolderInv, Idle
<1>7. RequestOK(Idle, db, counters)
  BY DEF Inv, Types, RequestOK, Idle, NoChange, Database
<1>8. RequestsInv'
  BY <1>1, <1>5, <1>7 DEF Inv, RequestsInv
<1>9. ASSUME NEW m \in issued', NEW n \in issued' PROVE SameContent(m, n)
  <2>1. CASE m \in issued /\ n \in issued
    BY <2>1 DEF Inv, IssuedInv
  <2>2. CASE m \notin issued
    BY <1>2, <2>2, SignedManifest DEF Below, SameContent
  <2>3. CASE n \notin issued
    BY <1>2, <2>3, SignedManifest DEF Below, SameContent
  <2> QED  BY <2>1, <2>2, <2>3
<1>10. IssuedInv'
  BY <1>1, <1>2, <1>9 DEF IssuedInv
<1> QED  BY <1>3, <1>4, <1>6, <1>8, <1>10 DEF Inv

\* A change takes the free row and the next revision.
LEMMA ChangeStep ==
    ASSUME Inv, NEW new \in Database, new.revision = db.revision, Change(new)
    PROVE  Inv'
<1>1. /\ change = NoChange /\ \A s \in Requests : request[s].pc # "resolve"
      /\ UNCHANGED <<db, counters, request, issued>>
  BY DEF Change, SerializationFree
<1>2. db.revision \in Nat
  BY DEF Inv, Types, Database
<1>3. change' = [new EXCEPT !.revision = db.revision + 1]
  BY DEF Change
<1>4. change' \in Database /\ change'.revision = db.revision + 1
  BY <1>2, <1>3 DEF Database
<1>5. Types'
  BY <1>1, <1>4 DEF Inv, Types
<1>6. ChangeInv'
  BY <1>1, <1>4 DEF ChangeInv
<1>7. HolderInv'
  BY <1>1 DEF HolderInv
<1>8. RequestsInv' /\ IssuedInv'
  BY <1>1 DEF Inv, RequestsInv, IssuedInv
<1> QED  BY <1>5, <1>6, <1>7, <1>8 DEF Inv

LEMMA ChangeSteps ==
    ASSUME Inv,
           \/ \E a \in Assets, payload \in 0 .. MaxPayload : PublishOrWithdraw(a, payload)
           \/ \E granted \in SUBSET Assets : ChangeAuthorization(granted)
           \/ \E d \in Devices : RefreshDevice(d) \/ RevokeDevice(d)
    PROVE  Inv'
<1>1. db \in Database
  BY DEF Inv, Types
<1>2. ASSUME NEW a \in Assets, NEW payload \in 0 .. MaxPayload, PublishOrWithdraw(a, payload)
      PROVE  Inv'
  <2> DEFINE new == [db EXCEPT !.published[a] = payload]
  <2>1. new \in Database /\ new.revision = db.revision
    BY <1>1 DEF Database, Records
  <2> QED  BY <1>2, <2>1, ChangeStep DEF PublishOrWithdraw
<1>3. ASSUME NEW granted \in SUBSET Assets, ChangeAuthorization(granted)
      PROVE  Inv'
  <2> DEFINE new == [db EXCEPT !.granted = granted]
  <2>1. new \in Database /\ new.revision = db.revision
    BY <1>1 DEF Database
  <2> QED  BY <1>3, <2>1, ChangeStep DEF ChangeAuthorization
<1>4. ASSUME NEW d \in Devices, RefreshDevice(d)
      PROVE  Inv'
  <2> DEFINE new == [db EXCEPT !.key[d] = @ + 1]
  <2>1. db.key[d] \in Nat
    BY <1>1 DEF Database
  <2>2. new \in Database /\ new.revision = db.revision
    BY <1>1, <2>1 DEF Database
  <2> QED  BY <1>4, <2>2, ChangeStep DEF RefreshDevice
<1>5. ASSUME NEW d \in Devices, RevokeDevice(d)
      PROVE  Inv'
  <2> DEFINE new == [db EXCEPT !.key[d] = NoDevice]
  <2>1. new \in Database /\ new.revision = db.revision
    BY <1>1 DEF Database, NoDevice
  <2> QED  BY <1>5, <2>1, ChangeStep DEF RevokeDevice
<1> QED  BY <1>2, <1>3, <1>4, <1>5

\* What commits has a revision that no snapshot has.
LEMMA CommitStep ==
    ASSUME Inv, CommitChange
    PROVE  Inv'
<1>1. /\ change # NoChange /\ db' = change /\ change' = NoChange
      /\ UNCHANGED <<counters, request, issued>>
  BY DEF CommitChange
<1>2. /\ db \in Database /\ db' \in Database /\ db'.revision = db.revision + 1
      /\ request \in [Requests -> RequestStates]
  BY <1>1 DEF Inv, Types, ChangeInv
<1>3. Types'
  BY <1>1, Constants DEF Inv, Types
<1>4. ChangeInv'
  BY <1>1 DEF ChangeInv
<1>5. HolderInv'
  BY <1>1 DEF Inv, HolderInv
<1>6. RequestsInv'
  <2> SUFFICES ASSUME NEW s \in Requests PROVE RequestOK(request[s], db', counters)
    BY <1>1 DEF RequestsInv
  <2>1. request[s].snap.revision \in Nat /\ db.revision \in Nat
    BY <1>2 DEF RequestStates, Database
  <2>2. RequestOK(request[s], db, counters)
    BY DEF Inv, RequestsInv
  <2> QED  BY <1>2, <2>1, <2>2 DEF RequestOK
<1>7. IssuedInv'
  BY <1>1 DEF Inv, IssuedInv
<1> QED  BY <1>3, <1>4, <1>5, <1>6, <1>7 DEF Inv

\* Steps that leave everything the invariant is about alone, but may free the
\* serialization row.
LEMMA FrameSteps ==
    ASSUME Inv, UNCHANGED <<db, counters, request, issued>>, change' = change \/ change' = NoChange
    PROVE  Inv'
<1>1. Types'
  BY Constants DEF Inv, Types
<1>2. ChangeInv'
  BY DEF Inv, ChangeInv
<1>3. HolderInv'
  BY DEF Inv, HolderInv
<1>4. RequestsInv' /\ IssuedInv'
  BY DEF Inv, RequestsInv, IssuedInv
<1> QED  BY <1>1, <1>2, <1>3, <1>4 DEF Inv

\* A revocation raises the epoch alone, and overtakes every snapshot that has
\* not locked its rows.
LEMMA BumpStep ==
    ASSUME Inv, NEW d \in Devices, BumpEpoch(d)
    PROVE  Inv'
<1>1. UNCHANGED <<db, change, issued>> /\ \A s \in Requests : request[s].pc # "resolve"
  BY DEF BumpEpoch, SerializationFree
<1>2. CASE counters = NoRow
  BY <1>1, <1>2, FrameSteps DEF BumpEpoch
<1>3. CASE counters # NoRow
  <2> DEFINE row == [counters EXCEPT !.epoch = @ + 1]
  <2>1. counters \in Row /\ request \in [Requests -> RequestStates]
    BY DEF Inv, Types
  <2>2. /\ row \in Row /\ row.epoch = counters.epoch + 1
        /\ row.gen = counters.gen /\ row.records = counters.records
    BY <2>1 DEF Row
  <2>3. counters' = row /\ request' = Overtake(request)
    BY <1>3 DEF BumpEpoch
  <2> HIDE DEF row
  <2>4. /\ request' \in [Requests -> RequestStates]
        /\ \A s \in Requests :
             /\ request'[s].pc = request[s].pc /\ request'[s].snap = request[s].snap
             /\ request'[s].row = request[s].row
             /\ request'[s].pc = "lock" => request'[s].overtaken
    <3>1. \A s \in Requests :
            LET q == Overtake(request)[s]
            IN /\ Overtake(request) \in [Requests -> RequestStates]
               /\ q.pc = request[s].pc /\ q.snap = request[s].snap /\ q.row = request[s].row
               /\ q.pc = "lock" => q.overtaken
      BY <2>1, OvertakenRequests
    <3>2. Overtake(request) \in [Requests -> RequestStates]
      BY <2>1, <3>1 DEF Overtake
    <3> QED  BY <2>3, <3>1, <3>2
  <2>5. Types'
    BY <1>1, <2>2, <2>3, <2>4 DEF Inv, Types
  <2>6. ChangeInv'
    BY <1>1 DEF Inv, ChangeInv
  <2>7. HolderInv'
    BY <1>1, <2>4 DEF HolderInv
  <2>8. RequestsInv'
    <3> SUFFICES ASSUME NEW s \in Requests PROVE RequestOK(request'[s], db, row)
      BY <1>1, <2>3 DEF RequestsInv
    <3>1. RequestOK(request[s], db, counters)
      BY DEF Inv, RequestsInv
    <3> QED  BY <1>1, <2>4, <3>1 DEF RequestOK
  <2>9. IssuedInv'
    <3>1. counters.epoch \in Nat /\ counters.gen \in Nat
      BY <2>1 DEF Row
    <3>2. \A m \in issued : Below(m, row)
      BY <2>2, <3>1, RaisedCounters
    <3> QED  BY <1>1, <2>3, <3>2 DEF Inv, IssuedInv
  <2> QED  BY <2>5, <2>6, <2>7, <2>8, <2>9 DEF Inv
<1> QED  BY <1>2, <1>3

LEMMA InvNext == Inv /\ [Next]_vars => Inv'
<1> SUFFICES ASSUME Inv, [Next]_vars PROVE Inv'
  OBVIOUS
<1>1. ASSUME NEW a \in Assets, NEW payload \in 0 .. MaxPayload, PublishOrWithdraw(a, payload)
      PROVE  Inv'
  BY <1>1, ChangeSteps
<1>2. ASSUME NEW granted \in SUBSET Assets, ChangeAuthorization(granted)
      PROVE  Inv'
  BY <1>2, ChangeSteps
<1>3. CASE CommitChange
  BY <1>3, CommitStep
<1>4. CASE RollBackChange
  BY <1>4, FrameSteps DEF RollBackChange
<1>5. ASSUME NEW d \in Devices, RefreshDevice(d) \/ RevokeDevice(d)
      PROVE  Inv'
  BY <1>5, ChangeSteps
<1>6. ASSUME NEW d \in Devices, RevokeAgain(d) \/ LoseBump(d)
      PROVE  Inv'
  BY <1>6, FrameSteps DEF RevokeAgain, LoseBump
<1>7. ASSUME NEW d \in Devices, BumpEpoch(d)
      PROVE  Inv'
  BY <1>7, BumpStep
<1>8. ASSUME NEW r \in Requests,
             \/ \E d \in Devices, known \in issued \cup {NoManifest} : StartRequest(r, d, known)
             \/ BeginSnapshot(r) \/ RetrySnapshot(r) \/ Reauthenticate(r) \/ DropRequest(r)
      PROVE  Inv'
  BY <1>8, SmallSteps
<1>9. ASSUME NEW r \in Requests, LockSnapshot(r)
      PROVE  Inv'
  BY <1>9, LockStep
<1>10. ASSUME NEW r \in Requests, ResolveSnapshot(r)
       PROVE  Inv'
  BY <1>10, ResolveStep
<1>11. ASSUME NEW r \in Requests, SignManifest(r)
       PROVE  Inv'
  BY <1>11, SignStep
<1>12. CASE UNCHANGED vars
  BY <1>12, FrameSteps DEF vars
<1> QED
  BY <1>1, <1>2, <1>3, <1>4, <1>5, <1>6, <1>7, <1>8, <1>9, <1>10, <1>11, <1>12 DEF Next

-----------------------------------------------------------------------------
(* The theorems.                                                           *)

\* The invariant holds in every reachable state, for any devices, assets and
\* requests.
THEOREM Invariance == Spec => []Inv
<1> QED  BY InvInit, InvNext, PTL DEF Spec

\* The one serialization row of local_sync_snapshot_state has at most one
\* holder, a change or a snapshot.
LEMMA OneHolder ==
    ASSUME Inv
    PROVE  TypeOK
<1> DEFINE holders == {r \in Requests : request[r].pc = "resolve"}
<1>1. db \in Database /\ counters \in Row /\ change \in Database
  BY DEF Inv, Types
<1>2. \A r \in Requests : request[r].snap.revision <= db.revision
  BY DEF Inv, RequestsInv, RequestOK
<1>3. CASE holders = {}
  <2>1. Cardinality(holders) = 0
    BY <1>3, FS_EmptySet
  <2> QED  BY <1>1, <1>2, <2>1 DEF TypeOK
<1>4. CASE holders # {}
  <2>1. PICK r \in Requests : request[r].pc = "resolve"
    BY <1>4
  <2>2. change = NoChange /\ holders = {r}
    BY <2>1 DEF Inv, HolderInv
  <2>3. Cardinality(holders) = 1
    BY <2>2, FS_Singleton, Zenon
  <2> QED  BY <1>1, <1>2, <2>2, <2>3 DEF TypeOK
<1> QED  BY <1>3, <1>4

\* Two manifests of one principal with the same counters have the same content,
\* whatever changes, revocations and requests meet: a client never blocks its
\* profile over equal counters with another hash (getLocalSyncManifest).
THEOREM CountersIdentifyContentHolds == Spec => []CountersIdentifyContent
<1>1. Inv => CountersIdentifyContent
  <2> SUFFICES ASSUME Inv PROVE CountersIdentifyContent
    OBVIOUS
  <2>1. \A m, n \in issued : SameContent(m, n)
    BY DEF Inv, IssuedInv
  <2> QED  BY <2>1, OneHolder DEF CountersIdentifyContent, SameContent
<1> QED  BY <1>1, Invariance, PTL

\* A delta over the records the device named gives the records that were
\* signed, whichever earlier manifest the device holds (buildManifestItems).
THEOREM DeltasGiveTheSnapshotHolds == Spec => []DeltasGiveTheSnapshot
<1>1. Inv => DeltasGiveTheSnapshot
  BY DEF Inv, IssuedInv, Gives, DeltasGiveTheSnapshot
<1> QED  BY <1>1, Invariance, PTL

\* Only a signature issues a manifest.
LEMMA OnlySigned ==
    ASSUME [Next]_vars, NEW m \in issued' \ issued
    PROVE  \E r \in Requests : SignManifest(r)
<1>1. issued' # issued
  OBVIOUS
<1> QED
  BY <1>1 DEF Next, vars, PublishOrWithdraw, ChangeAuthorization, RefreshDevice, RevokeDevice, Change,
              CommitChange, RollBackChange, RevokeAgain, BumpEpoch, LoseBump, StartRequest,
              BeginSnapshot, RetrySnapshot, LockSnapshot, ResolveSnapshot, Reauthenticate, DropRequest

\* The moment a manifest is signed it holds what the principal may cache then,
\* for a device that holds that key: the second transaction (issueLease) makes
\* up for all that happened since the snapshot.
THEOREM SignedIsCurrentHolds == Spec => SignedIsCurrent
<1>1. Inv /\ [Next]_vars =>
        [\A m \in issued' \ issued : m.records = Eligible(db) /\ m.key = db.key[m.device]]_vars
  <2> SUFFICES ASSUME Inv, [Next]_vars, NEW m \in issued' \ issued
               PROVE  m.records = Eligible(db) /\ m.key = db.key[m.device]
    OBVIOUS
  <2> QED  BY OnlySigned, SignedManifest
<1> QED  BY <1>1, Invariance, PTL DEF Spec, SignedIsCurrent

\* No manifest is signed with a counter below that of one signed before.
THEOREM CountersNeverFallHolds == Spec => CountersNeverFall
<1>1. Inv /\ [Next]_vars =>
        [\A m \in issued' \ issued, n \in issued : n.epoch <= m.epoch /\ n.gen <= m.gen]_vars
  <2> SUFFICES ASSUME Inv, [Next]_vars, NEW m \in issued' \ issued, NEW n \in issued
               PROVE  n.epoch <= m.epoch /\ n.gen <= m.gen
    OBVIOUS
  <2>1. m.epoch = counters.epoch /\ m.gen = counters.gen
    BY OnlySigned, SignedManifest
  <2>2. Below(n, counters)
    BY DEF Inv, IssuedInv
  <2> QED  BY <2>1, <2>2 DEF Below
<1> QED  BY <1>1, Invariance, PTL DEF Spec, CountersNeverFall

-----------------------------------------------------------------------------
(* Refinement of SyncPromise.  Besides Inv it takes two facts about        *)
(* requests: one that is running is a device's, and the holder of the      *)
(* serialization row has the database of now as its snapshot.              *)

Running(q, d) ==
  /\ q.pc # "idle" => q.device \in Devices /\ q.key # NoDevice
  /\ q.pc = "resolve" => q.snap.revision = d.revision

RunningInv == \A r \in Requests : Running(request[r], db)

\* One request takes a step: the others are as they were.
LEMMA RunningStep ==
    ASSUME Inv, RunningInv, NEW r \in Requests, NEW q,
           request' = [request EXCEPT ![r] = q], Running(q, db), UNCHANGED db
    PROVE  RunningInv'
<1>1. \A s \in Requests : request'[s] = IF s = r THEN q ELSE request[s]
  BY DEF Inv, Types
<1> QED  BY <1>1 DEF RunningInv

LEMMA RunningRequests ==
    ASSUME Inv, RunningInv, NEW r \in Requests,
           \/ \E d \in Devices, known \in issued \cup {NoManifest} : StartRequest(r, d, known)
           \/ BeginSnapshot(r) \/ RetrySnapshot(r) \/ LockSnapshot(r)
           \/ Reauthenticate(r) \/ SignManifest(r) \/ DropRequest(r)
    PROVE  RunningInv'
<1> DEFINE old == request[r]
<1>1. old \in RequestStates /\ Running(old, db) /\ RequestOK(old, db, counters)
  BY DEF Inv, Types, RequestsInv, RunningInv
<1>2. Running(Idle, db)
  BY DEF Running, Idle
<1>3. ASSUME NEW d \in Devices, NEW known, StartRequest(r, d, known)
      PROVE  RunningInv'
  <2> DEFINE q == [Idle EXCEPT !.pc = "begin", !.device = d, !.key = db.key[d],
                               !.known = known, !.attempt = 1]
  <2>1. Running(q, db)
    BY <1>3 DEF Running, Idle, StartRequest
  <2> HIDE DEF q
  <2> QED  BY <1>3, <2>1, RunningStep DEF StartRequest, q
<1>4. CASE BeginSnapshot(r)
  <2> DEFINE q == [old EXCEPT !.pc = "lock", !.snap = db, !.row = counters, !.overtaken = FALSE]
  <2>1. Running(q, db)
    BY <1>1, <1>4 DEF Running, RequestStates, BeginSnapshot
  <2>2. request' = [request EXCEPT ![r] = q]
    BY <1>1, <1>4 DEF BeginSnapshot, RequestStates
  <2> HIDE DEF q
  <2> QED  BY <1>4, <2>1, <2>2, RunningStep DEF BeginSnapshot
<1>5. ASSUME NEW n, request' = [request EXCEPT ![r] = [old EXCEPT !.pc = "begin", !.attempt = n]],
             old.pc = "lock", UNCHANGED db
      PROVE  RunningInv'
  <2> DEFINE q == [old EXCEPT !.pc = "begin", !.attempt = n]
  <2>1. Running(q, db)
    BY <1>1, <1>5 DEF Running, RequestStates
  <2> HIDE DEF q
  <2> QED  BY <1>5, <2>1, RunningStep DEF q
<1>6. CASE RetrySnapshot(r)
  <2>1. CASE old.attempt < MaxAttempts
    BY <1>5, <1>6, <2>1 DEF RetrySnapshot
  <2>2. CASE ~(old.attempt < MaxAttempts)
    BY <1>2, <1>6, <2>2, RunningStep DEF RetrySnapshot
  <2> QED  BY <2>1, <2>2
<1>7. CASE LockSnapshot(r)
  <2> DEFINE q == [old EXCEPT !.pc = "resolve"]
  <2>1. old.pc = "lock" /\ old.snap.revision = db.revision /\ UNCHANGED db
    BY <1>7 DEF LockSnapshot, SerializationFails
  <2>2. Running(q, db)
    BY <1>1, <2>1 DEF Running, RequestStates
  <2>3. request' = [request EXCEPT ![r] = q] \/ request' = [request EXCEPT ![r] = Idle]
    BY <1>7 DEF LockSnapshot
  <2> HIDE DEF q
  <2> QED  BY <1>2, <2>1, <2>2, <2>3, RunningStep
<1>8. CASE Reauthenticate(r)
  <2> DEFINE q == [old EXCEPT !.pc = "sign"]
  <2>1. Running(q, db)
    BY <1>1, <1>8 DEF Running, RequestStates, Reauthenticate
  <2>2. request' = [request EXCEPT ![r] = q] \/ request' = [request EXCEPT ![r] = Idle]
    BY <1>8 DEF Reauthenticate
  <2> HIDE DEF q
  <2> QED  BY <1>2, <1>8, <2>1, <2>2, RunningStep DEF Reauthenticate
<1>9. CASE SignManifest(r) \/ DropRequest(r)
  BY <1>2, <1>9, RunningStep DEF SignManifest, DropRequest
<1> QED  BY <1>3, <1>4, <1>6, <1>7, <1>8, <1>9

\* Whoever is overtaken stays where it is.
LEMMA RunningOvertaken ==
    ASSUME NEW requests \in [Requests -> RequestStates],
           \A s \in Requests : Running(requests[s], db),
           request' = Overtake(requests), UNCHANGED db
    PROVE  RunningInv'
<1> SUFFICES ASSUME NEW s \in Requests PROVE Running(request'[s], db)
  BY DEF RunningInv
<1>1. PICK b : request'[s] = [requests[s] EXCEPT !.overtaken = b]
  BY DEF Overtake
<1> QED  BY <1>1 DEF Running, RequestStates

LEMMA RunningNext == Inv /\ RunningInv /\ [Next]_vars => RunningInv'
<1> SUFFICES ASSUME Inv, RunningInv, [Next]_vars PROVE RunningInv'
  OBVIOUS
<1>0. request \in [Requests -> RequestStates]
  BY DEF Inv, Types
<1>1. CASE UNCHANGED <<db, request>>
  BY <1>1 DEF RunningInv
<1>2. CASE CommitChange
  <2>1. \A r \in Requests : request[r].pc # "resolve"
    BY <1>2 DEF CommitChange, Inv, HolderInv
  <2> QED  BY <1>2, <2>1 DEF CommitChange, RunningInv, Running
<1>3. ASSUME NEW d \in Devices, BumpEpoch(d)
      PROVE  RunningInv'
  <2>1. CASE request' = Overtake(request)
    BY <1>0, <1>3, <2>1, RunningOvertaken DEF BumpEpoch, RunningInv
  <2> QED  BY <1>1, <1>3, <2>1 DEF BumpEpoch
<1>4. ASSUME NEW r \in Requests, ResolveSnapshot(r)
      PROVE  RunningInv'
  <2> DEFINE row == Resolve(request[r].row, Eligible(request[r].snap))
             q == [request[r] EXCEPT !.pc = "authenticate", !.row = row]
             moved == [request EXCEPT ![r] = q]
  <2>1. CASE request' = [request EXCEPT ![r] = Idle]
    BY <1>4, <2>1, RunningStep DEF ResolveSnapshot, Running, Idle
  <2>2. CASE request' = Overtake([request EXCEPT ![r].pc = "authenticate", ![r].row = row])
    <3>1. request[r] \in RequestStates /\ request[r].snap \in Database /\ request[r].row \in Row
      BY <1>0 DEF RequestStates
    <3>2. row \in Row
      BY <3>1, EligibleType, ResolveRises
    <3> HIDE DEF row
    <3>3. request' = Overtake(moved)
      BY <1>0, <2>2
    <3>4. q \in RequestStates /\ Running(q, db)
      BY <1>4, <3>1, <3>2 DEF RequestStates, Running, RunningInv, ResolveSnapshot
    <3> HIDE DEF q
    <3>5. moved \in [Requests -> RequestStates] /\ \A s \in Requests : Running(moved[s], db)
      BY <1>0, <3>4 DEF RunningInv
    <3> HIDE DEF moved
    <3> QED  BY <1>4, <3>3, <3>5, RunningOvertaken DEF ResolveSnapshot
  <2> QED  BY <1>4, <2>1, <2>2 DEF ResolveSnapshot
<1>5. ASSUME NEW r \in Requests,
             \/ \E d \in Devices, known \in issued \cup {NoManifest} : StartRequest(r, d, known)
             \/ BeginSnapshot(r) \/ RetrySnapshot(r) \/ LockSnapshot(r)
             \/ Reauthenticate(r) \/ SignManifest(r) \/ DropRequest(r)
      PROVE  RunningInv'
  BY <1>5, RunningRequests
<1> QED
  BY <1>1, <1>2, <1>3, <1>4, <1>5
     DEF Next, vars, PublishOrWithdraw, ChangeAuthorization, RefreshDevice, RevokeDevice, Change,
         RollBackChange, RevokeAgain, LoseBump

LEMMA RunningInvariant == Spec => [](Inv /\ RunningInv)
<1>1. Init => RunningInv
  BY DEF Init, RunningInv, Running, Idle
<1> QED  BY <1>1, InvInit, InvNext, RunningNext, PTL DEF Spec

\* What SyncPromise sees of the counters and of the manifests.
Counted == [epoch |-> counters.epoch, gen |-> counters.gen, content |-> ContentOf(counters.records)]
Told(m) == [device |-> m.device, key |-> m.key, epoch |-> m.epoch, gen |-> m.gen,
            content |-> ContentOf(m.records)]

\* What only moves a request is nothing to the devices.
LEMMA PromiseStutter ==
    ASSUME UNCHANGED <<db, counters, issued>>
    PROVE  UNCHANGED Promise!promiseVars
BY DEF Promise!promiseVars

\* The first transaction counts the database of now.
LEMMA ResolveIsCount ==
    ASSUME Inv, RunningInv, NEW r \in Requests, ResolveSnapshot(r)
    PROVE  Promise!Count \/ UNCHANGED Promise!promiseVars
<1> DEFINE old == request[r]
           records == Eligible(db)
           row == Resolve(counters, records)
<1>1. /\ old \in RequestStates /\ RequestOK(old, db, counters) /\ Running(old, db)
      /\ counters \in Row /\ records \in Records
  BY EligibleType DEF Inv, Types, RequestsInv, RunningInv
<1>2. old.pc = "resolve" /\ old.snap = db /\ old.row = counters
  BY <1>1 DEF ResolveSnapshot, RequestOK, Running
<1>3. UNCHANGED <<db, issued>> /\ (counters' = row \/ counters' = counters)
  BY <1>2 DEF ResolveSnapshot
<1>4. CASE counters' = counters
  BY <1>3, <1>4, PromiseStutter
<1>5. CASE counters' = row
  <2>1. /\ row.records = records
        /\ counters.epoch <= row.epoch /\ counters.gen <= row.gen
        /\ counters.epoch = row.epoch => EntitlementOf(counters.records) = EntitlementOf(records)
        /\ counters.gen = row.gen => counters.records = records
        /\ row \in Row
    BY <1>1, ResolveRises
  <2>2. /\ counters.epoch \in Nat /\ counters.gen \in Nat /\ row.epoch \in Nat /\ row.gen \in Nat
    BY <1>1, <2>1 DEF Row
  <2> HIDE DEF row, records
  <2>3. Counted' = [epoch |-> row.epoch, gen |-> row.gen, content |-> ContentOf(records)]
    BY <1>5, <2>1 DEF Counted, ContentOf, EntitlementOf
  <2>4. ContentOf(records)' = ContentOf(records)
    BY <1>3 DEF records, ContentOf, Eligible, EntitlementOf
  <2> QED
    BY <1>3, <2>1, <2>2, <2>3, <2>4 DEF Promise!Count, Counted, ContentOf, records
<1> QED  BY <1>3, <1>4, <1>5

\* The second transaction of a revocation raises the epoch alone.
LEMMA BumpIsRaise ==
    ASSUME Inv, NEW d \in Devices, BumpEpoch(d)
    PROVE  Promise!Raise \/ UNCHANGED Promise!promiseVars
<1>1. UNCHANGED <<db, issued>> /\ counters \in Row
  BY DEF BumpEpoch, Inv, Types
<1>2. CASE counters' = counters
  BY <1>1, <1>2, PromiseStutter
<1>3. CASE counters' = [counters EXCEPT !.epoch = @ + 1]
  <2>1. /\ counters'.epoch = counters.epoch + 1 /\ counters'.gen = counters.gen
        /\ counters'.records = counters.records
    BY <1>1, <1>3 DEF Row
  <2> QED  BY <1>1, <2>1 DEF Promise!Raise
<1> QED  BY <1>2, <1>3 DEF BumpEpoch

\* The second transaction of a manifest answers the device.
LEMMA SignIsAnswer ==
    ASSUME Inv, RunningInv, NEW r \in Requests, SignManifest(r)
    PROVE  (\E d \in DOMAIN db.key : Promise!Answer(d)) \/ UNCHANGED Promise!promiseVars
<1> DEFINE q == request[r]
<1>1. UNCHANGED <<db, counters>> /\ q.pc = "sign"
  BY DEF SignManifest
<1>2. CASE UNCHANGED issued
  BY <1>1, <1>2, PromiseStutter
<1>3. CASE ~UNCHANGED issued
  <2>1. PICK m : issued' = issued \cup {m} /\ m \notin issued
    BY <1>3 DEF SignManifest
  <2>2. /\ m.epoch = counters.epoch /\ m.gen = counters.gen
        /\ m.records = counters.records /\ m.records = Eligible(db)
        /\ m.key = db.key[m.device]
    BY <2>1, SignedManifest
  <2>3. m.device = q.device /\ db.key[q.device] = q.key
    <3>1. IsCurrent(r) /\ \E mode \in ModesFor(q.known, q.row) : issued' = issued \cup {Manifest(q, mode)}
      BY <1>3 DEF SignManifest
    <3>2. \E mode : m = Manifest(q, mode)
      BY <2>1, <3>1
    <3> QED  BY <3>1, <3>2 DEF Manifest, IsCurrent
  <2>4. m.device \in Devices /\ m.key # 0
    BY <1>1, <2>2, <2>3 DEF RunningInv, Running, NoDevice
  <2>5. m.device \in DOMAIN db.key
    BY <2>4 DEF Inv, Types, Database
  <2> DEFINE told == {Told(n) : n \in issued}
  <2>6. {Told(n) : n \in issued'} = told \cup {Told(m)}
    BY <2>1
  <2>7. Promise!Answer(m.device)
    BY <1>1, <2>1, <2>2, <2>4, <2>6 DEF Promise!Answer, Told
  <2> QED  BY <2>5, <2>7
<1> QED  BY <1>2, <1>3

\* What is committed changes what there is, and nothing that was said of it.
LEMMA CommitIsChange ==
    ASSUME CommitChange
    PROVE  Promise!Change
BY DEF CommitChange, Promise!Change, ContentOf, EntitlementOf

\* Every step of the server is a step of SyncPromise or none.
LEMMA PromiseStep == Inv /\ RunningInv /\ [Next]_vars => [Promise!Next]_(Promise!promiseVars)
<1> SUFFICES ASSUME Inv, RunningInv, [Next]_vars
             PROVE  Promise!Next \/ UNCHANGED Promise!promiseVars
  BY Zenon
<1>1. CASE UNCHANGED <<db, counters, issued>>
  BY <1>1, PromiseStutter
<1>2. CASE CommitChange
  BY <1>2, CommitIsChange DEF Promise!Next
<1>3. ASSUME NEW d \in Devices, BumpEpoch(d)
      PROVE  Promise!Next \/ UNCHANGED Promise!promiseVars
  BY <1>3, BumpIsRaise DEF Promise!Next
<1>4. ASSUME NEW r \in Requests, ResolveSnapshot(r)
      PROVE  Promise!Next \/ UNCHANGED Promise!promiseVars
  BY <1>4, ResolveIsCount DEF Promise!Next
<1>5. ASSUME NEW r \in Requests, SignManifest(r)
      PROVE  Promise!Next \/ UNCHANGED Promise!promiseVars
  BY <1>5, SignIsAnswer DEF Promise!Next
<1> QED
  BY <1>1, <1>2, <1>3, <1>4, <1>5
     DEF Next, vars, PublishOrWithdraw, ChangeAuthorization, RefreshDevice, RevokeDevice, Change,
         RollBackChange, RevokeAgain, LoseBump, StartRequest, BeginSnapshot, RetrySnapshot,
         LockSnapshot, Reauthenticate, DropRequest

\* At first nothing is published, counted or told.
LEMMA PromiseInit == Init => Promise!Init
<1> SUFFICES ASSUME Init PROVE Promise!Init
  OBVIOUS
<1>1. Eligible(db) = NotPublished
  BY DEF Init, Eligible, NotPublished, NotThere
<1>2. counters.records = NotPublished /\ counters.epoch = 0 /\ counters.gen = 0 /\ issued = {}
  BY DEF Init, NoRow
<1> QED  BY <1>1, <1>2 DEF Promise!Init

\* Whatever happens before, between and after its two transactions, a manifest
\* is for its device the answer of one moment (getLocalSyncManifest,
\* getLocalSyncSnapshot, issueLocalSyncLease).
THEOREM KeepsThePromise == Spec => ServesAsPromised
BY PromiseInit, PromiseStep, RunningInvariant, PTL
   DEF Spec, ServesAsPromised, Promise!Spec
=============================================================================
