------------------------ MODULE OptimisticReads_proofs ------------------------
(***************************************************************************)
(* Proofs about OptimisticReads.  The argument: every command makes a new  *)
(* version, so as long as the content revision is that of the start,       *)
(* nothing was edited since, and what the read has found so far is what    *)
(* there was to find at the start.  Only grants move, and about them the   *)
(* reads promise less: an export holds what was open when it was looked    *)
(* at, and a plan relies on two looks, the first at the last target and    *)
(* the second at the first being next to each other.                       *)
(***************************************************************************)
EXTENDS OptimisticReads, Integers, FiniteSetTheorems, WellFoundedInduction, SequenceTheorems, TLAPS

\* An asset's inventory did not, or did, let the principal in at some time.
Lacked(p, a) == \E i \in DOMAIN p : p[i][a] = 0
Held(p, a) == \E i \in DOMAIN p : p[i][a] # 0

Entry == [asset : Assets, version : Nat]
ExportRecord ==
  [at : {"list", "filter", "detail", "check", "between", "done"}, revision : [Assets -> Nat \X Nat],
   was : [Assets -> Nat], after : Nat, batch : SUBSET Assets, offered : SUBSET Assets,
   listed : SUBSET Assets, found : Nat, more : BOOLEAN, page : Seq(Entry), package : Seq(Entry)]
ExportRead == {r \in ExportRecord : r.at = "check" => r.listed # {}}
Target == [asset : Assets, version : Nat, grant : Inventories]
PlanRecord ==
  [at : {"heads", "access", "target", "grants", "again", "recheck", "done"},
   revision : [Assets -> Nat \X Nat], was : [Assets -> Nat], after : Nat,
   batch : UNION {[S -> Nat] : S \in SUBSET Assets}, todo : SUBSET Assets, got : SUBSET Target]
PlanRead == {r \in PlanRecord : r.at \in {"access", "target", "grants"} =>
                                   r.todo # {} /\ r.todo \subseteq DOMAIN r.batch}

\* The registry: each command makes a version, which becomes the current one.
RegistryOK ==
  /\ \A a \in Assets : \E S : versions[a] \in Seq(S)
  /\ versions = [a \in Assets |-> versions[a]] /\ head = [a \in Assets |-> head[a]]
  /\ \A a \in Assets : head[a].current = Len(versions[a]) /\ head[a].published \in Nat

-----------------------------------------------------------------------------
(* An export, as long as the revision is that of its start.                *)

AssetsOf(s) == {s[i].asset : i \in DOMAIN s}
Ascending(s) == \A i, j \in DOMAIN s : i < j => s[i].asset < s[j].asset
Before(S, T) == \A a \in S, b \in T : a < b
Entries(s, was, p) == \A i \in DOMAIN s : s[i].version = was[s[i].asset] /\ Held(p, s[i].asset)

Taken(r) == AssetsOf(r.package) \cup AssetsOf(r.page) \cup r.listed
\* The assets which the listing has passed.
Scanned(r, a) == a <= r.after \/ (r.at \in {"detail", "check", "done"} /\ ~r.more)

InOrder(r) ==
  /\ Ascending(r.package) /\ Ascending(r.page)
  /\ Before(AssetsOf(r.package), AssetsOf(r.page))
  /\ Before(AssetsOf(r.package) \cup AssetsOf(r.page), r.listed)
  /\ r.at \in {"list", "filter", "between"} \/ (r.at \in {"detail", "check"} /\ r.more) =>
       \A a \in Taken(r) : a <= r.after
Batched(r) ==
  /\ r.offered \subseteq r.batch /\ \A a \in r.batch : a > r.after
  /\ \A a \in Assets : /\ r.was[a] # NoVersion /\ a > r.after
                       /\ Cardinality(r.batch) < Batch \/ \E b \in r.batch : a <= b
                       => a \in r.offered
Complete(r, p) == \A a \in Assets : r.was[a] # NoVersion /\ Scanned(r, a) => a \in Taken(r) \/ Lacked(p, a)

ExportOK(r, p) ==
  /\ InOrder(r) /\ Complete(r, p)
  /\ Entries(r.package, r.was, p) /\ Entries(r.page, r.was, p)
  /\ r.at \in {"list", "filter", "between", "done"} => r.page = << >>
  /\ r.at \in {"between", "done"} => r.listed = {}
  /\ r.at = "done" => ~r.more
  /\ r.at = "filter" => Batched(r)
  /\ r.at = "check" => r.listed # {} /\ r.found = r.was[Lowest(r.listed)]

-----------------------------------------------------------------------------
(* A capture, as long as the revision is that of its start.                *)

Targets(r) == {x.asset : x \in r.got}
\* One entry for each target; the rest comes after them.
Listed(r) ==
  /\ \A x \in r.got : x.version = r.was[x.asset] /\ r.was[x.asset] # NoVersion
  /\ \A x, y \in r.got : x.asset = y.asset => x = y
  /\ r.at \in {"heads", "access", "target", "grants"} =>
       /\ Before(Targets(r), r.todo)
       /\ r.at = "heads" => r.todo = {} /\ \A a \in Targets(r) : a <= r.after
  /\ r.at \in {"access", "target", "grants"} =>
       /\ r.todo # {} /\ r.todo \subseteq DOMAIN r.batch
       /\ \A a \in DOMAIN r.batch : a > r.after /\ r.batch[a] = r.was[a] /\ r.was[a] # NoVersion
       /\ \A a \in Targets(r) : \E b \in DOMAIN r.batch : a <= b
       /\ \A a \in Assets : /\ r.was[a] # NoVersion
                            /\ \/ a <= r.after \/ Cardinality(DOMAIN r.batch) < Batch
                               \/ \E b \in DOMAIN r.batch : a <= b
                            => a \in Targets(r) \cup r.todo
  /\ r.at = "heads" => \A a \in Assets : r.was[a] # NoVersion /\ a <= r.after => a \in Targets(r)
  /\ r.at \in {"again", "recheck", "done"} =>
       /\ Targets(r) = {a \in Assets : r.was[a] # NoVersion}
       /\ r.todo \subseteq Targets(r) /\ Before(Targets(r) \ r.todo, r.todo)
  /\ r.at = "recheck" => r.todo # {}
  /\ r.at = "done" => r.todo = {}

\* What has been looked at a second time.
Checked(r) == {x \in r.got : x.asset \notin r.todo \/ (r.at = "recheck" /\ x.asset = Lowest(r.todo))}

\* The first look at the last target comes at moment n, at the others before;
\* the second look at the first target comes at moment m, at the others after.
FirstLook(r, p, n) ==
  \A x \in r.got : /\ \E i \in DOMAIN p : i <= n /\ p[i][x.asset] = x.grant
                   /\ x.asset = Highest(Targets(r)) => p[n][x.asset] = x.grant
SecondLook(r, p, m) ==
  \A x \in Checked(r) : /\ \E i \in DOMAIN p : m <= i /\ p[i][x.asset] = x.grant
                        /\ x.asset = Lowest(Targets(r)) => p[m][x.asset] = x.grant
Looked(r, p) ==
  \E n, m \in DOMAIN p :
    /\ FirstLook(r, p, n)
    /\ r.at \in {"again", "recheck", "done"} => n <= m /\ SecondLook(r, p, m)

PlanOK(r, p) == Listed(r) /\ Looked(r, p)

-----------------------------------------------------------------------------
Steady == Revision = read.revision

ReadOK ==
  /\ past \in Seq([Assets -> Inventories]) /\ past # << >>
  /\ read.at # "done" => past[Len(past)] = grants
  /\ \A a \in Assets : read.revision[a][1] <= head[a].current
  /\ read.at = "done" => Steady
Exporting == /\ read \in ExportRead /\ ReadOK
             /\ Steady => (\A a \in Assets : Offered(a) = read.was[a]) /\ ExportOK(read, past)
Planning == /\ read \in PlanRead /\ ReadOK
            /\ Steady => (\A a \in Assets : head[a].current = read.was[a]) /\ PlanOK(read, past)

Inv ==
  /\ RegistryOK /\ grants \in [Assets -> Inventories]
  /\ read = NoRead \/ Exporting \/ Planning

-----------------------------------------------------------------------------
(* Sets of assets.                                                         *)

LEMMA Numbers ==
    /\ Batch \in Nat \ {0} /\ Limit \in Nat \ {0} /\ MaxChanges \in Nat
    /\ Assets \subseteq Nat \ {0} /\ IsFiniteSet(Assets)
BY ReadsAssumption

LEMMA Finite ==
    ASSUME NEW S \in SUBSET Assets
    PROVE  /\ IsFiniteSet(S) /\ Cardinality(S) \in Nat
           /\ \A T \in SUBSET S : IsFiniteSet(T) /\ Cardinality(T) \in Nat
                                  /\ Cardinality(T) <= Cardinality(S)
                                  /\ (Cardinality(T) = Cardinality(S) => T = S)
<1>1. IsFiniteSet(S)
  BY Numbers, FS_Subset
<1>2. \A T \in SUBSET S : IsFiniteSet(T) /\ Cardinality(T) <= Cardinality(S)
                          /\ (Cardinality(T) = Cardinality(S) => T = S)
  BY <1>1, FS_Subset
<1> QED  BY <1>1, <1>2, FS_CardinalityType

LEMMA StrictPair ==
    ASSUME NEW S, NEW U \in SUBSET S, NEW V \in SUBSET U, V # U
    PROVE  <<V, U>> \in StrictSubsetOrdering(S)
BY DEF StrictSubsetOrdering

\* Of the parts that belong to the members of a set, one is minimal.
LEMMA Minimal ==
    ASSUME NEW S \in SUBSET Assets, S # {}, NEW part \in [S -> SUBSET S]
    PROVE  \E i \in S : \A j \in S : ~(part[j] \subseteq part[i] /\ part[j] # part[i])
<1> DEFINE T == {part[i] : i \in S}
<1>1. T \subseteq FiniteSubsetsOf(S) /\ T # {}
  BY Finite DEF FiniteSubsetsOf
<1>2. PICK U \in T : \A V \in T : ~(<<V, U>> \in StrictSubsetOrdering(S))
  <2> HIDE DEF T
  <2>1. IsWellFoundedOn(StrictSubsetOrdering(S), FiniteSubsetsOf(S))
    BY FS_StrictSubsetOrderingWellFounded
  <2> QED  BY <1>1, <2>1, WFMin, Zenon
<1>3. PICK i \in S : U = part[i]
  OBVIOUS
<1>4. ASSUME NEW j \in S, part[j] \subseteq part[i], part[j] # part[i] PROVE FALSE
  <2>1. part[i] \in SUBSET S /\ part[j] \in SUBSET part[i] /\ part[j] \in T
    BY <1>4
  <2>2. <<part[j], part[i]>> \in StrictSubsetOrdering(S)
    BY <1>4, <2>1, StrictPair
  <2> QED  BY <1>2, <1>3, <2>1, <2>2
<1> QED  BY <1>4

LEMMA LowestIs ==
    ASSUME NEW S \in SUBSET Assets, S # {}
    PROVE  Lowest(S) \in S /\ \A b \in S : Lowest(S) <= b
<1> DEFINE part == [i \in S |-> {j \in S : j < i}]
<1>1. S \subseteq Nat
  BY Numbers
<1>2. PICK i \in S : \A j \in S : ~(part[j] \subseteq part[i] /\ part[j] # part[i])
  <2>1. part \in [S -> SUBSET S]
    OBVIOUS
  <2> HIDE DEF part
  <2> QED  BY <2>1, Minimal
<1>3. ASSUME NEW j \in S, j < i PROVE FALSE
  <2>1. \A k \in part[j] : k \in part[i]
    BY <1>1, <1>3
  <2>2. j \in part[i] /\ j \notin part[j]
    BY <1>1, <1>3
  <2> HIDE DEF part
  <2> QED  BY <1>2, <2>1, <2>2
<1>4. \E a \in S : \A b \in S : a <= b
  BY <1>1, <1>3
<1> QED  BY <1>4 DEF Lowest

LEMMA HighestIs ==
    ASSUME NEW S \in SUBSET Assets, S # {}
    PROVE  Highest(S) \in S /\ \A b \in S : b <= Highest(S)
<1> DEFINE part == [i \in S |-> {j \in S : i < j}]
<1>1. S \subseteq Nat
  BY Numbers
<1>2. PICK i \in S : \A j \in S : ~(part[j] \subseteq part[i] /\ part[j] # part[i])
  <2>1. part \in [S -> SUBSET S]
    OBVIOUS
  <2> HIDE DEF part
  <2> QED  BY <2>1, Minimal
<1>3. ASSUME NEW j \in S, i < j PROVE FALSE
  <2>1. \A k \in part[j] : k \in part[i]
    BY <1>1, <1>3
  <2>2. j \in part[i] /\ j \notin part[j]
    BY <1>1, <1>3
  <2> HIDE DEF part
  <2> QED  BY <1>2, <2>1, <2>2
<1>4. \E a \in S : \A b \in S : b <= a
  BY <1>1, <1>3
<1> QED  BY <1>4 DEF Highest

\* What a page takes is closed downwards; a short page takes all.
LEMMA FirstOfIs ==
    ASSUME NEW S \in SUBSET Assets, NEW n \in Int
    PROVE  /\ FirstOf(n, S) \subseteq S
           /\ \A a \in FirstOf(n, S), b \in S : b <= a => b \in FirstOf(n, S)
           /\ n > 0 /\ S # {} => FirstOf(n, S) # {}
           /\ Cardinality(S) <= n => FirstOf(n, S) = S
           /\ Cardinality(FirstOf(n, S)) < n => FirstOf(n, S) = S
<1> DEFINE F == FirstOf(n, S)
           Under(a) == {b \in S : b < a}
<1>1. /\ S \subseteq Nat /\ F = {a \in S : Cardinality(Under(a)) < n}
      /\ \A a \in S : Under(a) \in SUBSET S /\ Under(a) # S
  BY Numbers DEF FirstOf
<1>2. \A a \in S : Cardinality(Under(a)) \in Nat /\ Cardinality(Under(a)) < Cardinality(S)
  BY <1>1, Finite
<1>3. \A a \in F, b \in S : b <= a => b \in F
  <2> SUFFICES ASSUME NEW a \in F, NEW b \in S, b <= a PROVE b \in F
    OBVIOUS
  <2>1. Under(b) \in SUBSET Under(a)
    <3>1. ASSUME NEW c \in Under(b) PROVE c \in Under(a)
      <4>1. c \in S /\ c < b /\ c \in Nat /\ b \in Nat /\ a \in Nat
        BY <1>1
      <4> QED  BY <4>1
    <3> QED  BY <3>1
  <2>2. Cardinality(Under(b)) <= Cardinality(Under(a))
    BY <1>1, <2>1, Finite
  <2> HIDE DEF Under, F
  <2> QED  BY <1>1, <1>2, <2>2
<1>4. Cardinality(S) <= n => F = S
  <2> HIDE DEF Under, F
  <2> QED  BY <1>1, <1>2, Finite
<1>5. ASSUME n > 0, S # {} PROVE F # {}
  <2>1. Lowest(S) \in S /\ \A b \in S : Lowest(S) <= b
    BY <1>5, LowestIs
  <2>2. Under(Lowest(S)) = {}
    <3>1. ASSUME NEW c \in Under(Lowest(S)) PROVE FALSE
      <4>1. c \in Nat /\ Lowest(S) \in Nat /\ c < Lowest(S) /\ Lowest(S) <= c
        BY <1>1, <2>1
      <4> QED  BY <4>1
    <3> QED  BY <3>1
  <2> HIDE DEF Under, F
  <2> QED  BY <1>1, <1>5, <2>1, <2>2, FS_EmptySet
<1>6. ASSUME Cardinality(F) < n PROVE F = S
  <2> SUFFICES ASSUME S \ F # {} PROVE FALSE
    BY <1>1
  <2> DEFINE a == Lowest(S \ F)
  <2>1. a \in S \ F /\ \A b \in S \ F : a <= b
    BY LowestIs
  <2>2. Under(a) \in SUBSET F
    <3>1. ASSUME NEW c \in Under(a), c \notin F PROVE FALSE
      <4>1. c \in Nat /\ a \in Nat /\ c < a /\ a <= c
        <5> HIDE DEF F, a
        <5> QED  BY <1>1, <2>1, <3>1
      <4> QED  BY <4>1
    <3> QED  BY <3>1
  <2>3. F \in SUBSET Assets
    BY <1>1
  <2>4. Cardinality(Under(a)) <= Cardinality(F) /\ Cardinality(F) \in Nat
    BY <2>2, <2>3, Finite
  <2> HIDE DEF Under, F, a
  <2> QED  BY <1>1, <1>2, <1>6, <2>1, <2>4
<1> QED  BY <1>1, <1>3, <1>4, <1>5, <1>6

-----------------------------------------------------------------------------
(* Sequences.                                                              *)

\* What grows by one keeps what it had.
LEMMA Grows ==
    ASSUME NEW S, NEW s \in Seq(S), NEW e \in S
    PROVE  /\ Append(s, e) \in Seq(S) /\ Append(s, e) # << >>
           /\ Len(s) \in Nat /\ DOMAIN s = 1 .. Len(s)
           /\ Len(Append(s, e)) = Len(s) + 1
           /\ DOMAIN Append(s, e) = 1 .. Len(s) + 1
           /\ \A i \in DOMAIN s : i \in DOMAIN Append(s, e) /\ Append(s, e)[i] = s[i]
           /\ Append(s, e)[Len(s) + 1] = e
<1>1. Len(s) \in Nat /\ DOMAIN s = 1 .. Len(s)
  BY LenProperties
<1>2. /\ Append(s, e) \in Seq(S) /\ Append(s, e) # << >>
      /\ Len(Append(s, e)) = Len(s) + 1
      /\ \A i \in 1 .. Len(s) : Append(s, e)[i] = s[i]
      /\ Append(s, e)[Len(s) + 1] = e
  BY AppendProperties
<1>3. DOMAIN Append(s, e) = 1 .. Len(s) + 1
  BY <1>2, LenProperties
<1> QED  BY <1>1, <1>2, <1>3

LEMMA EntriesAre ==
    ASSUME NEW s \in Seq(Entry)
    PROVE  AssetsOf(s) \subseteq Assets
<1>1. \A i \in DOMAIN s : s[i] \in Entry
  BY ElementOfSeq, LenProperties
<1> QED  BY <1>1 DEF AssetsOf, Entry

LEMMA EntriesGrow ==
    ASSUME NEW s \in Seq(Entry), NEW e \in Entry
    PROVE  /\ AssetsOf(Append(s, e)) = AssetsOf(s) \cup {e.asset}
           /\ Ascending(s) /\ (\A a \in AssetsOf(s) : a < e.asset) => Ascending(Append(s, e))
           /\ \A was, p : Entries(s, was, p) /\ e.version = was[e.asset] /\ Held(p, e.asset)
                            => Entries(Append(s, e), was, p)
<1> DEFINE t == Append(s, e)
           k == Len(s)
<1>1. /\ k \in Nat /\ DOMAIN s = 1 .. k /\ DOMAIN t = 1 .. k + 1
      /\ \A i \in 1 .. k : t[i] = s[i] /\ t[k + 1] = e
  BY Grows
<1>2. t[k + 1] = e
  BY Grows
<1> HIDE DEF t, k
<1>3. \A i \in DOMAIN t : (i \in DOMAIN s /\ t[i] = s[i]) \/ (i = k + 1 /\ t[i] = e)
  BY <1>1, <1>2
<1>4. AssetsOf(t) = AssetsOf(s) \cup {e.asset}
  <2>1. k + 1 \in DOMAIN t /\ \A i \in DOMAIN s : i \in DOMAIN t
    BY <1>1
  <2>2. \A i \in DOMAIN s : t[i] = s[i]
    BY <1>1
  <2> QED  BY <1>2, <1>3, <2>1, <2>2 DEF AssetsOf
<1>5. ASSUME Ascending(s), \A a \in AssetsOf(s) : a < e.asset PROVE Ascending(t)
  <2> SUFFICES ASSUME NEW i \in DOMAIN t, NEW j \in DOMAIN t, i < j
               PROVE  t[i].asset < t[j].asset
    BY DEF Ascending
  <2>1. i \in DOMAIN s /\ t[i] = s[i]
    BY <1>1, <1>3
  <2> QED  BY <1>3, <1>5, <2>1 DEF Ascending, AssetsOf
<1>6. \A was, p : Entries(s, was, p) /\ e.version = was[e.asset] /\ Held(p, e.asset)
                    => Entries(t, was, p)
  BY <1>3 DEF Entries
<1> QED  BY <1>4, <1>5, <1>6 DEF t

LEMMA EntriesJoin ==
    ASSUME NEW s \in Seq(Entry), NEW t \in Seq(Entry)
    PROVE  /\ s \o t \in Seq(Entry)
           /\ AssetsOf(s \o t) = AssetsOf(s) \cup AssetsOf(t)
           /\ Ascending(s) /\ Ascending(t) /\ Before(AssetsOf(s), AssetsOf(t)) => Ascending(s \o t)
           /\ \A was, p : Entries(s, was, p) /\ Entries(t, was, p) => Entries(s \o t, was, p)
<1> DEFINE u == s \o t
           k == Len(s)
           l == Len(t)
<1>1. /\ k \in Nat /\ l \in Nat /\ DOMAIN s = 1 .. k /\ DOMAIN t = 1 .. l
  BY LenProperties
<1>2. /\ u \in Seq(Entry) /\ DOMAIN u = 1 .. k + l
      /\ \A i \in 1 .. k + l : u[i] = IF i <= k THEN s[i] ELSE t[i - k]
  BY ConcatProperties, LenProperties
<1> HIDE DEF u, k, l
<1>3. \A i \in DOMAIN u : (i \in DOMAIN s /\ u[i] = s[i]) \/ (i - k \in DOMAIN t /\ i > k /\ u[i] = t[i - k])
  BY <1>1, <1>2
<1>4. /\ \A i \in DOMAIN s : i \in DOMAIN u /\ u[i] = s[i]
      /\ \A i \in DOMAIN t : i + k \in DOMAIN u /\ u[i + k] = t[i]
  BY <1>1, <1>2
<1>5. AssetsOf(u) = AssetsOf(s) \cup AssetsOf(t)
  <2>1. ASSUME NEW a \in AssetsOf(u) PROVE a \in AssetsOf(s) \cup AssetsOf(t)
    BY <1>3, <2>1 DEF AssetsOf
  <2>2. ASSUME NEW a \in AssetsOf(s) \cup AssetsOf(t) PROVE a \in AssetsOf(u)
    BY <1>4, <2>2 DEF AssetsOf
  <2> QED  BY <2>1, <2>2
<1>6. ASSUME Ascending(s), Ascending(t), Before(AssetsOf(s), AssetsOf(t)) PROVE Ascending(u)
  <2> SUFFICES ASSUME NEW i \in DOMAIN u, NEW j \in DOMAIN u, i < j
               PROVE  u[i].asset < u[j].asset
    BY DEF Ascending
  <2>1. i \in Nat /\ j \in Nat
    BY <1>1, <1>2
  <2>2. CASE i \in DOMAIN s /\ u[i] = s[i] /\ j \in DOMAIN s /\ u[j] = s[j]
    BY <1>6, <2>2 DEF Ascending
  <2>3. CASE i \in DOMAIN s /\ u[i] = s[i] /\ j - k \in DOMAIN t /\ u[j] = t[j - k]
    BY <1>6, <2>3 DEF Before, AssetsOf
  <2>4. CASE i - k \in DOMAIN t /\ u[i] = t[i - k] /\ j - k \in DOMAIN t /\ u[j] = t[j - k]
    <3>1. i - k < j - k
      BY <1>1, <2>1
    <3> QED  BY <1>6, <2>4, <3>1 DEF Ascending
  <2>5. i > k => ~(j \in DOMAIN s)
    BY <1>1, <2>1
  <2> QED  BY <1>3, <2>2, <2>3, <2>4, <2>5
<1>7. \A was, p : Entries(s, was, p) /\ Entries(t, was, p) => Entries(u, was, p)
  BY <1>3 DEF Entries
<1> QED  BY <1>2, <1>5, <1>6, <1>7 DEF u

LEMMA NoEntries ==
    /\ << >> \in Seq(Entry) /\ AssetsOf(<< >>) = {} /\ Ascending(<< >>)
    /\ \A was, p : Entries(<< >>, was, p)
BY EmptySeq DEF AssetsOf, Ascending, Entries

\* What was so at some time stays so when time goes on.
LEMMA TimeGoesOn ==
    ASSUME NEW p \in Seq([Assets -> Inventories]), NEW g \in [Assets -> Inventories]
    PROVE  /\ \A a : Lacked(p, a) => Lacked(Append(p, g), a)
           /\ \A a : Held(p, a) => Held(Append(p, g), a)
           /\ \A s, was : Entries(s, was, p) => Entries(s, was, Append(p, g))
<1>1. \A i \in DOMAIN p : i \in DOMAIN Append(p, g) /\ Append(p, g)[i] = p[i]
  BY Grows
<1> DEFINE q == Append(p, g)
<1> HIDE DEF q
<1>2. /\ \A a : Lacked(p, a) => Lacked(q, a)
      /\ \A a : Held(p, a) => Held(q, a)
  BY <1>1 DEF Lacked, Held, q
<1>3. \A s, was : Entries(s, was, p) => Entries(s, was, q)
  BY <1>2 DEF Entries
<1> QED  BY <1>2, <1>3 DEF q

\* What an asset's inventory is now.
LEMMA Now ==
    ASSUME NEW p \in Seq([Assets -> Inventories]), p # << >>, NEW a \in Assets
    PROVE  /\ Len(p) \in DOMAIN p /\ DOMAIN p = 1 .. Len(p) /\ Len(p) \in Nat
           /\ p[Len(p)][a] = 0 => Lacked(p, a)
           /\ p[Len(p)][a] # 0 => Held(p, a)
<1>1. Len(p) \in Nat \ {0} /\ DOMAIN p = 1 .. Len(p)
  BY LenProperties, EmptySeq
<1>2. Len(p) \in DOMAIN p
  BY <1>1
<1> QED  BY <1>1, <1>2 DEF Lacked, Held

-----------------------------------------------------------------------------
(* Editors and administrators.                                             *)

LEMMA Commits ==
    ASSUME RegistryOK, NEW a \in Assets, NEW snapshot, NEW published \in Nat,
           CommitVersion(a, snapshot, published)
    PROVE  /\ RegistryOK' /\ head'[a].current = head[a].current + 1 /\ head[a].current \in Nat
           /\ \A b \in Assets \ {a} : head'[b] = head[b]
<1>1. PICK S : versions[a] \in Seq(S)
  BY DEF RegistryOK
<1> DEFINE T == S \cup {snapshot}
           more == Append(versions[a], snapshot)
<1>2. versions[a] \in Seq(T)
  BY <1>1, SeqMonotonic
<1>3. more \in Seq(T) /\ Len(more) = Len(versions[a]) + 1 /\ Len(versions[a]) \in Nat
  BY <1>2, Grows
<1> DEFINE new == [current |-> NextVersion(a), published |-> published,
                   lifecycle |-> snapshot.lifecycle, status |-> snapshot.status,
                   surfaces |-> snapshot.surfaces]
<1>4. new.current = Len(versions[a]) + 1 /\ new.published = published
  BY DEF NextVersion
<1>5. versions' = [versions EXCEPT ![a] = more] /\ head' = [head EXCEPT ![a] = new]
  BY DEF CommitVersion
<1> HIDE DEF T, more, new
<1>6. /\ versions'[a] = more /\ head'[a] = new
      /\ \A b \in Assets \ {a} : versions'[b] = versions[b] /\ head'[b] = head[b]
      /\ versions' = [b \in Assets |-> versions'[b]] /\ head' = [b \in Assets |-> head'[b]]
  BY <1>5 DEF RegistryOK
<1>7. \A b \in Assets : \E U : versions'[b] \in Seq(U)
  BY <1>3, <1>6 DEF RegistryOK
<1>8. \A b \in Assets : head'[b].current = Len(versions'[b]) /\ head'[b].published \in Nat
  BY <1>3, <1>4, <1>6 DEF RegistryOK
<1> QED  BY <1>3, <1>4, <1>6, <1>7, <1>8 DEF RegistryOK

\* An edit is visible in the current version for ever.
LEMMA Edits ==
    ASSUME RegistryOK, NEW a \in Assets, Edit(a)
    PROVE  /\ RegistryOK' /\ head'[a].current = head[a].current + 1 /\ head[a].current \in Nat
           /\ \A b \in Assets \ {a} : head'[b] = head[b]
<1>1. head[a].published \in Nat /\ NoVersion \in Nat /\ NextVersion(a) \in Nat
  BY LenProperties DEF RegistryOK, NoVersion, NextVersion
<1>2. ASSUME NEW snapshot \in Inputs, CreateAsset(a, snapshot)
      PROVE  \E s, v : v \in Nat /\ CommitVersion(a, s, v)
  BY <1>1, <1>2 DEF CreateAsset
<1>3. ASSUME NEW snapshot \in Inputs, UpdateAsset(a, NoVersion, snapshot)
      PROVE  \E s, v : v \in Nat /\ CommitVersion(a, s, v)
  BY <1>1, <1>3 DEF UpdateAsset
<1>4. ASSUME NEW status \in Statuses, ReviewAsset(a, NoVersion, status)
      PROVE  \E s, v : v \in Nat /\ CommitVersion(a, s, v)
  BY <1>1, <1>4 DEF ReviewAsset
<1>5. ASSUME PublishAsset(a, NoVersion)
      PROVE  \E s, v : v \in Nat /\ CommitVersion(a, s, v)
  BY <1>1, <1>5 DEF PublishAsset
<1>6. ASSUME NEW target \in 1 .. MaxVersions, RestoreAssetVersion(a, NoVersion, target)
      PROVE  \E s, v : v \in Nat /\ CommitVersion(a, s, v)
  BY <1>1, <1>6 DEF RestoreAssetVersion
<1>7. \E s, v : v \in Nat /\ CommitVersion(a, s, v)
  BY <1>2, <1>3, <1>4, <1>5, <1>6 DEF Edit, Command
<1> QED  BY <1>7, Commits

LEMMA Unedited ==
    ASSUME RegistryOK, UNCHANGED <<versions, head>>
    PROVE  RegistryOK' /\ Revision' = Revision /\ \A a \in Assets : Offered(a)' = Offered(a)
BY DEF RegistryOK, Revision, Offered, Projection

LEMMA RevisionIs ==
    ASSUME RegistryOK
    PROVE  /\ Revision \in [Assets -> Nat \X Nat]
           /\ \A a \in Assets : Revision[a][1] = head[a].current /\ head[a].current \in Nat
                                /\ Offered(a) \in Nat
<1>1. \A a \in Assets : head[a].current \in Nat /\ head[a].published \in Nat
  BY LenProperties DEF RegistryOK
<1>2. \A a \in Assets : Projection(a) \in Nat
  BY <1>1 DEF Projection, NoVersion
<1>3. \A a \in Assets : Offered(a) \in Nat
  BY <1>2 DEF Offered, NoVersion
<1> QED  BY <1>1, <1>3 DEF Revision

\* What a read has found is still so at a later time.
LEMMA ExportWaits ==
    ASSUME NEW r, NEW p \in Seq([Assets -> Inventories]), NEW g \in [Assets -> Inventories], ExportOK(r, p)
    PROVE  ExportOK(r, Append(p, g))
<1>1. Complete(r, Append(p, g))
  BY TimeGoesOn DEF ExportOK, Complete
<1>2. /\ Entries(r.package, r.was, Append(p, g))
      /\ Entries(r.page, r.was, Append(p, g))
  BY TimeGoesOn DEF ExportOK
<1> QED  BY <1>1, <1>2 DEF ExportOK

LEMMA PlanWaits ==
    ASSUME NEW r, NEW p \in Seq([Assets -> Inventories]), NEW g \in [Assets -> Inventories], PlanOK(r, p)
    PROVE  PlanOK(r, Append(p, g))
<1> DEFINE q == Append(p, g)
<1>1. \A i \in DOMAIN p : i \in DOMAIN q /\ q[i] = p[i]
  BY Grows
<1> HIDE DEF q
<1>2. PICK n \in DOMAIN p, m \in DOMAIN p :
        /\ FirstLook(r, p, n)
        /\ r.at \in {"again", "recheck", "done"} => n <= m /\ SecondLook(r, p, m)
  BY DEF PlanOK, Looked
<1>3. n \in DOMAIN q /\ m \in DOMAIN q
  BY <1>1
<1>4. FirstLook(r, q, n)
  BY <1>1, <1>2 DEF FirstLook
<1>5. SecondLook(r, p, m) => SecondLook(r, q, m)
  BY <1>1 DEF SecondLook
<1>6. Looked(r, q)
  BY <1>2, <1>3, <1>4, <1>5 DEF Looked
<1> QED  BY <1>6 DEF PlanOK, q

\* A change between the steps of a read in progress.
LEMMA Meantime ==
    ASSUME Inv, ~Resting, Meanwhile, grants' \in [Assets -> Inventories]
    PROVE  /\ read' = read /\ past' = Append(past, grants') /\ past \in Seq([Assets -> Inventories])
           /\ past' \in Seq([Assets -> Inventories]) /\ past' # << >> /\ past'[Len(past')] = grants'
           /\ Exporting \/ Planning
<1>1. /\ past \in Seq([Assets -> Inventories]) /\ (Exporting \/ Planning)
      /\ read' = read /\ past' = Append(past, grants')
  BY DEF Inv, Exporting, Planning, ReadOK, Resting, NoRead, Meanwhile
<1>2. /\ past' \in Seq([Assets -> Inventories]) /\ past' # << >>
      /\ Len(past') = Len(past) + 1 /\ past'[Len(past) + 1] = grants'
  BY <1>1, Grows
<1> QED  BY <1>1, <1>2

LEMMA EditStep ==
    ASSUME Inv, NEW a \in Assets, Edit(a)
    PROVE  Inv'
<1>0. /\ RegistryOK' /\ head'[a].current = head[a].current + 1
      /\ \A b \in Assets \ {a} : head'[b] = head[b]
      /\ \A b \in Assets : head[b].current \in Nat
      /\ grants' = grants /\ grants \in [Assets -> Inventories] /\ Meanwhile
  BY Edits, RevisionIs DEF Edit, Inv
<1>1. CASE Resting
  BY <1>0, <1>1 DEF Inv, Meanwhile
<1>2. CASE ~Resting
  <2>1. /\ read' = read /\ past' \in Seq([Assets -> Inventories]) /\ past' # << >>
        /\ past'[Len(past')] = grants' /\ (Exporting \/ Planning)
    BY <1>0, <1>2, Meantime
  <2>2. read.revision \in [Assets -> Nat \X Nat] /\ \A b \in Assets : read.revision[b][1] <= head[b].current
    BY <2>1 DEF Exporting, Planning, ReadOK, ExportRead, ExportRecord, PlanRead, PlanRecord
  <2>3. \A b \in Assets : read.revision[b][1] <= head'[b].current
    BY <1>0, <2>2
  <2>4. read.revision[a][1] # head'[a].current
    BY <1>0, <2>2
  <2>5. ~Steady'
    BY <1>0, <2>1, <2>4 DEF Steady, Revision
  <2>6. ReadOK'
    BY <1>2, <2>1, <2>3 DEF ReadOK, Resting
  <2>7. Exporting' \/ Planning'
    BY <2>1, <2>5, <2>6 DEF Exporting, Planning
  <2> QED  BY <1>0, <2>7 DEF Inv
<1> QED  BY <1>1, <1>2

LEMMA ChangeGrantsStep ==
    ASSUME Inv, NEW a \in Assets, ChangeGrants(a)
    PROVE  Inv'
<1>0. UNCHANGED <<versions, head>> /\ grants' \in [Assets -> Inventories] /\ Meanwhile
  BY DEF ChangeGrants, Inv, registryVars
<1>1. RegistryOK' /\ Revision' = Revision /\ \A b \in Assets : Offered(b)' = Offered(b)
  BY <1>0, Unedited DEF Inv
<1>2. CASE Resting
  BY <1>0, <1>1, <1>2 DEF Inv, Meanwhile
<1>3. CASE ~Resting
  <2>1. /\ read' = read /\ past' = Append(past, grants') /\ past \in Seq([Assets -> Inventories])
        /\ past' \in Seq([Assets -> Inventories]) /\ past' # << >>
        /\ past'[Len(past')] = grants' /\ (Exporting \/ Planning)
    BY <1>0, <1>3, Meantime
  <2>2. ReadOK' /\ Steady' = Steady
    BY <1>0, <1>1, <1>3, <2>1 DEF Exporting, Planning, ReadOK, Resting, Steady
  <2>3. Exporting => Exporting'
    BY <1>0, <1>1, <2>1, <2>2, ExportWaits DEF Exporting
  <2>4. Planning => Planning'
    BY <1>0, <1>1, <2>1, <2>2, PlanWaits DEF Planning
  <2> QED  BY <1>0, <1>1, <2>1, <2>3, <2>4 DEF Inv
<1> QED  BY <1>2, <1>3

\* A refusal forgets the read.
LEMMA RefuseStep ==
    ASSUME Inv, Refuse, Unread
    PROVE  Inv'
BY Unedited DEF Inv, Refuse, Unread

-----------------------------------------------------------------------------
(* The steps of an export.                                                 *)

\* A step of a read that only looks: it keeps the start in mind.
LEMMA ExportGoesOn ==
    ASSUME Inv, Exporting, read.at # "done", Unread, NEW n \in ExportRead, Continue(n),
           n.revision = read.revision, n.was = read.was, n.at = "done" => Steady,
           Steady => ExportOK(n, past)
    PROVE  Inv'
<1>1. /\ RegistryOK' /\ Revision' = Revision /\ \A b \in Assets : Offered(b)' = Offered(b)
      /\ \A b \in Assets : head'[b].current = head[b].current
  BY Unedited DEF Inv, Unread
<1>2. read' = n /\ past' = past /\ grants' = grants /\ grants \in [Assets -> Inventories]
  BY DEF Continue, Unread, Inv
<1>3. Steady' = Steady
  BY <1>1, <1>2 DEF Steady
<1>4. ReadOK'
  BY <1>1, <1>2, <1>3 DEF Exporting, ReadOK
<1>5. Exporting'
  BY <1>1, <1>2, <1>3, <1>4 DEF Exporting
<1> QED  BY <1>1, <1>2, <1>5 DEF Inv

LEMMA PlanGoesOn ==
    ASSUME Inv, Planning, read.at # "done", Unread, NEW n \in PlanRead, Continue(n),
           n.revision = read.revision, n.was = read.was, n.at = "done" => Steady,
           Steady => PlanOK(n, past)
    PROVE  Inv'
<1>1. /\ RegistryOK' /\ Revision' = Revision
      /\ \A b \in Assets : head'[b].current = head[b].current
  BY Unedited DEF Inv, Unread
<1>2. read' = n /\ past' = past /\ grants' = grants /\ grants \in [Assets -> Inventories]
  BY DEF Continue, Unread, Inv
<1>3. Steady' = Steady
  BY <1>1, <1>2 DEF Steady
<1>4. ReadOK'
  BY <1>1, <1>2, <1>3 DEF Planning, ReadOK
<1>5. Planning'
  BY <1>1, <1>2, <1>3, <1>4 DEF Planning
<1> QED  BY <1>1, <1>2, <1>5 DEF Inv

\* The beginning of a read.
LEMMA Begins ==
    ASSUME Inv, NEW r, Begin(r), Unread, r.revision = Revision, r.at # "done"
    PROVE  /\ RegistryOK' /\ ReadOK' /\ read' = r /\ past' = <<grants>>
           /\ grants' = grants /\ grants \in [Assets -> Inventories]
           /\ \A a \in Assets : Offered(a)' = Offered(a) /\ head'[a].current = head[a].current
<1>1. /\ RegistryOK' /\ Revision' = Revision /\ \A b \in Assets : Offered(b)' = Offered(b)
      /\ \A b \in Assets : head'[b].current = head[b].current
  BY Unedited DEF Inv, Unread
<1>2. read' = r /\ past' = <<grants>> /\ grants' = grants /\ grants \in [Assets -> Inventories]
  BY DEF Begin, Unread, Inv
<1>3. past' \in Seq([Assets -> Inventories]) /\ past' # << >> /\ past'[Len(past')] = grants'
  BY <1>2
<1>4. \A a \in Assets : r.revision[a][1] = head[a].current /\ head[a].current \in Nat
  BY RevisionIs DEF Inv
<1>5. ReadOK'
  BY <1>1, <1>2, <1>3, <1>4 DEF ReadOK
<1> QED  BY <1>1, <1>2, <1>5

LEMMA StartExportStep ==
    ASSUME Inv, StartExport
    PROVE  Inv'
<1> DEFINE n == [at |-> "list", revision |-> Revision,
                 was |-> [a \in Assets |-> Offered(a)],
                 after |-> 0, batch |-> {}, offered |-> {}, listed |-> {}, found |-> NoVersion,
                 more |-> FALSE, page |-> << >>, package |-> << >>]
<1>1. Begin(n) /\ Unread
  BY DEF StartExport
<1>2. /\ Revision \in [Assets -> Nat \X Nat] /\ \A a \in Assets : Offered(a) \in Nat
      /\ NoVersion \in Nat
  BY RevisionIs DEF Inv, NoVersion
<1>3. n \in ExportRead
  BY <1>2, NoEntries DEF ExportRead, ExportRecord
<1>4. /\ n.at = "list" /\ n.revision = Revision /\ \A a \in Assets : n.was[a] = Offered(a)
      /\ n.after = 0 /\ n.listed = {} /\ n.page = << >> /\ n.package = << >>
  OBVIOUS
<1> HIDE DEF n
<1>5. /\ RegistryOK' /\ ReadOK' /\ read' = n /\ grants' = grants /\ grants \in [Assets -> Inventories]
      /\ \A a \in Assets : Offered(a)' = Offered(a)
  BY <1>1, <1>4, Begins
<1>6. ExportOK(n, past')
  <2>1. Taken(n) = {} /\ AssetsOf(n.package) = {} /\ AssetsOf(n.page) = {}
    BY <1>4, NoEntries DEF Taken
  <2>2. InOrder(n)
    BY <1>4, <2>1, NoEntries DEF InOrder, Before
  <2>3. \A a \in Assets : ~Scanned(n, a)
    <3>1. ASSUME NEW a \in Assets PROVE ~(a <= n.after)
      <4>1. a \in Nat \ {0}
        BY Numbers
      <4> QED  BY <1>4, <4>1
    <3> QED  BY <1>4, <3>1 DEF Scanned
  <2>4. Complete(n, past')
    BY <2>3 DEF Complete
  <2> QED  BY <1>4, <2>2, <2>4, NoEntries DEF ExportOK
<1>7. Exporting'
  BY <1>3, <1>4, <1>5, <1>6 DEF Exporting
<1> QED  BY <1>5, <1>7 DEF Inv

\* What the step of an export finds.
LEMMA AtExport ==
    ASSUME Inv, read.at \in {"list", "filter", "detail", "check", "between"}
    PROVE  /\ Exporting /\ read \in ExportRead
           /\ past \in Seq([Assets -> Inventories]) /\ past # << >> /\ past[Len(past)] = grants
           /\ Steady => (\A a \in Assets : Offered(a) = read.was[a]) /\ ExportOK(read, past)
           /\ \A a \in Assets : Offered(a) \in Nat
           /\ \A a \in Assets : a \in Nat \ {0}
<1>1. Exporting
  BY DEF Inv, NoRead, Planning, PlanRead, PlanRecord
<1> QED  BY <1>1, RevisionIs, Numbers DEF Exporting, ReadOK, Inv

LEMMA ListBatchStep ==
    ASSUME Inv, ListBatch
    PROVE  Inv'
<1> DEFINE P == {a \in Assets : a > read.after /\ Projection(a) # NoVersion}
           batch == FirstOf(Batch, P)
           n == [read EXCEPT !.at = "filter", !.batch = batch,
                              !.offered = {a \in batch : Offered(a) # NoVersion}]
<1>1. read.at = "list" /\ Continue(n) /\ Unread
  BY DEF ListBatch
<1>2. /\ Exporting /\ read \in ExportRead
      /\ Steady => (\A a \in Assets : Offered(a) = read.was[a]) /\ ExportOK(read, past)
  BY <1>1, AtExport
<1>3. /\ batch \subseteq P /\ P \in SUBSET Assets
      /\ \A a \in batch, b \in P : b <= a => b \in batch
      /\ Cardinality(batch) < Batch => batch = P
  <2>1. P \in SUBSET Assets /\ Batch \in Int
    BY Numbers
  <2> HIDE DEF P
  <2> QED  BY <2>1, FirstOfIs
<1>4. /\ n \in ExportRead /\ n.at = "filter" /\ n.revision = read.revision /\ n.was = read.was
      /\ n.batch = batch /\ n.offered = {a \in batch : Offered(a) # NoVersion}
      /\ n.after = read.after /\ n.listed = read.listed /\ n.page = read.page
      /\ n.package = read.package /\ n.more = read.more
  BY <1>2, <1>3 DEF ExportRead, ExportRecord
<1>5. \A a \in P : a > read.after
  OBVIOUS
<1>6. \A a \in Assets : a > read.after /\ Offered(a) # NoVersion => a \in P
  BY DEF Offered
<1> HIDE DEF n, batch, P
<1>7. ASSUME Steady PROVE ExportOK(n, past)
  <2>1. ExportOK(read, past) /\ \A a \in Assets : Offered(a) = n.was[a]
    BY <1>2, <1>4, <1>7
  <2>2. InOrder(n)
    BY <1>1, <1>4, <2>1 DEF ExportOK, InOrder, Taken
  <2>3. Complete(n, past)
    BY <1>1, <1>4, <2>1 DEF ExportOK, Complete, Taken, Scanned
  <2>4. Batched(n)
    <3>1. n.offered \subseteq n.batch /\ \A a \in n.batch : a > n.after
      BY <1>3, <1>4, <1>5
    <3>2. ASSUME NEW a \in Assets, n.was[a] # NoVersion, a > n.after,
                 Cardinality(n.batch) < Batch \/ \E b \in n.batch : a <= b
          PROVE  a \in n.offered
      <4>1. a \in P /\ Offered(a) # NoVersion
        BY <1>4, <1>6, <2>1, <3>2
      <4>2. a \in batch
        BY <1>3, <1>4, <3>2, <4>1
      <4> QED  BY <1>4, <4>1, <4>2
    <3> QED  BY <3>1, <3>2 DEF Batched
  <2> QED  BY <1>1, <1>4, <2>1, <2>2, <2>3, <2>4 DEF ExportOK
<1> QED  BY <1>1, <1>2, <1>4, <1>7, ExportGoesOn

LEMMA FilterBatchStep ==
    ASSUME Inv, FilterBatch
    PROVE  Inv'
<1> DEFINE permitted == {a \in read.offered : Access(a)}
           room == Limit - Cardinality(read.listed)
           fresh == FirstOf(room, permitted)
           listed == read.listed \cup fresh
           full == Cardinality(permitted) > room
           last == ~full /\ Cardinality(read.batch) < Batch
           at == IF full \/ last THEN "detail" ELSE "list"
           after == IF full THEN Highest(listed)
                    ELSE IF last THEN read.after ELSE Highest(read.batch)
           n == [read EXCEPT !.at = at, !.batch = {}, !.offered = {}, !.listed = listed,
                             !.more = full, !.after = after]
<1>1. read.at = "filter" /\ Continue(n) /\ Unread
  BY DEF FilterBatch
<1>2. /\ Exporting /\ read \in ExportRead
      /\ past \in Seq([Assets -> Inventories]) /\ past # << >> /\ past[Len(past)] = grants
      /\ Steady => ExportOK(read, past)
      /\ \A a \in Assets : a \in Nat
  BY <1>1, AtExport
<1>3. /\ read.offered \in SUBSET Assets /\ read.batch \in SUBSET Assets /\ read.listed \in SUBSET Assets
      /\ read.after \in Nat /\ permitted \in SUBSET Assets
  BY <1>2 DEF ExportRead, ExportRecord
<1>4. /\ Cardinality(permitted) \in Nat /\ Cardinality(read.batch) \in Nat
      /\ Cardinality(read.listed) \in Nat /\ room \in Int /\ Batch \in Nat \ {0}
      /\ read.listed = {} => room > 0
  <2>1. Cardinality(read.listed) \in Nat /\ (read.listed = {} => Cardinality(read.listed) = 0)
    BY <1>3, Finite, FS_EmptySet
  <2>2. Cardinality(permitted) \in Nat /\ Cardinality(read.batch) \in Nat
    <3> HIDE DEF permitted
    <3> QED  BY <1>3, Finite
  <2> QED  BY <2>1, <2>2, Numbers
<1>5. /\ fresh \subseteq permitted
      /\ \A a \in fresh, b \in permitted : b <= a => b \in fresh
      /\ room > 0 /\ permitted # {} => fresh # {}
      /\ Cardinality(permitted) <= room => fresh = permitted
  <2> HIDE DEF permitted, room
  <2> QED  BY <1>3, <1>4, FirstOfIs
<1>6. full => listed # {}
  <2> SUFFICES ASSUME full, read.listed = {} PROVE fresh # {}
    OBVIOUS
  <2>1. Cardinality(permitted) > 0
    BY <1>4
  <2>2. permitted # {}
    BY <2>1, FS_EmptySet
  <2> HIDE DEF fresh, permitted, room
  <2> QED  BY <1>4, <1>5, <2>2
<1>7. ~full /\ ~last => read.batch # {}
  <2> SUFFICES ASSUME Cardinality(read.batch) >= Batch, read.batch = {} PROVE FALSE
    BY <1>4
  <2> QED  BY <1>4, FS_EmptySet
<1>8. listed \in SUBSET Assets /\ permitted \subseteq read.offered
  BY <1>3, <1>5
<1>9. \A a \in read.offered : a \notin permitted => Lacked(past, a)
  <2> SUFFICES ASSUME NEW a \in read.offered, ~Access(a) PROVE Lacked(past, a)
    OBVIOUS
  <2>1. past[Len(past)][a] = 0
    BY <1>2 DEF Access
  <2> QED  BY <1>2, <1>3, <2>1, Now
<1>10. /\ n.at = IF full \/ last THEN "detail" ELSE "list"
       /\ n.listed = listed /\ n.more = full
       /\ n.after = IF full THEN Highest(listed) ELSE IF last THEN read.after ELSE Highest(read.batch)
       /\ n.revision = read.revision /\ n.was = read.was
       /\ n.page = read.page /\ n.package = read.package
       /\ n = [at |-> n.at, revision |-> read.revision, was |-> read.was, after |-> n.after,
               batch |-> {}, offered |-> {}, listed |-> listed, found |-> read.found,
               more |-> full, page |-> read.page, package |-> read.package]
  <2>1. at = IF full \/ last THEN "detail" ELSE "list"
    OBVIOUS
  <2>2. after = IF full THEN Highest(listed) ELSE IF last THEN read.after ELSE Highest(read.batch)
    OBVIOUS
  <2>3. n = [read EXCEPT !.at = at, !.batch = {}, !.offered = {}, !.listed = listed,
                         !.more = full, !.after = after]
    OBVIOUS
  <2> HIDE DEF n, at, after, listed, full, last, fresh, room, permitted
  <2>4. /\ n.at = at /\ n.listed = listed /\ n.more = full /\ n.after = after
        /\ n.revision = read.revision /\ n.was = read.was
        /\ n.page = read.page /\ n.package = read.package
        /\ n = [at |-> at, revision |-> read.revision, was |-> read.was, after |-> after,
                batch |-> {}, offered |-> {}, listed |-> listed, found |-> read.found,
                more |-> full, page |-> read.page, package |-> read.package]
    BY <1>2, <2>3 DEF ExportRead, ExportRecord
  <2> QED  BY <2>1, <2>2, <2>4
<1>11. full \in BOOLEAN /\ listed = read.listed \cup fresh
       /\ (~full => fresh = permitted) /\ (last => ~full)
       /\ (~full /\ last => Cardinality(read.batch) < Batch)
  BY <1>4, <1>5
<1> HIDE DEF n, at, after, last, full, listed, fresh, room, permitted
<1>12. /\ full => Highest(listed) \in listed /\ \A a \in listed : a <= Highest(listed)
       /\ ~full /\ ~last => Highest(read.batch) \in read.batch /\ \A a \in read.batch : a <= Highest(read.batch)
  BY <1>3, <1>6, <1>7, <1>8, HighestIs
<1>13. n.after \in Nat
  BY <1>2, <1>3, <1>8, <1>10, <1>12
<1>14. n \in ExportRead
  BY <1>2, <1>8, <1>10, <1>11, <1>13 DEF ExportRead, ExportRecord
<1>15. ASSUME Steady PROVE ExportOK(n, past)
  <2>1. /\ ExportOK(read, past) /\ InOrder(read) /\ Complete(read, past) /\ Batched(read)
        /\ read.page = << >> /\ AssetsOf(read.page) = {}
    BY <1>1, <1>2, <1>15, NoEntries DEF ExportOK
  <2>2. /\ \A a \in Taken(read) : a <= read.after
        /\ Taken(read) = AssetsOf(read.package) \cup read.listed
    BY <1>1, <2>1 DEF InOrder, Taken
  <2>3. Taken(n) = AssetsOf(read.package) \cup listed /\ Taken(n) = Taken(read) \cup fresh
    BY <1>10, <1>11, <2>1, <2>2 DEF Taken
  <2>4. \A a \in fresh : a \in read.batch /\ a \in read.offered /\ a > read.after /\ a \in Assets
    <3>1. \A a \in fresh : a \in permitted /\ a \in read.offered
      BY <1>5, <1>8
    <3>2. read.offered \subseteq read.batch /\ \A a \in read.batch : a > read.after
      BY <2>1 DEF Batched
    <3> QED  BY <1>3, <3>1, <3>2
  <2>5. AssetsOf(read.package) \subseteq Assets
    BY <1>2, EntriesAre DEF ExportRead, ExportRecord
  <2>6. Before(AssetsOf(read.package), listed)
    <3>1. Before(AssetsOf(read.package), read.listed)
      BY <2>1 DEF InOrder, Before
    <3>2. ASSUME NEW a \in AssetsOf(read.package), NEW b \in fresh PROVE a < b
      <4>1. a \in Nat /\ b \in Nat /\ a <= read.after /\ b > read.after
        BY <1>2, <2>2, <2>4, <2>5
      <4> QED  BY <1>3, <4>1
    <3> QED  BY <1>11, <3>1, <3>2 DEF Before
  <2>7. ASSUME n.at = "list" \/ n.more, NEW a \in Taken(n) PROVE a <= n.after
    <3>1. a \in Assets /\ a \in Nat
      BY <1>2, <1>8, <2>3, <2>5
    <3>2. CASE full
      <4>1. Highest(listed) \in listed /\ Highest(listed) \in Nat /\ n.after = Highest(listed)
        BY <1>2, <1>8, <1>10, <1>12, <3>2
      <4>2. CASE a \in listed
        BY <1>12, <3>2, <4>1, <4>2
      <4>3. CASE a \in AssetsOf(read.package)
        <5>1. a < Highest(listed)
          BY <2>6, <4>1, <4>3 DEF Before
        <5> QED  BY <3>1, <4>1, <5>1
      <4> QED  BY <2>3, <4>2, <4>3
    <3>3. CASE ~full
      <4>1. ~last
        BY <1>10, <2>7, <3>3
      <4>2. /\ Highest(read.batch) \in read.batch /\ \A b \in read.batch : b <= Highest(read.batch)
            /\ n.after = Highest(read.batch)
        BY <1>10, <1>12, <3>3, <4>1
      <4>3. n.after \in Nat /\ n.after > read.after
        BY <1>13, <2>1, <4>2 DEF Batched
      <4>4. CASE a \in Taken(read)
        <5>1. a <= read.after
          BY <2>2, <4>4
        <5> QED  BY <1>3, <3>1, <4>3, <5>1
      <4>5. CASE a \in fresh
        BY <2>4, <4>2, <4>5
      <4> QED  BY <2>3, <4>4, <4>5
    <3> QED  BY <3>2, <3>3
  <2>8. InOrder(n)
    <3>1. Ascending(n.package) /\ Ascending(n.page)
      BY <1>10, <2>1 DEF InOrder
    <3>2. /\ AssetsOf(n.page) = {} /\ AssetsOf(n.package) = AssetsOf(read.package) /\ n.listed = listed
      BY <1>10, <2>1
    <3>3. n.at \in {"list", "detail"}
      BY <1>10
    <3>4. /\ Before(AssetsOf(n.package), AssetsOf(n.page))
          /\ Before(AssetsOf(n.package) \cup AssetsOf(n.page), n.listed)
      BY <2>6, <3>2 DEF Before
    <3> QED  BY <2>7, <3>1, <3>3, <3>4 DEF InOrder
  <2>9. Complete(n, past)
    <3> SUFFICES ASSUME NEW a \in Assets, read.was[a] # NoVersion, Scanned(n, a), a \notin Taken(n)
                 PROVE  Lacked(past, a)
      BY <1>10 DEF Complete
    <3>1. a \in Nat /\ a \notin Taken(read) /\ a \notin fresh
      BY <1>2, <2>3
    <3>2. CASE a <= read.after
      BY <2>1, <3>1, <3>2 DEF Complete, Scanned
    <3>3. CASE ~(a <= read.after)
      <4>0. a > read.after
        BY <1>3, <3>1, <3>3
      <4>1. ASSUME full PROVE \E h \in fresh : a <= h
        <5>1. Highest(listed) \in listed /\ n.after = Highest(listed) /\ Highest(listed) \in Nat
          BY <1>2, <1>8, <1>10, <1>12, <4>1
        <5>2. a <= Highest(listed)
          BY <1>10, <4>1, <5>1 DEF Scanned
        <5>3. Highest(listed) \notin read.listed
          <6>1. ASSUME Highest(listed) \in read.listed PROVE FALSE
            <7>1. Highest(listed) <= read.after
              BY <2>2, <6>1
            <7> QED  BY <1>3, <3>1, <4>0, <5>1, <5>2, <7>1
          <6> QED  BY <6>1
        <5> QED  BY <1>11, <5>1, <5>2, <5>3
      <4>2. ASSUME ~full, ~last PROVE \E b \in read.batch : a <= b
        <5>1. a <= Highest(read.batch)
          BY <1>10, <4>2 DEF Scanned
        <5> QED  BY <1>12, <4>2, <5>1
      <4>3. Cardinality(read.batch) < Batch \/ \E b \in read.batch : a <= b
        BY <1>11, <2>4, <4>1, <4>2
      <4>4. a \in read.offered
        BY <2>1, <4>0, <4>3 DEF Batched
      <4>5. a \notin permitted
        <5>1. full => ~(a \in permitted)
          BY <1>5, <3>1, <4>1
        <5> QED  BY <1>11, <3>1, <5>1
      <4> QED  BY <1>9, <4>4, <4>5
    <3> QED  BY <3>2, <3>3
  <2>10. n.at \in {"list", "detail"}
    BY <1>10
  <2> QED  BY <1>10, <2>1, <2>8, <2>9, <2>10 DEF ExportOK
<1>16. n.at # "done"
  BY <1>10
<1> QED  BY <1>1, <1>2, <1>10, <1>14, <1>15, <1>16, ExportGoesOn

\* An asset is dropped from the page, or its package is found.
LEMMA ReadDetailStep ==
    ASSUME Inv, ReadDetail
    PROVE  Inv'
<1> DEFINE a == Lowest(read.listed)
<1>1. read.at = "detail" /\ read.listed # {} /\ Unread
  BY DEF ReadDetail
<1>2. /\ Exporting /\ read \in ExportRead
      /\ Steady => (\A b \in Assets : Offered(b) = read.was[b]) /\ ExportOK(read, past)
      /\ \A b \in Assets : Offered(b) \in Nat
  BY <1>1, AtExport
<1>3. a \in read.listed /\ read.listed \in SUBSET Assets /\ a \in Assets
  <2>1. read.listed \in SUBSET Assets
    BY <1>2 DEF ExportRead, ExportRecord
  <2> QED  BY <1>1, <2>1, LowestIs
<1>4. CASE Offered(a) = NoVersion
  <2> DEFINE n == [read EXCEPT !.listed = @ \ {a}]
  <2>1. Continue(n)
    BY <1>4 DEF ReadDetail
  <2> HIDE DEF a
  <2>2. /\ n \in ExportRead /\ n.at = read.at /\ n.revision = read.revision /\ n.was = read.was
        /\ n.listed = read.listed \ {a} /\ n.more = read.more /\ n.after = read.after
        /\ n.page = read.page /\ n.package = read.package
    BY <1>1, <1>2, <1>3 DEF ExportRead, ExportRecord
  <2> HIDE DEF n
  <2>3. ASSUME Steady PROVE ExportOK(n, past)
    <3>1. ExportOK(read, past) /\ read.was[a] = NoVersion
      BY <1>2, <1>3, <1>4, <2>3
    <3>2. \A b \in Taken(read) : b = a \/ b \in Taken(n)
      BY <2>2 DEF Taken
    <3>3. Taken(n) \subseteq Taken(read)
      BY <2>2 DEF Taken
    <3>4. InOrder(n)
      BY <1>1, <2>2, <3>1, <3>3 DEF ExportOK, InOrder, Before
    <3>5. Complete(n, past)
      BY <2>2, <3>1, <3>2 DEF ExportOK, Complete, Scanned
    <3> QED  BY <1>1, <2>2, <3>1, <3>4, <3>5 DEF ExportOK
  <2> QED  BY <1>1, <1>2, <2>1, <2>2, <2>3, ExportGoesOn
<1>5. CASE Offered(a) # NoVersion
  <2> DEFINE n == [read EXCEPT !.at = "check", !.found = Offered(a)]
  <2>1. Continue(n)
    BY <1>5 DEF ReadDetail
  <2>2. Offered(a) \in Nat
    BY <1>2, <1>3
  <2>3. /\ n \in ExportRead /\ n.at = "check" /\ n.revision = read.revision /\ n.was = read.was
        /\ n.listed = read.listed /\ n.more = read.more /\ n.after = read.after
        /\ n.page = read.page /\ n.package = read.package /\ n.found = Offered(a)
    <3> HIDE DEF a
    <3> QED  BY <1>1, <1>2, <2>2 DEF ExportRead, ExportRecord
  <2> HIDE DEF n
  <2>4. ASSUME Steady PROVE ExportOK(n, past)
    <3>1. ExportOK(read, past) /\ n.found = n.was[Lowest(n.listed)]
      BY <1>2, <1>3, <2>3, <2>4
    <3>2. Taken(n) = Taken(read)
      BY <2>3 DEF Taken
    <3>3. InOrder(n)
      BY <1>1, <2>3, <3>1, <3>2 DEF ExportOK, InOrder
    <3>4. Complete(n, past)
      BY <1>1, <2>3, <3>1, <3>2 DEF ExportOK, Complete, Scanned
    <3> QED  BY <1>1, <2>3, <3>1, <3>3, <3>4 DEF ExportOK
  <2> QED  BY <1>1, <1>2, <2>1, <2>3, <2>4, ExportGoesOn
<1> QED  BY <1>4, <1>5

\* The lowest of the page is added to it, or was looked at without access.
LEMMA CheckGrantStep ==
    ASSUME Inv, CheckGrant
    PROVE  Inv'
<1> DEFINE a == Lowest(read.listed)
           e == [asset |-> a, version |-> read.found]
           page == IF Access(a) THEN Append(read.page, e) ELSE read.page
           n == [read EXCEPT !.at = "detail", !.listed = @ \ {a}, !.found = NoVersion, !.page = page]
<1>1. read.at = "check" /\ Unread /\ Continue(n)
  BY DEF CheckGrant
<1>2. /\ Exporting /\ read \in ExportRead
      /\ past \in Seq([Assets -> Inventories]) /\ past # << >> /\ past[Len(past)] = grants
      /\ Steady => ExportOK(read, past)
      /\ \A b \in Assets : b \in Nat
  BY <1>1, AtExport
<1>3. read.listed \in SUBSET Assets /\ read.found \in Nat /\ read.page \in Seq(Entry) /\ NoVersion \in Nat
  BY <1>2 DEF ExportRead, ExportRecord, NoVersion
<1>4. /\ n.at = "detail" /\ n.revision = read.revision /\ n.was = read.was
      /\ n.listed = read.listed \ {a} /\ n.more = read.more /\ n.after = read.after
      /\ n.page = page /\ n.package = read.package
      /\ (page \in Seq(Entry) => n \in ExportRead)
  <2> HIDE DEF page, a
  <2> QED  BY <1>2, <1>3 DEF ExportRead, ExportRecord
<1> HIDE DEF n
<1>5. read.listed # {}
  BY <1>1, <1>2 DEF ExportRead
<1>6. a \in read.listed /\ a \in Assets /\ \A b \in read.listed : a <= b
  BY <1>3, <1>5, LowestIs
<1>7. e \in Entry /\ e.asset = a /\ e.version = read.found
  BY <1>3, <1>6 DEF Entry
<1>8. page \in Seq(Entry)
  <2> HIDE DEF e
  <2> QED  BY <1>3, <1>7, Grows
<1>9. ASSUME Steady PROVE ExportOK(n, past)
  <2>1. /\ ExportOK(read, past) /\ InOrder(read) /\ Complete(read, past) /\ read.found = read.was[a]
        /\ Entries(read.page, read.was, past) /\ Entries(read.package, read.was, past)
    BY <1>1, <1>2, <1>9 DEF ExportOK
  <2> HIDE DEF a, e, page
  <2>2. ASSUME NEW b \in n.listed PROVE a < b /\ b \in read.listed
    <3>1. b \in read.listed /\ b # a /\ a <= b
      BY <1>4, <1>6
    <3>2. a \in Nat /\ b \in Nat
      BY <1>2, <1>3, <1>6, <3>1
    <3> QED  BY <3>1, <3>2
  <2>3. \A b \in AssetsOf(read.page) : b < a
    BY <1>6, <2>1 DEF InOrder, Before
  <2>4. Before(AssetsOf(read.package) \cup AssetsOf(read.page) \cup {a}, n.listed)
    BY <2>1, <2>2 DEF InOrder, Before
  <2>5. CASE Access(a)
    <3>1. page = Append(read.page, e)
      BY <2>5 DEF page
    <3>2. Held(past, a)
      BY <1>2, <1>6, <2>5, Now DEF Access
    <3>3. /\ AssetsOf(page) = AssetsOf(read.page) \cup {a} /\ Ascending(page)
          /\ Entries(page, read.was, past)
      BY <1>3, <1>7, <2>1, <2>3, <3>1, <3>2, EntriesGrow DEF InOrder
    <3>4. Taken(n) = Taken(read)
      BY <1>4, <1>6, <3>3 DEF Taken
    <3>5. Before(AssetsOf(read.package), AssetsOf(page))
      BY <1>6, <2>1, <3>3 DEF InOrder, Before
    <3>6. InOrder(n)
      <4>1. Before(AssetsOf(n.package) \cup AssetsOf(n.page), n.listed)
        BY <1>4, <2>4, <3>3 DEF Before
      <4>2. Ascending(n.package) /\ Ascending(n.page) /\ Before(AssetsOf(n.package), AssetsOf(n.page))
        BY <1>4, <2>1, <3>3, <3>5 DEF InOrder
      <4>3. n.at \in {"list", "filter", "between"} \/ (n.at \in {"detail", "check"} /\ n.more) =>
              \A b \in Taken(n) : b <= n.after
        BY <1>1, <1>4, <2>1, <3>4 DEF InOrder
      <4> QED  BY <4>1, <4>2, <4>3 DEF InOrder
    <3>7. Complete(n, past)
      BY <1>1, <1>4, <2>1, <3>4 DEF Complete, Scanned
    <3>8. Entries(n.page, n.was, past) /\ Entries(n.package, n.was, past)
      BY <1>4, <2>1, <3>3
    <3> QED  BY <1>4, <3>6, <3>7, <3>8 DEF ExportOK
  <2>6. CASE ~Access(a)
    <3>1. page = read.page
      BY <2>6 DEF page
    <3>2. Lacked(past, a)
      BY <1>2, <1>6, <2>6, Now DEF Access
    <3>3. /\ Taken(n) \subseteq Taken(read)
          /\ \A b \in Taken(read) : b = a \/ b \in Taken(n)
      BY <1>4, <3>1 DEF Taken
    <3>4. InOrder(n)
      <4>1. Before(AssetsOf(n.package) \cup AssetsOf(n.page), n.listed)
        BY <1>4, <2>4, <3>1 DEF Before
      <4>2. Ascending(n.package) /\ Ascending(n.page) /\ Before(AssetsOf(n.package), AssetsOf(n.page))
        BY <1>4, <2>1, <3>1 DEF InOrder
      <4>3. n.at \in {"list", "filter", "between"} \/ (n.at \in {"detail", "check"} /\ n.more) =>
              \A b \in Taken(n) : b <= n.after
        BY <1>1, <1>4, <2>1, <3>3 DEF InOrder
      <4> QED  BY <4>1, <4>2, <4>3 DEF InOrder
    <3>5. Complete(n, past)
      BY <1>1, <1>4, <2>1, <3>2, <3>3 DEF Complete, Scanned
    <3> QED  BY <1>4, <2>1, <3>1, <3>4, <3>5 DEF ExportOK
  <2> QED  BY <2>5, <2>6
<1> QED  BY <1>1, <1>2, <1>4, <1>8, <1>9, ExportGoesOn

\* A page is answered only under the revision of the start.
LEMMA AnswerPageStep ==
    ASSUME Inv, AnswerPage
    PROVE  Inv'
<1>1. read.at = "detail" /\ read.listed = {} /\ Unread
  BY DEF AnswerPage
<1>2. CASE Revision # read.revision
  BY <1>1, <1>2, RefuseStep DEF AnswerPage
<1>3. CASE Revision = read.revision
  <2> DEFINE at == IF read.more THEN "between" ELSE "done"
             package == read.package \o read.page
             n == [read EXCEPT !.at = at, !.page = << >>, !.package = package]
  <2>1. Continue(n)
    BY <1>3 DEF AnswerPage
  <2>2. Exporting /\ read \in ExportRead /\ Steady /\ ExportOK(read, past)
    BY <1>1, <1>3, AtExport DEF Steady
  <2>3. read.page \in Seq(Entry) /\ read.package \in Seq(Entry) /\ read.more \in BOOLEAN
    BY <2>2 DEF ExportRead, ExportRecord
  <2>4. /\ package \in Seq(Entry) /\ AssetsOf(package) = AssetsOf(read.package) \cup AssetsOf(read.page)
        /\ Ascending(package) /\ Entries(package, read.was, past)
    BY <2>2, <2>3, EntriesJoin DEF ExportOK, InOrder
  <2>5. at \in {"between", "done"} /\ (at = "done" <=> ~read.more)
    BY <2>3
  <2> HIDE DEF package, at
  <2>6. /\ n \in ExportRead /\ n.at = at /\ n.revision = read.revision /\ n.was = read.was
        /\ n.listed = read.listed /\ n.more = read.more /\ n.after = read.after
        /\ n.page = << >> /\ n.package = package
    BY <2>2, <2>4, <2>5, NoEntries DEF ExportRead, ExportRecord
  <2> HIDE DEF n
  <2>7. Taken(n) = Taken(read) /\ AssetsOf(n.page) = {}
    BY <2>4, <2>6, NoEntries DEF Taken
  <2>8. InOrder(n)
    <3>1. Before(AssetsOf(n.package), AssetsOf(n.page)) /\ Before(AssetsOf(n.package) \cup AssetsOf(n.page), n.listed)
      BY <1>1, <2>6, <2>7 DEF Before
    <3>2. Ascending(n.package) /\ Ascending(n.page)
      BY <2>4, <2>6, NoEntries
    <3>3. read.more => \A a \in Taken(n) : a <= n.after
      BY <1>1, <2>2, <2>6, <2>7 DEF ExportOK, InOrder
    <3> QED  BY <2>5, <2>6, <3>1, <3>2, <3>3 DEF InOrder
  <2>9. Complete(n, past)
    <3>1. \A a \in Assets : Scanned(n, a) => Scanned(read, a)
      BY <1>1, <2>5, <2>6 DEF Scanned
    <3> QED  BY <2>2, <2>6, <2>7, <3>1 DEF ExportOK, Complete
  <2>10. ExportOK(n, past)
    BY <1>1, <2>4, <2>5, <2>6, <2>8, <2>9, NoEntries DEF ExportOK
  <2> QED  BY <1>1, <2>1, <2>2, <2>6, <2>10, ExportGoesOn
<1> QED  BY <1>2, <1>3

LEMMA NextPageStep ==
    ASSUME Inv, NextPage
    PROVE  Inv'
<1>1. read.at = "between" /\ Unread
  BY DEF NextPage
<1>2. CASE Revision # read.revision
  BY <1>1, <1>2, RefuseStep DEF NextPage
<1>3. CASE Revision = read.revision
  <2> DEFINE n == [read EXCEPT !.at = "list"]
  <2>1. Continue(n)
    BY <1>3 DEF NextPage
  <2>2. Exporting /\ read \in ExportRead /\ (Steady => ExportOK(read, past))
    BY <1>1, AtExport
  <2>3. /\ n \in ExportRead /\ n.at = "list" /\ n.revision = read.revision /\ n.was = read.was
        /\ n.listed = read.listed /\ n.more = read.more /\ n.after = read.after
        /\ n.page = read.page /\ n.package = read.package
    BY <2>2 DEF ExportRead, ExportRecord
  <2> HIDE DEF n
  <2>4. ASSUME ExportOK(read, past) PROVE ExportOK(n, past)
    <3>1. Taken(n) = Taken(read)
      BY <2>3 DEF Taken
    <3>2. InOrder(n)
      BY <1>1, <2>3, <2>4, <3>1 DEF ExportOK, InOrder
    <3>3. Complete(n, past)
      BY <1>1, <2>3, <2>4, <3>1 DEF ExportOK, Complete, Scanned
    <3> QED  BY <1>1, <2>3, <2>4, <3>2, <3>3 DEF ExportOK
  <2> QED  BY <1>1, <2>1, <2>2, <2>3, <2>4, ExportGoesOn
<1> QED  BY <1>2, <1>3

-----------------------------------------------------------------------------
(* The steps of a capture.                                                 *)

LEMMA AtPlan ==
    ASSUME Inv, read.at \in {"heads", "access", "target", "grants", "again", "recheck"}
    PROVE  /\ Planning /\ read \in PlanRead /\ read \in PlanRecord
           /\ past \in Seq([Assets -> Inventories]) /\ past # << >> /\ past[Len(past)] = grants
           /\ Steady => (\A a \in Assets : head[a].current = read.was[a]) /\ PlanOK(read, past)
           /\ \A a \in Assets : head[a].current \in Nat /\ a \in Nat \ {0}
           /\ grants \in [Assets -> Inventories]
<1>1. Planning
  BY DEF Inv, NoRead, Exporting, ExportRead, ExportRecord
<1> QED  BY <1>1, RevisionIs, Numbers DEF Planning, PlanRead, ReadOK, Inv

LEMMA StartPlanStep ==
    ASSUME Inv, StartPlan
    PROVE  Inv'
<1> DEFINE n == [at |-> "heads", revision |-> Revision,
                 was |-> [a \in Assets |-> head[a].current],
                 after |-> 0, batch |-> << >>, todo |-> {}, got |-> {}]
<1>1. Begin(n) /\ Unread
  BY DEF StartPlan
<1>2. /\ Revision \in [Assets -> Nat \X Nat] /\ \A a \in Assets : head[a].current \in Nat
  BY RevisionIs DEF Inv
<1>3. << >> \in UNION {[S -> Nat] : S \in SUBSET Assets}
  <2>1. << >> \in [{} -> Nat]
    OBVIOUS
  <2> QED  BY <2>1
<1>4. n \in PlanRead
  BY <1>2, <1>3 DEF PlanRead, PlanRecord
<1>5. /\ n.at = "heads" /\ n.revision = Revision /\ \A a \in Assets : n.was[a] = head[a].current
      /\ n.after = 0 /\ n.todo = {} /\ n.got = {}
  OBVIOUS
<1> HIDE DEF n
<1>6. /\ RegistryOK' /\ ReadOK' /\ read' = n /\ past' = <<grants>>
      /\ grants' = grants /\ grants \in [Assets -> Inventories]
      /\ \A a \in Assets : head'[a].current = head[a].current
  BY <1>1, <1>5, Begins
<1>7. Listed(n)
  <2>1. ASSUME NEW a \in Assets PROVE ~(a <= n.after)
    <3>1. a \in Nat \ {0}
      BY Numbers
    <3> QED  BY <1>5, <3>1
  <2> QED  BY <1>5, <2>1 DEF Listed, Targets, Before
<1>8. Looked(n, past')
  <2>1. 1 \in DOMAIN past'
    BY <1>6
  <2>2. FirstLook(n, past', 1)
    BY <1>5 DEF FirstLook
  <2> QED  BY <1>5, <2>1, <2>2 DEF Looked
<1>9. Planning'
  BY <1>4, <1>5, <1>6, <1>7, <1>8 DEF Planning, PlanOK
<1> QED  BY <1>6, <1>9 DEF Inv

\* A page of heads of which todo is left.
Paged(r) ==
  /\ \A x \in r.got : x.version = r.was[x.asset] /\ r.was[x.asset] # NoVersion
  /\ \A x, y \in r.got : x.asset = y.asset => x = y
  /\ Before(Targets(r), r.todo)
  /\ \A a \in DOMAIN r.batch : a > r.after /\ r.batch[a] = r.was[a] /\ r.was[a] # NoVersion
  /\ \A a \in Targets(r) : a <= r.after \/ \E b \in DOMAIN r.batch : a <= b
  /\ \A a \in Assets : /\ r.was[a] # NoVersion
                       /\ \/ a <= r.after \/ Cardinality(DOMAIN r.batch) < Batch
                          \/ \E b \in DOMAIN r.batch : a <= b
                       => a \in Targets(r) \cup r.todo

LEMMA Advances ==
    ASSUME NEW r \in PlanRecord, r.todo \subseteq DOMAIN r.batch
    PROVE  /\ Advance(r) \in PlanRead /\ Advance(r).at # "done"
           /\ Advance(r).revision = r.revision /\ Advance(r).was = r.was
           /\ Paged(r) => Listed(Advance(r))
           /\ \A p : \A n \in DOMAIN p :
                DOMAIN p \subseteq Nat /\ FirstLook(r, p, n) => Looked(Advance(r), p)
<1>1. /\ r.todo \in SUBSET Assets /\ r.got \in SUBSET Target /\ r.after \in Nat
      /\ DOMAIN r.batch \in SUBSET Assets /\ Targets(r) \in SUBSET Assets
      /\ \A a \in Assets : a \in Nat
  <2>1. /\ r.todo \in SUBSET Assets /\ r.got \in SUBSET Target /\ r.after \in Nat
        /\ r.batch \in UNION {[S -> Nat] : S \in SUBSET Assets}
    BY DEF PlanRecord
  <2>2. DOMAIN r.batch \in SUBSET Assets
    BY <2>1
  <2>3. Targets(r) \in SUBSET Assets
    BY <2>1 DEF Targets, Target
  <2> QED  BY <2>1, <2>2, <2>3, Numbers
<1>2. CASE r.todo # {}
  <2> DEFINE n == [r EXCEPT !.at = "access"]
  <2>1. Advance(r) = n
    BY <1>2 DEF Advance
  <2>2. /\ n \in PlanRead /\ n.at = "access" /\ n.revision = r.revision /\ n.was = r.was
        /\ n.got = r.got /\ n.todo = r.todo /\ n.batch = r.batch /\ n.after = r.after
    BY <1>2 DEF PlanRead, PlanRecord
  <2> HIDE DEF n
  <2>3. Targets(n) = Targets(r)
    BY <2>2 DEF Targets
  <2>4. ASSUME Paged(r) PROVE Listed(n)
    <3>1. PICK c \in r.todo : c \in DOMAIN r.batch /\ c > r.after /\ c \in Nat
      BY <1>1, <1>2, <2>4 DEF Paged
    <3>2. ASSUME NEW a \in Targets(r) PROVE \E b \in DOMAIN r.batch : a <= b
      <4>1. a \in Nat /\ (a <= r.after => a <= c)
        BY <1>1, <3>1
      <4> QED  BY <2>4, <3>1, <4>1 DEF Paged
    <3> QED  BY <1>2, <2>2, <2>3, <2>4, <3>2 DEF Paged, Listed
  <2>5. \A p : \A k \in DOMAIN p : FirstLook(r, p, k) => Looked(n, p)
    BY <2>2, <2>3 DEF FirstLook, Looked
  <2> QED  BY <2>1, <2>2, <2>4, <2>5
<1>3. CASE r.todo = {} /\ Cardinality(DOMAIN r.batch) < Batch
  <2> DEFINE n == [r EXCEPT !.at = "again", !.after = 0, !.batch = << >>,
                            !.todo = {x.asset : x \in r.got}]
  <2>1. Advance(r) = n
    BY <1>3 DEF Advance
  <2>2. << >> \in UNION {[S -> Nat] : S \in SUBSET Assets}
    <3>1. << >> \in [{} -> Nat]
      OBVIOUS
    <3> QED  BY <3>1
  <2>3. {x.asset : x \in r.got} = Targets(r)
    BY DEF Targets
  <2>4. /\ n \in PlanRead /\ n.at = "again" /\ n.revision = r.revision /\ n.was = r.was
        /\ n.got = r.got /\ n.todo = Targets(r)
    BY <1>1, <2>2, <2>3 DEF PlanRead, PlanRecord
  <2> HIDE DEF n
  <2>5. Targets(n) = Targets(r)
    BY <2>4 DEF Targets
  <2>6. ASSUME Paged(r) PROVE Listed(n)
    <3>1. Targets(r) = {a \in Assets : r.was[a] # NoVersion}
      <4>1. ASSUME NEW a \in Targets(r) PROVE a \in Assets /\ r.was[a] # NoVersion
        BY <1>1, <2>6 DEF Paged, Targets
      <4>2. ASSUME NEW a \in Assets, r.was[a] # NoVersion PROVE a \in Targets(r)
        BY <1>3, <2>6, <4>2 DEF Paged
      <4> QED  BY <4>1, <4>2
    <3> QED  BY <2>4, <2>5, <2>6, <3>1 DEF Paged, Listed, Before
  <2>7. Checked(n) = {}
    BY <2>4 DEF Checked, Targets
  <2>8. ASSUME NEW p, NEW k \in DOMAIN p, DOMAIN p \subseteq Nat, FirstLook(r, p, k) PROVE Looked(n, p)
    <3>1. FirstLook(n, p, k) /\ SecondLook(n, p, k) /\ k <= k
      BY <2>4, <2>5, <2>7, <2>8 DEF FirstLook, SecondLook
    <3> QED  BY <3>1 DEF Looked
  <2> QED  BY <2>1, <2>4, <2>6, <2>8
<1>4. CASE r.todo = {} /\ ~(Cardinality(DOMAIN r.batch) < Batch)
  <2> DEFINE h == Highest(DOMAIN r.batch)
             n == [r EXCEPT !.at = "heads", !.after = h]
  <2>1. Advance(r) = n
    BY <1>4 DEF Advance
  <2>2. DOMAIN r.batch # {}
    <3>1. ASSUME DOMAIN r.batch = {} PROVE FALSE
      <4>1. Cardinality(DOMAIN r.batch) = 0
        BY <3>1, FS_EmptySet
      <4> QED  BY <1>4, <4>1, Numbers
    <3> QED  BY <3>1
  <2>3. h \in DOMAIN r.batch /\ (\A b \in DOMAIN r.batch : b <= h) /\ h \in Nat
    <3>1. h \in DOMAIN r.batch /\ (\A b \in DOMAIN r.batch : b <= h)
      BY <1>1, <2>2, HighestIs
    <3> QED  BY <1>1, <3>1
  <2> HIDE DEF h
  <2>4. /\ n \in PlanRead /\ n.at = "heads" /\ n.revision = r.revision /\ n.was = r.was
        /\ n.got = r.got /\ n.todo = {} /\ n.after = h
    BY <1>4, <2>3 DEF PlanRead, PlanRecord
  <2> HIDE DEF n
  <2>5. Targets(n) = Targets(r)
    BY <2>4 DEF Targets
  <2>6. ASSUME Paged(r) PROVE Listed(n)
    <3>1. ASSUME NEW a \in Targets(r) PROVE a <= h
      <4>1. a \in Nat /\ h > r.after
        BY <1>1, <2>3, <2>6 DEF Paged
      <4>2. ASSUME NEW b \in DOMAIN r.batch, a <= b PROVE a <= h
        <5>1. b \in Nat /\ b <= h
          BY <1>1, <2>3
        <5> QED  BY <2>3, <4>1, <4>2, <5>1
      <4>3. a <= r.after => a <= h
        BY <1>1, <2>3, <4>1
      <4> QED  BY <2>6, <4>2, <4>3 DEF Paged
    <3>2. ASSUME NEW a \in Assets, r.was[a] # NoVersion, a <= h PROVE a \in Targets(r)
      BY <1>4, <2>3, <2>6, <3>2 DEF Paged
    <3> QED  BY <2>4, <2>5, <2>6, <3>1, <3>2 DEF Paged, Listed, Before
  <2>7. \A p : \A k \in DOMAIN p : FirstLook(r, p, k) => Looked(n, p)
    BY <2>4, <2>5 DEF FirstLook, Looked
  <2> QED  BY <2>1, <2>4, <2>6, <2>7
<1> QED  BY <1>2, <1>3, <1>4

LEMMA ListHeadsStep ==
    ASSUME Inv, ListHeads
    PROVE  Inv'
<1> DEFINE P == {a \in Assets : a > read.after /\ Exists(a)}
           rows == FirstOf(Batch, P)
           batch == [a \in rows |-> head[a].current]
           r == [read EXCEPT !.batch = batch, !.todo = rows]
<1>1. read.at = "heads" /\ Continue(Advance(r)) /\ Unread
  BY DEF ListHeads
<1>2. /\ Planning /\ read \in PlanRecord
      /\ Steady => (\A a \in Assets : head[a].current = read.was[a]) /\ PlanOK(read, past)
      /\ \A a \in Assets : head[a].current \in Nat /\ a \in Nat
      /\ past \in Seq([Assets -> Inventories])
  BY <1>1, AtPlan
<1>3. /\ rows \subseteq P /\ P \in SUBSET Assets
      /\ \A a \in rows, b \in P : b <= a => b \in rows
      /\ Cardinality(rows) < Batch => rows = P
  <2>1. P \in SUBSET Assets /\ Batch \in Int
    BY Numbers
  <2> HIDE DEF P
  <2> QED  BY <2>1, FirstOfIs
<1>4. /\ \A a \in P : a > read.after /\ head[a].current # NoVersion
      /\ \A a \in Assets : a > read.after /\ head[a].current # NoVersion => a \in P
  BY DEF Exists
<1> HIDE DEF P, rows
<1>5. /\ rows \in SUBSET Assets /\ batch \in UNION {[S -> Nat] : S \in SUBSET Assets}
      /\ DOMAIN batch = rows /\ \A a \in rows : batch[a] = head[a].current
  <2>1. batch \in [rows -> Nat]
    BY <1>2, <1>3
  <2> QED  BY <1>3, <2>1
<1> HIDE DEF batch
<1>6. /\ r \in PlanRecord /\ r.revision = read.revision /\ r.was = read.was
      /\ r.batch = batch /\ r.todo = rows /\ r.got = read.got /\ r.after = read.after
  BY <1>2, <1>5 DEF PlanRecord
<1>7. Targets(r) = Targets(read) /\ Targets(r) \subseteq Assets /\ read.after \in Nat
  <2>1. read.got \in SUBSET Target /\ read.after \in Nat
    BY <1>2 DEF PlanRecord
  <2> QED  BY <1>6, <2>1 DEF Targets, Target
<1> HIDE DEF r
<1>8. /\ Advance(r) \in PlanRead /\ Advance(r).at # "done"
      /\ Advance(r).revision = read.revision /\ Advance(r).was = read.was
      /\ Paged(r) => Listed(Advance(r))
      /\ \A n \in DOMAIN past :
            DOMAIN past \subseteq Nat /\ FirstLook(r, past, n) => Looked(Advance(r), past)
  BY <1>5, <1>6, Advances
<1>9. ASSUME Steady PROVE PlanOK(Advance(r), past)
  <2>1. /\ \A a \in Assets : head[a].current = read.was[a]
        /\ Listed(read) /\ Looked(read, past)
    BY <1>2, <1>9 DEF PlanOK
  <2>2. \A a \in Targets(r) : a <= read.after
    BY <1>1, <1>7, <2>1 DEF Listed
  <2>3. Before(Targets(r), rows)
    <3>1. ASSUME NEW a \in Targets(r), NEW b \in rows PROVE a < b
      <4>1. a \in Nat /\ b \in Nat /\ a <= read.after /\ b > read.after
        BY <1>2, <1>3, <1>4, <1>5, <1>7, <2>2
      <4> QED  BY <1>7, <4>1
    <3> QED  BY <3>1 DEF Before
  <2>4. ASSUME NEW a \in rows PROVE a > read.after /\ batch[a] = r.was[a] /\ r.was[a] # NoVersion
    BY <1>3, <1>4, <1>5, <1>6, <2>1
  <2>5. ASSUME NEW a \in Assets, r.was[a] # NoVersion,
               \/ a <= r.after \/ Cardinality(rows) < Batch
               \/ \E b \in rows : a <= b
        PROVE  a \in Targets(r) \cup rows
    <3>1. CASE a <= r.after
      BY <1>1, <1>6, <1>7, <2>1, <2>5, <3>1 DEF Listed
    <3>2. CASE ~(a <= r.after)
      <4>1. a > read.after
        BY <1>2, <1>6, <1>7, <3>2
      <4>2. a \in P
        BY <1>4, <1>6, <2>1, <2>5, <4>1
      <4> QED  BY <1>3, <2>5, <3>2, <4>2
    <3> QED  BY <3>1, <3>2
  <2>6. Paged(r)
    <3>1. /\ \A x \in r.got : x.version = r.was[x.asset] /\ r.was[x.asset] # NoVersion
          /\ \A x, y \in r.got : x.asset = y.asset => x = y
      BY <1>6, <2>1 DEF Listed
    <3> QED  BY <1>5, <1>6, <2>2, <2>3, <2>4, <2>5, <3>1 DEF Paged
  <2>7. PICK n \in DOMAIN past : FirstLook(read, past, n)
    BY <2>1 DEF Looked
  <2>8. FirstLook(r, past, n) /\ DOMAIN past \subseteq Nat
    <3>1. DOMAIN past = 1 .. Len(past) /\ Len(past) \in Nat
      BY <1>2, LenProperties
    <3> QED  BY <1>6, <1>7, <2>7, <3>1 DEF FirstLook
  <2> QED  BY <1>8, <2>6, <2>7, <2>8 DEF PlanOK
<1> QED  BY <1>1, <1>2, <1>8, <1>9, PlanGoesOn

\* Between the statements about one target, what was listed stays so.
LEMMA SameTarget ==
    ASSUME NEW r, NEW n, NEW p, PlanOK(r, p), r.at \in {"access", "target"}, n.at \in {"target", "grants"},
           n.was = r.was, n.after = r.after, n.batch = r.batch, n.todo = r.todo, n.got = r.got
    PROVE  PlanOK(n, p)
<1>1. Targets(n) = Targets(r)
  BY DEF Targets
<1>2. Listed(n)
  BY <1>1 DEF PlanOK, Listed
<1>3. Looked(n, p)
  BY <1>1 DEF PlanOK, Looked, FirstLook
<1> QED  BY <1>2, <1>3 DEF PlanOK

LEMMA CheckAccessStep ==
    ASSUME Inv, CheckAccess
    PROVE  Inv'
<1>1. read.at = "access" /\ Unread
  BY DEF CheckAccess
<1>2. CASE ~Access(Lowest(read.todo))
  BY <1>1, <1>2, RefuseStep DEF CheckAccess
<1>3. CASE Access(Lowest(read.todo))
  <2> DEFINE n == [read EXCEPT !.at = "target"]
  <2>1. Continue(n)
    BY <1>3 DEF CheckAccess
  <2>2. Planning /\ read \in PlanRead /\ (Steady => PlanOK(read, past))
    BY <1>1, AtPlan
  <2>3. /\ n \in PlanRead /\ n.at = "target" /\ n.revision = read.revision /\ n.was = read.was
        /\ n.after = read.after /\ n.batch = read.batch /\ n.todo = read.todo /\ n.got = read.got
    BY <1>1, <2>2 DEF PlanRead, PlanRecord
  <2> HIDE DEF n
  <2>4. Steady => PlanOK(n, past)
    BY <1>1, <2>2, <2>3, SameTarget
  <2> QED  BY <1>1, <2>1, <2>2, <2>3, <2>4, PlanGoesOn
<1> QED  BY <1>2, <1>3

LEMMA ReadTargetStep ==
    ASSUME Inv, ReadTarget
    PROVE  Inv'
<1> DEFINE same == head[Lowest(read.todo)].current = read.batch[Lowest(read.todo)]
<1>1. read.at = "target" /\ Unread
  BY DEF ReadTarget
<1>2. CASE ~same
  BY <1>1, <1>2, RefuseStep DEF ReadTarget
<1>3. CASE same
  <2> DEFINE n == [read EXCEPT !.at = "grants"]
  <2>1. Continue(n)
    BY <1>3 DEF ReadTarget
  <2>2. Planning /\ read \in PlanRead /\ (Steady => PlanOK(read, past))
    BY <1>1, AtPlan
  <2>3. /\ n \in PlanRead /\ n.at = "grants" /\ n.revision = read.revision /\ n.was = read.was
        /\ n.after = read.after /\ n.batch = read.batch /\ n.todo = read.todo /\ n.got = read.got
    BY <1>1, <2>2 DEF PlanRead, PlanRecord
  <2> HIDE DEF n
  <2>4. Steady => PlanOK(n, past)
    BY <1>1, <2>2, <2>3, SameTarget
  <2> QED  BY <1>1, <2>1, <2>2, <2>3, <2>4, PlanGoesOn
<1> QED  BY <1>2, <1>3

\* The first look at a target, which is the last one so far.
LEMMA ReadGrantsStep ==
    ASSUME Inv, ReadGrants
    PROVE  Inv'
<1> DEFINE a == Lowest(read.todo)
           e == [asset |-> a, version |-> read.batch[a], grant |-> grants[a]]
           r == [read EXCEPT !.todo = @ \ {a}, !.got = @ \cup {e}]
<1>1. read.at = "grants" /\ Continue(Advance(r)) /\ Unread
  BY DEF ReadGrants
<1>2. /\ Planning /\ read \in PlanRecord /\ read.todo # {} /\ read.todo \subseteq DOMAIN read.batch
      /\ Steady => PlanOK(read, past)
      /\ \A b \in Assets : b \in Nat
      /\ grants \in [Assets -> Inventories]
      /\ past \in Seq([Assets -> Inventories]) /\ past # << >> /\ past[Len(past)] = grants
  BY <1>1, AtPlan DEF PlanRead
<1>3. /\ read.todo \in SUBSET Assets /\ read.got \in SUBSET Target /\ read.after \in Nat
      /\ \A b \in DOMAIN read.batch : read.batch[b] \in Nat
  <2>1. read.todo \in SUBSET Assets /\ read.got \in SUBSET Target /\ read.after \in Nat
    BY <1>2 DEF PlanRecord
  <2>2. PICK S \in SUBSET Assets : read.batch \in [S -> Nat]
    BY <1>2 DEF PlanRecord
  <2> QED  BY <2>1, <2>2
<1>4. a \in read.todo /\ a \in Assets /\ \A b \in read.todo : a <= b
  BY <1>2, <1>3, LowestIs
<1>5. e \in Target /\ e.asset = a /\ e.version = read.batch[a] /\ e.grant = grants[a]
  <2>1. read.batch[a] \in Nat /\ grants[a] \in Inventories
    BY <1>2, <1>3, <1>4
  <2> HIDE DEF a
  <2> QED  BY <1>4, <2>1 DEF Target
<1> HIDE DEF a, e
<1>6. /\ r \in PlanRecord /\ r.revision = read.revision /\ r.was = read.was
      /\ r.batch = read.batch /\ r.todo = read.todo \ {a} /\ r.got = read.got \cup {e}
      /\ r.after = read.after
  BY <1>2, <1>3, <1>5 DEF PlanRecord
<1> HIDE DEF r
<1>7. Targets(r) = Targets(read) \cup {a} /\ Targets(read) \subseteq Assets
  BY <1>3, <1>5, <1>6 DEF Targets, Target
<1>8. /\ Advance(r) \in PlanRead /\ Advance(r).at # "done"
      /\ Advance(r).revision = read.revision /\ Advance(r).was = read.was
      /\ Paged(r) => Listed(Advance(r))
      /\ \A n \in DOMAIN past :
            DOMAIN past \subseteq Nat /\ FirstLook(r, past, n) => Looked(Advance(r), past)
  <2>1. r.todo \subseteq DOMAIN r.batch
    BY <1>2, <1>6
  <2> QED  BY <1>6, <2>1, Advances
<1>9. ASSUME Steady PROVE PlanOK(Advance(r), past)
  <2>1. Listed(read) /\ Looked(read, past)
    BY <1>2, <1>9 DEF PlanOK
  <2>2. /\ Before(Targets(read), read.todo)
        /\ \A b \in DOMAIN read.batch : b > read.after /\ read.batch[b] = read.was[b] /\ read.was[b] # NoVersion
        /\ \A b \in Targets(read) : \E c \in DOMAIN read.batch : b <= c
        /\ \A b \in Assets : /\ read.was[b] # NoVersion
                             /\ \/ b <= read.after \/ Cardinality(DOMAIN read.batch) < Batch
                                \/ \E c \in DOMAIN read.batch : b <= c
                             => b \in Targets(read) \cup read.todo
    BY <1>1, <2>1 DEF Listed
  <2>3. \A b \in Targets(read) : b < a /\ b # a
    <3>1. ASSUME NEW b \in Targets(read) PROVE b < a /\ b # a
      <4>1. b < a /\ b \in Nat /\ a \in Nat
        BY <1>2, <1>4, <1>7, <2>2 DEF Before
      <4> QED  BY <4>1
    <3> QED  BY <3>1
  <2>4. \A b \in r.todo : a < b
    <3>1. ASSUME NEW b \in r.todo PROVE a < b
      <4>1. a <= b /\ a # b /\ a \in Nat /\ b \in Nat
        BY <1>2, <1>3, <1>4, <1>6
      <4> QED  BY <4>1
    <3> QED  BY <3>1
  <2>5. Paged(r)
    <3>1. \A x \in r.got : x.version = r.was[x.asset] /\ r.was[x.asset] # NoVersion
      BY <1>2, <1>4, <1>5, <1>6, <2>1, <2>2 DEF Listed
    <3>2. \A x, y \in r.got : x.asset = y.asset => x = y
      <4>1. \A x \in read.got : x.asset # a
        BY <2>3 DEF Targets
      <4> QED  BY <1>5, <1>6, <2>1, <4>1 DEF Listed
    <3>3. Before(Targets(r), r.todo)
      BY <1>6, <1>7, <2>2, <2>4 DEF Before
    <3>4. \A b \in Targets(r) : \E c \in DOMAIN r.batch : b <= c
      <4>1. a \in DOMAIN r.batch /\ a <= a
        BY <1>2, <1>4, <1>6
      <4> QED  BY <1>6, <1>7, <2>2, <4>1
    <3>5. Targets(r) \cup r.todo = Targets(read) \cup read.todo
      BY <1>4, <1>6, <1>7
    <3> QED  BY <1>6, <2>2, <3>1, <3>2, <3>3, <3>4, <3>5 DEF Paged
  <2>6. PICK n \in DOMAIN past : FirstLook(read, past, n)
    BY <2>1 DEF Looked
  <2>7. /\ Len(past) \in DOMAIN past /\ \A i \in DOMAIN past : i <= Len(past)
        /\ DOMAIN past \subseteq Nat
    <3>1. Len(past) \in DOMAIN past /\ DOMAIN past = 1 .. Len(past) /\ Len(past) \in Nat
      BY <1>2, <1>4, Now
    <3> QED  BY <3>1
  <2>8. FirstLook(r, past, Len(past))
    <3>1. Targets(r) \in SUBSET Assets /\ Targets(r) # {}
      BY <1>4, <1>7
    <3>2. Highest(Targets(r)) \in Targets(r) /\ a <= Highest(Targets(r))
      BY <1>7, <3>1, HighestIs
    <3>3. Highest(Targets(r)) = a
      <4>1. ASSUME Highest(Targets(r)) # a PROVE FALSE
        <5>1. Highest(Targets(r)) \in Targets(read)
          BY <1>7, <3>2, <4>1
        <5>2. Highest(Targets(r)) < a /\ Highest(Targets(r)) \in Nat /\ a \in Nat
          BY <1>2, <1>4, <1>7, <2>3, <5>1
        <5> QED  BY <3>2, <5>2
      <4> QED  BY <4>1
    <3>4. ASSUME NEW x \in r.got
          PROVE  /\ \E i \in DOMAIN past : i <= Len(past) /\ past[i][x.asset] = x.grant
                 /\ x.asset = a => past[Len(past)][x.asset] = x.grant
      <4>1. CASE x = e
        BY <1>2, <1>5, <2>7, <4>1
      <4>2. CASE x \in read.got
        <5>1. x.asset # a
          BY <2>3, <4>2 DEF Targets
        <5>2. \E i \in DOMAIN past : past[i][x.asset] = x.grant
          BY <2>6, <4>2 DEF FirstLook
        <5> QED  BY <2>7, <5>1, <5>2
      <4> QED  BY <1>6, <4>1, <4>2
    <3> QED  BY <3>3, <3>4 DEF FirstLook
  <2> QED  BY <1>8, <2>5, <2>7, <2>8 DEF PlanOK
<1> QED  BY <1>1, <1>2, <1>8, <1>9, PlanGoesOn

\* The second look at a target, which is the first one or a later one.
LEMMA RereadGrantsStep ==
    ASSUME Inv, RereadGrants
    PROVE  Inv'
<1> DEFINE a == Lowest(read.todo)
           x == CHOOSE y \in read.got : y.asset = a
           n == [read EXCEPT !.at = "recheck"]
<1>1. read.at = "again" /\ read.todo # {} /\ Unread
  BY DEF RereadGrants
<1>2. CASE ~Unchanged(x)
  BY <1>1, <1>2, RefuseStep DEF RereadGrants
<1>3. CASE Unchanged(x)
  <2>1. Continue(n)
    BY <1>3 DEF RereadGrants
  <2>2. /\ Planning /\ read \in PlanRecord /\ (Steady => PlanOK(read, past))
        /\ \A b \in Assets : b \in Nat
        /\ past \in Seq([Assets -> Inventories]) /\ past # << >> /\ past[Len(past)] = grants
    BY <1>1, AtPlan
  <2>3. read.todo \in SUBSET Assets /\ read.got \in SUBSET Target
    BY <2>2 DEF PlanRecord
  <2>4. a \in read.todo /\ a \in Assets /\ \A b \in read.todo : a <= b
    BY <1>1, <2>3, LowestIs
  <2>5. /\ n \in PlanRead /\ n.at = "recheck" /\ n.revision = read.revision /\ n.was = read.was
        /\ n.todo = read.todo /\ n.got = read.got
    BY <2>2 DEF PlanRead, PlanRecord
  <2> HIDE DEF n
  <2>6. ASSUME Steady PROVE PlanOK(n, past)
    <3>1. Listed(read) /\ Looked(read, past)
      BY <2>2, <2>6 DEF PlanOK
    <3>2. /\ Targets(read) = {b \in Assets : read.was[b] # NoVersion}
          /\ read.todo \subseteq Targets(read) /\ Before(Targets(read) \ read.todo, read.todo)
          /\ \A y, z \in read.got : y.asset = z.asset => y = z
      BY <1>1, <3>1 DEF Listed
    <3>3. x \in read.got /\ x.asset = a
      <4>1. \E y \in read.got : y.asset = a
        <5> HIDE DEF a
        <5> QED  BY <2>4, <3>2 DEF Targets
      <4> HIDE DEF a
      <4> QED  BY <4>1
    <3>4. grants[a] = x.grant
      <4> HIDE DEF a, x
      <4> QED  BY <1>3, <3>3 DEF Unchanged
    <3> HIDE DEF a, x
    <3>5. a = Lowest(read.todo)
      BY DEF a
    <3>6. Targets(n) = Targets(read)
      BY <2>5 DEF Targets
    <3>7. Listed(n)
      BY <1>1, <2>5, <3>1, <3>6 DEF Listed
    <3>8. /\ Len(past) \in DOMAIN past /\ \A i \in DOMAIN past : i <= Len(past)
          /\ \A i \in DOMAIN past : i \in Nat /\ i <= i
      <4>1. Len(past) \in DOMAIN past /\ DOMAIN past = 1 .. Len(past) /\ Len(past) \in Nat
        BY <2>2, <2>4, Now
      <4> QED  BY <4>1
    <3>9. PICK k \in DOMAIN past, m \in DOMAIN past : FirstLook(read, past, k) /\ k <= m /\ SecondLook(read, past, m)
      BY <1>1, <3>1 DEF Looked
    <3>10. FirstLook(n, past, k)
      BY <2>5, <3>6, <3>9 DEF FirstLook
    <3>11. \A y \in Checked(n) : y = x \/ (y \in Checked(read) /\ y.asset \in Targets(read) \ read.todo)
      <4>1. ASSUME NEW y \in Checked(n), y # x PROVE y \in read.got /\ y.asset \notin read.todo
        BY <2>5, <3>2, <3>3, <3>5, <4>1 DEF Checked
      <4> QED  BY <4>1 DEF Checked, Targets
    <3>12. past[Len(past)][x.asset] = x.grant
      BY <2>2, <3>3, <3>4
    <3>13. Lowest(Targets(read)) \in Targets(read) /\ \A b \in Targets(read) : Lowest(Targets(read)) <= b
      BY <2>4, <3>2, LowestIs
    <3>14. CASE a = Lowest(Targets(read))
      <4>1. Targets(read) \ read.todo = {}
        <5>1. ASSUME NEW b \in Targets(read) \ read.todo PROVE FALSE
          <6>1. b < a /\ a <= b /\ a \in Nat /\ b \in Nat
            BY <2>2, <2>4, <3>2, <3>13, <3>14, <5>1 DEF Before
          <6> QED  BY <6>1
        <5> QED  BY <5>1
      <4>2. SecondLook(n, past, Len(past))
        BY <3>8, <3>11, <3>12, <4>1 DEF SecondLook
      <4> QED  BY <2>5, <3>7, <3>8, <3>9, <3>10, <4>2 DEF PlanOK, Looked
    <3>15. CASE a # Lowest(Targets(read))
      <4>1. SecondLook(n, past, m)
        BY <3>3, <3>6, <3>8, <3>9, <3>11, <3>12, <3>15 DEF SecondLook
      <4> QED  BY <2>5, <3>7, <3>9, <3>10, <4>1 DEF PlanOK, Looked
    <3> QED  BY <3>14, <3>15
  <2> QED  BY <1>1, <2>1, <2>2, <2>5, <2>6, PlanGoesOn
<1> QED  BY <1>2, <1>3

LEMMA RecheckAccessStep ==
    ASSUME Inv, RecheckAccess
    PROVE  Inv'
<1> DEFINE a == Lowest(read.todo)
           n == [read EXCEPT !.at = "again", !.todo = @ \ {a}]
<1>1. read.at = "recheck" /\ Unread
  BY DEF RecheckAccess
<1>2. CASE ~Access(a)
  BY <1>1, <1>2, RefuseStep DEF RecheckAccess
<1>3. CASE Access(a)
  <2>1. Continue(n)
    BY <1>3 DEF RecheckAccess
  <2>2. /\ Planning /\ read \in PlanRecord /\ (Steady => PlanOK(read, past))
        /\ \A b \in Assets : b \in Nat
    BY <1>1, AtPlan
  <2>3. read.todo \in SUBSET Assets /\ read.got \in SUBSET Target
    BY <2>2 DEF PlanRecord
  <2>4. a = Lowest(read.todo) /\ (read.todo # {} => a \in read.todo /\ \A b \in read.todo : a <= b)
    BY <2>3, LowestIs
  <2> HIDE DEF a
  <2>5. /\ n \in PlanRead /\ n.at = "again" /\ n.revision = read.revision /\ n.was = read.was
        /\ n.todo = read.todo \ {a} /\ n.got = read.got
    BY <2>2, <2>3 DEF PlanRead, PlanRecord
  <2> HIDE DEF n
  <2>6. ASSUME Steady PROVE PlanOK(n, past)
    <3>1. Listed(read) /\ Looked(read, past)
      BY <2>2, <2>6 DEF PlanOK
    <3>2. /\ read.todo # {}
          /\ Targets(read) = {b \in Assets : read.was[b] # NoVersion}
          /\ read.todo \subseteq Targets(read) /\ Before(Targets(read) \ read.todo, read.todo)
      BY <1>1, <3>1 DEF Listed
    <3>3. Targets(n) = Targets(read)
      BY <2>5 DEF Targets
    <3>4. Before(Targets(n) \ n.todo, n.todo)
      <4>1. ASSUME NEW b \in n.todo PROVE a < b /\ b \in read.todo
        <5>1. a <= b /\ a # b /\ a \in Nat /\ b \in Nat /\ b \in read.todo
          BY <2>2, <2>3, <2>4, <2>5, <3>2
        <5> QED  BY <5>1
      <4>2. Targets(n) \ n.todo \subseteq (Targets(read) \ read.todo) \cup {a}
        BY <2>5, <3>3
      <4> QED  BY <3>2, <4>1, <4>2 DEF Before
    <3>5. Listed(n)
      BY <2>5, <3>1, <3>2, <3>3, <3>4 DEF Listed
    <3>6. Checked(n) = Checked(read)
      BY <1>1, <2>4, <2>5, <3>2 DEF Checked
    <3>7. Looked(n, past)
      BY <1>1, <2>5, <3>1, <3>3, <3>6 DEF Looked, FirstLook, SecondLook
    <3> QED  BY <3>5, <3>7 DEF PlanOK
  <2> QED  BY <1>1, <2>1, <2>2, <2>5, <2>6, PlanGoesOn
<1> QED  BY <1>2, <1>3

LEMMA AnswerPlanStep ==
    ASSUME Inv, AnswerPlan
    PROVE  Inv'
<1>1. read.at = "again" /\ read.todo = {} /\ Unread
  BY DEF AnswerPlan
<1>2. CASE Revision # read.revision
  BY <1>1, <1>2, RefuseStep DEF AnswerPlan
<1>3. CASE Revision = read.revision
  <2> DEFINE n == [read EXCEPT !.at = "done"]
  <2>1. Continue(n)
    BY <1>3 DEF AnswerPlan
  <2>2. Planning /\ read \in PlanRecord /\ Steady /\ PlanOK(read, past)
    BY <1>1, <1>3, AtPlan DEF Steady
  <2>3. /\ n \in PlanRead /\ n.at = "done" /\ n.revision = read.revision /\ n.was = read.was
        /\ n.todo = read.todo /\ n.got = read.got
    BY <2>2 DEF PlanRead, PlanRecord
  <2> HIDE DEF n
  <2>4. Targets(n) = Targets(read) /\ Checked(n) = Checked(read)
    BY <1>1, <2>3 DEF Targets, Checked
  <2>5. Listed(n)
    BY <1>1, <2>2, <2>3, <2>4 DEF PlanOK, Listed
  <2>6. Looked(n, past)
    BY <1>1, <2>2, <2>3, <2>4 DEF PlanOK, Looked, FirstLook, SecondLook
  <2> QED  BY <1>1, <2>1, <2>2, <2>3, <2>5, <2>6, PlanGoesOn DEF PlanOK
<1> QED  BY <1>2, <1>3

-----------------------------------------------------------------------------
(* The theorems.                                                           *)

LEMMA InvInit == Init => Inv
<1> SUFFICES ASSUME Init PROVE Inv
  OBVIOUS
<1>1. /\ versions = [a \in Assets |-> << >>] /\ head = [a \in Assets |-> NoHead]
      /\ grants = [a \in Assets |-> 0] /\ read = NoRead
  BY DEF Init, RegistryInit
<1>2. \A a \in Assets : versions[a] = << >> /\ << >> \in Seq({}) /\ Len(<< >>) = 0
  BY <1>1, EmptySeq
<1>3. \A a \in Assets : head[a].current = 0 /\ head[a].published = 0
  BY <1>1 DEF NoHead, NoVersion
<1>4. RegistryOK
  BY <1>1, <1>2, <1>3 DEF RegistryOK
<1> QED  BY <1>1, <1>4 DEF Inv, Inventories

LEMMA InvNext == Inv /\ [Next]_vars => Inv'
<1> SUFFICES ASSUME Inv, [Next]_vars PROVE Inv'
  OBVIOUS
<1>1. ASSUME NEW a \in Assets, Edit(a) PROVE Inv'
  BY <1>1, EditStep
<1>2. ASSUME NEW a \in Assets, ChangeGrants(a) PROVE Inv'
  BY <1>2, ChangeGrantsStep
<1>3. CASE ExportStep
  BY <1>3, StartExportStep, ListBatchStep, FilterBatchStep, ReadDetailStep, CheckGrantStep,
     AnswerPageStep, NextPageStep DEF ExportStep
<1>4. CASE PlanStep
  BY <1>4, StartPlanStep, ListHeadsStep, CheckAccessStep, ReadTargetStep, ReadGrantsStep,
     RereadGrantsStep, RecheckAccessStep, AnswerPlanStep DEF PlanStep
<1>5. CASE Drop
  BY <1>5, RefuseStep DEF Drop
<1>6. CASE UNCHANGED vars
  <2>1. /\ RegistryOK' /\ Revision' = Revision /\ \A a \in Assets : Offered(a)' = Offered(a)
        /\ UNCHANGED <<head, grants, read, past>>
    BY <1>6, Unedited DEF Inv, vars
  <2>2. ReadOK <=> ReadOK'
    BY <2>1 DEF ReadOK, Steady
  <2>3. Exporting => Exporting'
    BY <2>1, <2>2 DEF Exporting, Steady
  <2>4. Planning => Planning'
    BY <2>1, <2>2 DEF Planning, Steady
  <2> QED  BY <2>1, <2>3, <2>4 DEF Inv
<1> QED  BY <1>1, <1>2, <1>3, <1>4, <1>5, <1>6 DEF Next

\* What a read in progress relies on holds in every reachable state.
THEOREM Invariance == Spec => []Inv
<1> QED  BY InvInit, InvNext, PTL DEF Spec

\* An export that was answered is the package of one moment, whatever the
\* batches and pages it was read in and whoever edited or granted meanwhile.
THEOREM ExportIsOneMomentHolds == Spec => []ExportIsOneMoment
<1>1. Inv => ExportIsOneMoment
  <2> SUFFICES ASSUME Inv, Exported PROVE ExportIsOneMoment
    BY DEF ExportIsOneMoment
  <2>1. Exporting /\ read.at = "done"
    <3>1. "package" \notin DOMAIN NoRead /\ NoRead.at = "idle"
      BY DEF NoRead
    <3>2. read \in PlanRead => "package" \notin DOMAIN read
      BY DEF PlanRead, PlanRecord
    <3> QED  BY <3>1, <3>2 DEF Inv, Exported, Planning
  <2>2. read \in ExportRead /\ ExportOK(read, past)
    BY <2>1 DEF Exporting, ReadOK
  <2> DEFINE exported == {read.package[i].asset : i \in DOMAIN read.package}
  <2>3. exported = AssetsOf(read.package) /\ exported \subseteq Assets
    <3>1. AssetsOf(read.package) \subseteq Assets
      BY <2>2, EntriesAre DEF ExportRead, ExportRecord
    <3> QED  BY <3>1 DEF AssetsOf
  <2>4. Taken(read) = exported
    BY <2>1, <2>2, <2>3, NoEntries DEF ExportOK, Taken
  <2>5. \A i \in DOMAIN read.package :
          /\ read.package[i].version = read.was[read.package[i].asset]
          /\ \A j \in DOMAIN read.package : i < j => read.package[i].asset < read.package[j].asset
    BY <2>2 DEF ExportOK, InOrder, Entries, Ascending
  <2>6. \A a \in Assets : read.was[a] # NoVersion /\ a \notin exported =>
          \E i \in DOMAIN past : past[i][a] = 0
    <3> HIDE DEF exported
    <3> QED  BY <2>1, <2>2, <2>4 DEF ExportOK, Complete, Scanned, Lacked
  <2>7. \A a \in exported : \E i \in DOMAIN past : past[i][a] # 0
    BY <2>2 DEF ExportOK, Entries, Held
  <2> QED  BY <2>5, <2>6, <2>7 DEF ExportIsOneMoment
<1> QED  BY <1>1, Invariance, PTL

\* A plan that was answered has the heads of its start and grants that its
\* targets had at one moment, unless one that is not the first and one that is
\* not the last of them changed and changed back.
THEOREM PlanIsOneMomentHolds == Spec => []PlanIsOneMoment
<1>1. Inv => PlanIsOneMoment
  <2> SUFFICES ASSUME Inv, Planned PROVE PlanIsOneMoment
    BY DEF PlanIsOneMoment
  <2>1. Planning /\ read.at = "done"
    <3>1. "got" \notin DOMAIN NoRead /\ NoRead.at = "idle"
      BY DEF NoRead
    <3>2. read \in ExportRead => "got" \notin DOMAIN read
      BY DEF ExportRead, ExportRecord
    <3> QED  BY <3>1, <3>2 DEF Inv, Planned, Exporting
  <2>2. read \in PlanRead /\ Listed(read) /\ Looked(read, past) /\ past \in Seq([Assets -> Inventories])
    BY <2>1 DEF Planning, PlanOK, ReadOK
  <2>3. /\ Targets(read) = {a \in Assets : read.was[a] # NoVersion}
        /\ \A x \in read.got : x.version = read.was[x.asset]
        /\ read.todo = {}
    BY <2>1, <2>2 DEF Listed
  <2>4. PICK n \in DOMAIN past, m \in DOMAIN past :
          FirstLook(read, past, n) /\ n <= m /\ SecondLook(read, past, m)
    BY <2>1, <2>2 DEF Looked
  <2>5. Checked(read) = read.got
    BY <2>3 DEF Checked
  <2>6. \A i \in DOMAIN past : i \in Nat
    <3>1. DOMAIN past = 1 .. Len(past) /\ Len(past) \in Nat
      BY <2>2, LenProperties
    <3> QED  BY <3>1
  <2>7. ASSUME NEW x \in read.got, ~WentBack(x.asset)
        PROVE  past[n][x.asset] = x.grant /\ past[m][x.asset] = x.grant
    <3>1. PICK i \in DOMAIN past : i <= n /\ past[i][x.asset] = x.grant
      BY <2>4 DEF FirstLook
    <3>2. PICK k \in DOMAIN past : m <= k /\ past[k][x.asset] = x.grant
      BY <2>4, <2>5 DEF SecondLook
    <3>3. ASSUME NEW j \in DOMAIN past, i <= j, j <= k, past[j][x.asset] # x.grant PROVE FALSE
      <4>1. i # j /\ j # k
        BY <3>1, <3>2, <3>3
      <4>2. i < j /\ j < k
        BY <2>6, <3>3, <4>1
      <4> QED  BY <2>7, <3>1, <3>2, <3>3, <4>2 DEF WentBack
    <3>4. i <= n /\ n <= k /\ i <= m /\ m <= k
      BY <2>4, <2>6, <3>1, <3>2
    <3> QED  BY <3>3, <3>4
  <2>8. \A x \in read.got : /\ x.asset \in Targets(read)
                            /\ x.asset = Highest(Targets(read)) => past[n][x.asset] = x.grant
                            /\ x.asset = Lowest(Targets(read)) => past[m][x.asset] = x.grant
    BY <2>4, <2>5 DEF FirstLook, SecondLook, Targets
  <2>9. \/ \E a, b \in Targets(read) : /\ WentBack(a) /\ a # Lowest(Targets(read))
                                       /\ WentBack(b) /\ b # Highest(Targets(read))
        \/ \E i \in DOMAIN past : \A x \in read.got : past[i][x.asset] = x.grant
    <3>1. CASE \A a \in Targets(read) : WentBack(a) => a = Lowest(Targets(read))
      <4>1. \A x \in read.got : past[m][x.asset] = x.grant
        BY <2>7, <2>8, <3>1
      <4> QED  BY <4>1
    <3>2. CASE \A b \in Targets(read) : WentBack(b) => b = Highest(Targets(read))
      <4>1. \A x \in read.got : past[n][x.asset] = x.grant
        BY <2>7, <2>8, <3>2
      <4> QED  BY <4>1
    <3> QED  BY <3>1, <3>2
  <2> QED  BY <2>3, <2>9 DEF PlanIsOneMoment, Targets
<1> QED  BY <1>1, Invariance, PTL
===============================================================================
