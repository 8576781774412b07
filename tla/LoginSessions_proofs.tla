------------------------ MODULE LoginSessions_proofs ------------------------
(***************************************************************************)
(* Proofs about LoginSessions.  The argument: a transaction changes only   *)
(* rows it holds or creates, and whoever has changed something holds the   *)
(* serialization row or is about to wait for it, so what a transaction     *)
(* learnt of the rows it holds is still so when it commits.  Who holds the *)
(* session keeps its tokens and its key as they are, and who holds a key   *)
(* decides whether the session moves away from it.                         *)
(***************************************************************************)
EXTENDS LoginSessions, FiniteSetTheorems, TLAPS

(* In what follows d is what is committed, h the rows a transaction holds  *)
(* and t the transaction.                                                  *)
KeyIds(d) == {k \in Keys : d[Key(k)] # NoRow}
TokenIds(d) == {u \in Tokens : d[Token(u)] # NoRow}
TokenRows == {Token(u) : u \in Tokens}
NextKey(d) == 1 + Cardinality(KeyIds(d))
NextToken(d) == 1 + Cardinality(TokenIds(d))
Exists(d, r) == d[r] # NoRow

Busy == {x \in Txs : tx[x].op # "none"}
Held(x) == {r \in Rows : owner[r] = x}

\* Ids are taken in order, and there is one left for every request under way.
CountsOK(d, busy, n) ==
  /\ n \in 0 .. MaxOps
  /\ \E i \in Nat : KeyIds(d) = 1 .. i /\ i + Cardinality(busy) <= n
  /\ \E i \in Nat : TokenIds(d) = 1 .. i /\ i + Cardinality(busy) <= n

\* What is committed: only the key the session names is a login's, and before
\* the login there is nothing.
SessionOK(d) ==
  LET s == d[Session] IN
  /\ s = NoRow => KeyIds(d) = {} /\ TokenIds(d) = {}
  /\ s # NoRow => s.key \in KeyIds(d) /\ s.state \in {"active", "revoked"}
  /\ s.state = "active" => d[Key(s.key)].state \in {"active", "replaced"}
  /\ s.state = "revoked" => ~IsActive(d, Key(s.key))
KeysOK(d) == \A k \in Keys : IsActive(d, Key(k)) /\ d[Key(k)].by = "login" => d[Session].key = k
TokensOK(d) ==
  \A u \in Tokens : IsActive(d, Token(u)) =>
    IsActive(d, Session) /\ \A v \in Tokens : IsActive(d, Token(v)) => v = u

RowsOK(d) ==
  /\ d \in [Rows -> Values]
  /\ Exists(d, Serialization) /\ Exists(d, User)
  /\ SessionOK(d) /\ KeysOK(d) /\ TokensOK(d)

Ops == {"none", "login", "refresh", "revokeSession", "revokeKey", "rotate",
        "rotateAndRevoke", "enable", "disable"}
Ats == {"idle", "issue", "findToken", "rotateSession", "endSession", "endTokens", "endSessionKey",
        "endKey", "endSessionOfKey", "findKey", "replaceKey", "setUser", "commit"}
Writes == UNION {[S -> Values] : S \in SUBSET Rows}
Transactions == [op : Ops, arg : 0 .. MaxOps, at : Ats, picked : Seq(Rows), todo : Seq(Rows),
                 writes : Writes]

\* Rows asked for exist. A started statement holds what it selected or still
\* asks for it, and so does a change the serialization row.
LocksOK(d, h, t) ==
  /\ \A j \in DOMAIN t.todo : Exists(d, t.todo[j])
  /\ t.picked # NotStarted =>
       \A i \in DOMAIN t.picked : t.picked[i] \in h \/ \E j \in DOMAIN t.todo : t.todo[j] = t.picked[i]
  /\ \A r \in DOMAIN t.writes : r \in h \/ (~Exists(d, r) /\ Serialization \in h)
  /\ (\E r \in DOMAIN t.writes : t.writes[r] # d[r]) =>
       Serialization \in h \/ \E j \in DOMAIN t.todo : t.todo[j] = Serialization

Picks(t, seqs) == t.picked = NotStarted \/ t.picked \in seqs
PicksTokens(d, t) ==
  t.picked # NotStarted =>
    /\ \A i \in DOMAIN t.picked : t.picked[i] \in TokenRows
    /\ \A u \in Tokens : IsActive(d, Token(u)) => \E i \in DOMAIN t.picked : t.picked[i] = Token(u)

\* Writes that only revoke, and that leave no token.
OnlyRevokes(d, w) == \A r \in DOMAIN w : w[r] = Revoked(d, r)
CoversTokens(d, w) == \A u \in Tokens : IsActive(d, Token(u)) => Token(u) \in DOMAIN w

NewLogin(d) == [key |-> NextKey(d), state |-> "active", by |-> "login"]

(* What a transaction knows at each of its statements.                     *)
LoginOK(d, h, t) ==
  \/ t.at = "issue" /\ t.writes = NoWrites /\ Picks(t, {<< >>, <<Serialization>>})
  \/ /\ t.at = "commit" /\ Serialization \in h /\ d[Session] = NoRow
     /\ t.writes = [r \in {Key(NextKey(d)), Session, Token(NextToken(d))} |-> NewLogin(d)]

HoldsToken(d, h, u) ==
  LET k == d[Session].key
  IN Refreshable(d, u, k) /\ {Token(u), Session, Key(k)} \subseteq h

RefreshWrites(d, u) ==
  LET old == Key(d[Session].key)
  IN [r \in {Key(NextKey(d)), Token(NextToken(d)), Session, old, Token(u)} |->
        IF r = old THEN [d[r] EXCEPT !.state = "revoked"]
        ELSE IF r = Token(u) THEN [d[r] EXCEPT !.state = "used"] ELSE NewLogin(d)]

RefreshOK(d, h, t) ==
  /\ t.arg \in TokenIds(d)
  /\ \/ /\ t.at = "findToken" /\ t.writes = NoWrites
        /\ Picks(t, {<< >>} \cup {LockedByRefresh(t.arg, k) : k \in Keys})
     \/ /\ t.at = "rotateSession" /\ t.writes = NoWrites /\ HoldsToken(d, h, t.arg)
        /\ Picks(t, {<<Serialization>>})
     \/ /\ t.at = "commit" /\ Serialization \in h /\ HoldsToken(d, h, t.arg)
        /\ t.writes = RefreshWrites(d, t.arg)

RevokeSessionOK(d, h, t) ==
  LET w == t.writes
      key == Key(d[Session].key)
  IN
  \/ t.at = "endSession" /\ w = NoWrites /\ Picks(t, {<< >>, <<Session>>})
  \/ /\ Session \in h /\ Exists(d, Session) /\ Session \in DOMAIN w /\ OnlyRevokes(d, w)
     /\ \/ t.at = "endTokens" /\ DOMAIN w = {Session} /\ PicksTokens(d, t)
        \/ /\ t.at = "endSessionKey" /\ CoversTokens(d, w)
           /\ DOMAIN w \subseteq {Session} \cup TokenRows /\ Picks(t, {<<key>>})
        \/ /\ t.at = "commit" /\ CoversTokens(d, w) /\ key \in DOMAIN w
           /\ DOMAIN w \subseteq {Session, key} \cup TokenRows

RevokeKeyOK(d, h, t) ==
  LET w == t.writes
      key == Key(t.arg)
      named == d[Session].key = t.arg
  IN
  /\ t.arg \in KeyIds(d)
  /\ \/ t.at = "endKey" /\ w = NoWrites /\ Picks(t, {<< >>, <<key>>})
     \/ /\ key \in h /\ key \in DOMAIN w /\ OnlyRevokes(d, w)
        /\ \/ /\ t.at = "endSessionOfKey" /\ DOMAIN w = {key}
              /\ Picks(t, {If(named, <<Session>>)})
           \/ /\ t.at = "endTokens" /\ named /\ Session \in h
              /\ DOMAIN w = {key, Session} /\ PicksTokens(d, t)
           \/ /\ t.at = "commit" /\ named /\ Session \in h /\ CoversTokens(d, w)
              /\ Session \in DOMAIN w /\ DOMAIN w \subseteq {key, Session} \cup TokenRows
           \/ t.at = "commit" /\ ~named /\ DOMAIN w = {key}

NewRotated == [NoRow EXCEPT !.state = "active", !.by = "rotation"]
RotateWrites(d, t) ==
  LET old == Key(t.arg)
  IN [r \in {Key(NextKey(d))} \cup (IF t.op = "rotateAndRevoke" THEN {old} ELSE {}) |->
        IF r = old THEN [d[r] EXCEPT !.state = "replaced"] ELSE NewRotated]

RotateOK(d, h, t) ==
  /\ t.arg \in KeyIds(d)
  /\ \/ t.at = "findKey" /\ t.writes = NoWrites /\ Picks(t, {<< >>, <<Key(t.arg)>>})
     \/ /\ Key(t.arg) \in h /\ IsActive(d, Key(t.arg))
        /\ \/ t.at = "replaceKey" /\ t.writes = NoWrites /\ Picks(t, {<<Serialization>>})
           \/ t.at = "commit" /\ Serialization \in h /\ t.writes = RotateWrites(d, t)

SetUserOK(d, h, t) ==
  \/ t.at = "setUser" /\ t.writes = NoWrites /\ Picks(t, {<<User>>})
  \/ t.at = "commit" /\ DOMAIN t.writes = {User} /\ User \in h /\ t.writes[User] # NoRow

TxOK(d, h, t) ==
  /\ t \in Transactions
  /\ LocksOK(d, h, t)
  /\ t.op = "none" => t = Idle /\ h = {}
  /\ t.op = "login" => LoginOK(d, h, t)
  /\ t.op = "refresh" => RefreshOK(d, h, t)
  /\ t.op = "revokeSession" => RevokeSessionOK(d, h, t)
  /\ t.op = "revokeKey" => RevokeKeyOK(d, h, t)
  /\ t.op \in {"rotate", "rotateAndRevoke"} => RotateOK(d, h, t)
  /\ t.op \in {"enable", "disable"} => SetUserOK(d, h, t)

Inv ==
  /\ owner \in [Rows -> Txs \cup {NoTx}] /\ tx \in [Txs -> Transactions]
  /\ \A r \in Rows : owner[r] # NoTx => Exists(db, r)
  /\ CountsOK(db, Busy, ops) /\ RowsOK(db)
  /\ \A x \in Txs : TxOK(db, Held(x), tx[x])

-----------------------------------------------------------------------------
(* The data.                                                               *)

LEMMA RowNames ==
    /\ User # Session /\ User # Serialization /\ Session # Serialization
    /\ \A a, b : (Key(a) = Key(b) <=> a = b) /\ (Token(a) = Token(b) <=> a = b) /\ Key(a) # Token(b)
    /\ \A a : /\ Key(a) \notin {User, Session, Serialization}
              /\ Token(a) \notin {User, Session, Serialization}
BY DEF User, Session, Serialization, Key, Token

LEMMA RowsTyped ==
    /\ User \in Rows /\ Session \in Rows /\ Serialization \in Rows
    /\ \A k \in Keys : Key(k) \in Rows
    /\ \A u \in Tokens : Token(u) \in Rows
    /\ TokenRows \subseteq Rows /\ Keys = 1 .. MaxOps /\ Tokens = 1 .. MaxOps /\ MaxOps \in Nat
BY SessionsAssumption DEF Rows, TokenRows, Keys, Tokens

LEMMA RowCases ==
    ASSUME NEW r \in Rows
    PROVE  \/ r \in {User, Session, Serialization}
           \/ \E k \in Keys : r = Key(k)
           \/ \E u \in Tokens : r = Token(u)
BY DEF Rows

LEMMA NoRowTyped ==
    /\ NoRow \in Values /\ NoRow.state = "none" /\ NoRow.key = 0 /\ NoRow.by = "none"
    /\ Active \in Values /\ Active # NoRow
    /\ \A v \in Values : v.state # "none" => v # NoRow
    /\ NoWrites \in Writes /\ DOMAIN NoWrites = {}
<1>1. MaxOps \in Nat
  BY SessionsAssumption
<1>2. NoRow \in Values
  BY <1>1 DEF NoRow, Values
<1>3. NoWrites \in [{} -> Values] /\ DOMAIN NoWrites = {}
  BY DEF NoWrites
<1>4. NoWrites \in Writes
  BY <1>3 DEF Writes
<1> QED  BY <1>1, <1>2, <1>3, <1>4 DEF NoRow, Values, Active

\* A revoked row.
LEMMA RevokedRow ==
    ASSUME NEW d, NEW r, d[r] \in Values
    PROVE  /\ Revoked(d, r) \in Values
           /\ Revoked(d, r).key = d[r].key /\ Revoked(d, r).by = d[r].by
           /\ Revoked(d, r).state = IF d[r].state = "active" THEN "revoked" ELSE d[r].state
           /\ d[r] # NoRow => Revoked(d, r) # NoRow
BY DEF Revoked, Values, NoRow

\* Ids that are taken in order leave the next one free.
LEMMA NextIds ==
    ASSUME NEW d, NEW busy, NEW n, CountsOK(d, busy, n), IsFiniteSet(busy), busy # {}
    PROVE  /\ NextKey(d) \in Keys /\ d[Key(NextKey(d))] = NoRow
           /\ NextToken(d) \in Tokens /\ d[Token(NextToken(d))] = NoRow
           /\ KeyIds(d) \cup {NextKey(d)} = 1 .. NextKey(d)
           /\ TokenIds(d) \cup {NextToken(d)} = 1 .. NextToken(d)
           /\ NextKey(d) + Cardinality(busy) <= n + 1
           /\ NextToken(d) + Cardinality(busy) <= n + 1
<1>1. Cardinality(busy) \in Nat \ {0}
  BY FS_CardinalityType, FS_EmptySet
<1>2. n \in 0 .. MaxOps /\ MaxOps \in Nat
  BY SessionsAssumption DEF CountsOK
<1>3. PICK i \in Nat : KeyIds(d) = 1 .. i /\ i + Cardinality(busy) <= n
  BY DEF CountsOK
<1>4. PICK j \in Nat : TokenIds(d) = 1 .. j /\ j + Cardinality(busy) <= n
  BY DEF CountsOK
<1>5. Cardinality(1 .. i) = i /\ Cardinality(1 .. j) = j
  BY FS_Interval
<1>6. NextKey(d) = i + 1 /\ NextToken(d) = j + 1
  BY <1>3, <1>4, <1>5 DEF NextKey, NextToken
<1>7. NextKey(d) \in Keys /\ NextToken(d) \in Tokens
  BY <1>1, <1>2, <1>3, <1>4, <1>6, RowsTyped
<1>8. NextKey(d) \notin KeyIds(d) /\ NextToken(d) \notin TokenIds(d)
  BY <1>3, <1>4, <1>6
<1>9. d[Key(NextKey(d))] = NoRow /\ d[Token(NextToken(d))] = NoRow
  BY <1>7, <1>8 DEF KeyIds, TokenIds
<1>10. /\ (1 .. i) \cup {i + 1} = 1 .. (i + 1)
       /\ (1 .. j) \cup {j + 1} = 1 .. (j + 1)
  OBVIOUS
<1>11. /\ NextKey(d) + Cardinality(busy) <= n + 1
       /\ NextToken(d) + Cardinality(busy) <= n + 1
  BY <1>1, <1>2, <1>3, <1>4, <1>6
<1> QED  BY <1>3, <1>4, <1>6, <1>7, <1>9, <1>10, <1>11

-----------------------------------------------------------------------------
(* What a transaction knows outlives what others commit.                   *)

\* Seen by the holder of h, the step from d to e changes nothing it relies on.
Stable(d, e, h) ==
  /\ \A r \in h : e[r] = d[r]
  /\ \A r \in Rows : Exists(d, r) => Exists(e, r)
  /\ Serialization \in h => e = d
  /\ Session \in h => \A u \in Tokens : e[Token(u)] = d[Token(u)]
  /\ \A k \in Keys : Key(k) \in h => (e[Session].key = k <=> d[Session].key = k)

LEMMA StableTx ==
    ASSUME NEW d, NEW e, NEW h \in SUBSET Rows, NEW t, Stable(d, e, h), TxOK(d, h, t)
    PROVE  TxOK(e, h, t)
<1>1. CASE Serialization \in h
  BY <1>1 DEF Stable
<1>2. CASE Serialization \notin h
  <2>1. t \in Transactions
    BY DEF TxOK
  <2>2. \A r \in DOMAIN t.writes : r \in h /\ e[r] = d[r]
    BY <1>2 DEF TxOK, LocksOK, Stable
  <2>3. LocksOK(e, h, t)
    <3>1. \A j \in DOMAIN t.todo : Exists(e, t.todo[j])
      <4>1. t.todo \in Seq(Rows)
        BY <2>1 DEF Transactions
      <4>2. \A j \in DOMAIN t.todo : t.todo[j] \in Rows
        BY <4>1
      <4> QED  BY <4>2 DEF TxOK, LocksOK, Stable
    <3> QED  BY <1>2, <2>2, <3>1 DEF TxOK, LocksOK
  <2>4. \A w : (\A r \in DOMAIN w : e[r] = d[r]) /\ OnlyRevokes(d, w) => OnlyRevokes(e, w)
    BY DEF OnlyRevokes, Revoked
  <2>5. OnlyRevokes(d, t.writes) => OnlyRevokes(e, t.writes)
    BY <2>2, <2>4
  <2>6. Session \in h =>
          /\ e[Session] = d[Session]
          /\ \A u \in Tokens : IsActive(e, Token(u)) <=> IsActive(d, Token(u))
    BY DEF Stable, IsActive
  <2>7. Session \in h => /\ CoversTokens(d, t.writes) => CoversTokens(e, t.writes)
                         /\ PicksTokens(d, t) => PicksTokens(e, t)
    BY <2>6 DEF CoversTokens, PicksTokens
  <2>8. \A k \in KeyIds(d) : k \in KeyIds(e)
    BY RowsTyped DEF KeyIds, Stable, Exists
  <2>9. \A k \in TokenIds(d) : k \in TokenIds(e)
    BY RowsTyped DEF TokenIds, Stable, Exists
  <2>10. CASE t.op = "login"
    BY <1>2, <2>1, <2>3, <2>10 DEF TxOK, LoginOK
  <2>11. CASE t.op = "refresh"
    <3>1. HoldsToken(d, h, t.arg) => HoldsToken(e, h, t.arg)
      BY <2>6 DEF HoldsToken, Stable, Refreshable, IsActive
    <3>2. RefreshOK(e, h, t)
      BY <1>2, <2>9, <2>11, <3>1 DEF TxOK, RefreshOK
    <3> QED  BY <2>1, <2>3, <2>11, <3>2 DEF TxOK
  <2>12. CASE t.op = "revokeSession"
    <3>1. Session \in h /\ Exists(d, Session) => Exists(e, Session)
      BY <2>6 DEF Exists
    <3>2. RevokeSessionOK(e, h, t)
      BY <2>5, <2>6, <2>7, <2>12, <3>1 DEF TxOK, RevokeSessionOK
    <3> QED  BY <2>1, <2>3, <2>12, <3>2 DEF TxOK
  <2>13. CASE t.op = "revokeKey"
    <3>1. t.arg \in KeyIds(d) /\ t.arg \in KeyIds(e) /\ t.arg \in Keys
      BY <2>8, <2>13 DEF TxOK, RevokeKeyOK, KeyIds
    <3>2. Key(t.arg) \in h => (e[Session].key = t.arg <=> d[Session].key = t.arg)
      BY <3>1 DEF Stable
    <3>3. RevokeKeyOK(e, h, t)
      <4>1. RevokeKeyOK(d, h, t)
        BY <2>13 DEF TxOK
      <4> QED  BY <2>5, <2>7, <3>1, <3>2, <4>1 DEF RevokeKeyOK, If
    <3> QED  BY <2>1, <2>3, <2>13, <3>3 DEF TxOK
  <2>14. CASE t.op \in {"rotate", "rotateAndRevoke"}
    <3>1. RotateOK(e, h, t)
      BY <1>2, <2>8, <2>14 DEF TxOK, RotateOK, Stable, IsActive
    <3> QED  BY <2>1, <2>3, <2>14, <3>1 DEF TxOK
  <2>15. CASE t.op \in {"enable", "disable"}
    <3>1. SetUserOK(e, h, t)
      BY <2>15 DEF TxOK, SetUserOK
    <3> QED  BY <2>1, <2>3, <2>15, <3>1 DEF TxOK
  <2>16. CASE t.op = "none"
    BY <2>1, <2>3, <2>16 DEF TxOK
  <2> QED
    <3>1. t.op \in Ops
      BY <2>1 DEF Transactions
    <3> QED  BY <2>10, <2>11, <2>12, <2>13, <2>14, <2>15, <2>16, <3>1 DEF Ops
<1> QED  BY <1>1, <1>2

-----------------------------------------------------------------------------
(* What a commit does.                                                     *)

LEMMA MergeRow ==
    ASSUME NEW d \in [Rows -> Values], NEW w \in Writes
    PROVE  /\ Merge(w, d) \in [Rows -> Values]
           /\ \A r \in DOMAIN w : r \in Rows /\ w[r] \in Values /\ Merge(w, d)[r] = w[r]
           /\ \A r \in Rows : r \notin DOMAIN w => Merge(w, d)[r] = d[r]
BY DEF Merge, Writes

LEMMA CountsAfter ==
    ASSUME NEW d, NEW e, NEW busy, NEW x \in busy, NEW n, IsFiniteSet(busy), CountsOK(d, busy, n),
           KeyIds(e) \in {KeyIds(d), KeyIds(d) \cup {NextKey(d)}},
           TokenIds(e) \in {TokenIds(d), TokenIds(d) \cup {NextToken(d)}}
    PROVE  CountsOK(e, busy \ {x}, n)
<1>1. Cardinality(busy \ {x}) = Cardinality(busy) - 1 /\ Cardinality(busy) \in Nat
  BY FS_RemoveElement, FS_CardinalityType
<1>2. n \in 0 .. MaxOps /\ MaxOps \in Nat
  BY SessionsAssumption DEF CountsOK
<1>3. \E i \in Nat : KeyIds(e) = 1 .. i /\ i + Cardinality(busy \ {x}) <= n
  <2>1. CASE KeyIds(e) = KeyIds(d)
    BY <1>1, <1>2, <2>1 DEF CountsOK
  <2>2. CASE KeyIds(e) = KeyIds(d) \cup {NextKey(d)}
    <3>1. NextKey(d) \in Nat
      BY <1>2, NextIds, RowsTyped
    <3>2. KeyIds(e) = 1 .. NextKey(d) /\ NextKey(d) + Cardinality(busy) <= n + 1
      BY <2>2, NextIds
    <3> QED  BY <1>1, <1>2, <3>1, <3>2
  <2> QED  BY <2>1, <2>2
<1>4. \E i \in Nat : TokenIds(e) = 1 .. i /\ i + Cardinality(busy \ {x}) <= n
  <2>1. CASE TokenIds(e) = TokenIds(d)
    BY <1>1, <1>2, <2>1 DEF CountsOK
  <2>2. CASE TokenIds(e) = TokenIds(d) \cup {NextToken(d)}
    <3>1. NextToken(d) \in Nat
      BY <1>2, NextIds, RowsTyped
    <3>2. TokenIds(e) = 1 .. NextToken(d) /\ NextToken(d) + Cardinality(busy) <= n + 1
      BY <2>2, NextIds
    <3> QED  BY <1>1, <1>2, <3>1, <3>2
  <2> QED  BY <2>1, <2>2
<1> QED  BY <1>2, <1>3, <1>4 DEF CountsOK

\* What a commit needs to know of its transaction.
Commits(d, e, h, t, busy, n) ==
  /\ RowsOK(d) /\ TxOK(d, h, t) /\ t.at = "commit" /\ t.todo = << >> /\ e = Merge(t.writes, d)
  /\ CountsOK(d, busy, n) /\ IsFiniteSet(busy) /\ busy # {}

\* What it leaves: the rows, no more ids than there were requests, and what
\* others rely on.
Committed(d, e, h, g) ==
  /\ RowsOK(e)
  /\ KeyIds(e) \in {KeyIds(d), KeyIds(d) \cup {NextKey(d)}}
  /\ TokenIds(e) \in {TokenIds(d), TokenIds(d) \cup {NextToken(d)}}
  /\ \A r \in Rows : Exists(d, r) => Exists(e, r)
  /\ Session \in g => \A u \in Tokens : e[Token(u)] = d[Token(u)]
  /\ \A k \in Keys : Key(k) \in g => (e[Session].key = k <=> d[Session].key = k)

\* The rows of another transaction.
Others(d, h, g) == g \subseteq Rows /\ h \cap g = {} /\ \A r \in g : Exists(d, r)

LEMMA NewLoginTyped ==
    ASSUME NEW d, NextKey(d) \in Keys
    PROVE  NewLogin(d) \in Values /\ NewLogin(d) # NoRow /\ NewLogin(d).state = "active"
           /\ NewLogin(d).key = NextKey(d)
BY RowsTyped DEF NewLogin, Values, NoRow

LEMMA LoginCommits ==
    ASSUME NEW d, NEW e, NEW h, NEW g, NEW t, NEW busy, NEW n,
           Commits(d, e, h, t, busy, n), Others(d, h, g), t.op = "login"
    PROVE  Committed(d, e, h, g)
<1> DEFINE k == NextKey(d)
           u == NextToken(d)
           new == NewLogin(d)
<1>1. /\ k \in Keys /\ d[Key(k)] = NoRow /\ u \in Tokens /\ d[Token(u)] = NoRow
  BY NextIds DEF Commits
<1>2. /\ d[Session] = NoRow /\ KeyIds(d) = {} /\ TokenIds(d) = {} /\ Serialization \in h
      /\ t.writes = [r \in {Key(k), Session, Token(u)} |-> new]
  BY DEF Commits, TxOK, LoginOK, RowsOK, SessionOK
<1>3. new \in Values /\ new # NoRow /\ new.state = "active" /\ new.key = k
  BY <1>1, NewLoginTyped
<1>4. t.writes \in Writes /\ d \in [Rows -> Values]
  BY DEF Commits, TxOK, Transactions, RowsOK
<1>5. /\ e \in [Rows -> Values] /\ e[Key(k)] = new /\ e[Session] = new /\ e[Token(u)] = new
      /\ \A r \in Rows : r \notin {Key(k), Session, Token(u)} => e[r] = d[r]
  BY <1>2, <1>4, MergeRow DEF Commits
<1> HIDE DEF k, u, new
<1>6. \A a \in Keys : a # k => e[Key(a)] = NoRow
  BY <1>2, <1>5, RowNames, RowsTyped DEF KeyIds
<1>7. \A a \in Tokens : a # u => e[Token(a)] = NoRow
  BY <1>2, <1>5, RowNames, RowsTyped DEF TokenIds
<1>8. KeyIds(e) = {k} /\ TokenIds(e) = {u}
  BY <1>1, <1>3, <1>5, <1>6, <1>7 DEF KeyIds, TokenIds
<1>9. SessionOK(e)
  BY <1>3, <1>5, <1>8, NoRowTyped DEF SessionOK, IsActive
<1>10. KeysOK(e) /\ TokensOK(e)
  BY <1>3, <1>5, <1>6, <1>7, NoRowTyped DEF KeysOK, TokensOK, IsActive
<1>11. \A r \in Rows : Exists(d, r) => Exists(e, r)
  BY <1>3, <1>5 DEF Exists
<1>12. Exists(e, User) /\ Exists(e, Serialization)
  BY <1>11, RowsTyped DEF Commits, RowsOK
<1>13. Session \notin g /\ Key(k) \notin g
  BY <1>1, <1>2 DEF Others, Exists
<1>14. d[Session].key = 0 /\ e[Session].key = k /\ \A a \in Keys : a # 0
  BY <1>2, <1>3, <1>5, NoRowTyped, RowsTyped
<1>15. KeyIds(e) = KeyIds(d) \cup {NextKey(d)} /\ TokenIds(e) = TokenIds(d) \cup {NextToken(d)}
  BY <1>2, <1>8 DEF k, u
<1> QED  BY <1>5, <1>9, <1>10, <1>11, <1>12, <1>13, <1>14, <1>15 DEF Committed, RowsOK

LEMMA RefreshCommits ==
    ASSUME NEW d, NEW e, NEW h, NEW g, NEW t, NEW busy, NEW n,
           Commits(d, e, h, t, busy, n), Others(d, h, g), t.op = "refresh"
    PROVE  Committed(d, e, h, g)
<1> DEFINE k == NextKey(d)
           u == NextToken(d)
           new == NewLogin(d)
           o == d[Session].key
           s == t.arg
<1>1. /\ k \in Keys /\ d[Key(k)] = NoRow /\ u \in Tokens /\ d[Token(u)] = NoRow
  BY NextIds DEF Commits
<1>2. /\ s \in Tokens /\ IsActive(d, Token(s)) /\ IsActive(d, Session) /\ IsActive(d, Key(o))
      /\ {Token(s), Session, Key(o)} \subseteq h
      /\ t.writes = RefreshWrites(d, s)
  BY DEF Commits, TxOK, RefreshOK, HoldsToken, Refreshable, TokenIds
<1>3. new \in Values /\ new # NoRow /\ new.state = "active" /\ new.key = k
  BY <1>1, NewLoginTyped
<1>4. t.writes \in Writes /\ d \in [Rows -> Values]
  BY DEF Commits, TxOK, Transactions, RowsOK
<1>5. o \in Keys /\ d[Session] # NoRow /\ d[Key(o)] # NoRow /\ d[Token(s)] # NoRow
  BY <1>2, NoRowTyped DEF Commits, RowsOK, SessionOK, KeyIds, IsActive
<1>6. k # o /\ u # s
  BY <1>1, <1>5
<1>7. /\ e \in [Rows -> Values] /\ e[Key(k)] = new /\ e[Session] = new /\ e[Token(u)] = new
      /\ e[Key(o)] = [d[Key(o)] EXCEPT !.state = "revoked"]
      /\ e[Token(s)] = [d[Token(s)] EXCEPT !.state = "used"]
      /\ \A r \in Rows : r \notin {Key(k), Session, Token(u), Key(o), Token(s)} => e[r] = d[r]
  <2>1. e = Merge(t.writes, d)
    BY DEF Commits
  <2>2. DOMAIN t.writes = {Key(k), Session, Token(u), Key(o), Token(s)}
    BY <1>2 DEF RefreshWrites
  <2>3. /\ t.writes[Key(k)] = new /\ t.writes[Session] = new /\ t.writes[Token(u)] = new
        /\ t.writes[Key(o)] = [d[Key(o)] EXCEPT !.state = "revoked"]
        /\ t.writes[Token(s)] = [d[Token(s)] EXCEPT !.state = "used"]
    BY <1>2, <1>6, RowNames DEF RefreshWrites
  <2> HIDE DEF k, u, new, o, s
  <2> QED  BY <1>4, <2>1, <2>2, <2>3, MergeRow
<1> HIDE DEF k, u, new, o, s
<1>8. /\ d[Key(o)] \in Values /\ d[Token(s)] \in Values
  BY <1>4, <1>2, <1>5, RowsTyped
<1>9. e[Key(o)].state = "revoked" /\ e[Token(s)].state = "used"
  BY <1>7, <1>8 DEF Values
<1>10. \A a \in Keys : a # k /\ a # o => e[Key(a)] = d[Key(a)]
  BY <1>7, RowNames, RowsTyped
<1>11. \A a \in Tokens : a # u /\ a # s => e[Token(a)] = d[Token(a)]
  BY <1>7, RowNames, RowsTyped
<1>12. e[Key(o)] # NoRow /\ e[Token(s)] # NoRow
  BY <1>9, NoRowTyped
<1>13. KeyIds(e) = KeyIds(d) \cup {k} /\ TokenIds(e) = TokenIds(d) \cup {u}
  BY <1>1, <1>2, <1>3, <1>5, <1>7, <1>10, <1>11, <1>12 DEF KeyIds, TokenIds
<1>14. SessionOK(e)
  <2>1. k \in KeyIds(e)
    BY <1>13
  <2> QED  BY <1>3, <1>7, <2>1 DEF SessionOK, IsActive
<1>15. KeysOK(e)
  <2> SUFFICES ASSUME NEW a \in Keys, IsActive(e, Key(a)), e[Key(a)].by = "login"
               PROVE  e[Session].key = a
    BY DEF KeysOK
  <2>1. CASE a # k
    <3>1. a # o
      BY <1>9 DEF IsActive
    <3>2. IsActive(d, Key(a)) /\ d[Key(a)].by = "login"
      BY <1>10, <2>1, <3>1 DEF IsActive
    <3>3. d[Session].key = a
      BY <3>2 DEF Commits, RowsOK, KeysOK
    <3> QED  BY <3>1, <3>3 DEF o
  <2> QED  BY <1>3, <1>7, <2>1
<1>16. TokensOK(e)
  <2>1. \A a \in Tokens : IsActive(d, Token(a)) => a = s
    BY <1>2 DEF Commits, RowsOK, TokensOK
  <2>2. \A a \in Tokens : IsActive(e, Token(a)) => a = u
    BY <1>9, <1>11, <2>1 DEF IsActive
  <2> QED  BY <1>3, <1>7, <2>2 DEF TokensOK, IsActive
<1>17. \A r \in Rows : Exists(d, r) => Exists(e, r)
  BY <1>3, <1>7, <1>12 DEF Exists
<1>18. Exists(e, User) /\ Exists(e, Serialization)
  BY <1>17, RowsTyped DEF Commits, RowsOK
<1>19. Session \notin g /\ Key(k) \notin g /\ Key(o) \notin g
  BY <1>1, <1>2 DEF Others, Exists
<1>20. \A a \in Keys : Key(a) \in g => (e[Session].key = a <=> d[Session].key = a)
  BY <1>3, <1>7, <1>19 DEF o
<1>21. KeyIds(e) = KeyIds(d) \cup {NextKey(d)} /\ TokenIds(e) = TokenIds(d) \cup {NextToken(d)}
  BY <1>13 DEF k, u
<1> QED  BY <1>7, <1>14, <1>15, <1>16, <1>17, <1>18, <1>19, <1>20, <1>21 DEF Committed, RowsOK

\* A commit that only revokes, and takes the tokens and the key with a session.
LEMMA RevokesCommit ==
    ASSUME NEW d, NEW e, NEW h, NEW g, NEW t, NEW busy, NEW n,
           Commits(d, e, h, t, busy, n), Others(d, h, g), OnlyRevokes(d, t.writes),
           Session \in DOMAIN t.writes =>
             CoversTokens(d, t.writes) /\ Key(d[Session].key) \in DOMAIN t.writes,
           Key(d[Session].key) \in DOMAIN t.writes => Session \in DOMAIN t.writes,
           (\E u \in Tokens : Token(u) \in DOMAIN t.writes) => Session \in h,
           User \notin DOMAIN t.writes, Serialization \notin DOMAIN t.writes
    PROVE  Committed(d, e, h, g)
<1> DEFINE w == t.writes
           s == d[Session]
<1>1. w \in Writes /\ d \in [Rows -> Values]
  BY DEF Commits, TxOK, Transactions, RowsOK
<1>2. /\ e \in [Rows -> Values]
      /\ \A r \in Rows : e[r] = IF r \in DOMAIN w THEN Revoked(d, r) ELSE d[r]
  BY <1>1, MergeRow DEF Commits, OnlyRevokes
<1> HIDE DEF w
<1>3. \A r \in Rows : /\ e[r].key = d[r].key /\ e[r].by = d[r].by
                      /\ d[r] # NoRow => e[r] # NoRow
                      /\ IsActive(e, r) => IsActive(d, r) /\ r \notin DOMAIN w
                      /\ e[r].state = "replaced" <=> d[r].state = "replaced"
                      /\ r \in DOMAIN w => ~IsActive(e, r)
                      /\ ~(r \in DOMAIN w) => e[r] = d[r]
  BY <1>1, <1>2, RevokedRow DEF IsActive
<1>4. \A r \in Rows : d[r] = NoRow => e[r] = NoRow
  BY <1>2, NoRowTyped DEF Revoked, NoRow
<1>5. KeyIds(e) = KeyIds(d) /\ TokenIds(e) = TokenIds(d)
  BY <1>3, <1>4, RowsTyped DEF KeyIds, TokenIds
<1>6. \A r \in Rows : Exists(d, r) => Exists(e, r)
  BY <1>3 DEF Exists
<1>7. Session \in Rows /\ e[Session].key = s.key
  BY <1>3, RowsTyped
<1>8. SessionOK(d) /\ KeysOK(d) /\ TokensOK(d) /\ Exists(d, User) /\ Exists(d, Serialization)
  BY DEF Commits, RowsOK
<1>9. s # NoRow => s.key \in Keys /\ Key(s.key) \in Rows
  BY <1>8, RowsTyped DEF SessionOK, KeyIds
<1>10. SessionOK(e)
  <2>1. CASE s = NoRow
    BY <1>4, <1>5, <1>7, <1>8, <2>1, NoRowTyped DEF SessionOK
  <2>2. CASE s # NoRow /\ Session \in DOMAIN w
    <3>1. e[Session].state = "revoked"
      BY <1>1, <1>2, <1>7, <1>8, <2>2, RevokedRow DEF SessionOK
    <3>2. ~IsActive(e, Key(s.key))
      BY <1>3, <1>9, <2>2 DEF w
    <3> QED  BY <1>5, <1>7, <1>8, <2>2, <3>1, <3>2, NoRowTyped DEF SessionOK
  <2>3. CASE s # NoRow /\ Session \notin DOMAIN w
    <3>1. e[Session] = s
      BY <1>3, <1>7, <2>3
    <3>2. Key(s.key) \notin DOMAIN w
      BY <2>3 DEF w
    <3>3. e[Key(s.key)] = d[Key(s.key)]
      BY <1>3, <1>9, <2>3, <3>2
    <3> QED  BY <1>5, <1>8, <2>3, <3>1, <3>3 DEF SessionOK, IsActive
  <2> QED  BY <2>1, <2>2, <2>3
<1>11. KeysOK(e)
  BY <1>3, <1>7, <1>8, RowsTyped DEF KeysOK
<1>12. TokensOK(e)
  <2>1. \A u \in Tokens : IsActive(e, Token(u)) => IsActive(d, Token(u)) /\ Token(u) \notin DOMAIN w
    BY <1>3, RowsTyped
  <2>2. \A u \in Tokens : IsActive(e, Token(u)) => Session \notin DOMAIN w
    BY <2>1 DEF CoversTokens, w
  <2>3. Session \notin DOMAIN w => (IsActive(d, Session) => IsActive(e, Session))
    BY <1>3, <1>7 DEF IsActive
  <2> QED  BY <1>8, <2>1, <2>2, <2>3 DEF TokensOK
<1>13. Session \in g => \A u \in Tokens : e[Token(u)] = d[Token(u)]
  <2>1. Session \in g => \A u \in Tokens : Token(u) \notin DOMAIN w
    BY DEF Others, w
  <2> QED  BY <1>3, <2>1, RowsTyped
<1>14. Exists(e, User) /\ Exists(e, Serialization)
  BY <1>6, <1>8, RowsTyped
<1> QED  BY <1>2, <1>5, <1>6, <1>7, <1>10, <1>11, <1>12, <1>13, <1>14 DEF Committed, RowsOK

LEMMA RevokeSessionCommits ==
    ASSUME NEW d, NEW e, NEW h, NEW g, NEW t, NEW busy, NEW n,
           Commits(d, e, h, t, busy, n), Others(d, h, g), t.op = "revokeSession"
    PROVE  Committed(d, e, h, g)
<1> DEFINE w == t.writes
           key == Key(d[Session].key)
<1>1. /\ Session \in h /\ Session \in DOMAIN w /\ key \in DOMAIN w
      /\ OnlyRevokes(d, w) /\ CoversTokens(d, w)
      /\ DOMAIN w \subseteq {Session, key} \cup TokenRows
  BY DEF Commits, TxOK, RevokeSessionOK
<1>2. User \notin DOMAIN w /\ Serialization \notin DOMAIN w
  BY <1>1, RowNames DEF TokenRows
<1> QED  BY <1>1, <1>2, RevokesCommit

LEMMA RevokeKeyCommits ==
    ASSUME NEW d, NEW e, NEW h, NEW g, NEW t, NEW busy, NEW n,
           Commits(d, e, h, t, busy, n), Others(d, h, g), t.op = "revokeKey"
    PROVE  Committed(d, e, h, g)
<1> DEFINE w == t.writes
           key == Key(t.arg)
<1>1. /\ key \in DOMAIN w /\ OnlyRevokes(d, w)
      /\ \/ /\ d[Session].key = t.arg /\ Session \in h /\ CoversTokens(d, w)
            /\ Session \in DOMAIN w /\ DOMAIN w \subseteq {key, Session} \cup TokenRows
         \/ d[Session].key # t.arg /\ DOMAIN w = {key}
  BY DEF Commits, TxOK, RevokeKeyOK
<1>2. User \notin DOMAIN w /\ Serialization \notin DOMAIN w
  BY <1>1, RowNames DEF TokenRows
<1>3. CASE d[Session].key = t.arg /\ Session \in h /\ CoversTokens(d, w) /\ Session \in DOMAIN w
  BY <1>1, <1>2, <1>3, RevokesCommit
<1>4. CASE d[Session].key # t.arg /\ DOMAIN w = {key}
  <2>1. Session \notin DOMAIN w /\ Key(d[Session].key) \notin DOMAIN w /\ \A u \in Tokens : Token(u) \notin DOMAIN w
    BY <1>4, RowNames
  <2> QED  BY <1>1, <1>2, <2>1, RevokesCommit
<1> QED  BY <1>1, <1>3, <1>4

LEMMA RotateCommits ==
    ASSUME NEW d, NEW e, NEW h, NEW g, NEW t, NEW busy, NEW n,
           Commits(d, e, h, t, busy, n), Others(d, h, g), t.op \in {"rotate", "rotateAndRevoke"}
    PROVE  Committed(d, e, h, g)
<1> DEFINE k == NextKey(d)
           o == t.arg
<1>1. k \in Keys /\ d[Key(k)] = NoRow
  BY NextIds DEF Commits
<1>2. /\ o \in Keys /\ IsActive(d, Key(o)) /\ Key(o) \in h /\ d[Key(o)] # NoRow
      /\ t.writes = RotateWrites(d, t)
  BY DEF Commits, TxOK, RotateOK, KeyIds
<1>3. t.writes \in Writes /\ d \in [Rows -> Values]
  BY DEF Commits, TxOK, Transactions, RowsOK
<1>4. k # o
  BY <1>1, <1>2
<1>5. NewRotated.state = "active" /\ NewRotated.by = "rotation" /\ NewRotated # NoRow
  BY DEF NewRotated, NoRow
<1>6. /\ e \in [Rows -> Values] /\ e[Key(k)] = NewRotated
      /\ \A r \in Rows : r \notin {Key(k), Key(o)} => e[r] = d[r]
      /\ e[Key(o)] \in {d[Key(o)], [d[Key(o)] EXCEPT !.state = "replaced"]}
  <2>1. e = Merge(t.writes, d)
    BY DEF Commits
  <2>2. DOMAIN t.writes = {Key(k)} \/ DOMAIN t.writes = {Key(k), Key(o)}
    BY <1>2 DEF RotateWrites
  <2>3. /\ t.writes[Key(k)] = NewRotated
        /\ Key(o) \in DOMAIN t.writes => t.writes[Key(o)] = [d[Key(o)] EXCEPT !.state = "replaced"]
    BY <1>2, <1>4, RowNames DEF RotateWrites
  <2>4. Key(o) \in Rows
    BY <1>2, RowsTyped
  <2> HIDE DEF k, o
  <2> QED  BY <1>3, <2>1, <2>2, <2>3, <2>4, MergeRow
<1> HIDE DEF k, o
<1>7. d[Key(o)] \in Values
  BY <1>3, <1>2, RowsTyped
<1>8. e[Key(o)] # NoRow /\ e[Key(o)].by = d[Key(o)].by
      /\ e[Key(o)].state \in {"active", "replaced"}
  BY <1>2, <1>6, <1>7 DEF Values, NoRow, IsActive
<1>9. \A a \in Keys : a # k /\ a # o => e[Key(a)] = d[Key(a)]
  BY <1>6, RowNames, RowsTyped
<1>10. e[Session] = d[Session] /\ \A a \in Tokens : e[Token(a)] = d[Token(a)]
  BY <1>6, RowNames, RowsTyped
<1>11. KeyIds(e) = KeyIds(d) \cup {k} /\ TokenIds(e) = TokenIds(d)
  BY <1>1, <1>2, <1>5, <1>6, <1>8, <1>9, <1>10 DEF KeyIds, TokenIds
<1>12. SessionOK(d) /\ KeysOK(d) /\ TokensOK(d) /\ Exists(d, User) /\ Exists(d, Serialization)
  BY DEF Commits, RowsOK
<1>13. SessionOK(e)
  <2>1. CASE d[Session] = NoRow
    BY <1>2, <1>12, <2>1 DEF SessionOK, KeyIds
  <2>2. CASE d[Session] # NoRow
    <3>1. d[Session].key \in KeyIds(d) /\ d[Session].key # k
      BY <1>1, <1>12, <2>2 DEF SessionOK, KeyIds
    <3>2. d[Session].key # o => e[Key(d[Session].key)] = d[Key(d[Session].key)]
      BY <1>9, <3>1 DEF KeyIds
    <3>3. d[Session].key = o => d[Session].state = "active"
      BY <1>2, <1>12, <2>2 DEF SessionOK
    <3> QED  BY <1>8, <1>10, <1>11, <1>12, <2>2, <3>1, <3>2, <3>3 DEF SessionOK, IsActive
  <2> QED  BY <2>1, <2>2
<1>14. KeysOK(e)
  <2> SUFFICES ASSUME NEW a \in Keys, IsActive(e, Key(a)), e[Key(a)].by = "login"
               PROVE  e[Session].key = a
    BY DEF KeysOK
  <2>1. a # k
    BY <1>5, <1>6
  <2>2. IsActive(d, Key(a)) /\ d[Key(a)].by = "login"
    BY <1>2, <1>8, <1>9, <2>1 DEF IsActive
  <2> QED  BY <1>10, <1>12, <2>2 DEF KeysOK
<1>15. TokensOK(e)
  BY <1>10, <1>12 DEF TokensOK, IsActive
<1>16. \A r \in Rows : Exists(d, r) => Exists(e, r)
  BY <1>5, <1>6, <1>8 DEF Exists
<1>17. Exists(e, User) /\ Exists(e, Serialization)
  BY <1>12, <1>16, RowsTyped
<1>18. KeyIds(e) = KeyIds(d) \cup {NextKey(d)}
  BY <1>11 DEF k
<1> QED  BY <1>6, <1>10, <1>11, <1>13, <1>14, <1>15, <1>16, <1>17, <1>18 DEF Committed, RowsOK

LEMMA SetUserCommits ==
    ASSUME NEW d, NEW e, NEW h, NEW g, NEW t, NEW busy, NEW n,
           Commits(d, e, h, t, busy, n), Others(d, h, g), t.op \in {"enable", "disable"}
    PROVE  Committed(d, e, h, g)
<1>1. DOMAIN t.writes = {User} /\ t.writes[User] # NoRow
  BY DEF Commits, TxOK, SetUserOK
<1>2. t.writes \in Writes /\ d \in [Rows -> Values]
  BY DEF Commits, TxOK, Transactions, RowsOK
<1>3. e \in [Rows -> Values] /\ e[User] # NoRow /\ \A r \in Rows : r # User => e[r] = d[r]
  BY <1>1, <1>2, MergeRow DEF Commits
<1>4. /\ e[Session] = d[Session] /\ e[Serialization] = d[Serialization]
      /\ \A a \in Keys : e[Key(a)] = d[Key(a)]
      /\ \A a \in Tokens : e[Token(a)] = d[Token(a)]
  BY <1>3, RowNames, RowsTyped
<1>5. KeyIds(e) = KeyIds(d) /\ TokenIds(e) = TokenIds(d)
  BY <1>4 DEF KeyIds, TokenIds
<1>6. \A r \in Rows : Exists(d, r) => Exists(e, r)
  BY <1>3 DEF Exists
<1>7. SessionOK(d) /\ KeysOK(d) /\ TokensOK(d) /\ Exists(d, Serialization)
  BY DEF Commits, RowsOK
<1>8. SessionOK(e)
  <2>1. d[Session] # NoRow => d[Session].key \in Keys
    BY <1>7 DEF SessionOK, KeyIds
  <2>2. d[Session] # NoRow => e[Key(d[Session].key)] = d[Key(d[Session].key)]
    BY <1>4, <2>1
  <2>3. d[Session].state \in {"active", "revoked"} => d[Session] # NoRow
    BY NoRowTyped
  <2> QED  BY <1>4, <1>5, <1>7, <2>2, <2>3 DEF SessionOK, IsActive
<1>9. KeysOK(e) /\ TokensOK(e)
  BY <1>4, <1>7 DEF KeysOK, TokensOK, IsActive
<1> QED  BY <1>3, <1>4, <1>5, <1>6, <1>7, <1>8, <1>9 DEF Committed, RowsOK, Exists

\* Whatever was asked for.
LEMMA CommitCases ==
    ASSUME NEW d, NEW e, NEW h, NEW g, NEW t, NEW busy, NEW n,
           Commits(d, e, h, t, busy, n), Others(d, h, g)
    PROVE  Committed(d, e, h, g)
<1>1. t.op \in Ops /\ t.op # "none"
  BY DEF Commits, TxOK, Transactions, Idle
<1> QED  BY <1>1, LoginCommits, RefreshCommits, RevokeSessionCommits, RevokeKeyCommits,
            RotateCommits, SetUserCommits DEF Ops

LEMMA CommitStable ==
    ASSUME NEW d, NEW e, NEW h, NEW g, NEW t, NEW busy, NEW n,
           Commits(d, e, h, t, busy, n), Others(d, h, g)
    PROVE  Stable(d, e, g)
<1>1. Committed(d, e, h, g)
  BY CommitCases
<1>2. t.writes \in Writes /\ d \in [Rows -> Values]
  BY DEF Commits, TxOK, Transactions, RowsOK
<1>3. \A r \in DOMAIN t.writes : r \in h \/ ~Exists(d, r)
  BY DEF Commits, TxOK, LocksOK
<1>4. \A r \in g : e[r] = d[r]
  BY <1>2, <1>3, MergeRow DEF Commits, Others
<1>5. Serialization \in g => e = d
  <2>1. Serialization \in g => \A r \in DOMAIN t.writes : t.writes[r] = d[r]
    BY DEF Commits, TxOK, LocksOK, Others
  <2> QED  BY <1>2, <2>1, MergeRow DEF Commits
<1> QED  BY <1>1, <1>4, <1>5 DEF Committed, Stable

-----------------------------------------------------------------------------
(* What a transaction knows after each of its own steps.                   *)

LEMMA MergeNothing ==
    ASSUME NEW d \in [Rows -> Values]
    PROVE  Merge(NoWrites, d) = d
BY NoRowTyped DEF Merge

LEMMA IdleTx ==
    ASSUME NEW d
    PROVE  TxOK(d, {}, Idle)
<1>1. NotStarted \in Seq(Rows) /\ << >> \in Seq(Rows)
  BY RowsTyped DEF NotStarted
<1>2. MaxOps \in Nat
  BY SessionsAssumption
<1>3. Idle \in Transactions
  BY <1>1, <1>2, NoRowTyped DEF Idle, Transactions, Ops, Ats
<1>4. LocksOK(d, {}, Idle)
  BY NoRowTyped DEF LocksOK, Idle
<1> QED  BY <1>3, <1>4 DEF TxOK, Idle

\* The statement tells the request.
LEMMA OpOfAt ==
    ASSUME NEW d, NEW h, NEW t, TxOK(d, h, t)
    PROVE  /\ t.at = "idle" => t.op = "none"
           /\ t.at = "issue" => t.op = "login"
           /\ t.at \in {"findToken", "rotateSession"} => t.op = "refresh"
           /\ t.at \in {"endSession", "endSessionKey"} => t.op = "revokeSession"
           /\ t.at = "endTokens" => t.op \in {"revokeSession", "revokeKey"}
           /\ t.at \in {"endKey", "endSessionOfKey"} => t.op = "revokeKey"
           /\ t.at \in {"findKey", "replaceKey"} => t.op \in {"rotate", "rotateAndRevoke"}
           /\ t.at = "setUser" => t.op \in {"enable", "disable"}
           /\ t.op = "none" => t.at = "idle"
<1>1. t.op \in Ops
  BY DEF TxOK, Transactions
<1> QED  BY <1>1 DEF TxOK, Ops, Idle, LoginOK, RefreshOK, RevokeSessionOK, RevokeKeyOK, RotateOK, SetUserOK

\* Asking for a lock, or getting one, takes away nothing.
LEMMA LockTx ==
    ASSUME NEW d, NEW h \in SUBSET Rows, NEW t, TxOK(d, h, t), t.todo # << >>
    PROVE  /\ Head(t.todo) \in Rows /\ Exists(d, Head(t.todo))
           /\ TxOK(d, h \cup {Head(t.todo)}, [t EXCEPT !.todo = Tail(@)])
<1> DEFINE r == Head(t.todo)
           g == h \cup {r}
           s == [t EXCEPT !.todo = Tail(@)]
<1>1. t \in Transactions /\ t.todo \in Seq(Rows) /\ t.op # "none"
  BY DEF TxOK, Transactions, Idle
<1>2. r = t.todo[1] /\ r \in Rows /\ 1 \in DOMAIN t.todo
  BY <1>1
<1>3. Exists(d, r)
  BY <1>2 DEF TxOK, LocksOK
<1>4. /\ s.op = t.op /\ s.arg = t.arg /\ s.at = t.at /\ s.picked = t.picked /\ s.writes = t.writes
      /\ s.todo = Tail(t.todo) /\ s \in Transactions
  <2>1. Tail(t.todo) \in Seq(Rows)
    BY <1>1
  <2> QED  BY <1>1, <2>1 DEF Transactions
<1>5. \A j \in DOMAIN t.todo : t.todo[j] = r \/ \E i \in DOMAIN s.todo : s.todo[i] = t.todo[j]
  <2> TAKE j \in DOMAIN t.todo
  <2>1. CASE j = 1
    BY <1>2, <2>1
  <2>2. CASE j # 1
    <3>1. j - 1 \in DOMAIN Tail(t.todo) /\ Tail(t.todo)[j - 1] = t.todo[j]
      BY <1>1, <2>2
    <3> QED  BY <1>4, <3>1
  <2> QED  BY <2>1, <2>2
<1>6. \A i \in DOMAIN s.todo : \E j \in DOMAIN t.todo : s.todo[i] = t.todo[j]
  <2> TAKE i \in DOMAIN s.todo
  <2>1. i + 1 \in DOMAIN t.todo /\ Tail(t.todo)[i] = t.todo[i + 1]
    BY <1>1, <1>4
  <2> QED  BY <1>4, <2>1
<1> HIDE DEF r, s
<1>7. LocksOK(d, g, s)
  <2>1. LocksOK(d, h, t)
    BY DEF TxOK
  <2>2. \A j \in DOMAIN s.todo : Exists(d, s.todo[j])
    BY <1>6, <2>1 DEF LocksOK
  <2>3. s.picked # NotStarted =>
          \A i \in DOMAIN s.picked : s.picked[i] \in g \/ \E j \in DOMAIN s.todo : s.todo[j] = s.picked[i]
    BY <1>4, <1>5, <2>1 DEF LocksOK
  <2>4. (\E a \in DOMAIN s.writes : s.writes[a] # d[a]) =>
          Serialization \in g \/ \E j \in DOMAIN s.todo : s.todo[j] = Serialization
    BY <1>4, <1>5, <2>1 DEF LocksOK
  <2>5. \A a \in DOMAIN s.writes : a \in g \/ (~Exists(d, a) /\ Serialization \in g)
    BY <1>4, <2>1 DEF LocksOK
  <2> QED  BY <2>2, <2>3, <2>4, <2>5 DEF LocksOK
<1>8. /\ t.op = "login" => LoginOK(d, g, s)
      /\ t.op \in {"enable", "disable"} => SetUserOK(d, g, s)
  BY <1>4 DEF TxOK, LoginOK, SetUserOK, Picks
<1>9. t.op = "refresh" => RefreshOK(d, g, s)
  BY <1>4 DEF TxOK, RefreshOK, Picks, HoldsToken
<1>10. t.op = "revokeSession" => RevokeSessionOK(d, g, s)
  BY <1>4 DEF TxOK, RevokeSessionOK, Picks, PicksTokens
<1>11. t.op = "revokeKey" => RevokeKeyOK(d, g, s)
  BY <1>4 DEF TxOK, RevokeKeyOK, Picks, PicksTokens
<1>12. t.op \in {"rotate", "rotateAndRevoke"} => RotateOK(d, g, s)
  <2>1. RotateWrites(d, s) = RotateWrites(d, t)
    BY <1>4 DEF RotateWrites
  <2> QED  BY <1>4, <2>1 DEF TxOK, RotateOK, Picks
<1>13. TxOK(d, g, s)
  BY <1>1, <1>4, <1>7, <1>8, <1>9, <1>10, <1>11, <1>12 DEF TxOK
<1> QED  BY <1>2, <1>3, <1>13 DEF r, s

LEMMA ShortSeqs ==
    ASSUME NEW R
    PROVE  /\ << >> \in Seq(R) /\ DOMAIN << >> = {}
           /\ \A r \in R : <<r>> \in Seq(R) /\ DOMAIN <<r>> = {1} /\ <<r>>[1] = r
OBVIOUS

LEMMA SeqOfNone == SetToSeq({}) \in [{} -> {}]
<1>1. Cardinality({}) = 0
  BY FS_EmptySet
<1>2. 1 .. 0 = {}
  OBVIOUS
<1>3. \A f \in [{} -> {}] : IsInjective(f)
  BY DEF IsInjective
<1>4. \E f \in [{} -> {}] : IsInjective(f)
  <2>1. [i \in {} |-> i] \in [{} -> {}]
    OBVIOUS
  <2> QED  BY <1>3, <2>1
<1> QED  BY <1>1, <1>2, <1>4 DEF SetToSeq

LEMMA SeqOfOne ==
    ASSUME NEW r
    PROVE  SetToSeq({r}) = <<r>>
<1>1. Cardinality({r}) = 1
  BY FS_Singleton
<1>2. <<r>> \in [1 .. 1 -> {r}] /\ IsInjective(<<r>>)
  BY DEF IsInjective
<1>3. SetToSeq({r}) \in [1 .. 1 -> {r}]
  BY <1>1, <1>2 DEF SetToSeq
<1> QED  BY <1>3

ActiveTokenRows(v) == {Token(u) : u \in {a \in Tokens : IsActive(v, Token(a))}}

\* There is one token to end at most.
LEMMA ActiveTokens ==
    ASSUME NEW d, TokensOK(d), NEW v, \A u \in Tokens : v[Token(u)] = d[Token(u)],
           NEW seq, seq = SetToSeq(ActiveTokenRows(v))
    PROVE  /\ seq \in Seq(TokenRows)
           /\ \A i \in DOMAIN seq : \E u \in Tokens : seq[i] = Token(u) /\ IsActive(d, Token(u))
           /\ \A u \in Tokens : IsActive(d, Token(u)) => \E i \in DOMAIN seq : seq[i] = Token(u)
<1> DEFINE S == ActiveTokenRows(v)
<1>1. \A u \in Tokens : IsActive(v, Token(u)) <=> IsActive(d, Token(u))
  BY DEF IsActive
<1>2. S = {} \/ \E u \in Tokens : S = {Token(u)} /\ IsActive(d, Token(u))
  BY <1>1 DEF TokensOK, ActiveTokenRows
<1>3. \A u \in Tokens : IsActive(d, Token(u)) => Token(u) \in S
  BY <1>1 DEF ActiveTokenRows
<1>4. seq = SetToSeq(S)
  OBVIOUS
<1> HIDE DEF S
<1>5. CASE S = {}
  <2>1. seq \in [{} -> {}]
    BY <1>4, <1>5, SeqOfNone
  <2>2. seq = << >>
    BY <2>1
  <2> QED  BY <1>3, <1>5, <2>2, ShortSeqs
<1>6. CASE \E u \in Tokens : S = {Token(u)} /\ IsActive(d, Token(u))
  <2>1. PICK u \in Tokens : S = {Token(u)} /\ IsActive(d, Token(u))
    BY <1>6
  <2>2. seq = <<Token(u)>>
    BY <1>4, <2>1, SeqOfOne
  <2>3. seq \in Seq(TokenRows) /\ DOMAIN seq = {1} /\ seq[1] = Token(u)
    <3>1. Token(u) \in TokenRows
      BY DEF TokenRows
    <3> QED  BY <2>2, <3>1, ShortSeqs
  <2>4. \A a \in Tokens : IsActive(d, Token(a)) => a = u
    BY <1>3, <2>1, RowNames
  <2> QED  BY <2>1, <2>3, <2>4
<1> QED  BY <1>2, <1>5, <1>6

\* What a statement may select.
SelectsOK(d, t, s) ==
  /\ s \in Seq(Rows) /\ \A i \in DOMAIN s : Exists(d, s[i])
  /\ t.at = "issue" => s \in {<< >>, <<Serialization>>}
  /\ t.at = "findToken" => s \in {<< >>} \cup {LockedByRefresh(t.arg, k) : k \in Keys}
  /\ t.at \in {"rotateSession", "replaceKey"} => s = <<Serialization>>
  /\ t.at = "endSession" => s \in {<< >>, <<Session>>}
  /\ t.at = "endTokens" =>
       /\ \A i \in DOMAIN s : s[i] \in TokenRows
       /\ \A u \in Tokens : IsActive(d, Token(u)) => \E i \in DOMAIN s : s[i] = Token(u)
  /\ t.at = "endSessionKey" => s = <<Key(d[Session].key)>>
  /\ t.at \in {"endKey", "findKey"} => s \in {<< >>, <<Key(t.arg)>>}
  /\ t.at = "endSessionOfKey" => s = If(d[Session].key = t.arg, <<Session>>)
  /\ t.at = "setUser" => s = <<User>>

LEMMA StartTx ==
    ASSUME NEW d, NEW h \in SUBSET Rows, NEW t, NEW s, TxOK(d, h, t), SelectsOK(d, t, s),
           t.op # "none", t.at # "commit", t.picked = NotStarted, t.todo = << >>
    PROVE  TxOK(d, h, [t EXCEPT !.picked = s, !.todo = s])
<1> DEFINE n == [t EXCEPT !.picked = s, !.todo = s]
<1>1. t \in Transactions /\ s \in Seq(Rows)
  BY DEF TxOK, SelectsOK
<1>2. /\ n.op = t.op /\ n.arg = t.arg /\ n.at = t.at /\ n.writes = t.writes
      /\ n.picked = s /\ n.todo = s /\ n \in Transactions
  BY <1>1 DEF Transactions
<1> HIDE DEF n
<1>3. LocksOK(d, h, n)
  BY <1>2 DEF TxOK, LocksOK, SelectsOK
<1>4. /\ t.op = "login" => LoginOK(d, h, n)
      /\ t.op \in {"enable", "disable"} => SetUserOK(d, h, n)
  BY <1>2 DEF TxOK, LoginOK, SetUserOK, Picks, SelectsOK
<1>5. t.op = "refresh" => RefreshOK(d, h, n)
  BY <1>2 DEF TxOK, RefreshOK, Picks, SelectsOK
<1>6. t.op = "revokeSession" => RevokeSessionOK(d, h, n)
  BY <1>2 DEF TxOK, RevokeSessionOK, Picks, PicksTokens, SelectsOK
<1>7. t.op = "revokeKey" => RevokeKeyOK(d, h, n)
  BY <1>2 DEF TxOK, RevokeKeyOK, Picks, PicksTokens, SelectsOK
<1>8. t.op \in {"rotate", "rotateAndRevoke"} => RotateOK(d, h, n)
  BY <1>2 DEF TxOK, RotateOK, Picks, SelectsOK
<1>9. TxOK(d, h, n)
  BY <1>2, <1>3, <1>4, <1>5, <1>6, <1>7, <1>8 DEF TxOK
<1> QED  BY <1>9 DEF n

\* What the transaction sees of its own writes does not matter to that.
LEMMA SelectsRight ==
    ASSUME Inv, NEW x \in Txs, tx[x].op # "none", tx[x].at # "commit", tx[x].picked = NotStarted,
           tx[x].todo = << >>
    PROVE  SelectsOK(db, tx[x], Selects(x))
<1> DEFINE t == tx[x]
           w == t.writes
           v == Merge(w, db)
           h == Held(x)
           s == Selects(x)
           k == v[Session].key
<1>1. TxOK(db, h, t) /\ RowsOK(db) /\ t \in Transactions
  BY DEF Inv, TxOK
<1>2. db \in [Rows -> Values] /\ w \in Writes /\ v = View(x)
  BY <1>1 DEF RowsOK, Transactions, View
<1>3. \A r \in Rows : r \notin DOMAIN w => v[r] = db[r]
  BY <1>2, MergeRow
<1>4. w = NoWrites => v = db
  BY <1>2, MergeNothing
<1>5. \A r \in Rows : IsActive(db, r) => Exists(db, r)
  BY NoRowTyped DEF IsActive, Exists
<1>6. Exists(db, Serialization) /\ Exists(db, User) /\ SessionOK(db) /\ TokensOK(db)
  BY <1>1 DEF RowsOK
<1>7. t.at \in Ats \ {"idle", "commit"}
  BY <1>1, OpOfAt DEF Transactions
<1>8. Exists(db, Session) => db[Session].key \in Keys /\ Key(db[Session].key) \in Rows
                             /\ Exists(db, Key(db[Session].key))
  BY <1>6, RowsTyped DEF Exists, SessionOK, KeyIds
<1> HIDE DEF t, w, v, h
<1>9. CASE t.at = "issue"
  <2>1. s \in {<< >>, <<Serialization>>}
    BY <1>9 DEF Selects, If, t
  <2> HIDE DEF s
  <2>2. s \in Seq(Rows) /\ \A i \in DOMAIN s : Exists(db, s[i])
    <3>1. CASE s = << >>
      BY <3>1, ShortSeqs
    <3>2. CASE s = <<Serialization>>
      BY <1>6, <3>2, RowsTyped, ShortSeqs
    <3> QED  BY <2>1, <3>1, <3>2
  <2>3. SelectsOK(db, t, s)
    BY <1>9, <2>1, <2>2 DEF SelectsOK
  <2> QED  BY <2>3 DEF s, t
<1>10. CASE t.at = "findToken"
  <2>1. w = NoWrites /\ t.arg \in Tokens
    BY <1>1, <1>10, OpOfAt DEF TxOK, RefreshOK, TokenIds, w
  <2>2. s = If(IsActive(db, User) /\ Refreshable(db, t.arg, db[Session].key),
               LockedByRefresh(t.arg, db[Session].key))
    BY <1>2, <1>4, <1>10, <2>1 DEF Selects, t, w, v
  <2>3. CASE Refreshable(db, t.arg, db[Session].key)
    <3>1. Exists(db, Session) /\ Exists(db, Token(t.arg)) /\ Token(t.arg) \in Rows
      BY <1>5, <2>1, <2>3, RowsTyped DEF Refreshable
    <3>2. LockedByRefresh(t.arg, db[Session].key) \in Seq(Rows)
      BY <1>8, <3>1, RowsTyped DEF LockedByRefresh
    <3> QED  BY <1>8, <1>10, <2>2, <3>1, <3>2 DEF SelectsOK, If, LockedByRefresh, t
  <2>4. CASE ~Refreshable(db, t.arg, db[Session].key)
    <3>1. s = << >>
      BY <2>2, <2>4 DEF If
    <3> QED  BY <1>10, <3>1 DEF SelectsOK, t
  <2> QED  BY <2>3, <2>4
<1>11. CASE t.at \in {"rotateSession", "replaceKey"}
  <2>1. s = <<Serialization>>
    BY <1>11 DEF Selects, t
  <2> QED  BY <1>6, <1>11, <2>1, RowsTyped DEF SelectsOK, t
<1>12. CASE t.at = "endSession"
  <2>1. w = NoWrites
    BY <1>1, <1>12, OpOfAt DEF TxOK, RevokeSessionOK, w
  <2>2. s = If(db[Session] # NoRow, <<Session>>)
    BY <1>2, <1>4, <1>12, <2>1 DEF Selects, t, w, v
  <2> QED  BY <1>12, <2>2, RowsTyped DEF SelectsOK, If, Exists, t
<1>13. CASE t.at = "endTokens"
  <2>1. DOMAIN w \subseteq {Session} \cup {Key(a) : a \in Keys}
    <3>1. CASE t.op = "revokeSession"
      BY <1>1, <1>13, <3>1 DEF TxOK, RevokeSessionOK, w
    <3>2. CASE t.op = "revokeKey"
      <4>1. RevokeKeyOK(db, h, t)
        BY <1>1, <3>2 DEF TxOK
      <4>2. t.arg \in Keys /\ DOMAIN w = {Key(t.arg), Session}
        BY <1>13, <4>1 DEF RevokeKeyOK, KeyIds, w
      <4> QED  BY <4>2
    <3> QED  BY <1>1, <1>13, <3>1, <3>2, OpOfAt
  <2>2. \A u \in Tokens : v[Token(u)] = db[Token(u)]
    BY <1>3, <2>1, RowNames, RowsTyped
  <2>3. s = SetToSeq(ActiveTokenRows(v))
    BY <1>2, <1>13 DEF Selects, ActiveTokenRows, t
  <2> HIDE DEF s
  <2>4. /\ s \in Seq(TokenRows)
        /\ \A i \in DOMAIN s : \E u \in Tokens : s[i] = Token(u) /\ IsActive(db, Token(u))
        /\ \A u \in Tokens : IsActive(db, Token(u)) => \E i \in DOMAIN s : s[i] = Token(u)
    BY <1>6, <2>2, <2>3, ActiveTokens
  <2>5. s \in Seq(Rows)
    BY <2>4, RowsTyped
  <2>6. \A i \in DOMAIN s : Exists(db, s[i]) /\ s[i] \in TokenRows
    BY <1>5, <2>4, RowsTyped DEF TokenRows
  <2>7. SelectsOK(db, t, s)
    BY <1>13, <2>4, <2>5, <2>6 DEF SelectsOK
  <2> QED  BY <2>7 DEF s, t
<1>14. CASE t.at = "endSessionKey"
  <2>1. Session \in DOMAIN w /\ w[Session] = Revoked(db, Session) /\ Exists(db, Session)
    BY <1>1, <1>14, OpOfAt DEF TxOK, RevokeSessionOK, OnlyRevokes, w
  <2>2. k = db[Session].key
    BY <1>2, <2>1, MergeRow, RevokedRow, RowsTyped DEF v
  <2>3. s = <<Key(db[Session].key)>>
    BY <1>2, <1>14, <2>2 DEF Selects, t
  <2> QED  BY <1>8, <1>14, <2>1, <2>3 DEF SelectsOK, t
<1>15. CASE t.at = "endKey"
  <2>1. w = NoWrites /\ t.arg \in Keys
    BY <1>1, <1>15, OpOfAt DEF TxOK, RevokeKeyOK, KeyIds, w
  <2>2. s = If(db[Key(t.arg)] # NoRow, <<Key(t.arg)>>)
    BY <1>2, <1>4, <1>15, <2>1 DEF Selects, t, w, v
  <2> QED  BY <1>15, <2>1, <2>2, RowsTyped DEF SelectsOK, If, Exists, t
<1>16. CASE t.at = "endSessionOfKey"
  <2>1. DOMAIN w = {Key(t.arg)} /\ t.arg \in KeyIds(db)
    BY <1>1, <1>16, OpOfAt DEF TxOK, RevokeKeyOK, w
  <2>2. v[Session] = db[Session]
    BY <1>3, <2>1, RowNames, RowsTyped
  <2>3. s = If(db[Session].key = t.arg, <<Session>>)
    BY <1>2, <1>16, <2>2 DEF Selects, t
  <2>4. Exists(db, Session)
    BY <1>6, <2>1 DEF SessionOK, Exists
  <2> QED  BY <1>16, <2>3, <2>4, RowsTyped DEF SelectsOK, If, t
<1>17. CASE t.at = "findKey"
  <2>1. w = NoWrites /\ t.arg \in Keys
    BY <1>1, <1>17, OpOfAt DEF TxOK, RotateOK, KeyIds, w
  <2>2. s = If(IsActive(db, Key(t.arg)), <<Key(t.arg)>>)
    BY <1>2, <1>4, <1>17, <2>1 DEF Selects, t, w, v
  <2> QED  BY <1>5, <1>17, <2>1, <2>2, RowsTyped DEF SelectsOK, If, t
<1>18. CASE t.at = "setUser"
  <2>1. s = <<User>>
    BY <1>18 DEF Selects, t
  <2> QED  BY <1>6, <1>18, <2>1, RowsTyped DEF SelectsOK, t
<1> QED  BY <1>7, <1>9, <1>10, <1>11, <1>12, <1>13, <1>14, <1>15, <1>16, <1>17, <1>18 DEF Ats

\* Who holds h may write the rows of w.
MayWrite(d, h, w) == \A r \in DOMAIN w : r \in h \/ (~Exists(d, r) /\ Serialization \in h)

\* The transaction after a statement wrote w.
Applied(d, t, w, next) ==
  [t EXCEPT !.at = next, !.picked = NotStarted,
            !.todo = IF \E r \in DOMAIN w : w[r] # Merge(t.writes, d)[r] THEN <<Serialization>> ELSE << >>,
            !.writes = [r \in DOMAIN @ \cup DOMAIN w |-> IF r \in DOMAIN w THEN w[r] ELSE @[r]]]

WritesApplied(d, h, t, w, next, n) ==
  /\ n \in Transactions /\ LocksOK(d, h, n)
  /\ n.op = t.op /\ n.arg = t.arg /\ n.at = next /\ n.picked = NotStarted
  /\ DOMAIN n.writes = DOMAIN t.writes \cup DOMAIN w
  /\ \A r \in DOMAIN w : n.writes[r] = w[r]
  /\ \A r \in DOMAIN t.writes : r \notin DOMAIN w => n.writes[r] = t.writes[r]
  /\ t.writes = NoWrites => n.writes = w
  /\ w = NoWrites => n.writes = t.writes

LEMMA AppliedTx ==
    ASSUME NEW d, NEW h \in SUBSET Rows, NEW t, NEW w, NEW next, RowsOK(d), TxOK(d, h, t),
           t.todo = << >>, w \in Writes, next \in Ats,
           MayWrite(d, h, w),
           NEW n, n = Applied(d, t, w, next)
    PROVE  WritesApplied(d, h, t, w, next, n)
<1> DEFINE changes == \E r \in DOMAIN w : w[r] # Merge(t.writes, d)[r]
           todo == IF changes THEN <<Serialization>> ELSE << >>
           all == DOMAIN t.writes \cup DOMAIN w
           writes == [r \in all |-> IF r \in DOMAIN w THEN w[r] ELSE t.writes[r]]
<1>1. t \in Transactions /\ t.writes \in Writes /\ d \in [Rows -> Values]
  BY DEF TxOK, Transactions, RowsOK
<1>2. n = [t EXCEPT !.at = next, !.picked = NotStarted, !.todo = todo, !.writes = writes]
  BY <1>1 DEF Applied, Transactions
<1>3. todo \in Seq(Rows) /\ NotStarted \in Seq(Rows)
  BY RowsTyped, ShortSeqs DEF NotStarted
<1>4. writes \in Writes
  <2>1. DOMAIN w \subseteq Rows /\ DOMAIN t.writes \subseteq Rows
    BY <1>1 DEF Writes
  <2>2. \A r \in DOMAIN w : w[r] \in Values
    BY DEF Writes
  <2>3. \A r \in DOMAIN t.writes : t.writes[r] \in Values
    BY <1>1 DEF Writes
  <2>4. writes \in [all -> Values] /\ all \in SUBSET Rows
    BY <2>1, <2>2, <2>3
  <2> QED  BY <2>4 DEF Writes
<1>5. /\ t.writes = NoWrites => writes = w
      /\ w = NoWrites => writes = t.writes
  BY <1>1, NoRowTyped DEF Writes
<1>6. /\ DOMAIN writes = all
      /\ \A r \in DOMAIN w : writes[r] = w[r]
      /\ \A r \in DOMAIN t.writes : r \notin DOMAIN w => writes[r] = t.writes[r]
  OBVIOUS
<1>7. changes => todo = <<Serialization>>
  OBVIOUS
<1>8. ~changes => \A r \in DOMAIN w : w[r] = Merge(t.writes, d)[r]
  OBVIOUS
<1> HIDE DEF writes, todo, changes
<1>9. /\ n \in Transactions /\ n.op = t.op /\ n.arg = t.arg /\ n.at = next
      /\ n.picked = NotStarted /\ n.todo = todo /\ n.writes = writes
  BY <1>1, <1>2, <1>3, <1>4 DEF Transactions
<1>10. LocksOK(d, h, n)
  <2>1. \A j \in DOMAIN todo : todo[j] = Serialization
    BY ShortSeqs DEF todo
  <2>2. \A j \in DOMAIN n.todo : Exists(d, n.todo[j])
    BY <1>9, <2>1 DEF RowsOK
  <2>3. \A r \in DOMAIN n.writes : r \in h \/ (~Exists(d, r) /\ Serialization \in h)
    BY <1>6, <1>9 DEF TxOK, LocksOK, MayWrite
  <2>4. ASSUME NEW r \in DOMAIN n.writes, n.writes[r] # d[r]
        PROVE  Serialization \in h \/ \E j \in DOMAIN n.todo : n.todo[j] = Serialization
    <3>1. CASE changes
      <4>1. n.todo = <<Serialization>>
        BY <1>7, <1>9, <3>1
      <4> QED  BY <4>1
    <3>2. CASE ~changes
      <4>1. r \in DOMAIN t.writes /\ t.writes[r] # d[r]
        <5>1. CASE r \in DOMAIN w
          <6>1. r \in Rows /\ w[r] = Merge(t.writes, d)[r] /\ w[r] # d[r]
            BY <1>6, <1>8, <1>9, <2>4, <3>2, <5>1 DEF Writes
          <6> QED  BY <1>1, <6>1, MergeRow
        <5>2. CASE r \notin DOMAIN w
          BY <1>6, <1>9, <2>4, <5>2
        <5> QED  BY <5>1, <5>2
      <4> QED  BY <4>1 DEF TxOK, LocksOK
    <3> QED  BY <3>1, <3>2
  <2> QED  BY <1>9, <2>2, <2>3, <2>4 DEF LocksOK
<1>11. DOMAIN n.writes = DOMAIN t.writes \cup DOMAIN w
  BY <1>6, <1>9
<1> QED  BY <1>5, <1>6, <1>9, <1>10, <1>11 DEF WritesApplied

WritesBecome(d, h, t, w, next, n) ==
  /\ n \in Transactions /\ LocksOK(d, h, n)
  /\ n.op = t.op /\ n.arg = t.arg /\ n.at = next /\ n.picked = NotStarted /\ n.writes = w

\* The first statement that writes.
LEMMA FirstApplied ==
    ASSUME NEW d, NEW h \in SUBSET Rows, NEW t, NEW w, NEW next, RowsOK(d), TxOK(d, h, t),
           t.todo = << >>, w \in Writes, next \in Ats, t.writes = NoWrites,
           MayWrite(d, h, w),
           NEW n, n = Applied(d, t, w, next)
    PROVE  WritesBecome(d, h, t, w, next, n)
<1>1. WritesApplied(d, h, t, w, next, n)
  BY AppliedTx
<1> QED  BY <1>1 DEF WritesApplied, WritesBecome

\* A statement that writes nothing.
LEMMA NothingApplied ==
    ASSUME NEW d, NEW h \in SUBSET Rows, NEW t, NEW next, RowsOK(d), TxOK(d, h, t),
           t.todo = << >>, next \in Ats, NEW n, n = Applied(d, t, NoWrites, next)
    PROVE  WritesBecome(d, h, t, t.writes, next, n)
<1>1. NoWrites \in Writes /\ MayWrite(d, h, NoWrites)
  BY NoRowTyped DEF MayWrite
<1>2. WritesApplied(d, h, t, NoWrites, next, n)
  BY <1>1, AppliedTx
<1> QED  BY <1>2 DEF WritesApplied, WritesBecome

\* A transaction at a statement with every row it selected.
IsReady(d, h, t, statement) ==
  /\ RowsOK(d) /\ TxOK(d, h, t) /\ t.at = statement
  /\ t.picked # NotStarted /\ t.todo = << >>

LEMMA ReadyHolds ==
    ASSUME NEW d, NEW h, NEW t, NEW statement, IsReady(d, h, t, statement)
    PROVE  /\ \A i \in DOMAIN t.picked : t.picked[i] \in h
           /\ \A r : t.picked = <<r>> => r \in h
           /\ d \in [Rows -> Values]
<1>1. \A i \in DOMAIN t.picked : t.picked[i] \in h
  BY DEF IsReady, TxOK, LocksOK
<1> QED  BY <1>1 DEF IsReady, RowsOK

LEMMA IssueLoginTx ==
    ASSUME NEW d, NEW h \in SUBSET Rows, NEW t, NEW busy, NEW n, IsReady(d, h, t, "issue"),
           CountsOK(d, busy, n), IsFiniteSet(busy), busy # {}, t.picked # << >>, d[Session] = NoRow
    PROVE  TxOK(d, h, Applied(d, t, [r \in {Key(NextKey(d)), Session, Token(NextToken(d))} |-> NewLogin(d)],
                              "commit"))
<1> DEFINE k == NextKey(d)
           u == NextToken(d)
           w == [r \in {Key(k), Session, Token(u)} |-> NewLogin(d)]
           s == Applied(d, t, w, "commit")
<1>1. t.op = "login" /\ t.writes = NoWrites /\ t.picked = <<Serialization>>
  BY OpOfAt DEF IsReady, TxOK, LoginOK, Picks
<1>2. Serialization \in h
  BY <1>1, ReadyHolds
<1>3. k \in Keys /\ u \in Tokens /\ ~Exists(d, Key(k)) /\ ~Exists(d, Token(u)) /\ ~Exists(d, Session)
  BY NextIds DEF Exists
<1>4. NewLogin(d) \in Values
  BY <1>3, NewLoginTyped
<1>5. w \in Writes /\ DOMAIN w = {Key(k), Session, Token(u)}
  <2>1. {Key(k), Session, Token(u)} \in SUBSET Rows
    BY <1>3, RowsTyped
  <2>2. w \in [{Key(k), Session, Token(u)} -> Values]
    BY <1>4
  <2> QED  BY <2>1, <2>2 DEF Writes
<1>s. s = Applied(d, t, w, "commit") /\ "commit" \in Ats
  BY DEF Ats
<1> HIDE DEF w, s
<1>6. MayWrite(d, h, w)
  BY <1>2, <1>3, <1>5 DEF MayWrite
<1>7. s \in Transactions /\ LocksOK(d, h, s) /\ s.op = "login" /\ s.at = "commit" /\ s.writes = w
  <2>1. WritesBecome(d, h, t, w, "commit", s)
    BY <1>s, <1>1, <1>5, <1>6, FirstApplied DEF IsReady
  <2> QED  BY <1>1, <2>1 DEF WritesBecome
<1>8. LoginOK(d, h, s)
  BY <1>2, <1>7 DEF LoginOK, w
<1>9. TxOK(d, h, s)
  BY <1>7, <1>8 DEF TxOK
<1> QED  BY <1>9 DEF s, w

LEMMA FindTokenTx ==
    ASSUME NEW d, NEW h \in SUBSET Rows, NEW t, IsReady(d, h, t, "findToken"), t.picked # << >>,
           Refreshable(d, t.arg, Last(t.picked)[2])
    PROVE  TxOK(d, h, Applied(d, t, NoWrites, "rotateSession"))
<1> DEFINE s == Applied(d, t, NoWrites, "rotateSession")
<1>1. t.op = "refresh" /\ t.writes = NoWrites /\ t.arg \in TokenIds(d)
  BY OpOfAt DEF IsReady, TxOK, RefreshOK
<1>2. PICK k \in Keys : t.picked = <<Token(t.arg), Session, Key(k)>>
  BY <1>1 DEF IsReady, TxOK, RefreshOK, Picks, LockedByRefresh
<1>3. Last(t.picked) = Key(k) /\ Key(k)[2] = k
  BY <1>2 DEF Last, Key
<1>4. Refreshable(d, t.arg, k) /\ d[Session].key = k
  BY <1>3 DEF Refreshable
<1>5. {Token(t.arg), Session, Key(k)} \subseteq h
  <2>1. \A i \in {1, 2, 3} : t.picked[i] \in h
    BY <1>2, ReadyHolds
  <2> QED  BY <1>2, <2>1
<1>6. HoldsToken(d, h, t.arg)
  BY <1>4, <1>5 DEF HoldsToken
<1>s. s = Applied(d, t, NoWrites, "rotateSession") /\ "rotateSession" \in Ats
  BY DEF Ats
<1> HIDE DEF s
<1>7. /\ s \in Transactions /\ LocksOK(d, h, s) /\ s.op = "refresh" /\ s.at = "rotateSession"
      /\ s.writes = NoWrites /\ s.picked = NotStarted /\ s.arg = t.arg
  <2>1. WritesBecome(d, h, t, t.writes, "rotateSession", s)
    BY <1>s, NothingApplied DEF IsReady
  <2> QED  BY <1>1, <2>1 DEF WritesBecome
<1>8. RefreshOK(d, h, s)
  BY <1>1, <1>6, <1>7 DEF RefreshOK, Picks
<1>9. TxOK(d, h, s)
  BY <1>7, <1>8 DEF TxOK
<1> QED  BY <1>9 DEF s

LEMMA RotateSessionTx ==
    ASSUME NEW d, NEW h \in SUBSET Rows, NEW t, NEW busy, NEW n, IsReady(d, h, t, "rotateSession"),
           CountsOK(d, busy, n), IsFiniteSet(busy), busy # {}
    PROVE  TxOK(d, h, Applied(d, t, RefreshWrites(d, t.arg), "commit"))
<1> DEFINE k == NextKey(d)
           u == NextToken(d)
           o == d[Session].key
           w == RefreshWrites(d, t.arg)
           s == Applied(d, t, w, "commit")
<1>1. /\ t.op = "refresh" /\ t.writes = NoWrites /\ t.arg \in TokenIds(d) /\ t.arg \in Tokens
      /\ HoldsToken(d, h, t.arg) /\ t.picked = <<Serialization>>
  BY OpOfAt DEF IsReady, TxOK, RefreshOK, Picks, TokenIds
<1>2. Serialization \in h /\ d \in [Rows -> Values]
  BY <1>1, ReadyHolds
<1>3. k \in Keys /\ u \in Tokens /\ ~Exists(d, Key(k)) /\ ~Exists(d, Token(u))
  BY NextIds DEF Exists
<1>4. NewLogin(d) \in Values
  BY <1>3, NewLoginTyped
<1>5. {Token(t.arg), Session, Key(o)} \subseteq h /\ Key(o) \in Rows
  BY <1>1 DEF HoldsToken
<1>6. DOMAIN w = {Key(k), Token(u), Session, Key(o), Token(t.arg)}
  BY DEF RefreshWrites
<1>7. w \in Writes
  <2>1. [d[Key(o)] EXCEPT !.state = "revoked"] \in Values /\ [d[Token(t.arg)] EXCEPT !.state = "used"] \in Values
    <3>1. d[Key(o)] \in Values /\ d[Token(t.arg)] \in Values
      BY <1>2, <1>5
    <3> QED  BY <3>1 DEF Values
  <2>2. {Key(k), Token(u), Session, Key(o), Token(t.arg)} \in SUBSET Rows
    BY <1>3, <1>5, RowsTyped
  <2>3. w \in [{Key(k), Token(u), Session, Key(o), Token(t.arg)} -> Values]
    BY <1>4, <2>1 DEF RefreshWrites
  <2> QED  BY <2>2, <2>3 DEF Writes
<1>8. MayWrite(d, h, w)
  BY <1>2, <1>3, <1>5, <1>6 DEF MayWrite
<1>s. s = Applied(d, t, w, "commit") /\ "commit" \in Ats
  BY DEF Ats
<1> HIDE DEF w, s
<1>9. /\ s \in Transactions /\ LocksOK(d, h, s) /\ s.op = "refresh" /\ s.at = "commit" /\ s.writes = w
      /\ s.arg = t.arg
  <2>1. WritesBecome(d, h, t, w, "commit", s)
    BY <1>s, <1>1, <1>7, <1>8, FirstApplied DEF IsReady
  <2> QED  BY <1>1, <2>1 DEF WritesBecome
<1>10. RefreshOK(d, h, s)
  BY <1>1, <1>2, <1>9 DEF RefreshOK, w
<1>11. TxOK(d, h, s)
  BY <1>9, <1>10 DEF TxOK
<1> QED  BY <1>11 DEF s, w

\* A statement that sets revoked_at of the rows R.
RevokesBecome(d, h, t, R, next, n) ==
  /\ n \in Transactions /\ LocksOK(d, h, n)
  /\ n.op = t.op /\ n.arg = t.arg /\ n.at = next /\ n.picked = NotStarted
  /\ DOMAIN n.writes = DOMAIN t.writes \cup R /\ OnlyRevokes(d, n.writes)

LEMMA RevokeTx ==
    ASSUME NEW d, NEW h \in SUBSET Rows, NEW t, NEW R \in SUBSET h, NEW next, RowsOK(d), TxOK(d, h, t),
           t.todo = << >>, next \in Ats, OnlyRevokes(d, t.writes),
           NEW n, n = Applied(d, t, [r \in R |-> Revoked(Merge(t.writes, d), r)], next)
    PROVE  RevokesBecome(d, h, t, R, next, n)
<1> DEFINE v == Merge(t.writes, d)
           w == [r \in R |-> Revoked(v, r)]
<1>1. t.writes \in Writes /\ d \in [Rows -> Values]
  BY DEF TxOK, Transactions, RowsOK
<1>2. \A r \in R : v[r] \in {d[r], Revoked(d, r)} /\ r \in Rows /\ d[r] \in Values
  BY <1>1, MergeRow DEF OnlyRevokes
<1>3. \A r \in R : Revoked(v, r) = Revoked(d, r) /\ Revoked(v, r) \in Values
  <2> TAKE r \in R
  <2>1. d[r] \in Values
    BY <1>2
  <2>2. CASE v[r] = d[r]
    BY <2>1, <2>2, RevokedRow DEF Revoked
  <2>3. CASE v[r] = Revoked(d, r)
    BY <2>1, <2>3 DEF Revoked, Values
  <2> QED  BY <1>2, <2>2, <2>3
<1>4. w \in Writes
  <2>1. w \in [R -> Values] /\ R \in SUBSET Rows
    BY <1>3
  <2> QED  BY <2>1 DEF Writes
<1>5. DOMAIN w = R /\ \A r \in R : w[r] = Revoked(d, r)
  BY <1>3
<1>6. n = Applied(d, t, w, next)
  OBVIOUS
<1> HIDE DEF w
<1>7. MayWrite(d, h, w)
  BY <1>5 DEF MayWrite
<1>8. WritesApplied(d, h, t, w, next, n)
  BY <1>4, <1>6, <1>7, AppliedTx
<1>9. OnlyRevokes(d, n.writes)
  BY <1>5, <1>8 DEF WritesApplied, OnlyRevokes
<1> QED  BY <1>5, <1>8, <1>9 DEF WritesApplied, RevokesBecome

LEMMA RevokesNothingYet ==
    ASSUME NEW d
    PROVE  OnlyRevokes(d, NoWrites)
BY NoRowTyped DEF OnlyRevokes

LEMMA EndSessionTx ==
    ASSUME NEW d, NEW h \in SUBSET Rows, NEW t, IsReady(d, h, t, "endSession"), t.picked # << >>,
           \A r \in h : Exists(d, r),
           NEW n, n = Applied(d, t, [r \in {Session} |-> Revoked(Merge(t.writes, d), r)], "endTokens")
    PROVE  TxOK(d, h, n)
<1>1. t.op = "revokeSession" /\ t.writes = NoWrites /\ t.picked = <<Session>>
  BY OpOfAt DEF IsReady, TxOK, RevokeSessionOK, Picks
<1>2. Session \in h /\ Exists(d, Session)
  BY <1>1, ReadyHolds
<1>3. OnlyRevokes(d, t.writes) /\ {Session} \in SUBSET h /\ "endTokens" \in Ats
  BY <1>1, <1>2, RevokesNothingYet DEF Ats
<1>4. RevokesBecome(d, h, t, {Session}, "endTokens", n)
  BY <1>3, RevokeTx DEF IsReady
<1>5. RevokeSessionOK(d, h, n)
  BY <1>1, <1>2, <1>4, NoRowTyped DEF RevokesBecome, RevokeSessionOK, PicksTokens
<1> QED  BY <1>1, <1>4, <1>5 DEF TxOK, RevokesBecome

LEMMA EndTokensTx ==
    ASSUME NEW d, NEW h \in SUBSET Rows, NEW t, IsReady(d, h, t, "endTokens"),
           NEW next, next = IF t.op = "revokeSession" THEN "endSessionKey" ELSE "commit",
           NEW n, n = Applied(d, t, [r \in {t.picked[i] : i \in DOMAIN t.picked} |->
                                       Revoked(Merge(t.writes, d), r)], next)
    PROVE  TxOK(d, h, n)
<1> DEFINE R == {t.picked[i] : i \in DOMAIN t.picked}
<1>1. /\ OnlyRevokes(d, t.writes) /\ PicksTokens(d, t) /\ Session \in DOMAIN t.writes
      /\ t.op \in {"revokeSession", "revokeKey"}
  BY OpOfAt DEF IsReady, TxOK, RevokeSessionOK, RevokeKeyOK
<1>2. R \in SUBSET h
  BY ReadyHolds
<1>3. R \subseteq TokenRows /\ \A u \in Tokens : IsActive(d, Token(u)) => Token(u) \in R
  BY <1>1 DEF PicksTokens, IsReady
<1>4. next \in Ats
  BY DEF Ats
<1>5. n = Applied(d, t, [r \in R |-> Revoked(Merge(t.writes, d), r)], next)
  OBVIOUS
<1> HIDE DEF R
<1>6. RevokesBecome(d, h, t, R, next, n)
  BY <1>1, <1>2, <1>4, <1>5, RevokeTx DEF IsReady
<1>7. CoversTokens(d, n.writes)
  BY <1>3, <1>6 DEF RevokesBecome, CoversTokens
<1>8. CASE t.op = "revokeSession"
  <2>1. Session \in h /\ Exists(d, Session) /\ DOMAIN t.writes = {Session}
    BY <1>8 DEF IsReady, TxOK, RevokeSessionOK
  <2>2. RevokeSessionOK(d, h, n)
    BY <1>3, <1>6, <1>7, <1>8, <2>1 DEF RevokesBecome, RevokeSessionOK, Picks
  <2> QED  BY <1>6, <1>8, <2>2 DEF TxOK, RevokesBecome
<1>9. CASE t.op = "revokeKey"
  <2>1. /\ t.arg \in KeyIds(d) /\ Key(t.arg) \in h /\ d[Session].key = t.arg /\ Session \in h
        /\ DOMAIN t.writes = {Key(t.arg), Session}
    BY <1>9 DEF IsReady, TxOK, RevokeKeyOK
  <2>2. RevokeKeyOK(d, h, n)
    BY <1>3, <1>6, <1>7, <1>9, <2>1 DEF RevokesBecome, RevokeKeyOK
  <2> QED  BY <1>6, <1>9, <2>2 DEF TxOK, RevokesBecome
<1> QED  BY <1>1, <1>8, <1>9

LEMMA EndSessionKeyTx ==
    ASSUME NEW d, NEW h \in SUBSET Rows, NEW t, IsReady(d, h, t, "endSessionKey"),
           NEW n, n = Applied(d, t, [r \in {Key(Merge(t.writes, d)[Session].key)} |->
                                       Revoked(Merge(t.writes, d), r)], "commit")
    PROVE  TxOK(d, h, n)
<1> DEFINE key == Key(d[Session].key)
<1>1. /\ t.op = "revokeSession" /\ OnlyRevokes(d, t.writes) /\ Session \in DOMAIN t.writes
      /\ Session \in h /\ Exists(d, Session) /\ CoversTokens(d, t.writes)
      /\ DOMAIN t.writes \subseteq {Session} \cup TokenRows /\ t.picked = <<key>>
  BY OpOfAt DEF IsReady, TxOK, RevokeSessionOK, Picks
<1>2. Merge(t.writes, d)[Session].key = d[Session].key
  <2>1. t.writes \in Writes /\ d \in [Rows -> Values] /\ t.writes[Session] = Revoked(d, Session)
    BY <1>1 DEF IsReady, TxOK, Transactions, RowsOK, OnlyRevokes
  <2> QED  BY <1>1, <2>1, MergeRow, RevokedRow, RowsTyped
<1>3. {key} \in SUBSET h /\ "commit" \in Ats
  BY <1>1, ReadyHolds DEF Ats
<1>4. n = Applied(d, t, [r \in {key} |-> Revoked(Merge(t.writes, d), r)], "commit")
  BY <1>2
<1> HIDE DEF key
<1>5. RevokesBecome(d, h, t, {key}, "commit", n)
  BY <1>1, <1>3, <1>4, RevokeTx DEF IsReady
<1>6. CoversTokens(d, n.writes)
  BY <1>1, <1>5 DEF RevokesBecome, CoversTokens
<1>7. RevokeSessionOK(d, h, n)
  BY <1>1, <1>5, <1>6 DEF RevokesBecome, RevokeSessionOK, key
<1> QED  BY <1>1, <1>5, <1>7 DEF TxOK, RevokesBecome

LEMMA EndKeyTx ==
    ASSUME NEW d, NEW h \in SUBSET Rows, NEW t, IsReady(d, h, t, "endKey"), t.picked # << >>,
           NEW n, n = Applied(d, t, [r \in {Key(t.arg)} |-> Revoked(Merge(t.writes, d), r)],
                              "endSessionOfKey")
    PROVE  TxOK(d, h, n)
<1> DEFINE key == Key(t.arg)
<1>1. t.op = "revokeKey" /\ t.writes = NoWrites /\ t.picked = <<key>> /\ t.arg \in KeyIds(d)
  BY OpOfAt DEF IsReady, TxOK, RevokeKeyOK, Picks
<1>2. OnlyRevokes(d, t.writes) /\ {key} \in SUBSET h /\ "endSessionOfKey" \in Ats
  BY <1>1, ReadyHolds, RevokesNothingYet DEF Ats
<1>3. RevokesBecome(d, h, t, {key}, "endSessionOfKey", n)
  BY <1>2, RevokeTx DEF IsReady
<1>4. RevokeKeyOK(d, h, n)
  BY <1>1, <1>2, <1>3, NoRowTyped DEF RevokesBecome, RevokeKeyOK, Picks
<1> QED  BY <1>1, <1>3, <1>4 DEF TxOK, RevokesBecome

\* The session a key belongs to, as a statement that wrote only the key sees it.
NamedKey(d, h, t) ==
  /\ t.op = "revokeKey" /\ t.arg \in KeyIds(d) /\ Key(t.arg) \in h
  /\ DOMAIN t.writes = {Key(t.arg)} /\ OnlyRevokes(d, t.writes)
  /\ t.picked = If(d[Session].key = t.arg, <<Session>>)
  /\ Merge(t.writes, d)[Session] = d[Session]

LEMMA EndSessionOfKeySees ==
    ASSUME NEW d, NEW h \in SUBSET Rows, NEW t, IsReady(d, h, t, "endSessionOfKey")
    PROVE  NamedKey(d, h, t)
<1>1. /\ t.op = "revokeKey" /\ t.arg \in KeyIds(d) /\ Key(t.arg) \in h
      /\ DOMAIN t.writes = {Key(t.arg)} /\ OnlyRevokes(d, t.writes)
      /\ t.picked = If(d[Session].key = t.arg, <<Session>>)
  BY OpOfAt DEF IsReady, TxOK, RevokeKeyOK, Picks
<1>2. t.writes \in Writes /\ d \in [Rows -> Values]
  BY DEF IsReady, TxOK, Transactions, RowsOK
<1> QED  BY <1>1, <1>2, MergeRow, RowNames, RowsTyped DEF NamedKey

LEMMA EndSessionOfKeyTx ==
    ASSUME NEW d, NEW h \in SUBSET Rows, NEW t, IsReady(d, h, t, "endSessionOfKey"),
           d[Session].key = t.arg,
           NEW n, n = Applied(d, t, [r \in {Session} |-> Revoked(Merge(t.writes, d), r)], "endTokens")
    PROVE  TxOK(d, h, n)
<1>1. /\ t.op = "revokeKey" /\ t.arg \in KeyIds(d) /\ Key(t.arg) \in h
      /\ DOMAIN t.writes = {Key(t.arg)} /\ OnlyRevokes(d, t.writes) /\ t.picked = <<Session>>
  BY EndSessionOfKeySees DEF If, NamedKey
<1>2. {Session} \in SUBSET h /\ "endTokens" \in Ats
  BY <1>1, ReadyHolds DEF Ats
<1>3. RevokesBecome(d, h, t, {Session}, "endTokens", n)
  BY <1>1, <1>2, RevokeTx DEF IsReady
<1>4. RevokeKeyOK(d, h, n)
  BY <1>1, <1>2, <1>3 DEF RevokesBecome, RevokeKeyOK, PicksTokens
<1> QED  BY <1>1, <1>3, <1>4 DEF TxOK, RevokesBecome

LEMMA KeyWithoutSessionTx ==
    ASSUME NEW d, NEW h \in SUBSET Rows, NEW t, IsReady(d, h, t, "endSessionOfKey"),
           d[Session].key # t.arg, NEW n, n = Applied(d, t, NoWrites, "commit")
    PROVE  TxOK(d, h, n)
<1>1. /\ t.op = "revokeKey" /\ t.arg \in KeyIds(d) /\ Key(t.arg) \in h
      /\ DOMAIN t.writes = {Key(t.arg)} /\ OnlyRevokes(d, t.writes)
  BY EndSessionOfKeySees DEF NamedKey
<1>2. "commit" \in Ats
  BY DEF Ats
<1>3. WritesBecome(d, h, t, t.writes, "commit", n)
  BY <1>2, NothingApplied DEF IsReady
<1>4. RevokeKeyOK(d, h, n)
  BY <1>1, <1>3 DEF WritesBecome, RevokeKeyOK
<1> QED  BY <1>1, <1>3, <1>4 DEF TxOK, WritesBecome

LEMMA FindKeyTx ==
    ASSUME NEW d, NEW h \in SUBSET Rows, NEW t, IsReady(d, h, t, "findKey"), t.picked # << >>,
           IsActive(d, Key(t.arg)), NEW n, n = Applied(d, t, NoWrites, "replaceKey")
    PROVE  TxOK(d, h, n)
<1>1. /\ t.op \in {"rotate", "rotateAndRevoke"} /\ t.arg \in KeyIds(d) /\ t.writes = NoWrites
      /\ t.picked = <<Key(t.arg)>>
  BY OpOfAt DEF IsReady, TxOK, RotateOK, Picks
<1>2. Key(t.arg) \in h /\ "replaceKey" \in Ats
  BY <1>1, ReadyHolds DEF Ats
<1>3. WritesBecome(d, h, t, t.writes, "replaceKey", n)
  BY <1>2, NothingApplied DEF IsReady
<1>4. RotateOK(d, h, n)
  BY <1>1, <1>2, <1>3 DEF WritesBecome, RotateOK, Picks
<1> QED  BY <1>1, <1>3, <1>4 DEF TxOK, WritesBecome

LEMMA ReplaceKeyTx ==
    ASSUME NEW d, NEW h \in SUBSET Rows, NEW t, NEW busy, NEW i, IsReady(d, h, t, "replaceKey"),
           CountsOK(d, busy, i), IsFiniteSet(busy), busy # {},
           NEW n, n = Applied(d, t, RotateWrites(d, t), "commit")
    PROVE  TxOK(d, h, n)
<1> DEFINE w == RotateWrites(d, t)
           rows == {Key(NextKey(d))} \cup (IF t.op = "rotateAndRevoke" THEN {Key(t.arg)} ELSE {})
<1>1. /\ t.op \in {"rotate", "rotateAndRevoke"} /\ t.arg \in KeyIds(d) /\ t.writes = NoWrites
      /\ Key(t.arg) \in h /\ IsActive(d, Key(t.arg)) /\ t.picked = <<Serialization>>
  BY OpOfAt DEF IsReady, TxOK, RotateOK, Picks
<1>2. Serialization \in h /\ "commit" \in Ats /\ d \in [Rows -> Values]
  BY <1>1, ReadyHolds DEF Ats
<1>3. NextKey(d) \in Keys /\ ~Exists(d, Key(NextKey(d)))
  BY NextIds DEF Exists
<1>4. rows \in SUBSET Rows
  BY <1>1, <1>3, RowsTyped
<1>5. DOMAIN w = rows
  BY DEF RotateWrites
<1>6. w \in Writes
  <2>1. [d[Key(t.arg)] EXCEPT !.state = "replaced"] \in Values
    <3>1. d[Key(t.arg)] \in Values
      BY <1>1, <1>2
    <3> QED  BY <3>1 DEF Values
  <2>2. NewRotated \in Values
    BY NoRowTyped DEF NewRotated, Values
  <2>3. w \in [rows -> Values]
    <3>1. \A r \in rows : w[r] \in Values
      <4> TAKE r \in rows
      <4>1. w[r] = IF r = Key(t.arg) THEN [d[r] EXCEPT !.state = "replaced"] ELSE NewRotated
        BY DEF RotateWrites
      <4> QED  BY <2>1, <2>2, <4>1
    <3>2. w = [r \in rows |-> w[r]]
      BY DEF RotateWrites
    <3> HIDE DEF w, rows
    <3> QED  BY <3>1, <3>2
  <2> HIDE DEF w, rows
  <2> QED  BY <1>4, <2>3 DEF Writes
<1>7. MayWrite(d, h, w)
  BY <1>1, <1>2, <1>3, <1>5 DEF MayWrite
<1> HIDE DEF w
<1>8. n = Applied(d, t, w, "commit")
  BY DEF w
<1>9. WritesBecome(d, h, t, w, "commit", n)
  BY <1>1, <1>2, <1>6, <1>7, <1>8, FirstApplied DEF IsReady
<1>10. w = RotateWrites(d, n)
  BY <1>9 DEF w, RotateWrites, WritesBecome
<1>11. RotateOK(d, h, n)
  BY <1>1, <1>2, <1>9, <1>10 DEF WritesBecome, RotateOK
<1> QED  BY <1>1, <1>9, <1>11 DEF TxOK, WritesBecome

LEMMA SetUserTx ==
    ASSUME NEW d, NEW h \in SUBSET Rows, NEW t, IsReady(d, h, t, "setUser"),
           NEW s \in {"active", "disabled"},
           NEW n, n = Applied(d, t, [r \in {User} |-> [Merge(t.writes, d)[r] EXCEPT !.state = s]], "commit")
    PROVE  TxOK(d, h, n)
<1> DEFINE w == [r \in {User} |-> [Merge(t.writes, d)[r] EXCEPT !.state = s]]
<1>1. t.op \in {"enable", "disable"} /\ t.writes = NoWrites /\ t.picked = <<User>>
  BY OpOfAt DEF IsReady, TxOK, SetUserOK, Picks
<1>2. User \in h /\ "commit" \in Ats /\ d[User] \in Values
  BY <1>1, ReadyHolds, RowsTyped DEF Ats
<1>3. Merge(t.writes, d)[User] = d[User]
  BY <1>1, ReadyHolds, MergeNothing
<1>4. DOMAIN w = {User} /\ w[User] = [d[User] EXCEPT !.state = s]
  BY <1>3
<1>5. w[User] \in Values /\ w[User].state # "none"
  BY <1>2, <1>4 DEF Values
<1>6. n = Applied(d, t, w, "commit")
  OBVIOUS
<1>7. w \in [{User} -> Values]
  BY <1>4, <1>5
<1> HIDE DEF w
<1>8. w \in Writes /\ MayWrite(d, h, w) /\ w[User] # NoRow
  BY <1>2, <1>4, <1>5, <1>7, NoRowTyped, RowsTyped DEF Writes, MayWrite
<1>9. WritesBecome(d, h, t, w, "commit", n)
  BY <1>1, <1>2, <1>6, <1>8, FirstApplied DEF IsReady
<1>10. SetUserOK(d, h, n)
  BY <1>2, <1>4, <1>8, <1>9 DEF WritesBecome, SetUserOK
<1> QED  BY <1>1, <1>9, <1>10 DEF TxOK, WritesBecome

-----------------------------------------------------------------------------
(* The invariant.                                                          *)

LEMMA InitInv == Init => Inv
<1> SUFFICES ASSUME Init PROVE Inv
  OBVIOUS
<1>1. /\ db = [r \in Rows |-> IF r \in {User, Serialization} THEN Active ELSE NoRow]
      /\ owner = [r \in Rows |-> NoTx] /\ tx = [x \in Txs |-> Idle] /\ ops = 0
  BY DEF Init
<1>2. /\ db \in [Rows -> Values] /\ db[User] = Active /\ db[Serialization] = Active /\ db[Session] = NoRow
      /\ \A k \in Keys : db[Key(k)] = NoRow
      /\ \A u \in Tokens : db[Token(u)] = NoRow
  BY <1>1, NoRowTyped, RowNames, RowsTyped
<1>3. KeyIds(db) = {} /\ TokenIds(db) = {} /\ Busy = {}
  BY <1>1, <1>2 DEF KeyIds, TokenIds, Busy, Idle
<1>4. RowsOK(db)
  BY <1>2, <1>3, NoRowTyped DEF RowsOK, SessionOK, KeysOK, TokensOK, Exists, IsActive
<1>5. CountsOK(db, Busy, ops)
  <2>1. Cardinality(Busy) = 0
    BY <1>3, FS_EmptySet
  <2>2. 0 \in Nat /\ 1 .. 0 = {} /\ 0 + Cardinality(Busy) <= ops /\ ops \in 0 .. MaxOps
    BY <1>1, <2>1, RowsTyped
  <2> QED  BY <1>3, <2>2 DEF CountsOK
<1>6. \A x \in Txs : Held(x) = {}
  BY <1>1, SessionsAssumption DEF Held
<1>7. TxOK(db, {}, Idle) /\ Idle \in Transactions
  BY IdleTx DEF TxOK
<1> QED  BY <1>1, <1>4, <1>5, <1>6, <1>7 DEF Inv

\* A step of x that commits nothing is no concern of the others.
LEMMA OneTx ==
    ASSUME Inv, NEW x \in Txs, db' = db, tx' = [tx EXCEPT ![x] = tx'[x]],
           owner' \in [Rows -> Txs \cup {NoTx}], \A r \in Rows : owner'[r] # NoTx => Exists(db, r),
           \A y \in Txs \ {x} : Held(y)' = Held(y),
           CountsOK(db, Busy', ops'), TxOK(db, Held(x)', tx'[x])
    PROVE  Inv'
<1>1. tx'[x] \in Transactions
  BY DEF TxOK
<1>2. tx' \in [Txs -> Transactions] /\ \A y \in Txs \ {x} : tx'[y] = tx[y]
  BY <1>1 DEF Inv
<1>3. \A y \in Txs : TxOK(db, Held(y)', tx'[y])
  BY <1>2 DEF Inv
<1> QED  BY <1>2, <1>3 DEF Inv

LEMMA BusyTx ==
    ASSUME Inv, NEW x \in Txs, tx[x].op # "none"
    PROVE  IsFiniteSet(Busy) /\ x \in Busy /\ Busy # {} /\ CountsOK(db, Busy, ops)
<1>1. Busy \subseteq Txs /\ x \in Busy
  BY DEF Busy
<1> QED  BY <1>1, FS_Subset, SessionsAssumption DEF Inv

\* Nor is a step that takes no lock either.
LEMMA OwnTx ==
    ASSUME Inv, NEW x \in Txs, UNCHANGED <<db, owner, ops>>, tx' = [tx EXCEPT ![x] = tx'[x]],
           tx[x].op # "none", tx'[x].op = tx[x].op, TxOK(db, Held(x), tx'[x])
    PROVE  Inv'
<1>1. \A y \in Txs : Held(y)' = Held(y)
  BY DEF Held
<1>2. Busy' = Busy
  BY DEF Inv, Busy
<1> QED  BY <1>1, <1>2, OneTx DEF Inv

LEMMA ReleaseHeld ==
    ASSUME Inv, NEW x \in Txs, Release(x)
    PROVE  /\ owner' \in [Rows -> Txs \cup {NoTx}] /\ \A r \in Rows : owner'[r] # NoTx => owner[r] # NoTx
           /\ Held(x)' = {} /\ \A y \in Txs \ {x} : Held(y)' = Held(y)
BY SessionsAssumption DEF Inv, Release, Held

LEMMA RollBackInv ==
    ASSUME Inv, NEW x \in Txs, RollBack(x), tx[x].op # "none"
    PROVE  Inv'
<1>1. /\ owner' \in [Rows -> Txs \cup {NoTx}] /\ \A r \in Rows : owner'[r] # NoTx => owner[r] # NoTx
      /\ Held(x)' = {} /\ \A y \in Txs \ {x} : Held(y)' = Held(y)
  BY ReleaseHeld DEF RollBack
<1>2. db' = db /\ ops' = ops /\ tx' = [tx EXCEPT ![x] = tx'[x]] /\ tx'[x] = Idle
  BY DEF Inv, RollBack
<1>3. Busy' = Busy \ {x}
  BY <1>2 DEF Inv, Busy, Idle
<1>4. CountsOK(db, Busy', ops')
  BY <1>2, <1>3, BusyTx, CountsAfter
<1>5. TxOK(db, Held(x)', tx'[x])
  BY <1>1, <1>2, IdleTx
<1> QED  BY <1>1, <1>2, <1>4, <1>5, OneTx DEF Inv

LEMMA StartRequestInv ==
    ASSUME Inv, NEW x \in Txs, NEW op \in Ops \ {"none"}, NEW arg \in 0 .. MaxOps, StartRequest(x, op, arg),
           op = "refresh" => arg \in TokenIds(db),
           op \in {"revokeKey", "rotate", "rotateAndRevoke"} => arg \in KeyIds(db)
    PROVE  Inv'
<1> DEFINE n == [Idle EXCEPT !.op = op, !.arg = arg, !.at = FirstStatement[op]]
<1>1. tx[x] = Idle /\ Held(x) = {}
  BY DEF StartRequest, Inv, TxOK
<1>2. /\ UNCHANGED <<db, owner>> /\ tx' = [tx EXCEPT ![x] = tx'[x]] /\ tx'[x] = n
      /\ ops < MaxOps /\ ops' = ops + 1
  BY DEF Inv, StartRequest
<1>3. FirstStatement[op] \in Ats
  BY DEF FirstStatement, Ops, Ats
<1>4. /\ Idle \in Transactions /\ Idle.picked = NotStarted /\ Idle.todo = << >> /\ Idle.writes = NoWrites
  BY IdleTx DEF TxOK, Idle
<1>5. /\ n \in Transactions /\ n.op = op /\ n.arg = arg /\ n.at = FirstStatement[op]
      /\ n.picked = NotStarted /\ n.todo = << >> /\ n.writes = NoWrites
  BY <1>3, <1>4 DEF Transactions
<1> HIDE DEF n
<1>6. LocksOK(db, {}, n)
  BY <1>5, NoRowTyped, ShortSeqs DEF LocksOK
<1>7. TxOK(db, {}, n)
  <2>1. /\ op = "login" => LoginOK(db, {}, n)
        /\ op = "refresh" => RefreshOK(db, {}, n)
        /\ op = "revokeSession" => RevokeSessionOK(db, {}, n)
    BY <1>5 DEF FirstStatement, LoginOK, RefreshOK, RevokeSessionOK, Picks
  <2>2. /\ op = "revokeKey" => RevokeKeyOK(db, {}, n)
        /\ op \in {"rotate", "rotateAndRevoke"} => RotateOK(db, {}, n)
        /\ op \in {"enable", "disable"} => SetUserOK(db, {}, n)
    BY <1>5 DEF FirstStatement, RevokeKeyOK, RotateOK, SetUserOK, Picks
  <2> QED  BY <1>5, <1>6, <2>1, <2>2 DEF TxOK
<1>8. Busy' = Busy \cup {x} /\ x \notin Busy
  BY <1>1, <1>2, <1>5 DEF Inv, Busy, Idle
<1>9. CountsOK(db, Busy', ops')
  <2>1. IsFiniteSet(Busy)
    BY FS_Subset, SessionsAssumption DEF Busy
  <2>2. Cardinality(Busy') = Cardinality(Busy) + 1 /\ Cardinality(Busy) \in Nat
    BY <1>8, <2>1, FS_AddElement, FS_CardinalityType
  <2>3. CountsOK(db, Busy, ops) /\ MaxOps \in Nat
    BY SessionsAssumption DEF Inv
  <2> QED  BY <1>2, <2>2, <2>3 DEF CountsOK
<1>10. \A y \in Txs : Held(y)' = Held(y)
  BY <1>2 DEF Held
<1> QED  BY <1>1, <1>2, <1>7, <1>9, <1>10, OneTx DEF Inv

LEMMA StartStatementInv ==
    ASSUME Inv, NEW x \in Txs, StartStatement(x)
    PROVE  Inv'
<1> DEFINE n == [tx[x] EXCEPT !.picked = Selects(x), !.todo = Selects(x)]
<1>1. TxOK(db, Held(x), tx[x]) /\ Held(x) \in SUBSET Rows /\ tx[x] \in Transactions
  BY DEF Inv, Held
<1>2. SelectsOK(db, tx[x], Selects(x))
  BY SelectsRight DEF StartStatement
<1>3. TxOK(db, Held(x), n)
  BY <1>1, <1>2, StartTx DEF StartStatement
<1>4. tx'[x] = n /\ tx' = [tx EXCEPT ![x] = tx'[x]]
  BY DEF Inv, StartStatement
<1>5. n.op = tx[x].op
  BY <1>1 DEF Transactions
<1> QED  BY <1>3, <1>4, <1>5, OwnTx DEF StartStatement

LEMMA LockInv ==
    ASSUME Inv, NEW x \in Txs, Lock(x)
    PROVE  Inv'
<1> DEFINE r == Head(tx[x].todo)
           n == [tx[x] EXCEPT !.todo = Tail(@)]
<1>1. TxOK(db, Held(x), tx[x]) /\ Held(x) \in SUBSET Rows /\ tx[x] \in Transactions /\ tx[x].todo # << >>
  BY DEF Inv, Held, Lock
<1>2. r \in Rows /\ Exists(db, r) /\ TxOK(db, Held(x) \cup {r}, n)
  BY <1>1, LockTx
<1>3. /\ tx'[x] = n /\ tx' = [tx EXCEPT ![x] = tx'[x]] /\ UNCHANGED <<db, ops>>
      /\ owner' = [owner EXCEPT ![r] = x] /\ owner[r] \in {NoTx, x}
  BY DEF Inv, Lock
<1>4. n.op = tx[x].op
  BY <1>1 DEF Transactions
<1> HIDE DEF r, n
<1>5. /\ owner' \in [Rows -> Txs \cup {NoTx}] /\ \A s \in Rows : owner'[s] # NoTx => Exists(db, s)
      /\ Held(x)' = Held(x) \cup {r} /\ \A y \in Txs \ {x} : Held(y)' = Held(y)
  BY <1>2, <1>3, SessionsAssumption DEF Inv, Held
<1>6. Busy' = Busy
  BY <1>3, <1>4 DEF Inv, Busy
<1> QED  BY <1>2, <1>3, <1>5, <1>6, OneTx DEF Inv

LEMMA CommitInv ==
    ASSUME Inv, NEW x \in Txs, Commit(x)
    PROVE  Inv'
<1> DEFINE t == tx[x]
<1>1. TxOK(db, Held(x), t) /\ RowsOK(db) /\ t.at = "commit" /\ t.todo = << >> /\ tx[x].op # "none"
  BY OpOfAt DEF Inv, Commit
<1>2. /\ db' = Merge(t.writes, db) /\ ops' = ops /\ tx'[x] = Idle
      /\ tx' \in [Txs -> Transactions] /\ \A y \in Txs \ {x} : tx'[y] = tx[y]
  <2>1. Idle \in Transactions
    BY IdleTx DEF TxOK
  <2> QED  BY <2>1 DEF Inv, Commit, View
<1>3. /\ owner' \in [Rows -> Txs \cup {NoTx}] /\ \A r \in Rows : owner'[r] # NoTx => owner[r] # NoTx
      /\ Held(x)' = {} /\ \A y \in Txs \ {x} : Held(y)' = Held(y)
  BY ReleaseHeld DEF Commit
<1>4. Commits(db, db', Held(x), t, Busy, ops)
  BY <1>1, <1>2, BusyTx DEF Commits
<1>5. \A y \in Txs \ {x} : Others(db, Held(x), Held(y))
  BY SessionsAssumption DEF Others, Inv, Held
<1>6. Others(db, Held(x), {})
  BY DEF Others
<1>7. Committed(db, db', Held(x), {})
  BY <1>4, <1>6, CommitCases
<1>8. RowsOK(db') /\ \A r \in Rows : Exists(db, r) => Exists(db', r)
  BY <1>7 DEF Committed
<1>9. CountsOK(db', Busy \ {x}, ops)
  BY <1>1, <1>7, BusyTx, CountsAfter DEF Committed
<1>10. Busy' = Busy \ {x}
  BY <1>2 DEF Inv, Busy, Idle
<1>11. ASSUME NEW y \in Txs
       PROVE  TxOK(db', Held(y)', tx'[y])
  <2>1. CASE y = x
    BY <1>2, <1>3, <2>1, IdleTx
  <2>2. CASE y # x
    <3>1. Stable(db, db', Held(y))
      BY <1>4, <1>5, <2>2, CommitStable
    <3>2. TxOK(db, Held(y), tx[y]) /\ Held(y) \in SUBSET Rows
      BY DEF Inv, Held
    <3>3. TxOK(db', Held(y), tx[y])
      BY <3>1, <3>2, StableTx
    <3> QED  BY <1>2, <1>3, <2>2, <3>3
  <2> QED  BY <2>1, <2>2
<1>12. \A r \in Rows : owner'[r] # NoTx => Exists(db', r)
  BY <1>3, <1>8 DEF Inv
<1> QED  BY <1>2, <1>3, <1>8, <1>9, <1>10, <1>11, <1>12 DEF Inv

(* The statements.                                                         *)

LEMMA ReadyTx ==
    ASSUME Inv, NEW x \in Txs, NEW statement, statement # "idle", Ready(x, statement)
    PROVE  /\ IsReady(db, Held(x), tx[x], statement) /\ tx[x].op # "none"
           /\ Held(x) \in SUBSET Rows /\ \A r \in Held(x) : Exists(db, r)
           /\ View(x) = Merge(tx[x].writes, db)
           /\ tx[x].writes = NoWrites => View(x) = db
           /\ NewKey = NextKey(db) /\ NewToken = NextToken(db)
<1>1. IsReady(db, Held(x), tx[x], statement)
  BY DEF Inv, Ready, IsReady
<1>2. tx[x].op # "none"
  BY <1>1, OpOfAt DEF IsReady
<1>3. Held(x) \in SUBSET Rows /\ \A r \in Held(x) : Exists(db, r)
  BY SessionsAssumption DEF Inv, Held
<1>4. tx[x].writes = NoWrites => View(x) = db
  BY MergeNothing DEF View, Inv, RowsOK
<1> QED  BY <1>1, <1>2, <1>3, <1>4 DEF View, NewKey, NewToken, NextKey, NextToken, KeyIds, TokenIds

\* What Apply does to the transaction.
LEMMA ApplyTx ==
    ASSUME Inv, NEW x \in Txs, NEW w, NEW next, Apply(x, w, next)
    PROVE  /\ UNCHANGED <<db, owner, ops>> /\ tx' = [tx EXCEPT ![x] = tx'[x]]
           /\ tx'[x] = Applied(db, tx[x], w, next) /\ tx'[x].op = tx[x].op
<1>1. UNCHANGED <<db, owner, ops>>
  BY DEF Apply
<1>2. tx'[x] = Applied(db, tx[x], w, next) /\ tx' = [tx EXCEPT ![x] = tx'[x]]
  <2> DEFINE t == tx[x]
             todo == IF \E r \in DOMAIN w : w[r] # Merge(t.writes, db)[r] THEN <<Serialization>> ELSE << >>
             writes == [r \in DOMAIN t.writes \cup DOMAIN w |-> IF r \in DOMAIN w THEN w[r] ELSE t.writes[r]]
             n == [t EXCEPT !.at = next, !.picked = NotStarted, !.todo = todo, !.writes = writes]
  <2>0. t \in Transactions
    BY DEF Inv
  <2>2. n = Applied(db, t, w, next)
    BY <2>0 DEF Applied, Transactions
  <2>3. tx'[x] = n
    BY DEF Inv, Apply, View
  <2>4. tx' = [tx EXCEPT ![x] = tx'[x]]
    BY DEF Inv, Apply
  <2> QED  BY <2>2, <2>3, <2>4
<1>3. tx[x] \in Transactions
  BY DEF Inv
<1>4. Applied(db, tx[x], w, next).op = tx[x].op
  BY <1>3 DEF Applied, Transactions
<1> QED  BY <1>1, <1>2, <1>4

LEMMA AppliedInv ==
    ASSUME Inv, NEW x \in Txs, NEW w, NEW next, Apply(x, w, next), tx[x].op # "none",
           TxOK(db, Held(x), Applied(db, tx[x], w, next))
    PROVE  Inv'
BY ApplyTx, OwnTx

LEMMA IssueLoginInv ==
    ASSUME Inv, NEW x \in Txs, IssueLogin(x)
    PROVE  Inv'
<1>1. /\ IsReady(db, Held(x), tx[x], "issue") /\ tx[x].op # "none" /\ Held(x) \in SUBSET Rows
      /\ NewKey = NextKey(db) /\ NewToken = NextToken(db)
  BY ReadyTx DEF IssueLogin
<1>2. CASE tx[x].picked = << >> \/ db[Session] # NoRow
  BY <1>1, <1>2, RollBackInv DEF IssueLogin, Refuse
<1>3. CASE ~(tx[x].picked = << >> \/ db[Session] # NoRow)
  <2> DEFINE w == [r \in {Key(NextKey(db)), Session, Token(NextToken(db))} |-> NewLogin(db)]
  <2>1. Apply(x, w, "commit")
    BY <1>1, <1>3 DEF IssueLogin, NewLogin
  <2>2. TxOK(db, Held(x), Applied(db, tx[x], w, "commit"))
    BY <1>1, <1>3, BusyTx, IssueLoginTx
  <2> HIDE DEF w
  <2> QED  BY <1>1, <2>1, <2>2, AppliedInv
<1> QED  BY <1>2, <1>3

LEMMA FindTokenInv ==
    ASSUME Inv, NEW x \in Txs, FindToken(x)
    PROVE  Inv'
<1>1. /\ IsReady(db, Held(x), tx[x], "findToken") /\ tx[x].op # "none" /\ Held(x) \in SUBSET Rows
      /\ tx[x].writes = NoWrites => View(x) = db
  BY ReadyTx DEF FindToken
<1>2. tx[x].writes = NoWrites
  BY <1>1, OpOfAt DEF IsReady, TxOK, RefreshOK
<1>3. CASE tx[x].picked # << >> /\ Refreshable(View(x), tx[x].arg, Last(tx[x].picked)[2])
  <2>1. Apply(x, NoWrites, "rotateSession")
    BY <1>3 DEF FindToken
  <2>2. TxOK(db, Held(x), Applied(db, tx[x], NoWrites, "rotateSession"))
    BY <1>1, <1>2, <1>3, FindTokenTx
  <2> QED  BY <1>1, <2>1, <2>2, AppliedInv
<1>4. CASE ~(tx[x].picked # << >> /\ Refreshable(View(x), tx[x].arg, Last(tx[x].picked)[2]))
  BY <1>1, <1>4, RollBackInv DEF FindToken, Refuse
<1> QED  BY <1>3, <1>4

LEMMA RotateSessionInv ==
    ASSUME Inv, NEW x \in Txs, RotateSession(x)
    PROVE  Inv'
<1>1. /\ IsReady(db, Held(x), tx[x], "rotateSession") /\ tx[x].op # "none" /\ Held(x) \in SUBSET Rows
      /\ tx[x].writes = NoWrites => View(x) = db
      /\ NewKey = NextKey(db) /\ NewToken = NextToken(db)
  BY ReadyTx DEF RotateSession
<1>2. View(x) = db
  BY <1>1, OpOfAt DEF IsReady, TxOK, RefreshOK
<1>3. Apply(x, RefreshWrites(db, tx[x].arg), "commit")
  BY <1>1, <1>2 DEF RotateSession, RefreshWrites, NewLogin
<1>4. TxOK(db, Held(x), Applied(db, tx[x], RefreshWrites(db, tx[x].arg), "commit"))
  BY <1>1, BusyTx, RotateSessionTx
<1> QED  BY <1>1, <1>3, <1>4, AppliedInv

LEMMA EndSessionInv ==
    ASSUME Inv, NEW x \in Txs, EndSession(x)
    PROVE  Inv'
<1>1. /\ IsReady(db, Held(x), tx[x], "endSession") /\ tx[x].op # "none" /\ Held(x) \in SUBSET Rows
      /\ \A r \in Held(x) : Exists(db, r) /\ View(x) = Merge(tx[x].writes, db)
  BY ReadyTx DEF EndSession
<1>2. View(x) = Merge(tx[x].writes, db)
  BY DEF View
<1>3. CASE tx[x].picked = << >>
  BY <1>1, <1>3, RollBackInv DEF EndSession, Refuse
<1>4. CASE tx[x].picked # << >>
  <2> DEFINE w == [r \in {Session} |-> Revoked(Merge(tx[x].writes, db), r)]
             n == Applied(db, tx[x], w, "endTokens")
  <2>1. Apply(x, w, "endTokens")
    BY <1>2, <1>4 DEF EndSession, Revoke
  <2>2. n = Applied(db, tx[x], [r \in {Session} |-> Revoked(Merge(tx[x].writes, db), r)], "endTokens")
    OBVIOUS
  <2> HIDE DEF n
  <2>3. TxOK(db, Held(x), n)
    BY <1>1, <1>4, <2>2, EndSessionTx
  <2> HIDE DEF w
  <2> QED  BY <1>1, <2>1, <2>3, AppliedInv DEF n
<1> QED  BY <1>3, <1>4

LEMMA EndTokensInv ==
    ASSUME Inv, NEW x \in Txs, EndTokens(x)
    PROVE  Inv'
<1> DEFINE w == [r \in {tx[x].picked[i] : i \in DOMAIN tx[x].picked} |-> Revoked(Merge(tx[x].writes, db), r)]
           next == IF tx[x].op = "revokeSession" THEN "endSessionKey" ELSE "commit"
           n == Applied(db, tx[x], w, next)
<1>1. IsReady(db, Held(x), tx[x], "endTokens") /\ tx[x].op # "none" /\ Held(x) \in SUBSET Rows
  BY ReadyTx DEF EndTokens
<1>2. Apply(x, w, next)
  BY DEF EndTokens, Revoke, View
<1>3. n = Applied(db, tx[x], [r \in {tx[x].picked[i] : i \in DOMAIN tx[x].picked} |->
                                Revoked(Merge(tx[x].writes, db), r)], next)
  OBVIOUS
<1>4. next = IF tx[x].op = "revokeSession" THEN "endSessionKey" ELSE "commit"
  OBVIOUS
<1> HIDE DEF n, next
<1>5. TxOK(db, Held(x), n)
  BY <1>1, <1>3, <1>4, EndTokensTx
<1> HIDE DEF w
<1> QED  BY <1>1, <1>2, <1>5, AppliedInv DEF n

LEMMA EndSessionKeyInv ==
    ASSUME Inv, NEW x \in Txs, EndSessionKey(x)
    PROVE  Inv'
<1> DEFINE w == [r \in {Key(Merge(tx[x].writes, db)[Session].key)} |-> Revoked(Merge(tx[x].writes, db), r)]
           n == Applied(db, tx[x], w, "commit")
<1>1. IsReady(db, Held(x), tx[x], "endSessionKey") /\ tx[x].op # "none" /\ Held(x) \in SUBSET Rows
  BY ReadyTx DEF EndSessionKey
<1>2. Apply(x, w, "commit")
  BY DEF EndSessionKey, Revoke, View
<1>3. n = Applied(db, tx[x], [r \in {Key(Merge(tx[x].writes, db)[Session].key)} |->
                                Revoked(Merge(tx[x].writes, db), r)], "commit")
  OBVIOUS
<1> HIDE DEF n
<1>4. TxOK(db, Held(x), n)
  BY <1>1, <1>3, EndSessionKeyTx
<1> HIDE DEF w
<1> QED  BY <1>1, <1>2, <1>4, AppliedInv DEF n

LEMMA EndKeyInv ==
    ASSUME Inv, NEW x \in Txs, EndKey(x)
    PROVE  Inv'
<1>1. IsReady(db, Held(x), tx[x], "endKey") /\ tx[x].op # "none" /\ Held(x) \in SUBSET Rows
  BY ReadyTx DEF EndKey
<1>2. CASE tx[x].picked = << >>
  BY <1>1, <1>2, RollBackInv DEF EndKey, Refuse
<1>3. CASE tx[x].picked # << >>
  <2> DEFINE w == [r \in {Key(tx[x].arg)} |-> Revoked(Merge(tx[x].writes, db), r)]
             n == Applied(db, tx[x], w, "endSessionOfKey")
  <2>1. Apply(x, w, "endSessionOfKey")
    BY <1>3 DEF EndKey, Revoke, View
  <2>2. n = Applied(db, tx[x], [r \in {Key(tx[x].arg)} |-> Revoked(Merge(tx[x].writes, db), r)],
                    "endSessionOfKey")
    OBVIOUS
  <2> HIDE DEF n
  <2>3. TxOK(db, Held(x), n)
    BY <1>1, <1>3, <2>2, EndKeyTx
  <2> HIDE DEF w
  <2> QED  BY <1>1, <2>1, <2>3, AppliedInv DEF n
<1> QED  BY <1>2, <1>3

LEMMA EndSessionOfKeyInv ==
    ASSUME Inv, NEW x \in Txs, EndSessionOfKey(x)
    PROVE  Inv'
<1>1. /\ IsReady(db, Held(x), tx[x], "endSessionOfKey") /\ tx[x].op # "none" /\ Held(x) \in SUBSET Rows
      /\ View(x) = Merge(tx[x].writes, db)
  BY ReadyTx DEF EndSessionOfKey
<1>2. /\ tx[x].picked = If(db[Session].key = tx[x].arg, <<Session>>)
      /\ View(x)[Session] = db[Session]
  <2>1. NamedKey(db, Held(x), tx[x])
    BY <1>1, EndSessionOfKeySees
  <2> QED  BY <1>1, <2>1 DEF NamedKey
<1>3. CASE db[Session].key = tx[x].arg
  <2> DEFINE w == [r \in {Session} |-> Revoked(Merge(tx[x].writes, db), r)]
             n == Applied(db, tx[x], w, "endTokens")
  <2>1. tx[x].picked # << >> /\ View(x)[Session].key = tx[x].arg
    BY <1>2, <1>3 DEF If
  <2>2. Apply(x, w, "endTokens")
    BY <1>1, <2>1 DEF EndSessionOfKey, Revoke
  <2>3. n = Applied(db, tx[x], [r \in {Session} |-> Revoked(Merge(tx[x].writes, db), r)], "endTokens")
    OBVIOUS
  <2> HIDE DEF n
  <2>4. TxOK(db, Held(x), n)
    BY <1>1, <1>3, <2>3, EndSessionOfKeyTx
  <2> HIDE DEF w
  <2> QED  BY <1>1, <2>2, <2>4, AppliedInv DEF n
<1>4. CASE db[Session].key # tx[x].arg
  <2>1. Apply(x, NoWrites, "commit")
    BY <1>2, <1>4 DEF EndSessionOfKey
  <2>2. TxOK(db, Held(x), Applied(db, tx[x], NoWrites, "commit"))
    BY <1>1, <1>4, KeyWithoutSessionTx
  <2> QED  BY <1>1, <2>1, <2>2, AppliedInv
<1> QED  BY <1>3, <1>4

LEMMA FindKeyInv ==
    ASSUME Inv, NEW x \in Txs, FindKey(x)
    PROVE  Inv'
<1>1. /\ IsReady(db, Held(x), tx[x], "findKey") /\ tx[x].op # "none" /\ Held(x) \in SUBSET Rows
      /\ tx[x].writes = NoWrites => View(x) = db
  BY ReadyTx DEF FindKey
<1>2. View(x) = db
  BY <1>1, OpOfAt DEF IsReady, TxOK, RotateOK
<1>3. CASE tx[x].picked # << >> /\ IsActive(View(x), Key(tx[x].arg))
  <2>1. Apply(x, NoWrites, "replaceKey")
    BY <1>3 DEF FindKey
  <2>2. TxOK(db, Held(x), Applied(db, tx[x], NoWrites, "replaceKey"))
    BY <1>1, <1>2, <1>3, FindKeyTx
  <2> QED  BY <1>1, <2>1, <2>2, AppliedInv
<1>4. CASE ~(tx[x].picked # << >> /\ IsActive(View(x), Key(tx[x].arg)))
  BY <1>1, <1>4, RollBackInv DEF FindKey, Refuse
<1> QED  BY <1>3, <1>4

LEMMA ReplaceKeyInv ==
    ASSUME Inv, NEW x \in Txs, ReplaceKey(x)
    PROVE  Inv'
<1>1. /\ IsReady(db, Held(x), tx[x], "replaceKey") /\ tx[x].op # "none" /\ Held(x) \in SUBSET Rows
      /\ tx[x].writes = NoWrites => View(x) = db
      /\ NewKey = NextKey(db)
  BY ReadyTx DEF ReplaceKey
<1>2. View(x) = db
  BY <1>1, OpOfAt DEF IsReady, TxOK, RotateOK
<1>3. Apply(x, RotateWrites(db, tx[x]), "commit")
  BY <1>1, <1>2 DEF ReplaceKey, RotateWrites, NewRotated
<1>4. TxOK(db, Held(x), Applied(db, tx[x], RotateWrites(db, tx[x]), "commit"))
  BY <1>1, BusyTx, ReplaceKeyTx
<1> QED  BY <1>1, <1>3, <1>4, AppliedInv

LEMMA SetUserInv ==
    ASSUME Inv, NEW x \in Txs, SetUser(x)
    PROVE  Inv'
<1> DEFINE s == IF tx[x].op = "enable" THEN "active" ELSE "disabled"
           w == [r \in {User} |-> [Merge(tx[x].writes, db)[r] EXCEPT !.state = s]]
           n == Applied(db, tx[x], w, "commit")
<1>1. IsReady(db, Held(x), tx[x], "setUser") /\ tx[x].op # "none" /\ Held(x) \in SUBSET Rows
  BY ReadyTx DEF SetUser
<1>2. Apply(x, w, "commit")
  BY DEF SetUser, View
<1>3. s \in {"active", "disabled"}
  OBVIOUS
<1>4. n = Applied(db, tx[x], [r \in {User} |-> [Merge(tx[x].writes, db)[r] EXCEPT !.state = s]], "commit")
  OBVIOUS
<1> HIDE DEF n, s
<1>5. TxOK(db, Held(x), n)
  BY <1>1, <1>3, <1>4, SetUserTx
<1> HIDE DEF w
<1> QED  BY <1>1, <1>2, <1>5, AppliedInv DEF n

LEMMA StepInv == Inv /\ [Next]_vars => Inv'
<1> SUFFICES ASSUME Inv, [Next]_vars PROVE Inv'
  OBVIOUS
<1>1. CASE UNCHANGED vars
  <2>1. UNCHANGED <<db, owner, tx, ops>>
    BY <1>1 DEF vars
  <2>2. Busy' = Busy /\ \A x \in Txs : Held(x)' = Held(x)
    BY <2>1 DEF Busy, Held
  <2> QED  BY <2>1, <2>2 DEF Inv
<1>2. ASSUME NEW x \in Txs, NEW op \in {"login", "revokeSession", "enable", "disable"}, StartRequest(x, op, 0)
      PROVE  Inv'
  <2>1. op \in Ops \ {"none"} /\ 0 \in 0 .. MaxOps /\ op \notin {"refresh", "revokeKey", "rotate", "rotateAndRevoke"}
    BY SessionsAssumption DEF Ops
  <2> QED  BY <1>2, <2>1, StartRequestInv
<1>3. ASSUME NEW x \in Txs, NEW u \in Tokens, db[Token(u)] # NoRow, StartRequest(x, "refresh", u)
      PROVE  Inv'
  <2>1. "refresh" \in Ops \ {"none"} /\ u \in 0 .. MaxOps /\ u \in TokenIds(db)
    BY <1>3, RowsTyped DEF Ops, TokenIds
  <2> QED  BY <1>3, <2>1, StartRequestInv
<1>4. ASSUME NEW x \in Txs, NEW op \in {"revokeKey", "rotate", "rotateAndRevoke"}, NEW k \in Keys,
             db[Key(k)] # NoRow, StartRequest(x, op, k)
      PROVE  Inv'
  <2>1. op \in Ops \ {"none"} /\ op # "refresh" /\ k \in 0 .. MaxOps /\ k \in KeyIds(db)
    BY <1>4, RowsTyped DEF Ops, KeyIds
  <2> QED  BY <1>4, <2>1, StartRequestInv
<1>5. ASSUME NEW x \in Txs, Statement(x)
      PROVE  Inv'
  BY <1>5, StartStatementInv, LockInv, CommitInv, IssueLoginInv, FindTokenInv, RotateSessionInv,
     EndSessionInv, EndTokensInv, EndSessionKeyInv, EndKeyInv, EndSessionOfKeyInv, FindKeyInv,
     ReplaceKeyInv, SetUserInv DEF Statement
<1>6. ASSUME NEW x \in Txs, AbortVictim(x) \/ Die(x)
      PROVE  Inv'
  <2>1. RollBack(x)
    BY <1>6 DEF AbortVictim, Die
  <2>2. CASE tx[x].op # "none"
    BY <2>1, <2>2, RollBackInv
  <2>3. CASE tx[x].op = "none"
    <3>1. tx[x] = Idle /\ Held(x) = {}
      BY <2>3 DEF Inv, TxOK
    <3>2. tx' = tx /\ db' = db /\ ops' = ops
      BY <2>1, <3>1 DEF RollBack, Inv
    <3>3. owner' = owner
      BY <2>1, <3>1 DEF RollBack, Release, Held, Inv
    <3>4. Busy' = Busy /\ \A y \in Txs : Held(y)' = Held(y)
      BY <3>2, <3>3 DEF Busy, Held
    <3> QED  BY <3>2, <3>3, <3>4 DEF Inv
  <2> QED  BY <2>2, <2>3
<1> QED  BY <1>1, <1>2, <1>3, <1>4, <1>5, <1>6 DEF Next

LEMMA Invariance == Spec => []Inv
BY InitInv, StepInv, PTL DEF Spec

-----------------------------------------------------------------------------
(* The properties.                                                         *)

\* No two transactions ever write one row: each changes only what it holds
\* (refreshLoginSession, revokeLoginSession and revokeApiKey lock rows in
\* orders of their own, and abort rather than overwrite each other).
THEOREM NoUpdateIsLost == Spec => []TypeOK
<1>1. Inv => TypeOK
  <2> SUFFICES ASSUME Inv PROVE TypeOK
    OBVIOUS
  <2>1. db \in [Rows -> Values]
    BY DEF Inv, RowsOK
  <2>2. ASSUME NEW x \in Txs, NEW r \in DOMAIN tx[x].writes, db[r] # NoRow
        PROVE  owner[r] = x
    <3>1. r \in Held(x)
      BY <2>2 DEF Inv, TxOK, LocksOK, Exists
    <3> QED  BY <3>1 DEF Held
  <2> QED  BY <2>1, <2>2 DEF TypeOK
<1> QED  BY <1>1, Invariance, PTL

\* Session, tokens and key end together, for any number of connections and
\* requests, whatever refresh, logout, rotation, abort or crash comes between
\* the statements that revoke them.
THEOREM SessionsEndTogether == Spec => []EndedTogether
<1>1. Inv => EndedTogether
  <2> SUFFICES ASSUME Inv PROVE EndedTogether
    OBVIOUS
  <2>1. SessionOK(db) /\ TokensOK(db)
    BY DEF Inv, RowsOK
  <2> QED  BY <2>1 DEF EndedTogether, SessionOK, TokensOK, IsActive
<1> QED  BY <1>1, Invariance, PTL

LEMMA OneAtMost ==
    ASSUME NEW S, \A a, b \in S : a = b
    PROVE  Cardinality(S) <= 1
<1>1. CASE S = {}
  BY <1>1, FS_EmptySet
<1>2. CASE S # {}
  <2>1. PICK a \in S : S = {a}
    BY <1>2
  <2> QED  BY <2>1, FS_Singleton
<1> QED  BY <1>1, <1>2

\* A session has one live token and one live key of its own at most: of two
\* refreshes with one token, one is refused.
THEOREM OneCredentialHolds == Spec => []OneCredentialAtATime
<1>1. Inv => OneCredentialAtATime
  <2> SUFFICES ASSUME Inv PROVE OneCredentialAtATime
    OBVIOUS
  <2> DEFINE T == {t \in Tokens : IsActive(db, Token(t))}
             K == {k \in Keys : IsActive(db, Key(k)) /\ db[Key(k)].by = "login"}
  <2>1. \A a, b \in T : a = b
    BY DEF Inv, RowsOK, TokensOK
  <2>2. \A a, b \in K : a = b
    BY DEF Inv, RowsOK, KeysOK
  <2> HIDE DEF T, K
  <2>3. Cardinality(T) <= 1 /\ Cardinality(K) <= 1
    BY <2>1, <2>2, OneAtMost
  <2> QED  BY <2>3 DEF OneCredentialAtATime, T, K
<1> QED  BY <1>1, Invariance, PTL

=============================================================================
