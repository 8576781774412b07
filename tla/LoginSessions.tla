--------------------------- MODULE LoginSessions ---------------------------
(* Login sessions, their refresh tokens and their keys, in transactions that  *)
(* lock rows.                                                                 *)
(*                                                                            *)
(* A login creates a key, a session over it and a one-time refresh token. A   *)
(* refresh spends the token: new key, new token, the session moves to the new *)
(* key and the old one is revoked. Logout and key revocation start from the   *)
(* key, session revocation from the session, and each takes the others with   *)
(* it. Keys are also rotated, and users disabled, by administrators.          *)
(*                                                                            *)
(* Transactions run at READ COMMITTED: a statement sees what was committed    *)
(* when it starts, waits for the rows it wants to change, and evaluates its   *)
(* conditions again on a row that changed while it waited. The statements     *)
(* lock rows in different orders, and the trigger that feeds local sync locks *)
(* one more row for all of them: PostgreSQL aborts a transaction of a cycle.  *)
(*                                                                            *)
(* One user and one session; expiry, idle time and audit are left out. A key  *)
(* that a rotation revoked is told apart from one that was revoked.           *)
EXTENDS Naturals, FiniteSets, SequencesExt

CONSTANTS Txs,        \* database connections
          NoTx,
          MaxOps      \* bound on the requests, each of which creates a key at most

ASSUME SessionsAssumption ==
  /\ NoTx \notin Txs /\ IsFiniteSet(Txs)
  /\ MaxOps \in Nat

VARIABLES db,      \* the committed version of every row
          owner,   \* who holds the row's lock
          tx,      \* the transactions
          ops      \* requests so far

vars == <<db, owner, tx, ops>>
-----------------------------------------------------------------------------
(* Rows and transactions.                                                     *)

Keys == 1 .. MaxOps
Tokens == 1 .. MaxOps
User == <<"user", 0>>
Session == <<"session", 0>>
Serialization == <<"serialization", 0>>   \* local_sync_serialization_state
Key(k) == <<"key", k>>
Token(t) == <<"token", t>>
Rows == {User, Session, Serialization} \cup {Key(k) : k \in Keys} \cup {Token(t) : t \in Tokens}

\* What a row's columns are reduced to; a used token stays used when revoked.
Values == [key : 0 .. MaxOps,
           state : {"none", "active", "disabled", "revoked", "used", "replaced"},
           by : {"none", "login", "rotation"}]
NoRow == [key |-> 0, state |-> "none", by |-> "none"]
Active == [NoRow EXCEPT !.state = "active"]

NoWrites == [r \in {} |-> NoRow]
\* Where a transaction is: the statement, the rows it selected when it started
\* (NotStarted before), the locks it still waits for and its own writes.
NotStarted == <<Serialization, Serialization>>
Idle == [op |-> "none", arg |-> 0, at |-> "idle", picked |-> NotStarted,
         todo |-> << >>, writes |-> NoWrites]

\* A row as transaction x sees it now.
Merge(writes, rows) == [r \in Rows |-> IF r \in DOMAIN writes THEN writes[r] ELSE rows[r]]
View(x) == Merge(tx[x].writes, db)
IsActive(view, r) == view[r].state = "active"

Init ==
  /\ db = [r \in Rows |-> IF r \in {User, Serialization} THEN Active ELSE NoRow]
  /\ owner = [r \in Rows |-> NoTx]
  /\ tx = [x \in Txs |-> Idle]
  /\ ops = 0

\* Ids are taken in order; only the holder of the serialization row commits one.
NewKey == 1 + Cardinality({k \in Keys : db[Key(k)] # NoRow})
NewToken == 1 + Cardinality({t \in Tokens : db[Token(t)] # NoRow})
-----------------------------------------------------------------------------
(* Transactions.                                                              *)

Release(x) == owner' = [r \in Rows |-> IF owner[r] = x THEN NoTx ELSE owner[r]]

RollBack(x) ==
  /\ Release(x) /\ tx' = [tx EXCEPT ![x] = Idle]
  /\ UNCHANGED <<db, ops>>

\* MUTANT of Refuse: an early return that leaves the transaction open.
RefuseOpen(x) == tx' = [tx EXCEPT ![x] = Idle] /\ UNCHANGED <<db, owner, ops>>

\* Nothing to do for this request: it rolls back and answers so.
Refuse(x) == RollBack(x)

\* The statement has every lock it asked for.
Ready(x, statement) ==
  tx[x].at = statement /\ tx[x].picked # NotStarted /\ tx[x].todo = << >>

\* A statement that changes a row runs the trigger, which locks one more.
Apply(x, writes, next) ==
  LET changes == \E r \in DOMAIN writes : writes[r] # View(x)[r]
      all == DOMAIN tx[x].writes \cup DOMAIN writes
  IN /\ tx' = [tx EXCEPT ![x] =
          [@ EXCEPT !.at = next, !.picked = NotStarted,
                    !.todo = IF changes THEN <<Serialization>> ELSE << >>,
                    !.writes = [r \in all |-> IF r \in DOMAIN writes THEN writes[r] ELSE tx[x].writes[r]]]]
     /\ UNCHANGED <<db, owner, ops>>

Lock(x) ==
  /\ tx[x].todo # << >>
  /\ owner[Head(tx[x].todo)] \in {NoTx, x}
  /\ owner' = [owner EXCEPT ![Head(tx[x].todo)] = x]
  /\ tx' = [tx EXCEPT ![x].todo = Tail(@)]
  /\ UNCHANGED <<db, ops>>

Commit(x) ==
  /\ tx[x].at = "commit" /\ tx[x].todo = << >>
  /\ db' = View(x)
  /\ Release(x) /\ tx' = [tx EXCEPT ![x] = Idle]
  /\ UNCHANGED ops

Waits(x) == tx[x].todo # << >> /\ owner[Head(tx[x].todo)] \notin {NoTx, x}

\* x waits for someone who waits, over any number of others, for x.
InCycle(x) ==
  LET reached[n \in 0 .. Cardinality(Txs)] ==
        IF n = 0 THEN x
        ELSE IF Waits(reached[n - 1]) THEN owner[Head(tx[reached[n - 1]].todo)] ELSE NoTx
  IN \E n \in 1 .. Cardinality(Txs) :
       /\ \A i \in 0 .. n - 1 : reached[i] # NoTx /\ Waits(reached[i])
       /\ reached[n] = x

AbortVictim(x) == InCycle(x) /\ RollBack(x)

\* The process dies or loses its connection.
Die(x) == tx[x].op # "none" /\ RollBack(x)
-----------------------------------------------------------------------------
(* Statements. Each starts by selecting rows in what is committed then; the   *)
(* locks are taken in that order, and the action that applies the statement   *)
(* looks again at what it locked.                                             *)

FirstStatement == [login |-> "issue", refresh |-> "findToken", revokeSession |-> "endSession",
                   revokeKey |-> "endKey", rotate |-> "findKey", rotateAndRevoke |-> "findKey",
                   enable |-> "setUser", disable |-> "setUser"]

StartRequest(x, op, arg) ==
  /\ tx[x].op = "none" /\ ops < MaxOps
  /\ tx' = [tx EXCEPT ![x] = [Idle EXCEPT !.op = op, !.arg = arg, !.at = FirstStatement[op]]]
  /\ ops' = ops + 1
  /\ UNCHANGED <<db, owner>>

\* Token unused and unrevoked, session open, and its key not revoked.
Refreshable(view, t, k) ==
  /\ IsActive(view, Token(t))
  /\ IsActive(view, Session) /\ view[Session].key = k /\ IsActive(view, Key(k))

\* MUTANT of LockedByRefresh: FOR UPDATE OF tokens, keys.
LockedWithoutSession(t, k) == <<Token(t), Key(k)>>

\* FOR UPDATE OF tokens, sessions, keys; the users row is not locked.
LockedByRefresh(t, k) == <<Token(t), Session, Key(k)>>

If(condition, rows) == IF condition THEN rows ELSE << >>

Selects(x) ==
  LET view == View(x)
      arg == tx[x].arg
      k == view[Session].key
  IN CASE tx[x].at = "issue" ->
            If(IsActive(view, User) /\ view[Session] = NoRow, <<Serialization>>)
       [] tx[x].at = "findToken" ->
            If(IsActive(view, User) /\ Refreshable(view, arg, k), LockedByRefresh(arg, k))
       [] tx[x].at \in {"rotateSession", "replaceKey"} -> <<Serialization>>
       [] tx[x].at = "endSession" -> If(view[Session] # NoRow, <<Session>>)
       [] tx[x].at = "endTokens" -> SetToSeq({Token(t) : t \in {u \in Tokens : IsActive(view, Token(u))}})
       [] tx[x].at = "endSessionKey" -> <<Key(k)>>
       [] tx[x].at = "endKey" -> If(view[Key(arg)] # NoRow, <<Key(arg)>>)
       [] tx[x].at = "endSessionOfKey" -> If(k = arg, <<Session>>)
       [] tx[x].at = "findKey" -> If(IsActive(view, Key(arg)), <<Key(arg)>>)
       [] tx[x].at = "setUser" -> <<User>>

StartStatement(x) ==
  /\ tx[x].op # "none" /\ tx[x].at # "commit"
  /\ tx[x].picked = NotStarted /\ tx[x].todo = << >>
  /\ tx' = [tx EXCEPT ![x].picked = Selects(x), ![x].todo = Selects(x)]
  /\ UNCHANGED <<db, owner, ops>>

\* issueLoginCredentials: the user's status is not looked at again.
IssueLogin(x) ==
  /\ Ready(x, "issue")
  /\ IF tx[x].picked = << >> \/ db[Session] # NoRow
     THEN Refuse(x)
     ELSE LET new == [key |-> NewKey, state |-> "active", by |-> "login"]
          IN Apply(x, [r \in {Key(NewKey), Session, Token(NewToken)} |-> new], "commit")

\* MUTANT of FindToken: no second look at rows that were waited for.
FindTokenOnce(x) ==
  /\ Ready(x, "findToken")
  /\ IF tx[x].picked # << >> THEN Apply(x, NoWrites, "rotateSession") ELSE Refuse(x)

\* refreshLoginSession: the joined row is locked and looked at again; the
\* user's row is read by the first look only.
FindToken(x) ==
  /\ Ready(x, "findToken")
  /\ IF tx[x].picked # << >> /\ Refreshable(View(x), tx[x].arg, Last(tx[x].picked)[2])
     THEN Apply(x, NoWrites, "rotateSession")
     ELSE Refuse(x)

RotateSession(x) ==
  /\ Ready(x, "rotateSession")
  /\ LET new == [key |-> NewKey, state |-> "active", by |-> "login"]
         old == Key(View(x)[Session].key)
         spent == Token(tx[x].arg)
     IN Apply(x, [r \in {Key(NewKey), Token(NewToken), Session, old, spent} |->
                    IF r = old THEN [View(x)[r] EXCEPT !.state = "revoked"]
                    ELSE IF r = spent THEN [View(x)[r] EXCEPT !.state = "used"] ELSE new],
              "commit")

\* A row whose revoked_at is set, if it was not.
Revoked(view, r) == [view[r] EXCEPT !.state = IF @ = "active" THEN "revoked" ELSE @]
Revoke(x, rows, next) == Apply(x, [r \in rows |-> Revoked(View(x), r)], next)

\* revokeLoginSession: session, tokens, and the key the session names by then.
EndSession(x) ==
  /\ Ready(x, "endSession")
  /\ IF tx[x].picked = << >> THEN Refuse(x) ELSE Revoke(x, {Session}, "endTokens")

EndTokens(x) ==
  /\ Ready(x, "endTokens")
  /\ Revoke(x, {tx[x].picked[i] : i \in DOMAIN tx[x].picked},
            IF tx[x].op = "revokeSession" THEN "endSessionKey" ELSE "commit")

EndSessionKey(x) ==
  /\ Ready(x, "endSessionKey")
  /\ Revoke(x, {Key(View(x)[Session].key)}, "commit")

\* revokeApiKey, also of a logout: key, the session that names it, its tokens.
EndKey(x) ==
  /\ Ready(x, "endKey")
  /\ IF tx[x].picked = << >> THEN Refuse(x) ELSE Revoke(x, {Key(tx[x].arg)}, "endSessionOfKey")

\* MUTANT of EndSessionOfKey: the refresh tokens are left alone.
EndSessionOfKeyOnly(x) ==
  /\ Ready(x, "endSessionOfKey")
  /\ IF tx[x].picked # << >> /\ View(x)[Session].key = tx[x].arg
     THEN Revoke(x, {Session}, "commit")
     ELSE Apply(x, NoWrites, "commit")

EndSessionOfKey(x) ==
  /\ Ready(x, "endSessionOfKey")
  /\ IF tx[x].picked # << >> /\ View(x)[Session].key = tx[x].arg
     THEN Revoke(x, {Session}, "endTokens")
     ELSE Apply(x, NoWrites, "commit")

\* rotateApiKey: a new key of the same owner, whose session keeps the old one.
FindKey(x) ==
  /\ Ready(x, "findKey")
  /\ IF tx[x].picked # << >> /\ IsActive(View(x), Key(tx[x].arg))
     THEN Apply(x, NoWrites, "replaceKey")
     ELSE Refuse(x)

ReplaceKey(x) ==
  /\ Ready(x, "replaceKey")
  /\ LET new == [NoRow EXCEPT !.state = "active", !.by = "rotation"]
         old == Key(tx[x].arg)
     IN Apply(x, [r \in {Key(NewKey)} \cup (IF tx[x].op = "rotateAndRevoke" THEN {old} ELSE {}) |->
                    IF r = old THEN [View(x)[r] EXCEPT !.state = "replaced"] ELSE new],
              "commit")

\* updateUser.
SetUser(x) ==
  /\ Ready(x, "setUser")
  /\ Apply(x, [r \in {User} |->
                [View(x)[r] EXCEPT !.state = IF tx[x].op = "enable" THEN "active" ELSE "disabled"]],
           "commit")
-----------------------------------------------------------------------------
Statement(x) ==
  \/ StartStatement(x) \/ Lock(x) \/ Commit(x)
  \/ IssueLogin(x) \/ FindToken(x) \/ RotateSession(x)
  \/ EndSession(x) \/ EndTokens(x) \/ EndSessionKey(x) \/ EndKey(x) \/ EndSessionOfKey(x)
  \/ FindKey(x) \/ ReplaceKey(x) \/ SetUser(x)

Next ==
  \E x \in Txs :
    \/ \E op \in {"login", "revokeSession", "enable", "disable"} : StartRequest(x, op, 0)
    \/ \E t \in Tokens : db[Token(t)] # NoRow /\ StartRequest(x, "refresh", t)
    \/ \E op \in {"revokeKey", "rotate", "rotateAndRevoke"}, k \in Keys :
         db[Key(k)] # NoRow /\ StartRequest(x, op, k)
    \/ Statement(x) \/ AbortVictim(x) \/ Die(x)

\* Locks are granted in turn and statements end; the deadlock check runs after
\* deadlock_timeout. Requests are not assumed to come, nor processes to die.
Fairness == \A x \in Txs : WF_vars(Statement(x)) /\ WF_vars(AbortVictim(x))

Spec == Init /\ [][Next]_vars /\ Fairness
-----------------------------------------------------------------------------
(* Properties.                                                                *)

\* A transaction writes only rows it holds, so no update is lost.
TypeOK ==
  /\ db \in [Rows -> Values]
  /\ \A x \in Txs : \A r \in DOMAIN tx[x].writes : db[r] # NoRow /\ tx[x].writes[r] # db[r] => owner[r] = x

\* A revoked session has no key that authenticates and no token that refreshes,
\* whichever refresh it met; and a session whose key was revoked, by a logout
\* or an administrator, is revoked with it. Only a rotated key leaves its
\* session open, and nothing can refresh that session any more.
EndedTogether ==
  /\ db[Session].state = "revoked" =>
       /\ ~IsActive(db, Key(db[Session].key))
       /\ \A t \in Tokens : ~IsActive(db, Token(t))
  /\ db[Session].state = "active" => db[Key(db[Session].key)].state \in {"active", "replaced"}

\* A session has at most one token that can be used and one key that a login or
\* a refresh gave it: a token used twice, by a retry or from two tabs, buys one
\* refresh, and the key it replaced is dead.
OneCredentialAtATime ==
  /\ Cardinality({t \in Tokens : IsActive(db, Token(t))}) <= 1
  /\ Cardinality({k \in Keys : IsActive(db, Key(k)) /\ db[Key(k)].by = "login"}) <= 1

\* Every request ends, whatever rows it meets another over.
RequestsEnd == \A x \in Txs : tx[x].op # "none" ~> tx[x].op = "none"
=============================================================================
