----------------------------- MODULE DeviceLogin -----------------------------
(***************************************************************************)
(* Desktop sign-in: a device flow that a signed-in person approves and the *)
(* desktop polls for, and the refresh tokens that follow from it, each     *)
(* used once for its successor.  Password changes, resets and disabling    *)
(* revoke them all.                                                        *)
(*                                                                         *)
(* A statement outside a transaction commits by itself.  A transaction's   *)
(* rows are in `writes', locked and invisible to others until its commit.  *)
(* An answer that is lost changes nothing here: what was committed stays   *)
(* so, and the client may send the same request again at any time.         *)
(***************************************************************************)
EXTENDS Naturals, FiniteSetsExt, Tables

CONSTANTS
  Slot, User,
  Flow, Token, \* numbers: rows are created in this order
  None

ASSUME DeviceLoginAssumption ==
  Flow \subseteq Nat /\ Token \subseteq Nat \ {0} /\ None \notin User

VARIABLES
  db,  \* committed users, device flows and refresh tokens
  txn  \* the request of each slot

vars == <<db, txn>>

-----------------------------------------------------------------------------
NoRow == [status |-> "none", user |-> None, from |-> None, login |-> None, expired |-> FALSE]
NewUser(u) == [status |-> "active", user |-> u, mustChange |-> FALSE]
NewFlow == [NoRow EXCEPT !.status = "pending"]
\* History, no columns: `from' is the flow or the token it was issued for, which
\* is what the transaction that inserts it has claimed; `login' is the flow that
\* goes back to.
Login(from) == IF from[1] = "flow" THEN from[2] ELSE db[from].login
NewToken(u, from) ==
  [NoRow EXCEPT !.status = "live", !.user = u, !.from = from, !.login = Login(from)]

Key == ({"user"} \X User) \cup ({"flow"} \X Flow) \cup ({"token"} \X Token)

\* `found' is what an updateMany has found, before it waits for locks.
Idle == [pc |-> "idle", key |-> None, user |-> None, found |-> {}, writes |-> <<>>]

Init ==
  /\ db = [k \in Key |-> IF k[1] = "user" THEN NewUser(k[2]) ELSE NoRow]
  /\ txn = [s \in Slot |-> Idle]

Usable(u) == db[<<"user", u>>].status = "active"
MustChange(u) == db[<<"user", u>>].mustChange
Held(k) == \E s \in Slot : k \in DOMAIN txn[s].writes
Locked(s, k) == \E t \in Slot \ {s} : k \in DOMAIN txn[t].writes

Go(s, to) == txn' = [txn EXCEPT ![s].pc = to] /\ UNCHANGED db
Done(s) == txn' = [txn EXCEPT ![s] = Idle]
Answered(s) == Done(s) /\ UNCHANGED db

\* An update within the transaction, and one that is a transaction by itself.
Put(s, rows, to) ==
  /\ \A k \in DOMAIN rows : ~Locked(s, k)
  /\ txn' = [txn EXCEPT ![s].writes = Over(rows, @), ![s].pc = to]
  /\ UNCHANGED db
PutNow(s, rows) ==
  /\ \A k \in DOMAIN rows : ~Locked(s, k)
  /\ db' = Over(rows, db)
  /\ Done(s)

Set(k, status) == Row(k, [db[k] EXCEPT !.status = status])

LiveTokens(u) == {k \in Key : k[1] = "token" /\ db[k].user = u /\ db[k].status = "live"}

\* updateMany over the refresh tokens of a user that are not revoked: a token
\* committed while the statement waits for a lock is not found.
Find(s, to) ==
  /\ txn' = [txn EXCEPT ![s].found = LiveTokens(txn[s].user), ![s].pc = to]
  /\ UNCHANGED db
Revoked(s) ==
  [k \in {f \in txn[s].found : db[f].status = "live"} |-> [db[k] EXCEPT !.status = "revoked"]]

Fresh(kind, ids) ==
  {i \in ids : db[<<kind, i>>] = NoRow /\ ~Held(<<kind, i>>)}

\* A request goes from its first statement, which changes nothing, to `to'; where
\* that statement ends it nothing happens at all.
Begin(s, to, key, user) ==
  /\ txn[s].pc = "idle"
  /\ txn' = [txn EXCEPT ![s] = [Idle EXCEPT !.pc = to, !.key = key, !.user = user]]
  /\ UNCHANGED db

-----------------------------------------------------------------------------
(* The device flow *)

\* device/start: codes are fresh (a clash of user codes is retried).
Start ==
  /\ Fresh("flow", Flow) # {}
  /\ db' = [db EXCEPT ![<<"flow", Min(Fresh("flow", Flow))>>] = NewFlow]
  /\ UNCHANGED txn

\* The clock passes the expiresAt of a flow or a token.
Expire(k) ==
  /\ db[k] # NoRow /\ db[k].status # "deleted" /\ ~db[k].expired
  /\ ~Held(k)
  /\ db' = [db EXCEPT ![k].expired = TRUE]
  /\ UNCHANGED txn

\* The hourly sweep deletes what has expired.  A deleted row keeps its user and
\* origin here, for the properties; nobody finds it.
Sweep(kind) ==
  /\ \A k \in Key : k[1] = kind /\ db[k].expired => ~Held(k)
  /\ db' = [k \in Key |-> IF k[1] = kind /\ db[k].expired
                         THEN [db[k] EXCEPT !.status = "deleted"] ELSE db[k]]
  /\ UNCHANGED txn

\* device/approve, of someone signed in whose password need not be changed.
Approve(s, f, u) == Usable(u) /\ ~MustChange(u) /\ Begin(s, "approve", <<"flow", f>>, u)

Pending(k) == db[k].status = "pending" /\ ~db[k].expired

FindPendingFlow(s) ==
  /\ txn[s].pc = "approve"
  /\ IF Pending(txn[s].key) THEN Go(s, "bind") ELSE Answered(s)

\* The form of the device page, with the credentials of u.
SubmitForm(s, f, u) == Pending(<<"flow", f>>) /\ Begin(s, "verifyLogin", <<"flow", f>>, u)

VerifyLogin(s) ==
  /\ txn[s].pc = "verifyLogin"
  /\ IF Usable(txn[s].user) /\ ~MustChange(txn[s].user) THEN Go(s, "bind") ELSE Answered(s)

\* Mutant: UPDATE by id.
BindFlow_byId(s) ==
  /\ txn[s].pc = "bind"
  /\ PutNow(s, Row(txn[s].key, [db[txn[s].key] EXCEPT !.status = "approved", !.user = txn[s].user]))

\* updateMany where pending.  The expiry was looked at before.
BindFlow(s) ==
  /\ txn[s].pc = "bind"
  /\ IF db[txn[s].key].status = "pending"
     THEN PutNow(s, Row(txn[s].key, [db[txn[s].key] EXCEPT !.status = "approved",
                                                           !.user = txn[s].user]))
     ELSE Answered(s)

Poll(s, f) ==
  LET flow == db[<<"flow", f>>] IN
  /\ flow.status = "approved" /\ ~flow.expired /\ Usable(flow.user)
  /\ Begin(s, IF MustChange(flow.user) THEN "deny" ELSE "consume", <<"flow", f>>, flow.user)

DenyFlow(s) ==
  /\ txn[s].pc = "deny"
  /\ IF db[txn[s].key].status = "approved" THEN PutNow(s, Set(txn[s].key, "consumed"))
     ELSE Answered(s)

\* Mutant: UPDATE by id.
ConsumeFlow_byId(s) ==
  /\ txn[s].pc = "consume"
  /\ Put(s, Set(txn[s].key, "consumed"), "issue")

\* Mutant: outside the transaction that issues the tokens.
ConsumeFlow_alone(s) ==
  /\ txn[s].pc = "consume"
  /\ IF db[txn[s].key].status = "approved" /\ ~Locked(s, txn[s].key)
     THEN /\ db' = [db EXCEPT ![txn[s].key].status = "consumed"]
          /\ txn' = [txn EXCEPT ![s].pc = "issue"]
     ELSE Answered(s)

\* updateMany where approved: a concurrent poll finds none left.
ConsumeFlow(s) ==
  /\ txn[s].pc = "consume"
  /\ IF db[txn[s].key].status = "approved"
     THEN Put(s, Set(txn[s].key, "consumed"), "issue") ELSE Answered(s)

-----------------------------------------------------------------------------
(* Refresh tokens *)

\* A token used before revokes all of its user's.
Refresh(s, t) ==
  LET row == db[<<"token", t>>] IN
  \/ row.status = "revoked" /\ Begin(s, "findAll", <<"token", t>>, row.user)
  \/ /\ row.status = "live" /\ ~row.expired /\ Usable(row.user)
     /\ Begin(s, "rotate", <<"token", t>>, row.user)

RevokeAll(s) ==
  \/ txn[s].pc = "findAll" /\ Find(s, "revokeAll")
  \/ txn[s].pc = "revokeAll" /\ PutNow(s, Revoked(s))

\* Mutants: UPDATE by id; the old token stays usable until it expires.
RotateToken_byId(s) ==
  /\ txn[s].pc = "rotate"
  /\ Put(s, Set(txn[s].key, "revoked"), "issue")

RotateToken_keepsOld(s) ==
  /\ txn[s].pc = "rotate"
  /\ IF db[txn[s].key].status = "live" THEN Put(s, Set(txn[s].key, "live"), "issue")
     ELSE Answered(s)

\* updateMany where not revoked: a concurrent refresh finds it revoked.
RotateToken(s) ==
  /\ txn[s].pc = "rotate"
  /\ IF db[txn[s].key].status = "live" THEN Put(s, Set(txn[s].key, "revoked"), "issue")
     ELSE Answered(s)

\* Mutant: the row has no user.
issueTokenPair_noUser(s) ==
  /\ txn[s].pc = "issue" /\ Fresh("token", Token) # {}
  /\ Put(s, Row(<<"token", Min(Fresh("token", Token))>>, NewToken(None, txn[s].key)), "commit")

\* In the transaction of the poll or of the rotation.
issueTokenPair(s) ==
  /\ txn[s].pc = "issue" /\ Fresh("token", Token) # {}
  /\ Put(s, Row(<<"token", Min(Fresh("token", Token))>>, NewToken(txn[s].user, txn[s].key)),
         "commit")

Logout(s, t) ==
  /\ txn[s].pc = "idle" /\ db[<<"token", t>>].status = "live"
  /\ PutNow(s, Set(<<"token", t>>, "revoked"))

-----------------------------------------------------------------------------
(* Password change, password reset, disabling: revokeAllUserCredentials *)

Account == {"changePassword", "resetPassword", "requireChange", "disable", "enable"}

UpdateUser(s, kind, u) ==
  LET k   == <<"user", u>>
      row == CASE kind = "changePassword" -> [db[k] EXCEPT !.mustChange = FALSE]
               [] kind \in {"resetPassword", "requireChange"} -> [db[k] EXCEPT !.mustChange = TRUE]
               [] kind = "disable" -> [db[k] EXCEPT !.status = "disabled"]
               [] OTHER            -> [db[k] EXCEPT !.status = "active"]
  IN /\ txn[s].pc = "idle" /\ ~Locked(s, k)
     /\ txn' = [txn EXCEPT ![s] =
          [Idle EXCEPT !.pc = IF kind \in {"enable", "requireChange"} THEN "commit" ELSE "findTokens",
                       !.user = u, !.writes = Row(k, row)]]
     /\ UNCHANGED db

RevokeTokens(s) ==
  \/ txn[s].pc = "findTokens" /\ Find(s, "revokeTokens")
  \/ txn[s].pc = "revokeTokens" /\ Put(s, Revoked(s), "commit")

-----------------------------------------------------------------------------
Commit(s) ==
  /\ txn[s].pc = "commit"
  /\ db' = Over(txn[s].writes, db)
  /\ Done(s)

\* A crash or a timeout before the commit.
Abort(s) == txn[s].pc # "idle" /\ Answered(s)

Statement(s) ==
  \/ FindPendingFlow(s) \/ VerifyLogin(s) \/ BindFlow(s) \/ DenyFlow(s) \/ ConsumeFlow(s)
  \/ RevokeAll(s) \/ RotateToken(s) \/ issueTokenPair(s)
  \/ RevokeTokens(s) \/ Commit(s)

Client(s) ==
  \/ \E f \in Flow, u \in User : Approve(s, f, u) \/ SubmitForm(s, f, u)
  \/ \E f \in Flow : Poll(s, f)
  \/ \E t \in Token : Refresh(s, t) \/ Logout(s, t)
  \/ \E kind \in Account, u \in User : UpdateUser(s, kind, u)

Next ==
  \/ Start
  \/ \E k \in Key : k[1] # "user" /\ Expire(k)
  \/ Sweep("flow") \/ Sweep("token")
  \/ \E s \in Slot : Client(s) \/ Statement(s) \/ Abort(s)

Spec == Init /\ [][Next]_vars
=============================================================================
