-------------------------- MODULE DeviceLoginProofs --------------------------
(***************************************************************************)
(* For any number of requests, people, flows and tokens: nothing is        *)
(* exchanged twice, no flow is used up without its token, and a login is   *)
(* one live token of the person who approved it.                           *)
(*                                                                         *)
(* The argument: a token is inserted by a transaction that holds the row   *)
(* it exchanges, and has marked it as spent.  A row that is held was not   *)
(* spent before, and nobody else can spend it until the commit; a row that *)
(* is spent is never held again.  So a row that a committed token comes    *)
(* from is spent, and cannot be what another one is about to come from.    *)
(***************************************************************************)
EXTENDS DeviceLoginProps, WellFoundedInduction, TLAPS

FlowKey(f) == <<"flow", f>>
TokenKey(t) == <<"token", t>>
Exchanged == {k \in Key : k[1] # "user"}

Columns == {"status", "user", "from", "login", "expired"}
CallFields == {"pc", "key", "user", "found", "writes"}

Spent(row) == row.status \in {"consumed", "revoked", "deleted"}

FlowPc == {"approve", "bind", "verifyLogin", "deny", "consume"}

\* Token t is about to be inserted by the call c.
Inserts(d, c, t) == TokenKey(t) \in DOMAIN c.writes /\ d[TokenKey(t)] = NoRow

\* The row that is exchanged is held, and spent at the commit.
Claimed(c) ==
  /\ c.key \in Exchanged /\ c.key \in DOMAIN c.writes
  /\ Spent(c.writes[c.key])

\* What a row that was there may become in the transaction of c.
Keeps(d, c, t) ==
  LET new == c.writes[TokenKey(t)] IN
  new # NoRow /\ new.from = d[TokenKey(t)].from

CallOK(d, c) ==
  /\ DOMAIN c = CallFields
  /\ DOMAIN c.writes \subseteq Key
  /\ \A k \in DOMAIN c.writes :
       k \in Exchanged => DOMAIN c.writes[k] = Columns /\ ~Spent(d[k])
  /\ c.found \subseteq {k \in Key : k[1] = "token"}
  /\ c.pc \in FlowPc => c.key \in {"flow"} \X Flow
  /\ c.pc = "rotate" => c.key \in {"token"} \X Token
  /\ c.pc \in {"consume", "rotate"} => DOMAIN c.writes = {}
  /\ c.pc = "issue" => Claimed(c)
  /\ \A t \in Token : TokenKey(t) \in DOMAIN c.writes =>
       \/ d[TokenKey(t)] # NoRow /\ Keeps(d, c, t)
       \/ /\ Inserts(d, c, t) /\ c.pc = "commit" /\ Claimed(c)
          /\ c.writes[TokenKey(t)] # NoRow /\ c.writes[TokenKey(t)].from = c.key
  /\ \A t1, t2 \in Token : Inserts(d, c, t1) /\ Inserts(d, c, t2) => t1 = t2
  /\ \A f \in Flow : FlowKey(f) \in DOMAIN c.writes =>
       /\ c.key = FlowKey(f) /\ c.pc \in {"issue", "commit"}
       /\ c.pc = "commit" =>
            \E t \in Token : Inserts(d, c, t) /\ c.writes[TokenKey(t)].from = FlowKey(f)

RowsOK(d) ==
  /\ DOMAIN d = Key
  /\ \A k \in Exchanged : DOMAIN d[k] = Columns
  /\ \A t \in Token : d[TokenKey(t)] # NoRow =>
       d[TokenKey(t)].from \in Exchanged /\ Spent(d[d[TokenKey(t)].from])

OncePerRow(d) ==
  \A t1, t2 \in Token :
    /\ d[TokenKey(t1)] # NoRow /\ d[TokenKey(t2)] # NoRow
    /\ d[TokenKey(t1)].from = d[TokenKey(t2)].from
    => t1 = t2

HeldByOne(x) ==
  \A s1, s2 \in Slot : s1 # s2 => DOMAIN x[s1].writes \cap DOMAIN x[s2].writes = {}

ExchangeInv ==
  /\ RowsOK(db) /\ OncePerRow(db)
  /\ DOMAIN txn = Slot /\ HeldByOne(txn)
  /\ \A s \in Slot : CallOK(db, txn[s])

-----------------------------------------------------------------------------
(* Keys and rows *)

LEMMA Keys ==
  /\ \A f \in Flow : FlowKey(f) \in Exchanged /\ FlowKey(f)[1] = "flow"
  /\ \A t \in Token : TokenKey(t) \in Exchanged /\ TokenKey(t)[1] = "token"
  /\ \A f \in Flow, t \in Token : FlowKey(f) # TokenKey(t)
  /\ \A t1, t2 \in Token : TokenKey(t1) = TokenKey(t2) => t1 = t2
  /\ \A f1, f2 \in Flow : FlowKey(f1) = FlowKey(f2) => f1 = f2
  /\ \A k \in {"flow"} \X Flow : k \in Exchanged /\ k[1] = "flow" /\ \E f \in Flow : k = FlowKey(f)
  /\ \A k \in {"token"} \X Token : k \in Exchanged /\ k[1] = "token" /\ \E t \in Token : k = TokenKey(t)
  /\ \A k \in Key : k[1] = "token" => \E t \in Token : k = TokenKey(t)
  /\ \A u \in User : <<"user", u>> \in Key /\ <<"user", u>> \notin Exchanged
  /\ Exchanged \subseteq Key
BY DEF FlowKey, TokenKey, Exchanged, Key

LEMMA NoRowShape == DOMAIN NoRow = Columns /\ NoRow.status = "none" /\ ~Spent(NoRow)
BY DEF NoRow, Columns, Spent

LEMMA IdleOK == ASSUME NEW d PROVE CallOK(d, Idle) /\ DOMAIN Idle.writes = {}
BY DEF Idle, CallOK, CallFields, FlowPc, Inserts

\* The rows a slot holds are what its call is about.
LEMMA CallKept ==
  ASSUME NEW d, NEW e, NEW c, CallOK(d, c),
         \A k \in DOMAIN c.writes : k \in Exchanged => e[k] = d[k]
  PROVE  CallOK(e, c)
<1>1. \A t \in Token : TokenKey(t) \in DOMAIN c.writes => e[TokenKey(t)] = d[TokenKey(t)]
  BY Keys
<1>2. \A t \in Token : /\ Inserts(e, c, t) <=> Inserts(d, c, t)
                       /\ TokenKey(t) \in DOMAIN c.writes => (Keeps(e, c, t) <=> Keeps(d, c, t))
  BY <1>1 DEF Inserts, Keeps
<1> QED BY <1>1, <1>2 DEF CallOK

-----------------------------------------------------------------------------
(* Three kinds of steps *)

\* A request goes on; nothing is committed.
LEMMA OwnStep ==
  ASSUME ExchangeInv, NEW s \in Slot, NEW c, db' = db, txn' = [txn EXCEPT ![s] = c],
         CallOK(db, c),
         \A t \in Slot \ {s} : DOMAIN c.writes \cap DOMAIN txn[t].writes = {}
  PROVE  ExchangeInv'
<1>1. DOMAIN txn' = Slot /\ txn'[s] = c /\ \A t \in Slot \ {s} : txn'[t] = txn[t]
  BY DEF ExchangeInv
<1>2. HeldByOne(txn')
  BY <1>1 DEF HeldByOne, ExchangeInv
<1>3. \A t \in Slot : CallOK(db', txn'[t])
  BY <1>1 DEF ExchangeInv
<1> QED BY <1>1, <1>2, <1>3 DEF ExchangeInv

LEMMA EndStep ==
  ASSUME ExchangeInv, NEW s \in Slot, db' = db, txn' = [txn EXCEPT ![s] = Idle]
  PROVE  ExchangeInv'
BY OwnStep, IdleOK

\* A row that nobody holds changes: it is created, or grows older.
Ages(k, old, new) ==
  /\ DOMAIN new = Columns
  /\ Spent(old) => Spent(new)
  /\ k[1] = "token" => old # NoRow /\ new # NoRow /\ new.from = old.from

LEMMA RowStep ==
  ASSUME ExchangeInv, DOMAIN db' = Key, DOMAIN txn' = Slot,
         \A s \in Slot : txn'[s] = txn[s] \/ txn'[s] = Idle,
         \A k \in Exchanged : db'[k] # db[k] =>
           /\ Ages(k, db[k], db'[k])
           /\ \A s \in Slot : txn'[s] = txn[s] => k \notin DOMAIN txn[s].writes
  PROVE  ExchangeInv'
<1>1. \A k \in Exchanged : DOMAIN db'[k] = Columns /\ (Spent(db[k]) => Spent(db'[k]))
  BY DEF ExchangeInv, RowsOK, Ages
<1>2. \A t \in Token : /\ db'[TokenKey(t)] # NoRow <=> db[TokenKey(t)] # NoRow
                       /\ db'[TokenKey(t)] # NoRow => db'[TokenKey(t)].from = db[TokenKey(t)].from
  BY Keys DEF Ages
<1>3. RowsOK(db')
  BY <1>1, <1>2 DEF ExchangeInv, RowsOK
<1>4. OncePerRow(db')
  BY <1>2 DEF ExchangeInv, OncePerRow
<1>5. HeldByOne(txn')
  BY IdleOK DEF ExchangeInv, HeldByOne
<1>6. ASSUME NEW s \in Slot PROVE CallOK(db', txn'[s])
  <2>1. CASE txn'[s] = Idle
    BY <2>1, IdleOK
  <2>2. CASE txn'[s] = txn[s]
    <3>1. \A k \in DOMAIN txn[s].writes : k \in Exchanged => db'[k] = db[k]
      BY <2>2
    <3> QED BY <2>2, <3>1, CallKept DEF ExchangeInv
  <2> QED BY <2>1, <2>2
<1> QED BY <1>3, <1>4, <1>5, <1>6 DEF ExchangeInv

\* A transaction commits.
LEMMA CommitStep ==
  ASSUME ExchangeInv, NEW s \in Slot, Commit(s)
  PROVE  ExchangeInv'
<1> DEFINE c == txn[s]
           w == txn[s].writes
<1>1. /\ txn' = [txn EXCEPT ![s] = Idle]
      /\ DOMAIN txn' = Slot /\ txn'[s] = Idle /\ \A t \in Slot \ {s} : txn'[t] = txn[t]
  BY DEF Commit, Done, ExchangeInv
<1>2. CallOK(db, c)
  BY DEF ExchangeInv
<1>3. /\ DOMAIN db' = Key
      /\ \A k \in Key : db'[k] = IF k \in DOMAIN w THEN w[k] ELSE db[k]
  BY <1>2 DEF Commit, ExchangeInv, RowsOK, Over, CallOK
<1>4. \A k \in Exchanged : DOMAIN db'[k] = Columns
  BY <1>2, <1>3, Keys DEF CallOK, ExchangeInv, RowsOK
<1>5. \A k \in Exchanged : Spent(db[k]) => db'[k] = db[k]
  BY <1>2, <1>3, Keys DEF CallOK
<1> DEFINE New(t) == Inserts(db, c, t)
<1>6. \A t \in Token : New(t) => /\ db'[TokenKey(t)].from = c.key
                                 /\ c.key \in Exchanged /\ ~Spent(db[c.key]) /\ Spent(db'[c.key])
  <2> TAKE t \in Token
  <2> HAVE New(t)
  <2>1. /\ Claimed(c) /\ TokenKey(t) \in DOMAIN w /\ w[TokenKey(t)].from = c.key
    BY <1>2 DEF CallOK, Inserts
  <2>2. db'[TokenKey(t)] = w[TokenKey(t)]
    BY <1>3, <2>1, Keys
  <2>3. c.key \in Exchanged /\ ~Spent(db[c.key])
    BY <1>2, <2>1 DEF CallOK, Claimed
  <2>4. db'[c.key] = w[c.key]
    BY <1>3, <2>1, Keys DEF Claimed
  <2> QED BY <2>1, <2>2, <2>3, <2>4 DEF Claimed
<1>7. \A t \in Token : db'[TokenKey(t)] # NoRow /\ ~New(t) =>
        db[TokenKey(t)] # NoRow /\ db'[TokenKey(t)].from = db[TokenKey(t)].from
  <2> TAKE t \in Token
  <2> HAVE db'[TokenKey(t)] # NoRow /\ ~New(t)
  <2>1. CASE TokenKey(t) \in DOMAIN w
    <3>1. db'[TokenKey(t)] = w[TokenKey(t)]
      BY <1>3, <2>1, Keys
    <3>2. db[TokenKey(t)] # NoRow /\ Keeps(db, c, t)
      BY <1>2, <2>1 DEF CallOK
    <3> QED BY <3>1, <3>2 DEF Keeps
  <2>2. CASE TokenKey(t) \notin DOMAIN w
    BY <1>3, <2>2, Keys
  <2> QED BY <2>1, <2>2
<1>8. \A t1, t2 \in Token : New(t1) /\ New(t2) => t1 = t2
  BY <1>2 DEF CallOK
<1>9. \A t \in Token : db[TokenKey(t)] # NoRow =>
        db[TokenKey(t)].from \in Exchanged /\ Spent(db[db[TokenKey(t)].from])
  BY DEF ExchangeInv, RowsOK
<1>10. ASSUME NEW x \in Slot \ {s} PROVE CallOK(db', txn'[x])
  <2>1. CallOK(db, txn[x]) /\ txn'[x] = txn[x]
    BY <1>1 DEF ExchangeInv
  <2>2. \A k \in DOMAIN txn[x].writes : k \in Exchanged => db'[k] = db[k]
    BY <1>3, Keys DEF ExchangeInv, HeldByOne
  <2> QED BY <2>1, <2>2, CallKept
<1>11. \A x \in Slot : CallOK(db', txn'[x])
  BY <1>1, <1>10, IdleOK
<1>12. HeldByOne(txn')
  BY <1>1, IdleOK DEF ExchangeInv, HeldByOne
<1> HIDE DEF c, w, New
<1>13. RowsOK(db')
  BY <1>3, <1>4, <1>5, <1>6, <1>7, <1>9 DEF RowsOK
<1>14. OncePerRow(db')
  BY <1>5, <1>6, <1>7, <1>8, <1>9 DEF ExchangeInv, OncePerRow
<1> QED BY <1>1, <1>11, <1>12, <1>13, <1>14 DEF ExchangeInv
-----------------------------------------------------------------------------
(* The pieces the actions are made of *)

LEMMA RowIs == ASSUME NEW k, NEW r PROVE DOMAIN Row(k, r) = {k} /\ Row(k, r)[k] = r
BY DEF Row

LEMMA SetIs ==
  ASSUME ExchangeInv, NEW k \in Exchanged, NEW status
  PROVE  /\ DOMAIN Set(k, status) = {k} /\ DOMAIN Set(k, status)[k] = Columns
         /\ Set(k, status)[k].status = status /\ Set(k, status)[k].from = db[k].from
<1> DEFINE row == [db[k] EXCEPT !.status = status]
<1>1. DOMAIN row = Columns /\ row.status = status /\ row.from = db[k].from
  BY DEF ExchangeInv, RowsOK, Columns
<1>2. Set(k, status) = Row(k, row)
  BY DEF Set
<1>3. DOMAIN Row(k, row) = {k} /\ Row(k, row)[k] = row
  BY RowIs
<1> HIDE DEF row
<1> QED BY <1>1, <1>2, <1>3

LEMMA MinIn ==
  ASSUME NEW S, S \subseteq Nat, S # {}
  PROVE  Min(S) \in S
<1> DEFINE less == {ss \in Nat \X Nat : ss[1] < ss[2]}
<1>1. IsWellFoundedOn(less, Nat)
  BY NatLessThanWellFounded, Zenon DEF OpToRel
<1>2. \A m, n \in Nat : m < n => <<m, n>> \in less
  OBVIOUS
<1> HIDE DEF less
<1>3. PICK n \in S : \A m \in S : ~(<<m, n>> \in less)
  BY <1>1, WFMin
<1>4. \A m \in S : m \in Nat /\ n \in Nat /\ ~(m < n)
  BY <1>2, <1>3
<1>5. n \in S /\ \A m \in S : n <= m
  BY <1>4
<1> QED BY <1>5 DEF Min

LEMMA BeginStep ==
  ASSUME ExchangeInv, NEW s \in Slot, NEW to, NEW key, NEW user, Begin(s, to, key, user),
         to \in FlowPc => key \in {"flow"} \X Flow,
         to = "rotate" => key \in {"token"} \X Token,
         to \notin {"issue", "commit"}
  PROVE  ExchangeInv'
<1> DEFINE c == [Idle EXCEPT !.pc = to, !.key = key, !.user = user]
<1>1. /\ c.pc = to /\ c.key = key /\ c.found = {} /\ DOMAIN c.writes = {}
      /\ DOMAIN c = CallFields
  BY DEF Idle, CallFields
<1>2. db' = db /\ txn' = [txn EXCEPT ![s] = c]
  BY DEF Begin
<1> HIDE DEF c
<1>3. CallOK(db, c)
  BY <1>1 DEF CallOK, Inserts
<1> QED BY <1>1, <1>2, <1>3, OwnStep

LEMMA GoStep ==
  ASSUME ExchangeInv, NEW s \in Slot, txn[s].pc \in FlowPc, Go(s, "bind")
  PROVE  ExchangeInv'
<1> DEFINE c == [txn[s] EXCEPT !.pc = "bind"]
<1>1. CallOK(db, txn[s])
  BY DEF ExchangeInv
<1>2. /\ c.pc = "bind" /\ c.key = txn[s].key /\ c.found = txn[s].found
      /\ c.writes = txn[s].writes /\ DOMAIN c = CallFields
  BY <1>1 DEF CallOK, CallFields
<1>3. db' = db /\ txn' = [txn EXCEPT ![s] = c]
  BY DEF Go
<1> HIDE DEF c
<1>4. CallOK(db, c)
  BY <1>1, <1>2 DEF CallOK, FlowPc, Inserts, Keeps
<1>5. \A t \in Slot \ {s} : DOMAIN c.writes \cap DOMAIN txn[t].writes = {}
  BY <1>2 DEF ExchangeInv, HeldByOne
<1> QED BY <1>3, <1>4, <1>5, OwnStep

LEMMA FindStep ==
  ASSUME ExchangeInv, NEW s \in Slot, NEW to \in {"revokeAll", "revokeTokens"},
         txn[s].pc \in {"findAll", "findTokens"}, Find(s, to)
  PROVE  ExchangeInv'
<1> DEFINE c == [txn[s] EXCEPT !.found = LiveTokens(txn[s].user), !.pc = to]
<1>1. CallOK(db, txn[s])
  BY DEF ExchangeInv
<1>2. /\ c.pc = to /\ c.key = txn[s].key /\ c.found = LiveTokens(txn[s].user)
      /\ c.writes = txn[s].writes /\ DOMAIN c = CallFields
  BY <1>1 DEF CallOK, CallFields
<1>3. db' = db /\ txn' = [txn EXCEPT ![s] = c]
  BY DEF Find
<1>4. c.found \subseteq {k \in Key : k[1] = "token"}
  BY <1>2 DEF LiveTokens
<1> HIDE DEF c
<1>5. CallOK(db, c)
  BY <1>1, <1>2, <1>4 DEF CallOK, FlowPc, Inserts, Keeps
<1>6. \A t \in Slot \ {s} : DOMAIN c.writes \cap DOMAIN txn[t].writes = {}
  BY <1>2 DEF ExchangeInv, HeldByOne
<1> QED BY <1>3, <1>5, <1>6, OwnStep

\* Rows written in the transaction of s.
After(s, rows, to) == [txn[s] EXCEPT !.writes = Over(rows, @), !.pc = to]

LEMMA AfterIs ==
  ASSUME ExchangeInv, NEW s \in Slot, NEW rows, NEW to
  PROVE  LET c == After(s, rows, to) IN
         /\ DOMAIN c = CallFields
         /\ c.pc = to /\ c.key = txn[s].key /\ c.found = txn[s].found
         /\ c.writes = Over(rows, txn[s].writes)
BY DEF After, ExchangeInv, CallOK, CallFields

LEMMA PutStep ==
  ASSUME ExchangeInv, NEW s \in Slot, NEW rows, NEW to, Put(s, rows, to),
         CallOK(db, After(s, rows, to))
  PROVE  ExchangeInv'
<1> DEFINE c == After(s, rows, to)
<1>1. db' = db /\ txn' = [txn EXCEPT ![s] = c]
  BY DEF Put, After
<1>2. DOMAIN c.writes = DOMAIN rows \cup DOMAIN txn[s].writes
  <2>1. c.writes = Over(rows, txn[s].writes)
    BY AfterIs
  <2> HIDE DEF c
  <2> QED BY <2>1 DEF Over
<1>3. \A t \in Slot \ {s} : DOMAIN c.writes \cap DOMAIN txn[t].writes = {}
  BY <1>2 DEF Put, Locked, ExchangeInv, HeldByOne
<1> HIDE DEF c
<1>4. CallOK(db, c)
  BY DEF c
<1> QED BY <1>1, <1>3, <1>4, OwnStep

\* Rows written outside a transaction.
LEMMA PutNowStep ==
  ASSUME ExchangeInv, NEW s \in Slot, NEW rows, PutNow(s, rows), DOMAIN rows \subseteq Exchanged,
         \A k \in DOMAIN rows : Ages(k, db[k], rows[k])
  PROVE  ExchangeInv'
<1>1. txn' = [txn EXCEPT ![s] = Idle]
  BY DEF PutNow, Done
<1>2. DOMAIN txn' = Slot /\ txn'[s] = Idle /\ \A t \in Slot \ {s} : txn'[t] = txn[t]
  BY <1>1 DEF ExchangeInv
<1>3. db' = Over(rows, db) /\ \A k \in DOMAIN rows : ~Locked(s, k)
  BY DEF PutNow
<1>4. DOMAIN db' = Key /\ \A k \in Key : db'[k] = IF k \in DOMAIN rows THEN rows[k] ELSE db[k]
  <2>1. DOMAIN db = Key /\ DOMAIN rows \subseteq Key
    BY Keys DEF ExchangeInv, RowsOK
  <2> QED BY <1>3, <2>1 DEF Over
<1>5. DOMAIN Idle.writes = {}
  BY IdleOK
<1>6. ASSUME NEW k \in Exchanged, db'[k] # db[k]
      PROVE  /\ Ages(k, db[k], db'[k])
             /\ \A t \in Slot : txn'[t] = txn[t] => k \notin DOMAIN txn[t].writes
  <2>1. k \in DOMAIN rows /\ db'[k] = rows[k]
    BY <1>4, <1>6, Keys
  <2>2. \A t \in Slot : txn'[t] = txn[t] => k \notin DOMAIN txn[t].writes
    BY <1>2, <1>3, <1>5, <2>1 DEF Locked
  <2> QED BY <2>1, <2>2
<1>7. \A t \in Slot : txn'[t] = txn[t] \/ txn'[t] = Idle
  BY <1>2
<1> QED BY <1>2, <1>4, <1>6, <1>7, RowStep
-----------------------------------------------------------------------------
(* The actions *)

LEMMA StartStep == ASSUME ExchangeInv, Start PROVE ExchangeInv'
<1> DEFINE f == Min(Fresh("flow", Flow))
<1>1. f \in Fresh("flow", Flow)
  <2>1. Fresh("flow", Flow) \subseteq Nat /\ Fresh("flow", Flow) # {}
    BY DeviceLoginAssumption DEF Start, Fresh
  <2> QED BY <2>1, MinIn
<1> HIDE DEF f
<1>2. f \in Flow /\ db[FlowKey(f)] = NoRow /\ ~Held(FlowKey(f))
  BY <1>1 DEF Fresh, FlowKey
<1>3. db' = [db EXCEPT ![FlowKey(f)] = NewFlow] /\ txn' = txn
  BY DEF Start, FlowKey, f
<1>4. DOMAIN NewFlow = Columns
  BY DEF NewFlow, NoRow, Columns
<1>5. FlowKey(f) \in Exchanged /\ FlowKey(f)[1] = "flow"
  BY <1>2, Keys
<1>6. Ages(FlowKey(f), db[FlowKey(f)], NewFlow)
  BY <1>2, <1>4, <1>5, NoRowShape DEF Ages
<1>7. DOMAIN db' = Key /\ \A k \in Key : db'[k] = IF k = FlowKey(f) THEN NewFlow ELSE db[k]
  BY <1>3, <1>5, Keys DEF ExchangeInv, RowsOK
<1>8. \A k \in Exchanged : db'[k] # db[k] =>
        Ages(k, db[k], db'[k]) /\ \A s \in Slot : k \notin DOMAIN txn[s].writes
  BY <1>2, <1>6, <1>7, Keys DEF Held
<1> QED BY <1>3, <1>7, <1>8, RowStep DEF ExchangeInv

LEMMA ExpireStep == ASSUME ExchangeInv, NEW k \in Exchanged, Expire(k) PROVE ExchangeInv'
<1> DEFINE row == [db[k] EXCEPT !.expired = TRUE]
<1>1. DOMAIN row = Columns /\ row.status = db[k].status /\ row.from = db[k].from /\ row.expired
  BY DEF ExchangeInv, RowsOK, Columns
<1>2. db' = [db EXCEPT ![k] = row] /\ txn' = txn /\ ~Held(k) /\ db[k] # NoRow
  BY DEF Expire
<1>3. row # NoRow
  BY <1>1 DEF NoRow
<1> HIDE DEF row
<1>4. Ages(k, db[k], row)
  BY <1>1, <1>2, <1>3 DEF Ages, Spent
<1>5. DOMAIN db' = Key /\ \A j \in Key : db'[j] = IF j = k THEN row ELSE db[j]
  BY <1>2, Keys DEF ExchangeInv, RowsOK
<1>6. \A j \in Exchanged : db'[j] # db[j] =>
        Ages(j, db[j], db'[j]) /\ \A s \in Slot : j \notin DOMAIN txn[s].writes
  BY <1>2, <1>4, <1>5, Keys DEF Held
<1> QED BY <1>2, <1>5, <1>6, RowStep DEF ExchangeInv

LEMMA SweepStep ==
  ASSUME ExchangeInv, NEW kind \in {"flow", "token"}, Sweep(kind) PROVE ExchangeInv'
<1>1. /\ DOMAIN db' = Key /\ txn' = txn
      /\ \A k \in Key : db'[k] = IF k[1] = kind /\ db[k].expired
                                 THEN [db[k] EXCEPT !.status = "deleted"] ELSE db[k]
  BY DEF Sweep
<1>2. ASSUME NEW k \in Exchanged, db'[k] # db[k]
      PROVE  Ages(k, db[k], db'[k]) /\ \A s \in Slot : k \notin DOMAIN txn[s].writes
  <2>1. k \in Key /\ k[1] = kind /\ db[k].expired /\ db'[k] = [db[k] EXCEPT !.status = "deleted"]
    BY <1>1, <1>2, Keys
  <2>2. DOMAIN db'[k] = Columns /\ db'[k].status = "deleted" /\ db'[k].from = db[k].from
    BY <2>1 DEF ExchangeInv, RowsOK, Columns
  <2>3. db[k] # NoRow /\ db'[k] # NoRow
    BY <2>1, <2>2 DEF NoRow
  <2>4. \A s \in Slot : k \notin DOMAIN txn[s].writes
    BY <2>1 DEF Sweep, Held
  <2> QED BY <2>2, <2>3, <2>4 DEF Ages, Spent
<1> QED BY <1>1, <1>2, RowStep DEF ExchangeInv

\* A flow goes from one status to another.
LEMMA FlowRowAges ==
  ASSUME ExchangeInv, NEW k \in {"flow"} \X Flow, ~Spent(db[k]), NEW row, DOMAIN row = Columns
  PROVE  Ages(k, db[k], row)
BY Keys DEF Ages

LEMMA BindFlowStep == ASSUME ExchangeInv, NEW s \in Slot, BindFlow(s) PROVE ExchangeInv'
<1> DEFINE k == txn[s].key
           row == [db[k] EXCEPT !.status = "approved", !.user = txn[s].user]
<1>1. k \in {"flow"} \X Flow /\ k \in Exchanged
  BY Keys DEF BindFlow, ExchangeInv, CallOK, FlowPc
<1>2. CASE db[k].status = "pending"
  <2>1. PutNow(s, Row(k, row))
    BY <1>2 DEF BindFlow
  <2>2. DOMAIN row = Columns
    BY <1>1 DEF ExchangeInv, RowsOK, Columns
  <2>3. DOMAIN Row(k, row) = {k} /\ Row(k, row)[k] = row
    BY RowIs
  <2> HIDE DEF row
  <2>4. Ages(k, db[k], row)
    BY <1>1, <1>2, <2>2, FlowRowAges DEF Spent
  <2> QED BY <1>1, <2>1, <2>3, <2>4, PutNowStep
<1>3. CASE db[k].status # "pending"
  BY <1>3, EndStep DEF BindFlow, Answered, Done
<1> QED BY <1>2, <1>3

LEMMA DenyFlowStep == ASSUME ExchangeInv, NEW s \in Slot, DenyFlow(s) PROVE ExchangeInv'
<1> DEFINE k == txn[s].key
           rows == Set(k, "consumed")
<1>1. k \in {"flow"} \X Flow /\ k \in Exchanged
  BY Keys DEF DenyFlow, ExchangeInv, CallOK, FlowPc
<1>2. CASE db[k].status = "approved"
  <2>1. PutNow(s, rows)
    BY <1>2 DEF DenyFlow
  <2>2. DOMAIN rows = {k} /\ DOMAIN rows[k] = Columns
    BY <1>1, SetIs
  <2> HIDE DEF rows
  <2>3. Ages(k, db[k], rows[k])
    BY <1>1, <1>2, <2>2, FlowRowAges DEF Spent
  <2> QED BY <1>1, <2>1, <2>2, <2>3, PutNowStep
<1>3. CASE db[k].status # "approved"
  BY <1>3, EndStep DEF DenyFlow, Answered, Done
<1> QED BY <1>2, <1>3

\* The row that is exchanged is written, as spent.
LEMMA ClaimStep ==
  ASSUME ExchangeInv, NEW s \in Slot, NEW status \in {"consumed", "revoked"},
         txn[s].pc \in {"consume", "rotate"}, db[txn[s].key].status \in {"approved", "live"},
         Put(s, Set(txn[s].key, status), "issue")
  PROVE  ExchangeInv'
<1> DEFINE k == txn[s].key
           rows == Set(k, status)
           c == After(s, rows, "issue")
<1>1. CallOK(db, txn[s])
  BY DEF ExchangeInv
<1>2. k \in Exchanged
  BY <1>1, Keys DEF CallOK, FlowPc
<1>3. /\ DOMAIN rows = {k} /\ DOMAIN rows[k] = Columns
      /\ rows[k].status = status /\ rows[k].from = db[k].from
  BY <1>2, SetIs
<1>4. /\ DOMAIN c = CallFields /\ c.pc = "issue" /\ c.key = k /\ c.found = txn[s].found
      /\ c.writes = Over(rows, txn[s].writes)
  BY AfterIs
<1>5. DOMAIN c.writes = {k} /\ c.writes[k] = rows[k]
  BY <1>1, <1>3, <1>4 DEF CallOK, Over
<1> HIDE DEF k, rows, c
<1>6. Spent(c.writes[k]) /\ ~Spent(db[k]) /\ db[k] # NoRow /\ rows[k] # NoRow
  BY <1>3, <1>5 DEF Spent, NoRow, k
<1>7. Claimed(c)
  BY <1>2, <1>4, <1>5, <1>6 DEF Claimed
<1>8. \A t \in Token : TokenKey(t) \in DOMAIN c.writes =>
        db[TokenKey(t)] # NoRow /\ Keeps(db, c, t)
  BY <1>3, <1>5, <1>6 DEF Keeps
<1>9. \A t \in Token : ~Inserts(db, c, t)
  BY <1>8 DEF Inserts
<1>10. \A f \in Flow : FlowKey(f) \in DOMAIN c.writes => c.key = FlowKey(f)
  BY <1>4, <1>5
<1>11. CallOK(db, c)
  BY <1>1, <1>2, <1>3, <1>4, <1>5, <1>6, <1>7, <1>8, <1>9, <1>10, Keys DEF CallOK, FlowPc
<1> QED BY <1>11, PutStep DEF c, rows, k

LEMMA ConsumeFlowStep == ASSUME ExchangeInv, NEW s \in Slot, ConsumeFlow(s) PROVE ExchangeInv'
<1>1. CASE db[txn[s].key].status = "approved"
  BY <1>1, ClaimStep DEF ConsumeFlow
<1>2. CASE db[txn[s].key].status # "approved"
  BY <1>2, EndStep DEF ConsumeFlow, Answered, Done
<1> QED BY <1>1, <1>2

LEMMA RotateTokenStep == ASSUME ExchangeInv, NEW s \in Slot, RotateToken(s) PROVE ExchangeInv'
<1>1. CASE db[txn[s].key].status = "live"
  BY <1>1, ClaimStep DEF RotateToken
<1>2. CASE db[txn[s].key].status # "live"
  BY <1>2, EndStep DEF RotateToken, Answered, Done
<1> QED BY <1>1, <1>2
\* The tokens that are revoked are live, and stay what they came from.
LEMMA RevokedIs ==
  ASSUME ExchangeInv, NEW s \in Slot
  PROVE  /\ DOMAIN Revoked(s) \subseteq {k \in Exchanged : k[1] = "token"}
         /\ \A k \in DOMAIN Revoked(s) :
              /\ db[k].status = "live" /\ Revoked(s)[k].status = "revoked"
              /\ Ages(k, db[k], Revoked(s)[k])
<1> DEFINE live == {f \in txn[s].found : db[f].status = "live"}
           row(k) == [db[k] EXCEPT !.status = "revoked"]
<1>1. live \subseteq {k \in Exchanged : k[1] = "token"}
  BY DEF ExchangeInv, CallOK, Exchanged
<1>2. ASSUME NEW k \in live
      PROVE  /\ db[k].status = "live" /\ row(k).status = "revoked" /\ Ages(k, db[k], row(k))
  <2>1. k \in Exchanged
    BY <1>1
  <2>2. DOMAIN row(k) = Columns /\ row(k).status = "revoked" /\ row(k).from = db[k].from
    BY <2>1 DEF ExchangeInv, RowsOK, Columns
  <2>3. db[k].status = "live"
    OBVIOUS
  <2> HIDE DEF row
  <2>4. db[k] # NoRow /\ row(k) # NoRow
    BY <2>2, <2>3 DEF NoRow
  <2> QED BY <2>2, <2>3, <2>4 DEF Ages, Spent
<1>3. Revoked(s) = [k \in live |-> row(k)]
  BY DEF Revoked
<1> HIDE DEF live, row
<1> QED BY <1>1, <1>2, <1>3

LEMMA RevokeAllStep == ASSUME ExchangeInv, NEW s \in Slot, RevokeAll(s) PROVE ExchangeInv'
<1>1. CASE txn[s].pc = "findAll" /\ Find(s, "revokeAll")
  BY <1>1, FindStep
<1>2. CASE PutNow(s, Revoked(s))
  BY <1>2, RevokedIs, PutNowStep
<1> QED BY <1>1, <1>2 DEF RevokeAll

LEMMA LogoutStep ==
  ASSUME ExchangeInv, NEW s \in Slot, NEW t \in Token, Logout(s, t) PROVE ExchangeInv'
<1> DEFINE k == TokenKey(t)
           rows == Set(k, "revoked")
<1>1. k \in Exchanged /\ k[1] = "token"
  BY Keys
<1>2. /\ DOMAIN rows = {k} /\ DOMAIN rows[k] = Columns
      /\ rows[k].status = "revoked" /\ rows[k].from = db[k].from
  BY <1>1, SetIs
<1>3. PutNow(s, rows) /\ db[k].status = "live"
  BY DEF Logout, TokenKey
<1> HIDE DEF k, rows
<1>4. Ages(k, db[k], rows[k])
  BY <1>2, <1>3 DEF Ages, Spent, NoRow
<1> QED BY <1>1, <1>2, <1>3, <1>4, PutNowStep

LEMMA RevokeTokensStep == ASSUME ExchangeInv, NEW s \in Slot, RevokeTokens(s) PROVE ExchangeInv'
<1>1. CASE txn[s].pc = "findTokens" /\ Find(s, "revokeTokens")
  BY <1>1, FindStep
<1>2. CASE txn[s].pc = "revokeTokens" /\ Put(s, Revoked(s), "commit")
  <2> DEFINE rows == Revoked(s)
             w == txn[s].writes
             c == After(s, rows, "commit")
  <2>1. CallOK(db, txn[s])
    BY DEF ExchangeInv
  <2>2. /\ DOMAIN rows \subseteq {k \in Exchanged : k[1] = "token"}
        /\ \A k \in DOMAIN rows : ~Spent(db[k]) /\ Ages(k, db[k], rows[k])
    BY RevokedIs DEF Spent
  <2>3. /\ DOMAIN c = CallFields /\ c.pc = "commit" /\ c.key = txn[s].key
        /\ c.found = txn[s].found /\ c.writes = Over(rows, w)
    BY AfterIs
  <2>4. DOMAIN c.writes = DOMAIN rows \cup DOMAIN w
    BY <2>3 DEF Over
  <2>5. \A k \in DOMAIN c.writes : c.writes[k] = IF k \in DOMAIN rows THEN rows[k] ELSE w[k]
    BY <2>3, <2>4 DEF Over
  <2> HIDE DEF rows, c
  <2>6. \A k \in DOMAIN c.writes :
          k \in Exchanged => DOMAIN c.writes[k] = Columns /\ ~Spent(db[k])
    BY <2>1, <2>2, <2>4, <2>5 DEF CallOK, Ages
  <2>7. \A t \in Token : TokenKey(t) \in DOMAIN c.writes =>
          db[TokenKey(t)] # NoRow /\ Keeps(db, c, t)
    <3> SUFFICES ASSUME NEW t \in Token, TokenKey(t) \in DOMAIN c.writes
                 PROVE  db[TokenKey(t)] # NoRow /\ Keeps(db, c, t)
      OBVIOUS
    <3>1. CASE TokenKey(t) \in DOMAIN rows
      BY <2>2, <2>5, <3>1, Keys DEF Ages, Keeps
    <3>2. CASE TokenKey(t) \notin DOMAIN rows
      <4>1. TokenKey(t) \in DOMAIN w /\ c.writes[TokenKey(t)] = w[TokenKey(t)]
        BY <2>4, <2>5, <3>2
      <4> QED BY <1>2, <2>1, <4>1 DEF CallOK, Keeps
    <3> QED BY <3>1, <3>2
  <2>8. \A t \in Token : ~Inserts(db, c, t)
    BY <2>7 DEF Inserts
  <2>9. \A f \in Flow : FlowKey(f) \notin DOMAIN c.writes
    <3> TAKE f \in Flow
    <3>1. FlowKey(f) \notin DOMAIN rows
      BY <2>2, Keys
    <3>2. FlowKey(f) \notin DOMAIN w
      BY <1>2, <2>1 DEF CallOK
    <3> QED BY <2>4, <3>1, <3>2
  <2>10. DOMAIN c.writes \subseteq Key
    BY <2>1, <2>2, <2>4, Keys DEF CallOK
  <2>11. CallOK(db, c)
    BY <2>1, <2>3, <2>6, <2>7, <2>8, <2>9, <2>10 DEF CallOK, FlowPc
  <2> QED BY <1>2, <2>11, PutStep DEF c, rows
<1> QED BY <1>1, <1>2 DEF RevokeTokens

\* The one token of an exchange.
LEMMA issueTokenPairStep ==
  ASSUME ExchangeInv, NEW s \in Slot, issueTokenPair(s) PROVE ExchangeInv'
<1> DEFINE n == Min(Fresh("token", Token))
           k == TokenKey(n)
           new == NewToken(txn[s].user, txn[s].key)
           rows == Row(k, new)
           w == txn[s].writes
           c == After(s, rows, "commit")
<1>1. n \in Token /\ db[k] = NoRow /\ ~Held(k)
  <2>1. Fresh("token", Token) \subseteq Nat /\ Fresh("token", Token) # {}
    BY DeviceLoginAssumption DEF issueTokenPair, Fresh
  <2>2. n \in Fresh("token", Token)
    BY <2>1, MinIn
  <2> QED BY <2>2 DEF Fresh, TokenKey
<1>2. k \in Exchanged /\ k \notin DOMAIN w
  BY <1>1, Keys DEF Held
<1>3. CallOK(db, txn[s]) /\ txn[s].pc = "issue" /\ Claimed(txn[s])
  BY DEF ExchangeInv, CallOK, issueTokenPair
<1>4. DOMAIN new = Columns /\ new.status = "live" /\ new.from = txn[s].key
  BY DEF NewToken, NoRow, Columns
<1>5. DOMAIN rows = {k} /\ rows[k] = new
  BY RowIs
<1>6. /\ DOMAIN c = CallFields /\ c.pc = "commit" /\ c.key = txn[s].key
      /\ c.found = txn[s].found /\ c.writes = Over(rows, w)
  BY AfterIs
<1>7. DOMAIN c.writes = {k} \cup DOMAIN w
  BY <1>5, <1>6 DEF Over
<1>8. c.writes[k] = new /\ \A j \in DOMAIN w : c.writes[j] = w[j]
  BY <1>2, <1>5, <1>6, <1>7 DEF Over
<1>9. Put(s, rows, "commit")
  BY DEF issueTokenPair, TokenKey
<1> HIDE DEF n, new, rows, c
<1>10. \A j \in DOMAIN c.writes :
         j \in Exchanged => DOMAIN c.writes[j] = Columns /\ ~Spent(db[j])
  BY <1>1, <1>3, <1>4, <1>7, <1>8, NoRowShape DEF CallOK
<1>11. Claimed(c)
  BY <1>3, <1>6, <1>7, <1>8 DEF Claimed
<1>12. Inserts(db, c, n) /\ new # NoRow /\ c.writes[TokenKey(n)] = new
  BY <1>1, <1>4, <1>7, <1>8 DEF Inserts, NoRow
<1>13. \A t \in Token \ {n} : TokenKey(t) \in DOMAIN c.writes =>
         db[TokenKey(t)] # NoRow /\ Keeps(db, c, t)
  <2> SUFFICES ASSUME NEW t \in Token \ {n}, TokenKey(t) \in DOMAIN c.writes
               PROVE  db[TokenKey(t)] # NoRow /\ Keeps(db, c, t)
    OBVIOUS
  <2>1. TokenKey(t) \in DOMAIN w /\ c.writes[TokenKey(t)] = w[TokenKey(t)]
    BY <1>1, <1>7, <1>8, Keys
  <2> QED BY <1>3, <2>1 DEF CallOK, Keeps
<1>14. \A t \in Token : Inserts(db, c, t) => t = n
  BY <1>13 DEF Inserts
<1>15. \A f \in Flow : FlowKey(f) \in DOMAIN c.writes => c.key = FlowKey(f)
  <2> TAKE f \in Flow
  <2>1. FlowKey(f) # k
    BY <1>1, Keys
  <2> QED BY <1>3, <1>6, <1>7, <2>1 DEF CallOK
<1>16. \A t \in Token : TokenKey(t) \in DOMAIN c.writes =>
         \/ db[TokenKey(t)] # NoRow /\ Keeps(db, c, t)
         \/ /\ Inserts(db, c, t) /\ c.pc = "commit" /\ Claimed(c)
            /\ c.writes[TokenKey(t)] # NoRow /\ c.writes[TokenKey(t)].from = c.key
  BY <1>4, <1>6, <1>11, <1>12, <1>13
<1>17. \A f \in Flow : FlowKey(f) \in DOMAIN c.writes =>
         \E t \in Token : Inserts(db, c, t) /\ c.writes[TokenKey(t)].from = FlowKey(f)
  BY <1>1, <1>4, <1>6, <1>12, <1>15
<1>18. DOMAIN c.writes \subseteq Key
  BY <1>2, <1>3, <1>7, Keys DEF CallOK
<1>19. CallOK(db, c)
  BY <1>3, <1>6, <1>10, <1>14, <1>15, <1>16, <1>17, <1>18 DEF CallOK, FlowPc
<1> QED BY <1>9, <1>19, PutStep DEF c

LEMMA UpdateUserStep ==
  ASSUME ExchangeInv, NEW s \in Slot, NEW kind, NEW u \in User, UpdateUser(s, kind, u)
  PROVE  ExchangeInv'
<1> DEFINE k == <<"user", u>>
<1>1. \E row, to : /\ to \in {"commit", "findTokens"}
                   /\ txn' = [txn EXCEPT ![s] =
                               [Idle EXCEPT !.pc = to, !.user = u, !.writes = Row(k, row)]]
  <2> DEFINE to == IF kind \in {"enable", "requireChange"} THEN "commit" ELSE "findTokens"
  <2>1. to \in {"commit", "findTokens"}
    OBVIOUS
  <2>2. \E row : txn' = [txn EXCEPT ![s] =
                           [Idle EXCEPT !.pc = to, !.user = u, !.writes = Row(k, row)]]
    BY DEF UpdateUser
  <2> HIDE DEF to
  <2> QED BY <2>1, <2>2
<1>2. PICK row, to : /\ to \in {"commit", "findTokens"}
                    /\ txn' = [txn EXCEPT ![s] =
                                [Idle EXCEPT !.pc = to, !.user = u, !.writes = Row(k, row)]]
  BY <1>1
<1> DEFINE c == [Idle EXCEPT !.pc = to, !.user = u, !.writes = Row(k, row)]
<1>3. /\ DOMAIN c = CallFields /\ c.pc = to /\ c.found = {}
      /\ DOMAIN c.writes = {k} /\ k \in Key /\ k \notin Exchanged
  <2>1. DOMAIN Row(k, row) = {k}
    BY RowIs
  <2> QED BY <2>1, Keys DEF Idle, CallFields
<1>4. db' = db /\ ~Locked(s, k)
  BY DEF UpdateUser
<1> HIDE DEF c
<1>5. \A t \in Token : TokenKey(t) \notin DOMAIN c.writes
  BY <1>3, Keys
<1>6. \A f \in Flow : FlowKey(f) \notin DOMAIN c.writes
  BY <1>3, Keys
<1>7. CallOK(db, c)
  BY <1>2, <1>3, <1>5, <1>6 DEF CallOK, FlowPc, Inserts
<1>8. \A t \in Slot \ {s} : DOMAIN c.writes \cap DOMAIN txn[t].writes = {}
  BY <1>3, <1>4 DEF Locked
<1> QED BY <1>2, <1>4, <1>7, <1>8, OwnStep DEF c

-----------------------------------------------------------------------------
LEMMA ClientStep == ASSUME ExchangeInv, NEW s \in Slot, Client(s) PROVE ExchangeInv'
<1>1. ASSUME NEW f \in Flow, NEW u \in User, Approve(s, f, u) PROVE ExchangeInv'
  BY <1>1, BeginStep DEF Approve
<1>2. ASSUME NEW f \in Flow, NEW u \in User, SubmitForm(s, f, u) PROVE ExchangeInv'
  BY <1>2, BeginStep DEF SubmitForm
<1>3. ASSUME NEW f \in Flow, Poll(s, f) PROVE ExchangeInv'
  BY <1>3, BeginStep DEF Poll
<1>4. ASSUME NEW t \in Token, Refresh(s, t) PROVE ExchangeInv'
  BY <1>4, BeginStep DEF Refresh, FlowPc
<1>5. ASSUME NEW t \in Token, Logout(s, t) PROVE ExchangeInv'
  BY <1>5, LogoutStep
<1>6. ASSUME NEW kind \in Account, NEW u \in User, UpdateUser(s, kind, u) PROVE ExchangeInv'
  BY <1>6, UpdateUserStep
<1> QED BY <1>1, <1>2, <1>3, <1>4, <1>5, <1>6 DEF Client

LEMMA StatementStep == ASSUME ExchangeInv, NEW s \in Slot, Statement(s) PROVE ExchangeInv'
<1>1. CASE FindPendingFlow(s)
  BY <1>1, GoStep, EndStep DEF FindPendingFlow, Answered, Done, FlowPc
<1>2. CASE VerifyLogin(s)
  BY <1>2, GoStep, EndStep DEF VerifyLogin, Answered, Done, FlowPc
<1> QED BY <1>1, <1>2, BindFlowStep, DenyFlowStep, ConsumeFlowStep, RevokeAllStep,
           RotateTokenStep, issueTokenPairStep, RevokeTokensStep, CommitStep DEF Statement

LEMMA InitExchange == Init => ExchangeInv
<1> SUFFICES ASSUME Init PROVE ExchangeInv
  OBVIOUS
<1>1. DOMAIN db = Key /\ \A k \in Exchanged : db[k] = NoRow
  BY Keys DEF Init, Exchanged
<1>2. RowsOK(db) /\ OncePerRow(db)
  BY <1>1, Keys, NoRowShape DEF RowsOK, OncePerRow
<1>3. DOMAIN txn = Slot /\ \A s \in Slot : txn[s] = Idle
  BY DEF Init
<1>4. HeldByOne(txn)
  BY <1>3, IdleOK DEF HeldByOne
<1>5. \A s \in Slot : CallOK(db, txn[s])
  BY <1>3, IdleOK
<1> QED BY <1>2, <1>3, <1>4, <1>5 DEF ExchangeInv

LEMMA ExchangeStep == ExchangeInv /\ [Next]_vars => ExchangeInv'
<1> SUFFICES ASSUME ExchangeInv, [Next]_vars PROVE ExchangeInv'
  OBVIOUS
<1>1. CASE Start
  BY <1>1, StartStep
<1>2. ASSUME NEW k \in Key, k[1] # "user", Expire(k) PROVE ExchangeInv'
  BY <1>2, ExpireStep DEF Exchanged
<1>3. CASE Sweep("flow") \/ Sweep("token")
  BY <1>3, SweepStep
<1>4. ASSUME NEW s \in Slot, Client(s) \/ Statement(s) PROVE ExchangeInv'
  BY <1>4, ClientStep, StatementStep
<1>5. ASSUME NEW s \in Slot, Abort(s) PROVE ExchangeInv'
  BY <1>5, EndStep DEF Abort, Answered, Done
<1>6. CASE UNCHANGED vars
  BY <1>6, RowStep DEF vars, ExchangeInv
<1> QED BY <1>1, <1>2, <1>3, <1>4, <1>5, <1>6 DEF Next

\* A poll returns tokens exactly once and a refresh token is used once, for any
\* number of desktops that poll and refresh at the same moment (auth.ts:214,
\* tokens.ts:64).
THEOREM ExchangedOnce == Spec => []IssuedOnce
<1>1. ExchangeInv => IssuedOnce
  BY DEF ExchangeInv, OncePerRow, IssuedOnce, Issued, token, TokenKey
<1> QED BY InitExchange, ExchangeStep, <1>1, PTL DEF Spec
-----------------------------------------------------------------------------
(* A flow is used up by a commit that inserts its token, or by a denial *)

LEMMA PutNowChanges ==
  ASSUME ExchangeInv, NEW s \in Slot, NEW rows, PutNow(s, rows), DOMAIN rows \subseteq Exchanged,
         NEW f \in Flow, db'[FlowKey(f)] # db[FlowKey(f)]
  PROVE  FlowKey(f) \in DOMAIN rows /\ db'[FlowKey(f)] = rows[FlowKey(f)]
<1>1. FlowKey(f) \in Key /\ DOMAIN db = Key
  BY Keys DEF ExchangeInv, RowsOK
<1> QED BY <1>1 DEF PutNow, Over

LEMMA CommitWhole ==
  ASSUME ExchangeInv, NEW s \in Slot, Commit(s), NEW f \in Flow,
         db'[FlowKey(f)] # db[FlowKey(f)]
  PROVE  \E t \in Token \ Issued : db'[TokenKey(t)].from = FlowKey(f)
<1> DEFINE w == txn[s].writes
<1>1. DOMAIN db = Key /\ DOMAIN w \subseteq Key /\ FlowKey(f) \in Key
  BY Keys DEF ExchangeInv, RowsOK, CallOK
<1>2. \A k \in Key : db'[k] = IF k \in DOMAIN w THEN w[k] ELSE db[k]
  BY <1>1 DEF Commit, Over
<1>3. FlowKey(f) \in DOMAIN w
  BY <1>1, <1>2
<1>4. CallOK(db, txn[s]) /\ txn[s].pc = "commit"
  BY DEF ExchangeInv, Commit
<1>5. PICK t \in Token : Inserts(db, txn[s], t) /\ w[TokenKey(t)].from = FlowKey(f)
  BY <1>3, <1>4 DEF CallOK
<1>6. t \notin Issued
  BY <1>5 DEF Inserts, Issued, token, TokenKey
<1>7. db'[TokenKey(t)].from = FlowKey(f)
  BY <1>2, <1>5, Keys DEF Inserts
<1> QED BY <1>6, <1>7

LEMMA WholeStep ==
  ASSUME ExchangeInv, [Next]_vars, NEW f \in Flow,
         db[FlowKey(f)].status = "approved", db'[FlowKey(f)].status = "consumed"
  PROVE  \/ \E t \in Token \ Issued : db'[TokenKey(t)].from = FlowKey(f)
         \/ \E s \in Slot : txn[s].pc = "deny" /\ txn[s].key = FlowKey(f)
<1> DEFINE k == FlowKey(f)
<1>1. k \in Exchanged /\ k \in Key /\ DOMAIN db = Key /\ DOMAIN db[k] = Columns /\ db'[k] # db[k]
  BY Keys DEF ExchangeInv, RowsOK
<1>2. CASE Start
  <2> DEFINE n == <<"flow", Min(Fresh("flow", Flow))>>
  <2>1. db' = [db EXCEPT ![n] = NewFlow]
    BY <1>2 DEF Start
  <2>2. db'[k] = NewFlow
    BY <1>1, <2>1
  <2> QED BY <2>2 DEF NewFlow, NoRow
<1>3. ASSUME NEW j \in Key, Expire(j) PROVE FALSE
  <2>1. db' = [db EXCEPT ![j].expired = TRUE]
    BY <1>3 DEF Expire
  <2>2. db'[k].status = db[k].status
    BY <1>1, <2>1 DEF Columns
  <2> QED BY <2>2
<1>4. ASSUME NEW kind, Sweep(kind) PROVE FALSE
  <2>1. db'[k] = db[k] \/ db'[k] = [db[k] EXCEPT !.status = "deleted"]
    BY <1>1, <1>4 DEF Sweep
  <2>2. db'[k].status \in {db[k].status, "deleted"}
    BY <1>1, <2>1 DEF Columns
  <2> QED BY <2>2
<1>5. CASE db' = db
  BY <1>1, <1>5
<1>6. ASSUME NEW s \in Slot, Client(s) PROVE FALSE
  <2>1. ASSUME NEW t \in Token, Logout(s, t) PROVE FALSE
    <3> DEFINE rows == Set(TokenKey(t), "revoked")
    <3>1. PutNow(s, rows)
      BY <2>1 DEF Logout, TokenKey
    <3>2. TokenKey(t) \in Exchanged /\ TokenKey(t) # k
      BY Keys
    <3>3. DOMAIN rows = {TokenKey(t)}
      BY <3>2, SetIs
    <3> HIDE DEF rows
    <3> QED BY <1>1, <3>1, <3>2, <3>3, PutNowChanges
  <2> QED BY <1>5, <1>6, <2>1, <1>1 DEF Client, Approve, SubmitForm, Poll, Refresh, UpdateUser, Begin
<1>7. ASSUME NEW s \in Slot, DenyFlow(s)
      PROVE  txn[s].pc = "deny" /\ txn[s].key = k
  <2> DEFINE rows == Set(txn[s].key, "consumed")
  <2>1. txn[s].pc = "deny" /\ txn[s].key \in Exchanged
    BY <1>7, Keys DEF DenyFlow, ExchangeInv, CallOK, FlowPc
  <2>2. DOMAIN rows = {txn[s].key}
    BY <2>1, SetIs
  <2>3. PutNow(s, rows)
    BY <1>1, <1>7 DEF DenyFlow, Answered
  <2> HIDE DEF rows
  <2> QED BY <1>1, <2>1, <2>2, <2>3, PutNowChanges
<1>8. ASSUME NEW s \in Slot, BindFlow(s) PROVE FALSE
  <2> DEFINE row == [db[txn[s].key] EXCEPT !.status = "approved", !.user = txn[s].user]
             rows == Row(txn[s].key, row)
  <2>1. txn[s].key \in Exchanged
    BY <1>8, Keys DEF BindFlow, ExchangeInv, CallOK, FlowPc
  <2>2. row.status = "approved"
    BY <2>1 DEF ExchangeInv, RowsOK, Columns
  <2>3. DOMAIN rows = {txn[s].key} /\ rows[txn[s].key] = row
    BY RowIs
  <2>4. PutNow(s, rows)
    BY <1>1, <1>8 DEF BindFlow, Answered
  <2> HIDE DEF row, rows
  <2>5. k = txn[s].key /\ db'[k] = row
    BY <1>1, <2>1, <2>3, <2>4, PutNowChanges
  <2> QED BY <2>2, <2>5
<1>9. ASSUME NEW s \in Slot, RevokeAll(s) PROVE FALSE
  <2>1. PutNow(s, Revoked(s))
    BY <1>1, <1>9 DEF RevokeAll, Find
  <2>2. DOMAIN Revoked(s) \subseteq Exchanged /\ k \notin DOMAIN Revoked(s)
    BY RevokedIs, Keys
  <2> QED BY <1>1, <2>1, <2>2, PutNowChanges
<1>10. ASSUME NEW s \in Slot, Commit(s)
       PROVE  \E t \in Token \ Issued : db'[TokenKey(t)].from = k
  BY <1>1, <1>10, CommitWhole
<1>11. ASSUME NEW s \in Slot,
              \/ FindPendingFlow(s) \/ VerifyLogin(s) \/ ConsumeFlow(s) \/ RotateToken(s)
              \/ issueTokenPair(s) \/ RevokeTokens(s) \/ Abort(s)
       PROVE  db' = db
  BY <1>11 DEF FindPendingFlow, VerifyLogin, ConsumeFlow, RotateToken, issueTokenPair,
               RevokeTokens, Abort, Answered, Go, Put, Find
<1>12. ASSUME NEW s \in Slot, Statement(s)
       PROVE  \/ \E t \in Token \ Issued : db'[TokenKey(t)].from = k
              \/ \E x \in Slot : txn[x].pc = "deny" /\ txn[x].key = k
  BY <1>1, <1>7, <1>8, <1>9, <1>10, <1>11, <1>12 DEF Statement
<1>13. ASSUME NEW s \in Slot, Abort(s) PROVE FALSE
  BY <1>1, <1>11, <1>13
<1>14. CASE UNCHANGED vars
  BY <1>1, <1>14 DEF vars
<1> QED BY <1>2, <1>3, <1>4, <1>6, <1>12, <1>13, <1>14 DEF Next

\* No desktop is left without its login: the flow is consumed in the transaction
\* that inserts the refresh token, or denied (auth.ts:214-222).
THEOREM ExchangesAreWhole == Spec => ExchangedWhole
<1>1. ExchangeInv /\ [Next]_vars =>
        [\A f \in Flow :
           flow(f).status = "approved" /\ flow(f)'.status = "consumed" =>
             \/ \E t \in Token \ Issued : token(t)'.from = <<"flow", f>>
             \/ \E s \in Slot : txn[s].pc = "deny" /\ txn[s].key = <<"flow", f>>]_vars
  BY WholeStep DEF flow, token, FlowKey, TokenKey
<1> QED BY InitExchange, ExchangeStep, <1>1, PTL DEF Spec, ExchangedWhole
-----------------------------------------------------------------------------
(***************************************************************************)
(* Whose a token is.                                                       *)
(*                                                                         *)
(* A flow is bound to a person once, and from then on neither it nor a     *)
(* token that goes back to it changes hands.  A login begins when its flow *)
(* is spent, so an approved flow has no tokens yet; it goes on when a live *)
(* token is revoked for its successor, in the same commit.  So the user    *)
(* and the number of live tokens of a login stay what they were.           *)
(***************************************************************************)

UserKey(u) == <<"user", u>>
UserRow(u) == [status : {"active", "disabled"}, user : {u}, mustChange : BOOLEAN]
FlowStatus == {"none", "pending", "approved", "consumed", "deleted"}

\* A row that belongs to somebody, or never will.
Bound(row) == row.status \notin {"none", "pending"}

UsersTyped(d) == \A u \in User : d[UserKey(u)] \in UserRow(u)

FlowTyped(row) ==
  row.status \in FlowStatus /\ (row.status \in {"approved", "consumed"} => row.user \in User)

\* A token belongs to whom its flow is bound to.
Owned(d, row) ==
  /\ row.login \in Flow /\ row.user \in User
  /\ Spent(d[FlowKey(row.login)]) /\ d[FlowKey(row.login)].user = row.user

TokensOwned(d) ==
  \A t \in Token : d[TokenKey(t)] # NoRow =>
    d[TokenKey(t)].status \in {"live", "revoked", "deleted"} /\ Owned(d, d[TokenKey(t)])

OneLive(d) ==
  \A t1, t2 \in Token :
    /\ d[TokenKey(t1)].status = "live" /\ d[TokenKey(t2)].status = "live"
    /\ d[TokenKey(t1)].login = d[TokenKey(t2)].login
    => t1 = t2

\* A new token takes over from an approved flow or from a live token.
Origin(d, k, row) ==
  /\ row.user = d[k].user
  /\ \/ \E f \in Flow : k = FlowKey(f) /\ d[k].status = "approved" /\ row.login = f
     \/ \E t \in Token : k = TokenKey(t) /\ d[k].status = "live" /\ row.login = d[k].login

\* What a transaction writes to a row that was there.
Revokes(old, new) ==
  new.status = "revoked" /\ new.user = old.user /\ new.login = old.login
Consumes(old, new) ==
  old.status = "approved" /\ new.status = "consumed" /\ new.user = old.user

WritesOwned(d, c) ==
  /\ \A t \in Token : TokenKey(t) \in DOMAIN c.writes =>
       IF d[TokenKey(t)] = NoRow
       THEN /\ c.writes[TokenKey(t)].status = "live"
            /\ Origin(d, c.key, c.writes[TokenKey(t)])
       ELSE Revokes(d[TokenKey(t)], c.writes[TokenKey(t)])
  /\ \A f \in Flow : FlowKey(f) \in DOMAIN c.writes =>
       Consumes(d[FlowKey(f)], c.writes[FlowKey(f)])
  /\ \A u \in User : UserKey(u) \in DOMAIN c.writes => c.writes[UserKey(u)] \in UserRow(u)

CallOwned(d, c) ==
  /\ c.pc \in {"approve", "verifyLogin", "bind"} => c.user \in User
  /\ c.pc \in {"consume", "rotate"} => Bound(d[c.key]) /\ d[c.key].user = c.user
  /\ c.pc = "issue" => d[c.key].status \in {"approved", "live"} /\ d[c.key].user = c.user
  /\ WritesOwned(d, c)

LoginInv ==
  /\ UsersTyped(db) /\ \A f \in Flow : FlowTyped(db[FlowKey(f)])
  /\ TokensOwned(db) /\ OneLive(db)
  /\ \A s \in Slot : CallOwned(db, txn[s])
LEMMA NoRowOpen == ~Bound(NoRow) /\ NoRow.status # "live"
BY DEF NoRow, Bound

LEMMA UserKeys ==
  \A u \in User : /\ UserKey(u) \in Key /\ UserKey(u) \notin Exchanged
                  /\ \A v \in User : UserKey(u) = UserKey(v) => u = v
BY DEF UserKey, Exchanged, Key

LEMMA IdleOwned == ASSUME NEW d PROVE CallOwned(d, Idle)
BY DEF Idle, CallOwned, WritesOwned

\* A request goes on as long as nobody else touches what it holds and its row
\* stays with the same person.
LEMMA CallOwnedKept ==
  ASSUME NEW d, NEW e, NEW c, CallOK(d, c), CallOwned(d, c),
         \A k \in DOMAIN c.writes : k \in Exchanged => e[k] = d[k],
         \A k \in Exchanged : Bound(d[k]) => Bound(e[k]) /\ e[k].user = d[k].user
  PROVE  CallOwned(e, c)
<1>1. c.pc \in {"consume", "rotate"} => c.key \in Exchanged
  BY Keys DEF CallOK, FlowPc
<1>2. c.pc = "issue" => c.key \in Exchanged /\ e[c.key] = d[c.key]
  BY DEF CallOK, Claimed
<1>3. \A t \in Token : TokenKey(t) \in DOMAIN c.writes => e[TokenKey(t)] = d[TokenKey(t)]
  BY Keys
<1>4. \A f \in Flow : FlowKey(f) \in DOMAIN c.writes => e[FlowKey(f)] = d[FlowKey(f)]
  BY Keys
<1>5. ASSUME NEW t \in Token, TokenKey(t) \in DOMAIN c.writes, d[TokenKey(t)] = NoRow
      PROVE  Origin(e, c.key, c.writes[TokenKey(t)])
  <2>1. Origin(d, c.key, c.writes[TokenKey(t)])
    BY <1>5 DEF CallOwned, WritesOwned
  <2>2. Claimed(c)
    BY <1>5 DEF CallOK
  <2>3. e[c.key] = d[c.key]
    BY <2>2 DEF Claimed
  <2> QED BY <2>1, <2>3 DEF Origin
<1>6. WritesOwned(e, c)
  BY <1>3, <1>4, <1>5 DEF CallOwned, WritesOwned
<1> QED BY <1>1, <1>2, <1>6 DEF CallOwned

LEMMA OwnedOwnStep ==
  ASSUME ExchangeInv, LoginInv, NEW s \in Slot, NEW c, db' = db,
         txn' = [txn EXCEPT ![s] = c], CallOwned(db, c)
  PROVE  LoginInv'
<1>1. txn'[s] = c /\ \A t \in Slot \ {s} : txn'[t] = txn[t]
  BY DEF ExchangeInv
<1>2. \A t \in Slot : CallOwned(db', txn'[t])
  BY <1>1 DEF LoginInv
<1> QED BY <1>2 DEF LoginInv

\* A committed row changes outside a transaction.
Moves(k, old, new) ==
  IF k[1] = "flow"
  THEN /\ FlowTyped(new) /\ (Spent(old) => Spent(new))
       /\ Bound(old) => Bound(new) /\ new.user = old.user
  ELSE /\ old # NoRow /\ new # NoRow
       /\ new.user = old.user /\ new.login = old.login
       /\ new.status \in {old.status, "revoked", "deleted"}

LEMMA OwnedRowStep ==
  ASSUME ExchangeInv, LoginInv, DOMAIN txn' = Slot,
         \A s \in Slot : txn'[s] = txn[s] \/ txn'[s] = Idle,
         \A u \in User : db'[UserKey(u)] = db[UserKey(u)],
         \A k \in Exchanged : db'[k] # db[k] =>
           /\ Moves(k, db[k], db'[k])
           /\ \A s \in Slot : txn'[s] = txn[s] => k \notin DOMAIN txn[s].writes
  PROVE  LoginInv'
<1>1. \A f \in Flow : /\ FlowTyped(db'[FlowKey(f)])
                      /\ Spent(db[FlowKey(f)]) => Spent(db'[FlowKey(f)])
                      /\ Bound(db[FlowKey(f)]) =>
                           Bound(db'[FlowKey(f)]) /\ db'[FlowKey(f)].user = db[FlowKey(f)].user
  BY Keys DEF LoginInv, Moves
<1>2. \A t \in Token :
        /\ db'[TokenKey(t)] = NoRow <=> db[TokenKey(t)] = NoRow
        /\ db'[TokenKey(t)].user = db[TokenKey(t)].user
        /\ db'[TokenKey(t)].login = db[TokenKey(t)].login
        /\ db'[TokenKey(t)].status \in {db[TokenKey(t)].status, "revoked", "deleted"}
  BY Keys DEF Moves
<1>3. TokensOwned(db')
  <2> SUFFICES ASSUME NEW t \in Token, db'[TokenKey(t)] # NoRow
               PROVE  /\ db'[TokenKey(t)].status \in {"live", "revoked", "deleted"}
                      /\ Owned(db', db'[TokenKey(t)])
    BY DEF TokensOwned
  <2>1. /\ db[TokenKey(t)].status \in {"live", "revoked", "deleted"}
        /\ Owned(db, db[TokenKey(t)])
    BY <1>2 DEF LoginInv, TokensOwned
  <2> DEFINE f == db[TokenKey(t)].login
  <2>2. f \in Flow /\ Spent(db[FlowKey(f)])
    BY <2>1 DEF Owned
  <2>3. Spent(db'[FlowKey(f)]) /\ db'[FlowKey(f)].user = db[FlowKey(f)].user
    BY <1>1, <2>2 DEF Spent, Bound
  <2> QED BY <1>2, <2>1, <2>2, <2>3 DEF Owned
<1>4. OneLive(db')
  BY <1>2 DEF LoginInv, OneLive
<1>5. \A k \in Exchanged : Bound(db[k]) => Bound(db'[k]) /\ db'[k].user = db[k].user
  <2> SUFFICES ASSUME NEW k \in Exchanged, Bound(db[k]), db'[k] # db[k]
               PROVE  Bound(db'[k]) /\ db'[k].user = db[k].user
    OBVIOUS
  <2>1. Moves(k, db[k], db'[k])
    OBVIOUS
  <2> QED BY <2>1 DEF Moves, Bound
<1>6. ASSUME NEW s \in Slot PROVE CallOwned(db', txn'[s])
  <2>1. CASE txn'[s] = Idle
    BY <2>1, IdleOwned
  <2>2. CASE txn'[s] = txn[s]
    <3>1. \A k \in DOMAIN txn[s].writes : k \in Exchanged => db'[k] = db[k]
      BY <2>2
    <3> QED BY <1>5, <2>2, <3>1, CallOwnedKept DEF ExchangeInv, LoginInv
  <2> QED BY <2>1, <2>2
<1>7. UsersTyped(db')
  BY DEF LoginInv, UsersTyped
<1> QED BY <1>1, <1>3, <1>4, <1>6, <1>7 DEF LoginInv
-----------------------------------------------------------------------------
\* What the rows of a transaction do to the logins.
LEMMA OwnedCommitStep ==
  ASSUME ExchangeInv, LoginInv, NEW s \in Slot, Commit(s)
  PROVE  LoginInv'
<1> DEFINE c == txn[s]
           w == txn[s].writes
           New(t) == Inserts(db, c, t)
<1>1. /\ DOMAIN txn' = Slot /\ txn'[s] = Idle /\ \A t \in Slot \ {s} : txn'[t] = txn[t]
  BY DEF Commit, Done, ExchangeInv
<1>2. CallOK(db, c) /\ CallOwned(db, c)
  BY DEF ExchangeInv, LoginInv
<1>3. \A k \in Key : db'[k] = IF k \in DOMAIN w THEN w[k] ELSE db[k]
  BY <1>2 DEF Commit, ExchangeInv, RowsOK, Over, CallOK
<1>4. \A k \in Exchanged : Spent(db[k]) => db'[k] = db[k]
  BY <1>2, <1>3, Keys DEF CallOK
<1>5. \A u \in User : db'[UserKey(u)] \in UserRow(u)
  BY <1>2, <1>3, UserKeys DEF CallOwned, WritesOwned, LoginInv, UsersTyped
<1>6. \A f \in Flow : \/ db'[FlowKey(f)] = db[FlowKey(f)]
                      \/ Consumes(db[FlowKey(f)], db'[FlowKey(f)])
  BY <1>2, <1>3, Keys DEF CallOwned, WritesOwned
<1>7. \A t \in Token : db[TokenKey(t)] # NoRow =>
        \/ db'[TokenKey(t)] = db[TokenKey(t)]
        \/ Revokes(db[TokenKey(t)], db'[TokenKey(t)])
  <2> SUFFICES ASSUME NEW t \in Token, db[TokenKey(t)] # NoRow, TokenKey(t) \in DOMAIN w
               PROVE  Revokes(db[TokenKey(t)], db'[TokenKey(t)])
    BY <1>3, Keys
  <2> QED BY <1>2, <1>3, Keys DEF CallOwned, WritesOwned
<1>8. \A t \in Token : db[TokenKey(t)] = NoRow /\ ~New(t) => db'[TokenKey(t)] = NoRow
  BY <1>3, Keys DEF Inserts
<1>9. \A t \in Token : New(t) => /\ db'[TokenKey(t)].status = "live"
                                 /\ Origin(db, c.key, db'[TokenKey(t)])
                                 /\ c.key \in DOMAIN w /\ Spent(db'[c.key])
  <2> SUFFICES ASSUME NEW t \in Token, New(t)
               PROVE  /\ db'[TokenKey(t)].status = "live"
                      /\ Origin(db, c.key, db'[TokenKey(t)])
                      /\ c.key \in DOMAIN w /\ Spent(db'[c.key])
    OBVIOUS
  <2>1. TokenKey(t) \in DOMAIN w /\ db[TokenKey(t)] = NoRow /\ Claimed(c)
    BY <1>2 DEF CallOK, Inserts
  <2>2. db'[TokenKey(t)] = w[TokenKey(t)] /\ db'[c.key] = w[c.key]
    BY <1>3, <2>1, Keys DEF Claimed
  <2> QED BY <1>2, <2>1, <2>2 DEF CallOwned, WritesOwned, Claimed
<1>10. \A t1, t2 \in Token : New(t1) /\ New(t2) => t1 = t2
  BY <1>2 DEF CallOK
<1>11. \A f \in Flow : FlowTyped(db'[FlowKey(f)])
  <2> TAKE f \in Flow
  <2>1. FlowTyped(db[FlowKey(f)])
    BY DEF LoginInv
  <2> QED BY <1>6, <2>1 DEF FlowTyped, FlowStatus, Consumes
<1>12. \A x \in Slot : CallOwned(db', txn'[x])
  <2> SUFFICES ASSUME NEW x \in Slot \ {s} PROVE CallOwned(db', txn'[x])
    BY <1>1, IdleOwned
  <2>1. CallOK(db, txn[x]) /\ CallOwned(db, txn[x]) /\ txn'[x] = txn[x]
    BY <1>1 DEF ExchangeInv, LoginInv
  <2>2. \A k \in DOMAIN txn[x].writes : k \in Exchanged => db'[k] = db[k]
    BY <1>3, Keys DEF ExchangeInv, HeldByOne
  <2>3. \A f \in Flow : Bound(db[FlowKey(f)]) =>
          Bound(db'[FlowKey(f)]) /\ db'[FlowKey(f)].user = db[FlowKey(f)].user
    BY <1>6 DEF Consumes, Bound
  <2>4. \A t \in Token : Bound(db[TokenKey(t)]) =>
          Bound(db'[TokenKey(t)]) /\ db'[TokenKey(t)].user = db[TokenKey(t)].user
    BY <1>7, NoRowOpen DEF Revokes, Bound
  <2>5. \A k \in Exchanged : Bound(db[k]) => Bound(db'[k]) /\ db'[k].user = db[k].user
    <3> SUFFICES ASSUME NEW k \in Exchanged
                 PROVE  Bound(db[k]) => Bound(db'[k]) /\ db'[k].user = db[k].user
      OBVIOUS
    <3>1. (\E f \in Flow : k = FlowKey(f)) \/ (\E t \in Token : k = TokenKey(t))
      BY DEF Exchanged, Key, FlowKey, TokenKey
    <3> QED BY <2>3, <2>4, <3>1
  <2> QED BY <2>1, <2>2, <2>5, CallOwnedKept
\* The login a new token takes over.
<1>13. \A t \in Token : New(t) =>
         /\ Owned(db', db'[TokenKey(t)])
         /\ \A x \in Token : db[TokenKey(x)].status = "live" /\ db'[TokenKey(x)].status = "live"
                               => db[TokenKey(x)].login # db'[TokenKey(t)].login
  <2> SUFFICES ASSUME NEW t \in Token, New(t)
               PROVE  /\ Owned(db', db'[TokenKey(t)])
                      /\ \A x \in Token :
                           db[TokenKey(x)].status = "live" /\ db'[TokenKey(x)].status = "live"
                             => db[TokenKey(x)].login # db'[TokenKey(t)].login
    OBVIOUS
  <2> DEFINE row == db'[TokenKey(t)]
  <2>1. Origin(db, c.key, row) /\ Spent(db'[c.key])
    BY <1>9
  <2>2. CASE \E f \in Flow : c.key = FlowKey(f) /\ db[c.key].status = "approved" /\ row.login = f
    <3>1. PICK f \in Flow : c.key = FlowKey(f) /\ db[c.key].status = "approved" /\ row.login = f
      BY <2>2
    <3>2. db[FlowKey(f)].user \in User /\ row.user = db[FlowKey(f)].user
      BY <2>1, <3>1 DEF LoginInv, FlowTyped, Origin
    <3>3. db'[FlowKey(f)].user = db[FlowKey(f)].user
      BY <1>6 DEF Consumes
    <3>4. \A x \in Token : db[TokenKey(x)] # NoRow => db[TokenKey(x)].login # f
      BY <3>1 DEF LoginInv, TokensOwned, Owned, Spent
    <3>5. Owned(db', row)
      BY <2>1, <3>1, <3>2, <3>3 DEF Owned
    <3> QED BY <3>1, <3>4, <3>5, NoRowOpen
  <2>3. CASE \E x \in Token : /\ c.key = TokenKey(x) /\ db[c.key].status = "live"
                              /\ row.login = db[c.key].login
    <3>1. PICK x \in Token : /\ c.key = TokenKey(x) /\ db[c.key].status = "live"
                             /\ row.login = db[c.key].login
      BY <2>3
    <3>2. Owned(db, db[TokenKey(x)]) /\ row.user = db[TokenKey(x)].user
      BY <2>1, <3>1, NoRowOpen DEF LoginInv, TokensOwned, Origin
    <3> DEFINE f == row.login
    <3>3. f \in Flow /\ row.user \in User /\ Spent(db[FlowKey(f)]) /\ db[FlowKey(f)].user = row.user
      BY <3>1, <3>2 DEF Owned
    <3>4. db'[FlowKey(f)] = db[FlowKey(f)]
      BY <1>4, <3>3, Keys
    <3>5. \A y \in Token : db[TokenKey(y)].status = "live" /\ db[TokenKey(y)].login = f => y = x
      BY <3>1 DEF LoginInv, OneLive
    <3>6. db'[TokenKey(x)].status # "live"
      BY <2>1, <3>1 DEF Spent
    <3> QED BY <3>3, <3>4, <3>5, <3>6 DEF Owned
  <2> QED BY <2>1, <2>2, <2>3 DEF Origin
<1>14. \A t \in Token : db'[TokenKey(t)] # NoRow /\ ~New(t) =>
         /\ db[TokenKey(t)] # NoRow
         /\ db'[TokenKey(t)].login = db[TokenKey(t)].login
         /\ db'[TokenKey(t)].user = db[TokenKey(t)].user
         /\ db'[TokenKey(t)].status \in {db[TokenKey(t)].status, "revoked"}
  BY <1>7, <1>8 DEF Revokes
<1> HIDE DEF New, c, w
<1>15. TokensOwned(db')
  <2> SUFFICES ASSUME NEW t \in Token, db'[TokenKey(t)] # NoRow, ~New(t)
               PROVE  /\ db'[TokenKey(t)].status \in {"live", "revoked", "deleted"}
                      /\ Owned(db', db'[TokenKey(t)])
    BY <1>9, <1>13 DEF TokensOwned
  <2>1. /\ db[TokenKey(t)].status \in {"live", "revoked", "deleted"}
        /\ Owned(db, db[TokenKey(t)])
    BY <1>14 DEF LoginInv, TokensOwned
  <2> DEFINE f == db[TokenKey(t)].login
  <2>2. f \in Flow /\ db'[FlowKey(f)] = db[FlowKey(f)]
    BY <1>4, <2>1, Keys DEF Owned
  <2> QED BY <1>14, <2>1, <2>2 DEF Owned
<1>16. OneLive(db')
  <2> SUFFICES ASSUME NEW t1 \in Token, NEW t2 \in Token,
                      db'[TokenKey(t1)].status = "live", db'[TokenKey(t2)].status = "live",
                      db'[TokenKey(t1)].login = db'[TokenKey(t2)].login
               PROVE  t1 = t2
    BY DEF OneLive
  <2>1. \A t \in {t1, t2} : ~New(t) =>
          db[TokenKey(t)].status = "live" /\ db[TokenKey(t)].login = db'[TokenKey(t)].login
    BY <1>14, NoRowOpen
  <2>2. CASE New(t1) \/ New(t2)
    BY <1>10, <1>13, <2>1, <2>2
  <2>3. CASE ~New(t1) /\ ~New(t2)
    BY <2>1, <2>3 DEF LoginInv, OneLive
  <2> QED BY <2>2, <2>3
<1> QED BY <1>5, <1>11, <1>12, <1>15, <1>16 DEF LoginInv, UsersTyped
-----------------------------------------------------------------------------
(* The actions, and whose the rows are *)

LEMMA OwnedEnd ==
  ASSUME ExchangeInv, LoginInv, NEW s \in Slot, db' = db, txn' = [txn EXCEPT ![s] = Idle]
  PROVE  LoginInv'
BY OwnedOwnStep, IdleOwned

LEMMA OwnedBegin ==
  ASSUME ExchangeInv, LoginInv, NEW s \in Slot, NEW to, NEW key, NEW user,
         Begin(s, to, key, user), to # "issue",
         to \in {"approve", "verifyLogin", "bind"} => user \in User,
         to \in {"consume", "rotate"} => Bound(db[key]) /\ db[key].user = user
  PROVE  LoginInv'
<1> DEFINE c == [Idle EXCEPT !.pc = to, !.key = key, !.user = user]
<1>1. c.pc = to /\ c.key = key /\ c.user = user /\ DOMAIN c.writes = {}
  BY DEF Idle
<1>2. db' = db /\ txn' = [txn EXCEPT ![s] = c]
  BY DEF Begin
<1> HIDE DEF c
<1>3. CallOwned(db, c)
  BY <1>1 DEF CallOwned, WritesOwned
<1> QED BY <1>2, <1>3, OwnedOwnStep

LEMMA OwnedGo ==
  ASSUME ExchangeInv, LoginInv, NEW s \in Slot, txn[s].pc \in {"approve", "verifyLogin"},
         Go(s, "bind")
  PROVE  LoginInv'
<1> DEFINE c == [txn[s] EXCEPT !.pc = "bind"]
<1>1. CallOK(db, txn[s]) /\ CallOwned(db, txn[s])
  BY DEF ExchangeInv, LoginInv
<1>2. c.pc = "bind" /\ c.key = txn[s].key /\ c.user = txn[s].user /\ c.writes = txn[s].writes
  BY <1>1 DEF CallOK, CallFields
<1>3. db' = db /\ txn' = [txn EXCEPT ![s] = c]
  BY DEF Go
<1> HIDE DEF c
<1>4. CallOwned(db, c)
  BY <1>1, <1>2 DEF CallOwned, WritesOwned
<1> QED BY <1>3, <1>4, OwnedOwnStep

LEMMA OwnedFind ==
  ASSUME ExchangeInv, LoginInv, NEW s \in Slot, NEW to \in {"revokeAll", "revokeTokens"},
         Find(s, to)
  PROVE  LoginInv'
<1> DEFINE c == [txn[s] EXCEPT !.found = LiveTokens(txn[s].user), !.pc = to]
<1>1. CallOK(db, txn[s]) /\ CallOwned(db, txn[s])
  BY DEF ExchangeInv, LoginInv
<1>2. c.pc = to /\ c.key = txn[s].key /\ c.writes = txn[s].writes
  BY <1>1 DEF CallOK, CallFields
<1>3. db' = db /\ txn' = [txn EXCEPT ![s] = c]
  BY DEF Find
<1> HIDE DEF c
<1>4. CallOwned(db, c)
  BY <1>1, <1>2 DEF CallOwned, WritesOwned
<1> QED BY <1>3, <1>4, OwnedOwnStep

\* Rows written in a transaction, and outside one.
LEMMA OwnedPut ==
  ASSUME ExchangeInv, LoginInv, NEW s \in Slot, NEW rows, NEW to, Put(s, rows, to),
         CallOwned(db, After(s, rows, to))
  PROVE  LoginInv'
BY OwnedOwnStep DEF Put, After

LEMMA OwnedPutNow ==
  ASSUME ExchangeInv, LoginInv, NEW s \in Slot, NEW rows, PutNow(s, rows),
         DOMAIN rows \subseteq Exchanged,
         \A k \in DOMAIN rows : Moves(k, db[k], rows[k])
  PROVE  LoginInv'
<1>1. txn' = [txn EXCEPT ![s] = Idle] /\ DOMAIN txn = Slot
  BY DEF PutNow, Done, ExchangeInv
<1>2. DOMAIN txn' = Slot /\ txn'[s] = Idle /\ \A t \in Slot \ {s} : txn'[t] = txn[t]
  BY <1>1
<1>3. db' = Over(rows, db) /\ DOMAIN db = Key /\ \A k \in DOMAIN rows : ~Locked(s, k)
  BY DEF PutNow, ExchangeInv, RowsOK
<1>4. \A k \in Key : db'[k] = IF k \in DOMAIN rows THEN rows[k] ELSE db[k]
  BY <1>3 DEF Over
<1>5. DOMAIN Idle.writes = {}
  BY DEF Idle
<1>6. ASSUME NEW k \in Exchanged, db'[k] # db[k]
      PROVE  /\ Moves(k, db[k], db'[k])
             /\ \A t \in Slot : txn'[t] = txn[t] => k \notin DOMAIN txn[t].writes
  <2>1. k \in DOMAIN rows /\ db'[k] = rows[k]
    BY <1>4, <1>6, Keys
  <2>2. \A t \in Slot : txn'[t] = txn[t] => k \notin DOMAIN txn[t].writes
    BY <1>2, <1>3, <1>5, <2>1 DEF Locked
  <2> QED BY <2>1, <2>2
<1>7. \A u \in User : db'[UserKey(u)] = db[UserKey(u)]
  BY <1>4, UserKeys
<1>8. \A t \in Slot : txn'[t] = txn[t] \/ txn'[t] = Idle
  BY <1>2
<1> QED BY <1>2, <1>6, <1>7, <1>8, OwnedRowStep

LEMMA SetKeeps ==
  ASSUME ExchangeInv, NEW k \in Exchanged, NEW status
  PROVE  /\ DOMAIN Set(k, status) = {k} /\ Set(k, status)[k].status = status
         /\ Set(k, status)[k].user = db[k].user /\ Set(k, status)[k].login = db[k].login
<1> DEFINE row == [db[k] EXCEPT !.status = status]
<1>1. row.status = status /\ row.user = db[k].user /\ row.login = db[k].login
  BY DEF ExchangeInv, RowsOK, Columns
<1>2. Set(k, status) = Row(k, row)
  BY DEF Set
<1>3. DOMAIN Row(k, row) = {k} /\ Row(k, row)[k] = row
  BY RowIs
<1> HIDE DEF row
<1> QED BY <1>1, <1>2, <1>3

LEMMA OwnedStart == ASSUME ExchangeInv, LoginInv, Start PROVE LoginInv'
<1> DEFINE f == Min(Fresh("flow", Flow))
<1>1. f \in Fresh("flow", Flow)
  <2>1. Fresh("flow", Flow) \subseteq Nat /\ Fresh("flow", Flow) # {}
    BY DeviceLoginAssumption DEF Start, Fresh
  <2> QED BY <2>1, MinIn
<1> HIDE DEF f
<1>2. f \in Flow /\ db[FlowKey(f)] = NoRow /\ ~Held(FlowKey(f))
  BY <1>1 DEF Fresh, FlowKey
<1>3. db' = [db EXCEPT ![FlowKey(f)] = NewFlow] /\ txn' = txn
  BY DEF Start, FlowKey, f
<1>4. FlowTyped(NewFlow)
  BY DEF NewFlow, NoRow, FlowTyped, FlowStatus
<1>5. FlowKey(f) \in Exchanged /\ FlowKey(f)[1] = "flow"
  BY <1>2, Keys
<1>6. Moves(FlowKey(f), NoRow, NewFlow)
  BY <1>4, <1>5, NoRowOpen, NoRowShape DEF Moves
<1>7. \A k \in Key : db'[k] = IF k = FlowKey(f) THEN NewFlow ELSE db[k]
  BY <1>3, <1>5, Keys DEF ExchangeInv, RowsOK
<1>8. \A k \in Exchanged : db'[k] # db[k] =>
        Moves(k, db[k], db'[k]) /\ \A s \in Slot : k \notin DOMAIN txn[s].writes
  BY <1>2, <1>6, <1>7, Keys DEF Held
<1>9. \A u \in User : db'[UserKey(u)] = db[UserKey(u)]
  BY <1>5, <1>7, UserKeys
<1> QED BY <1>3, <1>8, <1>9, OwnedRowStep DEF ExchangeInv

\* A row that grows older stays whose it is.
LEMMA OlderMoves ==
  ASSUME ExchangeInv, LoginInv, NEW k \in Exchanged, db[k] # NoRow, NEW row, row # NoRow,
         row.user = db[k].user, row.login = db[k].login, row.status \in {db[k].status, "deleted"}
  PROVE  Moves(k, db[k], row)
<1>1. CASE k[1] = "flow"
  <2>1. PICK f \in Flow : k = FlowKey(f)
    BY <1>1 DEF Exchanged, Key, FlowKey
  <2>2. FlowTyped(db[k])
    BY <2>1 DEF LoginInv
  <2> QED BY <1>1, <2>2 DEF Moves, FlowTyped, FlowStatus, Bound, Spent
<1>2. CASE k[1] # "flow"
  BY <1>2 DEF Moves
<1> QED BY <1>1, <1>2

LEMMA OwnedExpire ==
  ASSUME ExchangeInv, LoginInv, NEW k \in Exchanged, Expire(k) PROVE LoginInv'
<1> DEFINE row == [db[k] EXCEPT !.expired = TRUE]
<1>1. /\ row.status = db[k].status /\ row.user = db[k].user /\ row.login = db[k].login
      /\ row.expired
  BY DEF ExchangeInv, RowsOK, Columns
<1>2. db' = [db EXCEPT ![k] = row] /\ txn' = txn /\ ~Held(k) /\ db[k] # NoRow
  BY DEF Expire
<1>3. row # NoRow
  BY <1>1 DEF NoRow
<1> HIDE DEF row
<1>4. Moves(k, db[k], row)
  BY <1>1, <1>2, <1>3, OlderMoves
<1>5. \A j \in Key : db'[j] = IF j = k THEN row ELSE db[j]
  BY <1>2, Keys DEF ExchangeInv, RowsOK
<1>6. \A j \in Exchanged : db'[j] # db[j] =>
        Moves(j, db[j], db'[j]) /\ \A s \in Slot : j \notin DOMAIN txn[s].writes
  BY <1>2, <1>4, <1>5, Keys DEF Held
<1>7. \A u \in User : db'[UserKey(u)] = db[UserKey(u)]
  BY <1>5, UserKeys
<1> QED BY <1>2, <1>6, <1>7, OwnedRowStep DEF ExchangeInv

LEMMA OwnedSweep ==
  ASSUME ExchangeInv, LoginInv, NEW kind \in {"flow", "token"}, Sweep(kind) PROVE LoginInv'
<1>1. /\ txn' = txn
      /\ \A k \in Key : db'[k] = IF k[1] = kind /\ db[k].expired
                                 THEN [db[k] EXCEPT !.status = "deleted"] ELSE db[k]
  BY DEF Sweep
<1>2. ASSUME NEW k \in Exchanged, db'[k] # db[k]
      PROVE  Moves(k, db[k], db'[k]) /\ \A s \in Slot : k \notin DOMAIN txn[s].writes
  <2>1. k \in Key /\ k[1] = kind /\ db[k].expired /\ db'[k] = [db[k] EXCEPT !.status = "deleted"]
    BY <1>1, <1>2, Keys
  <2>2. /\ db'[k].status = "deleted" /\ db'[k].user = db[k].user /\ db'[k].login = db[k].login
    BY <2>1 DEF ExchangeInv, RowsOK, Columns
  <2>3. db[k] # NoRow /\ db'[k] # NoRow
    BY <2>1, <2>2 DEF NoRow
  <2>4. \A s \in Slot : k \notin DOMAIN txn[s].writes
    BY <2>1 DEF Sweep, Held
  <2> QED BY <2>2, <2>3, <2>4, OlderMoves
<1>3. \A u \in User : db'[UserKey(u)] = db[UserKey(u)]
  BY <1>1, UserKeys DEF UserKey
<1> QED BY <1>1, <1>2, <1>3, OwnedRowStep DEF ExchangeInv

LEMMA OwnedBindFlow == ASSUME ExchangeInv, LoginInv, NEW s \in Slot, BindFlow(s) PROVE LoginInv'
<1> DEFINE k == txn[s].key
           row == [db[k] EXCEPT !.status = "approved", !.user = txn[s].user]
<1>1. k \in Exchanged /\ k[1] = "flow" /\ txn[s].user \in User
  BY Keys DEF BindFlow, ExchangeInv, CallOK, FlowPc, LoginInv, CallOwned
<1>2. CASE db[k].status = "pending"
  <2>1. PutNow(s, Row(k, row))
    BY <1>2 DEF BindFlow
  <2>2. row.status = "approved" /\ row.user = txn[s].user
    BY <1>1 DEF ExchangeInv, RowsOK, Columns
  <2>3. DOMAIN Row(k, row) = {k} /\ Row(k, row)[k] = row
    BY RowIs
  <2> HIDE DEF row
  <2>4. Moves(k, db[k], row)
    BY <1>1, <1>2, <2>2 DEF Moves, FlowTyped, FlowStatus, Spent, Bound
  <2> QED BY <1>1, <2>1, <2>3, <2>4, OwnedPutNow
<1>3. CASE db[k].status # "pending"
  BY <1>3, OwnedEnd DEF BindFlow, Answered, Done
<1> QED BY <1>2, <1>3

LEMMA OwnedDenyFlow == ASSUME ExchangeInv, LoginInv, NEW s \in Slot, DenyFlow(s) PROVE LoginInv'
<1> DEFINE k == txn[s].key
           rows == Set(k, "consumed")
<1>1. k \in {"flow"} \X Flow
  BY DEF DenyFlow, ExchangeInv, CallOK, FlowPc
<1>2. PICK f \in Flow : k = FlowKey(f) /\ k \in Exchanged /\ k[1] = "flow"
  BY <1>1, Keys
<1>3. CASE db[k].status = "approved"
  <2>1. PutNow(s, rows)
    BY <1>3 DEF DenyFlow
  <2>2. DOMAIN rows = {k} /\ rows[k].status = "consumed" /\ rows[k].user = db[k].user
    BY <1>2, SetKeeps
  <2>3. db[k].user \in User
    BY <1>2, <1>3 DEF LoginInv, FlowTyped
  <2> HIDE DEF rows
  <2>4. Moves(k, db[k], rows[k])
    BY <1>2, <1>3, <2>2, <2>3 DEF Moves, FlowTyped, FlowStatus, Spent, Bound
  <2> QED BY <1>2, <2>1, <2>2, <2>4, OwnedPutNow
<1>4. CASE db[k].status # "approved"
  BY <1>4, OwnedEnd DEF DenyFlow, Answered, Done
<1> QED BY <1>3, <1>4
\* The row that is exchanged belongs to the person the request is for.
LEMMA OwnedConsumeFlow ==
  ASSUME ExchangeInv, LoginInv, NEW s \in Slot, ConsumeFlow(s) PROVE LoginInv'
<1> DEFINE k == txn[s].key
           rows == Set(k, "consumed")
           c == After(s, rows, "issue")
<1>1. CallOK(db, txn[s]) /\ CallOwned(db, txn[s]) /\ txn[s].pc = "consume"
  BY DEF ExchangeInv, LoginInv, ConsumeFlow
<1>2. PICK f \in Flow : k = FlowKey(f) /\ k \in Exchanged /\ k[1] = "flow"
  BY <1>1, Keys DEF CallOK, FlowPc
<1>3. CASE db[k].status = "approved"
  <2>1. Put(s, rows, "issue")
    BY <1>3 DEF ConsumeFlow
  <2>2. DOMAIN rows = {k} /\ rows[k].status = "consumed" /\ rows[k].user = db[k].user
    BY <1>2, SetKeeps
  <2>3. /\ c.pc = "issue" /\ c.key = k /\ c.user = txn[s].user
        /\ c.writes = Over(rows, txn[s].writes)
    BY <1>1, AfterIs DEF After, CallOK, CallFields
  <2>4. DOMAIN c.writes = {k} /\ c.writes[k] = rows[k]
    BY <1>1, <2>2, <2>3 DEF CallOK, Over
  <2> HIDE DEF rows, c, k
  <2>5. Consumes(db[k], rows[k])
    BY <1>3, <2>2 DEF Consumes
  <2>6. WritesOwned(db, c)
    BY <1>2, <2>4, <2>5, Keys, UserKeys DEF WritesOwned
  <2>7. db[k].user = c.user
    BY <1>1, <2>3 DEF CallOwned, k
  <2>8. CallOwned(db, c)
    BY <1>3, <2>3, <2>6, <2>7 DEF CallOwned
  <2> QED BY <2>1, <2>8, OwnedPut DEF c
<1>4. CASE db[k].status # "approved"
  BY <1>4, OwnedEnd DEF ConsumeFlow, Answered, Done
<1> QED BY <1>3, <1>4

LEMMA OwnedRotateToken ==
  ASSUME ExchangeInv, LoginInv, NEW s \in Slot, RotateToken(s) PROVE LoginInv'
<1> DEFINE k == txn[s].key
           rows == Set(k, "revoked")
           c == After(s, rows, "issue")
<1>1. CallOK(db, txn[s]) /\ CallOwned(db, txn[s]) /\ txn[s].pc = "rotate"
  BY DEF ExchangeInv, LoginInv, RotateToken
<1>2. PICK t \in Token : k = TokenKey(t) /\ k \in Exchanged /\ k[1] = "token"
  BY <1>1, Keys DEF CallOK
<1>3. CASE db[k].status = "live"
  <2>1. Put(s, rows, "issue")
    BY <1>3 DEF RotateToken
  <2>2. /\ DOMAIN rows = {k} /\ rows[k].status = "revoked" /\ rows[k].user = db[k].user
        /\ rows[k].login = db[k].login
    BY <1>2, SetKeeps
  <2>3. /\ c.pc = "issue" /\ c.key = k /\ c.user = txn[s].user
        /\ c.writes = Over(rows, txn[s].writes)
    BY <1>1, AfterIs DEF After, CallOK, CallFields
  <2>4. DOMAIN c.writes = {k} /\ c.writes[k] = rows[k]
    BY <1>1, <2>2, <2>3 DEF CallOK, Over
  <2> HIDE DEF rows, c, k
  <2>5. Revokes(db[k], rows[k]) /\ db[k] # NoRow
    BY <1>3, <2>2, NoRowOpen DEF Revokes
  <2>6. WritesOwned(db, c)
    BY <1>2, <2>4, <2>5, Keys, UserKeys DEF WritesOwned
  <2>7. db[k].user = c.user
    BY <1>1, <2>3 DEF CallOwned, k
  <2>8. CallOwned(db, c)
    BY <1>3, <2>3, <2>6, <2>7 DEF CallOwned
  <2> QED BY <2>1, <2>8, OwnedPut DEF c
<1>4. CASE db[k].status # "live"
  BY <1>4, OwnedEnd DEF RotateToken, Answered, Done
<1> QED BY <1>3, <1>4

\* Tokens that are revoked together stay whose they are.
LEMMA RevokedKeeps ==
  ASSUME ExchangeInv, NEW s \in Slot, NEW k \in DOMAIN Revoked(s)
  PROVE  /\ k \in Exchanged /\ k[1] = "token" /\ db[k] # NoRow /\ Revoked(s)[k] # NoRow
         /\ Revokes(db[k], Revoked(s)[k])
<1> DEFINE live == {f \in txn[s].found : db[f].status = "live"}
           row(j) == [db[j] EXCEPT !.status = "revoked"]
<1>1. Revoked(s) = [j \in live |-> row(j)]
  BY DEF Revoked
<1>2. k \in Exchanged /\ k[1] = "token" /\ db[k].status = "live" /\ Revoked(s)[k].status = "revoked"
  BY RevokedIs
<1>3. row(k).status = "revoked" /\ row(k).user = db[k].user /\ row(k).login = db[k].login
  BY <1>2 DEF ExchangeInv, RowsOK, Columns
<1> HIDE DEF live, row
<1>4. Revoked(s)[k] = row(k)
  BY <1>1
<1> QED BY <1>2, <1>3, <1>4, NoRowOpen, NoRowShape DEF Revokes, NoRow

LEMMA OwnedRevokeAll == ASSUME ExchangeInv, LoginInv, NEW s \in Slot, RevokeAll(s) PROVE LoginInv'
<1>1. CASE txn[s].pc = "findAll" /\ Find(s, "revokeAll")
  BY <1>1, OwnedFind
<1>2. CASE PutNow(s, Revoked(s))
  <2>1. \A k \in DOMAIN Revoked(s) : k \in Exchanged /\ Moves(k, db[k], Revoked(s)[k])
    BY RevokedKeeps DEF Moves, Revokes
  <2> QED BY <1>2, <2>1, OwnedPutNow
<1> QED BY <1>1, <1>2 DEF RevokeAll

LEMMA OwnedLogout ==
  ASSUME ExchangeInv, LoginInv, NEW s \in Slot, NEW t \in Token, Logout(s, t) PROVE LoginInv'
<1> DEFINE k == TokenKey(t)
           rows == Set(k, "revoked")
<1>1. k \in Exchanged /\ k[1] = "token"
  BY Keys
<1>2. /\ DOMAIN rows = {k} /\ rows[k].status = "revoked"
      /\ rows[k].user = db[k].user /\ rows[k].login = db[k].login
  BY <1>1, SetKeeps
<1>3. PutNow(s, rows) /\ db[k].status = "live"
  BY DEF Logout, TokenKey
<1> HIDE DEF k, rows
<1>4. Moves(k, db[k], rows[k])
  BY <1>1, <1>2, <1>3 DEF Moves, NoRow
<1> QED BY <1>1, <1>2, <1>3, <1>4, OwnedPutNow

LEMMA OwnedRevokeTokens ==
  ASSUME ExchangeInv, LoginInv, NEW s \in Slot, RevokeTokens(s) PROVE LoginInv'
<1>1. CASE txn[s].pc = "findTokens" /\ Find(s, "revokeTokens")
  BY <1>1, OwnedFind
<1>2. CASE txn[s].pc = "revokeTokens" /\ Put(s, Revoked(s), "commit")
  <2> DEFINE rows == Revoked(s)
             w == txn[s].writes
             c == After(s, rows, "commit")
  <2>1. CallOK(db, txn[s]) /\ CallOwned(db, txn[s])
    BY DEF ExchangeInv, LoginInv
  <2>2. \A k \in DOMAIN rows : /\ k \in Exchanged /\ k[1] = "token" /\ db[k] # NoRow
                               /\ Revokes(db[k], rows[k])
    BY RevokedKeeps
  <2>3. c.pc = "commit" /\ c.writes = Over(rows, w)
    BY AfterIs
  <2>4. \A k \in DOMAIN c.writes :
          \/ k \in DOMAIN rows /\ c.writes[k] = rows[k]
          \/ k \in DOMAIN w /\ c.writes[k] = w[k]
    BY <2>3 DEF Over
  <2> HIDE DEF rows, c
  <2>5. \A t \in Token : TokenKey(t) \in DOMAIN w => db[TokenKey(t)] # NoRow
    BY <1>2, <2>1 DEF CallOK
  <2>6. \A t \in Token : TokenKey(t) \in DOMAIN c.writes =>
          db[TokenKey(t)] # NoRow /\ Revokes(db[TokenKey(t)], c.writes[TokenKey(t)])
    BY <2>1, <2>2, <2>4, <2>5 DEF CallOwned, WritesOwned
  <2>7. \A f \in Flow : FlowKey(f) \in DOMAIN c.writes =>
          Consumes(db[FlowKey(f)], c.writes[FlowKey(f)])
    BY <2>1, <2>2, <2>4, Keys DEF CallOwned, WritesOwned
  <2>8. \A u \in User : UserKey(u) \in DOMAIN c.writes => c.writes[UserKey(u)] \in UserRow(u)
    BY <2>1, <2>2, <2>4, UserKeys DEF CallOwned, WritesOwned
  <2>9. CallOwned(db, c)
    BY <2>3, <2>6, <2>7, <2>8 DEF CallOwned, WritesOwned
  <2> QED BY <1>2, <2>9, OwnedPut DEF c, rows
<1> QED BY <1>1, <1>2 DEF RevokeTokens

\* The successor belongs to the same person and the same login.
LEMMA OwnedIssue ==
  ASSUME ExchangeInv, LoginInv, NEW s \in Slot, issueTokenPair(s) PROVE LoginInv'
<1> DEFINE n == Min(Fresh("token", Token))
           k == TokenKey(n)
           from == txn[s].key
           new == NewToken(txn[s].user, from)
           rows == Row(k, new)
           w == txn[s].writes
           c == After(s, rows, "commit")
<1>1. n \in Token /\ db[k] = NoRow /\ ~Held(k)
  <2>1. Fresh("token", Token) \subseteq Nat /\ Fresh("token", Token) # {}
    BY DeviceLoginAssumption DEF issueTokenPair, Fresh
  <2>2. n \in Fresh("token", Token)
    BY <2>1, MinIn
  <2> QED BY <2>2 DEF Fresh, TokenKey
<1>2. k \in Exchanged /\ k \notin DOMAIN w
  BY <1>1, Keys DEF Held
<1>3. /\ CallOK(db, txn[s]) /\ CallOwned(db, txn[s]) /\ txn[s].pc = "issue"
      /\ from \in Exchanged
  BY DEF ExchangeInv, CallOK, issueTokenPair, LoginInv, Claimed
<1>4. db[from].status \in {"approved", "live"} /\ db[from].user = txn[s].user
  BY <1>3 DEF CallOwned
<1>5. new.status = "live" /\ new.user = txn[s].user /\ new.login = Login(from)
  BY DEF NewToken, NoRow
<1>6. Origin(db, from, new)
  <2>1. CASE \E f \in Flow : from = FlowKey(f)
    <3>1. PICK f \in Flow : from = FlowKey(f)
      BY <2>1
    <3>2. Login(from) = f
      BY <3>1 DEF Login, FlowKey
    <3>3. db[from].status = "approved"
      BY <1>4, <3>1 DEF LoginInv, FlowTyped, FlowStatus
    <3> HIDE DEF new, from
    <3> QED BY <1>4, <1>5, <3>1, <3>2, <3>3 DEF Origin
  <2>2. CASE \E t \in Token : from = TokenKey(t)
    <3>1. PICK t \in Token : from = TokenKey(t)
      BY <2>2
    <3>2. Login(from) = db[from].login
      BY <3>1 DEF Login, TokenKey
    <3>3. db[from].status = "live"
      BY <1>4, <3>1, NoRowShape DEF LoginInv, TokensOwned
    <3> HIDE DEF new, from
    <3> QED BY <1>4, <1>5, <3>1, <3>2, <3>3 DEF Origin
  <2> HIDE DEF from
  <2> QED BY <1>3, <2>1, <2>2 DEF Exchanged, Key, FlowKey, TokenKey
<1>7. DOMAIN rows = {k} /\ rows[k] = new
  BY RowIs
<1>8. c.pc = "commit" /\ c.key = from /\ c.writes = Over(rows, w)
  BY AfterIs
<1>9. Put(s, rows, "commit")
  BY DEF issueTokenPair, TokenKey
<1>10. c.writes[k] = new /\ DOMAIN c.writes = {k} \cup DOMAIN w
  BY <1>7, <1>8 DEF Over
<1>11. \A j \in DOMAIN w : c.writes[j] = w[j]
  BY <1>2, <1>7, <1>8 DEF Over
<1> HIDE DEF n, new, rows, c, from
<1>12. \A t \in Token \ {n} : TokenKey(t) \in DOMAIN c.writes =>
         /\ TokenKey(t) \in DOMAIN w /\ c.writes[TokenKey(t)] = w[TokenKey(t)]
         /\ db[TokenKey(t)] # NoRow
  BY <1>1, <1>3, <1>10, <1>11, Keys DEF CallOK
<1>13. \A t \in Token : TokenKey(t) \in DOMAIN c.writes =>
         IF db[TokenKey(t)] = NoRow
         THEN /\ c.writes[TokenKey(t)].status = "live"
              /\ Origin(db, c.key, c.writes[TokenKey(t)])
         ELSE Revokes(db[TokenKey(t)], c.writes[TokenKey(t)])
  <2> SUFFICES ASSUME NEW t \in Token, TokenKey(t) \in DOMAIN c.writes
               PROVE  IF db[TokenKey(t)] = NoRow
                      THEN /\ c.writes[TokenKey(t)].status = "live"
                           /\ Origin(db, c.key, c.writes[TokenKey(t)])
                      ELSE Revokes(db[TokenKey(t)], c.writes[TokenKey(t)])
    OBVIOUS
  <2>1. CASE t = n
    BY <1>1, <1>5, <1>6, <1>8, <1>10, <2>1
  <2>2. CASE t # n
    BY <1>3, <1>12, <2>2 DEF CallOwned, WritesOwned
  <2> QED BY <2>1, <2>2
<1>14. \A f \in Flow : FlowKey(f) \in DOMAIN c.writes =>
         Consumes(db[FlowKey(f)], c.writes[FlowKey(f)])
  BY <1>1, <1>3, <1>10, <1>11, Keys DEF CallOwned, WritesOwned
<1>15. \A u \in User : UserKey(u) \in DOMAIN c.writes => c.writes[UserKey(u)] \in UserRow(u)
  BY <1>2, <1>3, <1>10, <1>11, UserKeys DEF CallOwned, WritesOwned
<1>16. CallOwned(db, c)
  BY <1>8, <1>13, <1>14, <1>15 DEF CallOwned, WritesOwned
<1> QED BY <1>9, <1>16, OwnedPut DEF c

LEMMA OwnedUpdateUser ==
  ASSUME ExchangeInv, LoginInv, NEW s \in Slot, NEW kind \in Account, NEW u \in User,
         UpdateUser(s, kind, u)
  PROVE  LoginInv'
<1> DEFINE k == UserKey(u)
<1>1. db[k] \in UserRow(u)
  BY DEF LoginInv, UsersTyped
<1>2. /\ [db[k] EXCEPT !.mustChange = FALSE] \in UserRow(u)
      /\ [db[k] EXCEPT !.mustChange = TRUE] \in UserRow(u)
      /\ [db[k] EXCEPT !.status = "disabled"] \in UserRow(u)
      /\ [db[k] EXCEPT !.status = "active"] \in UserRow(u)
  BY <1>1 DEF UserRow
<1>3. \E row \in UserRow(u), to \in {"commit", "findTokens"} :
        txn' = [txn EXCEPT ![s] = [Idle EXCEPT !.pc = to, !.user = u, !.writes = Row(k, row)]]
  <2> DEFINE to == IF kind \in {"enable", "requireChange"} THEN "commit" ELSE "findTokens"
             row == CASE kind = "changePassword" -> [db[k] EXCEPT !.mustChange = FALSE]
                      [] kind \in {"resetPassword", "requireChange"} ->
                           [db[k] EXCEPT !.mustChange = TRUE]
                      [] kind = "disable" -> [db[k] EXCEPT !.status = "disabled"]
                      [] OTHER            -> [db[k] EXCEPT !.status = "active"]
  <2>1. to \in {"commit", "findTokens"}
    OBVIOUS
  <2>2. row \in UserRow(u)
    BY <1>2 DEF Account
  <2>3. txn' = [txn EXCEPT ![s] = [Idle EXCEPT !.pc = to, !.user = u, !.writes = Row(k, row)]]
    BY DEF UpdateUser, UserKey
  <2> HIDE DEF to, row
  <2> QED BY <2>1, <2>2, <2>3
<1>4. PICK row \in UserRow(u), to \in {"commit", "findTokens"} :
        txn' = [txn EXCEPT ![s] = [Idle EXCEPT !.pc = to, !.user = u, !.writes = Row(k, row)]]
  BY <1>3
<1> DEFINE c == [Idle EXCEPT !.pc = to, !.user = u, !.writes = Row(k, row)]
<1>5. c.pc = to /\ DOMAIN c.writes = {k} /\ c.writes[k] = row
  BY RowIs DEF Idle
<1> HIDE DEF c
<1>6. CallOwned(db, c)
  BY <1>5, Keys, UserKeys DEF CallOwned, WritesOwned
<1>7. db' = db
  BY DEF UpdateUser
<1> QED BY <1>4, <1>6, <1>7, OwnedOwnStep DEF c
-----------------------------------------------------------------------------
LEMMA OwnedClient ==
  ASSUME ExchangeInv, LoginInv, NEW s \in Slot, Client(s) PROVE LoginInv'
<1>1. ASSUME NEW f \in Flow, NEW u \in User, Approve(s, f, u) PROVE LoginInv'
  BY <1>1, OwnedBegin DEF Approve
<1>2. ASSUME NEW f \in Flow, NEW u \in User, SubmitForm(s, f, u) PROVE LoginInv'
  BY <1>2, OwnedBegin DEF SubmitForm
<1>3. ASSUME NEW f \in Flow, Poll(s, f) PROVE LoginInv'
  <2> DEFINE k == <<"flow", f>>
             to == IF MustChange(db[k].user) THEN "deny" ELSE "consume"
  <2>1. Begin(s, to, k, db[k].user) /\ Bound(db[k])
    BY <1>3 DEF Poll, Bound
  <2>2. to \in {"deny", "consume"}
    OBVIOUS
  <2> HIDE DEF to
  <2> QED BY <2>1, <2>2, OwnedBegin
<1>4. ASSUME NEW t \in Token, Refresh(s, t) PROVE LoginInv'
  <2> DEFINE k == <<"token", t>>
  <2>1. CASE Begin(s, "findAll", k, db[k].user)
    BY <2>1, OwnedBegin
  <2>2. CASE db[k].status = "live" /\ Begin(s, "rotate", k, db[k].user)
    BY <2>2, OwnedBegin DEF Bound
  <2> QED BY <1>4, <2>1, <2>2 DEF Refresh
<1> QED BY <1>1, <1>2, <1>3, <1>4, OwnedLogout, OwnedUpdateUser DEF Client

LEMMA OwnedStatement ==
  ASSUME ExchangeInv, LoginInv, NEW s \in Slot, Statement(s) PROVE LoginInv'
<1>1. CASE FindPendingFlow(s)
  BY <1>1, OwnedGo, OwnedEnd DEF FindPendingFlow, Answered, Done
<1>2. CASE VerifyLogin(s)
  BY <1>2, OwnedGo, OwnedEnd DEF VerifyLogin, Answered, Done
<1> QED BY <1>1, <1>2, OwnedBindFlow, OwnedDenyFlow, OwnedConsumeFlow, OwnedRevokeAll,
           OwnedRotateToken, OwnedIssue, OwnedRevokeTokens, OwnedCommitStep DEF Statement

LEMMA InitLogin == Init => LoginInv
<1> SUFFICES ASSUME Init PROVE LoginInv
  OBVIOUS
<1>1. \A k \in Exchanged : db[k] = NoRow
  BY Keys DEF Init, Exchanged
<1>2. \A u \in User : db[UserKey(u)] \in UserRow(u)
  BY UserKeys DEF Init, UserKey, UserRow, NewUser
<1>3. FlowTyped(NoRow)
  BY DEF FlowTyped, FlowStatus, NoRow
<1>4. TokensOwned(db) /\ OneLive(db)
  BY <1>1, Keys, NoRowOpen DEF TokensOwned, OneLive
<1>5. \A s \in Slot : CallOwned(db, txn[s])
  BY IdleOwned DEF Init
<1> QED BY <1>1, <1>2, <1>3, <1>4, <1>5, Keys DEF LoginInv, UsersTyped

LEMMA LoginStep == ExchangeInv /\ LoginInv /\ [Next]_vars => LoginInv'
<1> SUFFICES ASSUME ExchangeInv, LoginInv, [Next]_vars PROVE LoginInv'
  OBVIOUS
<1>1. CASE Start
  BY <1>1, OwnedStart
<1>2. ASSUME NEW k \in Key, k[1] # "user", Expire(k) PROVE LoginInv'
  BY <1>2, OwnedExpire DEF Exchanged
<1>3. CASE Sweep("flow") \/ Sweep("token")
  BY <1>3, OwnedSweep
<1>4. ASSUME NEW s \in Slot, Client(s) \/ Statement(s) PROVE LoginInv'
  BY <1>4, OwnedClient, OwnedStatement
<1>5. ASSUME NEW s \in Slot, Abort(s) PROVE LoginInv'
  BY <1>5, OwnedEnd DEF Abort, Answered, Done
<1>6. CASE UNCHANGED vars
  BY <1>6, OwnedRowStep DEF vars, ExchangeInv
<1> QED BY <1>1, <1>2, <1>3, <1>4, <1>5, <1>6 DEF Next

\* Every table has its columns' values: a bound flow and an issued token have a
\* user, and a token comes from a row that was exchanged for it.
THEOREM TypesHold == Spec => []TypeOK
<1>1. ExchangeInv /\ LoginInv => TypeOK
  <2> SUFFICES ASSUME ExchangeInv, LoginInv PROVE TypeOK
    OBVIOUS
  <2>1. \A u \in User : db[<<"user", u>>] \in
          [status : {"active", "disabled"}, user : {u}, mustChange : BOOLEAN]
    BY DEF LoginInv, UsersTyped, UserRow, UserKey
  <2>2. \A f \in Flow : FlowTyped(flow(f))
    BY DEF LoginInv, flow, FlowKey
  <2>3. ASSUME NEW t \in Issued
        PROVE  /\ token(t).status \in {"live", "revoked", "deleted"} /\ token(t).user \in User
               /\ token(t).from \in Key /\ token(t).login \in Flow
    <3>1. t \in Token /\ token(t) = db[TokenKey(t)] /\ db[TokenKey(t)] # NoRow
      BY DEF Issued, token, TokenKey
    <3> QED BY <3>1, Keys DEF LoginInv, TokensOwned, Owned, ExchangeInv, RowsOK
  <2> QED BY <2>1, <2>2, <2>3 DEF TypeOK, FlowTyped, FlowStatus
<1> QED BY InitExchange, ExchangeStep, InitLogin, LoginStep, <1>1, PTL DEF Spec

\* One approval gives one session, however often it is refreshed, by however many
\* desktops at once: a successor is committed with the end of what it succeeds
\* (auth.ts:214, tokens.ts:64).
THEOREM LoginsAreSingle == Spec => []OneLivePerLogin
<1>1. LoginInv => OneLivePerLogin
  BY DEF LoginInv, OneLive, OneLivePerLogin, Issued, token, TokenKey
<1> QED BY InitExchange, ExchangeStep, InitLogin, LoginStep, <1>1, PTL DEF Spec

\* A token is for the person its flow was bound to, through every refresh and
\* whoever else approved the code (auth.ts:260, devicePage.ts:119): the binding is
\* made where it is pending, and never again.
THEOREM TokensAreTheApprovers == Spec => []TokensFollowApprover
<1>1. LoginInv => TokensFollowApprover
  BY DEF LoginInv, TokensOwned, Owned, TokensFollowApprover, Issued, token, flow,
         TokenKey, FlowKey
<1> QED BY InitExchange, ExchangeStep, InitLogin, LoginStep, <1>1, PTL DEF Spec
=============================================================================
