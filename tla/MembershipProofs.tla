--------------------------- MODULE MembershipProofs ---------------------------
(***************************************************************************)
(* For any number of requests and people: the owner stays, an invite or a  *)
(* join request is decided once, nobody joins without a grant and nobody   *)
(* granted is left out, and a role change loses no other change.           *)
(*                                                                         *)
(* The argument: a transaction carries its evidence along.  What it read   *)
(* outside the rows it holds may be stale, except for what never changes:  *)
(* who a row is about, and that an account or a membership once existed.   *)
(* What it wrote it holds, so the rows it replaces at the commit are those *)
(* it looked at in the statement that wrote them.                          *)
(***************************************************************************)
EXTENDS MembershipProps, WellFoundedInduction, TLAPS

AccountKey(u) == <<"account", u>>
MemberKey(u) == <<"member", u>>
InviteKey(i) == <<"invite", i>>
RequestKey(j) == <<"request", j>>
Decidable == {k \in Key : k[1] \in {"invite", "request"}}

Columns == {"status", "version", "role", "user"}
CallFields == {"pc", "op", "rank", "ver", "grant", "todo", "writes"}

Open(row) == row.status \in {"none", "pending"}
Done(row) == row.status \in {"accepted", "approved"}

\* Where the membership that c gives u comes from.
Source(d, c, u, role) ==
  \/ \E i \in Invite :
       /\ InviteKey(i) \in DOMAIN c.writes /\ c.writes[InviteKey(i)].status = "accepted"
       /\ d[InviteKey(i)].status = "pending"
       /\ d[InviteKey(i)].user = u /\ d[InviteKey(i)].role = role
  \/ \E j \in JoinRequest :
       /\ RequestKey(j) \in DOMAIN c.writes /\ c.writes[RequestKey(j)].status = "approved"
       /\ d[RequestKey(j)].status = "pending" /\ d[RequestKey(j)].user = u
  \/ /\ c.op.kind = "add" /\ c.op.user = u /\ c.op.role = role
     /\ d[AccountKey(u)].status = "active"

\* What may be written under key k instead of the row `old'.
Writable(k, old, row) ==
  /\ DOMAIN row = Columns
  /\ k # MemberKey(Owner) /\ row.role # "owner" /\ row.status # "none"
  /\ row.user \in User /\ (old # NoRow => row.user = old.user)
  /\ k \in Decidable => Open(old)
  /\ k[1] = "account" => row.status = "active"
  /\ Done(row) => k \in Decidable

Joins(old, row) == row.status = "active" /\ old.status # "active"

WritesOK(d, c) ==
  /\ DOMAIN c.writes \subseteq Key
  /\ \A k \in DOMAIN c.writes : Writable(k, d[k], c.writes[k])
  /\ \A u \in User :
       /\ MemberKey(u) \in DOMAIN c.writes
       /\ Joins(d[MemberKey(u)], c.writes[MemberKey(u)])
       => Source(d, c, u, c.writes[MemberKey(u)].role)

-----------------------------------------------------------------------------
(* What a request is about, and what it has found out, by where it is *)

Granting == {"activate", "insert", "reactivate"}
Claiming == {"createAccount", "signIn"}
Reading == {"idle", "findUser", "findMember", "expire", "find", "changeRole", "remove", "revoke",
            "findRequest", "createRequest", "loadRequest", "decide", "createUser"}

KindOK(pc, op) ==
  /\ pc # "idle" => op \in Command
  /\ pc \in {"findUser", "expire", "findInvite", "createInvite"} => op.kind = "add"
  /\ pc = "findMember" => op.kind \in {"add", "ask"}
  /\ pc \in {"findRequest", "createRequest"} => op.kind = "ask"
  /\ pc = "find" => op.kind \in {"changeRole", "remove"}
  /\ pc \in {"changeRole", "remove"} => op.kind = pc /\ op.user # Owner
  /\ pc = "revoke" => op.kind = "revoke"
  /\ pc \in {"loadRequest", "decide"} => op.kind \in {"approve", "reject"}
  /\ pc = "createUser" => op.kind = "createAccount"
  /\ pc \in {"listInvites", "claim"} => op.kind \in Claiming
  /\ pc \in Granting => op.kind \in {"add", "approve"} \cup Claiming

GrantOK(d, c) ==
  /\ c.grant.role # "owner"
  /\ c.pc # "idle" /\ c.op.kind = "add" =>
       c.grant.user = c.op.user /\ c.grant.role = c.op.role
  /\ c.pc \in {"findMember", "activate", "insert", "reactivate"} /\ c.op.kind = "add" =>
       d[AccountKey(c.op.user)].status = "active"
  /\ c.pc = "decide" =>
       d[RequestKey(c.op.id)] # NoRow /\ c.grant.user = d[RequestKey(c.op.id)].user
  /\ c.pc \in Granting =>
       c.grant.user \in User /\ Source(d, c, c.grant.user, c.grant.role)
  /\ c.pc = "remove" => d[MemberKey(c.op.user)] # NoRow
  /\ c.pc \in {"insert", "reactivate"} => c.grant.user # Owner
  /\ c.pc = "reactivate" =>
       MemberKey(c.grant.user) \in DOMAIN c.writes \/ d[MemberKey(c.grant.user)] # NoRow

\* Who is granted a membership has it, or is about to get it.
JoinOK(d, c) ==
  \A k \in DOMAIN c.writes : Done(c.writes[k]) =>
    LET u == c.writes[k].user IN
    IF c.pc \in Granting THEN u = c.grant.user
    ELSE MemberKey(u) \in DOMAIN c.writes \/ d[MemberKey(u)] # NoRow

\* Invites are claimed for the one who signs in.
ClaimOK(d, c) ==
  c.pc # "idle" /\ c.op.kind \in Claiming =>
    /\ \A i \in c.todo :
         i \in Invite /\ d[InviteKey(i)] # NoRow /\ d[InviteKey(i)].user = c.op.user
    /\ \A k \in DOMAIN c.writes : k \in Decidable =>
         c.writes[k].status = "accepted" /\ c.writes[k].user = c.op.user
    /\ c.pc \in Granting => c.grant.user = c.op.user

RoleChangeOK(d, c) ==
  c.pc = "commit" /\ c.op.kind = "changeRole" =>
    LET k == MemberKey(c.op.user) IN
    /\ DOMAIN c.writes = {k} /\ k \in Key
    /\ d[k].status = "active" /\ d[k].version = c.op.version
    /\ c.writes[k].role = c.op.role

CallOK(d, c) ==
  /\ DOMAIN c = CallFields /\ DOMAIN c.grant = {"user", "role"}
  /\ c.pc \in Reading => DOMAIN c.writes = {}
  /\ KindOK(c.pc, c.op)
  /\ WritesOK(d, c) /\ GrantOK(d, c) /\ JoinOK(d, c) /\ ClaimOK(d, c) /\ RoleChangeOK(d, c)

RowsOK(d) ==
  /\ DOMAIN d = Key
  /\ \A k \in Key :
       /\ DOMAIN d[k] = Columns
       /\ d[k] # NoRow => d[k].status # "none" /\ d[k].user \in User
       /\ k # MemberKey(Owner) => d[k].role # "owner"
       /\ k[1] = "account" /\ d[k] # NoRow => d[k].status = "active"
       /\ Done(d[k]) => d[MemberKey(d[k].user)] # NoRow
  /\ d[MemberKey(Owner)].status = "active" /\ d[MemberKey(Owner)].role = "owner"

HeldByOne(x) ==
  \A s1, s2 \in Slot : s1 # s2 => DOMAIN x[s1].writes \cap DOMAIN x[s2].writes = {}

MemberInv ==
  /\ RowsOK(db)
  /\ DOMAIN txn = Slot /\ HeldByOne(txn)
  /\ \A s \in Slot : CallOK(db, txn[s])

-----------------------------------------------------------------------------
(* Keys, rows, and what does not change *)

LEMMA Keys ==
  /\ \A u \in User : AccountKey(u) \in Key /\ MemberKey(u) \in Key
                     /\ AccountKey(u) \notin Decidable /\ MemberKey(u) \notin Decidable
                     /\ AccountKey(u)[1] = "account" /\ MemberKey(u)[1] = "member"
  /\ \A i \in Invite : InviteKey(i) \in Decidable /\ InviteKey(i)[1] = "invite"
  /\ \A j \in JoinRequest : RequestKey(j) \in Decidable /\ RequestKey(j)[1] = "request"
  /\ \A u, v \in User : /\ MemberKey(u) = MemberKey(v) => u = v
                        /\ MemberKey(u) # AccountKey(v)
  /\ Decidable \subseteq Key
  /\ MemberKey(Owner) \notin Decidable
  /\ \A k \in Decidable : k[1] \in {"invite", "request"} /\ k[1] # "account"
  /\ \A k \in Key : k[1] = "member" => \E u \in User : k = MemberKey(u)
BY MembershipAssumption DEF AccountKey, MemberKey, InviteKey, RequestKey, Decidable, Key

LEMMA NoRowShape ==
  /\ DOMAIN NoRow = Columns /\ NoRow.status = "none" /\ NoRow.role # "owner"
  /\ Open(NoRow) /\ ~Done(NoRow)
BY MembershipAssumption DEF NoRow, Columns, Open, Done, Role, Rank

LEMMA IdleOK == ASSUME NEW d PROVE CallOK(d, Idle) /\ DOMAIN Idle.writes = {}
<1>1. /\ DOMAIN Idle = CallFields /\ DOMAIN Idle.grant = {"user", "role"} /\ Idle.pc = "idle"
      /\ DOMAIN Idle.writes = {} /\ Idle.grant.role = None
  BY DEF Idle, CallFields
<1>2. None # "owner"
  BY MembershipAssumption DEF Role, Rank
<1> QED BY <1>1, <1>2 DEF CallOK, KindOK, WritesOK, GrantOK, JoinOK, ClaimOK, RoleChangeOK, Granting
\* Rows never go away, nor change hands; accounts stay.
Grows(d, e) ==
  /\ \A k \in Key : d[k] # NoRow => e[k] # NoRow /\ e[k].user = d[k].user
  /\ \A u \in User : d[AccountKey(u)].status = "active" => e[AccountKey(u)].status = "active"

LEMMA SourceKept ==
  ASSUME NEW d, NEW e, NEW c, Grows(d, e), \A k \in DOMAIN c.writes : e[k] = d[k],
         NEW u \in User, NEW role, Source(d, c, u, role)
  PROVE  Source(e, c, u, role)
BY DEF Source, Grows

\* What a request knows is not made wrong by the commits of others.
LEMMA CallKept ==
  ASSUME NEW d, NEW e, NEW c, CallOK(d, c), Grows(d, e),
         \A k \in DOMAIN c.writes : e[k] = d[k]
  PROVE  CallOK(e, c)
<1>1. WritesOK(e, c)
  BY SourceKept DEF CallOK, WritesOK
<1>2. GrantOK(e, c)
  <2>1. c.pc \in {"findMember", "activate", "insert", "reactivate"} /\ c.op.kind = "add" =>
          e[AccountKey(c.op.user)].status = "active"
    <3> SUFFICES ASSUME c.pc \in {"findMember", "activate", "insert", "reactivate"},
                        c.op.kind = "add"
                 PROVE  e[AccountKey(c.op.user)].status = "active"
      OBVIOUS
    <3>1. c.op.user \in User
      BY MembershipAssumption DEF CallOK, KindOK
    <3> QED BY <3>1 DEF CallOK, GrantOK, Grows
  <2>2. c.pc = "decide" =>
          e[RequestKey(c.op.id)] # NoRow /\ c.grant.user = e[RequestKey(c.op.id)].user
    <3> SUFFICES ASSUME c.pc = "decide"
                 PROVE  e[RequestKey(c.op.id)] # NoRow /\ c.grant.user = e[RequestKey(c.op.id)].user
      OBVIOUS
    <3>1. c.op.id \in JoinRequest
      BY MembershipAssumption DEF CallOK, KindOK
    <3> QED BY <3>1, Keys DEF CallOK, GrantOK, Grows
  <2>3. c.pc \in Granting => Source(e, c, c.grant.user, c.grant.role)
    BY SourceKept DEF CallOK, GrantOK
  <2>4. c.pc = "reactivate" =>
          MemberKey(c.grant.user) \in DOMAIN c.writes \/ e[MemberKey(c.grant.user)] # NoRow
    BY Keys DEF CallOK, GrantOK, Grows, Granting
  <2>5. c.pc = "remove" => e[MemberKey(c.op.user)] # NoRow
    <3> SUFFICES ASSUME c.pc = "remove" PROVE e[MemberKey(c.op.user)] # NoRow
      OBVIOUS
    <3>1. c.op.user \in User
      BY MembershipAssumption DEF CallOK, KindOK
    <3> QED BY <3>1, Keys DEF CallOK, GrantOK, Grows
  <2> QED BY <2>1, <2>2, <2>3, <2>4, <2>5 DEF CallOK, GrantOK
<1>3. JoinOK(e, c)
  <2> SUFFICES ASSUME NEW k \in DOMAIN c.writes, Done(c.writes[k]), c.pc \notin Granting
               PROVE  \/ MemberKey(c.writes[k].user) \in DOMAIN c.writes
                      \/ e[MemberKey(c.writes[k].user)] # NoRow
    BY DEF CallOK, JoinOK
  <2>1. c.writes[k].user \in User
    BY DEF CallOK, WritesOK, Writable
  <2> QED BY <2>1, Keys DEF CallOK, JoinOK, Grows
<1>4. ClaimOK(e, c)
  <2>1. \A i \in Invite : d[InviteKey(i)] # NoRow =>
          e[InviteKey(i)] # NoRow /\ e[InviteKey(i)].user = d[InviteKey(i)].user
    BY Keys DEF Grows
  <2> QED BY <2>1 DEF CallOK, ClaimOK
<1>5. RoleChangeOK(e, c)
  BY DEF CallOK, RoleChangeOK
<1> QED BY <1>1, <1>2, <1>3, <1>4, <1>5 DEF CallOK

-----------------------------------------------------------------------------
(* A step of a request, and a commit *)

LEMMA OwnStep ==
  ASSUME MemberInv, NEW s \in Slot, NEW c, db' = db, txn' = [txn EXCEPT ![s] = c],
         CallOK(db, c),
         \A t \in Slot \ {s} : DOMAIN c.writes \cap DOMAIN txn[t].writes = {}
  PROVE  MemberInv'
<1>1. DOMAIN txn' = Slot /\ txn'[s] = c /\ \A t \in Slot \ {s} : txn'[t] = txn[t]
  BY DEF MemberInv
<1>2. HeldByOne(txn')
  BY <1>1 DEF HeldByOne, MemberInv
<1>3. \A t \in Slot : CallOK(db', txn'[t])
  BY <1>1 DEF MemberInv
<1> QED BY <1>1, <1>2, <1>3 DEF MemberInv

LEMMA EndStep ==
  ASSUME MemberInv, NEW s \in Slot, Rejected(s)
  PROVE  MemberInv'
BY OwnStep, IdleOK DEF Rejected

LEMMA CommitRows ==
  ASSUME MemberInv, NEW s \in Slot, Commit(s)
  PROVE  /\ DOMAIN db' = Key
         /\ \A k \in Key :
              db'[k] = IF k \in DOMAIN txn[s].writes THEN txn[s].writes[k] ELSE db[k]
<1>1. DOMAIN db = Key /\ DOMAIN txn[s].writes \subseteq Key
  BY DEF MemberInv, RowsOK, CallOK, WritesOK
<1> QED BY <1>1 DEF Commit, Over

LEMMA CommitGrows ==
  ASSUME MemberInv, NEW s \in Slot, Commit(s)
  PROVE  Grows(db, db')
<1> DEFINE w == txn[s].writes
<1>1. /\ \A k \in DOMAIN w : Writable(k, db[k], w[k])
      /\ \A k \in Key : db'[k] = IF k \in DOMAIN w THEN w[k] ELSE db[k]
  BY CommitRows DEF MemberInv, CallOK, WritesOK
<1> HIDE DEF w
<1>2. \A k \in Key : db[k] # NoRow => db'[k] # NoRow /\ db'[k].user = db[k].user
  BY <1>1, NoRowShape DEF Writable
<1>3. \A u \in User : db[AccountKey(u)].status = "active" => db'[AccountKey(u)].status = "active"
  BY <1>1, Keys DEF Writable
<1> QED BY <1>2, <1>3 DEF Grows

LEMMA CommitStep ==
  ASSUME MemberInv, NEW s \in Slot, Commit(s)
  PROVE  MemberInv'
<1> DEFINE w == txn[s].writes
<1>1. /\ txn' = [txn EXCEPT ![s] = Idle]
      /\ DOMAIN txn' = Slot /\ txn'[s] = Idle /\ \A t \in Slot \ {s} : txn'[t] = txn[t]
  BY DEF Commit, MemberInv
<1>2. CallOK(db, txn[s]) /\ txn[s].pc = "commit"
  BY DEF MemberInv, Commit
<1>3. /\ DOMAIN db' = Key
      /\ \A k \in Key : db'[k] = IF k \in DOMAIN w THEN w[k] ELSE db[k]
  BY CommitRows
<1>4. DOMAIN w \subseteq Key /\ \A k \in DOMAIN w : Writable(k, db[k], w[k])
  BY <1>2 DEF CallOK, WritesOK
<1>5. Grows(db, db')
  BY CommitGrows
<1>6. ASSUME NEW k \in DOMAIN w, Done(w[k])
      PROVE  MemberKey(w[k].user) \in DOMAIN w \/ db[MemberKey(w[k].user)] # NoRow
  BY <1>2, <1>6 DEF CallOK, JoinOK, Granting
<1>7. ASSUME NEW t \in Slot \ {s} PROVE CallOK(db', txn'[t])
  <2>1. CallOK(db, txn[t]) /\ txn'[t] = txn[t]
    BY <1>1 DEF MemberInv
  <2>2. \A k \in DOMAIN txn[t].writes : db'[k] = db[k]
    BY <1>3, <2>1 DEF MemberInv, HeldByOne, CallOK, WritesOK
  <2> QED BY <1>5, <2>1, <2>2, CallKept
<1>8. \A t \in Slot : CallOK(db', txn'[t])
  BY <1>1, <1>7, IdleOK
<1>9. HeldByOne(txn')
  BY <1>1, IdleOK DEF MemberInv, HeldByOne
<1> HIDE DEF w
<1>10. \A k \in Key :
         /\ DOMAIN db'[k] = Columns
         /\ db'[k] # NoRow => db'[k].status # "none" /\ db'[k].user \in User
         /\ k # MemberKey(Owner) => db'[k].role # "owner"
         /\ k[1] = "account" /\ db'[k] # NoRow => db'[k].status = "active"
  BY <1>3, <1>4 DEF MemberInv, RowsOK, Writable
<1>11. ASSUME NEW k \in Key, Done(db'[k]) PROVE db'[MemberKey(db'[k].user)] # NoRow
  <2> DEFINE m == MemberKey(db'[k].user)
  <2>1. m \in Key
    BY <1>10, <1>11, NoRowShape, Keys
  <2>2. m \in DOMAIN w => db'[m] # NoRow
    BY <1>3, <1>4, <2>1, NoRowShape DEF Writable
  <2>3. m \in DOMAIN w \/ db[m] # NoRow
    BY <1>3, <1>6, <1>11 DEF MemberInv, RowsOK
  <2> QED BY <1>5, <2>1, <2>2, <2>3 DEF Grows
<1>12. db'[MemberKey(Owner)] = db[MemberKey(Owner)]
  BY <1>3, <1>4, Keys, MembershipAssumption DEF Writable
<1>13. RowsOK(db')
  BY <1>3, <1>10, <1>11, <1>12 DEF MemberInv, RowsOK
<1> QED BY <1>1, <1>8, <1>9, <1>13 DEF MemberInv
-----------------------------------------------------------------------------
(* The pieces the actions are made of *)

LEMMA CallFacts ==
  ASSUME MemberInv, NEW s \in Slot
  PROVE  /\ CallOK(db, txn[s]) /\ DOMAIN txn[s] = CallFields
         /\ KindOK(txn[s].pc, txn[s].op) /\ WritesOK(db, txn[s])
         /\ GrantOK(db, txn[s]) /\ JoinOK(db, txn[s]) /\ ClaimOK(db, txn[s])
         /\ txn[s].pc \in Reading => DOMAIN txn[s].writes = {}
BY DEF MemberInv, CallOK

LEMMA GrantCarries ==
  ASSUME NEW d, NEW c, NEW e, NEW u, NEW role, Source(d, c, u, role), e.op = c.op,
         \A k \in DOMAIN c.writes : k \in Decidable =>
           k \in DOMAIN e.writes /\ e.writes[k].status = c.writes[k].status
  PROVE  Source(d, e, u, role)
BY Keys DEF Source

Moved(s, to) == [txn[s] EXCEPT !.pc = to]

LEMMA MovedIs ==
  ASSUME MemberInv, NEW s \in Slot, NEW to
  PROVE  LET c == Moved(s, to) IN
         /\ DOMAIN c = CallFields /\ c.pc = to /\ c.op = txn[s].op /\ c.grant = txn[s].grant
         /\ c.todo = txn[s].todo /\ c.writes = txn[s].writes
BY CallFacts DEF Moved, CallFields

LEMMA GoStep ==
  ASSUME MemberInv, NEW s \in Slot, NEW to, Go(s, to),
         KindOK(to, txn[s].op), to \in Reading => DOMAIN txn[s].writes = {},
         GrantOK(db, Moved(s, to)), JoinOK(db, Moved(s, to)),
         ClaimOK(db, Moved(s, to)), RoleChangeOK(db, Moved(s, to))
  PROVE  MemberInv'
<1> DEFINE c == Moved(s, to)
<1>1. /\ DOMAIN c = CallFields /\ c.pc = to /\ c.op = txn[s].op /\ c.grant = txn[s].grant
      /\ c.todo = txn[s].todo /\ c.writes = txn[s].writes
  BY MovedIs
<1>2. db' = db /\ txn' = [txn EXCEPT ![s] = c]
  BY DEF Go, Moved
<1>3. \A t \in Slot \ {s} : DOMAIN c.writes \cap DOMAIN txn[t].writes = {}
  BY <1>1 DEF MemberInv, HeldByOne
<1>4. GrantOK(db, c) /\ JoinOK(db, c) /\ ClaimOK(db, c) /\ RoleChangeOK(db, c)
  OBVIOUS
<1> HIDE DEF c
<1>5. WritesOK(db, c)
  <2>1. WritesOK(db, txn[s])
    BY CallFacts
  <2> QED BY <1>1, <2>1 DEF WritesOK, Source
<1>6. DOMAIN c.grant = {"user", "role"}
  BY <1>1 DEF MemberInv, CallOK
<1>7. CallOK(db, c)
  BY <1>1, <1>4, <1>5, <1>6 DEF CallOK
<1> QED BY <1>2, <1>3, <1>7, OwnStep

\* A request that has written nothing goes on reading.
LEMMA ReadStep ==
  ASSUME MemberInv, NEW s \in Slot, NEW to, Go(s, to), txn[s].pc \in Reading, to # "commit",
         KindOK(to, txn[s].op), GrantOK(db, Moved(s, to)), txn[s].op.kind \notin Claiming
  PROVE  MemberInv'
<1>1. DOMAIN txn[s].writes = {}
  BY CallFacts
<1>2. Moved(s, to).writes = txn[s].writes /\ Moved(s, to).op = txn[s].op /\ Moved(s, to).pc = to
  BY MovedIs
<1>3. JoinOK(db, Moved(s, to)) /\ ClaimOK(db, Moved(s, to)) /\ RoleChangeOK(db, Moved(s, to))
  BY <1>1, <1>2 DEF JoinOK, ClaimOK, RoleChangeOK
<1> QED BY <1>1, <1>3, GoStep

Wrote(s, k, r, to) == [txn[s] EXCEPT !.writes = Over(Row(k, r), @), !.pc = to]

LEMMA WroteIs ==
  ASSUME MemberInv, NEW s \in Slot, NEW k, NEW r, NEW to
  PROVE  LET c == Wrote(s, k, r, to) IN
         /\ DOMAIN c = CallFields /\ c.pc = to /\ c.op = txn[s].op /\ c.grant = txn[s].grant
         /\ c.todo = txn[s].todo
         /\ DOMAIN c.writes = {k} \cup DOMAIN txn[s].writes
         /\ c.writes[k] = r
         /\ \A j \in DOMAIN txn[s].writes : j # k => c.writes[j] = txn[s].writes[j]
<1> DEFINE c == Wrote(s, k, r, to)
<1>1. /\ DOMAIN c = CallFields /\ c.pc = to /\ c.op = txn[s].op /\ c.grant = txn[s].grant
      /\ c.todo = txn[s].todo /\ c.writes = Over(Row(k, r), txn[s].writes)
  BY CallFacts DEF Wrote, CallFields
<1>2. DOMAIN Row(k, r) = {k} /\ Row(k, r)[k] = r
  BY DEF Row
<1> HIDE DEF c
<1>3. /\ DOMAIN c.writes = {k} \cup DOMAIN txn[s].writes
      /\ c.writes[k] = r
      /\ \A j \in DOMAIN txn[s].writes : j # k => c.writes[j] = txn[s].writes[j]
  BY <1>1, <1>2 DEF Over
<1> QED BY <1>1, <1>3 DEF c

\* What a row that is written has to be.
Allowed(s, k, r) ==
  /\ k \in Key /\ Writable(k, db[k], r)
  /\ k \in Decidable /\ k \in DOMAIN txn[s].writes => r.status = txn[s].writes[k].status
  /\ \A u \in User : k = MemberKey(u) /\ Joins(db[k], r) => Source(db, txn[s], u, r.role)

LEMMA WritesCarry ==
  ASSUME MemberInv, NEW s \in Slot, NEW k, NEW r, Allowed(s, k, r), NEW c,
         c.op = txn[s].op, DOMAIN c.writes = {k} \cup DOMAIN txn[s].writes, c.writes[k] = r,
         \A j \in DOMAIN txn[s].writes : j # k => c.writes[j] = txn[s].writes[j]
  PROVE  /\ WritesOK(db, c)
         /\ \A u \in User : \A role :
              Source(db, txn[s], u, role) => Source(db, c, u, role)
<1>1. WritesOK(db, txn[s])
  BY CallFacts
<1>2. ASSUME NEW u \in User, NEW role, Source(db, txn[s], u, role) PROVE Source(db, c, u, role)
  <2>1. \A j \in DOMAIN txn[s].writes : j \in Decidable =>
          j \in DOMAIN c.writes /\ c.writes[j].status = txn[s].writes[j].status
    BY DEF Allowed
  <2> QED BY <1>2, <2>1, GrantCarries
<1>3. DOMAIN c.writes \subseteq Key /\ \A j \in DOMAIN c.writes : Writable(j, db[j], c.writes[j])
  BY <1>1 DEF WritesOK, Allowed
<1>4. ASSUME NEW u \in User, MemberKey(u) \in DOMAIN c.writes,
             Joins(db[MemberKey(u)], c.writes[MemberKey(u)])
      PROVE  Source(db, c, u, c.writes[MemberKey(u)].role)
  <2>1. CASE MemberKey(u) = k
    BY <1>2, <1>4, <2>1 DEF Allowed
  <2>2. CASE MemberKey(u) # k
    <3>1. MemberKey(u) \in DOMAIN txn[s].writes
          /\ c.writes[MemberKey(u)] = txn[s].writes[MemberKey(u)]
      BY <1>4, <2>2
    <3> QED BY <1>1, <1>2, <1>4, <3>1 DEF WritesOK
  <2> QED BY <2>1, <2>2
<1> QED BY <1>2, <1>3, <1>4 DEF WritesOK

LEMMA PutStep ==
  ASSUME MemberInv, NEW s \in Slot, NEW k, NEW r, NEW to, Put(s, k, r, to),
         Allowed(s, k, r), KindOK(to, txn[s].op), to \notin Reading,
         GrantOK(db, Wrote(s, k, r, to)), JoinOK(db, Wrote(s, k, r, to)),
         ClaimOK(db, Wrote(s, k, r, to)), RoleChangeOK(db, Wrote(s, k, r, to))
  PROVE  MemberInv'
<1> DEFINE c == Wrote(s, k, r, to)
<1>1. /\ DOMAIN c = CallFields /\ c.pc = to /\ c.op = txn[s].op /\ c.grant = txn[s].grant
      /\ DOMAIN c.writes = {k} \cup DOMAIN txn[s].writes
      /\ c.writes[k] = r
      /\ \A j \in DOMAIN txn[s].writes : j # k => c.writes[j] = txn[s].writes[j]
  BY WroteIs
<1>2. db' = db /\ txn' = [txn EXCEPT ![s] = c]
  BY DEF Put, Wrote
<1>3. GrantOK(db, c) /\ JoinOK(db, c) /\ ClaimOK(db, c) /\ RoleChangeOK(db, c)
  OBVIOUS
<1> HIDE DEF c
<1>4. WritesOK(db, c)
  BY <1>1, WritesCarry
<1>5. \A t \in Slot \ {s} : DOMAIN c.writes \cap DOMAIN txn[t].writes = {}
  BY <1>1 DEF MemberInv, HeldByOne, Put, Locked
<1>6. DOMAIN c.grant = {"user", "role"}
  BY <1>1 DEF MemberInv, CallOK
<1>7. CallOK(db, c)
  BY <1>1, <1>3, <1>4, <1>6 DEF CallOK
<1> QED BY <1>2, <1>5, <1>7, OwnStep
LEMMA ChangedIs ==
  ASSUME NEW r, DOMAIN r = Columns, NEW status, NEW role
  PROVE  /\ LET q == Changed(r, status) IN
              DOMAIN q = Columns /\ q.status = status /\ q.role = r.role /\ q.user = r.user
         /\ LET q == [Changed(r, status) EXCEPT !.role = role] IN
              DOMAIN q = Columns /\ q.status = status /\ q.role = role /\ q.user = r.user
BY DEF Changed, Columns

LEMMA NewIs ==
  ASSUME NEW status, NEW role, NEW user
  PROVE  LET q == New(status, role, user) IN
         DOMAIN q = Columns /\ q.status = status /\ q.role = role /\ q.user = user
BY DEF New, Columns

-----------------------------------------------------------------------------
(* activateMembership *)

\* The membership is there, or was there before: the request goes on.
LEMMA AfterGrantOK ==
  ASSUME MemberInv, NEW s \in Slot, txn[s].pc \in Granting, NEW c,
         c.pc = AfterGrant(s), c.op = txn[s].op, c.grant = txn[s].grant, c.todo = txn[s].todo,
         DOMAIN txn[s].writes \subseteq DOMAIN c.writes,
         \A j \in DOMAIN c.writes : j # MemberKey(txn[s].grant.user) =>
           j \in DOMAIN txn[s].writes /\ c.writes[j] = txn[s].writes[j],
         LET m == MemberKey(txn[s].grant.user) IN
           \/ m \in DOMAIN c.writes /\ (Done(c.writes[m]) => m \in DOMAIN txn[s].writes
                                                           /\ c.writes[m] = txn[s].writes[m])
           \/ m \notin DOMAIN c.writes /\ db[m] # NoRow
  PROVE  /\ KindOK(c.pc, c.op) /\ c.pc \notin Reading /\ c.pc \in {"claim", "commit"}
         /\ GrantOK(db, c) /\ JoinOK(db, c) /\ ClaimOK(db, c) /\ RoleChangeOK(db, c)
<1>1. /\ KindOK(txn[s].pc, txn[s].op) /\ GrantOK(db, txn[s])
      /\ JoinOK(db, txn[s]) /\ ClaimOK(db, txn[s])
  BY CallFacts
<1>2. c.pc \in {"claim", "commit"} /\ (c.pc = "claim" => c.op.kind \in Claiming)
  BY DEF AfterGrant, Claiming, Op
<1>3. txn[s].grant.user \in User /\ txn[s].pc # "idle"
  BY <1>1 DEF GrantOK, Granting
<1>4. /\ c.op \in Command /\ c.op.kind \in {"add", "approve"} \cup Claiming
      /\ c.op.kind # "changeRole"
  BY <1>1, <1>3 DEF KindOK, Claiming
<1>5. KindOK(c.pc, c.op) /\ c.pc \notin Reading
  BY <1>2, <1>4 DEF KindOK, Granting, Reading
<1>6. GrantOK(db, c)
  BY <1>1, <1>2, <1>3 DEF GrantOK, Granting
<1>7. JoinOK(db, c)
  <2> SUFFICES ASSUME NEW k \in DOMAIN c.writes, Done(c.writes[k])
               PROVE  \/ MemberKey(c.writes[k].user) \in DOMAIN c.writes
                      \/ db[MemberKey(c.writes[k].user)] # NoRow
    BY <1>2 DEF JoinOK, Granting
  <2>1. k \in DOMAIN txn[s].writes /\ c.writes[k] = txn[s].writes[k]
    OBVIOUS
  <2>2. c.writes[k].user = txn[s].grant.user
    BY <1>1, <2>1 DEF JoinOK
  <2> QED BY <2>2
<1>8. ClaimOK(db, c)
  <2> SUFFICES ASSUME c.op.kind \in Claiming
               PROVE  /\ \A i \in c.todo :
                           /\ i \in Invite /\ db[InviteKey(i)] # NoRow
                           /\ db[InviteKey(i)].user = c.op.user
                      /\ \A k \in DOMAIN c.writes : k \in Decidable =>
                           c.writes[k].status = "accepted" /\ c.writes[k].user = c.op.user
    BY <1>2 DEF ClaimOK, Granting
  <2> QED BY <1>1, <1>3, Keys DEF ClaimOK
<1>9. RoleChangeOK(db, c)
  BY <1>4 DEF RoleChangeOK
<1> QED BY <1>2, <1>5, <1>6, <1>7, <1>8, <1>9

LEMMA FindExistingStep == ASSUME MemberInv, NEW s \in Slot, FindExisting(s) PROVE MemberInv'
<1> DEFINE u == txn[s].grant.user
           m == Read(s, MemberKey(u))
<1>1. /\ KindOK(txn[s].pc, txn[s].op) /\ GrantOK(db, txn[s]) /\ WritesOK(db, txn[s])
      /\ JoinOK(db, txn[s]) /\ ClaimOK(db, txn[s]) /\ txn[s].pc = "activate"
  BY CallFacts DEF FindExisting
<1>2. u \in User
  BY <1>1 DEF GrantOK, Granting
<1>3. Go(s, CASE m = NoRow -> "insert" [] m.status = "active" -> AfterGrant(s)
              [] OTHER -> "reactivate")
  BY DEF FindExisting, GrantKey, MemberKey
<1>4. \A to : /\ Moved(s, to).pc = to /\ Moved(s, to).op = txn[s].op
              /\ Moved(s, to).grant = txn[s].grant /\ Moved(s, to).todo = txn[s].todo
              /\ Moved(s, to).writes = txn[s].writes
  BY MovedIs
<1>5. CASE m.status = "active"
  <2> DEFINE to == AfterGrant(s)
             c == Moved(s, to)
  <2>1. m # NoRow
    BY <1>5, NoRowShape
  <2>2. Go(s, to)
    BY <1>3, <1>5, <2>1
  <2>3. \/ MemberKey(u) \in DOMAIN txn[s].writes
        \/ MemberKey(u) \notin DOMAIN txn[s].writes /\ db[MemberKey(u)] # NoRow
    BY <2>1 DEF Read
  <2>4. /\ c.pc = to /\ c.op = txn[s].op /\ c.grant = txn[s].grant /\ c.todo = txn[s].todo
        /\ c.writes = txn[s].writes
    BY <1>4
  <2>5. txn[s].pc \in Granting
    BY <1>1 DEF Granting
  <2> HIDE DEF c, u, m
  <2>6. /\ KindOK(c.pc, c.op) /\ c.pc \notin Reading
        /\ GrantOK(db, c) /\ JoinOK(db, c) /\ ClaimOK(db, c) /\ RoleChangeOK(db, c)
    BY <2>3, <2>4, <2>5, AfterGrantOK DEF u
  <2> QED BY <2>2, <2>4, <2>6, GoStep DEF c
<1>6. CASE m.status # "active"
  <2>1. PICK to \in {"insert", "reactivate"} : Go(s, to) /\ (to = "reactivate" => m # NoRow)
    BY <1>3, <1>6
  <2> DEFINE c == Moved(s, to)
  <2>2. u # Owner
    BY <1>1, <1>6 DEF MemberInv, RowsOK, WritesOK, Writable, Read
  <2>3. /\ c.pc = to /\ c.op = txn[s].op /\ c.grant = txn[s].grant /\ c.todo = txn[s].todo
        /\ c.writes = txn[s].writes
    BY <1>4
  <2> HIDE DEF c
  <2>4. to = "reactivate" =>
          MemberKey(u) \in DOMAIN txn[s].writes \/ db[MemberKey(u)] # NoRow
    BY <2>1 DEF Read
  <2>5. KindOK(to, txn[s].op) /\ to \notin Reading
    BY <1>1 DEF KindOK, Granting, Reading
  <2>6. GrantOK(db, c)
    BY <1>1, <2>2, <2>3, <2>4 DEF GrantOK, Granting, Source
  <2>7. JoinOK(db, c)
    BY <1>1, <2>3 DEF JoinOK, Granting
  <2>8. ClaimOK(db, c)
    BY <1>1, <2>3 DEF ClaimOK, Granting
  <2>9. RoleChangeOK(db, c)
    BY <2>3 DEF RoleChangeOK
  <2> QED BY <2>1, <2>5, <2>6, <2>7, <2>8, <2>9, GoStep DEF c
<1> QED BY <1>5, <1>6

\* A membership is written for the grant.
LEMMA GrantWritten ==
  ASSUME MemberInv, NEW s \in Slot, txn[s].pc \in {"insert", "reactivate"}, NEW r,
         DOMAIN r = Columns, r.status = "active", r.role = txn[s].grant.role, r.user \in User,
         db[MemberKey(txn[s].grant.user)] # NoRow => r.user = db[MemberKey(txn[s].grant.user)].user,
         Put(s, MemberKey(txn[s].grant.user), r, AfterGrant(s))
  PROVE  MemberInv'
<1> DEFINE u == txn[s].grant.user
           k == MemberKey(u)
           to == AfterGrant(s)
           c == Wrote(s, k, r, to)
<1>1. GrantOK(db, txn[s]) /\ txn[s].pc \in Granting
  BY CallFacts DEF Granting
<1>2. /\ u \in User /\ u # Owner /\ r.role # "owner"
      /\ Source(db, txn[s], u, r.role)
  BY <1>1 DEF GrantOK
<1>3. k \in Key /\ k # MemberKey(Owner) /\ k \notin Decidable /\ k[1] # "account"
  BY <1>2, Keys, MembershipAssumption
<1>4. Writable(k, db[k], r)
  BY <1>2, <1>3 DEF Writable, Done
<1>5. \A v \in User : k = MemberKey(v) => v = u
  BY <1>2, Keys
<1>6. Allowed(s, k, r)
  BY <1>2, <1>3, <1>4, <1>5 DEF Allowed
<1>7. /\ c.pc = to /\ c.op = txn[s].op /\ c.grant = txn[s].grant /\ c.todo = txn[s].todo
      /\ DOMAIN c.writes = {k} \cup DOMAIN txn[s].writes
      /\ c.writes[k] = r
      /\ \A j \in DOMAIN txn[s].writes : j # k => c.writes[j] = txn[s].writes[j]
  BY WroteIs
<1>8. ~Done(c.writes[k])
  BY <1>7 DEF Done
<1> HIDE DEF c
<1>9. /\ KindOK(c.pc, c.op) /\ c.pc \notin Reading
      /\ GrantOK(db, c) /\ JoinOK(db, c) /\ ClaimOK(db, c) /\ RoleChangeOK(db, c)
  BY <1>1, <1>7, <1>8, AfterGrantOK
<1> QED BY <1>6, <1>7, <1>9, PutStep DEF c

LEMMA InsertMemberStep == ASSUME MemberInv, NEW s \in Slot, InsertMember(s) PROVE MemberInv'
<1> DEFINE u == txn[s].grant.user
           r == New("active", txn[s].grant.role, u)
<1>1. CASE db[MemberKey(u)] # NoRow
  BY <1>1, EndStep DEF InsertMember, GrantKey, MemberKey
<1>2. CASE db[MemberKey(u)] = NoRow
  <2>1. Put(s, MemberKey(u), r, AfterGrant(s)) /\ txn[s].pc = "insert"
    BY <1>2 DEF InsertMember, GrantKey, MemberKey
  <2>2. u \in User
    BY <2>1, CallFacts DEF GrantOK, Granting
  <2>3. DOMAIN r = Columns /\ r.status = "active" /\ r.role = txn[s].grant.role /\ r.user = u
    BY NewIs
  <2> HIDE DEF r
  <2> QED BY <1>2, <2>1, <2>2, <2>3, GrantWritten
<1> QED BY <1>1, <1>2

LEMMA ReactivateStep == ASSUME MemberInv, NEW s \in Slot, Reactivate(s) PROVE MemberInv'
<1> DEFINE u == txn[s].grant.user
           k == MemberKey(u)
           old == Read(s, k)
           r == [Changed(old, "active") EXCEPT !.role = txn[s].grant.role]
<1>1. Put(s, k, r, AfterGrant(s)) /\ txn[s].pc = "reactivate"
  BY DEF Reactivate, GrantKey, MemberKey
<1>2. GrantOK(db, txn[s]) /\ WritesOK(db, txn[s])
  BY CallFacts
<1>3. u \in User /\ (k \in DOMAIN txn[s].writes \/ db[k] # NoRow)
  BY <1>1, <1>2 DEF GrantOK, Granting
<1>4. k \in Key
  BY <1>3, Keys
<1>5. DOMAIN old = Columns /\ old.user \in User /\ (db[k] # NoRow => old.user = db[k].user)
  <2>1. CASE k \in DOMAIN txn[s].writes
    BY <1>2, <2>1 DEF Read, WritesOK, Writable
  <2>2. CASE k \notin DOMAIN txn[s].writes
    BY <1>3, <1>4, <2>2 DEF Read, MemberInv, RowsOK
  <2> QED BY <2>1, <2>2
<1> HIDE DEF old
<1>6. /\ DOMAIN r = Columns /\ r.status = "active" /\ r.role = txn[s].grant.role
      /\ r.user = old.user
  BY <1>5, ChangedIs
<1> HIDE DEF r
<1> QED BY <1>1, <1>5, <1>6, GrantWritten
-----------------------------------------------------------------------------
(* POST members *)

LEMMA CommandFacts ==
  ASSUME NEW d \in Command
  PROVE  /\ d.role # "owner"
         /\ d.kind \in {"add", "changeRole", "remove", "ask", "createAccount", "signIn"}
              => d.user \in User
         /\ d.kind = "revoke" => d.id \in Invite
         /\ d.kind \in {"approve", "reject"} => d.id \in JoinRequest
<1>1. None # "owner"
  BY MembershipAssumption DEF Role, Rank
<1>2. d.role \in (Role \ {"owner"}) \cup {None}
  BY MembershipAssumption
<1> QED BY <1>1, <1>2, MembershipAssumption

LEMMA FindUserStep == ASSUME MemberInv, NEW s \in Slot, FindUser(s) PROVE MemberInv'
<1>1. /\ txn[s].pc = "findUser" /\ KindOK(txn[s].pc, txn[s].op) /\ GrantOK(db, txn[s])
  BY CallFacts DEF FindUser
<1>2. txn[s].op.kind = "add" /\ txn[s].op \in Command /\ txn[s].op.user \in User
  BY <1>1, CommandFacts DEF KindOK
<1>3. PICK to \in {"findMember", "expire"} :
        /\ Go(s, to)
        /\ to = "findMember" => db[AccountKey(txn[s].op.user)] # NoRow
  BY DEF FindUser, Op, AccountKey
<1>4. to = "findMember" => db[AccountKey(txn[s].op.user)].status = "active"
  BY <1>2, <1>3, Keys DEF MemberInv, RowsOK
<1>5. /\ Moved(s, to).pc = to /\ Moved(s, to).op = txn[s].op /\ Moved(s, to).grant = txn[s].grant
  BY MovedIs
<1>6. GrantOK(db, Moved(s, to))
  BY <1>1, <1>3, <1>4, <1>5 DEF GrantOK, Granting
<1>7. KindOK(to, txn[s].op)
  BY <1>2, <1>3 DEF KindOK, Granting
<1> QED BY <1>1, <1>2, <1>3, <1>6, <1>7, ReadStep DEF Reading, Claiming

LEMMA FindMemberStep == ASSUME MemberInv, NEW s \in Slot, FindMember(s) PROVE MemberInv'
<1>1. /\ txn[s].pc = "findMember" /\ KindOK(txn[s].pc, txn[s].op) /\ GrantOK(db, txn[s])
  BY CallFacts DEF FindMember
<1>2. /\ txn[s].op.kind \in {"add", "ask"} /\ txn[s].op \in Command /\ txn[s].op.user \in User
  BY <1>1, CommandFacts DEF KindOK
<1>3. CASE Rejected(s)
  BY <1>3, EndStep
<1>4. CASE Go(s, IF txn[s].op.kind = "ask" THEN "findRequest" ELSE "activate")
  <2> DEFINE to == IF txn[s].op.kind = "ask" THEN "findRequest" ELSE "activate"
             c == Moved(s, to)
  <2>1. c.pc = to /\ c.op = txn[s].op /\ c.grant = txn[s].grant
    BY MovedIs
  <2>2. Go(s, to)
    BY <1>4
  <2>3. \/ to = "activate" /\ c.op.kind = "add"
        \/ to = "findRequest" /\ c.op.kind = "ask"
    BY <1>2, <2>1
  <2> HIDE DEF to, c
  <2>4. to = "activate" => Source(db, c, c.grant.user, c.grant.role) /\ c.grant.user \in User
    BY <1>1, <1>2, <2>1, <2>3 DEF GrantOK, Source
  <2>5. GrantOK(db, c)
    BY <1>1, <2>1, <2>3, <2>4 DEF GrantOK, Granting
  <2>6. KindOK(to, txn[s].op)
    BY <1>2, <2>1, <2>3 DEF KindOK, Granting
  <2> QED BY <1>1, <1>2, <2>2, <2>3, <2>5, <2>6, ReadStep DEF Reading, Claiming, c
<1> QED BY <1>3, <1>4 DEF FindMember, Op

LEMMA ExpireInvitesStep == ASSUME MemberInv, NEW s \in Slot, ExpireInvites(s) PROVE MemberInv'
<1> DEFINE stale == {<<"invite", i>> : i \in {j \in PendingInvites(s) : Overdue(j)}}
           w == [k \in stale |-> Changed(db[k], "expired")]
           c == [txn[s] EXCEPT !.pc = "findInvite", !.writes = w]
<1>1. /\ txn[s].pc = "expire" /\ KindOK(txn[s].pc, txn[s].op) /\ GrantOK(db, txn[s])
      /\ DOMAIN txn[s].writes = {}
  BY CallFacts DEF ExpireInvites, Reading
<1>2. txn[s].op.kind = "add" /\ txn[s].op \in Command
  BY <1>1 DEF KindOK
<1>3. \A k \in stale : k \in Decidable /\ db[k].status = "pending"
  BY <1>1, Keys DEF PendingInvites, Read, InviteKey
<1>4. db' = db /\ txn' = [txn EXCEPT ![s] = c] /\ \A k \in stale : ~Locked(s, k)
  BY DEF ExpireInvites
<1>5. /\ DOMAIN c = CallFields /\ c.pc = "findInvite" /\ c.op = txn[s].op
      /\ c.grant = txn[s].grant /\ c.writes = w
  BY CallFacts DEF CallFields
<1>6. DOMAIN w = stale /\ \A k \in stale : w[k] = Changed(db[k], "expired")
  OBVIOUS
<1> HIDE DEF stale, w, c
<1>7. ASSUME NEW k \in stale PROVE Writable(k, db[k], w[k]) /\ w[k].status = "expired" /\ k \in Key
  <2>1. k \in Key /\ k \in Decidable /\ db[k].status = "pending" /\ k # MemberKey(Owner)
        /\ k[1] # "account"
    BY <1>3, Keys
  <2>2. DOMAIN db[k] = Columns /\ db[k] # NoRow /\ db[k].user \in User /\ db[k].role # "owner"
    BY <2>1, NoRowShape DEF MemberInv, RowsOK
  <2>3. /\ DOMAIN w[k] = Columns /\ w[k].status = "expired" /\ w[k].role = db[k].role
        /\ w[k].user = db[k].user
    BY <1>6, <2>2, ChangedIs
  <2> QED BY <2>1, <2>2, <2>3 DEF Writable, Open
<1>8. WritesOK(db, c)
  <2>1. \A u \in User : MemberKey(u) \notin stale
    BY <1>3, Keys
  <2> QED BY <1>5, <1>6, <1>7, <2>1 DEF WritesOK
<1>9. KindOK(c.pc, c.op)
  BY <1>2, <1>5 DEF KindOK, Granting
<1>10. GrantOK(db, c)
  BY <1>1, <1>5 DEF GrantOK, Granting
<1>11. JoinOK(db, c)
  BY <1>5, <1>6, <1>7 DEF JoinOK, Done
<1>12. ClaimOK(db, c) /\ RoleChangeOK(db, c)
  BY <1>2, <1>5 DEF ClaimOK, RoleChangeOK, Claiming
<1>13. DOMAIN c.grant = {"user", "role"} /\ c.pc \notin Reading
  BY <1>5 DEF MemberInv, CallOK, Reading
<1>14. CallOK(db, c)
  BY <1>5, <1>8, <1>9, <1>10, <1>11, <1>12, <1>13 DEF CallOK
<1>15. \A t \in Slot \ {s} : DOMAIN c.writes \cap DOMAIN txn[t].writes = {}
  BY <1>4, <1>5, <1>6 DEF Locked
<1> QED BY <1>4, <1>14, <1>15, OwnStep

LEMMA FindInviteStep == ASSUME MemberInv, NEW s \in Slot, FindInvite(s) PROVE MemberInv'
<1>1. /\ txn[s].pc = "findInvite" /\ KindOK(txn[s].pc, txn[s].op) /\ GrantOK(db, txn[s])
      /\ JoinOK(db, txn[s])
  BY CallFacts DEF FindInvite
<1>2. txn[s].op.kind = "add" /\ txn[s].op \in Command
  BY <1>1 DEF KindOK
<1>3. CASE Rejected(s)
  BY <1>3, EndStep
<1>4. CASE Go(s, "createInvite")
  <2> DEFINE c == Moved(s, "createInvite")
  <2>1. /\ c.pc = "createInvite" /\ c.op = txn[s].op /\ c.grant = txn[s].grant
        /\ c.writes = txn[s].writes
    BY MovedIs
  <2> HIDE DEF c
  <2>2. GrantOK(db, c) /\ JoinOK(db, c) /\ ClaimOK(db, c) /\ RoleChangeOK(db, c)
    BY <1>1, <1>2, <2>1 DEF GrantOK, JoinOK, ClaimOK, RoleChangeOK, Granting, Claiming
  <2>3. KindOK("createInvite", txn[s].op)
    BY <1>2 DEF KindOK, Granting
  <2> QED BY <1>4, <2>2, <2>3, GoStep DEF c, Reading
<1> QED BY <1>3, <1>4 DEF FindInvite

LEMMA MinIn ==
  ASSUME NEW S, S \subseteq Nat, S # {}
  PROVE  Min(S) \in S
<1> DEFINE less == {ss \in Nat \X Nat : ss[1] < ss[2]}
<1>1. IsWellFoundedOn(less, Nat)
  BY NatLessThanWellFounded, Zenon DEF OpToRel
<1>2. \A m, n \in Nat : m < n => <<m, n>> \in less
  OBVIOUS
<1> HIDE DEF less
<1>3. PICK n \in S : \A m \in S : ~(<<m, n>> \in less)
  BY <1>1, WFMin
<1>4. \A m \in S : m \in Nat /\ n \in Nat /\ ~(m < n)
  BY <1>2, <1>3
<1>5. n \in S /\ \A m \in S : n <= m
  BY <1>4
<1> QED BY <1>5 DEF Min

\* A new invite or join request is written, and the transaction is ready to commit.
LEMMA CreateStep ==
  ASSUME MemberInv, NEW s \in Slot, NEW k \in Decidable, db[k] = NoRow,
         k \notin DOMAIN txn[s].writes, txn[s].pc \in {"createInvite", "createRequest"},
         NEW role, role # "owner", Put(s, k, New("pending", role, txn[s].op.user), "commit")
  PROVE  MemberInv'
<1> DEFINE r == New("pending", role, txn[s].op.user)
           c == Wrote(s, k, r, "commit")
<1>1. KindOK(txn[s].pc, txn[s].op) /\ GrantOK(db, txn[s]) /\ JoinOK(db, txn[s])
  BY CallFacts
<1>2. txn[s].op \in Command /\ txn[s].op.kind \in {"add", "ask"} /\ txn[s].op.user \in User
  BY <1>1, CommandFacts DEF KindOK
<1>3. DOMAIN r = Columns /\ r.status = "pending" /\ r.role = role /\ r.user = txn[s].op.user
  BY NewIs
<1>4. /\ c.pc = "commit" /\ c.op = txn[s].op /\ c.grant = txn[s].grant /\ c.todo = txn[s].todo
      /\ DOMAIN c.writes = {k} \cup DOMAIN txn[s].writes
      /\ c.writes[k] = r
      /\ \A j \in DOMAIN txn[s].writes : j # k => c.writes[j] = txn[s].writes[j]
  BY WroteIs
<1>5. Put(s, k, r, "commit")
  OBVIOUS
<1> HIDE DEF r, c
<1>6. Allowed(s, k, r)
  BY <1>2, <1>3, Keys, NoRowShape DEF Allowed, Writable, Joins
<1>7. KindOK("commit", txn[s].op) /\ "commit" \notin Reading
  BY <1>2 DEF KindOK, Granting, Reading
<1>8. GrantOK(db, c)
  BY <1>1, <1>4 DEF GrantOK, Granting
<1>9. JoinOK(db, c)
  BY <1>1, <1>3, <1>4 DEF JoinOK, Granting, Done
<1>10. ClaimOK(db, c) /\ RoleChangeOK(db, c)
  BY <1>2, <1>4 DEF ClaimOK, RoleChangeOK, Claiming
<1> QED BY <1>5, <1>6, <1>7, <1>8, <1>9, <1>10, PutStep DEF c

LEMMA CreateInviteStep == ASSUME MemberInv, NEW s \in Slot, CreateInvite(s) PROVE MemberInv'
<1> DEFINE i == Min(Fresh("invite", Invite))
<1>1. i \in Fresh("invite", Invite)
  <2>1. Fresh("invite", Invite) \subseteq Nat /\ Fresh("invite", Invite) # {}
    BY MembershipAssumption DEF CreateInvite, Fresh
  <2> QED BY <2>1, MinIn
<1>2. Put(s, InviteKey(i), New("pending", txn[s].op.role, txn[s].op.user), "commit")
      /\ txn[s].pc = "createInvite"
  BY DEF CreateInvite, InviteKey, Op
<1> HIDE DEF i
<1>3. InviteKey(i) \in Decidable /\ db[InviteKey(i)] = NoRow /\ InviteKey(i) \notin DOMAIN txn[s].writes
  BY <1>1, Keys DEF Fresh, InviteKey
<1>4. txn[s].op.role # "owner"
  BY <1>2, CallFacts, CommandFacts DEF KindOK
<1> QED BY <1>2, <1>3, <1>4, CreateStep

LEMMA CreateRequestStep == ASSUME MemberInv, NEW s \in Slot, CreateRequest(s) PROVE MemberInv'
<1> DEFINE j == Min(Fresh("request", JoinRequest))
<1>1. j \in Fresh("request", JoinRequest)
  <2>1. Fresh("request", JoinRequest) \subseteq Nat /\ Fresh("request", JoinRequest) # {}
    BY MembershipAssumption DEF CreateRequest, Fresh
  <2> QED BY <2>1, MinIn
<1>2. Put(s, RequestKey(j), New("pending", None, txn[s].op.user), "commit")
      /\ txn[s].pc = "createRequest"
  BY DEF CreateRequest, RequestKey, Op
<1> HIDE DEF j
<1>3. RequestKey(j) \in Decidable /\ db[RequestKey(j)] = NoRow /\ RequestKey(j) \notin DOMAIN txn[s].writes
  BY <1>1, Keys DEF Fresh, RequestKey
<1>4. None # "owner"
  BY MembershipAssumption DEF Role, Rank
<1> QED BY <1>2, <1>3, <1>4, CreateStep
-----------------------------------------------------------------------------
(* Changes and removals of members, revoked invites, join requests *)

\* One row is written, and the transaction is ready to commit.
LEMMA CommitPut ==
  ASSUME MemberInv, NEW s \in Slot, txn[s].pc \in Reading \ {"idle"}, txn[s].op.kind \notin Claiming,
         NEW k \in Key, NEW r, Put(s, k, r, "commit"), Writable(k, db[k], r), ~Done(r),
         ~Joins(db[k], r),
         RoleChangeOK(db, Wrote(s, k, r, "commit"))
  PROVE  MemberInv'
<1> DEFINE c == Wrote(s, k, r, "commit")
<1>1. /\ KindOK(txn[s].pc, txn[s].op) /\ GrantOK(db, txn[s]) /\ DOMAIN txn[s].writes = {}
  BY CallFacts
<1>2. /\ c.pc = "commit" /\ c.op = txn[s].op /\ c.grant = txn[s].grant
      /\ DOMAIN c.writes = {k} \cup DOMAIN txn[s].writes /\ c.writes[k] = r
  BY WroteIs
<1>3. txn[s].op \in Command /\ txn[s].pc # "idle"
  BY <1>1 DEF KindOK
<1> HIDE DEF c
<1>4. Allowed(s, k, r)
  BY <1>1, Keys DEF Allowed, Joins
<1>5. KindOK("commit", txn[s].op) /\ "commit" \notin Reading
  BY <1>3 DEF KindOK, Granting, Reading
<1>6. GrantOK(db, c)
  BY <1>1, <1>2, <1>3 DEF GrantOK, Granting
<1>7. JoinOK(db, c) /\ ClaimOK(db, c)
  BY <1>1, <1>2 DEF JoinOK, ClaimOK, Granting
<1> QED BY <1>4, <1>5, <1>6, <1>7, PutStep DEF c

LEMMA FindActiveStep == ASSUME MemberInv, NEW s \in Slot, FindActive(s) PROVE MemberInv'
<1>1. /\ txn[s].pc = "find" /\ KindOK(txn[s].pc, txn[s].op) /\ GrantOK(db, txn[s])
  BY CallFacts DEF FindActive
<1>2. txn[s].op.kind \in {"changeRole", "remove"} /\ txn[s].op \in Command
  BY <1>1 DEF KindOK
<1>3. CASE Rejected(s)
  BY <1>3, EndStep
<1>4. CASE ~Rejected(s)
  <2> DEFINE to == txn[s].op.kind
             c == Moved(s, to)
  <2>1. /\ Go(s, to) /\ txn[s].op.user # Owner
        /\ db[MemberKey(txn[s].op.user)].status = "active"
    BY <1>4 DEF FindActive, Op, Target, MemberKey
  <2>2. c.pc = to /\ c.op = txn[s].op /\ c.grant = txn[s].grant
    BY MovedIs
  <2> HIDE DEF c
  <2>3. GrantOK(db, c)
    BY <1>1, <1>2, <2>1, <2>2, NoRowShape DEF GrantOK, Granting
  <2>4. KindOK(to, txn[s].op)
    BY <1>2, <2>1 DEF KindOK, Granting
  <2> QED BY <1>1, <1>2, <2>1, <2>3, <2>4, ReadStep DEF c, Reading, Claiming
<1> QED BY <1>3, <1>4

\* A row of a person who is, or was, a member.
LEMMA TargetFacts ==
  ASSUME MemberInv, NEW s \in Slot, txn[s].pc \in {"changeRole", "remove"}
  PROVE  LET k == MemberKey(txn[s].op.user) IN
         /\ k \in Key /\ k \notin Decidable /\ k # MemberKey(Owner) /\ k[1] # "account"
         /\ txn[s].op \in Command /\ txn[s].op.kind = txn[s].pc
         /\ DOMAIN db[k] = Columns /\ db[k].role # "owner"
         /\ db[k] # NoRow => db[k].user \in User
<1>1. /\ txn[s].op \in Command /\ txn[s].op.kind = txn[s].pc /\ txn[s].op.user # Owner
  BY CallFacts DEF KindOK
<1>2. txn[s].op.user \in User
  BY <1>1, CommandFacts
<1> QED BY <1>1, <1>2, Keys, MembershipAssumption DEF MemberInv, RowsOK

LEMMA UpdateRoleStep == ASSUME MemberInv, NEW s \in Slot, UpdateRole(s) PROVE MemberInv'
<1> DEFINE k == MemberKey(txn[s].op.user)
           r == [Changed(db[k], "active") EXCEPT !.role = txn[s].op.role]
           c == Wrote(s, k, r, "commit")
<1>1. txn[s].pc = "changeRole"
  BY DEF UpdateRole
<1>2. CASE Rejected(s)
  BY <1>2, EndStep
<1>3. CASE ~Rejected(s)
  <2>1. /\ Put(s, k, r, "commit") /\ db[k].status = "active" /\ db[k].version = txn[s].op.version
    BY <1>3 DEF UpdateRole, Op, Target, MemberKey
  <2>2. /\ k \in Key /\ k \notin Decidable /\ k # MemberKey(Owner) /\ k[1] # "account"
        /\ txn[s].op \in Command /\ txn[s].op.kind = "changeRole"
        /\ DOMAIN db[k] = Columns /\ (db[k] # NoRow => db[k].user \in User)
    BY <1>1, TargetFacts
  <2>3. txn[s].op.role # "owner"
    BY <2>2, CommandFacts
  <2>4. /\ DOMAIN r = Columns /\ r.status = "active" /\ r.role = txn[s].op.role
        /\ r.user = db[k].user
    BY <2>2, ChangedIs
  <2>5. c.op = txn[s].op /\ DOMAIN c.writes = {k} \cup DOMAIN txn[s].writes /\ c.writes[k] = r
    BY WroteIs
  <2>6. DOMAIN txn[s].writes = {}
    BY <1>1, CallFacts DEF Reading
  <2> HIDE DEF r, c
  <2>7. Writable(k, db[k], r) /\ ~Done(r) /\ ~Joins(db[k], r)
    BY <2>1, <2>2, <2>3, <2>4, NoRowShape DEF Writable, Done, Joins
  <2>8. RoleChangeOK(db, c)
    BY <2>1, <2>2, <2>4, <2>5, <2>6 DEF RoleChangeOK
  <2> QED BY <1>1, <2>1, <2>2, <2>7, <2>8, CommitPut DEF c, Reading, Claiming
<1> QED BY <1>2, <1>3

LEMMA RemoveMemberStep == ASSUME MemberInv, NEW s \in Slot, RemoveMember(s) PROVE MemberInv'
<1> DEFINE k == MemberKey(txn[s].op.user)
           r == Changed(db[k], "removed")
           c == Wrote(s, k, r, "commit")
<1>1. txn[s].pc = "remove" /\ Put(s, k, r, "commit")
  BY DEF RemoveMember, Op, Target, MemberKey
<1>2. /\ k \in Key /\ k \notin Decidable /\ k # MemberKey(Owner) /\ k[1] # "account"
      /\ txn[s].op \in Command /\ txn[s].op.kind = "remove"
      /\ DOMAIN db[k] = Columns /\ (db[k] # NoRow => db[k].user \in User) /\ db[k].role # "owner"
  BY <1>1, TargetFacts
<1>3. db[k] # NoRow
  BY <1>1, CallFacts DEF GrantOK
<1>4. /\ DOMAIN r = Columns /\ r.status = "removed" /\ r.role = db[k].role /\ r.user = db[k].user
  BY <1>2, ChangedIs
<1>5. c.op = txn[s].op
  BY WroteIs
<1> HIDE DEF r, c
<1>6. Writable(k, db[k], r) /\ ~Done(r) /\ ~Joins(db[k], r)
  BY <1>2, <1>3, <1>4 DEF Writable, Done, Joins
<1>7. RoleChangeOK(db, c)
  BY <1>2, <1>5 DEF RoleChangeOK
<1> QED BY <1>1, <1>2, <1>6, <1>7, CommitPut DEF c, Reading, Claiming

\* A pending invite or request gets another status.
LEMMA DecidedRow ==
  ASSUME MemberInv, NEW k \in Decidable, db[k].status = "pending",
         NEW status \in {"accepted", "revoked", "approved", "rejected"}
  PROVE  LET r == Changed(db[k], status) IN
         /\ Writable(k, db[k], r) /\ r.status = status /\ r.user = db[k].user
         /\ db[k].user \in User /\ r.role = db[k].role
<1> DEFINE r == Changed(db[k], status)
<1>1. k \in Key /\ k # MemberKey(Owner) /\ k[1] # "account"
  BY Keys
<1>2. DOMAIN db[k] = Columns /\ db[k] # NoRow /\ db[k].user \in User /\ db[k].role # "owner"
  BY <1>1, NoRowShape DEF MemberInv, RowsOK
<1>3. DOMAIN r = Columns /\ r.status = status /\ r.role = db[k].role /\ r.user = db[k].user
  BY <1>2, ChangedIs
<1> HIDE DEF r
<1>4. Writable(k, db[k], r)
  BY <1>1, <1>2, <1>3 DEF Writable, Open
<1> QED BY <1>2, <1>3, <1>4 DEF r

LEMMA RevokeInviteStep == ASSUME MemberInv, NEW s \in Slot, RevokeInvite(s) PROVE MemberInv'
<1> DEFINE k == InviteKey(txn[s].op.id)
           r == Changed(db[k], "revoked")
           c == Wrote(s, k, r, "commit")
<1>1. txn[s].pc = "revoke" /\ KindOK(txn[s].pc, txn[s].op)
  BY CallFacts DEF RevokeInvite
<1>2. txn[s].op.kind = "revoke" /\ k \in Decidable /\ k \in Key
  BY <1>1, CommandFacts, Keys DEF KindOK
<1>3. CASE db[k].status # "pending"
  BY <1>3, EndStep DEF RevokeInvite, InviteKey, Op
<1>4. CASE db[k].status = "pending"
  <2>1. Put(s, k, r, "commit")
    BY <1>4 DEF RevokeInvite, InviteKey, Op
  <2>2. Writable(k, db[k], r) /\ r.status = "revoked"
    BY <1>2, <1>4, DecidedRow
  <2>3. c.op = txn[s].op
    BY WroteIs
  <2> HIDE DEF k, r, c
  <2>4. RoleChangeOK(db, c) /\ ~Joins(db[k], r) /\ ~Done(r)
    BY <1>2, <2>2, <2>3 DEF RoleChangeOK, Joins, Done
  <2> QED BY <1>1, <1>2, <2>1, <2>2, <2>4, CommitPut DEF c, Reading, Claiming
<1> QED BY <1>3, <1>4

LEMMA FindOwnRequestStep == ASSUME MemberInv, NEW s \in Slot, FindOwnRequest(s) PROVE MemberInv'
<1>1. /\ txn[s].pc = "findRequest" /\ KindOK(txn[s].pc, txn[s].op) /\ GrantOK(db, txn[s])
  BY CallFacts DEF FindOwnRequest
<1>2. txn[s].op.kind = "ask" /\ txn[s].op \in Command
  BY <1>1 DEF KindOK
<1>3. CASE Rejected(s)
  BY <1>3, EndStep
<1>4. CASE Go(s, "createRequest")
  <2> DEFINE c == Moved(s, "createRequest")
  <2>1. c.pc = "createRequest" /\ c.op = txn[s].op /\ c.grant = txn[s].grant
    BY MovedIs
  <2> HIDE DEF c
  <2>2. GrantOK(db, c)
    BY <1>1, <1>2, <2>1 DEF GrantOK, Granting
  <2>3. KindOK("createRequest", txn[s].op)
    BY <1>2 DEF KindOK, Granting
  <2> QED BY <1>1, <1>2, <1>4, <2>2, <2>3, ReadStep DEF c, Reading, Claiming
<1> QED BY <1>3, <1>4 DEF FindOwnRequest

LEMMA LoadRequestStep == ASSUME MemberInv, NEW s \in Slot, pendingJoinRequest(s) PROVE MemberInv'
<1> DEFINE k == RequestKey(txn[s].op.id)
           role == IF txn[s].op.role = None THEN DefaultRole ELSE txn[s].op.role
           c == [txn[s] EXCEPT !.pc = "decide", !.ver = db[k].version,
                               !.grant = [user |-> db[k].user, role |-> role]]
<1>1. /\ txn[s].pc = "loadRequest" /\ KindOK(txn[s].pc, txn[s].op) /\ WritesOK(db, txn[s])
      /\ DOMAIN txn[s].writes = {}
  BY CallFacts DEF pendingJoinRequest, Reading
<1>2. /\ txn[s].op.kind \in {"approve", "reject"} /\ txn[s].op \in Command
      /\ txn[s].op.role # "owner" /\ DefaultRole # "owner"
  BY <1>1, CommandFacts, MembershipAssumption DEF KindOK
<1>3. CASE Rejected(s)
  BY <1>3, EndStep
<1>4. CASE ~Rejected(s)
  <2>1. db' = db /\ txn' = [txn EXCEPT ![s] = c] /\ db[k].status = "pending"
    BY <1>4 DEF pendingJoinRequest, Op, RequestKey
  <2>2. /\ DOMAIN c = CallFields /\ c.pc = "decide" /\ c.op = txn[s].op
        /\ c.grant = [user |-> db[k].user, role |-> role] /\ c.writes = txn[s].writes
    BY CallFacts DEF CallFields
  <2>3. role # "owner"
    BY <1>2
  <2> HIDE DEF c, role
  <2>4. DOMAIN c.grant = {"user", "role"} /\ c.grant.user = db[k].user /\ c.grant.role # "owner"
    BY <2>2, <2>3
  <2>5. GrantOK(db, c)
    BY <1>2, <2>1, <2>2, <2>4, NoRowShape DEF GrantOK, Granting
  <2>6. KindOK(c.pc, c.op)
    BY <1>2, <2>2 DEF KindOK, Granting
  <2>7. WritesOK(db, c) /\ JoinOK(db, c) /\ ClaimOK(db, c) /\ RoleChangeOK(db, c)
    BY <1>1, <1>2, <2>2, Keys DEF WritesOK, JoinOK, ClaimOK, RoleChangeOK, Claiming
  <2>8. CallOK(db, c)
    BY <1>1, <2>2, <2>4, <2>5, <2>6, <2>7 DEF CallOK
  <2>9. \A t \in Slot \ {s} : DOMAIN c.writes \cap DOMAIN txn[t].writes = {}
    BY <1>1, <2>2
  <2> QED BY <2>1, <2>8, <2>9, OwnStep
<1> QED BY <1>3, <1>4

LEMMA DecideRequestStep == ASSUME MemberInv, NEW s \in Slot, DecideRequest(s) PROVE MemberInv'
<1> DEFINE k == RequestKey(txn[s].op.id)
<1>1. /\ txn[s].pc = "decide" /\ KindOK(txn[s].pc, txn[s].op) /\ GrantOK(db, txn[s])
      /\ DOMAIN txn[s].writes = {}
  BY CallFacts DEF DecideRequest, Reading
<1>2. /\ txn[s].op.kind \in {"approve", "reject"} /\ txn[s].op \in Command
      /\ txn[s].op.id \in JoinRequest /\ k \in Decidable /\ k \in Key
  BY <1>1, CommandFacts, Keys DEF KindOK
<1>3. CASE Rejected(s)
  BY <1>3, EndStep
<1>4. CASE /\ db[k].status = "pending" /\ txn[s].op.kind = "reject"
           /\ Put(s, k, Changed(db[k], "rejected"), "commit")
  <2> DEFINE r == Changed(db[k], "rejected")
             c == Wrote(s, k, r, "commit")
  <2>1. Writable(k, db[k], r) /\ r.status = "rejected"
    BY <1>2, <1>4, DecidedRow
  <2>2. c.op = txn[s].op
    BY WroteIs
  <2> HIDE DEF k, r, c
  <2>3. RoleChangeOK(db, c) /\ ~Joins(db[k], r) /\ ~Done(r)
    BY <1>4, <2>1, <2>2 DEF RoleChangeOK, Joins, Done
  <2> QED BY <1>1, <1>2, <1>4, <2>1, <2>3, CommitPut DEF c, r, Reading, Claiming
<1>5. CASE /\ db[k].status = "pending" /\ txn[s].op.kind = "approve"
           /\ Put(s, k, Changed(db[k], "approved"), "activate")
  <2> DEFINE r == Changed(db[k], "approved")
             c == Wrote(s, k, r, "activate")
  <2>1. /\ Writable(k, db[k], r) /\ r.status = "approved" /\ r.user = db[k].user
        /\ db[k].user \in User
    BY <1>2, <1>5, DecidedRow
  <2>2. /\ c.pc = "activate" /\ c.op = txn[s].op /\ c.grant = txn[s].grant
        /\ DOMAIN c.writes = {k} \cup DOMAIN txn[s].writes /\ c.writes[k] = r
    BY WroteIs
  <2>3. c.grant.user = db[k].user
    BY <1>1, <2>2 DEF GrantOK
  <2>4. Put(s, k, r, "activate")
    BY <1>5
  <2> HIDE DEF r, c
  <2>5. Allowed(s, k, r)
    BY <1>1, <1>2, <2>1, Keys DEF Allowed
  <2>6. KindOK("activate", txn[s].op) /\ "activate" \notin Reading
    BY <1>2, <1>5 DEF KindOK, Granting, Reading
  <2>7. Source(db, c, c.grant.user, c.grant.role)
    BY <1>2, <1>5, <2>1, <2>2, <2>3 DEF Source
  <2>8. GrantOK(db, c)
    BY <1>1, <1>5, <2>1, <2>2, <2>3, <2>7 DEF GrantOK, Granting
  <2>9. JoinOK(db, c)
    BY <1>1, <2>1, <2>2, <2>3 DEF JoinOK, Granting
  <2>10. ClaimOK(db, c) /\ RoleChangeOK(db, c)
    BY <1>5, <2>2 DEF ClaimOK, RoleChangeOK, Claiming
  <2> QED BY <2>4, <2>5, <2>6, <2>8, <2>9, <2>10, PutStep DEF c
<1> QED BY <1>2, <1>3, <1>4, <1>5 DEF DecideRequest, Op, RequestKey
-----------------------------------------------------------------------------
(* A new account, a sign-in: the invites of its email are claimed *)

LEMMA CreateUserStep == ASSUME MemberInv, NEW s \in Slot, CreateUser(s) PROVE MemberInv'
<1> DEFINE u == txn[s].op.user
           k == AccountKey(u)
           r == New("active", None, u)
           c == Wrote(s, k, r, "listInvites")
<1>1. /\ txn[s].pc = "createUser" /\ KindOK(txn[s].pc, txn[s].op) /\ GrantOK(db, txn[s])
      /\ ClaimOK(db, txn[s]) /\ DOMAIN txn[s].writes = {}
  BY CallFacts DEF CreateUser, Reading
<1>2. txn[s].op.kind = "createAccount" /\ txn[s].op \in Command /\ u \in User
  BY <1>1, CommandFacts DEF KindOK
<1>3. /\ k \in Key /\ k \notin Decidable /\ k[1] = "account"
      /\ \A v \in User : k # MemberKey(v)
  BY <1>2, Keys
<1>4. CASE db[k] # NoRow
  BY <1>4, EndStep DEF CreateUser, AccountKey, Op
<1>5. CASE db[k] = NoRow
  <2>1. Put(s, k, r, "listInvites")
    BY <1>5 DEF CreateUser, AccountKey, Op
  <2>2. DOMAIN r = Columns /\ r.status = "active" /\ r.role = None /\ r.user = u
    BY NewIs
  <2>3. /\ c.pc = "listInvites" /\ c.op = txn[s].op /\ c.grant = txn[s].grant
        /\ c.todo = txn[s].todo
        /\ DOMAIN c.writes = {k} \cup DOMAIN txn[s].writes /\ c.writes[k] = r
    BY WroteIs
  <2>4. None # "owner" /\ Owner \in User
    BY MembershipAssumption DEF Role, Rank
  <2> HIDE DEF k, r, c
  <2>5. Allowed(s, k, r) /\ ~Done(r)
    BY <1>1, <1>2, <1>3, <1>5, <2>2, <2>4 DEF Allowed, Writable, Done
  <2>6. KindOK("listInvites", txn[s].op) /\ "listInvites" \notin Reading
    BY <1>2 DEF KindOK, Granting, Reading, Claiming
  <2>7. GrantOK(db, c)
    BY <1>1, <1>2, <2>3 DEF GrantOK, Granting
  <2>8. JoinOK(db, c) /\ RoleChangeOK(db, c)
    BY <1>1, <2>3, <2>5 DEF JoinOK, RoleChangeOK
  <2>9. ClaimOK(db, c)
    BY <1>1, <1>2, <1>3, <2>3 DEF ClaimOK, Granting
  <2> QED BY <2>1, <2>5, <2>6, <2>7, <2>8, <2>9, PutStep DEF c
<1> QED BY <1>4, <1>5

\* The claim goes on with other invites to do, and nothing written.
LEMMA TodoStep ==
  ASSUME MemberInv, NEW s \in Slot, txn[s].pc \in {"listInvites", "claim"}, db' = db,
         NEW todo, txn' = [txn EXCEPT ![s] = [txn[s] EXCEPT !.pc = "claim", !.todo = todo]],
         \A i \in todo : /\ i \in Invite /\ db[InviteKey(i)] # NoRow
                         /\ db[InviteKey(i)].user = txn[s].op.user
  PROVE  MemberInv'
<1> DEFINE c == [txn[s] EXCEPT !.pc = "claim", !.todo = todo]
<1>1. /\ KindOK(txn[s].pc, txn[s].op) /\ GrantOK(db, txn[s]) /\ WritesOK(db, txn[s])
      /\ JoinOK(db, txn[s]) /\ ClaimOK(db, txn[s])
  BY CallFacts
<1>2. txn[s].op.kind \in Claiming /\ txn[s].op \in Command
  BY <1>1 DEF KindOK
<1>3. /\ DOMAIN c = CallFields /\ c.pc = "claim" /\ c.op = txn[s].op /\ c.grant = txn[s].grant
      /\ c.todo = todo /\ c.writes = txn[s].writes
  BY CallFacts DEF CallFields
<1> HIDE DEF c
<1>4. KindOK(c.pc, c.op) /\ c.pc \notin Reading
  BY <1>2, <1>3 DEF KindOK, Granting, Reading
<1>5. WritesOK(db, c)
  BY <1>1, <1>3 DEF WritesOK, Source
<1>6. GrantOK(db, c) /\ RoleChangeOK(db, c)
  BY <1>1, <1>2, <1>3 DEF GrantOK, RoleChangeOK, Granting, Claiming
<1>7. JoinOK(db, c)
  BY <1>1, <1>3 DEF JoinOK, Granting
<1>8. ClaimOK(db, c)
  BY <1>1, <1>2, <1>3 DEF ClaimOK, Granting
<1>9. DOMAIN c.grant = {"user", "role"}
  BY <1>3 DEF MemberInv, CallOK
<1>10. CallOK(db, c)
  BY <1>3, <1>4, <1>5, <1>6, <1>7, <1>8, <1>9 DEF CallOK
<1>11. \A t \in Slot \ {s} : DOMAIN c.writes \cap DOMAIN txn[t].writes = {}
  BY <1>3 DEF MemberInv, HeldByOne
<1> QED BY <1>10, <1>11, OwnStep DEF c

LEMMA ListInvitesStep == ASSUME MemberInv, NEW s \in Slot, ListInvites(s) PROVE MemberInv'
<1> DEFINE todo == {i \in PendingInvites(s) :
                      db[<<"invite", i>>].user = txn[s].op.user /\ ~Overdue(i)}
<1>1. /\ txn[s].pc = "listInvites" /\ KindOK(txn[s].pc, txn[s].op) /\ ClaimOK(db, txn[s])
  BY CallFacts DEF ListInvites
<1>2. txn[s].op.kind \in Claiming
  BY <1>1 DEF KindOK
<1>3. DOMAIN txn = Slot /\ DOMAIN txn[s] = CallFields
  BY CallFacts DEF MemberInv
<1>4. db' = db /\ txn' = [txn EXCEPT ![s] = [txn[s] EXCEPT !.pc = "claim", !.todo = todo]]
  BY <1>3 DEF ListInvites, Op, CallFields
<1>5. ASSUME NEW i \in todo
      PROVE  /\ i \in Invite /\ db[InviteKey(i)] # NoRow
             /\ db[InviteKey(i)].user = txn[s].op.user
  <2>1. i \in Invite /\ Read(s, InviteKey(i)).status = "pending" /\ InviteKey(i) \in Decidable
    BY Keys DEF PendingInvites, InviteKey
  <2>2. InviteKey(i) \notin DOMAIN txn[s].writes
    BY <1>1, <1>2, <2>1 DEF ClaimOK, Read
  <2> QED BY <2>1, <2>2, NoRowShape DEF Read, InviteKey
<1> HIDE DEF todo
<1> QED BY <1>1, <1>4, <1>5, TodoStep

LEMMA ClaimInviteStep == ASSUME MemberInv, NEW s \in Slot, ClaimInvite(s) PROVE MemberInv'
<1>1. /\ txn[s].pc = "claim" /\ KindOK(txn[s].pc, txn[s].op) /\ GrantOK(db, txn[s])
      /\ WritesOK(db, txn[s]) /\ JoinOK(db, txn[s]) /\ ClaimOK(db, txn[s])
  BY CallFacts DEF ClaimInvite
<1>2. txn[s].op.kind \in Claiming /\ txn[s].op \in Command /\ txn[s].op.user \in User
  BY <1>1, CommandFacts DEF KindOK, Claiming
<1>3. CASE txn[s].todo = {}
  <2> DEFINE c == Moved(s, "commit")
  <2>1. /\ c.pc = "commit" /\ c.op = txn[s].op /\ c.grant = txn[s].grant
        /\ c.todo = txn[s].todo /\ c.writes = txn[s].writes
    BY MovedIs
  <2>2. Go(s, "commit")
    BY <1>3 DEF ClaimInvite
  <2> HIDE DEF c
  <2>3. KindOK("commit", txn[s].op) /\ "commit" \notin Reading
    BY <1>2 DEF KindOK, Granting, Reading
  <2>4. GrantOK(db, c) /\ JoinOK(db, c) /\ ClaimOK(db, c) /\ RoleChangeOK(db, c)
    BY <1>1, <1>2, <2>1 DEF GrantOK, JoinOK, ClaimOK, RoleChangeOK, Granting, Claiming
  <2> QED BY <2>2, <2>3, <2>4, GoStep DEF c
<1>4. CASE txn[s].todo # {}
  <2> DEFINE i == Min(txn[s].todo)
             k == InviteKey(i)
  <2>1. i \in txn[s].todo
    <3>1. txn[s].todo \subseteq Nat
      BY <1>1, <1>2, MembershipAssumption DEF ClaimOK
    <3> QED BY <1>4, <3>1, MinIn
  <2>2. \/ db[k].status = "pending" /\ Claims(s, i)
        \/ txn' = [txn EXCEPT ![s].todo = @ \ {i}] /\ db' = db
    BY <1>4 DEF ClaimInvite, InviteKey
  <2> HIDE DEF i
  <2>3. i \in Invite /\ k \in Decidable /\ db[k].user = txn[s].op.user
    BY <1>1, <1>2, <2>1, Keys DEF ClaimOK
  <2>4. CASE txn' = [txn EXCEPT ![s].todo = @ \ {i}] /\ db' = db
    <3> DEFINE todo == txn[s].todo \ {i}
    <3>1. txn' = [txn EXCEPT ![s] = [txn[s] EXCEPT !.pc = "claim", !.todo = todo]]
      <4>1. [txn[s] EXCEPT !.todo = todo] = [txn[s] EXCEPT !.pc = "claim", !.todo = todo]
        BY <1>1, CallFacts DEF CallFields
      <4> QED BY <2>4, <4>1
    <3>2. \A x \in todo : /\ x \in Invite /\ db[InviteKey(x)] # NoRow
                          /\ db[InviteKey(x)].user = txn[s].op.user
      BY <1>1, <1>2 DEF ClaimOK
    <3> HIDE DEF todo
    <3> QED BY <1>1, <2>4, <3>1, <3>2, TodoStep
  <2>5. CASE db[k].status = "pending" /\ Claims(s, i)
    <3> DEFINE r == Changed(db[k], "accepted")
               grant == [user |-> txn[s].op.user, role |-> db[k].role]
               c == [txn[s] EXCEPT !.pc = "activate", !.todo = @ \ {i}, !.grant = grant,
                                   !.writes = Over(Row(k, r), @)]
    <3>1. db' = db /\ txn' = [txn EXCEPT ![s] = c] /\ ~Locked(s, k)
      BY <2>5, CallFacts DEF Claims, InviteKey, Op, CallFields, MemberInv
    <3>2. /\ DOMAIN c = CallFields /\ c.pc = "activate" /\ c.op = txn[s].op
          /\ c.grant = grant /\ c.todo = txn[s].todo \ {i}
          /\ c.writes = Over(Row(k, r), txn[s].writes)
      BY CallFacts DEF CallFields
    <3>3. DOMAIN grant = {"user", "role"} /\ grant.user = txn[s].op.user /\ grant.role = db[k].role
      OBVIOUS
    <3>4. /\ Writable(k, db[k], r) /\ r.status = "accepted" /\ r.user = db[k].user
          /\ db[k].user \in User /\ r.role = db[k].role
      BY <2>3, <2>5, DecidedRow
    <3>5. DOMAIN Row(k, r) = {k} /\ Row(k, r)[k] = r
      BY DEF Row
    <3> HIDE DEF k, r, grant, c
    <3>6. /\ DOMAIN c.writes = {k} \cup DOMAIN txn[s].writes /\ c.writes[k] = r
          /\ \A j \in DOMAIN txn[s].writes : j # k => c.writes[j] = txn[s].writes[j]
      BY <3>2, <3>5 DEF Over
    <3>7. Allowed(s, k, r)
      BY <1>1, <1>2, <2>3, <3>4, Keys DEF Allowed, ClaimOK
    <3>8. WritesOK(db, c)
      BY <3>2, <3>6, <3>7, WritesCarry
    <3>9. Source(db, c, c.grant.user, c.grant.role)
      BY <2>3, <2>5, <3>2, <3>3, <3>4, <3>6 DEF Source, k
    <3>10. r.role # "owner"
      BY <3>4 DEF Writable
    <3>11. GrantOK(db, c)
      BY <1>2, <3>2, <3>3, <3>4, <3>9, <3>10 DEF GrantOK, Granting, Claiming
    <3>12. KindOK(c.pc, c.op) /\ c.pc \notin Reading
      BY <1>2, <3>2 DEF KindOK, Granting, Reading
    <3>13. ClaimOK(db, c)
      BY <1>1, <1>2, <2>3, <3>2, <3>3, <3>4, <3>6 DEF ClaimOK
    <3>14. JoinOK(db, c)
      <4> SUFFICES ASSUME NEW j \in DOMAIN c.writes, Done(c.writes[j])
                   PROVE  c.writes[j].user = c.grant.user
        BY <3>2 DEF JoinOK, Granting
      <4>1. j \in Decidable
        BY <3>8 DEF WritesOK, Writable
      <4> QED BY <1>2, <3>2, <3>3, <3>13, <4>1 DEF ClaimOK
    <3>15. RoleChangeOK(db, c)
      BY <3>2 DEF RoleChangeOK
    <3>16. CallOK(db, c)
      BY <3>2, <3>3, <3>8, <3>11, <3>12, <3>13, <3>14, <3>15 DEF CallOK
    <3>17. \A t \in Slot \ {s} : DOMAIN c.writes \cap DOMAIN txn[t].writes = {}
      BY <3>1, <3>6 DEF MemberInv, HeldByOne, Locked
    <3> QED BY <3>1, <3>16, <3>17, OwnStep
  <2> QED BY <2>2, <2>4, <2>5
<1> QED BY <1>3, <1>4
-----------------------------------------------------------------------------
(* The invariant *)

LEMMA BeginStep ==
  ASSUME MemberInv, NEW s \in Slot, NEW d \in Command, Begin(s, d)
  PROVE  MemberInv'
<1> DEFINE first == FirstStatement[d.kind]
           grant == [user |-> d.user, role |-> d.role]
           c == [Idle EXCEPT !.pc = first, !.op = d, !.rank = RankOf(d.actor), !.grant = grant]
<1>1. db' = db /\ txn' = [txn EXCEPT ![s] = c]
  BY DEF Begin
<1>2. DOMAIN Idle = CallFields /\ DOMAIN Idle.writes = {} /\ Idle.todo = {}
  BY DEF Idle, CallFields
<1>3. /\ DOMAIN c = CallFields /\ c.pc = first /\ c.op = d /\ c.grant = grant
      /\ c.writes = Idle.writes /\ c.todo = {}
  BY <1>2 DEF CallFields
<1>4. DOMAIN grant = {"user", "role"} /\ grant.user = d.user /\ grant.role = d.role
  OBVIOUS
<1>5. d.kind \in Kind
  BY MembershipAssumption
<1>6. /\ first \in Reading \cup {"listInvites"} /\ KindOK(first, d)
      /\ first \notin Granting /\ first \notin {"decide", "remove", "commit"}
      /\ first = "findMember" => d.kind # "add"
  BY <1>5 DEF FirstStatement, Kind, Reading, KindOK, Granting, Claiming
<1>7. d.role # "owner"
  BY CommandFacts
<1> HIDE DEF first, grant, c
<1>8. GrantOK(db, c)
  BY <1>3, <1>4, <1>6, <1>7 DEF GrantOK, Granting
<1>9. WritesOK(db, c) /\ JoinOK(db, c) /\ ClaimOK(db, c) /\ RoleChangeOK(db, c)
  BY <1>2, <1>3, <1>6 DEF WritesOK, JoinOK, ClaimOK, RoleChangeOK
<1>10. CallOK(db, c)
  BY <1>2, <1>3, <1>4, <1>6, <1>8, <1>9 DEF CallOK
<1>11. \A t \in Slot \ {s} : DOMAIN c.writes \cap DOMAIN txn[t].writes = {}
  BY <1>2, <1>3
<1> QED BY <1>1, <1>10, <1>11, OwnStep

LEMMA InitMember == Init => MemberInv
<1> SUFFICES ASSUME Init PROVE MemberInv
  OBVIOUS
<1>1. PICK u \in User \ {Owner} :
        db = [k \in Key |->
          CASE k = <<"account", Owner>>           -> New("active", None, Owner)
            [] k = <<"member", Owner>>            -> New("active", "owner", Owner)
            [] k[1] = "invite" /\ k[2] \in Legacy -> New("pending", "editor", u)
            [] OTHER                              -> NoRow]
  BY DEF Init
<1>2. txn = [s \in Slot |-> Idle]
  BY DEF Init
<1>3. AccountKey(Owner) # MemberKey(Owner) /\ Owner \in User /\ None # "owner"
  BY MembershipAssumption DEF AccountKey, MemberKey, Role, Rank
<1>4. ASSUME NEW k \in Key
      PROVE  \/ k = MemberKey(Owner) /\ db[k] = New("active", "owner", Owner)
             \/ k = AccountKey(Owner) /\ db[k] = New("active", None, Owner)
             \/ k[1] = "invite" /\ db[k] = New("pending", "editor", u)
             \/ db[k] = NoRow
  BY <1>1 DEF AccountKey, MemberKey
<1>5. /\ AccountKey(Owner)[1] = "account" /\ MemberKey(Owner)[1] = "member"
      /\ MemberKey(Owner) \in Key
  BY <1>3, Keys
<1>6. db[MemberKey(Owner)] = New("active", "owner", Owner)
  BY <1>1, <1>3, <1>5 DEF AccountKey, MemberKey
<1>7. \A status, role, user :
        /\ DOMAIN New(status, role, user) = Columns
        /\ New(status, role, user).status = status
        /\ New(status, role, user).role = role
        /\ New(status, role, user).user = user
  BY NewIs
<1>8. ASSUME NEW k \in Key
      PROVE  /\ DOMAIN db[k] = Columns
             /\ db[k] # NoRow => db[k].status # "none" /\ db[k].user \in User
             /\ k # MemberKey(Owner) => db[k].role # "owner"
             /\ k[1] = "account" /\ db[k] # NoRow => db[k].status = "active"
             /\ ~Done(db[k])
  <2>1. CASE k = MemberKey(Owner) /\ db[k] = New("active", "owner", Owner)
    BY <1>3, <1>5, <1>7, <2>1 DEF Done
  <2>2. CASE k = AccountKey(Owner) /\ db[k] = New("active", None, Owner)
    BY <1>3, <1>5, <1>7, <2>2 DEF Done
  <2>3. CASE k[1] = "invite" /\ db[k] = New("pending", "editor", u)
    BY <1>3, <1>5, <1>7, <2>3 DEF Done
  <2>4. CASE db[k] = NoRow
    BY <2>4, NoRowShape
  <2> QED BY <1>4, <2>1, <2>2, <2>3, <2>4
<1>9. RowsOK(db)
  BY <1>1, <1>6, <1>7, <1>8 DEF RowsOK
<1>10. \A s \in Slot : CallOK(db, txn[s]) /\ DOMAIN txn[s].writes = {}
  BY <1>2, IdleOK
<1> QED BY <1>2, <1>9, <1>10 DEF MemberInv, HeldByOne

LEMMA StatementStep == ASSUME MemberInv, NEW s \in Slot, Statement(s) PROVE MemberInv'
BY FindExistingStep, InsertMemberStep, ReactivateStep, FindUserStep, FindMemberStep,
   ExpireInvitesStep, FindInviteStep, CreateInviteStep, FindActiveStep, UpdateRoleStep,
   RemoveMemberStep, RevokeInviteStep, FindOwnRequestStep, CreateRequestStep, LoadRequestStep,
   DecideRequestStep, CreateUserStep, ListInvitesStep, ClaimInviteStep, CommitStep DEF Statement

LEMMA MemberStep == MemberInv /\ [Next]_vars => MemberInv'
<1> SUFFICES ASSUME MemberInv, [Next]_vars PROVE MemberInv'
  OBVIOUS
<1>1. ASSUME NEW s \in Slot, Abort(s) PROVE MemberInv'
  BY <1>1, EndStep DEF Abort
<1>2. CASE TimePasses \/ UNCHANGED vars
  <2>1. db' = db /\ txn' = txn
    BY <1>2 DEF TimePasses, vars
  <2> QED BY <2>1 DEF MemberInv
<1> QED BY <1>1, <1>2, BeginStep, StatementStep DEF Next

-----------------------------------------------------------------------------
(* What the commits keep *)

\* Rows change by commits alone.
LEMMA ChangedByCommit ==
  ASSUME [Next]_vars, db' # db
  PROVE  \E s \in Slot : Commit(s)
<1>1. ASSUME NEW s \in Slot, Statement(s), ~Commit(s) PROVE db' = db
  BY <1>1 DEF Statement, FindExisting, InsertMember, Reactivate, FindUser, FindMember,
    ExpireInvites, FindInvite, CreateInvite, FindActive, UpdateRole, RemoveMember, RevokeInvite,
    FindOwnRequest, CreateRequest, pendingJoinRequest, DecideRequest, CreateUser, ListInvites,
    ClaimInvite, Claims, Go, Put, Rejected
<1> QED BY <1>1 DEF Next, Begin, Abort, Rejected, TimePasses, vars

\* The creator stays the one owner, and an active member (membership.ts:141,
\* :179).
THEOREM CreatorStays == Spec => []OwnerStays
<1>1. MemberInv => OwnerStays
  BY Keys, MembershipAssumption DEF MemberInv, RowsOK, OwnerStays, IsMember, MemberKey
<1> QED BY InitMember, MemberStep, <1>1, PTL DEF Spec

\* Whoever was granted a membership has one, or had it: the grant and the
\* membership are one transaction (membership.ts:343-350, members.ts:53-58).
THEOREM GrantsAreHonoured == Spec => []GrantedPeopleJoined
<1>1. MemberInv => GrantedPeopleJoined
  BY DEF MemberInv, RowsOK, GrantedPeopleJoined, Done, MemberKey
<1> QED BY InitMember, MemberStep, <1>1, PTL DEF Spec

\* An invite or a join request is decided once: the update counts only a pending
\* row, and the row is held until the commit (membership.ts:238, :343, :381,
\* members.ts:53).
THEOREM DecidedOnce == Spec => DecisionsAreFinal
<1>1. ASSUME MemberInv, [Next]_vars, NEW k \in Key, k[1] \in {"invite", "request"},
             db[k].status \notin {"none", "pending"}
      PROVE  db'[k] = db[k]
  <2>1. CASE db' # db
    <3>1. PICK s \in Slot : Commit(s)
      BY <1>1, <2>1, ChangedByCommit
    <3>2. k \notin DOMAIN txn[s].writes
      BY <1>1, CallFacts DEF WritesOK, Writable, Decidable, Open
    <3> QED BY <1>1, <3>1, <3>2, CommitRows
  <2> QED BY <2>1
<1>2. MemberInv /\ [Next]_vars =>
        [\A k \in Key : k[1] \in {"invite", "request"} /\ db[k].status \notin {"none", "pending"}
           => db'[k] = db[k]]_vars
  BY <1>1
<1> QED BY InitMember, MemberStep, <1>2, PTL DEF Spec, DecisionsAreFinal

LEMMA JoinStep ==
  ASSUME MemberInv, [Next]_vars, NEW u \in User,
         db[MemberKey(u)].status # "active", db'[MemberKey(u)].status = "active"
  PROVE  \/ \E i \in Invite :
              /\ db[InviteKey(i)].user = u /\ Granted(InviteKey(i), "accepted")
              /\ db'[MemberKey(u)].role = db[InviteKey(i)].role
         \/ \E j \in JoinRequest :
              db[RequestKey(j)].user = u /\ Granted(RequestKey(j), "approved")
         \/ \E s \in Slot :
              /\ txn[s].pc = "commit" /\ Op(s).kind = "add" /\ Op(s).user = u
              /\ db[AccountKey(u)].status = "active"
              /\ db'[MemberKey(u)].role = Op(s).role
<1>1. PICK s \in Slot : Commit(s)
  BY ChangedByCommit
<1> DEFINE w == txn[s].writes
           m == MemberKey(u)
<1>2. \A k \in Key : db'[k] = IF k \in DOMAIN w THEN w[k] ELSE db[k]
  BY <1>1, CommitRows
<1>3. m \in Key /\ m \in DOMAIN w /\ db'[m] = w[m]
  BY <1>2, Keys
<1>4. Source(db, txn[s], u, w[m].role)
  BY <1>3, CallFacts DEF WritesOK, Joins
<1>5. txn[s].pc = "commit"
  BY <1>1 DEF Commit
<1>6. CASE \E i \in Invite :
             /\ InviteKey(i) \in DOMAIN w /\ w[InviteKey(i)].status = "accepted"
             /\ db[InviteKey(i)].status = "pending"
             /\ db[InviteKey(i)].user = u /\ db[InviteKey(i)].role = w[m].role
  BY <1>2, <1>3, <1>6, Keys DEF Granted
<1>7. CASE \E j \in JoinRequest :
             /\ RequestKey(j) \in DOMAIN w /\ w[RequestKey(j)].status = "approved"
             /\ db[RequestKey(j)].status = "pending" /\ db[RequestKey(j)].user = u
  BY <1>2, <1>7, Keys DEF Granted
<1>8. CASE /\ txn[s].op.kind = "add" /\ txn[s].op.user = u /\ txn[s].op.role = w[m].role
           /\ db[AccountKey(u)].status = "active"
  BY <1>3, <1>5, <1>8 DEF Op
<1> QED BY <1>4, <1>6, <1>7, <1>8 DEF Source

\* Nobody joins without a grant of their own, made by the same commit
\* (membership.ts:90-94, :343-350, members.ts:53-58).
THEOREM NobodyJoinsUngranted == Spec => JoinsAreGranted
<1>1. MemberInv /\ [Next]_vars =>
        [\A u \in User :
           LET m == <<"member", u>> IN
           db[m].status # "active" /\ db'[m].status = "active" =>
             \/ \E i \in Invite :
                  /\ db[<<"invite", i>>].user = u /\ Granted(<<"invite", i>>, "accepted")
                  /\ db'[m].role = db[<<"invite", i>>].role
             \/ \E j \in JoinRequest :
                  db[<<"request", j>>].user = u /\ Granted(<<"request", j>>, "approved")
             \/ \E s \in Slot :
                  /\ txn[s].pc = "commit" /\ Op(s).kind = "add" /\ Op(s).user = u
                  /\ db[<<"account", u>>].status = "active"
                  /\ db'[m].role = Op(s).role]_vars
  BY JoinStep DEF MemberKey, InviteKey, RequestKey, AccountKey
<1> QED BY InitMember, MemberStep, <1>1, PTL DEF Spec, JoinsAreGranted

\* A role change replaces exactly the version the admin saw: the update compares
\* it, and holds the row until the commit (membership.ts:145-149).
THEOREM RoleChangesAreSeen == Spec => NoLostRoleChange
<1>1. ASSUME MemberInv, [Next]_vars, NEW s \in Slot, txn[s].pc = "commit", txn'[s].pc = "idle",
             db' # db, Op(s).kind = "changeRole"
      PROVE  /\ db[Target(s)].status = "active" /\ db[Target(s)].version = Op(s).version
             /\ db'[Target(s)].role = Op(s).role
  <2>1. PICK t \in Slot : Commit(t)
    BY <1>1, ChangedByCommit
  <2>2. t = s
    BY <1>1, <2>1 DEF Commit, MemberInv
  <2>3. RoleChangeOK(db, txn[s])
    BY <1>1 DEF MemberInv, CallOK
  <2>4. /\ Target(s) \in DOMAIN txn[s].writes /\ Target(s) \in Key
        /\ db[Target(s)].status = "active" /\ db[Target(s)].version = Op(s).version
        /\ txn[s].writes[Target(s)].role = Op(s).role
    BY <1>1, <2>3 DEF RoleChangeOK, Target, Op, MemberKey
  <2>5. db'[Target(s)] = txn[s].writes[Target(s)]
    BY <1>1, <2>1, <2>2, <2>4, CommitRows
  <2> QED BY <2>4, <2>5
<1>2. MemberInv /\ [Next]_vars =>
        [\A s \in Slot :
           txn[s].pc = "commit" /\ txn'[s].pc = "idle" /\ db' # db /\ Op(s).kind = "changeRole" =>
             /\ db[Target(s)].status = "active" /\ db[Target(s)].version = Op(s).version
             /\ db'[Target(s)].role = Op(s).role]_vars
  BY <1>1
<1> QED BY InitMember, MemberStep, <1>2, PTL DEF Spec, NoLostRoleChange
-----------------------------------------------------------------------------
(* Types: a pending row is as it was made, so that one decision fits in the *)
(* versions; and a role that is about to be granted is one.                 *)

Typed(k, r) == r \in RowOf(k) /\ (r.status = "pending" => r.version = 1)

\* The rows with a status of S and a role of R.
Rows(S, R) == [status: S, version: 1 .. MaxVersion, user: User, role: R]

Deciding == Granting \cup {"decide"}

CallTyped(c) ==
  /\ \A k \in DOMAIN c.writes : Typed(k, c.writes[k])
  /\ c.todo \subseteq Invite
  /\ c.op \in Command \cup {None}
  /\ c.pc \in Deciding => c.grant.role \in Role

TypeInv ==
  /\ \A k \in Key : db[k] = NoRow \/ Typed(k, db[k])
  /\ \A s \in Slot : CallTyped(txn[s])
  /\ expired \in BOOLEAN

LEMMA RowRole ==
  /\ \A u \in User : /\ RowOf(MemberKey(u)) =
                          Rows({"active", "removed"}, Role)
                     /\ RowOf(AccountKey(u)) =
                          Rows({"active"}, {None})
  /\ \A i \in Invite : RowOf(InviteKey(i)) =
                          Rows({"pending", "accepted", "revoked", "expired"}, Role)
  /\ \A j \in JoinRequest : RowOf(RequestKey(j)) =
                          Rows({"pending", "approved", "rejected"}, {None})
BY DEF RowOf, Rows, Status, MemberKey, AccountKey, InviteKey, RequestKey

LEMMA TypedNew ==
  ASSUME NEW S, NEW R, NEW status \in S, NEW role \in R, NEW user \in User
  PROVE  /\ New(status, role, user) \in Rows(S, R)
         /\ New(status, role, user).version = 1
BY MembershipAssumption DEF New, Rows

LEMMA TypedChange ==
  ASSUME NEW S, NEW R, NEW r \in Rows(S, R),
         NEW status \in S, Changed(r, status).version <= MaxVersion
  PROVE  /\ Changed(r, status) \in Rows(S, R)
         /\ Changed(r, status).status = status
         /\ Changed(r, status).version = r.version + 1
<1>1. Changed(r, status).version = r.version + 1 /\ r.version \in 1 .. MaxVersion
      /\ Changed(r, status).status = status
  BY DEF Changed, Rows
<1>2. r.version + 1 \in 1 .. MaxVersion
  BY <1>1, MembershipAssumption
<1>3. Changed(r, status) = [r EXCEPT !.status = status, !.version = r.version + 1]
  BY DEF Changed
<1>4. [r EXCEPT !.status = status, !.version = r.version + 1]
        \in Rows(S, R)
  BY <1>2 DEF Rows
<1> QED BY <1>1, <1>3, <1>4

LEMMA TypedOwn ==
  ASSUME MemberInv, TypeInv, NEW s \in Slot, NEW c, db' = db, expired' = expired,
         txn' = [txn EXCEPT ![s] = c], CallTyped(c)
  PROVE  TypeInv'
<1>1. txn'[s] = c /\ \A t \in Slot \ {s} : txn'[t] = txn[t]
  BY DEF MemberInv
<1>2. \A t \in Slot : CallTyped(txn'[t])
  BY <1>1 DEF TypeInv
<1> QED BY <1>2 DEF TypeInv

LEMMA TypedIdle == CallTyped(Idle)
<1>1. DOMAIN Idle.writes = {} /\ Idle.todo = {} /\ Idle.op = None /\ Idle.pc = "idle"
  BY DEF Idle
<1> QED BY <1>1 DEF CallTyped, Deciding, Granting

LEMMA TypedEnd == ASSUME MemberInv, TypeInv, NEW s \in Slot, Rejected(s) PROVE TypeInv'
BY TypedIdle, TypedOwn DEF Rejected

LEMMA TypedGo ==
  ASSUME MemberInv, TypeInv, NEW s \in Slot, NEW to, Go(s, to),
         to \in Deciding => txn[s].grant.role \in Role
  PROVE  TypeInv'
<1>1. /\ Moved(s, to).pc = to /\ Moved(s, to).op = txn[s].op /\ Moved(s, to).grant = txn[s].grant
      /\ Moved(s, to).todo = txn[s].todo /\ Moved(s, to).writes = txn[s].writes
  BY MovedIs
<1>2. CallTyped(Moved(s, to))
  BY <1>1 DEF TypeInv, CallTyped
<1> QED BY <1>2, TypedOwn DEF Go, Moved

LEMMA TypedPut ==
  ASSUME MemberInv, TypeInv, NEW s \in Slot, NEW k, NEW r, NEW to, Put(s, k, r, to), Typed(k, r),
         to \in Deciding => txn[s].grant.role \in Role
  PROVE  TypeInv'
<1> DEFINE c == Wrote(s, k, r, to)
<1>1. /\ c.pc = to /\ c.op = txn[s].op /\ c.grant = txn[s].grant /\ c.todo = txn[s].todo
      /\ DOMAIN c.writes = {k} \cup DOMAIN txn[s].writes /\ c.writes[k] = r
      /\ \A j \in DOMAIN txn[s].writes : j # k => c.writes[j] = txn[s].writes[j]
  BY WroteIs
<1>2. txn' = [txn EXCEPT ![s] = c] /\ db' = db /\ expired' = expired
  BY DEF Put, Wrote
<1> HIDE DEF c
<1>3. CallTyped(c)
  BY <1>1 DEF TypeInv, CallTyped
<1> QED BY <1>2, <1>3, TypedOwn
-----------------------------------------------------------------------------
(* The statements *)

LEMMA RowOfKey == ASSUME TypeInv, NEW k \in Key, db[k].status # "none" PROVE Typed(k, db[k])
BY NoRowShape DEF TypeInv

LEMMA ActivateTyped ==
  ASSUME MemberInv, TypeInv, NEW s \in Slot,
         FindExisting(s) \/ InsertMember(s) \/ Reactivate(s)
  PROVE  TypeInv'
<1> DEFINE u == txn[s].grant.user
           k == MemberKey(u)
<1>1. txn[s].pc \in Granting
  BY DEF FindExisting, InsertMember, Reactivate, Granting
<1>2. txn[s].grant.role \in Role /\ u \in User
  BY <1>1, CallFacts DEF TypeInv, CallTyped, Deciding, GrantOK
<1>3. k \in Key /\ RowOf(k) = Rows({"active", "removed"}, Role)
  BY <1>2, Keys, RowRole
<1>4. CASE FindExisting(s)
  <2>1. PICK to : Go(s, to)
    BY <1>4 DEF FindExisting
  <2> QED BY <1>2, <2>1, TypedGo
<1>5. CASE InsertMember(s)
  <2> DEFINE r == New("active", txn[s].grant.role, u)
  <2>1. CASE Rejected(s)
    BY <2>1, TypedEnd
  <2>2. CASE Put(s, k, r, AfterGrant(s))
    <3>1. Typed(k, r)
      <4>1. r \in Rows({"active", "removed"}, Role)
            /\ r.version = 1
        BY <1>2, TypedNew
      <4> QED BY <1>3, <4>1 DEF Typed
    <3> HIDE DEF r
    <3> QED BY <1>2, <2>2, <3>1, TypedPut
  <2> QED BY <1>5, <2>1, <2>2 DEF InsertMember, GrantKey, MemberKey
<1>6. CASE Reactivate(s)
  <2> DEFINE old == Read(s, k)
             q == Changed(old, "active")
             r == [q EXCEPT !.role = txn[s].grant.role]
  <2>1. Put(s, k, r, AfterGrant(s)) /\ txn[s].pc = "reactivate"
    BY <1>6 DEF Reactivate, GrantKey, MemberKey
  <2>2. k \in DOMAIN txn[s].writes \/ db[k] # NoRow
    BY <2>1, CallFacts DEF GrantOK
  <2>3. old \in Rows({"active", "removed"}, Role)
    BY <1>3, <2>2 DEF Read, TypeInv, CallTyped, Typed
  <2>4. r.version = q.version /\ r.version <= MaxVersion
    BY <2>1 DEF Put, Changed
  <2>5. /\ q \in Rows({"active", "removed"}, Role)
        /\ q.status = "active"
    BY <2>3, <2>4, TypedChange
  <2> HIDE DEF q, old
  <2>6. /\ r \in Rows({"active", "removed"}, Role)
        /\ r.status = "active"
    BY <1>2, <2>5 DEF Rows
  <2>7. Typed(k, r)
    BY <1>3, <2>6 DEF Typed
  <2> HIDE DEF r
  <2> QED BY <1>2, <2>1, <2>7, TypedPut
<1> QED BY <1>4, <1>5, <1>6

LEMMA CommandRoles ==
  ASSUME NEW d \in Command
  PROVE  /\ d.kind \in {"add", "changeRole"} => d.role \in Role
         /\ d.role # None => d.role \in Role
BY MembershipAssumption

LEMMA ReadsTyped ==
  ASSUME MemberInv, TypeInv, NEW s \in Slot,
         \/ FindUser(s) \/ FindMember(s) \/ FindInvite(s) \/ FindActive(s) \/ FindOwnRequest(s)
  PROVE  TypeInv'
<1>1. CASE Rejected(s)
  BY <1>1, TypedEnd
<1>2. CASE FindMember(s) /\ ~Rejected(s)
  <2>1. /\ Go(s, IF txn[s].op.kind = "ask" THEN "findRequest" ELSE "activate")
        /\ txn[s].pc = "findMember"
    BY <1>2 DEF FindMember, Op
  <2>2. /\ txn[s].op \in Command
        /\ txn[s].op.kind \in {"add", "ask"}
        /\ txn[s].op.kind = "add" => txn[s].grant.role = txn[s].op.role
    BY <2>1, CallFacts DEF KindOK, GrantOK
  <2>3. CASE txn[s].op.kind = "ask"
    <3>1. Go(s, "findRequest") /\ "findRequest" \notin Deciding
      BY <2>1, <2>3 DEF Deciding, Granting
    <3> QED BY <3>1, TypedGo
  <2>4. CASE txn[s].op.kind = "add"
    <3>1. Go(s, "activate") /\ txn[s].grant.role \in Role
      BY <2>1, <2>2, <2>4, CommandRoles
    <3> QED BY <3>1, TypedGo
  <2> QED BY <2>2, <2>3, <2>4
<1>3. CASE FindUser(s) \/ FindInvite(s) \/ FindOwnRequest(s)
  <2>1. \/ Rejected(s)
        \/ \E to \in {"findMember", "expire", "createInvite", "createRequest"} : Go(s, to)
    BY <1>3 DEF FindUser, FindInvite, FindOwnRequest
  <2>2. \A to \in {"findMember", "expire", "createInvite", "createRequest"} : to \notin Deciding
    BY DEF Deciding, Granting
  <2> QED BY <2>1, <2>2, TypedGo, TypedEnd
<1>4. CASE FindActive(s) /\ ~Rejected(s)
  <2>1. Go(s, txn[s].op.kind) /\ txn[s].pc = "find"
    BY <1>4 DEF FindActive, Op
  <2>2. txn[s].op.kind \in {"changeRole", "remove"}
    BY <2>1, CallFacts DEF KindOK
  <2>3. txn[s].op.kind \notin Deciding
    BY <2>2 DEF Deciding, Granting
  <2> QED BY <2>1, <2>3, TypedGo
<1> QED BY <1>1, <1>2, <1>3, <1>4
LEMMA CreateTyped ==
  ASSUME MemberInv, TypeInv, NEW s \in Slot, CreateInvite(s) \/ CreateRequest(s) \/ CreateUser(s)
  PROVE  TypeInv'
<1>1. KindOK(txn[s].pc, txn[s].op)
  BY CallFacts
<1>2. CASE CreateInvite(s)
  <2> DEFINE i == Min(Fresh("invite", Invite))
             r == New("pending", txn[s].op.role, txn[s].op.user)
  <2>1. i \in Invite
    <3>1. Fresh("invite", Invite) \subseteq Nat /\ Fresh("invite", Invite) # {}
          /\ Fresh("invite", Invite) \subseteq Invite
      BY <1>2, MembershipAssumption DEF CreateInvite, Fresh
    <3> QED BY <3>1, MinIn
  <2>2. Put(s, InviteKey(i), r, "commit") /\ txn[s].pc = "createInvite"
    BY <1>2 DEF CreateInvite, InviteKey, Op
  <2>3. txn[s].op.role \in Role /\ txn[s].op.user \in User
    BY <1>1, <2>2, CommandRoles, CommandFacts DEF KindOK
  <2> HIDE DEF i
  <2>4. r \in Rows({"pending", "accepted", "revoked", "expired"}, Role) /\ r.version = 1
    BY <2>3, MembershipAssumption DEF New, Rows
  <2> HIDE DEF r
  <2>5. Typed(InviteKey(i), r)
    BY <2>1, <2>4, RowRole DEF Typed
  <2> QED BY <2>2, <2>5, TypedPut DEF Deciding, Granting
<1>3. CASE CreateRequest(s)
  <2> DEFINE j == Min(Fresh("request", JoinRequest))
             r == New("pending", None, txn[s].op.user)
  <2>1. j \in JoinRequest
    <3>1. Fresh("request", JoinRequest) \subseteq Nat /\ Fresh("request", JoinRequest) # {}
          /\ Fresh("request", JoinRequest) \subseteq JoinRequest
      BY <1>3, MembershipAssumption DEF CreateRequest, Fresh
    <3> QED BY <3>1, MinIn
  <2>2. Put(s, RequestKey(j), r, "commit") /\ txn[s].pc = "createRequest"
    BY <1>3 DEF CreateRequest, RequestKey, Op
  <2>3. txn[s].op.user \in User
    BY <1>1, <2>2, CommandFacts DEF KindOK
  <2> HIDE DEF j
  <2>4. r \in Rows({"pending", "approved", "rejected"}, {None}) /\ r.version = 1
    BY <2>3, TypedNew
  <2> HIDE DEF r
  <2>5. Typed(RequestKey(j), r)
    BY <2>1, <2>4, RowRole DEF Typed
  <2> QED BY <2>2, <2>5, TypedPut DEF Deciding, Granting
<1>4. CASE CreateUser(s)
  <2> DEFINE u == txn[s].op.user
             r == New("active", None, u)
  <2>1. CASE Rejected(s)
    BY <2>1, TypedEnd
  <2>2. CASE ~Rejected(s)
    <3>1. Put(s, AccountKey(u), r, "listInvites") /\ txn[s].pc = "createUser"
      BY <1>4, <2>2 DEF CreateUser, AccountKey, Op
    <3>2. u \in User
      BY <1>1, <3>1, CommandFacts DEF KindOK
    <3>3. r \in Rows({"active"}, {None}) /\ r.version = 1
      BY <3>2, MembershipAssumption DEF New, Rows
    <3> HIDE DEF r
    <3>4. Typed(AccountKey(u), r)
      BY <3>2, <3>3, RowRole DEF Typed
    <3> QED BY <3>1, <3>4, TypedPut DEF Deciding, Granting
  <2> QED BY <2>1, <2>2
<1> QED BY <1>2, <1>3, <1>4

\* A row of the database, decided or otherwise changed.
LEMMA ChangeTyped ==
  ASSUME TypeInv, NEW k \in Key, NEW S, NEW R, RowOf(k) = Rows(S, R), db[k].status # "none",
         NEW status \in S \ {"pending"}, Changed(db[k], status).version <= MaxVersion
  PROVE  Typed(k, Changed(db[k], status))
<1>1. db[k] \in Rows(S, R)
  BY RowOfKey DEF Typed
<1>2. /\ Changed(db[k], status) \in Rows(S, R)
      /\ Changed(db[k], status).status = status
  BY <1>1, TypedChange
<1> QED BY <1>2 DEF Typed

\* A pending one always has a version left.
LEMMA DecideTyped ==
  ASSUME TypeInv, NEW k \in Key, NEW S, NEW R, RowOf(k) = Rows(S, R), db[k].status = "pending",
         NEW status \in S \ {"pending"}
  PROVE  Typed(k, Changed(db[k], status)) /\ db[k].role \in R
<1>1. db[k] \in Rows(S, R) /\ db[k].version = 1
  BY RowOfKey DEF Typed
<1>2. Changed(db[k], status).version = 2
  BY <1>1 DEF Changed, Rows
<1>3. Changed(db[k], status).version <= MaxVersion
  BY <1>2, MembershipAssumption
<1>4. db[k].role \in R
  BY <1>1 DEF Rows
<1> QED BY <1>3, <1>4, ChangeTyped

LEMMA MemberTyped ==
  ASSUME MemberInv, TypeInv, NEW s \in Slot, UpdateRole(s) \/ RemoveMember(s)
  PROVE  TypeInv'
<1> DEFINE k == MemberKey(txn[s].op.user)
<1>1. txn[s].pc \in {"changeRole", "remove"}
  BY DEF UpdateRole, RemoveMember
<1>2. /\ txn[s].op.user \in User /\ txn[s].op \in Command
      /\ txn[s].pc = "changeRole" => txn[s].op.role \in Role
      /\ txn[s].pc = "remove" => db[k] # NoRow
  BY <1>1, CallFacts, CommandFacts, CommandRoles DEF KindOK, GrantOK
<1>3. k \in Key /\ RowOf(k) = Rows({"active", "removed"}, Role)
  BY <1>2, Keys, RowRole
<1>4. CASE Rejected(s)
  BY <1>4, TypedEnd
<1>5. CASE UpdateRole(s) /\ ~Rejected(s)
  <2> DEFINE q == Changed(db[k], "active")
             r == [q EXCEPT !.role = txn[s].op.role]
  <2>1. Put(s, k, r, "commit") /\ db[k].status = "active" /\ txn[s].pc = "changeRole"
    BY <1>5 DEF UpdateRole, Op, Target, MemberKey
  <2>2. r.version = q.version /\ r.version <= MaxVersion
    BY <2>1 DEF Put, Changed
  <2>3. db[k] \in Rows({"active", "removed"}, Role)
    BY <1>3, <2>1, RowOfKey DEF Typed
  <2>4. q \in Rows({"active", "removed"}, Role) /\ q.status = "active"
    BY <2>2, <2>3, TypedChange
  <2> HIDE DEF q
  <2>5. r \in Rows({"active", "removed"}, Role) /\ r.status = "active"
    BY <1>2, <2>1, <2>4 DEF Rows
  <2>6. Typed(k, r)
    BY <1>3, <2>5 DEF Typed
  <2> HIDE DEF r
  <2> QED BY <2>1, <2>6, TypedPut DEF Deciding, Granting
<1>6. CASE RemoveMember(s)
  <2>1. Put(s, k, Changed(db[k], "removed"), "commit") /\ db[k] # NoRow
    BY <1>2, <1>6 DEF RemoveMember, Op, Target, MemberKey
  <2>2. db[k].status # "none"
    BY <1>3, <2>1 DEF MemberInv, RowsOK
  <2>3. Changed(db[k], "removed").version <= MaxVersion
    BY <2>1 DEF Put
  <2>4. Typed(k, Changed(db[k], "removed"))
    BY <1>3, <2>2, <2>3, ChangeTyped
  <2> QED BY <2>1, <2>4, TypedPut DEF Deciding, Granting
<1> QED BY <1>4, <1>5, <1>6

LEMMA DecisionTyped ==
  ASSUME MemberInv, TypeInv, NEW s \in Slot,
         RevokeInvite(s) \/ pendingJoinRequest(s) \/ DecideRequest(s)
  PROVE  TypeInv'
<1>1. CASE Rejected(s)
  BY <1>1, TypedEnd
<1>2. CASE RevokeInvite(s) /\ ~Rejected(s)
  <2> DEFINE k == InviteKey(txn[s].op.id)
  <2>1. /\ Put(s, k, Changed(db[k], "revoked"), "commit") /\ db[k].status = "pending"
        /\ txn[s].pc = "revoke"
    BY <1>2 DEF RevokeInvite, InviteKey, Op
  <2>2. txn[s].op.id \in Invite
    BY <2>1, CallFacts, CommandFacts DEF KindOK
  <2>3. k \in Key /\ RowOf(k) = Rows({"pending", "accepted", "revoked", "expired"}, Role)
    BY <2>2, Keys, RowRole
  <2>4. Typed(k, Changed(db[k], "revoked"))
    BY <2>1, <2>3, DecideTyped
  <2> QED BY <2>1, <2>4, TypedPut DEF Deciding, Granting
<1>3. CASE pendingJoinRequest(s) /\ ~Rejected(s)
  <2> DEFINE k == RequestKey(txn[s].op.id)
             role == IF txn[s].op.role = None THEN DefaultRole ELSE txn[s].op.role
             c == [txn[s] EXCEPT !.pc = "decide", !.ver = db[k].version,
                                 !.grant = [user |-> db[k].user, role |-> role]]
  <2>1. db' = db /\ expired' = expired /\ txn' = [txn EXCEPT ![s] = c] /\ txn[s].pc = "loadRequest"
    BY <1>3 DEF pendingJoinRequest, Op, RequestKey
  <2>2. /\ c.pc = "decide" /\ c.op = txn[s].op /\ c.todo = txn[s].todo
        /\ c.grant = [user |-> db[k].user, role |-> role] /\ c.writes = txn[s].writes
    BY CallFacts DEF CallFields
  <2>3. role \in Role
    <3>1. txn[s].op \in Command
      BY <2>1, CallFacts DEF KindOK
    <3>2. DefaultRole \in Role
      BY MembershipAssumption DEF Role, Rank
    <3> QED BY <3>1, <3>2, CommandRoles
  <2> HIDE DEF c, role
  <2>4. CallTyped(c)
    BY <2>2, <2>3 DEF TypeInv, CallTyped
  <2> QED BY <2>1, <2>4, TypedOwn
<1>4. CASE DecideRequest(s) /\ ~Rejected(s)
  <2> DEFINE k == RequestKey(txn[s].op.id)
  <2>1. /\ db[k].status = "pending" /\ txn[s].pc = "decide"
        /\ \/ Put(s, k, Changed(db[k], "rejected"), "commit")
           \/ Put(s, k, Changed(db[k], "approved"), "activate")
    BY <1>4 DEF DecideRequest, RequestKey, Op
  <2>2. txn[s].op.id \in JoinRequest
    BY <2>1, CallFacts, CommandFacts DEF KindOK
  <2>3. k \in Key /\ RowOf(k) = Rows({"pending", "approved", "rejected"}, {None})
    BY <2>2, Keys, RowRole
  <2>4. Typed(k, Changed(db[k], "rejected")) /\ Typed(k, Changed(db[k], "approved"))
    BY <2>1, <2>3, DecideTyped
  <2>5. txn[s].grant.role \in Role
    BY <2>1 DEF TypeInv, CallTyped, Deciding
  <2> QED BY <2>1, <2>4, <2>5, TypedPut
<1> QED BY <1>1, <1>2, <1>3, <1>4

LEMMA ExpireTyped == ASSUME MemberInv, TypeInv, NEW s \in Slot, ExpireInvites(s) PROVE TypeInv'
<1> DEFINE stale == {<<"invite", i>> : i \in {j \in PendingInvites(s) : Overdue(j)}}
           w == [k \in stale |-> Changed(db[k], "expired")]
           c == [txn[s] EXCEPT !.pc = "findInvite", !.writes = w]
<1>1. db' = db /\ expired' = expired /\ txn' = [txn EXCEPT ![s] = c] /\ txn[s].pc = "expire"
  BY DEF ExpireInvites
<1>2. DOMAIN txn[s].writes = {}
  BY <1>1, CallFacts DEF Reading
<1>3. /\ c.pc = "findInvite" /\ c.op = txn[s].op /\ c.todo = txn[s].todo /\ c.writes = w
  BY CallFacts DEF CallFields
<1>4. DOMAIN w = stale /\ \A k \in stale : w[k] = Changed(db[k], "expired")
  OBVIOUS
<1>5. \A k \in stale : \E i \in Invite : k = InviteKey(i) /\ db[k].status = "pending"
  BY <1>2 DEF PendingInvites, Read, InviteKey
<1> HIDE DEF stale, w, c
<1>6. ASSUME NEW k \in stale PROVE Typed(k, w[k])
  <2>1. PICK i \in Invite : k = InviteKey(i) /\ db[k].status = "pending"
    BY <1>5, <1>6
  <2>2. k \in Key /\ RowOf(k) = Rows({"pending", "accepted", "revoked", "expired"}, Role)
    BY <2>1, Keys, RowRole
  <2>3. Typed(k, Changed(db[k], "expired"))
    BY <2>1, <2>2, DecideTyped
  <2> QED BY <1>4, <2>3
<1>7. CallTyped(c)
  BY <1>3, <1>4, <1>6 DEF TypeInv, CallTyped, Deciding, Granting
<1> QED BY <1>1, <1>7, TypedOwn

LEMMA ClaimTyped ==
  ASSUME MemberInv, TypeInv, NEW s \in Slot, ListInvites(s) \/ ClaimInvite(s)
  PROVE  TypeInv'
<1>1. CASE ListInvites(s)
  <2> DEFINE todo == {i \in PendingInvites(s) : db[<<"invite", i>>].user = Op(s).user /\ ~Overdue(i)}
             c == [txn[s] EXCEPT !.pc = "claim", !.todo = todo]
  <2>1. db' = db /\ expired' = expired /\ txn' = [txn EXCEPT ![s] = c]
    BY <1>1 DEF ListInvites
  <2>2. c.pc = "claim" /\ c.op = txn[s].op /\ c.todo = todo /\ c.writes = txn[s].writes
    BY CallFacts DEF CallFields
  <2>3. todo \subseteq Invite
    BY DEF PendingInvites
  <2> HIDE DEF c, todo
  <2>4. CallTyped(c)
    BY <2>2, <2>3 DEF TypeInv, CallTyped, Deciding, Granting
  <2> QED BY <2>1, <2>4, TypedOwn
<1>2. CASE ClaimInvite(s) /\ txn[s].todo = {}
  <2>1. Go(s, "commit")
    BY <1>2 DEF ClaimInvite
  <2> QED BY <2>1, TypedGo DEF Deciding, Granting
<1>3. CASE ClaimInvite(s) /\ txn[s].todo # {}
  <2> DEFINE i == Min(txn[s].todo)
             k == InviteKey(i)
  <2>1. i \in Invite
    <3>1. txn[s].todo \subseteq Invite /\ txn[s].todo \subseteq Nat
      BY MembershipAssumption DEF TypeInv, CallTyped
    <3> QED BY <1>3, <3>1, MinIn
  <2>2. /\ txn[s].pc = "claim" /\ expired' = expired /\ db' = db
        /\ \/ db[k].status = "pending" /\ Claims(s, i)
           \/ txn' = [txn EXCEPT ![s].todo = @ \ {i}]
    BY <1>3 DEF ClaimInvite, Claims, InviteKey
  <2> HIDE DEF i
  <2>3. k \in Key /\ RowOf(k) = Rows({"pending", "accepted", "revoked", "expired"}, Role)
    BY <2>1, Keys, RowRole
  <2>4. CASE txn' = [txn EXCEPT ![s].todo = @ \ {i}]
    <3> DEFINE c == [txn[s] EXCEPT !.todo = @ \ {i}]
    <3>1. /\ c.pc = txn[s].pc /\ c.op = txn[s].op /\ c.todo = txn[s].todo \ {i}
          /\ c.writes = txn[s].writes /\ c.grant = txn[s].grant
      BY CallFacts DEF CallFields
    <3>2. txn' = [txn EXCEPT ![s] = c]
      BY <2>4
    <3> HIDE DEF c
    <3>3. CallTyped(c)
      BY <3>1 DEF TypeInv, CallTyped
    <3> QED BY <2>2, <3>2, <3>3, TypedOwn
  <2>5. CASE db[k].status = "pending" /\ Claims(s, i)
    <3> DEFINE r == Changed(db[k], "accepted")
               grant == [user |-> txn[s].op.user, role |-> db[k].role]
               c == [txn[s] EXCEPT !.pc = "activate", !.todo = @ \ {i}, !.grant = grant,
                                   !.writes = Over(Row(k, r), @)]
    <3>1. txn' = [txn EXCEPT ![s] = c]
      BY <2>5, CallFacts DEF Claims, InviteKey, Op, CallFields, MemberInv
    <3>2. /\ c.pc = "activate" /\ c.op = txn[s].op
          /\ c.grant = grant /\ c.todo = txn[s].todo \ {i}
          /\ c.writes = Over(Row(k, r), txn[s].writes)
      BY CallFacts DEF CallFields
    <3>3. grant.role = db[k].role
      OBVIOUS
    <3>4. Typed(k, r) /\ db[k].role \in Role
      BY <2>3, <2>5, DecideTyped
    <3>5. DOMAIN Row(k, r) = {k} /\ Row(k, r)[k] = r
      BY DEF Row
    <3> HIDE DEF k, r, grant, c
    <3>6. \A j \in DOMAIN c.writes :
             IF j = k THEN c.writes[j] = r
             ELSE j \in DOMAIN txn[s].writes /\ c.writes[j] = txn[s].writes[j]
      BY <3>2, <3>5 DEF Over
    <3>7. CallTyped(c)
      BY <3>2, <3>3, <3>4, <3>6 DEF TypeInv, CallTyped
    <3> QED BY <2>2, <3>1, <3>7, TypedOwn
  <2> QED BY <2>2, <2>4, <2>5
<1> QED BY <1>1, <1>2, <1>3

LEMMA CommitTyped == ASSUME MemberInv, TypeInv, NEW s \in Slot, Commit(s) PROVE TypeInv'
<1>1. \A k \in Key : db'[k] = IF k \in DOMAIN txn[s].writes THEN txn[s].writes[k] ELSE db[k]
  BY CommitRows
<1>2. expired' = expired /\ \A t \in Slot : txn'[t] = txn[t] \/ txn'[t] = Idle
  BY DEF Commit, MemberInv
<1>3. \A t \in Slot : CallTyped(txn'[t])
  BY <1>2, TypedIdle DEF TypeInv
<1>4. \A k \in Key : db'[k] = NoRow \/ Typed(k, db'[k])
  BY <1>1 DEF TypeInv, CallTyped
<1> QED BY <1>2, <1>3, <1>4 DEF TypeInv

LEMMA BeginTyped ==
  ASSUME MemberInv, TypeInv, NEW s \in Slot, NEW d \in Command, Begin(s, d)
  PROVE  TypeInv'
<1> DEFINE first == FirstStatement[d.kind]
           c == [Idle EXCEPT !.pc = first, !.op = d, !.rank = RankOf(d.actor),
                             !.grant = [user |-> d.user, role |-> d.role]]
<1>1. db' = db /\ expired' = expired /\ txn' = [txn EXCEPT ![s] = c]
  BY DEF Begin
<1>2. c.pc = first /\ c.op = d /\ DOMAIN c.writes = {} /\ c.todo = {}
  BY DEF Idle
<1>3. first \notin Deciding
  <2>1. d.kind \in Kind
    BY MembershipAssumption
  <2> QED BY <2>1 DEF FirstStatement, Kind, Deciding, Granting
<1> HIDE DEF first, c
<1>4. CallTyped(c)
  BY <1>2, <1>3 DEF CallTyped
<1> QED BY <1>1, <1>4, TypedOwn

LEMMA TypedStep == MemberInv /\ TypeInv /\ [Next]_vars => TypeInv'
<1> SUFFICES ASSUME MemberInv, TypeInv, [Next]_vars PROVE TypeInv'
  OBVIOUS
<1>1. ASSUME NEW s \in Slot, Statement(s) PROVE TypeInv'
  BY <1>1, ActivateTyped, ReadsTyped, ExpireTyped, CreateTyped, MemberTyped, DecisionTyped,
     ClaimTyped, CommitTyped DEF Statement
<1>2. ASSUME NEW s \in Slot, Abort(s) PROVE TypeInv'
  BY <1>2, TypedEnd DEF Abort
<1>3. CASE TimePasses \/ UNCHANGED vars
  BY <1>3 DEF TimePasses, vars, TypeInv
<1> QED BY <1>1, <1>2, <1>3, BeginTyped DEF Next

LEMMA InitTyped == Init => TypeInv
<1> SUFFICES ASSUME Init PROVE TypeInv
  OBVIOUS
<1>1. PICK u \in User \ {Owner} :
        db = [k \in Key |->
          CASE k = <<"account", Owner>>           -> New("active", None, Owner)
            [] k = <<"member", Owner>>            -> New("active", "owner", Owner)
            [] k[1] = "invite" /\ k[2] \in Legacy -> New("pending", "editor", u)
            [] OTHER                              -> NoRow]
  BY DEF Init
<1>2. AccountKey(Owner) # MemberKey(Owner) /\ Owner \in User /\ {"owner", "editor"} \subseteq Role
  BY MembershipAssumption DEF AccountKey, MemberKey, Role, Rank
<1>3. ASSUME NEW k \in Key
      PROVE  \/ k = MemberKey(Owner) /\ db[k] = New("active", "owner", Owner)
             \/ k = AccountKey(Owner) /\ db[k] = New("active", None, Owner)
             \/ k[1] = "invite" /\ db[k] = New("pending", "editor", u)
             \/ db[k] = NoRow
  BY <1>1 DEF AccountKey, MemberKey
<1>4. \A k \in Key : k[1] = "invite" => \E i \in Invite : k = InviteKey(i)
  BY DEF Key, InviteKey
<1>5. /\ New("active", "owner", Owner) \in Rows({"active", "removed"}, Role)
      /\ New("active", "owner", Owner).version = 1
  BY <1>2, TypedNew
<1>6. /\ New("active", None, Owner) \in Rows({"active"}, {None})
      /\ New("active", None, Owner).version = 1
  BY <1>2, TypedNew
<1>7. /\ New("pending", "editor", u) \in Rows({"pending", "accepted", "revoked", "expired"}, Role)
      /\ New("pending", "editor", u).version = 1
  BY <1>2, TypedNew
<1>8. ASSUME NEW k \in Key PROVE db[k] = NoRow \/ Typed(k, db[k])
  BY <1>2, <1>3, <1>4, <1>5, <1>6, <1>7, RowRole DEF Typed
<1>9. \A s \in Slot : CallTyped(txn[s])
  BY TypedIdle DEF Init
<1>10. expired \in BOOLEAN
  BY DEF Init
<1> QED BY <1>8, <1>9, <1>10 DEF TypeInv

\* Committed and uncommitted rows have the shapes the schema gives them, for any
\* number of requests and people (schema.prisma: User, WorkspaceMembership,
\* WorkspaceInvite, JoinRequest).
THEOREM TypesHold == Spec => []TypeOK
<1>1. MemberInv /\ TypeInv => TypeOK
  BY DEF MemberInv, CallOK, WritesOK, TypeInv, CallTyped, Typed, TypeOK
<1> QED BY InitMember, MemberStep, InitTyped, TypedStep, <1>1, PTL DEF Spec
=============================================================================
