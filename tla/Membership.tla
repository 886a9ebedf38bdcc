----------------------------- MODULE Membership -----------------------------
(***************************************************************************)
(* Who is a member of one workspace: adding people by email, invites that  *)
(* wait for an account, join requests, role changes and removals, each a   *)
(* transaction of several statements (READ COMMITTED) in a slot of its     *)
(* own.  Rows a transaction has written are in its `writes', locked and    *)
(* invisible to others until the commit.                                   *)
(*                                                                         *)
(* A user is a person with one email address; the row of kind "account"    *)
(* says whether they have an account.                                      *)
(***************************************************************************)
EXTENDS Naturals, FiniteSetsExt, Tables

CONSTANTS
  Slot, User,
  Owner,       \* created the workspace
  Invite, JoinRequest, \* numbers: rows are created in this order
  Legacy,      \* invites of an older release, which expire
  DefaultRole, \* the workspace's default_role_for_requests
  None,        \* no value; as an actor: a platform admin who is not a member
  Command,     \* what clients ask for
  MaxVersion   \* bound on the changes of one row

Rank == [viewer |-> 0, editor |-> 1, admin |-> 2, owner |-> 3]
Role == DOMAIN Rank
Kind == {"add", "changeRole", "remove", "revoke", "ask", "approve", "reject",
         "createAccount", "signIn"}

ASSUME MembershipAssumption ==
  /\ Owner \in User /\ None \notin User \cup Role
  /\ Invite \subseteq Nat /\ JoinRequest \subseteq Nat /\ Legacy \subseteq Invite
  /\ DefaultRole \in {"viewer", "editor"}
  /\ Command \subseteq [kind: Kind, actor: User \cup {None}, user: User \cup {None},
                        id: Nat, role: (Role \ {"owner"}) \cup {None}, version: Nat]
  /\ \A d \in Command :
       /\ d.kind \in {"add", "changeRole", "remove", "ask", "createAccount", "signIn"}
            => d.user \in User
       /\ d.kind \in {"add", "changeRole"} => d.role # None
       /\ d.kind = "revoke" => d.id \in Invite
       /\ d.kind \in {"approve", "reject"} => d.id \in JoinRequest
  /\ MaxVersion \in Nat \ {0, 1} \* a row is at least made and decided

VARIABLES
  db,     \* committed rows
  txn,    \* the transaction of each slot
  expired \* the expiry date of the legacy invites has passed

vars == <<db, txn, expired>>

-----------------------------------------------------------------------------
Key == ({"account", "member"} \X User) \cup ({"invite"} \X Invite)
         \cup ({"request"} \X JoinRequest)

NoRow == [status |-> "none", version |-> 0, role |-> None, user |-> None]
New(status, role, user) ==
  [status |-> status, version |-> 1, role |-> role, user |-> user]

Idle == [pc |-> "idle", op |-> None, rank |-> 0, ver |-> 0,
         grant |-> [user |-> None, role |-> None], todo |-> {}, writes |-> <<>>]

Init ==
  /\ db \in {[k \in Key |->
       CASE k = <<"account", Owner>>                    -> New("active", None, Owner)
         [] k = <<"member", Owner>>                     -> New("active", "owner", Owner)
         [] k[1] = "invite" /\ k[2] \in Legacy          -> New("pending", "editor", u)
         [] OTHER                                       -> NoRow] : u \in User \ {Owner}}
  /\ txn = [s \in Slot |-> Idle]
  /\ expired = FALSE

Op(s) == txn[s].op
Target(s) == <<"member", Op(s).user>>
Read(s, k) == IF k \in DOMAIN txn[s].writes THEN txn[s].writes[k] ELSE db[k]
Locked(s, k) == \E t \in Slot \ {s} : k \in DOMAIN txn[t].writes

Go(s, to) == txn' = [txn EXCEPT ![s].pc = to] /\ UNCHANGED <<db, expired>>
Rejected(s) == txn' = [txn EXCEPT ![s] = Idle] /\ UNCHANGED <<db, expired>>

\* Write row r under key k, once no other transaction holds it.
Put(s, k, r, to) ==
  /\ ~Locked(s, k) /\ r.version <= MaxVersion
  /\ txn' = [txn EXCEPT ![s].writes = Over(Row(k, r), @), ![s].pc = to]
  /\ UNCHANGED <<db, expired>>

Changed(r, status) == [r EXCEPT !.status = status, !.version = @ + 1]

\* The next row to be created.
Fresh(kind, ids) ==
  {i \in ids : db[<<kind, i>>] = NoRow /\ \A t \in Slot : <<kind, i>> \notin DOMAIN txn[t].writes}

-----------------------------------------------------------------------------
(* Authorization, before the handler runs *)

MinRole == [add |-> "admin", changeRole |-> "owner", remove |-> "owner",
            revoke |-> "admin", approve |-> "admin", reject |-> "admin"]

IsMember(u) == db[<<"member", u>>].status = "active"
RankOf(a) == IF a = None THEN Rank["owner"]
             ELSE IF IsMember(a) THEN Rank[db[<<"member", a>>].role] ELSE 0

authorizeWorkspace(d) ==
  /\ d.actor # None => db[<<"account", d.actor>>].status = "active"
  /\ d.kind \in DOMAIN MinRole =>
       \/ d.actor = None
       \/ IsMember(d.actor) /\ RankOf(d.actor) >= Rank[MinRole[d.kind]]
  /\ d.kind = "createAccount" => d.actor = None

\* Nobody grants more than the role they had when the request was authorized.
assertCanGrant(s, role) == Rank[role] <= txn[s].rank

FirstStatement ==
  [add |-> "findUser", changeRole |-> "find", remove |-> "find", revoke |-> "revoke",
   ask |-> "findMember", approve |-> "loadRequest", reject |-> "loadRequest",
   createAccount |-> "createUser", signIn |-> "listInvites"]

Begin(s, d) ==
  /\ txn[s].pc = "idle" /\ authorizeWorkspace(d)
  /\ d.kind = "add" => Rank[d.role] <= RankOf(d.actor)
  /\ txn' = [txn EXCEPT ![s] =
       [Idle EXCEPT !.pc = FirstStatement[d.kind], !.op = d, !.rank = RankOf(d.actor),
                    !.grant = [user |-> d.user, role |-> d.role]]]
  /\ UNCHANGED <<db, expired>>

-----------------------------------------------------------------------------
(* activateMembership *)

GrantKey(s) == <<"member", txn[s].grant.user>>
AfterGrant(s) == IF Op(s).kind \in {"createAccount", "signIn"} THEN "claim" ELSE "commit"

\* An active membership is left as it is.
FindExisting(s) ==
  /\ txn[s].pc = "activate"
  /\ LET m == Read(s, GrantKey(s)) IN
     Go(s, CASE m = NoRow -> "insert" [] m.status = "active" -> AfterGrant(s)
             [] OTHER -> "reactivate")

\* Unique per workspace and user: a second row is refused (and all rolled back).
InsertMember(s) ==
  /\ txn[s].pc = "insert"
  /\ IF db[GrantKey(s)] # NoRow THEN Rejected(s)
     ELSE Put(s, GrantKey(s), New("active", txn[s].grant.role, txn[s].grant.user), AfterGrant(s))

\* UPDATE by id: whatever the row has become since it was found.
Reactivate(s) ==
  /\ txn[s].pc = "reactivate"
  /\ Put(s, GrantKey(s),
         [Changed(Read(s, GrantKey(s)), "active") EXCEPT !.role = txn[s].grant.role],
         AfterGrant(s))

-----------------------------------------------------------------------------
(* POST members: an account joins at once, an email waits for its account *)

FindUser(s) ==
  /\ txn[s].pc = "findUser"
  /\ Go(s, IF db[<<"account", Op(s).user>>] # NoRow THEN "findMember" ELSE "expire")

FindMember(s) ==
  /\ txn[s].pc = "findMember"
  /\ IF db[Target(s)].status = "active" THEN Rejected(s)
     ELSE Go(s, IF Op(s).kind = "ask" THEN "findRequest" ELSE "activate")

Overdue(i) == i \in Legacy /\ expired
PendingInvites(s) == {i \in Invite : Read(s, <<"invite", i>>).status = "pending"}

\* updateMany: every overdue invite of the workspace.
ExpireInvites(s) ==
  /\ txn[s].pc = "expire"
  /\ LET stale == {<<"invite", i>> : i \in {j \in PendingInvites(s) : Overdue(j)}} IN
     /\ \A k \in stale : ~Locked(s, k)
     /\ txn' = [txn EXCEPT ![s].pc = "findInvite",
                           ![s].writes = [k \in stale |-> Changed(db[k], "expired")]]
  /\ UNCHANGED <<db, expired>>

FindInvite(s) ==
  /\ txn[s].pc = "findInvite"
  /\ IF \E i \in PendingInvites(s) : Read(s, <<"invite", i>>).user = Op(s).user
     THEN Rejected(s) ELSE Go(s, "createInvite")

\* Mutant: the role is not kept.
CreateInvite_noRole(s) ==
  /\ txn[s].pc = "createInvite" /\ Fresh("invite", Invite) # {}
  /\ Put(s, <<"invite", Min(Fresh("invite", Invite))>>,
         New("pending", None, Op(s).user), "commit")

CreateInvite(s) ==
  /\ txn[s].pc = "createInvite" /\ Fresh("invite", Invite) # {}
  /\ Put(s, <<"invite", Min(Fresh("invite", Invite))>>,
         New("pending", Op(s).role, Op(s).user), "commit")

-----------------------------------------------------------------------------
(* PATCH and DELETE members: found, and checked, before the transaction *)

\* Mutant: the owner is a member like any other.
FindActive_noOwnerCheck(s) ==
  /\ txn[s].pc = "find"
  /\ IF \/ db[Target(s)].status # "active"
        \/ Op(s).kind = "remove" /\ Op(s).version \notin {0, db[Target(s)].version}
     THEN Rejected(s) ELSE Go(s, Op(s).kind)

FindActive(s) ==
  /\ txn[s].pc = "find"
  /\ LET m == db[Target(s)] IN
     IF \/ m.status # "active" \/ Op(s).user = Owner \/ m.role = "owner"
        \/ Op(s).kind = "remove" /\ Op(s).version \notin {0, m.version}
     THEN Rejected(s) ELSE Go(s, Op(s).kind)

\* Mutant: the version read before the transaction is good enough.
UpdateRole_byId(s) ==
  /\ txn[s].pc = "changeRole"
  /\ Put(s, Target(s), [Changed(db[Target(s)], "active") EXCEPT !.role = Op(s).role], "commit")

\* updateMany where active and version, then ensureUpdated.
UpdateRole(s) ==
  /\ txn[s].pc = "changeRole"
  /\ LET m == db[Target(s)] IN
     IF m.status = "active" /\ m.version = Op(s).version
     THEN Put(s, Target(s), [Changed(m, "active") EXCEPT !.role = Op(s).role], "commit")
     ELSE Rejected(s)

\* UPDATE by id, whatever the version by now.
RemoveMember(s) ==
  /\ txn[s].pc = "remove"
  /\ Put(s, Target(s), Changed(db[Target(s)], "removed"), "commit")

-----------------------------------------------------------------------------
(* DELETE invites; join requests *)

RevokeInvite(s) ==
  /\ txn[s].pc = "revoke"
  /\ LET k == <<"invite", Op(s).id>> IN
     IF db[k].status = "pending" THEN Put(s, k, Changed(db[k], "revoked"), "commit")
     ELSE Rejected(s)

FindOwnRequest(s) ==
  /\ txn[s].pc = "findRequest"
  /\ IF \E j \in JoinRequest : LET r == db[<<"request", j>>] IN
          r.status = "pending" /\ r.user = Op(s).user
     THEN Rejected(s) ELSE Go(s, "createRequest")

CreateRequest(s) ==
  /\ txn[s].pc = "createRequest" /\ Fresh("request", JoinRequest) # {}
  /\ Put(s, <<"request", Min(Fresh("request", JoinRequest))>>,
         New("pending", None, Op(s).user), "commit")

pendingJoinRequest(s) ==
  /\ txn[s].pc = "loadRequest"
  /\ LET r == db[<<"request", Op(s).id>>] IN
     IF \/ r.status # "pending"
        \/ Op(s).version \notin {0, r.version}
     THEN Rejected(s)
     ELSE /\ txn' = [txn EXCEPT
               ![s].pc = "decide", ![s].ver = r.version,
               ![s].grant = [user |-> r.user,
                             role |-> IF Op(s).role = None THEN DefaultRole ELSE Op(s).role]]
          /\ UNCHANGED <<db, expired>>

\* Mutant: the decision is written by id.
DecideRequest_byId(s) ==
  /\ txn[s].pc = "decide"
  /\ LET k == <<"request", Op(s).id>> IN
     IF Op(s).kind = "reject" THEN Put(s, k, Changed(db[k], "rejected"), "commit")
     ELSE IF assertCanGrant(s, txn[s].grant.role)
     THEN Put(s, k, Changed(db[k], "approved"), "activate") ELSE Rejected(s)

\* updateMany where pending and version: one decision wins.  An approval that
\* may not grant the role is rolled back.
DecideRequest(s) ==
  /\ txn[s].pc = "decide"
  /\ LET k == <<"request", Op(s).id>>
         claimed == db[k].status = "pending" /\ db[k].version = txn[s].ver
     IN IF ~claimed THEN Rejected(s)
        ELSE IF Op(s).kind = "reject" THEN Put(s, k, Changed(db[k], "rejected"), "commit")
        ELSE IF assertCanGrant(s, txn[s].grant.role)
        THEN Put(s, k, Changed(db[k], "approved"), "activate") ELSE Rejected(s)

-----------------------------------------------------------------------------
(* A new account, a sign-in: claimPendingInvites *)

CreateUser(s) ==
  /\ txn[s].pc = "createUser"
  /\ LET k == <<"account", Op(s).user>> IN
     IF db[k] # NoRow THEN Rejected(s) ELSE Put(s, k, New("active", None, Op(s).user), "listInvites")

ListInvites(s) ==
  /\ txn[s].pc = "listInvites"
  /\ txn' = [txn EXCEPT ![s].pc = "claim",
       ![s].todo = {i \in PendingInvites(s) : db[<<"invite", i>>].user = Op(s).user /\ ~Overdue(i)}]
  /\ UNCHANGED <<db, expired>>

Claims(s, i) ==
  /\ ~Locked(s, <<"invite", i>>)
  /\ txn' = [txn EXCEPT
       ![s].pc = "activate", ![s].todo = @ \ {i},
       ![s].grant = [user |-> Op(s).user, role |-> db[<<"invite", i>>].role],
       ![s].writes = Over(Row(<<"invite", i>>, Changed(db[<<"invite", i>>], "accepted")), @)]
  /\ UNCHANGED <<db, expired>>

\* Mutants: the count of the update is not looked at; the claim is committed by
\* itself, before the membership.
ClaimInvite_countIgnored(s) ==
  /\ txn[s].pc = "claim"
  /\ IF txn[s].todo = {} THEN Go(s, "commit")
     ELSE LET i == Min(txn[s].todo) IN
          \/ db[<<"invite", i>>].status = "pending" /\ Claims(s, i)
          \/ /\ db[<<"invite", i>>].status # "pending"
             /\ txn' = [txn EXCEPT
                  ![s].pc = "activate", ![s].todo = @ \ {i},
                  ![s].grant = [user |-> Op(s).user, role |-> db[<<"invite", i>>].role]]
             /\ UNCHANGED <<db, expired>>

ClaimInvite_ownTransaction(s) ==
  /\ txn[s].pc = "claim"
  /\ IF txn[s].todo = {} THEN Go(s, "commit")
     ELSE LET i == Min(txn[s].todo) IN
          /\ db' = [db EXCEPT ![<<"invite", i>>] = Changed(@, "accepted")]
          /\ txn' = [txn EXCEPT
               ![s].pc = "activate", ![s].todo = @ \ {i},
               ![s].grant = [user |-> Op(s).user, role |-> db[<<"invite", i>>].role]]
          /\ UNCHANGED expired

\* The oldest first; one revoked or claimed meanwhile is passed over.
ClaimInvite(s) ==
  /\ txn[s].pc = "claim"
  /\ IF txn[s].todo = {} THEN Go(s, "commit")
     ELSE LET i == Min(txn[s].todo) IN
          \/ db[<<"invite", i>>].status = "pending" /\ Claims(s, i)
          \/ /\ db[<<"invite", i>>].status # "pending"
             /\ txn' = [txn EXCEPT ![s].todo = @ \ {i}]
             /\ UNCHANGED <<db, expired>>

-----------------------------------------------------------------------------
Commit(s) ==
  /\ txn[s].pc = "commit"
  /\ db' = Over(txn[s].writes, db)
  /\ txn' = [txn EXCEPT ![s] = Idle]
  /\ UNCHANGED expired

\* A crash or a timeout: the transaction leaves no trace.
Abort(s) == txn[s].pc # "idle" /\ Rejected(s)

TimePasses == Legacy # {} /\ ~expired /\ expired' = TRUE /\ UNCHANGED <<db, txn>>

Statement(s) ==
  \/ FindExisting(s) \/ InsertMember(s) \/ Reactivate(s)
  \/ FindUser(s) \/ FindMember(s) \/ ExpireInvites(s) \/ FindInvite(s) \/ CreateInvite(s)
  \/ FindActive(s) \/ UpdateRole(s) \/ RemoveMember(s) \/ RevokeInvite(s)
  \/ FindOwnRequest(s) \/ CreateRequest(s) \/ pendingJoinRequest(s) \/ DecideRequest(s)
  \/ CreateUser(s) \/ ListInvites(s) \/ ClaimInvite(s) \/ Commit(s)

Next ==
  \/ \E s \in Slot : (\E d \in Command : Begin(s, d)) \/ Statement(s) \/ Abort(s)
  \/ TimePasses

Spec == Init /\ [][Next]_vars
=============================================================================
