-------------------------- MODULE MembershipProps --------------------------
(***************************************************************************)
(* What adding, inviting, approving and removing people promise.           *)
(***************************************************************************)
EXTENDS Membership

Status == [account |-> {"active"}, member |-> {"active", "removed"},
           invite  |-> {"pending", "accepted", "revoked", "expired"},
           request |-> {"pending", "approved", "rejected"}]

RowOf(k) ==
  [status: Status[k[1]], version: 1 .. MaxVersion, user: User,
   role: IF k[1] \in {"member", "invite"} THEN Role ELSE {None}]

\* Committed and uncommitted rows have the shapes the schema gives them.
TypeOK ==
  /\ \A k \in Key : db[k] = NoRow \/ db[k] \in RowOf(k)
  /\ \A s \in Slot :
       /\ DOMAIN txn[s].writes \subseteq Key
       /\ \A k \in DOMAIN txn[s].writes : txn[s].writes[k] \in RowOf(k)
       /\ txn[s].todo \subseteq Invite
       /\ txn[s].op \in Command \cup {None}
  /\ expired \in BOOLEAN

\* The creator stays the one owner, and a member, whatever is asked of, or
\* granted to, them and others ("the workspace owner cannot be removed", "the
\* workspace owner's role cannot be changed").
OwnerStays ==
  /\ IsMember(Owner)
  /\ \A u \in User : db[<<"member", u>>].role = "owner" <=> u = Owner

\* An invite or a join request is decided once: accepted or revoked or expired,
\* approved or rejected, and never touched again, however the people who decide
\* and the person who signs in race.
DecisionsAreFinal ==
  [][\A k \in Key : k[1] \in {"invite", "request"} /\ db[k].status \notin {"none", "pending"}
       => db'[k] = db[k]]_vars

Granted(k, status) == db[k].status = "pending" /\ db'[k].status = status

\* Nobody becomes a member without a grant of their own, made in the same
\* transaction: an invite to them that was still pending is accepted, and gives
\* its role; a request of theirs that was still pending is approved; or somebody
\* adds them, and they have an account.
JoinsAreGranted ==
  [][\A u \in User :
       LET m == <<"member", u>> IN
       db[m].status # "active" /\ db'[m].status = "active" =>
         \/ \E i \in Invite :
              /\ db[<<"invite", i>>].user = u /\ Granted(<<"invite", i>>, "accepted")
              /\ db'[m].role = db[<<"invite", i>>].role
         \/ \E j \in JoinRequest :
              db[<<"request", j>>].user = u /\ Granted(<<"request", j>>, "approved")
         \/ \E s \in Slot :
              /\ txn[s].pc = "commit" /\ Op(s).kind = "add" /\ Op(s).user = u
              /\ db[<<"account", u>>].status = "active"
              /\ db'[m].role = Op(s).role]_vars

\* Accepting or approving and joining are one: whoever was granted a membership
\* has one (or had it, and was removed since), also when a transaction dies half
\* way ("create the membership (atomic)").
GrantedPeopleJoined ==
  \A k \in Key : db[k].status \in {"accepted", "approved"} => db[<<"member", db[k].user>>] # NoRow

\* A role change replaces exactly the version the admin saw, of a member who is
\* still active: it never overwrites another role change, or a removal, that it
\* has not seen.  (A removal is by id, and does overwrite a role change.)
NoLostRoleChange ==
  [][\A s \in Slot :
       txn[s].pc = "commit" /\ txn'[s].pc = "idle" /\ db' # db /\ Op(s).kind = "changeRole" =>
         /\ db[Target(s)].status = "active" /\ db[Target(s)].version = Op(s).version
         /\ db'[Target(s)].role = Op(s).role]_vars
=============================================================================
