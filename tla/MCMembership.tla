---------------------------- MODULE MCMembership ----------------------------
(* Bounded instances of Membership for TLC. *)
EXTENDS MembershipProps, TLC

CONSTANTS s1, s2, owner, ann, bob

cmd(kind, actor, user, id, role, version) ==
  [kind |-> kind, actor |-> actor, user |-> user, id |-> id, role |-> role, version |-> version]

Guest == User \ {Owner}

\* The owner, or a guest who has become an admin, decides; the platform admin
\* creates accounts; guests ask, and sign in.
Commands ==
  {cmd("add", a, u, 0, r, 0) : a \in {Owner}, u \in Guest, r \in {"viewer", "admin"}}
  \cup {cmd("changeRole", Owner, u, 0, "editor", v) : u \in User, v \in 1 .. 2}
  \cup {cmd("remove", Owner, u, 0, None, 0) : u \in User}
  \cup {cmd("revoke", Owner, None, i, None, 0) : i \in Invite}
  \cup {cmd("ask", u, u, 0, None, 0) : u \in Guest}
  \cup {cmd("approve", Owner, None, j, None, 0) : j \in JoinRequest}
  \cup {cmd("approve", a, None, j, "admin", 0) : a \in Guest, j \in JoinRequest}
  \cup {cmd("reject", a, None, j, None, 1) : a \in User, j \in JoinRequest}
  \cup {cmd("createAccount", None, u, 0, None, 0) : u \in Guest}
  \cup {cmd("signIn", u, u, 0, None, 0) : u \in Guest}

Symmetry == Permutations(Slot)
=============================================================================
