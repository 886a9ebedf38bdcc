----------------------------- MODULE MCSyncLog -----------------------------
(***************************************************************************)
(* Small instances of SyncLog for TLC: two requests at a time, and for     *)
(* each run the operations worth interleaving.                             *)
(***************************************************************************)
EXTENDS SyncLogProps, TLC

CONSTANTS s1, s2, c1, c2, o1, o2, o3, x1, r1, r2

TwoSlots == {s1, s2}
Symmetry == Permutations(TwoSlots)

Op(o, r, k, b) ==
  [operation_id |-> o, resource_id |-> r, op |-> k, base_version |-> b]

Create(o, r)    == Op(o, r, "upsert", 0)
Updates(o, r)   == {Op(o, r, "upsert", b) : b \in 0 .. 2}

\* Two pushed upserts and a REST create or update of one resource, creates and an
\* update of another.
UpsertOps ==
  UNION {Updates(o, r1) : o \in {o1, o2, x1}} \cup
  {Create(o2, r2), Create(x1, r2), Op(x1, r2, "upsert", 1)}

\* A pushed create, an update or delete of it, a REST delete (with and without
\* the version) or update of it, and a second create with the same id.
DeleteOps == {Create(o1, r1), Op(o2, r1, "upsert", 1), Op(o2, r1, "delete", 1),
              Create(o3, r1), Op(x1, r1, "upsert", 1)} \cup
             {Op(x1, r1, "delete", b) : b \in 0 .. 1}
=============================================================================
