---------------------------- MODULE MCWorkspaces ----------------------------
(* Bounded instances of Workspaces for TLC. *)
EXTENDS WorkspacesProps, TLC

Symmetry == Permutations(HostSlot) \cup Permutations(VarSlot) \cup Permutations(VarId)
              \cup Permutations(Key)
=============================================================================
