---------------------------- MODULE MCSnapshot ----------------------------
(* Bounded instances of Snapshot for TLC. *)
EXTENDS Snapshot

FlatChanges == {"create", "edit", "delete"}

\* Two kinds of writes during which SnapshotConverges fails (README, "Known not
\* to hold").
MoveChanges == {"create", "edit", "moveSubtree"}
DeleteChanges == {"create", "deleteFolder"}
=============================================================================
