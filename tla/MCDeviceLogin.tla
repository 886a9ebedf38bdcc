---------------------------- MODULE MCDeviceLogin ----------------------------
(* Bounded instances of DeviceLogin for TLC. *)
EXTENDS DeviceLoginProps, TLC

CONSTANTS s1, s2, ann, bob

Symmetry == Permutations(Slot) \cup Permutations(User)
=============================================================================
