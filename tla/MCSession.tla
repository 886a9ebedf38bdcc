------------------------------ MODULE MCSession ------------------------------
(* Bounded instances of Session for TLC. *)
EXTENDS SessionProps, FiniteSets, TLC

\* Tabs of one browser are alike.
Symmetry == Permutations(CHOOSE b \in Browser : \A c \in Browser : Cardinality(c) <= Cardinality(b))
=============================================================================
