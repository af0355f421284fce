----------------------------- MODULE MCLOSession -----------------------------
(* Small instances of LOSession for TLC. *)
EXTENDS LOSession, TLC

Symmetry == Permutations(Objects) \cup Permutations(Oids)

=============================================================================
