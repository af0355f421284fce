------------------------------- MODULE MCPgSQL -------------------------------
(* Small instances of PgSQL for TLC. *)
EXTENDS PgSQL, TLC

Symmetry == Permutations(Cursors) \cup Permutations(Writes)

=============================================================================
