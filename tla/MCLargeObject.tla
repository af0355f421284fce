---------------------------- MODULE MCLargeObject ----------------------------
(* Small instances of LargeObject for TLC: letters and newlines. *)
EXTENDS LargeObject

Letters == {97, 10}
SmallSizes == 0 .. 3
Whereabouts == -1 .. 3
Ahead == 0 .. 5

=============================================================================
