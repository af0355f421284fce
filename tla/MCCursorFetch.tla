---------------------------- MODULE MCCursorFetch ----------------------------
(* Small instances of CursorFetch for TLC. *)
EXTENDS CursorFetch

SmallSizes == 0 .. 4
SmallCounts == -1 .. 3

=============================================================================
