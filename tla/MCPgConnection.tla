--------------------------- MODULE MCPgConnection ---------------------------
(* A small instance of PgConnection for TLC. *)
EXTENDS PgConnection

SmallPrograms ==
    {<<"TUPLES_OK", "INTEGRITY_ERROR">>, <<"COPY_OUT">>, <<"COPY_IN">>}

\* A line that takes getline three chunks: one char, two chars, and its newline;
\* and getlineAsync two buffers; and a line that overruns these.
TwoLines == <<<<1, 2, 3>>, <<1, 2, 3, 4>>>>

=============================================================================
