-------------------------------- MODULE PyLong --------------------------------
(***************************************************************************)
(* Python's long: the power and the division, which rounds down.  Pow is   *)
(* what Integers calls b^n, as a recursive function: the limits of the     *)
(* machine integers and the scales of PgNumeric are powers with a variable *)
(* exponent, which the provers do not know under the name of ^.            *)
(***************************************************************************)
EXTENDS Integers

Pow(b, n) == LET p[k \in Nat] == IF k = 0 THEN 1 ELSE b * p[k - 1] IN p[n]

FloorQuotient(a, b) == IF b > 0 THEN a \div b ELSE (-a) \div (-b)
==============================================================================
