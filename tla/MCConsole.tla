----------------------------- MODULE MCConsole ------------------------------
(* Console for TLC: ids of the digits 1 and 6, in globals with four values *)
(* instead of 256, so that two digits overflow them.                       *)
EXTENDS Console

MCDigit == [d \in {"1", "6"} |-> IF d = "1" THEN 1 ELSE 6]

=============================================================================
