--------------------------- MODULE MCConfigPortal ---------------------------
(* ConfigPortal for TLC: a timeout of 3 units in a cycle of 16.            *)
EXTENDS ConfigPortal
=============================================================================
