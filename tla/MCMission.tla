------------------------------ MODULE MCMission -----------------------------
(* Mission for TLC.  The interval is 2 units, a portal with passes of 1 and *)
(* 2 is late after 4, the delay of STATE_0 counts 1, the cycle is 9.        *)
EXTENDS Mission
=============================================================================
