---------------------------- MODULE MCPionTasks -----------------------------
(* PionTasks for TLC: voltages below, at and above the alarm, the lowest   *)
(* outside what mapfloat maps; a cache of two samples; a GPS deadline of 2 *)
(* units in a cycle of 6, passes of 1 or 2 and copies of up to 1.          *)
EXTENDS PionTasks
=============================================================================
