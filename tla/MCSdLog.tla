------------------------------ MODULE MCSdLog -------------------------------
(* SdLog for TLC: two digits of base 2, so that the fifth log has no name. *)
EXTENDS SdLog
=============================================================================
