---------------------------- MODULE MCTelemetry -----------------------------
(* Telemetry for TLC: the task that publishes the most members, of which   *)
(* the packet reads some twice, and a CO2 sensor that may fail at boot.    *)
EXTENDS Telemetry
=============================================================================
