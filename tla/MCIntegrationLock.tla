-------------------------- MODULE MCIntegrationLock --------------------------
(* The lock for TLC.  Processes do not differ, but the run checks liveness,   *)
(* so no symmetry is declared.                                                *)
EXTENDS IntegrationLock
=============================================================================
