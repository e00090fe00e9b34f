------------------------------- MODULE MCHeartbeat -------------------------------
(* The scheduled period and the check of the scheduler are two ticks each, as *)
(* the 60s of both against the 30s of the worker's probe.                     *)
EXTENDS Heartbeat
================================================================================
