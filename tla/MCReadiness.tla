------------------------------ MODULE MCReadiness ------------------------------
(* A small instance of Readiness: two threads and one connection, so that a   *)
(* thread meets a pinned pool, a cache written behind its back and a stale    *)
(* connection.                                                                *)
EXTENDS Readiness

CONSTANTS p1, p2
MCProbes == {p1, p2}
================================================================================
