------------------------------- MODULE MCStorage -------------------------------
(* Small instances of Storage: two threads of one process race over one       *)
(* bucket and one key.                                                        *)
EXTENDS Storage, TLC

CONSTANTS p1, t1, t2
OneProcess == (t1 :> p1) @@ (t2 :> p1)
Alike == Permutations({t1, t2})
================================================================================
