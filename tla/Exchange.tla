-------------------------------- MODULE Exchange --------------------------------
(* What a client and the operator of the access log are promised of one HTTP  *)
(* exchange, whatever the layers do inside (src/app/main.py 88-98,            *)
(* src/app/core/middleware/observability.py 19-28): at most one answer, whose *)
(* status never changes; one access line; a line written after the answer     *)
(* began carries its status; and nothing is answered after the line, except   *)
(* the bare 500 of the server itself when nothing was.                        *)
EXTENDS Integers

CONSTANT Codes     \* the statuses an answer may have

VARIABLES answer,  \* the status answered, 0 before
          sealed,  \* the answer is complete
          entry    \* the status in the access line, -1 before

xvars == <<answer, sealed, entry>>

XInit == answer = 0 /\ sealed = FALSE /\ entry = -1

Answer == /\ answer = 0 /\ entry = -1
          /\ answer' \in Codes
          /\ UNCHANGED <<sealed, entry>>

Seal == /\ answer # 0 /\ ~sealed /\ entry = -1
        /\ sealed' = TRUE
        /\ UNCHANGED <<answer, entry>>

Record == /\ entry = -1
          /\ entry' \in IF answer = 0 THEN Codes \cup {0} ELSE {answer}
          /\ UNCHANGED <<answer, sealed>>

LastResort == /\ entry # -1 /\ answer = 0
              /\ answer' = 500 /\ sealed' = TRUE
              /\ UNCHANGED entry

XNext == Answer \/ Seal \/ Record \/ LastResort

XSpec == XInit /\ [][XNext]_xvars
================================================================================
