-------------------------------- MODULE Delivery --------------------------------
(* What the task queue promises to those who publish: a message it accepted   *)
(* is owed until a run of its task came to an end, whatever happens to those  *)
(* who run it.                                                                *)
(* A broker that restarts owes nothing any more, and is closed until it is    *)
(* opened again: what it accepts while it is closed it never owes.            *)
CONSTANT Messages

VARIABLES accepted, owed, ran, open

vars == <<accepted, owed, ran, open>>

Init ==
    /\ accepted = {} /\ owed = {} /\ ran = {}
    /\ open \in BOOLEAN

Accept(m) ==
    /\ m \notin accepted
    /\ accepted' = accepted \cup {m}
    /\ owed' = IF open THEN owed \cup {m} ELSE owed
    /\ UNCHANGED <<ran, open>>

(* A run ends; a message may be run again, even one that is owed no more.     *)
Run(m) ==
    /\ m \in accepted
    /\ ran' = ran \cup {m}
    /\ UNCHANGED <<accepted, owed, open>>

Settle(m) ==
    /\ m \in owed \cap ran
    /\ owed' = owed \ {m}
    /\ UNCHANGED <<accepted, ran, open>>

Restart == open' = FALSE /\ owed' = {} /\ UNCHANGED <<accepted, ran>>

Open == open' = TRUE /\ UNCHANGED <<accepted, owed, ran>>

Next ==
    \/ \E m \in Messages : Accept(m) \/ Run(m) \/ Settle(m)
    \/ Restart
    \/ Open

Spec == Init /\ [][Next]_vars
================================================================================
