-------------------------------- MODULE DbSession --------------------------------
(* One session and one transaction per request: get_db of                     *)
(* src/app/core/database.py (lines 37-59), as FastAPI runs it around a        *)
(* handler.  The answer of a handler that returns leaves before the code      *)
(* after yield runs; an exception reaches that code before it is answered.    *)
(* A session takes a connection from the pool with its first statement and    *)
(* gives it back when its transaction ends or it is closed.                   *)
EXTENDS Integers

CONSTANTS
    Requests,
    Connections,  \* pool_size + max_overflow of build_engine
    NoConnection, \* of a session that holds none
    MaxWrites,    \* bound: statements of a handler
    MaxCrashes    \* bound: how often the process dies

ASSUME DbSessionAssumptions ==
    /\ NoConnection \notin Connections
    /\ MaxWrites \in Nat \ {0} /\ MaxCrashes \in Nat

VARIABLES
    pc,       \* where the request is
    conn,     \* the connection its session holds
    written,  \* how many writes its handler made
    told,     \* what the client was answered
    cause,    \* history: what kept get_db from deciding its transaction
    tx,       \* the writes of the transaction open on each connection
    disk,     \* the writes that were committed
    crashes

vars == <<pc, conn, written, told, cause, tx, disk, crashes>>

Writes == Requests \X (1..MaxWrites)
WritesOf(r) == {r} \X (1..written[r])
OnDisk(r) == {w \in disk : w[1] = r}
SharedByAll == Connections                                          \* mutant
Free == {c \in Connections : \A r \in Requests : conn[r] # c}
Open(r) == pc[r] \notin {"idle", "ended"}

Init ==
    /\ pc = [r \in Requests |-> "idle"]
    /\ conn = [r \in Requests |-> NoConnection]
    /\ written = [r \in Requests |-> 0]
    /\ told = [r \in Requests |-> "nothing"]
    /\ cause = [r \in Requests |-> "none"]
    /\ tx = [c \in Connections |-> {}]
    /\ disk = {} /\ crashes = 0

Go(r, from, to) == pc[r] = from /\ pc' = [pc EXCEPT ![r] = to]
Because(r, why) == cause' = [cause EXCEPT ![r] = why]

(* What a commit would make durable.                                          *)
Persisted(r) == IF conn[r] = NoConnection THEN {} ELSE tx[conn[r]]

(* The connection goes back to the pool, which rolls back what it still has.  *)
NotReset(r) == tx                                                   \* mutant
Reset(r) == [c \in Connections |-> IF c = conn[r] THEN {} ELSE tx[c]]
GiveBack(r) == conn' = [conn EXCEPT ![r] = NoConnection] /\ tx' = Reset(r)

--------------------------------------------------------------------------------
(* get_db makes the session; no connection yet.                               *)
Enter(r) ==
    /\ Go(r, "idle", "handler")
    /\ UNCHANGED <<conn, written, told, cause, tx, disk, crashes>>

(* The handler's writes, the first of which takes a connection.               *)
Write(r, c) ==
    /\ pc[r] = "handler" /\ written[r] < MaxWrites
    /\ c = conn[r] \/ (conn[r] = NoConnection /\ c \in Free)
    /\ conn' = [conn EXCEPT ![r] = c]
    /\ written' = [written EXCEPT ![r] = @ + 1]
    /\ tx' = [tx EXCEPT ![c] = @ \cup {<<r, written[r] + 1>>}]
    /\ UNCHANGED <<pc, told, cause, disk, crashes>>

(* The handler returns, and its answer is sent.                               *)
Return(r) ==
    /\ Go(r, "handler", "commit")
    /\ told' = [told EXCEPT ![r] = "ok"]
    /\ UNCHANGED <<conn, written, cause, tx, disk, crashes>>

(* It raises: a statement fails, the pool has no connection in time, or an    *)
(* AppException of its own.                                                   *)
Raise(r) ==
    /\ Go(r, "handler", "rollback")
    /\ UNCHANGED <<conn, written, told, cause, tx, disk, crashes>>

(* Sending the answer raises after it began.                                  *)
AnswerBreaks(r) ==
    /\ Go(r, "handler", "rollback")
    /\ told' = [told EXCEPT ![r] = "ok"] /\ Because(r, "cut")
    /\ UNCHANGED <<conn, written, tx, disk, crashes>>

(* The request is cancelled at an await: in its handler, while its answer is  *)
(* sent, or before the code after yield gets a thread to run in.  That code   *)
(* does not run, neither its except nor its else, and the generator is closed *)
(* when it is collected.                                                      *)
Cancel(r, answer) ==
    /\ pc[r] \in {"handler", "commit", "rollback"}
    /\ pc' = [pc EXCEPT ![r] = "close"]
    /\ answer = told[r] \/ (pc[r] = "handler" /\ answer = "ok")
    /\ told' = [told EXCEPT ![r] = answer] /\ Because(r, "cut")
    /\ UNCHANGED <<conn, written, tx, disk, crashes>>

(* else: db.commit().                                                         *)
Commit(r) ==
    /\ Go(r, "commit", "close")
    /\ disk' = disk \cup Persisted(r)
    /\ GiveBack(r)
    /\ UNCHANGED <<written, told, cause, crashes>>

(* The commit raises, whether or not PostgreSQL made it.                      *)
CommitFails(r) ==
    /\ conn[r] # NoConnection
    /\ Go(r, "commit", "close")
    /\ disk' \in {disk, disk \cup Persisted(r)}
    /\ tx' = Reset(r) /\ Because(r, "commit")
    /\ UNCHANGED <<conn, written, told, crashes>>

(* except Exception: db.rollback(); raise.                                    *)
CommitsOnError(r) == Persisted(r)                                    \* mutant
SurvivesError(r) == {}

Rollback(r) ==
    /\ Go(r, "rollback", "close")
    /\ disk' = disk \cup SurvivesError(r)
    /\ GiveBack(r)
    /\ told' = [told EXCEPT ![r] = IF @ = "nothing" THEN "error" ELSE @]
    /\ UNCHANGED <<written, cause, crashes>>

(* finally: db.close().                                                       *)
OnlyWithoutError(r) == cause[r] = "none"                            \* mutant
AlwaysCloses(r) == TRUE

Close(r) ==
    /\ AlwaysCloses(r)
    /\ Go(r, "close", "ended")
    /\ GiveBack(r)
    /\ UNCHANGED <<written, told, cause, disk, crashes>>

(* The process dies: PostgreSQL rolls back what was open.                     *)
Crash ==
    /\ crashes < MaxCrashes /\ crashes' = crashes + 1
    /\ pc' = [r \in Requests |-> IF Open(r) THEN "ended" ELSE pc[r]]
    /\ cause' = [r \in Requests |-> IF Open(r) THEN "death" ELSE cause[r]]
    /\ conn' = [r \in Requests |-> NoConnection]
    /\ tx' = [c \in Connections |-> {}]
    /\ UNCHANGED <<written, told, disk>>

Exit(r) == Commit(r) \/ CommitFails(r) \/ Rollback(r) \/ Close(r)
Handle(r) == Return(r) \/ Raise(r) \/ AnswerBreaks(r)
Next == Crash \/ \E r \in Requests :
    \/ Enter(r) \/ Handle(r) \/ Exit(r)
    \/ \E c \in Connections : Write(r, c)
    \/ \E answer \in {"nothing", "ok"} : Cancel(r, answer)

(* A handler ends, and what get_db does after it, too; nothing has to be      *)
(* cancelled.                                                                 *)
Fairness == \A r \in Requests : WF_vars(Handle(r)) /\ WF_vars(Exit(r))

Spec == Init /\ [][Next]_vars
FairSpec == Spec /\ Fairness

--------------------------------------------------------------------------------
(* Every variable has its type, no two sessions hold one connection, and a    *)
(* request that ended holds none.                                             *)
TypeOK ==
    /\ pc \in [Requests -> {"idle", "handler", "commit", "rollback", "close", "ended"}]
    /\ conn \in [Requests -> Connections \cup {NoConnection}]
    /\ written \in [Requests -> 0..MaxWrites]
    /\ told \in [Requests -> {"nothing", "ok", "error"}]
    /\ cause \in [Requests -> {"none", "cut", "commit", "death"}]
    /\ tx \in [Connections -> SUBSET Writes]
    /\ disk \subseteq Writes
    /\ crashes \in 0..MaxCrashes
    /\ \A r, s \in Requests : conn[r] = conn[s] /\ conn[r] # NoConnection => r = s
    /\ \A r \in Requests : pc[r] = "ended" => conn[r] = NoConnection

(* The writes of a request persist all or none, never while its handler runs, *)
(* never through the transaction of another request on the same connection,   *)
(* and never when it was answered with an error.  A request that was answered *)
(* with success has them all on disk when it ends, with three exceptions: its *)
(* commit failed or the process died with it, which leaves all or none, and   *)
(* its answer broke or it was cancelled before the commit, after the client   *)
(* had the start of the answer: then none of them persists.                   *)
AnswerMatchesData ==
    \A r \in Requests :
        /\ OnDisk(r) \in {{}, WritesOf(r)}
        /\ (pc[r] \notin {"close", "ended"} \/ told[r] # "ok") => OnDisk(r) = {}
        /\ cause[r] = "cut" => OnDisk(r) = {}
        /\ pc[r] = "ended" /\ told[r] = "ok" /\ cause[r] = "none" => OnDisk(r) = WritesOf(r)

(* Every session is closed in the end and its connection back in the pool,    *)
(* whether its handler returned, raised or was cancelled and whether its      *)
(* commit went through.                                                       *)
SessionsEnd == \A r \in Requests : Open(r) ~> pc[r] = "ended"
================================================================================
