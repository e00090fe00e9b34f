---------------------------- MODULE DbSessionProofs ----------------------------
(* Theorems about DbSession, for every set of requests and of connections.    *)
EXTENDS DbSession, TLAPS

(* What a request has done so far, on its connection and on disk: while its   *)
(* transaction is open it holds exactly its writes, and disk holds none.      *)
EvidenceOf(r) ==
    /\ pc[r] = "idle" => conn[r] = NoConnection /\ written[r] = 0
    /\ pc[r] \in {"idle", "handler"} => told[r] = "nothing"
    /\ pc[r] = "commit" => told[r] = "ok"
    /\ pc[r] \in {"idle", "handler", "commit"} => cause[r] = "none"
    /\ pc[r] = "rollback" /\ told[r] = "ok" => cause[r] = "cut"
    /\ cause[r] = "cut" => OnDisk(r) = {}
    /\ pc[r] \in {"handler", "commit", "rollback"} => Persisted(r) = WritesOf(r)
    /\ pc[r] \notin {"close", "ended"} => OnDisk(r) = {}
    /\ OnDisk(r) \in {{}, WritesOf(r)}
    /\ told[r] # "ok" => OnDisk(r) = {}
    /\ pc[r] \in {"close", "ended"} /\ told[r] = "ok" /\ cause[r] = "none" =>
           OnDisk(r) = WritesOf(r)

(* A connection in the pool carries nothing over to its next session.         *)
FreeIsClean == \A c \in Free : tx[c] = {}

Inv == TypeOK /\ FreeIsClean /\ \A r \in Requests : EvidenceOf(r)

--------------------------------------------------------------------------------
LEMMA TypeInit == Init => TypeOK
  BY DbSessionAssumptions DEF Init, TypeOK, Writes

(* Handing the connection back keeps the types.                               *)
LEMMA GiveBackTypes ==
    ASSUME TypeOK, NEW r \in Requests, GiveBack(r)
    PROVE  /\ conn' \in [Requests -> Connections \cup {NoConnection}]
           /\ conn'[r] = NoConnection
           /\ \A s \in Requests : s # r => conn'[s] = conn[s]
           /\ tx' \in [Connections -> SUBSET Writes]
           /\ \A c \in Connections : tx'[c] = IF c = conn[r] THEN {} ELSE tx[c]
  BY DEF TypeOK, GiveBack, Reset

LEMMA PersistedTypes ==
    ASSUME TypeOK, NEW r \in Requests
    PROVE  Persisted(r) \in SUBSET Writes
  BY DEF TypeOK, Persisted

LEMMA TypeNext == TypeOK /\ [Next]_vars => TypeOK'
<1> SUFFICES ASSUME TypeOK, [Next]_vars PROVE TypeOK'
  OBVIOUS
<1> USE DbSessionAssumptions
<1>1. CASE UNCHANGED vars
  BY <1>1 DEF vars, TypeOK, Writes
<1>2. CASE Crash
  BY <1>2 DEF Crash, Open, TypeOK, Writes
<1>3. ASSUME NEW r \in Requests, Enter(r) PROVE TypeOK'
  BY <1>3 DEF Enter, Go, TypeOK, Writes
<1>4. ASSUME NEW r \in Requests, NEW c \in Connections, Write(r, c) PROVE TypeOK'
  <2>1. written[r] + 1 \in 1..MaxWrites
    BY <1>4 DEF Write, TypeOK
  <2>2. tx' \in [Connections -> SUBSET Writes]
    BY <1>4, <2>1 DEF Write, TypeOK, Writes
  <2>3. /\ written' \in [Requests -> 0..MaxWrites]
        /\ conn' \in [Requests -> Connections \cup {NoConnection}]
    BY <1>4, <2>1 DEF Write, TypeOK
  <2>4. \A a, b \in Requests : conn'[a] = conn'[b] /\ conn'[a] # NoConnection => a = b
    BY <1>4 DEF Write, TypeOK, Free
  <2>5. \A s \in Requests : pc'[s] = "ended" => conn'[s] = NoConnection
    BY <1>4 DEF Write, TypeOK
  <2> QED
    BY <1>4, <2>2, <2>3, <2>4, <2>5 DEF Write, TypeOK, Writes
<1>5. ASSUME NEW r \in Requests, Handle(r) PROVE TypeOK'
  BY <1>5 DEF Handle, Return, Raise, AnswerBreaks, Go, Because, TypeOK, Writes
<1>6. ASSUME NEW r \in Requests, Commit(r) PROVE TypeOK'
  <2>1. disk' \in SUBSET Writes
    BY <1>6, PersistedTypes DEF Commit, TypeOK
  <2> QED
    BY <1>6, <2>1, GiveBackTypes DEF Commit, Go, TypeOK, Writes
<1>7. ASSUME NEW r \in Requests, CommitFails(r) PROVE TypeOK'
  <2>1. disk' \in SUBSET Writes
    BY <1>7, PersistedTypes DEF CommitFails, TypeOK
  <2>2. tx' \in [Connections -> SUBSET Writes]
    BY <1>7 DEF CommitFails, Reset, TypeOK
  <2> QED
    BY <1>7, <2>1, <2>2 DEF CommitFails, Go, Because, TypeOK, Writes
<1>8. ASSUME NEW r \in Requests, Rollback(r) PROVE TypeOK'
  BY <1>8, GiveBackTypes DEF Rollback, SurvivesError, Go, TypeOK, Writes
<1>9. ASSUME NEW r \in Requests, Close(r) PROVE TypeOK'
  BY <1>9, GiveBackTypes DEF Close, Go, TypeOK, Writes
<1>10. ASSUME NEW r \in Requests, NEW answer \in {"nothing", "ok"}, Cancel(r, answer)
       PROVE  TypeOK'
  BY <1>10 DEF Cancel, Because, TypeOK, Writes
<1> QED
  BY <1>1, <1>2, <1>3, <1>4, <1>5, <1>6, <1>7, <1>8, <1>9, <1>10 DEF Next, Exit

--------------------------------------------------------------------------------
(* The steps of one request leave the others as they were.                    *)
LEMMA OthersUntouched ==
    ASSUME NEW s \in Requests, EvidenceOf(s),
           pc'[s] = pc[s], conn'[s] = conn[s], written'[s] = written[s],
           told'[s] = told[s], cause'[s] = cause[s],
           Persisted(s)' = Persisted(s), OnDisk(s)' = OnDisk(s)
    PROVE  EvidenceOf(s)'
  BY DEF EvidenceOf, WritesOf

(* Only the writes of r can become durable with r's transaction.              *)
LEMMA OnDiskAfter ==
    ASSUME NEW r \in Requests, NEW s \in Requests, NEW W,
           W \in {{}, WritesOf(r)}, disk' = disk \cup W
    PROVE  OnDisk(s)' = IF s = r THEN OnDisk(r) \cup W ELSE OnDisk(s)
<1>1. \A w \in W : w[1] = r
  BY DEF WritesOf
<1> QED
  BY <1>1 DEF OnDisk

LEMMA OthersPersist ==
    ASSUME TypeOK, NEW r \in Requests, NEW s \in Requests, s # r,
           conn'[s] = conn[s],
           \A c \in Connections : c # conn[r] => tx'[c] = tx[c]
    PROVE  Persisted(s)' = Persisted(s)
  BY DEF TypeOK, Persisted

(* A handler starts, ends, or is cut off: data stays as it is.                *)
Cancels(r) == \E answer \in {"nothing", "ok"} : Cancel(r, answer)

LEMMA HandlerSteps ==
    ASSUME Inv, NEW r \in Requests, Enter(r) \/ Handle(r) \/ Cancels(r)
    PROVE  FreeIsClean' /\ \A s \in Requests : EvidenceOf(s)'
<1>1. /\ conn' = conn /\ tx' = tx /\ disk' = disk /\ written' = written
      /\ \A s \in Requests : s # r =>
             pc'[s] = pc[s] /\ told'[s] = told[s] /\ cause'[s] = cause[s]
  BY DEF Inv, TypeOK, Enter, Handle, Return, Raise, AnswerBreaks, Cancels, Cancel, Go, Because
<1>2. \A s \in Requests : Persisted(s)' = Persisted(s) /\ OnDisk(s)' = OnDisk(s)
  BY <1>1 DEF Persisted, OnDisk
<1>3. FreeIsClean'
  BY <1>1 DEF Inv, FreeIsClean, Free
<1>4. \A s \in Requests : s # r => EvidenceOf(s)'
  BY <1>1, <1>2, OthersUntouched DEF Inv
<1>5. EvidenceOf(r) /\ WritesOf(r)' = WritesOf(r)
  BY <1>1 DEF Inv, WritesOf
<1>6. CASE Enter(r)
  <2>1. Persisted(r) = {} /\ WritesOf(r) = {}
    BY <1>5, <1>6 DEF Enter, Go, EvidenceOf, Persisted, WritesOf
  <2>2. /\ pc[r] = "idle" /\ pc'[r] = "handler" /\ told'[r] = told[r]
        /\ cause'[r] = cause[r]
    BY <1>6 DEF Enter, Go, Inv, TypeOK
  <2>3. EvidenceOf(r)'
    BY <1>1, <1>2, <1>5, <2>1, <2>2 DEF EvidenceOf
  <2> QED
    BY <1>3, <1>4, <2>3
<1>7. CASE Handle(r)
  <2>1. EvidenceOf(r)'
    <3>1. pc[r] = "handler" /\ told[r] = "nothing" /\ OnDisk(r) = {}
      BY <1>5, <1>7 DEF Handle, Return, Raise, AnswerBreaks, Go, EvidenceOf
    <3>2. CASE Return(r)
      BY <1>1, <1>2, <1>5, <3>1, <3>2 DEF Inv, TypeOK, Return, Go, EvidenceOf
    <3>3. CASE Raise(r)
      BY <1>1, <1>2, <1>5, <3>1, <3>3 DEF Inv, TypeOK, Raise, Go, EvidenceOf
    <3>4. CASE AnswerBreaks(r)
      BY <1>1, <1>2, <1>5, <3>1, <3>4 DEF Inv, TypeOK, AnswerBreaks, Go, Because, EvidenceOf
    <3> QED
      BY <1>7, <3>2, <3>3, <3>4 DEF Handle
  <2> QED
    BY <1>3, <1>4, <2>1
<1>8. CASE Cancels(r)
  <2>1. /\ pc[r] \in {"handler", "commit", "rollback"} /\ OnDisk(r) = {}
        /\ pc'[r] = "close" /\ cause'[r] = "cut"
    BY <1>5, <1>8 DEF Cancels, Cancel, Because, Inv, TypeOK, EvidenceOf
  <2>2. EvidenceOf(r)'
    BY <1>2, <1>5, <2>1 DEF EvidenceOf
  <2> QED
    BY <1>3, <1>4, <2>2
<1> QED
  BY <1>6, <1>7, <1>8

(* A write adds one to its own transaction, on a connection of its own.       *)
LEMMA WriteSteps ==
    ASSUME Inv, NEW r \in Requests, NEW c \in Connections, Write(r, c)
    PROVE  FreeIsClean' /\ \A s \in Requests : EvidenceOf(s)'
<1> USE DbSessionAssumptions
<1>1. /\ conn'[r] = c /\ written'[r] = written[r] + 1 /\ written[r] \in Nat
      /\ tx'[c] = tx[c] \cup {<<r, written[r] + 1>>}
      /\ \A d \in Connections : d # c => tx'[d] = tx[d]
      /\ \A s \in Requests : s # r => conn'[s] = conn[s] /\ written'[s] = written[s]
      /\ pc' = pc /\ told' = told /\ cause' = cause /\ disk' = disk
  BY DEF Inv, TypeOK, Write
<1>2. \A s \in Requests : s # r => conn[s] # c
  BY DEF Inv, TypeOK, Write, Free
<1>3. tx[c] = WritesOf(r)
  <2>1. CASE c = conn[r]
    BY <2>1 DEF Inv, EvidenceOf, Write, Persisted
  <2>2. CASE conn[r] = NoConnection /\ c \in Free
    <3>1. tx[c] = {}
      BY <2>2 DEF Inv, FreeIsClean
    <3>2. WritesOf(r) = {}
      BY <2>2 DEF Inv, EvidenceOf, Write, Persisted
    <3> QED
      BY <3>1, <3>2
  <2> QED
    BY <2>1, <2>2 DEF Write
<1>4. WritesOf(r) \cup {<<r, written[r] + 1>>} = {r} \X (1..(written[r] + 1))
  BY <1>1 DEF WritesOf
<1>5. Persisted(r)' = WritesOf(r)'
  BY <1>1, <1>3, <1>4 DEF Persisted, WritesOf
<1>6. \A s \in Requests : OnDisk(s)' = OnDisk(s)
  BY <1>1 DEF OnDisk
<1>7. EvidenceOf(r)'
  <2>1. pc[r] = "handler" /\ EvidenceOf(r)
    BY DEF Write, Inv
  <2> QED
    BY <1>1, <1>5, <1>6, <2>1 DEF EvidenceOf
<1>8. \A s \in Requests : s # r => Persisted(s)' = Persisted(s)
  BY <1>1, <1>2 DEF Persisted, Inv, TypeOK
<1>9. \A s \in Requests : s # r => EvidenceOf(s)'
  BY <1>1, <1>6, <1>8, OthersUntouched DEF Inv
<1>10. FreeIsClean'
  <2> SUFFICES ASSUME NEW d \in Free' PROVE tx'[d] = {}
    BY DEF FreeIsClean
  <2>1. d \in Connections /\ d # c
    BY <1>1 DEF Free
  <2>2. d \in Free \/ d = conn[r]
    BY <1>1, <2>1 DEF Free
  <2>3. d # conn[r]
    BY <2>1 DEF Write, Free
  <2> QED
    BY <1>1, <2>1, <2>2, <2>3 DEF Inv, FreeIsClean
<1> QED
  BY <1>7, <1>9, <1>10

--------------------------------------------------------------------------------
(* What get_db does after the handler: at most r's own writes become durable, *)
(* and its connection is reset.                                               *)
LEMMA ExitFrame ==
    ASSUME Inv, NEW r \in Requests, Exit(r)
    PROVE  /\ written' = written
           /\ \A c \in Connections : tx'[c] = IF c = conn[r] THEN {} ELSE tx[c]
           /\ conn'[r] \in {conn[r], NoConnection}
           /\ \A s \in Requests : s # r =>
                  /\ pc'[s] = pc[s] /\ conn'[s] = conn[s]
                  /\ told'[s] = told[s] /\ cause'[s] = cause[s]
<1>1. CASE Commit(r)
  BY <1>1, GiveBackTypes DEF Inv, TypeOK, Commit, Go
<1>2. CASE CommitFails(r)
  BY <1>2 DEF Inv, TypeOK, CommitFails, Go, Because, Reset
<1>3. CASE Rollback(r)
  BY <1>3, GiveBackTypes DEF Inv, TypeOK, Rollback, Go
<1>4. CASE Close(r)
  BY <1>4, GiveBackTypes DEF Inv, TypeOK, Close, Go
<1> QED
  BY <1>1, <1>2, <1>3, <1>4 DEF Exit

LEMMA ExitDisk ==
    ASSUME Inv, NEW r \in Requests, Exit(r)
    PROVE  \E W \in {{}, WritesOf(r)} :
               /\ disk' = disk \cup W
               /\ Commit(r) => W = WritesOf(r)
               /\ ~(Commit(r) \/ CommitFails(r)) => W = {}
<1>1. pc[r] = "commit" => Persisted(r) = WritesOf(r)
  BY DEF Inv, EvidenceOf
<1>2. CASE Commit(r)
  BY <1>1, <1>2 DEF Commit, Go
<1>3. CASE CommitFails(r) /\ ~Commit(r)
  BY <1>1, <1>3 DEF CommitFails, Go
<1>4. CASE Rollback(r) /\ ~(Commit(r) \/ CommitFails(r))
  BY <1>4 DEF Rollback, SurvivesError
<1>5. CASE Close(r) /\ ~(Commit(r) \/ CommitFails(r))
  BY <1>5 DEF Close
<1> QED
  BY <1>2, <1>3, <1>4, <1>5 DEF Exit

LEMMA ExitSteps ==
    ASSUME Inv, NEW r \in Requests, Exit(r)
    PROVE  FreeIsClean' /\ \A s \in Requests : EvidenceOf(s)'
<1>1. PICK W \in {{}, WritesOf(r)} :
          /\ disk' = disk \cup W
          /\ Commit(r) => W = WritesOf(r)
          /\ ~(Commit(r) \/ CommitFails(r)) => W = {}
  BY ExitDisk
<1>2. /\ OnDisk(r)' = OnDisk(r) \cup W
      /\ \A s \in Requests : s # r => OnDisk(s)' = OnDisk(s)
  BY <1>1, OnDiskAfter
<1>3. \A s \in Requests : s # r => EvidenceOf(s)'
  BY <1>2, ExitFrame, OthersPersist, OthersUntouched DEF Inv
<1>4. FreeIsClean'
  <2> SUFFICES ASSUME NEW c \in Free' PROVE tx'[c] = {}
    BY DEF FreeIsClean
  <2>1. c \in Connections /\ (c \in Free \/ c = conn[r])
    BY ExitFrame DEF Free
  <2> QED
    BY <2>1, ExitFrame DEF Inv, FreeIsClean
<1>5. EvidenceOf(r) /\ WritesOf(r)' = WritesOf(r)
  BY ExitFrame DEF Inv, WritesOf
<1>6. EvidenceOf(r)'
  <2>1. CASE Commit(r)
    BY <1>1, <1>2, <1>5, <2>1 DEF Inv, TypeOK, Commit, Go, EvidenceOf
  <2>2. CASE CommitFails(r)
    BY <1>1, <1>2, <1>5, <2>2 DEF Inv, TypeOK, CommitFails, Go, Because, EvidenceOf
  <2>3. CASE Rollback(r) /\ ~(Commit(r) \/ CommitFails(r))
    BY <1>1, <1>2, <1>5, <2>3 DEF Inv, TypeOK, Rollback, Go, EvidenceOf
  <2>4. CASE Close(r) /\ ~(Commit(r) \/ CommitFails(r))
    BY <1>1, <1>2, <1>5, <2>4 DEF Inv, TypeOK, Close, Go, EvidenceOf
  <2> QED
    BY <2>1, <2>2, <2>3, <2>4 DEF Exit
<1> QED
  BY <1>3, <1>4, <1>6

(* A crash leaves only what was committed, and excuses those it cut off.      *)
LEMMA CrashSteps ==
    ASSUME Inv, Crash
    PROVE  FreeIsClean' /\ \A s \in Requests : EvidenceOf(s)'
<1>1. FreeIsClean'
  BY DEF Crash, FreeIsClean, Free
<1>2. ASSUME NEW s \in Requests PROVE EvidenceOf(s)'
  <2>1. OnDisk(s)' = OnDisk(s) /\ WritesOf(s)' = WritesOf(s)
    BY DEF Crash, OnDisk, WritesOf
  <2>2. /\ pc'[s] = IF Open(s) THEN "ended" ELSE pc[s]
        /\ cause'[s] = IF Open(s) THEN "death" ELSE cause[s]
        /\ conn'[s] = NoConnection
        /\ told'[s] = told[s] /\ written'[s] = written[s]
    BY DEF Crash
  <2>3. EvidenceOf(s)
    BY DEF Inv
  <2> QED
    BY <2>1, <2>2, <2>3 DEF EvidenceOf, Open
<1> QED
  BY <1>1, <1>2

--------------------------------------------------------------------------------
LEMMA InvInit == Init => Inv
<1> SUFFICES ASSUME Init PROVE Inv
  OBVIOUS
<1>1. FreeIsClean
  BY DEF Init, FreeIsClean, Free
<1>2. ASSUME NEW r \in Requests PROVE EvidenceOf(r)
  <2>1. OnDisk(r) = {}
    BY DEF Init, OnDisk
  <2> QED
    BY <2>1 DEF Init, EvidenceOf
<1> QED
  BY <1>1, <1>2, TypeInit DEF Inv

LEMMA InvNext == Inv /\ [Next]_vars => Inv'
<1> SUFFICES ASSUME Inv, [Next]_vars PROVE Inv'
  OBVIOUS
<1>1. TypeOK'
  BY TypeNext DEF Inv
<1>2. CASE UNCHANGED vars
  <2>1. \A s \in Requests : Persisted(s)' = Persisted(s) /\ OnDisk(s)' = OnDisk(s)
    BY <1>2 DEF vars, Persisted, OnDisk
  <2>2. \A s \in Requests : EvidenceOf(s)'
    BY <1>2, <2>1, OthersUntouched DEF vars, Inv
  <2>3. FreeIsClean'
    BY <1>2 DEF vars, Inv, FreeIsClean, Free
  <2> QED
    BY <1>1, <2>2, <2>3 DEF Inv
<1>3. CASE Next
  BY <1>1, <1>3, CrashSteps, HandlerSteps, WriteSteps, ExitSteps DEF Next, Inv, Cancels
<1> QED
  BY <1>2, <1>3

LEMMA Invariance == Spec => []Inv
  BY InvInit, InvNext, PTL DEF Spec

(* Every reachable state is well typed: no two sessions share a connection,   *)
(* and a request that ended holds none (get_db, database.py 37-59).           *)
THEOREM TypeCorrect == Spec => []TypeOK
<1>1. Inv => TypeOK
  BY DEF Inv
<1> QED
  BY <1>1, Invariance, PTL

(* What persists agrees with what the client was told, however requests share *)
(* connections, raise, are cancelled (in the handler, while the answer is     *)
(* sent, before the commit), fail to commit or die (database.py 40-43).       *)
THEOREM DataMatches == Spec => []AnswerMatchesData
<1>1. Inv => AnswerMatchesData
  BY DEF Inv, TypeOK, EvidenceOf, AnswerMatchesData
<1> QED
  BY <1>1, Invariance, PTL

(* What requests leave behind: no transaction in a connection of the pool,    *)
(* and, when none is under way, the whole pool.                               *)
PoolWhole ==
    /\ \A c \in Free : tx[c] = {}
    /\ (\A r \in Requests : ~Open(r)) => Free = Connections

(* database.py 40-59: the next session never starts in the transaction of an  *)
(* earlier one, and no connection is lost to the pool, whatever request held  *)
(* it and however it ended.                                                   *)
THEOREM PoolReturned == Spec => []PoolWhole
<1>1. Inv => PoolWhole
  <2> SUFFICES ASSUME Inv PROVE PoolWhole
    OBVIOUS
  <2>1. \A c \in Free : tx[c] = {}
    BY DEF Inv, FreeIsClean
  <2>2. ASSUME \A r \in Requests : ~Open(r) PROVE Free = Connections
    <3>1. ASSUME NEW r \in Requests PROVE conn[r] = NoConnection
      <4>1. pc[r] \in {"idle", "ended"}
        BY <2>2 DEF Open
      <4> QED
        BY <4>1 DEF Inv, EvidenceOf, TypeOK
    <3> QED
      BY <3>1, DbSessionAssumptions DEF Free
  <2> QED
    BY <2>1, <2>2 DEF PoolWhole
<1> QED
  BY <1>1, Invariance, PTL
================================================================================
