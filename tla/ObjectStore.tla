------------------------------ MODULE ObjectStore ------------------------------
(* What the storage facade promises its callers (src/app/shared/storage.py    *)
(* 1-16, 167-187), whatever buckets, caches and retries do inside: a call is  *)
(* answered with what the store said to it once while it was running, or with *)
(* a failure, after which the caller cannot tell whether it took effect.      *)
EXTENDS Naturals

CONSTANTS Callers,  \* the calls that may run at the same time
          Objects,  \* the names of objects
          Data,     \* their contents
          None      \* no contents: the object does not exist

VARIABLES store,    \* the contents of every object
          request,  \* what each caller asked for
          heard,    \* what the store said to it and no one has read yet
          answer    \* what it was answered

svars == <<store, request, heard, answer>>

NoRequest == [kind |-> "none"]
Requests == [kind : {"put"}, obj : Objects, data : Data]
              \cup [kind : {"get", "delete"}, obj : Objects, data : {None}]

Reply(status, data) == [status |-> status, data |-> data]
Nothing == Reply(0, None)
Found(d) == Reply(200, d)
Done == Reply(200, None)
NotFound == Reply(404, None)
Failures == {Reply(500, None), Reply(503, None)}

(* What the store says to a request and what becomes of it.                   *)
Truth(r) == IF r.kind # "get" THEN Done
            ELSE IF store[r.obj] = None THEN NotFound ELSE Found(store[r.obj])
Effect(r) == IF r.kind = "get" THEN store
             ELSE [store EXCEPT ![r.obj] = r.data]

Running(c) == request[c] # NoRequest /\ answer[c] = Nothing

SInit == /\ store \in [Objects -> Data \cup {None}]
         /\ request = [c \in Callers |-> NoRequest]
         /\ heard = [c \in Callers |-> Nothing]
         /\ answer = [c \in Callers |-> Nothing]

Ask(c) == /\ request[c] = NoRequest
          /\ request' \in {[request EXCEPT ![c] = r] : r \in Requests}
          /\ UNCHANGED <<store, heard, answer>>

(* A request that was retried may take effect again.                          *)
Act(c) == /\ Running(c)
          /\ store' = Effect(request[c])
          /\ heard' = [heard EXCEPT ![c] = Truth(request[c])]
          /\ UNCHANGED <<request, answer>>

Forget(c) == /\ Running(c)
             /\ heard' = [heard EXCEPT ![c] = Nothing]
             /\ UNCHANGED <<store, request, answer>>

Answer(c) == /\ Running(c)
             /\ \/ heard[c] # Nothing /\ answer' = [answer EXCEPT ![c] = heard[c]]
                \/ \E f \in Failures : answer' = [answer EXCEPT ![c] = f]
             /\ heard' = [heard EXCEPT ![c] = Nothing]
             /\ UNCHANGED <<store, request>>

(* Callers leave, answered, or all those of a process that dies.              *)
Reset(f, C, v) == [c \in Callers |-> IF c \in C THEN v ELSE f[c]]
Leave(C) == /\ request' = Reset(request, C, NoRequest)
            /\ heard' = Reset(heard, C, Nothing)
            /\ answer' = Reset(answer, C, Nothing)
            /\ UNCHANGED store

(* Someone else removes objects.                                              *)
Vanish(O) == /\ store' = [o \in Objects |-> IF o \in O THEN None ELSE store[o]]
             /\ UNCHANGED <<request, heard, answer>>

SNext == \/ \E c \in Callers : Ask(c) \/ Act(c) \/ Forget(c) \/ Answer(c)
         \/ \E C \in SUBSET Callers : Leave(C)
         \/ \E O \in SUBSET Objects : Vanish(O)

StoreSpec == SInit /\ [][SNext]_svars
================================================================================
