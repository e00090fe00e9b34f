-------------------------------- MODULE Storage --------------------------------
(* The object storage facade, src/app/shared/storage.py: put, get and delete  *)
(* as worker threads of several processes (asyncio.to_thread, lines 167-187)  *)
(* run them side by side over one MinIO, each making sure of its bucket       *)
(* first.  A process keeps a client and the set of buckets it knows; its      *)
(* threads share both without a lock.  A thread can be overtaken between any  *)
(* two of its steps, and MinIO's answer is read some time after it was given. *)
EXTENDS Integers

CONSTANTS
    Processes,  \* the replicas of the API
    Threads,    \* their worker threads, one call at a time each
    ProcessOf,  \* which process a thread belongs to
    Buckets, Keys,
    Data,       \* contents of an object
    None,       \* the contents of an object that does not exist
    Retries     \* how often the client repeats a request whose answer it missed

ASSUME StorageAssumptions ==
    /\ ProcessOf \in [Threads -> Processes]
    /\ None \notin Data
    /\ Retries \in Nat

Objects == Buckets \X Keys

VARIABLES
    buckets,  \* the buckets that exist
    objects,  \* the contents of every object
    client,   \* _client: whether the process has built it
    known,    \* _known_buckets of each process
    pc,       \* where each thread is
    op,       \* the call it serves
    reply,    \* MinIO's answer, not read yet
    tries,    \* how often the client has repeated the request in flight
    result,   \* what the call ends with
    excused   \* what befell the call: a request refused, its bucket removed

server == <<buckets, objects>>
process == <<client, known>>
vars == <<server, process, pc, op, reply, tries, result, excused>>

(* The calls a handler can make, put_object, get_object and delete_object.    *)
NoCall == [kind |-> "none"]
Calls == [kind : {"put"}, obj : Objects, data : Data]
           \cup [kind : {"get", "delete"}, obj : Objects, data : {None}]

Reply(code, data) == [code |-> code, data |-> data]
NoReply == Reply("none", None)
Result(status, data) == [status |-> status, data |-> data]
NoResult == Result(0, None)

Init ==
    /\ buckets = {}
    /\ objects = [o \in Objects |-> None]
    /\ client = [p \in Processes |-> FALSE]
    /\ known = [p \in Processes |-> {}]
    /\ pc = [t \in Threads |-> "idle"]
    /\ op = [t \in Threads |-> NoCall]
    /\ reply = [t \in Threads |-> NoReply]
    /\ tries = [t \in Threads |-> 0]
    /\ result = [t \in Threads |-> NoResult]
    /\ excused = [t \in Threads |-> {}]

BucketOf(t) == op[t].obj[1]
Knows(t) == BucketOf(t) \in known[ProcessOf[t]]
Active(t) == pc[t] \notin {"idle", "done"}
Asking(t) == pc[t] \in {"exists", "make", "object"}

Go(t, from, to) == pc[t] = from /\ pc' = [pc EXCEPT ![t] = to]

--------------------------------------------------------------------------------
(* The facade, one thread t.                                                  *)

(* A handler awaits a call.                                                   *)
Call(t) ==
    /\ Go(t, "idle", "enter")
    /\ \E c \in Calls : op' = [op EXCEPT ![t] = c]
    /\ UNCHANGED <<server, process, reply, tries, result, excused>>

(* _ensure_bucket: a known bucket is not asked about again.                   *)
EnsureKnown(t) ==
    /\ Go(t, "enter", "object") /\ Knows(t)
    /\ excused' = [excused EXCEPT ![t] = IF BucketOf(t) \in buckets THEN {} ELSE {"removed"}]
    /\ UNCHANGED <<server, process, op, reply, tries, result>>

EnsureUnknown(t) ==
    /\ Go(t, "enter", "client") /\ ~Knows(t)
    /\ UNCHANGED <<server, process, op, reply, tries, result, excused>>

(* _get_client: built once, unless several threads find none at the same      *)
(* time; building it forgets the known buckets.                               *)
NeverBuilds(t) == TRUE                                             \* mutant
ClientBuilt(t) == client[ProcessOf[t]]

UseClient(t) ==
    /\ ClientBuilt(t) /\ Go(t, "client", "exists")
    /\ UNCHANGED <<server, process, op, reply, tries, result, excused>>

FindNoClient(t) ==
    /\ ~ClientBuilt(t) /\ Go(t, "client", "build")
    /\ UNCHANGED <<server, process, op, reply, tries, result, excused>>

BuildClient(t) ==
    /\ Go(t, "build", "exists")
    /\ client' = [client EXCEPT ![ProcessOf[t]] = TRUE]
    /\ known' = [known EXCEPT ![ProcessOf[t]] = {}]
    /\ UNCHANGED <<server, op, reply, tries, result, excused>>

(* The answer is read, and the next request starts afresh.                    *)
ReadReply(t) ==
    /\ reply[t] # NoReply
    /\ reply' = [reply EXCEPT ![t] = NoReply]
    /\ tries' = [tries EXCEPT ![t] = 0]

(* The status of what a call returns or raises, as the handler of domain      *)
(* exceptions and, for any other exception, ErrorBoundary answer it.          *)
StatusOf(outcome) == CASE outcome = "returns"                    -> 200
                       [] outcome = "StorageObjectNotFoundError" -> 404
                       [] outcome = "StorageUnavailableError"    -> 503
                       [] outcome = "HTTPError"                  -> 500

End(t, outcome, data) ==
    /\ pc' = [pc EXCEPT ![t] = "done"]
    /\ result' = [result EXCEPT ![t] = Result(StatusOf(outcome), data)]

(* bucket_exists says no.                                                     *)
BucketMissing(t) ==
    /\ reply[t].code = "NotThere"
    /\ Go(t, "exists", "make")
    /\ ReadReply(t)
    /\ UNCHANGED <<server, process, op, result, excused>>

(* Codes that mean that someone else created the bucket first.                *)
WrongSpelling == {"BucketAlreadyOwnedByUs", "BucketAlreadyExists"} \* mutant
AlreadyCreated == {"BucketAlreadyOwnedByYou", "BucketAlreadyOwnedByUs", "BucketAlreadyExists"}

LearnAnyway(t, ready) == [known EXCEPT ![ProcessOf[t]] = @ \cup {BucketOf(t)}]   \* mutant
Learn(t, ready) ==
    IF ready THEN [known EXCEPT ![ProcessOf[t]] = @ \cup {BucketOf(t)}] ELSE known

BucketReady(t) ==
    /\ pc[t] \in {"exists", "make"}
    /\ reply[t].code \in {"ok"} \cup AlreadyCreated
    /\ pc' = [pc EXCEPT ![t] = "object"]
    /\ known' = Learn(t, TRUE)
    /\ ReadReply(t)
    /\ UNCHANGED <<server, client, op, result, excused>>

EnsureFails(t) ==
    /\ pc[t] \in {"exists", "make"}
    /\ reply[t].code \notin {"none", "ok", "NotThere"} \cup AlreadyCreated
    /\ End(t, "StorageUnavailableError", None)
    /\ known' = Learn(t, FALSE)
    /\ ReadReply(t)
    /\ UNCHANGED <<server, client, op, excused>>

(* What an answer to the operation itself means: codes of an absent key end a *)
(* get with 404 and a delete with success; any other error is a 503.          *)
NotFoundCodes == {"NoSuchKey", "NoSuchObject"}
SwallowedMeaning(kind, code) ==                                    \* mutant
    CASE code = "ok" \/ kind = "put" -> "returns"
      [] kind = "get" /\ code \in NotFoundCodes -> "StorageObjectNotFoundError"
      [] kind = "delete" /\ code \in NotFoundCodes -> "returns"
      [] OTHER -> "StorageUnavailableError"
Meaning(kind, code) ==
    CASE code = "ok" -> "returns"
      [] kind = "get" /\ code \in NotFoundCodes -> "StorageObjectNotFoundError"
      [] kind = "delete" /\ code \in NotFoundCodes -> "returns"
      [] OTHER -> "StorageUnavailableError"

(* get_object's answer has begun; its body is read next.                      *)
StartReading(t) ==
    /\ Go(t, "object", "read")
    /\ op[t].kind = "get" /\ reply[t].code = "ok"
    /\ UNCHANGED <<server, process, op, reply, tries, result, excused>>

FinishReading(t) ==
    /\ pc[t] = "read" /\ End(t, "returns", reply[t].data)
    /\ ReadReply(t)
    /\ UNCHANGED <<server, process, op, excused>>

(* The connection breaks under response.read(): neither the client nor the    *)
(* facade sees to it.                                                         *)
ReadingBreaks(t) ==
    /\ pc[t] = "read" /\ End(t, "HTTPError", None)
    /\ ReadReply(t)
    /\ UNCHANGED <<server, process, op, excused>>

EndOperation(t) ==
    /\ pc[t] = "object" /\ ~(op[t].kind = "get" /\ reply[t].code = "ok")
    /\ End(t, Meaning(op[t].kind, reply[t].code), None)
    /\ ReadReply(t)
    /\ UNCHANGED <<server, process, op, excused>>

Return(t) ==
    /\ Go(t, "done", "idle")
    /\ op' = [op EXCEPT ![t] = NoCall]
    /\ result' = [result EXCEPT ![t] = NoResult]
    /\ excused' = [excused EXCEPT ![t] = {}]
    /\ UNCHANGED <<server, process, reply, tries>>

--------------------------------------------------------------------------------
(* The client library and MinIO.                                              *)

Says(t, code, data) == reply' = [reply EXCEPT ![t] = Reply(code, data)]
Served(t) == /\ reply[t] = NoReply
             /\ UNCHANGED <<process, pc, op, tries, result, excused>>

AnswerExists(t) ==
    /\ pc[t] = "exists" /\ Served(t)
    /\ Says(t, IF BucketOf(t) \in buckets THEN "ok" ELSE "NotThere", None)
    /\ UNCHANGED <<buckets, objects>>

AnswerMake(t) ==
    /\ pc[t] = "make" /\ Served(t)
    /\ Says(t, IF BucketOf(t) \in buckets THEN "BucketAlreadyOwnedByYou" ELSE "ok", None)
    /\ buckets' = buckets \cup {BucketOf(t)}
    /\ UNCHANGED objects

NoBucket(t) ==
    /\ pc[t] = "object" /\ Served(t) /\ BucketOf(t) \notin buckets
    /\ Says(t, "NoSuchBucket", None)
    /\ UNCHANGED server

InBucket(t, kind) ==
    /\ pc[t] = "object" /\ Served(t) /\ BucketOf(t) \in buckets
    /\ op[t].kind = kind
    /\ UNCHANGED buckets

AnswerPut(t) ==
    /\ InBucket(t, "put") /\ Says(t, "ok", None)
    /\ objects' = [objects EXCEPT ![op[t].obj] = op[t].data]

AnswerGet(t) ==
    /\ InBucket(t, "get")
    /\ LET found == objects[op[t].obj]
       IN Says(t, IF found = None THEN "NoSuchKey" ELSE "ok", found)
    /\ UNCHANGED objects

(* Deleting an absent key is a success for MinIO, an error for others.        *)
AnswerDelete(t) ==
    /\ InBucket(t, "delete")
    /\ \/ Says(t, "ok", None)
       \/ objects[op[t].obj] = None /\ Says(t, "NoSuchKey", None)
    /\ objects' = [objects EXCEPT ![op[t].obj] = None]

(* Any other S3 error.                                                        *)
Refuse(t) ==
    /\ Asking(t) /\ reply[t] = NoReply
    /\ Says(t, "AccessDenied", None)
    /\ excused' = [excused EXCEPT ![t] = @ \cup {"refused"}]
    /\ UNCHANGED <<server, process, pc, op, tries, result>>

(* A request or its answer gets lost, or MinIO is down: the client tries it   *)
(* again, whether or not it took effect, and after its last try raises an     *)
(* exception of its HTTP library, which storage.py does not catch.            *)
Repeat(t) ==
    /\ Asking(t) /\ tries[t] < Retries
    /\ tries' = [tries EXCEPT ![t] = @ + 1]
    /\ reply' = [reply EXCEPT ![t] = NoReply]
    /\ UNCHANGED <<server, process, pc, op, result, excused>>

GiveUp(t) ==
    /\ Asking(t) /\ tries[t] >= Retries
    /\ End(t, "HTTPError", None)
    /\ tries' = [tries EXCEPT ![t] = 0]
    /\ reply' = [reply EXCEPT ![t] = NoReply]
    /\ UNCHANGED <<server, process, op, excused>>

(* Someone removes a bucket, with what it holds.                              *)
RemoveBucket(b) ==
    /\ b \in buckets
    /\ buckets' = buckets \ {b}
    /\ objects' = [o \in Objects |-> IF o[1] = b THEN None ELSE objects[o]]
    /\ excused' = [t \in Threads |-> IF Active(t) /\ BucketOf(t) = b
                                     THEN excused[t] \cup {"removed"} ELSE excused[t]]
    /\ UNCHANGED <<process, pc, op, reply, tries, result>>

(* A process dies and starts again, with nothing of what it knew.             *)
Restart(p) ==
    LET Wiped(f, v) == [t \in Threads |-> IF ProcessOf[t] = p THEN v ELSE f[t]]
    IN /\ client' = [client EXCEPT ![p] = FALSE]
       /\ known' = [known EXCEPT ![p] = {}]
       /\ pc' = Wiped(pc, "idle") /\ op' = Wiped(op, NoCall)
       /\ reply' = Wiped(reply, NoReply) /\ tries' = Wiped(tries, 0)
       /\ result' = Wiped(result, NoResult) /\ excused' = Wiped(excused, {})
       /\ UNCHANGED server

FacadeStep(t) ==
    \/ EnsureKnown(t) \/ EnsureUnknown(t) \/ UseClient(t) \/ FindNoClient(t)
    \/ BuildClient(t) \/ BucketMissing(t) \/ BucketReady(t) \/ EnsureFails(t)
    \/ StartReading(t) \/ FinishReading(t) \/ ReadingBreaks(t) \/ EndOperation(t)
    \/ Return(t)

NetworkStep(t) ==
    \/ AnswerExists(t) \/ AnswerMake(t) \/ NoBucket(t) \/ AnswerPut(t)
    \/ AnswerGet(t) \/ AnswerDelete(t) \/ Refuse(t) \/ Repeat(t) \/ GiveUp(t)

Next ==
    \/ \E t \in Threads : Call(t) \/ FacadeStep(t) \/ NetworkStep(t)
    \/ \E b \in Buckets : RemoveBucket(b)
    \/ \E p \in Processes : Restart(p)

Spec == Init /\ [][Next]_vars

--------------------------------------------------------------------------------
(* Properties.                                                                *)

Codes == {"none", "ok", "NotThere", "NoSuchKey", "NoSuchBucket", "AccessDenied",
          "BucketAlreadyOwnedByYou"}

(* Every variable has its type; an answer waits only where one was asked for, *)
(* and no thread asks, and no bucket is known, before the client is built.    *)
TypeOK ==
    /\ buckets \in SUBSET Buckets
    /\ objects \in [Objects -> Data \cup {None}]
    /\ client \in [Processes -> BOOLEAN]
    /\ known \in [Processes -> SUBSET Buckets]
    /\ pc \in [Threads -> {"idle", "enter", "client", "build", "exists", "make",
                           "object", "read", "done"}]
    /\ op \in [Threads -> Calls \cup {NoCall}]
    /\ reply \in [Threads -> [code : Codes, data : Data \cup {None}]]
    /\ tries \in [Threads -> 0..Retries]
    /\ result \in [Threads -> [status : {0, 200, 404, 500, 503}, data : Data \cup {None}]]
    /\ excused \in [Threads -> SUBSET {"refused", "removed"}]
    /\ \A t \in Threads : /\ pc[t] = "idle" <=> op[t] = NoCall
                          /\ pc[t] = "done" <=> result[t] # NoResult
                          /\ reply[t] # NoReply => Asking(t) \/ pc[t] = "read"
                          /\ Asking(t) \/ pc[t] = "read" => client[ProcessOf[t]]
    /\ \A p \in Processes : known[p] # {} => client[p]

(* storage.py 99-113: a race is no error.  A call ends in a 503 only if MinIO *)
(* refused a request of it or its bucket was removed, during it or behind the *)
(* cache: threads and replicas that create one bucket at the same time, build *)
(* the client, clear the cache or repeat a request that took effect do not.   *)
FailuresExcused ==
    \A t \in Threads : pc[t] = "done" /\ result[t].status = 503 => excused[t] # {}

(* storage.py 98-111 and tests/shared/test_storage_internals.py 102: a failed *)
(* attempt does not contaminate the cache.  A process comes to know a bucket  *)
(* only if it exists, or was removed during the very call that learns it.     *)
CacheNotPoisoned ==
    [][\A p \in Processes : \A b \in known'[p] \ known[p] :
         b \in buckets \/ \E t \in Threads : /\ ProcessOf[t] = p /\ Active(t)
                                             /\ BucketOf(t) = b /\ "removed" \in excused[t]]_vars

(* storage.py 13-14, 167-187: the facade is an object store with typed        *)
(* errors.  It answers what MinIO said to this call while it ran, 404 only if *)
(* the key was absent, and otherwise a failure.                               *)
Heard(t) ==
    IF pc[t] \in {"object", "read"} /\ reply[t].code = "ok" THEN Result(200, reply[t].data)
    ELSE IF pc[t] = "object" /\ reply[t].code \in NotFoundCodes
    THEN Result(IF op[t].kind = "get" THEN 404 ELSE 200, None)
    ELSE NoResult

O == INSTANCE ObjectStore WITH
    Callers <- Threads, store <- objects, request <- op, answer <- result,
    heard <- [t \in Threads |-> Heard(t)]

KeepsStore == O!StoreSpec

(* storage.py 41: "MinIO inalcançável ou erro inesperado do S3 → 503".        *)
UnreachableIs503 == \A t \in Threads : result[t].status # 500
================================================================================
