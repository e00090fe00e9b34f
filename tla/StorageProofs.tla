----------------------------- MODULE StorageProofs -----------------------------
(* Theorems about Storage, for every set of processes, threads, buckets, keys *)
(* and contents, and every number of retries.                                 *)
EXTENDS Storage, TLAPS

(* Which answers each request can get, and what an answer that has been given *)
(* or read says about the bucket: it exists, unless it was removed since.     *)
There(t) == BucketOf(t) \in buckets \/ "removed" \in excused[t]

EvidenceOf(t) ==
    /\ pc[t] = "exists" => reply[t].code \in {"none", "ok", "NotThere", "AccessDenied"}
    /\ pc[t] = "make" =>
           reply[t].code \in {"none", "ok", "BucketAlreadyOwnedByYou", "AccessDenied"}
    /\ pc[t] = "object" =>
           reply[t].code \in {"none", "ok", "NoSuchKey", "NoSuchBucket", "AccessDenied"}
    /\ pc[t] = "read" => op[t].kind = "get" /\ reply[t].code = "ok"
    /\ pc[t] \in {"exists", "make"} /\ reply[t].code \in {"ok"} \cup AlreadyCreated => There(t)
    /\ pc[t] = "object" => There(t)
    /\ reply[t].code \in {"NoSuchBucket", "AccessDenied"} => excused[t] # {}
    /\ reply[t].code = "none" => reply[t] = NoReply
    /\ reply[t].code = "NoSuchKey" => op[t].kind # "put"
    /\ pc[t] = "object" /\ reply[t].code = "ok" /\ op[t].kind # "get" =>
           reply[t].data = None
    /\ pc[t] = "done" /\ result[t].status = 503 => excused[t] # {}

Inv == TypeOK /\ \A t \in Threads : EvidenceOf(t)

(* What a call in progress is made of.                                        *)
LEMMA CallShape ==
    ASSUME TypeOK, NEW t \in Threads, pc[t] # "idle"
    PROVE  /\ op[t] \in Calls /\ op[t].obj \in Objects
           /\ op[t].kind \in {"put", "get", "delete"}
           /\ op[t].data \in Data \cup {None}
           /\ op[t].kind # "put" => op[t].data = None
           /\ BucketOf(t) \in Buckets
  BY DEF TypeOK, Calls, Objects, BucketOf

LEMMA NoCallIsNoCall == NoCall \notin Calls
  BY DEF NoCall, Calls

LEMMA Statuses ==
    /\ StatusOf("returns") = 200 /\ StatusOf("StorageObjectNotFoundError") = 404
    /\ StatusOf("StorageUnavailableError") = 503 /\ StatusOf("HTTPError") = 500
  BY DEF StatusOf

LEMMA Meanings ==
    ASSUME NEW kind, NEW code
    PROVE  Meaning(kind, code) \in
               {"returns", "StorageObjectNotFoundError", "StorageUnavailableError"}
  BY DEF Meaning

LEMMA TypeInit == Init => TypeOK
  BY StorageAssumptions DEF Init, TypeOK, NoReply, NoResult, Reply, Result, Codes, Asking

(* A call that ends, with the answer read or given up.                        *)
LEMMA EndTypes ==
    ASSUME TypeOK, NEW t \in Threads, pc[t] \notin {"idle", "done"},
           NEW outcome \in {"returns", "StorageObjectNotFoundError",
                            "StorageUnavailableError", "HTTPError"},
           NEW data \in Data \cup {None},
           End(t, outcome, data), reply' = [reply EXCEPT ![t] = NoReply],
           tries' = [tries EXCEPT ![t] = 0],
           known' = known, UNCHANGED <<server, client, op, excused>>
    PROVE  TypeOK'
<1>1. StatusOf(outcome) \in {200, 404, 500, 503}
  BY Statuses
<1>2. result' \in [Threads -> [status : {0, 200, 404, 500, 503}, data : Data \cup {None}]]
  BY <1>1 DEF TypeOK, End, Result
<1>3. pc' \in [Threads -> {"idle", "enter", "client", "build", "exists", "make",
                           "object", "read", "done"}]
  BY DEF TypeOK, End
<1>4. /\ reply' \in [Threads -> [code : Codes, data : Data \cup {None}]]
      /\ tries' \in [Threads -> 0..Retries]
  BY StorageAssumptions DEF TypeOK, NoReply, Reply, Codes
<1>5. \A u \in Threads : pc'[u] = "done" <=> result'[u] # NoResult
  BY <1>1 DEF TypeOK, End, Result, NoResult
<1>6. \A u \in Threads : /\ pc'[u] = "idle" <=> op'[u] = NoCall
                         /\ reply'[u] # NoReply => Asking(u)' \/ pc'[u] = "read"
                         /\ Asking(u)' \/ pc'[u] = "read" => client'[ProcessOf[u]]
  BY DEF TypeOK, End, Asking
<1> QED
  BY <1>2, <1>3, <1>4, <1>5, <1>6 DEF TypeOK, server

(* MinIO's answer to a request arrives, or what it does changes.              *)
LEMMA SaysTypes ==
    ASSUME TypeOK, NEW t \in Threads, Asking(t),
           NEW code \in Codes, NEW data \in Data \cup {None}, Says(t, code, data),
           UNCHANGED <<process, pc, op, tries, result>>,
           excused' \in [Threads -> SUBSET {"refused", "removed"}],
           buckets' \in SUBSET Buckets,
           objects' \in [Objects -> Data \cup {None}]
    PROVE  TypeOK'
<1>1. reply' \in [Threads -> [code : Codes, data : Data \cup {None}]]
  BY DEF TypeOK, Says, Reply
<1>2. \A u \in Threads : reply'[u] # NoReply => Asking(u)' \/ pc'[u] = "read"
  BY DEF TypeOK, Says, Asking
<1> QED
  BY <1>1, <1>2 DEF TypeOK, Asking, process

LEMMA TypeFacade == ASSUME TypeOK, NEW t \in Threads, Call(t) \/ FacadeStep(t)
                    PROVE  TypeOK'
<1> USE StorageAssumptions
<1>1. CASE Call(t)
  BY <1>1, NoCallIsNoCall DEF Call, Go, TypeOK, server, process, Asking
<1>2. CASE EnsureKnown(t)
  <2>1. client[ProcessOf[t]]
    BY <1>2 DEF EnsureKnown, Knows, TypeOK
  <2> QED
    BY <1>2, <2>1 DEF EnsureKnown, Go, TypeOK, server, process, Asking
<1>3. CASE EnsureUnknown(t) \/ UseClient(t) \/ FindNoClient(t)
  <2>1. CASE EnsureUnknown(t)
    BY <2>1 DEF EnsureUnknown, Go, TypeOK, server, process, Asking
  <2>2. CASE UseClient(t)
    BY <2>2 DEF UseClient, ClientBuilt, Go, TypeOK, server, process, Asking
  <2>3. CASE FindNoClient(t)
    BY <2>3 DEF FindNoClient, Go, TypeOK, server, process, Asking
  <2> QED
    BY <1>3, <2>1, <2>2, <2>3
<1>4. CASE BuildClient(t)
  BY <1>4 DEF BuildClient, Go, TypeOK, server, Asking
<1>5. CASE BucketMissing(t)
  BY <1>5 DEF BucketMissing, ReadReply, Go, TypeOK, server, process, Asking,
              NoReply, Reply, Codes
<1>6. CASE BucketReady(t)
  <2>1. BucketOf(t) \in Buckets /\ client[ProcessOf[t]]
    BY <1>6, CallShape DEF BucketReady, TypeOK, Asking
  <2> QED
    BY <1>6, <2>1 DEF BucketReady, Learn, ReadReply, TypeOK, server, Asking,
                      NoReply, Reply, Codes
<1>7. CASE EnsureFails(t)
  BY <1>7, EndTypes DEF EnsureFails, Learn, ReadReply
<1>8. CASE StartReading(t)
  BY <1>8 DEF StartReading, Go, TypeOK, server, process, Asking
<1>9. CASE FinishReading(t)
  <2>1. reply[t].data \in Data \cup {None}
    BY DEF TypeOK
  <2> QED
    BY <1>9, <2>1, EndTypes DEF FinishReading, ReadReply, process
<1>10. CASE ReadingBreaks(t)
  BY <1>10, EndTypes DEF ReadingBreaks, ReadReply, process
<1>11. CASE EndOperation(t)
  BY <1>11, EndTypes, Meanings DEF EndOperation, ReadReply, process
<1>12. CASE Return(t)
  BY <1>12, NoCallIsNoCall DEF Return, Go, TypeOK, server, process, Asking,
                               NoResult, Result
<1> QED
  BY <1>1, <1>2, <1>3, <1>4, <1>5, <1>6, <1>7, <1>8, <1>9, <1>10, <1>11, <1>12
     DEF FacadeStep

LEMMA TypeNetwork == ASSUME TypeOK, NEW t \in Threads, NetworkStep(t)
                     PROVE  TypeOK'
<1> USE StorageAssumptions
<1>1. CASE AnswerExists(t)
  BY <1>1, SaysTypes DEF AnswerExists, Served, Asking, Codes, TypeOK
<1>2. CASE AnswerMake(t)
  <2>1. BucketOf(t) \in Buckets
    BY <1>2, CallShape DEF AnswerMake
  <2>2. \E code \in Codes : Says(t, code, None)
    BY <1>2 DEF AnswerMake, Codes
  <2>3. /\ buckets' \in SUBSET Buckets /\ objects' \in [Objects -> Data \cup {None}]
        /\ excused' \in [Threads -> SUBSET {"refused", "removed"}] /\ Asking(t)
        /\ UNCHANGED <<process, pc, op, tries, result>>
    BY <1>2, <2>1 DEF AnswerMake, Served, Asking, TypeOK
  <2> QED
    BY <2>2, <2>3, SaysTypes
<1>3. CASE NoBucket(t)
  BY <1>3, SaysTypes DEF NoBucket, Served, Asking, Codes, TypeOK, server
<1>4. CASE AnswerPut(t) \/ AnswerGet(t) \/ AnswerDelete(t)
  <2>1. op[t].obj \in Objects /\ op[t].data \in Data \cup {None} /\ Asking(t)
    BY <1>4, CallShape DEF AnswerPut, AnswerGet, AnswerDelete, InBucket, Asking
  <2>2. objects[op[t].obj] \in Data \cup {None}
    BY <2>1 DEF TypeOK
  <2>3. objects' \in [Objects -> Data \cup {None}] /\ buckets' \in SUBSET Buckets
    <3>1. buckets' = buckets
      BY <1>4 DEF AnswerPut, AnswerGet, AnswerDelete, InBucket
    <3>2. \/ objects' = objects
          \/ objects' = [objects EXCEPT ![op[t].obj] = op[t].data]
          \/ objects' = [objects EXCEPT ![op[t].obj] = None]
      BY <1>4 DEF AnswerPut, AnswerGet, AnswerDelete
    <3>3. objects \in [Objects -> Data \cup {None}] /\ buckets \in SUBSET Buckets
      BY DEF TypeOK
    <3> QED
      BY <2>1, <3>1, <3>2, <3>3
  <2>4. /\ UNCHANGED <<process, pc, op, tries, result>>
        /\ excused' \in [Threads -> SUBSET {"refused", "removed"}]
    BY <1>4 DEF AnswerPut, AnswerGet, AnswerDelete, InBucket, Served, TypeOK
  <2>5. \E code \in Codes, data \in Data \cup {None} : Says(t, code, data)
    BY <1>4, <2>2 DEF AnswerPut, AnswerGet, AnswerDelete, Codes
  <2> QED
    BY <2>1, <2>3, <2>4, <2>5, SaysTypes
<1>5. CASE Refuse(t)
  BY <1>5, SaysTypes DEF Refuse, Codes, TypeOK, server
<1>6. CASE Repeat(t)
  BY <1>6 DEF Repeat, TypeOK, server, process, Asking, NoReply, Reply, Codes
<1>7. CASE GiveUp(t)
  BY <1>7, EndTypes DEF GiveUp, Asking, process
<1> QED
  BY <1>1, <1>2, <1>3, <1>4, <1>5, <1>6, <1>7 DEF NetworkStep

LEMMA TypeOutside ==
    ASSUME TypeOK,
           \/ \E b \in Buckets : RemoveBucket(b)
           \/ \E p \in Processes : Restart(p)
    PROVE  TypeOK'
<1>1. CASE \E b \in Buckets : RemoveBucket(b)
  BY <1>1 DEF RemoveBucket, TypeOK, process, Asking
<1>2. CASE \E p \in Processes : Restart(p)
  <2> PICK p \in Processes : Restart(p)
    BY <1>2
  <2>1. /\ client' \in [Processes -> BOOLEAN] /\ known' \in [Processes -> SUBSET Buckets]
        /\ \A q \in Processes : known'[q] # {} => client'[q]
    BY DEF Restart, TypeOK
  <2>2. /\ buckets' \in SUBSET Buckets /\ objects' \in [Objects -> Data \cup {None}]
    BY DEF Restart, TypeOK, server
  <2>7. tries' \in [Threads -> 0..Retries]
    <3>1. 0 \in 0..Retries
      BY StorageAssumptions
    <3> QED
      BY <3>1 DEF Restart, TypeOK
  <2>8. excused' \in [Threads -> SUBSET {"refused", "removed"}]
    BY DEF Restart, TypeOK
  <2>3. /\ pc' \in [Threads -> {"idle", "enter", "client", "build", "exists", "make",
                                "object", "read", "done"}]
        /\ op' \in [Threads -> Calls \cup {NoCall}]
    BY DEF Restart, TypeOK
  <2>4. reply' \in [Threads -> [code : Codes, data : Data \cup {None}]]
    BY DEF Restart, TypeOK, NoReply, Reply, Codes
  <2>5. result' \in [Threads -> [status : {0, 200, 404, 500, 503},
                                 data : Data \cup {None}]]
    BY DEF Restart, TypeOK, NoResult, Result
  <2>6. ASSUME NEW u \in Threads
        PROVE  /\ pc'[u] = "idle" <=> op'[u] = NoCall
               /\ pc'[u] = "done" <=> result'[u] # NoResult
               /\ reply'[u] # NoReply => Asking(u)' \/ pc'[u] = "read"
               /\ Asking(u)' \/ pc'[u] = "read" => client'[ProcessOf[u]]
    <3>1. CASE ProcessOf[u] = p
      BY <3>1 DEF Restart, Asking
    <3>2. CASE ProcessOf[u] # p
      <4>1. /\ pc'[u] = pc[u] /\ op'[u] = op[u] /\ reply'[u] = reply[u]
            /\ result'[u] = result[u]
        BY <3>2 DEF Restart
      <4>2. ProcessOf[u] \in Processes /\ client'[ProcessOf[u]] = client[ProcessOf[u]]
        BY <3>2, StorageAssumptions DEF Restart, TypeOK
      <4> QED
        BY <4>1, <4>2 DEF TypeOK, Asking
    <3> QED
      BY <3>1, <3>2
  <2> QED
    BY <2>1, <2>2, <2>3, <2>4, <2>5, <2>6, <2>7, <2>8 DEF TypeOK
<1> QED
  BY <1>1, <1>2

LEMMA TypeNext == TypeOK /\ [Next]_vars => TypeOK'
<1> SUFFICES ASSUME TypeOK, [Next]_vars PROVE TypeOK'
  OBVIOUS
<1>1. CASE UNCHANGED vars
  BY <1>1 DEF TypeOK, vars, server, process, Asking
<1> QED
  BY <1>1, TypeFacade, TypeNetwork, TypeOutside DEF Next

(* No thread asks before its process has a client, and an answer waits only   *)
(* where one was asked for (storage.py 73-113).                               *)
THEOREM TypeCorrect == Spec => []TypeOK
  BY TypeInit, TypeNext, PTL DEF Spec

--------------------------------------------------------------------------------
LEMMA InvInit == Init => Inv
<1> SUFFICES ASSUME Init PROVE Inv
  OBVIOUS
<1>1. ASSUME NEW t \in Threads PROVE EvidenceOf(t)
  BY DEF Init, EvidenceOf, NoReply, Reply
<1> QED
  BY <1>1, TypeInit DEF Inv

(* Nothing a thread relies on changes under it, as long as buckets stay.      *)
LEMMA Untouched ==
    ASSUME NEW u \in Threads, EvidenceOf(u), buckets \subseteq buckets',
           pc'[u] = pc[u], op'[u] = op[u], reply'[u] = reply[u],
           result'[u] = result[u], excused'[u] = excused[u]
    PROVE  EvidenceOf(u)'
<1>1. There(u) => There(u)'
  BY DEF There, BucketOf
<1> QED
  BY <1>1 DEF EvidenceOf

LEMMA EvidenceFacade ==
    ASSUME Inv, NEW t \in Threads, Call(t) \/ FacadeStep(t)
    PROVE  \A u \in Threads : EvidenceOf(u)'
<1> USE DEF AlreadyCreated
<1>1. ASSUME NEW u \in Threads, u # t PROVE EvidenceOf(u)'
  <2> DEFINE Others == /\ pc'[u] = pc[u] /\ op'[u] = op[u] /\ reply'[u] = reply[u]
                       /\ result'[u] = result[u] /\ excused'[u] = excused[u]
                       /\ buckets' = buckets
  <2>1. Others
    <3>1. CASE Call(t) \/ EnsureKnown(t) \/ EnsureUnknown(t) \/ UseClient(t)
                 \/ FindNoClient(t) \/ BuildClient(t)
      BY <1>1, <3>1 DEF Call, EnsureKnown, EnsureUnknown, UseClient, FindNoClient,
                        BuildClient, Go, server, Inv, TypeOK
    <3>2. CASE StartReading(t) \/ Return(t)
      BY <1>1, <3>2 DEF StartReading, Return, Go, server, Inv, TypeOK
    <3>3. CASE BucketMissing(t)
      BY <1>1, <3>3 DEF BucketMissing, ReadReply, Go, server, Inv, TypeOK
    <3>7. CASE BucketReady(t)
      BY <1>1, <3>7 DEF BucketReady, ReadReply, server, Inv, TypeOK
    <3>4. CASE EnsureFails(t)
      BY <1>1, <3>4 DEF EnsureFails, ReadReply, End, server, Inv, TypeOK
    <3>5. CASE FinishReading(t) \/ ReadingBreaks(t)
      BY <1>1, <3>5 DEF FinishReading, ReadingBreaks, ReadReply, End, server, Inv, TypeOK
    <3>6. CASE EndOperation(t)
      BY <1>1, <3>6 DEF EndOperation, ReadReply, End, server, Inv, TypeOK
    <3> QED
      BY <3>1, <3>2, <3>3, <3>4, <3>5, <3>6, <3>7 DEF FacadeStep
  <2> QED
    BY <2>1, Untouched DEF Inv
<1>2. EvidenceOf(t)'
  <2>0. /\ EvidenceOf(t)
        /\ pc[t] \notin {"exists", "make", "object", "read"} => reply[t] = NoReply
        /\ NoReply.code = "none"
    BY DEF Inv, TypeOK, Asking, NoReply, Reply
  <2>1. CASE Call(t)
    BY <2>0, <2>1 DEF Call, Go, EvidenceOf, Inv, TypeOK
  <2>2. CASE EnsureKnown(t)
    <3>1. /\ excused'[t] = IF BucketOf(t) \in buckets THEN {} ELSE {"removed"}
          /\ buckets' = buckets
      BY <2>2 DEF EnsureKnown, Inv, TypeOK, server
    <3>2. BucketOf(t)' = BucketOf(t)
      BY <2>2 DEF EnsureKnown, BucketOf
    <3>3. There(t)'
      BY <3>1, <3>2 DEF There
    <3> QED
      BY <2>0, <2>2, <3>3 DEF EnsureKnown, Go, EvidenceOf, Inv, TypeOK
  <2>3. CASE EnsureUnknown(t)
    BY <2>0, <2>3 DEF EnsureUnknown, Go, EvidenceOf, Inv, TypeOK
  <2>4. CASE UseClient(t)
    BY <2>0, <2>4 DEF UseClient, Go, EvidenceOf, Inv, TypeOK
  <2>5. CASE FindNoClient(t)
    BY <2>0, <2>5 DEF FindNoClient, Go, EvidenceOf, Inv, TypeOK
  <2>6. CASE BuildClient(t)
    BY <2>0, <2>6 DEF BuildClient, Go, EvidenceOf, Inv, TypeOK
  <2>7. CASE BucketMissing(t)
    BY <2>0, <2>7 DEF BucketMissing, ReadReply, Go, EvidenceOf, Inv, TypeOK
  <2>8. CASE BucketReady(t)
    <3>1. There(t)
      BY <2>0, <2>8 DEF BucketReady, EvidenceOf
    <3>2. There(t)'
      BY <2>8, <3>1 DEF BucketReady, There, BucketOf, server
    <3> QED
      BY <2>0, <2>8, <3>2 DEF BucketReady, ReadReply, EvidenceOf, Inv, TypeOK
  <2>9. CASE EnsureFails(t)
    <3>1. excused[t] # {}
      BY <2>0, <2>9 DEF EnsureFails, EvidenceOf
    <3> QED
      BY <2>0, <2>9, <3>1 DEF EnsureFails, End, ReadReply, EvidenceOf, Inv, TypeOK
  <2>10. CASE StartReading(t)
    BY <2>0, <2>10 DEF StartReading, Go, EvidenceOf, Inv, TypeOK
  <2>11. CASE FinishReading(t) \/ ReadingBreaks(t)
    <3>1. pc'[t] = "done" /\ reply'[t] = NoReply /\ result'[t].status # 503
      BY <2>11, Statuses DEF FinishReading, ReadingBreaks, End, ReadReply, Result, Inv, TypeOK
    <3> QED
      BY <2>0, <3>1 DEF EvidenceOf
  <2>12. CASE EndOperation(t)
    <3>1. /\ pc'[t] = "done" /\ reply'[t] = NoReply /\ excused'[t] = excused[t]
          /\ result'[t].status = StatusOf(Meaning(op[t].kind, reply[t].code))
      BY <2>12 DEF EndOperation, End, ReadReply, Result, Inv, TypeOK
    <3>2. excused[t] = {} => reply[t].code \in {"none", "ok", "NoSuchKey"}
      BY <2>0, <2>12 DEF EndOperation, EvidenceOf
    <3>3. reply[t].code # "none"
      BY <2>12 DEF EndOperation, ReadReply, EvidenceOf, Inv, TypeOK
    <3>4. reply[t].code = "NoSuchKey" => op[t].kind \in {"get", "delete"}
      BY <2>0, <2>12, CallShape DEF EndOperation, EvidenceOf, Inv
    <3>5. excused[t] = {} => Meaning(op[t].kind, reply[t].code) # "StorageUnavailableError"
      BY <3>2, <3>3, <3>4 DEF Meaning, NotFoundCodes
    <3>6. excused[t] = {} => StatusOf(Meaning(op[t].kind, reply[t].code)) # 503
      BY <3>5, Meanings, Statuses
    <3> QED
      BY <2>0, <3>1, <3>6 DEF EvidenceOf
  <2>13. CASE Return(t)
    BY <2>0, <2>13 DEF Return, Go, EvidenceOf, Inv, TypeOK
  <2> QED
    BY <2>1, <2>2, <2>3, <2>4, <2>5, <2>6, <2>7, <2>8, <2>9, <2>10, <2>11, <2>12,
       <2>13 DEF FacadeStep
<1> QED
  BY <1>1, <1>2

LEMMA EvidenceNetwork ==
    ASSUME Inv, NEW t \in Threads, NetworkStep(t)
    PROVE  \A u \in Threads : EvidenceOf(u)'
<1> USE DEF AlreadyCreated
<1>1. ASSUME NEW u \in Threads, u # t PROVE EvidenceOf(u)'
  <2> DEFINE Others == /\ pc'[u] = pc[u] /\ op'[u] = op[u] /\ reply'[u] = reply[u]
                       /\ result'[u] = result[u] /\ excused'[u] = excused[u]
                       /\ buckets \subseteq buckets'
  <2>1. Others
    <3>1. CASE AnswerExists(t) \/ AnswerMake(t)
      BY <1>1, <3>1 DEF AnswerExists, AnswerMake, Served, Says, Inv, TypeOK
    <3>2. CASE NoBucket(t)
      BY <1>1, <3>2 DEF NoBucket, Served, Says, Inv, TypeOK, server
    <3>3. CASE AnswerPut(t) \/ AnswerGet(t) \/ AnswerDelete(t)
      BY <1>1, <3>3 DEF AnswerPut, AnswerGet, AnswerDelete, InBucket, Served, Says, Inv, TypeOK
    <3>4. CASE Refuse(t)
      BY <1>1, <3>4 DEF Refuse, Says, Inv, TypeOK, server
    <3>5. CASE Repeat(t)
      BY <1>1, <3>5 DEF Repeat, Inv, TypeOK, server
    <3>6. CASE GiveUp(t)
      BY <1>1, <3>6 DEF GiveUp, End, Inv, TypeOK, server
    <3> QED
      BY <3>1, <3>2, <3>3, <3>4, <3>5, <3>6 DEF NetworkStep
  <2> QED
    BY <2>1, Untouched DEF Inv
<1>2. EvidenceOf(t)'
  <2>0. EvidenceOf(t) /\ NoReply.code = "none"
    BY DEF Inv, NoReply, Reply
  <2> DEFINE Told(code, data) == reply'[t] = [code |-> code, data |-> data]
  <2> DEFINE Same == pc'[t] = pc[t] /\ op'[t] = op[t] /\ result'[t] = result[t]
  <2>1. CASE AnswerExists(t)
    <3>1. Same /\ excused' = excused /\ buckets' = buckets /\ pc[t] = "exists"
      BY <2>1 DEF AnswerExists, Served
    <3>2. \/ Told("ok", None) /\ BucketOf(t) \in buckets
          \/ Told("NotThere", None)
      BY <2>1 DEF AnswerExists, Says, Reply, Inv, TypeOK
    <3> QED
      BY <2>0, <3>1, <3>2 DEF EvidenceOf, There, BucketOf
  <2>2. CASE AnswerMake(t)
    <3>1. Same /\ excused' = excused /\ BucketOf(t) \in buckets' /\ pc[t] = "make"
      BY <2>2 DEF AnswerMake, Served
    <3>2. Told("ok", None) \/ Told("BucketAlreadyOwnedByYou", None)
      BY <2>2 DEF AnswerMake, Says, Reply, Inv, TypeOK
    <3> QED
      BY <2>0, <3>1, <3>2 DEF EvidenceOf, There, BucketOf
  <2>3. CASE NoBucket(t)
    <3>1. Same /\ excused' = excused /\ buckets' = buckets /\ pc[t] = "object"
      BY <2>3 DEF NoBucket, Served, server
    <3>2. Told("NoSuchBucket", None) /\ excused[t] # {}
      BY <2>0, <2>3 DEF NoBucket, Says, Reply, Inv, TypeOK, EvidenceOf, There
    <3> QED
      BY <2>0, <3>1, <3>2 DEF EvidenceOf, There, BucketOf
  <2>4. CASE AnswerPut(t) \/ AnswerGet(t) \/ AnswerDelete(t)
    <3>1. Same /\ excused' = excused /\ buckets' = buckets /\ pc[t] = "object"
      BY <2>4 DEF AnswerPut, AnswerGet, AnswerDelete, InBucket, Served
    <3>2. \/ op[t].kind # "get" /\ Told("ok", None)
          \/ op[t].kind # "put" /\ Told("NoSuchKey", None)
          \/ op[t].kind = "get" /\ \E d \in Data : Told("ok", d)
      <4>1. CASE AnswerPut(t) \/ AnswerDelete(t)
        BY <4>1 DEF AnswerPut, AnswerDelete, InBucket, Says, Reply, Inv, TypeOK
      <4>2. CASE AnswerGet(t)
        <5>1. objects[op[t].obj] \in Data \cup {None}
          BY <3>1, CallShape DEF Inv, TypeOK
        <5> QED
          BY <4>2, <5>1 DEF AnswerGet, InBucket, Says, Reply, Inv, TypeOK
      <4> QED
        BY <2>4, <4>1, <4>2
    <3>3. There(t)'
      BY <2>0, <3>1 DEF EvidenceOf, There, BucketOf
    <3>4. reply'[t].code = "ok" \/ reply'[t].code = "NoSuchKey"
      <4>1. CASE op[t].kind # "get" /\ Told("ok", None)
        BY <4>1
      <4>2. CASE op[t].kind # "put" /\ Told("NoSuchKey", None)
        BY <4>2
      <4>3. CASE op[t].kind = "get" /\ \E d \in Data : Told("ok", d)
        BY <4>3
      <4> QED
        BY <3>2, <4>1, <4>2, <4>3
    <3>5. reply'[t].code = "NoSuchKey" => op[t].kind # "put"
      BY <3>2
    <3>6. reply'[t].code = "ok" /\ op[t].kind # "get" => reply'[t].data = None
      BY <3>2
    <3> QED
      BY <3>1, <3>3, <3>4, <3>5, <3>6 DEF EvidenceOf
  <2>5. CASE Refuse(t)
    <3>1. /\ Same /\ Told("AccessDenied", None)
          /\ excused'[t] = excused[t] \cup {"refused"} /\ buckets' = buckets
      BY <2>5 DEF Refuse, Says, Reply, server, Inv, TypeOK
    <3>2. Asking(t)
      BY <2>5 DEF Refuse
    <3> QED
      BY <2>0, <3>1, <3>2 DEF EvidenceOf, There, BucketOf, Asking
  <2>6. CASE Repeat(t)
    <3>1. Same /\ excused' = excused /\ buckets' = buckets /\ reply'[t] = NoReply /\ Asking(t)
      BY <2>6 DEF Repeat, server, Inv, TypeOK
    <3> QED
      BY <2>0, <3>1 DEF EvidenceOf, There, BucketOf, Asking
  <2>7. CASE GiveUp(t)
    <3>1. pc'[t] = "done" /\ reply'[t] = NoReply /\ result'[t].status # 503
      BY <2>7, Statuses DEF GiveUp, End, Result, Inv, TypeOK
    <3> QED
      BY <2>0, <3>1 DEF EvidenceOf
  <2> QED
    BY <2>1, <2>2, <2>3, <2>4, <2>5, <2>6, <2>7 DEF NetworkStep
<1> QED
  BY <1>1, <1>2

LEMMA EvidenceOutside ==
    ASSUME Inv,
           \/ \E b \in Buckets : RemoveBucket(b)
           \/ \E p \in Processes : Restart(p)
    PROVE  \A u \in Threads : EvidenceOf(u)'
<1> SUFFICES ASSUME NEW u \in Threads PROVE EvidenceOf(u)'
  OBVIOUS
<1>0. EvidenceOf(u)
  BY DEF Inv
<1>1. CASE \E b \in Buckets : RemoveBucket(b)
  <2> PICK b \in Buckets : RemoveBucket(b)
    BY <1>1
  <2>1. /\ pc' = pc /\ op' = op /\ reply' = reply /\ result' = result
        /\ excused'[u] = IF Active(u) /\ BucketOf(u) = b
                         THEN excused[u] \cup {"removed"} ELSE excused[u]
        /\ buckets' = buckets \ {b}
    BY DEF RemoveBucket
  <2>2. Active(u) /\ There(u) => There(u)'
    BY <2>1 DEF There, BucketOf
  <2>3. excused[u] \subseteq excused'[u]
    BY <2>1
  <2> QED
    BY <1>0, <2>1, <2>2, <2>3 DEF EvidenceOf, Active
<1>2. CASE \E p \in Processes : Restart(p)
  <2> PICK p \in Processes : Restart(p)
    BY <1>2
  <2>1. CASE ProcessOf[u] = p
    <3>1. pc'[u] = "idle" /\ reply'[u] = NoReply
      BY <2>1 DEF Restart
    <3> QED
      BY <3>1 DEF EvidenceOf, NoReply, Reply
  <2>2. CASE ProcessOf[u] # p
    <3>1. /\ pc'[u] = pc[u] /\ op'[u] = op[u] /\ reply'[u] = reply[u]
          /\ result'[u] = result[u] /\ excused'[u] = excused[u] /\ buckets' = buckets
      BY <2>2 DEF Restart, server
    <3> QED
      BY <1>0, <3>1, Untouched
  <2> QED
    BY <2>1, <2>2
<1> QED
  BY <1>1, <1>2

LEMMA InvNext == Inv /\ [Next]_vars => Inv'
<1> SUFFICES ASSUME Inv, [Next]_vars PROVE Inv'
  OBVIOUS
<1>1. TypeOK'
  BY TypeNext DEF Inv
<1>2. \A u \in Threads : EvidenceOf(u)'
  <2>1. CASE UNCHANGED vars
    <3>1. ASSUME NEW u \in Threads PROVE EvidenceOf(u)'
      BY <2>1, Untouched DEF vars, server, Inv
    <3> QED
      BY <3>1
  <2> QED
    BY <2>1, EvidenceFacade, EvidenceNetwork, EvidenceOutside DEF Next
<1> QED
  BY <1>1, <1>2 DEF Inv

LEMMA Invariance == Spec => []Inv
  BY InvInit, InvNext, PTL DEF Spec

(* A race between threads or replicas is no error: a 503 has a cause outside  *)
(* the facade (storage.py 99-113).                                            *)
THEOREM NoFalseAlarm == Spec => []FailuresExcused
<1>1. Inv => FailuresExcused
  BY DEF Inv, EvidenceOf, FailuresExcused
<1> QED
  BY <1>1, Invariance, PTL

(* A failed attempt leaves the cache of known buckets alone, and a successful *)
(* one adds a bucket that exists, or did during the call (storage.py 91-113). *)
LEMMA StepCache ==
    ASSUME Inv, [Next]_vars, NEW p \in Processes, NEW b \in known'[p] \ known[p]
    PROVE  b \in buckets \/ \E t \in Threads : /\ ProcessOf[t] = p /\ Active(t)
                                               /\ BucketOf(t) = b /\ "removed" \in excused[t]
<1>1. CASE \E t \in Threads : BucketReady(t)
  <2> PICK t \in Threads : BucketReady(t)
    BY <1>1
  <2>1. known' = [known EXCEPT ![ProcessOf[t]] = @ \cup {BucketOf(t)}]
    BY DEF BucketReady, Learn
  <2>2. ProcessOf[t] = p /\ BucketOf(t) = b
    BY <2>1, StorageAssumptions DEF Inv, TypeOK
  <2>3. There(t) /\ Active(t)
    BY DEF BucketReady, Inv, EvidenceOf, Active
  <2> QED
    BY <2>2, <2>3 DEF There
<1>2. CASE ~\E t \in Threads : BucketReady(t)
  <2>1. known'[p] \subseteq known[p]
    <3>1. CASE UNCHANGED known
      BY <3>1
    <3>2. CASE \E t \in Threads : BuildClient(t)
      BY <3>2, StorageAssumptions DEF BuildClient, Inv, TypeOK
    <3>3. CASE \E q \in Processes : Restart(q)
      BY <3>3 DEF Restart, Inv, TypeOK
    <3>4. ASSUME NEW t \in Threads, Call(t) \/ FacadeStep(t)
          PROVE  UNCHANGED known \/ BuildClient(t) \/ BucketReady(t)
      BY <3>4 DEF FacadeStep, Call, EnsureKnown, EnsureUnknown, UseClient, FindNoClient,
                  BucketMissing, EnsureFails, Learn, StartReading, FinishReading,
                  ReadingBreaks, EndOperation, Return, process
    <3>5. ASSUME NEW t \in Threads, NetworkStep(t)
          PROVE  UNCHANGED known
      BY <3>5 DEF NetworkStep, AnswerExists, AnswerMake, NoBucket, AnswerPut, AnswerGet,
                  AnswerDelete, InBucket, Served, Refuse, Repeat, GiveUp, process
    <3>6. ASSUME NEW c \in Buckets, RemoveBucket(c) PROVE UNCHANGED known
      BY <3>6 DEF RemoveBucket, process
    <3> QED
      BY <1>2, <3>1, <3>2, <3>3, <3>4, <3>5, <3>6 DEF Next, vars, process
  <2> QED
    BY <2>1
<1> QED
  BY <1>1, <1>2

(* A process never knows a bucket that neither existed nor was removed during *)
(* the call that learned it: failures do not reach the cache (storage.py 98). *)
THEOREM CacheClean == Spec => CacheNotPoisoned
<1>1. Inv /\ [Next]_vars =>
        [\A p \in Processes : \A b \in known'[p] \ known[p] :
           b \in buckets \/ \E t \in Threads : /\ ProcessOf[t] = p /\ Active(t)
                                               /\ BucketOf(t) = b /\ "removed" \in excused[t]]_vars
  BY StepCache
<1> QED
  BY <1>1, Invariance, PTL DEF Spec, CacheNotPoisoned

--------------------------------------------------------------------------------
(* The refinement: a call that has not ended is Running above.                *)
LEMMA HeardNothing ==
    ASSUME NEW t, reply[t] = NoReply, pc[t] # "read"
    PROVE  Heard(t) = NoResult
  BY DEF Heard, NoReply, Reply, NotFoundCodes

LEMMA RunningAbove ==
    ASSUME TypeOK, NEW t \in Threads, pc[t] \notin {"idle", "done"}
    PROVE  O!Running(t)
  BY DEF TypeOK, O!Running, O!NoRequest, NoCall, O!Nothing, O!Reply, NoResult, Result

(* Only what t hears changes.                                                 *)
LEMMA HeardExcept ==
    ASSUME NEW t \in Threads, \A u \in Threads : u # t => Heard(u)' = Heard(u)
    PROVE  [u \in Threads |-> Heard(u)]' =
               [[u \in Threads |-> Heard(u)] EXCEPT ![t] = Heard(t)']
  OBVIOUS

LEMMA OthersHear ==
    ASSUME NEW u, pc'[u] = pc[u], op'[u] = op[u], reply'[u] = reply[u]
    PROVE  Heard(u)' = Heard(u)
  BY DEF Heard

(* A call that ends is an Answer above, with what was heard or a failure.     *)
Closes(t) == /\ pc[t] \notin {"idle", "done"}
             /\ pc' = [pc EXCEPT ![t] = "done"]
             /\ reply' = [reply EXCEPT ![t] = NoReply]
             /\ UNCHANGED <<objects, op>>
Hushed(t) == /\ O!Running(t)
             /\ [u \in Threads |-> Heard(u)]' =
                    [[u \in Threads |-> Heard(u)] EXCEPT ![t] = O!Nothing]

LEMMA EndHides == ASSUME Inv, NEW t \in Threads, Closes(t) PROVE Hushed(t)
<1>1. O!Running(t)
  BY RunningAbove DEF Inv, Closes
<1>2. Heard(t)' = NoResult
  BY DEF Closes, Heard, Inv, TypeOK, NoReply, Reply, NotFoundCodes
<1>3. ASSUME NEW u \in Threads, u # t PROVE Heard(u)' = Heard(u)
  BY <1>3, OthersHear DEF Closes, Inv, TypeOK
<1>4. O!Nothing = NoResult
  BY DEF O!Nothing, O!Reply, NoResult, Result
<1> QED
  BY <1>1, <1>2, <1>3, <1>4, HeardExcept DEF Hushed

LEMMA EndAnswers ==
    ASSUME Inv, NEW t \in Threads, Closes(t), Heard(t) # NoResult,
           result' = [result EXCEPT ![t] = Heard(t)]
    PROVE  O!Answer(t)
<1>1. Hushed(t) /\ UNCHANGED <<objects, op>>
  BY EndHides DEF Closes
<1> QED
  BY <1>1 DEF Hushed, O!Answer, O!Nothing, O!Reply, NoResult, Result

LEMMA EndFails ==
    ASSUME Inv, NEW t \in Threads, Closes(t),
           \E r \in O!Failures : result' = [result EXCEPT ![t] = r]
    PROVE  O!Answer(t)
<1>1. Hushed(t) /\ UNCHANGED <<objects, op>>
  BY EndHides DEF Closes
<1> QED
  BY <1>1 DEF Hushed, O!Answer

LEMMA AFailure == Result(500, None) \in O!Failures /\ Result(503, None) \in O!Failures
  BY DEF O!Failures, O!Reply, Result

(* The steps that the caller and the objects see nothing of.                  *)
LEMMA Hidden ==
    ASSUME \A u \in Threads : Heard(u)' = Heard(u), UNCHANGED <<objects, op, result>>
    PROVE  UNCHANGED O!svars
  BY DEF O!svars

LEMMA FacadeRefines ==
    ASSUME Inv, NEW t \in Threads, Call(t) \/ FacadeStep(t)
    PROVE  [O!SNext]_O!svars
<1>0. pc[t] \notin {"exists", "make", "object", "read"} => reply[t] = NoReply
  BY DEF Inv, TypeOK, Asking
<1>1. CASE Call(t)
  <2>1. \A u \in Threads : Heard(u)' = Heard(u)
    <3>1. ASSUME NEW u \in Threads, u # t PROVE Heard(u)' = Heard(u)
      BY <1>1, <3>1, OthersHear DEF Call, Go, Inv, TypeOK
    <3>2. Heard(t)' = Heard(t)
      BY <1>0, <1>1, HeardNothing DEF Call, Go, Inv, TypeOK, Heard
    <3> QED
      BY <3>1, <3>2
  <2>2. op[t] = O!NoRequest
    BY <1>1 DEF Call, Go, Inv, TypeOK, O!NoRequest, NoCall
  <2>3. PICK c \in Calls : op' = [op EXCEPT ![t] = c]
    BY <1>1 DEF Call
  <2>4. c \in O!Requests
    BY <2>3 DEF Calls, O!Requests
  <2>5. O!Ask(t)
    BY <1>1, <2>1, <2>2, <2>3, <2>4 DEF O!Ask, Call, server
  <2> QED
    BY <2>5 DEF O!SNext
<1>2. CASE EnsureKnown(t) \/ EnsureUnknown(t) \/ UseClient(t) \/ FindNoClient(t)
           \/ BuildClient(t)
  <2>1. /\ UNCHANGED <<objects, op, reply, result>> /\ reply[t] = NoReply
        /\ pc[t] # "read" /\ pc'[t] # "read"
        /\ \A u \in Threads : u # t => pc'[u] = pc[u]
    BY <1>0, <1>2 DEF EnsureKnown, EnsureUnknown, UseClient, FindNoClient, BuildClient,
                      Go, server, Inv, TypeOK
  <2>2. ASSUME NEW u \in Threads PROVE Heard(u)' = Heard(u)
    <3>1. CASE u = t
      BY <2>1, <3>1 DEF Heard, NoReply, Reply, NotFoundCodes
    <3>2. CASE u # t
      BY <2>1, <3>2, OthersHear
    <3> QED
      BY <3>1, <3>2
  <2> QED
    BY <2>1, <2>2, Hidden
<1>3. CASE BucketMissing(t) \/ BucketReady(t)
  <2>1. /\ UNCHANGED <<objects, op, result>> /\ reply' = [reply EXCEPT ![t] = NoReply]
        /\ pc[t] \in {"exists", "make"} /\ pc'[t] \in {"make", "object"}
        /\ \A u \in Threads : u # t => pc'[u] = pc[u]
    <3>1. CASE BucketMissing(t)
      BY <3>1 DEF BucketMissing, ReadReply, Go, server, Inv, TypeOK
    <3>2. CASE BucketReady(t)
      BY <3>2 DEF BucketReady, ReadReply, server, Inv, TypeOK
    <3> QED
      BY <1>3, <3>1, <3>2
  <2>2. ASSUME NEW u \in Threads PROVE Heard(u)' = Heard(u)
    <3>1. CASE u = t
      BY <2>1, <3>1 DEF Heard, NoReply, Reply, NotFoundCodes, Inv, TypeOK
    <3>2. CASE u # t
      BY <2>1, <3>2, OthersHear DEF Inv, TypeOK
    <3> QED
      BY <3>1, <3>2
  <2> QED
    BY <2>1, <2>2, Hidden
<1>4. CASE EnsureFails(t)
  <2>1. Closes(t) /\ result' = [result EXCEPT ![t] = Result(503, None)]
    BY <1>4, Statuses DEF EnsureFails, End, ReadReply, server, Closes
  <2>2. O!Answer(t)
    BY <2>1, AFailure, EndFails
  <2> QED
    BY <2>2 DEF O!SNext
<1>5. CASE StartReading(t)
  <2>1. ASSUME NEW u \in Threads PROVE Heard(u)' = Heard(u)
    <3>1. CASE u = t
      BY <1>5, <3>1 DEF StartReading, Go, Heard, Inv, TypeOK
    <3>2. CASE u # t
      BY <1>5, <3>2, OthersHear DEF StartReading, Go, Inv, TypeOK
    <3> QED
      BY <3>1, <3>2
  <2> QED
    BY <1>5, <2>1, Hidden DEF StartReading, server
<1>6. CASE FinishReading(t)
  <2>1. Heard(t) = Result(StatusOf("returns"), reply[t].data) /\ Heard(t) # NoResult
    BY <1>6, Statuses DEF FinishReading, Heard, Inv, EvidenceOf, Result, NoResult
  <2>2. Closes(t) /\ result' = [result EXCEPT ![t] = Heard(t)]
    BY <1>6, <2>1 DEF FinishReading, End, ReadReply, server, Closes
  <2>3. O!Answer(t)
    BY <2>1, <2>2, EndAnswers
  <2> QED
    BY <2>3 DEF O!SNext
<1>7. CASE ReadingBreaks(t)
  <2>1. Closes(t)
    BY <1>7 DEF ReadingBreaks, End, ReadReply, server, Closes
  <2>2. \E r \in O!Failures : result' = [result EXCEPT ![t] = r]
    <3>1. result' = [result EXCEPT ![t] = Result(500, None)]
      BY <1>7, Statuses DEF ReadingBreaks, End
    <3> QED
      BY <3>1, AFailure
  <2>3. O!Answer(t)
    BY <2>1, <2>2, EndFails
  <2> QED
    BY <2>3 DEF O!SNext
<1>8. CASE EndOperation(t)
  <2> DEFINE outcome == Meaning(op[t].kind, reply[t].code)
  <2>0. Closes(t) /\ result' = [result EXCEPT ![t] = Result(StatusOf(outcome), None)]
    BY <1>8 DEF EndOperation, End, ReadReply, server, Closes
  <2>1. CASE reply[t].code = "ok"
    <3>1. outcome = "returns" /\ reply[t].data = None
      BY <1>8, <2>1 DEF EndOperation, Meaning, Inv, EvidenceOf
    <3>2. Heard(t) = Result(StatusOf(outcome), None) /\ Heard(t) # NoResult
      BY <1>8, <2>1, <3>1, Statuses DEF EndOperation, Heard, Result, NoResult
    <3> QED
      BY <2>0, <3>2, EndAnswers DEF O!SNext
  <2>2. CASE reply[t].code = "NoSuchKey"
    <3>1. op[t].kind \in {"get", "delete"}
      BY <1>8, <2>2, CallShape DEF EndOperation, Inv, EvidenceOf
    <3>2. StatusOf(outcome) = IF op[t].kind = "get" THEN 404 ELSE 200
      BY <2>2, <3>1, Statuses DEF Meaning, NotFoundCodes
    <3>3. Heard(t) = Result(StatusOf(outcome), None) /\ Heard(t) # NoResult
      BY <1>8, <2>2, <3>2 DEF EndOperation, Heard, NotFoundCodes, Result, NoResult
    <3> QED
      BY <2>0, <3>3, EndAnswers DEF O!SNext
  <2>3. CASE reply[t].code \notin {"ok", "NoSuchKey"}
    <3>1. reply[t].code \in {"NoSuchBucket", "AccessDenied"}
      BY <1>8, <2>3 DEF EndOperation, ReadReply, Inv, EvidenceOf
    <3>2. StatusOf(outcome) = 503
      BY <3>1, Statuses DEF Meaning, NotFoundCodes
    <3> QED
      BY <2>0, <3>2, AFailure, EndFails DEF O!SNext
  <2> QED
    BY <2>1, <2>2, <2>3
<1>9. CASE Return(t)
  <2>1. \A u \in Threads : Heard(u)' = IF u \in {t} THEN O!Nothing ELSE Heard(u)
    <3>1. ASSUME NEW u \in Threads, u # t PROVE Heard(u)' = Heard(u)
      BY <1>9, <3>1, OthersHear DEF Return, Go, Inv, TypeOK
    <3>2. Heard(t)' = O!Nothing
      BY <1>9 DEF Return, Go, Inv, TypeOK, Heard, O!Nothing, O!Reply, NoResult, Result
    <3> QED
      BY <3>1, <3>2
  <2>2. [u \in Threads |-> Heard(u)]' =
            [u \in Threads |-> IF u \in {t} THEN O!Nothing ELSE Heard(u)]
    BY <2>1
  <2>3. op' = [u \in Threads |-> IF u \in {t} THEN O!NoRequest ELSE op[u]]
    BY <1>9 DEF Return, O!NoRequest, NoCall, Inv, TypeOK
  <2>4. result' = [u \in Threads |-> IF u \in {t} THEN O!Nothing ELSE result[u]]
    BY <1>9 DEF Return, O!Nothing, O!Reply, NoResult, Result, Inv, TypeOK
  <2>5. O!Leave({t})
    BY <1>9, <2>2, <2>3, <2>4 DEF Return, server, O!Leave, O!Reset
  <2> QED
    BY <2>5 DEF O!SNext
<1> QED
  BY <1>1, <1>2, <1>3, <1>4, <1>5, <1>6, <1>7, <1>8, <1>9 DEF FacadeStep

(* What MinIO says to the operation itself is what the store does above.      *)
LEMMA NetworkRefines ==
    ASSUME Inv, NEW t \in Threads, NetworkStep(t)
    PROVE  [O!SNext]_O!svars
<1>1. CASE AnswerExists(t) \/ AnswerMake(t) \/ NoBucket(t) \/ Refuse(t)
  <2>1. UNCHANGED <<objects, op, result, pc>> /\ reply[t] = NoReply /\ Asking(t)
    BY <1>1 DEF AnswerExists, AnswerMake, NoBucket, Refuse, Served, server, Asking
  <2>2. /\ pc[t] = "object" => reply'[t].code \in {"NoSuchBucket", "AccessDenied"}
        /\ \A u \in Threads : u # t => reply'[u] = reply[u]
    BY <1>1 DEF AnswerExists, AnswerMake, NoBucket, Refuse, Says, Reply, Inv, TypeOK
  <2>3. ASSUME NEW u \in Threads PROVE Heard(u)' = Heard(u)
    <3>1. CASE u = t
      BY <2>1, <2>2, <3>1 DEF Heard, NoReply, Reply, NotFoundCodes, Asking
    <3>2. CASE u # t
      BY <2>1, <2>2, <3>2, OthersHear
    <3> QED
      BY <3>1, <3>2
  <2> QED
    BY <2>1, <2>3, Hidden
<1>2. CASE AnswerPut(t) \/ AnswerGet(t) \/ AnswerDelete(t)
  <2>1. /\ UNCHANGED <<op, result, pc>> /\ pc[t] = "object"
        /\ \A u \in Threads : u # t => reply'[u] = reply[u]
    BY <1>2 DEF AnswerPut, AnswerGet, AnswerDelete, InBucket, Served, Says, Inv, TypeOK
  <2>2. O!Running(t)
    BY <2>1, RunningAbove DEF Inv
  <2>3. ASSUME NEW u \in Threads, u # t PROVE Heard(u)' = Heard(u)
    BY <2>1, <2>3, OthersHear
  <2>4. Heard(t)' = O!Truth(op[t]) /\ objects' = O!Effect(op[t])
    <3>1. CASE AnswerPut(t)
      BY <2>1, <3>1 DEF AnswerPut, InBucket, Says, Reply, Heard, Result, O!Truth, O!Effect,
                        O!Done, O!Reply, Inv, TypeOK
    <3>2. CASE AnswerGet(t)
      <4>1. CASE objects[op[t].obj] = None
        BY <2>1, <3>2, <4>1 DEF AnswerGet, InBucket, Says, Reply, Heard, Result,
             NotFoundCodes, O!Truth, O!Effect, O!NotFound, O!Reply, Inv, TypeOK
      <4>2. CASE objects[op[t].obj] # None
        BY <2>1, <3>2, <4>2 DEF AnswerGet, InBucket, Says, Reply, Heard, Result,
             O!Truth, O!Effect, O!Found, O!Reply, Inv, TypeOK
      <4> QED
        BY <4>1, <4>2
    <3>3. CASE AnswerDelete(t)
      <4>1. op[t].kind = "delete" /\ op[t].data = None
        BY <2>1, <3>3, CallShape DEF AnswerDelete, InBucket, Inv
      <4>2. objects' = O!Effect(op[t])
        BY <3>3, <4>1 DEF AnswerDelete, O!Effect
      <4>3. \/ reply'[t] = Reply("ok", None)
            \/ reply'[t] = Reply("NoSuchKey", None)
        BY <3>3 DEF AnswerDelete, Says, Inv, TypeOK
      <4>4. Heard(t)' = Result(200, None)
        BY <2>1, <4>1, <4>3 DEF Heard, Reply, NotFoundCodes
      <4> QED
        BY <4>1, <4>2, <4>4 DEF O!Truth, O!Done, O!Reply, Result
    <3> QED
      BY <1>2, <3>1, <3>2, <3>3
  <2>5. [u \in Threads |-> Heard(u)]' =
            [[u \in Threads |-> Heard(u)] EXCEPT ![t] = O!Truth(op[t])]
    BY <2>3, <2>4, HeardExcept
  <2>6. O!Act(t)
    BY <2>1, <2>2, <2>4, <2>5 DEF O!Act
  <2> QED
    BY <2>6 DEF O!SNext
<1>3. CASE Repeat(t)
  <2>1. /\ UNCHANGED <<objects, op, result, pc>> /\ Asking(t) /\ reply'[t] = NoReply
        /\ \A u \in Threads : u # t => reply'[u] = reply[u]
    BY <1>3 DEF Repeat, server, Inv, TypeOK
  <2>2. O!Running(t)
    BY <2>1, RunningAbove DEF Inv, Asking
  <2>3. ASSUME NEW u \in Threads, u # t PROVE Heard(u)' = Heard(u)
    BY <2>1, <2>3, OthersHear
  <2>4. Heard(t)' = NoResult
    BY <2>1 DEF Heard, NoReply, Reply, NotFoundCodes, Asking
  <2>5. O!Nothing = NoResult
    BY DEF O!Nothing, O!Reply, NoResult, Result
  <2>6. [u \in Threads |-> Heard(u)]' =
            [[u \in Threads |-> Heard(u)] EXCEPT ![t] = O!Nothing]
    BY <2>3, <2>4, <2>5, HeardExcept
  <2>7. O!Forget(t)
    BY <2>1, <2>2, <2>6 DEF O!Forget
  <2> QED
    BY <2>7 DEF O!SNext
<1>4. CASE GiveUp(t)
  <2>1. Closes(t)
    BY <1>4 DEF GiveUp, End, Asking, server, Closes
  <2>2. \E r \in O!Failures : result' = [result EXCEPT ![t] = r]
    <3>1. result' = [result EXCEPT ![t] = Result(500, None)]
      BY <1>4, Statuses DEF GiveUp, End
    <3> QED
      BY <3>1, AFailure
  <2>3. O!Answer(t)
    BY <2>1, <2>2, EndFails
  <2> QED
    BY <2>3 DEF O!SNext
<1> QED
  BY <1>1, <1>2, <1>3, <1>4 DEF NetworkStep

LEMMA OutsideRefines ==
    ASSUME Inv,
           \/ \E b \in Buckets : RemoveBucket(b)
           \/ \E p \in Processes : Restart(p)
    PROVE  O!SNext
<1>1. CASE \E b \in Buckets : RemoveBucket(b)
  <2> PICK b \in Buckets : RemoveBucket(b)
    BY <1>1
  <2> DEFINE Lost == {o \in Objects : o[1] = b}
  <2>1. objects' = [o \in Objects |-> IF o \in Lost THEN None ELSE objects[o]]
    BY DEF RemoveBucket
  <2>2. \A u \in Threads : Heard(u)' = Heard(u)
    BY OthersHear DEF RemoveBucket
  <2>3. UNCHANGED <<op, result>>
    BY DEF RemoveBucket
  <2>4. O!Vanish(Lost)
    BY <2>1, <2>2, <2>3 DEF O!Vanish
  <2>5. Lost \in SUBSET Objects
    OBVIOUS
  <2> QED
    BY <2>4, <2>5 DEF O!SNext
<1>2. CASE \E p \in Processes : Restart(p)
  <2> PICK p \in Processes : Restart(p)
    BY <1>2
  <2> DEFINE Dead == {u \in Threads : ProcessOf[u] = p}
  <2>1. ASSUME NEW u \in Threads
        PROVE  Heard(u)' = IF u \in Dead THEN O!Nothing ELSE Heard(u)
    <3>1. CASE u \in Dead
      BY <3>1 DEF Restart, Heard, O!Nothing, O!Reply, NoResult, Result
    <3>2. CASE u \notin Dead
      BY <3>2, OthersHear DEF Restart
    <3> QED
      BY <3>1, <3>2
  <2>2. [u \in Threads |-> Heard(u)]' =
            [u \in Threads |-> IF u \in Dead THEN O!Nothing ELSE Heard(u)]
    BY <2>1
  <2>3. op' = [u \in Threads |-> IF u \in Dead THEN O!NoRequest ELSE op[u]]
    BY DEF Restart, O!NoRequest, NoCall
  <2>4. result' = [u \in Threads |-> IF u \in Dead THEN O!Nothing ELSE result[u]]
    BY DEF Restart, O!Nothing, O!Reply, NoResult, Result
  <2>5. O!Leave(Dead)
    BY <2>2, <2>3, <2>4 DEF Restart, server, O!Leave, O!Reset
  <2>6. Dead \in SUBSET Threads
    OBVIOUS
  <2> QED
    BY <2>5, <2>6 DEF O!SNext
<1> QED
  BY <1>1, <1>2

LEMMA StepStore == Inv /\ [Next]_vars => [O!SNext]_O!svars
<1> SUFFICES ASSUME Inv, [Next]_vars PROVE [O!SNext]_O!svars
  OBVIOUS
<1>1. CASE UNCHANGED vars
  <2>1. \A u \in Threads : Heard(u)' = Heard(u)
    BY <1>1, OthersHear DEF vars
  <2> QED
    BY <1>1, <2>1, Hidden DEF vars, server
<1> QED
  BY <1>1, FacadeRefines, NetworkRefines, OutsideRefines DEF Next

(* The facade is an object store with typed errors, whatever buckets, caches, *)
(* races and retries do inside (storage.py 1-16, 167-187).                    *)
THEOREM Refinement == Spec => KeepsStore
<1>1. Init => O!SInit
  <2> SUFFICES ASSUME Init PROVE O!SInit
    OBVIOUS
  <2>1. \A u \in Threads : Heard(u) = NoResult
    BY HeardNothing DEF Init
  <2>2. O!Nothing = NoResult /\ O!NoRequest = NoCall
    BY DEF O!Nothing, O!Reply, NoResult, Result, O!NoRequest, NoCall
  <2> QED
    BY <2>1, <2>2 DEF Init, O!SInit
<1>2. Inv /\ [Next]_vars => [O!SNext]_O!svars
  BY StepStore
<1> QED
  BY <1>1, <1>2, Invariance, PTL DEF Spec, KeepsStore, O!StoreSpec
================================================================================
