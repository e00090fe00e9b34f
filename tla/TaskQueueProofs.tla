---------------------------- MODULE TaskQueueProofs ----------------------------
(* Theorems about TaskQueue, for every set of messages and of workers, every  *)
(* limit on tasks side by side and every number of faults.                    *)
EXTENDS TaskQueue, FiniteSetTheorems, TLAPS

Elements(s) == {s[i] : i \in DOMAIN s}
Distinct(s) == \A i, k \in DOMAIN s : s[i] = s[k] => i = k

(* Where a message can be: in the stream once, or out of it for good; what    *)
(* was run or acknowledged has run; without its group nothing is pending.     *)
PlacesInv ==
    /\ Distinct(stream)
    /\ InStream \subseteq accepted /\ pending \subseteq accepted
    /\ InStream \cap pending = {}
    /\ \A j \in jobs : j.msg \in accepted /\ j.msg \notin InStream
    /\ \A j \in jobs : j.at \in {"ran", "acked"} => j.msg \in ran
    /\ ~group => pending = {}

(* The runs a message may still have: one per delivery, one of which each     *)
(* claim pays for.                                                            *)
Todo(m) == {j \in jobs : j.msg = m /\ j.at \in {"waiting", "running"}}

RunsInv == \A m \in Messages :
    /\ Cardinality(Todo(m)) + runs[m] <= claims[m] + 1
    /\ m \notin accepted \/ m \in InStream => runs[m] = 0

(* The claims of a message: a fault came before each, and before it was       *)
(* abandoned.                                                                 *)
ClaimsInv == \A m \in Messages :
    /\ claims[m] <= faults
    /\ Abandoned(m) => claims[m] + 1 <= faults

Inv == TypeOK /\ PlacesInv /\ RunsInv /\ ClaimsInv

--------------------------------------------------------------------------------
(* Sequences and finite sets.                                                 *)
LEMMA TailElements ==
    ASSUME NEW S, NEW s \in Seq(S), s # <<>>, Distinct(s)
    PROVE  /\ Head(s) \in S /\ Head(s) \in Elements(s)
           /\ Tail(s) \in Seq(S) /\ Distinct(Tail(s))
           /\ Elements(Tail(s)) = Elements(s) \ {Head(s)}
<1>1. /\ Len(s) \in Nat \ {0} /\ DOMAIN s = 1..Len(s)
      /\ Head(s) = s[1] /\ Head(s) \in S /\ Tail(s) \in Seq(S)
  OBVIOUS
<1>2. DOMAIN Tail(s) = 1..(Len(s) - 1) /\ \A i \in 1..(Len(s) - 1) : Tail(s)[i] = s[i + 1]
  BY <1>1
<1>3. Distinct(Tail(s))
  BY <1>1, <1>2 DEF Distinct
<1>4. Elements(Tail(s)) \subseteq Elements(s) \ {Head(s)}
  BY <1>1, <1>2 DEF Elements, Distinct
<1>5. Elements(s) \ {Head(s)} \subseteq Elements(Tail(s))
  <2> SUFFICES ASSUME NEW i \in 1..Len(s), s[i] # Head(s) PROVE s[i] \in Elements(Tail(s))
    BY <1>1 DEF Elements
  <2>1. i - 1 \in 1..(Len(s) - 1) /\ Tail(s)[i - 1] = s[i]
    BY <1>1, <1>2
  <2> QED
    BY <1>2, <2>1 DEF Elements
<1>6. Head(s) \in Elements(s)
  BY <1>1 DEF Elements
<1>7. Elements(Tail(s)) = Elements(s) \ {Head(s)}
  BY <1>4, <1>5
<1> QED
  BY <1>1, <1>3, <1>6, <1>7

LEMMA AppendElements ==
    ASSUME NEW S, NEW s \in Seq(S), NEW m \in S, Distinct(s), m \notin Elements(s)
    PROVE  /\ Append(s, m) \in Seq(S) /\ Distinct(Append(s, m))
           /\ Elements(Append(s, m)) = Elements(s) \cup {m}
<1>1. /\ Len(s) \in Nat /\ DOMAIN s = 1..Len(s)
      /\ DOMAIN Append(s, m) = 1..(Len(s) + 1)
      /\ \A i \in 1..Len(s) : Append(s, m)[i] = s[i]
      /\ Append(s, m)[Len(s) + 1] = m
      /\ Append(s, m) \in Seq(S)
  OBVIOUS
<1>2. Distinct(Append(s, m))
  BY <1>1 DEF Distinct, Elements
<1>3. Elements(Append(s, m)) \subseteq Elements(s) \cup {m}
  BY <1>1 DEF Elements
<1>4. Elements(s) \cup {m} \subseteq Elements(Append(s, m))
  BY <1>1 DEF Elements
<1> QED
  BY <1>1, <1>2, <1>3, <1>4

LEMMA Grown ==
    ASSUME NEW S, IsFiniteSet(S), NEW y, NEW T, T \subseteq S \cup {y}
    PROVE  IsFiniteSet(T) /\ Cardinality(T) <= Cardinality(S) + 1
<1>1. Cardinality(S) \in Nat /\ IsFiniteSet(S \cup {y})
  BY FS_CardinalityType, FS_AddElement
<1>2. Cardinality(S \cup {y}) \in {Cardinality(S), Cardinality(S) + 1}
  BY FS_AddElement
<1>3. Cardinality(S \cup {y}) <= Cardinality(S) + 1
  BY <1>1, <1>2
<1>4. Cardinality(S \cup {y}) \in Nat
  BY <1>1, <1>2
<1>5. IsFiniteSet(T) /\ Cardinality(T) <= Cardinality(S \cup {y})
  BY <1>1, FS_Subset
<1>6. Cardinality(T) \in Nat
  BY <1>5, FS_CardinalityType
<1> QED
  BY <1>1, <1>3, <1>4, <1>5, <1>6

(* Taking one element out and putting one in makes no set larger.             *)
LEMMA Swapped ==
    ASSUME NEW S, IsFiniteSet(S), NEW x \in S, NEW y, NEW T, T \subseteq (S \ {x}) \cup {y}
    PROVE  IsFiniteSet(T) /\ Cardinality(T) <= Cardinality(S)
<1>1. /\ IsFiniteSet(S \ {x}) /\ Cardinality(S \ {x}) = Cardinality(S) - 1
      /\ Cardinality(S) \in Nat
  BY FS_RemoveElement, FS_CardinalityType
<1>2. IsFiniteSet(T) /\ Cardinality(T) <= Cardinality(S \ {x}) + 1
  BY <1>1, Grown
<1> QED
  BY <1>1, <1>2, FS_CardinalityType

LEMMA Shrunk ==
    ASSUME NEW S, IsFiniteSet(S), NEW T, T \subseteq S
    PROVE  /\ IsFiniteSet(T) /\ Cardinality(T) <= Cardinality(S)
           /\ Cardinality(T) \in Nat /\ Cardinality(S) \in Nat
  BY FS_Subset, FS_CardinalityType

--------------------------------------------------------------------------------
(* How each action changes what the workers have in hand.                     *)
NewJob(w, m, n) == jobs' = jobs \cup {Job(w, m, n)}

LEMMA JobShape ==
    ASSUME TypeOK, NEW j \in jobs
    PROVE  /\ j.by \in Workers /\ j.msg \in Messages /\ j.try \in Nat /\ j.at \in Places
           /\ \A place \in Places :
                  /\ At(j, place) \in Jobs
                  /\ At(j, place).by = j.by /\ At(j, place).msg = j.msg
                  /\ At(j, place).at = place
  BY DEF TypeOK, Jobs, At

LEMMA NewJobShape ==
    ASSUME NEW w \in Workers, NEW m \in Messages, NEW n \in Nat
    PROVE  /\ Job(w, m, n) \in Jobs /\ Job(w, m, n).msg = m
           /\ Job(w, m, n).by = w /\ Job(w, m, n).at = "waiting"
  BY DEF Job, Jobs, Places

LEMMA ActiveFinite ==
    ASSUME TypeOK, NEW w \in Workers
    PROVE  IsFiniteSet(Active(w)) /\ Cardinality(Active(w)) \in Nat
  BY Shrunk, FS_Subset, FS_CardinalityType DEF TypeOK, Active

LEMMA TodoFinite ==
    ASSUME TypeOK, NEW m
    PROVE  IsFiniteSet(Todo(m)) /\ Cardinality(Todo(m)) \in Nat
  BY Shrunk, FS_Subset, FS_CardinalityType DEF TypeOK, Todo

JobsOK == jobs \in SUBSET Jobs /\ IsFiniteSet(jobs)
LimitOK == \A w \in Workers : Cardinality(Active(w)) <= MaxAsync

LEMMA FewerJobs ==
    ASSUME TypeOK, jobs' \subseteq jobs
    PROVE  JobsOK' /\ LimitOK'
<1>1. JobsOK'
  BY FS_Subset DEF TypeOK, JobsOK
<1>2. ASSUME NEW w \in Workers PROVE Cardinality(Active(w)') <= MaxAsync
  <2>1. Active(w)' \subseteq Active(w)
    BY DEF Active
  <2> QED
    BY <2>1, ActiveFinite, Shrunk, TaskQueueAssumptions DEF TypeOK
<1> QED
  BY <1>1, <1>2 DEF LimitOK

LEMMA OneMoreJob ==
    ASSUME TypeOK, NEW w \in Workers, NEW m \in Messages, NEW n \in Nat, NewJob(w, m, n)
    PROVE  JobsOK' /\ LimitOK'
<1>1. JobsOK'
  <2>1. jobs' = jobs \cup {Job(w, m, n)} /\ Job(w, m, n) \in Jobs
    BY NewJobShape DEF NewJob
  <2>2. IsFiniteSet(jobs) /\ jobs \subseteq Jobs
    BY DEF TypeOK
  <2>3. IsFiniteSet(jobs')
    BY <2>1, <2>2, FS_AddElement
  <2> QED
    BY <2>1, <2>2, <2>3 DEF JobsOK
<1>2. ASSUME NEW v \in Workers PROVE Active(v)' = Active(v)
  BY NewJobShape DEF NewJob, Active
<1> QED
  BY <1>1, <1>2 DEF TypeOK, LimitOK

LEMMA MovedJob ==
    ASSUME TypeOK, NEW j \in jobs, NEW place \in Places, Move(j, place),
           j.at # "waiting" \/ HasRoom(j.by)
    PROVE  JobsOK' /\ LimitOK'
<1> USE TaskQueueAssumptions
<1>1. JobsOK'
  <2>1. IsFiniteSet(jobs \ {j}) /\ jobs \subseteq Jobs
    BY FS_RemoveElement DEF TypeOK
  <2>2. jobs' = (jobs \ {j}) \cup {At(j, place)} /\ At(j, place) \in Jobs
    BY JobShape DEF Move
  <2>3. IsFiniteSet(jobs')
    BY <2>1, <2>2, FS_AddElement
  <2> QED
    BY <2>1, <2>2, <2>3 DEF JobsOK
<1>2. ASSUME NEW w \in Workers PROVE Cardinality(Active(w)') <= MaxAsync
  <2>1. Cardinality(Active(w)) \in Nat /\ IsFiniteSet(Active(w)) /\ Cardinality(Active(w)) <= MaxAsync
    BY ActiveFinite DEF TypeOK
  <2>2. Active(w)' \subseteq (Active(w) \ {j}) \cup {At(j, place)}
    BY DEF Active, Move
  <2>3. CASE j.at # "waiting" /\ j.by = w
    <3>1. j \in Active(w)
      BY <2>3 DEF Active
    <3>2. IsFiniteSet(Active(w)') /\ Cardinality(Active(w)') <= Cardinality(Active(w))
      BY <2>1, <2>2, <3>1, Swapped
    <3>3. Cardinality(Active(w)') \in Nat
      BY <3>2, FS_CardinalityType
    <3> QED
      BY <2>1, <3>2, <3>3
  <2>4. CASE j.by # w
    <3>1. Active(w)' \subseteq Active(w)
      BY <2>2, <2>4, JobShape DEF Active
    <3> QED
      BY <2>1, <3>1, Shrunk
  <2>5. CASE j.at = "waiting" /\ j.by = w
    <3>1. Cardinality(Active(w)) < MaxAsync
      BY <2>5 DEF HasRoom
    <3>2. Active(w)' \subseteq Active(w) \cup {At(j, place)}
      BY <2>2
    <3>3. IsFiniteSet(Active(w)') /\ Cardinality(Active(w)') <= Cardinality(Active(w)) + 1
      BY <2>1, <3>2, Grown
    <3>4. Cardinality(Active(w)') \in Nat
      BY <3>3, FS_CardinalityType
    <3> QED
      BY <2>1, <3>1, <3>3, <3>4
  <2> QED
    BY <2>3, <2>4, <2>5
<1> QED
  BY <1>1, <1>2 DEF LimitOK

--------------------------------------------------------------------------------
LEMMA TypeInit == Init => TypeOK
<1> SUFFICES ASSUME Init PROVE TypeOK
  OBVIOUS
<1>1. \A w \in Workers : Active(w) = {}
  BY DEF Init, Active
<1>2. Cardinality({}) = 0 /\ IsFiniteSet({})
  BY FS_EmptySet
<1>3. \A w \in Workers : Cardinality(Active(w)) <= MaxAsync
  BY <1>1, <1>2, TaskQueueAssumptions
<1>4. /\ stream \in Seq(Messages) /\ faults \in 0..MaxFaults
      /\ claims \in [Messages -> Nat] /\ runs \in [Messages -> Nat]
  BY TaskQueueAssumptions DEF Init
<1> QED
  BY <1>2, <1>3, <1>4 DEF Init, TypeOK

LEMMA ClaimTypes ==
    ASSUME TypeOK, NEW w \in Workers, NEW m \in Messages, Claim(w, m), faults' \in 0..MaxFaults
    PROVE  TypeOK'
<1>1. claims[m] + 1 \in Nat /\ claims' \in [Messages -> Nat]
  BY DEF Claim, TypeOK
<1>2. NewJob(w, m, claims[m] + 1)
  BY DEF Claim, NewJob
<1>3. JobsOK' /\ LimitOK'
  BY <1>1, <1>2, OneMoreJob
<1> QED
  BY <1>1, <1>3 DEF Claim, redis, TypeOK, JobsOK, LimitOK

LEMMA WorkerStepTypes ==
    ASSUME TypeOK, NEW j \in jobs, WorkerStep(j)
    PROVE  TypeOK'
<1> USE TaskQueueAssumptions
<1>1. CASE Start(j)
  <2>1. JobsOK' /\ LimitOK'
    BY <1>1, MovedJob DEF Start, Places
  <2> QED
    BY <1>1, <2>1 DEF Start, redis, history, TypeOK, JobsOK, LimitOK
<1>2. CASE Finish(j)
  <2>1. JobsOK' /\ LimitOK'
    BY <1>2, MovedJob DEF Finish, Places
  <2>2. ran' \subseteq Messages /\ runs' \in [Messages -> Nat]
    BY <1>2, JobShape DEF Finish, TypeOK
  <2> QED
    BY <1>2, <2>1, <2>2 DEF Finish, redis, TypeOK, JobsOK, LimitOK
<1>3. CASE Ack(j)
  <2>1. JobsOK' /\ LimitOK'
    BY <1>3, MovedJob DEF Ack, WhenExecuted, Places
  <2> QED
    BY <1>3, <2>1 DEF Ack, history, TypeOK, JobsOK, LimitOK
<1>4. CASE AckFails(j)
  <2>1. JobsOK' /\ LimitOK'
    BY <1>4, FewerJobs DEF AckFails, Drop
  <2>2. faults' \in 0..MaxFaults
    BY <1>4 DEF AckFails, Fault, TypeOK
  <2> QED
    BY <1>4, <2>1, <2>2 DEF AckFails, redis, history, TypeOK, JobsOK, LimitOK
<1>5. CASE Save(j)
  <2>1. JobsOK' /\ LimitOK'
    BY <1>5, FewerJobs DEF Save, Drop
  <2>2. results' \subseteq Messages
    BY <1>5, JobShape DEF Save, TypeOK
  <2> QED
    BY <1>5, <2>1, <2>2 DEF Save, redis, history, TypeOK, JobsOK, LimitOK
<1> QED
  BY <1>1, <1>2, <1>3, <1>4, <1>5 DEF WorkerStep

LEMMA FaultTypes ==
    ASSUME TypeOK
    PROVE  /\ Fault => faults' \in 0..MaxFaults
           /\ UNCHANGED faults => faults' \in 0..MaxFaults
  BY TaskQueueAssumptions DEF TypeOK, Fault

LEMMA TypeNext == TypeOK /\ [Next]_vars => TypeOK'
<1> SUFFICES ASSUME TypeOK, [Next]_vars PROVE TypeOK'
  OBVIOUS
<1>1. CASE UNCHANGED vars
  <2>1. \A w \in Workers : Active(w)' = Active(w)
    BY <1>1 DEF vars, Active
  <2> QED
    BY <1>1, <2>1 DEF vars, redis, history, TypeOK
<1>2. ASSUME jobs' \subseteq jobs, alive' \subseteq Workers, stream' \in Seq(Messages),
             group' \in BOOLEAN, pending' \subseteq Messages, results' \subseteq Messages,
             accepted' \subseteq Messages, UNCHANGED <<ran, claims, runs>>,
             Fault \/ UNCHANGED faults
      PROVE  TypeOK'
  BY <1>2, FewerJobs, FaultTypes DEF TypeOK, JobsOK, LimitOK
<1>3. Startup => stream' \in Seq(Messages) /\ group' \in BOOLEAN
  BY DEF Startup, TypeOK
<1>4. CASE OpenBroker \/ RestartRedis
  <2>1. CASE OpenBroker
    BY <1>2, <1>3, <2>1 DEF OpenBroker, history, TypeOK
  <2>2. CASE RestartRedis
    <3>1. /\ jobs' = jobs /\ alive' = alive /\ accepted' = accepted
          /\ UNCHANGED <<ran, claims, runs>> /\ Fault
      BY <2>2 DEF RestartRedis, history
    <3>2. stream' = <<>> /\ group' = FALSE /\ pending' = {} /\ results' = {}
      BY <2>2 DEF RestartRedis
    <3>3. stream' \in Seq(Messages)
      BY <3>2
    <3> QED
      BY <1>2, <3>1, <3>2, <3>3 DEF TypeOK
  <2> QED
    BY <1>4, <2>1, <2>2
<1>5. ASSUME NEW m \in Messages, Publish(m) \/ Expire(m) PROVE TypeOK'
  <2>1. Append(stream, m) \in Seq(Messages)
    BY DEF TypeOK
  <2> QED
    BY <1>2, <1>5, <2>1 DEF Publish, Expire, redis, history, TypeOK
<1>6. ASSUME NEW w \in Workers, StartWorker(w) \/ Crash(w) \/ FindNoGroup(w) PROVE TypeOK'
  BY <1>2, <1>3, <1>6 DEF StartWorker, Crash, FindNoGroup, Die, redis, history, TypeOK
<1>7. ASSUME NEW w \in Workers, Fetch(w) PROVE TypeOK'
  <2>1. Head(stream) \in Messages /\ Tail(stream) \in Seq(Messages)
    BY <1>7 DEF Fetch, TypeOK
  <2>2. NewJob(w, Head(stream), claims[Head(stream)]) /\ claims[Head(stream)] \in Nat
    BY <1>7, <2>1 DEF Fetch, NewJob, TypeOK
  <2>3. JobsOK' /\ LimitOK'
    BY <2>1, <2>2, OneMoreJob
  <2> QED
    BY <1>7, <2>1, <2>3 DEF Fetch, history, TypeOK, JobsOK, LimitOK
<1>8. ASSUME NEW w \in Workers, NEW m \in Messages, Reclaim(w, m) \/ ClaimSlow(w, m)
      PROVE  TypeOK'
  BY <1>8, ClaimTypes, FaultTypes DEF Reclaim, ClaimSlow
<1>9. ASSUME NEW j \in jobs, WorkerStep(j) PROVE TypeOK'
  BY <1>9, WorkerStepTypes
<1> QED
  BY <1>1, <1>4, <1>5, <1>6, <1>7, <1>8, <1>9 DEF Next

--------------------------------------------------------------------------------
(* Where messages are.                                                        *)
LEMMA Streams == InStream = Elements(stream)
  BY DEF InStream, Elements

LEMMA EmptyStream ==
    ASSUME stream' = <<>>
    PROVE  InStream' = {} /\ Distinct(stream)'
  BY DEF InStream, Distinct

LEMMA FetchPlaces ==
    ASSUME TypeOK, PlacesInv, NEW w \in Workers, Fetch(w)
    PROVE  /\ Head(stream) \in Messages /\ Head(stream) \in InStream
           /\ InStream' = InStream \ {Head(stream)} /\ Distinct(stream)'
<1>1. stream \in Seq(Messages) /\ stream # <<>> /\ Distinct(stream) /\ stream' = Tail(stream)
  BY DEF TypeOK, PlacesInv, Fetch
<1>2. /\ Head(stream) \in Messages /\ Head(stream) \in Elements(stream)
      /\ Distinct(Tail(stream)) /\ Elements(Tail(stream)) = Elements(stream) \ {Head(stream)}
  BY <1>1, TailElements
<1>3. InStream' = Elements(Tail(stream)) /\ Distinct(stream)' = Distinct(Tail(stream))
  BY <1>1 DEF InStream, Elements, Distinct
<1> QED
  BY <1>2, <1>3, Streams

LEMMA PublishPlaces ==
    ASSUME TypeOK, PlacesInv, NEW m \in Messages, Publish(m)
    PROVE  InStream' = InStream \cup {m} /\ Distinct(stream)'
<1>1. /\ stream \in Seq(Messages) /\ Distinct(stream) /\ m \notin Elements(stream)
      /\ stream' = Append(stream, m)
  BY Streams DEF TypeOK, PlacesInv, Publish
<1>2. /\ Distinct(Append(stream, m))
      /\ Elements(Append(stream, m)) = Elements(stream) \cup {m}
  BY <1>1, AppendElements
<1>3. InStream' = Elements(Append(stream, m)) /\ Distinct(stream)' = Distinct(Append(stream, m))
  BY <1>1 DEF InStream, Elements, Distinct
<1> QED
  BY <1>2, <1>3, Streams

LEMMA StartupPlaces ==
    ASSUME PlacesInv, Startup
    PROVE  Distinct(stream)' /\ InStream' = (IF group THEN InStream ELSE {})
<1>1. CASE group
  BY <1>1 DEF Startup, PlacesInv, InStream, Distinct
<1>2. CASE ~group
  BY <1>2, EmptyStream DEF Startup
<1> QED
  BY <1>1, <1>2

LEMMA ClaimPlaces ==
    ASSUME TypeOK, PlacesInv, NEW w \in Workers, NEW m \in Messages, Claim(w, m)
    PROVE  PlacesInv'
<1>1. /\ m \in pending /\ NewJob(w, m, claims[m] + 1) /\ claims[m] + 1 \in Nat
      /\ UNCHANGED <<stream, group, pending, accepted, ran>>
  BY DEF Claim, NewJob, redis, TypeOK
<1>2. InStream' = InStream /\ Distinct(stream)' = Distinct(stream)
  BY <1>1 DEF InStream, Distinct
<1>3. \A j \in jobs' : j \in jobs \/ (j.msg = m /\ j.at = "waiting")
  BY <1>1, NewJobShape DEF NewJob
<1> QED
  BY <1>1, <1>2, <1>3 DEF PlacesInv

LEMMA WorkerStepPlaces ==
    ASSUME TypeOK, PlacesInv, NEW j \in jobs, WorkerStep(j)
    PROVE  PlacesInv'
<1>1. UNCHANGED <<stream, group, accepted>> /\ pending' \subseteq pending
  BY DEF WorkerStep, Start, Finish, Ack, AckFails, Save, redis, history
<1>2. InStream' = InStream /\ Distinct(stream)' = Distinct(stream)
  BY <1>1 DEF InStream, Distinct
<1>3. \A k \in jobs' : \E i \in jobs : k.msg = i.msg
  BY JobShape DEF WorkerStep, Start, Finish, Ack, AckFails, Save, Move, Drop, WhenExecuted, Places
<1>4. \A k \in jobs' : k.at \in {"ran", "acked"} => k.msg \in ran'
  BY JobShape DEF PlacesInv, WorkerStep, Start, Finish, Ack, AckFails, Save, Move, Drop,
     WhenExecuted, Places, history
<1> QED
  BY <1>1, <1>2, <1>3, <1>4 DEF PlacesInv
(* Workers and Redis may lose messages and gain none.                         *)
LEMMA FewerPlaces ==
    ASSUME PlacesInv, Distinct(stream)', InStream' \subseteq InStream,
           pending' \subseteq pending, jobs' \subseteq jobs, UNCHANGED <<accepted, ran>>,
           group' \/ pending' = {}
    PROVE  PlacesInv'
  BY DEF PlacesInv

LEMMA PlacesNext == TypeOK /\ PlacesInv /\ [Next]_vars => PlacesInv'
<1> SUFFICES ASSUME TypeOK, PlacesInv, [Next]_vars PROVE PlacesInv'
  OBVIOUS
<1>1. ASSUME UNCHANGED <<stream, group, pending, accepted, ran>>, jobs' \subseteq jobs
      PROVE  PlacesInv'
  <2>1. InStream' = InStream /\ Distinct(stream)' = Distinct(stream)
    BY <1>1 DEF InStream, Distinct
  <2> QED
    BY <1>1, <2>1 DEF PlacesInv
<1>2. CASE UNCHANGED vars
  BY <1>1, <1>2 DEF vars, redis, history
<1>3. CASE OpenBroker
  BY <1>3, StartupPlaces, FewerPlaces DEF OpenBroker, Startup, history
<1>4. CASE RestartRedis
  BY <1>4, EmptyStream, FewerPlaces DEF RestartRedis, history
<1>5. ASSUME NEW m \in Messages, Publish(m) PROVE PlacesInv'
  <2>1. InStream' = InStream \cup {m} /\ Distinct(stream)'
    BY <1>5, PublishPlaces
  <2>2. /\ m \notin accepted /\ accepted' = accepted \cup {m}
        /\ UNCHANGED <<group, pending, jobs, ran>>
    BY <1>5 DEF Publish
  <2> QED
    BY <2>1, <2>2 DEF PlacesInv
<1>6. ASSUME NEW m \in Messages, Expire(m) PROVE PlacesInv'
  BY <1>1, <1>6 DEF Expire, redis, history
<1>7. ASSUME NEW w \in Workers, StartWorker(w) PROVE PlacesInv'
  BY <1>7, StartupPlaces, FewerPlaces DEF StartWorker, Startup, history
<1>8. ASSUME NEW w \in Workers, Crash(w) \/ FindNoGroup(w) PROVE PlacesInv'
  BY <1>1, <1>8 DEF Crash, FindNoGroup, Die, redis, history
<1>9. ASSUME NEW w \in Workers, Fetch(w) PROVE PlacesInv'
  <2>1. /\ Head(stream) \in Messages /\ Head(stream) \in InStream
        /\ InStream' = InStream \ {Head(stream)} /\ Distinct(stream)'
    BY <1>9, FetchPlaces
  <2>2. /\ group /\ pending' = pending \cup {Head(stream)}
        /\ UNCHANGED <<group, accepted, ran>>
        /\ jobs' = jobs \cup {Job(w, Head(stream), claims[Head(stream)])}
    BY <1>9 DEF Fetch, history
  <2>3. claims[Head(stream)] \in Nat
    BY <2>1 DEF TypeOK
  <2>4. \A j \in jobs' : j \in jobs \/ (j.msg = Head(stream) /\ j.at = "waiting")
    BY <2>1, <2>2, <2>3, NewJobShape
  <2> QED
    BY <2>1, <2>2, <2>4 DEF PlacesInv
<1>10. ASSUME NEW w \in Workers, NEW m \in Messages, Reclaim(w, m) \/ ClaimSlow(w, m)
       PROVE  PlacesInv'
  BY <1>10, ClaimPlaces DEF Reclaim, ClaimSlow
<1>11. ASSUME NEW j \in jobs, WorkerStep(j) PROVE PlacesInv'
  BY <1>11, WorkerStepPlaces
<1> QED
  BY <1>2, <1>3, <1>4, <1>5, <1>6, <1>7, <1>8, <1>9, <1>10, <1>11 DEF Next

--------------------------------------------------------------------------------
(* Runs.                                                                      *)
Fresh(m) == m \notin accepted \/ m \in InStream

LEMMA RunsKept ==
    ASSUME TypeOK, RunsInv, UNCHANGED <<claims, runs>>,
           \A m \in Messages : Todo(m)' \subseteq Todo(m),
           \A m \in Messages : Fresh(m)' => Fresh(m)
    PROVE  RunsInv'
<1> SUFFICES ASSUME NEW m \in Messages
             PROVE  /\ Cardinality(Todo(m)') + runs[m] <= claims[m] + 1
                    /\ Fresh(m)' => runs[m] = 0
  BY DEF RunsInv, Fresh
<1>1. IsFiniteSet(Todo(m)) /\ Todo(m)' \subseteq Todo(m)
  BY TodoFinite
<1>2. /\ Cardinality(Todo(m)') <= Cardinality(Todo(m))
      /\ Cardinality(Todo(m)') \in Nat /\ Cardinality(Todo(m)) \in Nat
  BY <1>1, Shrunk
<1>3. runs[m] \in Nat /\ claims[m] \in Nat
  BY DEF TypeOK
<1> QED
  BY <1>2, <1>3 DEF RunsInv, Fresh

LEMMA ClaimRuns ==
    ASSUME TypeOK, PlacesInv, RunsInv, NEW w \in Workers, NEW m \in Messages, Claim(w, m)
    PROVE  RunsInv'
<1>1. /\ claims' = [claims EXCEPT ![m] = claims[m] + 1] /\ claims[m] + 1 \in Nat
      /\ jobs' = jobs \cup {Job(w, m, claims[m] + 1)}
      /\ UNCHANGED <<stream, accepted, runs>>
  BY DEF Claim, redis, TypeOK
<1>2. ASSUME NEW n \in Messages
      PROVE  /\ Cardinality(Todo(n)') + runs[n] <= claims'[n] + 1
             /\ Fresh(n)' => runs[n] = 0
  <2>1. Fresh(n)' = Fresh(n)
    BY <1>1 DEF Fresh, InStream
  <2>2. /\ IsFiniteSet(Todo(n)) /\ Cardinality(Todo(n)) \in Nat
        /\ runs[n] \in Nat /\ claims[n] \in Nat
    BY TodoFinite DEF TypeOK
  <2>3. CASE n = m
    <3>1. Todo(n)' \subseteq Todo(n) \cup {Job(w, m, claims[m] + 1)}
      BY <1>1 DEF Todo
    <3>2. IsFiniteSet(Todo(n)') /\ Cardinality(Todo(n)') <= Cardinality(Todo(n)) + 1
      BY <2>2, <3>1, Grown
    <3>3. Cardinality(Todo(n)') \in Nat
      BY <3>2, FS_CardinalityType
    <3>4. claims'[n] = claims[n] + 1
      BY <1>1, <2>3 DEF TypeOK
    <3> QED
      BY <2>1, <2>2, <3>2, <3>3, <3>4 DEF RunsInv, Fresh
  <2>4. CASE n # m
    <3>1. Todo(n)' = Todo(n)
      BY <1>1, <2>4, NewJobShape DEF Todo
    <3>2. claims'[n] = claims[n]
      BY <1>1, <2>4 DEF TypeOK
    <3> QED
      BY <2>1, <3>1, <3>2 DEF RunsInv, Fresh
  <2> QED
    BY <2>3, <2>4
<1> QED
  BY <1>1, <1>2 DEF RunsInv, Fresh

LEMMA FetchRuns ==
    ASSUME TypeOK, PlacesInv, RunsInv, NEW w \in Workers, Fetch(w)
    PROVE  RunsInv'
<1> DEFINE h == Head(stream)
<1>1. h \in Messages /\ h \in InStream /\ InStream' = InStream \ {h}
  BY FetchPlaces
<1>2. /\ jobs' = jobs \cup {Job(w, h, claims[h])} /\ UNCHANGED <<accepted, claims, runs>>
  BY DEF Fetch, history
<1>3. claims[h] \in Nat
  BY <1>1 DEF TypeOK
<1> HIDE DEF h
<1>4. ASSUME NEW n \in Messages
      PROVE  /\ Cardinality(Todo(n)') + runs[n] <= claims[n] + 1
             /\ Fresh(n)' => runs[n] = 0
  <2>1. Fresh(n)' => Fresh(n)
    BY <1>1, <1>2 DEF Fresh
  <2>2. runs[n] \in Nat /\ claims[n] \in Nat
    BY DEF TypeOK
  <2>3. CASE n = h
    <3>1. Todo(n)' \subseteq {} \cup {Job(w, h, claims[h])}
      BY <1>1, <1>2, <2>3 DEF Todo, PlacesInv
    <3>2. IsFiniteSet({}) /\ Cardinality({}) = 0
      BY FS_EmptySet
    <3>3. IsFiniteSet(Todo(n)') /\ Cardinality(Todo(n)') <= 0 + 1
      BY <3>1, <3>2, Grown
    <3>4. Cardinality(Todo(n)') \in Nat
      BY <3>3, FS_CardinalityType
    <3>5. runs[n] = 0
      BY <1>1, <2>3 DEF RunsInv
    <3> QED
      BY <2>2, <3>3, <3>4, <3>5
  <2>4. CASE n # h
    <3>1. Todo(n)' = Todo(n)
      BY <1>1, <1>2, <1>3, <2>4, NewJobShape DEF Todo
    <3> QED
      BY <2>1, <3>1 DEF RunsInv, Fresh
  <2> QED
    BY <2>3, <2>4
<1> QED
  BY <1>2, <1>4 DEF RunsInv, Fresh
LEMMA WorkerStepRuns ==
    ASSUME TypeOK, PlacesInv, RunsInv, NEW j \in jobs, WorkerStep(j)
    PROVE  RunsInv'
<1>1. \A m \in Messages : Fresh(m)' = Fresh(m)
  BY DEF Fresh, InStream, WorkerStep, Start, Finish, Ack, AckFails, Save, redis, history
<1>2. CASE Start(j)
  <2>1. jobs' = (jobs \ {j}) \cup {At(j, "running")} /\ j.at = "waiting"
        /\ UNCHANGED <<claims, runs>>
    BY <1>2 DEF Start, Move, history
  <2>2. ASSUME NEW m \in Messages
        PROVE  /\ Cardinality(Todo(m)') + runs[m] <= claims[m] + 1
               /\ Fresh(m) => runs[m] = 0
    <3>1. /\ IsFiniteSet(Todo(m)) /\ Cardinality(Todo(m)) \in Nat
          /\ runs[m] \in Nat /\ claims[m] \in Nat
      BY TodoFinite DEF TypeOK
    <3>2. CASE j.msg = m
      <4>1. j \in Todo(m) /\ Todo(m)' \subseteq (Todo(m) \ {j}) \cup {At(j, "running")}
        BY <2>1, <3>2 DEF Todo
      <4>2. IsFiniteSet(Todo(m)') /\ Cardinality(Todo(m)') <= Cardinality(Todo(m))
        BY <3>1, <4>1, Swapped
      <4>3. Cardinality(Todo(m)') \in Nat
        BY <4>2, FS_CardinalityType
      <4> QED
        BY <3>1, <4>2, <4>3 DEF RunsInv, Fresh
    <3>3. CASE j.msg # m
      <4>1. Todo(m)' = Todo(m)
        BY <2>1, <3>3, JobShape DEF Todo, Places
      <4> QED
        BY <4>1 DEF RunsInv, Fresh
    <3> QED
      BY <3>2, <3>3
  <2> QED
    BY <1>1, <2>1, <2>2 DEF RunsInv, Fresh
<1>3. CASE Finish(j)
  <2>1. /\ jobs' = (jobs \ {j}) \cup {At(j, "ran")} /\ j.at = "running"
        /\ runs' = [runs EXCEPT ![j.msg] = runs[j.msg] + 1] /\ claims' = claims
    BY <1>3 DEF Finish, Move
  <2>2. ASSUME NEW m \in Messages
        PROVE  /\ Cardinality(Todo(m)') + runs'[m] <= claims[m] + 1
               /\ Fresh(m) => runs'[m] = 0
    <3>1. /\ IsFiniteSet(Todo(m)) /\ Cardinality(Todo(m)) \in Nat
          /\ runs[m] \in Nat /\ claims[m] \in Nat
      BY TodoFinite DEF TypeOK
    <3>2. CASE j.msg = m
      <4>1. j \in Todo(m) /\ Todo(m)' \subseteq Todo(m) \ {j}
        BY <2>1, <3>2, JobShape DEF Todo, Places
      <4>2. IsFiniteSet(Todo(m) \ {j}) /\ Cardinality(Todo(m) \ {j}) = Cardinality(Todo(m)) - 1
        BY <3>1, <4>1, FS_RemoveElement
      <4>3. /\ Cardinality(Todo(m)') <= Cardinality(Todo(m) \ {j})
            /\ Cardinality(Todo(m)') \in Nat
        BY <4>1, <4>2, Shrunk
      <4>4. runs'[m] = runs[m] + 1
        BY <2>1, <3>2 DEF TypeOK
      <4>5. ~Fresh(m)
        BY <3>2 DEF Fresh, PlacesInv
      <4> QED
        BY <3>1, <4>2, <4>3, <4>4, <4>5 DEF RunsInv
    <3>3. CASE j.msg # m
      <4>1. Todo(m)' = Todo(m) /\ runs'[m] = runs[m]
        BY <2>1, <3>3, JobShape DEF Todo, Places, TypeOK
      <4> QED
        BY <4>1 DEF RunsInv, Fresh
    <3> QED
      BY <3>2, <3>3
  <2> QED
    BY <1>1, <2>1, <2>2 DEF RunsInv, Fresh
<1>4. CASE Ack(j) \/ AckFails(j) \/ Save(j)
  <2>1. UNCHANGED <<claims, runs>>
    BY <1>4 DEF Ack, AckFails, Save, history
  <2>2. \A m \in Messages : Todo(m)' \subseteq Todo(m)
    BY <1>4, JobShape DEF Ack, AckFails, Save, Move, Drop, Todo, Places
  <2> QED
    BY <1>1, <2>1, <2>2, RunsKept
<1> QED
  BY <1>2, <1>3, <1>4 DEF WorkerStep

LEMMA RunsNext == TypeOK /\ PlacesInv /\ RunsInv /\ [Next]_vars => RunsInv'
<1> SUFFICES ASSUME TypeOK, PlacesInv, RunsInv, [Next]_vars PROVE RunsInv'
  OBVIOUS
<1>1. ASSUME UNCHANGED <<accepted, claims, runs>>, InStream' \subseteq InStream,
             jobs' \subseteq jobs
      PROVE  RunsInv'
  <2>1. \A m \in Messages : Todo(m)' \subseteq Todo(m)
    BY <1>1 DEF Todo
  <2>2. \A m \in Messages : Fresh(m)' => Fresh(m)
    BY <1>1 DEF Fresh
  <2> QED
    BY <1>1, <2>1, <2>2, RunsKept
<1>2. UNCHANGED stream => InStream' \subseteq InStream
  BY DEF InStream
<1>3. CASE UNCHANGED vars
  BY <1>1, <1>2, <1>3 DEF vars, redis, history
<1>4. CASE OpenBroker
  BY <1>1, <1>4, StartupPlaces DEF OpenBroker, history
<1>5. CASE RestartRedis
  BY <1>1, <1>5, EmptyStream DEF RestartRedis, history
<1>6. ASSUME NEW m \in Messages, Publish(m) PROVE RunsInv'
  <2>1. InStream' = InStream \cup {m}
    BY <1>6, PublishPlaces
  <2>2. m \notin accepted /\ accepted' = accepted \cup {m} /\ UNCHANGED <<claims, jobs, runs>>
    BY <1>6 DEF Publish
  <2>3. \A n \in Messages : Todo(n)' \subseteq Todo(n)
    BY <2>2 DEF Todo
  <2>4. \A n \in Messages : Fresh(n)' => Fresh(n)
    BY <2>1, <2>2 DEF Fresh
  <2> QED
    BY <2>2, <2>3, <2>4, RunsKept
<1>7. ASSUME NEW m \in Messages, Expire(m) PROVE RunsInv'
  BY <1>1, <1>2, <1>7 DEF Expire, redis, history
<1>8. ASSUME NEW w \in Workers, StartWorker(w) PROVE RunsInv'
  BY <1>1, <1>8, StartupPlaces DEF StartWorker, history
<1>9. ASSUME NEW w \in Workers, Crash(w) \/ FindNoGroup(w) PROVE RunsInv'
  BY <1>1, <1>2, <1>9 DEF Crash, FindNoGroup, Die, redis, history
<1>10. ASSUME NEW w \in Workers, Fetch(w) PROVE RunsInv'
  BY <1>10, FetchRuns
<1>11. ASSUME NEW w \in Workers, NEW m \in Messages, Reclaim(w, m) \/ ClaimSlow(w, m)
       PROVE  RunsInv'
  BY <1>11, ClaimRuns DEF Reclaim, ClaimSlow
<1>12. ASSUME NEW j \in jobs, WorkerStep(j) PROVE RunsInv'
  BY <1>12, WorkerStepRuns
<1> QED
  BY <1>3, <1>4, <1>5, <1>6, <1>7, <1>8, <1>9, <1>10, <1>11, <1>12 DEF Next
--------------------------------------------------------------------------------
(* Claims.                                                                    *)
LEMMA ClaimsKept ==
    ASSUME ClaimsInv, UNCHANGED <<claims, faults>>,
           \A m \in Messages : Abandoned(m)' => Abandoned(m)
    PROVE  ClaimsInv'
  BY DEF ClaimsInv

LEMMA ClaimsFault ==
    ASSUME TypeOK, ClaimsInv, claims' = claims, Fault
    PROVE  ClaimsInv'
<1>1. faults' = faults + 1 /\ faults \in Nat /\ \A m \in Messages : claims[m] \in Nat
  BY TaskQueueAssumptions DEF Fault, TypeOK
<1>2. \A m \in Messages : claims[m] <= faults' /\ claims[m] + 1 <= faults'
  BY <1>1 DEF ClaimsInv
<1> QED
  BY <1>2 DEF ClaimsInv

(* A message that is claimed is in hand again: what paid for the claim is the *)
(* fault that left it, or, for a slow run, the one of this step.              *)
LEMMA ClaimPaid ==
    ASSUME TypeOK, ClaimsInv, NEW w \in Workers, NEW m \in Messages,
           Reclaim(w, m) \/ ClaimSlow(w, m)
    PROVE  ClaimsInv'
<1>1. /\ claims' = [claims EXCEPT ![m] = claims[m] + 1] /\ claims[m] + 1 \in Nat
      /\ jobs' = jobs \cup {Job(w, m, claims[m] + 1)} /\ pending' = pending
  BY DEF Reclaim, ClaimSlow, Claim, redis, TypeOK
<1>2. faults \in Nat /\ faults' \in Nat /\ faults <= faults' /\ claims[m] + 1 <= faults'
  <2>1. CASE Reclaim(w, m)
    BY <2>1, TaskQueueAssumptions DEF Reclaim, ClaimsInv, TypeOK
  <2>2. CASE ClaimSlow(w, m)
    <3>1. faults' = faults + 1 /\ faults \in Nat /\ claims[m] \in Nat /\ claims[m] <= faults
      BY <2>2, TaskQueueAssumptions DEF ClaimSlow, Fault, ClaimsInv, TypeOK
    <3> QED
      BY <3>1
  <2> QED
    BY <2>1, <2>2
<1>3. ~Abandoned(m)'
  BY <1>1, NewJobShape DEF Abandoned, Orphan
<1>4. claims'[m] = claims[m] + 1 /\ \A n \in Messages : n # m => claims'[n] = claims[n]
  BY <1>1 DEF TypeOK
<1>5. \A n \in Messages : n # m /\ Abandoned(n)' => Abandoned(n)
  BY <1>1 DEF Abandoned, Orphan
<1>6. \A n \in Messages : claims[n] \in Nat
  BY DEF TypeOK
<1>7. \A n \in Messages : claims'[n] <= faults'
  BY <1>2, <1>4, <1>6 DEF ClaimsInv
<1>8. \A n \in Messages : Abandoned(n)' => claims'[n] + 1 <= faults'
  BY <1>2, <1>3, <1>4, <1>5, <1>6 DEF ClaimsInv
<1> QED
  BY <1>7, <1>8 DEF ClaimsInv

LEMMA WorkerStepClaims ==
    ASSUME TypeOK, ClaimsInv, NEW j \in jobs, WorkerStep(j)
    PROVE  ClaimsInv'
<1>1. CASE Start(j) \/ Finish(j)
  <2>1. PICK place \in {"running", "ran"} : Move(j, place)
    BY <1>1 DEF Start, Finish
  <2>2. UNCHANGED <<pending, claims, faults>> /\ j.at # "acked"
    BY <1>1 DEF Start, Finish, redis, history
  <2>3. At(j, place) \in jobs' /\ At(j, place).msg = j.msg /\ At(j, place).at # "acked"
    BY <2>1, JobShape DEF Move, Places
  <2>4. ASSUME NEW m \in Messages, Abandoned(m)' PROVE Abandoned(m)
    <3>1. m # j.msg
      BY <2>3, <2>4 DEF Abandoned, Orphan
    <3>2. \A k \in jobs : k.msg = m => k \in jobs'
      BY <2>1, <3>1 DEF Move
    <3> QED
      BY <2>2, <2>4, <3>2 DEF Abandoned, Orphan
  <2> QED
    BY <2>2, <2>4, ClaimsKept
<1>2. CASE Ack(j)
  <2>1. /\ UNCHANGED <<claims, faults>> /\ pending' = pending \ {j.msg}
        /\ jobs' = (jobs \ {j}) \cup {At(j, "acked")}
    BY <1>2 DEF Ack, Move, history
  <2>2. \A m \in Messages : Abandoned(m)' => Abandoned(m)
    BY <2>1 DEF Abandoned, Orphan
  <2> QED
    BY <2>1, <2>2, ClaimsKept
<1>3. CASE AckFails(j)
  BY <1>3, ClaimsFault DEF AckFails, history
<1>4. CASE Save(j)
  <2>1. UNCHANGED <<pending, claims, faults>> /\ jobs' = jobs \ {j} /\ j.at = "acked"
    BY <1>4 DEF Save, Drop, redis, history
  <2>2. \A m \in Messages : Abandoned(m)' => Abandoned(m)
    BY <2>1 DEF Abandoned, Orphan
  <2> QED
    BY <2>1, <2>2, ClaimsKept
<1> QED
  BY <1>1, <1>2, <1>3, <1>4 DEF WorkerStep

LEMMA ClaimsNext == TypeOK /\ PlacesInv /\ ClaimsInv /\ [Next]_vars => ClaimsInv'
<1> SUFFICES ASSUME TypeOK, PlacesInv, ClaimsInv, [Next]_vars PROVE ClaimsInv'
  OBVIOUS
<1>1. ASSUME UNCHANGED <<pending, jobs, claims, faults>> PROVE ClaimsInv'
  <2>1. \A m \in Messages : Abandoned(m)' => Abandoned(m)
    BY <1>1 DEF Abandoned, Orphan
  <2> QED
    BY <1>1, <2>1, ClaimsKept
<1>2. CASE UNCHANGED vars
  BY <1>1, <1>2 DEF vars, redis, history
<1>3. CASE OpenBroker
  BY <1>1, <1>3 DEF OpenBroker, history
<1>4. CASE RestartRedis
  BY <1>4, ClaimsFault DEF RestartRedis, history
<1>5. ASSUME NEW m \in Messages, Publish(m) \/ Expire(m) PROVE ClaimsInv'
  BY <1>1, <1>5 DEF Publish, Expire, redis, history
<1>6. ASSUME NEW w \in Workers, StartWorker(w) PROVE ClaimsInv'
  BY <1>1, <1>6 DEF StartWorker, history
<1>7. ASSUME NEW w \in Workers, Crash(w) PROVE ClaimsInv'
  BY <1>7, ClaimsFault DEF Crash, Die, history
<1>8. ASSUME NEW w \in Workers, FindNoGroup(w) PROVE ClaimsInv'
  <2>1. UNCHANGED <<pending, claims, faults>> /\ pending = {}
    BY <1>8 DEF FindNoGroup, Die, redis, history, PlacesInv
  <2>2. \A m \in Messages : Abandoned(m)' => Abandoned(m)
    BY <2>1 DEF Abandoned
  <2> QED
    BY <2>1, <2>2, ClaimsKept
<1>9. ASSUME NEW w \in Workers, Fetch(w) PROVE ClaimsInv'
  <2>1. Head(stream) \in Messages
    BY <1>9, FetchPlaces
  <2>2. /\ pending' = pending \cup {Head(stream)} /\ UNCHANGED <<claims, faults>>
        /\ jobs' = jobs \cup {Job(w, Head(stream), claims[Head(stream)])}
    BY <1>9 DEF Fetch, history
  <2>3. claims[Head(stream)] \in Nat
    BY <2>1 DEF TypeOK
  <2>4. \A m \in Messages : m # Head(stream) /\ Abandoned(m)' => Abandoned(m)
    BY <2>2 DEF Abandoned, Orphan
  <2>5. \A m \in Messages : Abandoned(m)' => Abandoned(m)
    <3> SUFFICES ASSUME NEW m \in Messages, Abandoned(m)' PROVE Abandoned(m)
      OBVIOUS
    <3>1. Orphan(m)' /\ Job(w, Head(stream), claims[Head(stream)]) \in jobs'
      BY <2>2 DEF Abandoned
    <3>2. m # Head(stream)
      BY <2>1, <2>3, <3>1, NewJobShape DEF Orphan
    <3> QED
      BY <2>4, <3>2
  <2> QED
    BY <2>2, <2>5, ClaimsKept
<1>10. ASSUME NEW w \in Workers, NEW m \in Messages, Reclaim(w, m) \/ ClaimSlow(w, m)
       PROVE  ClaimsInv'
  BY <1>10, ClaimPaid
<1>11. ASSUME NEW j \in jobs, WorkerStep(j) PROVE ClaimsInv'
  BY <1>11, WorkerStepClaims
<1> QED
  BY <1>2, <1>3, <1>4, <1>5, <1>6, <1>7, <1>8, <1>9, <1>10, <1>11 DEF Next

--------------------------------------------------------------------------------
LEMMA InvInit == Init => Inv
<1> SUFFICES ASSUME Init PROVE Inv
  OBVIOUS
<1>1. TypeOK
  BY TypeInit
<1>2. PlacesInv
  BY DEF Init, PlacesInv, Distinct, InStream
<1>3. RunsInv
  <2>1. ASSUME NEW m \in Messages PROVE Todo(m) = {} /\ runs[m] = 0 /\ claims[m] = 0
    BY DEF Init, Todo
  <2>2. Cardinality({}) = 0
    BY FS_EmptySet
  <2> QED
    BY <2>1, <2>2 DEF RunsInv
<1>4. ClaimsInv
  BY DEF Init, ClaimsInv, Abandoned
<1> QED
  BY <1>1, <1>2, <1>3, <1>4 DEF Inv

LEMMA InvNext == Inv /\ [Next]_vars => Inv'
  BY TypeNext, PlacesNext, RunsNext, ClaimsNext DEF Inv

LEMMA InvHolds == Spec => []Inv
  BY InvInit, InvNext, PTL DEF Spec

(* The state of the queue, its workers and its counters has its types, and no *)
(* worker runs more than --max-async-tasks tasks side by side, whatever is    *)
(* fetched, claimed, lost or restarted.                                       *)
THEOREM TypeCorrect == Spec => []TypeOK
  BY InvHolds, PTL DEF Inv

(* A task runs again only because its message was delivered again, and each   *)
(* of those deliveries was paid for by a crash, a lost acknowledgement or a   *)
(* slow run (worker.py 40-52: redelivery of what is pending, no retry).       *)
THEOREM DuplicatesPaidFor == Spec => []DuplicatesExcused
<1>1. Inv => DuplicatesExcused
  <2> SUFFICES ASSUME Inv, NEW m \in Messages
               PROVE  runs[m] <= claims[m] + 1 /\ claims[m] <= faults
    BY DEF DuplicatesExcused
  <2>1. Cardinality(Todo(m)) \in Nat
    BY TodoFinite DEF Inv
  <2>2. runs[m] \in Nat /\ claims[m] \in Nat
    BY DEF Inv, TypeOK
  <2> QED
    BY <2>1, <2>2 DEF Inv, RunsInv, ClaimsInv
<1> QED
  BY <1>1, InvHolds, PTL

--------------------------------------------------------------------------------
(* The refinement.                                                            *)
LEMMA OpenStep ==
    ASSUME PlacesInv, Startup, UNCHANGED <<pending, accepted, ran>>
    PROVE  D!Open
<1>1. InStream' = (IF group THEN InStream ELSE {}) /\ group' = TRUE
  BY StartupPlaces DEF Startup
<1>2. Owed' = Owed
  BY <1>1 DEF Owed, PlacesInv
<1> QED
  BY <1>1, <1>2 DEF D!Open

LEMMA OwedKept ==
    ASSUME UNCHANGED <<stream, group, pending, accepted, ran>>
    PROVE  UNCHANGED D!vars
  BY DEF D!vars, Owed, InStream

LEMMA AckStep ==
    ASSUME PlacesInv, NEW j \in jobs, Ack(j), j.msg \in Messages
    PROVE  [D!Next]_(D!vars)
<1>1. /\ UNCHANGED <<stream, group, accepted, ran>> /\ pending' = pending \ {j.msg}
      /\ j.msg \in ran /\ j.msg \notin InStream
  BY DEF Ack, history, WhenExecuted, PlacesInv
<1>2. InStream' = InStream
  BY <1>1 DEF InStream
<1>3. Owed' = Owed \ {j.msg}
  BY <1>1, <1>2 DEF Owed
<1>4. CASE j.msg \in Owed
  <2>1. D!Settle(j.msg)
    BY <1>1, <1>3, <1>4 DEF D!Settle
  <2> QED
    BY <2>1 DEF D!Next
<1>5. CASE j.msg \notin Owed
  BY <1>1, <1>3, <1>5 DEF D!vars
<1> QED
  BY <1>4, <1>5

LEMMA DeliveryStep == Inv /\ [Next]_vars => [D!Next]_(D!vars)
<1> SUFFICES ASSUME Inv, [Next]_vars PROVE [D!Next]_(D!vars)
  OBVIOUS
<1> USE DEF Inv
<1>1. CASE UNCHANGED vars
  BY <1>1, OwedKept DEF vars, redis, history
<1>2. CASE OpenBroker
  BY <1>2, OpenStep DEF OpenBroker, history, D!Next
<1>3. CASE RestartRedis
  <2>1. D!Restart
    BY <1>3 DEF RestartRedis, history, D!Restart, Owed
  <2> QED
    BY <2>1 DEF D!Next
<1>4. ASSUME NEW m \in Messages, Publish(m) PROVE [D!Next]_(D!vars)
  <2>1. InStream' = InStream \cup {m}
    BY <1>4, PublishPlaces
  <2>2. /\ m \notin accepted /\ accepted' = accepted \cup {m}
        /\ UNCHANGED <<group, pending, ran>>
    BY <1>4 DEF Publish
  <2>3. Owed' = IF group THEN Owed \cup {m} ELSE Owed
    BY <2>1, <2>2 DEF Owed
  <2>4. D!Accept(m)
    BY <2>2, <2>3 DEF D!Accept
  <2> QED
    BY <2>4 DEF D!Next
<1>5. ASSUME NEW m \in Messages, Expire(m) PROVE [D!Next]_(D!vars)
  BY <1>5, OwedKept DEF Expire, redis, history
<1>6. ASSUME NEW w \in Workers, StartWorker(w) PROVE [D!Next]_(D!vars)
  BY <1>6, OpenStep DEF StartWorker, history, D!Next
<1>7. ASSUME NEW w \in Workers, Crash(w) \/ FindNoGroup(w) PROVE [D!Next]_(D!vars)
  BY <1>7, OwedKept DEF Crash, FindNoGroup, Die, redis, history
<1>8. ASSUME NEW w \in Workers, Fetch(w) PROVE [D!Next]_(D!vars)
  <2>1. Head(stream) \in InStream /\ InStream' = InStream \ {Head(stream)}
    BY <1>8, FetchPlaces
  <2>2. /\ group /\ pending' = pending \cup {Head(stream)}
        /\ UNCHANGED <<group, accepted, ran>>
    BY <1>8 DEF Fetch, history
  <2>3. Owed' = Owed
    BY <2>1, <2>2 DEF Owed
  <2> QED
    BY <2>2, <2>3 DEF D!vars
<1>9. ASSUME NEW w \in Workers, NEW m \in Messages, Reclaim(w, m) \/ ClaimSlow(w, m)
      PROVE  [D!Next]_(D!vars)
  BY <1>9, OwedKept DEF Reclaim, ClaimSlow, Claim, redis
<1>10. ASSUME NEW j \in jobs, WorkerStep(j) PROVE [D!Next]_(D!vars)
  <2>1. j.msg \in Messages /\ j.msg \in accepted
    BY JobShape DEF PlacesInv
  <2>2. CASE Ack(j)
    BY <2>1, <2>2, AckStep
  <2>3. CASE Finish(j)
    <3>1. /\ ran' = ran \cup {j.msg} /\ UNCHANGED <<stream, group, pending, accepted>>
      BY <2>3 DEF Finish, redis
    <3>2. Owed' = Owed
      BY <3>1 DEF Owed, InStream
    <3>3. D!Run(j.msg)
      BY <2>1, <3>1, <3>2 DEF D!Run
    <3> QED
      BY <2>1, <3>3 DEF D!Next
  <2>4. CASE Start(j) \/ AckFails(j) \/ Save(j)
    BY <2>4, OwedKept DEF Start, AckFails, Save, redis, history
  <2> QED
    BY <1>10, <2>2, <2>3, <2>4 DEF WorkerStep
<1> QED
  BY <1>1, <1>2, <1>3, <1>4, <1>5, <1>6, <1>7, <1>8, <1>9, <1>10 DEF Next

(* The queue of worker.py keeps the promise of Delivery: what it accepted     *)
(* with its group open stays owed until a run of its task has ended, however  *)
(* workers die, start and claim; only Redis itself can forget it.             *)
THEOREM Refinement == Spec => KeepsDelivery
<1>1. Init => D!Init
  BY DEF Init, D!Init, Owed
<1>2. Spec => [][D!Next]_(D!vars)
  BY InvHolds, DeliveryStep, PTL DEF Spec
<1> QED
  BY <1>1, <1>2, PTL DEF Spec, KeepsDelivery, D!Spec

(* What is owed stays owed until a run of its task has ended, or Redis itself *)
(* restarts: no crash, claim, lost acknowledgement or start of a worker takes *)
(* a message away.                                                            *)
NothingLost ==
    [][\A m \in Messages : m \in Owed /\ m \notin Owed' => m \in ran \/ RestartRedis]_vars

(* worker.py 40-45: delivery at least once, up to a restart of Redis.         *)
THEOREM OwedUntilRun == Spec => NothingLost
<1>1. Inv /\ [Next]_vars =>
          [\A m \in Messages : m \in Owed /\ m \notin Owed' => m \in ran \/ RestartRedis]_vars
  <2> SUFFICES ASSUME Inv, [Next]_vars, NEW m \in Messages, m \in Owed, m \notin Owed', m \notin ran
               PROVE  RestartRedis
    OBVIOUS
  <2>1. D!Restart
    <3>1. [D!Next]_(D!vars)
      BY DeliveryStep
    <3>2. ~UNCHANGED D!vars
      BY DEF D!vars
    <3>3. ASSUME NEW n \in Messages, D!Accept(n) \/ D!Run(n) \/ D!Settle(n) PROVE FALSE
      BY <3>3 DEF D!Accept, D!Run, D!Settle
    <3>4. ~D!Open
      BY DEF D!Open
    <3> QED
      BY <3>1, <3>2, <3>3, <3>4 DEF D!Next
  <2>2. group /\ ~group'
    BY <2>1 DEF D!Restart, Owed
  <2>3. ASSUME UNCHANGED group PROVE FALSE
    BY <2>2, <2>3
  <2>4. ~OpenBroker /\ \A w \in Workers : ~StartWorker(w)
    BY <2>2 DEF OpenBroker, StartWorker, Startup
  <2>5. ASSUME NEW n \in Messages, Publish(n) \/ Expire(n) PROVE FALSE
    BY <2>3, <2>5 DEF Publish, Expire, redis
  <2>6. ASSUME NEW w \in Workers, Fetch(w) \/ Crash(w) \/ FindNoGroup(w) PROVE FALSE
    BY <2>3, <2>6 DEF Fetch, Crash, FindNoGroup, Die, redis
  <2>7. ASSUME NEW w \in Workers, NEW n \in Messages, Reclaim(w, n) \/ ClaimSlow(w, n)
        PROVE  FALSE
    BY <2>3, <2>7 DEF Reclaim, ClaimSlow, Claim, redis
  <2>8. ASSUME NEW j \in jobs, WorkerStep(j) PROVE FALSE
    BY <2>3, <2>8 DEF WorkerStep, Start, Finish, Ack, AckFails, Save, redis
  <2>9. ~UNCHANGED vars
    BY <2>3 DEF vars, redis
  <2> QED
    BY <2>4, <2>5, <2>6, <2>7, <2>8, <2>9 DEF Next
<1> QED
  BY <1>1, InvHolds, PTL DEF Spec, NothingLost
================================================================================
