----------------------------- MODULE HeartbeatProofs -----------------------------
(* Theorems about Heartbeat, for any period, interval of the checks, number   *)
(* of retries and memory of the broker.                                       *)
EXTENDS Heartbeat, FiniteSetTheorems, FunctionTheorems, TLAPS

(* How long the marker lives at least, by the pings that were due since it    *)
(* was written: three periods, of which each of them has used up one.         *)
MarkerInv ==
    /\ ~scheduler => excused
    /\ ~excused =>
           /\ missed = 0 => marker >= Period + Period + due
           /\ missed = 1 => marker >= Period + due
           /\ missed = 2 => marker >= due

Inv == TypeOK /\ MarkerInv

(* The part of the type invariant that is about the broker's memory.          *)
Tasks == {"ping", "probe", "stale"}
QueueOK ==
    /\ queue \in Seq(Tasks) /\ abandoned \in Nat /\ full \in BOOLEAN
    /\ Len(queue) + abandoned <= Capacity /\ (~full => Len(queue) + abandoned # Capacity)

--------------------------------------------------------------------------------
LEMMA TtlIsThreePeriods == Ttl = Period + Period + Period /\ Ttl \in Nat \ {0}
  BY HeartbeatAssumptions DEF Ttl

LEMMA Published ==
    ASSUME QueueOK, NEW task \in Tasks, ~full, queue' = Append(queue, task),
           abandoned' = abandoned, MayFill
    PROVE  QueueOK'
<1>1. Append(queue, task) \in Seq(Tasks) /\ Len(Append(queue, task)) = Len(queue) + 1
  BY DEF QueueOK
<1>2. full' \in BOOLEAN /\ (~full' => ~(Len(queue') + abandoned' >= Capacity))
  BY DEF MayFill
<1> QED
  BY <1>1, <1>2, HeartbeatAssumptions DEF QueueOK

LEMMA NoRoomMade ==
    ASSUME QueueOK, FullOrNot
    PROVE  full' \in BOOLEAN /\ (~full' => ~full)
  BY Zenon DEF QueueOK, FullOrNot

(* Whatever the queue is, it may be full, if fewer tasks wait than fit.       *)
LEMMA RoomLeft ==
    ASSUME queue' \in Seq(Tasks), abandoned' \in Nat, full' \in BOOLEAN,
           Len(queue') + abandoned' < Capacity
    PROVE  QueueOK'
<1>1. Len(queue') \in Nat
  OBVIOUS
<1> QED
  BY <1>1, HeartbeatAssumptions DEF QueueOK

LEMMA Taken ==
    ASSUME QueueOK, queue # <<>>, queue' = Tail(queue), FullOrNot,
           abandoned' \in {abandoned, abandoned + 1}
    PROVE  QueueOK' /\ Head(queue) \in Tasks
<1>1. /\ Tail(queue) \in Seq(Tasks) /\ Len(Tail(queue)) = Len(queue) - 1
      /\ Len(queue) \in Nat /\ Head(queue) \in Tasks
  BY DEF QueueOK
<1>2. full' \in BOOLEAN /\ (~full' => ~full)
  BY NoRoomMade
<1> QED
  BY <1>1, <1>2, HeartbeatAssumptions DEF QueueOK

LEMMA Marked ==
    ASSUME QueueOK, queue' = [i \in DOMAIN queue |-> Stale(queue[i])],
           UNCHANGED <<abandoned, full>>
    PROVE  QueueOK'
<1>1. Len(queue) \in Nat /\ DOMAIN queue = 1..Len(queue) /\ queue \in [1..Len(queue) -> Tasks]
  BY DEF QueueOK
<1>2. \A i \in 1..Len(queue) : Stale(queue[i]) \in Tasks
  BY <1>1 DEF Stale, Tasks
<1>3. queue' \in [1..Len(queue) -> Tasks]
  BY <1>1, <1>2
<1>4. queue' \in Seq(Tasks) /\ Len(queue') = Len(queue)
  BY <1>1, <1>3
<1> QED
  BY <1>4 DEF QueueOK

LEMMA RanTypes ==
    ASSUME TypeOK, NEW task, Ran(task)
    PROVE  marker' \in 0..Ttl /\ missed' \in 0..3 /\ excused' \in BOOLEAN
<1>1. CASE WritesMarker(task) /\ ~full
  <2>1. marker' = Ttl /\ missed' = 0
    BY <1>1 DEF Ran
  <2>2. excused' \in BOOLEAN
    BY <1>1, Zenon DEF Ran, TypeOK
  <2> QED
    BY <2>1, <2>2, TtlIsThreePeriods
<1>2. CASE ~(WritesMarker(task) /\ ~full)
  BY <1>2 DEF Ran, TypeOK
<1> QED
  BY <1>1, <1>2

LEMMA MoreTypes ==
    ASSUME NEW fails \in 0..Retries
    PROVE  More(fails) \in 0..Retries
  BY HeartbeatAssumptions DEF More

--------------------------------------------------------------------------------
LEMMA TypeInit == Init => TypeOK
<1> SUFFICES ASSUME Init PROVE TypeOK
  OBVIOUS
<1>1. queue \in Seq(Tasks) /\ Len(queue) = 0 /\ abandoned = 0 /\ full = FALSE
  BY DEF Init, Tasks
<1>2. marker \in 0..Ttl /\ Len(queue) + abandoned < Capacity /\ Capacity \in Nat
  BY <1>1, HeartbeatAssumptions, TtlIsThreePeriods DEF Init
<1>3. /\ due \in 0..Period /\ next \in 0..CheckEvery /\ missed \in 0..3
      /\ workerFails \in 0..Retries /\ schedulerFails \in 0..Retries
  BY HeartbeatAssumptions DEF Init
<1>4. /\ probe \in {"due", "waiting", "answered", "over"}
      /\ scheduler \in BOOLEAN /\ worker \in BOOLEAN /\ excused \in BOOLEAN
  BY DEF Init
<1>5. full \in BOOLEAN
  BY <1>1, Zenon
<1>6. Len(queue) + abandoned <= Capacity /\ Len(queue) + abandoned # Capacity
  BY <1>1, <1>2
<1>7. abandoned \in Nat
  BY <1>1
<1> QED
  BY <1>1, <1>2, <1>3, <1>4, <1>5, <1>6, <1>7 DEF TypeOK, Tasks

(* All of the type invariant but what is about the broker's memory.           *)
ClocksOK ==
    /\ scheduler \in BOOLEAN /\ worker \in BOOLEAN
    /\ due \in 0..Period /\ marker \in 0..Ttl /\ next \in 0..CheckEvery
    /\ probe \in {"due", "waiting", "answered", "over"}
    /\ workerFails \in 0..Retries /\ schedulerFails \in 0..Retries
    /\ missed \in 0..3 /\ excused \in BOOLEAN

LEMMA TypeParts == TypeOK <=> QueueOK /\ ClocksOK
  BY DEF TypeOK, QueueOK, ClocksOK, Tasks

LEMMA QueueNext == QueueOK /\ [Next]_vars => QueueOK'
<1> SUFFICES ASSUME QueueOK, [Next]_vars PROVE QueueOK'
  OBVIOUS
<1>1. ASSUME UNCHANGED tasks PROVE QueueOK'
  BY <1>1 DEF tasks, QueueOK
<1>2. CASE UNCHANGED vars
  BY <1>1, <1>2 DEF vars
<1>3. CASE Ping
  <2>1. "ping" \in Tasks
    BY DEF Tasks
  <2>2. CASE full
    BY <1>1, <1>3, <2>2 DEF Ping, tasks
  <2>3. CASE ~full
    BY <1>3, <2>1, <2>3, Published DEF Ping
  <2> QED
    BY <2>2, <2>3
<1>4. CASE Run \/ Crash
  BY <1>4, Taken DEF Run, Crash
<1>5. CASE RunAbandoned
  <2>1. full' \in BOOLEAN
    BY <1>5, NoRoomMade DEF RunAbandoned
  <2>2. /\ queue' \in Seq(Tasks) /\ abandoned' \in Nat
        /\ Len(queue') + abandoned' < Capacity
    BY <1>5, HeartbeatAssumptions DEF RunAbandoned, QueueOK
  <2> QED
    BY <2>1, <2>2, RoomLeft
<1>6. CASE RedisRestarts
  <2>1. full' \in BOOLEAN
    BY <1>6, Zenon DEF RedisRestarts
  <2>2. queue' = <<>> /\ abandoned' = 0
    BY <1>6 DEF RedisRestarts
  <2>3. /\ queue' \in Seq(Tasks) /\ abandoned' \in Nat
        /\ Len(queue') + abandoned' < Capacity
    BY <2>2, HeartbeatAssumptions
  <2> QED
    BY <2>1, <2>3, RoomLeft
<1>7. CASE ProbeStarts
  <2>1. "probe" \in Tasks
    BY DEF Tasks
  <2> QED
    BY <1>7, <2>1, Published DEF ProbeStarts
<1>8. CASE ProbeGivesUp
  BY <1>8, Marked DEF ProbeGivesUp
<1>9. CASE \/ WorkerStops \/ SchedulerStops \/ ProbeRefused \/ ProbePasses
           \/ CheckScheduler \/ Tick
  BY <1>1, <1>9 DEF WorkerStops, SchedulerStops, ProbeRefused, ProbePasses, CheckScheduler, Tick
<1>10. CASE ResultsExpire
  <2>1. full' \in BOOLEAN
    BY <1>10, Zenon DEF ResultsExpire
  <2>2. UNCHANGED <<queue, abandoned>> /\ Len(queue) + abandoned < Capacity
    BY <1>10 DEF ResultsExpire
  <2>3. queue \in Seq(Tasks) /\ abandoned \in Nat
    BY DEF QueueOK
  <2> QED
    BY <2>1, <2>2, <2>3, RoomLeft
<1> QED
  BY <1>2, <1>3, <1>4, <1>5, <1>6, <1>7, <1>8, <1>9, <1>10 DEF Next, Works, Fails

LEMMA ClocksNext == TypeOK /\ [Next]_vars => ClocksOK'
<1> SUFFICES ASSUME TypeOK, [Next]_vars PROVE ClocksOK'
  OBVIOUS
<1> USE HeartbeatAssumptions
<1>1. ClocksOK
  BY TypeParts
<1>2. CASE UNCHANGED vars
  BY <1>1, <1>2 DEF vars, checks, ClocksOK
<1>3. CASE Ping
  <2>1. missed' \in 0..3
    BY <1>1, <1>3 DEF Ping, ClocksOK
  <2> QED
    BY <1>1, <1>3, <2>1 DEF Ping, checks, ClocksOK
<1>4. CASE Run
  <2>1. marker' \in 0..Ttl /\ missed' \in 0..3 /\ excused' \in BOOLEAN
    BY <1>4, RanTypes DEF Run
  <2> QED
    BY <1>1, <1>4, <2>1 DEF Run, ClocksOK
<1>5. CASE Crash
  <2>1. marker' \in 0..Ttl /\ missed' \in 0..3 /\ excused' \in BOOLEAN
    <3>1. CASE Ran(Head(queue))
      BY <3>1, RanTypes
    <3>2. CASE UNCHANGED <<marker, missed, excused>>
      BY <1>1, <3>2 DEF ClocksOK
    <3> QED
      BY <1>5, <3>1, <3>2 DEF Crash
  <2> QED
    BY <1>1, <1>5, <2>1 DEF Crash, checks, ClocksOK
<1>6. CASE RunAbandoned
  <2>1. marker' \in 0..Ttl /\ missed' \in 0..3 /\ excused' \in BOOLEAN
    BY <1>6, RanTypes DEF RunAbandoned
  <2> QED
    BY <1>1, <1>6, <2>1 DEF RunAbandoned, checks, ClocksOK
<1>7. CASE WorkerStops \/ SchedulerStops \/ ResultsExpire
  BY <1>1, <1>7 DEF WorkerStops, SchedulerStops, ResultsExpire, checks, ClocksOK
<1>8. CASE RedisRestarts
  <2>1. marker' \in 0..Ttl
    BY <1>8, TtlIsThreePeriods DEF RedisRestarts
  <2> QED
    BY <1>1, <1>8, <2>1 DEF RedisRestarts, checks, ClocksOK
<1>9. CASE ProbeStarts
  BY <1>1, <1>9 DEF ProbeStarts, ClocksOK
<1>10. CASE ProbeRefused \/ ProbeGivesUp
  <2>1. workerFails' \in 0..Retries
    BY <1>1, <1>10, MoreTypes DEF ProbeRefused, ProbeGivesUp, Verdict, ClocksOK
  <2> QED
    BY <1>1, <1>10, <2>1 DEF ProbeRefused, ProbeGivesUp, Verdict, ClocksOK
<1>11. CASE ProbePasses
  BY <1>1, <1>11 DEF ProbePasses, Verdict, ClocksOK
<1>12. CASE CheckScheduler
  <2>1. schedulerFails' \in 0..Retries
    BY <1>1, <1>12, MoreTypes DEF CheckScheduler, ClocksOK
  <2> QED
    BY <1>1, <1>12, <2>1 DEF CheckScheduler, ClocksOK
<1>13. CASE Tick
  <2>1. next' \in 0..CheckEvery
    BY <1>1, <1>13 DEF Tick, ClocksOK
  <2>2. marker' \in 0..Ttl
    BY <1>1, <1>13, TtlIsThreePeriods DEF Tick, Less, ClocksOK
  <2>3. due' \in 0..Period
    BY <1>1, <1>13 DEF Tick, ClocksOK
  <2>4. scheduler' \in BOOLEAN /\ worker' \in BOOLEAN
    BY <1>1, <1>13 DEF Tick, ClocksOK
  <2> QED
    BY <1>1, <1>13, <2>1, <2>2, <2>3, <2>4 DEF Tick, ClocksOK
<1> QED
  BY <1>2, <1>3, <1>4, <1>5, <1>6, <1>7, <1>8, <1>9, <1>10, <1>11, <1>12, <1>13
     DEF Next, Works, Fails

--------------------------------------------------------------------------------
(* A marker that is written while the scheduler lives has all of its time     *)
(* before it.                                                                 *)
LEMMA RanMarker ==
    ASSUME TypeOK, MarkerInv, NEW task, Ran(task), UNCHANGED <<scheduler, due>>
    PROVE  MarkerInv'
<1>1. CASE WritesMarker(task) /\ ~full
  <2>1. marker' = Ttl /\ missed' = 0
    BY <1>1 DEF Ran
  <2>2. excused' = ~scheduler
    BY <1>1 DEF Ran
  <2>3. marker' >= Period + Period + due'
    BY <2>1, TtlIsThreePeriods, HeartbeatAssumptions DEF TypeOK
  <2>4. ~scheduler' => excused'
    BY <2>2
  <2> QED
    BY <2>1, <2>3, <2>4 DEF MarkerInv
<1>2. CASE ~(WritesMarker(task) /\ ~full)
  BY <1>2 DEF Ran, MarkerInv
<1> QED
  BY <1>1, <1>2

LEMMA MarkerNext == TypeOK /\ MarkerInv /\ [Next]_vars => MarkerInv'
<1> SUFFICES ASSUME TypeOK, MarkerInv, [Next]_vars PROVE MarkerInv'
  OBVIOUS
<1> USE HeartbeatAssumptions
<1>1. ASSUME UNCHANGED <<scheduler, due, marker, missed, excused>> PROVE MarkerInv'
  BY <1>1 DEF MarkerInv
<1>2. CASE UNCHANGED vars
  BY <1>1, <1>2 DEF vars
<1>3. CASE Ping
  <2>1. /\ due = 0 /\ due' = Period /\ UNCHANGED <<scheduler, marker, excused>>
        /\ missed' = IF missed < 3 THEN missed + 1 ELSE missed
    BY <1>3 DEF Ping
  <2>2. marker \in Nat /\ missed \in 0..3
    BY TtlIsThreePeriods DEF TypeOK
  <2> QED
    BY <2>1, <2>2 DEF MarkerInv
<1>4. CASE Run \/ Crash \/ RunAbandoned
  <2>1. UNCHANGED <<scheduler, due>>
    BY <1>4 DEF Run, Crash, RunAbandoned
  <2>2. (\E task \in {Head(queue), "ping"} : Ran(task)) \/ UNCHANGED <<marker, missed, excused>>
    BY <1>4 DEF Run, Crash, RunAbandoned
  <2> QED
    BY <1>1, <2>1, <2>2, RanMarker
<1>5. CASE SchedulerStops \/ RedisRestarts
  BY <1>5 DEF SchedulerStops, RedisRestarts, MarkerInv
<1>6. CASE \/ WorkerStops \/ ProbeStarts \/ ProbeRefused \/ ProbePasses
           \/ ProbeGivesUp \/ CheckScheduler \/ ResultsExpire
  BY <1>1, <1>6 DEF WorkerStops, ProbeStarts, ProbeRefused, ProbePasses, ProbeGivesUp,
     CheckScheduler, ResultsExpire
<1>7. CASE Tick
  <2>1. marker' = Less(marker) /\ UNCHANGED <<missed, excused>> /\ (scheduler => due > 0)
    BY <1>7 DEF Tick
  <2>2. CASE scheduler
    <3>1. scheduler' = scheduler /\ due' = due - 1
      BY <1>7, <2>2 DEF Tick
    <3>2. marker \in Nat /\ due \in Nat \ {0}
      BY <2>1, <2>2, TtlIsThreePeriods DEF TypeOK
    <3>3. marker' = IF marker > 0 THEN marker - 1 ELSE 0
      BY <2>1 DEF Less
    <3> QED
      BY <2>1, <2>2, <3>1, <3>2, <3>3 DEF MarkerInv
  <2>3. CASE ~scheduler
    BY <2>1, <2>3 DEF MarkerInv
  <2> QED
    BY <2>2, <2>3
<1> QED
  BY <1>2, <1>3, <1>4, <1>5, <1>6, <1>7 DEF Next, Works, Fails

LEMMA InvHolds == Spec => []Inv
<1>1. Init => Inv
  BY TypeInit DEF Init, Inv, MarkerInv
<1>2. Inv /\ [Next]_vars => Inv'
  <2> SUFFICES ASSUME Inv, [Next]_vars PROVE Inv'
    OBVIOUS
  <2>1. TypeOK /\ MarkerInv /\ QueueOK
    BY TypeParts DEF Inv
  <2>2. QueueOK' /\ ClocksOK' /\ MarkerInv'
    BY <2>1, QueueNext, ClocksNext, MarkerNext
  <2>3. TypeOK'
    BY <2>2 DEF TypeOK, QueueOK, ClocksOK, Tasks
  <2> QED
    BY <2>2, <2>3 DEF Inv
<1> QED
  BY <1>1, <1>2, PTL DEF Spec

(* Everything has its type, and no more tasks wait in the broker's Redis than *)
(* fit in it, whatever ran, died or expired before: the next is refused when  *)
(* it is published.                                                           *)
THEOREM TypeCorrect == Spec => []TypeOK
  BY InvHolds, PTL DEF Inv

(* worker.py 88-98: three periods of life are enough: as long as the          *)
(* scheduler lives and Redis stays, the marker expires only when two pings in *)
(* a row went unrun.                                                          *)
THEOREM LatePingTolerated == Spec => []OneLostPingTolerated
<1>1. Inv => OneLostPingTolerated
  <2> SUFFICES ASSUME Inv, marker = 0, ~excused PROVE missed >= 2
    BY DEF OneLostPingTolerated
  <2>1. missed \in 0..3 /\ due \in 0..Period /\ Period \in Nat \ {0}
    BY HeartbeatAssumptions DEF Inv, TypeOK
  <2> QED
    BY <2>1 DEF Inv, MarkerInv
<1> QED
  BY <1>1, InvHolds, PTL
--------------------------------------------------------------------------------
(* What a scheduler that has died left behind: the pings still queued, and    *)
(* those a worker died with.                                                  *)
PingsIn(s) == {i \in DOMAIN s : s[i] = "ping"}
Pings(s) == Cardinality(PingsIn(s))

LEMMA PingsType ==
    ASSUME NEW s \in Seq(Tasks)
    PROVE  IsFiniteSet(PingsIn(s)) /\ Pings(s) \in Nat
<1>1. DOMAIN s = 1..Len(s) /\ Len(s) \in Nat
  OBVIOUS
<1>2. IsFiniteSet(1..Len(s)) /\ PingsIn(s) \subseteq 1..Len(s)
  BY <1>1, FS_Interval DEF PingsIn
<1>3. IsFiniteSet(PingsIn(s))
  BY <1>2, FS_Subset
<1> QED
  BY <1>3, FS_CardinalityType DEF Pings

LEMMA PingsEmpty == Pings(<<>>) = 0
<1>1. PingsIn(<<>>) = {}
  BY DEF PingsIn
<1> QED
  BY <1>1, FS_EmptySet DEF Pings

(* A task put behind the others moves none of them.                           *)
LEMMA PingsAppend ==
    ASSUME NEW s \in Seq(Tasks), NEW task \in Tasks, task # "ping"
    PROVE  Pings(Append(s, task)) = Pings(s)
<1>1. /\ DOMAIN s = 1..Len(s) /\ Len(s) \in Nat
      /\ DOMAIN Append(s, task) = 1..(Len(s) + 1)
      /\ \A i \in 1..Len(s) : Append(s, task)[i] = s[i]
      /\ Append(s, task)[Len(s) + 1] = task
  OBVIOUS
<1>2. PingsIn(Append(s, task)) = PingsIn(s)
  BY <1>1 DEF PingsIn
<1> QED
  BY <1>2 DEF Pings

(* The first one taken out, the others move up.                               *)
LEMMA PingsTail ==
    ASSUME NEW s \in Seq(Tasks), s # <<>>
    PROVE  Pings(Tail(s)) = IF Head(s) = "ping" THEN Pings(s) - 1 ELSE Pings(s)
<1> DEFINE Rest == PingsIn(s) \ {1}
           up == [i \in PingsIn(Tail(s)) |-> i + 1]
<1>1. /\ Len(s) \in Nat \ {0} /\ DOMAIN s = 1..Len(s)
      /\ DOMAIN Tail(s) = 1..(Len(s) - 1) /\ Head(s) = s[1]
      /\ \A i \in 1..(Len(s) - 1) : Tail(s)[i] = s[i + 1]
  OBVIOUS
<1>2. \A i \in PingsIn(Tail(s)) : i \in 1..(Len(s) - 1) /\ s[i + 1] = "ping"
  BY <1>1 DEF PingsIn
<1>3. \A i \in PingsIn(Tail(s)) : i \in Int /\ i + 1 \in Rest
  BY <1>1, <1>2 DEF PingsIn
<1>4. \A j \in Rest : j - 1 \in PingsIn(Tail(s)) /\ up[j - 1] = j
  <2> SUFFICES ASSUME NEW j \in Rest PROVE j - 1 \in PingsIn(Tail(s)) /\ j \in Int
    OBVIOUS
  <2>1. j \in 1..Len(s) /\ j # 1 /\ s[j] = "ping"
    BY <1>1 DEF PingsIn
  <2>2. j - 1 \in 1..(Len(s) - 1) /\ (j - 1) + 1 = j
    BY <1>1, <2>1
  <2>3. Tail(s)[j - 1] = "ping"
    BY <1>1, <2>1, <2>2
  <2> QED
    BY <1>1, <2>1, <2>2, <2>3 DEF PingsIn
<1>5. up \in [PingsIn(Tail(s)) -> Rest]
  BY <1>3
<1>6. \A a, b \in PingsIn(Tail(s)) : up[a] = up[b] => a = b
  BY <1>3
<1>7. up \in Bijection(PingsIn(Tail(s)), Rest)
  <2>1. \A t \in Rest : \E i \in PingsIn(Tail(s)) : up[i] = t
    BY <1>4
  <2> HIDE DEF up, Rest
  <2> QED
    BY <1>5, <1>6, <2>1, Fun_IsBij
<1>8. Tail(s) \in Seq(Tasks)
  OBVIOUS
<1>9. Cardinality(Rest) = Pings(Tail(s))
  <2>1. ExistsBijection(PingsIn(Tail(s)), Rest)
    BY <1>7 DEF ExistsBijection
  <2> HIDE DEF Rest
  <2> QED
    BY <1>8, <2>1, PingsType, FS_Bijection DEF Pings
<1>10. Cardinality(Rest) = IF 1 \in PingsIn(s) THEN Pings(s) - 1 ELSE Pings(s)
  BY PingsType, FS_RemoveElement DEF Pings
<1>11. 1 \in PingsIn(s) <=> Head(s) = "ping"
  BY <1>1 DEF PingsIn
<1> QED
  BY <1>9, <1>10, <1>11

(* A probe that gave up leaves the pings where they are.                      *)
LEMMA PingsStale ==
    ASSUME NEW s \in Seq(Tasks)
    PROVE  Pings([i \in DOMAIN s |-> Stale(s[i])]) = Pings(s)
<1>1. PingsIn([i \in DOMAIN s |-> Stale(s[i])]) = PingsIn(s)
  BY DEF PingsIn, Stale
<1> QED
  BY <1>1 DEF Pings

(* How often the marker can still be renewed: a queued ping may be run twice, *)
(* once by the worker that dies with it and once when it is delivered again.  *)
Credit == 2 * Pings(queue) + abandoned

(* docker-compose.yml 385-401: nothing but a ping of the scheduler keeps its  *)
(* container healthy.  While it is down the marker can be renewed by what it  *)
(* left behind alone, each renewal uses some of it up, and no probe of the    *)
(* worker, no crash and no redelivery makes more of it.                       *)
DeadSchedulerFades ==
    [][~scheduler /\ ~scheduler' =>
          /\ Credit' <= Credit
          /\ marker' > marker => Credit' < Credit]_vars

LEMMA FadesRan ==
    ASSUME TypeOK, NEW task, Ran(task), task # "ping"
    PROVE  marker' = marker
  BY DEF Ran, WritesMarker

LEMMA FadesQueue ==
    ASSUME TypeOK, ~scheduler, queue # <<>>, queue' = Tail(queue),
           \/ abandoned' = abandoned
           \/ Head(queue) = "ping" /\ abandoned' = abandoned + 1
    PROVE  Credit' <= Credit /\ (Head(queue) = "ping" => Credit' < Credit)
<1>1. queue \in Seq(Tasks) /\ abandoned \in Nat
  BY DEF TypeOK, Tasks
<1>2. Pings(queue) \in Nat
  BY <1>1, PingsType
<1>3. Pings(queue') = IF Head(queue) = "ping" THEN Pings(queue) - 1 ELSE Pings(queue)
  BY <1>1, PingsTail
<1> QED
  BY <1>1, <1>2, <1>3 DEF Credit

(* A scheduler that died is not kept alive by anything else: see above.       *)
THEOREM DeathNotMasked == Spec => DeadSchedulerFades
<1>1. TypeOK /\ [Next]_vars => [~scheduler /\ ~scheduler' =>
          Credit' <= Credit /\ (marker' > marker => Credit' < Credit)]_vars
  <2> SUFFICES ASSUME TypeOK, [Next]_vars, ~scheduler, ~scheduler'
               PROVE  Credit' <= Credit /\ (marker' > marker => Credit' < Credit)
    OBVIOUS
  <2>1. queue \in Seq(Tasks) /\ abandoned \in Nat /\ marker \in Nat
    BY TtlIsThreePeriods DEF TypeOK, Tasks
  <2>2. Pings(queue) \in Nat /\ Credit \in Nat
    BY <2>1, PingsType DEF Credit
  <2>3. CASE Run
    BY <2>1, <2>3, FadesQueue, FadesRan DEF Run
  <2>4. CASE Crash
    BY <2>1, <2>4, FadesQueue, FadesRan DEF Crash
  <2>5. CASE RunAbandoned
    BY <2>1, <2>2, <2>5 DEF RunAbandoned, Credit
  <2>6. CASE RedisRestarts
    BY <2>1, <2>2, <2>6, PingsEmpty DEF RedisRestarts, Credit
  <2>7. CASE ProbeStarts
    BY <2>1, <2>2, <2>7, PingsAppend DEF ProbeStarts, Credit, Tasks
  <2>8. CASE ProbeGivesUp
    BY <2>1, <2>2, <2>8, PingsStale DEF ProbeGivesUp, Credit
  <2>9. CASE \/ WorkerStops \/ ProbeRefused \/ ProbePasses \/ CheckScheduler
              \/ ResultsExpire \/ UNCHANGED vars
    <3>1. UNCHANGED <<queue, abandoned, marker>>
      BY <2>9 DEF WorkerStops, ProbeRefused, ProbePasses, CheckScheduler, ResultsExpire,
         vars, tasks
    <3> QED
      BY <2>1, <2>2, <3>1 DEF Credit
  <2>10. CASE Tick
    <3>1. UNCHANGED <<queue, abandoned>> /\ marker' = Less(marker)
      BY <2>10 DEF Tick, tasks
    <3> QED
      BY <2>1, <2>2, <3>1 DEF Credit, Less
  <2>11. ~Ping /\ ~SchedulerStops
    BY DEF Ping, SchedulerStops
  <2> QED
    BY <2>3, <2>4, <2>5, <2>6, <2>7, <2>8, <2>9, <2>10, <2>11 DEF Next, Works, Fails
<1> QED
  BY <1>1, TypeCorrect, PTL DEF Spec, DeadSchedulerFades
--------------------------------------------------------------------------------
(* The worker's half: a probe is answered by its own task, or not at all.     *)
OneProbeQueued(s) == \A i, j \in DOMAIN s : s[i] = "probe" /\ s[j] = "probe" => i = j
NoneQueued(s) == \A i \in DOMAIN s : s[i] # "probe"
ProbeInv == OneProbeQueued(queue) /\ (probe # "waiting" => NoneQueued(queue))

LEMMA ProbeAppend ==
    ASSUME NEW s \in Seq(Tasks), NEW task \in Tasks
    PROVE  /\ NoneQueued(s) => OneProbeQueued(Append(s, task))
           /\ task # "probe" /\ NoneQueued(s) => NoneQueued(Append(s, task))
           /\ task # "probe" /\ OneProbeQueued(s) => OneProbeQueued(Append(s, task))
<1>1. /\ DOMAIN s = 1..Len(s) /\ Len(s) \in Nat
      /\ DOMAIN Append(s, task) = 1..(Len(s) + 1)
      /\ \A i \in 1..Len(s) : Append(s, task)[i] = s[i]
      /\ Append(s, task)[Len(s) + 1] = task
  OBVIOUS
<1>2. \A i \in DOMAIN Append(s, task) : i \in DOMAIN s \/ i = Len(s) + 1
  BY <1>1
<1> QED
  BY <1>1, <1>2 DEF OneProbeQueued, NoneQueued

LEMMA ProbeTail ==
    ASSUME NEW s \in Seq(Tasks), s # <<>>, OneProbeQueued(s)
    PROVE  /\ OneProbeQueued(Tail(s))
           /\ NoneQueued(s) \/ Head(s) = "probe" => NoneQueued(Tail(s))
           /\ Head(s) = "probe" => ~NoneQueued(s)
<1>1. /\ Len(s) \in Nat \ {0} /\ DOMAIN s = 1..Len(s)
      /\ DOMAIN Tail(s) = 1..(Len(s) - 1) /\ Head(s) = s[1]
      /\ \A i \in 1..(Len(s) - 1) : Tail(s)[i] = s[i + 1]
  OBVIOUS
<1>2. \A i \in DOMAIN Tail(s) : i \in Nat \ {0} /\ i + 1 \in DOMAIN s /\ Tail(s)[i] = s[i + 1]
  BY <1>1
<1>3. 1 \in DOMAIN s
  BY <1>1
<1>4. OneProbeQueued(Tail(s))
  BY <1>2 DEF OneProbeQueued
<1>5. NoneQueued(s) => NoneQueued(Tail(s))
  BY <1>2 DEF NoneQueued
<1>6. Head(s) = "probe" => NoneQueued(Tail(s))
  BY <1>1, <1>2, <1>3 DEF OneProbeQueued, NoneQueued
<1>7. Head(s) = "probe" => ~NoneQueued(s)
  BY <1>1, <1>3 DEF NoneQueued
<1> QED
  BY <1>4, <1>5, <1>6, <1>7

LEMMA ProbeNext == TypeOK /\ ProbeInv /\ [Next]_vars => ProbeInv'
<1> SUFFICES ASSUME TypeOK, ProbeInv, [Next]_vars PROVE ProbeInv'
  OBVIOUS
<1>1. queue \in Seq(Tasks)
  BY DEF TypeOK, Tasks
<1>2. ASSUME queue' = queue, probe' = probe \/ probe # "waiting" \/ probe' = "waiting"
      PROVE  ProbeInv'
  BY <1>2 DEF ProbeInv
<1>3. CASE Ping
  <2>1. probe' = probe /\ (queue' = queue \/ queue' = Append(queue, "ping"))
    BY <1>3 DEF Ping, checks
  <2>2. "ping" \in Tasks /\ "ping" # "probe"
    BY DEF Tasks
  <2> QED
    BY <1>1, <1>2, <2>1, <2>2, ProbeAppend DEF ProbeInv
<1>4. CASE Run \/ Crash
  <2>1. queue # <<>> /\ queue' = Tail(queue) /\ (probe' = probe \/ Head(queue) = "probe")
    BY <1>4 DEF Run, Crash, checks
  <2> QED
    BY <1>1, <2>1, ProbeTail DEF ProbeInv
<1>5. CASE RedisRestarts
  BY <1>5 DEF RedisRestarts, checks, ProbeInv, OneProbeQueued, NoneQueued
<1>6. CASE ProbeStarts
  <2>1. "probe" \in Tasks
    BY DEF Tasks
  <2> QED
    BY <1>1, <1>6, <2>1, ProbeAppend DEF ProbeStarts, ProbeInv
<1>7. CASE ProbeGivesUp
  <2>1. NoneQueued([i \in DOMAIN queue |-> Stale(queue[i])])
    BY DEF NoneQueued, Stale
  <2>2. NoneQueued(queue')
    BY <1>7, <2>1 DEF ProbeGivesUp
  <2> QED
    BY <2>2 DEF ProbeInv, NoneQueued, OneProbeQueued
<1>8. CASE \/ RunAbandoned \/ WorkerStops \/ SchedulerStops \/ ProbeRefused \/ ProbePasses
           \/ CheckScheduler \/ ResultsExpire \/ Tick \/ UNCHANGED vars
  BY <1>2, <1>8 DEF RunAbandoned, WorkerStops, SchedulerStops, ProbeRefused, ProbePasses,
     CheckScheduler, ResultsExpire, Tick, Verdict, tasks, checks, vars
<1> QED
  BY <1>3, <1>4, <1>5, <1>6, <1>7, <1>8 DEF Next, Works, Fails

(* worker_healthcheck.py 20-31: a worker passes its check only if it was up   *)
(* and ran the task of this very probe while the probe was waiting: neither   *)
(* a task of a probe that gave up, nor a ping, nor a redelivery answers for   *)
(* it, and a worker that is down never loses a failure it was counted.        *)
AnsweredByItself ==
    [][/\ probe # "answered" /\ probe' = "answered" =>
              worker /\ worker' /\ probe = "waiting" /\ Head(queue) = "probe"
       /\ workerFails' < workerFails => probe = "answered"]_vars

THEOREM OwnAnswerOnly == Spec => AnsweredByItself
<1>1. Init => ProbeInv
  BY DEF Init, ProbeInv, OneProbeQueued, NoneQueued
<1>2. TypeOK /\ ProbeInv /\ [Next]_vars => ProbeInv'
  BY ProbeNext
<1>3. TypeOK /\ ProbeInv /\ [Next]_vars =>
      [/\ probe # "answered" /\ probe' = "answered" =>
              worker /\ worker' /\ probe = "waiting" /\ Head(queue) = "probe"
       /\ workerFails' < workerFails => probe = "answered"]_vars
  <2> SUFFICES ASSUME TypeOK, ProbeInv, Next
               PROVE  /\ probe # "answered" /\ probe' = "answered" =>
                             /\ worker /\ worker' /\ probe = "waiting"
                             /\ Head(queue) = "probe"
                      /\ workerFails' < workerFails => probe = "answered"
    BY DEF vars
  <2>1. /\ workerFails \in Nat /\ More(workerFails) \in Nat
        /\ More(workerFails) >= workerFails
    BY HeartbeatAssumptions DEF TypeOK, More
  <2>2. queue \in Seq(Tasks) /\ (queue # <<>> /\ Head(queue) = "probe" => probe = "waiting")
    BY ProbeTail DEF TypeOK, Tasks, ProbeInv
  <2>3. CASE Run
    <3>1. workerFails' = workerFails /\ worker /\ worker' = worker /\ queue # <<>>
      BY <2>3 DEF Run
    <3>2. probe' = "answered" /\ probe # "answered" => Head(queue) = "probe"
      BY <2>3 DEF Run
    <3> QED
      BY <2>1, <2>2, <3>1, <3>2
  <2>4. CASE ProbeStarts \/ ProbeRefused \/ ProbePasses \/ ProbeGivesUp
    <3>1. probe' # "answered"
      BY <2>4 DEF ProbeStarts, ProbeRefused, ProbePasses, ProbeGivesUp, Verdict
    <3>2. workerFails' \in {workerFails, More(workerFails)} \/ probe = "answered"
      BY <2>4 DEF ProbeStarts, ProbeRefused, ProbePasses, ProbeGivesUp, Verdict
    <3> QED
      BY <2>1, <3>1, <3>2
  <2>5. CASE \/ Ping \/ Crash \/ RunAbandoned \/ WorkerStops \/ SchedulerStops
             \/ RedisRestarts \/ ResultsExpire \/ CheckScheduler \/ Tick
    <3>1. workerFails' = workerFails /\ (probe' = probe \/ probe' = "due")
      BY <2>5 DEF Ping, Crash, RunAbandoned, WorkerStops, SchedulerStops, RedisRestarts,
         ResultsExpire, CheckScheduler, Tick, checks
    <3> QED
      BY <2>1, <3>1
  <2> QED
    BY <2>3, <2>4, <2>5 DEF Next, Works, Fails
<1> QED
  BY <1>1, <1>2, <1>3, TypeCorrect, PTL DEF Spec, AnsweredByItself
================================================================================
