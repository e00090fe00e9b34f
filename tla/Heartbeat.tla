-------------------------------- MODULE Heartbeat --------------------------------
(* How the containers of the task queue are judged: the scheduled ping and    *)
(* its marker (src/app/worker.py, lines 77-104), the probe of the worker      *)
(* (src/app/worker_healthcheck.py) and the probe of the scheduler, which      *)
(* looks for the marker (src/docker-compose.yml, lines 385-401).  The two     *)
(* kinds of task share one queue.  Time passes in ticks, one per probe of the *)
(* worker (30s); a worker that is up empties the queue within a tick, and a   *)
(* worker that is stuck counts as one that is down.                           *)
EXTENDS Integers, Sequences

CONSTANTS
    Period,      \* ticks between two scheduled pings (taskiq_heartbeat_seconds)
    CheckEvery,  \* ticks between two checks of the scheduler's container
    Retries,     \* failed checks in a row that make a container unhealthy
    Capacity     \* the most tasks that can wait in the broker's memory

ASSUME HeartbeatAssumptions ==
    /\ Period \in Nat \ {0} /\ CheckEvery \in Nat \ {0}
    /\ Retries \in Nat \ {0} /\ Capacity \in Nat \ {0}

VARIABLES
    scheduler, worker,  \* whether each is up
    due,        \* ticks until the scheduler publishes the next ping
    queue,      \* the tasks no worker has run: "ping", "probe", "stale"
    abandoned,  \* the pings a worker died with, to be delivered again
    full,       \* the broker's Redis has no memory left, and refuses writes
    marker,     \* ticks the marker has left to live, 0 when there is none
    probe,      \* the worker's probe: "due", "waiting", "answered" or "over"
    next,       \* ticks until the scheduler's container is checked
    workerFails, schedulerFails,  \* failed checks in a row
    missed,     \* history: pings due since the marker was written (up to 3)
    excused     \* history: the scheduler stopped, or Redis restarted, since

tasks == <<queue, abandoned, full>>
checks == <<probe, next, workerFails, schedulerFails>>
vars == <<scheduler, worker, due, tasks, marker, checks, missed, excused>>

(* The marker outlives three periods; SET refuses a TTL of zero.              *)
TtlOfOnePeriod == Period                                            \* mutant
Ttl == IF Period * 3 > 1 THEN Period * 3 ELSE 1

(* Only the scheduled task writes the marker, never the probe's.              *)
WrittenByAll(task) == TRUE                                          \* mutant
WritesMarker(task) == task = "ping"

Init ==
    /\ scheduler = FALSE /\ worker = FALSE
    /\ due = 0 /\ queue = <<>> /\ abandoned = 0 /\ full = FALSE
    /\ marker = 0 /\ probe = "due" /\ next = CheckEvery
    /\ workerFails = 0 /\ schedulerFails = 0
    /\ missed = 0 /\ excused = TRUE

(* A Redis that evicts nothing may be full after any write, be it a task,     *)
(* a result or the marker: the broker sets no maxlen, so the tasks that were  *)
(* run and acknowledged stay in the stream, and a result stays for a day.     *)
(* When Capacity tasks wait it is full for sure.                              *)
NeverFull == full' = FALSE                                          \* mutant
MayFill == full' \in {b \in BOOLEAN : Len(queue') + abandoned' >= Capacity => b}
FullOrNot == full' \in {full, TRUE}
More(fails) == IF fails < Retries THEN fails + 1 ELSE fails
Less(n) == IF n > 0 THEN n - 1 ELSE 0

(* The marker of a task that ran; a full Redis refuses the SET.               *)
Ran(task) ==
    IF WritesMarker(task) /\ ~full
    THEN marker' = Ttl /\ missed' = 0 /\ excused' = ~scheduler
    ELSE UNCHANGED <<marker, missed, excused>>

--------------------------------------------------------------------------------
(* The scheduler publishes a ping in every period; a full Redis refuses it.   *)
Ping ==
    /\ scheduler /\ due = 0
    /\ due' = Period
    /\ missed' = IF missed < 3 THEN missed + 1 ELSE missed
    /\ UNCHANGED <<scheduler, worker, abandoned, marker, checks, excused>>
    /\ IF full THEN UNCHANGED <<queue, full>>
       ELSE queue' = Append(queue, "ping") /\ MayFill

(* The worker runs the next task, acknowledges it, and stores its result: a   *)
(* full Redis refuses that too, and running a task leaves no more room in it. *)
Run ==
    /\ worker /\ queue # <<>>
    /\ queue' = Tail(queue)
    /\ Ran(Head(queue))
    /\ probe' = IF Head(queue) = "probe" /\ ~full THEN "answered" ELSE probe
    /\ FullOrNot
    /\ UNCHANGED <<scheduler, worker, due, abandoned, next, workerFails, schedulerFails>>

(* It dies with the next task in hand, before it ran or after.                *)
Crash ==
    /\ worker /\ queue # <<>>
    /\ worker' = FALSE
    /\ queue' = Tail(queue)
    /\ abandoned' = IF Head(queue) = "ping" THEN abandoned + 1 ELSE abandoned
    /\ Ran(Head(queue)) \/ UNCHANGED <<marker, missed, excused>>
    /\ FullOrNot
    /\ UNCHANGED <<scheduler, due, checks>>

(* A ping that was not acknowledged is run after all, much later.             *)
RunAbandoned ==
    /\ worker /\ abandoned > 0
    /\ abandoned' = abandoned - 1
    /\ Ran("ping") /\ FullOrNot
    /\ UNCHANGED <<scheduler, worker, due, queue, checks>>

WorkerStops ==
    /\ worker /\ worker' = FALSE
    /\ UNCHANGED <<scheduler, due, tasks, marker, checks, missed, excused>>

SchedulerStops ==
    /\ scheduler /\ scheduler' = FALSE /\ excused' = TRUE
    /\ UNCHANGED <<worker, due, tasks, marker, checks, missed>>

(* Redis restarts with nothing.                                               *)
RedisRestarts ==
    /\ queue # <<>> \/ marker > 0 \/ abandoned > 0 \/ full
    /\ queue' = <<>> /\ abandoned' = 0 /\ full' = FALSE
    /\ marker' = 0 /\ excused' = TRUE
    /\ UNCHANGED <<scheduler, worker, due, checks, missed>>

(* Results that expire may leave room, and may not: the stream keeps its own. *)
ResultsExpire ==
    /\ full /\ Len(queue) + abandoned < Capacity
    /\ full' = FALSE
    /\ UNCHANGED <<scheduler, worker, due, queue, abandoned, marker, checks, missed, excused>>

--------------------------------------------------------------------------------
(* _probe of the worker's container: publish a task of its own and wait for   *)
(* its result; a Redis that refuses the task, or no result in time, fails.    *)
Verdict(fails) == probe' = "over" /\ workerFails' = fails

ProbeStarts ==
    /\ probe = "due" /\ ~full
    /\ probe' = "waiting" /\ queue' = Append(queue, "probe")
    /\ UNCHANGED abandoned /\ MayFill
    /\ UNCHANGED <<scheduler, worker, due, marker, next, workerFails, schedulerFails,
                   missed, excused>>

ProbeRefused ==
    /\ probe = "due" /\ full
    /\ Verdict(More(workerFails))
    /\ UNCHANGED <<scheduler, worker, due, tasks, marker, next, schedulerFails,
                   missed, excused>>

ProbePasses ==
    /\ probe = "answered"
    /\ Verdict(0)
    /\ UNCHANGED <<scheduler, worker, due, tasks, marker, next, schedulerFails,
                   missed, excused>>

(* The task stays in the queue when its probe has given up.                   *)
Stale(task) == IF task = "probe" THEN "stale" ELSE task
Queued(task) == \E i \in DOMAIN queue : queue[i] = task

ProbeGivesUp ==
    /\ probe = "waiting" /\ ~(worker /\ Queued("probe"))
    /\ Verdict(More(workerFails))
    /\ queue' = [i \in DOMAIN queue |-> Stale(queue[i])]
    /\ UNCHANGED <<scheduler, worker, due, abandoned, full, marker, next, schedulerFails,
                   missed, excused>>

(* The check of the scheduler's container: is the marker there?               *)
CheckScheduler ==
    /\ next = 0
    /\ next' = CheckEvery
    /\ schedulerFails' = IF marker > 0 THEN 0 ELSE More(schedulerFails)
    /\ UNCHANGED <<scheduler, worker, due, tasks, marker, probe, workerFails, missed, excused>>

(* Time passes when all that is due was done.  What is down may come up; a    *)
(* new scheduler publishes at once, or a period later.                        *)
Tick ==
    /\ probe = "over" /\ next > 0
    /\ scheduler => due > 0
    /\ worker => queue = <<>>
    /\ probe' = "due" /\ next' = next - 1 /\ marker' = Less(marker)
    /\ worker' \in {worker, TRUE}
    /\ \/ UNCHANGED scheduler /\ due' = IF scheduler THEN due - 1 ELSE due
       \/ ~scheduler /\ scheduler' = TRUE /\ due' \in {0, Period}
    /\ UNCHANGED <<tasks, workerFails, schedulerFails, missed, excused>>

Works == Ping \/ Run \/ ProbeStarts \/ ProbeRefused \/ ProbePasses \/ ProbeGivesUp \/ CheckScheduler
Fails == Crash \/ WorkerStops \/ SchedulerStops \/ RedisRestarts
Next == Works \/ Fails \/ RunAbandoned \/ ResultsExpire \/ Tick

(* Docker runs the checks, time passes, a process that is up does its work    *)
(* and what was abandoned is delivered again; nothing has to fail or come up. *)
Fairness == WF_vars(Works) /\ WF_vars(RunAbandoned) /\ WF_vars(Tick)

Spec == Init /\ [][Next]_vars /\ Fairness

--------------------------------------------------------------------------------
(* Every variable has its type, and no more tasks wait than fit in Redis.     *)
TypeOK ==
    /\ scheduler \in BOOLEAN /\ worker \in BOOLEAN
    /\ due \in 0..Period
    /\ queue \in Seq({"ping", "probe", "stale"})
    /\ abandoned \in Nat /\ full \in BOOLEAN
    /\ Len(queue) + abandoned <= Capacity /\ (~full => Len(queue) + abandoned # Capacity)
    /\ marker \in 0..Ttl
    /\ probe \in {"due", "waiting", "answered", "over"}
    /\ next \in 0..CheckEvery
    /\ workerFails \in 0..Retries /\ schedulerFails \in 0..Retries
    /\ missed \in 0..3 /\ excused \in BOOLEAN

(* A scheduler that lives is never taken for dead over one ping that was lost *)
(* or late: the marker expires only after two pings in a row went unrun.      *)
OneLostPingTolerated == marker = 0 => missed >= 2 \/ excused

(* Neither container dies unseen: the probes of the worker, however many,     *)
(* never keep a dead scheduler's marker alive, and the pings of the scheduler *)
(* never answer for a dead worker.                                            *)
DeathSeen ==
    /\ <>[]~scheduler => <>[](schedulerFails = Retries)
    /\ <>[]~worker => <>[](workerFails = Retries)

(* Once both are up for good, over a Redis that stays and has room, both      *)
(* become healthy: the tasks that piled up do not keep the probes failing.    *)
RecoverySeen ==
    <>[][scheduler' /\ worker' /\ ~full' /\ ~RedisRestarts]_vars =>
        <>[](workerFails = 0 /\ schedulerFails = 0)
================================================================================
