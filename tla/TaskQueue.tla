-------------------------------- MODULE TaskQueue --------------------------------
(* The task queue of src/app/worker.py: a Redis stream read by a consumer     *)
(* group (_build_broker, lines 35-67) and workers that acknowledge a message  *)
(* after its task has run (--ack-type when_executed).  The API, the scheduler *)
(* and the health checks publish; a worker reads messages ahead and runs at   *)
(* most MaxAsync at once.  Workers crash, an acknowledgement can be lost, a   *)
(* message that stays unacknowledged for too long is delivered again whether  *)
(* its worker is dead or only slow, and Redis keeps nothing over a restart.   *)
(* A task that raises ends like one that returns: it is acknowledged, and its *)
(* result is the error.                                                       *)
EXTENDS Integers, FiniteSets, Sequences

CONSTANTS
    Messages,   \* published once each, under a fresh id
    Workers,    \* the worker processes
    MaxAsync,   \* --max-async-tasks
    MaxFaults   \* bound: crashes, lost acknowledgements, slow runs, restarts

ASSUME TaskQueueAssumptions ==
    /\ IsFiniteSet(Messages)
    /\ MaxAsync \in Nat \ {0}
    /\ MaxFaults \in Nat

VARIABLES
    stream,     \* published, read by no worker yet
    group,      \* whether the consumer group exists
    pending,    \* read and not acknowledged: the group's pending entries
    results,    \* the messages whose result the result backend holds
    alive,      \* the workers that run
    jobs,       \* what the workers have in hand
    accepted,   \* history: what Redis accepted
    ran,        \* history: the messages a run of which came to its end
    claims,     \* history: how often a message was delivered again
    runs,       \* history: how often it ran to the end
    faults      \* history: how much went wrong

redis == <<stream, group, pending>>
history == <<accepted, ran, claims, runs>>
vars == <<redis, results, alive, jobs, history, faults>>

(* A message in a worker's hands: the try it belongs to, and where it is.     *)
Places == {"waiting", "running", "ran", "acked"}
Jobs == [by : Workers, msg : Messages, try : Nat, at : Places]
Job(w, m, n) == [by |-> w, msg |-> m, try |-> n, at |-> "waiting"]
At(j, place) == [j EXCEPT !.at = place]

InStream == {stream[i] : i \in DOMAIN stream}
Active(w) == {j \in jobs : j.by = w /\ j.at # "waiting"}
ClaimedAtOnce(m) == TRUE                                            \* mutant
Orphan(m) == \A j \in jobs : j.msg = m => j.at = "acked"

(* The worker's limit on tasks that run side by side.                         *)
NoLimit(w) == TRUE                                                  \* mutant
HasRoom(w) == Cardinality(Active(w)) < MaxAsync

Init ==
    /\ stream = <<>> /\ pending = {} /\ results = {} /\ jobs = {}
    /\ group = FALSE /\ alive = {}
    /\ accepted = {} /\ ran = {}
    /\ claims = [m \in Messages |-> 0]
    /\ runs = [m \in Messages |-> 0]
    /\ faults = 0

Fault == faults < MaxFaults /\ faults' = faults + 1

--------------------------------------------------------------------------------
(* broker.startup(), by a worker, the API, the scheduler or a health check:   *)
(* the first one creates the group, at the end of the stream: what is already *)
(* there is never read.                                                       *)
Startup ==
    /\ group' = TRUE
    /\ stream' = IF group THEN stream ELSE <<>>

OpenBroker ==
    /\ ~group
    /\ Startup
    /\ UNCHANGED <<pending, results, alive, jobs, history, faults>>

StartWorker(w) ==
    /\ w \notin alive
    /\ alive' = alive \cup {w}
    /\ Startup
    /\ UNCHANGED <<pending, results, jobs, history, faults>>

(* kiq(): one entry at the end of the stream, group or no group.              *)
Publish(m) ==
    /\ m \notin accepted
    /\ accepted' = accepted \cup {m}
    /\ stream' = Append(stream, m)
    /\ UNCHANGED <<group, pending, results, alive, jobs, ran, claims, runs, faults>>

(* A worker reads the next entry, which is pending from then on.              *)
Fetch(w) ==
    /\ w \in alive /\ group /\ stream # <<>>
    /\ stream' = Tail(stream)
    /\ pending' = pending \cup {Head(stream)}
    /\ jobs' = jobs \cup {Job(w, Head(stream), claims[Head(stream)])}
    /\ UNCHANGED <<group, results, alive, history, faults>>

(* An entry nobody acknowledged for long is given to a worker again: its      *)
(* worker died, or lost its acknowledgement, or is merely slow (a fault).     *)
NeverClaimed(m) == FALSE                                            \* mutant
Abandoned(m) == m \in pending /\ Orphan(m)

Claim(w, m) ==
    /\ w \in alive /\ group /\ m \in pending
    /\ claims' = [claims EXCEPT ![m] = @ + 1]
    /\ jobs' = jobs \cup {Job(w, m, claims[m] + 1)}
    /\ UNCHANGED <<redis, results, alive, accepted, ran, runs>>

Reclaim(w, m) == Abandoned(m) /\ Claim(w, m) /\ UNCHANGED faults
ClaimSlow(w, m) == ~Orphan(m) /\ Claim(w, m) /\ Fault

--------------------------------------------------------------------------------
(* The worker, over a message j in its hands.                                 *)
Move(j, place) == jobs' = (jobs \ {j}) \cup {At(j, place)}
Drop(j) == jobs' = jobs \ {j}

Start(j) ==
    /\ j.at = "waiting" /\ HasRoom(j.by)
    /\ Move(j, "running")
    /\ UNCHANGED <<redis, results, alive, history, faults>>

(* The task returns, or raises.                                               *)
Finish(j) ==
    /\ j.at = "running"
    /\ Move(j, "ran")
    /\ ran' = ran \cup {j.msg}
    /\ runs' = [runs EXCEPT ![j.msg] = @ + 1]
    /\ UNCHANGED <<redis, results, alive, accepted, claims, faults>>

(* --ack-type: when the acknowledgement is sent.                              *)
WhenReceived == {"waiting", "ran"}                                  \* mutant
WhenExecuted == {"ran"}

Ack(j) ==
    /\ j.at \in WhenExecuted
    /\ Move(j, "acked")
    /\ pending' = pending \ {j.msg}
    /\ UNCHANGED <<stream, group, results, alive, history, faults>>

(* Redis does not answer: the entry stays pending.                            *)
AckFails(j) ==
    /\ j.at \in WhenExecuted
    /\ Drop(j) /\ Fault
    /\ UNCHANGED <<redis, results, alive, history>>

(* The result is stored after the acknowledgement, or is not, and expires.    *)
Save(j) ==
    /\ j.at = "acked"
    /\ Drop(j)
    /\ results' \in {results, results \cup {j.msg}}
    /\ UNCHANGED <<redis, alive, history, faults>>

Expire(m) ==
    /\ m \in results
    /\ results' = results \ {m}
    /\ UNCHANGED <<redis, alive, jobs, history, faults>>

WorkerStep(j) == Start(j) \/ Finish(j) \/ Ack(j) \/ AckFails(j) \/ Save(j)

--------------------------------------------------------------------------------
(* A worker dies with all it has in hand, killed or, after a restart of       *)
(* Redis, on a stream whose group is gone.                                    *)
Die(w) ==
    /\ w \in alive
    /\ alive' = alive \ {w}
    /\ jobs' = {j \in jobs : j.by # w}
    /\ UNCHANGED <<redis, results, history>>

Crash(w) == group /\ Die(w) /\ Fault
FindNoGroup(w) == ~group /\ Die(w) /\ UNCHANGED faults

(* Redis restarts with nothing (appendonly no, save ""); the tasks in the     *)
(* workers' hands go on.                                                      *)
RestartRedis ==
    /\ Fault
    /\ stream' = <<>> /\ group' = FALSE /\ pending' = {} /\ results' = {}
    /\ UNCHANGED <<alive, jobs, history>>

Next ==
    \/ OpenBroker \/ RestartRedis
    \/ \E m \in Messages : Publish(m) \/ Expire(m)
    \/ \E w \in Workers : StartWorker(w) \/ Fetch(w) \/ Crash(w) \/ FindNoGroup(w)
    \/ \E w \in Workers, m \in Messages : Reclaim(w, m) \/ ClaimSlow(w, m)
    \/ \E j \in jobs : WorkerStep(j)

(* A worker that died is started again (restart: unless-stopped), reads what  *)
(* there is to read, claims what was abandoned and goes on with what it has;  *)
(* a run comes to an end.  Nothing has to be published and nothing has to     *)
(* fail.                                                                      *)
Goes(w, m) == \E j \in jobs : j.by = w /\ j.msg = m /\ (Start(j) \/ Finish(j) \/ Ack(j) \/ Save(j))

Fairness ==
    /\ \A w \in Workers : WF_vars(StartWorker(w)) /\ WF_vars(Fetch(w))
    /\ \A w \in Workers, m \in Messages : WF_vars(Goes(w, m)) /\ WF_vars(Reclaim(w, m))

Spec == Init /\ [][Next]_vars
FairSpec == Spec /\ Fairness

--------------------------------------------------------------------------------
(* Every variable has its type, and no worker runs more tasks side by side    *)
(* than --max-async-tasks allows.                                             *)
TypeOK ==
    /\ stream \in Seq(Messages) /\ group \in BOOLEAN
    /\ pending \subseteq Messages /\ results \subseteq Messages
    /\ alive \subseteq Workers
    /\ jobs \in SUBSET Jobs /\ IsFiniteSet(jobs)
    /\ accepted \subseteq Messages /\ ran \subseteq Messages
    /\ claims \in [Messages -> Nat] /\ runs \in [Messages -> Nat]
    /\ faults \in 0..MaxFaults
    /\ \A w \in Workers : Cardinality(Active(w)) <= MaxAsync

(* A message is run again only because it was delivered again, and delivered  *)
(* again only because something went wrong: a crash, a lost acknowledgement,  *)
(* or a run slower than the idle time.                                        *)
DuplicatesExcused ==
    \A m \in Messages : runs[m] <= claims[m] + 1 /\ claims[m] <= faults

(* The queue implements Delivery.  What it owes: the entries of the stream    *)
(* and those pending, as long as the group that reads them exists.            *)
Owed == IF group THEN InStream \cup pending ELSE {}
D == INSTANCE Delivery WITH owed <- Owed, open <- group

(* No message leaves before a run of its task came to an end, whoever dies    *)
(* with it in hand: crashes, claims and restarts of workers lose nothing.     *)
KeepsDelivery == D!Spec

(* Every message that is owed is run and settled sooner or later, as long as  *)
(* the workers that die are started again, unless Redis loses it.             *)
EveryTaskRuns == \A m \in Messages : m \in Owed ~> m \notin Owed
================================================================================
