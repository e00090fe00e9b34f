------------------------------- MODULE Readiness -------------------------------
(* The readiness probe, readiness() of src/app/features/health/router.py      *)
(* 25-92, as the threads of the server's pool run it side by side: a cached   *)
(* answer within its TTL, else a SELECT 1 through the engine's pool, a PING   *)
(* of the rate-limit Redis, and a new entry in the cache all threads share.   *)
(*                                                                            *)
(* Time is counted in ticks, as ages: how long ago something happened, up to  *)
(* Horizon.  A step of Python code takes no time; waiting for the pool, for   *)
(* PostgreSQL or for Redis does, and each tick lets any thread run between    *)
(* any two steps of another.                                                  *)
EXTENDS Integers, FiniteSets

CONSTANTS
    Probes,       \* the threads that may serve /ready at the same time
    Ttl,          \* settings.readiness_cache_seconds; 0 turns the cache off
    UseRedis,     \* the rate limit is on, with a Redis store
    RedisBudget,  \* ticks a PING may take: the two timeouts, the client's retries
    Pool,         \* connections the engine's pool may hold
    PoolWait,     \* ticks connect() waits for one of them
    ConnectWait   \* ticks the driver lets the opening of one take

ASSUME ReadinessAssumptions ==
    /\ IsFiniteSet(Probes)
    /\ Ttl \in Nat /\ RedisBudget \in Nat
    /\ Pool \in Nat \ {0} /\ PoolWait \in Nat \ {0} /\ ConnectWait \in Nat \ {0}
    /\ UseRedis \in BOOLEAN

NoCache == [age |-> 0, ready |-> FALSE, set |-> FALSE]
Entry(ready) == [age |-> 0, ready |-> ready, set |-> TRUE]

(* How old the facts behind an answer may be: the PING that follows the       *)
(* SELECT, then the cache.                                                    *)
Lag == RedisBudget + (IF Ttl > 0 THEN Ttl - 1 ELSE 0)
Horizon == Lag + 1
LongestWait == RedisBudget + PoolWait + ConnectWait

VARIABLES
    db,        \* PostgreSQL: "up", "down" (refuses), "hung" (does not answer)
    redis,     \* the rate-limit Redis: "up" or "down"
    dbAge, redisAge,  \* ticks since db, redis last changed
    idle,      \* connections resting in the pool: "none", "fresh", or "stale"
               \* (opened before PostgreSQL last went down)
    falseAge,  \* ticks since a stale connection last failed a check
    cache,     \* app.state.readiness_cache
    pc,        \* where each thread is
    seen,      \* `cached`: what the thread read from the cache
    ready,     \* `ready`: no check of this thread failed so far
    conn,      \* the connection the thread checked out
    wait,      \* ticks it has waited for the pool, for a connection, or for Redis
    rest,      \* ticks since it last finished a round trip
    health     \* a call of /health is next in the queue for a thread

world == <<db, redis, dbAge, redisAge>>
pool  == <<idle, falseAge>>
vars == <<world, pool, cache, pc, seen, ready, conn, wait, rest, health>>

Init ==
    /\ db \in {"up", "down", "hung"} /\ redis \in {"up", "down"}
    /\ dbAge = Horizon /\ redisAge = Horizon
    /\ idle = "none" /\ falseAge = Horizon
    /\ cache = NoCache
    /\ pc = [p \in Probes |-> "idle"]
    /\ seen = [p \in Probes |-> NoCache]
    /\ ready = [p \in Probes |-> TRUE]
    /\ conn = [p \in Probes |-> "none"]
    /\ wait = [p \in Probes |-> 0]
    /\ rest = [p \in Probes |-> Ttl]
    /\ health = FALSE

Go(p, from, to) == pc[p] = from /\ pc' = [pc EXCEPT ![p] = to]

--------------------------------------------------------------------------------
(* The handler, one thread p.                                                 *)

(* A request gets the thread, and reaches the handler; the first thing read   *)
(* is the cache.  Calls get threads in the order they came.                   *)
Call(p) ==
    /\ ~health
    /\ Go(p, "idle", "read")
    /\ UNCHANGED <<world, pool, cache, seen, ready, conn, wait, rest, health>>

ReadCache(p) ==
    /\ Go(p, "read", "age")
    /\ seen' = [seen EXCEPT ![p] = cache]
    /\ UNCHANGED <<world, pool, cache, ready, conn, wait, rest, health>>

(* time.monotonic() - cached_at < cache_ttl                                   *)
NeverExpires(p) == Ttl > 0 /\ seen[p].set                          \* mutant
Fresh(p) == Ttl > 0 /\ seen[p].set /\ seen[p].age < Ttl

AnswerFromCache(p) ==
    /\ Go(p, "age", "reply") /\ Fresh(p)
    /\ ready' = [ready EXCEPT ![p] = seen[p].ready]
    /\ seen' = [seen EXCEPT ![p] = NoCache]
    /\ UNCHANGED <<world, pool, cache, conn, wait, rest, health>>

StartChecks(p) ==
    /\ Go(p, "age", "connect") /\ ~Fresh(p)
    /\ ready' = [ready EXCEPT ![p] = TRUE]
    /\ seen' = [seen EXCEPT ![p] = NoCache]
    /\ wait' = [wait EXCEPT ![p] = 0]
    /\ UNCHANGED <<world, pool, cache, conn, rest, health>>

Holders == {p \in Probes : conn[p] # "none"}
Available == Cardinality(Holders) < Pool
Spare == Cardinality(Holders) + 1 < Pool

(* engine.connect(): a resting connection if there is one (the last one,      *)
(* maybe, and surely when the others are held), as it is, without a test of   *)
(* it: build_engine sets no pre-ping.                                         *)
Connect(p) ==
    /\ Go(p, "connect", "select") /\ Available /\ idle # "none"
    /\ conn' = [conn EXCEPT ![p] = idle]
    /\ idle' \in IF Spare THEN {idle, "none"} ELSE {"none"}
    /\ wait' = [wait EXCEPT ![p] = 0]
    /\ UNCHANGED <<world, falseAge, cache, seen, ready, rest, health>>

(* And a new one if there is none, or if the one at hand was dropped before.  *)
ConnectNew(p) ==
    /\ Go(p, "connect", "open") /\ Available /\ (idle = "none" \/ Spare)
    /\ conn' = [conn EXCEPT ![p] = "new"]
    /\ wait' = [wait EXCEPT ![p] = 0]
    /\ UNCHANGED <<world, pool, cache, seen, ready, rest, health>>

(* After the database check comes Redis's, when it is the rate-limit's store. *)
RedisUnchecked(ok) == IF UseRedis /\ ~ok THEN "redis" ELSE "store"    \* mutant
AfterDatabase(ok) == IF UseRedis THEN "redis" ELSE "store"

(* The pool's own timeout makes the check fail.                               *)
WaitsForever(p) == FALSE                                           \* mutant
PoolExpired(p) == wait[p] >= PoolWait

PoolTimeout(p) ==
    /\ Go(p, "connect", AfterDatabase(FALSE))
    /\ ~Available /\ PoolExpired(p)
    /\ ready' = [ready EXCEPT ![p] = FALSE]
    /\ wait' = [wait EXCEPT ![p] = 0]
    /\ UNCHANGED <<world, pool, cache, seen, conn, rest, health>>

(* `with` gives the connection back, whatever the SELECT did.                 *)
LeaksOnFailure(p, ok) == IF ok THEN "none" ELSE conn[p]            \* mutant
Released(p, ok) == "none"

(* A new connection: PostgreSQL takes it or refuses it, and when it does not  *)
(* answer at all, the driver gives up, by its own default.  Either failure    *)
(* leaves the resting connections where they are.                             *)
Opened(p) ==
    /\ Go(p, "open", "select") /\ db = "up"
    /\ conn' = [conn EXCEPT ![p] = "fresh"]
    /\ wait' = [wait EXCEPT ![p] = 0]
    /\ UNCHANGED <<world, pool, cache, seen, ready, rest, health>>

NotOpened(p) ==
    /\ Go(p, "open", AfterDatabase(FALSE))
    /\ db = "down" \/ (db = "hung" /\ wait[p] >= ConnectWait)
    /\ ready' = [ready EXCEPT ![p] = FALSE]
    /\ conn' = [conn EXCEPT ![p] = Released(p, FALSE)]
    /\ wait' = [wait EXCEPT ![p] = 0]
    /\ UNCHANGED <<world, pool, cache, seen, rest, health>>

(* SELECT 1.  A failure drops every resting connection (SQLAlchemy's answer   *)
(* to a broken one); a success returns this one.  Nothing bounds the wait     *)
(* while PostgreSQL does not answer.                                          *)
DatabaseAnswers(p) ==
    /\ db # "hung"
    /\ LET ok == db = "up" /\ conn[p] # "stale"
       IN /\ Go(p, "select", AfterDatabase(ok))
          /\ ready' = [ready EXCEPT ![p] = ok]
          /\ idle' = IF ~ok THEN "none" ELSE IF idle = "stale" THEN idle ELSE "fresh"
          /\ falseAge' = IF db = "up" /\ ~ok THEN 0 ELSE falseAge
          /\ conn' = [conn EXCEPT ![p] = Released(p, ok)]
    /\ wait' = [wait EXCEPT ![p] = 0]
    /\ UNCHANGED <<world, cache, seen, rest, health>>

(* PING, within its timeouts: it fails if Redis is down, or was down at some  *)
(* moment since the check began.                                              *)
RedisAnswers(p) ==
    /\ Go(p, "redis", "store")
    /\ \/ redis = "up" /\ UNCHANGED ready
       \/ /\ redis = "down" \/ redisAge <= wait[p]
          /\ ready' = [ready EXCEPT ![p] = FALSE]
    /\ wait' = [wait EXCEPT ![p] = 0]
    /\ UNCHANGED <<world, pool, cache, seen, conn, rest, health>>

(* The answer is cached, failures too, stamped with the time it is stored.    *)
CacheOnlySuccess(p) == IF Ttl > 0 /\ ready[p] THEN Entry(TRUE) ELSE cache   \* mutant
NewCache(p) == IF Ttl > 0 THEN Entry(ready[p]) ELSE cache

Store(p) ==
    /\ Go(p, "store", "reply")
    /\ cache' = NewCache(p)
    /\ rest' = [rest EXCEPT ![p] = 0]
    /\ UNCHANGED <<world, pool, seen, ready, conn, wait, health>>

Reply(p) ==
    /\ Go(p, "reply", "idle")
    /\ ready' = [ready EXCEPT ![p] = TRUE]
    /\ UNCHANGED <<world, pool, cache, seen, conn, wait, rest, health>>

(* health_check() of lines 14-22 touches nothing, but as a plain function it  *)
(* runs in a thread of the same pool.                                         *)
HealthArrives ==
    /\ ~health /\ health' = TRUE
    /\ UNCHANGED <<world, pool, cache, pc, seen, ready, conn, wait, rest>>

HealthCheck ==
    /\ health /\ \E p \in Probes : pc[p] = "idle"
    /\ health' = FALSE
    /\ UNCHANGED <<world, pool, cache, pc, seen, ready, conn, wait, rest>>

--------------------------------------------------------------------------------
(* The world around it.                                                       *)

(* PostgreSQL stops, hangs, comes back, at most once a tick: stopping breaks  *)
(* every open connection.                                                     *)
DbChanges ==
    /\ dbAge > 0
    /\ db' \in {"up", "down", "hung"} \ {db}
    /\ dbAge' = 0
    /\ IF db' = "down"
       THEN /\ idle' = IF idle = "none" THEN "none" ELSE "stale"
            /\ conn' = [p \in Probes |-> IF conn[p] = "fresh" THEN "stale" ELSE conn[p]]
       ELSE UNCHANGED <<idle, conn>>
    /\ UNCHANGED <<redis, redisAge, falseAge, cache, pc, seen, ready, wait, rest, health>>

RedisChanges ==
    /\ redisAge > 0
    /\ redis' \in {"up", "down"} \ {redis}
    /\ redisAge' = 0
    /\ UNCHANGED <<db, dbAge, pool, cache, pc, seen, ready, conn, wait, rest, health>>

(* A thread can wait here for a tick; anywhere else its next step comes first.*)
MayWait(p) ==
    \/ pc[p] = "idle"
    \/ pc[p] = "connect" /\ ~Available /\ ~PoolExpired(p)
    \/ pc[p] = "open" /\ db = "hung" /\ wait[p] < ConnectWait
    \/ pc[p] = "select" /\ db = "hung"
    \/ pc[p] = "redis" /\ wait[p] < RedisBudget

Older(age, bound) == IF age < bound THEN age + 1 ELSE age

Tick ==
    /\ \A p \in Probes : MayWait(p)
    /\ dbAge' = Older(dbAge, Horizon) /\ redisAge' = Older(redisAge, Horizon)
    /\ falseAge' = Older(falseAge, Horizon)
    /\ cache' = [cache EXCEPT !.age = IF cache.set THEN Older(@, Ttl) ELSE 0]
    /\ wait' = [p \in Probes |-> IF pc[p] \in {"connect", "open", "redis"}
                                 THEN Older(wait[p], LongestWait)
                                 ELSE wait[p]]
    /\ rest' = [p \in Probes |-> Older(rest[p], Ttl)]
    /\ UNCHANGED <<db, redis, idle, pc, seen, ready, conn, health>>

ProbeStep(p) ==
    \/ ReadCache(p) \/ AnswerFromCache(p) \/ StartChecks(p)
    \/ Connect(p) \/ ConnectNew(p) \/ PoolTimeout(p) \/ Opened(p) \/ NotOpened(p)
    \/ DatabaseAnswers(p) \/ RedisAnswers(p) \/ Store(p) \/ Reply(p)

Next ==
    \/ \E p \in Probes : Call(p) \/ ProbeStep(p)
    \/ HealthArrives \/ HealthCheck
    \/ DbChanges \/ RedisChanges \/ Tick

(* A thread that can run runs, a call that waits for one gets it, and time    *)
(* passes; nothing is asked of the clients, of PostgreSQL or of Redis.        *)
Fairness ==
    /\ SF_vars(Tick) /\ WF_vars(HealthCheck)
    /\ \A p \in Probes : WF_vars(ProbeStep(p))

Spec == Init /\ [][Next]_vars
FairSpec == Spec /\ Fairness

--------------------------------------------------------------------------------
(* Properties.                                                                *)

Entries == [age : 0..Ttl, ready : BOOLEAN, set : BOOLEAN]
Kinds == {"none", "new", "fresh", "stale"}

(* Every variable has its type; a connection is held exactly while it is     *)
(* opened and within SELECT, by no more threads than the pool has them.       *)
TypeOK ==
    /\ db \in {"up", "down", "hung"} /\ redis \in {"up", "down"}
    /\ dbAge \in 0..Horizon /\ redisAge \in 0..Horizon /\ falseAge \in 0..Horizon
    /\ idle \in {"none", "fresh", "stale"}
    /\ cache \in Entries
    /\ pc \in [Probes -> {"idle", "read", "age", "connect", "open", "select",
                          "redis", "store", "reply"}]
    /\ seen \in [Probes -> Entries]
    /\ ready \in [Probes -> BOOLEAN]
    /\ conn \in [Probes -> Kinds]
    /\ \A p \in Probes : conn[p] # "none" <=> pc[p] \in {"open", "select"}
    /\ Cardinality(Holders) <= Pool
    /\ wait \in [Probes -> 0..LongestWait]
    /\ rest \in [Probes -> 0..Ttl]
    /\ health \in BOOLEAN

(* router.py 28-31: a replica whose database or Redis is gone answers "ready" *)
(* for a bounded time, whatever threads overlap: never longer than the PING   *)
(* that follows the SELECT and the cache can hide it.                         *)
OutageBounded ==
    \A p \in Probes : pc[p] = "reply" /\ ready[p] =>
        /\ db # "up" => dbAge <= Lag
        /\ UseRedis /\ redis # "up" => redisAge <= Lag - RedisBudget

(* router.py 88-89, as the code keeps it: a replica whose dependencies are    *)
(* back answers "not ready" for a bounded time after they came back, or       *)
(* after a connection from before the outage failed the check.                *)
RecoveryBounded ==
    \A p \in Probes : pc[p] = "reply" /\ ~ready[p] /\ db = "up" /\ redis = "up" =>
        dbAge <= Lag \/ redisAge <= Lag \/ falseAge <= Lag

(* router.py 33-36, as the code keeps it: a thread that finished a round trip *)
(* starts none for a whole window, failed or not, so a burst costs at most    *)
(* one per thread.                                                            *)
BackendSpared ==
    [][\A p \in Probes : pc'[p] = "connect" /\ pc[p] # "connect" => rest[p] >= Ttl]_vars

(* Every probe is answered, or is inside a SELECT that PostgreSQL leaves      *)
(* unanswered: no probe waits for ever for a connection another one pins.     *)
(* And /health is answered, although a hung PostgreSQL keeps threads of its   *)
(* pool: there are more threads than connections to hang on.                  *)
ProbeEnds ==
    /\ \A p \in Probes :
           pc[p] # "idle" ~> pc[p] = "idle" \/ (pc[p] = "select" /\ db = "hung")
    /\ health ~> ~health

OnTrip(p) == pc[p] \in {"connect", "open", "select", "redis", "store"}

(* router.py 36: "Rajadas custam <= 1 round-trip por janela": no thread makes *)
(* one beside another, nor less than a window after it.                       *)
OneTripPerWindow ==
    \A p, q \in Probes : p # q /\ OnTrip(p) => ~OnTrip(q) /\ rest[q] >= Ttl

(* router.py 88-89: "recuperação aparece em <= TTL".                          *)
RecoveryWithinTtl ==
    \A p \in Probes : pc[p] = "reply" /\ ~ready[p] /\ db = "up" /\ redis = "up" =>
        dbAge <= Ttl \/ redisAge <= Ttl

(* router.py 31: "Cada checagem tem timeout curto para não pendurar o probe": *)
(* every probe is answered.                                                   *)
EveryCheckTimesOut == \A p \in Probes : pc[p] # "idle" ~> pc[p] = "idle"

(* The three promises together: a moment that breaks the first two is not     *)
(* also the begin of a wait that never ends.  Where this fails, one behaviour *)
(* breaks all three.                                                          *)
KeepsADocumentedPromise ==
    \A p \in Probes :
        pc[p] # "idle" /\ ~OneTripPerWindow /\ ~RecoveryWithinTtl ~> pc[p] = "idle"
================================================================================
