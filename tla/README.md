# Verification of fastapi-backend-base

TLA+ models of the parts of this template whose correctness depends on the
order in which things happen: which layer answers a request and when, what
threads share, what a dependency that fails or hangs does to those who wait for
it. TLC checks the models on small instances; TLAPS proves the central results
for every value of the constants.

Line numbers below and in `PROJECT.json` refer to the files under `src/`.

## The system

A FastAPI service behind a proxy, with PostgreSQL, one Redis for the rate limit,
another for the task queue, and MinIO; a TaskIQ worker and a scheduler run beside
it (`docker-compose.yml`).

| Component | State | Operations | Interacts with |
|---|---|---|---|
| Middleware stack (`app/core/middleware/*`, `app/main.py` 88-118) | per request: what each layer noted of the response, bytes counted, messages read ahead, exception in flight | `__call__` of four layers, their wrapped `receive` and `send` | the ASGI server outside, SlowAPI and the routes inside |
| Readiness (`app/features/health/router.py`) | `app.state.readiness_cache`, shared by the server's threads | `readiness` | the engine's pool, PostgreSQL, the rate-limit Redis |
| Object storage (`app/shared/storage.py`) | client singleton, set of known buckets | put, get, delete, each in a thread | MinIO; the domain exceptions |
| Domain exceptions (`app/shared/exceptions.py`) | none | handler from exception to status | routes, storage |
| Database session (`app/core/database.py`) | engine and its pool; one session per request | `get_db`: commit, rollback, close | routes; the response being sent |
| Task queue (`app/worker.py`, `app/worker_healthcheck.py`) | stream, pending entries, results, heartbeat marker | schedule, deliver, run, acknowledge, probe | the task Redis, compose's health checks |
| Rate limiter (`app/core/limiter.py`) | counters per client and path in Redis | hit, storage failure, 429 | client IP, readiness (exempt) |
| Client IP (`app/core/client_ip.py`) | none (pure) | `resolve_client_ip` | limiter, access log |
| Settings and guards (`app/core/config.py`, `app/core/security_guards.py`) | the settings | validators that refuse to boot | API, worker, scheduler |
| Logging (`app/core/logging.py`) | none | formatting | everything |
| Migrations and entrypoint (`alembic/env.py`, `docker/entrypoint.sh`) | schema version | wait, `alembic upgrade`, exec | PostgreSQL, the guards, restart policies |
| Deployment (`docker-compose.yml`) | none | environments, health checks, restarts | every container |

What is hard, and what correctness means there:

* **Stack.** Three layers can answer one request and two of them do so after an
  exception; the overflow of a body surfaces inside the handler's own
  `receive()`, before, within or after its response; the client leaves or the
  server cancels at any await. Correct: one answer at most, in the protocol's
  order, shielded by the headers, refused when oversized, never truncated in
  silence, and one access line that says what the client got.
* **Readiness.** Threads read and write one cache without a lock around checks
  that take time. Correct: an answer is never staler than a bound, the backend is
  asked a bounded number of times, and every probe ends.
* **Storage.** Threads and replicas race to create a bucket; the known-bucket
  cache outlives the bucket. Correct: a race is a success, an error has the
  status its exception promises.
* **Session.** Commit, rollback and close exactly once per request, and what the
  client was told agrees with what was committed.
* **Task queue.** Delivery at least once, crashes between run and
  acknowledgement, probes that expire. Correct: no task lost while Redis lives,
  and a dead scheduler is seen within a bound, never masked.
* **Rate limit and client IP.** One window over all replicas, which fails closed; a
  client is counted under its own address whatever it writes into its headers.
* **Boot.** Replicas that migrate at once, guards that each process runs in part,
  containers that die and are started again. Correct: each migration once, no
  refused settings on the shared Redis, and whatever is accepted comes up.

`PROJECT.json` lists every hazard at the line where it bites, with the
properties that cover it or the reason none does yet.

## Modules

| Module | What it is |
|---|---|
| `RequestPipeline` | one request through the stack |
| `Exchange` | what the client and the log are promised of one request; `RequestPipeline` implements it |
| `MCRequestPipeline` | its instance for TLC |
| `RequestPipelineProofs` | the theorems about it |
| `Readiness` | concurrent probes over the cache, the pool and the two dependencies, and `/health` beside them |
| `MCReadiness` | its instance for TLC |
| `ReadinessProofs` | the theorems about it |
| `Storage` | `put_object`, `get_object` and `delete_object` on the threads of several processes over one MinIO |
| `ObjectStore` | what callers of the storage are promised; `Storage` implements it |
| `MCStorage` | its instance for TLC: two threads of one process |
| `StorageProofs` | the theorems about it |
| `TaskQueue` | the stream, its consumer group and the workers that run, acknowledge and die |
| `Delivery` | what those who publish are promised; `TaskQueue` implements it |
| `MCTaskQueue` | its instance for TLC |
| `TaskQueueProofs` | the theorems about it |
| `Heartbeat` | the scheduled ping, its marker and the two container checks, in discrete time |
| `MCHeartbeat` | its instance for TLC |
| `HeartbeatProofs` | the theorems about it |
| `DbSession` | `get_db` around the handlers of concurrent requests, over the engine's pool |
| `MCDbSession` | its instance for TLC |
| `DbSessionProofs` | the theorems about it |
| `ClientIp` | `resolve_client_ip` over a chain of proxies |
| `RateLimit` | the limiter over the shared Redis; keys are `ClientIp`'s |
| `MCRateLimit` | its instance for TLC |
| `RateLimitProofs` | the theorems about it and about `ClientIp` |
| `Boot` | entrypoint, migrations, guards and restarts of every container |
| `MCBoot` | its instance for TLC, with the deployments it is given |
| `BootProofs` | the theorems about it |

### RequestPipeline

Requests share no state in these layers, so one request is the system; its
interleavings are those of the handler, the client and the server. A step is what
the event loop runs between two awaits. The state has four parts: the server's
(`msgs`, `bytes`, `bodyDone`, `gone`), the wire's (`starts`, `wireStatus`,
`shielded`, `ended`, `stray`), the locals of each layer (`status` of
RequestContext, `ebStarted` of ErrorBoundary, `mode`, `total`, `sizeStarted`,
`buffered` of BodySizeLimit), and the handler's (`handler`, `appNo`, `appBytes`,
`raised`); `pc` and `exc` say where control is and which exception is in flight.

`RejectLength`, `LengthError`, `ServeLazily` and `ServeEagerly` are
BodySizeLimit's `__call__`; `DrainRefuses` and `DrainKeeps` a turn of the drain
loop; `LazyReceive` and `ReplayReceive` the two `receive` it gives the handler;
`SizeCatches` its `except`. `BoundaryCatches`, `BoundaryStart` and `BoundaryBody`
are ErrorBoundary's, `LogLine` the `except` and `finally` of RequestContext.
`ReplyStart` and `ReplyBody` send the response of a layer between them.
`Gate` stands for TrustedHost and CORS, `Incoming`, `Take`, `WireStart`,
`WireBody` and `Outer` for the server and Starlette's outermost layer: libraries,
modelled from how the code uses them.

The handler is SlowAPI and the routes together: any ASGI application that
respects the protocol, reads and sends in any order, may catch the overflow its
`receive()` raised, and may crash or be cancelled at any await. A message carries its
number and how many bytes the body has up to it, which is what the properties
need of a payload. A `capped` server holds a body to its declared length, as
uvicorn does; an uncapped one does not
(`tests/core/test_body_size_limit.py` 209-249 drives the layer so).

Of a body without interim parts only the final frame matters to the order of
frames, so `HandlerBody` sends that one; interim body frames change nothing the
properties see. Header contents, the request id's value, the wording of logs and
WebSocket scopes (passed through) are left out. `FinalStatus` keeps the branch of
`observability.py` 96-97 that no modelled exception reaches: it takes a fault of
ErrorBoundary or SecurityHeaders themselves.

### Readiness

A state machine per thread (`pc`) that follows `readiness()`: `ReadCache` and
`AnswerFromCache`/`StartChecks` are two steps, since another thread may store in
between; `Connect`, `ConnectNew`, `PoolTimeout`, `Opened`, `NotOpened` and
`DatabaseAnswers` are the database check; `RedisAnswers` the PING; `Store` the new
entry. Time is kept as ages that stop at a horizon beyond every bound the properties
speak of, so the state is finite while time is unbounded. Python code takes no time;
waiting for the pool, PostgreSQL or Redis does.

Three waits end by themselves and one does not. `PoolWait` is SQLAlchemy's default for
a connection of the pool, `ConnectWait` the driver's default for opening one (the code
sets neither), `RedisBudget` what the Redis client is given. The `SELECT 1` on a
connection that is open ends when PostgreSQL answers, and not before.

`idle` is the kind of connections resting in SQLAlchemy's pool. `build_engine` sets
no `pool_pre_ping`, so a connection opened before PostgreSQL went down is handed
out as it is, fails the first check after it, and the failure empties the pool. A
connection that cannot be opened (`NotOpened`) leaves those that rest where they are. A
check takes one of them: whether others of the same kind rest is left open, except that
none do when all are held (`Spare`). A PING may fail if Redis was down at any moment of
it, and takes up to
`RedisBudget`, which stands for the two timeouts and the client's retries.

`RecoveryBounded` is what the code keeps of `router.py` 88-89 ("recuperação aparece em
<= TTL"), not what they say: the bound counts the PING as well, and a failure on a stale
connection starts it anew. That the sentence itself does not hold is a finding.

`/health` asks nothing of anyone, but it is a `def` handler as `/ready` is and takes a
thread of the same limiter. `health` says that a call of it is next in the queue for
one: no probe gets a thread before it does. A hung PostgreSQL keeps as many threads
as the pool has connections (15), fewer than the server's 40, and the others give up
after the pool's timeout; this is why `ProbeEnds` holds of `health` too, and
the instance keeps one thread more than connections.

### Storage

A call is a thread (`asyncio.to_thread`) that goes through `_ensure_bucket`,
`_get_client` and the operation itself; `pc` says where it is. Threads of a process
share `client` and `known` (`_client`, `_known_buckets`), processes share only MinIO
(`buckets`, `objects`). Each read of the shared state and each write of it is a
step, so other threads come in between: `EnsureKnown`/`EnsureUnknown` is the test of
line 91, `UseClient`/`FindNoClient` the test of line 77 and `BuildClient` what
follows it, the clearing of the known buckets included. The test and the clearing
are what matters: `_client`, `_client_spec` and the set are written one after the
other, but a thread that comes in between either builds a client as well or finds
the one being built, and both are steps here.

A request is two steps, what MinIO does and the answer's arrival (`reply`), since
the world moves in between; a download is three, its body being read after the
answer began. MinIO and the client library are external. A request, or its
answer, may be lost: `Repeat` sends it again, whether or not it took effect, and
`GiveUp` raises after the last try. An outage is requests that are lost. `Refuse` is
any other S3 error, `RemoveBucket` a bucket someone removes (a lost volume among
them), `Restart` a process that dies with its calls. A request of a dead process
does nothing later on, which a cancelled or killed client does not guarantee for
the last message it sent.

`excused` is a history variable, what a call can be forgiven a failure for: MinIO
refused a request of it, or the bucket was removed under it or behind its cache.

`StatusOf` is the table of `exceptions.py`, with `ErrorBoundary`'s 500 for everything
that is not an `AppException`. Left out: rebuilding the client when the settings change
(they are read once; only test fixtures change them) and content types. A call
whose handler is cancelled runs on in its thread: here, a call nobody reads.

`ObjectStore` keeps only `store`, `request`, `heard` and `answer`: a call may take
effect and hear the truth any number of times while it runs, and ends with what it
heard last or with a failure. Under the mapping, `heard` is MinIO's answer to the
operation itself, not to the requests about the bucket.

### TaskQueue and Delivery

`stream`, `group` and `pending` are Redis: entries nobody has read, whether the
consumer group exists, and what was read and not acknowledged. `jobs` is what the
workers have in hand, each with the delivery it belongs to and how far it came:
`Fetch` (read ahead), `Start` (no more than `--max-async-tasks`), `Finish`, `Ack`
(`--ack-type when_executed`), `Save` (the result, after the acknowledgement). A task that
raises ends like one that returns, as the docstring of `_build_broker` says: it is
acknowledged and not retried.

`Crash` takes what a worker has in hand with it, `AckFails` loses one acknowledgement;
`Reclaim` hands what was abandoned to a worker again, and `ClaimSlow` what is still
running elsewhere, since Redis only knows how long an entry has been idle.
`RestartRedis` loses everything, the broker's Redis being configured to keep nothing
(`docker-compose.yml` 151-164); the group is then gone under its workers, which die of
it (`FindNoGroup`) and create it anew when they start. The group begins at the end of
the stream, so that what is published while there is none is never read: `Owed` counts
a message only while the group exists, and so does `Delivery`.

`Delivery` has no workers: a message is owed from its acceptance until it is settled,
which takes a run of it that came to an end. Left out, as internals of taskiq-redis: the
lock a claim takes, and the order among reclaimed entries. By default that lock has no
timeout: a worker that died with it in hand would stop the claims, which `EveryTaskRuns`
takes for granted. What waits is bounded by the messages; what stays in the stream's
memory is `Heartbeat`'s subject. The in-memory broker of the tests has no queue.

### Heartbeat

Time passes in ticks, the 30 seconds of the worker's probe. `Ping` is the scheduled
task (`worker.py` 77-104) when the scheduler publishes it, `Run` a worker that runs the next
task of the queue, of which only the ping writes `marker`; the worker's probe publishes a
task of its own (`ProbeStarts`) and waits for its result until its timeout
(`ProbeGivesUp`), after which the task stays in the queue, now `stale`. `CheckScheduler`
looks for the marker and nothing else. `Retries` failed checks in a row make a container
unhealthy, as Docker counts.

`full` says that the broker's Redis (`noeviction`) has no memory left: it then refuses
tasks, results and the marker alike. Any write may fill it (`MayFill`, `FullOrNot`), since
the broker is built without `maxlen` (`worker.py` 64): what was run and acknowledged stays
in the stream, and each result for a day. So a worker that comes back makes no room; only
`ResultsExpire` may, which nothing guarantees, or a restart of Redis. When `Capacity` tasks
wait it is full for sure, which is all the model knows of sizes.

A worker that is up empties the queue within a tick: `Tick` waits for it. A worker too
slow for that is, to the checks, one that is down, which is also how the model sees it.

### DbSession

A request is `Enter` (the session, no connection yet), `Write` (the first takes a
connection), one of `Return`, `Raise`, `AnswerBreaks`, and then what `get_db` does after
its `yield`: `Commit` or `CommitFails` and `Close`, or `Rollback` and `Close`. `Cancel`
may come in its handler, while its answer is sent, or between the answer and the commit.
`tx` is what is uncommitted on each connection, so that a connection given back without
a rollback would carry it into the next request; `disk` is what PostgreSQL has made
durable.

The order is FastAPI's (0.141, `pyproject.toml` 10): the code after `yield` runs when the
response has been sent if the handler returned, and before it is sent if it raised.
So `Return` answers before `Commit` runs, and a client may send its next
request before its own write is durable. The model shows it; no document
promises otherwise, and no handler of the template writes yet. `CommitFails` leaves
open whether PostgreSQL committed. On cancellation neither `except Exception` nor
`else` runs, and the generator is closed when it is collected: the writes are rolled
back, whatever the client has been answered. `cause` is a history variable, why a request
ended otherwise than by its commit; `"cut"` is an answer that broke or a cancellation, and
`AnswerMatchesData` says what each cause excuses. A commit once begun runs to its end, in
a thread that no cancellation reaches. Statements are
writes; what they write is left out.

### ClientIp and RateLimit

`ForwardedFor` is what the chain of proxies makes of a header the client may have
written itself, `ResolveClientIp` the code. `TopologyMatches` is what the two warnings
of the settings ask of an operator (`trust_proxy` and the number of hops are right); it
is an assumption of `RateLimit`.

In `RateLimit` a request is `Arrive`, `Hit` (one Lua script of the limits library:
count, and the expiry with the first hit), then `Inject` or `Refuse`, each of which may
need Redis again. The counter is that of the client and the path (`CounterOf`), because
the limiter sets `default_limits` (`limiter.py` 50-52), which slowapi counts by client and
URL path; only `application_limits` would count over all paths. A route with a parameter
has a counter for each of its URLs, and a path no route matches has none. `Exempt` is by
the handler's name, as SlowAPI's. The Redis client may
repeat a script whose answer it missed, so a hit counts once or twice. The headers of an
answer ask Redis once more, after the handler: `InjectFails` when it is out or late.
`HitFails` and `HitTimesOut` are `FailsClosed`: SlowAPI is installed with neither
`swallow_errors` nor an in-memory fallback. Redis counts for all replicas, so
requests are not told apart by replica. The `memory://` store, which counts by process
and which the guards refuse in production, is left out.

`hits` counts up to `Limit + 1`, beyond which nothing changes; `admitted` holds the
requests of the last `Window` ticks by age, for each client and path, which is what
`ClientsBounded` sums.

### Boot

`place` is where a container is: `DatabaseFound` is the loop of `entrypoint.sh`;
`ReadRevision`, `LockVersion` and `CommitUpgrade` are `alembic upgrade head`, run in one
transaction, whose second comer finds the version it read gone and fails; `Load` the
imports that run the guards; `OpenBroker` the startup of the broker. Any failure ends the
script (`set -e`), and Docker starts the container again.

`Settings` is what a container sees of the operator's environment: compose gives the
worker and the scheduler none of the `RATE_LIMIT_*` variables, so they run with the
defaults of `config.py`, and the guard that keeps the two Redis apart compares with
those defaults there. That the separation holds all the same, while an API serves, is
`SeparationHolds`. `Accepted` says which guards run where: the API imports `app.worker`
and runs them all, the others theirs alone. A credential is strong or not, a URL is a
scheme, a host and a port, and `careless` names the settings refused by themselves.

Two orders are as the code has them and no document says otherwise: the migrations
run before the guards, so that a container whose settings are refused has migrated the
database; and worker and scheduler neither migrate nor wait for a replica
that does.

## Runs

| Run | Shows |
|---|---|
| `pipeline` | `MaxBody` 2, chunks of 0 to 3 bytes, up to 3 messages, declared lengths 0 to 3 and the three that are none: bodies below, at and over the limit, in one message or across several, declared truly or not. All the safety properties, that every request ends and is logged, and that the stack implements `Exchange`. |
| `pipeline_crash_log` | a finding: see below |
| `readiness` | two threads and one connection, a TTL of 2 ticks, one tick each for a PING, for the pool and for opening a connection: enough for a thread to store over another, to wait for a pinned connection and to meet a stale one. `OutageBounded` and `RecoveryBounded` are tight: each fails with a bound one tick shorter. |
| `readiness_docs` | three findings in one behaviour, on the same instance |
| `storage` | two threads of one process, one bucket, one key, two contents, one repetition: both build the client, both create the bucket, one clears what the other noted, a put repeats over the other's. No false alarm, no poisoned cache, and `ObjectStore` implemented. |
| `storage_unreachable` | a finding |
| `task_queue` | two messages, two workers that run one task each at a time, two faults: enough for a worker to die between run and acknowledgement and the next one too, for a slow task to run twice at once, and for Redis to restart under both. Nothing owed is dropped (`Delivery` is implemented), nothing runs twice without a fault, everything owed is run. |
| `heartbeat` | a ping and a check of the scheduler every two ticks, three failures, at most four tasks that wait: the marker meets one lost ping, two in a row, a Redis that fills and stays full, and a late redelivery. No false alarm over one lost ping, no death masked, and recovery seen by both checks, while Redis has room. |
| `db_session` | three requests over two connections, up to two writes each, and one crash: a connection is reused after every way a request can end, and a cancellation meets each of its stages. |
| `rate_limit` | two clients behind two proxies, which write nothing into the header or the address of the first, and ask for either of two limited paths; a limit of two in a window of two ticks, one restart of Redis. `ClientsBounded` is tight: two windows' worth do fall into the length of one. |
| `rate_limit_global` | a finding: a limit of one, three paths |
| `boot` | two API replicas and a worker, two migrations, two faults, thirteen deployments: the careful one, one careless setting at a time, and the Redis URLs that do or do not name the same Redis. |

Bounds: `MaxMsgs` caps the messages of a request; every message beyond the one
that crosses the limit, or ends the body, meets the same code with the same
`total > MaxBody` outcome. `Horizon` is not a bound on time: it is where ages stop
being told apart.
In storage every hazard needs two actors on one bucket and one key: buckets and keys
do not interact, and two contents tell an old object from a new one. One repetition
already lets a request take effect twice. The symmetry is between the two threads of
one process, which no property tells apart. Replicas have no shared state but MinIO:
the proofs cover any assignment of threads to processes.
`MaxFaults`, `MaxCrashes` and `MaxRestarts` bound how often things go wrong, never when.
Two faults let one hit the repair of another; a third repeats what two can do, and the
theorems about these modules hold for any number.
In `rate_limit` one request is in flight at a time: all that requests share is Redis,
which a hit changes in one script, so that the hits of requests side by side are hits
one after the other. `TwoInUse` explores what any two counters do at a time, of one client
or of one path: a third meets either as they meet each other. The proofs cover any
number of requests and counters. `Capacity` is the most tasks that can wait: with four, a ping and three
probes fill Redis for sure, and by `MayFill` it may be full at any time before.
In `boot` the settings vary one at a time because each guard reads its own; those
about the Redis URLs, which read two, vary together.

`CHECK_DEADLOCK FALSE` is set where the system may rest: all messages settled and no
fault left (`task_queue`), all requests ended (`db_session`), all containers up (`boot`).

Fairness. In the pipeline, weak fairness of the stack's steps and of the handler's: the
event loop runs what can run, and a handler ends. For the drain it says that the client
goes on sending or leaves, which the class's comment leaves to the edge (slow clients,
lines 24-26). In readiness, weak fairness of each thread's step and strong fairness of
time: calls answered from the cache take none in the model, and however many follow each
other, they do not stop a clock. Nothing is asked of clients, PostgreSQL or Redis.
Storage has no liveness property and no fairness: a call lasts as long as the HTTP
library lets it. Neither has the rate limit: its answers take a bounded number of calls.
In the queue, weak fairness of a worker's start (`restart: unless-stopped`), of its
reads and claims (its two loops), and of its work on one message at a time (a task
ends): nothing has to be published, and a fault never has to happen. In the heartbeat,
of time, of the processes that are up and of redelivery; scheduler and worker never have
to come up, and nothing has to make room in Redis, which is why `RecoverySeen` assumes
that both are up, that Redis stays, and that it has room. In sessions, of the handler's
end, never of a cancellation, and of what `get_db` does after it, which includes the
collection of a cancelled generator. In boot, of every container's next step, Docker's
restart included, and of PostgreSQL and Redis coming back, which are restarted the same
way.

### Findings

* An exception that escapes the stack after the response started is logged with
  the status already sent, although `observability.py` 93-95 says it is logged
  as 500 (`EscapedCrashLoggedAs500`). A crash in the middle of a stream leaves an
  INFO line with 200; ErrorBoundary's own log keeps the cause.
* Three comments of the readiness probe do not hold, and one behaviour of `readiness_docs`
  breaks all of them (`KeepsADocumentedPromise`, which names the three formulas):
  - a burst of probes makes up to one round trip per thread, not one per window
    (`OneTripPerWindow`, `router.py` 36). What holds is `BackendSpared`.
  - a recovery shows later than one TTL (`RecoveryWithinTtl`, `router.py` 88-89): the first
    check after PostgreSQL came back fails on a connection from before, however late it
    comes, and its failure is cached. What holds is `RecoveryBounded`.
  - the `SELECT 1` on an established connection has no timeout (`EveryCheckTimesOut`,
    `router.py` 31). What holds is `ProbeEnds`.
* The limit per client is not one for all paths (`GloballyBounded`), although `README.md`
  124 and `README.en.md` 124 and 408 call it global per IP: each path has its own. What
  holds is `ClientsBounded`, for a client and a path.
* An unreachable MinIO is answered with 500 (`UnreachableIs503`, `storage.py` 41
  promises 503): only `S3Error` is caught, which takes an answer of S3 to raise. So
  is a connection that breaks under `response.read()`. What holds is `KeepsStore`:
  the answer is a failure, never a wrong content and never a 404.

Three sentences met on the way that no run of its own refutes:

* `worker.py` 40-42: a finite TTL of the results keeps the Redis of the broker from
  filling up. The stream has no `maxlen` and no TTL, so that a Redis that runs long
  enough fills all the same; `MayFill` and `ResultsExpire` say so.
* `worker.py` 25-28: a Redis shared with the rate limit stops the worker's boot. Compose
  gives the worker no rate-limit URL, so its guard compares with a default; what stops a
  shared Redis is the API's guard, hence `SeparationHolds` speaks of an API that serves.
* `database.py` 41: a handler that ended without an exception is committed. One whose
  request is cancelled after its answer and before the commit is not.

## Proofs

`RequestPipelineProofs` proves, for every `MaxBody`, set of chunk sizes, lengths,
statuses and `MaxMsgs` that `PipelineAssumptions` allows: the type invariant, all
the safety invariants of the run, and `Spec => KeepsExchange`.

None of the invariants is inductive alone. `Inv` conjoins the type invariant with
seven parts: `BodyInv` (the count agrees with what the server delivered; which
serving path runs at each point of control), `WireInv` and `FlagInv` (each
layer's own `response_started` agrees with the wire at the points where the layer
relies on it), `ExcInv` (which exception can be where), `StatusInv` (the status
RequestContext noted is the one on the wire), `FailureInv` (how a crash or an
overflow is on its way to be answered) and `OversizeInv`. `StepBody` proves the
part about bytes, `StepControl` the rest, one case per action. The arithmetic of
the limit is in `IncomingMessages` and `TakeCounts`. `ReplayInv`, for
`ReplayInOrder`, says what the read-ahead holds: what the handler has not received
yet, without a gap, up to the last message the server gave. `StepExchange` maps each
step to a step of `Exchange` or a stutter; `OneLinePerRequest` follows from it.

`ReadinessProofs` proves all the safety properties of the run, for any number of
threads, TTL, size of the pool, and any time the pool, the driver and the PING may take,
that `ReadinessAssumptions` allows. `Inv` has three parts beside the types. An entry of
the cache still fresh vouches for the world as it was no longer ago than its age and a
PING (`EntryBacked`). Each thread knows what its place in the handler lets it know
(`ThreadOK`): after the SELECT how PostgreSQL was when it answered, as long ago as the
PING has run, and so on to the answer. The premise that is hardest to see is
`ConnectOK`: a thread whose wait for the pool runs out reports PostgreSQL unavailable
although it asked nothing; it is right, because time only passes for it while others
hold every connection, and they hold one over a tick only while PostgreSQL hangs. That
fails with a timeout of no ticks at all, where a connection lent for an instant counts
as an outage: the attempt at the proof found it and TLC confirmed it, and `PoolWait` is
at least 1 since, as the code has it (SQLAlchemy's default of 30 seconds). `RestOK`, for
`BackendSpared`, says that a thread back from a round trip within the window finds an
entry no older than that, its own or another's. `Timeless` is the lemma behind most
steps: but for a tick, nothing grows older, it only becomes new. `TimeoutsHold` adds
what `ProbeEnds` rests on: the waits for the pool, for a connection to open and for the
PING each end at their budget, nowhere but in a SELECT is a thread kept beyond one, and
with more threads than connections one of them holds none.

`StorageProofs` proves, for every set of processes, threads, buckets, keys and
contents and any `Retries`, under `StorageAssumptions`, all that the runs of `Storage`
check: `TypeOK`, `FailuresExcused`, `CacheNotPoisoned` and `Spec => KeepsStore`. Its
`Inv` adds `EvidenceOf` to the type invariant, for each thread: which answers can wait
at each point of control, and that an answer which says the bucket is there, and
being past `_ensure_bucket`, mean that it is, unless it was removed since
(`There`). `There` is what makes a 503 without a cause impossible, and a cache
entry true when it is made. The type invariant carries one fact that is not a type:
nothing is asked, and no bucket is known, before the process has a client.
`EvidenceFacade`, `EvidenceNetwork` and `EvidenceOutside` prove it by action. For the
refinement, steps about the bucket are stutters (`Hidden`), an answer of MinIO is
`Act`, a repetition `Forget`, an end `Answer`, a restart `Leave` and a removed
bucket `Vanish`.

`DbSessionProofs` proves `TypeOK` and `AnswerMatchesData` for any requests, connections,
number of writes and of crashes, under `DbSessionAssumptions`. What makes it inductive is
where a write can be: on disk for a request only once it is past its commit, all of it at
once; uncommitted on a connection only for the request that holds it, all
of what that request has written; and nothing on a connection nobody holds, so that a
session never starts on another's leavings. Of `cause` it says that a request whose answer
broke, or that was cancelled, has not committed. The type invariant carries the last part's
companion, that no two sessions hold one connection. `PoolReturned` follows: a
connection of the pool carries no transaction, and when no request is under way the
pool is whole.

`TaskQueueProofs` proves `TypeOK`, `DuplicatesExcused` and `Spec => KeepsDelivery` for
any messages, workers, limit and number of faults, under `TaskQueueAssumptions`.
`PlacesInv` says where a message is: once in the stream, or out of it for good, and in a
worker's hands or pending only then; what was acknowledged has run. `RunsInv` counts:
the runs a message has had and those it may still have are one more than its deliveries
again, which `Start` and `Finish` only move from the second to the first. `ClaimsInv` is
the bound on those deliveries: a fault before each, and one more as soon as the message
is abandoned, since whatever abandons it is one. For the refinement, `Publish` is
`Accept`, `Finish` `Run`, `Ack` `Settle` unless another worker acknowledged first, and
all that moves a message between the stream, the pending entries and a worker is a
stutter. `OwedUntilRun` reads off it that nothing but the end of a run, or a restart of
Redis, takes a message out of what is owed.

`HeartbeatProofs` proves `TypeOK` and `OneLostPingTolerated` for any period, interval,
retries and capacity, over a Redis that may fill at any write and need never have room
again. `MarkerInv` says how much life the marker has left at least: three periods less
one for each ping that was due since it was written, counted to the next ping due.
`DeathNotMasked` counts what a scheduler that died left behind: two renewals of the
marker for each ping still queued, as its worker may die after it wrote the marker and
the ping be run again, one for each already abandoned. No step makes more of it, and
each renewal uses some up, so that the marker of a dead scheduler does run out.
`OwnAnswerOnly` is the worker's half: the queue holds one task of a probe at most, and
none once the probe is over (`ProbeInv`), so a check passes only for the run of its own
task by a worker that is up.

`RateLimitProofs` proves of `ClientIp` that a client is its own key (`ClientIsItsKey`),
for any chain of proxies that `TopologyMatches` and anything the client writes into the
header; and, of settings that trust no more proxies than there are, right or not, that
the header changes nothing (`HeaderCannotChoose`). With the first, each counter holds
the hits of one client on one path alone (`KeyInv`), and `RefusedForOwnHits` follows;
`UnderWay` says what a request may still meet, from which `FailClosed` follows.

`AdmittedBounded` is about a sum over ages, of one client on one path. `BacklogInv`
splits it at the age of their counter: what is younger was admitted by this counter, so
is no more than it counted up to the limit; all of it together exceeds that by no more
than an `Allowance`, which is one limit, for the counter before, and one for each time
Redis lost its counters. When the counter expires its own share becomes that of the
counter before, and the share of the one before that has left the window, which is the
reason the bound is two limits and not more. The sum itself is a fold, of which the
provers know nothing; the section on sums relates it to prefix sums (`PrefixSums`), by
an induction over sets that uses the least element of a set of naturals (`LeastNat`,
`SetInduction`), since the library's induction rules take an operator.

`BootProofs` proves `TypeOK`, `SchemaMatches` and `SeparationHolds`. `UpgradeInv` adds
that the upgrade that holds the tables found the revision as it read it, `GuardInv` that
what starts, or ever opened the broker, was accepted by its guards; the separation then
follows from the API's guard and the worker's own about the URLs both see. `RaceInv`,
for `AcceptedExitsExcused`, says that an upgrade under way finds the revision where it
read it or at the newest: so a container with accepted settings that loses the race has
nothing left to migrate when it starts again.

Only model-checked: liveness, which is out of the prover's reach. Of most of these
properties the part that takes no fairness is proved beside them, as a theorem that names
a formula of its proof module:

| Checked by TLC | Proved about it |
|---|---|
| `EveryRequestLogged` | `OneLinePerRequest`: no request is over without its line, none has two |
| `ProbeEnds` | `TimeoutsHold`: only a SELECT can keep a thread, and never all of them |
| `EveryTaskRuns` | `OwedUntilRun`: what is owed stays owed until it has run |
| `DeathSeen` | `DeathNotMasked`: nothing but its last pings renews a dead scheduler's marker; `OwnAnswerOnly`: nothing but its own task passes a probe |
| `SessionsEnd` | `PoolReturned`: what ends gives its connection back, clean |
| `AcceptedComesUp` | `AcceptedExitsExcused`: an accepted container exits only by a fault or a lost race |
| `RecoverySeen` | nothing beyond the invariants of `Heartbeat` |

The second column holds without any of the fairness the first one assumes. What is missing
between the two is that the steps that are enabled are taken, which only TLC checks. TLC
also checked the formulas of the second column, on the instances of the runs, before
they were proved.

## Plan

Every safety property the runs check is proved. What is left:

1. `RecoverySeen`: what the queue must hold for a probe to be answered in time, as an
   invariant while Redis has room.
2. `Storage`: of a call that failed, which effects it may have left in MinIO.

## Not modelled

* Logging (`app/core/logging.py`): formats lines, keeps no state and decides nothing.
* The static parts of the deployment: networks, limits, capabilities, images. What they
  decide about behaviour (restarts, health checks, environments, what a Redis keeps)
  is in `Boot`, `Heartbeat` and `TaskQueue`.
* Of the domain exceptions, only the status each becomes (`Storage!StatusOf`); the handler
  builds a body of it and keeps nothing.
* The application's factory (`app/main.py`) beyond the order of its layers, its limiter and
  its lifespan's broker; the routes of the template have no state of their own.
* Alembic's offline mode and SQLite, the in-memory broker and the `memory://` limiter store,
  which are for development and tests.
* Libraries, beyond what the code asks of them.
