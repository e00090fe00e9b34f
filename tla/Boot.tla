---------------------------------- MODULE Boot ----------------------------------
(* How the containers of docker-compose.yml come up: docker/entrypoint.sh     *)
(* waits for PostgreSQL, applies the migrations (alembic/env.py) where        *)
(* RUN_MIGRATIONS_ON_START says so, and only then runs the program, whose     *)
(* imports check the settings (core/config.py, core/security_guards.py) and   *)
(* whose startup opens the broker.  A program that fails at any of these      *)
(* exits, and Docker starts it again.  API replicas, the worker and the       *)
(* scheduler do this side by side over one database; containers crash,        *)
(* PostgreSQL and the queue's Redis stop and come back.                       *)
EXTENDS Integers, FiniteSets

CONSTANTS
    Apis,         \* the API's replicas
    Consumers,    \* the worker and the scheduler
    Head,         \* migrations in the chain; revision n: the first n applied
    Deployments,  \* the environments the operator may give the containers
    MaxFaults     \* bound: crashes and stops of PostgreSQL and of Redis

ASSUME BootAssumptions ==
    /\ IsFiniteSet(Apis \cup Consumers) /\ Apis \cap Consumers = {}
    /\ Head \in Nat \ {0}
    /\ MaxFaults \in Nat
    /\ LET Urls == [scheme : STRING, host : STRING, port : Nat, strong : BOOLEAN] IN
       Deployments \subseteq
           [environment : STRING, careless : SUBSET STRING, limited : BOOLEAN,
            migrate : BOOLEAN, store : Urls, broker : Urls, backend : Urls]

Containers == Apis \cup Consumers
Services == {"database", "queue"}
Running == {"waiting", "reading", "upgrading", "writing", "loading", "starting", "up"}

VARIABLES
    deployment,  \* the environment, the same while the system runs
    answering,   \* the services that answer
    revision,    \* alembic_version
    applied,     \* history: how often each migration was committed
    place,       \* where each container is, or "exited"
    base,        \* the revision its upgrade started from
    opened,      \* history: the containers that opened the broker
    faults       \* history: how much went wrong

database == <<revision, applied>>
vars == <<deployment, answering, database, place, base, opened, faults>>

--------------------------------------------------------------------------------
(* The settings.  A deployment's `careless` names the settings the guards     *)
(* refuse by themselves; staging is like development.                         *)
Url(scheme, host, port, strong) ==
    [scheme |-> scheme, host |-> host, port |-> port, strong |-> strong]
Memory == Url("memory", "none", 0, TRUE)

(* docker-compose.yml: worker and scheduler get no RATE_LIMIT_* variable, so  *)
(* they run with config.py's defaults.                                        *)
Settings(c) ==
    IF c \in Apis THEN deployment
    ELSE [deployment EXCEPT !.limited = TRUE, !.store = Memory]

(* The environment is one of the known ones, in any spelling of it; any other *)
(* makes Settings() raise.                                                    *)
Known(s) == s.environment \in {"development", "production"}
IsProduction(s) == s.environment = "production"

(* A URL without a port names the default one.                                *)
DefaultPort == 6379
AsWritten(url) == <<url.host, url.port>>                            \* mutant
HostPort(url) ==
    <<url.host, IF url.port = 0 THEN DefaultPort ELSE url.port>>

RedisLimited(s) == s.limited /\ s.store.scheme = "redis"
ValidTaskiq(s) ==
    IsProduction(s) => \A url \in {s.broker, s.backend} :
        /\ url.scheme = "redis" /\ url.strong
        /\ RedisLimited(s) => HostPort(url) # HostPort(s.store)

ValidUniversal(s) == "any_origin_with_credentials" \notin s.careless

ProductionOnly ==
    {"debug", "any_host", "minio_password", "minio_user", "database_password"}
ValidProduction(s) ==
    IsProduction(s) =>
        /\ s.careless \cap ProductionOnly = {}
        /\ s.limited => s.store.scheme # "memory"
        /\ RedisLimited(s) => s.store.strong
        /\ ValidTaskiq(s)

(* The API imports app.worker, so it runs both sets of guards; the others     *)
(* import app.worker alone.                                                   *)
Accepted(c) ==
    LET s == Settings(c)
    IN /\ Known(s) /\ ValidTaskiq(s)
       /\ c \in Apis => ValidUniversal(s) /\ ValidProduction(s)

--------------------------------------------------------------------------------
Init ==
    /\ deployment \in Deployments
    /\ answering = Services   \* depends_on: service_healthy
    /\ revision \in 0..Head
    /\ applied = [n \in 1..Head |-> IF n <= revision THEN 1 ELSE 0]
    /\ place = [c \in Containers |-> "waiting"]
    /\ base = [c \in Containers |-> 0]
    /\ opened = {} /\ faults = 0

Go(c, from, to) == place[c] = from /\ place' = [place EXCEPT ![c] = to]

(* set -e: a command that fails ends the script, and its container.           *)
CarriesOn == "loading"                                              \* mutant
AfterFailure == "exited"

(* The loop of entrypoint.sh.                                                 *)
Migrates(c) == c \in Apis /\ deployment.migrate
DatabaseFound(c) ==
    /\ "database" \in answering
    /\ Go(c, "waiting", IF Migrates(c) THEN "reading" ELSE "loading")
    /\ UNCHANGED <<deployment, answering, database, base, opened, faults>>

(* alembic upgrade head: env.py builds the settings, connects, and reads the  *)
(* revision the database is at.                                               *)
ReadRevision(c) ==
    /\ IF Known(Settings(c)) /\ "database" \in answering
       THEN /\ Go(c, "reading", IF revision = Head THEN "loading" ELSE "upgrading")
            /\ base' = [base EXCEPT ![c] = revision]
       ELSE /\ Go(c, "reading", AfterFailure)
            /\ UNCHANGED base
    /\ UNCHANGED <<deployment, answering, database, opened, faults>>

(* The upgrade is one transaction, and the tables it changes are locked until *)
(* it ends.  A second one waits there, and then finds the version it read     *)
(* gone: its statement fails.                                                 *)
NeverWaits == TRUE                                                  \* mutant
Unlocked == \A c \in Containers : place[c] # "writing"
AssumesUnmoved(c) == TRUE                                           \* mutant
Unmoved(c) == revision = base[c]

LockVersion(c) ==
    /\ Unlocked
    /\ Go(c, "upgrading", IF Unmoved(c) THEN "writing" ELSE AfterFailure)
    /\ UNCHANGED <<deployment, answering, database, base, opened, faults>>

CommitUpgrade(c) ==
    /\ Go(c, "writing", "loading")
    /\ revision' = Head
    /\ applied' = [n \in 1..Head |-> applied[n] + (IF n > base[c] THEN 1 ELSE 0)]
    /\ UNCHANGED <<deployment, answering, base, opened, faults>>

(* exec "$@": the imports check the settings.                                 *)
Load(c) ==
    /\ Go(c, "loading", IF Accepted(c) THEN "starting" ELSE "exited")
    /\ UNCHANGED <<deployment, answering, database, base, opened, faults>>

(* broker.startup(): in the API's lifespan, in the worker, in the scheduler.  *)
OpenBroker(c) ==
    /\ IF "queue" \in answering
       THEN Go(c, "starting", "up") /\ opened' = opened \cup {c}
       ELSE Go(c, "starting", "exited") /\ UNCHANGED opened
    /\ UNCHANGED <<deployment, answering, database, base, faults>>

(* restart: unless-stopped, with no limit on how often.                       *)
StaysDown(c) == FALSE                                               \* mutant
Restarts(c) == place[c] = "exited"
Restart(c) ==
    /\ Restarts(c)
    /\ Go(c, "exited", "waiting")
    /\ UNCHANGED <<deployment, answering, database, base, opened, faults>>

Step(c) ==
    \/ DatabaseFound(c) \/ ReadRevision(c) \/ LockVersion(c) \/ CommitUpgrade(c)
    \/ Load(c) \/ OpenBroker(c) \/ Restart(c)

--------------------------------------------------------------------------------
(* What goes wrong.                                                           *)
Fault == faults < MaxFaults /\ faults' = faults + 1

Crash(c) ==
    /\ Fault /\ place[c] \in Running
    /\ place' = [place EXCEPT ![c] = "exited"]
    /\ UNCHANGED <<deployment, answering, database, base, opened>>

(* A stop of PostgreSQL breaks the connections of the upgrades in progress;   *)
(* the programs that run only notice at their next query.                     *)
DatabaseStops ==
    /\ Fault /\ "database" \in answering
    /\ answering' = answering \ {"database"}
    /\ place' = [c \in Containers |->
                    IF place[c] \in {"upgrading", "writing"} THEN AfterFailure ELSE place[c]]
    /\ UNCHANGED <<deployment, database, base, opened>>

QueueStops ==
    /\ Fault /\ "queue" \in answering
    /\ answering' = answering \ {"queue"}
    /\ UNCHANGED <<deployment, database, place, base, opened>>

ServiceReturns(s) ==
    /\ s \notin answering
    /\ answering' = answering \cup {s}
    /\ UNCHANGED <<deployment, database, place, base, opened, faults>>

Next ==
    \/ \E c \in Containers : Step(c) \/ Crash(c)
    \/ DatabaseStops \/ QueueStops
    \/ \E s \in Services : ServiceReturns(s)

(* A container's program goes on, and so does Docker, which restarts it and   *)
(* the services.                                                              *)
Fairness ==
    /\ \A c \in Containers : WF_vars(Step(c))
    /\ \A s \in Services : WF_vars(ServiceReturns(s))

Spec == Init /\ [][Next]_vars
FairSpec == Spec /\ Fairness

--------------------------------------------------------------------------------
(* Properties.                                                                *)

(* Every variable has its type, and one upgrade at most holds the tables.     *)
TypeOK ==
    /\ deployment \in Deployments
    /\ answering \subseteq Services
    /\ revision \in 0..Head
    /\ applied \in [1..Head -> Nat]
    /\ place \in [Containers -> Running \cup {"exited"}]
    /\ base \in [Containers -> 0..Head]
    /\ opened \subseteq Containers
    /\ faults \in 0..MaxFaults
    /\ \A c, d \in Containers : place[c] = "writing" /\ place[d] = "writing" => c = d

(* entrypoint.sh 25-30: whatever replicas migrate at once, crash and retry,   *)
(* the database holds exactly the migrations its revision names, each applied *)
(* once, and a program whose container migrates runs on the newest schema.    *)
SchemaMatches ==
    /\ \A n \in 1..Head : applied[n] = (IF n <= revision THEN 1 ELSE 0)
    /\ \A c \in Containers :
           Migrates(c) /\ place[c] \in {"loading", "starting", "up"} => revision = Head

(* worker.py 5-7, 25-28: in production no program opens a broker on the Redis *)
(* a serving API counts its rate limit in, nor one with a weak password, with *)
(* or without the port written out.                                           *)
SeparationHolds ==
    IsProduction(deployment) =>
        \A c \in opened : \A url \in {deployment.broker, deployment.backend} :
            /\ url.strong
            /\ \A a \in Apis : place[a] = "up" /\ RedisLimited(deployment) =>
                   ~ /\ url.host = deployment.store.host
                     /\ \/ url.port = deployment.store.port
                        \/ {url.port, deployment.store.port} = {0, DefaultPort}

(* A container whose settings are accepted serves in the end, after any       *)
(* crash, lost race for the migrations or stop of a service.                  *)
AcceptedComesUp ==
    \A c \in Containers : Accepted(c) /\ place[c] # "up" ~> place[c] = "up"
================================================================================
