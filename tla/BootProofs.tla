------------------------------- MODULE BootProofs -------------------------------
(* Theorems about Boot, for every number of replicas, of consumers and of     *)
(* migrations, every set of deployments and every number of faults.           *)
EXTENDS Boot, TLAPS

(* The container that holds the tables found them as it read them.            *)
UpgradeInv ==
    /\ \A c \in Containers : place[c] = "writing" => base[c] = revision
    /\ SchemaMatches

(* What runs, or opened the broker, went through its guards.                  *)
GuardInv ==
    /\ \A c \in Containers : place[c] \in {"starting", "up"} => Accepted(c)
    /\ \A c \in opened : Accepted(c)

Inv == TypeOK /\ UpgradeInv /\ GuardInv

--------------------------------------------------------------------------------
LEMMA TypeInit == Init => TypeOK
  BY BootAssumptions DEF Init, TypeOK, Running, Services

(* What a container's step does to its own place.                             *)
LEMMA GoTypes ==
    ASSUME TypeOK, NEW c \in Containers, NEW from, NEW to \in Running \cup {"exited"},
           Go(c, from, to), to # "writing"
    PROVE  /\ place' \in [Containers -> Running \cup {"exited"}]
           /\ place'[c] = to
           /\ \A d \in Containers : d # c => place'[d] = place[d]
           /\ \A d, e \in Containers : place'[d] = "writing" /\ place'[e] = "writing" => d = e
  BY DEF TypeOK, Go

LEMMA StepTypes ==
    ASSUME TypeOK, NEW c \in Containers, Step(c)
    PROVE  TypeOK'
<1> USE BootAssumptions
<1>1. CASE DatabaseFound(c)
  BY <1>1, GoTypes DEF DatabaseFound, database, TypeOK, Running
<1>2. CASE ReadRevision(c)
  <2>1. base' \in [Containers -> 0..Head]
    BY <1>2 DEF ReadRevision, TypeOK
  <2>2. \E to \in {"loading", "upgrading", "exited"} : Go(c, "reading", to)
    BY <1>2 DEF ReadRevision, AfterFailure
  <2> QED
    BY <1>2, <2>1, <2>2, GoTypes DEF ReadRevision, database, TypeOK, Running
<1>3. CASE LockVersion(c)
  <2>1. CASE Unmoved(c)
    <3>1. Go(c, "upgrading", "writing") /\ Unlocked
      BY <1>3, <2>1 DEF LockVersion
    <3>2. \A d, e \in Containers : place'[d] = "writing" /\ place'[e] = "writing" => d = e
      BY <3>1 DEF Go, Unlocked, TypeOK
    <3>3. place' \in [Containers -> Running \cup {"exited"}]
      BY <3>1 DEF Go, TypeOK, Running
    <3> QED
      BY <1>3, <3>2, <3>3 DEF LockVersion, database, TypeOK
  <2>2. CASE ~Unmoved(c)
    <3>1. Go(c, "upgrading", "exited")
      BY <1>3, <2>2 DEF LockVersion, AfterFailure
    <3> QED
      BY <1>3, <3>1, GoTypes DEF LockVersion, database, TypeOK
  <2> QED
    BY <2>1, <2>2
<1>4. CASE CommitUpgrade(c)
  <2>1. applied' \in [1..Head -> Nat] /\ revision' \in 0..Head
    BY <1>4 DEF CommitUpgrade, TypeOK
  <2> QED
    BY <1>4, <2>1, GoTypes DEF CommitUpgrade, TypeOK, Running
<1>5. CASE Load(c)
  <2>1. \E to \in {"starting", "exited"} : Go(c, "loading", to)
    BY <1>5 DEF Load
  <2> QED
    BY <1>5, <2>1, GoTypes DEF Load, database, TypeOK, Running
<1>6. CASE OpenBroker(c)
  <2>1. \E to \in {"up", "exited"} : Go(c, "starting", to)
    BY <1>6 DEF OpenBroker
  <2>2. opened' \subseteq Containers
    BY <1>6 DEF OpenBroker, TypeOK
  <2> QED
    BY <1>6, <2>1, <2>2, GoTypes DEF OpenBroker, database, TypeOK, Running
<1>7. CASE Restart(c)
  BY <1>7, GoTypes DEF Restart, database, TypeOK, Running
<1> QED
  BY <1>1, <1>2, <1>3, <1>4, <1>5, <1>6, <1>7 DEF Step

(* Nothing but a container's own step takes it anywhere but out.              *)
LEMMA OutsideTypes ==
    ASSUME TypeOK,
           \/ \E c \in Containers : Crash(c)
           \/ DatabaseStops \/ QueueStops
           \/ \E s \in Services : ServiceReturns(s)
    PROVE  /\ TypeOK'
           /\ \A c \in Containers : place'[c] \in {place[c], "exited"}
           /\ UNCHANGED <<deployment, revision, applied, base, opened>>
<1> USE BootAssumptions
<1>1. UNCHANGED <<deployment, revision, applied, base, opened>>
  BY DEF Crash, DatabaseStops, QueueStops, ServiceReturns, database
<1>2. /\ place' \in [Containers -> Running \cup {"exited"}]
      /\ \A c \in Containers : place'[c] \in {place[c], "exited"}
  BY DEF TypeOK, Crash, DatabaseStops, QueueStops, ServiceReturns, AfterFailure
<1>3. answering' \subseteq Services
  BY DEF TypeOK, Crash, DatabaseStops, QueueStops, ServiceReturns
<1>4. faults' \in 0..MaxFaults
  BY DEF TypeOK, Crash, DatabaseStops, QueueStops, ServiceReturns, Fault
<1>5. TypeOK'
  BY <1>1, <1>2, <1>3, <1>4 DEF TypeOK
<1> QED
  BY <1>1, <1>2, <1>5

LEMMA TypeNext == TypeOK /\ [Next]_vars => TypeOK'
<1> SUFFICES ASSUME TypeOK, [Next]_vars PROVE TypeOK'
  OBVIOUS
<1>1. CASE UNCHANGED vars
  BY <1>1 DEF vars, database, TypeOK
<1>2. ASSUME NEW c \in Containers, Step(c) PROVE TypeOK'
  BY <1>2, StepTypes
<1> QED
  BY <1>1, <1>2, OutsideTypes DEF Next
--------------------------------------------------------------------------------
LEMMA SameAccepted ==
    ASSUME deployment' = deployment
    PROVE  \A c \in Containers : Accepted(c)' = Accepted(c)
  BY DEF Accepted, Settings, Known, ValidTaskiq, ValidUniversal, ValidProduction,
     IsProduction, RedisLimited, HostPort

(* An upgrade holds the tables from the moment it found them as it read them, *)
(* so what it commits is what was missing, once.                              *)
LEMMA CommitUpgrades ==
    ASSUME TypeOK, UpgradeInv, NEW c \in Containers, CommitUpgrade(c)
    PROVE  UpgradeInv'
<1>1. /\ place[c] = "writing" /\ base[c] = revision
      /\ revision' = Head /\ deployment' = deployment
      /\ applied' = [n \in 1..Head |-> applied[n] + (IF n > base[c] THEN 1 ELSE 0)]
  BY DEF CommitUpgrade, Go, UpgradeInv
<1>2. \A d \in Containers : place'[d] # "writing"
  BY <1>1 DEF CommitUpgrade, Go, TypeOK
<1>3. \A n \in 1..Head : applied'[n] = (IF n <= revision' THEN 1 ELSE 0)
  <2> SUFFICES ASSUME NEW n \in 1..Head PROVE applied'[n] = 1
    BY <1>1, BootAssumptions
  <2>1. applied[n] = (IF n <= revision THEN 1 ELSE 0) /\ revision \in 0..Head
    BY DEF UpgradeInv, SchemaMatches, TypeOK
  <2>2. applied'[n] = applied[n] + (IF n > revision THEN 1 ELSE 0)
    BY <1>1
  <2> QED
    BY <2>1, <2>2, BootAssumptions
<1> QED
  BY <1>1, <1>2, <1>3 DEF UpgradeInv, SchemaMatches

LEMMA UpgradeNext == TypeOK /\ UpgradeInv /\ [Next]_vars => UpgradeInv'
<1> SUFFICES ASSUME TypeOK, UpgradeInv, [Next]_vars PROVE UpgradeInv'
  OBVIOUS
<1>1. Containers \subseteq DOMAIN place /\ deployment' = deployment
  BY DEF TypeOK, Next, vars, Step, DatabaseFound, ReadRevision, LockVersion, CommitUpgrade,
     Load, OpenBroker, Restart, Crash, DatabaseStops, QueueStops, ServiceReturns
<1>2. ASSUME UNCHANGED <<revision, applied>>,
             \A c \in Containers :
                 place'[c] = "writing" =>
                     \/ place[c] = "writing" /\ base'[c] = base[c]
                     \/ base'[c] = revision,
             \A c \in Containers :
                 Migrates(c) /\ place'[c] \in {"loading", "starting", "up"} =>
                     \/ place[c] \in {"loading", "starting", "up"}
                     \/ revision = Head
      PROVE  UpgradeInv'
  BY <1>1, <1>2 DEF UpgradeInv, SchemaMatches, Migrates
<1>3. CASE UNCHANGED vars
  BY <1>2, <1>3 DEF vars, database
<1>4. CASE \/ \E c \in Containers : Crash(c)
           \/ DatabaseStops \/ QueueStops
           \/ \E s \in Services : ServiceReturns(s)
  BY <1>2, <1>4, OutsideTypes
<1>5. ASSUME NEW c \in Containers, Step(c) PROVE UpgradeInv'
  <2>1. CASE DatabaseFound(c)
    BY <1>1, <1>2, <2>1 DEF DatabaseFound, database, Go, Migrates, TypeOK
  <2>2. CASE ReadRevision(c)
    <3>1. /\ UNCHANGED <<revision, applied>>
          /\ \A d \in Containers : d # c => place'[d] = place[d] /\ base'[d] = base[d]
          /\ place'[c] \in {"loading", "upgrading", "exited"}
          /\ place'[c] = "loading" => revision = Head
      BY <2>2 DEF ReadRevision, AfterFailure, database, Go, TypeOK
    <3> QED
      BY <1>2, <3>1
  <2>3. CASE LockVersion(c)
    <3>1. /\ UNCHANGED <<revision, applied, base>>
          /\ \A d \in Containers : d # c => place'[d] = place[d]
          /\ place'[c] \in {"writing", "exited"}
          /\ place'[c] = "writing" => base[c] = revision
      BY <2>3 DEF LockVersion, AfterFailure, Unmoved, database, Go, TypeOK
    <3> QED
      BY <1>2, <3>1
  <2>4. CASE CommitUpgrade(c)
    BY <2>4, CommitUpgrades
  <2>5. CASE Load(c)
    BY <1>1, <1>2, <2>5 DEF Load, database, Go, TypeOK
  <2>6. CASE OpenBroker(c)
    BY <1>1, <1>2, <2>6 DEF OpenBroker, database, Go, TypeOK
  <2>7. CASE Restart(c)
    BY <1>1, <1>2, <2>7 DEF Restart, database, Go, TypeOK
  <2> QED
    BY <1>5, <2>1, <2>2, <2>3, <2>4, <2>5, <2>6, <2>7 DEF Step
<1> QED
  BY <1>3, <1>4, <1>5 DEF Next

LEMMA GuardNext == TypeOK /\ GuardInv /\ [Next]_vars => GuardInv'
<1> SUFFICES ASSUME TypeOK, GuardInv, [Next]_vars PROVE GuardInv'
  OBVIOUS
<1>1. deployment' = deployment
  BY DEF Next, vars, Step, DatabaseFound, ReadRevision, LockVersion, CommitUpgrade,
     Load, OpenBroker, Restart, Crash, DatabaseStops, QueueStops, ServiceReturns
<1>2. opened \subseteq Containers /\ \A c \in Containers : Accepted(c)' = Accepted(c)
  BY <1>1, SameAccepted DEF TypeOK
<1>3. ASSUME \A c \in Containers :
                 place'[c] \in {"starting", "up"} => place[c] \in {"starting", "up"} \/ Accepted(c),
             \A c \in opened' : c \in opened \/ (c \in Containers /\ Accepted(c))
      PROVE  GuardInv'
  BY <1>2, <1>3 DEF GuardInv
<1>4. CASE UNCHANGED vars
  BY <1>3, <1>4 DEF vars
<1>5. CASE \/ \E c \in Containers : Crash(c)
           \/ DatabaseStops \/ QueueStops
           \/ \E s \in Services : ServiceReturns(s)
  BY <1>3, <1>5, OutsideTypes
<1>6. ASSUME NEW c \in Containers, Step(c) PROVE GuardInv'
  <2>1. CASE DatabaseFound(c) \/ CommitUpgrade(c) \/ Restart(c)
    BY <1>3, <2>1 DEF DatabaseFound, CommitUpgrade, Restart, Go, TypeOK
  <2>2. CASE ReadRevision(c) \/ LockVersion(c)
    <3>1. /\ opened' = opened
          /\ \A d \in Containers : d # c => place'[d] = place[d]
          /\ place'[c] \in {"loading", "upgrading", "writing", "exited"}
      BY <2>2 DEF ReadRevision, LockVersion, AfterFailure, Go, TypeOK
    <3> QED
      BY <1>3, <3>1
  <2>3. CASE Load(c)
    BY <1>3, <2>3 DEF Load, Go, TypeOK
  <2>4. CASE OpenBroker(c)
    <3>1. place[c] = "starting" /\ Accepted(c) /\ opened' \subseteq opened \cup {c}
      BY <2>4 DEF OpenBroker, Go, GuardInv
    <3>2. \A d \in Containers : d # c => place'[d] = place[d]
      BY <2>4 DEF OpenBroker, Go, TypeOK
    <3> QED
      BY <1>3, <3>1, <3>2
  <2> QED
    BY <1>6, <2>1, <2>2, <2>3, <2>4 DEF Step
<1> QED
  BY <1>4, <1>5, <1>6 DEF Next

LEMMA InvHolds == Spec => []Inv
<1>1. Init => Inv
  <2> SUFFICES ASSUME Init PROVE Inv
    OBVIOUS
  <2>1. TypeOK
    BY TypeInit
  <2>2. \A c \in Containers : place[c] = "waiting"
    BY DEF Init
  <2>3. UpgradeInv
    BY <2>2 DEF Init, UpgradeInv, SchemaMatches
  <2>4. GuardInv
    BY <2>2 DEF Init, GuardInv
  <2> QED
    BY <2>1, <2>3, <2>4 DEF Inv
<1>2. Inv /\ [Next]_vars => Inv'
  BY TypeNext, UpgradeNext, GuardNext DEF Inv
<1> QED
  BY <1>1, <1>2, PTL DEF Spec

(* Two upgrades never hold the tables at once, and everything has its type.   *)
THEOREM TypeCorrect == Spec => []TypeOK
  BY InvHolds, PTL DEF Inv

(* entrypoint.sh 25-30: however many replicas migrate at once, crash and try  *)
(* again, each migration is committed once, and a program whose container     *)
(* migrates runs on the newest schema.                                        *)
THEOREM EachMigrationOnce == Spec => []SchemaMatches
  BY InvHolds, PTL DEF Inv, UpgradeInv

(* In production the queue's Redis is never the one a serving API counts its  *)
(* rate limit in, nor one with a weak password, although the worker's own     *)
(* guard compares with a default.                                             *)
THEOREM Separated == Spec => []SeparationHolds
<1>1. Inv => SeparationHolds
  <2> SUFFICES ASSUME Inv, IsProduction(deployment), NEW c \in opened,
                      NEW url \in {deployment.broker, deployment.backend}
               PROVE  /\ url.strong
                      /\ \A a \in Apis : place[a] = "up" /\ RedisLimited(deployment) =>
                             ~ /\ url.host = deployment.store.host
                               /\ \/ url.port = deployment.store.port
                                  \/ {url.port, deployment.store.port} = {0, DefaultPort}
    BY DEF SeparationHolds
  <2>1. deployment \in Deployments /\ c \in Containers
    BY DEF Inv, TypeOK
  <2>2. /\ IsProduction(Settings(c))
        /\ url \in {Settings(c).broker, Settings(c).backend}
    BY <2>1, BootAssumptions DEF Settings, IsProduction
  <2>3. url.strong
    BY <2>2 DEF Inv, GuardInv, Accepted, ValidTaskiq
  <2>4. ASSUME NEW a \in Apis, place[a] = "up", RedisLimited(deployment)
        PROVE  HostPort(url) # HostPort(deployment.store)
    <3>1. Accepted(a) /\ Settings(a) = deployment
      BY <2>4 DEF Inv, GuardInv, Containers, Settings
    <3> QED
      BY <2>4, <3>1 DEF Accepted, ValidTaskiq
  <2>5. HostPort(url) # HostPort(deployment.store) =>
            ~ /\ url.host = deployment.store.host
              /\ \/ url.port = deployment.store.port
                 \/ {url.port, deployment.store.port} = {0, DefaultPort}
    <3>1. ASSUME url.host = deployment.store.host, url.port = deployment.store.port
          PROVE  HostPort(url) = HostPort(deployment.store)
      BY <3>1 DEF HostPort
    <3>2. ASSUME url.host = deployment.store.host,
                 {url.port, deployment.store.port} = {0, DefaultPort}
          PROVE  HostPort(url) = HostPort(deployment.store)
      <4>1. \/ url.port = 0 /\ deployment.store.port = DefaultPort
            \/ url.port = DefaultPort /\ deployment.store.port = 0
        BY <3>2 DEF DefaultPort
      <4> QED
        BY <3>2, <4>1 DEF HostPort, DefaultPort
    <3> QED
      BY <3>1, <3>2
  <2> QED
    BY <2>3, <2>4, <2>5
<1> QED
  BY <1>1, InvHolds, PTL

--------------------------------------------------------------------------------
(* Why a container that is accepted comes up: what its exits can come from.   *)
(* An upgrade that is not at the newest revision yet found the database where *)
(* it still is, or where another upgrade has taken it to the newest since.    *)
RaceInv == \A c \in Containers :
    place[c] = "upgrading" => base[c] < Head /\ revision \in {base[c], Head}

LEMMA RaceNext == TypeOK /\ RaceInv /\ [Next]_vars => RaceInv'
<1> SUFFICES ASSUME TypeOK, RaceInv, [Next]_vars PROVE RaceInv'
  OBVIOUS
<1>1. ASSUME revision' \in {revision, Head},
             \A c \in Containers :
                 place'[c] = "upgrading" =>
                     \/ place[c] = "upgrading" /\ base'[c] = base[c]
                     \/ base'[c] = revision /\ revision # Head /\ revision' = revision
      PROVE  RaceInv'
  BY <1>1, BootAssumptions DEF RaceInv, TypeOK
<1>2. CASE UNCHANGED vars
  BY <1>1, <1>2 DEF vars, database
<1>3. CASE \/ \E c \in Containers : Crash(c)
           \/ DatabaseStops \/ QueueStops
           \/ \E s \in Services : ServiceReturns(s)
  BY <1>1, <1>3, OutsideTypes
<1>4. ASSUME NEW c \in Containers, Step(c) PROVE RaceInv'
  <2>1. CASE DatabaseFound(c) \/ Load(c) \/ OpenBroker(c) \/ Restart(c)
    <3>1. UNCHANGED <<revision, base>>
      BY <2>1 DEF DatabaseFound, Load, OpenBroker, Restart, database
    <3>2. \A d \in Containers : place'[d] = "upgrading" => place[d] = "upgrading"
      BY <2>1 DEF DatabaseFound, Load, OpenBroker, Restart, Go, TypeOK
    <3> QED
      BY <1>1, <3>1, <3>2
  <2>2. CASE ReadRevision(c)
    <3>1. revision' = revision
      BY <2>2 DEF ReadRevision, database
    <3>2. \A d \in Containers : d # c => place'[d] = place[d] /\ base'[d] = base[d]
      BY <2>2 DEF ReadRevision, Go, TypeOK
    <3>3. place'[c] = "upgrading" => base'[c] = revision /\ revision # Head
      BY <2>2 DEF ReadRevision, AfterFailure, Go, TypeOK
    <3> QED
      BY <1>1, <3>1, <3>2, <3>3
  <2>3. CASE LockVersion(c)
    <3>1. UNCHANGED <<revision, base>>
      BY <2>3 DEF LockVersion, database
    <3>2. \A d \in Containers : place'[d] = "upgrading" => place[d] = "upgrading"
      BY <2>3 DEF LockVersion, AfterFailure, Go, TypeOK
    <3> QED
      BY <1>1, <3>1, <3>2
  <2>4. CASE CommitUpgrade(c)
    <3>1. revision' = Head /\ UNCHANGED base
      BY <2>4 DEF CommitUpgrade
    <3>2. \A d \in Containers : place'[d] = "upgrading" => place[d] = "upgrading"
      BY <2>4 DEF CommitUpgrade, Go, TypeOK
    <3> QED
      BY <1>1, <3>1, <3>2
  <2> QED
    BY <1>4, <2>1, <2>2, <2>3, <2>4 DEF Step
<1> QED
  BY <1>2, <1>3, <1>4 DEF Next

(* A container whose settings are accepted exits only when it crashes or a    *)
(* service stops, when it finds one stopped, or when it loses the race for    *)
(* the migrations, which has then been won: there is nothing left to migrate  *)
(* when it starts again.                                                      *)
ExitsExcused ==
    [][\A c \in Containers :
           Accepted(c) /\ place[c] # "exited" /\ place'[c] = "exited" =>
               \/ faults' > faults
               \/ answering # Services
               \/ place[c] = "upgrading" /\ revision = Head]_vars

LEMMA ExitStep ==
    ASSUME TypeOK, RaceInv, NEW d \in Containers, Step(d),
           NEW c \in Containers, Accepted(c), place[c] # "exited", place'[c] = "exited"
    PROVE  answering # Services \/ (place[c] = "upgrading" /\ revision = Head)
<1>1. c = d
  BY DEF Step, DatabaseFound, ReadRevision, LockVersion, CommitUpgrade, Load, OpenBroker,
     Restart, Go, TypeOK
<1>2. CASE DatabaseFound(d) \/ CommitUpgrade(d) \/ Restart(d)
  BY <1>1, <1>2 DEF DatabaseFound, CommitUpgrade, Restart, Go, TypeOK
<1>3. CASE ReadRevision(d)
  <2>1. Known(Settings(c))
    BY DEF Accepted
  <2>2. "database" \notin answering
    BY <1>1, <1>3, <2>1 DEF ReadRevision, Go, TypeOK
  <2> QED
    BY <2>2 DEF Services
<1>4. CASE LockVersion(d)
  <2>1. place[c] = "upgrading" /\ ~Unmoved(c)
    BY <1>1, <1>4 DEF LockVersion, Go, TypeOK
  <2> QED
    BY <2>1 DEF Unmoved, RaceInv
<1>5. CASE Load(d)
  BY <1>1, <1>5 DEF Load, Go, TypeOK
<1>6. CASE OpenBroker(d)
  <2>1. "queue" \notin answering
    BY <1>1, <1>6 DEF OpenBroker, Go, TypeOK
  <2> QED
    BY <2>1 DEF Services
<1> QED
  BY <1>2, <1>3, <1>4, <1>5, <1>6 DEF Step

(* entrypoint.sh 1-30 (set -e) and the restart policy: nothing else keeps a   *)
(* container with accepted settings from serving.                             *)
THEOREM AcceptedExitsExcused == Spec => ExitsExcused
<1>1. Init => TypeOK /\ RaceInv
  BY TypeInit DEF Init, RaceInv
<1>2. (TypeOK /\ RaceInv) /\ [Next]_vars => (TypeOK /\ RaceInv)'
  BY TypeNext, RaceNext
<1>3. TypeOK /\ RaceInv /\ [Next]_vars =>
          [\A c \in Containers :
               Accepted(c) /\ place[c] # "exited" /\ place'[c] = "exited" =>
                   \/ faults' > faults
                   \/ answering # Services
                   \/ place[c] = "upgrading" /\ revision = Head]_vars
  <2> SUFFICES ASSUME TypeOK, RaceInv, Next, NEW c \in Containers, Accepted(c),
                      place[c] # "exited", place'[c] = "exited"
               PROVE  \/ faults' > faults
                      \/ answering # Services
                      \/ place[c] = "upgrading" /\ revision = Head
    BY DEF vars
  <2>1. CASE \E d \in Containers : Step(d)
    BY <2>1, ExitStep
  <2>2. CASE (\E d \in Containers : Crash(d)) \/ DatabaseStops \/ QueueStops
    <3>1. faults' = faults + 1 /\ faults \in Nat
      BY <2>2 DEF Crash, DatabaseStops, QueueStops, Fault, TypeOK
    <3> QED
      BY <3>1
  <2>3. CASE \E s \in Services : ServiceReturns(s)
    BY <2>3 DEF ServiceReturns
  <2> QED
    BY <2>1, <2>2, <2>3 DEF Next
<1> QED
  BY <1>1, <1>2, <1>3, PTL DEF Spec, ExitsExcused
================================================================================
