----------------------------- MODULE ReadinessProofs -----------------------------
(* Theorems about Readiness, for any number of threads, any TTL (0 included), *)
(* any budget of the PING, of the pool and of the driver, and any pool.        *)
EXTENDS Readiness, FiniteSetTheorems, TLAPS

(* What an answer may rest on.  PostgreSQL has been away, or Redis has, for   *)
(* no more than k ticks; both are there, and one of them came back, or a      *)
(* stale connection failed its check, no more than k ticks ago.               *)
DbGone(k) == db # "up" => dbAge <= k
RedisGone(k) == UseRedis /\ redis # "up" => redisAge <= k
Recovered(k) == db = "up" /\ redis = "up" => dbAge <= k \/ redisAge <= k \/ falseAge <= k

(* An answer whose SELECT is no older than s ticks and whose PING is no older *)
(* than k.                                                                    *)
Backed(answer, s, k) == IF answer THEN DbGone(s) /\ RedisGone(k) ELSE Recovered(s)

EntryBacked(e) ==
    e.set /\ e.age < Ttl => Backed(e.ready, RedisBudget + e.age, e.age)

(* What each place of the handler knows of the world.  At "connect" it is why *)
(* a timeout of the pool speaks of PostgreSQL: the thread has waited while    *)
(* others held every connection, and they hold one over a tick only while     *)
(* PostgreSQL hangs.                                                          *)
ConnectOK(p) == pc[p] = "connect" /\ wait[p] > 0 /\ db # "hung" => dbAge = 0
PingOK(p) ==
    pc[p] = "redis" =>
        /\ wait[p] <= RedisBudget
        /\ IF ready[p] THEN DbGone(wait[p]) ELSE Recovered(wait[p])
StoreOK(p) == pc[p] = "store" => Backed(ready[p], RedisBudget, 0)
ReplyOK(p) == pc[p] = "reply" => Backed(ready[p], Lag, Lag - RedisBudget)
AgeOK(p) == pc[p] = "age" => EntryBacked(seen[p])

ThreadOK(p) == ConnectOK(p) /\ PingOK(p) /\ StoreOK(p) /\ ReplyOK(p) /\ AgeOK(p)

(* A thread that finished a round trip within the window finds an entry that  *)
(* is no older, its own or a newer one.                                       *)
RestOK(p) ==
    rest[p] < Ttl =>
        /\ cache.set /\ cache.age <= rest[p]
        /\ pc[p] = "age" => seen[p].set /\ seen[p].age <= rest[p]

Inv ==
    /\ TypeOK
    /\ EntryBacked(cache)
    /\ \A p \in Probes : ThreadOK(p)
    /\ \A p \in Probes : RestOK(p)

--------------------------------------------------------------------------------
(* Types.                                                                     *)

LEMMA Bounds == Lag \in Nat /\ Horizon \in Nat /\ Horizon = Lag + 1 /\ Lag >= RedisBudget
  BY ReadinessAssumptions DEF Lag, Horizon

LEMMA LongestWaitType == LongestWait \in Nat
  BY ReadinessAssumptions DEF LongestWait

LEMMA OlderType ==
    ASSUME NEW bound \in Nat, NEW age \in 0..bound
    PROVE  Older(age, bound) \in 0..bound /\ Older(age, bound) <= age + 1
  BY DEF Older

LEMMA AfterType ==
    ASSUME NEW ok \in BOOLEAN
    PROVE  AfterDatabase(ok) \in {"redis", "store"}
  BY DEF AfterDatabase

LEMMA NewCacheType ==
    ASSUME TypeOK, NEW p \in Probes
    PROVE  NewCache(p) \in Entries
  BY ReadinessAssumptions DEF TypeOK, NewCache, Entry, Entries

(* The pool never lends more connections than it has.                         *)
LEMMA HoldersFinite == IsFiniteSet(Holders) /\ Cardinality(Holders) \in Nat
<1>1. IsFiniteSet(Holders)
  BY ReadinessAssumptions, FS_Subset DEF Holders
<1> QED
  BY <1>1, FS_CardinalityType

LEMMA NoMoreHolders ==
    ASSUME TypeOK, \A p \in Probes : conn'[p] # "none" => conn[p] # "none"
    PROVE  Cardinality(Holders)' <= Pool
<1> DEFINE H == {p \in Probes : conn'[p] # "none"}
<1>1. H \subseteq Holders
  BY DEF Holders
<1>2. IsFiniteSet(H) /\ Cardinality(H) <= Cardinality(Holders)
  BY <1>1, HoldersFinite, FS_Subset
<1>3. Cardinality(H) \in Nat
  BY <1>2, FS_CardinalityType
<1>4. Holders' = H
  BY DEF Holders
<1> HIDE DEF H
<1> QED
  BY <1>2, <1>3, <1>4, HoldersFinite, ReadinessAssumptions DEF TypeOK

LEMMA OneMoreHolder ==
    ASSUME TypeOK, Available, NEW p \in Probes, conn[p] = "none", NEW k \in Kinds,
           k # "none", conn' = [conn EXCEPT ![p] = k]
    PROVE  Cardinality(Holders)' <= Pool
<1> DEFINE H == {q \in Probes : conn'[q] # "none"}
<1>1. H = Holders \cup {p} /\ p \notin Holders
  BY DEF Holders, TypeOK
<1>2. Cardinality(H) = Cardinality(Holders) + 1
  BY <1>1, HoldersFinite, FS_AddElement
<1>3. Holders' = H
  BY DEF Holders
<1> HIDE DEF H
<1> QED
  BY <1>2, <1>3, HoldersFinite, ReadinessAssumptions DEF Available
--------------------------------------------------------------------------------
LEMMA TypeInit == Init => TypeOK
<1> SUFFICES ASSUME Init PROVE TypeOK
  OBVIOUS
<1>1. Holders = {}
  BY DEF Init, Holders
<1>2. Cardinality(Holders) <= Pool
  BY <1>1, FS_EmptySet, ReadinessAssumptions
<1>3. NoCache \in Entries
  BY ReadinessAssumptions DEF NoCache, Entries
<1>4. /\ cache \in Entries /\ seen \in [Probes -> Entries]
      /\ conn \in [Probes -> Kinds]
      /\ \A p \in Probes : conn[p] # "none" <=> pc[p] \in {"open", "select"}
  BY <1>3 DEF Init, Kinds
<1>5. dbAge \in 0..Horizon /\ redisAge \in 0..Horizon /\ falseAge \in 0..Horizon
  BY Bounds DEF Init
<1>6. wait \in [Probes -> 0..LongestWait] /\ rest \in [Probes -> 0..Ttl]
  <2>1. 0 \in 0..LongestWait /\ Ttl \in 0..Ttl
    BY LongestWaitType, ReadinessAssumptions
  <2> QED
    BY <2>1 DEF Init
<1>7. ready \in [Probes -> BOOLEAN] /\ health \in BOOLEAN
  BY Zenon DEF Init
<1>8. /\ pc \in [Probes -> {"idle", "read", "age", "connect", "open",
                            "select", "redis", "store", "reply"}]
      /\ idle \in {"none", "fresh", "stale"}
  BY DEF Init
<1> QED
  BY <1>2, <1>4, <1>5, <1>6, <1>7, <1>8 DEF Init, TypeOK

(* The steps that lend, return and break no connection.                       *)
LEMMA TypePlain ==
    ASSUME TypeOK, NEW p \in Probes,
           \/ Call(p) \/ ReadCache(p) \/ AnswerFromCache(p) \/ StartChecks(p)
           \/ PoolTimeout(p) \/ RedisAnswers(p) \/ Store(p) \/ Reply(p)
    PROVE  TypeOK'
<1> USE ReadinessAssumptions
<1>1. UNCHANGED <<db, redis, dbAge, redisAge, idle, falseAge, conn, health>>
  BY DEF Call, ReadCache, AnswerFromCache, StartChecks, PoolTimeout, RedisAnswers, Store,
         Reply, world, pool
<1>2. Cardinality(Holders)' <= Pool
  BY <1>1, NoMoreHolders
<1>3. cache' \in Entries
  BY NewCacheType DEF Call, ReadCache, AnswerFromCache, StartChecks, PoolTimeout,
         RedisAnswers, Store, Reply, TypeOK
<1>4. PICK to \in {"idle", "read", "age", "connect", "redis", "store", "reply"} :
          pc[p] \notin {"open", "select"} /\ pc' = [pc EXCEPT ![p] = to]
  BY AfterType DEF Call, ReadCache, AnswerFromCache, StartChecks, PoolTimeout,
         RedisAnswers, Store, Reply, Go
<1>5. pc' \in [Probes -> {"idle", "read", "age", "connect", "open",
                          "select", "redis", "store", "reply"}]
  BY <1>4 DEF TypeOK
<1>6. \A q \in Probes : pc'[q] \in {"open", "select"} <=> pc[q] \in {"open", "select"}
  BY <1>4 DEF TypeOK
<1>7. seen' \in [Probes -> Entries]
  <2>1. NoCache \in Entries /\ cache \in Entries /\ seen \in [Probes -> Entries]
    BY DEF TypeOK, NoCache, Entries
  <2>2. \/ seen' = seen \/ seen' = [seen EXCEPT ![p] = cache]
        \/ seen' = [seen EXCEPT ![p] = NoCache]
    BY DEF Call, ReadCache, AnswerFromCache, StartChecks, PoolTimeout, RedisAnswers, Store, Reply
  <2> QED
    BY <2>1, <2>2
<1>8. ready' \in [Probes -> BOOLEAN]
  <2>1. ready \in [Probes -> BOOLEAN] /\ seen[p].ready \in BOOLEAN
    BY DEF TypeOK, Entries
  <2>2. \/ ready' = ready \/ ready' = [ready EXCEPT ![p] = TRUE]
        \/ ready' = [ready EXCEPT ![p] = FALSE]
        \/ ready' = [ready EXCEPT ![p] = seen[p].ready]
    BY DEF Call, ReadCache, AnswerFromCache, StartChecks, PoolTimeout, RedisAnswers, Store, Reply
  <2> QED
    BY <2>1, <2>2, Zenon
<1>9. wait' \in [Probes -> 0..LongestWait] /\ rest' \in [Probes -> 0..Ttl]
  <2>1. 0 \in 0..LongestWait /\ 0 \in 0..Ttl
    BY LongestWaitType
  <2>2. /\ wait' = wait \/ wait' = [wait EXCEPT ![p] = 0]
        /\ rest' = rest \/ rest' = [rest EXCEPT ![p] = 0]
    BY DEF Call, ReadCache, AnswerFromCache, StartChecks, PoolTimeout, RedisAnswers, Store, Reply
  <2> QED
    BY <2>1, <2>2 DEF TypeOK
<1> QED
  BY <1>1, <1>2, <1>3, <1>5, <1>6, <1>7, <1>8, <1>9 DEF TypeOK

LEMMA TypeConnect ==
    ASSUME TypeOK, NEW p \in Probes, Connect(p)
    PROVE  TypeOK'
<1>1. idle \in Kinds /\ idle # "none"
  BY DEF TypeOK, Kinds, Connect
<1>2. conn' = [conn EXCEPT ![p] = idle] /\ pc[p] = "connect" /\ conn[p] = "none"
  BY DEF Connect, Go, TypeOK
<1>3. Cardinality(Holders)' <= Pool
  BY <1>1, <1>2, OneMoreHolder DEF Connect
<1>4. /\ conn' \in [Probes -> Kinds]
      /\ \A q \in Probes : conn'[q] # "none" <=> pc'[q] \in {"open", "select"}
  BY <1>1, <1>2 DEF Connect, Go, TypeOK
<1>5. wait' \in [Probes -> 0..LongestWait]
  BY LongestWaitType DEF Connect, TypeOK
<1>6. pc' \in [Probes -> {"idle", "read", "age", "connect", "open",
                          "select", "redis", "store", "reply"}]
  BY DEF Connect, Go, TypeOK
<1> QED
  BY <1>3, <1>4, <1>5, <1>6 DEF Connect, TypeOK, world

LEMMA TypeConnectNew ==
    ASSUME TypeOK, NEW p \in Probes, ConnectNew(p)
    PROVE  TypeOK'
<1>1. "new" \in Kinds /\ "new" # "none"
  BY DEF Kinds
<1>2. conn' = [conn EXCEPT ![p] = "new"] /\ pc[p] = "connect" /\ conn[p] = "none"
  BY DEF ConnectNew, Go, TypeOK
<1>3. Cardinality(Holders)' <= Pool
  BY <1>1, <1>2, OneMoreHolder DEF ConnectNew
<1>4. /\ conn' \in [Probes -> Kinds]
      /\ \A q \in Probes : conn'[q] # "none" <=> pc'[q] \in {"open", "select"}
  BY <1>1, <1>2 DEF ConnectNew, Go, TypeOK
<1>5. wait' \in [Probes -> 0..LongestWait]
  BY LongestWaitType DEF ConnectNew, TypeOK
<1>6. pc' \in [Probes -> {"idle", "read", "age", "connect", "open",
                          "select", "redis", "store", "reply"}]
  BY DEF ConnectNew, Go, TypeOK
<1> QED
  BY <1>3, <1>4, <1>5, <1>6 DEF ConnectNew, TypeOK, world, pool

LEMMA TypeOpened ==
    ASSUME TypeOK, NEW p \in Probes, Opened(p)
    PROVE  TypeOK'
<1>1. /\ pc[p] = "open" /\ conn[p] # "none"
      /\ pc' = [pc EXCEPT ![p] = "select"] /\ conn' = [conn EXCEPT ![p] = "fresh"]
  BY DEF Opened, Go, TypeOK
<1>2. Cardinality(Holders)' <= Pool
  BY <1>1, NoMoreHolders DEF TypeOK
<1>3. /\ conn' \in [Probes -> Kinds]
      /\ \A q \in Probes : conn'[q] # "none" <=> pc'[q] \in {"open", "select"}
  BY <1>1 DEF TypeOK, Kinds
<1>4. wait' \in [Probes -> 0..LongestWait]
  BY LongestWaitType DEF Opened, TypeOK
<1>5. pc' \in [Probes -> {"idle", "read", "age", "connect", "open",
                          "select", "redis", "store", "reply"}]
  BY <1>1 DEF TypeOK
<1> QED
  BY <1>2, <1>3, <1>4, <1>5 DEF Opened, TypeOK, world, pool

LEMMA TypeNotOpened ==
    ASSUME TypeOK, NEW p \in Probes, NotOpened(p)
    PROVE  TypeOK'
<1>1. /\ pc[p] = "open" /\ pc' = [pc EXCEPT ![p] = AfterDatabase(FALSE)]
      /\ conn' = [conn EXCEPT ![p] = "none"]
  BY DEF NotOpened, Go, Released
<1>2. AfterDatabase(FALSE) \in {"redis", "store"}
  BY AfterType
<1>3. Cardinality(Holders)' <= Pool
  BY <1>1, NoMoreHolders DEF TypeOK
<1>4. /\ conn' \in [Probes -> Kinds]
      /\ \A q \in Probes : conn'[q] # "none" <=> pc'[q] \in {"open", "select"}
  BY <1>1, <1>2 DEF TypeOK, Kinds
<1>5. pc' \in [Probes -> {"idle", "read", "age", "connect", "open",
                          "select", "redis", "store", "reply"}]
  BY <1>1, <1>2 DEF TypeOK
<1>6. ready' \in [Probes -> BOOLEAN]
  <2>1. ready' = [ready EXCEPT ![p] = FALSE] /\ ready \in [Probes -> BOOLEAN]
    BY DEF NotOpened, TypeOK
  <2> QED
    BY <2>1, Zenon
<1>7. wait' \in [Probes -> 0..LongestWait]
  BY LongestWaitType DEF NotOpened, TypeOK
<1> QED
  BY <1>3, <1>4, <1>5, <1>6, <1>7 DEF NotOpened, TypeOK, world, pool

LEMMA TypeSelect ==
    ASSUME TypeOK, NEW p \in Probes, DatabaseAnswers(p)
    PROVE  TypeOK'
<1> USE ReadinessAssumptions
<1> DEFINE ok == db = "up" /\ conn[p] # "stale"
<1>1. /\ pc[p] = "select" /\ pc' = [pc EXCEPT ![p] = AfterDatabase(ok)]
      /\ conn' = [conn EXCEPT ![p] = "none"]
  BY DEF DatabaseAnswers, Go, Released
<1>2. AfterDatabase(ok) \in {"redis", "store"}
  BY AfterType
<1>3. Cardinality(Holders)' <= Pool
  BY <1>1, NoMoreHolders DEF TypeOK
<1>4. /\ conn' \in [Probes -> Kinds]
      /\ \A q \in Probes : conn'[q] # "none" <=> pc'[q] \in {"open", "select"}
  BY <1>1, <1>2 DEF TypeOK, Kinds
<1>5. pc' \in [Probes -> {"idle", "read", "age", "connect", "open",
                          "select", "redis", "store", "reply"}]
  BY <1>1, <1>2 DEF TypeOK
<1>6. ready' \in [Probes -> BOOLEAN]
  <2>1. ready' = [ready EXCEPT ![p] = ok] /\ ready \in [Probes -> BOOLEAN] /\ ok \in BOOLEAN
    BY DEF DatabaseAnswers, TypeOK
  <2> HIDE DEF ok
  <2> QED
    BY <2>1, Zenon
<1>7. /\ idle' \in {"none", "fresh", "stale"} /\ falseAge' \in 0..Horizon
      /\ wait' \in [Probes -> 0..LongestWait]
  BY Bounds, LongestWaitType DEF DatabaseAnswers, TypeOK
<1> QED
  BY <1>3, <1>4, <1>5, <1>6, <1>7 DEF DatabaseAnswers, TypeOK, world

LEMMA TypeWorld ==
    ASSUME TypeOK, HealthArrives \/ HealthCheck \/ DbChanges \/ RedisChanges
    PROVE  TypeOK'
<1>1. CASE HealthArrives \/ HealthCheck \/ RedisChanges
  <2>1. UNCHANGED <<db, dbAge, idle, falseAge, cache, pc, seen, ready, conn, wait, rest>>
    BY <1>1 DEF HealthArrives, HealthCheck, RedisChanges, world, pool
  <2>2. Cardinality(Holders)' <= Pool
    BY <2>1, NoMoreHolders
  <2>3. health' \in BOOLEAN
    BY <1>1, Zenon DEF HealthArrives, HealthCheck, RedisChanges, TypeOK
  <2>4. redis' \in {"up", "down"}
    BY <1>1 DEF HealthArrives, HealthCheck, RedisChanges, TypeOK, world
  <2>5. redisAge' = redisAge \/ redisAge' = 0
    BY <1>1 DEF HealthArrives, HealthCheck, RedisChanges, world
  <2>6. redisAge' \in 0..Horizon
    BY <2>5, Bounds DEF TypeOK
  <2> QED
    BY <2>1, <2>2, <2>3, <2>4, <2>6 DEF TypeOK
<1>2. CASE DbChanges
  <2>1. conn' = conn \/
        conn' = [p \in Probes |-> IF conn[p] = "fresh" THEN "stale" ELSE conn[p]]
    BY <1>2 DEF DbChanges
  <2>2. /\ conn' \in [Probes -> Kinds]
        /\ \A p \in Probes : conn'[p] # "none" <=> conn[p] # "none"
    BY <2>1 DEF TypeOK, Kinds
  <2>3. Cardinality(Holders)' <= Pool
    BY <2>2, NoMoreHolders
  <2>4. db' \in {"up", "down", "hung"}
    BY <1>2 DEF DbChanges
  <2>5. dbAge' \in 0..Horizon
    BY <1>2, Bounds DEF DbChanges
  <2>6. idle' \in {"none", "fresh", "stale"}
    BY <1>2 DEF DbChanges, TypeOK
  <2> QED
    BY <1>2, <2>2, <2>3, <2>4, <2>5, <2>6 DEF DbChanges, TypeOK
<1> QED
  BY <1>1, <1>2

LEMMA TypeTick ==
    ASSUME TypeOK, Tick
    PROVE  TypeOK'
<1> USE ReadinessAssumptions
<1>1. UNCHANGED <<db, redis, idle, pc, seen, ready, conn, health>>
  BY DEF Tick
<1>2. Cardinality(Holders)' <= Pool
  BY <1>1, NoMoreHolders
<1>3. dbAge' \in 0..Horizon /\ redisAge' \in 0..Horizon /\ falseAge' \in 0..Horizon
  BY Bounds, OlderType DEF Tick, TypeOK
<1>4. cache' \in Entries
  <2>1. cache \in Entries /\ cache' = [cache EXCEPT !.age = IF cache.set THEN Older(@, Ttl) ELSE 0]
    BY DEF Tick, TypeOK
  <2>2. (IF cache.set THEN Older(cache.age, Ttl) ELSE 0) \in 0..Ttl
    BY <2>1, OlderType DEF Entries
  <2> QED
    BY <2>1, <2>2 DEF Entries
<1>5. wait' \in [Probes -> 0..LongestWait] /\ rest' \in [Probes -> 0..Ttl]
  <2>1. LongestWait \in Nat
    BY LongestWaitType
  <2> QED
    BY <2>1, OlderType DEF Tick, TypeOK
<1> QED
  BY <1>1, <1>2, <1>3, <1>4, <1>5 DEF TypeOK

LEMMA TypeNext == TypeOK /\ [Next]_vars => TypeOK'
<1> SUFFICES ASSUME TypeOK, [Next]_vars PROVE TypeOK'
  OBVIOUS
<1>1. ASSUME NEW p \in Probes, Call(p) \/ ProbeStep(p) PROVE TypeOK'
  BY <1>1, TypePlain, TypeConnect, TypeConnectNew, TypeOpened, TypeNotOpened, TypeSelect
     DEF ProbeStep
<1>2. CASE HealthArrives \/ HealthCheck \/ DbChanges \/ RedisChanges \/ Tick
  BY <1>2, TypeWorld, TypeTick
<1>3. CASE UNCHANGED vars
  <2>1. Cardinality(Holders)' <= Pool
    BY <1>3, NoMoreHolders DEF vars
  <2> QED
    BY <1>3, <2>1 DEF vars, world, pool, TypeOK
<1> QED
  BY <1>1, <1>2, <1>3 DEF Next

(* Everything has its type; above all, a connection is held exactly while it  *)
(* is opened and within SELECT, and never by more threads than the pool has   *)
(* connections.                                                               *)
THEOREM TypeCorrect == Spec => []TypeOK
  BY TypeInit, TypeNext, PTL DEF Spec
--------------------------------------------------------------------------------
(* Facts age only when time passes: in every other step the world is as it    *)
(* was, or changed just now.                                                  *)
Timeless ==
    /\ (db' = db /\ dbAge' = dbAge) \/ dbAge' = 0
    /\ (redis' = redis /\ redisAge' = redisAge) \/ redisAge' = 0
    /\ falseAge' \in {falseAge, 0}

Ages == dbAge \in Nat /\ redisAge \in Nat /\ falseAge \in Nat

LEMMA AgesType == TypeOK => Ages
  BY Bounds DEF TypeOK, Ages

LEMMA OnlyTickAges ==
    ASSUME TypeOK, [Next]_vars, ~Tick
    PROVE  Timeless
<1>1. CASE DbChanges
  BY <1>1 DEF DbChanges, Timeless
<1>2. CASE RedisChanges
  BY <1>2 DEF RedisChanges, pool, Timeless
<1>3. ASSUME NEW p \in Probes, DatabaseAnswers(p) PROVE Timeless
  BY <1>3 DEF DatabaseAnswers, world, Timeless
<1>4. CASE UNCHANGED <<world, falseAge>>
  BY <1>4 DEF world, Timeless
<1>5. ASSUME NEW p \in Probes, Call(p) \/ ProbeStep(p), ~DatabaseAnswers(p)
      PROVE  UNCHANGED <<world, falseAge>>
  BY <1>5 DEF ProbeStep, Call, ReadCache, AnswerFromCache, StartChecks, Connect, ConnectNew,
         PoolTimeout, Opened, NotOpened, RedisAnswers, Store, Reply, pool
<1>6. HealthArrives \/ HealthCheck \/ UNCHANGED vars => UNCHANGED <<world, falseAge>>
  BY DEF HealthArrives, HealthCheck, vars, pool
<1> QED
  BY <1>1, <1>2, <1>3, <1>4, <1>5, <1>6 DEF Next

(* What a thread, or the cache, knows goes on to hold.                        *)
LEMMA StillGone ==
    ASSUME Timeless, NEW k \in Nat, DbGone(k)
    PROVE  DbGone(k)'
  BY DEF Timeless, DbGone

LEMMA StillRedisGone ==
    ASSUME Timeless, NEW k \in Nat, RedisGone(k)
    PROVE  RedisGone(k)'
  BY DEF Timeless, RedisGone

LEMMA StillRecovered ==
    ASSUME Timeless, NEW k \in Nat, Recovered(k)
    PROVE  Recovered(k)'
  BY DEF Timeless, Recovered

LEMMA StillBacked ==
    ASSUME Timeless, NEW a \in BOOLEAN, NEW s \in Nat, NEW k \in Nat, Backed(a, s, k)
    PROVE  Backed(a, s, k)'
  BY StillGone, StillRedisGone, StillRecovered DEF Backed

LEMMA StillEntry ==
    ASSUME Timeless, NEW e \in Entries, EntryBacked(e)
    PROVE  EntryBacked(e)'
<1>1. e.age \in Nat /\ e.ready \in BOOLEAN /\ RedisBudget + e.age \in Nat
  BY ReadinessAssumptions DEF Entries
<1> QED
  BY <1>1, StillBacked DEF EntryBacked

(* A step of another thread, or of the world, leaves a thread what it knows.  *)
Untouched(q) ==
    pc'[q] = pc[q] /\ seen'[q] = seen[q] /\ ready'[q] = ready[q] /\ wait'[q] = wait[q]

LEMMA OthersKept ==
    ASSUME TypeOK, Timeless, NEW q \in Probes, ThreadOK(q), Untouched(q)
    PROVE  ThreadOK(q)'
<1> USE ReadinessAssumptions
<1>1. /\ wait[q] \in Nat /\ ready[q] \in BOOLEAN /\ seen[q] \in Entries
      /\ RedisBudget \in Nat /\ Lag \in Nat /\ Lag - RedisBudget \in Nat
  BY Bounds DEF TypeOK
<1>2. ConnectOK(q)'
  BY DEF ThreadOK, ConnectOK, Untouched, Timeless
<1>3. PingOK(q)'
  <2> SUFFICES ASSUME pc'[q] = "redis" PROVE PingOK(q)'
    BY DEF PingOK
  <2>1. PICK w \in Nat : w = wait[q] /\ w = wait'[q]
    BY <1>1 DEF Untouched
  <2>2. w <= RedisBudget /\ IF ready[q] THEN DbGone(w) ELSE Recovered(w)
    BY <2>1 DEF ThreadOK, PingOK, Untouched
  <2>3. IF ready'[q] THEN DbGone(w)' ELSE Recovered(w)'
    BY <2>2, StillGone, StillRecovered DEF Untouched
  <2> QED
    BY <2>1, <2>2, <2>3 DEF PingOK, DbGone, Recovered
<1>4. StoreOK(q)'
  BY <1>1 DEF ThreadOK, StoreOK, Untouched, Timeless, Backed, DbGone, RedisGone, Recovered
<1>5. ReplyOK(q)'
  BY <1>1 DEF ThreadOK, ReplyOK, Untouched, Timeless, Backed, DbGone, RedisGone, Recovered
<1>6. AgeOK(q)'
  <2> SUFFICES ASSUME pc'[q] = "age" PROVE EntryBacked(seen[q])'
    BY DEF AgeOK
  <2>1. PICK e \in Entries : e = seen[q] /\ e = seen'[q]
    BY <1>1 DEF Untouched
  <2>2. EntryBacked(e)
    BY <2>1 DEF ThreadOK, AgeOK, Untouched
  <2>3. EntryBacked(e)'
    BY <2>2, StillEntry
  <2> QED
    BY <2>1, <2>3 DEF EntryBacked, Backed, DbGone, RedisGone, Recovered
<1> QED
  BY <1>2, <1>3, <1>4, <1>5, <1>6 DEF ThreadOK
--------------------------------------------------------------------------------
(* What a thread knows after a step of its own.                               *)

LEMMA LongerBacked ==
    ASSUME Ages, NEW a \in BOOLEAN, NEW s \in Nat, NEW k \in Nat, NEW s2 \in Nat, NEW k2 \in Nat,
           s <= s2, k <= k2, Backed(a, s, k)
    PROVE  Backed(a, s2, k2)
  BY DEF Ages, Backed, DbGone, RedisGone, Recovered

(* Places where a thread has learnt nothing yet.                              *)
LEMMA NothingKnown ==
    ASSUME NEW p \in Probes, pc'[p] \in {"idle", "read", "open", "select"}
    PROVE  ThreadOK(p)'
  BY DEF ThreadOK, ConnectOK, PingOK, StoreOK, ReplyOK, AgeOK

LEMMA KnowsFromCache ==
    ASSUME Inv, NEW p \in Probes, ReadCache(p)
    PROVE  ThreadOK(p)'
<1>1. pc'[p] = "age" /\ seen'[p] = cache /\ UNCHANGED <<db, redis, dbAge, redisAge, falseAge>>
  BY DEF Inv, TypeOK, ReadCache, Go, world, pool
<1>2. EntryBacked(seen[p])'
  BY <1>1 DEF Inv, EntryBacked, Backed, DbGone, RedisGone, Recovered
<1> QED
  BY <1>1, <1>2 DEF ThreadOK, ConnectOK, PingOK, StoreOK, ReplyOK, AgeOK

LEMMA KnowsCached ==
    ASSUME Inv, NEW p \in Probes, AnswerFromCache(p)
    PROVE  ThreadOK(p)'
<1> USE ReadinessAssumptions
<1>1. /\ pc[p] = "age" /\ pc'[p] = "reply"
      /\ UNCHANGED <<db, redis, dbAge, redisAge, falseAge>>
  BY DEF Inv, TypeOK, AnswerFromCache, Go, world, pool
<1>2. PICK a \in BOOLEAN, n \in Nat :
          a = seen[p].ready /\ n = seen[p].age /\ seen[p].set /\ n < Ttl
  BY DEF Inv, TypeOK, Entries, AnswerFromCache, Fresh
<1>3. ready'[p] = a
  <2>1. ready' = [ready EXCEPT ![p] = a] /\ ready \in [Probes -> BOOLEAN]
    BY <1>2 DEF Inv, TypeOK, AnswerFromCache
  <2> QED
    BY <2>1, Zenon
<1>4. Backed(a, RedisBudget + n, n)
  BY <1>1, <1>2 DEF Inv, ThreadOK, AgeOK, EntryBacked
<1>5. Lag = RedisBudget + (Ttl - 1) /\ n <= Ttl - 1 /\ RedisBudget + n <= Lag
  BY <1>2 DEF Lag
<1>6. Ages
  BY AgesType DEF Inv
<1>7. Backed(a, Lag, Lag - RedisBudget)
  <2>1. RedisBudget + n \in Nat /\ Lag \in Nat /\ Lag - RedisBudget \in Nat /\ n <= Lag - RedisBudget
    BY <1>5, Bounds
  <2> QED
    BY <1>4, <1>5, <1>6, <2>1, LongerBacked
<1>8. Backed(ready[p], Lag, Lag - RedisBudget)'
  BY <1>1, <1>3, <1>7 DEF Backed, DbGone, RedisGone, Recovered
<1> QED
  BY <1>1, <1>8 DEF ThreadOK, ConnectOK, PingOK, StoreOK, ReplyOK, AgeOK

LEMMA KnowsAtStart ==
    ASSUME Inv, NEW p \in Probes, StartChecks(p)
    PROVE  ThreadOK(p)'
<1>1. pc'[p] = "connect" /\ wait'[p] = 0
  BY DEF Inv, TypeOK, StartChecks, Go
<1> QED
  BY <1>1 DEF ThreadOK, ConnectOK, PingOK, StoreOK, ReplyOK, AgeOK

(* The check of the database has ended with ok, PostgreSQL's fault or not.    *)
LEMMA KnowsAfterDatabase ==
    ASSUME Ages', NEW p \in Probes, NEW ok \in BOOLEAN, ready'[p] = ok, wait'[p] = 0,
           pc'[p] = AfterDatabase(ok),
           ok => db' = "up", ~ok => Recovered(0)'
    PROVE  ThreadOK(p)'
<1> USE ReadinessAssumptions
<1>1. CASE UseRedis
  <2>1. pc'[p] = "redis"
    BY <1>1 DEF AfterDatabase
  <2>2. PingOK(p)'
    BY DEF PingOK, DbGone, Recovered
  <2> QED
    BY <2>1, <2>2 DEF ThreadOK, ConnectOK, StoreOK, ReplyOK, AgeOK
<1>2. CASE ~UseRedis
  <2>1. pc'[p] = "store"
    BY <1>2 DEF AfterDatabase
  <2>2. Backed(ready[p], RedisBudget, 0)'
    BY <1>2 DEF Backed, DbGone, RedisGone, Recovered, Ages
  <2> QED
    BY <2>1, <2>2 DEF ThreadOK, ConnectOK, PingOK, StoreOK, ReplyOK, AgeOK
<1> QED
  BY <1>1, <1>2

(* The pool lends nothing for a whole tick only while PostgreSQL hangs.       *)
LEMMA KnowsFromPool ==
    ASSUME Inv, Ages', NEW p \in Probes, PoolTimeout(p)
    PROVE  ThreadOK(p)'
<1> USE ReadinessAssumptions
<1>1. /\ pc[p] = "connect" /\ pc'[p] = AfterDatabase(FALSE) /\ wait'[p] = 0
      /\ UNCHANGED <<db, redis, dbAge, redisAge, falseAge>>
  BY DEF Inv, TypeOK, PoolTimeout, Go, world, pool
<1>2. ready'[p] = FALSE
  <2>1. ready' = [ready EXCEPT ![p] = FALSE] /\ ready \in [Probes -> BOOLEAN]
    BY DEF Inv, TypeOK, PoolTimeout
  <2> QED
    BY <2>1, Zenon
<1>3. wait[p] > 0
  BY DEF Inv, TypeOK, PoolTimeout, PoolExpired
<1>4. db # "hung" => dbAge = 0
  BY <1>1, <1>3 DEF Inv, ThreadOK, ConnectOK
<1>5. Recovered(0)'
  BY <1>1, <1>4 DEF Recovered
<1> QED
  BY <1>1, <1>2, <1>5, KnowsAfterDatabase

(* A connection is not opened only while PostgreSQL is away.                  *)
LEMMA KnowsNotOpened ==
    ASSUME Inv, Ages', NEW p \in Probes, NotOpened(p)
    PROVE  ThreadOK(p)'
<1>1. /\ pc'[p] = AfterDatabase(FALSE) /\ wait'[p] = 0
      /\ db # "up" /\ db' = db
  BY DEF Inv, TypeOK, NotOpened, Go, world
<1>2. ready'[p] = FALSE
  <2>1. ready' = [ready EXCEPT ![p] = FALSE] /\ ready \in [Probes -> BOOLEAN]
    BY DEF Inv, TypeOK, NotOpened
  <2> QED
    BY <2>1, Zenon
<1>3. Recovered(0)'
  BY <1>1 DEF Recovered
<1> QED
  BY <1>1, <1>2, <1>3, KnowsAfterDatabase

LEMMA KnowsFromSelect ==
    ASSUME Inv, Ages', NEW p \in Probes, DatabaseAnswers(p)
    PROVE  ThreadOK(p)'
<1>1. PICK ok \in BOOLEAN : ok <=> db = "up" /\ conn[p] # "stale"
  OBVIOUS
<1>2. ready'[p] = ok
  <2>1. ready' = [ready EXCEPT ![p] = db = "up" /\ conn[p] # "stale"]
        /\ ready \in [Probes -> BOOLEAN]
    BY DEF Inv, TypeOK, DatabaseAnswers
  <2> QED
    BY <1>1, <2>1, Zenon
<1>3. pc'[p] = AfterDatabase(ok) /\ wait'[p] = 0
  BY <1>1 DEF Inv, TypeOK, DatabaseAnswers, Go, AfterDatabase
<1>4. UNCHANGED <<db, redis, dbAge, redisAge>>
  BY DEF DatabaseAnswers, world
<1>5. ~ok => Recovered(0)'
  BY <1>1, <1>4 DEF DatabaseAnswers, Recovered
<1> QED
  BY <1>1, <1>2, <1>3, <1>4, <1>5, KnowsAfterDatabase

LEMMA KnowsFromPing ==
    ASSUME Inv, NEW p \in Probes, RedisAnswers(p)
    PROVE  ThreadOK(p)'
<1> USE ReadinessAssumptions
<1>1. /\ pc[p] = "redis" /\ pc'[p] = "store"
      /\ UNCHANGED <<db, redis, dbAge, redisAge, falseAge>>
  BY DEF Inv, TypeOK, RedisAnswers, Go, world, pool
<1>2. /\ wait[p] \in Nat /\ wait[p] <= RedisBudget
      /\ IF ready[p] THEN DbGone(wait[p]) ELSE Recovered(wait[p])
  BY <1>1 DEF Inv, TypeOK, ThreadOK, PingOK
<1>3. Ages
  BY AgesType DEF Inv
<1>4. CASE redis = "up" /\ ready' = ready
  <2>1. Backed(ready[p], RedisBudget, 0)'
    BY <1>1, <1>2, <1>3, <1>4 DEF Backed, DbGone, RedisGone, Recovered, Ages
  <2> QED
    BY <1>1, <2>1 DEF ThreadOK, ConnectOK, PingOK, StoreOK, ReplyOK, AgeOK
<1>5. CASE /\ redis = "down" \/ redisAge <= wait[p]
           /\ ready' = [ready EXCEPT ![p] = FALSE]
  <2>1. ready'[p] = FALSE
    BY <1>5, Zenon DEF Inv, TypeOK
  <2>2. Recovered(RedisBudget)'
    BY <1>1, <1>2, <1>3, <1>5 DEF Recovered, Ages
  <2>3. Backed(ready[p], RedisBudget, 0)'
    BY <2>1, <2>2 DEF Backed
  <2> QED
    BY <1>1, <2>3 DEF ThreadOK, ConnectOK, PingOK, StoreOK, ReplyOK, AgeOK
<1> QED
  BY <1>4, <1>5 DEF RedisAnswers

LEMMA KnowsAtStore ==
    ASSUME Inv, NEW p \in Probes, Store(p)
    PROVE  ThreadOK(p)'
<1> USE ReadinessAssumptions
<1>1. /\ pc[p] = "store" /\ pc'[p] = "reply" /\ ready'[p] = ready[p]
      /\ UNCHANGED <<db, redis, dbAge, redisAge, falseAge>>
  BY DEF Inv, TypeOK, Store, Go, world, pool
<1>2. PICK a \in BOOLEAN : a = ready[p]
  BY DEF Inv, TypeOK
<1>3. Backed(a, RedisBudget, 0)
  BY <1>1, <1>2 DEF Inv, ThreadOK, StoreOK
<1>4. Ages /\ RedisBudget <= Lag /\ Lag \in Nat /\ Lag - RedisBudget \in Nat
      /\ 0 <= Lag - RedisBudget
  BY AgesType, Bounds DEF Inv
<1>5. Backed(a, Lag, Lag - RedisBudget)
  BY <1>3, <1>4, LongerBacked
<1>6. Backed(ready[p], Lag, Lag - RedisBudget)'
  BY <1>1, <1>2, <1>5 DEF Backed, DbGone, RedisGone, Recovered
<1> QED
  BY <1>1, <1>6 DEF ThreadOK, ConnectOK, PingOK, StoreOK, ReplyOK, AgeOK
--------------------------------------------------------------------------------
(* A tick: every fact is one tick older, and so is whoever counts on it.      *)

LEMMA TickAges ==
    ASSUME TypeOK, Tick
    PROVE  /\ UNCHANGED <<db, redis>>
           /\ dbAge' <= dbAge + 1 /\ redisAge' <= redisAge + 1 /\ falseAge' <= falseAge + 1
           /\ Ages /\ Ages'
<1>1. /\ dbAge' \in 0..Horizon /\ redisAge' \in 0..Horizon /\ falseAge' \in 0..Horizon
      /\ dbAge' <= dbAge + 1 /\ redisAge' <= redisAge + 1 /\ falseAge' <= falseAge + 1
  BY Bounds, OlderType DEF Tick, TypeOK
<1> QED
  BY <1>1, AgesType, Bounds DEF Ages, Tick

LEMMA TickBacked ==
    ASSUME TypeOK, Tick, NEW a \in BOOLEAN, NEW s \in Nat, NEW k \in Nat, Backed(a, s, k)
    PROVE  Backed(a, s + 1, k + 1)'
  BY TickAges DEF Ages, Backed, DbGone, RedisGone, Recovered

LEMMA TickConnect ==
    ASSUME TypeOK, Tick, NEW p \in Probes, pc[p] = "connect"
    PROVE  db = "hung"
<1> USE ReadinessAssumptions
<1>1. ~Available
  BY DEF Tick, MayWait
<1>2. Cardinality(Holders) >= 1
  BY <1>1, HoldersFinite DEF Available
<1>3. Holders # {}
  BY <1>2, FS_EmptySet
<1>4. PICK h \in Probes : conn[h] # "none"
  BY <1>3 DEF Holders
<1>5. pc[h] \in {"open", "select"}
  BY <1>4 DEF TypeOK
<1> QED
  BY <1>5 DEF Tick, MayWait

LEMMA TickThread ==
    ASSUME Inv, Tick, NEW p \in Probes
    PROVE  ThreadOK(p)'
<1> USE ReadinessAssumptions
<1>1. TypeOK /\ pc' = pc /\ ready' = ready /\ UNCHANGED <<db, redis>>
  BY DEF Inv, Tick
<1>2. pc[p] \in {"idle", "connect", "open", "select", "redis"}
  BY DEF Tick, MayWait
<1>3. CASE pc[p] \in {"idle", "open", "select"}
  BY <1>1, <1>3, NothingKnown
<1>4. CASE pc[p] = "connect"
  BY <1>1, <1>4, TickConnect DEF ThreadOK, ConnectOK, PingOK, StoreOK, ReplyOK, AgeOK
<1>5. CASE pc[p] = "redis"
  <2>1. wait[p] \in Nat /\ wait[p] < RedisBudget
    BY <1>5 DEF Inv, TypeOK, Tick, MayWait
  <2>2. wait'[p] = wait[p] + 1
    <3>1. wait'[p] = Older(wait[p], LongestWait)
      BY <1>5 DEF Tick
    <3>2. wait[p] < LongestWait
      BY <2>1 DEF LongestWait
    <3> QED
      BY <3>1, <3>2 DEF Older
  <2>3. IF ready[p] THEN DbGone(wait[p]) ELSE Recovered(wait[p])
    BY <1>5 DEF Inv, ThreadOK, PingOK
  <2>4. PICK w \in Nat : w = wait[p] /\ w + 1 = wait'[p]
    BY <2>1, <2>2
  <2>5. PingOK(p)'
    BY <1>1, <2>1, <2>3, <2>4, TickAges DEF PingOK, DbGone, Recovered, Ages
  <2> QED
    BY <1>1, <1>5, <2>5 DEF ThreadOK, ConnectOK, StoreOK, ReplyOK, AgeOK
<1> QED
  BY <1>2, <1>3, <1>4, <1>5

LEMMA TickCache ==
    ASSUME Inv, Tick
    PROVE  /\ cache'.set <=> cache.set
           /\ cache'.ready = cache.ready
           /\ cache'.age \in 0..Ttl /\ cache'.age <= cache.age + 1
           /\ cache'.set /\ cache'.age < Ttl => cache'.age = cache.age + 1
<1>1. cache \in Entries /\ cache' = [cache EXCEPT !.age = IF cache.set THEN Older(@, Ttl) ELSE 0]
  BY DEF Inv, Tick, TypeOK
<1>2. /\ cache'.set = cache.set /\ cache'.ready = cache.ready
      /\ cache'.age = IF cache.set THEN Older(cache.age, Ttl) ELSE 0
  BY <1>1 DEF Entries
<1>3. cache.age \in 0..Ttl
  BY <1>1 DEF Entries
<1> QED
  BY <1>2, <1>3, ReadinessAssumptions DEF Older

LEMMA TickEntry ==
    ASSUME Inv, Tick
    PROVE  EntryBacked(cache)'
<1> SUFFICES ASSUME cache'.set, cache'.age < Ttl
             PROVE  Backed(cache.ready, RedisBudget + cache.age, cache.age)'
  BY DEF EntryBacked
<1>1. PICK a \in BOOLEAN, n \in Nat :
          /\ a = cache.ready /\ n = cache.age
          /\ a = cache'.ready /\ n + 1 = cache'.age /\ cache.set /\ n < Ttl
  <2>1. cache.ready \in BOOLEAN /\ cache.age \in 0..Ttl
    BY DEF Inv, TypeOK, Entries
  <2>2. cache'.age = cache.age + 1
    BY TickCache
  <2>3. cache.set /\ cache'.ready = cache.ready
    BY TickCache
  <2> QED
    BY <2>1, <2>2, <2>3, ReadinessAssumptions
<1>2. Backed(a, RedisBudget + n, n)
  BY <1>1 DEF Inv, EntryBacked
<1>3. Backed(a, RedisBudget + n + 1, n + 1)'
  BY <1>2, TickBacked, ReadinessAssumptions DEF Inv
<1>4. RedisBudget + n + 1 = RedisBudget + (n + 1)
  BY ReadinessAssumptions
<1> QED
  BY <1>1, <1>3, <1>4 DEF Backed, DbGone, RedisGone, Recovered

LEMMA TickRest ==
    ASSUME Inv, Tick, NEW p \in Probes
    PROVE  RestOK(p)'
<1> SUFFICES ASSUME rest'[p] < Ttl PROVE RestOK(p)'
  BY DEF RestOK
<1> USE ReadinessAssumptions
<1>1. rest[p] < Ttl /\ rest'[p] = rest[p] + 1 /\ rest[p] \in Nat
  BY DEF Inv, TypeOK, Tick, Older
<1>2. cache.set /\ cache.age <= rest[p] /\ cache.age \in Nat
  BY <1>1 DEF Inv, RestOK, TypeOK, Entries
<1>3. cache'.set
  BY <1>2, TickCache
<1>4. cache'.age <= cache.age + 1 /\ cache'.age \in 0..Ttl
  BY TickCache
<1>5. cache'.age <= rest'[p]
  BY <1>1, <1>2, <1>4
<1>6. pc'[p] # "age"
  BY DEF Tick, MayWait
<1> QED
  BY <1>3, <1>5, <1>6 DEF RestOK
--------------------------------------------------------------------------------
(* The entry of the cache, and the rest of a thread, in the other steps.      *)

LEMMA CacheKept ==
    ASSUME Inv, Timeless, cache' = cache
    PROVE  EntryBacked(cache)'
<1>1. PICK e \in Entries : e = cache /\ e = cache'
  BY DEF Inv, TypeOK
<1>2. EntryBacked(e)'
  BY <1>1, StillEntry DEF Inv
<1> QED
  BY <1>1, <1>2 DEF EntryBacked, Backed, DbGone, RedisGone, Recovered

LEMMA CacheStored ==
    ASSUME Inv, Timeless, NEW p \in Probes, Store(p)
    PROVE  EntryBacked(cache)'
<1> USE ReadinessAssumptions
<1>1. CASE Ttl > 0
  <2>1. pc[p] = "store" /\ cache' = Entry(ready[p])
        /\ UNCHANGED <<db, redis, dbAge, redisAge, falseAge>>
    BY <1>1 DEF Store, Go, NewCache, world, pool
  <2>2. Backed(ready[p], RedisBudget, 0)
    BY <2>1 DEF Inv, ThreadOK, StoreOK
  <2>3. cache'.ready = ready[p] /\ cache'.age = 0 /\ RedisBudget + 0 = RedisBudget
    BY <2>1 DEF Entry
  <2> QED
    BY <2>1, <2>2, <2>3 DEF EntryBacked, Backed, DbGone, RedisGone, Recovered
<1>2. CASE ~(Ttl > 0)
  BY <1>2, CacheKept DEF Store, NewCache
<1> QED
  BY <1>1, <1>2

LEMMA RestStored ==
    ASSUME Inv, NEW p \in Probes, Store(p), NEW q \in Probes
    PROVE  RestOK(q)'
<1> USE ReadinessAssumptions
<1> SUFFICES ASSUME rest'[q] < Ttl PROVE RestOK(q)'
  BY DEF RestOK
<1>1. rest[q] \in Nat /\ rest' = [rest EXCEPT ![p] = 0] /\ rest \in [Probes -> 0..Ttl]
  BY DEF Inv, TypeOK, Store
<1>2. rest'[q] \in 0..Ttl /\ (q # p => rest'[q] = rest[q])
  BY <1>1
<1>3. cache' = Entry(ready[p])
  BY <1>2 DEF Store, NewCache
<1>4. cache'.set /\ cache'.age = 0
  BY <1>3 DEF Entry
<1>5. pc'[q] = "age" => pc[q] = "age" /\ q # p /\ seen'[q] = seen[q]
  BY DEF Inv, TypeOK, Store, Go
<1> QED
  BY <1>2, <1>4, <1>5 DEF Inv, RestOK

LEMMA RestKept ==
    ASSUME Inv, NEW q \in Probes, cache' = cache, rest' = rest,
           pc'[q] = "age" => \/ pc[q] = "age" /\ seen'[q] = seen[q]
                             \/ seen'[q] = cache
    PROVE  RestOK(q)'
  BY DEF Inv, RestOK
--------------------------------------------------------------------------------
LEMMA InvInit == Init => Inv
<1> SUFFICES ASSUME Init PROVE Inv
  OBVIOUS
<1> USE ReadinessAssumptions
<1>1. TypeOK
  BY TypeInit
<1>2. EntryBacked(cache)
  BY DEF Init, NoCache, EntryBacked
<1>3. ASSUME NEW p \in Probes PROVE ThreadOK(p) /\ RestOK(p)
  BY DEF Init, ThreadOK, ConnectOK, PingOK, StoreOK, ReplyOK, AgeOK, RestOK
<1> QED
  BY <1>1, <1>2, <1>3 DEF Inv

(* Which variables of which threads a step of p leaves alone.                 *)
LEMMA OnlyItself ==
    ASSUME TypeOK, NEW p \in Probes, Call(p) \/ ProbeStep(p), NEW q \in Probes, q # p
    PROVE  Untouched(q)
<1>1. pc'[q] = pc[q]
  BY DEF TypeOK, ProbeStep, Call, ReadCache, AnswerFromCache, StartChecks, Connect, ConnectNew,
         PoolTimeout, Opened, NotOpened, DatabaseAnswers, RedisAnswers, Store, Reply, Go
<1>2. seen'[q] = seen[q] /\ wait'[q] = wait[q]
  BY DEF TypeOK, ProbeStep, Call, ReadCache, AnswerFromCache, StartChecks, Connect, ConnectNew,
         PoolTimeout, Opened, NotOpened, DatabaseAnswers, RedisAnswers, Store, Reply
<1>3. PICK b : ready' = ready \/ ready' = [ready EXCEPT ![p] = b]
  BY DEF ProbeStep, Call, ReadCache, AnswerFromCache, StartChecks, Connect, ConnectNew,
         PoolTimeout, Opened, NotOpened, DatabaseAnswers, RedisAnswers, Store, Reply
<1>4. ready'[q] = ready[q]
  BY <1>3, Zenon DEF TypeOK
<1> QED
  BY <1>1, <1>2, <1>4 DEF Untouched

LEMMA Knows ==
    ASSUME Inv, TypeOK', NEW p \in Probes, Call(p) \/ ProbeStep(p)
    PROVE  ThreadOK(p)'
<1>1. CASE Call(p) \/ Connect(p) \/ ConnectNew(p) \/ Opened(p) \/ Reply(p)
  <2>1. pc'[p] \in {"idle", "read", "open", "select"}
    BY <1>1 DEF Inv, TypeOK, Call, Connect, ConnectNew, Opened, Reply, Go
  <2> QED
    BY <2>1, NothingKnown
<1>2. Ages'
  BY Bounds DEF TypeOK, Ages
<1> QED
  BY <1>1, <1>2, KnowsFromCache, KnowsCached, KnowsAtStart, KnowsFromPool, KnowsNotOpened,
     KnowsFromSelect, KnowsFromPing, KnowsAtStore DEF ProbeStep

LEMMA ProbeKeeps ==
    ASSUME Inv, NEW p \in Probes, Call(p) \/ ProbeStep(p)
    PROVE  Inv'
<1>1. TypeOK /\ [Next]_vars /\ TypeOK'
  BY TypeNext DEF Inv, Next
<1>2. Timeless
  <2>1. pc' # pc
    BY DEF Inv, TypeOK, ProbeStep, Call, ReadCache, AnswerFromCache, StartChecks,
           Connect, ConnectNew, PoolTimeout, Opened, NotOpened, DatabaseAnswers,
           RedisAnswers, Store, Reply, Go, AfterDatabase
  <2>2. ~Tick
    BY <2>1 DEF Tick
  <2> QED
    BY <1>1, <2>2, OnlyTickAges
<1>3. ASSUME NEW q \in Probes PROVE ThreadOK(q)'
  BY <1>1, <1>2, <1>3, Knows, OnlyItself, OthersKept DEF Inv
<1>4. CASE Store(p)
  BY <1>1, <1>2, <1>3, <1>4, CacheStored, RestStored DEF Inv
<1>5. CASE ~Store(p)
  <2>1. cache' = cache /\ rest' = rest
    BY <1>5 DEF ProbeStep, Call, ReadCache, AnswerFromCache, StartChecks, Connect, ConnectNew,
           PoolTimeout, Opened, NotOpened, DatabaseAnswers, RedisAnswers, Reply
  <2>2. ASSUME NEW q \in Probes, pc'[q] = "age"
        PROVE  (pc[q] = "age" /\ seen'[q] = seen[q]) \/ seen'[q] = cache
    <3>1. CASE q # p
      BY <1>1, <2>2, <3>1, OnlyItself DEF Untouched
    <3>2. CASE q = p
      <4>1. ReadCache(p)
        BY <1>1, <1>5, <2>2, <3>2 DEF TypeOK, ProbeStep, Call, AnswerFromCache, StartChecks,
               Connect, ConnectNew, PoolTimeout, Opened, NotOpened, DatabaseAnswers,
               RedisAnswers, Reply, Go, AfterDatabase
      <4> QED
        BY <1>1, <3>2, <4>1 DEF ReadCache, TypeOK
    <3> QED
      BY <3>1, <3>2
  <2>3. ASSUME NEW q \in Probes PROVE RestOK(q)'
    BY <2>1, <2>2, RestKept
  <2> QED
    BY <1>1, <1>2, <1>3, <2>1, <2>3, CacheKept DEF Inv
<1> QED
  BY <1>4, <1>5

LEMMA WorldKeeps ==
    ASSUME Inv, HealthArrives \/ HealthCheck \/ DbChanges \/ RedisChanges \/ UNCHANGED vars
    PROVE  Inv'
<1>1. TypeOK /\ [Next]_vars /\ TypeOK'
  BY TypeNext DEF Inv, Next
<1>2. UNCHANGED <<cache, pc, seen, ready, wait, rest>>
  BY DEF HealthArrives, HealthCheck, DbChanges, RedisChanges, vars
<1>3. Timeless
  BY DEF HealthArrives, HealthCheck, DbChanges, RedisChanges, vars, world, pool, Timeless
<1>4. ASSUME NEW q \in Probes PROVE ThreadOK(q)' /\ RestOK(q)'
  <2>1. Untouched(q)
    BY <1>2 DEF Untouched
  <2> QED
    BY <1>1, <1>2, <1>3, <2>1, OthersKept, RestKept DEF Inv
<1> QED
  BY <1>1, <1>2, <1>3, <1>4, CacheKept DEF Inv

LEMMA InvNext == Inv /\ [Next]_vars => Inv'
<1>1. ASSUME Inv, Tick PROVE Inv'
  <2>1. TypeOK'
    BY <1>1, TypeNext DEF Inv, Next
  <2> QED
    BY <1>1, <2>1, TickEntry, TickThread, TickRest DEF Inv
<1> QED
  BY <1>1, ProbeKeeps, WorldKeeps DEF Next

LEMMA InvHolds == Spec => []Inv
  BY InvInit, InvNext, PTL DEF Spec

(* router.py 28-31: a replica whose PostgreSQL or Redis is gone answers       *)
(* "ready" no longer than the PING after the SELECT and the cache hide it,    *)
(* whatever threads share the cache and however they overlap.                 *)
THEOREM OutageHiddenBriefly == Spec => []OutageBounded
<1>1. Inv => OutageBounded
  <2> SUFFICES ASSUME Inv, NEW p \in Probes, pc[p] = "reply", ready[p]
               PROVE  /\ db # "up" => dbAge <= Lag
                      /\ UseRedis /\ redis # "up" => redisAge <= Lag - RedisBudget
    BY DEF OutageBounded
  <2>1. Backed(ready[p], Lag, Lag - RedisBudget)
    BY DEF Inv, ThreadOK, ReplyOK
  <2> QED
    BY <2>1 DEF Backed, DbGone, RedisGone
<1> QED
  BY <1>1, InvHolds, PTL

(* router.py 88-89: a replica answers "not ready" no longer than that after   *)
(* PostgreSQL and Redis are back, or after a connection from before the       *)
(* outage failed: above all, no wait for the pool is taken for an outage      *)
(* unless PostgreSQL hung.                                                    *)
THEOREM RecoveryShowsSoon == Spec => []RecoveryBounded
<1>1. Inv => RecoveryBounded
  <2> SUFFICES ASSUME Inv, NEW p \in Probes, pc[p] = "reply", ~ready[p],
                      db = "up", redis = "up"
               PROVE  dbAge <= Lag \/ redisAge <= Lag \/ falseAge <= Lag
    BY DEF RecoveryBounded
  <2>1. Backed(ready[p], Lag, Lag - RedisBudget)
    BY DEF Inv, ThreadOK, ReplyOK
  <2> QED
    BY <2>1 DEF Backed, Recovered
<1> QED
  BY <1>1, InvHolds, PTL

(* router.py 33-36, as the code keeps it: a thread that finished a round trip *)
(* starts none for a whole window, whichever threads store in between.        *)
THEOREM OneTripPerThread == Spec => BackendSpared
<1>1. Inv /\ [Next]_vars =>
          [\A p \in Probes : pc'[p] = "connect" /\ pc[p] # "connect" => rest[p] >= Ttl]_vars
  <2> SUFFICES ASSUME Inv, Next, NEW p \in Probes, pc'[p] = "connect", pc[p] # "connect",
                      ~(rest[p] >= Ttl)
               PROVE  FALSE
    BY DEF vars
  <2>1. TypeOK /\ RestOK(p) /\ rest[p] < Ttl
    BY ReadinessAssumptions DEF Inv, TypeOK
  <2>2. PICK q \in Probes : Call(q) \/ ProbeStep(q)
    BY DEF Next, HealthArrives, HealthCheck, DbChanges, RedisChanges, Tick
  <2>3. q = p
    BY <2>1, <2>2, OnlyItself DEF Untouched
  <2>4. StartChecks(p)
    BY <2>1, <2>2, <2>3 DEF TypeOK, ProbeStep, Call, ReadCache, AnswerFromCache, Connect,
           ConnectNew, PoolTimeout, Opened, NotOpened, DatabaseAnswers, RedisAnswers,
           Store, Reply, Go, AfterDatabase
  <2>5. pc[p] = "age" /\ ~Fresh(p)
    BY <2>4 DEF StartChecks, Go
  <2>6. seen[p].set /\ seen[p].age <= rest[p]
    BY <2>1, <2>5 DEF RestOK
  <2>7. seen[p].age \in Nat /\ rest[p] \in Nat
    BY <2>1, ReadinessAssumptions DEF TypeOK, Entries
  <2> QED
    BY <2>1, <2>5, <2>6, <2>7, ReadinessAssumptions DEF Fresh
<1> QED
  BY <1>1, InvHolds, PTL DEF Spec, BackendSpared
--------------------------------------------------------------------------------
(* router.py 31, as the code keeps it: nowhere but in a SELECT is a thread    *)
(* kept longer than a timeout allows, and with more threads than connections  *)
(* one at least holds no connection, so that a PostgreSQL that hangs never     *)
(* takes the last thread from /health.                                        *)
WaitsEnd ==
    \A p \in Probes : /\ pc[p] = "connect" => wait[p] <= PoolWait
                      /\ pc[p] = "open" => wait[p] <= ConnectWait

OnlySelectHangs ==
    /\ WaitsEnd
    /\ \A p \in Probes : pc[p] = "redis" => wait[p] <= RedisBudget
    /\ Pool < Cardinality(Probes) => \E p \in Probes : pc[p] \notin {"open", "select"}

LEMMA WaitsEndKept ==
    ASSUME TypeOK, TypeOK', WaitsEnd, [Next]_vars
    PROVE  WaitsEnd'
<1> USE ReadinessAssumptions
<1> DEFINE EndsFor(p) == /\ pc[p] = "connect" => wait[p] <= PoolWait
                         /\ pc[p] = "open" => wait[p] <= ConnectWait
<1>1. SUFFICES ASSUME NEW p \in Probes PROVE EndsFor(p)'
  BY DEF WaitsEnd
<1>2. CASE UNCHANGED <<pc, wait>>
  BY <1>2 DEF WaitsEnd
<1>3. CASE Tick
  <2>1. wait[p] \in Nat /\ pc'[p] = pc[p]
    BY <1>3 DEF Tick, TypeOK
  <2>2. pc[p] \in {"connect", "open"} => wait'[p] = Older(wait[p], LongestWait)
    BY <1>3 DEF Tick
  <2>3. Older(wait[p], LongestWait) <= wait[p] + 1
    BY <2>1, LongestWaitType DEF Older
  <2>4. /\ pc[p] = "connect" => wait[p] < PoolWait
        /\ pc[p] = "open" => wait[p] < ConnectWait
    BY <1>3, <2>1 DEF Tick, MayWait, PoolExpired
  <2>5. Older(wait[p], LongestWait) \in Nat
    BY <2>1, LongestWaitType DEF Older
  <2> QED
    BY <2>1, <2>2, <2>3, <2>4, <2>5
<1>4. ASSUME NEW q \in Probes, Call(q) \/ ProbeStep(q) PROVE EndsFor(p)'
  <2>1. CASE p # q
    BY <1>4, <2>1, OnlyItself DEF Untouched, WaitsEnd
  <2>2. CASE p = q
    <3> SUFFICES ASSUME pc'[p] \in {"connect", "open"} PROVE wait'[p] = 0
      OBVIOUS
    <3>1. StartChecks(p) \/ ConnectNew(p)
      BY <1>4, <2>2 DEF TypeOK, ProbeStep, Call, ReadCache, AnswerFromCache, Connect,
             PoolTimeout, Opened, NotOpened, DatabaseAnswers, RedisAnswers, Store, Reply,
             Go, AfterDatabase
    <3> QED
      BY <3>1 DEF StartChecks, ConnectNew, TypeOK
  <2> QED
    BY <2>1, <2>2
<1> QED
  BY <1>2, <1>3, <1>4 DEF Next, HealthArrives, HealthCheck, DbChanges, RedisChanges, vars

(* Everything ProbeEnds needs of the timeouts and of the pool.                *)
THEOREM TimeoutsHold == Spec => []OnlySelectHangs
<1>1. Init => WaitsEnd
  BY DEF Init, WaitsEnd
<1>2. TypeOK /\ TypeOK' /\ WaitsEnd /\ [Next]_vars => WaitsEnd'
  BY WaitsEndKept
<1>3. Inv /\ WaitsEnd => OnlySelectHangs
  <2> SUFFICES ASSUME Inv, WaitsEnd PROVE OnlySelectHangs
    OBVIOUS
  <2>1. \A p \in Probes : pc[p] = "redis" => wait[p] <= RedisBudget
    BY DEF Inv, ThreadOK, PingOK
  <2>2. ASSUME Pool < Cardinality(Probes)
        PROVE  \E p \in Probes : pc[p] \notin {"open", "select"}
    <3>1. Cardinality(Holders) <= Pool /\ Cardinality(Probes) \in Nat
      BY FS_CardinalityType, ReadinessAssumptions DEF Inv, TypeOK
    <3>2. Holders # Probes
      BY <2>2, <3>1, HoldersFinite, ReadinessAssumptions
    <3>3. PICK p \in Probes : conn[p] = "none"
      BY <3>2 DEF Holders
    <3> QED
      BY <3>3 DEF Inv, TypeOK
  <2> QED
    BY <2>1, <2>2 DEF OnlySelectHangs
<1> QED
  BY <1>1, <1>2, <1>3, TypeCorrect, InvHolds, PTL DEF Spec
================================================================================
