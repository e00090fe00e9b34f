-------------------------------- MODULE RateLimit --------------------------------
(* The rate limit of src/app/core/limiter.py as create_app installs it        *)
(* (src/app/main.py, lines 73-100): every request of a limited path is one    *)
(* hit on the counter of its client and path in the shared Redis, in a window *)
(* that begins with the first hit; more than Limit hits are answered with     *)
(* 429, and without Redis the answer is 500.  The requests run side by side,  *)
(* in any number of replicas, and Redis comes and goes under them.            *)
EXTENDS ClientIp, Functions

CONSTANTS
    Requests,    \* the requests in flight at a time
    Paths,       \* the limited paths: default_limits count each by itself
    Sent,        \* what clients write into X-Forwarded-For
    Limit,       \* hits per window (rate_limit_default)
    Window,      \* ticks of a window
    MaxRestarts  \* bound: how often Redis starts again, empty

ASSUME RateLimitAssumptions ==
    /\ TopologyMatches /\ Sent \subseteq Seq(Clients)
    /\ "probe" \notin Paths
    /\ Limit \in Nat \ {0} /\ Window \in Nat \ {0} /\ MaxRestarts \in Nat

Counters == Addresses \X Paths
Accounts == Clients \X Paths

VARIABLES
    pc, route, client, key,  \* of each request
    answer,      \* its status
    up,          \* whether Redis answers
    hits,        \* of each counter, up to Limit + 1
    left,        \* ticks until it expires, 0 when there is none
    restarts,
    own,         \* history: the hits of each client and path in their window
    admitted,    \* history: how many of their requests were admitted, by age
    counted,     \* history: whether the request was counted
    outage       \* history: whether Redis failed while the request ran

redis == <<up, hits, left, restarts>>
request == <<route, client, key, counted>>
vars == <<pc, answer, request, redis, own, admitted, outage>>

Init ==
    /\ pc = [r \in Requests |-> "idle"]
    /\ route = [r \in Requests |-> "probe"]
    /\ client \in [Requests -> Clients] /\ key = client
    /\ answer = [r \in Requests |-> 0]
    /\ up = TRUE /\ restarts = 0
    /\ hits = [k \in Counters |-> 0] /\ left = [k \in Counters |-> 0]
    /\ own = [a \in Accounts |-> 0]
    /\ admitted = [a \in Accounts |-> [age \in 0..Window - 1 |-> 0]]
    /\ counted = [r \in Requests |-> FALSE]
    /\ outage = [r \in Requests |-> FALSE]

Go(r, from, to) == pc[r] = from /\ pc' = [pc EXCEPT ![r] = to]
Answer(r, status) == answer' = [answer EXCEPT ![r] = status]
UpTo(n, max) == IF n < max THEN n ELSE max
CounterOf(r) == <<key[r], route[r]>>
AccountOf(r) == <<client[r], route[r]>>

--------------------------------------------------------------------------------
(* A request arrives; the two probes are exempt by the name of their handler. *)
NoneExempt(path) == FALSE                                           \* mutant
Exempt(path) == path = "probe"

Arrive(r, path, c, sent) ==
    /\ Go(r, "idle", IF Exempt(path) THEN "exempt" ELSE "limited")
    /\ route' = [route EXCEPT ![r] = path]
    /\ client' = [client EXCEPT ![r] = c]
    /\ key' = [key EXCEPT ![r] = KeyOf(c, sent)]
    /\ counted' = [counted EXCEPT ![r] = FALSE]
    /\ outage' = [outage EXCEPT ![r] = ~up]
    /\ Answer(r, 0)
    /\ UNCHANGED <<redis, own, admitted>>

(* An exempt request goes by the limiter on its way in and out.               *)
Serve(r) ==
    /\ Go(r, "exempt", "idle") /\ Answer(r, 200)
    /\ UNCHANGED <<request, redis, own, admitted, outage>>

(* INCRBY, and EXPIRE on the first hit, in one script; the Redis client may   *)
(* repeat it when it missed the answer.                                       *)
NeverExpires(r, n) ==                                               \* mutant
    /\ hits' = [hits EXCEPT ![CounterOf(r)] = UpTo(@ + n, Limit + 1)]
    /\ own' = [own EXCEPT ![AccountOf(r)] = UpTo(@ + n, Limit + 1)]
    /\ UNCHANGED left
AfterHits(r, n) ==
    LET k == CounterOf(r) IN
    /\ hits' = [hits EXCEPT ![k] = UpTo(@ + n, Limit + 1)]
    /\ left' = [left EXCEPT ![k] = IF @ = 0 THEN Window ELSE @]
    /\ own' = [own EXCEPT ![AccountOf(r)] = UpTo(@ + n, Limit + 1)]

(* limiter.hit(): up to Limit hits are admitted.                              *)
OneTooMany(k, n) == hits[k] + n <= Limit + 1                        \* mutant
Fits(k, n) == hits[k] + n <= Limit

Hit(r, n) ==
    /\ up /\ pc[r] = "limited" /\ AfterHits(r, n)
    /\ counted' = [counted EXCEPT ![r] = TRUE]
    /\ IF Fits(CounterOf(r), n)
       THEN /\ Go(r, "limited", "handler")
            /\ admitted' = [admitted EXCEPT ![AccountOf(r)][0] = @ + 1]
       ELSE Go(r, "limited", "refused") /\ UNCHANGED admitted
    /\ UNCHANGED <<route, client, key, answer, up, restarts, outage>>

(* Redis does not answer: fail closed, whether or not it counted the hit.     *)
FailsOpen(r) ==                                                     \* mutant
    /\ Go(r, "limited", "handler") /\ UNCHANGED answer
FailsClosed(r) ==
    /\ Go(r, "limited", "idle") /\ Answer(r, 500)

HitFails(r) ==
    /\ ~up /\ FailsClosed(r)
    /\ UNCHANGED <<request, redis, own, admitted, outage>>

HitTimesOut(r) ==
    /\ up /\ FailsClosed(r) /\ AfterHits(r, 1)
    /\ outage' = [outage EXCEPT ![r] = TRUE]
    /\ UNCHANGED <<request, up, restarts, admitted>>

(* rate_limit_exceeded_handler: 429, with or without its headers, which need  *)
(* Redis.                                                                     *)
Refuse(r) ==
    /\ Go(r, "refused", "idle") /\ Answer(r, 429)
    /\ UNCHANGED <<request, redis, own, admitted, outage>>

(* The handler has run; the headers of its answer ask Redis again, and when   *)
(* it is out, or late, the answer is lost.                                    *)
Inject(r) ==
    /\ up /\ Go(r, "handler", "idle") /\ Answer(r, 200)
    /\ UNCHANGED <<request, redis, own, admitted, outage>>

InjectFails(r) ==
    /\ Go(r, "handler", "idle") /\ Answer(r, 500)
    /\ outage' = [outage EXCEPT ![r] = TRUE]
    /\ UNCHANGED <<request, redis, own, admitted>>

--------------------------------------------------------------------------------
Forget(ks) ==
    /\ hits' = [k \in Counters |-> IF k \in ks THEN 0 ELSE hits[k]]
    /\ own' = [a \in Accounts |-> IF a \in ks THEN 0 ELSE own[a]]

(* Time passes; the counters whose window is over are gone.                   *)
Tick ==
    /\ left' = [k \in Counters |-> IF left[k] = 0 THEN 0 ELSE left[k] - 1]
    /\ Forget({k \in Counters : left'[k] = 0})
    /\ admitted' = [a \in Accounts |->
           [age \in 0..Window - 1 |-> IF age = 0 THEN 0 ELSE admitted[a][age - 1]]]
    /\ UNCHANGED <<pc, answer, request, up, restarts, outage>>

RedisStops ==
    /\ up /\ restarts < MaxRestarts
    /\ up' = FALSE
    /\ left' = [k \in Counters |-> 0] /\ Forget(Counters)
    /\ outage' = [r \in Requests |-> outage[r] \/ pc[r] # "idle"]
    /\ UNCHANGED <<pc, answer, request, restarts, admitted>>

RedisStarts ==
    /\ ~up /\ up' = TRUE /\ restarts' = restarts + 1
    /\ UNCHANGED <<pc, answer, request, hits, left, own, admitted, outage>>

Next ==
    \/ \E r \in Requests :
        \/ \E path \in Paths \cup {"probe"}, c \in Clients, sent \in Sent : Arrive(r, path, c, sent)
        \/ \E n \in {1, 2} : Hit(r, n)
        \/ HitFails(r) \/ HitTimesOut(r) \/ Serve(r) \/ Refuse(r) 
        \/ Inject(r) \/ InjectFails(r)
    \/ Tick \/ RedisStops \/ RedisStarts

Spec == Init /\ [][Next]_vars

--------------------------------------------------------------------------------
(* Every variable has its type, and every counter has an expiry.              *)
TypeOK ==
    /\ pc \in [Requests -> {"idle", "exempt", "limited", "handler", "refused"}]
    /\ route \in [Requests -> Paths \cup {"probe"}]
    /\ client \in [Requests -> Clients]
    /\ key \in [Requests -> Addresses]
    /\ answer \in [Requests -> {0, 200, 429, 500}]
    /\ up \in BOOLEAN /\ restarts \in 0..MaxRestarts
    /\ hits \in [Counters -> 0..Limit + 1]
    /\ left \in [Counters -> 0..Window]
    /\ own \in [Accounts -> 0..Limit + 1]
    /\ admitted \in [Accounts -> [0..Window - 1 -> Nat]]
    /\ counted \in [Requests -> BOOLEAN] /\ outage \in [Requests -> BOOLEAN]
    /\ \A k \in Counters : left[k] = 0 <=> hits[k] = 0

(* Whatever a client writes into X-Forwarded-For and whichever replicas it    *)
(* asks, no more than two windows' worth of its requests of one path are      *)
(* admitted within the length of one, and one more for each time Redis lost   *)
(* its counters.                                                              *)
ClientsBounded ==
    \A a \in Accounts : SumFunction(admitted[a]) <= (2 + restarts) * Limit

(* The limit as README.en.md, lines 124 and 408, words it: "global per-IP     *)
(* limit", one for all the paths that a client asks for.                      *)
GloballyBounded ==
    \A c \in Clients :
        SumFunction([path \in Paths |-> SumFunction(admitted[<<c, path>>])])
            <= (2 + restarts) * Limit

(* A client is refused for its own hits on the path: those of others, those   *)
(* of other paths, of the probes and of forged headers never count against it.*)
RefusedForOwnHits ==
    [][\A r \in Requests : pc[r] # "refused" /\ pc'[r] = "refused" =>
           own'[AccountOf(r)] > Limit]_vars

(* Fail closed, and only then: no limited request reaches its handler without *)
(* having been counted, a 500 means that Redis failed while the request ran,  *)
(* and the probes are answered all the same.                                  *)
FailClosed ==
    \A r \in Requests :
        /\ pc[r] = "handler" => counted[r]
        /\ answer[r] = 500 => outage[r]
        /\ route[r] = "probe" => answer[r] \in {0, 200} /\ pc[r] \notin {"limited", "refused"}
================================================================================
