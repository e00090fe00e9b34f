----------------------------- MODULE RateLimitProofs -----------------------------
(* Theorems about ClientIp and RateLimit, for any clients, any chain of       *)
(* proxies the settings match, and any limit, window and number of restarts.  *)
EXTENDS RateLimit, SequenceTheorems, FiniteSetTheorems, WellFoundedInduction, TLAPS

(* A client is its own key, and its counters hold its own hits.               *)
KeyInv ==
    /\ \A r \in Requests : key[r] = client[r]
    /\ \A a \in Accounts : own[a] = hits[a]

(* What a request that is under way may still meet.                           *)
UnderWay ==
    /\ \A r \in Requests : route[r] = "probe" => pc[r] \in {"idle", "exempt"}
    /\ \A r \in Requests : ~up /\ pc[r] # "idle" => outage[r]
    /\ ~up => restarts < MaxRestarts

Inv == TypeOK /\ KeyInv /\ UnderWay /\ FailClosed

--------------------------------------------------------------------------------
LEMMA Prefix ==
    ASSUME NEW S, NEW s \in Seq(S), Len(s) > 0
    PROVE  SubSeq(s, 1, Len(s) - 1) \in Seq(S) /\ Len(SubSeq(s, 1, Len(s) - 1)) = Len(s) - 1
<1>1. ASSUME NEW k \in 0..Len(s) PROVE SubSeq(s, 1, k) \in Seq(S) /\ Len(SubSeq(s, 1, k)) = k
  OBVIOUS
<1>2. Len(s) - 1 \in 0..Len(s)
  OBVIOUS
<1> QED
  BY <1>1, <1>2

(* u is s followed by t.                                                      *)
Joins(s, t, u) ==
    /\ Len(u) = Len(s) + Len(t) /\ Len(s) \in Nat /\ Len(t) \in Nat
    /\ \A i \in 1..Len(s) : u[i] = s[i]
    /\ \A i \in 1..Len(t) : u[Len(s) + i] = t[i]

LEMMA Joined ==
    ASSUME NEW S, NEW s \in Seq(S), NEW t \in Seq(S)
    PROVE  Joins(s, t, s \o t)
  BY DEF Joins

(* Behind proxies, which entry of the header the code takes: the client's     *)
(* own, when it trusts them all, or that of a proxy, when it trusts fewer.    *)
LEMMA EntryTaken ==
    ASSUME Proxies # <<>>, TrustProxy, NumTrustedProxies \in 1..Len(Proxies),
           NEW c \in Clients, NEW sent \in Seq(Clients)
    PROVE  KeyOf(c, sent) = IF NumTrustedProxies = Len(Proxies) THEN c
                            ELSE Proxies[Len(Proxies) - NumTrustedProxies]
<1> USE ClientIpAssumptions
<1> DEFINE P == {Proxies[i] : i \in DOMAIN Proxies}
           A == Clients \cup P
           n == Len(Proxies)
           rest == SubSeq(Proxies, 1, n - 1)
           front == sent \o <<c>>
           seen == front \o rest
           k == n - NumTrustedProxies
<1>1. Proxies \in Seq(P) /\ n \in Nat \ {0} /\ k \in 0..n - 1
  OBVIOUS
<1>2. rest \in Seq(P) /\ Len(rest) = n - 1
  BY <1>1, Prefix
<1>3. \A i \in 1..n - 1 : rest[i] = Proxies[i]
  BY <1>1
<1>4. sent \in Seq(A) /\ <<c>> \in Seq(A) /\ rest \in Seq(A)
  <2> HIDE DEF P, rest
  <2>1. Clients \subseteq A /\ P \subseteq A
    OBVIOUS
  <2> HIDE DEF A
  <2>2. <<c>> \in Seq(Clients)
    OBVIOUS
  <2> QED
    BY <1>2, <2>1, <2>2, SeqMonotonic
<1> HIDE DEF P, A, rest
<1>5. front \in Seq(A) /\ Len(front) = Len(sent) + 1 /\ front[Len(sent) + 1] = c
      /\ Len(sent) \in Nat
  BY <1>4
<1>6. ForwardedFor(c, sent) = seen
  BY DEF ForwardedFor, rest
<1> HIDE DEF front
<1>7. /\ Len(seen) = Len(sent) + n /\ seen[Len(sent) + 1] = c
      /\ \A i \in 1..n - 1 : seen[Len(sent) + 1 + i] = rest[i]
  <2>1. Joins(front, rest, seen)
    BY <1>4, <1>5, Joined
  <2> HIDE DEF seen, n
  <2> USE DEF Joins
  <2>2. Len(seen) = Len(sent) + n
    BY <1>1, <1>2, <1>5, <2>1
  <2>3. seen[Len(sent) + 1] = c
    BY <1>5, <2>1
  <2>4. \A i \in 1..n - 1 : seen[Len(sent) + 1 + i] = rest[i]
    BY <1>2, <1>5, <2>1
  <2> QED
    BY <2>2, <2>3, <2>4
<1> HIDE DEF seen, n, k
<1>8. /\ NumTrustedProxies >= 1 /\ Len(seen) >= NumTrustedProxies
      /\ Len(seen) - NumTrustedProxies + 1 = Len(sent) + 1 + k
  BY <1>1, <1>5, <1>7 DEF k, n
<1>9. KeyOf(c, sent) = seen[Len(sent) + 1 + k]
  BY <1>6, <1>8 DEF KeyOf, ResolveClientIp, FromTheRight
<1>10. CASE k = 0
  BY <1>5, <1>7, <1>9, <1>10 DEF k, n
<1>11. CASE k # 0
  <2>1. k \in 1..n - 1 /\ NumTrustedProxies # Len(Proxies)
    BY <1>1, <1>11 DEF k, n
  <2> QED
    BY <1>3, <1>7, <1>9, <2>1 DEF k, n
<1> QED
  BY <1>10, <1>11

(* resolve_client_ip: behind a chain of proxies the settings match, a client  *)
(* is counted and logged under its own address, whatever it writes into       *)
(* X-Forwarded-For.                                                           *)
THEOREM ClientIsItsKey ==
    ASSUME TopologyMatches, NEW c \in Clients, NEW sent \in Seq(Clients)
    PROVE  KeyOf(c, sent) = c
<1>1. CASE Proxies = <<>>
  BY <1>1 DEF KeyOf, ResolveClientIp, ConnectionIp, TopologyMatches
<1>2. CASE Proxies # <<>>
  <2>1. TrustProxy /\ NumTrustedProxies = Len(Proxies) /\ Len(Proxies) \in Nat \ {0}
    BY <1>2, ClientIpAssumptions DEF TopologyMatches
  <2> QED
    BY <1>2, <2>1, EntryTaken
<1> QED
  BY <1>1, <1>2

(* client_ip.py 20-30: as long as the settings trust no more proxies than     *)
(* there are, right or not about their number, what a client writes into the  *)
(* header changes nothing: trusting too few only counts clients together.     *)
THEOREM HeaderCannotChoose ==
    ASSUME TrustProxy => NumTrustedProxies <= Len(Proxies),
           NEW c \in Clients, NEW sent \in Seq(Clients), NEW other \in Seq(Clients)
    PROVE  KeyOf(c, sent) = KeyOf(c, other) /\ KeyOf(c, sent) \in Addresses
<1> USE ClientIpAssumptions
<1>1. Len(Proxies) \in Nat /\ (Proxies # <<>> => Len(Proxies) >= 1)
  OBVIOUS
<1>2. CASE TrustProxy /\ NumTrustedProxies >= 1
  <2>1. Proxies # <<>> /\ NumTrustedProxies \in 1..Len(Proxies)
    BY <1>1, <1>2
  <2>2. CASE NumTrustedProxies = Len(Proxies)
    BY <1>2, <2>1, <2>2, EntryTaken DEF Addresses
  <2>3. CASE NumTrustedProxies # Len(Proxies)
    <3>1. Len(Proxies) - NumTrustedProxies \in DOMAIN Proxies
      BY <1>1, <2>1, <2>3
    <3>2. KeyOf(c, sent) = Proxies[Len(Proxies) - NumTrustedProxies]
          /\ KeyOf(c, other) = Proxies[Len(Proxies) - NumTrustedProxies]
      BY <1>2, <2>1, <2>3, EntryTaken
    <3> QED
      BY <3>1, <3>2 DEF Addresses
  <2> QED
    BY <2>2, <2>3
<1>3. CASE ~(TrustProxy /\ NumTrustedProxies >= 1)
  <2>1. KeyOf(c, sent) = ConnectionIp(c) /\ KeyOf(c, other) = ConnectionIp(c)
    BY <1>3 DEF KeyOf, ResolveClientIp
  <2>2. ConnectionIp(c) \in Addresses
    BY <1>1 DEF ConnectionIp, Addresses
  <2> QED
    BY <2>1, <2>2
<1> QED
  BY <1>2, <1>3
--------------------------------------------------------------------------------
LEMMA ClientsAreAddresses == Clients \subseteq Addresses
  BY DEF Addresses

LEMMA AccountsAreCounters == Accounts \subseteq Counters
  BY ClientsAreAddresses DEF Accounts, Counters

(* A request beyond the limiter has one of the limited paths, and its counter *)
(* is the account of its client.                                              *)
LEMMA OwnCounter ==
    ASSUME TypeOK, KeyInv, UnderWay, NEW r \in Requests, pc[r] \in {"limited", "handler", "refused"}
    PROVE  /\ route[r] # "probe" /\ CounterOf(r) = AccountOf(r)
           /\ AccountOf(r) \in Accounts /\ AccountOf(r) \in Counters
<1>0. route[r] # "probe"
  BY DEF UnderWay
<1>1. route[r] \in Paths /\ client[r] \in Clients /\ key[r] = client[r] /\ route[r] # "probe"
  <2>1. route[r] \in Paths \cup {"probe"} /\ client[r] \in Clients
    BY DEF TypeOK
  <2> QED
    BY <1>0, <2>1 DEF KeyInv
<1>2. AccountOf(r) \in Accounts /\ CounterOf(r) = AccountOf(r)
  BY <1>1 DEF AccountOf, CounterOf, Accounts
<1> QED
  BY <1>1, <1>2, AccountsAreCounters

(* A counter after n hits.                                                    *)
LEMMA Counted ==
    ASSUME NEW h \in 0..Limit + 1, NEW n \in {1, 2}
    PROVE  /\ UpTo(h + n, Limit + 1) \in 0..Limit + 1
           /\ UpTo(h + n, Limit + 1) # 0
           /\ UpTo(h + n, Limit + 1) > Limit <=> ~(h + n <= Limit)
  BY RateLimitAssumptions DEF UpTo

CountersOK ==
    /\ hits \in [Counters -> 0..Limit + 1] /\ left \in [Counters -> 0..Window]
    /\ own \in [Accounts -> 0..Limit + 1]
    /\ \A k \in Counters : left[k] = 0 <=> hits[k] = 0
    /\ \A a \in Accounts : own[a] = hits[a]

LEMMA HitCounters ==
    ASSUME TypeOK, KeyInv, UnderWay, NEW r \in Requests, pc[r] = "limited",
           NEW n \in {1, 2}, AfterHits(r, n)
    PROVE  CountersOK' /\ own'[AccountOf(r)] = UpTo(hits[CounterOf(r)] + n, Limit + 1)
<1> USE RateLimitAssumptions
<1> DEFINE k == CounterOf(r)
           more == UpTo(hits[k] + n, Limit + 1)
<1>0. k \in Counters /\ k \in Accounts /\ k = AccountOf(r)
  BY OwnCounter
<1>1. own[k] = hits[k] /\ hits[k] \in 0..Limit + 1 /\ left[k] \in 0..Window
  BY <1>0 DEF TypeOK, KeyInv
<1>2. /\ hits' = [hits EXCEPT ![k] = more]
      /\ left' = [left EXCEPT ![k] = IF left[k] = 0 THEN Window ELSE left[k]]
      /\ own' = [own EXCEPT ![k] = more]
  BY <1>0, <1>1 DEF AfterHits
<1>3. more \in 0..Limit + 1 /\ more # 0
  BY <1>1, Counted
<1> HIDE DEF more, k
<1>4. (IF left[k] = 0 THEN Window ELSE left[k]) \in (0..Window) \ {0}
  BY <1>1
<1>5. /\ hits' \in [Counters -> 0..Limit + 1] /\ left' \in [Counters -> 0..Window]
      /\ own' \in [Accounts -> 0..Limit + 1]
  BY <1>0, <1>1, <1>2, <1>3, <1>4 DEF TypeOK
<1>6. /\ hits'[k] = more /\ own'[k] = more /\ left'[k] # 0
      /\ \A j \in Counters : j # k => hits'[j] = hits[j] /\ left'[j] = left[j]
      /\ \A j \in Accounts : j # k => own'[j] = own[j]
  <2>1. hits \in [Counters -> 0..Limit + 1] /\ left \in [Counters -> 0..Window]
        /\ own \in [Accounts -> 0..Limit + 1]
    BY DEF TypeOK
  <2>2. hits'[k] = more /\ \A j \in Counters : j # k => hits'[j] = hits[j]
    BY <1>0, <1>2, <2>1
  <2>3. own'[k] = more /\ \A j \in Accounts : j # k => own'[j] = own[j]
    BY <1>0, <1>2, <2>1
  <2>4. left'[k] # 0 /\ \A j \in Counters : j # k => left'[j] = left[j]
    BY <1>0, <1>2, <1>4, <2>1
  <2> QED
    BY <2>2, <2>3, <2>4
<1>7. \A j \in Counters : left'[j] = 0 <=> hits'[j] = 0
  <2>1. \A j \in Counters : left[j] = 0 <=> hits[j] = 0
    BY DEF TypeOK
  <2>2. ASSUME NEW j \in Counters PROVE left'[j] = 0 <=> hits'[j] = 0
    <3>1. CASE j = k
      BY <1>3, <1>6, <3>1
    <3>2. CASE j # k
      BY <1>6, <2>1, <3>2
    <3> QED
      BY <3>1, <3>2
  <2> QED
    BY <2>2
<1>8. \A j \in Accounts : own'[j] = hits'[j]
  BY <1>6, AccountsAreCounters DEF KeyInv
<1> QED
  BY <1>0, <1>5, <1>6, <1>7, <1>8 DEF CountersOK, more, k

(* The counters that expire are those whose window is over.                   *)
LEMMA ForgetCounters ==
    ASSUME TypeOK, KeyInv, NEW ks, Forget(ks),
           left' \in [Counters -> 0..Window],
           \A k \in Counters : left'[k] = 0 <=> left[k] = 0 \/ k \in ks
    PROVE  CountersOK'
<1> USE RateLimitAssumptions
<1>1. /\ hits' \in [Counters -> 0..Limit + 1] /\ own' \in [Accounts -> 0..Limit + 1]
  BY DEF Forget, TypeOK
<1>2. \A k \in Counters : hits'[k] = IF k \in ks THEN 0 ELSE hits[k]
  BY DEF Forget
<1>3. \A a \in Accounts : own'[a] = IF a \in ks THEN 0 ELSE own[a]
  BY DEF Forget
<1>4. \A k \in Counters : left'[k] = 0 <=> hits'[k] = 0
  BY <1>2 DEF TypeOK
<1>5. \A a \in Accounts : own'[a] = hits'[a]
  BY <1>2, <1>3, AccountsAreCounters DEF KeyInv
<1> QED
  BY <1>1, <1>4, <1>5 DEF CountersOK

LEMMA SameCounters ==
    ASSUME TypeOK, KeyInv, UNCHANGED <<hits, left, own>>
    PROVE  CountersOK'
  BY DEF TypeOK, KeyInv, CountersOK
--------------------------------------------------------------------------------
(* The other parts of the invariant, and how they make it up.                 *)
RequestsOK ==
    /\ pc \in [Requests -> {"idle", "exempt", "limited", "handler", "refused"}]
    /\ route \in [Requests -> Paths \cup {"probe"}]
    /\ client \in [Requests -> Clients]
    /\ key \in [Requests -> Addresses]
    /\ answer \in [Requests -> {0, 200, 429, 500}]
    /\ counted \in [Requests -> BOOLEAN] /\ outage \in [Requests -> BOOLEAN]
    /\ \A r \in Requests : key[r] = client[r]

RestOK ==
    /\ up \in BOOLEAN /\ restarts \in 0..MaxRestarts
    /\ admitted \in [Accounts -> [0..Window - 1 -> Nat]]

Parts == RequestsOK /\ CountersOK /\ RestOK /\ UnderWay /\ FailClosed

LEMMA InvIsItsParts == Inv <=> Parts
  BY DEF Inv, Parts, TypeOK, KeyInv, RequestsOK, CountersOK, RestOK

(* The steps of one request that leave the counters alone.                    *)
LEMMA ArriveStep ==
    ASSUME Parts, NEW r \in Requests, NEW path \in Paths \cup {"probe"},
           NEW c \in Clients, NEW sent \in Sent, Arrive(r, path, c, sent)
    PROVE  Parts'
<1>1. TypeOK /\ KeyInv
  BY InvIsItsParts DEF Inv
<1>2. CountersOK'
  <2>1. UNCHANGED <<hits, left, own>>
    BY DEF Arrive, redis
  <2> QED
    BY <1>1, <2>1, SameCounters
<1>3. RestOK'
  BY DEF Parts, RestOK, Arrive, redis
<1>4. KeyOf(c, sent) = c /\ c \in Addresses
  BY ClientIsItsKey, ClientsAreAddresses, RateLimitAssumptions
<1>5. /\ key' = [key EXCEPT ![r] = c] /\ client' = [client EXCEPT ![r] = c]
      /\ route' = [route EXCEPT ![r] = path]
      /\ pc[r] = "idle"
      /\ pc' = [pc EXCEPT ![r] = IF path = "probe" THEN "exempt" ELSE "limited"]
      /\ counted' = [counted EXCEPT ![r] = FALSE]
      /\ outage' = [outage EXCEPT ![r] = ~up] /\ up' = up /\ restarts' = restarts
      /\ answer' = [answer EXCEPT ![r] = 0]
  BY <1>4 DEF Arrive, Go, Exempt, Answer, redis
<1>6. RequestsOK'
  <2>1. outage' \in [Requests -> BOOLEAN]
    BY <1>5, Zenon DEF Parts, RequestsOK, RestOK
  <2>2. /\ pc' \in [Requests -> {"idle", "exempt", "limited", "handler", "refused"}]
        /\ route' \in [Requests -> Paths \cup {"probe"}]
        /\ client' \in [Requests -> Clients] /\ key' \in [Requests -> Addresses]
        /\ answer' \in [Requests -> {0, 200, 429, 500}]
        /\ counted' \in [Requests -> BOOLEAN]
    BY <1>4, <1>5 DEF Parts, RequestsOK
  <2>3. \A q \in Requests : key'[q] = client'[q]
    BY <1>4, <1>5 DEF Parts, RequestsOK
  <2> QED
    BY <2>1, <2>2, <2>3 DEF RequestsOK
<1>7. UnderWay'
  <2>1. \A q \in Requests : q # r =>
            pc'[q] = pc[q] /\ route'[q] = route[q] /\ outage'[q] = outage[q]
    BY <1>5 DEF Parts, RequestsOK
  <2>2. outage'[r] = ~up
    <3>1. outage' = [outage EXCEPT ![r] = ~up] /\ outage \in [Requests -> BOOLEAN]
      BY <1>5 DEF Parts, RequestsOK
    <3> QED
      BY <3>1, Zenon
  <2>3. route'[r] = "probe" => pc'[r] = "exempt"
    BY <1>5 DEF Parts, RequestsOK
  <2>4. \A q \in Requests : route'[q] = "probe" => pc'[q] \in {"idle", "exempt"}
    BY <2>1, <2>3 DEF Parts, UnderWay
  <2>5. ASSUME ~up, NEW q \in Requests, pc'[q] # "idle" PROVE outage'[q]
    <3>1. CASE q = r
      BY <2>2, <2>5, <3>1, Zenon
    <3>2. CASE q # r
      <4>1. pc[q] # "idle" /\ outage'[q] = outage[q]
        BY <2>1, <2>5, <3>2, Zenon
      <4>2. outage[q]
        BY <2>5, <4>1, Zenon DEF Parts, UnderWay
      <4> QED
        BY <4>1, <4>2, Zenon
    <3> QED
      BY <3>1, <3>2
  <2> QED
    BY <1>5, <2>4, <2>5 DEF Parts, UnderWay
<1>8. FailClosed'
  BY <1>5 DEF Parts, FailClosed, UnderWay, RequestsOK
<1> QED
  BY <1>2, <1>3, <1>6, <1>7, <1>8 DEF Parts

LEMMA AnswerStep ==
    ASSUME Parts, NEW r \in Requests,
           HitFails(r) \/ Serve(r) \/ Refuse(r) \/ Inject(r)
    PROVE  Parts'
<1>1. TypeOK /\ KeyInv
  BY InvIsItsParts DEF Inv
<1>2. CountersOK'
  <2>1. UNCHANGED <<hits, left, own>>
    BY DEF HitFails, Serve, Refuse, Inject, redis
  <2> QED
    BY <1>1, <2>1, SameCounters
<1>3. RestOK'
  BY DEF Parts, RestOK, HitFails, Serve, Refuse, Inject, redis
<1>4. /\ UNCHANGED <<route, client, key, counted, outage, up, restarts>>
      /\ pc[r] # "idle" /\ pc' = [pc EXCEPT ![r] = "idle"]
  BY DEF HitFails, FailsClosed, Serve, Refuse, Inject, Go, request, redis
<1>5. PICK status \in {200, 429, 500} :
          /\ answer' = [answer EXCEPT ![r] = status]
          /\ status = 500 => ~up
          /\ pc[r] = "exempt" => status = 200
  BY DEF HitFails, FailsClosed, Serve, Refuse, Inject, Go, Answer, redis
<1>6. RequestsOK'
  BY <1>4, <1>5 DEF Parts, RequestsOK
<1>7. UnderWay'
  BY <1>4 DEF Parts, UnderWay, RequestsOK
<1>8. FailClosed'
  <2>1. \A q \in Requests : q # r => pc'[q] = pc[q] /\ answer'[q] = answer[q]
    BY <1>4, <1>5 DEF Parts, RequestsOK
  <2>2. pc'[r] = "idle" /\ answer'[r] = status
    BY <1>4, <1>5 DEF Parts, RequestsOK
  <2>3. status = 500 => outage[r]
    BY <1>4, <1>5 DEF Parts, UnderWay
  <2>4. route[r] = "probe" => status = 200
    BY <1>4, <1>5 DEF Parts, UnderWay
  <2> QED
    BY <1>4, <2>1, <2>2, <2>3, <2>4 DEF Parts, FailClosed
<1> QED
  BY <1>2, <1>3, <1>6, <1>7, <1>8 DEF Parts

LEMMA HitStep ==
    ASSUME Parts, NEW r \in Requests, NEW n \in {1, 2}, Hit(r, n)
    PROVE  Parts'
<1>1. TypeOK /\ KeyInv
  BY InvIsItsParts DEF Inv
<1>2. CountersOK'
  BY <1>1, HitCounters DEF Hit, Parts
<1>3. PICK to \in {"handler", "refused"} : pc[r] = "limited" /\ pc' = [pc EXCEPT ![r] = to]
  BY DEF Hit, Go
<1>4. /\ counted' = [counted EXCEPT ![r] = TRUE]
      /\ UNCHANGED <<route, client, key, answer, up, restarts, outage>>
  BY DEF Hit
<1>5. admitted' \in [Accounts -> [0..Window - 1 -> Nat]]
  <2> DEFINE a == AccountOf(r)
  <2>1. CASE Fits(CounterOf(r), n)
    <3>1. admitted' = [admitted EXCEPT ![a][0] = @ + 1]
      BY <2>1 DEF Hit
    <3>2. a \in Accounts
      BY <1>1, OwnCounter DEF Parts, Hit
    <3> HIDE DEF a
    <3>3. admitted[a] \in [0..Window - 1 -> Nat]
      BY <1>1, <3>2 DEF TypeOK
    <3>4. [admitted[a] EXCEPT ![0] = @ + 1] \in [0..Window - 1 -> Nat]
      BY <3>3, RateLimitAssumptions
    <3> QED
      BY <1>1, <3>1, <3>2, <3>4 DEF TypeOK
  <2>2. CASE ~Fits(CounterOf(r), n)
    BY <1>1, <2>2 DEF Hit, TypeOK
  <2> QED
    BY <2>1, <2>2
<1>6. RequestsOK'
  BY <1>3, <1>4 DEF Parts, RequestsOK
<1>7. route[r] # "probe"
  BY <1>3 DEF Parts, UnderWay, RequestsOK
<1>8. UnderWay'
  BY <1>3, <1>4, <1>7 DEF Parts, UnderWay, RequestsOK
<1>9. FailClosed'
  BY <1>3, <1>4, <1>7 DEF Parts, FailClosed, RequestsOK
<1> QED
  BY <1>2, <1>4, <1>5, <1>6, <1>8, <1>9 DEF Parts, RestOK

(* Redis does not answer in time.                                             *)
LEMMA TimeoutStep ==
    ASSUME Parts, NEW r \in Requests, HitTimesOut(r) \/ InjectFails(r)
    PROVE  Parts'
<1>1. TypeOK /\ KeyInv
  BY InvIsItsParts DEF Inv
<1>2. CountersOK'
  <2>1. CASE HitTimesOut(r)
    <3>1. pc[r] = "limited" /\ AfterHits(r, 1)
      BY <2>1 DEF HitTimesOut, FailsClosed, Go
    <3>2. 1 \in {1, 2} /\ UnderWay
      BY DEF Parts
    <3> QED
      BY <1>1, <3>1, <3>2, HitCounters
  <2>2. CASE InjectFails(r)
    <3>1. UNCHANGED <<hits, left, own>>
      BY <2>2 DEF InjectFails, redis
    <3> QED
      BY <1>1, <3>1, SameCounters
  <2> QED
    BY <2>1, <2>2
<1>3. /\ pc[r] \in {"limited", "handler"} /\ pc' = [pc EXCEPT ![r] = "idle"]
      /\ answer' = [answer EXCEPT ![r] = 500]
      /\ outage' = [outage EXCEPT ![r] = TRUE]
      /\ UNCHANGED <<route, client, key, counted, up, restarts, admitted>>
  BY DEF HitTimesOut, InjectFails, FailsClosed, Go, Answer, request, redis
<1>4. RequestsOK'
  BY <1>3 DEF Parts, RequestsOK
<1>5. route[r] # "probe"
  BY <1>3 DEF Parts, UnderWay, RequestsOK
<1>6. UnderWay'
  BY <1>3 DEF Parts, UnderWay, RequestsOK
<1>7. FailClosed'
  BY <1>3, <1>5 DEF Parts, FailClosed, RequestsOK
<1> QED
  BY <1>2, <1>3, <1>4, <1>6, <1>7 DEF Parts, RestOK

LEMMA TickStep ==
    ASSUME Parts, Tick
    PROVE  Parts'
<1>1. TypeOK /\ KeyInv
  BY InvIsItsParts DEF Inv
<1>2. left' \in [Counters -> 0..Window]
  BY <1>1, RateLimitAssumptions DEF Tick, TypeOK
<1>3. CountersOK'
  <2> DEFINE ks == {k \in Counters : left'[k] = 0}
  <2>1. Forget(ks)
    BY DEF Tick
  <2>2. \A k \in Counters : left'[k] = 0 <=> left[k] = 0 \/ k \in ks
    BY DEF Tick
  <2> HIDE DEF ks
  <2> QED
    BY <1>1, <1>2, <2>1, <2>2, ForgetCounters
<1>4. admitted' \in [Accounts -> [0..Window - 1 -> Nat]]
  BY <1>1, RateLimitAssumptions DEF Tick, TypeOK
<1>5. UNCHANGED <<pc, answer, route, client, key, counted, up, restarts, outage>>
  BY DEF Tick, request
<1> QED
  BY <1>3, <1>4, <1>5 DEF Parts, RequestsOK, RestOK, UnderWay, FailClosed

LEMMA RedisStep ==
    ASSUME Parts, RedisStops \/ RedisStarts
    PROVE  Parts'
<1>1. TypeOK /\ KeyInv
  BY InvIsItsParts DEF Inv
<1>2. UNCHANGED <<pc, answer, route, client, key, counted, admitted>>
  BY DEF RedisStops, RedisStarts, request
<1>3. CASE RedisStops
  <2>1. left' = [k \in Counters |-> 0] /\ Forget(Counters)
        /\ outage' = [r \in Requests |-> outage[r] \/ pc[r] # "idle"] /\ restarts' = restarts /\ up' = FALSE
        /\ restarts < MaxRestarts
    BY <1>3 DEF RedisStops
  <2>2. CountersOK'
    <3>1. left' \in [Counters -> 0..Window]
      BY <2>1, RateLimitAssumptions
    <3>2. \A k \in Counters : left'[k] = 0 <=> left[k] = 0 \/ k \in Counters
      BY <2>1
    <3> QED
      BY <1>1, <2>1, <3>1, <3>2, ForgetCounters
  <2>3. RequestsOK'
    <3>1. outage' \in [Requests -> BOOLEAN]
      BY <2>1
    <3> QED
      BY <1>2, <3>1 DEF Parts, RequestsOK
  <2>4. RestOK'
    BY <1>2, <2>1 DEF Parts, RestOK
  <2>5. \A r \in Requests : outage[r] \/ pc[r] # "idle" => outage'[r]
    BY <2>1, Zenon
  <2>6. UnderWay' /\ FailClosed'
    BY <1>2, <2>1, <2>5 DEF Parts, UnderWay, FailClosed
  <2> QED
    BY <2>2, <2>3, <2>4, <2>6 DEF Parts
<1>4. CASE RedisStarts
  <2>1. UNCHANGED <<hits, left, own, outage>> /\ up' = TRUE
    BY <1>4 DEF RedisStarts
  <2>2. CountersOK'
    BY <1>1, <2>1, SameCounters
  <2>3. restarts' \in 0..MaxRestarts
    BY <1>4, RateLimitAssumptions DEF RedisStarts, Parts, UnderWay, RestOK
  <2> QED
    BY <1>2, <2>1, <2>2, <2>3 DEF Parts, RequestsOK, RestOK, UnderWay, FailClosed
<1> QED
  BY <1>3, <1>4
--------------------------------------------------------------------------------
LEMMA InvInit == Init => Inv
<1> SUFFICES ASSUME Init PROVE Parts
  BY InvIsItsParts
<1> USE RateLimitAssumptions
<1>1. RequestsOK
  BY ClientsAreAddresses DEF Init, RequestsOK
<1>2. CountersOK
  BY AccountsAreCounters DEF Init, CountersOK
<1>3. RestOK
  BY DEF Init, RestOK
<1>4. UnderWay /\ FailClosed
  BY DEF Init, UnderWay, FailClosed
<1> QED
  BY <1>1, <1>2, <1>3, <1>4 DEF Parts

LEMMA InvNext == Inv /\ [Next]_vars => Inv'
<1> SUFFICES ASSUME Parts, [Next]_vars PROVE Parts'
  BY DEF Inv, Parts, TypeOK, KeyInv, RequestsOK, CountersOK, RestOK
<1>1. CASE UNCHANGED vars
  BY <1>1 DEF vars, request, redis, Parts, RequestsOK, CountersOK, RestOK, UnderWay, FailClosed
<1>2. ASSUME NEW r \in Requests, NEW path \in Paths \cup {"probe"}, NEW c \in Clients,
             NEW sent \in Sent, Arrive(r, path, c, sent)
      PROVE  Parts'
  BY <1>2, ArriveStep
<1>3. ASSUME NEW r \in Requests, NEW n \in {1, 2}, Hit(r, n) PROVE Parts'
  BY <1>3, HitStep
<1>4. ASSUME NEW r \in Requests, HitFails(r) \/ Serve(r) \/ Refuse(r) \/ Inject(r)
      PROVE  Parts'
  BY <1>4, AnswerStep
<1>5. ASSUME NEW r \in Requests, HitTimesOut(r) \/ InjectFails(r) PROVE Parts'
  BY <1>5, TimeoutStep
<1>6. CASE Tick \/ RedisStops \/ RedisStarts
  BY <1>6, TickStep, RedisStep
<1> QED
  BY <1>1, <1>2, <1>3, <1>4, <1>5, <1>6 DEF Next

LEMMA InvHolds == Spec => []Inv
  BY InvInit, InvNext, PTL DEF Spec

(* Everything has its type; above all, a counter is there exactly as long as  *)
(* its expiry is: none is ever left behind to count for good.                 *)
THEOREM TypeCorrect == Spec => []TypeOK
  BY InvHolds, PTL DEF Inv

(* limiter.py 34-36: no limited request reaches its handler uncounted, a 500  *)
(* means that Redis failed while the request ran, and the probes never meet   *)
(* the limiter.                                                               *)
THEOREM ClosedWithoutRedis == Spec => []FailClosed
  BY InvHolds, PTL DEF Inv

(* A client is refused for its own hits on the path alone, whatever others    *)
(* write into their headers.                                                  *)
THEOREM OwnHitsOnly == Spec => RefusedForOwnHits
<1>1. Inv /\ [Next]_vars =>
          [\A r \in Requests : pc[r] # "refused" /\ pc'[r] = "refused" =>
               own'[AccountOf(r)] > Limit]_vars
  <2> SUFFICES ASSUME Inv, Next, NEW r \in Requests, pc[r] # "refused", pc'[r] = "refused"
               PROVE  own'[AccountOf(r)] > Limit
    BY DEF vars, request
  <2>1. TypeOK /\ KeyInv /\ UnderWay
    BY DEF Inv
  <2>2. PICK n \in {1, 2} : Hit(r, n)
    <3>1. ASSUME NEW q \in Requests, NEW path \in Paths \cup {"probe"}, NEW c \in Clients,
                 NEW sent \in Sent, Arrive(q, path, c, sent)
          PROVE  FALSE
      BY <2>1, <3>1 DEF Arrive, Go, Exempt, TypeOK
    <3>2. ASSUME NEW q \in Requests,
                 HitFails(q) \/ HitTimesOut(q) \/ Serve(q) \/ Refuse(q) \/ Inject(q) \/ InjectFails(q)
          PROVE  FALSE
      BY <2>1, <3>2 DEF HitFails, HitTimesOut, FailsClosed, Serve, Refuse, Inject, InjectFails,
                             Go, TypeOK
    <3>3. ASSUME Tick \/ RedisStops \/ RedisStarts PROVE FALSE
      BY <3>3 DEF Tick, RedisStops, RedisStarts
    <3>4. PICK q \in Requests, n \in {1, 2} : Hit(q, n)
      BY <3>1, <3>2, <3>3 DEF Next
    <3>5. q = r
      BY <2>1, <3>4 DEF Hit, Go, TypeOK
    <3> QED
      BY <3>4, <3>5
  <2>3. ~Fits(CounterOf(r), n)
    BY <2>1, <2>2 DEF Hit, Go, TypeOK
  <2>4. own'[AccountOf(r)] = UpTo(hits[CounterOf(r)] + n, Limit + 1)
    BY <2>1, <2>2, HitCounters DEF Hit
  <2>5. CounterOf(r) \in Counters
    BY <2>1, <2>2, OwnCounter DEF Hit
  <2>6. hits[CounterOf(r)] \in 0..Limit + 1
    BY <2>1, <2>5 DEF TypeOK
  <2> QED
    BY <2>3, <2>4, <2>6, Counted DEF Fits
<1> QED
  BY <1>1, InvHolds, PTL DEF Spec, RefusedForOwnHits
--------------------------------------------------------------------------------
(* Induction over the naturals, by the least element of a set of them: the    *)
(* library's NatInduction takes an operator, which no prover here can give.   *)
LEMMA LeastNat ==
    ASSUME NEW T, T \subseteq Nat, T # {}
    PROVE  \E n \in T : \A m \in T : n <= m
<1> DEFINE R == OpToRel(<, Nat)
<1>1. IsWellFoundedOn(R, Nat)
  BY NatLessThanWellFounded, Zenon
<1>2. \A m, n \in Nat : <<m, n>> \in R <=> m < n
  BY DEF OpToRel
<1> HIDE DEF R
<1>3. PICK n \in T : \A m \in T : ~ (<<m, n>> \in R)
  BY <1>1, WFMin
<1>4. ASSUME NEW m \in T PROVE n <= m
  <2>1. n \in Nat /\ m \in Nat
    OBVIOUS
  <2>2. ~(<<m, n>> \in R)
    BY <1>3
  <2>3. ~(m < n)
    BY <1>2, <2>1, <2>2, Zenon
  <2> QED
    BY <2>1, <2>3
<1> QED
  BY <1>4

LEMMA SetInduction ==
    ASSUME NEW G, 0 \in G, \A n \in Nat : n \in G => n + 1 \in G
    PROVE  \A n \in Nat : n \in G
<1> SUFFICES ASSUME Nat \ G # {} PROVE FALSE
  OBVIOUS
<1>1. PICK n \in Nat \ G : \A m \in Nat \ G : n <= m
  BY LeastNat
<1>2. n # 0 /\ n - 1 \in Nat /\ n - 1 \notin G
  BY <1>1
<1> QED
  BY <1>1, <1>2

(* SumFunction is a recursion over the subsets of its argument's domain that  *)
(* takes an element out at each step; such a recursion exists, and which      *)
(* element it takes does not matter.                                          *)
Some(s) == CHOOSE x \in s : TRUE
Plus(f, h, s) == IF s = {} THEN 0 ELSE f[Some(s)] + h[s \ {Some(s)}]
Adds(f, h) == h = [s \in SUBSET DOMAIN f |-> Plus(f, h, s)]

LEMMA SumUnfolds == ASSUME NEW f PROVE SumFunction(f) = (CHOOSE h : Adds(f, h))[DOMAIN f]
  BY DEF SumFunction, SumFunctionOnSet, FoldFunctionOnSet, MapThenFoldSet, Adds, Plus, Some

LEMMA SomeIn == ASSUME NEW s, s # {} PROVE Some(s) \in s
  BY DEF Some

LEMMA Smaller ==
    ASSUME NEW D, IsFiniteSet(D), NEW s \in SUBSET D, NEW x \in s
    PROVE  /\ s \ {x} \in SUBSET D /\ IsFiniteSet(s) /\ Cardinality(s) \in Nat
           /\ Cardinality(s \ {x}) = Cardinality(s) - 1 /\ Cardinality(s \ {x}) \in Nat
<1>1. IsFiniteSet(s)
  BY FS_Subset
<1>2. IsFiniteSet(s \ {x}) /\ Cardinality(s \ {x}) = Cardinality(s) - 1
  BY <1>1, FS_RemoveElement
<1> QED
  BY <1>1, <1>2, FS_CardinalityType

LEMMA SumExists ==
    ASSUME NEW f, IsFiniteSet(DOMAIN f)
    PROVE  \E h : Adds(f, h)
<1> DEFINE D == DOMAIN f
           Upto(h, n) == \A s \in SUBSET D : Cardinality(s) < n => h[s] = Plus(f, h, s)
           G == {n \in Nat : \E h : Upto(h, n)}
<1>1. 0 \in G
  <2>1. ASSUME NEW s \in SUBSET D PROVE ~(Cardinality(s) < 0)
    <3>1. Cardinality(s) \in Nat
      BY FS_Subset, FS_CardinalityType
    <3> QED
      BY <3>1
  <2> QED
    BY <2>1
<1>2. ASSUME NEW n \in Nat, n \in G PROVE n + 1 \in G
  <2>1. PICK h : Upto(h, n)
    BY <1>2
  <2> DEFINE next == [s \in SUBSET D |-> Plus(f, h, s)]
  <2>2. ASSUME NEW s \in SUBSET D, Cardinality(s) < n + 1 PROVE next[s] = Plus(f, next, s)
    <3>1. CASE s = {}
      BY <3>1 DEF Plus
    <3>2. CASE s # {}
      <4>1. PICK x \in s : x = Some(s)
        BY <3>2, SomeIn
      <4>2. /\ s \ {x} \in SUBSET D /\ Cardinality(s) \in Nat
            /\ Cardinality(s \ {x}) = Cardinality(s) - 1
        BY Smaller
      <4>3. Cardinality(s \ {x}) < n
        BY <2>2, <4>2
      <4>4. h[s \ {x}] = Plus(f, h, s \ {x})
        BY <2>1, <4>2, <4>3
      <4>5. next[s \ {x}] = h[s \ {x}]
        BY <4>2, <4>4
      <4> HIDE DEF next
      <4>6. Plus(f, next, s) = Plus(f, h, s)
        BY <3>2, <4>1, <4>5 DEF Plus
      <4> QED
        BY <4>6 DEF next
    <3> QED
      BY <3>1, <3>2
  <2>3. Upto(next, n + 1)
    BY <2>2
  <2> HIDE DEF Upto, next
  <2> QED
    BY <2>3
<1> HIDE DEF G
<1>3. \A n \in Nat : n \in G
  BY <1>1, <1>2, SetInduction
<1> USE DEF G
<1>4. Cardinality(D) \in Nat
  BY FS_CardinalityType
<1>5. PICK h : Upto(h, Cardinality(D) + 1)
  BY <1>3, <1>4
<1> DEFINE all == [s \in SUBSET D |-> h[s]]
<1>6. ASSUME NEW s \in SUBSET D PROVE all[s] = Plus(f, all, s)
  <2>1. Cardinality(s) <= Cardinality(D) /\ Cardinality(s) \in Nat
    BY FS_Subset, FS_CardinalityType
  <2>2. h[s] = Plus(f, h, s)
    BY <1>4, <1>5, <2>1
  <2>3. Plus(f, all, s) = Plus(f, h, s)
    <3>1. CASE s = {}
      BY <3>1 DEF Plus
    <3>2. CASE s # {}
      <4>1. Some(s) \in s /\ s \ {Some(s)} \in SUBSET D
        BY <3>2, SomeIn
      <4> QED
        BY <4>1 DEF Plus
    <3> QED
      BY <3>1, <3>2
  <2> QED
    BY <2>2, <2>3
<1>7. all = [s \in SUBSET D |-> Plus(f, all, s)]
  <2> HIDE DEF Upto
  <2>1. all = [s \in SUBSET D |-> all[s]]
    OBVIOUS
  <2> HIDE DEF all
  <2> QED
    BY <1>6, <2>1
<1> QED
  BY <1>7 DEF Adds

OfNaturals(f) == IsFiniteSet(DOMAIN f) /\ \A x \in DOMAIN f : f[x] \in Nat
TakesOut(f, h) ==
    \A s \in SUBSET DOMAIN f : h[s] \in Nat /\ \A x \in s : h[s] = f[x] + h[s \ {x}]

LEMMA SumTakesOut ==
    ASSUME NEW f, OfNaturals(f), NEW h, Adds(f, h)
    PROVE  TakesOut(f, h)
<1>0. IsFiniteSet(DOMAIN f) /\ \A x \in DOMAIN f : f[x] \in Nat
  BY DEF OfNaturals
<1> DEFINE D == DOMAIN f
           Sound(s) == h[s] \in Nat /\ \A x \in s : h[s] = f[x] + h[s \ {x}]
           G == {n \in Nat : \A s \in SUBSET D : Cardinality(s) <= n => Sound(s)}
<1>1. \A s \in SUBSET D : h[s] = Plus(f, h, s) /\ Cardinality(s) \in Nat
  <2>1. \A s \in SUBSET D : Cardinality(s) \in Nat
    BY <1>0, FS_Subset, FS_CardinalityType
  <2> QED
    BY <2>1 DEF Adds
<1>2. 0 \in G
  <2>1. ASSUME NEW s \in SUBSET D, Cardinality(s) <= 0 PROVE Sound(s)
    <3>1. Cardinality(s) = 0 /\ IsFiniteSet(s)
      BY <1>0, <1>1, <2>1, FS_Subset
    <3>2. s = {}
      BY <3>1, FS_EmptySet
    <3>3. h[s] = 0
      BY <1>1, <3>2 DEF Plus
    <3> QED
      BY <3>2, <3>3
  <2> QED
    BY <2>1
<1>3. ASSUME NEW n \in Nat, n \in G PROVE n + 1 \in G
  <2>1. ASSUME NEW s \in SUBSET D, Cardinality(s) = n + 1 PROVE Sound(s)
    <3>1. s # {}
      BY <2>1, FS_EmptySet
    <3>2. PICK y \in s : y = Some(s)
      BY <3>1, SomeIn
    <3>3. h[s] = f[y] + h[s \ {y}]
      BY <1>1, <3>1, <3>2 DEF Plus
    <3>4. ASSUME NEW x \in s PROVE s \ {x} \in SUBSET D /\ Cardinality(s \ {x}) <= n
      BY <1>0, <2>1, Smaller
    <3>5. \A x \in s : Sound(s \ {x})
      BY <1>3, <3>4
    <3>6. \A x \in s : f[x] \in Nat
      BY <1>0
    <3>7. h[s] \in Nat
      <4>1. h[s \ {y}] \in Nat
        BY <3>2, <3>5
      <4>2. f[y] \in Nat
        BY <3>2, <3>6
      <4> QED
        BY <3>3, <4>1, <4>2
    <3>8. ASSUME NEW x \in s, x # y PROVE h[s] = f[x] + h[s \ {x}]
      <4>1. h[s \ {y}] = f[x] + h[(s \ {x}) \ {y}]
        <5>1. h[s \ {y}] = f[x] + h[(s \ {y}) \ {x}]
          BY <3>5, <3>8
        <5>2. (s \ {y}) \ {x} = (s \ {x}) \ {y}
          OBVIOUS
        <5> QED
          BY <5>1, <5>2
      <4>2. h[s \ {x}] = f[y] + h[(s \ {x}) \ {y}]
        BY <3>5, <3>8
      <4>3. h[(s \ {x}) \ {y}] \in Nat
        <5>1. s \ {x} \in SUBSET D /\ y \in s \ {x} /\ Cardinality(s \ {x}) <= n
          BY <3>4, <3>8
        <5>2. /\ (s \ {x}) \ {y} \in SUBSET D
              /\ Cardinality((s \ {x}) \ {y}) = Cardinality(s \ {x}) - 1
              /\ Cardinality(s \ {x}) \in Nat
          BY <1>0, <5>1, Smaller
        <5>3. Cardinality((s \ {x}) \ {y}) <= n
          BY <5>1, <5>2
        <5> QED
          BY <1>3, <5>2, <5>3
      <4>4. f[x] \in Nat /\ f[y] \in Nat
        BY <3>6
      <4> QED
        BY <3>3, <4>1, <4>2, <4>3, <4>4
    <3> QED
      BY <3>3, <3>7, <3>8
  <2>2. ASSUME NEW s \in SUBSET D, Cardinality(s) <= n + 1 PROVE Sound(s)
    <3>1. Cardinality(s) <= n \/ Cardinality(s) = n + 1
      BY <1>1, <2>2
    <3> QED
      BY <1>3, <2>1, <3>1
  <2> QED
    BY <2>2
<1> HIDE DEF G
<1>4. \A n \in Nat : n \in G
  BY <1>2, <1>3, SetInduction
<1> USE DEF G
<1>5. ASSUME NEW s \in SUBSET D PROVE Sound(s)
  <2>1. Cardinality(s) \in Nat /\ Cardinality(s) <= Cardinality(s)
    BY <1>1
  <2> QED
    BY <1>4, <2>1
<1> QED
  BY <1>5 DEF TakesOut

(* The sum of a finite sequence of naturals is the last of its prefix sums.   *)
PrefixSums(f, n, g) ==
    /\ g \in [0..n -> Nat] /\ g[0] = 0
    /\ \A k \in 0..n - 1 : g[k + 1] = g[k] + f[k]

LEMMA SumIsLast ==
    ASSUME NEW n \in Nat, NEW f \in [0..n - 1 -> Nat], NEW g, PrefixSums(f, n, g)
    PROVE  SumFunction(f) = g[n]
<1>1. IsFiniteSet(DOMAIN f)
  <2>1. 0 \in Int /\ n - 1 \in Int
    OBVIOUS
  <2>2. DOMAIN f = 0..n - 1
    OBVIOUS
  <2> QED
    BY <2>1, <2>2, FS_Interval
<1>2. \A x \in DOMAIN f : f[x] \in Nat
  OBVIOUS
<1>3. PICK h : Adds(f, h) /\ SumFunction(f) = h[DOMAIN f]
  <2>1. \E h : Adds(f, h)
    BY <1>1, SumExists, Zenon
  <2> DEFINE h == CHOOSE x : Adds(f, x)
  <2>2. Adds(f, h)
    BY <2>1, Zenon
  <2>3. SumFunction(f) = h[DOMAIN f]
    BY SumUnfolds, Zenon
  <2> HIDE DEF h
  <2> QED
    BY <2>2, <2>3, Zenon
<1>4. TakesOut(f, h)
  BY <1>1, <1>2, <1>3, SumTakesOut DEF OfNaturals
<1> DEFINE G == {k \in Nat : k <= n => h[0..k - 1] = g[k]}
<1>5. 0 \in G
  <2>1. 0..0 - 1 = {}
    OBVIOUS
  <2>2. h[{}] = 0
    BY <1>3 DEF Adds, Plus
  <2> QED
    BY <2>1, <2>2 DEF PrefixSums
<1>6. ASSUME NEW k \in Nat, k \in G PROVE k + 1 \in G
  <2> SUFFICES ASSUME k + 1 <= n PROVE h[0..(k + 1) - 1] = g[k + 1]
    OBVIOUS
  <2>1. 0..(k + 1) - 1 \in SUBSET DOMAIN f /\ k \in 0..(k + 1) - 1
        /\ (0..(k + 1) - 1) \ {k} = 0..k - 1
    OBVIOUS
  <2>2. h[0..(k + 1) - 1] = f[k] + h[0..k - 1]
    BY <1>4, <2>1 DEF TakesOut
  <2>3. h[0..k - 1] = g[k] /\ g[k + 1] = g[k] + f[k] /\ g[k] \in Nat /\ f[k] \in Nat
    BY <1>6 DEF PrefixSums
  <2> QED
    BY <2>2, <2>3
<1> HIDE DEF G
<1>7. n \in G
  BY <1>5, <1>6, SetInduction
<1>8. h[0..n - 1] = g[n]
  BY <1>7 DEF G
<1> QED
  BY <1>3, <1>8

--------------------------------------------------------------------------------
(* At most Allowance of what an account had admitted in the last Window ticks   *)
(* is older than its present counter; the prefix that counter covers is       *)
(* within what it counted.                                                    *)
Within(g, h, l, b) ==
    IF l = 0 THEN g[Window] <= b
    ELSE g[Window - l] <= UpTo(h, Limit) /\ g[Window] <= UpTo(h, Limit) + b
Backlog(a, h, l, b) == \E g : PrefixSums(a, Window, g) /\ Within(g, h, l, b)

Lost == restarts + (IF up THEN 0 ELSE 1)
Allowance == (1 + Lost) * Limit
BacklogInv == \A a \in Accounts : Backlog(admitted[a], hits[a], left[a], Allowance)

Ages == [0..Window - 1 -> Nat]
Started(l) == IF l = 0 THEN Window ELSE l

LEMMA PrefixOfAges ==
    ASSUME NEW a \in Ages, NEW g, PrefixSums(a, Window, g)
    PROVE  /\ g \in [0..Window -> Nat] /\ g[0] = 0 /\ g[Window] \in Nat
           /\ \A k \in 0..Window - 1 : /\ k \in 0..Window /\ k + 1 \in 0..Window
                                       /\ g[k] \in Nat /\ a[k] \in Nat /\ g[k + 1] = g[k] + a[k]
  BY RateLimitAssumptions DEF PrefixSums, Ages

(* A hit that is admitted.                                                    *)
LEMMA BacklogAdmits ==
    ASSUME NEW a \in Ages, NEW h \in Nat, NEW l \in 0..Window, NEW b \in Nat, NEW more \in Nat,
           h < more, more <= Limit, Backlog(a, h, l, b)
    PROVE  Backlog([a EXCEPT ![0] = @ + 1], more, Started(l), b)
<1> USE RateLimitAssumptions
<1>1. PICK g : PrefixSums(a, Window, g) /\ Within(g, h, l, b)
  BY DEF Backlog
<1> DEFINE a2 == [a EXCEPT ![0] = @ + 1]
           g2 == [k \in 0..Window |-> IF k = 0 THEN 0 ELSE g[k] + 1]
<1>2. /\ g \in [0..Window -> Nat] /\ g[0] = 0 /\ g[Window] \in Nat
      /\ \A k \in 0..Window - 1 : g[k] \in Nat /\ a[k] \in Nat /\ g[k + 1] = g[k] + a[k]
  BY <1>1, PrefixOfAges
<1>3. PrefixSums(a2, Window, g2)
  <2>1. g2 \in [0..Window -> Nat] /\ g2[0] = 0
    BY <1>2
  <2>2. a2[0] = a[0] + 1 /\ \A k \in 0..Window - 1 : k # 0 => a2[k] = a[k]
    BY DEF Ages
  <2> HIDE DEF a2
  <2>3. ASSUME NEW k \in 0..Window - 1 PROVE g2[k + 1] = g2[k] + a2[k]
    <3>1. g2[k + 1] = g[k + 1] + 1 /\ g[k + 1] = g[k] + a[k] /\ g[k] \in Nat /\ a[k] \in Nat
      BY <1>2
    <3>2. CASE k = 0
      <4>1. g2[k] = 0 /\ g[k] = 0 /\ a2[k] = a[k] + 1
        BY <1>2, <2>1, <2>2, <3>2
      <4> HIDE DEF g2
      <4> QED
        BY <3>1, <4>1
    <3>3. CASE k # 0
      <4>1. g2[k] = g[k] + 1 /\ a2[k] = a[k]
        BY <2>2, <3>3
      <4> HIDE DEF g2
      <4> QED
        BY <3>1, <4>1
    <3> QED
      BY <3>2, <3>3
  <2> QED
    BY <2>1, <2>3 DEF PrefixSums
<1>4. g2[0] = 0 /\ \A k \in 0..Window : k # 0 => g2[k] = g[k] + 1
  OBVIOUS
<1> HIDE DEF g2, a2
<1>5. UpTo(h, Limit) = h /\ UpTo(more, Limit) = more
  BY DEF UpTo
<1>6. Within(g2, more, Started(l), b)
  <2>1. CASE l = 0
    BY <1>1, <1>2, <1>4, <1>5, <2>1 DEF Within, Started
  <2>2. CASE l # 0
    <3>1. Window - l \in 0..Window - 1 /\ g[Window - l] \in Nat
      BY <1>2, <2>2
    <3>2. g2[Window] = g[Window] + 1
      BY <1>4
    <3>3. g[Window - l] <= h /\ g[Window] <= h + b
      BY <1>1, <1>5, <2>2 DEF Within
    <3>4. g2[Window - l] <= more /\ g2[Window] <= more + b
      <4>1. g2[Window - l] = 0 \/ g2[Window - l] = g[Window - l] + 1
        BY <1>4, <3>1
      <4>2. g2[Window] <= more + b
        BY <1>2, <3>2, <3>3
      <4>3. g2[Window - l] <= more
        BY <3>1, <3>3, <4>1
      <4> QED
        BY <4>2, <4>3
    <3> QED
      BY <1>5, <2>2, <3>4 DEF Within, Started
  <2> QED
    BY <2>1, <2>2
<1> QED
  BY <1>3, <1>6 DEF Backlog, a2

(* A hit that is not.                                                         *)
LEMMA BacklogCounts ==
    ASSUME NEW a \in Ages, NEW h \in Nat, NEW l \in 0..Window, NEW b \in Nat, NEW more \in Nat,
           h <= more, Backlog(a, h, l, b)
    PROVE  Backlog(a, more, Started(l), b)
<1> USE RateLimitAssumptions
<1>1. PICK g : PrefixSums(a, Window, g) /\ Within(g, h, l, b)
  BY DEF Backlog
<1>2. /\ g[0] = 0 /\ g[Window] \in Nat
      /\ \A k \in 0..Window - 1 : g[k] \in Nat
  BY <1>1, PrefixOfAges
<1>3. UpTo(h, Limit) <= UpTo(more, Limit) /\ UpTo(h, Limit) \in Nat /\ UpTo(more, Limit) \in Nat
  BY DEF UpTo
<1>4. Within(g, more, Started(l), b)
  <2>1. CASE l = 0
    BY <1>1, <1>2, <1>3, <2>1 DEF Within, Started
  <2>2. CASE l # 0
    <3>1. g[Window - l] \in Nat
      BY <1>2, <2>2
    <3> QED
      BY <1>1, <1>2, <1>3, <2>2, <3>1 DEF Within, Started
  <2> QED
    BY <2>1, <2>2
<1> QED
  BY <1>1, <1>4 DEF Backlog

(* A tick, on which the counter may expire.                                   *)
Older(a) == [age \in 0..Window - 1 |-> IF age = 0 THEN 0 ELSE a[age - 1]]

LEMMA BacklogAges ==
    ASSUME NEW a \in Ages, NEW h \in Nat, NEW l \in 0..Window, NEW b \in Nat, Limit <= b,
           Backlog(a, h, l, b)
    PROVE  /\ l <= 1 => Backlog(Older(a), 0, 0, b)
           /\ l > 1 => Backlog(Older(a), h, l - 1, b)
<1> USE RateLimitAssumptions
<1>1. PICK g : PrefixSums(a, Window, g) /\ Within(g, h, l, b)
  BY DEF Backlog
<1> DEFINE g2 == [k \in 0..Window |-> IF k = 0 THEN 0 ELSE g[k - 1]]
<1>2. /\ g \in [0..Window -> Nat] /\ g[0] = 0 /\ g[Window] \in Nat
      /\ \A k \in 0..Window - 1 : g[k] \in Nat /\ a[k] \in Nat /\ g[k + 1] = g[k] + a[k]
  BY <1>1, PrefixOfAges
<1>3. PrefixSums(Older(a), Window, g2)
  <2>1. g2 \in [0..Window -> Nat] /\ g2[0] = 0
    BY <1>2
  <2>2. ASSUME NEW k \in 0..Window - 1 PROVE g2[k + 1] = g2[k] + Older(a)[k]
    <3>1. CASE k = 0
      BY <1>2, <3>1 DEF Older
    <3>2. CASE k # 0
      <4>1. k - 1 \in 0..Window - 1 /\ (k - 1) + 1 = k
        BY <3>2
      <4>2. g[k] = g[k - 1] + a[k - 1]
        BY <1>2, <4>1
      <4>3. g2[k + 1] = g[k] /\ g2[k] = g[k - 1] /\ Older(a)[k] = a[k - 1]
        BY <3>2 DEF Older
      <4> QED
        BY <4>2, <4>3
    <3> QED
      BY <3>1, <3>2
  <2> QED
    BY <2>1, <2>2 DEF PrefixSums
<1>4. \A k \in 0..Window : k # 0 => g2[k] = g[k - 1]
  OBVIOUS
<1> HIDE DEF g2
<1>5. g2[Window] = g[Window - 1] /\ g[Window - 1] \in Nat /\ g[Window - 1] <= g[Window]
  <2>1. Window - 1 \in 0..Window - 1 /\ (Window - 1) + 1 = Window /\ Window \in 0..Window
    OBVIOUS
  <2>2. g[Window] = g[Window - 1] + a[Window - 1] /\ a[Window - 1] \in Nat
    BY <1>2, <2>1
  <2> QED
    BY <1>2, <1>4, <2>1, <2>2
<1>6. UpTo(h, Limit) \in Nat /\ UpTo(h, Limit) <= Limit
  BY DEF UpTo
<1>7. ASSUME l <= 1 PROVE Within(g2, 0, 0, b)
  <2>1. CASE l = 0
    BY <1>1, <1>2, <1>5, <2>1 DEF Within
  <2>2. CASE l = 1
    BY <1>1, <1>5, <1>6, <2>2 DEF Within
  <2> QED
    BY <1>7, <2>1, <2>2
<1>8. ASSUME l > 1 PROVE Within(g2, h, l - 1, b)
  <2>1. Window - (l - 1) \in 0..Window /\ Window - (l - 1) # 0 /\ Window - (l - 1) - 1 = Window - l
    BY <1>8
  <2>2. g2[Window - (l - 1)] = g[Window - l]
    BY <1>4, <2>1
  <2>3. g[Window - l] <= UpTo(h, Limit) /\ g[Window] <= UpTo(h, Limit) + b
    BY <1>1, <1>8 DEF Within
  <2>4. g2[Window] <= UpTo(h, Limit) + b
    BY <1>2, <1>5, <1>6, <2>3
  <2> QED
    BY <1>8, <2>2, <2>3, <2>4 DEF Within
<1> QED
  BY <1>3, <1>7, <1>8 DEF Backlog

(* Redis loses the counter.                                                   *)
LEMMA BacklogForgets ==
    ASSUME NEW a \in Ages, NEW h \in Nat, NEW l \in 0..Window, NEW b \in Nat,
           Backlog(a, h, l, b)
    PROVE  Backlog(a, 0, 0, b + Limit)
<1> USE RateLimitAssumptions
<1>1. PICK g : PrefixSums(a, Window, g) /\ Within(g, h, l, b)
  BY DEF Backlog
<1>2. g[Window] \in Nat
  BY <1>1, PrefixOfAges
<1>3. UpTo(h, Limit) \in Nat /\ UpTo(h, Limit) <= Limit
  BY DEF UpTo
<1>4. g[Window] <= b + Limit
  BY <1>1, <1>2, <1>3 DEF Within
<1> QED
  BY <1>1, <1>4 DEF Within, Backlog

LEMMA BacklogAtFirst ==
    ASSUME NEW b \in Nat
    PROVE  Backlog([age \in 0..Window - 1 |-> 0], 0, 0, b)
<1> USE RateLimitAssumptions
<1> DEFINE g == [k \in 0..Window |-> 0]
<1>1. PrefixSums([age \in 0..Window - 1 |-> 0], Window, g)
  BY DEF PrefixSums
<1>2. g[Window] <= b
  OBVIOUS
<1> HIDE DEF g
<1> QED
  BY <1>1, <1>2 DEF Within, Backlog

LEMMA BacklogBounds ==
    ASSUME NEW a \in Ages, NEW h \in Nat, NEW l \in 0..Window, NEW b \in Nat,
           Backlog(a, h, l, b)
    PROVE  SumFunction(a) \in Nat /\ SumFunction(a) <= (IF l = 0 THEN 0 ELSE Limit) + b
<1> USE RateLimitAssumptions
<1>1. PICK g : PrefixSums(a, Window, g) /\ Within(g, h, l, b)
  BY DEF Backlog
<1>2. g[Window] \in Nat
  BY <1>1, PrefixOfAges
<1>3. SumFunction(a) = g[Window]
  BY <1>1, SumIsLast DEF Ages
<1>4. UpTo(h, Limit) \in Nat /\ UpTo(h, Limit) <= Limit
  BY DEF UpTo
<1> QED
  BY <1>1, <1>2, <1>3, <1>4 DEF Within

--------------------------------------------------------------------------------
LEMMA Products ==
    ASSUME NEW m \in Nat, NEW n \in Nat
    PROVE  m * n \in Nat /\ (m + 1) * n = m * n + n
  OBVIOUS

LEMMA AllowanceIsNat ==
    ASSUME TypeOK
    PROVE  Lost \in Nat /\ Allowance \in Nat /\ Limit <= Allowance
<1> USE RateLimitAssumptions
<1>1. Lost \in Nat
  BY DEF Lost, TypeOK
<1>2. Lost * Limit \in Nat /\ (Lost + 1) * Limit = Lost * Limit + Limit
  BY <1>1, Products
<1>3. Allowance = (Lost + 1) * Limit
  BY <1>1 DEF Allowance
<1> QED
  BY <1>1, <1>2, <1>3

LEMMA AccountTypes ==
    ASSUME TypeOK, NEW a \in Accounts
    PROVE  /\ admitted[a] \in Ages /\ hits[a] \in Nat /\ left[a] \in 0..Window
           /\ left[a] = 0 <=> hits[a] = 0
  BY AccountsAreCounters, RateLimitAssumptions DEF TypeOK, Ages

(* The hits of a request, for its own account and for the others.             *)
LEMMA HitsOfOne ==
    ASSUME TypeOK, NEW r \in Requests, NEW n \in {1, 2}, AfterHits(r, n),
           NEW k \in Accounts, k = CounterOf(r)
    PROVE  /\ hits'[k] = UpTo(hits[k] + n, Limit + 1)
           /\ left'[k] = Started(left[k])
           /\ \A a \in Accounts \ {k} : hits'[a] = hits[a] /\ left'[a] = left[a]
  BY AccountsAreCounters DEF AfterHits, TypeOK, Started

LEMMA MoreHits ==
    ASSUME NEW h \in 0..Limit + 1, NEW n \in {1, 2}
    PROVE  /\ UpTo(h + n, Limit + 1) \in Nat /\ h <= UpTo(h + n, Limit + 1)
           /\ h + n <= Limit => UpTo(h + n, Limit + 1) = h + n
  BY RateLimitAssumptions DEF UpTo

LEMMA BacklogHit ==
    ASSUME TypeOK, KeyInv, UnderWay, BacklogInv, NEW r \in Requests, NEW n \in {1, 2},
           Hit(r, n) \/ (n = 1 /\ HitTimesOut(r))
    PROVE  BacklogInv'
<1> USE RateLimitAssumptions
<1> DEFINE k == AccountOf(r)
           more == UpTo(hits[k] + n, Limit + 1)
<1>0. k \in Accounts /\ k \in Counters /\ CounterOf(r) = k
  BY OwnCounter DEF Hit, HitTimesOut, FailsClosed, Go
<1>1. hits[k] \in 0..Limit + 1 /\ n \in Nat /\ n > 0
  BY <1>0 DEF TypeOK
<1>2. Allowance' = Allowance /\ Allowance \in Nat
  <2>1. up' = up /\ restarts' = restarts
    BY DEF Hit, HitTimesOut
  <2> QED
    BY <2>1, AllowanceIsNat DEF Allowance, Lost
<1>3. /\ hits'[k] = more /\ left'[k] = Started(left[k])
      /\ \A c \in Accounts \ {k} : hits'[c] = hits[c] /\ left'[c] = left[c]
  <2>1. AfterHits(r, n)
    BY DEF Hit, HitTimesOut
  <2> QED
    BY <1>0, <2>1, HitsOfOne
<1>4. more \in Nat /\ hits[k] <= more /\ (hits[k] + n <= Limit => more = hits[k] + n)
  BY <1>1, MoreHits
<1>5. \/ /\ hits[k] + n <= Limit
         /\ admitted' = [admitted EXCEPT ![k] = [admitted[k] EXCEPT ![0] = @ + 1]]
      \/ admitted' = admitted
  BY <1>0 DEF Hit, HitTimesOut, Fits
<1>6. Backlog(admitted[k], hits[k], left[k], Allowance)
  BY <1>0 DEF BacklogInv
<1> HIDE DEF k, more
<1>7. admitted[k] \in Ages /\ hits[k] \in Nat /\ left[k] \in 0..Window
  BY <1>0, AccountTypes
<1>8. Backlog(admitted'[k], hits'[k], left'[k], Allowance)
  <2>1. CASE admitted' = admitted
    BY <1>2, <1>3, <1>4, <1>6, <1>7, <2>1, BacklogCounts
  <2>2. CASE /\ hits[k] + n <= Limit
             /\ admitted' = [admitted EXCEPT ![k] = [admitted[k] EXCEPT ![0] = @ + 1]]
    <3>1. admitted'[k] = [admitted[k] EXCEPT ![0] = @ + 1]
      BY <1>0, <2>2 DEF TypeOK
    <3>2. hits[k] < more /\ more <= Limit
      BY <1>1, <1>4, <1>7, <2>2
    <3>3. Backlog([admitted[k] EXCEPT ![0] = @ + 1], more, Started(left[k]), Allowance)
      BY <1>2, <1>4, <1>6, <1>7, <3>2, BacklogAdmits
    <3> QED
      BY <1>3, <3>1, <3>3
  <2> QED
    BY <1>5, <2>1, <2>2
<1>9. \A c \in Accounts \ {k} : admitted'[c] = admitted[c]
  BY <1>0, <1>5 DEF TypeOK
<1>10. ASSUME NEW c \in Accounts
       PROVE  Backlog(admitted'[c], hits'[c], left'[c], Allowance')
  <2>1. CASE c = k
    BY <1>2, <1>8, <2>1
  <2>2. CASE c # k
    <3>1. Backlog(admitted[c], hits[c], left[c], Allowance)
      BY DEF BacklogInv
    <3>2. admitted'[c] = admitted[c] /\ hits'[c] = hits[c] /\ left'[c] = left[c]
      BY <1>3, <1>9, <2>2
    <3> QED
      BY <1>2, <3>1, <3>2
  <2> QED
    BY <2>1, <2>2
<1> QED
  BY <1>10 DEF BacklogInv

LEMMA BacklogTick ==
    ASSUME TypeOK, KeyInv, BacklogInv, Tick
    PROVE  BacklogInv'
<1> USE RateLimitAssumptions
<1>1. Allowance' = Allowance /\ Allowance \in Nat /\ Limit <= Allowance
  <2>1. up' = up /\ restarts' = restarts
    BY DEF Tick
  <2> QED
    BY <2>1, AllowanceIsNat DEF Allowance, Lost
<1>2. ASSUME NEW c \in Accounts
      PROVE  Backlog(admitted'[c], hits'[c], left'[c], Allowance)
  <2>1. admitted[c] \in Ages /\ hits[c] \in Nat /\ left[c] \in 0..Window
    BY AccountTypes
  <2>2. c \in Counters
    BY AccountsAreCounters
  <2>3. admitted'[c] = Older(admitted[c])
    BY DEF Tick, Older
  <2>4. left'[c] = IF left[c] = 0 THEN 0 ELSE left[c] - 1
    BY <2>2 DEF Tick
  <2>5. hits'[c] = IF left'[c] = 0 THEN 0 ELSE hits[c]
    BY <2>2 DEF Tick, Forget
  <2>6. Backlog(admitted[c], hits[c], left[c], Allowance)
    BY DEF BacklogInv
  <2>7. /\ left[c] <= 1 => Backlog(Older(admitted[c]), 0, 0, Allowance)
        /\ left[c] > 1 => Backlog(Older(admitted[c]), hits[c], left[c] - 1, Allowance)
    BY <1>1, <2>1, <2>6, BacklogAges
  <2>8. CASE left[c] <= 1
    <3>1. left'[c] = 0 /\ hits'[c] = 0
      BY <2>1, <2>4, <2>5, <2>8
    <3> QED
      BY <2>3, <2>7, <2>8, <3>1
  <2>9. CASE left[c] > 1
    <3>1. left'[c] = left[c] - 1 /\ hits'[c] = hits[c]
      BY <2>1, <2>4, <2>5, <2>9
    <3> QED
      BY <2>3, <2>7, <2>9, <3>1
  <2> QED
    BY <2>1, <2>8, <2>9
<1> QED
  BY <1>1, <1>2 DEF BacklogInv

LEMMA BacklogRedis ==
    ASSUME TypeOK, KeyInv, BacklogInv, RedisStops \/ RedisStarts
    PROVE  BacklogInv'
<1> USE RateLimitAssumptions
<1>1. Lost \in Nat /\ Allowance \in Nat
  BY AllowanceIsNat
<1>2. admitted' = admitted
  BY DEF RedisStops, RedisStarts
<1>3. CASE RedisStarts
  <2>1. restarts \in Nat /\ ~up /\ up' = TRUE /\ restarts' = restarts + 1
    BY <1>3 DEF RedisStarts, TypeOK
  <2>2. Lost' = Lost
    BY <2>1 DEF Lost
  <2>3. Allowance' = Allowance /\ UNCHANGED <<hits, left>>
    BY <1>3, <2>2 DEF RedisStarts, Allowance
  <2> QED
    BY <1>2, <2>3 DEF BacklogInv
<1>4. CASE RedisStops
  <2>1. restarts \in Nat /\ up /\ up' = FALSE /\ restarts' = restarts
    BY <1>4 DEF RedisStops, TypeOK
  <2>2. Lost' = Lost + 1
    BY <2>1 DEF Lost
  <2>3. Allowance' = ((1 + Lost) + 1) * Limit
    BY <1>1, <2>2 DEF Allowance
  <2>4. Allowance' = Allowance + Limit
    <3>1. 1 + Lost \in Nat
      BY <1>1
    <3>2. ((1 + Lost) + 1) * Limit = (1 + Lost) * Limit + Limit
      BY <3>1, Products
    <3> QED
      BY <2>3, <3>2 DEF Allowance
  <2>5. ASSUME NEW c \in Accounts
        PROVE  Backlog(admitted'[c], hits'[c], left'[c], Allowance')
    <3>1. admitted[c] \in Ages /\ hits[c] \in Nat /\ left[c] \in 0..Window
      BY AccountTypes
    <3>2. hits'[c] = 0 /\ left'[c] = 0
      BY <1>4, AccountsAreCounters DEF RedisStops, Forget
    <3>3. Backlog(admitted[c], hits[c], left[c], Allowance)
      BY DEF BacklogInv
    <3>4. Backlog(admitted[c], 0, 0, Allowance + Limit)
      BY <1>1, <3>1, <3>3, BacklogForgets
    <3> QED
      BY <1>2, <2>4, <3>2, <3>4
  <2> QED
    BY <2>5 DEF BacklogInv
<1> QED
  BY <1>3, <1>4

LEMMA BacklogInit == Init => BacklogInv
<1> SUFFICES ASSUME Init, NEW c \in Accounts
             PROVE  Backlog(admitted[c], hits[c], left[c], Allowance)
  BY DEF BacklogInv
<1>1. TypeOK
  BY InvInit DEF Inv
<1>2. /\ admitted[c] = [age \in 0..Window - 1 |-> 0]
      /\ hits[c] = 0 /\ left[c] = 0
  BY AccountsAreCounters DEF Init
<1>3. Backlog([age \in 0..Window - 1 |-> 0], 0, 0, Allowance)
  BY <1>1, AllowanceIsNat, BacklogAtFirst
<1> QED
  BY <1>2, <1>3

LEMMA BacklogNext == Inv /\ BacklogInv /\ [Next]_vars => BacklogInv'
<1> SUFFICES ASSUME TypeOK, KeyInv, UnderWay, BacklogInv, [Next]_vars PROVE BacklogInv'
  BY DEF Inv
<1>1. ASSUME UNCHANGED <<redis, admitted>> PROVE BacklogInv'
  BY <1>1 DEF redis, BacklogInv, Allowance, Lost
<1>2. CASE UNCHANGED vars
  BY <1>1, <1>2 DEF vars
<1>3. ASSUME NEW r \in Requests, NEW path \in Paths \cup {"probe"}, NEW c \in Clients,
             NEW sent \in Sent, Arrive(r, path, c, sent)
      PROVE  BacklogInv'
  BY <1>1, <1>3 DEF Arrive
<1>4. ASSUME NEW r \in Requests, NEW n \in {1, 2}, Hit(r, n) PROVE BacklogInv'
  BY <1>4, BacklogHit
<1>5. ASSUME NEW r \in Requests, HitTimesOut(r) PROVE BacklogInv'
  <2>1. 1 \in {1, 2}
    OBVIOUS
  <2> QED
    BY <1>5, <2>1, BacklogHit
<1>6. ASSUME NEW r \in Requests, HitFails(r) \/ Serve(r) \/ Refuse(r) \/ Inject(r) \/ InjectFails(r)
      PROVE  BacklogInv'
  BY <1>1, <1>6 DEF HitFails, Serve, Refuse, Inject, InjectFails
<1>7. CASE Tick
  BY <1>7, BacklogTick
<1>8. CASE RedisStops \/ RedisStarts
  BY <1>8, BacklogRedis
<1> QED
  BY <1>2, <1>3, <1>4, <1>5, <1>6, <1>7, <1>8 DEF Next

(* Redis has no counters while it is out.                                     *)
EmptyWhenOut == ~up => \A k \in Counters : left[k] = 0

LEMMA EmptyNext == EmptyWhenOut /\ [Next]_vars => EmptyWhenOut'
<1> SUFFICES ASSUME EmptyWhenOut, [Next]_vars PROVE EmptyWhenOut'
  OBVIOUS
<1>1. ASSUME UNCHANGED redis PROVE EmptyWhenOut'
  BY <1>1 DEF redis, EmptyWhenOut
<1>2. ASSUME NEW r \in Requests,
             \/ \E path \in Paths \cup {"probe"}, c \in Clients, sent \in Sent :
                    Arrive(r, path, c, sent)
             \/ HitFails(r) \/ Serve(r) \/ Refuse(r) \/ Inject(r) \/ InjectFails(r)
      PROVE  EmptyWhenOut'
  BY <1>1, <1>2 DEF Arrive, HitFails, Serve, Refuse, Inject, InjectFails
<1>3. ASSUME NEW r \in Requests, HitTimesOut(r) \/ \E n \in {1, 2} : Hit(r, n)
      PROVE  EmptyWhenOut'
  BY <1>3 DEF HitTimesOut, Hit, EmptyWhenOut
<1>4. CASE Tick
  BY <1>4 DEF Tick, EmptyWhenOut
<1>5. CASE RedisStops \/ RedisStarts
  BY <1>5 DEF RedisStops, RedisStarts, EmptyWhenOut
<1>6. CASE UNCHANGED vars
  BY <1>1, <1>6 DEF vars
<1> QED
  BY <1>2, <1>3, <1>4, <1>5, <1>6 DEF Next

LEMMA BacklogImplies == Inv /\ BacklogInv /\ EmptyWhenOut => ClientsBounded
<1> USE RateLimitAssumptions
<1> SUFFICES ASSUME TypeOK, BacklogInv, EmptyWhenOut, NEW c \in Accounts
             PROVE  SumFunction(admitted[c]) <= (2 + restarts) * Limit
  BY DEF Inv, ClientsBounded
<1>1. SumFunction(admitted[c]) \in Nat
      /\ SumFunction(admitted[c]) <= (IF left[c] = 0 THEN 0 ELSE Limit) + Allowance
  BY AccountTypes, AllowanceIsNat, BacklogBounds DEF BacklogInv
<1>2. restarts \in Nat
  BY DEF TypeOK
<1>3. CASE up
  <2>1. Allowance = (1 + restarts) * Limit /\ Allowance \in Nat
    BY <1>2, <1>3, AllowanceIsNat DEF Allowance, Lost
  <2>2. 1 + restarts \in Nat /\ (1 + restarts) + 1 = 2 + restarts
    BY <1>2
  <2>3. (2 + restarts) * Limit = Allowance + Limit
    BY <2>1, <2>2, Products
  <2> QED
    BY <1>1, <2>1, <2>3
<1>4. CASE ~up
  <2>1. left[c] = 0
    BY <1>4, AccountsAreCounters DEF EmptyWhenOut
  <2>2. 1 + Lost = 2 + restarts
    BY <1>2, <1>4 DEF Lost
  <2>3. Allowance = (2 + restarts) * Limit /\ Allowance \in Nat
    BY <2>2, AllowanceIsNat DEF Allowance
  <2> QED
    BY <1>1, <2>1, <2>3
<1> QED
  BY <1>3, <1>4

(* limiter.py 50-59, with a counter for each path: whatever it writes into    *)
(* its headers, whichever replicas it asks and however often Redis loses its  *)
(* counters, a client has no more requests of one path admitted within the    *)
(* length of a window than two windows allow, and one more for each of those  *)
(* losses.  Over several paths nothing bounds it: see GloballyBounded.        *)
THEOREM AdmittedBounded == Spec => []ClientsBounded
<1>1. Init => Inv /\ BacklogInv /\ EmptyWhenOut
  BY InvInit, BacklogInit DEF Init, EmptyWhenOut
<1>2. (Inv /\ BacklogInv /\ EmptyWhenOut) /\ [Next]_vars => (Inv /\ BacklogInv /\ EmptyWhenOut)'
  BY InvNext, BacklogNext, EmptyNext
<1> QED
  BY <1>1, <1>2, BacklogImplies, PTL DEF Spec
================================================================================
