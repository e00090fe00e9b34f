------------------------------- MODULE MCRateLimit -------------------------------
(* Two clients behind two trusted proxies, each writing nothing into          *)
(* X-Forwarded-For, or the address of the first, and asking for any path.     *)
EXTENDS RateLimit, FiniteSets, TLC

CONSTANTS c1, c2, p1, p2, r1, root, docs, openapi

OneRequest == {r1}
TwoPaths == {root, docs}
ThreePaths == {root, docs, openapi}
TwoClients == {c1, c2}
TwoProxies == <<p1, p2>>
Forgeries == {<<>>, <<c1>>}

(* Of the clients' counters, two at a time are in use, or were within the     *)
(* last Window ticks: any two of a client, or of a path.                      *)
InUse(a) == left[a] > 0 \/ SumFunction(admitted[a]) > 0
TwoInUse == Cardinality({a \in Accounts : InUse(a)}) <= 2
================================================================================
