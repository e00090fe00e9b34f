-------------------------------- MODULE ClientIp --------------------------------
(* Who a request is counted and logged for: resolve_client_ip of              *)
(* src/app/core/client_ip.py, over a chain of reverse proxies that append to  *)
(* X-Forwarded-For the address they were called from.  A request is a client  *)
(* and what it wrote into the header itself.                                  *)
EXTENDS Integers, Sequences

CONSTANTS
    Clients,            \* the addresses of the clients
    Proxies,            \* the proxies a request passes, a sequence of addresses
    TrustProxy,         \* trust_proxy
    NumTrustedProxies   \* num_trusted_proxies

ASSUME ClientIpAssumptions ==
    /\ TrustProxy \in BOOLEAN /\ NumTrustedProxies \in Int
    /\ Proxies \in Seq({Proxies[i] : i \in DOMAIN Proxies})
    /\ \A i \in DOMAIN Proxies : Proxies[i] \notin Clients

Addresses == Clients \cup {Proxies[i] : i \in DOMAIN Proxies}

(* What reaches the application.                                              *)
ConnectionIp(c) == IF Proxies = <<>> THEN c ELSE Proxies[Len(Proxies)]
ForwardedFor(c, sent) ==
    IF Proxies = <<>> THEN sent ELSE sent \o <<c>> \o SubSeq(Proxies, 1, Len(Proxies) - 1)

(* parts[-hops], when there are as many parts as hops.                        *)
FromTheLeft(parts, hops) == parts[1]                                \* mutant
FromTheRight(parts, hops) == parts[Len(parts) - hops + 1]

ResolveClientIp(forwarded, connection) ==
    IF TrustProxy /\ NumTrustedProxies >= 1 /\ Len(forwarded) >= NumTrustedProxies
    THEN FromTheRight(forwarded, NumTrustedProxies)
    ELSE connection

KeyOf(c, sent) == ResolveClientIp(ForwardedFor(c, sent), ConnectionIp(c))

(* The topology the two warnings of validate_production ask for.              *)
TopologyMatches ==
    IF Proxies = <<>> THEN ~TrustProxy
    ELSE TrustProxy /\ NumTrustedProxies = Len(Proxies)
================================================================================
