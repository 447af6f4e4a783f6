------------------------------ MODULE RateLimiter ------------------------------
(***************************************************************************)
(* RateLimitMiddleware and InProcessSlidingWindowLimiter                   *)
(* (apps/api/app/security.py) for one API process.                         *)
(*                                                                         *)
(* A request comes from a client through the proxies of the deployment.    *)
(* Every proxy appends the address it was called from to the header        *)
(* X-Forwarded-For; the client may have sent one too.  The operator sets   *)
(* trusted_proxy_hops to the number of those proxies.  Requests for        *)
(* /health/live are passed on without being counted and left out.          *)
(***************************************************************************)
EXTENDS ApiProcess, Sequences, FiniteSets

CONSTANTS
  Clients,      \* addresses of clients
  Deployments,  \* the sequences of proxies an API may be behind
  Headers,      \* values of X-Forwarded-For that clients send
  Limit,        \* requests_per_minute
  Window,       \* a minute
  MaxRequests   \* bound on the requests

ASSUME LimiterAssumption ==
  /\ Limit \in Nat /\ Window \in Nat
  /\ \A s \in Deployments \cup Headers : s \in Seq({s[i] : i \in DOMAIN s})

VARIABLES
  proxies,  \* the proxies of this deployment, outermost first
  window,   \* _requests: the times of the requests counted for each address
  answered  \* the requests so far, in order: who, when, and whether passed on

limiterVars == <<proxies, window, answered, clock>>

-----------------------------------------------------------------------------

Addresses == Clients \cup UNION {{p[i] : i \in DOMAIN p} : p \in Deployments}

LimiterInit ==
  /\ proxies \in Deployments
  /\ window = [a \in Addresses |-> <<>>]
  /\ answered = <<>>

TrustedHops == Len(proxies)

\* The address the API is called from, and the header it receives.
Peer(c) == IF proxies = <<>> THEN c ELSE proxies[Len(proxies)]

Forwarded(c, header) == header \o SubSeq(<<c>> \o proxies, 1, Len(proxies))

\* A slip: the first address of the header is taken for the client.
FirstAddress(hops, peer) ==
  IF TrustedHops <= 0 \/ Len(hops) < TrustedHops \/ hops = <<>> THEN peer ELSE hops[1]

\* _client_key
ClientKey(hops, peer) ==
  IF TrustedHops <= 0 \/ Len(hops) < TrustedHops \/ hops = <<>> THEN peer
  ELSE hops[Len(hops) - TrustedHops + 1]

\* The times that are left when allow has dropped those a minute old, from the
\* first one on until it comes to one that is not.
Current(times) ==
  LET fresh == {i \in DOMAIN times : clock - times[i] < Window}
      first == CHOOSE i \in fresh : \A j \in fresh : i <= j
  IN IF fresh = {} THEN <<>> ELSE SubSeq(times, first, Len(times))

\* dispatch and allow: a request that is refused is not counted.
Request(c, header) ==
  LET key == ClientKey(Forwarded(c, header), Peer(c))
      recent == Current(window[key])
      allowed == Len(recent) < Limit
  IN /\ Len(answered) < MaxRequests
     /\ window' = [window EXCEPT ![key] = IF allowed THEN Append(recent, clock) ELSE recent]
     /\ answered' = Append(answered, [client |-> c, at |-> clock, ok |-> allowed])
     /\ UNCHANGED <<proxies, clock>>

LimiterNext ==
  \/ \E c \in Clients, header \in Headers : Request(c, header)
  \/ Advance /\ UNCHANGED <<proxies, window, answered>>

LimiterSpec == LimiterInit /\ ClockInit /\ [][LimiterNext]_limiterVars

-----------------------------------------------------------------------------

LimiterTypeOK ==
  /\ proxies \in Deployments
  /\ window \in [Addresses -> Seq(Nat)]
  /\ \A i \in DOMAIN answered : answered[i].client \in Clients /\ answered[i].at <= clock

\* The requests of the client of request i that were passed on before it and
\* less than a minute earlier.
PassedBefore(i) ==
  {j \in 1 .. i - 1 : /\ answered[j].client = answered[i].client
                      /\ answered[j].ok
                      /\ answered[i].at - answered[j].at < Window}

\* Over the whole history, a request is refused exactly if the limit of requests
\* of the same client was passed on in the minute before it: no client exceeds
\* the limit whatever header it sends, and none pays for another.
LimitIsPerClient ==
  \A i \in DOMAIN answered : answered[i].ok <=> Cardinality(PassedBefore(i)) < Limit
=============================================================================
