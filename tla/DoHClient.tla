------------------------------- MODULE DoHClient -------------------------------
(***************************************************************************)
(* The DoH client as its own resolver: make_doh_query                      *)
(* (dap-lib/src/doh_client/doh_client_main.rs) with query manipulation,    *)
(* cache, health flags and the addresses that the HTTP client is pinned    *)
(* to, and the endpoint resolution that looks these addresses up by        *)
(* make_doh_query itself before it turns to the bootstrap DNS              *)
(* (dap-lib/src/http_client/http_client_service.rs).                       *)
(*                                                                         *)
(* An endpoint has one address at a time, known by a number that grows;    *)
(* whoever connects to an older one gets no answer.  The resolvers behind  *)
(* DoH and the bootstrap resolver keep caches of their own, so each may    *)
(* answer with an older address until the last of them has forgotten it.   *)
(* Queries are for the address of an endpoint: other names do not matter.  *)
(***************************************************************************)
EXTENDS Naturals

CONSTANTS
    Endpoint,       \* the endpoints, all with domain names
    Path,           \* the paths of the path manager
    hop,            \* hop[p]: the endpoint that a request on path p connects to
    Client,         \* queries of the proxy
    Rules,          \* the manipulations of the configurations considered
    MaxFailures,    \* resolutions that may fail in a row: 3
    NoAddr,         \* no address: an empty answer, an absent record
    MaxAddr,        \* bound: how often an endpoint moves
    Moving          \* bound: the endpoints that move at all

ASSUME ClientAssumption ==
    /\ Endpoint # {}
    /\ hop \in [Path -> Endpoint]
    /\ Client \cap Endpoint = {}
    /\ Rules \subseteq [Endpoint -> {"none", "block", "override"}]
    /\ MaxFailures \in Nat
    /\ NoAddr \notin Nat
    /\ MaxAddr \in Nat
    /\ Moving \subseteq Endpoint

\* Each endpoint is looked up by a task of its own, which has its name.
Query == Endpoint \cup Client

NoName == "no name"
NoPath == "no path"
Addr == 0..MaxAddr

VARIABLES
    addr,           \* environment: the current address of each endpoint
    oldest,         \* environment: the oldest address that a resolver still gives
    calm,           \* environment: nothing moves or is lost any more
    rule,           \* the manipulation of the name of each endpoint
    healthy,        \* the paths that are flagged healthy
    cache,          \* cache[e]: the live record of e, or NoAddr
    pinned,         \* inner: the addresses of the endpoints the client has
    pc,             \* pc[q]: the await point of a query
    name,           \* name[q]: whose address q asks for
    on,             \* on[q]: the path q was sent on
    got,            \* got[q]: the address q has
    rpc,            \* where the resolution stands
    fail_cnt,       \* its count of failures in a row
    floor           \* history: oldest when the lookups under way began

envVars == <<addr, oldest, calm, rule>>
queryVars == <<pc, name, on, got>>
resolverVars == <<rpc, fail_cnt, pinned>>
vars == <<envVars, healthy, cache, queryVars, resolverVars, floor>>

\* How the query of a lookup can end.
Found == {"cached", "given", "resolved"}
Ended == Found \cup {"failed"}

TypeOK ==
    /\ addr \in [Endpoint -> Addr]
    /\ oldest \in [Endpoint -> Addr]
    /\ calm \in BOOLEAN
    /\ rule \in Rules
    /\ healthy \subseteq Path
    /\ cache \in [Endpoint -> Addr \cup {NoAddr}]
    /\ pinned \in [Endpoint -> Addr]
    /\ pc \in [Query -> {"idle", "start", "asked", "answered"} \cup Ended]
    /\ name \in [Query -> Endpoint \cup {NoName}]
    /\ on \in [Query -> Path \cup {NoPath}]
    /\ got \in [Query -> Addr \cup {NoAddr}]
    /\ rpc \in {"sleep", "primary", "fallback", "write", "writing", "down"}
    /\ fail_cnt \in 0..(MaxFailures + 1)
    /\ floor \in [Endpoint -> Addr]

\* HttpClient::new has resolved every endpoint by the bootstrap DNS; a path
\* is healthy until it is checked.
Init ==
    /\ addr = [e \in Endpoint |-> 0]
    /\ oldest = addr
    /\ calm = FALSE
    /\ rule \in Rules
    /\ healthy = Path
    /\ cache = [e \in Endpoint |-> NoAddr]
    /\ pinned = addr
    /\ pc = [q \in Query |-> "idle"]
    /\ name = [q \in Query |-> IF q \in Endpoint THEN q ELSE NoName]
    /\ on = [q \in Query |-> NoPath]
    /\ got = [q \in Query |-> NoAddr]
    /\ rpc = "sleep"
    /\ fail_cnt = 0
    /\ floor = addr

-----------------------------------------------------------------------------
(* make_doh_query                                                          *)

\* The query ends with an address or without one: the task of a lookup waits
\* to be joined, a client has its answer.
Return(q, label, a) ==
    /\ pc' = [pc EXCEPT ![q] = IF q \in Client THEN "idle" ELSE label]
    /\ got' = [got EXCEPT ![q] = IF q \in Client THEN NoAddr ELSE a]
    /\ on' = [on EXCEPT ![q] = NoPath]
    /\ name' = [name EXCEPT ![q] = IF q \in Client THEN NoName ELSE @]

\* A client asks for the address of some endpoint, or a lookup for its own.
Starts(q, e) ==
    \/ q \in Client /\ pc[q] = "idle"
    \/ q = e /\ pc[q] = "start" /\ rpc = "primary"

\* Manipulation comes first, and its synthetic response is not cached.
Blocked(q, e) ==
    /\ Starts(q, e)
    /\ rule[e] = "block"
    /\ Return(q, "failed", NoAddr)
    /\ UNCHANGED <<envVars, healthy, cache, resolverVars, floor>>

\* The rule was written when the endpoint had its first address.
Overridden(q, e) ==
    /\ Starts(q, e)
    /\ rule[e] = "override"
    /\ Return(q, "given", 0)
    /\ UNCHANGED <<envVars, healthy, cache, resolverVars, floor>>

Hit(q, e) ==
    /\ Starts(q, e)
    /\ rule[e] = "none"
    /\ cache[e] # NoAddr
    /\ Return(q, "cached", cache[e])
    /\ UNCHANGED <<envVars, healthy, cache, resolverVars, floor>>

\* NoPathAvailable
NoHealthyPath(q, e) ==
    /\ Starts(q, e)
    /\ rule[e] = "none" /\ cache[e] = NoAddr
    /\ healthy = {}
    /\ Return(q, "failed", NoAddr)
    /\ UNCHANGED <<envVars, healthy, cache, resolverVars, floor>>

\* get_path: any healthy path; PathHealth has the choice in detail.
Miss(q, e, p) ==
    /\ Starts(q, e)
    /\ rule[e] = "none" /\ cache[e] = NoAddr
    /\ p \in healthy
    /\ pc' = [pc EXCEPT ![q] = "asked"]
    /\ name' = [name EXCEPT ![q] = e]
    /\ on' = [on EXCEPT ![q] = p]
    /\ UNCHANGED <<envVars, healthy, cache, got, resolverVars, floor>>

\* A request on path p can be answered.  It is one step with its response,
\* because its read guard keeps the client in place from one to the other.
Reachable(p) == hop[p] \in DOMAIN pinned /\ pinned[hop[p]] = addr[hop[p]]

\* What the resolvers may answer.
Given(e) == oldest[e]..addr[e]

Answered(q) ==
    /\ pc[q] = "asked"
    /\ Reachable(on[q])
    /\ pc' = [pc EXCEPT ![q] = "answered"]
    /\ on' = [on EXCEPT ![q] = NoPath]
    /\ \E a \in Given(name[q]) : got' = [got EXCEPT ![q] = a]
    /\ UNCHANGED <<envVars, healthy, cache, name, resolverVars, floor>>

\* No response, one that is no valid one, or a timeout.
Lost(q) ==
    /\ pc[q] = "asked"
    /\ ~calm \/ ~Reachable(on[q])
    /\ Return(q, "failed", NoAddr)
    /\ UNCHANGED <<envVars, healthy, cache, resolverVars, floor>>

\* Mutant: a record that is there is not replaced, and is the answer.
PutIfAbsent(q) ==
    /\ pc[q] = "answered"
    /\ IF cache[name[q]] = NoAddr
       THEN /\ cache' = [cache EXCEPT ![name[q]] = got[q]]
            /\ Return(q, "resolved", got[q])
       ELSE /\ Return(q, "resolved", cache[name[q]])
            /\ UNCHANGED cache
    /\ UNCHANGED <<envVars, healthy, resolverVars, floor>>

\* The answer goes to the cache, unless its TTL is 0, and to who asked.
Put(q) ==
    /\ pc[q] = "answered"
    /\ \E kept \in {got[q], cache[name[q]]} : cache' = [cache EXCEPT ![name[q]] = kept]
    /\ Return(q, "resolved", got[q])
    /\ UNCHANGED <<envVars, healthy, resolverVars, floor>>

\* Mutant: records stay in the cache.
NeverLeaves(e) ==
    /\ cache[e] # NoAddr
    /\ UNCHANGED vars

\* A record expires, is purged, or is evicted for others.
Leave(e) ==
    /\ cache[e] # NoAddr
    /\ cache' = [cache EXCEPT ![e] = NoAddr]
    /\ UNCHANGED <<envVars, healthy, queryVars, resolverVars, floor>>

-----------------------------------------------------------------------------
(* healthcheck, which goes past manipulation and cache.                    *)

CheckSucceeds(p) ==
    /\ Reachable(p)
    /\ healthy' = healthy \cup {p}
    /\ UNCHANGED <<envVars, cache, queryVars, resolverVars, floor>>

CheckFails(p) ==
    /\ ~calm \/ ~Reachable(p)
    /\ healthy' = healthy \ {p}
    /\ UNCHANGED <<envVars, cache, queryVars, resolverVars, floor>>

-----------------------------------------------------------------------------
(* resolve_endpoint_ip_service                                             *)

\* resolve_ips of every endpoint begins with one of the resolvers.
StartLookups(resolver) ==
    /\ rpc' = resolver
    /\ pc' = [q \in Query |-> IF q \in Endpoint THEN "start" ELSE pc[q]]
    /\ got' = [q \in Query |-> IF q \in Endpoint THEN NoAddr ELSE got[q]]
    /\ floor' = oldest

EndLookups ==
    /\ pc' = [q \in Query |-> IF q \in Endpoint THEN "idle" ELSE pc[q]]
    /\ got' = [q \in Query |-> IF q \in Endpoint THEN NoAddr ELSE got[q]]
    /\ floor' = [e \in Endpoint |-> 0]

\* The sleep of endpoint_resolution_period_sec ends.
Wake ==
    /\ rpc = "sleep"
    /\ StartLookups("primary")
    /\ UNCHANGED <<envVars, healthy, cache, name, on, fail_cnt, pinned>>

BootstrapAnswers(e) ==
    /\ rpc = "fallback" /\ pc[e] = "start"
    /\ \E a \in Given(e) : Return(e, "resolved", a)
    /\ UNCHANGED <<envVars, healthy, cache, resolverVars, floor>>

BootstrapFails(e) ==
    /\ rpc = "fallback" /\ pc[e] = "start"
    /\ ~calm
    /\ Return(e, "failed", NoAddr)
    /\ UNCHANGED <<envVars, healthy, cache, resolverVars, floor>>

Joined == \A e \in Endpoint : pc[e] \in Ended
SomeFailed == \E e \in Endpoint : pc[e] = "failed"
FoundEndpoint == {e \in Endpoint : pc[e] \in Found}

\* Mutant: the lookups that failed are left out of the result.
SuccessOfSome ==
    /\ rpc \in {"primary", "fallback"}
    /\ Joined
    /\ FoundEndpoint # {}
    /\ rpc' = "write"
    /\ UNCHANGED <<envVars, healthy, cache, queryVars, fail_cnt, pinned, floor>>

Success ==
    /\ rpc \in {"primary", "fallback"}
    /\ Joined /\ ~SomeFailed
    /\ rpc' = "write"
    /\ UNCHANGED <<envVars, healthy, cache, queryVars, fail_cnt, pinned, floor>>

Fallback ==
    /\ rpc = "primary" /\ Joined /\ SomeFailed
    /\ StartLookups("fallback")
    /\ UNCHANGED <<envVars, healthy, cache, name, on, fail_cnt, pinned>>

\* Mutant: the count is kept and not looked at.
FailForEver ==
    /\ rpc = "fallback" /\ Joined /\ SomeFailed
    /\ fail_cnt' = IF fail_cnt > MaxFailures + 1 THEN fail_cnt ELSE fail_cnt + 1
    /\ rpc' = "sleep"
    /\ EndLookups
    /\ UNCHANGED <<envVars, healthy, cache, name, on, pinned>>

\* Mutant: the count begins anew with every period.
FailAnew ==
    /\ rpc = "fallback" /\ Joined /\ SomeFailed
    /\ fail_cnt' = 1
    /\ rpc' = IF fail_cnt' > MaxFailures THEN "down" ELSE "sleep"
    /\ EndLookups
    /\ UNCHANGED <<envVars, healthy, cache, name, on, pinned>>

Fail ==
    /\ rpc = "fallback" /\ Joined /\ SomeFailed
    /\ fail_cnt' = fail_cnt + 1
    /\ rpc' = IF fail_cnt' > MaxFailures THEN "down" ELSE "sleep"
    /\ EndLookups
    /\ UNCHANGED <<envVars, healthy, cache, name, on, pinned>>

\* write() returns: no request is under way.  None can be before the swap,
\* which awaits nothing; one that is counts as sent before.
Granted ==
    /\ rpc = "write"
    /\ rpc' = "writing"
    /\ UNCHANGED <<envVars, healthy, cache, queryVars, fail_cnt, pinned, floor>>

\* update_inner swaps the client, or cannot build it.
Swapped ==
    /\ rpc = "writing"
    /\ \/ rpc' = "sleep" /\ fail_cnt' = 0 /\ pinned' = [e \in FoundEndpoint |-> got[e]]
       \/ rpc' = "down" /\ UNCHANGED <<fail_cnt, pinned>>
    /\ EndLookups
    /\ UNCHANGED <<envVars, healthy, cache, name, on>>

-----------------------------------------------------------------------------
(* The network.                                                            *)

Move(e) ==
    /\ ~calm /\ addr[e] < MaxAddr
    /\ addr' = [addr EXCEPT ![e] = @ + 1]
    /\ UNCHANGED <<oldest, calm, rule, healthy, cache, queryVars, resolverVars, floor>>

\* The last record of an address that is not the current one expires.
Forget(e) ==
    /\ oldest[e] < addr[e]
    /\ oldest' = [oldest EXCEPT ![e] = @ + 1]
    /\ UNCHANGED <<addr, calm, rule, healthy, cache, queryVars, resolverVars, floor>>

\* From now on nothing moves or is lost.  A lull that ends needs no step of
\* its own: all that can happen in it can happen without it.
CalmsDown ==
    /\ ~calm
    /\ calm' = TRUE
    /\ UNCHANGED <<addr, oldest, rule, healthy, cache, queryVars, resolverVars, floor>>

-----------------------------------------------------------------------------

Ask(q) ==
    \E e \in Endpoint :
        \/ Blocked(q, e) \/ Overridden(q, e) \/ Hit(q, e) \/ NoHealthyPath(q, e)
        \/ \E p \in Path : Miss(q, e, p)

\* What a query does without waiting for anybody but the network.
Proceed(q) == Answered(q) \/ Lost(q) \/ Put(q)

Check(p) == CheckSucceeds(p) \/ CheckFails(p)

Bootstrap(e) == BootstrapAnswers(e) \/ BootstrapFails(e)

Resolve == Wake \/ Success \/ Fallback \/ Fail \/ Granted \/ Swapped

Next ==
    \/ \E q \in Query : Ask(q) \/ Proceed(q)
    \/ \E e \in Endpoint : Leave(e) \/ Bootstrap(e) \/ Forget(e)
    \/ \E p \in Path : Check(p)
    \/ Resolve
    \/ \E e \in Moving : Move(e)
    \/ CalmsDown

Spec == Init /\ [][Next]_vars

\* The runtime polls what is ready, requests are answered or time out, life
\* times end, everywhere, and health check and resolution are loops around a sleep.
\* Clients need not ask, and the network does as it likes.
Fairness ==
    /\ \A q \in Client : WF_vars(Proceed(q))
    /\ \A e \in Endpoint : WF_vars(Ask(e) \/ Proceed(e) \/ Bootstrap(e)) /\ WF_vars(Leave(e))
    /\ \A e \in Moving : WF_vars(Forget(e))
    /\ \A p \in Path : WF_vars(Check(p))
    /\ WF_vars(Resolve)

FairSpec == Spec /\ Fairness

-----------------------------------------------------------------------------
(* Properties.                                                             *)

(* When the network has calmed down, the client reaches every endpoint     *)
(* again and flags every path healthy, although its own resolver goes over *)
(* these endpoints, and the resolvers and its cache may have old           *)
(* addresses; or the resolution has given up before.  An overriding rule   *)
(* for an endpoint pins the client to the address in the rule, and does    *)
(* not keep the others from being found.                                   *)
Recovers ==
    <>calm =>
        <>[](\/ rpc = "down"
             \/ \A p \in Path : rule[hop[p]] # "override" => p \in healthy)

(* The resolution pins the client to an address that no resolver gave any  *)
(* more when its lookups began only if a record of that address was still  *)
(* live in the client's own cache, or a rule says so: whatever path        *)
(* answers, and however answers and lookups overtake each other, no answer *)
(* to an earlier question is taken for theirs.                             *)
OldOnlyByCache ==
    [][\A e \in Endpoint :
          rpc = "writing" /\ rpc' = "sleep" /\ pc[e] \notin {"cached", "given"}
             => pinned'[e] >= floor[e]]_vars

(* Failures do not go on for ever: a resolution that failed is followed by *)
(* one that succeeds, or the service ends and the process with it.         *)
FailuresEnd == fail_cnt > 0 ~> (fail_cnt = 0 \/ rpc = "down")

(* The lookups by make_doh_query are one of the resolvers of               *)
(* EndpointResolution: they find every endpoint or count as failed, and    *)
(* the client is swapped only for one with all of them.                    *)
Resolution == INSTANCE EndpointResolution WITH
    NextHop <- Endpoint, TokenApi <- {}, Literal <- {}, Swap <- "swap",
    ahead <- [r \in IF rpc = "write" THEN {"swap"} ELSE {} |-> {}],
    holders <- IF rpc = "writing" THEN {"swap"} ELSE {},
    rpc <- IF rpc \in {"write", "writing"} THEN "write"
           ELSE IF rpc = "down" THEN "down" ELSE "sleep",
    resolved <- IF rpc \in {"write", "writing"} THEN FoundEndpoint ELSE {},
    pinned <- DOMAIN pinned
ImplementsResolution == Resolution!ResolutionSpec

=============================================================================
