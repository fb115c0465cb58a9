-------------------------- MODULE EndpointResolution --------------------------
(***************************************************************************)
(* The service that keeps the addresses of the endpoints up to date        *)
(* (dap-lib/src/http_client/http_client_service.rs).  After every period   *)
(* it looks up all endpoints, by DoH itself or else by the bootstrap DNS,  *)
(* and swaps the HTTP client for one that connects to these addresses.     *)
(*                                                                         *)
(* Addresses are abstracted to the endpoints that have some.  The lookups  *)
(* by DoH read the lock themselves, as queries do, but are over before the *)
(* service asks to write it: only their outcome is modelled.               *)
(***************************************************************************)
EXTENDS HttpLock, Naturals, FiniteSets

CONSTANTS
    NextHop,        \* the next hops of oblivious DoH, or the targets of DoH
    TokenApi,       \* the URL of the authentication server, if there is one
    Literal,        \* the endpoints whose host is not a domain name
    MaxFailures     \* resolutions that may fail in a row: 3

ASSUME ResolutionAssumption ==
    /\ NextHop # {}
    /\ MaxFailures \in Nat

\* What the client connects to.
endpoints == NextHop \cup TokenApi

VARIABLES
    rpc,            \* "sleep", or "write": waits to swap; or it is down
    fail_cnt,       \* its count of failures in a row
    resolved,       \* the endpoints it has looked up, while it waits
    pinned          \* inner: the endpoints whose addresses the client has

resolutionVars == <<rpc, fail_cnt, resolved, pinned>>

ResolutionTypeOK ==
    /\ rpc \in {"sleep", "write", "down"}
    /\ fail_cnt \in 0..(MaxFailures + 1)
    /\ resolved \subseteq endpoints
    /\ pinned \subseteq endpoints

\* HttpClient::new has looked up every endpoint, or there is no client.
ResolutionInit ==
    /\ rpc = "sleep"
    /\ fail_cnt = 0
    /\ resolved = {}
    /\ pinned = endpoints

-----------------------------------------------------------------------------

\* All lookups are joined, and one that fails makes the whole fail.
resolve_ips(answered) == IF answered = endpoints THEN answered ELSE {}

\* The endpoints that a resolver may answer for, if it answers: DoH is only
\* asked about domain names.
AnsweredByDoH == SUBSET (endpoints \ Literal)
AnsweredByBootstrap == SUBSET endpoints

\* The result of both resolvers, empty if both have failed.
Lookup ==
    {IF resolve_ips(primary) # {} THEN resolve_ips(primary) ELSE resolve_ips(fallback) :
        primary \in AnsweredByDoH, fallback \in AnsweredByBootstrap}

Resolved ==
    /\ rpc = "sleep"
    /\ \E ips \in Lookup \ {{}} : resolved' = ips
    /\ rpc' = "write"
    /\ Ask(Swap)
    /\ UNCHANGED <<holders, fail_cnt, pinned>>

\* After too many failures in a row the service ends.
ResolutionFails ==
    /\ rpc = "sleep"
    /\ {} \in Lookup
    /\ fail_cnt' = fail_cnt + 1
    /\ rpc' = IF fail_cnt' > MaxFailures THEN "down" ELSE "sleep"
    /\ UNCHANGED <<resolved, pinned, lockVars>>

\* update_inner: the client is built under the lock, which may fail.
Swapped ==
    /\ rpc = "write"
    /\ Swap \in holders
    /\ Release(Swap)
    /\ resolved' = {}
    /\ \/ rpc' = "sleep" /\ fail_cnt' = 0 /\ pinned' = resolved
       \/ rpc' = "down" /\ UNCHANGED <<fail_cnt, pinned>>
    /\ UNCHANGED ahead

ResolutionNext ==
    \/ Resolved \/ ResolutionFails \/ Swapped
    \/ Grant /\ UNCHANGED resolutionVars

\* The service without the requests it shares the lock with.
ResolutionSpec ==
    LockInit /\ ResolutionInit /\ [][ResolutionNext]_<<lockVars, resolutionVars>>

-----------------------------------------------------------------------------

(* The client always has addresses for every endpoint: neither a lookup    *)
(* that fails for some of them nor a swap that fails takes any away, so    *)
(* what has been resolved before stays usable without the bootstrap DNS.   *)
AllPinned == pinned = endpoints

=============================================================================
