--------------------------- MODULE DoHClient_proofs ---------------------------
(***************************************************************************)
(* Proofs about DoHClient for every set of endpoints, paths, clients and   *)
(* rules: what a query has been told is bounded by the current address,    *)
(* and, unless the cache told it, from below by the oldest address that    *)
(* was still given when the lookups began.                                 *)
(***************************************************************************)
EXTENDS DoHClient, Sequences, TLAPS

\* Who asks has a path and a name, and lookups ask for their own.
Placed ==
    /\ \A e \in Endpoint : name[e] = e
    /\ \A q \in Client : pc[q] \in {"idle", "asked", "answered"}
    /\ \A q \in Query : /\ pc[q] = "asked" => name[q] \in Endpoint /\ on[q] \in Path
                        /\ pc[q] = "answered" => name[q] \in Endpoint /\ got[q] \in Addr
                        /\ pc[q] \in Found => got[q] \in Addr

\* Nobody knows an address that the endpoint does not have yet.
Known ==
    /\ \A e \in Endpoint : oldest[e] <= addr[e] /\ floor[e] <= oldest[e]
    /\ \A e \in Endpoint : pinned[e] <= addr[e]
    /\ \A e \in Endpoint : cache[e] # NoAddr => cache[e] <= addr[e]
    /\ \A q \in Query : pc[q] = "answered" => got[q] <= addr[name[q]]
    /\ \A e \in Endpoint : pc[e] \in Found => got[e] <= addr[e]

\* What a lookup was told by others was still given when it began.
Recent ==
    \A e \in Endpoint : pc[e] \in {"answered", "resolved"} => floor[e] <= got[e]

\* The resolution swaps only for the addresses of all endpoints.
Complete ==
    rpc \in {"write", "writing"} => \A e \in Endpoint : pc[e] \in Found

\* A count above the limit is the last one.
Counted == rpc # "down" => fail_cnt <= MaxFailures

IInv == Counted /\ TypeOK /\ Placed /\ Known /\ Recent /\ Complete

-----------------------------------------------------------------------------

LEMMA InitIInv == Init => IInv
<1> SUFFICES ASSUME Init PROVE IInv
  OBVIOUS
<1> USE ClientAssumption
<1>1. /\ \A e \in Endpoint : addr[e] = 0 /\ pinned[e] = 0 /\ cache[e] = NoAddr
      /\ \A e \in Endpoint : oldest[e] = 0 /\ floor[e] = 0
      /\ \A q \in Query : pc[q] = "idle"
      /\ \A e \in Endpoint : name[e] = e
  BY DEF Init, Query
<1>2. /\ addr \in [Endpoint -> Addr] /\ pinned \in [Endpoint -> Addr]
      /\ oldest \in [Endpoint -> Addr] /\ floor \in [Endpoint -> Addr]
  BY DEF Init, Addr
<1>3. /\ pc \in [Query -> {"idle", "start", "asked", "answered"} \cup Ended]
      /\ on \in [Query -> Path \cup {NoPath}]
      /\ got \in [Query -> Addr \cup {NoAddr}]
      /\ cache \in [Endpoint -> Addr \cup {NoAddr}]
  BY DEF Init
<1>4. name \in [Query -> Endpoint \cup {NoName}]
  BY DEF Init
<1>5. rpc = "sleep" /\ fail_cnt = 0 /\ calm = FALSE /\ healthy = Path /\ rule \in Rules
  BY DEF Init
<1>6. TypeOK
  <2>1. fail_cnt \in 0..(MaxFailures + 1)
    BY <1>5
  <2>2. calm \in BOOLEAN
    BY <1>5
  <2> QED BY <1>2, <1>3, <1>4, <1>5, <2>1, <2>2 DEF TypeOK
<1>7. Placed /\ Known /\ Recent
  BY <1>1 DEF Placed, Known, Recent, Found, Query
<1>8. Complete /\ Counted
  BY <1>5 DEF Complete, Counted
<1> QED BY <1>6, <1>7, <1>8 DEF IInv

\* A query ends: the address it returns is one, and for a lookup not newer
\* than the current one, nor below the floor unless it is cached or given.
LEMMA ReturnIInv ==
    ASSUME IInv, NEW q \in Query, NEW label \in Ended, NEW a \in Addr \cup {NoAddr},
           pc[q] \in {"idle", "start", "asked", "answered"}, Return(q, label, a),
           q \in Endpoint => /\ label \in Found => a \in Addr /\ a <= addr[q]
                             /\ label = "resolved" => floor[q] <= a,
           UNCHANGED <<envVars, healthy, resolverVars, floor>>,
           cache' \in [Endpoint -> Addr \cup {NoAddr}],
           \A e \in Endpoint : cache'[e] # NoAddr => cache'[e] <= addr[e]
    PROVE  IInv'
<1> USE ClientAssumption DEF IInv, Return, envVars, resolverVars, Query
<1>1. TypeOK'
  BY DEF TypeOK
<1>2. Placed'
  BY DEF TypeOK, Placed, Found, Ended
<1>3. Known'
  BY DEF TypeOK, Placed, Known, Found, Ended
<1>4. Recent'
  BY DEF TypeOK, Recent, Found, Ended
<1>5. Complete' /\ Counted'
  BY DEF TypeOK, Complete, Counted, Found
<1> QED BY <1>1, <1>2, <1>3, <1>4, <1>5

\* The lookups start or end: nothing has been found.
LEMMA LookupsIInv ==
    ASSUME IInv, NEW label \in {"start", "idle"},
           pc' = [q \in Query |-> IF q \in Endpoint THEN label ELSE pc[q]],
           got' = [q \in Query |-> IF q \in Endpoint THEN NoAddr ELSE got[q]],
           UNCHANGED <<envVars, healthy, cache, name, on>>,
           rpc' \in {"sleep", "primary", "fallback", "down"},
           fail_cnt' \in 0..(MaxFailures + 1), Counted',
           pinned' \in [Endpoint -> Addr], floor' \in [Endpoint -> Addr],
           \A e \in Endpoint : floor'[e] <= oldest[e],
           \A e \in Endpoint : pinned'[e] <= addr[e]
    PROVE  IInv'
<1> USE ClientAssumption DEF IInv, envVars, Query
<1>1. TypeOK'
  BY DEF TypeOK
<1>2. Placed'
  BY DEF TypeOK, Placed, Found
<1>3. Known'
  BY DEF TypeOK, Placed, Known, Found
<1>4. Recent' /\ Complete'
  BY DEF Recent, Complete
<1> QED BY <1>1, <1>2, <1>3, <1>4

LEMMA AskIInv ==
    ASSUME IInv, NEW q \in Query, Ask(q)
    PROVE  IInv'
<1> PICK e \in Endpoint :
        \/ Blocked(q, e) \/ Overridden(q, e) \/ Hit(q, e) \/ NoHealthyPath(q, e)
        \/ \E p \in Path : Miss(q, e, p)
  BY DEF Ask
<1> USE ClientAssumption DEF Starts
<1>1. /\ addr[e] \in Addr /\ cache \in [Endpoint -> Addr \cup {NoAddr}]
      /\ 0 \in Addr /\ 0 <= addr[e]
      /\ \A c \in Endpoint : cache[c] # NoAddr => cache[c] <= addr[c]
  BY DEF IInv, TypeOK, Known, Addr
<1>2. CASE Blocked(q, e) \/ NoHealthyPath(q, e)
  <2>1. /\ Return(q, "failed", NoAddr) /\ pc[q] \in {"idle", "start"}
        /\ UNCHANGED <<envVars, healthy, resolverVars, floor>> /\ cache' = cache
    BY <1>2 DEF Blocked, NoHealthyPath
  <2> QED BY <1>1, <2>1, ReturnIInv DEF Ended, Found
<1>3. CASE Overridden(q, e)
  <2>1. /\ Return(q, "given", 0) /\ pc[q] \in {"idle", "start"}
        /\ q \in Endpoint => q = e
        /\ UNCHANGED <<envVars, healthy, resolverVars, floor>> /\ cache' = cache
    BY <1>3 DEF Overridden
  <2> QED BY <1>1, <2>1, ReturnIInv DEF Ended, Found
<1>4. CASE Hit(q, e)
  <2>1. /\ Return(q, "cached", cache[e]) /\ pc[q] \in {"idle", "start"}
        /\ q \in Endpoint => q = e
        /\ UNCHANGED <<envVars, healthy, resolverVars, floor>> /\ cache' = cache
    BY <1>4 DEF Hit
  <2>2. cache[e] \in Addr /\ cache[e] <= addr[e]
    BY <1>1, <1>4 DEF Hit
  <2> QED BY <1>1, <2>1, <2>2, ReturnIInv DEF Ended, Found
<1>5. ASSUME NEW p \in Path, Miss(q, e, p)
      PROVE  IInv'
  <2>0. q \in Endpoint => q = e /\ pc[q] = "start"
    BY <1>5 DEF Miss
  <2> USE <1>5 DEF Miss, IInv, envVars, resolverVars, Query
  <2>1. TypeOK'
    BY DEF TypeOK
  <2>2. Placed'
    BY <2>0 DEF TypeOK, Placed, Found
  <2>3. Known'
    BY DEF TypeOK, Placed, Known, Found
  <2>4. Recent'
    BY DEF TypeOK, Recent
  <2>5. Complete'
    BY <2>0 DEF TypeOK, Complete, Found
  <2>6. Counted'
    BY DEF Counted
  <2> QED BY <2>1, <2>2, <2>3, <2>4, <2>5, <2>6
<1> QED BY <1>2, <1>3, <1>4, <1>5

LEMMA ProceedIInv ==
    ASSUME IInv, NEW q \in Query, Proceed(q)
    PROVE  IInv'
<1> USE ClientAssumption
<1>1. /\ cache \in [Endpoint -> Addr \cup {NoAddr}]
      /\ \A c \in Endpoint : cache[c] # NoAddr => cache[c] <= addr[c]
  BY DEF IInv, TypeOK, Known
<1>2. CASE Answered(q)
  <2>1. name[q] \in Endpoint /\ (q \in Endpoint => name[q] = q)
    BY <1>2 DEF Answered, IInv, Placed
  <2> USE <1>2, <2>1 DEF Answered, IInv, envVars, resolverVars, Query
  <2>2. /\ got'[q] \in Addr /\ got'[q] <= addr[name[q]]
        /\ oldest[name[q]] <= got'[q] /\ floor[name[q]] <= oldest[name[q]]
        /\ floor[name[q]] \in Nat /\ oldest[name[q]] \in Nat /\ got'[q] \in Nat
        /\ \A r \in Query \ {q} : got'[r] = got[r]
        /\ got' \in [Query -> Addr \cup {NoAddr}]
    BY DEF TypeOK, Known, Given, Addr
  <2>3. TypeOK'
    BY <2>2 DEF TypeOK
  <2>4. Placed'
    BY <2>2 DEF TypeOK, Placed, Found
  <2>5. Known'
    BY <2>2 DEF TypeOK, Placed, Known, Found
  <2>6. Recent'
    BY <2>2 DEF TypeOK, Known, Recent
  <2>7. Complete' /\ Counted'
    BY DEF TypeOK, Complete, Counted, Found
  <2> QED BY <2>3, <2>4, <2>5, <2>6, <2>7
<1>3. CASE Lost(q)
  <2>1. /\ Return(q, "failed", NoAddr) /\ pc[q] = "asked"
        /\ UNCHANGED <<envVars, healthy, resolverVars, floor>> /\ cache' = cache
    BY <1>3 DEF Lost
  <2>2. UNCHANGED addr
    BY <2>1 DEF envVars
  <2> QED BY <1>1, <2>1, <2>2, ReturnIInv DEF Ended, Found
<1>4. CASE Put(q)
  <2>1. /\ Return(q, "resolved", got[q]) /\ pc[q] = "answered"
        /\ UNCHANGED <<envVars, healthy, resolverVars, floor>>
        /\ cache' = [cache EXCEPT ![name[q]] = got[q]] \/ cache' = [cache EXCEPT ![name[q]] = cache[name[q]]]
    BY <1>4 DEF Put
  <2>2. /\ name[q] \in Endpoint /\ (q \in Endpoint => name[q] = q)
        /\ got[q] \in Addr /\ got[q] <= addr[name[q]]
        /\ q \in Endpoint => floor[q] <= got[q]
    BY <2>1 DEF IInv, Placed, Known, Recent
  <2>3. /\ cache' \in [Endpoint -> Addr \cup {NoAddr}]
        /\ \A c \in Endpoint : cache'[c] # NoAddr => cache'[c] <= addr[c]
    BY <1>1, <2>1, <2>2
  <2> QED BY <2>1, <2>2, <2>3, ReturnIInv DEF Ended, Found
<1> QED BY <1>2, <1>3, <1>4 DEF Proceed

LEMMA BootstrapIInv ==
    ASSUME IInv, NEW e \in Endpoint, Bootstrap(e)
    PROVE  IInv'
<1> USE ClientAssumption
<1>1. /\ cache \in [Endpoint -> Addr \cup {NoAddr}]
      /\ \A c \in Endpoint : cache[c] # NoAddr => cache[c] <= addr[c]
      /\ \A a \in Given(e) : a \in Addr /\ a <= addr[e] /\ floor[e] <= a
      /\ e \in Query
  BY DEF IInv, TypeOK, Known, Addr, Query, Given
<1>2. CASE BootstrapAnswers(e)
  <2>1. PICK a \in Given(e) :
        /\ Return(e, "resolved", a) /\ pc[e] = "start"
        /\ UNCHANGED <<envVars, healthy, resolverVars, floor>> /\ cache' = cache
    BY <1>2 DEF BootstrapAnswers
  <2> QED BY <1>1, <2>1, ReturnIInv DEF Ended, Found
<1>3. CASE BootstrapFails(e)
  <2>1. /\ Return(e, "failed", NoAddr) /\ pc[e] = "start"
        /\ UNCHANGED <<envVars, healthy, resolverVars, floor>> /\ cache' = cache
    BY <1>3 DEF BootstrapFails
  <2> QED BY <1>1, <2>1, ReturnIInv DEF Ended, Found
<1> QED BY <1>2, <1>3 DEF Bootstrap

LEMMA ResolveIInv ==
    ASSUME IInv, Resolve
    PROVE  IInv'
<1> USE ClientAssumption
<1>1. /\ pinned \in [Endpoint -> Addr] /\ \A e \in Endpoint : pinned[e] <= addr[e]
      /\ 0 \in Addr /\ oldest \in [Endpoint -> Addr] /\ \A e \in Endpoint : oldest[e] \in Nat
      /\ fail_cnt \in 0..(MaxFailures + 1)
      /\ rpc # "down" => fail_cnt <= MaxFailures
  BY DEF IInv, TypeOK, Known, Counted, Addr
<1>2. CASE Wake \/ Fallback
  <2>1. fail_cnt' = fail_cnt /\ pinned' = pinned /\ rpc' \in {"primary", "fallback"} /\ Counted'
    BY <1>1, <1>2 DEF Counted, Wake, Fallback, StartLookups
  <2> QED BY <1>1, <1>2, <2>1, LookupsIInv DEF Wake, Fallback, StartLookups
<1>3. CASE Fail
  <2>1. fail_cnt' \in 0..(MaxFailures + 1) /\ Counted'
    BY <1>1, <1>3 DEF Fail, Counted
  <2> QED BY <1>1, <1>3, <2>1, LookupsIInv DEF Fail, EndLookups
<1>4. CASE Success \/ Granted
  <2> USE <1>4 DEF Success, Granted, IInv, envVars, queryVars
  <2>1. TypeOK'
    BY DEF TypeOK
  <2>2. Placed' /\ Known' /\ Recent'
    BY DEF Placed, Known, Recent
  <2>3. Complete' /\ Counted'
    BY DEF Complete, Counted, Joined, SomeFailed, Ended
  <2> QED BY <2>1, <2>2, <2>3
<1>5. CASE Swapped
  <2>1. FoundEndpoint = Endpoint
    BY <1>5 DEF Swapped, IInv, Complete, FoundEndpoint
  <2>2. /\ [e \in Endpoint |-> got[e]] \in [Endpoint -> Addr]
        /\ \A e \in Endpoint : got[e] <= addr[e]
    BY <2>1 DEF IInv, Placed, Known, FoundEndpoint, Query
  <2>3. pinned' \in [Endpoint -> Addr] /\ \A e \in Endpoint : pinned'[e] <= addr[e]
    BY <1>1, <1>5, <2>1, <2>2 DEF Swapped
  <2>4. fail_cnt' \in 0..(MaxFailures + 1) /\ Counted'
    BY <1>1, <1>5 DEF Swapped, Counted
  <2> QED BY <1>1, <1>5, <2>3, <2>4, LookupsIInv DEF Swapped, EndLookups
<1> QED BY <1>2, <1>3, <1>4, <1>5 DEF Resolve

LEMMA NextIInv ==
    ASSUME IInv, [Next]_vars
    PROVE  IInv'
<1> USE ClientAssumption
<1>1. ASSUME NEW q \in Query, Ask(q) \/ Proceed(q) PROVE IInv'
  BY <1>1, AskIInv, ProceedIInv
<1>2. ASSUME NEW e \in Endpoint, Bootstrap(e) PROVE IInv'
  BY <1>2, BootstrapIInv
<1>3. ASSUME NEW e \in Endpoint, Leave(e) PROVE IInv'
  BY <1>3 DEF Leave, Counted, IInv, TypeOK, Placed, Known, Recent, Complete, envVars, queryVars, resolverVars
<1>4. ASSUME NEW p \in Path, Check(p) PROVE IInv'
  BY <1>4 DEF Check, CheckSucceeds, CheckFails, Counted, IInv, TypeOK, Placed, Known, Recent, Complete,
              envVars, queryVars, resolverVars
<1>5. CASE Resolve
  BY <1>5, ResolveIInv
<1>6. ASSUME NEW e \in Moving, Move(e) PROVE IInv'
  <2>1. /\ addr' \in [Endpoint -> Addr]
        /\ \A c \in Endpoint : addr[c] \in Nat /\ addr'[c] \in Nat /\ addr[c] <= addr'[c]
                             /\ oldest[c] \in Nat
    BY <1>6 DEF Move, IInv, TypeOK, Addr
  <2> USE <1>6 DEF Move, IInv, queryVars, resolverVars
  <2>2. TypeOK' /\ Placed' /\ Recent' /\ Complete' /\ Counted'
    BY <2>1 DEF TypeOK, Placed, Recent, Complete, Counted
  <2>3. Known'
    BY <2>1 DEF TypeOK, Placed, Known, Query, Addr
  <2> QED BY <2>2, <2>3
<1>7. CASE CalmsDown
  BY <1>7 DEF CalmsDown, Counted, IInv, TypeOK, Placed, Known, Recent, Complete, queryVars, resolverVars
<1>9. ASSUME NEW e \in Endpoint, Forget(e) PROVE IInv'
  <2>1. /\ oldest' \in [Endpoint -> Addr]
        /\ \A c \in Endpoint : oldest[c] \in Nat /\ oldest[c] <= oldest'[c] /\ oldest'[c] <= addr[c]
                             /\ floor[c] \in Nat /\ addr[c] \in Nat /\ oldest'[c] \in Nat
    BY <1>9 DEF Forget, IInv, TypeOK, Addr, Known
  <2> USE <1>9 DEF Forget, IInv, queryVars, resolverVars
  <2>2. TypeOK' /\ Placed' /\ Recent' /\ Complete' /\ Counted'
    BY <2>1 DEF TypeOK, Placed, Recent, Complete, Counted
  <2>3. Known'
    BY <2>1 DEF Known
  <2> QED BY <2>2, <2>3
<1>8. CASE UNCHANGED vars
  BY <1>8 DEF vars, IInv, Counted, TypeOK, Placed, Known, Recent, Complete, envVars, queryVars, resolverVars
<1> QED BY <1>1, <1>2, <1>3, <1>4, <1>5, <1>6, <1>7, <1>8, <1>9 DEF Next

LEMMA InvariantHolds == Spec => []IInv
<1> QED BY InitIInv, NextIInv, PTL DEF Spec

(* Every reachable state is typed: the client has an address for every     *)
(* endpoint whatever the lookups returned, and the count of failures does  *)
(* not exceed its limit by more than the failure that ends the service.    *)
THEOREM TypeCorrect == Spec => []TypeOK
<1> QED BY InvariantHolds, PTL DEF IInv

-----------------------------------------------------------------------------

(* For any endpoints, paths and queries, the resolution pins the client to *)
(* an address that nobody gave any more when its lookups began only        *)
(* because of a live record or of a rule.                                  *)
THEOREM PinsOldOnlyByCache == Spec => OldOnlyByCache
<1>1. ASSUME IInv, [Next]_vars
      PROVE  [\A e \in Endpoint :
                 rpc = "writing" /\ rpc' = "sleep" /\ pc[e] \notin {"cached", "given"}
                    => pinned'[e] >= floor[e]]_vars
  <2> SUFFICES ASSUME NEW e \in Endpoint, Next, rpc = "writing", rpc' = "sleep",
                      pc[e] \notin {"cached", "given"}
               PROVE  pinned'[e] >= floor[e]
    BY <1>1
  <2>1. Swapped
    BY DEF Next, Ask, Proceed, Blocked, Overridden, Hit, NoHealthyPath, Miss, Answered, Lost, Put,
           Leave, Bootstrap, BootstrapAnswers, BootstrapFails, Check, CheckSucceeds, CheckFails,
           Resolve, Wake, Success, Fallback, Fail, Granted, Move, Forget, CalmsDown, resolverVars
  <2>2. pc[e] = "resolved" /\ pinned'[e] = got[e]
    BY <1>1, <2>1 DEF Swapped, IInv, Complete, FoundEndpoint, Found
  <2>3. floor[e] <= got[e] /\ got[e] \in Nat /\ floor[e] \in Nat
    BY <1>1, <2>2 DEF IInv, TypeOK, Recent, Placed, Found, Query, Addr
  <2> QED BY <2>2, <2>3
<1> QED BY <1>1, InvariantHolds, PTL DEF Spec, OldOnlyByCache

-----------------------------------------------------------------------------
(* The refinement.                                                         *)

absVars == <<Resolution!lockVars, Resolution!resolutionVars>>

\* Both resolvers may find all endpoints, or fail.
LEMMA LookupOutcomes == Endpoint \in Resolution!Lookup /\ {} \in Resolution!Lookup
<1>1. Endpoint \in Resolution!AnsweredByDoH /\ {} \in Resolution!AnsweredByDoH
  BY DEF Resolution!AnsweredByDoH, Resolution!endpoints
<1>2. {} \in Resolution!AnsweredByBootstrap
  BY DEF Resolution!AnsweredByBootstrap
<1>3. Resolution!resolve_ips(Endpoint) = Endpoint /\ Resolution!resolve_ips({}) = {}
  BY DEF Resolution!resolve_ips, Resolution!endpoints
<1>4. Endpoint # {}
  BY ClientAssumption
<1>5. Endpoint \in Resolution!Lookup
  <2>1. (IF Resolution!resolve_ips(Endpoint) # {}
         THEN Resolution!resolve_ips(Endpoint) ELSE Resolution!resolve_ips({})) = Endpoint
    BY <1>3, <1>4
  <2>2. \E primary \in Resolution!AnsweredByDoH, fallback \in Resolution!AnsweredByBootstrap :
            Endpoint = IF Resolution!resolve_ips(primary) # {}
                       THEN Resolution!resolve_ips(primary) ELSE Resolution!resolve_ips(fallback)
    BY <1>1, <1>2, <2>1, Zenon
  <2> QED BY <2>2 DEF Resolution!Lookup
<1>6. {} \in Resolution!Lookup
  BY <1>1, <1>2, <1>3 DEF Resolution!Lookup
<1> QED BY <1>5, <1>6

\* A query, the network and the cache leave the resolution alone.
LEMMA QuietStep ==
    ASSUME IInv, resolverVars' = resolverVars,
           \A e \in Endpoint : pc[e] \in Found => pc'[e] = pc[e]
    PROVE  UNCHANGED absVars
<1>1. rpc' = rpc /\ fail_cnt' = fail_cnt /\ pinned' = pinned
  BY DEF resolverVars
<1>2. rpc \in {"write", "writing"} => FoundEndpoint' = FoundEndpoint
  BY DEF IInv, Complete, FoundEndpoint
<1> QED BY <1>1, <1>2 DEF absVars, Resolution!lockVars, Resolution!resolutionVars

LEMMA ResolveStep ==
    ASSUME IInv, Resolve
    PROVE  Resolution!ResolutionNext \/ UNCHANGED absVars
<1> USE DEF absVars, Resolution!lockVars, Resolution!resolutionVars
<1>1. CASE Wake \/ Fallback
  BY <1>1 DEF Wake, Fallback, StartLookups
<1>2. CASE Success
  <2>1. FoundEndpoint' = Endpoint
    BY <1>2 DEF Success, Joined, SomeFailed, FoundEndpoint, queryVars, Ended
  <2>2. Resolution!Ask("swap")
    BY <1>2 DEF Success, Resolution!Ask, Resolution!waiting
  <2>3. Endpoint \in Resolution!Lookup \ {{}}
    BY LookupOutcomes, ClientAssumption
  <2>4. Resolution!Resolved
    BY <1>2, <2>1, <2>2, <2>3 DEF Success, Resolution!Resolved
  <2> QED BY <2>4 DEF Resolution!ResolutionNext
<1>3. CASE Fail
  <2>1. Resolution!ResolutionFails
    BY <1>3, LookupOutcomes DEF Fail, EndLookups, Resolution!ResolutionFails, Resolution!lockVars
  <2> QED BY <2>1 DEF Resolution!ResolutionNext
<1>4. CASE Granted
  <2>1. Resolution!Grant
    BY <1>4 DEF Granted, Resolution!Grant, Resolution!Compatible, Resolution!Without,
                Resolution!waiting
  <2>2. FoundEndpoint' = FoundEndpoint
    BY <1>4 DEF Granted, FoundEndpoint, queryVars
  <2>3. Resolution!Grant /\ UNCHANGED Resolution!resolutionVars
    BY <1>4, <2>1, <2>2 DEF Granted, Resolution!resolutionVars
  <2> QED BY <2>3 DEF Resolution!ResolutionNext
<1>5. CASE Swapped
  <2>1. Resolution!Swapped
    BY <1>5 DEF Swapped, EndLookups, Resolution!Swapped, Resolution!Release
  <2> QED BY <2>1 DEF Resolution!ResolutionNext
<1> QED BY <1>1, <1>2, <1>3, <1>4, <1>5 DEF Resolve

(* A resolver that is the client itself is still one of the resolvers that *)
(* EndpointResolution allows: whatever queries, cache, rules and health    *)
(* checks do between its steps, a resolution swaps the client for all      *)
(* endpoints or counts a failure.                                          *)
THEOREM ResolvesByItself == Spec => ImplementsResolution
<1>1. Init => Resolution!LockInit /\ Resolution!ResolutionInit
  BY DEF Init, Resolution!LockInit, Resolution!ResolutionInit, Resolution!endpoints
<1>2. ASSUME IInv, [Next]_vars
      PROVE  [Resolution!ResolutionNext]_<<Resolution!lockVars, Resolution!resolutionVars>>
  <2>1. ASSUME NEW q \in Query, Ask(q) PROVE UNCHANGED absVars
    <3>1. resolverVars' = resolverVars
      BY <2>1 DEF Ask, Blocked, Overridden, Hit, NoHealthyPath, Miss
    <3>2. \A e \in Endpoint : pc[e] \in Found => pc'[e] = pc[e]
      BY <1>2, <2>1, ClientAssumption DEF Ask, Starts, Blocked, Overridden, Hit, NoHealthyPath, Miss, Return,
                        Found, IInv, TypeOK, Query
    <3> QED BY <1>2, <3>1, <3>2, QuietStep
  <2>2. ASSUME NEW q \in Query, Proceed(q) PROVE UNCHANGED absVars
    <3>1. resolverVars' = resolverVars
      BY <2>2 DEF Proceed, Answered, Lost, Put
    <3>2. \A e \in Endpoint : pc[e] \in Found => pc'[e] = pc[e]
      BY <1>2, <2>2 DEF Proceed, Answered, Lost, Put, Return, Found, IInv, TypeOK, Query
    <3> QED BY <1>2, <3>1, <3>2, QuietStep
  <2>3. ASSUME NEW e \in Endpoint, Bootstrap(e) PROVE UNCHANGED absVars
    <3>1. resolverVars' = resolverVars
      BY <2>3 DEF Bootstrap, BootstrapAnswers, BootstrapFails
    <3>2. \A c \in Endpoint : pc[c] \in Found => pc'[c] = pc[c]
      BY <1>2, <2>3 DEF Bootstrap, BootstrapAnswers, BootstrapFails, Return, Found, IInv, TypeOK, Query
    <3> QED BY <1>2, <3>1, <3>2, QuietStep
  <2>4. ASSUME \/ \E e \in Endpoint : Leave(e)
               \/ \E p \in Path : Check(p)
               \/ \E e \in Moving : Move(e)
               \/ \E e \in Endpoint : Forget(e)
               \/ CalmsDown
               \/ UNCHANGED vars
        PROVE  UNCHANGED absVars
    <3>1. resolverVars' = resolverVars /\ pc' = pc
      BY <2>4 DEF Leave, Check, CheckSucceeds, CheckFails, Move, Forget, CalmsDown, vars, queryVars
    <3> QED BY <1>2, <3>1, QuietStep
  <2>5. CASE Resolve
    BY <1>2, <2>5, ResolveStep DEF absVars
  <2> QED BY <1>2, <2>1, <2>2, <2>3, <2>4, <2>5 DEF Next, absVars
<1> QED BY <1>1, <1>2, InvariantHolds, PTL DEF Spec, ImplementsResolution, Resolution!ResolutionSpec

=============================================================================
