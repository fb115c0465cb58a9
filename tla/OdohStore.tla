------------------------------ MODULE OdohStore ------------------------------
(***************************************************************************)
(* The public keys of the oblivious targets                                *)
(* (dap-lib/src/doh_client/odoh_config_store.rs): queries encrypt with the *)
(* key of their target and refetch the keys of all targets when one is     *)
(* rejected, a watch service refetches them periodically, and all of this  *)
(* goes through the HTTP client that the endpoint resolution swaps         *)
(* (dap-lib/src/http_client/http_client_service.rs).                       *)
(*                                                                         *)
(* The store's own lock is held for one assignment at a time, so get and   *)
(* the replacement of the map are one step each.                           *)
(***************************************************************************)
EXTENDS EndpointResolution

CONSTANTS
    Target,         \* the targets, as in the path manager
    Query,          \* tasks in serve_oblivious_doh_query
    Watch,          \* the task of watch_service
    MaxKey,         \* bound: how many keys a target has over time
    Rotating        \* bound: the targets that change their key at all

ASSUME OdohAssumption ==
    /\ IsFiniteSet(Target)
    /\ Watch \notin Query
    /\ MaxKey \in Nat \ {0}
    /\ Rotating \subseteq Target

None == <<>>
Unasked == <<"unasked">>
Queued == <<"queued">>

\* Every key is of a target and has a number.
Key == Target \X (1..MaxKey)

Updater == Query \cup {Watch}

\* The requests that wait for the lock: a query's own, and the fetches.
Post(q) == <<q, "post">>
Fetch(u, t) == <<u, t>>
Request == (Query \X {"post"}) \cup (Updater \X Target) \cup {Swap}

\* The requests are told apart by their names.
ASSUME RequestAssumption ==
    /\ "post" \notin Target
    /\ Swap \notin Updater \X (Target \cup {"post"})

VARIABLES
    key,            \* environment: key[t] is the number of t's current key
    store,          \* inner: store[t] is the key in use, or None
    pc,             \* pc[u]: what an updater does
    target,         \* target[q]: the target q queries
    used,           \* used[q]: the key q has encrypted with
    fetched,        \* fetched[u][t]: Unasked, Queued, or what the fetch returned
    outdated        \* history: queries rejected because the key was old

storeVars == <<store, pc, target, used, fetched, outdated>>
vars == <<lockVars, key, storeVars, resolutionVars>>

TypeOK ==
    /\ key \in [Target -> 1..MaxKey]
    /\ store \in [Target -> Key \cup {None}]
    /\ pc \in [Updater -> {"idle", "post", "update"}]
    /\ target \in [Query -> Target \cup {None}]
    /\ used \in [Query -> Key \cup {None}]
    /\ fetched \in [Updater -> [Target -> Key \cup {None, Unasked, Queued}]]
    /\ outdated \in SUBSET Query
    /\ ResolutionTypeOK
    /\ waiting \cup holders \subseteq Request
    /\ ahead \in [waiting -> SUBSET waiting]

NothingFetched == [t \in Target |-> None]

\* ODoHConfigStore::new has fetched every key once, or failed to.
Init ==
    /\ LockInit
    /\ key = [t \in Target |-> 1]
    /\ store \in [Target -> Key \cup {None}]
    /\ \A t \in Target : store[t] \in {<<t, 1>>, None}
    /\ pc = [u \in Updater |-> "idle"]
    /\ target = [q \in Query |-> None]
    /\ used = [q \in Query |-> None]
    /\ fetched = [u \in Updater |-> NothingFetched]
    /\ outdated = {}
    /\ ResolutionInit

Goto(u, label) == pc' = [pc EXCEPT ![u] = label]

-----------------------------------------------------------------------------
(* update_odoh_config_from_well_known                                      *)

StartUpdate(u) == fetched' = [fetched EXCEPT ![u] = [t \in Target |-> Unasked]]

\* join_all polls the fetch of every target once, and each asks for the lock;
\* tasks on other threads may ask between two of them.
AskFetch(u, t) ==
    /\ pc[u] = "update"
    /\ fetched[u][t] = Unasked
    /\ fetched' = [fetched EXCEPT ![u][t] = Queued]
    /\ Ask(Fetch(u, t))
    /\ UNCHANGED <<holders, key, store, pc, target, used, outdated, resolutionVars>>

\* Mutant: the guards live until the fetches of all targets are joined.
ReturnKeepingGuard(u, t, result) ==
    /\ Fetch(u, t) \in holders
    /\ fetched[u][t] = Queued
    /\ fetched' = [fetched EXCEPT ![u][t] = result]
    /\ IF \E s \in Target \ {t} : fetched[u][s] \in {Unasked, Queued}
       THEN UNCHANGED holders
       ELSE holders' = holders \ {Fetch(u, s) : s \in Target}
    /\ UNCHANGED <<ahead, key, store, pc, target, used, outdated, resolutionVars>>

\* send returns and the guard is dropped.
FetchReturns(u, t, result) ==
    /\ Fetch(u, t) \in holders
    /\ Release(Fetch(u, t))
    /\ fetched' = [fetched EXCEPT ![u][t] = result]
    /\ UNCHANGED <<ahead, key, store, pc, target, used, outdated, resolutionVars>>

FetchSucceeds(u, t) == FetchReturns(u, t, <<t, key[t]>>)

\* No answer, a status that is not OK, a body that cannot be read or parsed.
FetchFails(u, t) == FetchReturns(u, t, None)

Joined(u) ==
    /\ pc[u] = "update"
    /\ \A t \in Target : fetched[u][t] \notin {Unasked, Queued}

Finish(u) ==
    /\ Goto(u, "idle")
    /\ fetched' = [fetched EXCEPT ![u] = NothingFetched]
    /\ target' = IF u \in Query THEN [target EXCEPT ![u] = None] ELSE target
    /\ used' = IF u \in Query THEN [used EXCEPT ![u] = None] ELSE used
    /\ outdated' = outdated \ {u}

\* Mutant: a target whose fetch failed keeps the key it had.
KeepOnFailure(u) ==
    /\ Joined(u)
    /\ store' = [t \in Target |-> IF fetched[u][t] = None THEN store[t] ELSE fetched[u][t]]
    /\ Finish(u)
    /\ UNCHANGED <<lockVars, key, resolutionVars>>

\* The orders in which a map over the targets can be walked.
Iterations ==
    {s \in [1..Cardinality(Target) -> Target] : \A t \in Target : \E i \in DOMAIN s : s[i] = t}

\* join_all keeps the order of the futures, which is that of keys().
joined(u, keys) == [i \in DOMAIN keys |-> fetched[u][keys[i]]]

\* zip and collect: the i-th result goes to the i-th target of entries.
zipped(results, entries) ==
    [t \in Target |-> results[CHOOSE i \in DOMAIN entries : entries[i] = t]]

\* Mutant: the results are zipped with the store as it is when they are
\* there, a map that another update may have built.
ReplaceZippedWithStore(u) ==
    /\ Joined(u)
    /\ \E keys, entries \in Iterations : store' = zipped(joined(u, keys), entries)
    /\ Finish(u)
    /\ UNCHANGED <<lockVars, key, resolutionVars>>

\* The whole map is replaced, by failures as well.  keys() and into_iter()
\* walk the same clone of the map, in an order that is left open.
ReplaceStore(u) ==
    /\ Joined(u)
    /\ \E order \in Iterations : store' = zipped(joined(u, order), order)
    /\ Finish(u)
    /\ UNCHANGED <<lockVars, key, resolutionVars>>

\* Mutant: the watch only fetches when a key is missing.
WatchIfMissing ==
    /\ pc[Watch] = "idle"
    /\ \E t \in Target : store[t] = None
    /\ Goto(Watch, "update")
    /\ StartUpdate(Watch)
    /\ UNCHANGED <<lockVars, key, store, target, used, outdated, resolutionVars>>

\* The sleep of ODOH_CONFIG_WATCH_DELAY ends.
WatchWakes ==
    /\ pc[Watch] = "idle"
    /\ Goto(Watch, "update")
    /\ StartUpdate(Watch)
    /\ UNCHANGED <<lockVars, key, store, target, used, outdated, resolutionVars>>

-----------------------------------------------------------------------------
(* serve_oblivious_doh_query                                               *)

\* A target without a key fails the query at once, and nothing is refetched.
NoKey(q, t) ==
    /\ pc[q] = "idle"
    /\ store[t] = None
    /\ UNCHANGED vars

Encrypt(q, t) ==
    /\ pc[q] = "idle"
    /\ store[t] # None
    /\ target' = [target EXCEPT ![q] = t]
    /\ used' = [used EXCEPT ![q] = store[t]]
    /\ Goto(q, "post")
    /\ Ask(Post(q))
    /\ UNCHANGED <<holders, key, store, fetched, outdated, resolutionVars>>

\* The answer ends the query: a response that decrypts if the key is the
\* current one, an error, or anything without a content length, 401 as well.
Answered(q) ==
    /\ pc[q] = "post"
    /\ Post(q) \in holders
    /\ Release(Post(q))
    /\ Finish(q)
    /\ UNCHANGED <<ahead, key, store, resolutionVars>>

\* 401, or 200 with length 0.  Targets say so when the key is not theirs any
\* more; a relay may also say it for reasons of its own.
Rejected(q) ==
    /\ pc[q] = "post"
    /\ Post(q) \in holders
    /\ Release(Post(q))
    /\ Goto(q, "update")
    /\ StartUpdate(q)
    /\ outdated' = IF used[q] # <<target[q], key[target[q]]>> THEN outdated \cup {q}
                   ELSE outdated
    /\ UNCHANGED <<ahead, key, store, target, used, resolutionVars>>

\* Mutant: the fetches are spawned, and go on when the query is dropped.
TimeOutLeavingFetches(q) ==
    /\ pc[q] # "idle"
    /\ Drop({Post(q)})
    /\ Finish(q)
    /\ UNCHANGED <<key, store, resolutionVars>>

\* The timeout around make_doh_query drops the query, or its refetch.
TimeOut(q) ==
    /\ pc[q] # "idle"
    /\ Drop({Post(q)} \cup {Fetch(q, t) : t \in Target})
    /\ Finish(q)
    /\ UNCHANGED <<key, store, resolutionVars>>

-----------------------------------------------------------------------------
(* The endpoint resolution, which shares the lock.                         *)

Resolution == (Resolved \/ ResolutionFails \/ Swapped) /\ UNCHANGED <<key, storeVars>>

-----------------------------------------------------------------------------
(* The targets.                                                            *)

RotateKey(t) ==
    /\ key[t] < MaxKey
    /\ key' = [key EXCEPT ![t] = @ + 1]
    /\ UNCHANGED <<lockVars, storeVars, resolutionVars>>

GrantLock == Grant /\ UNCHANGED <<key, storeVars, resolutionVars>>

-----------------------------------------------------------------------------

Next ==
    \/ GrantLock
    \/ \E u \in Updater : ReplaceStore(u) \/ \E t \in Target : AskFetch(u, t) \/ FetchSucceeds(u, t) \/ FetchFails(u, t)
    \/ WatchWakes
    \/ \E q \in Query : \/ \E t \in Target : NoKey(q, t) \/ Encrypt(q, t)
                        \/ Answered(q) \/ Rejected(q) \/ TimeOut(q)
    \/ Resolution
    \/ \E t \in Rotating : RotateKey(t)

Spec == Init /\ [][Next]_vars

\* Locks are granted, requests return or run into the client's timeout, the
\* watch sleeps for an hour at most.  Nobody has to query, and targets and
\* endpoint resolution do as they like.
Fairness ==
    /\ WF_vars(GrantLock)
    /\ \A u \in Updater : WF_vars(ReplaceStore(u))
    /\ \A u \in Updater, t \in Target : /\ WF_vars(AskFetch(u, t))
                                      /\ WF_vars(FetchSucceeds(u, t) \/ FetchFails(u, t))
    /\ \A q \in Query : WF_vars(Answered(q) \/ Rejected(q))
    /\ WF_vars(WatchWakes)
    /\ WF_vars(Resolution /\ rpc = "write")

FairSpec == Spec /\ Fairness

-----------------------------------------------------------------------------
(* Properties.                                                             *)

(* A target's key in the store is one that this target has had: results    *)
(* carry no target, and are assigned by their place alone, failed ones     *)
(* among them.                                                             *)
OwnKey ==
    \A t \in Target : store[t] # None => store[t][1] = t /\ store[t][2] <= key[t]

(* A refetch that follows a rejection of an outdated key, and is not cut   *)
(* off by the query's timeout, does not leave that key in the store.       *)
OutdatedKeyLeaves ==
    [][\A q \in Query : q \in outdated /\ ReplaceStore(q) => store'[target[q]] # used[q]]_vars

(* A key fetched with a query or by the watch never blocks: the fetches of *)
(* one update share the lock with a writer that waits between them.        *)
UpdateEnds == \A u \in Updater : pc[u] = "update" ~> pc[u] = "idle"

(* Nobody uses the client while it is swapped, and every request that      *)
(* waits for it or holds it is one that somebody still waits for: no       *)
(* timeout, rejection or failed fetch leaves a guard or a place in the     *)
(* queue behind, which would stop the endpoint resolution for good.        *)
RequestsAreAwaited ==
    /\ Swap \in holders => holders = {Swap}
    /\ waiting \cap holders = {}
    /\ \A q \in Query : Post(q) \in waiting \cup holders <=> pc[q] = "post"
    /\ \A u \in Updater, t \in Target :
          Fetch(u, t) \in waiting \cup holders <=> fetched[u][t] = Queued
    /\ Swap \in waiting \cup holders <=> rpc = "write"

(* The endpoint resolution gets to swap the client although requests hold  *)
(* the lock while they wait for responses, and keep coming.                *)
SwapHappens == rpc = "write" ~> rpc # "write"

(* The key of a target that answers every fetch from some time on is in    *)
(* the store for good, whatever the other targets do and whichever updates *)
(* overtake each other: the watch repairs what failed, late or cut off     *)
(* refetches have left.                                                    *)
KeyFollows ==
    \A t \in Target :
        <>[][\A u \in Updater : ~ FetchFails(u, t)]_vars => <>[](store[t] = <<t, key[t]>>)

=============================================================================
