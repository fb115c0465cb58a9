--------------------------- MODULE OdohStore_proofs ---------------------------
(***************************************************************************)
(* What OdohStore says of the keys, of the lock around the HTTP client and *)
(* of the requests that wait for it, and of the endpoint resolution, for   *)
(* every set of targets, queries and endpoints and every number of keys.   *)
(***************************************************************************)
EXTENDS OdohStore, FiniteSetTheorems, WellFoundedInduction, TLAPS

\* k is a key that t has had.
Known(k, t) == \E n \in 1..key[t] : k = <<t, n>>

Pending == {None, Unasked, Queued}

Types ==
    /\ key \in [Target -> 1..MaxKey]
    /\ pc \in [Updater -> {"idle", "post", "update"}]
    /\ DOMAIN store = Target
    /\ target \in [Query -> Target \cup {None}]
    /\ DOMAIN used = Query
    /\ DOMAIN fetched = Updater
    /\ \A u \in Updater : fetched[u] = [t \in Target |-> fetched[u][t]]
    /\ outdated \in SUBSET Query

StoreKnown == \A t \in Target : store[t] = None \/ Known(store[t], t)

FetchedKnown ==
    \A u \in Updater, t \in Target : fetched[u][t] \in Pending \/ Known(fetched[u][t], t)

\* A query that has encrypted did so with a key of its target.
UsedKnown ==
    \A q \in Query : pc[q] # "idle" => target[q] \in Target /\ Known(used[q], target[q])

\* What an outdated query has fetched for its target is newer than its key.
FetchedNewer ==
    \A q \in outdated :
        /\ pc[q] = "update"
        /\ used[q] # <<target[q], key[target[q]]>>
        /\ fetched[q][target[q]] # used[q]

IInv == Types /\ StoreKnown /\ FetchedKnown /\ UsedKnown /\ FetchedNewer

-----------------------------------------------------------------------------

LEMMA PendingIsNoKey == \A t, k : Known(k, t) => k \notin Pending
BY DEF Known, Pending, None, Unasked, Queued

\* The keys that a target has had stay the keys that it has had.
LEMMA KnownKept ==
    ASSUME NEW t \in Target, NEW k, Known(k, t), key[t] \in Nat, key'[t] \in Nat,
           key[t] <= key'[t]
    PROVE  Known(k, t)'
BY DEF Known

\* Walked in the same order, keys() and into_iter() give every target the
\* result of its own fetch.
LEMMA ZipsByTarget ==
    ASSUME NEW u \in Updater, ReplaceStore(u)
    PROVE  store' = [t \in Target |-> fetched[u][t]]
<1>1. PICK order \in Iterations : store' = zipped(joined(u, order), order)
    BY DEF ReplaceStore
<1>2. ASSUME NEW t \in Target
      PROVE  joined(u, order)[CHOOSE i \in DOMAIN order : order[i] = t] = fetched[u][t]
    <2>. DEFINE place == CHOOSE i \in DOMAIN order : order[i] = t
    <2>1. place \in DOMAIN order /\ order[place] = t
        BY DEF Iterations
    <2>. QED  BY <2>1 DEF joined
<1>. QED  BY <1>1, <1>2 DEF zipped

LEMMA InitIInv == Init => IInv
<1>. SUFFICES ASSUME Init PROVE IInv
    OBVIOUS
<1>. USE OdohAssumption DEF Init
<1>1. Types
    BY DEF Types, NothingFetched, None
<1>2. StoreKnown
    BY DEF StoreKnown, Known
<1>3. FetchedKnown
    BY DEF FetchedKnown, NothingFetched, Pending
<1>4. UsedKnown /\ FetchedNewer
    BY DEF UsedKnown, FetchedNewer, Updater
<1>. QED  BY <1>1, <1>2, <1>3, <1>4 DEF IInv

LEMMA NextIInv == IInv /\ [Next]_vars => IInv'
<1>. SUFFICES ASSUME IInv, [Next]_vars PROVE IInv'
    OBVIOUS
<1>. USE OdohAssumption, PendingIsNoKey DEF IInv, Updater
<1>1. ASSUME UNCHANGED <<key, storeVars>> PROVE IInv'
    BY <1>1 DEF storeVars, Types, StoreKnown, FetchedKnown, UsedKnown, FetchedNewer, Known
<1>2. ASSUME NEW u \in Updater, NEW t \in Target, AskFetch(u, t) PROVE IInv'
    <2>. USE <1>2 DEF AskFetch
    <2>1. Types' /\ StoreKnown'
        BY DEF Types, StoreKnown, Known
    <2>2. FetchedKnown'
        BY DEF FetchedKnown, Types, Known, Pending
    <2>3. UsedKnown'
        BY DEF UsedKnown, Types, Known
    <2>4. FetchedNewer'
        <3>1. Queued \in Pending
            BY DEF Pending
        <3>. QED  BY <3>1 DEF FetchedNewer, UsedKnown, Types
    <2>. QED  BY <2>1, <2>2, <2>3, <2>4
<1>3. ASSUME NEW u \in Updater, NEW t \in Target, NEW result, FetchReturns(u, t, result),
             result = None \/ result = <<t, key[t]>>
      PROVE  IInv'
    <2>. USE <1>3 DEF FetchReturns
    <2>0. result = None \/ Known(result, t)
        BY DEF Known, Types
    <2>1. Types' /\ StoreKnown'
        BY DEF Types, StoreKnown, Known
    <2>2. FetchedKnown'
        BY <2>0 DEF FetchedKnown, Types, Known, Pending
    <2>3. UsedKnown'
        BY DEF UsedKnown, Types, Known
    <2>4. FetchedNewer'
        <3>1. None \in Pending
            BY DEF Pending
        <3>2. \A q \in outdated : used[q] # None
            BY <3>1 DEF FetchedNewer, UsedKnown, Types
        <3>. QED  BY <3>2 DEF FetchedNewer, Types
    <2>. QED  BY <2>1, <2>2, <2>3, <2>4
<1>4. ASSUME NEW u \in Updater, ReplaceStore(u) PROVE IInv'
    <2>0. store' = [t \in Target |-> fetched[u][t]]
        BY <1>4, ZipsByTarget
    <2>. USE <1>4, <2>0 DEF ReplaceStore, Finish, Goto, Joined
    <2>1. Types'
        BY DEF Types, NothingFetched
    <2>2. StoreKnown'
        BY DEF StoreKnown, FetchedKnown, Types, Known, Pending
    <2>3. FetchedKnown'
        BY DEF FetchedKnown, NothingFetched, Types, Known, Pending
    <2>4. UsedKnown'
        BY DEF UsedKnown, Types, Known
    <2>5. FetchedNewer'
        BY DEF FetchedNewer, Types
    <2>. QED  BY <2>1, <2>2, <2>3, <2>4, <2>5
<1>5. CASE WatchWakes
    <2>. USE <1>5 DEF WatchWakes, StartUpdate, Goto
    <2>1. Types' /\ StoreKnown'
        BY DEF Types, StoreKnown, Known
    <2>2. FetchedKnown'
        BY DEF FetchedKnown, Types, Known, Pending
    <2>3. UsedKnown' /\ FetchedNewer'
        BY DEF UsedKnown, FetchedNewer, Types, Known
    <2>. QED  BY <2>1, <2>2, <2>3
<1>6. ASSUME NEW q \in Query, NEW t \in Target, Encrypt(q, t) PROVE IInv'
    <2>. USE <1>6 DEF Encrypt, Goto
    <2>1. Types' /\ StoreKnown' /\ FetchedKnown'
        BY DEF Types, StoreKnown, FetchedKnown, Known
    <2>2. UsedKnown'
        BY DEF UsedKnown, StoreKnown, Types, Known
    <2>3. FetchedNewer'
        BY DEF FetchedNewer, Types
    <2>. QED  BY <2>1, <2>2, <2>3
<1>7. ASSUME NEW q \in Query, Finish(q), UNCHANGED <<key, store>> PROVE IInv'
    <2>. USE <1>7 DEF Finish, Goto
    <2>1. Types' /\ StoreKnown'
        BY DEF Types, StoreKnown, NothingFetched, Known
    <2>2. FetchedKnown'
        BY DEF FetchedKnown, NothingFetched, Types, Known, Pending
    <2>3. UsedKnown' /\ FetchedNewer'
        BY DEF UsedKnown, FetchedNewer, Types, Known
    <2>. QED  BY <2>1, <2>2, <2>3
<1>8. ASSUME NEW q \in Query, Rejected(q) PROVE IInv'
    <2>. USE <1>8 DEF Rejected, StartUpdate, Goto
    <2>1. Types' /\ StoreKnown'
        BY DEF Types, StoreKnown, Known
    <2>2. FetchedKnown'
        BY DEF FetchedKnown, Types, Known, Pending
    <2>3. UsedKnown'
        BY DEF UsedKnown, Types, Known
    <2>4. FetchedNewer'
        <3>1. Unasked \in Pending
            BY DEF Pending
        <3>2. target[q] \in Target /\ used[q] # Unasked
            BY <3>1 DEF UsedKnown
        <3>3. fetched'[q][target[q]] = Unasked
            BY <3>2 DEF Types
        <3>. QED  BY <3>2, <3>3 DEF FetchedNewer, Types
    <2>. QED  BY <2>1, <2>2, <2>3, <2>4
<1>9. ASSUME NEW t \in Rotating, RotateKey(t) PROVE IInv'
    <2>. USE <1>9 DEF RotateKey, storeVars
    <2>0. \A s \in Target : key[s] \in Nat /\ key'[s] \in Nat /\ key[s] <= key'[s]
        BY DEF Types
    <2>1. Types'
        BY DEF Types
    <2>2. StoreKnown' /\ FetchedKnown'
        BY <2>0, KnownKept DEF StoreKnown, FetchedKnown, Pending
    <2>3. UsedKnown'
        BY <2>0, KnownKept DEF UsedKnown
    <2>4. FetchedNewer'
        BY <2>0 DEF FetchedNewer, UsedKnown, Known, Types
    <2>. QED  BY <2>1, <2>2, <2>3, <2>4
<1>10. CASE UNCHANGED vars
    BY <1>1, <1>10 DEF vars
<1>11. CASE GrantLock \/ Resolution
    BY <1>1, <1>11 DEF GrantLock, Resolution
<1>. QED
    BY <1>1, <1>2, <1>3, <1>4, <1>5, <1>6, <1>7, <1>8, <1>9, <1>10, <1>11
       DEF Next, FetchSucceeds, FetchFails, NoKey, Answered, TimeOut

-----------------------------------------------------------------------------

(* A key in the store is always one that its target has had: no update     *)
(* assigns the key of a target to another.                                 *)
THEOREM KeysAreOwn == Spec => []OwnKey
<1>1. IInv => OwnKey
    BY OdohAssumption DEF IInv, OwnKey, StoreKnown, Known, Types
<1>. QED  BY <1>1, InitIInv, NextIInv, PTL DEF Spec

(* A query whose key the target has replaced does not leave that key in    *)
(* the store when its refetch completes.                                   *)
THEOREM OutdatedKeysLeave == Spec => OutdatedKeyLeaves
<1>1. ASSUME IInv, [Next]_vars
      PROVE  [\A q \in Query : q \in outdated /\ ReplaceStore(q)
                                  => store'[target[q]] # used[q]]_vars
    <2>1. \A q \in Query : ReplaceStore(q) => store' = [t \in Target |-> fetched[q][t]]
        BY ZipsByTarget DEF Updater
    <2>2. \A q \in outdated : target[q] \in Target
        BY <1>1 DEF IInv, FetchedNewer, UsedKnown, Types
    <2>. QED  BY <1>1, <2>1, <2>2 DEF IInv, FetchedNewer
<1>. QED  BY <1>1, InitIInv, NextIInv, PTL DEF Spec, OutdatedKeyLeaves

-----------------------------------------------------------------------------

(* What the endpoint resolution holds on to is complete.                   *)
PInv == AllPinned /\ (rpc = "write" => resolved = endpoints)

\* The two resolvers find all endpoints or nothing.
LEMMA LookupIsComplete == \A ips \in Lookup : ips = {} \/ ips = endpoints
BY DEF Lookup, resolve_ips

(* The client has addresses for every endpoint at any time, for any        *)
(* endpoints and whatever the resolvers answer.                            *)
THEOREM EveryEndpointPinned == Spec => []AllPinned
<1>1. Init => PInv
    BY DEF Init, ResolutionInit, PInv, AllPinned
<1>2. ASSUME PInv, [Next]_vars PROVE PInv'
    <2>. USE <1>2 DEF PInv, AllPinned
    <2>1. ASSUME UNCHANGED resolutionVars PROVE PInv'
        BY <2>1 DEF resolutionVars, endpoints
    <2>2. CASE Resolution
        <3>1. CASE Resolved
            BY <3>1, LookupIsComplete DEF Resolved, endpoints
        <3>2. CASE ResolutionFails
            BY <3>2 DEF ResolutionFails, endpoints
        <3>3. CASE Swapped
            BY <3>3 DEF Swapped, endpoints
        <3>. QED  BY <2>2, <3>1, <3>2, <3>3 DEF Resolution
    <2>3. CASE GrantLock \/ WatchWakes
        BY <2>1, <2>3 DEF GrantLock, WatchWakes
    <2>4. ASSUME NEW u \in Updater,
                 ReplaceStore(u) \/ \E t \in Target : AskFetch(u, t) \/ FetchSucceeds(u, t)
                                                     \/ FetchFails(u, t)
          PROVE  PInv'
        BY <2>1, <2>4 DEF ReplaceStore, AskFetch, FetchSucceeds, FetchFails, FetchReturns
    <2>5. ASSUME NEW q \in Query,
                 \/ \E t \in Target : NoKey(q, t) \/ Encrypt(q, t)
                 \/ Answered(q) \/ Rejected(q) \/ TimeOut(q)
          PROVE  PInv'
        BY <2>1, <2>5 DEF NoKey, Encrypt, Answered, Rejected, TimeOut, vars
    <2>6. ASSUME NEW t \in Rotating, RotateKey(t) PROVE PInv'
        BY <2>1, <2>6 DEF RotateKey
    <2>7. CASE UNCHANGED vars
        BY <2>1, <2>7 DEF vars
    <2>. QED  BY <1>2, <2>2, <2>3, <2>4, <2>5, <2>6, <2>7 DEF Next
<1>. QED  BY <1>1, <1>2, PTL DEF Spec, PInv

-----------------------------------------------------------------------------
(* The lock, whoever its requests are.                                     *)

\* ahead orders the queue, and the writer shares the lock with nobody.
Line ==
    /\ IsFiniteSet(waiting)
    /\ ahead \in [waiting -> SUBSET waiting]
    /\ \A r \in waiting : r \notin ahead[r]
    /\ \A r, s \in waiting : r = s \/ r \in ahead[s] \/ s \in ahead[r]
    /\ \A r, s \in waiting : r \in ahead[s] => ahead[r] \subseteq ahead[s]

Exclusive ==
    /\ Swap \in holders => holders = {Swap}
    /\ waiting \cap holders = {}

LEMMA WithoutLine ==
    ASSUME Line, NEW requests, ahead' = Without(requests)
    PROVE  Line' /\ waiting' = waiting \ requests
<1>. USE DEF Line, Without, waiting
<1>1. waiting' = waiting \ requests
    OBVIOUS
<1>2. IsFiniteSet(waiting \ requests)
    BY FS_Difference
<1>3. \A r \in waiting' : ahead'[r] = ahead[r] \ requests
    OBVIOUS
<1>. QED  BY <1>1, <1>2, <1>3

LEMMA AskLine ==
    ASSUME Line, Exclusive, NEW request, request \notin waiting \cup holders,
           Ask(request), UNCHANGED holders
    PROVE  Line' /\ Exclusive' /\ waiting' = waiting \cup {request}
<1>. USE DEF Line, Ask, waiting
<1>1. waiting' = waiting \cup {request}
    OBVIOUS
<1>2. IsFiniteSet(waiting \cup {request})
    BY FS_AddElement
<1>3. /\ ahead'[request] = waiting
      /\ \A r \in waiting : ahead'[r] = ahead[r]
    OBVIOUS
<1>4. Exclusive'
    BY <1>1 DEF Exclusive
<1>. QED  BY <1>1, <1>2, <1>3, <1>4

LEMMA GrantLine ==
    ASSUME Line, Exclusive, Grant
    PROVE  Line' /\ Exclusive' /\ waiting' \cup holders' = waiting \cup holders
<1>1. PICK r \in waiting : /\ Compatible(r)
                           /\ holders' = holders \cup {r}
                           /\ ahead' = Without({r})
    BY DEF Grant
<1>2. Line' /\ waiting' = waiting \ {r}
    BY <1>1, WithoutLine
<1>3. Exclusive'
    BY <1>1, <1>2 DEF Exclusive, Compatible
<1>. QED  BY <1>1, <1>2, <1>3

LEMMA ReleaseLine ==
    ASSUME Line, Exclusive, NEW request \in holders, Release(request), UNCHANGED ahead
    PROVE  /\ Line' /\ Exclusive'
           /\ waiting' \cup holders' = (waiting \cup holders) \ {request}
BY DEF Line, Exclusive, Release, waiting

LEMMA DropLine ==
    ASSUME Line, Exclusive, NEW requests, Drop(requests)
    PROVE  /\ Line' /\ Exclusive'
           /\ waiting' \cup holders' = (waiting \cup holders) \ requests
BY WithoutLine DEF Exclusive, Drop

-----------------------------------------------------------------------------

(* The requests of the store and of the endpoint resolution.               *)

\* Keys are only fetched in an update.
InUpdate ==
    \A u \in Updater, t \in Target : fetched[u][t] \in {Unasked, Queued} => pc[u] = "update"

\* The resolution has gone down when it has failed too often.
Counted == rpc # "down" => fail_cnt <= MaxFailures

LEMMA Markers ==
    /\ None # Unasked /\ None # Queued /\ Unasked # Queued
    /\ \A k \in Key : k \notin {None, Unasked, Queued}
BY DEF None, Unasked, Queued, Key

LEMMA Named ==
    /\ \A q \in Query : Post(q) \in Request /\ Post(q) # Swap
    /\ \A u \in Updater, t \in Target : Fetch(u, t) \in Request /\ Fetch(u, t) # Swap
    /\ Swap \in Request
    /\ \A q, r \in Query : Post(q) = Post(r) => q = r
    /\ \A u, v \in Updater, s, t \in Target : Fetch(u, s) = Fetch(v, t) => u = v /\ s = t
    /\ \A q \in Query, u \in Updater, t \in Target : Post(q) # Fetch(u, t)
<1>1. ASSUME NEW q \in Query PROVE Post(q) \in Request /\ Post(q) # Swap
    <2>1. Post(q) \in Updater \X (Target \cup {"post"})
        BY DEF Post, Updater
    <2>. QED  BY <2>1, RequestAssumption DEF Post, Request
<1>2. ASSUME NEW u \in Updater, NEW t \in Target
      PROVE  Fetch(u, t) \in Request /\ Fetch(u, t) # Swap
    <2>1. Fetch(u, t) \in Updater \X (Target \cup {"post"})
        BY DEF Fetch
    <2>. QED  BY <2>1, RequestAssumption DEF Fetch, Request
<1>3. Swap \in Request
    BY DEF Request
<1>4. \A q, r \in Query : Post(q) = Post(r) => q = r
    BY DEF Post
<1>5. \A u, v \in Updater, s, t \in Target : Fetch(u, s) = Fetch(v, t) => u = v /\ s = t
    BY DEF Fetch
<1>6. \A q \in Query, u \in Updater, t \in Target : Post(q) # Fetch(u, t)
    BY RequestAssumption DEF Post, Fetch
<1>. QED  BY <1>1, <1>2, <1>3, <1>4, <1>5, <1>6

\* The parts of TypeOK, for the steps that leave the other parts alone.
StoreTypes ==
    /\ key \in [Target -> 1..MaxKey]
    /\ store \in [Target -> Key \cup {None}]
    /\ pc \in [Updater -> {"idle", "post", "update"}]
    /\ target \in [Query -> Target \cup {None}]
    /\ used \in [Query -> Key \cup {None}]
    /\ fetched \in [Updater -> [Target -> Key \cup {None, Unasked, Queued}]]
    /\ outdated \in SUBSET Query

LInv ==
    /\ StoreTypes
    /\ ResolutionTypeOK
    /\ waiting \cup holders \subseteq Request
    /\ Line
    /\ RequestsAreAwaited
    /\ InUpdate
    /\ Counted

LEMMA InitLInv == Init => LInv
<1>. SUFFICES ASSUME Init PROVE LInv
    OBVIOUS
<1>. USE DEF Init, LockInit, ResolutionInit, NothingFetched
<1>1. waiting = {}
    BY DEF waiting
<1>2. key \in [Target -> 1..MaxKey]
    BY OdohAssumption
<1>2b. StoreTypes
    BY <1>2 DEF StoreTypes
<1>2c. ResolutionTypeOK
    BY ResolutionAssumption DEF ResolutionTypeOK
<1>3. Line
    BY <1>1, FS_EmptySet DEF Line
<1>4. RequestsAreAwaited /\ InUpdate
    BY <1>1, Markers DEF RequestsAreAwaited, InUpdate, Updater
<1>5. Counted
    BY ResolutionAssumption DEF Counted
<1>. QED  BY <1>1, <1>2b, <1>2c, <1>3, <1>4, <1>5 DEF LInv


\* A step of the resolution or of the lock alone.
LEMMA StoreUnchanged ==
    ASSUME StoreTypes, InUpdate, UNCHANGED <<key, storeVars>>
    PROVE  StoreTypes' /\ InUpdate'
BY DEF StoreTypes, InUpdate, storeVars

\* A step of the store alone.
LEMMA ResolutionUnchanged ==
    ASSUME ResolutionTypeOK, Counted, UNCHANGED resolutionVars
    PROVE  ResolutionTypeOK' /\ Counted'
BY DEF ResolutionTypeOK, Counted, resolutionVars, endpoints

LEMMA FinishTypes ==
    ASSUME StoreTypes, InUpdate, NEW u \in Updater, Finish(u), UNCHANGED key,
           store' \in [Target -> Key \cup {None}]
    PROVE  StoreTypes' /\ InUpdate'
<1>1. fetched' = [fetched EXCEPT ![u] = NothingFetched]
      /\ NothingFetched \in [Target -> Key \cup {None, Unasked, Queued}]
    BY DEF Finish, NothingFetched
<1>2. /\ fetched' \in [Updater -> [Target -> Key \cup {None, Unasked, Queued}]]
      /\ pc' \in [Updater -> {"idle", "post", "update"}]
    BY <1>1 DEF StoreTypes, Finish, Goto
<1>3. target' \in [Query -> Target \cup {None}] /\ used' \in [Query -> Key \cup {None}]
    BY DEF StoreTypes, Finish
<1>4. InUpdate'
    BY <1>1, Markers DEF StoreTypes, InUpdate, Finish, Goto, NothingFetched
<1>. QED  BY <1>2, <1>3, <1>4 DEF StoreTypes, Finish

LEMMA NextLInv == LInv /\ [Next]_vars => LInv'
<1>. SUFFICES ASSUME LInv, [Next]_vars PROVE LInv'
    OBVIOUS
<1>. USE DEF LInv
<1>0. Exclusive
    BY DEF RequestsAreAwaited, Exclusive
<1>1. CASE GrantLock
    <2>1. Line' /\ Exclusive' /\ waiting' \cup holders' = waiting \cup holders
        BY <1>0, <1>1, GrantLine DEF GrantLock
    <2>2. RequestsAreAwaited'
        BY <1>1, <2>1 DEF RequestsAreAwaited, Exclusive, GrantLock, storeVars, resolutionVars
    <2>. QED  BY <1>1, <2>1, <2>2, StoreUnchanged, ResolutionUnchanged DEF GrantLock
<1>2. ASSUME NEW u \in Updater, NEW t \in Target, AskFetch(u, t) PROVE LInv'
    <2>. USE <1>2 DEF AskFetch
    <2>1. Fetch(u, t) \notin waiting \cup holders
        BY Markers DEF RequestsAreAwaited
    <2>2. Line' /\ Exclusive' /\ waiting' = waiting \cup {Fetch(u, t)}
        BY <1>0, <2>1, AskLine
    <2>3. StoreTypes' /\ InUpdate'
        BY DEF StoreTypes, InUpdate
    <2>4. RequestsAreAwaited'
        BY <2>2, Markers, Named DEF RequestsAreAwaited, Exclusive, StoreTypes, resolutionVars
    <2>. QED  BY <2>2, <2>3, <2>4, Named, ResolutionUnchanged
<1>3. ASSUME NEW u \in Updater, NEW t \in Target, NEW result \in Key \cup {None},
             FetchReturns(u, t, result)
      PROVE  LInv'
    <2>. USE <1>3 DEF FetchReturns
    <2>1. /\ Line' /\ Exclusive'
          /\ waiting' \cup holders' = (waiting \cup holders) \ {Fetch(u, t)}
        BY <1>0, ReleaseLine
    <2>2. StoreTypes' /\ InUpdate'
        BY Markers DEF StoreTypes, InUpdate
    <2>3. RequestsAreAwaited'
        BY <2>1, Markers, Named DEF RequestsAreAwaited, Exclusive, StoreTypes, resolutionVars
    <2>. QED  BY <2>1, <2>2, <2>3, ResolutionUnchanged
<1>4. ASSUME NEW u \in Updater, ReplaceStore(u) PROVE LInv'
    <2>0. store' = [t \in Target |-> fetched[u][t]]
        BY <1>4, ZipsByTarget
    <2>. USE <1>4, <2>0 DEF ReplaceStore, Joined
    <2>1. \A t \in Target : fetched[u][t] \in Key \cup {None}
        BY DEF StoreTypes
    <2>2. StoreTypes' /\ InUpdate'
        BY <2>1, FinishTypes DEF StoreTypes
    <2>3. Line'
        BY DEF Line, lockVars, waiting
    <2>4. RequestsAreAwaited'
        BY Markers DEF RequestsAreAwaited, StoreTypes, lockVars, resolutionVars, waiting,
                       Finish, Goto, NothingFetched, Updater
    <2>. QED  BY <2>2, <2>3, <2>4, ResolutionUnchanged DEF lockVars, waiting
<1>5. CASE WatchWakes
    <2>. USE <1>5 DEF WatchWakes, StartUpdate
    <2>1. Watch \in Updater \ Query
        BY OdohAssumption DEF Updater
    <2>2. StoreTypes' /\ InUpdate'
        BY <2>1 DEF StoreTypes, InUpdate, Goto
    <2>3. Line'
        BY DEF Line, lockVars, waiting
    <2>4. \A t \in Target : fetched[Watch][t] # Queued
        BY <2>1 DEF InUpdate
    <2>5. RequestsAreAwaited'
        BY <2>1, <2>4, Markers DEF RequestsAreAwaited, StoreTypes, lockVars, resolutionVars,
                                   waiting, Goto, Updater
    <2>. QED  BY <2>2, <2>3, <2>5, ResolutionUnchanged DEF lockVars, waiting
<1>6. ASSUME NEW q \in Query, NEW t \in Target, Encrypt(q, t) PROVE LInv'
    <2>. USE <1>6 DEF Encrypt, Goto, Updater
    <2>1. Post(q) \notin waiting \cup holders
        BY DEF RequestsAreAwaited
    <2>2. Line' /\ Exclusive' /\ waiting' = waiting \cup {Post(q)}
        BY <1>0, <2>1, AskLine
    <2>3. StoreTypes' /\ InUpdate'
        BY DEF StoreTypes, InUpdate
    <2>4. RequestsAreAwaited'
        BY <2>2, Named DEF RequestsAreAwaited, Exclusive, StoreTypes, resolutionVars
    <2>. QED  BY <2>2, <2>3, <2>4, Named, ResolutionUnchanged
<1>7. ASSUME NEW q \in Query, Answered(q) PROVE LInv'
    <2>. USE <1>7 DEF Answered
    <2>1. /\ Line' /\ Exclusive'
          /\ waiting' \cup holders' = (waiting \cup holders) \ {Post(q)}
        BY <1>0, ReleaseLine
    <2>2. StoreTypes' /\ InUpdate'
        BY FinishTypes DEF StoreTypes, Updater
    <2>3. \A t \in Target : fetched[q][t] # Queued
        BY DEF InUpdate, Updater
    <2>4. RequestsAreAwaited'
        BY <2>1, <2>3, Markers, Named DEF RequestsAreAwaited, Exclusive, StoreTypes,
               resolutionVars, Finish, Goto, NothingFetched, Updater
    <2>. QED  BY <2>1, <2>2, <2>4, ResolutionUnchanged
<1>8. ASSUME NEW q \in Query, Rejected(q) PROVE LInv'
    <2>. USE <1>8 DEF Rejected, StartUpdate, Goto
    <2>1. /\ Line' /\ Exclusive'
          /\ waiting' \cup holders' = (waiting \cup holders) \ {Post(q)}
        BY <1>0, ReleaseLine
    <2>2. StoreTypes' /\ InUpdate'
        BY DEF StoreTypes, InUpdate, Updater
    <2>3. \A t \in Target : fetched[q][t] # Queued
        BY DEF InUpdate, Updater
    <2>4. RequestsAreAwaited'
        BY <2>1, <2>3, Markers, Named DEF RequestsAreAwaited, Exclusive, StoreTypes,
               resolutionVars, Updater
    <2>. QED  BY <2>1, <2>2, <2>4, ResolutionUnchanged
<1>9. ASSUME NEW q \in Query, TimeOut(q) PROVE LInv'
    <2>. USE <1>9 DEF TimeOut
    <2>. DEFINE Own == {Post(q)} \cup {Fetch(q, t) : t \in Target}
    <2>1. Line' /\ Exclusive' /\ waiting' \cup holders' = (waiting \cup holders) \ Own
        BY <1>0, DropLine
    <2>2. StoreTypes' /\ InUpdate'
        BY FinishTypes DEF StoreTypes, Updater
    <2>3. /\ Post(q) \in Own
          /\ \A t \in Target : Fetch(q, t) \in Own
          /\ Swap \notin Own
          /\ \A r \in Query \ {q} : Post(r) \notin Own
          /\ \A u \in Updater \ {q}, t \in Target : Fetch(u, t) \notin Own
        BY Named DEF Updater
    <2>. HIDE DEF Own
    <2>4. RequestsAreAwaited'
        BY <2>1, <2>3, Markers DEF RequestsAreAwaited, Exclusive, StoreTypes,
               resolutionVars, Finish, Goto, NothingFetched, Updater
    <2>. QED  BY <2>1, <2>2, <2>4, ResolutionUnchanged
<1>10. CASE Resolution
    <2>0. StoreTypes' /\ InUpdate'
        BY <1>10, StoreUnchanged DEF Resolution
    <2>1. CASE Resolved
        <3>. USE <2>1 DEF Resolved
        <3>1. Swap \notin waiting \cup holders
            BY DEF RequestsAreAwaited
        <3>2. Line' /\ Exclusive' /\ waiting' = waiting \cup {Swap}
            BY <1>0, <3>1, AskLine
        <3>3. ResolutionTypeOK' /\ Counted'
            BY LookupIsComplete DEF ResolutionTypeOK, Counted, endpoints
        <3>4. RequestsAreAwaited'
            BY <1>10, <3>2, Named DEF RequestsAreAwaited, Exclusive, Resolution, storeVars
        <3>. QED  BY <2>0, <3>2, <3>3, <3>4, Named
    <2>2. CASE ResolutionFails
        <3>. USE <2>2 DEF ResolutionFails, lockVars
        <3>1. ResolutionTypeOK' /\ Counted'
            BY ResolutionAssumption DEF ResolutionTypeOK, Counted, endpoints
        <3>2. Line'
            BY DEF Line, waiting
        <3>3. RequestsAreAwaited'
            BY <1>10 DEF RequestsAreAwaited, Resolution, storeVars, waiting
        <3>. QED  BY <2>0, <3>1, <3>2, <3>3 DEF waiting
    <2>3. CASE Swapped
        <3>. USE <2>3 DEF Swapped
        <3>1. /\ Line' /\ Exclusive'
              /\ waiting' \cup holders' = (waiting \cup holders) \ {Swap}
            BY <1>0, ReleaseLine
        <3>2. ResolutionTypeOK' /\ Counted'
            BY ResolutionAssumption DEF ResolutionTypeOK, Counted, endpoints
        <3>3. RequestsAreAwaited'
            BY <1>10, <3>1, Named DEF RequestsAreAwaited, Exclusive, Resolution, storeVars
        <3>. QED  BY <2>0, <3>1, <3>2, <3>3
    <2>. QED  BY <1>10, <2>1, <2>2, <2>3 DEF Resolution
<1>11. ASSUME NEW t \in Rotating, RotateKey(t) PROVE LInv'
    <2>. USE <1>11 DEF RotateKey, lockVars, storeVars
    <2>1. StoreTypes' /\ InUpdate'
        BY OdohAssumption DEF StoreTypes, InUpdate
    <2>2. Line'
        BY DEF Line, waiting
    <2>3. RequestsAreAwaited'
        BY DEF RequestsAreAwaited, waiting, resolutionVars
    <2>. QED  BY <2>1, <2>2, <2>3, ResolutionUnchanged DEF waiting
<1>12. CASE UNCHANGED vars
    <2>1. Line' /\ RequestsAreAwaited'
        BY <1>12 DEF vars, lockVars, storeVars, resolutionVars, Line, waiting, RequestsAreAwaited
    <2>. QED  BY <1>12, <2>1, StoreUnchanged, ResolutionUnchanged DEF vars, lockVars, waiting
<1>13. \A t \in Target : <<t, key[t]>> \in Key
    BY DEF StoreTypes, Key
<1>. QED
    BY <1>1, <1>2, <1>3, <1>4, <1>5, <1>6, <1>7, <1>8, <1>9, <1>10, <1>11, <1>12, <1>13
       DEF Next, FetchSucceeds, FetchFails, NoKey


-----------------------------------------------------------------------------

(* Every variable keeps its type, for any targets and queries and any      *)
(* number of keys and of tolerated failures.                               *)
THEOREM TypeCorrect == Spec => []TypeOK
<1>1. LInv => TypeOK
    BY DEF LInv, StoreTypes, Line, TypeOK
<1>. QED  BY <1>1, InitLInv, NextLInv, PTL DEF Spec

(* The client is swapped while nobody uses it, and every request that the  *)
(* lock knows is awaited, however queries time out, are rejected or end.   *)
THEOREM NoRequestLeftBehind == Spec => []RequestsAreAwaited
<1>1. LInv => RequestsAreAwaited
    BY DEF LInv
<1>. QED  BY <1>1, InitLInv, NextLInv, PTL DEF Spec

-----------------------------------------------------------------------------

\* Somebody is first in the queue, and only a holder can keep it waiting.
QueueMoves ==
    waiting # {} =>
       \E r \in waiting :
          /\ ahead[r] = {}
          /\ holders = {} => Compatible(r)

(* The requests never wait for each other: while some wait, one of them is *)
(* first, and it gets the lock when the requests that hold it have         *)
(* returned.                                                               *)
THEOREM NoDeadlockInTheQueue == Spec => []QueueMoves
<1>1. ASSUME Line, waiting # {} PROVE \E r \in waiting : ahead[r] = {}
    <2>. DEFINE Sets == {ahead[r] : r \in waiting}
    <2>1. Sets # {} /\ Sets \subseteq SUBSET waiting
        BY <1>1 DEF Line
    <2>2. Sets \subseteq FiniteSubsetsOf(waiting)
        <3>1. \A S \in SUBSET waiting : IsFiniteSet(S)
            BY <1>1, FS_Subset DEF Line
        <3>. QED  BY <2>1, <3>1 DEF FiniteSubsetsOf
    <2>3. \E S \in Sets : \A T \in Sets : <<T, S>> \notin StrictSubsetOrdering(waiting)
        <3>. HIDE DEF Sets
        <3>. QED  BY <2>1, <2>2, FS_StrictSubsetOrderingWellFounded, WFMin
    <2>4. PICK r \in waiting :
             \A s \in waiting : <<ahead[s], ahead[r]>> \notin StrictSubsetOrdering(waiting)
        BY <2>3
    <2>5. ASSUME NEW s \in ahead[r] PROVE FALSE
        <3>1. s \in waiting /\ ahead[s] \subseteq ahead[r] /\ s \notin ahead[s]
            BY <1>1, <2>5 DEF Line
        <3>2. ahead[s] \subseteq waiting /\ ahead[r] \subseteq waiting
            BY <1>1, <3>1 DEF Line
        <3>. QED  BY <2>4, <3>1, <3>2 DEF StrictSubsetOrdering
    <2>. QED  BY <2>5
<1>2. LInv => QueueMoves
    BY <1>1 DEF LInv, QueueMoves, Compatible
<1>. QED  BY <1>2, InitLInv, NextLInv, PTL DEF Spec

=============================================================================
