------------------------------- MODULE DnsCache -------------------------------
(***************************************************************************)
(* The cache of DNS responses (dap-lib/src/doh_client/cache.rs) and the    *)
(* queries of make_doh_query that use it: look up, on a miss fetch and     *)
(* put.  The map is behind one Mutex, but put takes it three times (size,  *)
(* pop_front, insert) and purge_expired_entries once for its snapshot and  *)
(* once per removal, so calls interleave between those sections; a query   *)
(* that times out (the tasks of ProxyServe) stops between any two.         *)
(*                                                                         *)
(* The linked hash map is a function from the cached requests to their     *)
(* objects, and its list the relation "nearer the front".  A message is    *)
(* abstracted to two TTLs, the least of its answers and the least of its   *)
(* other records; time is counted in ticks up to MaxTime.                  *)
(***************************************************************************)
EXTENDS Naturals, FiniteSets

CONSTANTS
    Key,            \* the requests (name, type and class) that are asked
    Caller,         \* the tasks that can be in make_doh_query at once
    MaxSize,        \* max_cache_size
    Ttl,            \* TTLs that upstream gives records, in seconds
    Tick,           \* ticks per second
    MaxTime,        \* bound on the clock
    None

ASSUME CacheAssumption ==
    /\ IsFiniteSet(Key)
    /\ IsFiniteSet(Caller) /\ Caller # {}
    /\ MaxSize \in Nat
    /\ Ttl \subseteq Nat
    /\ Tick \in Nat \ {0}
    /\ MaxTime \in Nat

Instants == 0..MaxTime

\* The answers of a message, and its name servers and additionals.
Section == {"answers", "rest"}
Message == [Section -> Ttl]

\* expire_at can lie beyond the clock's bound.
Object == [message : Message, create_at : Instants, expire_at : Nat]

ASSUME NoneAssumption == None \notin Object \cup Key

VARIABLES
    now,            \* Instant::now()
    cache,          \* cache[k]: the object of request k, or None
    older,          \* <<j, k>>: j is nearer the front than k
    pc,             \* pc[p]: the lock the task p waits for, or its next step
    key,            \* key[p]: the request p works on
    object,         \* object[p]: the object p found, or is about to insert
    snapshot,       \* what a purge still has to look at, of its clone of cache
    purging,        \* a purge is running
    origin          \* history: until when upstream's answers may be kept

vars == <<now, cache, older, pc, key, object, snapshot, purging, origin>>
callVars == <<pc, key, object>>
purgeVars == <<snapshot, purging>>

Nothing == [k \in Key |-> None]

Label == {"idle", "answer", "fetch", "size", "pop", "insert"}

TypeOK ==
    /\ now \in Instants
    /\ cache \in [Key -> Object \cup {None}]
    /\ older \in SUBSET (Key \X Key)
    /\ pc \in [Caller -> Label]
    /\ key \in [Caller -> Key \cup {None}]
    /\ object \in [Caller -> Object \cup {None}]
    /\ snapshot \in [Key -> [expire_at : Nat] \cup {None}]
    /\ purging \in BOOLEAN
    /\ origin \in [Key -> Nat]

\* Cache::new
Init ==
    /\ now = 0
    /\ cache = Nothing
    /\ older = {}
    /\ pc = [p \in Caller |-> "idle"]
    /\ key = [p \in Caller |-> None]
    /\ object = [p \in Caller |-> None]
    /\ snapshot = Nothing
    /\ purging = FALSE
    /\ origin = [k \in Key |-> 0]

Cached == {k \in Key : cache[k] # None}

Later(a, b) == IF a < b THEN b ELSE a

-----------------------------------------------------------------------------
(* The linked hash map.                                                    *)

expired(o) == o.expire_at < now

remained_ttl(o) == IF o.expire_at < now THEN 0 ELSE o.expire_at - now

\* Mutant: the records keep the TTLs they were cached with.
original_response(o) == o.message

\* What a client gets: the answers, but also the records of the other
\* sections, have what remains of the answers' TTL, in whole seconds.
build_response(o) == [s \in Section |-> remained_ttl(o) \div Tick]

Detached(k) == {pair \in older : k \notin {pair[1], pair[2]}}

\* LinkedHashMap::insert, which moves an entry that exists, and to_back.
ToBack(k) == older' = Detached(k) \cup ((Cached \ {k}) \X {k})

Insert(k, o) ==
    /\ cache' = [cache EXCEPT ![k] = o]
    /\ ToBack(k)

\* remove_entry; nothing happens when the request is not cached.
Remove(k) ==
    /\ cache' = [cache EXCEPT ![k] = None]
    /\ older' = Detached(k)

Front(k) == k \in Cached /\ \A j \in Cached \ {k} : <<k, j>> \in older

-----------------------------------------------------------------------------
(* make_doh_query, as far as the cache is concerned.                       *)

Return(p) ==
    /\ pc' = [pc EXCEPT ![p] = "idle"]
    /\ key' = [key EXCEPT ![p] = None]
    /\ object' = [object EXCEPT ![p] = None]

\* get: a hit moves to the back and is cloned.
GetHit(p, k) ==
    /\ pc[p] = "idle"
    /\ k \in Cached /\ ~expired(cache[k])
    /\ ToBack(k)
    /\ pc' = [pc EXCEPT ![p] = "answer"]
    /\ key' = [key EXCEPT ![p] = k]
    /\ object' = [object EXCEPT ![p] = cache[k]]
    /\ UNCHANGED <<now, cache, purgeVars, origin>>

\* get: an expired entry is removed, and counts as a miss.
GetMiss(p, k) ==
    /\ pc[p] = "idle"
    /\ k \in Cached => expired(cache[k])
    /\ Remove(k)
    /\ pc' = [pc EXCEPT ![p] = "fetch"]
    /\ key' = [key EXCEPT ![p] = k]
    /\ UNCHANGED <<now, object, purgeVars, origin>>

\* build_response(object[p]) is encoded and returned.
BuildResponse(p) ==
    /\ pc[p] = "answer"
    /\ Return(p)
    /\ UNCHANGED <<now, cache, older, purgeVars, origin>>

\* The response cannot be encoded: the query goes on as after a miss.
BuildFails(p) ==
    /\ pc[p] = "answer"
    /\ pc' = [pc EXCEPT ![p] = "fetch"]
    /\ object' = [object EXCEPT ![p] = None]
    /\ UNCHANGED <<now, cache, older, key, purgeVars, origin>>

\* Mutant: the two instants are swapped.
FetchedSwapped(p) ==
    /\ pc[p] = "fetch"
    /\ \E message \in Message :
          LET min_ttl == message["answers"]
              expire_at == now + min_ttl * Tick
          IN  /\ min_ttl # 0
              /\ object' = [object EXCEPT ![p] =
                     [message |-> message, create_at |-> expire_at, expire_at |-> now]]
              /\ origin' = [origin EXCEPT ![key[p]] = Later(@, expire_at)]
    /\ pc' = [pc EXCEPT ![p] = "size"]
    /\ UNCHANGED <<now, cache, older, key, purgeVars>>

\* The upstream answers with a cacheable response: put makes the object.
Fetched(p) ==
    /\ pc[p] = "fetch"
    /\ \E message \in Message :
          LET min_ttl == message["answers"]
              expire_at == now + min_ttl * Tick
          IN  /\ min_ttl # 0
              /\ object' = [object EXCEPT ![p] =
                     [message |-> message, create_at |-> now, expire_at |-> expire_at]]
              /\ origin' = [origin EXCEPT ![key[p]] = Later(@, expire_at)]
    /\ pc' = [pc EXCEPT ![p] = "size"]
    /\ UNCHANGED <<now, cache, older, key, purgeVars>>

\* No path, an upstream error, or a response put does not cache: neither
\* NoError nor NXDomain, no answer record, or a TTL of 0.
NotCacheable(p) ==
    /\ pc[p] = "fetch"
    /\ Return(p)
    /\ UNCHANGED <<now, cache, older, purgeVars, origin>>

\* Mutant: off by one.
PutSizeAbove(p) ==
    /\ pc[p] = "size"
    /\ pc' = [pc EXCEPT ![p] = IF Cardinality(Cached) > MaxSize THEN "pop" ELSE "insert"]
    /\ UNCHANGED <<now, cache, older, key, object, purgeVars, origin>>

\* put, first lock: self.size() >= self.max_size
PutSize(p) ==
    /\ pc[p] = "size"
    /\ pc' = [pc EXCEPT ![p] = IF Cardinality(Cached) >= MaxSize THEN "pop" ELSE "insert"]
    /\ UNCHANGED <<now, cache, older, key, object, purgeVars, origin>>

\* put, second lock: pop_front
PutPop(p) ==
    /\ pc[p] = "pop"
    /\ \E k \in Key : Front(k) /\ Remove(k)
    /\ pc' = [pc EXCEPT ![p] = "insert"]
    /\ UNCHANGED <<now, key, object, purgeVars, origin>>

\* pop_front finds nothing: "Invalid cache", which make_doh_query logs.
PutFails(p) ==
    /\ pc[p] = "pop"
    /\ Cached = {}
    /\ Return(p)
    /\ UNCHANGED <<now, cache, older, purgeVars, origin>>

\* put, third lock: insert
PutInsert(p) ==
    /\ pc[p] = "insert"
    /\ Insert(key[p], object[p])
    /\ Return(p)
    /\ UNCHANGED <<now, purgeVars, origin>>

\* The proxy's timeout drops the query while it waits.
TimeOut(p) ==
    /\ pc[p] \in {"fetch", "size", "pop", "insert"}
    /\ Return(p)
    /\ UNCHANGED <<now, cache, older, purgeVars, origin>>

-----------------------------------------------------------------------------
(* purge_expired_entries, spawned by the health check.  The iterator looks *)
(* at the clock when it reaches an entry; the order of the entries is left *)
(* open.                                                                   *)

PurgeSnapshot ==
    /\ ~purging
    /\ purging' = TRUE
    /\ snapshot' = [k \in Key |-> IF k \in Cached THEN [expire_at |-> cache[k].expire_at]
                                 ELSE None]
    /\ UNCHANGED <<now, cache, older, callVars, origin>>

\* Mutant: the removed entries are counted in the snapshot only.
PurgeCount(k) ==
    /\ purging
    /\ snapshot[k] # None /\ expired(snapshot[k])
    /\ snapshot' = [snapshot EXCEPT ![k] = None]
    /\ UNCHANGED <<now, cache, older, callVars, purging, origin>>

\* An expired entry of the snapshot: its request is removed from the cache.
PurgeRemove(k) ==
    /\ purging
    /\ snapshot[k] # None /\ expired(snapshot[k])
    /\ Remove(k)
    /\ snapshot' = [snapshot EXCEPT ![k] = None]
    /\ UNCHANGED <<now, callVars, purging, origin>>

PurgeSkip(k) ==
    /\ purging
    /\ snapshot[k] # None /\ ~expired(snapshot[k])
    /\ snapshot' = [snapshot EXCEPT ![k] = None]
    /\ UNCHANGED <<now, cache, older, callVars, purging, origin>>

PurgeReturn ==
    /\ purging
    /\ snapshot = Nothing
    /\ purging' = FALSE
    /\ UNCHANGED <<now, cache, older, callVars, snapshot, origin>>

-----------------------------------------------------------------------------

TimePasses ==
    /\ now < MaxTime
    /\ now' = now + 1
    /\ UNCHANGED <<cache, older, callVars, purgeVars, origin>>

CallerStep(p) ==
    \/ \E k \in Key : GetHit(p, k) \/ GetMiss(p, k)
    \/ BuildResponse(p) \/ BuildFails(p) \/ Fetched(p) \/ NotCacheable(p)
    \/ PutSize(p) \/ PutPop(p) \/ PutFails(p) \/ PutInsert(p) \/ TimeOut(p)

PurgeStep ==
    \/ PurgeSnapshot
    \/ \E k \in Key : PurgeRemove(k) \/ PurgeSkip(k)
    \/ PurgeReturn

Next == (\E p \in Caller : CallerStep(p)) \/ PurgeStep \/ TimePasses

Spec == Init /\ [][Next]_vars

\* The health check service comes back to the purge for ever, and the clock
\* runs up to its bound; nobody has to ask anything.
FairSpec == Spec /\ WF_vars(PurgeStep) /\ WF_vars(TimePasses)

-----------------------------------------------------------------------------
(* Properties.                                                             *)

Inserting == {p \in Caller : pc[p] = "insert"}

(* The three locks of put let the cache grow beyond max_size, but by less  *)
(* than the number of tasks that can be in put at once, whatever was       *)
(* popped, purged or given up in between.                                  *)
SizeBound ==
    Cardinality(Cached) + Cardinality(Inserting) + 1 <= MaxSize + Cardinality(Caller)

(* A cache of size 0 never keeps anything (every put fails at pop_front).  *)
ZeroSizeIsEmpty == MaxSize = 0 => Cached = {}

(* A client that is answered from the cache never keeps a record, of any   *)
(* section, longer than upstream allowed the answers to that request,      *)
(* however late the response is built and however puts of the same request *)
(* overtake each other.  A name server or an additional that had a smaller *)
(* TTL than the answers is kept longer than upstream allowed: cache.rs:50  *)
(* to 59 give it the TTL of the answers.  This is the bound it still has.  *)
NeverExtended ==
    \A p \in Caller :
       pc[p] = "answer" =>
          \A s \in Section :
             LET ttl == build_response(object[p])[s]
             IN  ttl # 0 => now + ttl * Tick <= origin[key[p]]

(* What the cache holds, or a put is about to insert, came from an answer  *)
(* of the upstream to the same request, with no more than its life time.   *)
FromUpstream ==
    /\ \A k \in Cached : cache[k].expire_at <= origin[k]
    /\ \A p \in Caller : object[p] # None => object[p].expire_at <= origin[key[p]]

(* An entry that expired is gone, or replaced by a fresh one, in the end,  *)
(* even if nobody asks for it again: the periodic purge removes it.        *)
ExpiredLeaves ==
    \A k \in Key : (k \in Cached /\ expired(cache[k])) ~> ~(k \in Cached /\ expired(cache[k]))

=============================================================================
