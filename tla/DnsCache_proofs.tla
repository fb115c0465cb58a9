--------------------------- MODULE DnsCache_proofs ---------------------------
(***************************************************************************)
(* Proofs about DnsCache for every set of requests and callers, every size *)
(* and every set of TTLs.                                                  *)
(***************************************************************************)
EXTENDS DnsCache, FiniteSetTheorems, TLAPS

(* A task that is past its lookup works on a request; it has an object     *)
(* exactly while it answers with it or is about to insert it.              *)
Registers ==
    \A p \in Caller :
       /\ pc[p] # "idle" => key[p] \in Key
       /\ pc[p] \in {"idle", "fetch"} => object[p] = None
       /\ pc[p] \in {"answer", "size", "pop", "insert"} => object[p] \in Object

-----------------------------------------------------------------------------
(* Type correctness.                                                       *)

LEMMA QuotientBound ==
    \A x \in Nat, d \in Nat \ {0} : x \div d \in Nat /\ (x \div d) * d <= x
OBVIOUS

LEMMA ExpiryIsNat ==
    ASSUME TypeOK, NEW message \in Message
    PROVE  message["answers"] \in Nat /\ now + message["answers"] * Tick \in Nat
<1> DEFINE ttl == message["answers"]
<1>1. ttl \in Nat
  BY CacheAssumption DEF Message, Section
<1>2. now \in Nat /\ Tick \in Nat
  BY CacheAssumption DEF TypeOK, Instants
<1>3. ttl \in Nat /\ now + ttl * Tick \in Nat
  <2> HIDE DEF ttl
  <2> QED BY <1>1, <1>2
<1> QED BY <1>3

LEMMA NoneIsNoObject == None \notin Object /\ None \notin Key
BY NoneAssumption

\* What the map operations do to the set of cached requests.
LEMMA InsertCaches ==
    ASSUME TypeOK, NEW k \in Key, NEW o \in Object, Insert(k, o)
    PROVE  Cached' = Cached \cup {k}
BY NoneIsNoObject DEF TypeOK, Insert, Cached

LEMMA RemoveUncaches ==
    ASSUME TypeOK, NEW k \in Key, Remove(k)
    PROVE  Cached' = Cached \ {k}
BY DEF TypeOK, Remove, Cached

LEMMA ListOpsTyped ==
    ASSUME TypeOK, NEW k \in Key
    PROVE  /\ Remove(k) => older' \in SUBSET (Key \X Key)
                           /\ cache' \in [Key -> Object \cup {None}]
           /\ ToBack(k) => older' \in SUBSET (Key \X Key)
           /\ \A o \in Object : Insert(k, o) => /\ older' \in SUBSET (Key \X Key)
                                               /\ cache' \in [Key -> Object \cup {None}]
BY DEF TypeOK, Remove, ToBack, Insert, Detached, Cached

TypeInv == TypeOK /\ Registers

LEMMA InitTypeInv == Init => TypeInv
<1> SUFFICES ASSUME Init PROVE TypeInv
  OBVIOUS
<1> USE DEF Init, Nothing
<1>1. Registers
  BY DEF Registers
<1>2. now \in Instants
  BY CacheAssumption DEF Instants
<1>3. /\ pc \in [Caller -> Label]
      /\ key \in [Caller -> Key \cup {None}]
      /\ object \in [Caller -> Object \cup {None}]
  BY DEF Label
<1>4. /\ cache \in [Key -> Object \cup {None}]
      /\ snapshot \in [Key -> [expire_at : Nat] \cup {None}]
      /\ origin \in [Key -> Nat]
      /\ older \in SUBSET (Key \X Key) /\ purging \in BOOLEAN
  OBVIOUS
<1> QED BY <1>1, <1>2, <1>3, <1>4 DEF TypeInv, TypeOK

LEMMA ReturnTyped ==
    ASSUME TypeInv, NEW p \in Caller, Return(p)
    PROVE  /\ pc' \in [Caller -> Label]
           /\ key' \in [Caller -> Key \cup {None}]
           /\ object' \in [Caller -> Object \cup {None}]
           /\ Registers'
BY DEF TypeInv, TypeOK, Registers, Return, Label

LEMMA CallerTyped ==
    ASSUME TypeInv, NEW p \in Caller, CallerStep(p)
    PROVE  TypeInv'
<1> USE DEF TypeInv, TypeOK
<1>1. ASSUME NEW k \in Key, GetHit(p, k) PROVE TypeInv'
  <2>1. older' \in SUBSET (Key \X Key)
    BY <1>1, ListOpsTyped DEF GetHit
  <2>2. cache[k] \in Object
    BY <1>1 DEF GetHit, Cached
  <2> QED BY <1>1, <2>1, <2>2 DEF GetHit, Registers, Label, purgeVars
<1>2. ASSUME NEW k \in Key, GetMiss(p, k) PROVE TypeInv'
  <2>1. older' \in SUBSET (Key \X Key) /\ cache' \in [Key -> Object \cup {None}]
    BY <1>2, ListOpsTyped DEF GetMiss
  <2> QED BY <1>2, <2>1 DEF GetMiss, Registers, Label, purgeVars
<1>3. CASE BuildResponse(p)
  BY <1>3, ReturnTyped DEF BuildResponse, purgeVars
<1>4. CASE Fetched(p)
  <2>1. key[p] \in Key
    BY <1>4 DEF Fetched, Registers
  <2>2. PICK message \in Message :
           /\ object' = [object EXCEPT ![p] =
                  [message |-> message, create_at |-> now,
                   expire_at |-> now + message["answers"] * Tick]]
           /\ origin' = [origin EXCEPT ![key[p]] = Later(@, now + message["answers"] * Tick)]
    BY <1>4 DEF Fetched
  <2> DEFINE ttl == message["answers"]
  <2>3. ttl \in Nat /\ now + ttl * Tick \in Nat
    BY <2>2, ExpiryIsNat
  <2>4. [message |-> message, create_at |-> now, expire_at |-> now + ttl * Tick] \in Object
    BY <2>3 DEF Object
  <2>5. Later(origin[key[p]], now + ttl * Tick) \in Nat
    BY <2>1, <2>3 DEF Later
  <2>6. object' \in [Caller -> Object \cup {None}] /\ origin' \in [Key -> Nat]
    BY <2>1, <2>2, <2>4, <2>5
  <2>7. object'[p] \in Object /\ \A q \in Caller : q # p => object'[q] = object[q]
    BY <2>2, <2>4
  <2> QED BY <1>4, <2>1, <2>6, <2>7 DEF Fetched, Registers, Label, purgeVars
<1>5. CASE NotCacheable(p) \/ PutFails(p) \/ TimeOut(p)
  <2>1. Return(p)
    BY <1>5 DEF NotCacheable, PutFails, TimeOut
  <2> QED BY <1>5, <2>1, ReturnTyped DEF NotCacheable, PutFails, TimeOut, purgeVars
<1>6. CASE PutSize(p)
  BY <1>6 DEF PutSize, Registers, Label, purgeVars
<1>7. CASE PutPop(p)
  <2>1. older' \in SUBSET (Key \X Key) /\ cache' \in [Key -> Object \cup {None}]
    BY <1>7, ListOpsTyped DEF PutPop
  <2> QED BY <1>7, <2>1 DEF PutPop, Registers, Label, purgeVars
<1>8. CASE PutInsert(p)
  <2>1. key[p] \in Key /\ object[p] \in Object /\ Return(p)
    BY <1>8 DEF PutInsert, Registers
  <2>2. older' \in SUBSET (Key \X Key) /\ cache' \in [Key -> Object \cup {None}]
    BY <1>8, <2>1, ListOpsTyped DEF PutInsert
  <2> QED BY <1>8, <2>1, <2>2, ReturnTyped DEF PutInsert, purgeVars
<1>9. CASE BuildFails(p)
  BY <1>9 DEF BuildFails, Registers, Label, purgeVars
<1> QED BY <1>1, <1>2, <1>3, <1>4, <1>5, <1>6, <1>7, <1>8, <1>9 DEF CallerStep

LEMMA NextTypeInv ==
    ASSUME TypeInv, [Next]_vars
    PROVE  TypeInv'
<1> USE DEF TypeInv, TypeOK
<1>1. CASE \E p \in Caller : CallerStep(p)
  BY <1>1, CallerTyped
<1>2. CASE PurgeStep
  <2>1. CASE PurgeSnapshot
    <3>1. \A k \in Cached : k \in Key /\ cache[k].expire_at \in Nat
      BY DEF Cached, Object
    <3> QED BY <2>1, <3>1 DEF PurgeSnapshot, Registers, callVars
  <2>4. CASE PurgeReturn
    BY <2>4 DEF PurgeReturn, Registers, callVars
  <2>2. ASSUME NEW k \in Key, PurgeSkip(k) PROVE TypeInv'
    BY <2>2 DEF PurgeSkip, Registers, callVars
  <2>3. ASSUME NEW k \in Key, PurgeRemove(k) PROVE TypeInv'
    <3>1. older' \in SUBSET (Key \X Key) /\ cache' \in [Key -> Object \cup {None}]
      BY <2>3, ListOpsTyped DEF PurgeRemove
    <3> QED BY <2>3, <3>1 DEF PurgeRemove, Registers, callVars
  <2> QED BY <1>2, <2>1, <2>2, <2>3, <2>4 DEF PurgeStep
<1>3. CASE TimePasses
  BY <1>3, CacheAssumption DEF TimePasses, Registers, callVars, purgeVars, Instants
<1>4. CASE UNCHANGED vars
  BY <1>4 DEF vars, Registers
<1> QED BY <1>1, <1>2, <1>3, <1>4 DEF Next

(* Every reachable state is typed, and a task inserts an object of the     *)
(* request it looked up.                                                   *)
THEOREM TypeCorrect == Spec => []TypeOK
<1>1. Spec => []TypeInv
  BY InitTypeInv, NextTypeInv, PTL DEF Spec
<1> QED BY <1>1, PTL DEF TypeInv

-----------------------------------------------------------------------------
(* The size.  What stays bounded is the number of entries plus the number  *)
(* of tasks that have made room, or found room, and not inserted yet.      *)

LEMMA SizesAreNat ==
    /\ IsFiniteSet(Cached) /\ Cardinality(Cached) \in Nat
    /\ IsFiniteSet(Inserting) /\ Cardinality(Inserting) \in Nat
    /\ Cardinality(Caller) \in Nat /\ Cardinality(Inserting) <= Cardinality(Caller)
    /\ Cardinality(Caller) >= 1
<1>1. Cached \subseteq Key /\ Inserting \subseteq Caller
  BY DEF Cached, Inserting
<1>2. IsFiniteSet(Cached) /\ IsFiniteSet(Inserting) /\ Cardinality(Inserting) <= Cardinality(Caller)
  BY <1>1, CacheAssumption, FS_Subset
<1>3. Cardinality(Caller) \in Nat /\ Cardinality(Caller) # 0
  BY CacheAssumption, FS_CardinalityType, FS_EmptySet
<1> QED BY <1>2, <1>3, FS_CardinalityType

\* Steps that cache nothing and let nobody reach the insert.
LEMMA ShrinkKeepsSize ==
    ASSUME SizeBound, Cached' \subseteq Cached, Inserting' \subseteq Inserting
    PROVE  SizeBound'
<1>1. /\ IsFiniteSet(Cached') /\ Cardinality(Cached') <= Cardinality(Cached)
      /\ IsFiniteSet(Inserting') /\ Cardinality(Inserting') <= Cardinality(Inserting)
  BY SizesAreNat, FS_Subset
<1>2. Cardinality(Cached') \in Nat /\ Cardinality(Inserting') \in Nat
  BY <1>1, FS_CardinalityType
<1> QED BY <1>1, <1>2, SizesAreNat, CacheAssumption DEF SizeBound

LEMMA CallerKeepsSize ==
    ASSUME TypeInv, SizeBound, NEW p \in Caller, CallerStep(p)
    PROVE  SizeBound'
<1>0. TypeOK
  BY DEF TypeInv
<1>1. CASE PutSize(p) /\ pc'[p] = "insert"
  <2>1. Cached' = Cached /\ Cardinality(Cached) < MaxSize
    <3>1. Cached' = Cached
      BY <1>1 DEF PutSize, Cached
    <3>2. ~(Cardinality(Cached) >= MaxSize)
      BY <1>0, <1>1 DEF PutSize, TypeOK
    <3> QED BY <3>1, <3>2, SizesAreNat, CacheAssumption
  <2>2. Inserting' \subseteq Caller
    BY DEF Inserting
  <2>3. IsFiniteSet(Inserting') /\ Cardinality(Inserting') <= Cardinality(Caller)
    BY <2>2, CacheAssumption, FS_Subset
  <2>4. Cardinality(Inserting') \in Nat
    BY <2>3, FS_CardinalityType
  <2> QED BY <2>1, <2>3, <2>4, SizesAreNat, CacheAssumption DEF SizeBound
<1>2. CASE PutPop(p)
  <2>1. PICK k \in Key : k \in Cached /\ Remove(k)
    BY <1>2 DEF PutPop, Front
  <2>2. Cached' = Cached \ {k}
    BY <1>0, <2>1, RemoveUncaches
  <2>3. Inserting' = Inserting \cup {p} /\ p \notin Inserting
    BY <1>0, <1>2 DEF PutPop, Inserting, TypeOK
  <2>4. Cardinality(Cached') = Cardinality(Cached) - 1
    BY <2>1, <2>2, SizesAreNat, FS_RemoveElement
  <2>5. Cardinality(Inserting') = Cardinality(Inserting) + 1
    BY <2>3, SizesAreNat, FS_AddElement
  <2> QED BY <2>4, <2>5, SizesAreNat, CacheAssumption DEF SizeBound
<1>3. CASE PutInsert(p)
  <2>1. key[p] \in Key /\ object[p] \in Object
    BY <1>3 DEF PutInsert, TypeInv, Registers
  <2>2. Cached' = Cached \cup {key[p]}
    BY <1>0, <1>3, <2>1, InsertCaches DEF PutInsert
  <2>3. Inserting' = Inserting \ {p} /\ p \in Inserting
    BY <1>0, <1>3 DEF PutInsert, Return, Inserting, TypeOK
  <2>4. Cardinality(Cached') \in {Cardinality(Cached), Cardinality(Cached) + 1}
    BY <2>2, SizesAreNat, FS_AddElement
  <2>5. Cardinality(Inserting') = Cardinality(Inserting) - 1
    BY <2>3, SizesAreNat, FS_RemoveElement
  <2> QED BY <2>4, <2>5, SizesAreNat, CacheAssumption DEF SizeBound
<1>4. CASE PutSize(p) /\ pc'[p] # "insert"
  <2>1. Cached' \subseteq Cached /\ Inserting' \subseteq Inserting
    BY <1>0, <1>4 DEF PutSize, Cached, Inserting, TypeOK
  <2> QED BY <2>1, ShrinkKeepsSize
<1>5. CASE \E k \in Key : GetHit(p, k) \/ GetMiss(p, k)
  <2>1. Inserting' \subseteq Inserting
    BY <1>0, <1>5 DEF GetHit, GetMiss, Inserting, TypeOK
  <2>2. Cached' \subseteq Cached
    <3>1. CASE \E k \in Key : GetHit(p, k)
      BY <3>1 DEF GetHit, Cached
    <3>2. ASSUME NEW k \in Key, GetMiss(p, k) PROVE Cached' \subseteq Cached
      BY <1>0, <3>2, RemoveUncaches DEF GetMiss
    <3> QED BY <1>5, <3>1, <3>2
  <2> QED BY <2>1, <2>2, ShrinkKeepsSize
<1>6. CASE BuildResponse(p) \/ BuildFails(p) \/ NotCacheable(p) \/ PutFails(p) \/ TimeOut(p)
          \/ Fetched(p)
  <2>1. Cached' \subseteq Cached
    BY <1>6 DEF BuildResponse, BuildFails, NotCacheable, PutFails, TimeOut, Fetched, Cached
  <2>2. Inserting' \subseteq Inserting
    BY <1>0, <1>6 DEF BuildResponse, BuildFails, NotCacheable, PutFails, TimeOut, Fetched,
       Return, Inserting, TypeOK
  <2> QED BY <2>1, <2>2, ShrinkKeepsSize
<1> QED BY <1>1, <1>2, <1>3, <1>4, <1>5, <1>6 DEF CallerStep

LEMMA NextKeepsSize ==
    ASSUME TypeInv, SizeBound, [Next]_vars
    PROVE  SizeBound'
<1>0. TypeOK
  BY DEF TypeInv
<1>1. CASE \E p \in Caller : CallerStep(p)
  BY <1>1, CallerKeepsSize
<1>2. CASE PurgeStep
  <2>1. Inserting' = Inserting
    BY <1>2 DEF PurgeStep, PurgeSnapshot, PurgeRemove, PurgeSkip, PurgeReturn, callVars, Inserting
  <2>2. Cached' \subseteq Cached
    <3>1. ASSUME NEW k \in Key, PurgeRemove(k) PROVE Cached' \subseteq Cached
      BY <1>0, <3>1, RemoveUncaches DEF PurgeRemove
    <3>2. CASE cache' = cache
      BY <3>2 DEF Cached
    <3> QED BY <1>2, <3>1, <3>2 DEF PurgeStep, PurgeSnapshot, PurgeSkip, PurgeReturn
  <2> QED BY <2>1, <2>2, ShrinkKeepsSize
<1>3. CASE TimePasses \/ UNCHANGED vars
  <2>1. Cached' = Cached /\ Inserting' = Inserting
    BY <1>3 DEF TimePasses, vars, callVars, Cached, Inserting
  <2> QED BY <2>1, ShrinkKeepsSize
<1> QED BY <1>1, <1>2, <1>3 DEF Next

(* The cache exceeds max_cache_size by less than the number of tasks that  *)
(* can be in put at the same time.                                         *)
THEOREM SizeIsBounded == Spec => []SizeBound
<1>1. Init => SizeBound
  <2> SUFFICES ASSUME Init PROVE SizeBound
    OBVIOUS
  <2>1. Cached = {} /\ Inserting = {}
    BY DEF Init, Nothing, Cached, Inserting
  <2> QED BY <2>1, SizesAreNat, FS_EmptySet, CacheAssumption DEF SizeBound
<1> QED BY <1>1, InitTypeInv, NextTypeInv, NextKeepsSize, PTL DEF Spec

-----------------------------------------------------------------------------
(* Life times.  An object is no older than upstream's answers allow, and   *)
(* a response that is built from it at any later time ends with it.        *)

LEMMA CallerKeepsLifeTimes ==
    ASSUME TypeInv, FromUpstream, NEW p \in Caller, CallerStep(p)
    PROVE  FromUpstream'
<1>0. TypeOK
  BY DEF TypeInv
<1>00. None \notin Object
  BY NoneIsNoObject
<1> USE DEF TypeOK
<1>1. ASSUME NEW k \in Key, GetHit(p, k) PROVE FromUpstream'
  BY <1>0, <1>1 DEF GetHit, FromUpstream, Cached
<1>2. ASSUME NEW k \in Key, GetMiss(p, k) PROVE FromUpstream'
  BY <1>0, <1>2 DEF GetMiss, Remove, FromUpstream, Cached, TypeInv, Registers
<1>3. CASE BuildResponse(p) \/ NotCacheable(p) \/ PutFails(p) \/ TimeOut(p)
  <2>1. Return(p) /\ UNCHANGED <<cache, origin>>
    BY <1>3 DEF BuildResponse, NotCacheable, PutFails, TimeOut
  <2> QED BY <1>0, <2>1 DEF Return, FromUpstream, Cached
<1>4. CASE Fetched(p)
  <2>1. key[p] \in Key
    BY <1>4 DEF Fetched, TypeInv, Registers
  <2>2. PICK message \in Message :
           /\ object' = [object EXCEPT ![p] =
                  [message |-> message, create_at |-> now,
                   expire_at |-> now + message["answers"] * Tick]]
           /\ origin' = [origin EXCEPT ![key[p]] = Later(@, now + message["answers"] * Tick)]
    BY <1>4 DEF Fetched
  <2> DEFINE expire_at == now + message["answers"] * Tick
  <2>3. expire_at \in Nat
    BY <1>0, <2>2, ExpiryIsNat
  <2>4. /\ object'[p].expire_at = expire_at
        /\ \A q \in Caller : q # p => object'[q] = object[q]
    BY <1>0, <2>2
  <2>5. UNCHANGED <<cache, key>>
    BY <1>4 DEF Fetched
  <2>6. origin' = [origin EXCEPT ![key[p]] = Later(@, expire_at)]
    BY <2>2
  <2> HIDE DEF expire_at
  <2>7. /\ origin \in [Key -> Nat] /\ origin' \in [Key -> Nat]
        /\ \A k \in Key : origin[k] <= origin'[k]
        /\ expire_at <= origin'[key[p]]
    BY <1>0, <2>1, <2>6, <2>3 DEF Later
  <2>8. \A k \in Cached' : cache'[k].expire_at <= origin'[k]
    <3>1. \A k \in Cached : cache[k].expire_at \in Nat
      BY <1>0 DEF Cached, Object
    <3> QED BY <2>5, <2>7, <3>1 DEF FromUpstream, Cached
  <2>9. \A q \in Caller : object'[q] # None => object'[q].expire_at <= origin'[key'[q]]
    <3>1. \A q \in Caller : object[q] # None =>
             object[q].expire_at \in Nat /\ key[q] \in Key
      BY <1>0 DEF TypeInv, Registers, Object, Label
    <3> QED BY <2>4, <2>5, <2>7, <3>1 DEF FromUpstream
  <2> QED BY <2>8, <2>9 DEF FromUpstream
<1>5. CASE BuildFails(p)
  BY <1>0, <1>5 DEF BuildFails, FromUpstream, Cached
<1>6. CASE PutSize(p)
  BY <1>6 DEF PutSize, FromUpstream, Cached
<1>7. CASE PutPop(p)
  BY <1>0, <1>7 DEF PutPop, Remove, FromUpstream, Cached
<1>8. CASE PutInsert(p)
  <2>1. key[p] \in Key /\ object[p] \in Object /\ object[p].expire_at <= origin[key[p]]
    BY <1>00, <1>8 DEF PutInsert, TypeInv, Registers, FromUpstream
  <2> QED BY <1>0, <1>8, <2>1 DEF PutInsert, Insert, Return, FromUpstream, Cached
<1> QED BY <1>1, <1>2, <1>3, <1>4, <1>5, <1>6, <1>7, <1>8 DEF CallerStep

LEMMA NextKeepsLifeTimes ==
    ASSUME TypeInv, FromUpstream, [Next]_vars
    PROVE  FromUpstream'
<1>0. TypeOK
  BY DEF TypeInv
<1>1. CASE \E p \in Caller : CallerStep(p)
  BY <1>1, CallerKeepsLifeTimes
<1>2. ASSUME NEW k \in Key, PurgeRemove(k) PROVE FromUpstream'
  BY <1>0, <1>2 DEF PurgeRemove, Remove, callVars, FromUpstream, Cached, TypeOK
<1>3. CASE UNCHANGED <<cache, callVars, origin>>
  BY <1>3 DEF callVars, FromUpstream, Cached
<1> QED BY <1>1, <1>2, <1>3 DEF Next, PurgeStep, PurgeSnapshot, PurgeSkip, PurgeReturn,
        TimePasses, vars, callVars

(* What is cached for a request, or about to be, came from upstream's      *)
(* answer to that request and expires no later than that answer.           *)
THEOREM CachedIsFromUpstream == Spec => []FromUpstream
<1>1. Init => FromUpstream
  BY DEF Init, Nothing, FromUpstream, Cached
<1> QED BY <1>1, InitTypeInv, NextTypeInv, NextKeepsLifeTimes, PTL DEF Spec

\* The remaining TTL is cut to whole seconds, never rounded up.
LEMMA ResponseEndsWithObject ==
    ASSUME TypeInv, FromUpstream
    PROVE  NeverExtended
<1> SUFFICES ASSUME NEW p \in Caller, pc[p] = "answer", NEW s \in Section,
                    build_response(object[p])[s] # 0
             PROVE  now + build_response(object[p])[s] * Tick <= origin[key[p]]
  BY DEF NeverExtended
<1> DEFINE left == remained_ttl(object[p])
           ttl == left \div Tick
<1>1. build_response(object[p])[s] = ttl
  BY DEF build_response
<1>2. key[p] \in Key /\ object[p] \in Object /\ object[p].expire_at <= origin[key[p]]
  BY NoneIsNoObject DEF TypeInv, Registers, FromUpstream
<1>3. now \in Nat /\ object[p].expire_at \in Nat /\ origin[key[p]] \in Nat
  BY <1>2 DEF TypeInv, TypeOK, Instants, Object
<1>4. left \in Nat /\ (left = 0 \/ now + left = object[p].expire_at)
  BY <1>3 DEF remained_ttl
<1>5. ttl \in Nat /\ ttl * Tick <= left /\ ttl * Tick \in Nat
  BY <1>4, QuotientBound, CacheAssumption
<1>6. left = 0 => ttl = 0
  BY CacheAssumption
<1> HIDE DEF left, ttl
<1> QED BY <1>1, <1>2, <1>3, <1>4, <1>5, <1>6

(* No client keeps a record that it was answered from the cache, of any    *)
(* section, longer than the upstream's TTLs allow the answers.             *)
THEOREM TtlNeverExtended == Spec => []NeverExtended
<1>1. Spec => [](TypeInv /\ FromUpstream)
  BY InitTypeInv, NextTypeInv, CachedIsFromUpstream, PTL DEF Spec
<1> QED BY <1>1, ResponseEndsWithObject, PTL

-----------------------------------------------------------------------------
(* A cache of size 0.                                                      *)

ZeroInv == MaxSize = 0 => Cached = {} /\ Inserting = {}

LEMMA NextKeepsZero ==
    ASSUME TypeInv, ZeroInv, [Next]_vars
    PROVE  ZeroInv'
<1> SUFFICES ASSUME MaxSize = 0 PROVE Cached' = {} /\ Inserting' = {}
  BY DEF ZeroInv
<1>0. TypeOK /\ Cached = {} /\ Inserting = {}
  BY DEF TypeInv, ZeroInv
<1>1. ASSUME NEW p \in Caller, CallerStep(p) PROVE Cached' = {} /\ Inserting' = {}
  <2>1. ~PutPop(p) /\ ~PutInsert(p)
    BY <1>0 DEF PutPop, Front, PutInsert, Inserting
  <2>2. CASE PutSize(p)
    <3>1. pc' = [pc EXCEPT ![p] = "pop"]
      BY <2>2, SizesAreNat DEF PutSize
    <3> QED BY <1>0, <2>2, <3>1 DEF PutSize, Cached, Inserting, TypeOK
  <2>3. ASSUME NEW k \in Key, GetHit(p, k) \/ GetMiss(p, k)
        PROVE  Cached' = {} /\ Inserting' = {}
    <3>1. GetMiss(p, k) /\ Remove(k)
      BY <1>0, <2>3 DEF GetHit, GetMiss
    <3>2. Cached' = {}
      BY <1>0, <3>1, RemoveUncaches
    <3> QED BY <1>0, <3>1, <3>2 DEF GetMiss, Inserting, TypeOK
  <2>4. CASE BuildResponse(p) \/ BuildFails(p) \/ Fetched(p) \/ NotCacheable(p)
             \/ PutFails(p) \/ TimeOut(p)
    BY <1>0, <2>4 DEF BuildResponse, BuildFails, Fetched, NotCacheable, PutFails, TimeOut, Return,
       Cached, Inserting, TypeOK
  <2> QED BY <1>1, <2>1, <2>2, <2>3, <2>4 DEF CallerStep
<1>2. ASSUME NEW k \in Key, PurgeRemove(k) PROVE Cached' = {} /\ Inserting' = {}
  <2>1. Cached' = {}
    BY <1>0, <1>2, RemoveUncaches DEF PurgeRemove
  <2> QED BY <1>0, <1>2, <2>1 DEF PurgeRemove, callVars, Inserting
<1>3. CASE UNCHANGED <<cache, pc>>
  BY <1>0, <1>3 DEF Cached, Inserting
<1> QED BY <1>1, <1>2, <1>3 DEF Next, PurgeStep, PurgeSnapshot, PurgeSkip, PurgeReturn,
        TimePasses, vars, callVars

(* With max_cache_size = 0 nothing is ever cached.                         *)
THEOREM ZeroSizeCachesNothing == Spec => []ZeroSizeIsEmpty
<1>1. Init => ZeroInv
  BY DEF Init, Nothing, ZeroInv, Cached, Inserting
<1>2. ZeroInv => ZeroSizeIsEmpty
  BY DEF ZeroInv, ZeroSizeIsEmpty
<1> QED BY <1>1, <1>2, InitTypeInv, NextTypeInv, NextKeepsZero, PTL DEF Spec

=============================================================================
