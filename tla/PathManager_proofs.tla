-------------------------- MODULE PathManager_proofs --------------------------
(***************************************************************************)
(* Theorems on the conversion of configurations and on the paths, for any  *)
(* sequence of versions of the file and any environment; and on get_path,  *)
(* for any configuration: the machine of PathHealth shares no variable     *)
(* with that of PathManager.                                               *)
(***************************************************************************)
EXTENDS PathManager, PathHealth, FiniteSetTheorems, SequenceTheorems, TLAPS

(* try_into accepts nothing that DoHPathManager::new does not rely on.     *)
LEMMA ConversionAccepted ==
    ASSUME NEW toml \in TomlType, ~BadPaths(toml)
    PROVE  Accepted(proxy_config(toml))
<1> DEFINE c == proxy_config(toml)
<1>1. c.odoh \in BOOLEAN /\ c.target_randomization \in BOOLEAN /\ c.odoh_relay_randomization \in BOOLEAN
  <2>1. toml.target_randomization \in BOOLEAN \cup {Unset}
        /\ toml.odoh_relay_randomization \in BOOLEAN \cup {Unset}
    BY DEF TomlType, Opt
  <2>2. \A option \in BOOLEAN \cup {Unset} : or_default(option, TRUE) \in BOOLEAN
    BY Zenon DEF or_default
  <2> QED
    BY <2>1, <2>2, Zenon DEF proxy_config, Relayed
<1>2. ASSUME NEW urls \in Seq(Url), verified(urls)
      PROVE  urls \in Seq(Authority)
  <2>1. \A i \in 1..Len(urls) : urls[i] \in Authority
    BY <1>2 DEF verified, Url
  <2> QED
    BY <2>1
<1>3. c.doh_target_urls \in Seq(Authority)
  BY <1>2, TargetConfigAssumption DEF proxy_config, or_default, BadPaths, TomlType, Opt
<1>4. c.odoh_relay_urls \in Seq(Authority) /\ (~c.odoh => c.odoh_relay_urls = <<>>)
  BY <1>2 DEF proxy_config, Relayed, BadPaths, TomlType, Opt
<1>5. /\ c.mid_relay_urls \in Seq(Authority)
      /\ c.max_mid_relays \in Nat /\ c.max_mid_relays <= Len(c.mid_relay_urls)
      /\ ~c.odoh => c.mid_relay_urls = <<>>
  <2>1. CASE MidRelayed(toml)
    <3>1. toml.mid_relay_urls \in Seq(Url) /\ verified(toml.mid_relay_urls)
          /\ toml.mid_relay_urls # <<>>
      BY <2>1 DEF BadPaths, BadMidRelays, MidRelayed, TomlType, Opt
    <3>2. toml.mid_relay_urls \in Seq(Authority) /\ Len(toml.mid_relay_urls) >= 1
      BY <1>2, <3>1
    <3>3. or_default(toml.max_mid_relays, 1) \in Nat
          /\ or_default(toml.max_mid_relays, 1) <= Len(toml.mid_relay_urls)
      BY <2>1, <3>2 DEF or_default, BadPaths, BadMidRelays, TomlType, Opt
    <3> QED
      BY <2>1, <3>2, <3>3 DEF proxy_config, MidRelayed
  <2>2. CASE ~MidRelayed(toml)
    BY <2>2 DEF proxy_config
  <2> QED
    BY <2>1, <2>2
<1>6. c \in ConfigType
  BY <1>1, <1>3, <1>4, <1>5 DEF ConfigType, proxy_config
<1> QED
  BY <1>4, <1>5, <1>6 DEF Accepted

-----------------------------------------------------------------------------

Typed ==
    /\ versions \in Seq(TomlType)
    /\ env \in Environment

IInv == Typed /\ ConfigAccepted

\* A file sets variables to values it assigns.
LEMMA EnvironmentKept ==
    ASSUME NEW toml \in TomlType, env \in Environment
    PROVE  loaded(toml, env) \in Environment
<1>1. CASE ~BadPaths(toml) /\ Authenticated(toml)
  <2>1. toml.credential_file \in CredentialFile
    BY <1>1 DEF Authenticated, TomlType, Opt
  <2>2. contents[toml.credential_file] \in Environment
    BY <2>1, TargetConfigAssumption
  <2>3. from_path(env, toml.credential_file) \in Environment
    BY <2>2 DEF from_path, or_default, Environment
  <2> QED
    BY <1>1, <2>3 DEF loaded
<1>2. CASE ~(~BadPaths(toml) /\ Authenticated(toml))
  BY <1>2 DEF loaded
<1> QED
  BY <1>1, <1>2

LEMMA InitIInv == Init => IInv
  BY HistoryAssumption DEF Init, IInv, Typed, ConfigAccepted

LEMMA NextIInv == IInv /\ [Next]_vars => IInv'
<1> SUFFICES ASSUME IInv, [Next]_vars PROVE IInv'
  OBVIOUS
<1>1. versions # <<>> => Head(versions) \in TomlType /\ Tail(versions) \in Seq(TomlType)
  BY DEF IInv, Typed
<1>2. <<>> \in Seq(TomlType)
  OBVIOUS
<1>3. CASE Adopt
  <2> DEFINE toml == Head(versions)
  <2>1. toml \in TomlType /\ Tail(versions) \in Seq(TomlType)
    BY <1>1, <1>3 DEF Adopt
  <2>2. env' \in Environment
    BY <1>3, <2>1, EnvironmentKept DEF Adopt, IInv, Typed
  <2>3. Typed'
    BY <1>3, <2>1, <2>2 DEF Adopt, Typed
  <2>4. ConfigAccepted'
    <3>1. ~BadPaths(toml) /\ config' = proxy_config(toml)
      BY <1>3 DEF Adopt, Rejected
    <3> QED
      BY <2>1, <3>1, ConversionAccepted DEF ConfigAccepted
  <2> QED
    BY <2>3, <2>4 DEF IInv
<1>4. CASE Reject
  <2>1. env' \in Environment
    BY <1>1, <1>4, EnvironmentKept DEF Reject, IInv, Typed
  <2>2. Typed'
    BY <1>1, <1>2, <1>4, <2>1 DEF Reject, Typed
  <2> QED
    BY <1>4, <2>1, <2>2 DEF Reject, IInv, ConfigAccepted
<1>5. CASE New
  BY <1>5 DEF New, IInv, Typed, ConfigAccepted
<1>6. CASE UNCHANGED vars
  BY <1>6 DEF vars, IInv, Typed, ConfigAccepted
<1> QED
  BY <1>3, <1>4, <1>5, <1>6 DEF Next

LEMMA InvariantHolds == Spec => []IInv
  BY InitIInv, NextIInv, PTL DEF Spec

(* Every configuration that is adopted satisfies what PathBuild and        *)
(* PathHealth assume, for every combination of options in the file.        *)
THEOREM AdoptsAccepted == Spec => []ConfigAccepted
<1>1. IInv => ConfigAccepted
  BY DEF IInv
<1> QED
  BY <1>1, InvariantHolds, PTL

-----------------------------------------------------------------------------
(* filter: every element at a position that is kept has a place in the     *)
(* result, and the places are in the order of the positions.               *)

\* The place of position i among the positions in S.
place(S, i) == Cardinality({j \in S : j <= i})

LEMMA PlacesIncrease ==
    ASSUME NEW S \in SUBSET Nat, IsFiniteSet(S), NEW i \in S, NEW k \in S
    PROVE  /\ place(S, i) \in 1..Cardinality(S)
           /\ i < k => place(S, i) < place(S, k)
<1>. DEFINE Upto(m) == {j \in S : j <= m}
<1>1. \A m \in S : /\ IsFiniteSet(Upto(m)) /\ Upto(m) \in SUBSET S
                   /\ Cardinality(Upto(m)) \in Nat
                   /\ Cardinality(Upto(m)) <= Cardinality(S)
  BY FS_Subset, FS_CardinalityType
<1>2. Upto(i) # {}
  OBVIOUS
<1>3. Cardinality(Upto(i)) # 0
  BY <1>1, <1>2, FS_EmptySet
<1>4. ASSUME i < k PROVE Cardinality(Upto(i)) < Cardinality(Upto(k))
  <2>1. \A m \in S : m \in Nat
    OBVIOUS
  <2>2. k \in Upto(k) /\ k \notin Upto(i)
    BY <1>4, <2>1
  <2>3. ASSUME NEW m \in Upto(i) PROVE m \in Upto(k)
    BY <1>4, <2>1
  <2>4. Upto(i) \in SUBSET Upto(k) /\ Upto(i) # Upto(k)
    <3> HIDE DEF Upto
    <3> QED
      BY <2>2, <2>3
  <2> HIDE DEF Upto
  <2>5. Cardinality(Upto(i)) <= Cardinality(Upto(k)) /\ Cardinality(Upto(k)) # Cardinality(Upto(i))
    BY <1>1, <2>4, FS_Subset
  <2> QED
    BY <1>1, <2>5
<1>5. Cardinality(S) \in Nat
  BY FS_CardinalityType
<1> QED
  BY <1>1, <1>3, <1>4, <1>5 DEF place

LEMMA PlacesAreTaken ==
    ASSUME NEW S \in SUBSET Nat, IsFiniteSet(S), NEW n \in 1..Cardinality(S)
    PROVE  \E i \in S : place(S, i) = n
<1>. DEFINE T == 1..Cardinality(S)
            f == [i \in S |-> place(S, i)]
<1>1. Cardinality(S) \in Nat
  BY FS_CardinalityType
<1>2. IsFiniteSet(T) /\ Cardinality(T) = Cardinality(S)
  BY <1>1, FS_Interval
<1>3. f \in [S -> T]
  BY PlacesIncrease
<1>4. \A i, k \in S : f[i] = f[k] => i = k
  <2> SUFFICES ASSUME NEW i \in S, NEW k \in S, f[i] = f[k], i # k PROVE FALSE
    OBVIOUS
  <2>1. i < k \/ k < i
    OBVIOUS
  <2>2. f[i] \in Nat /\ f[k] \in Nat
    BY <1>1, <1>3
  <2> QED
    BY <2>1, <2>2, PlacesIncrease
<1>5. f \in Injection(S, T)
  BY <1>3, <1>4 DEF Injection, IsInjective
<1>6. f \in Surjection(S, T)
  <2> HIDE DEF f, T
  <2> QED
    BY <1>2, <1>5, FS_Injection
<1>7. \E i \in S : f[i] = n
  BY <1>6 DEF Surjection
<1> QED
  BY <1>7

LEMMA Positions ==
    ASSUME NEW S \in SUBSET Nat, IsFiniteSet(S)
    PROVE  /\ \A n \in 1..Cardinality(S) : nth(S, n) \in S /\ place(S, nth(S, n)) = n
           /\ \A m, n \in 1..Cardinality(S) : m < n => nth(S, m) < nth(S, n)
           /\ \A i \in S : \E n \in 1..Cardinality(S) : nth(S, n) = i
<1>1. \A n \in 1..Cardinality(S) : nth(S, n) \in S /\ place(S, nth(S, n)) = n
  BY PlacesAreTaken DEF nth, place
<1>2. \A i, k \in S : i < k => place(S, i) < place(S, k)
  BY PlacesIncrease
<1>3. \A i \in S : place(S, i) \in 1..Cardinality(S)
  BY PlacesIncrease
<1>4. ASSUME NEW m \in 1..Cardinality(S), NEW n \in 1..Cardinality(S), m < n
      PROVE  nth(S, m) < nth(S, n)
  <2>1. PICK i \in S : i = nth(S, m) /\ place(S, i) = m
    BY <1>1
  <2>2. PICK k \in S : k = nth(S, n) /\ place(S, k) = n
    BY <1>1
  <2>3. i \in Nat /\ k \in Nat
    OBVIOUS
  <2>4. ~(k < i) /\ i # k
    BY <1>2, <1>4, <2>1, <2>2
  <2> QED
    BY <2>1, <2>2, <2>3, <2>4
<1>5. ASSUME NEW i \in S PROVE nth(S, place(S, i)) = i
  <2>1. PICK k \in S : k = nth(S, place(S, i)) /\ place(S, k) = place(S, i)
    BY <1>1, <1>3
  <2>2. i \in Nat /\ k \in Nat /\ place(S, i) \in Nat /\ place(S, k) \in Nat
    BY <1>3
  <2>3. ~(i < k) /\ ~(k < i)
    BY <1>2, <2>1, <2>2
  <2> QED
    BY <2>1, <2>2, <2>3
<1> QED
  BY <1>1, <1>3, <1>4, <1>5


\* r has what s has at the positions in S, and nothing else, in that order.
Filters(r, s, S) ==
    /\ Cardinality(S) \in Nat
    /\ DOMAIN r = 1..Cardinality(S)
    /\ \A m \in DOMAIN r : nth(S, m) \in S /\ r[m] = s[nth(S, m)]
    /\ \A l, m \in DOMAIN r : l < m => nth(S, l) < nth(S, m)
    /\ \A i \in S : \E m \in DOMAIN r : r[m] = s[i]
    /\ r = <<>> <=> S = {}

LEMMA Filtered ==
    ASSUME NEW n \in Nat, NEW S \in SUBSET (1..n), NEW s
    PROVE  Filters(at_positions(s, S), s, S)
<1>1. IsFiniteSet(S) /\ S \in SUBSET Nat
  <2>1. IsFiniteSet(1..n) /\ 1..n \subseteq Nat
    BY FS_Interval
  <2> QED
    BY <2>1, FS_Subset
<1>2. Cardinality(S) \in Nat /\ (Cardinality(S) = 0 <=> S = {})
  BY <1>1, FS_CardinalityType, FS_EmptySet
<1>3. /\ DOMAIN at_positions(s, S) = 1..Cardinality(S)
      /\ \A m \in 1..Cardinality(S) : at_positions(s, S)[m] = s[nth(S, m)]
  BY DEF at_positions
<1>4. at_positions(s, S) = <<>> <=> S = {}
  <2>1. CASE S = {}
    BY <1>2, <2>1 DEF at_positions
  <2>2. CASE S # {}
    BY <1>2, <1>3, <2>2
  <2> QED
    BY <2>1, <2>2
<1> QED
  BY <1>1, <1>2, <1>3, <1>4, Positions DEF Filters

-----------------------------------------------------------------------------
(* The paths over one target and one next hop.                             *)

Relay == [authority : Authority, can_be_next_hop : BOOLEAN]

\* A choice of mid relays: the relays at num positions, all of them different.
Choice(c, num) ==
    {g \in [1..num -> 1..Len(c.mid_relay_urls)] : \A i, j \in 1..num : g[i] = g[j] => i = j}

\* The mid relays of a path that come with a choice.
Chosen(c, num, g) == [i \in 1..num |-> DoHRelay(c.mid_relay_urls[g[i]], FALSE)]

LEMMA MidRelays ==
    ASSUME NEW c, Accepted(c)
    PROVE  /\ \A after \in subseq_relay_paths(c) :
                 \E num \in 0..Len(c.mid_relay_urls) :
                    \E g \in Choice(c, num) : after = Chosen(c, num, g)
           /\ \A num \in 0..Len(c.mid_relay_urls) :
                 \A g \in Choice(c, num) : Chosen(c, num, g) \in subseq_relay_paths(c)
<1> DEFINE urls == c.mid_relay_urls
           relays == [i \in DOMAIN urls |-> DoHRelay(urls[i], FALSE)]
<1>1. /\ urls \in Seq(Authority) /\ Len(urls) \in Nat /\ DOMAIN urls = 1..Len(urls)
      /\ c.max_mid_relays \in Nat /\ c.max_mid_relays <= Len(urls)
  BY DEF Accepted, ConfigType
<1>2. /\ Len(relays) = Len(urls)
      /\ \A i \in 1..Len(urls) : relays[i] = DoHRelay(urls[i], FALSE)
  <2>1. \A i \in 1..Len(urls) : DoHRelay(urls[i], FALSE) \in Relay
    BY <1>1 DEF DoHRelay, Relay
  <2>2. relays \in [1..Len(urls) -> Relay]
    BY <1>1, <2>1
  <2> HIDE DEF relays
  <2>3. relays \in Seq(Relay) /\ Len(relays) = Len(urls)
    BY <1>1, <2>2
  <2> USE DEF relays
  <2> QED
    BY <1>1, <2>3
<1>3. LargerOf(c.max_mid_relays, Len(relays)) = Len(urls)
  BY <1>1, <1>2 DEF LargerOf
<1>4. subseq_relay_paths(c) = UNION {permutations(relays, num) : num \in 0..Len(urls)}
  BY <1>3, Zenon DEF subseq_relay_paths
<1> HIDE DEF relays
<1>5. ASSUME NEW num \in 0..Len(urls), NEW g \in Choice(c, num)
      PROVE  [i \in 1..num |-> relays[g[i]]] = Chosen(c, num, g)
  <2>1. \A i \in 1..num : g[i] \in 1..Len(urls)
    BY DEF Choice
  <2> QED
    BY <1>2, <2>1 DEF Chosen
<1>6. ASSUME NEW num \in 0..Len(urls)
      PROVE  permutations(relays, num) = {[i \in 1..num |-> relays[g[i]]] : g \in Choice(c, num)}
  BY <1>2 DEF permutations, Choice
<1>7. ASSUME NEW after \in subseq_relay_paths(c)
      PROVE  \E num \in 0..Len(urls) : \E g \in Choice(c, num) : after = Chosen(c, num, g)
  <2>1. PICK num \in 0..Len(urls) : after \in permutations(relays, num)
    BY <1>4
  <2>2. PICK g \in Choice(c, num) : after = [i \in 1..num |-> relays[g[i]]]
    BY <1>6, <2>1
  <2> QED
    BY <1>5, <2>2
<1>8. ASSUME NEW num \in 0..Len(urls), NEW g \in Choice(c, num)
      PROVE  Chosen(c, num, g) \in subseq_relay_paths(c)
  <2>1. Chosen(c, num, g) \in permutations(relays, num)
    BY <1>5, <1>6
  <2> QED
    BY <1>4, <2>1
<1> QED
  BY <1>7, <1>8

LEMMA ChosenRelays ==
    ASSUME NEW c, Accepted(c), NEW num \in 0..Len(c.mid_relay_urls), NEW g \in Choice(c, num)
    PROVE  /\ Chosen(c, num, g) \in Seq(Relay) /\ Len(Chosen(c, num, g)) = num
           /\ \A i \in 1..num : /\ g[i] \in 1..Len(c.mid_relay_urls)
                                /\ c.mid_relay_urls[g[i]] \in Authority
                                /\ Chosen(c, num, g)[i] = DoHRelay(c.mid_relay_urls[g[i]], FALSE)
<1>1. c.mid_relay_urls \in Seq(Authority)
  BY DEF Accepted, ConfigType
<1>2. \A i \in 1..num : g[i] \in 1..Len(c.mid_relay_urls) /\ c.mid_relay_urls[g[i]] \in Authority
  BY <1>1 DEF Choice
<1>3. \A i \in 1..num : DoHRelay(c.mid_relay_urls[g[i]], FALSE) \in Relay
  BY <1>2 DEF DoHRelay, Relay
<1>4. num \in Nat
  BY <1>1
<1>5. Chosen(c, num, g) \in [1..num -> Relay]
  BY <1>3 DEF Chosen
<1>6. Chosen(c, num, g) \in Seq(Relay) /\ Len(Chosen(c, num, g)) = num
  BY <1>4, <1>5
<1> QED
  BY <1>2, <1>6 DEF Chosen

LEMMA Prepended ==
    ASSUME NEW S, NEW e \in S, NEW s \in Seq(S)
    PROVE  /\ <<e>> \o s \in Seq(S) /\ Len(<<e>> \o s) = Len(s) + 1
           /\ (<<e>> \o s)[1] = e
           /\ \A i \in 1..Len(s) : (<<e>> \o s)[i + 1] = s[i]
<1>1. <<e>> \in Seq(S) /\ Len(<<e>>) = 1 /\ <<e>>[1] = e
  OBVIOUS
<1>2. /\ <<e>> \o s \in Seq(S) /\ Len(<<e>> \o s) = 1 + Len(s)
      /\ \A i \in 1..(1 + Len(s)) : (<<e>> \o s)[i] = IF i <= 1 THEN <<e>>[i] ELSE s[i - 1]
  BY <1>1
<1>3. Len(s) \in Nat
  OBVIOUS
<1>4. ASSUME NEW i \in 1..Len(s) PROVE (<<e>> \o s)[i + 1] = s[i]
  <2>1. i + 1 \in 1..(1 + Len(s)) /\ ~(i + 1 <= 1) /\ (i + 1) - 1 = i
    BY <1>3
  <2> QED
    BY <1>2, <2>1
<1> QED
  BY <1>1, <1>2, <1>3, <1>4

\* The path over a target and a next hop that comes with a choice.
Route(c, target, nexthop, num, g) ==
    DoHPath(target, <<DoHRelay(nexthop, TRUE)>> \o Chosen(c, num, g))

\* It visits the next hop, the mid relays in the order chosen, and the target.
Visits(path, c, target, nexthop, num, g) ==
    /\ path.target = target
    /\ path.relays \in Seq(Relay) /\ Len(path.relays) = num + 1
    /\ path.relays[1] = DoHRelay(nexthop, TRUE)
    /\ \A i \in 1..num : path.relays[i + 1] = DoHRelay(c.mid_relay_urls[g[i]], FALSE)

LEMMA Routes ==
    ASSUME NEW c, Accepted(c), NEW target \in Authority, NEW nexthop \in Authority,
           NEW num \in 0..Len(c.mid_relay_urls), NEW g \in Choice(c, num)
    PROVE  Visits(Route(c, target, nexthop, num, g), c, target, nexthop, num, g)
<1> DEFINE after == Chosen(c, num, g)
           first == DoHRelay(nexthop, TRUE)
           path == Route(c, target, nexthop, num, g)
<1>1. path.target = target /\ path.relays = <<first>> \o after
  BY DEF Route, DoHPath
<1>2. first \in Relay
  BY DEF DoHRelay, Relay
<1>3. /\ after \in Seq(Relay) /\ Len(after) = num
      /\ \A i \in 1..num : after[i] = DoHRelay(c.mid_relay_urls[g[i]], FALSE)
  BY ChosenRelays, Zenon
<1> HIDE DEF first, after, path
<1>4. /\ <<first>> \o after \in Seq(Relay) /\ Len(<<first>> \o after) = num + 1
      /\ (<<first>> \o after)[1] = first
      /\ \A i \in 1..num : (<<first>> \o after)[i + 1] = after[i]
  BY <1>2, <1>3, Prepended
<1>5. /\ path.target = target
      /\ path.relays \in Seq(Relay) /\ Len(path.relays) = num + 1
      /\ path.relays[1] = first
      /\ \A i \in 1..num : path.relays[i + 1] = DoHRelay(c.mid_relay_urls[g[i]], FALSE)
  BY <1>1, <1>3, <1>4
<1> QED
  BY <1>5 DEF Visits, path, first

LEMMA LoopFree ==
    ASSUME NEW c, Accepted(c), NEW target, NEW nexthop
    PROVE  /\ \A path \in loop_free(c, target, nexthop) :
                 /\ ~is_looped(path)
                 /\ \E num \in 0..Len(c.mid_relay_urls) : \E g \in Choice(c, num) :
                       path = Route(c, target, nexthop, num, g)
           /\ \A num \in 0..Len(c.mid_relay_urls) : \A g \in Choice(c, num) :
                 ~is_looped(Route(c, target, nexthop, num, g))
                    => Route(c, target, nexthop, num, g) \in loop_free(c, target, nexthop)
<1>1. ASSUME NEW path \in loop_free(c, target, nexthop)
      PROVE  /\ ~is_looped(path)
             /\ \E num \in 0..Len(c.mid_relay_urls) : \E g \in Choice(c, num) :
                   path = Route(c, target, nexthop, num, g)
  <2>1. PICK after \in subseq_relay_paths(c) :
           ~is_looped(path) /\ path = DoHPath(target, <<DoHRelay(nexthop, TRUE)>> \o after)
    BY DEF loop_free, relay_paths
  <2> QED
    BY <2>1, MidRelays DEF Route
<1>2. ASSUME NEW num \in 0..Len(c.mid_relay_urls), NEW g \in Choice(c, num),
             ~is_looped(Route(c, target, nexthop, num, g))
      PROVE  Route(c, target, nexthop, num, g) \in loop_free(c, target, nexthop)
  <2>1. Chosen(c, num, g) \in subseq_relay_paths(c)
    BY MidRelays
  <2>2. <<DoHRelay(nexthop, TRUE)>> \o Chosen(c, num, g) \in relay_paths(c, nexthop)
    BY <2>1 DEF relay_paths
  <2> QED
    BY <1>2, <2>2 DEF loop_free, Route
<1> QED
  BY <1>1, <1>2

-----------------------------------------------------------------------------
(* The lists of lists: nothing is lost but what is empty.                  *)

\* level lists the paths to target by next hop, but for next hops without any.
ByNextHop(level, c, target) ==
    /\ \E f \in [DOMAIN level -> DOMAIN c.odoh_relay_urls] :
          /\ \A j, k \in DOMAIN level : j < k => f[j] < f[k]
          /\ \A j \in DOMAIN level : /\ level[j] = loop_free(c, target, c.odoh_relay_urls[f[j]])
                                     /\ level[j] # {}
    /\ \A j \in DOMAIN c.odoh_relay_urls :
          loop_free(c, target, c.odoh_relay_urls[j]) # {}
             => \E k \in DOMAIN level : level[k] = loop_free(c, target, c.odoh_relay_urls[j])
    /\ level # <<>> => 1 \in DOMAIN level

LEMMA NextHopLevels ==
    ASSUME NEW c, Accepted(c), NEW target
    PROVE  ByNextHop(per_target(c, target), c, target)
<1> DEFINE urls == c.odoh_relay_urls
           all == [j \in DOMAIN urls |-> loop_free(c, target, urls[j])]
           S == {j \in DOMAIN urls : all[j] # {}}
           level == per_target(c, target)
           f == [m \in DOMAIN level |-> nth(S, m)]
<1>1. DOMAIN urls = 1..Len(urls) /\ Len(urls) \in Nat
  BY DEF Accepted, ConfigType
<1>2. level = at_positions(all, S)
  BY DEF per_target
<1> HIDE DEF level
<1>3. Filters(level, all, S)
  <2>1. S \in SUBSET (1..Len(urls))
    BY <1>1
  <2> HIDE DEF S, all
  <2> QED
    BY <1>1, <1>2, <2>1, Filtered
<1>4. f \in [DOMAIN level -> DOMAIN urls]
  BY <1>3 DEF Filters
<1>5. \A j, k \in DOMAIN level : j < k => f[j] < f[k]
  BY <1>3 DEF Filters
<1>6. \A j \in DOMAIN level : level[j] = loop_free(c, target, urls[f[j]]) /\ level[j] # {}
  BY <1>3 DEF Filters
<1>7. \A j \in DOMAIN urls :
         loop_free(c, target, urls[j]) # {}
            => \E k \in DOMAIN level : level[k] = loop_free(c, target, urls[j])
  BY <1>3 DEF Filters
<1>8. ASSUME level # <<>> PROVE 1 \in DOMAIN level
  <2>1. PICK i \in S : TRUE
    BY <1>3, <1>8 DEF Filters
  <2>2. PICK m \in DOMAIN level : level[m] = all[i]
    BY <1>3 DEF Filters
  <2> QED
    BY <1>3, <2>2 DEF Filters
<1> HIDE DEF f
<1> QED
  BY <1>4, <1>5, <1>6, <1>7, <1>8 DEF ByNextHop, level

LEMMA TargetLevels ==
    ASSUME NEW c, Accepted(c)
    PROVE  LET urls == c.doh_target_urls
               levels == ObliviousPaths(c)
           IN  /\ \A i \in DOMAIN levels :
                     /\ levels[i] # <<>>
                     /\ \E k \in DOMAIN urls : levels[i] = per_target(c, urls[k])
               /\ \A k \in DOMAIN urls :
                     per_target(c, urls[k]) # <<>>
                        => \E i \in DOMAIN levels : levels[i] = per_target(c, urls[k])
<1> DEFINE urls == c.doh_target_urls
           all == [k \in DOMAIN urls |-> per_target(c, urls[k])]
           S == {k \in DOMAIN urls : all[k] # <<>>}
           levels == ObliviousPaths(c)
<1>1. DOMAIN urls = 1..Len(urls) /\ Len(urls) \in Nat
  BY DEF Accepted, ConfigType
<1>2. levels = at_positions(all, S)
  BY DEF ObliviousPaths
<1> HIDE DEF levels
<1>3. Filters(levels, all, S)
  <2>1. S \in SUBSET (1..Len(urls))
    BY <1>1
  <2> HIDE DEF S, all
  <2> QED
    BY <1>1, <1>2, <2>1, Filtered
<1>4. ASSUME NEW i \in DOMAIN levels
      PROVE  levels[i] # <<>> /\ \E k \in DOMAIN urls : levels[i] = per_target(c, urls[k])
  BY <1>3 DEF Filters
<1>5. ASSUME NEW k \in DOMAIN urls, per_target(c, urls[k]) # <<>>
      PROVE  \E i \in DOMAIN levels : levels[i] = per_target(c, urls[k])
  BY <1>3, <1>5 DEF Filters
<1> QED
  BY <1>4, <1>5 DEF levels

LEMMA LoopFreeHops ==
    ASSUME NEW c, Accepted(c), NEW target \in Authority, NEW nexthop \in Authority,
           NEW path \in loop_free(c, target, nexthop)
    PROVE  path.target = target /\ Usable(path) /\ path.relays[1].authority = nexthop
<1>1. PICK num \in 0..Len(c.mid_relay_urls) : \E g \in Choice(c, num) :
         path = Route(c, target, nexthop, num, g)
  BY LoopFree
<1>2. PICK g \in Choice(c, num) : path = Route(c, target, nexthop, num, g)
  BY <1>1
<1>3. Visits(path, c, target, nexthop, num, g)
  BY <1>2, Routes
<1>4. path.relays # <<>>
  BY <1>3 DEF Visits
<1> QED
  BY <1>3, <1>4 DEF Visits, Usable, DoHRelay

-----------------------------------------------------------------------------

\* The paths are those of the configuration that was adopted last.
Built ==
    /\ built => config # NoConfig
    /\ paths = IF built THEN new(config) ELSE <<>>

LEMMA BuiltHolds == Spec => []Built
<1>1. Init => Built
  BY DEF Init, Built
<1>2. Built /\ [Next]_vars => Built'
  BY DEF Built, Next, Adopt, Reject, New, vars
<1> QED
  BY <1>1, <1>2, PTL DEF Spec

LEMMA ObliviousLevels ==
    ASSUME NEW c, Accepted(c), config = c, c.odoh, paths = ObliviousPaths(c),
           NEW i \in DOMAIN paths
    PROVE  /\ paths[i] # <<>>
           /\ \A j \in DOMAIN paths[i] : paths[i][j] # {}
           /\ \A j \in DOMAIN paths[i] : \A path \in paths[i][j] :
                 path.target = targets[i] /\ Usable(path)
           /\ \E f \in [DOMAIN paths[i] -> DOMAIN c.odoh_relay_urls] :
                 /\ \A j, k \in DOMAIN paths[i] : j < k => f[j] < f[k]
                 /\ \A j \in DOMAIN paths[i] : \A path \in paths[i][j] :
                       path.relays[1].authority = c.odoh_relay_urls[f[j]]
<1>1. paths[i] # <<>> /\ \E k \in DOMAIN c.doh_target_urls :
                            paths[i] = per_target(c, c.doh_target_urls[k])
  BY TargetLevels
<1>2. PICK target \in Authority : paths[i] = per_target(c, target)
  BY <1>1 DEF Accepted, ConfigType
<1>3. ByNextHop(paths[i], c, target)
  BY <1>2, NextHopLevels
<1>4. PICK f \in [DOMAIN paths[i] -> DOMAIN c.odoh_relay_urls] :
            /\ \A j, k \in DOMAIN paths[i] : j < k => f[j] < f[k]
            /\ \A j \in DOMAIN paths[i] :
                  /\ paths[i][j] = loop_free(c, target, c.odoh_relay_urls[f[j]])
                  /\ paths[i][j] # {}
  BY <1>3 DEF ByNextHop
<1>5. \A j \in DOMAIN paths[i] : c.odoh_relay_urls[f[j]] \in Authority
  BY DEF Accepted, ConfigType
<1>6. \A j \in DOMAIN paths[i] : \A path \in paths[i][j] :
         path.target = target /\ Usable(path)
         /\ path.relays[1].authority = c.odoh_relay_urls[f[j]]
  BY <1>4, <1>5, LoopFreeHops
<1>7. targets[i] = target
  <2>1. 1 \in DOMAIN paths[i]
    BY <1>1, <1>3 DEF ByNextHop
  <2>2. (CHOOSE path \in paths[i][1] : TRUE) \in paths[i][1]
    BY <1>4, <2>1
  <2> QED
    BY <1>6, <2>1, <2>2 DEF targets
<1> QED
  BY <1>1, <1>4, <1>6, <1>7

LEMMA StandardLevels ==
    ASSUME NEW c, Accepted(c), paths = StandardPaths(c), NEW i \in DOMAIN paths
    PROVE  /\ paths[i] # <<>>
           /\ \A j \in DOMAIN paths[i] : paths[i][j] # {}
           /\ \A j \in DOMAIN paths[i] : \A path \in paths[i][j] : path.target = targets[i]
<1> DEFINE path == DoHPath(c.doh_target_urls[i], <<>>)
<1>1. paths[i] = <<{path}>>
  BY DEF StandardPaths
<1> HIDE DEF path
<1>2. paths[i] # <<>> /\ DOMAIN paths[i] = {1} /\ paths[i][1] = {path}
  BY <1>1
<1>3. targets[i] = path.target
  <2>1. (CHOOSE p \in {path} : TRUE) = path
    OBVIOUS
  <2> QED
    BY <1>2, <2>1 DEF targets
<1> QED
  BY <1>2, <1>3

(* Whatever configuration is adopted, targets() finds a path at every      *)
(* index it uses, all paths below a target lead to it through the next hop *)
(* they are listed under, and the order of the configuration is kept.      *)
THEOREM NoEmptyLevel == Spec => []LevelsOK
<1>1. IInv /\ Built => LevelsOK
  <2> SUFFICES ASSUME IInv, Built, NEW i \in DOMAIN paths
               PROVE  /\ paths[i] # <<>>
                      /\ \A j \in DOMAIN paths[i] : paths[i][j] # {}
                      /\ \A j \in DOMAIN paths[i] : \A path \in paths[i][j] :
                            /\ path.target = targets[i]
                            /\ config.odoh => Usable(path)
                      /\ config.odoh => \E f \in [DOMAIN paths[i] -> DOMAIN config.odoh_relay_urls] :
                            /\ \A j, k \in DOMAIN paths[i] : j < k => f[j] < f[k]
                            /\ \A j \in DOMAIN paths[i] : \A path \in paths[i][j] :
                                  path.relays[1].authority = config.odoh_relay_urls[f[j]]
    BY DEF LevelsOK
  <2>1. built /\ paths = new(config)
    BY DEF Built
  <2>2. Accepted(config)
    BY <2>1 DEF IInv, ConfigAccepted, Built
  <2>3. CASE config.odoh
    BY <2>1, <2>2, <2>3, ObliviousLevels DEF new
  <2>4. CASE ~config.odoh
    BY <2>1, <2>2, <2>4, StandardLevels DEF new
  <2> QED
    BY <2>3, <2>4
<1> QED
  BY <1>1, InvariantHolds, BuiltHolds, PTL

-----------------------------------------------------------------------------
(* The authorities along a path, from the target to the last relay.        *)

\* h is the target, the next hop and the mid relays that come with a choice.
Along(h, c, target, nexthop, num, g) ==
    /\ h \in Seq(Authority) /\ Len(h) = num + 2
    /\ h[1] = target /\ h[2] = nexthop
    /\ \A i \in 1..num : h[i + 2] = c.mid_relay_urls[g[i]]

LEMMA HopsAlong ==
    ASSUME NEW c, Accepted(c), NEW target \in Authority, NEW nexthop \in Authority,
           NEW num \in 0..Len(c.mid_relay_urls), NEW g \in Choice(c, num),
           NEW path, Visits(path, c, target, nexthop, num, g)
    PROVE  /\ Along(Hops(path), c, target, nexthop, num, g)
           /\ \A i \in DOMAIN path.relays : Hops(path)[i + 1] = path.relays[i].authority
<1> DEFINE s == [i \in DOMAIN path.relays |-> path.relays[i].authority]
<1>1. num \in Nat
  BY DEF Accepted, ConfigType
<1>2. DOMAIN path.relays = 1..(num + 1)
  BY <1>1 DEF Visits
<1>3. ASSUME NEW i \in DOMAIN path.relays PROVE path.relays[i].authority \in Authority
  <2>1. path.relays[i] \in Relay
    BY DEF Visits
  <2> QED
    BY <2>1 DEF Relay
<1>4. s \in [1..(num + 1) -> Authority]
  BY <1>2, <1>3
<1>5. s[1] = nexthop
  BY <1>1, <1>2 DEF Visits, DoHRelay
<1>6. ASSUME NEW i \in 1..num PROVE s[i + 1] = c.mid_relay_urls[g[i]]
  <2>1. i + 1 \in DOMAIN path.relays
    BY <1>1, <1>2
  <2>2. path.relays[i + 1] = DoHRelay(c.mid_relay_urls[g[i]], FALSE)
    BY DEF Visits
  <2> QED
    BY <2>1, <2>2 DEF DoHRelay
<1>7. Hops(path) = <<target>> \o s
  BY DEF Hops, Visits
<1>8. \A i \in DOMAIN path.relays : s[i] = path.relays[i].authority
  OBVIOUS
<1> HIDE DEF s
<1>9. s \in Seq(Authority) /\ Len(s) = num + 1
  BY <1>1, <1>4
<1>10. /\ Hops(path) \in Seq(Authority) /\ Len(Hops(path)) = num + 2
       /\ Hops(path)[1] = target
       /\ \A i \in 1..(num + 1) : Hops(path)[i + 1] = s[i]
  <2>1. /\ <<target>> \o s \in Seq(Authority) /\ Len(<<target>> \o s) = Len(s) + 1
        /\ (<<target>> \o s)[1] = target
        /\ \A i \in 1..Len(s) : (<<target>> \o s)[i + 1] = s[i]
    BY <1>9, Prepended
  <2> HIDE DEF Hops
  <2> QED
    BY <1>1, <1>7, <1>9, <2>1
<1>11. Hops(path)[2] = nexthop
  <2>1. 1 \in 1..(num + 1) /\ 1 + 1 = 2
    BY <1>1
  <2> QED
    BY <1>5, <1>10, <2>1
<1>12. \A i \in 1..num : Hops(path)[i + 2] = c.mid_relay_urls[g[i]]
  <2>1. \A i \in 1..num : i + 1 \in 1..(num + 1) /\ (i + 1) + 1 = i + 2
    BY <1>1
  <2> QED
    BY <1>6, <1>10, <2>1
<1> QED
  BY <1>2, <1>8, <1>10, <1>11, <1>12 DEF Along

\* is_looped finds every repetition on the way, whichever pair it is.
LEMMA LoopedRepeats ==
    ASSUME NEW c, Accepted(c), NEW target \in Authority, NEW nexthop \in Authority,
           NEW num \in 0..Len(c.mid_relay_urls), NEW g \in Choice(c, num),
           NEW path, Visits(path, c, target, nexthop, num, g)
    PROVE  is_looped(path) <=> Repeats(Hops(path))
<1> DEFINE h == Hops(path)
<1>1. num \in Nat
  BY DEF Accepted, ConfigType
<1>2. DOMAIN path.relays = 1..(num + 1) /\ path.target = target
  BY <1>1 DEF Visits
<1>3. Along(h, c, target, nexthop, num, g)
  BY HopsAlong
<1>4. \A i \in DOMAIN path.relays : h[i + 1] = path.relays[i].authority
  BY HopsAlong
<1> HIDE DEF h
<1>5. DOMAIN h = 1..(num + 2) /\ h[1] = target
  BY <1>1, <1>3 DEF Along
<1>6. is_looped(path) <=> \/ \E i \in 1..(num + 1) : h[i + 1] = h[1]
                          \/ \E i \in 1..(num + 1) : \E j \in 1..(i - 1) : h[j + 1] = h[i + 1]
  <2>1. ASSUME NEW i \in 1..(num + 1), NEW j \in 1..(i - 1) PROVE j \in 1..(num + 1)
    BY <1>1
  <2> QED
    BY <1>2, <1>4, <1>5, <2>1 DEF is_looped
<1>7. is_looped(path) => Repeats(h)
  BY <1>1, <1>5, <1>6 DEF Repeats
<1>8. ASSUME Repeats(h) PROVE is_looped(path)
  <2>1. PICK i, j \in 1..(num + 2) : i < j /\ h[i] = h[j]
    BY <1>1, <1>5, <1>8 DEF Repeats
  <2>2. CASE i = 1
    <3>1. j - 1 \in 1..(num + 1) /\ (j - 1) + 1 = j
      BY <1>1, <2>1
    <3> QED
      BY <1>6, <2>1, <2>2, <3>1
  <2>3. CASE i # 1
    <3>1. /\ j - 1 \in 1..(num + 1) /\ (j - 1) + 1 = j
          /\ i - 1 \in 1..((j - 1) - 1) /\ (i - 1) + 1 = i
      BY <1>1, <2>1, <2>3
    <3> QED
      BY <1>6, <2>1, <3>1
  <2> QED
    BY <2>2, <2>3
<1> QED
  BY <1>7, <1>8 DEF h

\* Two ways with the same stops are the same, and different relays at
\* different places are what a choice is.
LEMMA SameAlong ==
    ASSUME NEW h \in Seq(Authority), NEW k \in Seq(Authority), Len(h) = Len(k),
           \A i \in 1..Len(h) : h[i] = k[i]
    PROVE  h = k
OBVIOUS

LEMMA MidRelaysFinite ==
    ASSUME NEW s \in Seq(Authority)
    PROVE  IsFiniteSet(ToSet(s)) /\ Cardinality(ToSet(s)) \in Nat /\ Cardinality(ToSet(s)) <= Len(s)
<1>1. Len(s) \in Nat /\ DOMAIN s = 1..Len(s)
  OBVIOUS
<1>2. IsFiniteSet(1..Len(s)) /\ Cardinality(1..Len(s)) = Len(s)
  BY <1>1, FS_Interval
<1>3. s \in Surjection(1..Len(s), ToSet(s))
  BY <1>1 DEF Surjection, ToSet
<1>4. IsFiniteSet(ToSet(s)) /\ Cardinality(ToSet(s)) <= Cardinality(1..Len(s))
  BY <1>2, <1>3, FS_Surjection
<1> QED
  BY <1>2, <1>4, FS_CardinalityType

LEMMA OrderTypes ==
    ASSUME NEW c, Accepted(c), NEW r \in RouteOrders(ToSet(c.mid_relay_urls))
    PROVE  \E num \in 0..Len(c.mid_relay_urls) :
              /\ r \in [1..num -> Authority]
              /\ \A i \in 1..num : r[i] \in ToSet(c.mid_relay_urls)
              /\ \A i, j \in 1..num : r[i] = r[j] => i = j
<1> DEFINE mids == ToSet(c.mid_relay_urls)
<1>1. c.mid_relay_urls \in Seq(Authority) /\ Len(c.mid_relay_urls) \in Nat
  BY DEF Accepted, ConfigType
<1>2. mids \subseteq Authority
  BY <1>1 DEF ToSet
<1>3. Cardinality(mids) \in Nat /\ Cardinality(mids) <= Len(c.mid_relay_urls)
  BY <1>1, MidRelaysFinite
<1> HIDE DEF mids
<1>4. PICK num \in 0..Cardinality(mids) : /\ r \in [1..num -> mids]
                                          /\ \A i, j \in DOMAIN r : r[i] = r[j] => i = j
  BY DEF RouteOrders, mids
<1>5. num \in 0..Len(c.mid_relay_urls)
  BY <1>1, <1>3
<1>6. \A i \in 1..num : r[i] \in mids
  BY <1>4
<1>7. r \in [1..num -> Authority]
  BY <1>2, <1>4
<1> QED
  BY <1>4, <1>5, <1>6, <1>7 DEF mids

LEMMA OrdersOf ==
    ASSUME NEW c, Accepted(c), NEW num \in 0..Len(c.mid_relay_urls),
           NEW r \in [1..num -> ToSet(c.mid_relay_urls)],
           \A i, j \in 1..num : r[i] = r[j] => i = j
    PROVE  r \in RouteOrders(ToSet(c.mid_relay_urls))
<1> DEFINE mids == ToSet(c.mid_relay_urls)
<1>1. c.mid_relay_urls \in Seq(Authority) /\ num \in Nat
  BY DEF Accepted, ConfigType
<1>2. IsFiniteSet(mids) /\ Cardinality(mids) \in Nat
  BY <1>1, MidRelaysFinite
<1> HIDE DEF mids
<1>3. r \in Injection(1..num, mids)
  BY DEF Injection, IsInjective, mids
<1>4. Cardinality(1..num) <= Cardinality(mids)
  BY <1>2, <1>3, FS_Injection
<1>5. Cardinality(1..num) = num
  BY <1>1, FS_Interval
<1>6. num \in 0..Cardinality(mids)
  BY <1>1, <1>2, <1>4, <1>5
<1> QED
  BY <1>6 DEF RouteOrders, mids

LEMMA Followed ==
    ASSUME NEW target \in Authority, NEW nexthop \in Authority, NEW num \in Nat,
           NEW r \in [1..num -> Authority]
    PROVE  /\ <<target, nexthop>> \o r \in Seq(Authority)
           /\ Len(<<target, nexthop>> \o r) = num + 2
           /\ (<<target, nexthop>> \o r)[1] = target
           /\ (<<target, nexthop>> \o r)[2] = nexthop
           /\ \A i \in 1..num : (<<target, nexthop>> \o r)[i + 2] = r[i]
<1> DEFINE s == <<target, nexthop>>
<1>1. s \in Seq(Authority) /\ Len(s) = 2 /\ s[1] = target /\ s[2] = nexthop
  OBVIOUS
<1>2. r \in Seq(Authority) /\ Len(r) = num
  OBVIOUS
<1> HIDE DEF s
<1>3. /\ s \o r \in Seq(Authority) /\ Len(s \o r) = 2 + num
      /\ \A i \in 1..(2 + num) : (s \o r)[i] = IF i <= 2 THEN s[i] ELSE r[i - 2]
  <2>1. s \o r \in Seq(Authority) /\ Len(s \o r) = Len(s) + Len(r)
    BY <1>1, <1>2, ConcatProperties
  <2>2. \A i \in 1..(Len(s) + Len(r)) : (s \o r)[i] = IF i <= Len(s) THEN s[i] ELSE r[i - Len(s)]
    BY <1>1, <1>2, ConcatProperties
  <2> QED
    BY <1>1, <1>2, <2>1, <2>2
<1>4. ASSUME NEW i \in 1..num PROVE (s \o r)[i + 2] = r[i]
  <2>1. i + 2 \in 1..(2 + num) /\ ~(i + 2 <= 2) /\ (i + 2) - 2 = i
    OBVIOUS
  <2> QED
    BY <1>3, <2>1
<1>5. (s \o r)[1] = target /\ (s \o r)[2] = nexthop
  <2>1. 1 \in 1..(2 + num) /\ 2 \in 1..(2 + num)
    OBVIOUS
  <2> QED
    BY <1>1, <1>3, <2>1
<1> QED
  BY <1>3, <1>4, <1>5 DEF s

\* A path that is kept visits an order of mid relays without a repetition.
LEMMA KeptIsOrder ==
    ASSUME NEW c, Accepted(c), NEW target \in Authority, NEW nexthop \in Authority,
           NEW path \in loop_free(c, target, nexthop)
    PROVE  /\ ~Repeats(Hops(path)) /\ target # nexthop
           /\ \E r \in RouteOrders(ToSet(c.mid_relay_urls)) :
                 Hops(path) = <<target, nexthop>> \o r
<1> DEFINE h == Hops(path)
<1>1. ~is_looped(path) /\ \E num \in 0..Len(c.mid_relay_urls) : \E g \in Choice(c, num) :
                             path = Route(c, target, nexthop, num, g)
  BY LoopFree
<1>2. PICK num \in 0..Len(c.mid_relay_urls) : \E g \in Choice(c, num) :
         path = Route(c, target, nexthop, num, g)
  BY <1>1
<1>3. PICK g \in Choice(c, num) : path = Route(c, target, nexthop, num, g)
  BY <1>2
<1>4. Visits(path, c, target, nexthop, num, g)
  BY <1>3, Routes
<1>5. Along(h, c, target, nexthop, num, g)
  BY <1>4, HopsAlong
<1>6. ~Repeats(h)
  BY <1>1, <1>4, LoopedRepeats
<1> HIDE DEF h
<1>7. num \in Nat
  BY DEF Accepted, ConfigType
<1>8. DOMAIN h = 1..(num + 2)
  BY <1>5, <1>7 DEF Along
<1>9. target # nexthop
  <2>1. 1 \in DOMAIN h /\ 2 \in DOMAIN h
    BY <1>7, <1>8
  <2> QED
    BY <1>5, <1>6, <2>1 DEF Along, Repeats
<1> DEFINE r == [i \in 1..num |-> c.mid_relay_urls[g[i]]]
<1>10. r \in [1..num -> ToSet(c.mid_relay_urls)] /\ r \in [1..num -> Authority]
  <2>1. c.mid_relay_urls \in Seq(Authority)
    BY DEF Accepted, ConfigType
  <2>2. \A i \in 1..num : g[i] \in DOMAIN c.mid_relay_urls
    BY <2>1 DEF Choice
  <2> QED
    BY <2>1, <2>2 DEF ToSet
<1>11. \A i \in 1..num : h[i + 2] = r[i]
  BY <1>5 DEF Along
<1>12. ASSUME NEW i \in 1..num, NEW j \in 1..num, r[i] = r[j] PROVE i = j
  <2>1. i + 2 \in DOMAIN h /\ j + 2 \in DOMAIN h /\ h[i + 2] = h[j + 2]
    BY <1>7, <1>8, <1>11, <1>12
  <2>2. i + 2 = j + 2
    BY <1>6, <2>1 DEF Repeats
  <2> QED
    BY <2>2
<1> HIDE DEF r
<1>13. r \in RouteOrders(ToSet(c.mid_relay_urls))
  BY <1>10, <1>12, OrdersOf
<1>14. h = <<target, nexthop>> \o r
  <2> DEFINE k == <<target, nexthop>> \o r
  <2>1. /\ k \in Seq(Authority) /\ Len(k) = num + 2 /\ k[1] = target /\ k[2] = nexthop
        /\ \A i \in 1..num : k[i + 2] = r[i]
    BY <1>7, <1>10, Followed
  <2> HIDE DEF k
  <2>2. ASSUME NEW i \in 1..(num + 2) PROVE h[i] = k[i]
    <3>1. CASE i \in {1, 2}
      BY <1>5, <2>1, <3>1 DEF Along
    <3>2. CASE i \notin {1, 2}
      <4>1. i - 2 \in 1..num /\ (i - 2) + 2 = i
        BY <1>7, <3>2
      <4> QED
        BY <1>11, <2>1, <4>1
    <3> QED
      BY <3>1, <3>2
  <2>3. h = k
    BY <1>5, <2>1, <2>2, SameAlong DEF Along
  <2> QED
    BY <2>3 DEF k
<1> QED
  BY <1>6, <1>9, <1>13, <1>14 DEF h

\* Every order of mid relays that repeats nothing is visited by a path.
LEMMA OrderIsKept ==
    ASSUME NEW c, Accepted(c), NEW target \in Authority, NEW nexthop \in Authority,
           NEW r \in RouteOrders(ToSet(c.mid_relay_urls)),
           ~Repeats(<<target, nexthop>> \o r)
    PROVE  \E path \in loop_free(c, target, nexthop) : Hops(path) = <<target, nexthop>> \o r
<1> DEFINE k == <<target, nexthop>> \o r
<1>1. PICK num \in 0..Len(c.mid_relay_urls) :
         /\ r \in [1..num -> Authority]
         /\ \A i \in 1..num : r[i] \in ToSet(c.mid_relay_urls)
         /\ \A i, j \in 1..num : r[i] = r[j] => i = j
  BY OrderTypes
<1>2. num \in Nat /\ c.mid_relay_urls \in Seq(Authority)
  BY DEF Accepted, ConfigType
<1>3. /\ k \in Seq(Authority) /\ Len(k) = num + 2 /\ k[1] = target /\ k[2] = nexthop
      /\ \A i \in 1..num : k[i + 2] = r[i]
  BY <1>1, <1>2, Followed
<1> DEFINE g == [i \in 1..num |-> CHOOSE l \in 1..Len(c.mid_relay_urls) : c.mid_relay_urls[l] = r[i]]
<1>4. \A i \in 1..num : g[i] \in 1..Len(c.mid_relay_urls) /\ c.mid_relay_urls[g[i]] = r[i]
  <2>1. \A i \in 1..num : \E l \in 1..Len(c.mid_relay_urls) : c.mid_relay_urls[l] = r[i]
    BY <1>1, <1>2 DEF ToSet
  <2> QED
    BY <2>1
<1>5. g \in [1..num -> 1..Len(c.mid_relay_urls)]
  BY <1>4
<1> HIDE DEF g, k
<1>6. g \in Choice(c, num)
  BY <1>1, <1>4, <1>5 DEF Choice
<1> DEFINE path == Route(c, target, nexthop, num, g)
           h == Hops(path)
<1>7. Visits(path, c, target, nexthop, num, g)
  BY <1>6, Routes
<1> HIDE DEF path
<1>8. Along(h, c, target, nexthop, num, g)
  BY <1>6, <1>7, HopsAlong
<1>9. is_looped(path) <=> Repeats(h)
  BY <1>6, <1>7, LoopedRepeats
<1> HIDE DEF h
<1>10. h = k
  <2>1. ASSUME NEW i \in 1..(num + 2) PROVE h[i] = k[i]
    <3>1. CASE i \in {1, 2}
      BY <1>3, <1>8, <3>1 DEF Along
    <3>2. CASE i \notin {1, 2}
      <4>1. i - 2 \in 1..num /\ (i - 2) + 2 = i
        BY <1>2, <3>2
      <4>2. h[i] = r[i - 2]
        BY <1>4, <1>8, <4>1 DEF Along
      <4> QED
        BY <1>3, <4>1, <4>2
    <3> QED
      BY <3>1, <3>2
  <2> QED
    BY <1>3, <1>8, <2>1, SameAlong DEF Along
<1>11. path \in loop_free(c, target, nexthop)
  <2>1. ~Repeats(k)
    BY DEF k
  <2> QED
    BY <1>6, <1>9, <1>10, <2>1, LoopFree DEF path
<1> QED
  BY <1>10, <1>11 DEF h, k

\* No path is added to the lists of lists and none is lost.
LEMMA PathsInLevels ==
    ASSUME NEW c, Accepted(c)
    PROVE  LET levels == ObliviousPaths(c)
               targetsOf == ToSet(c.doh_target_urls)
               nexthops == ToSet(c.odoh_relay_urls)
           IN  /\ \A i \in DOMAIN levels : \A j \in DOMAIN levels[i] : \A path \in levels[i][j] :
                     \E target \in targetsOf, nexthop \in nexthops :
                        path \in loop_free(c, target, nexthop)
               /\ \A target \in targetsOf, nexthop \in nexthops :
                     \A path \in loop_free(c, target, nexthop) :
                        \E i \in DOMAIN levels : \E j \in DOMAIN levels[i] : path \in levels[i][j]
<1> DEFINE levels == ObliviousPaths(c)
           targetsOf == ToSet(c.doh_target_urls)
           nexthops == ToSet(c.odoh_relay_urls)
<1> HIDE DEF levels
<1>1. ASSUME NEW i \in DOMAIN levels, NEW j \in DOMAIN levels[i], NEW path \in levels[i][j]
      PROVE  \E target \in targetsOf, nexthop \in nexthops : path \in loop_free(c, target, nexthop)
  <2>1. PICK k \in DOMAIN c.doh_target_urls : levels[i] = per_target(c, c.doh_target_urls[k])
    BY TargetLevels DEF levels
  <2>2. ByNextHop(levels[i], c, c.doh_target_urls[k])
    BY <2>1, NextHopLevels
  <2>3. PICK l \in DOMAIN c.odoh_relay_urls :
           levels[i][j] = loop_free(c, c.doh_target_urls[k], c.odoh_relay_urls[l])
    BY <2>2 DEF ByNextHop
  <2> QED
    BY <2>3 DEF ToSet
<1>2. ASSUME NEW target \in targetsOf, NEW nexthop \in nexthops,
             NEW path \in loop_free(c, target, nexthop)
      PROVE  \E i \in DOMAIN levels : \E j \in DOMAIN levels[i] : path \in levels[i][j]
  <2>1. PICK k \in DOMAIN c.doh_target_urls : target = c.doh_target_urls[k]
    BY DEF ToSet
  <2>2. PICK l \in DOMAIN c.odoh_relay_urls : nexthop = c.odoh_relay_urls[l]
    BY DEF ToSet
  <2>3. ByNextHop(per_target(c, target), c, target)
    BY NextHopLevels
  <2>4. PICK j \in DOMAIN per_target(c, target) : per_target(c, target)[j] = loop_free(c, target, nexthop)
    BY <2>2, <2>3 DEF ByNextHop
  <2>5. per_target(c, target) # <<>>
    BY <2>4
  <2>6. PICK i \in DOMAIN levels : levels[i] = per_target(c, target)
    BY <2>1, <2>5, TargetLevels DEF levels
  <2> QED
    BY <2>4, <2>6
<1> QED
  BY <1>1, <1>2 DEF levels

\* What a path visits is a way, and a way without a repetition is visited.
LEMMA WaysVisited ==
    ASSUME NEW c, Accepted(c)
    PROVE  /\ \A target \in ToSet(c.doh_target_urls), nexthop \in ToSet(c.odoh_relay_urls) :
                 \A path \in loop_free(c, target, nexthop) :
                    Hops(path) \in Ways(c) /\ ~Repeats(Hops(path))
           /\ \A way \in Ways(c) : ~Repeats(way) =>
                 \E target \in ToSet(c.doh_target_urls), nexthop \in ToSet(c.odoh_relay_urls) :
                    \E path \in loop_free(c, target, nexthop) : Hops(path) = way
<1> DEFINE T == ToSet(c.doh_target_urls)
           N == ToSet(c.odoh_relay_urls)
<1>1. T \subseteq Authority /\ N \subseteq Authority
  BY DEF Accepted, ConfigType, ToSet
<1>2. \A way : way \in Ways(c) <=> \E target \in T, nexthop \in N : way \in WaysBetween(c, target, nexthop)
  BY DEF Ways
<1> HIDE DEF T, N
<1>3. ASSUME NEW target \in T, NEW nexthop \in N, NEW path \in loop_free(c, target, nexthop)
      PROVE  Hops(path) \in Ways(c) /\ ~Repeats(Hops(path))
  <2>1. /\ ~Repeats(Hops(path))
        /\ \E r \in RouteOrders(ToSet(c.mid_relay_urls)) : Hops(path) = <<target, nexthop>> \o r
    BY <1>1, KeptIsOrder
  <2>2. Hops(path) \in WaysBetween(c, target, nexthop)
    BY <2>1 DEF WaysBetween
  <2> QED
    BY <1>2, <2>1, <2>2
<1>4. ASSUME NEW way \in Ways(c), ~Repeats(way)
      PROVE  \E target \in T, nexthop \in N : \E path \in loop_free(c, target, nexthop) : Hops(path) = way
  <2>1. PICK target \in T, nexthop \in N : way \in WaysBetween(c, target, nexthop)
    BY <1>2
  <2>2. PICK r \in RouteOrders(ToSet(c.mid_relay_urls)) : way = <<target, nexthop>> \o r
    BY <2>1 DEF WaysBetween
  <2>3. \E path \in loop_free(c, target, nexthop) : Hops(path) = <<target, nexthop>> \o r
    BY <1>1, <1>4, <2>2, OrderIsKept
  <2> QED
    BY <2>2, <2>3
<1> QED
  BY <1>3, <1>4 DEF T, N

\* An order of different mid relays is no longer than their list.
LEMMA WaysBounded ==
    ASSUME NEW c, Accepted(c), NEW way \in Ways(c)
    PROVE  Len(way) <= Len(c.mid_relay_urls) + 2
<1>0. PICK target \in ToSet(c.doh_target_urls), nexthop \in ToSet(c.odoh_relay_urls) :
         way \in WaysBetween(c, target, nexthop)
  BY DEF Ways
<1>1. PICK r \in RouteOrders(ToSet(c.mid_relay_urls)) : way = <<target, nexthop>> \o r
  BY <1>0 DEF WaysBetween
<1>2. c.mid_relay_urls \in Seq(Authority)
  BY DEF Accepted, ConfigType
<1>3. /\ Cardinality(ToSet(c.mid_relay_urls)) \in Nat
      /\ Cardinality(ToSet(c.mid_relay_urls)) <= Len(c.mid_relay_urls)
  BY <1>2, MidRelaysFinite
<1>4. PICK n \in 0..Cardinality(ToSet(c.mid_relay_urls)) : r \in [1..n -> ToSet(c.mid_relay_urls)]
  BY <1>1 DEF RouteOrders
<1>5. r \in Seq(ToSet(c.mid_relay_urls)) /\ Len(r) = n
  BY <1>3, <1>4
<1>6. Len(way) = 2 + n
  BY <1>1, <1>5
<1> QED
  BY <1>2, <1>3, <1>4, <1>6

(* For every configuration that is adopted, the paths are the orders of    *)
(* different mid relays, up to some number of them that max_mid_relays     *)
(* does not exceed, behind every next hop and target that repeat no        *)
(* authority: the filter drops no other path and keeps no loop.  That      *)
(* number is the length of the list.                                       *)
THEOREM PathsAreLoopFree == Spec => []ExactlyLoopFree
<1>1. IInv /\ Built => ExactlyLoopFree
  <2> SUFFICES ASSUME IInv, Built, built, config.odoh
               PROVE  ExactlyLoopFree
    BY DEF ExactlyLoopFree
  <2> DEFINE T == ToSet(config.doh_target_urls)
             N == ToSet(config.odoh_relay_urls)
  <2>1. Accepted(config) /\ paths = ObliviousPaths(config)
    BY DEF IInv, ConfigAccepted, Built, new
  <2>2. ASSUME NEW path
        PROVE  path \in AllPaths <=> \E t \in T, n \in N : path \in loop_free(config, t, n)
    <3>1. path \in AllPaths <=> \E i \in DOMAIN paths : \E j \in DOMAIN paths[i] : path \in paths[i][j]
      BY DEF AllPaths
    <3> QED
      BY <2>1, <3>1, PathsInLevels
  <2>3. ASSUME NEW path \in AllPaths PROVE Hops(path) \in Ways(config) /\ ~Repeats(Hops(path))
    BY <2>1, <2>2, WaysVisited
  <2>4. ASSUME NEW way \in Ways(config), ~Repeats(way) PROVE \E path \in AllPaths : Hops(path) = way
    <3>1. PICK t \in T, n \in N : \E path \in loop_free(config, t, n) : Hops(path) = way
      BY <2>1, <2>4, WaysVisited
    <3> QED
      BY <2>2, <3>1
  <2> DEFINE longest == Len(config.mid_relay_urls)
  <2>5. {Hops(path) : path \in AllPaths} =
           {way \in Ways(config) : ~Repeats(way) /\ Len(way) <= longest + 2}
    BY <2>1, <2>3, <2>4, WaysBounded
  <2>6. longest \in config.max_mid_relays..longest
    BY <2>1 DEF Accepted, ConfigType
  <2> QED
    BY <2>5, <2>6 DEF ExactlyLoopFree
<1> QED
  BY <1>1, InvariantHolds, BuiltHolds, PTL

-----------------------------------------------------------------------------
(* get_path, which reads the flags one by one while checks change them.    *)

(* A path that stayed healthy since get_path started is still healthy, and *)
(* is among the healthy ones that were read or still to be read.           *)
Reading ==
    reading => /\ \A id \in steady : healthy[id]
               /\ steady \subseteq seen \cup unread

HealthIInv == TypeOK /\ Reading

\* Indices start at 1, so NoPath is the place of no path.
LEMMA NoPathIsNone == NoPath \notin PathId
BY DEF NoPath, PathId

LEMMA HealthInitIInv == HealthInit => HealthIInv
BY DEF HealthInit, HealthIInv, TypeOK, Reading

LEMMA HealthNextIInv ==
    ASSUME HealthIInv, [HealthNext]_healthVars
    PROVE  HealthIInv'
<1> USE DEF HealthIInv, TypeOK, Reading
<1>1. ASSUME NEW id \in PathId, Check(id) PROVE HealthIInv'
  <2>1. CheckSucceeds(id) \in BOOLEAN
    BY DEF CheckSucceeds
  <2>2. TypeOK'
    BY <1>1, <2>1 DEF Check, getVars
  <2>3. Reading'
    BY <1>1, <2>1 DEF Check, getVars
  <2> QED BY <2>2, <2>3
<1>2. ASSUME NEW id \in PathId, Change(id) PROVE HealthIInv'
  BY <1>2 DEF Change, getVars
<1>3. ASSUME NEW id \in PathId, ReadFlag(id) PROVE HealthIInv'
  BY <1>3 DEF ReadFlag
<1>4. CASE NextPass
  BY <1>4 DEF NextPass, getVars
<1>5. CASE GetPath
  BY <1>5 DEF GetPath
<1>6. CASE ReturnPath
  <2>1. Candidates \subseteq PathId
    BY DEF Candidates
  <2> QED BY <1>6, <2>1 DEF ReturnPath
<1>7. CASE UNCHANGED healthVars
  BY <1>7 DEF healthVars
<1> QED BY <1>1, <1>2, <1>3, <1>4, <1>5, <1>6, <1>7 DEF HealthNext

LEMMA HealthInvariantHolds == HealthSpec => []HealthIInv
<1> QED BY HealthInitIInv, HealthNextIInv, PTL DEF HealthSpec

(* Every variable keeps its type: what get_path returns is one of the      *)
(* paths that were built, and checks flag nothing else.                    *)
THEOREM HealthTypeCorrect == HealthSpec => []TypeOK
<1>1. HealthIInv => TypeOK
  BY DEF HealthIInv
<1> QED BY <1>1, HealthInvariantHolds, PTL

(* get_path returns None only if no path stayed healthy while it ran.      *)
THEOREM NeverGivesUpWrongly == HealthSpec => GivesUpRightly
<1>1. ASSUME HealthIInv, [HealthNext]_healthVars
      PROVE  [ReturnPath /\ chosen' = NoPath => steady = {}]_healthVars
  <2> SUFFICES ASSUME ReturnPath, chosen' = NoPath PROVE steady = {}
    OBVIOUS
  <2>1. seen = {}
    <3>1. SUFFICES ASSUME seen # {} PROVE FALSE
      OBVIOUS
    <3>2. chosen' \in Candidates
      BY <3>1 DEF ReturnPath
    <3>3. Candidates \subseteq PathId
      BY <1>1 DEF Candidates, HealthIInv, TypeOK
    <3> QED BY <3>2, <3>3, NoPathIsNone
  <2> QED BY <1>1, <2>1 DEF ReturnPath, HealthIInv, Reading
<1> QED BY <1>1, HealthInvariantHolds, PTL DEF HealthSpec, GivesUpRightly

(* Without randomization no earlier target, and no earlier next hop of the *)
(* same target, had a path that stayed healthy while get_path ran.         *)
THEOREM TakesFirstHealthy == HealthSpec => FirstHealthyTaken
<1>1. ASSUME HealthIInv, [HealthNext]_healthVars
      PROVE  [ReturnPath /\ chosen' # NoPath =>
                /\ ~ProxyConfig.target_randomization => \A id \in steady : chosen'[1] <= id[1]
                /\ ~ProxyConfig.odoh_relay_randomization =>
                      \A id \in steady : id[1] = chosen'[1] => chosen'[2] <= id[2]]_healthVars
  <2> SUFFICES ASSUME ReturnPath, chosen' # NoPath
               PROVE  /\ ~ProxyConfig.target_randomization =>
                            \A id \in steady : chosen'[1] <= id[1]
                      /\ ~ProxyConfig.odoh_relay_randomization =>
                            \A id \in steady : id[1] = chosen'[1] => chosen'[2] <= id[2]
    OBVIOUS
  <2>1. chosen' \in Candidates
    BY DEF ReturnPath
  <2>2. steady \subseteq seen
    BY <1>1 DEF ReturnPath, HealthIInv, Reading
  <2> QED BY <2>1, <2>2 DEF Candidates
<1> QED BY <1>1, HealthInvariantHolds, PTL DEF HealthSpec, FirstHealthyTaken

=============================================================================
