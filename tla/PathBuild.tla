------------------------------ MODULE PathBuild ------------------------------
(***************************************************************************)
(* How DoHPathManager::new builds the paths that queries can take          *)
(* (dap-lib/src/doh_client/path_manage.rs).  A path is a target resolver   *)
(* and the relays in front of it, the next hop first.  A URL is abstracted *)
(* to its authority, which is all that the loop test looks at.             *)
(***************************************************************************)
EXTENDS Positions, Naturals, Sequences, FiniteSets

CONSTANT Authority  \* the authorities of the configured URLs

\* What new reads of the ProxyConfig.  mid_relay_urls is empty when there is
\* no subseq_relay_config: an empty list is rejected by the parser, as is a
\* max_mid_relays above its length.
ConfigType ==
    [odoh : BOOLEAN,
     doh_target_urls : Seq(Authority),
     odoh_relay_urls : Seq(Authority),
     mid_relay_urls : Seq(Authority),
     max_mid_relays : Nat,
     target_randomization : BOOLEAN,
     odoh_relay_randomization : BOOLEAN]

\* What the parser lets through: mid relays only with next hops, and no more
\* of them in a path than there are.  The lists of targets and of next hops
\* may be empty.
Accepted(c) ==
    /\ c \in ConfigType
    /\ c.odoh \/ (c.odoh_relay_urls = <<>> /\ c.mid_relay_urls = <<>>)
    /\ c.max_mid_relays <= Len(c.mid_relay_urls)

-----------------------------------------------------------------------------

DoHRelay(authority, next) == [authority |-> authority, can_be_next_hop |-> next]

DoHPath(target, relays) == [target |-> target, relays |-> relays]

\* Mutant: the target is not among the authorities already seen.
RelaysLoop(path) ==
    \E i, j \in DOMAIN path.relays :
       j < i /\ path.relays[j].authority = path.relays[i].authority

\* A relay repeats an authority before it, or the target's.
is_looped(path) ==
    \E i \in DOMAIN path.relays :
       \/ path.relays[i].authority = path.target
       \/ \E j \in 1..(i - 1) : path.relays[j].authority = path.relays[i].authority

\* as_url finds a next hop to send the query to; a standard path fails.
Usable(path) == path.relays # <<>> /\ path.relays[1].can_be_next_hop

LargerOf(m, n) == IF m > n THEN m ELSE n

\* Itertools::permutations: ordered choices of num elements by position.
permutations(relays, num) ==
    {[i \in 1..num |-> relays[f[i]]] :
        f \in {g \in [1..num -> 1..Len(relays)] : \A i, j \in 1..num : g[i] = g[j] => i = j}}

subseq_relay_paths(c) ==
    LET relays == [i \in DOMAIN c.mid_relay_urls |-> DoHRelay(c.mid_relay_urls[i], FALSE)]
        max == LargerOf(c.max_mid_relays, Len(relays))
    IN  UNION {permutations(relays, num) : num \in 0..max}

relay_paths(c, nexthop) ==
    {<<DoHRelay(nexthop, TRUE)>> \o after : after \in subseq_relay_paths(c)}

loop_free(c, target, nexthop) ==
    {path \in {DoHPath(target, relays) : relays \in relay_paths(c, nexthop)} : ~is_looped(path)}

\* Next hops and targets that are left without a path are dropped.
per_target(c, target) ==
    LET levels == [j \in DOMAIN c.odoh_relay_urls |-> loop_free(c, target, c.odoh_relay_urls[j])]
    IN  at_positions(levels, {j \in DOMAIN levels : levels[j] # {}})

\* Mutant: targets without a path are kept.
AllTargets(c) == [i \in DOMAIN c.doh_target_urls |-> per_target(c, c.doh_target_urls[i])]

ObliviousPaths(c) ==
    LET levels == [i \in DOMAIN c.doh_target_urls |-> per_target(c, c.doh_target_urls[i])]
    IN  at_positions(levels, {i \in DOMAIN levels : levels[i] # <<>>})

StandardPaths(c) ==
    [i \in DOMAIN c.doh_target_urls |-> <<{DoHPath(c.doh_target_urls[i], <<>>)}>>]

new(c) == IF c.odoh THEN ObliviousPaths(c) ELSE StandardPaths(c)

=============================================================================
