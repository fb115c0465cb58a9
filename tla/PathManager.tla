----------------------------- MODULE PathManager -----------------------------
(***************************************************************************)
(* From the configuration file to the paths: the versions of the file that *)
(* the watcher sees are converted one after the other by the same process  *)
(* (dap-bin/src/main.rs), and each time entrypoint runs, with the last one *)
(* that was accepted, DoHPathManager::new builds the nested lists that     *)
(* targets() and get_path index unchecked.                                 *)
(***************************************************************************)
EXTENDS TargetConfig, SequencesExt

CONSTANTS
    History,        \* the sequences of versions that are considered
    InitialEnv,     \* the environments the process may be started with
    NoConfig,       \* none has been accepted yet
    NoUser          \* no authentication_config

ASSUME HistoryAssumption ==
    /\ History \subseteq Seq(TomlType)
    /\ InitialEnv \subseteq Environment
    /\ NoConfig \notin ConfigType
    /\ NoUser \notin Environment

VARIABLES
    versions,       \* the versions of the file that are still to come
    env,            \* the environment of the process
    config,         \* the ProxyConfig, as far as the path manager reads it
    user,           \* its authentication_config
    built,          \* entrypoint has built the path manager
    paths           \* paths[i][j]: the paths over target i and next hop j

vars == <<versions, env, config, user, built, paths>>

\* targets(): panics on an empty level.
targets == [i \in DOMAIN paths |-> (CHOOSE path \in paths[i][1] : TRUE).target]

Init ==
    /\ versions \in History
    /\ env \in InitialEnv
    /\ config = NoConfig
    /\ user = NoUser
    /\ built = FALSE
    /\ paths = <<>>

\* A configuration is converted: entrypoint starts with it.
Adopt ==
    /\ versions # <<>>
    /\ LET toml == Head(versions)
       IN  /\ ~Rejected(toml, env)
           /\ env' = loaded(toml, env)
           /\ config' = proxy_config(toml)
           /\ user' = IF Authenticated(toml) THEN env' ELSE NoUser
    /\ versions' = Tail(versions)
    /\ built' = FALSE
    /\ paths' = <<>>

\* It is not: entrypoint starts again with the last one, and if there is none
\* the process exits.
Reject ==
    /\ versions # <<>>
    /\ Rejected(Head(versions), env)
    /\ env' = loaded(Head(versions), env)
    /\ versions' = IF config = NoConfig THEN <<>> ELSE Tail(versions)
    /\ built' = FALSE
    /\ paths' = <<>>
    /\ UNCHANGED <<config, user>>

New ==
    /\ config # NoConfig /\ ~built
    /\ built' = TRUE
    /\ paths' = new(config)
    /\ UNCHANGED <<versions, env, config, user>>

Next == Adopt \/ Reject \/ New

Spec == Init /\ [][Next]_vars

-----------------------------------------------------------------------------
(* Properties.                                                             *)

\* Every order of different mid relays, by definition and not by position.
RouteOrders(S) ==
    {s \in UNION {[1..n -> S] : n \in 0..Cardinality(S)} :
        \A i, j \in DOMAIN s : s[i] = s[j] => i = j}

Hops(path) == <<path.target>> \o [i \in DOMAIN path.relays |-> path.relays[i].authority]

Repeats(h) == \E i, j \in DOMAIN h : i # j /\ h[i] = h[j]

\* The target, the next hop and an order of mid relays, whatever they are.
WaysBetween(c, target, nexthop) ==
    {<<target, nexthop>> \o r : r \in RouteOrders(ToSet(c.mid_relay_urls))}

Ways(c) ==
    UNION {UNION {WaysBetween(c, target, nexthop) : nexthop \in ToSet(c.odoh_relay_urls)} :
              target \in ToSet(c.doh_target_urls)}

AllPaths == UNION {UNION {paths[i][j] : j \in DOMAIN paths[i]} : i \in DOMAIN paths}

(* For some number n of mid relays, at least max_mid_relays, the paths are *)
(* exactly the loop-free ones with up to n: for every target and next hop  *)
(* that differ, every order of mid relays that are neither of them; no     *)
(* path the filter should have dropped, and none lost with an empty level. *)
(* That n may be larger than max_mid_relays, which README.md:226 and       *)
(* target_config.rs:201 call a maximum, is what path_manage.rs:276 makes   *)
(* of it; the property does not ask for it.                                *)
ExactlyLoopFree ==
    built /\ config.odoh =>
       \E n \in config.max_mid_relays..Len(config.mid_relay_urls) :
          {Hops(path) : path \in AllPaths} =
             {way \in Ways(config) : ~Repeats(way) /\ Len(way) <= n + 2}

(* No level of the nested lists is empty and each holds the paths of one   *)
(* target and one next hop, in the order of the configuration: targets()   *)
(* indexes them without a check, and get_path takes the first ones.        *)
LevelsOK ==
    \A i \in DOMAIN paths :
       /\ paths[i] # <<>>
       /\ \A j \in DOMAIN paths[i] : paths[i][j] # {}
       /\ \A j \in DOMAIN paths[i] : \A path \in paths[i][j] :
             /\ path.target = targets[i]
             /\ config.odoh => Usable(path)
       /\ config.odoh => \E f \in [DOMAIN paths[i] -> DOMAIN config.odoh_relay_urls] :
             /\ \A j, k \in DOMAIN paths[i] : j < k => f[j] < f[k]
             /\ \A j \in DOMAIN paths[i] : \A path \in paths[i][j] :
                   path.relays[1].authority = config.odoh_relay_urls[f[j]]

(* What is accepted is what the path manager relies on, however the        *)
(* options are combined, left out or filled in.                            *)
ConfigAccepted == config # NoConfig => Accepted(config)

=============================================================================
