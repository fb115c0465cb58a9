------------------------------ MODULE TargetConfig ------------------------------
(***************************************************************************)
(* How a configuration file becomes a ProxyConfig                          *)
(* (dap-bin/src/config/target_config.rs): what is rejected, what is filled *)
(* in, and the credentials, which go through the environment of the        *)
(* process.  Periods, sizes and the method are taken as they are written   *)
(* and left out.                                                           *)
(***************************************************************************)
EXTENDS PathBuild

CONSTANTS
    Unset,          \* an option that the file does not have
    Invalid,        \* a URL that verify_target_url refuses
    DefaultTargets, \* DOH_TARGET_URL
    Variable,       \* the environment variables that credentials consist of
    Value,          \* what they can be set to
    CredentialFile, \* the files that configurations name
    contents        \* contents[f]: what f assigns; a missing file, nothing, and
                    \* a file that was edited counts as another

Opt(S) == S \cup {Unset}

Environment == [Variable -> Opt(Value)]

ASSUME TargetConfigAssumption ==
    /\ Unset \notin BOOLEAN \cup Nat \cup Authority \cup Value \cup CredentialFile \cup {Invalid}
    /\ Unset \notin Seq(Authority \cup {Invalid})
    /\ Invalid \notin Authority
    /\ DefaultTargets \in Seq(Authority)
    /\ contents \in [CredentialFile -> Environment]

Url == Authority \cup {Invalid}

\* Relays without odoh_relay_urls, and half of an authentication section,
\* are read as if they were not there.
TomlType ==
    [addresses_valid : BOOLEAN,     \* listen_addresses and bootstrap_dns parse
     target_urls : Opt(Seq(Url)),
     target_randomization : Opt(BOOLEAN),
     odoh_relay_urls : Opt(Seq(Url)),
     odoh_relay_randomization : Opt(BOOLEAN),
     mid_relay_urls : Opt(Seq(Url)),
     max_mid_relays : Opt(Nat),
     credential_file : Opt(CredentialFile),
     token_api : Opt(Url)]

-----------------------------------------------------------------------------

verified(urls) == \A i \in DOMAIN urls : urls[i] # Invalid

or_default(option, default) == IF option = Unset THEN default ELSE option

Relayed(toml) == toml.odoh_relay_urls # Unset
MidRelayed(toml) == Relayed(toml) /\ toml.mid_relay_urls # Unset
Authenticated(toml) == toml.credential_file # Unset /\ toml.token_api # Unset

\* Mutant: max_mid_relays is taken as it is.
UncheckedMax(toml) == ~verified(toml.mid_relay_urls) \/ toml.mid_relay_urls = <<>>

BadMidRelays(toml) ==
    \/ ~verified(toml.mid_relay_urls)
    \/ toml.mid_relay_urls = <<>>
    \/ toml.max_mid_relays # Unset /\ toml.max_mid_relays > Len(toml.mid_relay_urls)

\* What try_into rejects before it comes to the credentials.
BadPaths(toml) ==
    \/ ~toml.addresses_valid
    \/ toml.target_urls # Unset /\ ~verified(toml.target_urls)
    \/ Relayed(toml) /\ ~verified(toml.odoh_relay_urls)
    \/ MidRelayed(toml) /\ BadMidRelays(toml)

\* The ProxyConfig, as far as DoHPathManager::new reads it.
proxy_config(toml) ==
    [odoh |-> Relayed(toml),
     doh_target_urls |-> or_default(toml.target_urls, DefaultTargets),
     odoh_relay_urls |-> IF Relayed(toml) THEN toml.odoh_relay_urls ELSE <<>>,
     mid_relay_urls |-> IF MidRelayed(toml) THEN toml.mid_relay_urls ELSE <<>>,
     max_mid_relays |-> IF MidRelayed(toml) THEN or_default(toml.max_mid_relays, 1) ELSE 0,
     target_randomization |-> or_default(toml.target_randomization, TRUE),
     odoh_relay_randomization |-> or_default(toml.odoh_relay_randomization, TRUE)]

\* dotenv::from_path sets the variables that are not set yet.
from_path(env, file) == [v \in Variable |-> or_default(env[v], contents[file][v])]

\* The environment after try_into, whether it accepts the file or not.
loaded(toml, env) ==
    IF ~BadPaths(toml) /\ Authenticated(toml)
    THEN from_path(env, toml.credential_file) ELSE env

BadCredentials(toml, env) ==
    /\ Authenticated(toml)
    /\ (\E v \in Variable : loaded(toml, env)[v] = Unset) \/ toml.token_api = Invalid

Rejected(toml, env) == BadPaths(toml) \/ BadCredentials(toml, env)

=============================================================================
