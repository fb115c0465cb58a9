----------------------------- MODULE MCPathManager ----------------------------
(* PathManager on every small configuration - up to two targets, next hops    *)
(* and mid relays, which may share authorities - and on every sequence of     *)
(* up to three versions that differ in their credentials.                     *)
EXTENDS PathManager

CONSTANTS MaxTargets, MaxNextHops, MaxMids

Lists(n) == UNION {[1..k -> Authority] : k \in 0..n}

Plain ==
    [addresses_valid |-> TRUE,
     target_urls |-> Unset, target_randomization |-> Unset,
     odoh_relay_urls |-> Unset, odoh_relay_randomization |-> Unset,
     mid_relay_urls |-> Unset, max_mid_relays |-> Unset,
     credential_file |-> Unset, token_api |-> Unset]

Paths ==
    {[Plain EXCEPT !.target_urls = t, !.odoh_relay_urls = n,
                   !.mid_relay_urls = r, !.max_mid_relays = m] :
        t \in Opt(Lists(MaxTargets)), n \in Opt(Lists(MaxNextHops)),
        r \in Opt(Lists(MaxMids)), m \in Opt(0..MaxMids)}

\* Files that set one variable or both, and one that is missing.
MCContents ==
    [f \in CredentialFile |->
        [v \in Variable |->
            CASE f = "old"     -> "old"
              [] f = "new"     -> "new"
              [] f = "partial" -> IF v = "username" THEN "partial" ELSE Unset
              [] f = "missing" -> Unset]]

Credentials ==
    {[Plain EXCEPT !.credential_file = f, !.token_api = a] :
        f \in Opt(CredentialFile), a \in {CHOOSE u \in Authority : TRUE, Invalid}}
    \cup {[Plain EXCEPT !.addresses_valid = FALSE, !.credential_file = "new",
                        !.token_api = CHOOSE u \in Authority : TRUE],
          [Plain EXCEPT !.target_urls = <<Invalid>>]}

MCHistory ==
    {<<toml>> : toml \in Paths} \cup UNION {[1..n -> Credentials] : n \in 1..3}

MCDefault == <<CHOOSE u \in Authority : TRUE>>

MCInitialEnv ==
    {[v \in Variable |-> Unset],
     [v \in Variable |-> IF v = "username" THEN "shell" ELSE Unset]}

=============================================================================
