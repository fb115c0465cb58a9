------------------------------- MODULE MCPaths --------------------------------
(* The configuration, the paths that are built from it, and get_path over     *)
(* them: the health checks and queries of PathHealth run once PathManager has *)
(* built the paths of one of the configurations of its history.               *)
EXTENDS MCPathManager, PathHealth

CONSTANTS a, b, c

\* Two targets and two next hops, the second of which is also the second
\* target, so that three paths are left.
HealthFile ==
    [Plain EXCEPT !.target_urls = <<a, b>>, !.target_randomization = FALSE,
                  !.odoh_relay_urls = <<c, b>>, !.odoh_relay_randomization = FALSE]

MCProxyConfig == proxy_config(HealthFile)

MCPathsHistory == MCHistory \cup {<<HealthFile>>}

\* entrypoint runs with the configuration that PathHealth is about.
Running == built /\ config = ProxyConfig

\* What works matters only where it is looked at.
MCInit ==
    /\ Init
    /\ HealthInit
    /\ versions # <<HealthFile>> => works = PathId

Manage == Next /\ UNCHANGED healthVars
Serve(A) == Running /\ A /\ UNCHANGED vars

MCNext == Manage \/ Serve(HealthNext)

MCSpec ==
    /\ MCInit /\ [][MCNext]_<<vars, healthVars>>
    /\ WF_<<vars, healthVars>>(Manage)
    /\ \A id \in PathId : WF_<<vars, healthVars>>(Serve(Check(id)))
    /\ WF_<<vars, healthVars>>(Serve(NextPass))

=============================================================================
