----------------------------- MODULE MCPathHealth -----------------------------
(* PathHealth over the two paths of standard DoH to two targets; MCPaths has  *)
(* the oblivious ones.                                                        *)
EXTENDS PathHealth

MCAuthority == {"target1", "target2"}

Standard ==
    [odoh |-> FALSE,
     doh_target_urls |-> <<"target1", "target2">>,
     odoh_relay_urls |-> <<>>,
     mid_relay_urls |-> <<>>,
     max_mid_relays |-> 0,
     target_randomization |-> FALSE,
     odoh_relay_randomization |-> FALSE]

=============================================================================
