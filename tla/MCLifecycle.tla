----------------------------- MODULE MCLifecycle ------------------------------
(* Lifecycle on one service of each way to live: awaited (resolution),       *)
(* awaiting others (proxy), spawned by a spawned one (udp).                  *)
EXTENDS Lifecycle

MCService == {"resolution", "proxy", "udp"}

=============================================================================
