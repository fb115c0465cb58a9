----------------------------- MODULE MCDoHClient ------------------------------
(* DoHClient over two endpoints, each the next hop of a path, with and       *)
(* without a rule for the name of the first, which is the one that moves.    *)
EXTENDS DoHClient

CONSTANTS e1, e2, p1, p2

MCHop == [p \in Path |-> IF p = p1 THEN e1 ELSE e2]

MCRules ==
    {[e \in Endpoint |-> IF e = e1 THEN r ELSE "none"] : r \in {"none", "block", "override"}}

=============================================================================
