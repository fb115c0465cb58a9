------------------------------ MODULE ConnLimit ------------------------------
(***************************************************************************)
(* What the connection counter promises the queries of one protocol: a     *)
(* limit of Max slots in which slots can get lost.  A query is admitted    *)
(* when fewer than Max slots are taken and refused otherwise; a refused    *)
(* query takes a slot too, until it gives it back.  A slot that is not     *)
(* given back is taken for ever.                                           *)
(***************************************************************************)
EXTENDS Naturals, FiniteSets

CONSTANTS
    Query,          \* the queries of this protocol
    Max             \* the limit

VARIABLES
    active,         \* admitted queries that are being served
    slots           \* queries that hold a slot, ended ones included

vars == <<active, slots>>

Init ==
    /\ active = {}
    /\ slots = {}

Admit(q) ==
    /\ q \notin slots
    /\ Cardinality(slots) < Max
    /\ active' = active \cup {q}
    /\ slots' = slots \cup {q}

Refuse(q) ==
    /\ q \notin slots
    /\ Cardinality(slots) >= Max
    /\ slots' = slots \cup {q}
    /\ UNCHANGED active

GiveBack(q) ==
    /\ q \in slots
    /\ active' = active \ {q}
    /\ slots' = slots \ {q}

\* The query ends and its slot stays taken.
Abandon(q) ==
    /\ q \in active
    /\ active' = active \ {q}
    /\ UNCHANGED slots

Next == \E q \in Query : Admit(q) \/ Refuse(q) \/ GiveBack(q) \/ Abandon(q)

Spec == Init /\ [][Next]_vars

=============================================================================
