----------------------------- MODULE ConnCounter -----------------------------
(***************************************************************************)
(* The connection counter that the UDP and TCP tasks of one Proxy share    *)
(* (dap-lib/src/proxy/counter.rs).  It is three atomics: one per protocol, *)
(* which the admission test reads, and cnt_total, which only debug logs    *)
(* read.  Each operator below is one atomic access: increment and          *)
(* decrement are sequences of them, and the tasks of ProxyServe interleave *)
(* between any two.                                                        *)
(*                                                                         *)
(* All accesses are Relaxed.  A task that resumes on another worker is     *)
(* ordered by the runtime, and an atomic has one modification order, so a  *)
(* Relaxed load that returns an older value is a load taken earlier.       *)
(***************************************************************************)
EXTENDS Naturals, FiniteSets

CONSTANTS
    UdpTask,        \* the queries that arrive on the UDP socket
    TcpTask         \* the connections that the TCP listener accepts

ASSUME TasksAssumption ==
    /\ IsFiniteSet(UdpTask)
    /\ IsFiniteSet(TcpTask)
    /\ UdpTask \cap TcpTask = {}

Task == UdpTask \cup TcpTask

CounterType == {"udp", "tcp"}

TypeOf(t) == IF t \in UdpTask THEN "udp" ELSE "tcp"

VARIABLES
    cnt,            \* cnt_udp and cnt_tcp
    cnt_total,      \* cnt_total
    loaded,         \* loaded[t]: what task t last loaded inside decrement
    counted         \* history: tasks added to cnt and not taken off again

counterVars == <<cnt, cnt_total, loaded, counted>>

CounterTypeOK ==
    /\ cnt \in [CounterType -> Nat]
    /\ cnt_total \in Nat
    /\ loaded \in [Task -> Nat]
    /\ counted \in SUBSET Task

\* ConnCounter::default
CounterInit ==
    /\ cnt = [c \in CounterType |-> 0]
    /\ cnt_total = 0
    /\ loaded = [t \in Task |-> 0]
    /\ counted = {}

-----------------------------------------------------------------------------
(* increment: the caller compares the value before the addition with max.  *)

AddTotal ==
    /\ cnt_total' = cnt_total + 1
    /\ UNCHANGED <<cnt, loaded, counted>>

\* Mutant: the arms of the match are swapped.
AddSwapped(t) ==
    /\ cnt' = [cnt EXCEPT ![IF TypeOf(t) = "udp" THEN "tcp" ELSE "udp"] = @ + 1]
    /\ counted' = counted \cup {t}
    /\ UNCHANGED <<cnt_total, loaded>>

AddOwn(t) ==
    /\ cnt' = [cnt EXCEPT ![TypeOf(t)] = @ + 1]
    /\ counted' = counted \cup {t}
    /\ UNCHANGED <<cnt_total, loaded>>

(* decrement: a load, one compare_exchange whose failure is ignored, and   *)
(* the recomputation of cnt_total from two loads.                          *)

LoadOwn(t) ==
    /\ loaded' = [loaded EXCEPT ![t] = cnt[TypeOf(t)]]
    /\ UNCHANGED <<cnt, cnt_total, counted>>

\* Mutant: a plain store of the decremented value.
StoreDecremented(t) ==
    /\ cnt' = [cnt EXCEPT ![TypeOf(t)] = loaded[t] - 1]
    /\ counted' = counted \ {t}
    /\ UNCHANGED <<cnt_total, loaded>>

\* Not reached when the load returned 0 (`cnt > 0 && ...`).
CompareExchange(t) ==
    /\ IF loaded[t] > 0 /\ cnt[TypeOf(t)] = loaded[t]
       THEN /\ cnt' = [cnt EXCEPT ![TypeOf(t)] = loaded[t] - 1]
            /\ counted' = counted \ {t}
       ELSE UNCHANGED <<cnt, counted>>
    /\ UNCHANGED <<cnt_total, loaded>>

LoadUdp(t) ==
    /\ loaded' = [loaded EXCEPT ![t] = cnt["udp"]]
    /\ UNCHANGED <<cnt, cnt_total, counted>>

LoadTcp(t) ==
    /\ loaded' = [loaded EXCEPT ![t] = @ + cnt["tcp"]]
    /\ UNCHANGED <<cnt, cnt_total, counted>>

StoreTotal(t) ==
    /\ cnt_total' = loaded[t]
    /\ UNCHANGED <<cnt, loaded, counted>>

=============================================================================
