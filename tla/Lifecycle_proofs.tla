--------------------------- MODULE Lifecycle_proofs ---------------------------
(***************************************************************************)
(* The safety of Lifecycle, for every set of services and every number of  *)
(* changes of the configuration.                                           *)
(***************************************************************************)
EXTENDS Lifecycle, TLAPS

\* Every generation beyond the first has taken a change that was sent, and
\* the one to come after a drop has one of its own.
OnePerChange ==
    /\ gen <= seen + 1
    /\ stage = "changed" => gen <= seen

\* Generations to come have no tasks, and the current one has the adopted
\* configuration.
Future ==
    /\ conf[gen] = proxy_conf
    /\ \A g \in Generation : g > gen => \A s \in Service : state[g][s] = "none"

\* What has ended in the current generation was not told to: it has failed,
\* or it is the proxy and a listener has.
EndedFailed ==
    \A s \in Service :
        /\ state[gen][s] # "notified"
        /\ state[gen][s] = "ended" =>
              \/ <<gen, s>> \in failed
              \/ s = "proxy" /\ \E l \in Listener \cap Service : <<gen, l>> \in failed

\* With a replaced configuration, what is yet to be polled is late.
SpawnedLate ==
    \A g \in Generation, s \in Service :
        state[g][s] = "spawned" /\ conf[g] # proxy_conf => <<g, s>> \in late

IInv ==
    /\ TypeOK
    /\ OnePerChange
    /\ Future
    /\ EndedFailed
    /\ NoFalseExit
    /\ SpawnedLate
    /\ OnlyLateSurvive

-----------------------------------------------------------------------------

LEMMA InitIInv == Init => IInv
<1>. SUFFICES ASSUME Init PROVE IInv
    OBVIOUS
<1>. USE LifecycleAssumption DEF Init, Generation
<1>1. TypeOK
    BY DEF TypeOK, TaskState
<1>2. OnePerChange /\ Future /\ EndedFailed /\ NoFalseExit
    BY DEF OnePerChange, Future, EndedFailed, NoFalseExit
<1>3. SpawnedLate /\ OnlyLateSurvive
    BY DEF SpawnedLate, OnlyLateSurvive, Waiting
<1>. QED  BY <1>1, <1>2, <1>3 DEF IInv

\* The actions of entrypoint and of the tasks, which leave the watcher alone.
LEMMA TaskStep ==
    ASSUME IInv,
           \/ HttpBuilt \/ ClientBuilt \/ BuildFails \/ Exit
           \/ \E g \in Generation :
                 \/ ProxyEnds(g)
                 \/ \E s \in Service : \/ Poll(g, s) \/ BindFails(g, s)
                                       \/ GivesUp(g, s) \/ Terminates(g, s)
    PROVE  IInv'
<1>. USE LifecycleAssumption DEF IInv, watcherVars
<1>0. gen \in Generation
    BY DEF TypeOK
<1>1. ASSUME NEW services, SpawnFrom(gen, services), stage \in Building,
             stage' \in {"client", "wait"}, UNCHANGED <<watcherVars, gen, conf, failed, late>>
      PROVE  IInv'
    <2>. USE <1>1 DEF SpawnFrom, Building
    <2>1. TypeOK'
        BY DEF TypeOK, TaskState
    <2>2. OnePerChange' /\ NoFalseExit'
        BY DEF OnePerChange, NoFalseExit
    <2>3. \A g \in Generation : g # gen => state'[g] = state[g]
        BY DEF TypeOK
    <2>4. Future'
        BY <1>0, <2>3 DEF Future, TypeOK, Generation
    <2>5. EndedFailed'
        BY <1>0 DEF EndedFailed, TypeOK
    <2>6. SpawnedLate' /\ OnlyLateSurvive'
        BY <1>0 DEF SpawnedLate, OnlyLateSurvive, Waiting, Future, TypeOK
    <2>. QED  BY <2>1, <2>2, <2>4, <2>5, <2>6
<1>2. CASE BuildFails
    <2>. USE <1>2 DEF BuildFails, Building
    <2>1. TypeOK'
        BY DEF TypeOK
    <2>2. OnePerChange' /\ Future' /\ EndedFailed'
        BY DEF OnePerChange, Future, EndedFailed
    <2>3. NoFalseExit' /\ SpawnedLate' /\ OnlyLateSurvive'
        BY DEF NoFalseExit, SpawnedLate, OnlyLateSurvive, Waiting
    <2>. QED  BY <2>1, <2>2, <2>3
<1>3. CASE Exit
    <2>. USE <1>3 DEF Exit
    <2>1. TypeOK'
        BY DEF TypeOK
    <2>2. OnePerChange' /\ Future' /\ EndedFailed' /\ SpawnedLate' /\ OnlyLateSurvive'
        BY DEF OnePerChange, Future, EndedFailed, SpawnedLate, OnlyLateSurvive, Waiting
    <2>3. NoFalseExit'
        BY DEF NoFalseExit, EndedFailed
    <2>. QED  BY <2>1, <2>2, <2>3
<1>4. ASSUME NEW g \in Generation, NEW s \in Service, Poll(g, s) PROVE IInv'
    <2>. USE <1>4 DEF Poll
    <2>0. \A h \in Generation, t \in Service :
              \/ state'[h][t] = state[h][t]
              \/ h = g /\ t = s /\ state'[h][t] = "running"
              \/ h = g /\ t \in Spawns(s) /\ state'[h][t] = "spawned"
        BY DEF TypeOK
    <2>1. state' \in [Generation -> [Service -> TaskState]]
        BY DEF TypeOK, TaskState
    <2>2. late' \subseteq Generation \X Service /\ late \subseteq late'
        BY DEF TypeOK
    <2>3. TypeOK'
        BY <2>1, <2>2 DEF TypeOK, Alive
    <2>4. OnePerChange' /\ NoFalseExit'
        BY DEF OnePerChange, NoFalseExit
    <2>5. Future'
        BY <2>0, <1>0 DEF Future, TypeOK, Generation
    <2>6. EndedFailed'
        BY <2>0, <1>0 DEF EndedFailed
    <2>7. conf[g] # proxy_conf => \A t \in Spawns(s) \cap Service : <<g, t>> \in late'
        BY DEF SpawnedLate
    <2>8. SpawnedLate'
        BY <2>0, <2>2, <2>7 DEF SpawnedLate
    <2>9. OnlyLateSurvive'
        BY <2>0, <2>2 DEF OnlyLateSurvive, Waiting, SpawnedLate
    <2>. QED  BY <2>3, <2>4, <2>5, <2>6, <2>8, <2>9
<1>5. ASSUME NEW g \in Generation, NEW s \in Service, state[g][s] # "none",
             state' = [state EXCEPT ![g][s] = "ended"],
             failed \subseteq failed', failed' \subseteq failed \cup {<<g, s>>},
             g = gen => \/ <<g, s>> \in failed'
                        \/ s = "proxy" /\ \E l \in Listener \cap Service : <<gen, l>> \in failed,
             Alive, UNCHANGED <<watcherVars, gen, stage, conf, late>>
      PROVE  IInv'
    <2>. USE <1>5
    <2>0. \A h \in Generation, t \in Service :
              state'[h][t] = IF h = g /\ t = s THEN "ended" ELSE state[h][t]
        BY DEF TypeOK
    <2>1. TypeOK'
        BY DEF TypeOK, TaskState
    <2>2. OnePerChange' /\ NoFalseExit'
        BY DEF OnePerChange, NoFalseExit, Alive
    <2>3. Future'
        BY <2>0, <1>0 DEF Future
    <2>4. EndedFailed'
        BY <2>0, <1>0 DEF EndedFailed
    <2>5. SpawnedLate' /\ OnlyLateSurvive'
        BY <2>0 DEF SpawnedLate, OnlyLateSurvive, Waiting
    <2>. QED  BY <2>1, <2>2, <2>3, <2>4, <2>5
<1>6. ASSUME NEW g \in Generation, ProxyEnds(g) PROVE IInv'
    BY <1>5, <1>6 DEF ProxyEnds, EndedFailed, Listener
<1>7. ASSUME NEW g \in Generation, NEW s \in Service,
             BindFails(g, s) \/ GivesUp(g, s) \/ Terminates(g, s)
      PROVE  IInv'
    BY <1>5, <1>7 DEF BindFails, GivesUp, Terminates, EndedFailed
<1>. QED
    BY <1>1, <1>2, <1>3, <1>4, <1>6, <1>7 DEF HttpBuilt, ClientBuilt, Building

\* The actions of the reloader and of the watcher.
LEMMA WatcherStep ==
    ASSUME IInv, FileChanges \/ Changed \/ Adopt \/ Reject
    PROVE  IInv'
<1>. USE LifecycleAssumption DEF IInv
<1>1. CASE FileChanges
    <2>. USE <1>1 DEF FileChanges
    <2>1. TypeOK'
        BY DEF TypeOK
    <2>2. OnePerChange' /\ Future' /\ EndedFailed'
        BY DEF OnePerChange, Future, EndedFailed
    <2>3. NoFalseExit' /\ SpawnedLate' /\ OnlyLateSurvive'
        BY DEF NoFalseExit, SpawnedLate, OnlyLateSurvive, Waiting
    <2>. QED  BY <2>1, <2>2, <2>3
<1>2. ASSUME stage = "changed"
      PROVE  gen \in Nat /\ gen + 1 \in Generation /\ gen + 1 <= seen + 1
    BY <1>2 DEF TypeOK, OnePerChange, Generation
<1>5. CASE Changed
    <2>. USE <1>5 DEF Changed, Building
    <2>1. TypeOK'
        BY DEF TypeOK
    <2>2. OnePerChange'
        BY DEF OnePerChange, TypeOK, Generation
    <2>3. Future' /\ EndedFailed' /\ NoFalseExit' /\ SpawnedLate' /\ OnlyLateSurvive'
        BY DEF Future, EndedFailed, NoFalseExit, SpawnedLate, OnlyLateSurvive, Waiting
    <2>. QED  BY <2>1, <2>2, <2>3
<1>3. CASE Adopt
    <2>. USE <1>3, <1>2 DEF Adopt, NextGeneration, notify_waiters
    <2>0. \A g \in Generation, s \in Service :
              state'[g][s] = IF Waiting(g, s) THEN "notified" ELSE state[g][s]
        OBVIOUS
    <2>1. TypeOK'
        <3>1. state' \in [Generation -> [Service -> TaskState]]
            BY DEF TypeOK, TaskState
        <3>2. late' \subseteq Generation \X Service
            BY DEF TypeOK
        <3>. QED  BY <3>1, <3>2 DEF TypeOK
    <2>2. OnePerChange' /\ NoFalseExit'
        BY DEF OnePerChange, NoFalseExit, TypeOK
    <2>3. Future'
        BY <2>0 DEF Future, Waiting, TypeOK, Generation
    <2>4. EndedFailed'
        BY <2>0 DEF EndedFailed, Future, Waiting
    <2>5. SpawnedLate'
        BY <2>0 DEF SpawnedLate, Waiting
    <2>6. OnlyLateSurvive'
        BY <2>0 DEF OnlyLateSurvive, Waiting
    <2>. QED  BY <2>1, <2>2, <2>3, <2>4, <2>5, <2>6
<1>4. CASE Reject
    <2>. USE <1>4, <1>2 DEF Reject, NextGeneration
    <2>1. TypeOK'
        BY DEF TypeOK
    <2>2. OnePerChange' /\ NoFalseExit'
        BY DEF OnePerChange, NoFalseExit, TypeOK
    <2>3. Future'
        BY DEF Future, TypeOK, Generation
    <2>4. EndedFailed'
        BY DEF EndedFailed, Future
    <2>5. SpawnedLate' /\ OnlyLateSurvive'
        BY DEF SpawnedLate, OnlyLateSurvive, Waiting, Future, TypeOK
    <2>. QED  BY <2>1, <2>2, <2>3, <2>4, <2>5
<1>. QED  BY <1>1, <1>3, <1>4, <1>5

LEMMA NextIInv == IInv /\ [Next]_vars => IInv'
<1>. SUFFICES ASSUME IInv, [Next]_vars PROVE IInv'
    OBVIOUS
<1>1. CASE UNCHANGED vars
    BY <1>1 DEF vars, IInv, TypeOK, OnePerChange, Future, EndedFailed, NoFalseExit,
       SpawnedLate, OnlyLateSurvive, Waiting
<1>. QED  BY <1>1, TaskStep, WatcherStep DEF Next

-----------------------------------------------------------------------------

(* Every state of the watcher and its tasks has the type stated, and       *)
(* generations never outnumber the changes.                                *)
THEOREM TypeCorrect == Spec => []TypeOK
<1>1. IInv => TypeOK
    BY DEF IInv
<1>. QED  BY <1>1, InitIInv, NextIInv, PTL DEF Spec

(* The process never exits because a change of configuration has ended its *)
(* services.                                                               *)
THEOREM NeverExitsFalsely == Spec => []NoFalseExit
<1>1. IInv => NoFalseExit
    BY DEF IInv
<1>. QED  BY <1>1, InitIInv, NextIInv, PTL DEF Spec

(* Services keep an old configuration only if a change has come between    *)
(* their spawn, or that of the task they come from, and the first poll.    *)
THEOREM OnlyLateTasksSurvive == Spec => []OnlyLateSurvive
<1>1. IInv => OnlyLateSurvive
    BY DEF IInv
<1>. QED  BY <1>1, InitIInv, NextIInv, PTL DEF Spec

=============================================================================
