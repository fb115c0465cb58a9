------------------------------- MODULE Lifecycle -------------------------------
(***************************************************************************)
(* How the program's tasks live under the configuration watcher            *)
(* (dap-bin/src/main.rs, dap-lib/src/lib.rs, the start functions of the    *)
(* services).  Each run of entrypoint is a generation: it builds its       *)
(* clients, spawns services, which spawn services of their own, and waits  *)
(* until one of those it waits for ends.  A changed configuration drops    *)
(* the entrypoint, but not the tasks it has spawned: those are told by     *)
(* notify_waiters, which reaches the tasks that wait for it at that moment *)
(* and stores nothing for those that do not wait yet.                      *)
(***************************************************************************)
EXTENDS Naturals, FiniteSets

CONSTANTS
    Service,        \* bound: the services modelled, among AllServices
    MaxVersion      \* bound: how often the configuration file changes

Awaited == {"auth", "resolution", "health", "proxy"}
Listener == {"udp", "tcp"}
AllServices == Awaited \cup Listener \cup {"odoh", "responder"}

ASSUME LifecycleAssumption ==
    /\ Service \subseteq AllServices
    /\ MaxVersion \in Nat

\* The first generation, and one more for every change.
Generation == 1..(MaxVersion + 1)

VARIABLES
    sent,           \* the newest configuration the reloader has sent
    valid,          \* whether it converts to a ProxyConfig
    seen,           \* the newest one that changed() has told of
    proxy_conf,     \* the one it has adopted last
    gen,            \* the current generation
    stage,          \* entrypoint: "http", "client", "wait", or it is dropped:
                    \* "changed"; "exited": the process
    conf,           \* conf[g]: the configuration g was started with
    state,          \* state[g][s]: the task of service s in generation g
    failed,         \* history: what ended by itself, as <<g, s>>
    late            \* history: tasks that no change has found waiting

vars == <<sent, valid, seen, proxy_conf, gen, stage, conf, state, failed, late>>

\* none, spawned but not polled yet, running, woken by the notification, ended.
TaskState == {"none", "spawned", "running", "notified", "ended"}

TypeOK ==
    /\ sent \in 0..MaxVersion
    /\ valid \in BOOLEAN
    /\ seen \in 0..sent
    /\ proxy_conf \in 0..sent
    /\ gen \in Generation
    /\ stage \in {"http", "client", "wait", "changed", "exited"}
    /\ conf \in [Generation -> 0..MaxVersion]
    /\ state \in [Generation -> [Service -> TaskState]]
    /\ failed \subseteq Generation \X (Service \cup {"build"})
    /\ late \subseteq Generation \X Service

\* The first configuration is valid, or the process never gets here.
Init ==
    /\ sent = 0 /\ valid = TRUE /\ seen = 0 /\ proxy_conf = 0
    /\ gen = 1 /\ stage = "http"
    /\ conf = [g \in Generation |-> 0]
    /\ state = [g \in Generation |-> [s \in Service |-> "none"]]
    /\ failed = {}
    /\ late = {}

watcherVars == <<sent, valid, seen, proxy_conf>>

-----------------------------------------------------------------------------
(* entrypoint                                                              *)

Building == {"http", "client"}

SpawnFrom(g, services) ==
    state' = [state EXCEPT ![g] =
                 [s \in Service |-> IF s \in services THEN "spawned" ELSE @[s]]]

\* The endpoints are resolved and the HTTP client is built; the first login
\* has succeeded if there is an authenticator.
HttpBuilt ==
    /\ stage = "http"
    /\ stage' = "client"
    /\ SpawnFrom(gen, {"auth"})
    /\ UNCHANGED <<watcherVars, gen, conf, failed, late>>

\* The keys of the targets have been fetched: the rest is spawned at once.
ClientBuilt ==
    /\ stage = "client"
    /\ stage' = "wait"
    /\ SpawnFrom(gen, {"odoh", "resolution", "health", "proxy"})
    /\ UNCHANGED <<watcherVars, gen, conf, failed, late>>

\* An error on the way, returned by entrypoint: the watcher gives up.
BuildFails ==
    /\ stage \in Building
    /\ stage' = "exited"
    /\ failed' = failed \cup {<<gen, "build">>}
    /\ UNCHANGED <<watcherVars, gen, conf, state, late>>

\* The select over the awaited services: the first that ends, ends the process.
Exit ==
    /\ stage = "wait"
    /\ \E s \in Awaited \cap Service : state[gen][s] = "ended"
    /\ stage' = "exited"
    /\ UNCHANGED <<watcherVars, gen, conf, state, failed, late>>

-----------------------------------------------------------------------------
(* The tasks.                                                              *)

Alive == stage # "exited"

Spawns(s) == CASE s = "proxy" -> Listener
               [] s = "udp"   -> {"responder"}
               [] OTHER       -> {}

\* The first poll: from now on the task waits for the notification, except
\* Proxy::start, which only waits for its listeners.
Poll(g, s) ==
    /\ Alive
    /\ state[g][s] = "spawned"
    /\ state' = [state EXCEPT ![g] =
                    [t \in Service |-> CASE t = s          -> "running"
                                         [] t \in Spawns(s) -> "spawned"
                                         [] OTHER          -> @[t]]]
    /\ late' = IF <<g, s>> \in late
               THEN late \cup ({g} \X (Spawns(s) \cap Service)) ELSE late
    /\ UNCHANGED <<watcherVars, gen, stage, conf, failed>>

\* A listener cannot bind its socket.
BindFails(g, s) ==
    /\ Alive
    /\ s \in Listener
    /\ state[g][s] = "spawned"
    /\ state' = [state EXCEPT ![g][s] = "ended"]
    /\ failed' = failed \cup {<<g, s>>}
    /\ UNCHANGED <<watcherVars, gen, stage, conf, late>>

\* Too many logins or endpoint resolutions have failed in a row.
GivesUp(g, s) ==
    /\ Alive
    /\ s \in {"auth", "resolution"}
    /\ state[g][s] = "running"
    /\ state' = [state EXCEPT ![g][s] = "ended"]
    /\ failed' = failed \cup {<<g, s>>}
    /\ UNCHANGED <<watcherVars, gen, stage, conf, late>>

\* The term branch of the task's select is taken.
Terminates(g, s) ==
    /\ Alive
    /\ state[g][s] = "notified"
    /\ state' = [state EXCEPT ![g][s] = "ended"]
    /\ UNCHANGED <<watcherVars, gen, stage, conf, failed, late>>

\* Proxy::start returns when one of its listeners has ended.
ProxyEnds(g) ==
    /\ Alive
    /\ "proxy" \in Service
    /\ state[g]["proxy"] = "running"
    /\ \E l \in Listener \cap Service : state[g][l] = "ended"
    /\ state' = [state EXCEPT ![g]["proxy"] = "ended"]
    /\ UNCHANGED <<watcherVars, gen, stage, conf, failed, late>>

-----------------------------------------------------------------------------
(* The watcher.                                                            *)

\* The reloader finds another configuration in the file.
FileChanges ==
    /\ Alive
    /\ sent < MaxVersion
    /\ sent' = sent + 1
    /\ valid' \in BOOLEAN
    /\ UNCHANGED <<seen, proxy_conf, gen, stage, conf, state, failed, late>>

\* Waiting for the notification now: polled before, and not ended.
Waiting(g, s) == s # "proxy" /\ state[g][s] = "running"

\* Mutant: one permit is given to one of the tasks that wait.
notify_one ==
    /\ \/ \E g \in Generation, s \in Service :
              /\ Waiting(g, s)
              /\ state' = [state EXCEPT ![g][s] = "notified"]
       \/ /\ \A g \in Generation, s \in Service : ~ Waiting(g, s)
          /\ UNCHANGED state
    /\ late' = {t \in Generation \X Service :
                   \/ state[t[1]][t[2]] = "spawned"
                   \/ t \in late /\ ~ Waiting(t[1], t[2])}

\* Every task that waits is woken, of all generations.
notify_waiters ==
    /\ state' = [g \in Generation |-> [s \in Service |->
                    IF Waiting(g, s) THEN "notified" ELSE state[g][s]]]
    /\ late' = {t \in Generation \X Service :
                   \/ state[t[1]][t[2]] = "spawned"
                   \/ t \in late /\ ~ Waiting(t[1], t[2])}

\* The loop around the select starts entrypoint again.
NextGeneration(version) ==
    /\ gen' = gen + 1
    /\ conf' = [conf EXCEPT ![gen + 1] = version]
    /\ stage' = "http"

\* Mutant: an entrypoint that waits for its services is not dropped.
ChangedKeepingEntrypoint ==
    /\ stage \in Building \cup {"wait"} /\ seen # sent
    /\ seen' = sent
    /\ IF stage = "wait" /\ valid
       THEN /\ proxy_conf' = sent
            /\ notify_waiters
            /\ UNCHANGED stage
       ELSE /\ stage' = "changed"
            /\ UNCHANGED <<proxy_conf, state, late>>
    /\ UNCHANGED <<sent, valid, gen, conf, failed>>

\* changed(): the entrypoint's future is dropped when the branch is taken, so
\* it does not see its tasks end.
Changed ==
    /\ stage \in Building \cup {"wait"} /\ seen # sent
    /\ seen' = sent
    /\ stage' = "changed"
    /\ UNCHANGED <<sent, valid, proxy_conf, gen, conf, state, failed, late>>

\* Mutant: the new entrypoint is started with the configuration of the old.
AdoptStale ==
    /\ stage = "changed" /\ valid
    /\ proxy_conf' = sent
    /\ NextGeneration(proxy_conf)
    /\ notify_waiters
    /\ UNCHANGED <<sent, valid, seen, failed>>

\* borrow() reads the newest configuration, which may be newer than the one
\* that changed() has told of, and is told of once more then.
Adopt ==
    /\ stage = "changed" /\ valid
    /\ proxy_conf' = sent
    /\ NextGeneration(sent)
    /\ notify_waiters
    /\ UNCHANGED <<sent, valid, seen, failed>>

\* If it is invalid, continue: the entrypoint is started once more with the
\* old one, and nobody tells the tasks of the one dropped.
Reject ==
    /\ stage = "changed" /\ ~ valid
    /\ NextGeneration(proxy_conf)
    /\ UNCHANGED <<sent, valid, seen, proxy_conf, state, failed, late>>

-----------------------------------------------------------------------------

Next ==
    \/ HttpBuilt \/ ClientBuilt \/ BuildFails \/ Exit
    \/ \E g \in Generation :
          \/ ProxyEnds(g)
          \/ \E s \in Service : Poll(g, s) \/ BindFails(g, s) \/ GivesUp(g, s) \/ Terminates(g, s)
    \/ FileChanges \/ Changed \/ Adopt \/ Reject

Spec == Init /\ [][Next]_vars

\* The runtime polls tasks that are ready, and each request on the way to a
\* client returns or runs into its timeout.
Fairness ==
    /\ WF_vars(HttpBuilt \/ BuildFails)
    /\ WF_vars(ClientBuilt \/ BuildFails)
    /\ WF_vars(Exit)
    /\ WF_vars(Changed)
    /\ WF_vars(Adopt \/ Reject)
    /\ \A g \in Generation :
          /\ WF_vars(ProxyEnds(g))
          /\ \A s \in Service : WF_vars(Poll(g, s) \/ BindFails(g, s)) /\ WF_vars(Terminates(g, s))

FairSpec == Spec /\ Fairness

-----------------------------------------------------------------------------
(* Properties.                                                             *)

(* The process exits only because something of the current generation has  *)
(* failed, never because a change of configuration has told services to    *)
(* end, although entrypoint cannot tell the one from the other.            *)
NoFalseExit == stage = "exited" => \E s \in Service \cup {"build"} : <<gen, s>> \in failed

(* A service that waits with a configuration older than the adopted one    *)
(* had been spawned but not polled when a change was adopted, or comes     *)
(* from such a task: only those escape "terminate all spawned proxy        *)
(* services".                                                              *)
OnlyLateSurvive ==
    \A g \in Generation, s \in Service :
        Waiting(g, s) /\ conf[g] # proxy_conf => <<g, s>> \in late

(* A generation that is not current any more, none of whose tasks was late *)
(* and whose configuration has been replaced, ends as a whole.  One whose  *)
(* successor was started by a rejected configuration is told by the next   *)
(* one adopted, and lives until then.                                      *)
GenerationEnds ==
    \A g \in Generation :
        (g < gen /\ conf[g] # proxy_conf /\ \A s \in Service : <<g, s>> \notin late)
            ~> (~ Alive \/ \A s \in Service : state[g][s] \in {"none", "ended"})

(* Unless the process exits, the listeners come to serve with the newest   *)
(* valid configuration, whenever the changes come.                         *)
NewestIsServed ==
    <>[](\/ ~ Alive
         \/ /\ seen = sent
            /\ conf[gen] = proxy_conf
            /\ valid => conf[gen] = sent
            /\ \A l \in Listener \cap Service : state[gen][l] = "running")

=============================================================================
