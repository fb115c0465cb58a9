------------------------------ MODULE PathHealth ------------------------------
(***************************************************************************)
(* The health flags of the paths: the health check service writes them     *)
(* (dap-lib/src/doh_client/doh_client_healthcheck.rs), get_path reads them *)
(* (path_manage.rs).  The flags are separate Relaxed atomics and get_path  *)
(* takes no lock, so it reads them one by one while checks finish.         *)
(*                                                                         *)
(* One query is followed at a time.  Whether a path really works is up to  *)
(* the network, and changes at any time.                                   *)
(***************************************************************************)
EXTENDS PathBuild

CONSTANT ProxyConfig    \* the configuration of the running client

ASSUME ProxyConfigAssumption == Accepted(ProxyConfig)

built_paths == new(ProxyConfig)

\* A path is known by its place: target, next hop, relays.
PathId ==
    UNION {UNION {{<<i, j, path>> : path \in built_paths[i][j]} : j \in DOMAIN built_paths[i]} :
              i \in DOMAIN built_paths}

NoPath == <<0, 0>>

VARIABLES
    healthy,        \* healthy[id]: the flag is_healthy of a path
    works,          \* environment: paths over which the check query succeeds
    unchecked,      \* paths the running pass of the health check waits for
    reading,        \* get_path is running
    unread,         \* flags it has still to read
    seen,           \* paths it has read as healthy
    chosen,         \* the path the last get_path returned, or NoPath
    steady          \* history: paths flagged healthy all through get_path

healthVars == <<healthy, works, unchecked, reading, unread, seen, chosen, steady>>
getVars == <<reading, unread, seen, chosen>>

TypeOK ==
    /\ healthy \in [PathId -> BOOLEAN]
    /\ works \in SUBSET PathId
    /\ unchecked \in SUBSET PathId
    /\ reading \in BOOLEAN
    /\ unread \in SUBSET PathId
    /\ seen \in SUBSET PathId
    /\ chosen \in PathId \cup {NoPath}
    /\ steady \in SUBSET PathId

HealthInit ==
    /\ healthy = [id \in PathId |-> TRUE]
    /\ works \in SUBSET PathId
    /\ unchecked = PathId
    /\ reading = FALSE
    /\ unread = {}
    /\ seen = {}
    /\ chosen = NoPath
    /\ steady = {}

-----------------------------------------------------------------------------
(* The health check: join_all over one check for every path.               *)

\* The check's query gets the expected address; otherwise the query failed,
\* or the answer is an error, is empty, or has another address.
CheckSucceeds(id) == id \in works /\ Usable(id[3])

Check(id) ==
    /\ id \in unchecked
    /\ unchecked' = unchecked \ {id}
    /\ healthy' = [healthy EXCEPT ![id] = CheckSucceeds(id)]
    /\ steady' = IF CheckSucceeds(id) THEN steady ELSE steady \ {id}
    /\ UNCHANGED <<works, getVars>>

\* Mutant: only the paths that are flagged healthy are checked again.
PassOverHealthy ==
    /\ unchecked = {}
    /\ unchecked' = {id \in PathId : healthy[id]}
    /\ UNCHANGED <<healthy, works, getVars, steady>>

\* The sleep of healthcheck_period_sec ends.
NextPass ==
    /\ unchecked = {}
    /\ unchecked' = PathId
    /\ UNCHANGED <<healthy, works, getVars, steady>>

\* A path breaks or is repaired.
Change(id) ==
    /\ works' = IF id \in works THEN works \ {id} ELSE works \cup {id}
    /\ UNCHANGED <<healthy, unchecked, getVars, steady>>

-----------------------------------------------------------------------------
(* get_path                                                                *)

GetPath ==
    /\ ~reading
    /\ reading' = TRUE
    /\ unread' = PathId
    /\ seen' = {}
    /\ steady' = {id \in PathId : healthy[id]}
    /\ chosen' = NoPath
    /\ UNCHANGED <<healthy, works, unchecked>>

\* Mutant: take_while instead of filter.
ReadWhileHealthy(id) ==
    /\ id \in unread
    /\ \A other \in unread :
          other[1] > id[1] \/ (other[1] = id[1] /\ other[2] >= id[2])
    /\ unread' = IF healthy[id] THEN unread \ {id} ELSE {}
    /\ seen' = IF healthy[id] THEN seen \cup {id} ELSE seen
    /\ UNCHANGED <<healthy, works, unchecked, reading, chosen, steady>>

\* The flags are read target by target and next hop by next hop; among the
\* paths of one next hop the order is left open.
ReadFlag(id) ==
    /\ id \in unread
    /\ \A other \in unread :
          other[1] > id[1] \/ (other[1] = id[1] /\ other[2] >= id[2])
    /\ unread' = unread \ {id}
    /\ seen' = IF healthy[id] THEN seen \cup {id} ELSE seen
    /\ UNCHANGED <<healthy, works, unchecked, reading, chosen, steady>>

\* Mutant: the relay is random when the target is fixed, and not otherwise.
SwappedCandidates ==
    {id \in seen :
       /\ \/ ProxyConfig.odoh /\ ProxyConfig.odoh_relay_randomization
          \/ \A other \in seen : id[1] <= other[1]
       /\ \/ ~ProxyConfig.target_randomization
          \/ \A other \in seen : other[1] = id[1] => id[2] <= other[2]}

\* Without randomization the first index that is left is taken.
Candidates ==
    {id \in seen :
       /\ ProxyConfig.target_randomization \/ \A other \in seen : id[1] <= other[1]
       /\ \/ ProxyConfig.odoh /\ ProxyConfig.odoh_relay_randomization
          \/ \A other \in seen : other[1] = id[1] => id[2] <= other[2]}

ReturnPath ==
    /\ reading
    /\ unread = {}
    /\ reading' = FALSE
    /\ IF seen = {} THEN chosen' = NoPath ELSE chosen' \in Candidates
    /\ seen' = {}
    /\ UNCHANGED <<healthy, works, unchecked, unread, steady>>

-----------------------------------------------------------------------------

HealthNext ==
    \/ \E id \in PathId : Check(id) \/ Change(id) \/ ReadFlag(id)
    \/ NextPass \/ GetPath \/ ReturnPath

HealthSpec == HealthInit /\ [][HealthNext]_healthVars

\* Every check query is answered or times out, and the passes go on.
FairSpec ==
    /\ HealthSpec
    /\ \A id \in PathId : WF_healthVars(Check(id))
    /\ WF_healthVars(NextPass)

-----------------------------------------------------------------------------
(* Properties.                                                             *)

(* get_path gives up only if no flag was set all the time it ran: although *)
(* it reads the flags one by one, a path that stays healthy is not missed. *)
GivesUpRightly == [][ReturnPath /\ chosen' = NoPath => steady = {}]_healthVars

(* Without target randomization the target is the first that is healthy:   *)
(* no earlier target had a path that stayed healthy while get_path ran.    *)
(* The same holds of the next hop when relays are not randomized.          *)
FirstHealthyTaken ==
    [][ReturnPath /\ chosen' # NoPath =>
          /\ ~ProxyConfig.target_randomization => \A id \in steady : chosen'[1] <= id[1]
          /\ ~ProxyConfig.odoh_relay_randomization =>
                \A id \in steady : id[1] = chosen'[1] => chosen'[2] <= id[2]]_healthVars

(* A path that works from some time on is flagged healthy for good, and    *)
(* one that is broken for good is not used any more.                       *)
FlagFollows ==
    \A id \in PathId :
       /\ <>[](id \in works) => <>[](healthy[id])
       /\ <>[](id \notin works) => <>[](~healthy[id])

-----------------------------------------------------------------------------
(* What the documentation says and the code does not do.                   *)

(* "Connecting to Google public DoH server" (README.md:27): a path whose   *)
(* target answers is used in the end, in standard DoH as well.             *)
WorkingIsUsed == \A id \in PathId : <>[](id \in works) => <>[](healthy[id])

=============================================================================
