------------------------------ MODULE AuthService ------------------------------
(***************************************************************************)
(* The authentication service (dap-lib/src/auth/): it looks at the token   *)
(* every WatchDelay, refreshes it when at most Margin of its life is left, *)
(* logs in when that fails, and gives up after MaxAttempts attempts in a   *)
(* row.  A query takes whatever token there is into its headers            *)
(* (doh_client/doh_client_main.rs) and then waits for the HTTP client; one *)
(* query is followed at a time.  Time is counted in units (ten seconds in  *)
(* the runs).                                                              *)
(***************************************************************************)
EXTENDS Integers

CONSTANTS
    Margin,         \* TOKEN_REFRESH_MARGIN
    WatchDelay,     \* TOKEN_REFRESH_WATCH_DELAY
    ReloginWait,    \* TOKEN_RELOGIN_WAITING_SEC
    MaxAttempts,    \* MAX_RELOGIN_ATTEMPTS
    RequestTime,    \* the longest a refresh or a login takes: http_timeout_sec, and
                    \* the wait for the lock of the HTTP client before it
    QueryWait,      \* the longest a query waits for the HTTP client
    Life            \* the lives that the issuer gives to tokens

ASSUME AuthAssumption ==
    /\ Margin \in Nat
    /\ WatchDelay \in Nat
    /\ ReloginWait \in Nat
    /\ MaxAttempts \in Nat \ {0}
    /\ RequestTime \in Nat
    /\ QueryWait \in Nat
    /\ Life \subseteq Nat

VARIABLES
    pc,             \* where the service stands
    timer,          \* what is left of its sleep, or of the time of its request
    cnt,            \* the attempts that failed since the last success
    life,           \* the life of the token when it was received
    remaining,      \* what is left of it; not positive: expired
    holding,        \* a query has its headers and is not sent yet
    carried,        \* what is left of the token in them
    wait,           \* what is left of the time it may have to wait
    unfailed        \* history: it read a long-lived token, and no attempt had failed

queryVars == <<holding, carried, wait, unfailed>>
vars == <<pc, timer, cnt, life, remaining, queryVars>>

Sleeping == {"retry", "watch"}
Requesting == {"refresh", "login"}
Stopped == {"down", "terminated"}

TypeOK ==
    /\ pc \in {"check"} \cup Sleeping \cup Requesting \cup Stopped
    /\ timer \in Nat
    /\ cnt \in 0..MaxAttempts
    /\ life \in Life
    /\ remaining \in Int
    /\ holding \in BOOLEAN
    /\ carried \in Int
    /\ wait \in 0..QueryWait
    /\ unfailed \in BOOLEAN

\* Authenticator::new has logged in, and the service starts with its loop.
Init ==
    /\ pc = "check"
    /\ timer = 0
    /\ cnt = 0
    /\ life \in Life
    /\ remaining = life
    /\ holding = FALSE
    /\ carried = 0
    /\ wait = 0
    /\ unfailed = FALSE

Goto(label, time) == pc' = label /\ timer' = time

-----------------------------------------------------------------------------
(* refresh_or_login                                                        *)

\* Mutant: refresh when the token has expired.
DueIfExpired == remaining <= 0

\* The token is about to expire.  There is one since Authenticator::new, so
\* remaining_seconds_until_expiration has an answer.
Due == remaining <= Margin

TokenDue ==
    /\ pc = "check" /\ cnt < MaxAttempts
    /\ Due
    /\ Goto("refresh", RequestTime)
    /\ UNCHANGED <<cnt, life, remaining, queryVars>>

\* It is not: refresh_or_login returns, and with it this round of attempts.
TokenNotDue ==
    /\ pc = "check" /\ cnt < MaxAttempts
    /\ ~Due
    /\ Goto("watch", WatchDelay)
    /\ UNCHANGED <<cnt, life, remaining, queryVars>>

\* Mutant: the new token is not kept.
RenewedNotKept ==
    /\ pc \in Requesting
    /\ Goto("watch", WatchDelay)
    /\ UNCHANGED <<cnt, life, remaining, queryVars>>

\* Refresh or login succeeds: there is a new token.
Renewed ==
    /\ pc \in Requesting
    /\ life' \in Life
    /\ remaining' = life'
    /\ Goto("watch", WatchDelay)
    /\ UNCHANGED <<cnt, queryVars>>

RefreshFails ==
    /\ pc = "refresh"
    /\ Goto("login", RequestTime)
    /\ UNCHANGED <<cnt, life, remaining, queryVars>>

\* Mutant: the next attempt follows at once.
LoginFailsAtOnce ==
    /\ pc = "login"
    /\ cnt' = cnt + 1
    /\ Goto("check", 0)
    /\ UNCHANGED <<life, remaining, queryVars>>

\* Mutant: a new round begins at once, without a count.
LoginFailsUncounted ==
    /\ pc = "login"
    /\ cnt' = 0
    /\ Goto("check", 0)
    /\ UNCHANGED <<life, remaining, queryVars>>

\* The attempt has failed.
LoginFails ==
    /\ pc = "login"
    /\ cnt' = cnt + 1
    /\ Goto("retry", ReloginWait)
    /\ UNCHANGED <<life, remaining, queryVars>>

-----------------------------------------------------------------------------
(* auth_service                                                            *)

\* The sleep between two attempts ends, the one after the last as well.
Retry ==
    /\ pc = "retry" /\ timer = 0
    /\ Goto("check", 0)
    /\ UNCHANGED <<cnt, life, remaining, queryVars>>

\* The watch delay ends; the next round counts from 0.
NextRound ==
    /\ pc = "watch" /\ timer = 0
    /\ cnt' = 0
    /\ Goto("check", 0)
    /\ UNCHANGED <<life, remaining, queryVars>>

\* FailedAllAttemptsOfLoginAndRefresh
GiveUp ==
    /\ pc = "check" /\ cnt = MaxAttempts
    /\ Goto("down", 0)
    /\ UNCHANGED <<cnt, life, remaining, queryVars>>

\* start_service: the term signal drops auth_service wherever it stands.
Terminate ==
    /\ pc \notin Stopped
    /\ Goto("terminated", 0)
    /\ UNCHANGED <<cnt, life, remaining, queryVars>>

-----------------------------------------------------------------------------

(* A query.                                                                *)

\* build_headers: id_token does not look at what is left of the token.
QueryReads ==
    /\ ~holding
    /\ pc \notin Stopped
    /\ holding' = TRUE
    /\ carried' = remaining
    /\ wait' = QueryWait
    /\ unfailed' = (cnt = 0 /\ life > Margin)
    /\ UNCHANGED <<pc, timer, cnt, life, remaining>>

\* The read guard of the HTTP client is there: the request is sent with the
\* headers as they are.
QuerySends ==
    /\ holding
    /\ holding' = FALSE
    /\ carried' = 0
    /\ wait' = 0
    /\ unfailed' = FALSE
    /\ UNCHANGED <<pc, timer, cnt, life, remaining>>

-----------------------------------------------------------------------------

\* Time passes while the service sleeps or waits for an answer, but a sleep
\* that is over and a request that has run into its timeout end first; so
\* does a wait for the HTTP client.
Tick ==
    /\ timer > 0
    /\ holding => wait > 0
    /\ timer' = timer - 1
    /\ remaining' = remaining - 1
    /\ IF holding
       THEN carried' = carried - 1 /\ wait' = wait - 1
       ELSE UNCHANGED <<carried, wait>>
    /\ UNCHANGED <<pc, cnt, life, holding, unfailed>>

Step ==
    \/ TokenDue \/ TokenNotDue \/ Renewed \/ RefreshFails \/ LoginFails
    \/ Retry \/ NextRound \/ GiveUp

Done == pc \in Stopped /\ UNCHANGED vars

Next == Step \/ QueryReads \/ QuerySends \/ Terminate \/ Tick \/ Done

Spec == Init /\ [][Next]_vars

\* The service is polled, time passes, and the lock is granted in the end.
FairSpec == Spec /\ WF_vars(Step \/ Tick) /\ WF_vars(QuerySends)

-----------------------------------------------------------------------------
(* Properties.                                                             *)

\* The longest a failed attempt takes, with the sleep after it.
Round == 2 * RequestTime + ReloginWait

\* A token that lives longer than the margin counts as one that has just more.
Base == IF life > Margin THEN Margin + 1 ELSE life

(* However requests fail and however long they take, what is left of the   *)
(* token is bounded by one watch delay, the failed attempts and the one    *)
(* that is being made: no sequence of rounds eats up the margin.           *)
LifeLeft ==
    remaining >= Base - WatchDelay - cnt * Round - 2 * RequestTime

(* No query is sent with an expired token that was issued for longer than  *)
(* the margin, unless refresh and login had both failed when the query     *)
(* read it: neither the time between two looks at the token, nor an        *)
(* attempt under way, nor the wait of the query for the HTTP client, with  *)
(* the token it has read before, uses up the margin.                       *)
CarriesLiveToken == holding /\ unfailed => carried > 0

(* The service, and with it the process, gives up only when the token has  *)
(* been due for as long as all the waits between the attempts take.        *)
GivesUpLate ==
    pc = "down" => remaining <= Margin - MaxAttempts * ReloginWait

(* A token that is found due is renewed, or the service stops: it does not *)
(* retry for ever.                                                         *)
RenewedOrDown ==
    (pc = "check" /\ remaining <= Margin) ~> (remaining = life \/ pc \in Stopped)

=============================================================================
