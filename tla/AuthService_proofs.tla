--------------------------- MODULE AuthService_proofs --------------------------
(***************************************************************************)
(* Theorems on AuthService, for every margin, delay and life of tokens.    *)
(***************************************************************************)
EXTENDS AuthService, TLAPS

(* What c failed attempts take at most, and what their waits take at least. *)
Spent(c) == c * Round
Waited(c) == c * ReloginWait

LEMMA Spending ==
    /\ Round \in Nat
    /\ Spent(0) = 0 /\ Waited(0) = 0
    /\ \A c \in Nat : Spent(c) \in Nat /\ Waited(c) \in Nat
    /\ \A c \in Nat : Spent(c + 1) = Spent(c) + Round
    /\ \A c \in Nat : Waited(c + 1) = Waited(c) + ReloginWait
<1>1. Round \in Nat
  BY AuthAssumption DEF Round
<1>2. \A k, c \in Nat : c * k \in Nat /\ (c + 1) * k = c * k + k /\ 0 * k = 0
  OBVIOUS
<1> QED
  BY <1>1, <1>2, AuthAssumption DEF Spent, Waited

(* A sleep or a request is never given more time than the code gives it.   *)
TimerBound ==
    /\ pc \in {"check"} \cup Stopped => timer = 0
    /\ pc \in Requesting => timer <= RequestTime /\ cnt < MaxAttempts
    /\ pc = "retry" => timer <= ReloginWait /\ cnt > 0
    /\ pc = "watch" => timer <= WatchDelay

(* LifeLeft, with the time that has passed where the service stands.       *)
LifeAt ==
    /\ pc = "check" => remaining >= Base - WatchDelay - Spent(cnt)
    /\ pc = "refresh" =>
          remaining >= Base - WatchDelay - Spent(cnt) - RequestTime + timer
    /\ pc = "login" =>
          remaining >= Base - WatchDelay - Spent(cnt) - 2 * RequestTime + timer
    /\ pc = "retry" => remaining >= Base - WatchDelay - Spent(cnt) + timer
    /\ pc = "watch" => remaining >= Base - WatchDelay + timer
    /\ pc \in Stopped => remaining >= Base - WatchDelay - Spent(cnt) - 2 * RequestTime

(* GivesUpLate, likewise.                                                  *)
DueAt ==
    /\ pc = "check" /\ cnt > 0 => remaining <= Margin - Waited(cnt)
    /\ pc \in Requesting => remaining <= Margin - Waited(cnt)
    /\ pc = "retry" => remaining <= Margin - Waited(cnt) + timer
    /\ pc = "down" => remaining <= Margin - Waited(MaxAttempts)

(* What is left of the token that a query has read, while it waits.        *)
CarriedAt ==
    holding /\ unfailed =>
       carried >= Margin + 1 - WatchDelay - 2 * RequestTime - QueryWait + wait

Inv == TypeOK /\ TimerBound /\ LifeAt /\ DueAt /\ CarriedAt

LEMMA InitInv == Init => Inv
<1>1. Init => TypeOK
  <2> SUFFICES ASSUME Init PROVE TypeOK
    OBVIOUS
  <2>1. holding \in BOOLEAN /\ unfailed \in BOOLEAN
    BY Zenon DEF Init
  <2> QED
    BY <2>1, AuthAssumption DEF Init, TypeOK
<1>3. Init => CarriedAt
  BY Zenon DEF Init, CarriedAt
<1>2. Init => TimerBound /\ LifeAt /\ DueAt
  BY AuthAssumption, Spending
  DEF Init, TimerBound, LifeAt, DueAt, Base, Sleeping, Requesting, Stopped
<1> QED
  BY <1>1, <1>2, <1>3 DEF Inv

LEMMA BaseNat == TypeOK => Base \in Nat
  BY AuthAssumption DEF TypeOK, Base

LEMMA NextInv == Inv /\ [Next]_vars => Inv'
<1> SUFFICES ASSUME Inv, [Next]_vars PROVE Inv'
  OBVIOUS
<1>a. Base \in Nat /\ cnt \in Nat /\ Round \in Nat /\ ReloginWait \in Nat
  BY BaseNat, Spending, AuthAssumption DEF Inv, TypeOK
<1>b. life' = life => Base' = Base
  BY DEF Base
<1>c. Spent(cnt) \in Nat /\ Waited(cnt) \in Nat
  BY <1>a, Spending
<1>d. cnt' = cnt => Spent(cnt)' = Spent(cnt) /\ Waited(cnt)' = Waited(cnt)
  BY DEF Spent, Waited
<1>e. cnt' = cnt + 1 => Spent(cnt)' = Spent(cnt) + Round /\ Waited(cnt)' = Waited(cnt) + ReloginWait
  <2>1. Spent(cnt + 1) = Spent(cnt) + Round /\ Waited(cnt + 1) = Waited(cnt) + ReloginWait
    BY <1>a, Spending
  <2> QED
    BY <2>1 DEF Spent, Waited
<1>f. cnt' = 0 => Spent(cnt)' = 0 /\ Waited(cnt)' = 0
  BY Spending DEF Spent, Waited
<1>0. /\ Base \in Nat /\ cnt \in Nat /\ Spent(cnt) \in Nat /\ Waited(cnt) \in Nat
      /\ cnt = 0 => Waited(cnt) = 0
      /\ life' = life => Base' = Base
      /\ cnt' = cnt => Spent(cnt)' = Spent(cnt) /\ Waited(cnt)' = Waited(cnt)
  BY <1>a, <1>b, <1>c, <1>d, Spending
<1> USE AuthAssumption DEF Inv, TypeOK, Sleeping, Requesting, Stopped, Goto, queryVars
<1>g. UNCHANGED queryVars => CarriedAt'
  BY DEF CarriedAt
<1>1. CASE TokenDue
  BY <1>0, <1>g, <1>1 DEF TokenDue, Due, TimerBound, LifeAt, DueAt
<1>2. CASE TokenNotDue
  <2>1. remaining > Margin /\ remaining >= Base
    <3>1. Base <= Margin + 1
      BY DEF Base
    <3> QED
      BY <1>2, <3>1, <1>0 DEF TokenNotDue, Due
  <2> QED
    BY <1>0, <1>g, <1>2, <2>1 DEF TokenNotDue, TimerBound, LifeAt, DueAt
<1>3. CASE Renewed
  <2>1. pc' = "watch" /\ timer' = WatchDelay /\ remaining' = life' /\ life' \in Nat
    BY <1>3 DEF Renewed
  <2>2. TypeOK' /\ TimerBound' /\ DueAt'
    BY <1>0, <1>3, <2>1 DEF Renewed, TimerBound, DueAt
  <2>3. remaining' >= Base' - WatchDelay + timer'
    <3>1. Base' \in Nat /\ Base' <= life'
      BY <2>1 DEF Base
    <3>2. \A w, l, b \in Nat : b <= l => l >= b - w + w
      OBVIOUS
    <3>3. life' >= Base' - WatchDelay + WatchDelay
      BY <2>1, <3>1, <3>2
    <3> QED
      BY <2>1, <3>3
  <2> QED
    BY <1>3, <1>g, <2>1, <2>2, <2>3 DEF Renewed, LifeAt
<1>4. CASE RefreshFails
  BY <1>0, <1>g, <1>4 DEF RefreshFails, TimerBound, LifeAt, DueAt
<1>5. CASE LoginFails
  BY <1>0, <1>e, <1>g, <1>5 DEF LoginFails, TimerBound, LifeAt, DueAt, Round
<1>6. CASE Retry
  BY <1>0, <1>g, <1>6 DEF Retry, TimerBound, LifeAt, DueAt
<1>7. CASE NextRound
  BY <1>0, <1>f, <1>g, <1>7 DEF NextRound, TimerBound, LifeAt, DueAt
<1>8. CASE GiveUp
  BY <1>0, <1>g, <1>8 DEF GiveUp, TimerBound, LifeAt, DueAt
<1>9. CASE Terminate
  BY <1>0, <1>g, <1>9 DEF Terminate, TimerBound, LifeAt, DueAt
<1>10. CASE Tick
  <2>1. CarriedAt'
    BY <1>10 DEF Tick, CarriedAt
  <2> QED
    BY <1>0, <1>10, <2>1 DEF Tick, TimerBound, LifeAt, DueAt
<1>11. CASE Done \/ UNCHANGED vars
  BY <1>0, <1>g, <1>11 DEF Done, vars, TimerBound, LifeAt, DueAt
<1>12. CASE QueryReads
  <2>1. cnt = 0 /\ life > Margin /\ pc \notin Stopped =>
           remaining >= Margin + 1 - WatchDelay - 2 * RequestTime
    BY <1>0, Spending DEF LifeAt, TimerBound, Base
  <2>2. CarriedAt'
    BY <1>12, <2>1 DEF QueryReads, CarriedAt
  <2> QED
    BY <1>0, <1>12, <2>2 DEF QueryReads, TimerBound, LifeAt, DueAt
<1>13. CASE QuerySends
  <2>1. holding' = FALSE
    BY <1>13 DEF QuerySends
  <2>2. CarriedAt'
    BY <2>1 DEF CarriedAt
  <2>3. holding' \in BOOLEAN /\ unfailed' \in BOOLEAN
    BY <1>13, Zenon DEF QuerySends
  <2> QED
    BY <1>0, <1>13, <2>2, <2>3 DEF QuerySends, TimerBound, LifeAt, DueAt
<1> QED
  BY <1>1, <1>2, <1>3, <1>4, <1>5, <1>6, <1>7, <1>8, <1>9, <1>10, <1>11, <1>12, <1>13
  DEF Next, Step

(* The bounds on time hold wherever the service stands.                     *)
LEMMA Invariance == Spec => []Inv
  BY InitInv, NextInv, PTL DEF Spec

-----------------------------------------------------------------------------

(* What is left of the token is bounded by the watch delay, the attempts   *)
(* of refresh_or_login that failed and the one being made.                 *)
THEOREM LifeIsLeft == Spec => []LifeLeft
<1>1. Inv => LifeLeft
  <2> SUFFICES ASSUME Inv PROVE LifeLeft
    OBVIOUS
  <2>1. Base \in Nat /\ Spent(cnt) \in Nat /\ LifeLeft <=>
           remaining >= Base - WatchDelay - Spent(cnt) - 2 * RequestTime
    BY BaseNat, Spending, AuthAssumption DEF Inv, TypeOK, LifeLeft, Spent
  <2>2. Base \in Nat /\ Spent(cnt) \in Nat
    BY BaseNat, Spending, AuthAssumption DEF Inv, TypeOK
  <2> QED
    BY <2>1, <2>2, AuthAssumption
    DEF Inv, TypeOK, TimerBound, LifeAt, Sleeping, Requesting, Stopped
<1> QED
  BY <1>1, Invariance, PTL

(* If the margin covers the watch delay, one attempt and the wait of a     *)
(* query, as the constants of the code do, a query carries an expired      *)
(* token only if it was short-lived or an attempt had failed.              *)
THEOREM QueriesCarryLiveTokens ==
    ASSUME Margin >= WatchDelay + 2 * RequestTime + QueryWait
    PROVE  Spec => []CarriesLiveToken
<1>1. Inv => CarriesLiveToken
  BY AuthAssumption DEF Inv, TypeOK, CarriedAt, CarriesLiveToken
<1> QED
  BY <1>1, Invariance, PTL

(* auth_service gives up only when the token was due through all the waits *)
(* between its attempts.                                                   *)
THEOREM GivingUpIsLate == Spec => []GivesUpLate
<1>1. Inv => GivesUpLate
  BY DEF Inv, DueAt, GivesUpLate, Waited
<1> QED
  BY <1>1, Invariance, PTL

=============================================================================
