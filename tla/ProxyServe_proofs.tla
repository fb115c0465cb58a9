-------------------------- MODULE ProxyServe_proofs --------------------------
(***************************************************************************)
(* Proofs about ProxyServe for every set of queries, limit and capacity.   *)
(* The admission bound follows from CountExact: a query is let in when the *)
(* counter is below the limit, and the counter is the number of slots,     *)
(* which is at least the number of queries being served.                   *)
(***************************************************************************)
EXTENDS ProxyServe, FiniteSetTheorems, TLAPS

(* A task is counted from its addition to cnt until it comes out of the    *)
(* compare_exchange; what a task that is past it holds is left open.       *)
Placed ==
    \A t \in Task :
       /\ pc[t] \in {"idle", "add_total", "add_own"} => t \notin counted
       /\ pc[t] \in {"read", "query", "send", "load_own", "exchange"} => t \in counted

IInv == TypeOK /\ Placed /\ CountExact /\ AdmissionBound

-----------------------------------------------------------------------------

LEMMA TypeOfType == \A t \in Task : TypeOf(t) \in CounterType
BY DEF TypeOf, CounterType

LEMMA TaskFinite == IsFiniteSet(Task)
BY TasksAssumption, FS_Union DEF Task

LEMMA CountedFinite ==
    ASSUME TypeOK, NEW c
    PROVE  IsFiniteSet(Counted(c))
<1>1. Counted(c) \subseteq Task
  BY DEF Counted, TypeOK, CounterTypeOK
<1> QED BY <1>1, TaskFinite, FS_Subset

LEMMA ActiveFinite ==
    ASSUME NEW c
    PROVE  IsFiniteSet(Active(c))
<1>1. Active(c) \subseteq Task
  BY DEF Active
<1> QED BY <1>1, TaskFinite, FS_Subset

\* The initial state is typed: every counter is 0 and every task is idle.
LEMMA InitTypeOK == Init => TypeOK
<1> SUFFICES ASSUME Init PROVE TypeOK
  OBVIOUS
<1> USE DEF Init, CounterInit
<1>1. CounterTypeOK
  BY DEF CounterTypeOK
<1>2. chan \in Seq(UdpTask)
  BY DEF Init
<1>3. pc \in [Task -> Label] /\ after \in [Task -> {"write"} \cup Ended]
  BY DEF Label, Ended
<1> QED BY <1>1, <1>2, <1>3 DEF TypeOK

LEMMA TypeInductive ==
    ASSUME TypeOK, [Next]_vars
    PROVE  TypeOK'
<1> USE DEF TypeOK, CounterTypeOK
<1>1. ASSUME NEW t \in Task, Receive(t) PROVE TypeOK'
  BY <1>1 DEF Receive, Goto, Label, counterVars
<1>2. ASSUME NEW t \in Task, TaskStep(t) PROVE TypeOK'
  <2>1. CASE IncrementTotal(t)
    BY <2>1 DEF IncrementTotal, AddTotal, Goto, Label
  <2>2. CASE Admit(t)
    BY <2>2, TypeOfType DEF Admit, AddOwn, Goto, Label
  <2>3. CASE Refuse(t)
    BY <2>3, TypeOfType DEF Refuse, AddOwn, CallDecrement, Goto, Label, Ended
  <2>4. CASE QueryTcp(t)
    BY <2>4 DEF QueryTcp, CallDecrement, Goto, Label, Ended, counterVars
  <2>5. CASE QueryUdpOk(t) \/ QueryUdpFails(t) \/ SendFails(t)
    BY <2>5 DEF QueryUdpOk, QueryUdpFails, SendFails, Goto, Label, Ended, counterVars
  <2>6. CASE SendResponse(t)
    BY <2>6 DEF SendResponse, CallDecrement, Goto, Label, Ended, counterVars
  <2>7. CASE DecrementStep(t)
    <3>1. CASE DecrementLoad(t)
      BY <3>1, TypeOfType DEF DecrementLoad, LoadOwn, Goto, Label
    <3>2. CASE DecrementExchange(t)
      BY <3>2, TypeOfType DEF DecrementExchange, CompareExchange, Goto, Label
    <3>3. CASE DecrementLoadUdp(t)
      BY <3>3 DEF DecrementLoadUdp, LoadUdp, Goto, Label, CounterType
    <3>4. CASE DecrementLoadTcp(t)
      BY <3>4 DEF DecrementLoadTcp, LoadTcp, Goto, Label, CounterType
    <3>5. CASE DecrementStoreTotal(t)
      BY <3>5 DEF DecrementStoreTotal, StoreTotal, Goto, Label, Ended
    <3> QED BY <2>7, <3>1, <3>2, <3>3, <3>4, <3>5 DEF DecrementStep
  <2> QED BY <1>2, <2>1, <2>2, <2>3, <2>4, <2>5, <2>6, <2>7 DEF TaskStep
<1>3. ASSUME NEW t \in Task, ClientStep(t) PROVE TypeOK'
  BY <1>3 DEF ClientStep, ReadMessage, ReadFails, WriteResponse, Goto, Label, Ended, counterVars
<1>4. CASE Respond
  BY <1>4 DEF Respond, counterVars
<1>5. CASE Notify
  BY <1>5 DEF Notify, counterVars
<1>6. ASSUME NEW s \in Service, Stop(s) PROVE TypeOK'
  BY <1>6 DEF Stop, counterVars
<1>7. CASE UNCHANGED vars
  BY <1>7 DEF vars, counterVars, serveVars
<1> QED BY <1>1, <1>2, <1>3, <1>4, <1>5, <1>6, <1>7 DEF Next, Quiet

(* Every reachable state is typed: each task is at one of its await points *)
(* or atomic accesses, and no counter goes below zero.                     *)
THEOREM TypeCorrect == Spec => []TypeOK
<1> QED BY InitTypeOK, TypeInductive, PTL DEF Spec

-----------------------------------------------------------------------------
(* The two steps that change cnt, and the steps that do not.               *)

\* An addition to cnt adds the task to the slots of its protocol, and only
\* there, so the counter stays the number of slots.
LEMMA AddOwnCounts ==
    ASSUME TypeOK, CountExact, NEW t \in Task, t \notin counted, AddOwn(t)
    PROVE  /\ CountExact'
           /\ \A u \in Task : u \in counted' <=> u \in counted \/ u = t
<1> USE DEF TypeOK, CounterTypeOK
<1>1. \A u \in Task : u \in counted' <=> u \in counted \/ u = t
  BY DEF AddOwn
<1>2. ASSUME NEW c \in CounterType PROVE (cnt[c] = Cardinality(Counted(c)))'
  <2>1. IsFiniteSet(Counted(c)) /\ cnt[c] = Cardinality(Counted(c))
    BY CountedFinite DEF CountExact
  <2>2. CASE c = TypeOf(t)
    <3>1. Counted(c)' = Counted(c) \cup {t} /\ t \notin Counted(c)
      BY <2>2 DEF AddOwn, Counted
    <3>2. cnt'[c] = cnt[c] + 1
      BY <2>2 DEF AddOwn
    <3> QED BY <2>1, <3>1, <3>2, FS_AddElement
  <2>3. CASE c # TypeOf(t)
    <3>1. Counted(c)' = Counted(c)
      BY <2>3 DEF AddOwn, Counted
    <3>2. cnt'[c] = cnt[c]
      BY <2>3 DEF AddOwn
    <3> QED BY <2>1, <3>1, <3>2
  <2> QED BY <2>2, <2>3
<1> QED BY <1>1, <1>2 DEF CountExact

\* A successful compare_exchange takes exactly the task's own slot off; a
\* failed one changes neither the counter nor the slots.
LEMMA CompareExchangeCounts ==
    ASSUME TypeOK, CountExact, NEW t \in Task, t \in counted, CompareExchange(t)
    PROVE  /\ CountExact'
           /\ \A u \in Task : u # t => (u \in counted' <=> u \in counted)
           /\ counted' \in {counted, counted \ {t}}
<1> USE DEF TypeOK, CounterTypeOK
<1>1. CASE loaded[t] > 0 /\ cnt[TypeOf(t)] = loaded[t]
  <2>1. counted' = counted \ {t} /\ cnt' = [cnt EXCEPT ![TypeOf(t)] = loaded[t] - 1]
    BY <1>1 DEF CompareExchange
  <2>2. ASSUME NEW c \in CounterType PROVE (cnt[c] = Cardinality(Counted(c)))'
    <3>1. IsFiniteSet(Counted(c)) /\ cnt[c] = Cardinality(Counted(c))
      BY CountedFinite DEF CountExact
    <3>2. CASE c = TypeOf(t)
      <4>1. Counted(c)' = Counted(c) \ {t} /\ t \in Counted(c)
        BY <2>1, <3>2 DEF Counted
      <4>2. cnt'[c] = cnt[c] - 1
        BY <1>1, <2>1, <3>2
      <4>3. Cardinality(Counted(c) \ {t}) = Cardinality(Counted(c)) - 1
        BY <3>1, <4>1, FS_RemoveElement
      <4> QED BY <3>1, <4>1, <4>2, <4>3
    <3>3. CASE c # TypeOf(t)
      <4>1. Counted(c)' = Counted(c)
        BY <2>1, <3>3 DEF Counted
      <4>2. cnt'[c] = cnt[c]
        BY <2>1, <3>3
      <4> QED BY <3>1, <4>1, <4>2
    <3> QED BY <3>2, <3>3
  <2> QED BY <2>1, <2>2 DEF CountExact
<1>2. CASE ~(loaded[t] > 0 /\ cnt[TypeOf(t)] = loaded[t])
  <2>1. UNCHANGED <<cnt, counted>>
    BY <1>2 DEF CompareExchange
  <2> QED BY <2>1 DEF CountExact, Counted
<1> QED BY <1>1, <1>2

\* Without an admission no query starts being served.
LEMMA ActiveShrinks ==
    ASSUME TypeOK, AdmissionBound,
           \A c \in CounterType : Active(c)' \subseteq Active(c)
    PROVE  AdmissionBound'
<1>1. ASSUME NEW c \in CounterType
      PROVE  Cardinality(Active(c)') <= MaxConnections
  <2>1. IsFiniteSet(Active(c)) /\ Cardinality(Active(c)) <= MaxConnections
    BY ActiveFinite DEF AdmissionBound
  <2>2. Cardinality(Active(c)') <= Cardinality(Active(c)) /\ IsFiniteSet(Active(c)')
    BY <2>1, FS_Subset
  <2>3. Cardinality(Active(c)') \in Nat /\ Cardinality(Active(c)) \in Nat
    BY <2>1, <2>2, FS_CardinalityType
  <2> QED BY <2>1, <2>2, <2>3, LimitsAssumption
<1> QED BY <1>1 DEF AdmissionBound

\* An admission happens below the limit, and the queries being served are
\* among the counted ones.
LEMMA AdmitBounded ==
    ASSUME IInv, NEW t \in Task, Admit(t)
    PROVE  AdmissionBound'
<1> USE DEF TypeOK, CounterTypeOK
<1>1. ASSUME NEW c \in CounterType
      PROVE  Cardinality(Active(c)') <= MaxConnections
  <2>1. Active(c) \subseteq Counted(c)
    BY DEF IInv, Placed, Active, Counted
  <2>2. /\ IsFiniteSet(Counted(c))
        /\ Cardinality(Active(c)) <= Cardinality(Counted(c))
        /\ Cardinality(Counted(c)) = cnt[c]
    BY <2>1, CountedFinite, FS_Subset DEF IInv, CountExact
  <2>3. IsFiniteSet(Active(c)) /\ Cardinality(Active(c)) \in Nat
    BY ActiveFinite, FS_CardinalityType
  <2>4. CASE c = TypeOf(t)
    <3>1. Active(c)' = Active(c) \cup {t}
      BY <2>4 DEF IInv, Admit, Goto, Active
    <3>2. t \notin Active(c)
      BY DEF Admit, Active
    <3>3. cnt[c] \in Nat /\ cnt[c] < MaxConnections
      BY <2>4, LimitsAssumption DEF IInv, Admit, Full
    <3>4. Cardinality(Active(c)') = Cardinality(Active(c)) + 1
      BY <2>3, <3>1, <3>2, FS_AddElement
    <3> QED BY <2>2, <2>3, <3>3, <3>4, LimitsAssumption
  <2>5. CASE c # TypeOf(t)
    <3>1. Active(c)' = Active(c)
      BY <2>5 DEF IInv, Admit, Goto, Active
    <3> QED BY <3>1 DEF IInv, AdmissionBound
  <2> QED BY <2>4, <2>5
<1> QED BY <1>1 DEF AdmissionBound

-----------------------------------------------------------------------------

\* A step that leaves cnt alone and admits nobody keeps the invariant.
LEMMA Frame ==
    ASSUME IInv, TypeOK', Placed', UNCHANGED <<cnt, counted>>,
           \A c \in CounterType : Active(c)' \subseteq Active(c)
    PROVE  IInv'
<1>1. CountExact'
  BY DEF IInv, CountExact, Counted
<1>2. AdmissionBound'
  BY ActiveShrinks DEF IInv
<1> QED BY <1>1, <1>2 DEF IInv

LEMMA InitIInv == Init => IInv
<1> SUFFICES ASSUME Init PROVE IInv
  OBVIOUS
<1>1. Placed
  BY DEF Init, CounterInit, Placed
<1>2. ASSUME NEW c \in CounterType
      PROVE  cnt[c] = Cardinality(Counted(c)) /\ Cardinality(Active(c)) <= MaxConnections
  <2>1. Counted(c) = {} /\ Active(c) = {} /\ cnt[c] = 0
    BY DEF Init, CounterInit, Counted, Active
  <2> QED BY <2>1, FS_EmptySet, LimitsAssumption
<1> QED BY <1>1, <1>2, InitTypeOK DEF IInv, CountExact, AdmissionBound

LEMMA NextIInv ==
    ASSUME IInv, [Next]_vars
    PROVE  IInv'
<1>0. TypeOK /\ TypeOK'
  BY TypeInductive DEF IInv
<1> USE DEF TypeOK, CounterTypeOK
<1>1. ASSUME NEW t \in Task, Receive(t) PROVE IInv'
  <2>1. Placed' /\ \A c \in CounterType : Active(c)' \subseteq Active(c)
    BY <1>0, <1>1 DEF IInv, Placed, Receive, Goto, counterVars, Active
  <2> QED BY <1>0, <1>1, <2>1, Frame DEF Receive, counterVars
<1>2. ASSUME NEW t \in Task, IncrementTotal(t) PROVE IInv'
  <2>1. Placed' /\ \A c \in CounterType : Active(c)' \subseteq Active(c)
    BY <1>0, <1>2 DEF IInv, Placed, IncrementTotal, AddTotal, Goto, Active
  <2> QED BY <1>0, <1>2, <2>1, Frame DEF IncrementTotal, AddTotal
<1>3. ASSUME NEW t \in Task, Admit(t) PROVE IInv'
  <2>1. t \notin counted /\ AddOwn(t)
    BY <1>3 DEF IInv, Placed, Admit
  <2>2. CountExact' /\ \A u \in Task : u \in counted' <=> u \in counted \/ u = t
    BY <1>0, <2>1, AddOwnCounts DEF IInv
  <2>3. Placed'
    BY <1>0, <1>3, <2>2 DEF IInv, Placed, Admit, Goto
  <2>4. AdmissionBound'
    BY <1>3, AdmitBounded
  <2> QED BY <1>0, <2>2, <2>3, <2>4 DEF IInv
<1>4. ASSUME NEW t \in Task, Refuse(t) PROVE IInv'
  <2>1. t \notin counted /\ AddOwn(t)
    BY <1>4 DEF IInv, Placed, Refuse
  <2>2. CountExact' /\ \A u \in Task : u \in counted' <=> u \in counted \/ u = t
    BY <1>0, <2>1, AddOwnCounts DEF IInv
  <2>3. Placed'
    BY <1>0, <1>4, <2>2 DEF IInv, Placed, Refuse, CallDecrement, Goto
  <2>4. \A c \in CounterType : Active(c)' \subseteq Active(c)
    BY <1>0, <1>4 DEF Refuse, CallDecrement, Goto, Active
  <2>5. AdmissionBound'
    BY <1>0, <2>4, ActiveShrinks DEF IInv
  <2> QED BY <1>0, <2>2, <2>3, <2>5 DEF IInv
<1>5. ASSUME NEW t \in Task,
             \/ QueryTcp(t) \/ QueryUdpOk(t) \/ QueryUdpFails(t)
             \/ SendResponse(t) \/ SendFails(t)
      PROVE  IInv'
  <2>1. UNCHANGED <<cnt, counted>>
    BY <1>5 DEF QueryTcp, QueryUdpOk, QueryUdpFails, SendResponse, SendFails, counterVars
  <2>2. Placed'
    BY <1>0, <1>5, <2>1 DEF IInv, Placed, QueryTcp, QueryUdpOk, QueryUdpFails,
       SendResponse, SendFails, CallDecrement, Goto, Ended
  <2>3. \A c \in CounterType : Active(c)' \subseteq Active(c)
    BY <1>0, <1>5 DEF QueryTcp, QueryUdpOk, QueryUdpFails, SendResponse, SendFails,
       CallDecrement, Goto, Active
  <2> QED BY <1>0, <2>1, <2>2, <2>3, Frame
<1>6. ASSUME NEW t \in Task,
             \/ DecrementLoad(t) \/ DecrementLoadUdp(t)
             \/ DecrementLoadTcp(t) \/ DecrementStoreTotal(t)
      PROVE  IInv'
  <2>1. UNCHANGED <<cnt, counted>>
    BY <1>6 DEF DecrementLoad, DecrementLoadUdp, DecrementLoadTcp, DecrementStoreTotal,
       LoadOwn, LoadUdp, LoadTcp, StoreTotal
  <2>2. \E label \in {"exchange", "load_tcp", "store_total", "write"} \cup Ended :
            Goto(t, label) /\ (label = "exchange" => pc[t] = "load_own")
    <3>1. CASE DecrementLoad(t)
      BY <3>1 DEF DecrementLoad
    <3>2. CASE DecrementLoadUdp(t)
      BY <3>2 DEF DecrementLoadUdp
    <3>3. CASE DecrementLoadTcp(t)
      BY <3>3 DEF DecrementLoadTcp
    <3>4. CASE DecrementStoreTotal(t)
      <4>1. after[t] \in {"write"} \cup Ended
        BY <1>0
      <4> QED BY <3>4, <4>1 DEF DecrementStoreTotal, Ended
    <3> QED BY <1>6, <3>1, <3>2, <3>3, <3>4
  <2>3. Placed'
    BY <1>0, <2>1, <2>2 DEF IInv, Placed, Goto, Ended
  <2>4. after' = after
    BY <1>6 DEF DecrementLoad, DecrementLoadUdp, DecrementLoadTcp, DecrementStoreTotal
  <2>5. \A c \in CounterType : Active(c)' \subseteq Active(c)
    BY <1>0, <2>2, <2>4 DEF Goto, Active, Ended
  <2> QED BY <1>0, <2>1, <2>3, <2>5, Frame
<1>7. ASSUME NEW t \in Task, DecrementExchange(t) PROVE IInv'
  <2>1. t \in counted /\ CompareExchange(t)
    BY <1>7 DEF IInv, Placed, DecrementExchange
  <2>2. /\ CountExact'
        /\ \A u \in Task : u # t => (u \in counted' <=> u \in counted)
    BY <1>0, <2>1, CompareExchangeCounts DEF IInv
  <2>3. Placed'
    BY <1>0, <1>7, <2>2 DEF IInv, Placed, DecrementExchange, Goto
  <2>4. \A c \in CounterType : Active(c)' \subseteq Active(c)
    BY <1>0, <1>7 DEF DecrementExchange, Goto, Active
  <2>5. AdmissionBound'
    BY <1>0, <2>4, ActiveShrinks DEF IInv
  <2> QED BY <1>0, <2>2, <2>3, <2>5 DEF IInv
<1>8. ASSUME NEW t \in Task, ClientStep(t) PROVE IInv'
  <2>1. UNCHANGED <<cnt, counted>>
    BY <1>8 DEF ClientStep, ReadMessage, ReadFails, WriteResponse, counterVars
  <2>2. Placed' /\ \A c \in CounterType : Active(c)' \subseteq Active(c)
    BY <1>0, <1>8, <2>1 DEF IInv, Placed, Active, ClientStep, ReadMessage, ReadFails,
       WriteResponse, Goto, Ended
  <2> QED BY <1>0, <2>1, <2>2, Frame
<1>9. ASSUME UNCHANGED <<cnt, counted, pc, after>> PROVE IInv'
  <2>1. Placed' /\ \A c \in CounterType : Active(c)' \subseteq Active(c)
    BY <1>9 DEF IInv, Placed, Active
  <2> QED BY <1>0, <1>9, <2>1, Frame
<1>10. Respond \/ Notify \/ Quiet \/ (\E s \in Service : Stop(s)) \/ UNCHANGED vars
       => UNCHANGED <<cnt, counted, pc, after>>
  BY DEF Respond, Notify, Quiet, Stop, vars, counterVars, serveVars
<1> QED BY <1>1, <1>2, <1>3, <1>4, <1>5, <1>6, <1>7, <1>8, <1>9, <1>10
        DEF Next, TaskStep, DecrementStep

LEMMA InvariantHolds == Spec => []IInv
<1> QED BY InitIInv, NextIInv, PTL DEF Spec

(* No interleaving of the relaxed atomics lets more than max_connections   *)
(* queries of one protocol be served at a time.                            *)
THEOREM AdmissionBounded == Spec => []AdmissionBound
<1> QED BY InvariantHolds, PTL DEF IInv

(* cnt_udp and cnt_tcp are exact counts of the tasks added and not taken   *)
(* off, however often a compare_exchange is lost.                          *)
THEOREM CountIsExact == Spec => []CountExact
<1> QED BY InvariantHolds, PTL DEF IInv

-----------------------------------------------------------------------------
(* The counter implements ConnLimit, for each protocol.                    *)

\* What one step of the proxy is to the limit of protocol c.
LimitStep(c) ==
    \/ UNCHANGED <<Active(c), Counted(c)>>
    \/ \E q \in Task :
          /\ TypeOf(q) = c
          /\ \/ /\ q \notin Counted(c)
                /\ Cardinality(Counted(c)) < MaxConnections
                /\ Active(c)' = Active(c) \cup {q}
                /\ Counted(c)' = Counted(c) \cup {q}
             \/ /\ q \notin Counted(c)
                /\ Cardinality(Counted(c)) >= MaxConnections
                /\ Counted(c)' = Counted(c) \cup {q}
                /\ Active(c)' = Active(c)
             \/ /\ q \in Counted(c)
                /\ Active(c)' = Active(c) \ {q}
                /\ Counted(c)' = Counted(c) \ {q}
             \/ /\ q \in Active(c)
                /\ Active(c)' = Active(c) \ {q}
                /\ Counted(c)' = Counted(c)

\* A step that moves task t alone and leaves cnt alone stutters or makes t
\* abandon its slot.
LEMMA MoveIsLimitStep ==
    ASSUME NEW t \in Task, NEW c \in CounterType, counted' = counted,
           Active(c)' \in {Active(c), Active(c) \ {t}}
    PROVE  LimitStep(c)
<1>1. Counted(c)' = Counted(c)
  BY DEF Counted
<1>2. CASE t \in Active(c)
  <2>1. TypeOf(t) = c
    BY <1>2 DEF Active
  <2> QED BY <1>1, <1>2, <2>1 DEF LimitStep
<1>3. CASE t \notin Active(c)
  <2>1. Active(c)' = Active(c)
    BY <1>3
  <2> QED BY <1>1, <2>1 DEF LimitStep
<1> QED BY <1>2, <1>3

LEMMA NextIsLimitStep ==
    ASSUME IInv, [Next]_vars, NEW c \in CounterType
    PROVE  LimitStep(c)
<1>0. TypeOK
  BY DEF IInv
<1> USE DEF TypeOK, CounterTypeOK
<1>1. ASSUME NEW t \in Task, Receive(t) \/ IncrementTotal(t) PROVE LimitStep(c)
  <2>1. counted' = counted /\ Active(c)' = Active(c)
    BY <1>0, <1>1 DEF Receive, IncrementTotal, AddTotal, Goto, Active, counterVars
  <2> QED BY <2>1, MoveIsLimitStep
<1>2. ASSUME NEW t \in Task, Admit(t) PROVE LimitStep(c)
  <2>1. t \notin counted /\ counted' = counted \cup {t}
    BY <1>2 DEF IInv, Placed, Admit, AddOwn
  <2>2. CASE TypeOf(t) = c
    <3>1. t \notin Counted(c) /\ Counted(c)' = Counted(c) \cup {t}
      BY <2>1, <2>2 DEF Counted
    <3>2. Active(c)' = Active(c) \cup {t}
      BY <1>0, <1>2, <2>2 DEF Admit, Goto, Active
    <3>3. cnt[c] < MaxConnections
      BY <1>0, <1>2, <2>2, LimitsAssumption DEF Admit, Full
    <3>4. Cardinality(Counted(c)) < MaxConnections
      BY <3>3 DEF IInv, CountExact
    <3> QED BY <2>2, <3>1, <3>2, <3>4 DEF LimitStep
  <2>3. CASE TypeOf(t) # c
    <3>1. Active(c)' = Active(c) /\ Counted(c)' = Counted(c)
      BY <1>0, <1>2, <2>1, <2>3 DEF Admit, Goto, Active, Counted
    <3> QED BY <3>1 DEF LimitStep
  <2> QED BY <2>2, <2>3
<1>3. ASSUME NEW t \in Task, Refuse(t) PROVE LimitStep(c)
  <2>1. t \notin counted /\ counted' = counted \cup {t}
    BY <1>3 DEF IInv, Placed, Refuse, AddOwn
  <2>2. Active(c)' = Active(c)
    BY <1>0, <1>3 DEF Refuse, CallDecrement, Goto, Active
  <2>3. CASE TypeOf(t) = c
    <3>1. t \notin Counted(c) /\ Counted(c)' = Counted(c) \cup {t}
      BY <2>1, <2>3 DEF Counted
    <3>2. Cardinality(Counted(c)) >= MaxConnections
      BY <1>3, <2>3 DEF IInv, CountExact, Refuse, Full
    <3> QED BY <2>2, <2>3, <3>1, <3>2 DEF LimitStep
  <2>4. CASE TypeOf(t) # c
    <3>1. Counted(c)' = Counted(c)
      BY <2>1, <2>4 DEF Counted
    <3> QED BY <2>2, <3>1 DEF LimitStep
  <2> QED BY <2>3, <2>4
<1>4. ASSUME NEW t \in Task,
             \/ QueryTcp(t) \/ QueryUdpOk(t) \/ QueryUdpFails(t)
             \/ SendResponse(t) \/ SendFails(t) \/ ClientStep(t)
      PROVE  LimitStep(c)
  <2>1. counted' = counted
    BY <1>4 DEF QueryTcp, QueryUdpOk, QueryUdpFails, SendResponse, SendFails, ClientStep,
       ReadMessage, ReadFails, WriteResponse, counterVars
  <2>2. Active(c)' \in {Active(c), Active(c) \ {t}}
    <3>1. CASE QueryTcp(t) \/ QueryUdpOk(t) \/ SendResponse(t) \/ ReadMessage(t)
               \/ WriteResponse(t)
      <4>1. Active(c)' = Active(c)
        BY <1>0, <3>1 DEF QueryTcp, QueryUdpOk, SendResponse, ReadMessage, WriteResponse,
           CallDecrement, Goto, Active
      <4> QED BY <4>1
    <3>2. CASE QueryUdpFails(t) \/ SendFails(t) \/ ReadFails(t)
      <4>1. Active(c)' = Active(c) \ {t}
        BY <1>0, <3>2 DEF QueryUdpFails, SendFails, ReadFails, Goto, Active
      <4> QED BY <4>1
    <3> QED BY <1>4, <3>1, <3>2 DEF ClientStep
  <2> QED BY <2>1, <2>2, MoveIsLimitStep
<1>5. ASSUME NEW t \in Task, DecrementStep(t), ~DecrementExchange(t) PROVE LimitStep(c)
  <2>1. counted' = counted
    BY <1>5 DEF DecrementStep, DecrementLoad, DecrementLoadUdp, DecrementLoadTcp,
       DecrementStoreTotal, LoadOwn, LoadUdp, LoadTcp, StoreTotal
  <2>2. Active(c)' = Active(c)
    <3>1. CASE DecrementLoad(t) \/ DecrementLoadUdp(t) \/ DecrementLoadTcp(t)
      BY <1>0, <3>1 DEF DecrementLoad, DecrementLoadUdp, DecrementLoadTcp, Goto, Active
    <3>2. CASE DecrementStoreTotal(t)
      <4>1. after[t] \in {"write", "replied", "refused", "failed"}
        BY <1>0 DEF Ended
      <4> QED BY <1>0, <3>2, <4>1 DEF DecrementStoreTotal, Goto, Active
    <3> QED BY <1>5, <3>1, <3>2 DEF DecrementStep
  <2> QED BY <2>1, <2>2, MoveIsLimitStep
<1>6. ASSUME NEW t \in Task, DecrementExchange(t) PROVE LimitStep(c)
  <2>1. t \in counted /\ counted' \in {counted, counted \ {t}}
    BY <1>6 DEF IInv, Placed, DecrementExchange, CompareExchange
  <2>2. Active(c)' = Active(c) \ {t}
    BY <1>0, <1>6 DEF DecrementExchange, Goto, Active
  <2>3. CASE counted' = counted
    BY <2>2, <2>3, MoveIsLimitStep
  <2>4. CASE counted' = counted \ {t} /\ TypeOf(t) = c
    <3>1. t \in Counted(c) /\ Counted(c)' = Counted(c) \ {t}
      BY <2>1, <2>4 DEF Counted
    <3> QED BY <2>2, <2>4, <3>1 DEF LimitStep
  <2>5. CASE counted' = counted \ {t} /\ TypeOf(t) # c
    <3>1. Counted(c)' = Counted(c) /\ Active(c)' = Active(c)
      BY <2>2, <2>5 DEF Counted, Active
    <3> QED BY <3>1 DEF LimitStep
  <2> QED BY <2>1, <2>3, <2>4, <2>5
<1>7. ASSUME UNCHANGED <<counted, pc, after>> PROVE LimitStep(c)
  BY <1>7 DEF LimitStep, Active, Counted
<1>8. Respond \/ Notify \/ Quiet \/ (\E s \in Service : Stop(s)) \/ UNCHANGED vars
      => UNCHANGED <<counted, pc, after>>
  BY DEF Respond, Notify, Quiet, Stop, vars, counterVars, serveVars
<1> QED BY <1>1, <1>2, <1>3, <1>4, <1>5, <1>6, <1>7, <1>8 DEF Next, TaskStep

LEMMA UdpCardinality == \A S : UdpLimit!Cardinality(S) = Cardinality(S)
BY DEF Cardinality, UdpLimit!Cardinality

(* The UDP tasks of a proxy see a limit whose slots can get lost, and      *)
(* nothing else: admitted below it, refused at it.                         *)
LEMMA UdpRefinement == Spec => UdpLimit!Spec
<1>1. Init => UdpLimit!Init
  BY DEF Init, CounterInit, UdpLimit!Init, Active, Counted
<1>2. ASSUME IInv, [Next]_vars
      PROVE  [UdpLimit!Next]_<<Active("udp"), Counted("udp")>>
  <2>1. LimitStep("udp")
    BY <1>2, NextIsLimitStep DEF CounterType
  <2>2. \A q \in Task : TypeOf(q) = "udp" => q \in UdpTask
    BY DEF TypeOf
  <2> QED BY <2>1, <2>2, UdpCardinality DEF LimitStep, UdpLimit!Next, UdpLimit!Admit, UdpLimit!Refuse,
          UdpLimit!GiveBack, UdpLimit!Abandon
<1> QED BY <1>1, <1>2, InvariantHolds, PTL DEF Spec, UdpLimit!Spec,
        UdpLimit!vars

LEMMA TcpCardinality == \A S : TcpLimit!Cardinality(S) = Cardinality(S)
BY DEF Cardinality, TcpLimit!Cardinality

(* The TCP tasks of a proxy see the same limit, with slots of their own.   *)
LEMMA TcpRefinement == Spec => TcpLimit!Spec
<1>1. Init => TcpLimit!Init
  BY DEF Init, CounterInit, TcpLimit!Init, Active, Counted
<1>2. ASSUME IInv, [Next]_vars
      PROVE  [TcpLimit!Next]_<<Active("tcp"), Counted("tcp")>>
  <2>1. LimitStep("tcp")
    BY <1>2, NextIsLimitStep DEF CounterType
  <2>2. \A q \in Task : TypeOf(q) = "tcp" => q \in TcpTask
    BY DEF TypeOf, Task
  <2> QED BY <2>1, <2>2, TcpCardinality DEF LimitStep, TcpLimit!Next, TcpLimit!Admit, TcpLimit!Refuse,
          TcpLimit!GiveBack, TcpLimit!Abandon
<1> QED BY <1>1, <1>2, InvariantHolds, PTL DEF Spec, TcpLimit!Spec,
        TcpLimit!vars

(* A proxy implements the limit twice: its UDP queries see a limit of      *)
(* max_connections whose slots can get lost, and so do its TCP queries,    *)
(* however the atomic accesses of both interleave.                         *)
THEOREM LimitIsImplemented == Spec => ImplementsLimit
<1> QED BY UdpRefinement, TcpRefinement, PTL DEF ImplementsLimit

-----------------------------------------------------------------------------
(* Each response is queued once.                                           *)

Waiting == {"idle", "add_total", "add_own", "read", "query", "send"}

\* Only a task that has left "send" is marked as replied, and only marked
\* tasks have a response in the channel or sent.
Marked ==
    /\ \A t \in Task : pc[t] \in Waiting => after[t] # "replied"
    /\ \A i \in 1..Len(chan) : after[chan[i]] = "replied"
    /\ \A t \in sent : after[t] = "replied"

RInv == TypeOK /\ Marked /\ ResponseOnce

LEMMA InitRInv == Init => RInv
<1> SUFFICES ASSUME Init PROVE Marked /\ ResponseOnce
  BY InitTypeOK DEF RInv
<1>1. Marked
  BY DEF Init, Marked, Task
<1>2. ResponseOnce
  BY DEF Init, ResponseOnce, Task
<1> QED BY <1>1, <1>2

\* A step that neither sends a response nor marks a task keeps both.
LEMMA SilentRInv ==
    ASSUME RInv, TypeOK', chan' = chan, sent' = sent, up' \subseteq up,
           \A t \in Task : /\ after'[t] = "replied" <=> after[t] = "replied"
                           /\ pc'[t] \in Waiting => pc[t] \in Waiting
    PROVE  RInv'
<1> USE DEF RInv, TypeOK
<1>1. \A i \in 1..Len(chan) : chan[i] \in Task
  BY DEF Task
<1>2. Marked'
  BY <1>1 DEF Marked, Task
<1>3. ResponseOnce'
  BY DEF ResponseOnce, Task
<1> QED BY <1>2, <1>3

LEMMA SendRInv ==
    ASSUME RInv, TypeOK', NEW t \in Task, SendResponse(t)
    PROVE  RInv'
<1> USE DEF RInv, TypeOK
<1> DEFINE n == Len(chan)
<1>1. /\ t \in UdpTask /\ chan \in Seq(UdpTask) /\ n \in Nat
      /\ chan' = Append(chan, t) /\ sent' = sent /\ up' = up
      /\ pc' = [pc EXCEPT ![t] = "load_own"]
      /\ after' = [after EXCEPT ![t] = "replied"]
  BY DEF SendResponse, CallDecrement, Goto
<1>2. after[t] # "replied"
  BY DEF SendResponse, Marked, Waiting
<1>3. /\ Len(chan') = n + 1 /\ chan'[n + 1] = t
      /\ \A i \in 1..n : chan'[i] = chan[i] /\ chan[i] \in UdpTask
  BY <1>1
<1>4. t \notin sent /\ \A i \in 1..n : chan[i] # t
  BY <1>2 DEF Marked
<1>5. Marked'
  <2>1. \A u \in Task : pc'[u] \in Waiting => after'[u] # "replied"
    BY <1>1 DEF Marked, Waiting
  <2>2. \A i \in 1..Len(chan') : after'[chan'[i]] = "replied"
    <3> TAKE i \in 1..Len(chan')
    <3>1. CASE i = n + 1
      BY <3>1, <1>1, <1>3
    <3>2. CASE i # n + 1
      <4>1. i \in 1..n
        BY <3>2, <1>1, <1>3
      <4>2. after[chan[i]] = "replied" /\ chan'[i] = chan[i] /\ chan[i] \in Task
        BY <4>1, <1>3 DEF Marked, Task
      <4> QED BY <4>2, <1>1
    <3> QED BY <3>1, <3>2
  <2>3. \A u \in sent' : after'[u] = "replied"
    BY <1>1 DEF Marked, Task
  <2> QED BY <2>1, <2>2, <2>3 DEF Marked
<1>6. ResponseOnce'
  <2>1. \A i, j \in 1..Len(chan') : chan'[i] = chan'[j] => i = j
    BY <1>1, <1>3, <1>4 DEF ResponseOnce
  <2>2. \A i \in 1..Len(chan') : chan'[i] \notin sent'
    BY <1>1, <1>3, <1>4 DEF ResponseOnce
  <2>3. ASSUME NEW u \in UdpTask, after'[u] = "replied", "responder" \in up'
        PROVE  u \in sent' \/ \E i \in 1..Len(chan') : chan'[i] = u
    <3>1. CASE u = t
      <4>1. n + 1 \in 1..Len(chan') /\ chan'[n + 1] = u
        BY <3>1, <1>1, <1>3
      <4> QED BY <4>1
    <3>2. CASE u # t
      <4>1. after[u] = "replied" /\ "responder" \in up
        BY <2>3, <3>2, <1>1 DEF Task
      <4>2. CASE u \in sent
        BY <4>2, <1>1
      <4>3. ASSUME NEW i \in 1..n, chan[i] = u
            PROVE  \E k \in 1..Len(chan') : chan'[k] = u
        <5>1. i \in 1..Len(chan') /\ chan'[i] = u
          BY <4>3, <1>1, <1>3
        <5> QED BY <5>1
      <4> QED BY <4>1, <4>2, <4>3 DEF ResponseOnce
    <3> QED BY <3>1, <3>2
  <2> QED BY <2>1, <2>2, <2>3 DEF ResponseOnce
<1> QED BY <1>5, <1>6

LEMMA RespondRInv ==
    ASSUME RInv, TypeOK', Respond
    PROVE  RInv'
<1> USE DEF RInv, TypeOK
<1> DEFINE n == Len(chan)
<1>1. /\ chan \in Seq(UdpTask) /\ n \in Nat /\ n > 0
      /\ chan' = Tail(chan) /\ sent' = sent \cup {chan[1]}
      /\ pc' = pc /\ after' = after /\ up' = up
  BY DEF Respond
<1>2. /\ Len(chan') = n - 1
      /\ \A i \in 1..(n - 1) : chan'[i] = chan[i + 1] /\ i + 1 \in 1..n
  BY <1>1
<1>3. Marked'
  BY <1>1, <1>2 DEF Marked
<1>4. ResponseOnce'
  <2>1. \A i, j \in 1..Len(chan') : chan'[i] = chan'[j] => i = j
    BY <1>1, <1>2 DEF ResponseOnce
  <2>2. \A i \in 1..Len(chan') : chan'[i] \notin sent'
    <3> TAKE i \in 1..Len(chan')
    <3>1. i + 1 \in 1..n /\ 1 \in 1..n /\ i + 1 # 1 /\ chan'[i] = chan[i + 1]
      BY <1>1, <1>2
    <3>2. chan[i + 1] # chan[1] /\ chan[i + 1] \notin sent
      BY <3>1 DEF ResponseOnce
    <3> QED BY <3>1, <3>2, <1>1
  <2>3. ASSUME NEW u \in UdpTask, after'[u] = "replied", "responder" \in up'
        PROVE  u \in sent' \/ \E i \in 1..Len(chan') : chan'[i] = u
    <3>1. u \in sent \/ \E i \in 1..n : chan[i] = u
      BY <2>3, <1>1 DEF ResponseOnce
    <3>2. ASSUME NEW i \in 1..n, chan[i] = u, i # 1
          PROVE  \E k \in 1..Len(chan') : chan'[k] = u
      <4>1. i - 1 \in 1..Len(chan') /\ chan'[i - 1] = u
        BY <3>2, <1>1, <1>2
      <4> QED BY <4>1
    <3> QED BY <3>1, <3>2, <1>1
  <2> QED BY <2>1, <2>2, <2>3 DEF ResponseOnce
<1> QED BY <1>3, <1>4

LEMMA NextRInv ==
    ASSUME RInv, [Next]_vars
    PROVE  RInv'
<1>0. TypeOK /\ TypeOK'
  BY TypeInductive DEF RInv
<1> USE DEF TypeOK
<1>1. ASSUME NEW t \in Task, Receive(t) PROVE RInv'
  BY <1>0, <1>1, SilentRInv DEF Receive, Goto, Waiting
<1>2. ASSUME NEW t \in Task, TaskStep(t) PROVE RInv'
  <2>1. CASE IncrementTotal(t) \/ Admit(t)
    BY <1>0, <2>1, SilentRInv DEF IncrementTotal, Admit, Goto, Waiting
  <2>2. CASE Refuse(t) \/ QueryTcp(t)
    <3>1. after[t] # "replied"
      BY <2>2 DEF Refuse, QueryTcp, RInv, Marked, Waiting
    <3> QED BY <1>0, <2>2, <3>1, SilentRInv DEF Refuse, QueryTcp, CallDecrement, Goto, Waiting
  <2>3. CASE QueryUdpOk(t) \/ QueryUdpFails(t) \/ SendFails(t)
    BY <1>0, <2>3, SilentRInv DEF QueryUdpOk, QueryUdpFails, SendFails, Goto, Waiting
  <2>4. CASE SendResponse(t)
    BY <1>0, <2>4, SendRInv
  <2>5. CASE DecrementStep(t)
    <3>1. after[t] \notin Waiting
      BY <1>0 DEF Ended, Waiting
    <3> QED BY <1>0, <2>5, <3>1, SilentRInv DEF DecrementStep, DecrementLoad, DecrementExchange,
          DecrementLoadUdp, DecrementLoadTcp, DecrementStoreTotal, Goto, Waiting
  <2> QED BY <1>2, <2>1, <2>2, <2>3, <2>4, <2>5 DEF TaskStep
<1>3. ASSUME NEW t \in Task, ClientStep(t) PROVE RInv'
  BY <1>0, <1>3, SilentRInv DEF ClientStep, ReadMessage, ReadFails, WriteResponse, Goto, Waiting
<1>4. CASE Respond
  BY <1>0, <1>4, RespondRInv
<1>5. CASE Notify \/ Quiet
  BY <1>0, <1>5, SilentRInv DEF Notify, Quiet, vars, counterVars, serveVars
<1>6. ASSUME NEW s \in Service, Stop(s) PROVE RInv'
  <2>1. CASE s # "responder"
    BY <1>0, <1>6, <2>1, SilentRInv DEF Stop
  <2>2. CASE s = "responder"
    <3>1. /\ chan' = <<>> /\ sent' = sent /\ "responder" \notin up'
          /\ pc' = pc /\ after' = after /\ Len(chan') = 0
      BY <1>6, <2>2 DEF Stop
    <3>2. Marked'
      BY <3>1 DEF RInv, Marked
    <3>3. ResponseOnce'
      BY <3>1 DEF ResponseOnce
    <3> QED BY <1>0, <3>2, <3>3 DEF RInv
  <2> QED BY <2>1, <2>2
<1>7. CASE UNCHANGED vars
  BY <1>0, <1>7, SilentRInv DEF vars, counterVars, serveVars
<1> QED BY <1>1, <1>2, <1>3, <1>4, <1>5, <1>6, <1>7 DEF Next

(* A UDP query that gave its slot back after a successful send has its     *)
(* response in the channel or sent, and exactly once, unless the responder *)
(* was stopped: neither the full channel nor the shutdown doubles one.     *)
THEOREM RespondsOnce == Spec => []ResponseOnce
<1> QED BY InitRInv, NextRInv, PTL DEF Spec, RInv

=============================================================================
