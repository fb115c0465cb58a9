------------------------------ MODULE ProxyServe ------------------------------
(***************************************************************************)
(* One Proxy: the listeners of one address, the tasks they spawn for every *)
(* UDP datagram and TCP connection, the bounded channel to the UDP         *)
(* responder, and the shutdown of the three services by term_notify        *)
(* (dap-lib/src/proxy/).  make_doh_query is one step with a chosen         *)
(* outcome here; `timeout` around it is why the step is always taken.      *)
(*                                                                         *)
(* A query has one task, so a task never starts twice; the sets of tasks   *)
(* bound how many queries a behaviour has.                                 *)
(***************************************************************************)
EXTENDS ConnCounter, Sequences

CONSTANTS
    MaxConnections, \* proxy_config.max_connections
    ChannelCapacity \* proxy_config.udp_channel_capacity

\* mpsc::channel panics on a capacity of 0.
ASSUME LimitsAssumption ==
    /\ MaxConnections \in Nat
    /\ ChannelCapacity \in Nat \ {0}

VARIABLES
    pc,             \* pc[t]: the await point or atomic access task t is at
    after,          \* after[t]: where t continues when decrement returns
    chan,           \* responses queued for the UDP responder
    sent,           \* UDP queries whose response went to send_to
    term,           \* term_notify has been notified
    up              \* services that are still running

serveVars == <<pc, after, chan, sent, term, up>>
vars == <<counterVars, serveVars>>

Service == {"udp", "tcp", "responder"}

\* Where a task can return.  "failed" is any Err.
Ended == {"replied", "refused", "failed"}
Label == {"idle", "add_total", "add_own", "read", "query", "send", "write",
          "load_own", "exchange", "load_udp", "load_tcp", "store_total"} \cup Ended

TypeOK ==
    /\ CounterTypeOK
    /\ pc \in [Task -> Label]
    /\ after \in [Task -> {"write"} \cup Ended]
    /\ chan \in Seq(UdpTask)
    /\ sent \in SUBSET UdpTask
    /\ term \in BOOLEAN
    /\ up \in SUBSET Service

Init ==
    /\ CounterInit
    /\ pc = [t \in Task |-> "idle"]
    /\ after = [t \in Task |-> "failed"]
    /\ chan = <<>>
    /\ sent = {}
    /\ term = FALSE
    /\ up = Service

Goto(t, label) == pc' = [pc EXCEPT ![t] = label]

\* counter.decrement(..) followed by `next`.
CallDecrement(t, next) ==
    /\ Goto(t, "load_own")
    /\ after' = [after EXCEPT ![t] = next]

-----------------------------------------------------------------------------
(* The listeners.                                                          *)

\* recv_from or accept returns and the loop spawns the serving task.
Receive(t) ==
    /\ pc[t] = "idle"
    /\ TypeOf(t) \in up
    /\ Goto(t, "add_total")
    /\ UNCHANGED <<counterVars, after, chan, sent, term, up>>

-----------------------------------------------------------------------------
(* serve_udp_query and serve_tcp_query.                                    *)

IncrementTotal(t) ==
    /\ pc[t] = "add_total"
    /\ AddTotal
    /\ Goto(t, "add_own")
    /\ UNCHANGED <<after, chan, sent, term, up>>

\* Mutant: one query too many is let in.
FullAboveMax(t) == cnt[TypeOf(t)] > MaxConnections

Full(t) == cnt[TypeOf(t)] >= MaxConnections

Admit(t) ==
    /\ pc[t] = "add_own"
    /\ ~Full(t)
    /\ AddOwn(t)
    /\ Goto(t, IF t \in UdpTask THEN "query" ELSE "read")
    /\ UNCHANGED <<after, chan, sent, term, up>>

Refuse(t) ==
    /\ pc[t] = "add_own"
    /\ Full(t)
    /\ AddOwn(t)
    /\ CallDecrement(t, "refused")
    /\ UNCHANGED <<chan, sent, term, up>>

\* Both read_exact calls return and the length is not 0.
ReadMessage(t) ==
    /\ pc[t] = "read"
    /\ Goto(t, "query")
    /\ UNCHANGED <<counterVars, after, chan, sent, term, up>>

\* A read_exact fails, or the length is 0: serve_tcp_query returns at once.
ReadFails(t) ==
    /\ pc[t] = "read"
    /\ Goto(t, "failed")
    /\ UNCHANGED <<counterVars, after, chan, sent, term, up>>

QueryTcp(t) ==
    /\ pc[t] = "query"
    /\ t \in TcpTask
    /\ \E next \in {"write", "failed"} : CallDecrement(t, next)
    /\ UNCHANGED <<counterVars, chan, sent, term, up>>

QueryUdpOk(t) ==
    /\ pc[t] = "query"
    /\ t \in UdpTask
    /\ Goto(t, "send")
    /\ UNCHANGED <<counterVars, after, chan, sent, term, up>>

\* make_doh_query fails or times out: the task returns at once.
QueryUdpFails(t) ==
    /\ pc[t] = "query"
    /\ t \in UdpTask
    /\ Goto(t, "failed")
    /\ UNCHANGED <<counterVars, after, chan, sent, term, up>>

\* Mutant: try_send, which drops the response when the channel is full.
TrySendResponse(t) ==
    /\ pc[t] = "send"
    /\ t \in UdpTask
    /\ "responder" \in up
    /\ chan' = IF Len(chan) < ChannelCapacity THEN Append(chan, t) ELSE chan
    /\ CallDecrement(t, "replied")
    /\ UNCHANGED <<counterVars, sent, term, up>>

\* res_sender.send waits for room in the channel.
SendResponse(t) ==
    /\ pc[t] = "send"
    /\ t \in UdpTask
    /\ "responder" \in up
    /\ Len(chan) < ChannelCapacity
    /\ chan' = Append(chan, t)
    /\ CallDecrement(t, "replied")
    /\ UNCHANGED <<counterVars, sent, term, up>>

\* The receiver is gone: send returns an error, and so does the task.
SendFails(t) ==
    /\ pc[t] = "send"
    /\ t \in UdpTask
    /\ "responder" \notin up
    /\ Goto(t, "failed")
    /\ UNCHANGED <<counterVars, after, chan, sent, term, up>>

\* The reply on the TCP stream: too long, not written, or written.
WriteResponse(t) ==
    /\ pc[t] = "write"
    /\ \E result \in {"replied", "failed"} : Goto(t, result)
    /\ UNCHANGED <<counterVars, after, chan, sent, term, up>>

-----------------------------------------------------------------------------
(* decrement, one atomic access at a time.                                 *)

DecrementLoad(t) ==
    /\ pc[t] = "load_own"
    /\ LoadOwn(t)
    /\ Goto(t, "exchange")
    /\ UNCHANGED <<after, chan, sent, term, up>>

\* Mutant: a failed exchange is retried with the value loaded before.
SpinExchange(t) ==
    /\ pc[t] = "exchange"
    /\ CompareExchange(t)
    /\ Goto(t, IF cnt[TypeOf(t)] = loaded[t] THEN "load_udp" ELSE "exchange")
    /\ UNCHANGED <<after, chan, sent, term, up>>

DecrementExchange(t) ==
    /\ pc[t] = "exchange"
    /\ CompareExchange(t)
    /\ Goto(t, "load_udp")
    /\ UNCHANGED <<after, chan, sent, term, up>>

DecrementLoadUdp(t) ==
    /\ pc[t] = "load_udp"
    /\ LoadUdp(t)
    /\ Goto(t, "load_tcp")
    /\ UNCHANGED <<after, chan, sent, term, up>>

DecrementLoadTcp(t) ==
    /\ pc[t] = "load_tcp"
    /\ LoadTcp(t)
    /\ Goto(t, "store_total")
    /\ UNCHANGED <<after, chan, sent, term, up>>

DecrementStoreTotal(t) ==
    /\ pc[t] = "store_total"
    /\ StoreTotal(t)
    /\ Goto(t, after[t])
    /\ UNCHANGED <<after, chan, sent, term, up>>

-----------------------------------------------------------------------------
(* The responder and the shutdown.                                         *)

\* Mutant: the response is sent and stays queued.
RespondKeeping ==
    /\ "responder" \in up
    /\ chan # <<>>
    /\ sent' = sent \cup {Head(chan)}
    /\ UNCHANGED <<counterVars, pc, after, chan, term, up>>

\* Mutant: the responder waits until a second response is queued.
RespondInPairs ==
    /\ "responder" \in up
    /\ Len(chan) > 1
    /\ chan' = Tail(chan)
    /\ sent' = sent \cup {Head(chan)}
    /\ UNCHANGED <<counterVars, pc, after, term, up>>

\* recv and send_to; an error of send_to is only logged.
Respond ==
    /\ "responder" \in up
    /\ chan # <<>>
    /\ chan' = Tail(chan)
    /\ sent' = sent \cup {Head(chan)}
    /\ UNCHANGED <<counterVars, pc, after, term, up>>

\* notify_waiters, from the configuration watcher.
Notify ==
    /\ ~term
    /\ term' = TRUE
    /\ UNCHANGED <<counterVars, pc, after, chan, sent, up>>

\* The select of service s takes its notified() branch and drops the loop;
\* the responder drops the receiver and the responses queued in it.
Stop(s) ==
    /\ term
    /\ s \in up
    /\ up' = up \ {s}
    /\ chan' = IF s = "responder" THEN <<>> ELSE chan
    /\ UNCHANGED <<counterVars, pc, after, sent, term>>

\* Every task has returned or will never start: nothing but new queries can
\* happen, and those are not part of this instance.
Quiet ==
    /\ \A t \in Task : pc[t] \in Ended \cup {"idle"}
    /\ \A t \in Task : pc[t] = "idle" => TypeOf(t) \notin up
    /\ UNCHANGED vars

-----------------------------------------------------------------------------

DecrementStep(t) ==
    \/ DecrementLoad(t) \/ DecrementExchange(t) \/ DecrementLoadUdp(t)
    \/ DecrementLoadTcp(t) \/ DecrementStoreTotal(t)

\* The steps of a task that nobody outside the proxy can delay for ever.
TaskStep(t) ==
    \/ IncrementTotal(t) \/ Admit(t) \/ Refuse(t)
    \/ QueryTcp(t) \/ QueryUdpOk(t) \/ QueryUdpFails(t)
    \/ SendResponse(t) \/ SendFails(t)
    \/ DecrementStep(t)

\* The steps that wait for the TCP client.
ClientStep(t) == ReadMessage(t) \/ ReadFails(t) \/ WriteResponse(t)

Next ==
    \/ \E t \in Task : Receive(t) \/ TaskStep(t) \/ ClientStep(t)
    \/ Respond
    \/ Notify
    \/ \E s \in Service : Stop(s)
    \/ Quiet

Spec == Init /\ [][Next]_vars

\* The runtime polls every task that is ready and timers fire; nothing is
\* assumed of the TCP client or of the watcher.
Fairness ==
    /\ \A t \in Task : WF_vars(TaskStep(t))
    /\ WF_vars(Respond)
    /\ \A s \in Service : WF_vars(Stop(s))

FairSpec == Spec /\ Fairness

-----------------------------------------------------------------------------
(* Properties.                                                             *)

\* Admitted queries that have not come out of decrement's compare_exchange.
Active(c) ==
    {t \in Task : /\ TypeOf(t) = c
                  /\ \/ pc[t] \in {"read", "query", "send"}
                     \/ pc[t] \in {"load_own", "exchange"} /\ after[t] # "refused"}

Counted(c) == {t \in counted : TypeOf(t) = c}

(* The admission test of counter.rs:39 and the callers' comparison with    *)
(* max_connections never let more than max_connections queries of one      *)
(* protocol in at a time, however the atomic accesses interleave.          *)
AdmissionBound == \A c \in CounterType : Cardinality(Active(c)) <= MaxConnections

(* cnt_udp and cnt_tcp are exactly the numbers of tasks that were added    *)
(* and not taken off: no interleaving of load and compare_exchange takes   *)
(* off the addition of another task, and no decrement wraps below zero.    *)
CountExact == \A c \in CounterType : cnt[c] = Cardinality(Counted(c))

(* A UDP query that decremented its slot after a successful send has its   *)
(* response on its way exactly once: it is in the channel or was given to  *)
(* send_to, never both and never twice, unless the responder was stopped.  *)
ResponseOnce ==
    /\ \A i, j \in 1..Len(chan) : chan[i] = chan[j] => i = j
    /\ \A i \in 1..Len(chan) : chan[i] \notin sent
    /\ \A t \in UdpTask :
          /\ after[t] = "replied"
          /\ "responder" \in up
          => t \in sent \/ \E i \in 1..Len(chan) : chan[i] = t

(* Each protocol's side of the counter behaves like a limit with slots     *)
(* that can get lost: a decrement frees the slot of its own task and of no *)
(* other, a slot is free again only when its task gave it back, and what   *)
(* the tasks of the other protocol do is a stutter.  That the two sides    *)
(* are separate is what the code does, not what its comments say: see      *)
(* TotalBound below.                                                       *)
UdpLimit == INSTANCE ConnLimit WITH
    Query <- UdpTask, Max <- MaxConnections,
    active <- Active("udp"), slots <- Counted("udp")
TcpLimit == INSTANCE ConnLimit WITH
    Query <- TcpTask, Max <- MaxConnections,
    active <- Active("tcp"), slots <- Counted("tcp")
ImplementsLimit == UdpLimit!Spec /\ TcpLimit!Spec

(* Every query ends, whatever the upstream does and however the atomic     *)
(* accesses interleave: it has a timeout, the responder makes room in a    *)
(* full channel, and one that stops fails the tasks that wait for room.  A *)
(* UDP query that was answered has its response sent, unless the proxy is  *)
(* shut down; a TCP query whose message was read stops being served even   *)
(* if its client never takes the answer, for the decrement is before it.   *)
QueryEnds ==
    /\ \A t \in UdpTask :
          pc[t] = "add_total" ~>
             \/ pc[t] \in {"refused", "failed"}
             \/ pc[t] = "replied" /\ (t \in sent \/ term)
    /\ \A t \in TcpTask : pc[t] = "query" ~> t \notin Active("tcp")

-----------------------------------------------------------------------------
(* What the documentation says and the code does not do.                   *)

(* "Too many connections: max = {} (udp+tcp)" (proxy_udp.rs:118,           *)
(* proxy_tcp.rs:45): a query is refused only when max_connections others   *)
(* are being served or are just being refused.                             *)
Present(c) ==
    Active(c) \cup {t \in Task : TypeOf(t) = c /\ pc[t] \in {"load_own", "exchange"}}

RefusedOnlyWhenBusy ==
    [][\A t \in Task :
          pc[t] = "add_own" /\ pc'[t] = "load_own"
          => Cardinality(Present("udp")) + Cardinality(Present("tcp")) >= MaxConnections]_vars

(* "Max connections via UPD and TCP (total)" (constants.rs:15): the        *)
(* queries of both protocols together stay below max_connections.          *)
TotalBound == Cardinality(Active("udp")) + Cardinality(Active("tcp")) <= MaxConnections

(* "decrement counter anyways" (proxy_tcp.rs:75): a TCP query that has     *)
(* passed that line is off the counter.                                    *)
DecrementedAnyways ==
    \A t \in TcpTask : pc[t] \in {"write", "replied"} => t \notin counted

=============================================================================
