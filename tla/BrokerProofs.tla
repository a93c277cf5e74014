---------------------------- MODULE BrokerProofs ----------------------------
(***************************************************************************)
(* Proofs about Broker, for every set of agents and threads, any time to   *)
(* live, grace and buffer size, with and without tokens, sweeps and        *)
(* restarts.                                                               *)
(***************************************************************************)
EXTENDS Broker, TLAPS

-----------------------------------------------------------------------------
(* Dicts.                                                                  *)

\* d[k] = v keeps a dict a dict, and adds no key but k.
LEMMA PutIsDict ==
  ASSUME NEW K, NEW V, NEW d, IsDict(d, K, V), NEW k \in K, NEW v \in V
  PROVE  IsDict(Put(d, k, v), K, V) /\ DOMAIN Put(d, k, v) = DOMAIN d \cup {k}
BY DEF IsDict, Put

\* d.setdefault(k, v), likewise.
LEMMA SetDefaultIsDict ==
  ASSUME NEW K, NEW V, NEW d, IsDict(d, K, V), NEW k \in K, NEW v \in V
  PROVE  /\ IsDict(SetDefault(d, k, v), K, V)
         /\ DOMAIN SetDefault(d, k, v) = DOMAIN d \cup {k}
BY DEF IsDict, SetDefault, Put

\* d.pop(k, None) keeps a dict a dict, and removes no key but k.
LEMMA PopIsDict ==
  ASSUME NEW K, NEW V, NEW d, IsDict(d, K, V), NEW k
  PROVE  IsDict(Pop(d, k), K, V) /\ DOMAIN Pop(d, k) = DOMAIN d \ {k}
BY DEF IsDict, Pop, Restrict

LEMMA EmptyIsDict ==
  ASSUME NEW K, NEW V
  PROVE  IsDict(EmptyDict, K, V) /\ DOMAIN EmptyDict = {}
BY DEF IsDict, EmptyDict

-----------------------------------------------------------------------------
(* Threads.                                                                *)

LEMMA NoRequestOK == NoRequest \in Requests
BY DEF NoRequest, Requests, Kinds, Dispositions

\* A thread that goes to another place with a request of the right type.
LEMMA GotoOK ==
  ASSUME ThreadsOK, NEW t \in Threads, NEW place \in PCs, Goto(t, place),
         pc[t] \notin {"idle", "send_traffic"},
         req' = req, batch' = batch, notified' = notified
  PROVE  ThreadsOK'
BY DEF ThreadsOK, Goto

LEMMA BeginOK ==
  ASSUME ThreadsOK, NEW t \in Threads, NEW place \in PCs, NEW r \in Requests,
         place \in {"idle", "send_traffic"} \/ r.agent \in Agents,
         Begin(t, place, r), batch' = batch, notified' \subseteq Threads
  PROVE  ThreadsOK'
BY DEF ThreadsOK, Begin, Goto

\* What a thread knows of its request once it has begun.
LEMMA RequestFields ==
  ASSUME TypeOK, NEW t \in Threads
  PROVE  /\ req[t] \in Requests
         /\ req[t].kind \in Kinds /\ req[t].ttl \in Ttls \cup {NotGiven}
         /\ req[t].disposition \in Dispositions
         /\ pc[t] \notin {"idle", "send_traffic"} => req[t].agent \in Agents
BY DEF TypeOK, ThreadsOK, Requests

\* The messages of a sequence of naturals are naturals.
LEMMA RangeOfNats ==
  ASSUME NEW s \in Seq(Nat)
  PROVE  Range(s) \subseteq Nat
BY DEF Range

\* What a step leaves alone keeps its type.
LEMMA SweepKept == ASSUME TypeOK, sweep' = sweep PROVE SweepOK'
BY DEF TypeOK, SweepOK, IsDict

LEMMA HistoryKept ==
  ASSUME TypeOK, UNCHANGED <<clock, sent, unanswered, accepted, received, lost>>
  PROVE  HistoryOK'
BY DEF TypeOK, HistoryOK

LEMMA ThreadsKept == ASSUME TypeOK, UNCHANGED threads PROVE ThreadsOK'
BY DEF TypeOK, ThreadsOK, threads

LEMMA TablesKept == ASSUME TypeOK, UNCHANGED tables PROVE TablesOK'
BY DEF TypeOK, TablesOK, IsDict, tables

-----------------------------------------------------------------------------
(* Type correctness: one lemma per action, or per group of like actions.   *)

LEMMA StartRegisterOK ==
  ASSUME TypeOK, NEW t \in Threads, NEW caller \in Callers, NEW a \in Agents,
         NEW kind \in Kinds, NEW ttl \in Ttls \cup {NotGiven},
         StartRegister(t, caller, a, kind, ttl)
  PROVE  TypeOK'
<1> DEFINE r == [NoRequest EXCEPT !.caller = caller, !.agent = a, !.kind = kind,
                                  !.ttl = ttl, !.isNew = a \notin DOMAIN registry]
<1>1. r \in Requests /\ r.agent = a
  BY DEF NoRequest, Requests, Callers, Kinds, Dispositions
<1>2. Begin(t, "reg_registry", r)
  BY DEF StartRegister
<1> HIDE DEF r
<1>3. ThreadsOK'
  BY <1>1, <1>2, BeginOK DEF TypeOK, ThreadsOK, StartRegister, PCs, RegisterPCs
<1> QED
  BY <1>3, TablesKept, SweepKept, HistoryKept DEF TypeOK, StartRegister, history

LEMMA RegisterEndpointOK ==
  ASSUME TypeOK, NEW t \in Threads, RegisterEndpoint(t)
  PROVE  TypeOK'
<1>1. req[t].agent \in Agents /\ req[t].kind \in Kinds
  BY RequestFields DEF RegisterEndpoint
<1>2. IsDict(Put(registry, req[t].agent, req[t].kind), Agents, Kinds)
  BY <1>1, PutIsDict DEF TypeOK, TablesOK
<1>3. TablesOK'
  BY <1>2 DEF TypeOK, TablesOK, RegisterEndpoint, IsDict
<1>4. ThreadsOK'
  BY GotoOK DEF TypeOK, RegisterEndpoint, PCs, RegisterPCs
<1> QED
  BY <1>3, <1>4, SweepKept, HistoryKept DEF TypeOK, RegisterEndpoint, history

LEMMA NewMailboxOK ==
  ASSUME TypeOK, NEW a \in Agents, mailboxes' = SetDefault(mailboxes, a, <<>>),
         UNCHANGED <<registry, capabilities, last_heartbeat, ttl_seconds, traffic_buffer>>
  PROVE  TablesOK'
<1>1. IsDict(SetDefault(mailboxes, a, <<>>), Agents, Seq(Nat))
  BY DEF TypeOK, TablesOK, IsDict, SetDefault, Put
<1> QED
  BY <1>1 DEF TypeOK, TablesOK, IsDict

LEMMA RegisterMailboxOK ==
  ASSUME TypeOK, NEW t \in Threads, RegisterMailbox(t)
  PROVE  TypeOK'
<1>1. TablesOK'
  BY NewMailboxOK, RequestFields DEF RegisterMailbox
<1>2. ThreadsOK'
  BY GotoOK DEF TypeOK, RegisterMailbox, PCs, RegisterPCs
<1> QED
  BY <1>1, <1>2, SweepKept, HistoryKept DEF TypeOK, RegisterMailbox, history

LEMMA RegisterCapabilitiesOK ==
  ASSUME TypeOK, NEW t \in Threads, RegisterCapabilities(t)
  PROVE  TypeOK'
<1>1. TablesOK'
  BY RequestFields DEF TypeOK, TablesOK, RegisterCapabilities
<1>2. ThreadsOK'
  BY GotoOK DEF TypeOK, RegisterCapabilities, PCs, RegisterPCs
<1> QED
  BY <1>1, <1>2, SweepKept, HistoryKept DEF TypeOK, RegisterCapabilities, history

LEMMA RegisterLeaseOK ==
  ASSUME TypeOK, NEW t \in Threads, RegisterLease(t)
  PROVE  TypeOK'
<1>1. /\ req[t].agent \in Agents
      /\ req[t].ttl # NotGiven => req[t].ttl \in Nat
  BY RequestFields, ConstantsAssumption DEF RegisterLease
<1>2. /\ IsDict(Put(last_heartbeat, req[t].agent, clock), Agents, Nat)
      /\ DOMAIN Put(last_heartbeat, req[t].agent, clock)
           = DOMAIN last_heartbeat \cup {req[t].agent}
  BY <1>1 DEF TypeOK, TablesOK, HistoryOK, IsDict, Put
<1>3. /\ IsDict(ttl_seconds', Agents, Nat)
      /\ DOMAIN ttl_seconds' \subseteq DOMAIN ttl_seconds \cup {req[t].agent}
  <2>1. CASE req[t].ttl # NotGiven
    BY <1>1, <2>1 DEF TypeOK, TablesOK, RegisterLease, IsDict, Put
  <2>2. CASE req[t].ttl = NotGiven /\ req[t].isNew
    BY <1>1, <2>2, ConstantsAssumption DEF TypeOK, TablesOK, RegisterLease, IsDict, Put
  <2>3. CASE req[t].ttl = NotGiven /\ ~req[t].isNew
    BY <2>3 DEF TypeOK, TablesOK, RegisterLease
  <2> QED
    BY <2>1, <2>2, <2>3
<1>4. TablesOK'
  BY <1>2, <1>3 DEF TypeOK, TablesOK, RegisterLease, IsDict
<1>5. ThreadsOK'
  BY BeginOK, NoRequestOK DEF TypeOK, ThreadsOK, RegisterLease, Finish, PCs
<1> QED
  BY <1>4, <1>5, SweepKept, HistoryKept DEF TypeOK, RegisterLease, history

LEMMA StartDeregisterOK ==
  ASSUME TypeOK, NEW t \in Threads, NEW caller \in Callers, NEW a \in Agents,
         StartDeregister(t, caller, a)
  PROVE  TypeOK'
<1> DEFINE r == [NoRequest EXCEPT !.caller = caller, !.agent = a]
<1>1. r \in Requests /\ r.agent = a
  BY DEF NoRequest, Requests, Callers, Kinds, Dispositions
<1>2. Begin(t, "dereg_capabilities", r)
  BY DEF StartDeregister
<1> HIDE DEF r
<1>3. ThreadsOK'
  BY <1>1, <1>2, BeginOK DEF TypeOK, ThreadsOK, StartDeregister, PCs, DeregisterPCs
<1>4. TablesOK'
  BY DEF TypeOK, TablesOK, StartDeregister, IsDict, Pop, Restrict
<1> QED
  BY <1>3, <1>4, SweepKept, HistoryKept DEF TypeOK, StartDeregister, history

LEMMA DeregisterCapabilitiesOK ==
  ASSUME TypeOK, NEW t \in Threads, DeregisterCapabilities(t)
  PROVE  TypeOK'
<1>1. TablesOK'
  BY DEF TypeOK, TablesOK, DeregisterCapabilities, IsDict
<1>2. ThreadsOK'
  BY GotoOK DEF TypeOK, DeregisterCapabilities, PCs, DeregisterPCs
<1> QED
  BY <1>1, <1>2, SweepKept, HistoryKept DEF TypeOK, DeregisterCapabilities, history

LEMMA DeregisterLeaseOK ==
  ASSUME TypeOK, NEW t \in Threads, DeregisterLease(t)
  PROVE  TypeOK'
<1>1. TablesOK'
  BY DEF TypeOK, TablesOK, DeregisterLease, IsDict, Pop, Restrict
<1>2. ThreadsOK'
  BY GotoOK DEF TypeOK, DeregisterLease, PCs, DeregisterPCs
<1> QED
  BY <1>1, <1>2, SweepKept, HistoryKept DEF TypeOK, DeregisterLease, history

\* Dropping a mailbox: used by DELETE and by the sweep.
LEMMA PopMailboxOK ==
  ASSUME TypeOK, NEW a, PopMailbox(a),
         UNCHANGED <<registry, capabilities, last_heartbeat, ttl_seconds,
                     traffic_buffer, clock, sent, unanswered, accepted, received>>
  PROVE  TablesOK' /\ HistoryOK' /\ notified' \subseteq Threads
<1>1. TablesOK'
  BY DEF TypeOK, TablesOK, PopMailbox, IsDict, Pop, Restrict
<1>2. a \in DOMAIN mailboxes => Range(mailboxes[a]) \subseteq Nat
  BY RangeOfNats DEF TypeOK, TablesOK, IsDict
<1>3. HistoryOK'
  BY <1>2 DEF TypeOK, HistoryOK, PopMailbox
<1> QED
  BY <1>1, <1>3 DEF PopMailbox, Waiting

LEMMA DeregisterMailboxOK ==
  ASSUME TypeOK, NEW t \in Threads, DeregisterMailbox(t)
  PROVE  TypeOK'
<1>1. TablesOK' /\ HistoryOK' /\ notified' \subseteq Threads
  BY PopMailboxOK DEF DeregisterMailbox
<1>2. ThreadsOK'
  BY <1>1, BeginOK, NoRequestOK DEF TypeOK, DeregisterMailbox, Finish, PCs
<1> QED
  BY <1>1, <1>2, SweepKept DEF TypeOK, DeregisterMailbox

LEMMA StartSendOK ==
  ASSUME TypeOK, NEW t \in Threads, NEW caller \in Callers, NEW sender \in Agents,
         NEW recipient \in Agents \cup {Nobody}, StartSend(t, caller, sender, recipient)
  PROVE  TypeOK'
<1> DEFINE r == [NoRequest EXCEPT !.caller = caller, !.agent = recipient]
<1> DEFINE rd(d) == [r EXCEPT !.disposition = d]
<1>1. /\ r \in Requests /\ r.agent = recipient
      /\ \A d \in Dispositions : rd(d) \in Requests /\ rd(d).agent = recipient
  BY DEF NoRequest, Requests, Callers, Kinds, Dispositions
<1>2. \/ \E d \in Dispositions : Begin(t, "send_traffic", rd(d))
      \/ recipient \in Agents /\ Begin(t, "send_enqueue", r)
      \/ recipient \in Agents /\ Begin(t, "send_route", r)
  BY DEF StartSend, Dispositions, TypeOK, TablesOK, IsDict
<1> HIDE DEF r, rd
<1>3. ThreadsOK'
  BY <1>1, <1>2, BeginOK DEF TypeOK, ThreadsOK, StartSend, PCs, SendPCs
<1>4. HistoryOK'
  BY DEF TypeOK, HistoryOK, StartSend
<1> QED
  BY <1>3, <1>4, TablesKept, SweepKept DEF TypeOK, StartSend

LEMMA EnqueueOK ==
  ASSUME TypeOK, NEW t \in Threads, Enqueue(t)
  PROVE  TypeOK'
<1> DEFINE a == req[t].agent
           queues == SetDefault(mailboxes, a, <<>>)
           r == [req[t] EXCEPT !.disposition = "queued"]
<1>1. a \in Agents /\ accepted' \in Nat
  BY RequestFields DEF Enqueue, TypeOK, HistoryOK
<1>2. IsDict(queues, Agents, Seq(Nat)) /\ a \in DOMAIN queues
  BY <1>1 DEF TypeOK, TablesOK, IsDict, SetDefault, Put
<1>3. Append(queues[a], accepted') \in Seq(Nat)
  BY <1>1, <1>2 DEF IsDict
<1>4. mailboxes' = Put(queues, a, Append(queues[a], accepted'))
  BY DEF Enqueue
<1> HIDE DEF queues
<1>5. IsDict(mailboxes', Agents, Seq(Nat))
  BY <1>1, <1>2, <1>3, <1>4 DEF IsDict, Put
<1>6. TablesOK'
  BY <1>5 DEF TypeOK, TablesOK, Enqueue, IsDict
<1>7. r \in Requests
  BY RequestFields DEF Requests, Dispositions
<1>8. ThreadsOK'
  BY <1>7, BeginOK DEF TypeOK, Enqueue, PCs, SendPCs, Waiting
<1>9. HistoryOK'
  BY <1>1 DEF TypeOK, HistoryOK, Enqueue
<1> QED
  BY <1>6, <1>8, <1>9, SweepKept DEF TypeOK, Enqueue

LEMMA RouteOK ==
  ASSUME TypeOK, NEW t \in Threads, Route(t)
  PROVE  TypeOK'
<1> DEFINE r1 == [req[t] EXCEPT !.kind = registry[req[t].agent]]
           r2 == [req[t] EXCEPT !.disposition = "routed"]
<1>1. CASE req[t].agent \in DOMAIN registry
  <2>1. r1 \in Requests /\ r1.agent = req[t].agent /\ r1.agent \in Agents
    BY <1>1, RequestFields DEF Route, TypeOK, TablesOK, IsDict, Requests
  <2>2. Begin(t, "send_dial", r1)
    BY <1>1 DEF Route
  <2> QED
    BY <2>1, <2>2, BeginOK, TablesKept, SweepKept, HistoryKept
    DEF TypeOK, ThreadsOK, Route, PCs, SendPCs, history
<1>2. CASE req[t].agent \notin DOMAIN registry
  <2>1. r2 \in Requests
    BY RequestFields DEF Requests, Dispositions
  <2>2. Begin(t, "send_traffic", r2)
    BY <1>2 DEF Route
  <2> QED
    BY <2>1, <2>2, BeginOK, TablesKept, SweepKept, HistoryKept
    DEF TypeOK, ThreadsOK, Route, PCs, SendPCs, history
<1> QED
  BY <1>1, <1>2

LEMMA DialOK ==
  ASSUME TypeOK, NEW t \in Threads, Dial(t)
  PROVE  TypeOK'
<1> DEFINE r == [req[t] EXCEPT !.disposition = "routed"]
<1>1. r \in Requests
  BY RequestFields DEF Requests, Dispositions
<1>2. Begin(t, "send_traffic", r) \/ Begin(t, "idle", NoRequest)
  BY DEF Dial, Finish
<1>3. ThreadsOK'
  BY <1>1, <1>2, BeginOK, NoRequestOK DEF TypeOK, ThreadsOK, Dial, PCs, SendPCs
<1>4. HistoryOK'
  BY DEF TypeOK, HistoryOK, Dial
<1> QED
  BY <1>3, <1>4, TablesKept, SweepKept DEF TypeOK, Dial

\* The ring buffer never outgrows its size, 0 included.
LEMMA RingAppendBounded ==
  ASSUME NEW D, NEW buffer \in Seq(D), Len(buffer) <= TrafficSize, NEW d \in D
  PROVE  RingAppend(buffer, d) \in Seq(D) /\ Len(RingAppend(buffer, d)) <= TrafficSize
<1> DEFINE longer == Append(buffer, d)
<1>1. longer \in Seq(D) /\ Len(longer) = Len(buffer) + 1
  OBVIOUS
<1>2. longer # <<>>
  BY <1>1
<1>3. Tail(longer) \in Seq(D) /\ Len(Tail(longer)) = Len(buffer)
  BY <1>1, <1>2
<1> QED
  BY <1>1, <1>3, ConstantsAssumption DEF RingAppend

LEMMA RecordTrafficOK ==
  ASSUME TypeOK, NEW t \in Threads, RecordTraffic(t)
  PROVE  TypeOK'
<1>1. /\ traffic_buffer' \in Seq(Dispositions)
      /\ Len(traffic_buffer') <= TrafficSize
  BY RingAppendBounded, RequestFields DEF TypeOK, TablesOK, RecordTraffic
<1>2. TablesOK'
  BY <1>1 DEF TypeOK, TablesOK, RecordTraffic, IsDict
<1>3. ThreadsOK'
  BY BeginOK, NoRequestOK DEF TypeOK, ThreadsOK, RecordTraffic, Finish, PCs
<1> QED
  BY <1>2, <1>3, SweepKept, HistoryKept DEF TypeOK, RecordTraffic, history

LEMMA StartPollOK ==
  ASSUME TypeOK, NEW t \in Threads, NEW caller \in Callers, NEW a \in Agents,
         StartPoll(t, caller, a)
  PROVE  TypeOK'
<1> DEFINE r == [NoRequest EXCEPT !.caller = caller, !.agent = a]
           place == IF a \in DOMAIN mailboxes THEN "poll_heartbeat" ELSE "auto_registry"
<1>1. r \in Requests /\ r.agent = a
  BY DEF NoRequest, Requests, Callers, Kinds, Dispositions
<1>2. Begin(t, place, r) /\ place \in PCs
  BY DEF StartPoll, PCs, PollPCs
<1> HIDE DEF r, place
<1>3. ThreadsOK'
  BY <1>1, <1>2, BeginOK DEF TypeOK, ThreadsOK, StartPoll
<1> QED
  BY <1>3, TablesKept, SweepKept, HistoryKept DEF TypeOK, StartPoll, history

LEMMA AutoRegisterEndpointOK ==
  ASSUME TypeOK, NEW t \in Threads, AutoRegisterEndpoint(t)
  PROVE  TypeOK'
<1>1. req[t].agent \in Agents
  BY RequestFields DEF AutoRegisterEndpoint
<1>2. TablesOK'
  BY <1>1 DEF TypeOK, TablesOK, AutoRegisterEndpoint, IsDict, Put, Kinds
<1>3. ThreadsOK'
  BY GotoOK DEF TypeOK, AutoRegisterEndpoint, PCs, PollPCs
<1> QED
  BY <1>2, <1>3, SweepKept, HistoryKept DEF TypeOK, AutoRegisterEndpoint, history

LEMMA AutoRegisterMailboxOK ==
  ASSUME TypeOK, NEW t \in Threads, AutoRegisterMailbox(t)
  PROVE  TypeOK'
<1>1. TablesOK'
  BY NewMailboxOK, RequestFields DEF AutoRegisterMailbox
<1>2. ThreadsOK'
  BY GotoOK DEF TypeOK, AutoRegisterMailbox, PCs, PollPCs
<1> QED
  BY <1>1, <1>2, SweepKept, HistoryKept DEF TypeOK, AutoRegisterMailbox, history

LEMMA AutoRegisterCapabilitiesOK ==
  ASSUME TypeOK, NEW t \in Threads, AutoRegisterCapabilities(t)
  PROVE  TypeOK'
<1>1. TablesOK'
  BY RequestFields DEF TypeOK, TablesOK, AutoRegisterCapabilities, IsDict
<1>2. ThreadsOK'
  BY GotoOK DEF TypeOK, AutoRegisterCapabilities, PCs, PollPCs
<1> QED
  BY <1>1, <1>2, SweepKept, HistoryKept DEF TypeOK, AutoRegisterCapabilities, history

LEMMA AutoRegisterLeaseOK ==
  ASSUME TypeOK, NEW t \in Threads, AutoRegisterLease(t)
  PROVE  TypeOK'
<1>1. req[t].agent \in Agents
  BY RequestFields DEF AutoRegisterLease
<1>2. /\ IsDict(last_heartbeat', Agents, Nat)
      /\ DOMAIN last_heartbeat' = DOMAIN last_heartbeat \cup {req[t].agent}
  BY <1>1 DEF TypeOK, TablesOK, HistoryOK, AutoRegisterLease, IsDict, Put
<1>3. /\ IsDict(ttl_seconds', Agents, Nat)
      /\ DOMAIN ttl_seconds' = DOMAIN ttl_seconds \cup {req[t].agent}
  BY <1>1, ConstantsAssumption
  DEF TypeOK, TablesOK, AutoRegisterLease, IsDict, SetDefault, Put
<1>4. TablesOK'
  BY <1>2, <1>3 DEF TypeOK, TablesOK, AutoRegisterLease, IsDict
<1>5. ThreadsOK'
  BY GotoOK DEF TypeOK, AutoRegisterLease, PCs, PollPCs
<1> QED
  BY <1>4, <1>5, SweepKept, HistoryKept DEF TypeOK, AutoRegisterLease, history

LEMMA PollHeartbeatOK ==
  ASSUME TypeOK, NEW t \in Threads, PollHeartbeat(t)
  PROVE  TypeOK'
<1>1. req[t].agent \in Agents
  BY RequestFields DEF PollHeartbeat
<1>2. /\ IsDict(last_heartbeat', Agents, Nat)
      /\ DOMAIN last_heartbeat \subseteq DOMAIN last_heartbeat'
  BY <1>1 DEF TypeOK, TablesOK, HistoryOK, PollHeartbeat, IsDict, Put
<1>3. TablesOK'
  BY <1>2 DEF TypeOK, TablesOK, PollHeartbeat, IsDict
<1>4. ThreadsOK'
  BY GotoOK DEF TypeOK, PollHeartbeat, PCs, PollPCs
<1> QED
  BY <1>3, <1>4, SweepKept, HistoryKept DEF TypeOK, PollHeartbeat, history

LEMMA TakeAllOK ==
  ASSUME TypeOK, NEW t \in Threads, pc[t] \in {"poll_enter", "poll_wait"}, TakeAll(t)
  PROVE  TypeOK'
<1>1. req[t].agent \in Agents
  BY RequestFields
<1>2. IsDict(mailboxes', Agents, Seq(Nat)) /\ batch' \in [Threads -> Seq(Nat)]
  <2>1. CASE req[t].agent \in DOMAIN mailboxes
    <3>1. mailboxes[req[t].agent] \in Seq(Nat)
      BY <2>1 DEF TypeOK, TablesOK, IsDict
    <3>2. batch' \in [Threads -> Seq(Nat)]
      BY <2>1, <3>1 DEF TypeOK, ThreadsOK, TakeAll
    <3>3. mailboxes' = Put(mailboxes, req[t].agent, <<>>)
      BY <2>1 DEF TakeAll
    <3>4. IsDict(mailboxes', Agents, Seq(Nat))
      BY <1>1, <3>3 DEF TypeOK, TablesOK, IsDict, Put
    <3> QED
      BY <3>2, <3>4
  <2>2. CASE req[t].agent \notin DOMAIN mailboxes
    BY <2>2 DEF TypeOK, TablesOK, ThreadsOK, TakeAll, IsDict
  <2> QED
    BY <2>1, <2>2
<1>3. TablesOK'
  BY <1>2 DEF TypeOK, TablesOK, TakeAll, IsDict
<1>4. ThreadsOK'
  BY <1>2 DEF TypeOK, ThreadsOK, TakeAll, Goto, PCs, PollPCs
<1> QED
  BY <1>3, <1>4, SweepKept, HistoryKept DEF TypeOK, TakeAll, history

LEMMA PollEnterOK ==
  ASSUME TypeOK, NEW t \in Threads, PollEnter(t)
  PROVE  TypeOK'
<1>1. CASE TakeAll(t)
  BY <1>1, TakeAllOK DEF PollEnter
<1>2. CASE /\ Goto(t, "poll_wait")
           /\ UNCHANGED <<tables, req, batch, notified, sweep, clock, history>>
  BY <1>2, GotoOK, TablesKept, SweepKept, HistoryKept
  DEF TypeOK, PollEnter, PCs, PollPCs, history
<1> QED
  BY <1>1, <1>2 DEF PollEnter

LEMMA PollWakeOK ==
  ASSUME TypeOK, NEW t \in Threads, PollWake(t)
  PROVE  TypeOK'
<1>1. CASE TakeAll(t)
  BY <1>1, TakeAllOK DEF PollWake
<1>2. CASE /\ notified' = notified \ {t}
           /\ UNCHANGED <<tables, pc, req, batch, sweep, clock, history>>
  <2>1. ThreadsOK'
    BY <1>2 DEF TypeOK, ThreadsOK
  <2> QED
    BY <1>2, <2>1, TablesKept, SweepKept, HistoryKept DEF TypeOK, history
<1> QED
  BY <1>1, <1>2 DEF PollWake

LEMMA PollTimeoutOK ==
  ASSUME TypeOK, NEW t \in Threads, PollTimeout(t)
  PROVE  TypeOK'
BY TakeAllOK DEF PollTimeout

LEMMA PollReplyOK ==
  ASSUME TypeOK, NEW t \in Threads, PollReply(t)
  PROVE  TypeOK'
<1>1. Range(batch[t]) \subseteq Nat
  BY RangeOfNats DEF TypeOK, ThreadsOK
<1>2. req[t].agent \in Agents
  BY RequestFields DEF PollReply
<1>3. HistoryOK'
  BY <1>1, <1>2 DEF TypeOK, HistoryOK, PollReply
<1>4. ThreadsOK'
  BY NoRequestOK DEF TypeOK, ThreadsOK, PollReply, Finish, Begin, Goto, PCs
<1> QED
  BY <1>3, <1>4, TablesKept, SweepKept DEF TypeOK, PollReply

\* The steps of the sweep that only move the sweep thread.
LEMMA SweepMovesOK ==
  ASSUME TypeOK, SweepBegin \/ SweepSnapshot \/ SweepEnd \/ \E a \in Agents : SweepRead(a)
  PROVE  TypeOK'
<1>1. TablesOK' /\ ThreadsOK' /\ HistoryOK'
  BY TablesKept, ThreadsKept, HistoryKept
  DEF SweepBegin, SweepSnapshot, SweepEnd, SweepRead, history
<1>2. SweepOK'
  <2>1. CASE SweepBegin
    BY <2>1 DEF TypeOK, SweepOK, HistoryOK, SweepBegin, SweepPCs, IsDict
  <2>2. CASE SweepSnapshot
    BY <2>2 DEF TypeOK, SweepOK, TablesOK, SweepSnapshot, SweepPCs, IsDict
  <2>3. CASE SweepEnd
    BY <2>3 DEF TypeOK, SweepOK, SweepEnd, SweepIdle, SweepPCs, IsDict, EmptyDict
  <2>4. ASSUME NEW a \in Agents, SweepRead(a) PROVE SweepOK'
    <3>1. IsDict(Pop(sweep.todo, a), Agents, Kinds)
      BY PopIsDict DEF TypeOK, SweepOK
    <3>2. a \in Agents \cup {Nobody} /\ sweep.pc = "scan"
      BY <2>4 DEF SweepRead
    <3>3. \/ sweep' = [sweep EXCEPT !.pc = "evict_registry", !.agent = a,
                                    !.todo = Pop(sweep.todo, a)]
          \/ sweep' = [sweep EXCEPT !.todo = Pop(sweep.todo, a)]
      BY <2>4 DEF SweepRead
    <3> QED
      BY <2>4, <3>1, <3>2, <3>3 DEF TypeOK, SweepOK, SweepPCs
  <2> QED
    BY <2>1, <2>2, <2>3, <2>4
<1> QED
  BY <1>1, <1>2 DEF TypeOK

LEMMA EvictRegistryOK ==
  ASSUME TypeOK, EvictRegistry
  PROVE  TypeOK'
<1>1. TablesOK'
  BY DEF TypeOK, TablesOK, EvictRegistry, IsDict, Pop, Restrict
<1>2. SweepOK'
  BY DEF TypeOK, SweepOK, EvictRegistry, SweepPCs, IsDict
<1> QED
  BY <1>1, <1>2, HistoryKept, ThreadsKept DEF TypeOK, EvictRegistry, history

LEMMA EvictCapabilitiesOK ==
  ASSUME TypeOK, EvictCapabilities
  PROVE  TypeOK'
<1>1. TablesOK'
  BY DEF TypeOK, TablesOK, EvictCapabilities, IsDict
<1>2. SweepOK'
  BY DEF TypeOK, SweepOK, EvictCapabilities, SweepPCs, IsDict
<1> QED
  BY <1>1, <1>2, HistoryKept, ThreadsKept DEF TypeOK, EvictCapabilities, history

LEMMA EvictLeaseOK ==
  ASSUME TypeOK, EvictLease
  PROVE  TypeOK'
<1>1. TablesOK'
  BY DEF TypeOK, TablesOK, EvictLease, IsDict, Pop, Restrict
<1>2. SweepOK'
  BY DEF TypeOK, SweepOK, EvictLease, SweepPCs, IsDict
<1> QED
  BY <1>1, <1>2, HistoryKept, ThreadsKept DEF TypeOK, EvictLease, history

LEMMA EvictMailboxOK ==
  ASSUME TypeOK, EvictMailbox
  PROVE  TypeOK'
<1>1. TablesOK' /\ HistoryOK' /\ notified' \subseteq Threads
  BY PopMailboxOK DEF EvictMailbox
<1>2. SweepOK'
  BY DEF TypeOK, SweepOK, EvictMailbox, SweepPCs, IsDict
<1>3. ThreadsOK'
  BY <1>1 DEF TypeOK, ThreadsOK, EvictMailbox
<1> QED
  BY <1>1, <1>2, <1>3 DEF TypeOK

LEMMA TickOK ==
  ASSUME TypeOK, Tick
  PROVE  TypeOK'
<1>1. HistoryOK'
  BY DEF TypeOK, HistoryOK, Tick, history
<1> QED
  BY <1>1, TablesKept, SweepKept, ThreadsKept DEF TypeOK, Tick

LEMMA RestartOK ==
  ASSUME TypeOK, Restart
  PROVE  TypeOK'
<1>1. TablesOK'
  BY ConstantsAssumption DEF TypeOK, TablesOK, Restart, IsDict, EmptyDict
<1>2. ThreadsOK'
  BY NoRequestOK DEF TypeOK, ThreadsOK, Restart, PCs
<1>3. SweepOK'
  BY DEF SweepOK, Restart, SweepIdle, SweepPCs, IsDict, EmptyDict
<1>4. /\ \A a \in DOMAIN mailboxes : Range(mailboxes[a]) \subseteq Nat
      /\ \A t \in Threads : Range(batch[t]) \subseteq Nat
  BY RangeOfNats DEF TypeOK, TablesOK, ThreadsOK, IsDict
<1>5. HistoryOK'
  <2>1. InQueues \subseteq Nat /\ InBatches \subseteq Nat
    BY <1>4 DEF InQueues, InBatches
  <2>2. lost' = lost \cup InQueues \cup InBatches
    BY DEF Restart
  <2>3. lost' \subseteq Nat
    BY <2>1, <2>2 DEF TypeOK, HistoryOK
  <2> QED
    BY <2>3 DEF TypeOK, HistoryOK, Restart
<1> QED
  BY <1>1, <1>2, <1>3, <1>5 DEF TypeOK

LEMMA InitOK ==
  ASSUME Init
  PROVE  TypeOK
<1>1. TablesOK
  BY ConstantsAssumption DEF Init, TablesOK, IsDict, EmptyDict
<1>2. ThreadsOK
  BY NoRequestOK DEF Init, ThreadsOK, PCs
<1>3. SweepOK
  BY DEF Init, SweepOK, SweepIdle, SweepPCs, IsDict, EmptyDict
<1>4. HistoryOK
  BY DEF Init, HistoryOK
<1> QED
  BY <1>1, <1>2, <1>3, <1>4 DEF TypeOK

LEMMA StartRequestOK ==
  ASSUME TypeOK, NEW t \in Threads, StartRequest(t)
  PROVE  TypeOK'
BY StartRegisterOK, StartDeregisterOK, StartSendOK, StartPollOK DEF StartRequest

LEMMA HandlerStepOK ==
  ASSUME TypeOK, NEW t \in Threads, HandlerStep(t)
  PROVE  TypeOK'
BY RegisterEndpointOK, RegisterMailboxOK, RegisterCapabilitiesOK, RegisterLeaseOK,
   DeregisterCapabilitiesOK, DeregisterLeaseOK, DeregisterMailboxOK,
   EnqueueOK, RouteOK, DialOK, RecordTrafficOK,
   AutoRegisterEndpointOK, AutoRegisterMailboxOK, AutoRegisterCapabilitiesOK,
   AutoRegisterLeaseOK, PollHeartbeatOK, PollEnterOK, PollWakeOK, PollReplyOK
DEF HandlerStep

LEMMA SweepStepOK ==
  ASSUME TypeOK, SweepStep
  PROVE  TypeOK'
BY SweepMovesOK, EvictRegistryOK, EvictCapabilitiesOK, EvictLeaseOK, EvictMailboxOK
DEF SweepStep

\* Every step of the broker, and the steps of nobody, keep the tables, the
\* threads and the sweep well typed.
LEMMA NextOK ==
  ASSUME TypeOK, [Next]_vars
  PROVE  TypeOK'
<1>1. CASE \E t \in Threads : StartRequest(t) \/ HandlerStep(t) \/ PollTimeout(t)
  BY <1>1, StartRequestOK, HandlerStepOK, PollTimeoutOK
<1>2. CASE SweepStep
  BY <1>2, SweepStepOK
<1>3. CASE Tick
  BY <1>3, TickOK
<1>4. CASE Restart
  BY <1>4, RestartOK
<1>5. CASE UNCHANGED vars
  BY <1>5, TablesKept, ThreadsKept, SweepKept, HistoryKept DEF TypeOK, vars, history
<1> QED
  BY <1>1, <1>2, <1>3, <1>4, <1>5 DEF Next

\* The broker's tables are well typed at every point of every interleaving: in
\* particular no ttl outlives its heartbeat and the traffic buffer is bounded.
THEOREM TypeCorrect == Spec => []TypeOK
<1>1. Init => TypeOK
  BY InitOK
<1>2. TypeOK /\ [Next]_vars => TypeOK'
  BY NextOK
<1> QED
  BY <1>1, <1>2, PTL DEF Spec

-----------------------------------------------------------------------------
(* No lost wakeup.  The invariant is inductive over typed states: a thread *)
(* starts to wait only on an empty mailbox, and the only sections that put *)
(* something into a mailbox or remove one notify every waiting thread.     *)

IInv == TypeOK /\ NoStarvedWaiter

\* A thread goes to a place where it does not wait; at most an empty mailbox
\* appears, nobody is notified.
LEMMA MoveKeepsWaiters ==
  ASSUME IInv, NEW t \in Threads, NEW place, place # "poll_wait", Goto(t, place),
         \A u \in Threads \ {t} : req'[u] = req[u], notified' = notified, NEW a,
         mailboxes' \in {mailboxes, SetDefault(mailboxes, a, <<>>)}
  PROVE  NoStarvedWaiter'
<1> SUFFICES ASSUME NEW u \in Threads, pc'[u] = "poll_wait", u \notin notified'
             PROVE  NothingYet(req[u].agent)' /\ u # t
  BY DEF IInv, TypeOK, ThreadsOK, Goto, NoStarvedWaiter, NothingYet
<1>1. u # t /\ pc[u] = "poll_wait" /\ u \notin notified
  BY DEF IInv, TypeOK, ThreadsOK, Goto
<1>2. NothingYet(req[u].agent) /\ req'[u] = req[u]
  BY <1>1 DEF IInv, NoStarvedWaiter
<1> QED
  BY <1>1, <1>2 DEF NothingYet, SetDefault, Put

\* After notify_all no waiting thread is left out.
LEMMA NotifyAllKeepsWaiters ==
  ASSUME IInv, NEW t \in Threads, NEW place, place # "poll_wait", Goto(t, place),
         notified' = Waiting
  PROVE  NoStarvedWaiter'
BY DEF IInv, TypeOK, ThreadsOK, Goto, NoStarvedWaiter, Waiting

\* Draining a mailbox leaves it empty, so nobody who waits for it is starved.
LEMMA TakeAllKeepsWaiters ==
  ASSUME IInv, NEW t \in Threads, TakeAll(t)
  PROVE  NoStarvedWaiter'
<1> SUFFICES ASSUME NEW u \in Threads, pc'[u] = "poll_wait", u \notin notified'
             PROVE  NothingYet(req[u].agent)'
  BY DEF NoStarvedWaiter
<1>1. u # t /\ pc[u] = "poll_wait" /\ u \notin notified /\ req' = req
  BY DEF IInv, TypeOK, ThreadsOK, TakeAll, Goto
<1>2. NothingYet(req[u].agent)
  BY <1>1 DEF IInv, NoStarvedWaiter
<1> QED
  BY <1>1, <1>2 DEF NothingYet, TakeAll, Put

\* A request begins on an idle thread, and not with a wait.
LEMMA StartBegins ==
  ASSUME TypeOK, NEW t \in Threads, StartRequest(t)
  PROVE  /\ pc[t] = "idle" /\ \A u \in Threads \ {t} : req'[u] = req[u]
         /\ \E place : place # "poll_wait" /\ Goto(t, place)
<1>1. PICK caller \in Callers, a \in Agents :
        \/ \E kind \in Kinds, ttl \in Ttls \cup {NotGiven} : StartRegister(t, caller, a, kind, ttl)
        \/ StartDeregister(t, caller, a)
        \/ \E recipient \in Agents \cup {Nobody} : StartSend(t, caller, a, recipient)
        \/ StartPoll(t, caller, a)
  BY DEF StartRequest
<1>2. pc[t] = "idle"
  BY <1>1 DEF StartRegister, StartDeregister, StartSend, StartPoll
<1>3. PICK place, r : place # "poll_wait" /\ Begin(t, place, r)
  <2>1. ASSUME NEW kind \in Kinds, NEW ttl \in Ttls \cup {NotGiven},
               StartRegister(t, caller, a, kind, ttl)
        PROVE  \E r : Begin(t, "reg_registry", r)
    BY <2>1 DEF StartRegister
  <2>2. StartDeregister(t, caller, a) => \E r : Begin(t, "dereg_capabilities", r)
    BY DEF StartDeregister
  <2>3. ASSUME NEW recipient \in Agents \cup {Nobody}, StartSend(t, caller, a, recipient)
        PROVE  \E place \in {"send_traffic", "send_enqueue", "send_route"} :
                 \E r : Begin(t, place, r)
    BY <2>3 DEF StartSend
  <2>4. StartPoll(t, caller, a)
          => \E place \in {"poll_heartbeat", "auto_registry"} : \E r : Begin(t, place, r)
    BY DEF StartPoll
  <2> QED
    BY <1>1, <2>1, <2>2, <2>3, <2>4
<1> QED
  BY <1>2, <1>3 DEF TypeOK, ThreadsOK, Begin

LEMMA StartKeepsWaiters ==
  ASSUME IInv, NEW t \in Threads, StartRequest(t)
  PROVE  NoStarvedWaiter'
<1>1. PICK place : place # "poll_wait" /\ Goto(t, place)
  BY StartBegins DEF IInv
<1>2. \A u \in Threads \ {t} : req'[u] = req[u]
  BY StartBegins DEF IInv
<1>3. notified' = notified /\ mailboxes' = mailboxes
  BY DEF StartRequest, StartRegister, StartDeregister, StartSend, StartPoll, tables
<1> QED
  BY <1>1, <1>2, <1>3, MoveKeepsWaiters

LEMMA RegisterKeepsWaiters ==
  ASSUME IInv, NEW t \in Threads,
         \/ RegisterEndpoint(t) \/ RegisterMailbox(t)
         \/ RegisterCapabilities(t) \/ RegisterLease(t)
  PROVE  NoStarvedWaiter'
<1>1. PICK place : place # "poll_wait" /\ Goto(t, place)
  BY DEF RegisterEndpoint, RegisterMailbox, RegisterCapabilities, RegisterLease,
         Finish, Begin
<1>2. \A u \in Threads \ {t} : req'[u] = req[u]
  BY DEF IInv, TypeOK, ThreadsOK, RegisterEndpoint, RegisterMailbox,
         RegisterCapabilities, RegisterLease, Finish, Begin
<1>3. /\ notified' = notified
      /\ mailboxes' \in {mailboxes, SetDefault(mailboxes, req[t].agent, <<>>)}
  BY DEF RegisterEndpoint, RegisterMailbox, RegisterCapabilities, RegisterLease
<1> QED
  BY <1>1, <1>2, <1>3, MoveKeepsWaiters

LEMMA DeregisterKeepsWaiters ==
  ASSUME IInv, NEW t \in Threads,
         DeregisterCapabilities(t) \/ DeregisterLease(t) \/ DeregisterMailbox(t)
  PROVE  NoStarvedWaiter'
<1>1. CASE DeregisterMailbox(t)
  BY <1>1, NotifyAllKeepsWaiters DEF DeregisterMailbox, PopMailbox, Finish, Begin
<1>2. CASE DeregisterCapabilities(t) \/ DeregisterLease(t)
  <2>1. PICK place : place # "poll_wait" /\ Goto(t, place)
    BY <1>2 DEF DeregisterCapabilities, DeregisterLease
  <2>2. req' = req /\ notified' = notified /\ mailboxes' = mailboxes
    BY <1>2 DEF DeregisterCapabilities, DeregisterLease
  <2> QED
    BY <2>1, <2>2, MoveKeepsWaiters
<1> QED
  BY <1>1, <1>2

LEMMA SendKeepsWaiters ==
  ASSUME IInv, NEW t \in Threads,
         Enqueue(t) \/ Route(t) \/ Dial(t) \/ RecordTraffic(t)
  PROVE  NoStarvedWaiter'
<1>1. CASE Enqueue(t)
  BY <1>1, NotifyAllKeepsWaiters DEF Enqueue, Begin
<1>2. CASE Route(t) \/ Dial(t) \/ RecordTraffic(t)
  <2>1. PICK place : place # "poll_wait" /\ Goto(t, place)
    BY <1>2 DEF Route, Dial, RecordTraffic, Finish, Begin
  <2>2. \A u \in Threads \ {t} : req'[u] = req[u]
    BY <1>2 DEF IInv, TypeOK, ThreadsOK, Route, Dial, RecordTraffic, Finish, Begin
  <2>3. notified' = notified /\ mailboxes' = mailboxes
    BY <1>2 DEF Route, Dial, RecordTraffic, tables
  <2> QED
    BY <2>1, <2>2, <2>3, MoveKeepsWaiters
<1> QED
  BY <1>1, <1>2

\* The poll up to its first look into the mailbox, and the reply.
LEMMA PollMoveKeepsWaiters ==
  ASSUME IInv, NEW t \in Threads,
         \/ AutoRegisterEndpoint(t) \/ AutoRegisterMailbox(t)
         \/ AutoRegisterCapabilities(t) \/ AutoRegisterLease(t)
         \/ PollHeartbeat(t) \/ PollReply(t)
  PROVE  NoStarvedWaiter'
<1>1. PICK place : place # "poll_wait" /\ Goto(t, place)
  BY DEF AutoRegisterEndpoint, AutoRegisterMailbox, AutoRegisterCapabilities,
         AutoRegisterLease, PollHeartbeat, PollReply, Finish, Begin
<1>2. \A u \in Threads \ {t} : req'[u] = req[u]
  BY DEF IInv, TypeOK, ThreadsOK, AutoRegisterEndpoint, AutoRegisterMailbox,
         AutoRegisterCapabilities, AutoRegisterLease, PollHeartbeat, PollReply,
         Finish, Begin
<1>3. /\ notified' = notified
      /\ mailboxes' \in {mailboxes, SetDefault(mailboxes, req[t].agent, <<>>)}
  BY DEF AutoRegisterEndpoint, AutoRegisterMailbox, AutoRegisterCapabilities,
         AutoRegisterLease, PollHeartbeat, PollReply, tables
<1> QED
  BY <1>1, <1>2, <1>3, MoveKeepsWaiters

\* A poll goes to sleep, or back to sleep, only in front of an empty mailbox.
LEMMA PollWaitKeepsWaiters ==
  ASSUME IInv, NEW t \in Threads, PollEnter(t) \/ PollWake(t) \/ PollTimeout(t)
  PROVE  NoStarvedWaiter'
<1>1. CASE TakeAll(t)
  BY <1>1, TakeAllKeepsWaiters
<1>2. CASE /\ NothingYet(req[t].agent)
           /\ Goto(t, "poll_wait")
           /\ UNCHANGED <<tables, req, batch, notified, sweep, clock, history>>
  BY <1>2 DEF IInv, TypeOK, ThreadsOK, Goto, NoStarvedWaiter, NothingYet, tables
<1>3. CASE /\ NothingYet(req[t].agent)
           /\ notified' = notified \ {t}
           /\ UNCHANGED <<tables, pc, req, batch, sweep, clock, history>>
  BY <1>3 DEF IInv, NoStarvedWaiter, NothingYet, tables
<1> QED
  BY <1>1, <1>2, <1>3 DEF PollEnter, PollWake, PollTimeout

LEMMA SweepKeepsWaiters ==
  ASSUME IInv, SweepStep
  PROVE  NoStarvedWaiter'
<1>1. CASE EvictMailbox
  BY <1>1 DEF NoStarvedWaiter, EvictMailbox, PopMailbox, Waiting
<1>2. CASE ~EvictMailbox
  <2>1. UNCHANGED <<mailboxes, pc, req, notified>>
    BY <1>2 DEF SweepStep, SweepBegin, SweepSnapshot, SweepRead, SweepEnd,
                EvictRegistry, EvictCapabilities, EvictLease, tables, threads
  <2> QED
    BY <2>1 DEF IInv, NoStarvedWaiter, NothingYet
<1> QED
  BY <1>1, <1>2

\* No interleaving of requests, evictions and restarts leaves a poll asleep
\* while its mailbox holds a message or has gone: no message waits for a poll's
\* deadline, and no poll of an evicted agent sleeps through its eviction.
THEOREM NoLostWakeup == Spec => []NoStarvedWaiter
<1>1. Init => IInv
  BY InitOK DEF Init, IInv, NoStarvedWaiter
<1>2. IInv /\ [Next]_vars => IInv'
  <2> SUFFICES ASSUME IInv, [Next]_vars
               PROVE  NoStarvedWaiter'
    BY NextOK DEF IInv
  <2>1. ASSUME NEW t \in Threads, StartRequest(t) PROVE NoStarvedWaiter'
    BY <2>1, StartKeepsWaiters
  <2>2. ASSUME NEW t \in Threads, HandlerStep(t) \/ PollTimeout(t)
        PROVE  NoStarvedWaiter'
    BY <2>2, RegisterKeepsWaiters, DeregisterKeepsWaiters, SendKeepsWaiters,
       PollMoveKeepsWaiters, PollWaitKeepsWaiters DEF HandlerStep
  <2>3. CASE SweepStep
    BY <2>3, SweepKeepsWaiters
  <2>4. CASE Tick \/ UNCHANGED vars
    BY <2>4 DEF Tick, vars, tables, threads, IInv, NoStarvedWaiter, NothingYet
  <2>5. CASE Restart
    BY <2>5 DEF Restart, NoStarvedWaiter
  <2> QED
    BY <2>1, <2>2, <2>3, <2>4, <2>5 DEF Next
<1>3. IInv => NoStarvedWaiter
  BY DEF IInv
<1> QED
  BY <1>1, <1>2, <1>3, PTL DEF Spec

=============================================================================
