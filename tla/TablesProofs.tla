---------------------------- MODULE TablesProofs ----------------------------
(***************************************************************************)
(* Proofs about the tables of Broker, for any agents and threads: tokens   *)
(* keep requests to their own agent, however they overlap; every answered  *)
(* send is on record; and the tables agree between requests unless two     *)
(* changes of one agent overlap.                                           *)
(***************************************************************************)
EXTENDS BrokerProofs, FiniteSetTheorems, SequenceTheorems

-----------------------------------------------------------------------------
(* Tokens.                                                                 *)

\* With tokens, whatever a thread does to tables and clients concerns the
\* agent of its token; sends, which name another agent, touch queues only.
Touching(t) == pc[t] \notin {"idle"} \cup SendPCs
OwnAgent == \A t \in Threads : Touching(t) => req[t].agent = req[t].caller

TInv == TypeOK /\ OwnAgent

LEMMA TokenPermits ==
  ASSUME AuthEnabled, NEW caller \in Callers, NEW a \in Agents, Permitted(caller, a)
  PROVE  caller = a
BY ConstantsAssumption DEF Callers, Permitted

\* A request goes on, ends, begins, or is a send.
LEMMA MoveKeepsOwn ==
  ASSUME TInv, NEW t \in Threads, NEW place, Goto(t, place),
         \/ Touching(t) /\ req' = req
         \/ /\ place \in {"idle"} \cup SendPCs \/ req'[t].agent = req'[t].caller
            /\ \A u \in Threads \ {t} : req'[u] = req[u]
  PROVE  OwnAgent'
BY DEF TInv, TypeOK, ThreadsOK, OwnAgent, Touching, Goto

LEMMA BeginKeepsOwn ==
  ASSUME TInv, NEW t \in Threads, NEW place, NEW r, Begin(t, place, r),
         place \in {"idle"} \cup SendPCs \/ r.agent = r.caller
  PROVE  OwnAgent'
<1>1. req'[t] = r /\ \A u \in Threads \ {t} : req'[u] = req[u]
  BY DEF TInv, TypeOK, ThreadsOK, Begin
<1> QED
  BY <1>1, MoveKeepsOwn DEF Begin

LEMMA StartKeepsOwn ==
  ASSUME AuthEnabled, TInv, NEW t \in Threads, StartRequest(t)
  PROVE  OwnAgent'
<1>1. PICK caller \in Callers, a \in Agents :
        \/ \E kind \in Kinds, ttl \in Ttls \cup {NotGiven} : StartRegister(t, caller, a, kind, ttl)
        \/ StartDeregister(t, caller, a)
        \/ \E recipient \in Agents \cup {Nobody} : StartSend(t, caller, a, recipient)
        \/ StartPoll(t, caller, a)
  BY DEF StartRequest
<1>2. ASSUME NEW kind \in Kinds, NEW ttl \in Ttls \cup {NotGiven}, StartRegister(t, caller, a, kind, ttl)
      PROVE  OwnAgent'
  <2> DEFINE r == [NoRequest EXCEPT !.caller = caller, !.agent = a, !.kind = kind,
                                    !.ttl = ttl, !.isNew = a \notin DOMAIN registry]
  <2>1. r.agent = r.caller
    BY <1>2, TokenPermits DEF NoRequest, StartRegister
  <2>2. Begin(t, "reg_registry", r)
    BY <1>2 DEF StartRegister
  <2> HIDE DEF r
  <2> QED
    BY <2>1, <2>2, BeginKeepsOwn
<1>3. ASSUME StartDeregister(t, caller, a) \/ StartPoll(t, caller, a)
      PROVE  OwnAgent'
  <2> DEFINE r == [NoRequest EXCEPT !.caller = caller, !.agent = a]
  <2>1. r.agent = r.caller
    BY <1>3, TokenPermits DEF NoRequest, StartDeregister, StartPoll
  <2>2. \E place : Begin(t, place, r)
    BY <1>3 DEF StartDeregister, StartPoll
  <2> HIDE DEF r
  <2> QED
    BY <2>1, <2>2, BeginKeepsOwn
<1>4. ASSUME NEW recipient \in Agents \cup {Nobody}, StartSend(t, caller, a, recipient)
      PROVE  OwnAgent'
  <2>1. \E place \in SendPCs : \E r : Begin(t, place, r)
    BY <1>4 DEF StartSend, SendPCs
  <2> QED
    BY <2>1, BeginKeepsOwn
<1> QED
  BY <1>1, <1>2, <1>3, <1>4

LEMMA HandlerKeepsOwn ==
  ASSUME TInv, NEW t \in Threads, HandlerStep(t) \/ PollTimeout(t)
  PROVE  OwnAgent'
<1> USE DEF Touching, SendPCs
<1>1. CASE \/ RegisterEndpoint(t) \/ RegisterMailbox(t) \/ RegisterCapabilities(t)
           \/ DeregisterCapabilities(t) \/ DeregisterLease(t)
           \/ AutoRegisterEndpoint(t) \/ AutoRegisterMailbox(t)
           \/ AutoRegisterCapabilities(t) \/ AutoRegisterLease(t) \/ PollHeartbeat(t)
  <2>1. Touching(t) /\ req' = req
    BY <1>1 DEF RegisterEndpoint, RegisterMailbox, RegisterCapabilities, DeregisterCapabilities,
                DeregisterLease, AutoRegisterEndpoint, AutoRegisterMailbox,
                AutoRegisterCapabilities, AutoRegisterLease, PollHeartbeat
  <2>2. \E place : Goto(t, place)
    BY <1>1 DEF RegisterEndpoint, RegisterMailbox, RegisterCapabilities, DeregisterCapabilities,
                DeregisterLease, AutoRegisterEndpoint, AutoRegisterMailbox,
                AutoRegisterCapabilities, AutoRegisterLease, PollHeartbeat
  <2> QED
    BY <2>1, <2>2, MoveKeepsOwn
<1>2. CASE RegisterLease(t) \/ DeregisterMailbox(t) \/ RecordTraffic(t) \/ PollReply(t)
  BY <1>2, BeginKeepsOwn DEF RegisterLease, DeregisterMailbox, RecordTraffic, PollReply, Finish
<1>3. CASE Enqueue(t) \/ Route(t) \/ Dial(t)
  <2>1. \E place \in SendPCs \cup {"idle"} : \E r : Begin(t, place, r)
    BY <1>3 DEF Enqueue, Route, Dial, Finish
  <2> QED
    BY <2>1, BeginKeepsOwn
<1>4. CASE PollEnter(t) \/ PollWake(t) \/ PollTimeout(t)
  <2>1. Touching(t) /\ req' = req
    BY <1>4 DEF PollEnter, PollWake, PollTimeout, TakeAll
  <2>2. pc' = pc \/ \E place : Goto(t, place)
    BY <1>4 DEF PollEnter, PollWake, PollTimeout, TakeAll
  <2>3. pc' = pc => OwnAgent'
    BY <2>1 DEF TInv, OwnAgent
  <2> QED
    BY <2>1, <2>2, <2>3, MoveKeepsOwn
<1> QED
  BY <1>1, <1>2, <1>3, <1>4 DEF HandlerStep

LEMMA NextKeepsOwn ==
  ASSUME AuthEnabled, TInv, [Next]_vars
  PROVE  OwnAgent'
<1>1. CASE UNCHANGED <<pc, req>>
  BY <1>1 DEF TInv, OwnAgent, Touching
<1>2. CASE SweepStep \/ Tick
  <2>1. UNCHANGED <<pc, req>>
    BY <1>2 DEF SweepStep, SweepBegin, SweepSnapshot, SweepRead, SweepEnd, EvictRegistry,
                EvictCapabilities, EvictLease, EvictMailbox, Tick, threads
  <2> QED
    BY <1>1, <2>1
<1>3. CASE Restart
  BY <1>3 DEF Restart, OwnAgent, Touching
<1> QED
  BY <1>1, <1>2, <1>3, StartKeepsOwn, HandlerKeepsOwn DEF Next, vars, threads

\* What dict d and its successor e hold for agent a is the same.
SameAt(d, e, a) == (a \in DOMAIN e <=> a \in DOMAIN d) /\ (a \in DOMAIN d => e[a] = d[a])

LEMMA OthersInDict ==
  ASSUME NEW d, NEW a, NEW b, a # b
  PROVE  /\ SameAt(d, d, a)
         /\ \A v : SameAt(d, Put(d, b, v), a) /\ SameAt(d, SetDefault(d, b, v), a)
         /\ SameAt(d, Pop(d, b), a)
BY DEF SameAt, Put, SetDefault, Pop, Restrict

\* A step that changes nothing of agent a that a token protects.
Untouched(a) ==
  /\ RegistrationOf(a)' = RegistrationOf(a)
  /\ a \in DOMAIN mailboxes => a \in DOMAIN mailboxes'
  /\ received'[a] = received[a]

LEMMA RegistrationKept ==
  ASSUME NEW a, SameAt(registry, registry', a), a \in capabilities' <=> a \in capabilities,
         SameAt(last_heartbeat, last_heartbeat', a), SameAt(ttl_seconds, ttl_seconds', a)
  PROVE  RegistrationOf(a)' = RegistrationOf(a)
<1>1. (a \in DOMAIN registry' /\ registry'[a] = "mailbox")
        = (a \in DOMAIN registry /\ registry[a] = "mailbox")
  BY DEF SameAt
<1>2. (a \in DOMAIN registry') = (a \in DOMAIN registry) /\ (a \in capabilities') = (a \in capabilities)
  BY DEF SameAt
<1>3. (IF a \in DOMAIN last_heartbeat' THEN last_heartbeat'[a] ELSE NotGiven)
        = (IF a \in DOMAIN last_heartbeat THEN last_heartbeat[a] ELSE NotGiven)
  BY DEF SameAt
<1>4. (IF a \in DOMAIN ttl_seconds' THEN ttl_seconds'[a] ELSE NotGiven)
        = (IF a \in DOMAIN ttl_seconds THEN ttl_seconds[a] ELSE NotGiven)
  BY DEF SameAt
<1> QED
  BY <1>1, <1>2, <1>3, <1>4, Zenon DEF RegistrationOf

LEMMA NothingTouched ==
  ASSUME NEW a,
         UNCHANGED <<registry, capabilities, last_heartbeat, ttl_seconds, received>>,
         a \in DOMAIN mailboxes => a \in DOMAIN mailboxes'
  PROVE  Untouched(a)
BY DEF Untouched, RegistrationOf

\* A handler touches its own agent only, and goes on to another place.
LEMMA HandlerTouches ==
  ASSUME TypeOK, NEW t \in Threads, HandlerStep(t) \/ PollTimeout(t), NEW a \in Agents
  PROVE  Untouched(a) \/ (Touching(t) /\ pc'[t] # pc[t] /\ a = req[t].agent)
<1> DEFINE b == req[t].agent
<1>1. pc \in [Threads -> PCs] /\ IsDict(mailboxes, Agents, Seq(Nat)) /\ received \in [Agents -> SUBSET Nat]
  BY DEF TypeOK, ThreadsOK, TablesOK, HistoryOK
<1>2. ASSUME \/ RegisterEndpoint(t) \/ RegisterCapabilities(t) \/ RegisterLease(t)
             \/ DeregisterCapabilities(t) \/ DeregisterLease(t)
             \/ AutoRegisterEndpoint(t) \/ AutoRegisterCapabilities(t) \/ AutoRegisterLease(t)
             \/ PollHeartbeat(t),
             a # b
      PROVE  Untouched(a)
  <2>1. SameAt(registry, registry', a)
    BY <1>2, OthersInDict DEF RegisterEndpoint, RegisterCapabilities, RegisterLease,
       DeregisterCapabilities, DeregisterLease, AutoRegisterEndpoint, AutoRegisterCapabilities,
       AutoRegisterLease, PollHeartbeat
  <2>2. SameAt(last_heartbeat, last_heartbeat', a)
    BY <1>2, OthersInDict DEF RegisterEndpoint, RegisterCapabilities, RegisterLease,
       DeregisterCapabilities, DeregisterLease, AutoRegisterEndpoint, AutoRegisterCapabilities,
       AutoRegisterLease, PollHeartbeat
  <2>3. SameAt(ttl_seconds, ttl_seconds', a)
    BY <1>2, OthersInDict DEF RegisterEndpoint, RegisterCapabilities, RegisterLease,
       DeregisterCapabilities, DeregisterLease, AutoRegisterEndpoint, AutoRegisterCapabilities,
       AutoRegisterLease, PollHeartbeat
  <2>4. a \in capabilities' <=> a \in capabilities
    BY <1>2 DEF RegisterEndpoint, RegisterCapabilities, RegisterLease,
       DeregisterCapabilities, DeregisterLease, AutoRegisterEndpoint, AutoRegisterCapabilities,
       AutoRegisterLease, PollHeartbeat
  <2>5. mailboxes' = mailboxes /\ received' = received
    BY <1>2 DEF RegisterEndpoint, RegisterCapabilities, RegisterLease,
       DeregisterCapabilities, DeregisterLease, AutoRegisterEndpoint, AutoRegisterCapabilities,
       AutoRegisterLease, PollHeartbeat, history
  <2> QED
    BY <2>1, <2>2, <2>3, <2>4, <2>5, RegistrationKept DEF Untouched
<1>3. ASSUME \/ RegisterEndpoint(t) \/ RegisterCapabilities(t) \/ RegisterLease(t)
             \/ DeregisterCapabilities(t) \/ DeregisterLease(t) \/ DeregisterMailbox(t)
             \/ AutoRegisterEndpoint(t) \/ AutoRegisterCapabilities(t) \/ AutoRegisterLease(t)
             \/ PollHeartbeat(t) \/ PollReply(t)
      PROVE  Touching(t) /\ pc'[t] # pc[t]
  BY <1>1, <1>3 DEF RegisterEndpoint, RegisterCapabilities, RegisterLease,
     DeregisterCapabilities, DeregisterLease, DeregisterMailbox, AutoRegisterEndpoint,
     AutoRegisterCapabilities, AutoRegisterLease, PollHeartbeat, PollReply, Touching, SendPCs, Goto,
     Begin, Finish
<1>4. ASSUME DeregisterMailbox(t), a # b
      PROVE  Untouched(a)
  <2>1. SameAt(mailboxes, mailboxes', a)
    BY <1>4, OthersInDict DEF DeregisterMailbox, PopMailbox
  <2> QED
    BY <1>4, <2>1, NothingTouched DEF DeregisterMailbox, SameAt
<1>5. ASSUME PollReply(t), a # b
      PROVE  Untouched(a)
  <2>1. received'[a] = received[a]
    BY <1>1, <1>5 DEF PollReply
  <2> QED
    BY <1>5, <2>1 DEF PollReply, tables, Untouched, RegistrationOf
<1>6. ASSUME RegisterMailbox(t) \/ AutoRegisterMailbox(t)
      PROVE  Untouched(a)
  <2>1. mailboxes' = SetDefault(mailboxes, b, <<>>)
    BY <1>6 DEF RegisterMailbox, AutoRegisterMailbox
  <2>2. a \in DOMAIN mailboxes => a \in DOMAIN mailboxes'
    BY <2>1 DEF SetDefault, Put
  <2> QED
    BY <1>6, <2>2, NothingTouched DEF RegisterMailbox, AutoRegisterMailbox, history
<1>7. ASSUME Enqueue(t)
      PROVE  Untouched(a)
  <2>1. a \in DOMAIN mailboxes => a \in DOMAIN mailboxes'
    BY <1>7 DEF Enqueue, SetDefault, Put
  <2> QED
    BY <1>7, <2>1, NothingTouched DEF Enqueue
<1>8. ASSUME PollEnter(t) \/ PollWake(t) \/ PollTimeout(t)
      PROVE  Untouched(a)
  <2>1. a \in DOMAIN mailboxes => a \in DOMAIN mailboxes'
    BY <1>8 DEF PollEnter, PollWake, PollTimeout, TakeAll, Put, tables
  <2> QED
    BY <1>8, <2>1, NothingTouched DEF PollEnter, PollWake, PollTimeout, TakeAll, tables, history
<1>9. ASSUME Route(t) \/ Dial(t) \/ RecordTraffic(t)
      PROVE  Untouched(a)
  BY <1>9, NothingTouched DEF Route, Dial, RecordTraffic, tables, history
<1> QED
  BY <1>2, <1>3, <1>4, <1>5, <1>6, <1>7, <1>8, <1>9 DEF HandlerStep

\* Of the beginnings of requests, a deregistration touches an agent.
LEMMA StartTouches ==
  ASSUME AuthEnabled, TypeOK, NEW t \in Threads, StartRequest(t), NEW a \in Agents
  PROVE  Untouched(a) \/ (pc'[t] # pc[t] /\ a = req'[t].caller)
<1>1. PICK caller \in Callers, b \in Agents :
        \/ \E kind \in Kinds, ttl \in Ttls \cup {NotGiven} : StartRegister(t, caller, b, kind, ttl)
        \/ StartDeregister(t, caller, b)
        \/ \E recipient \in Agents \cup {Nobody} : StartSend(t, caller, b, recipient)
        \/ StartPoll(t, caller, b)
  BY DEF StartRequest
<1>2. CASE StartDeregister(t, caller, b)
  <2>1. pc'[t] # pc[t] /\ req'[t].caller = b
    BY <1>2, TokenPermits DEF TypeOK, ThreadsOK, StartDeregister, Begin, Goto, NoRequest
  <2>2. ASSUME a # b
        PROVE  Untouched(a)
    <3>1. SameAt(registry, registry', a)
      BY <1>2, <2>2, OthersInDict DEF StartDeregister
    <3>2. SameAt(last_heartbeat, last_heartbeat', a) /\ SameAt(ttl_seconds, ttl_seconds', a)
      BY <1>2 DEF StartDeregister, SameAt
    <3> QED
      BY <1>2, <3>1, <3>2, RegistrationKept DEF StartDeregister, Untouched, history
  <2> QED
    BY <2>1, <2>2
<1>3. CASE \/ \E kind \in Kinds, ttl \in Ttls \cup {NotGiven} : StartRegister(t, caller, b, kind, ttl)
           \/ \E recipient \in Agents \cup {Nobody} : StartSend(t, caller, b, recipient)
           \/ StartPoll(t, caller, b)
  BY <1>3, NothingTouched DEF StartRegister, StartSend, StartPoll, tables, history
<1> QED
  BY <1>1, <1>2, <1>3

\* When agents have tokens, only a request with an agent's own token changes its
\* registration, drops its mailbox or reads from it, however many requests of
\* others are in progress, whatever their threads handled before, and across
\* restarts.
THEOREM TokensProtectAgents == AuthEnabled => (Spec => TokenOwnsAgent)
<1> DEFINE Owned == \A a \in Agents :
       /\ ~Restart /\ ~SweepStep
       /\ \/ RegistrationOf(a)' # RegistrationOf(a)
          \/ a \in DOMAIN mailboxes /\ a \notin DOMAIN mailboxes'
          \/ received'[a] # received[a]
       =>
         \E t \in Threads : /\ pc'[t] # pc[t]
                            /\ a \in {req[t].caller, req'[t].caller}
<1> SUFFICES ASSUME AuthEnabled PROVE Spec => TokenOwnsAgent
  OBVIOUS
<1>1. Init => TInv
  BY InitOK DEF TInv, Init, OwnAgent, Touching
<1>2. TInv /\ [Next]_vars => TInv'
  BY NextOK, NextKeepsOwn DEF TInv
<1>3. TInv /\ [Next]_vars => [Owned]_vars
  <2> SUFFICES ASSUME TInv, Next, NEW a \in Agents, ~Restart, ~SweepStep, ~Untouched(a)
               PROVE  \E t \in Threads : /\ pc'[t] # pc[t]
                                         /\ a \in {req[t].caller, req'[t].caller}
    BY DEF Untouched
  <2>1. ~Tick
    BY NothingTouched DEF Tick, tables, history
  <2>2. PICK t \in Threads : StartRequest(t) \/ HandlerStep(t) \/ PollTimeout(t)
    BY <2>1 DEF Next
  <2> QED
    BY <2>2, HandlerTouches, StartTouches DEF TInv, OwnAgent
<1>4. TokenOwnsAgent <=> [][Owned]_vars
  BY DEF TokenOwnsAgent
<1> HIDE DEF Owned
<1> QED
  BY <1>1, <1>2, <1>3, <1>4, PTL DEF Spec

-----------------------------------------------------------------------------
(* One record for each send whose handler did not die in the dial.         *)

Answered == sent - Cardinality(Sending) - unanswered
QueuedIn(buffer) == {i \in DOMAIN buffer : buffer[i] = "queued"}
\* Sends that have queued their message and not yet recorded it.
Unrecorded == {t \in Threads : pc[t] = "send_traffic" /\ req[t].disposition = "queued"}

LengthRight == Len(traffic_buffer) = IF Answered < TrafficSize THEN Answered ELSE TrafficSize
QueuedRight ==
  Answered <= TrafficSize =>
    accepted = Cardinality(QueuedIn(traffic_buffer)) + Cardinality(Unrecorded)

RInv == TypeOK /\ IsFiniteSet(Sending) /\ LengthRight /\ QueuedRight

LEMMA CountTypes ==
  ASSUME RInv
  PROVE  /\ Cardinality(Sending) \in Nat /\ sent \in Nat /\ unanswered \in Nat
         /\ accepted \in Nat /\ Answered \in Int
         /\ IsFiniteSet(Unrecorded) /\ Cardinality(Unrecorded) \in Nat
         /\ traffic_buffer \in Seq(Dispositions) /\ Len(traffic_buffer) \in Nat
         /\ TrafficSize \in Nat
<1>1. Unrecorded \in SUBSET Sending
  BY DEF Unrecorded, Sending, SendPCs
<1>2. IsFiniteSet(Sending) /\ IsFiniteSet(Unrecorded)
  BY <1>1, FS_Subset DEF RInv
<1>3. Cardinality(Sending) \in Nat /\ Cardinality(Unrecorded) \in Nat
  BY <1>2, FS_CardinalityType
<1> QED
  BY <1>2, <1>3, ConstantsAssumption, LenProperties DEF RInv, TypeOK, TablesOK, HistoryOK, Answered

LEMMA QueuedFinite ==
  ASSUME NEW buffer \in Seq(Dispositions)
  PROVE  IsFiniteSet(QueuedIn(buffer)) /\ Cardinality(QueuedIn(buffer)) \in Nat
<1>1. DOMAIN buffer = 1 .. Len(buffer) /\ Len(buffer) \in Int
  BY LenProperties
<1>2. IsFiniteSet(DOMAIN buffer)
  BY <1>1, FS_Interval
<1>3. QueuedIn(buffer) \in SUBSET DOMAIN buffer
  BY DEF QueuedIn
<1>4. IsFiniteSet(QueuedIn(buffer))
  BY <1>2, <1>3, FS_Subset
<1> QED
  BY <1>4, FS_CardinalityType

\* A record more, and one that says "queued" more if it does.
LEMMA QueuedOfAppend ==
  ASSUME NEW buffer \in Seq(Dispositions), NEW d \in Dispositions
  PROVE  Cardinality(QueuedIn(Append(buffer, d)))
           = Cardinality(QueuedIn(buffer)) + (IF d = "queued" THEN 1 ELSE 0)
<1> DEFINE longer == Append(buffer, d)
           n == Len(buffer)
<1>1. /\ n \in Nat /\ DOMAIN buffer = 1 .. n /\ DOMAIN longer = 1 .. n + 1
      /\ \A i \in 1 .. n : longer[i] = buffer[i]
      /\ longer[n + 1] = d
  <2>1. longer \in Seq(Dispositions) /\ Len(longer) = n + 1 /\ n \in Nat
    BY AppendProperties, LenProperties
  <2> QED
    BY <2>1, AppendProperties, LenProperties
<1> HIDE DEF longer, n
<1>2. IsFiniteSet(QueuedIn(buffer)) /\ Cardinality(QueuedIn(buffer)) \in Nat
  BY QueuedFinite
<1>3. n + 1 \notin QueuedIn(buffer)
  BY <1>1 DEF QueuedIn
<1>4. CASE d = "queued"
  <2>1. QueuedIn(longer) = QueuedIn(buffer) \cup {n + 1}
    BY <1>1, <1>4 DEF QueuedIn
  <2>2. Cardinality(QueuedIn(longer)) = Cardinality(QueuedIn(buffer)) + 1
    BY <1>2, <1>3, <2>1, FS_AddElement
  <2> QED
    BY <1>4, <2>2 DEF longer
<1>5. CASE d # "queued"
  <2>1. QueuedIn(longer) = QueuedIn(buffer)
    BY <1>1, <1>5 DEF QueuedIn
  <2> QED
    BY <1>2, <1>5, <2>1 DEF longer
<1> QED
  BY <1>4, <1>5

LEMMA RingLength ==
  ASSUME NEW buffer \in Seq(Dispositions), NEW d \in Dispositions
  PROVE  /\ Len(buffer) + 1 <= TrafficSize => RingAppend(buffer, d) = Append(buffer, d)
         /\ Len(RingAppend(buffer, d))
              = IF Len(buffer) + 1 > TrafficSize THEN Len(buffer) ELSE Len(buffer) + 1
<1>1. /\ Append(buffer, d) \in Seq(Dispositions)
      /\ Len(Append(buffer, d)) = Len(buffer) + 1 /\ Len(buffer) \in Nat
      /\ Append(buffer, d) # <<>>
  BY AppendProperties, LenProperties
<1>2. Len(Tail(Append(buffer, d))) = Len(buffer)
  BY <1>1, HeadTailProperties
<1> QED
  BY <1>1, <1>2, ConstantsAssumption DEF RingAppend

\* A step that begins, ends and advances no send leaves the account as it is.
LEMMA AccountKept ==
  ASSUME RInv, Sending' = Sending, Unrecorded' = Unrecorded,
         UNCHANGED <<sent, unanswered, accepted, traffic_buffer>>
  PROVE  IsFiniteSet(Sending)' /\ LengthRight' /\ QueuedRight'
BY DEF RInv, LengthRight, QueuedRight, Answered, QueuedIn

\* A thread that handles no send moves, and handles none afterwards.
LEMMA OtherMoves ==
  ASSUME RInv, NEW t \in Threads, pc[t] \notin SendPCs,
         \/ UNCHANGED <<pc, req>>
         \/ \E place : place \notin SendPCs /\ Goto(t, place) /\ req' = req
         \/ \E place, r : place \notin SendPCs /\ Begin(t, place, r),
         UNCHANGED <<sent, unanswered, accepted, traffic_buffer>>
  PROVE  IsFiniteSet(Sending)' /\ LengthRight' /\ QueuedRight'
<1>1. \A u \in Threads \ {t} : pc'[u] = pc[u] /\ req'[u] = req[u]
  BY DEF RInv, TypeOK, ThreadsOK, Begin, Goto
<1>2. pc'[t] \notin SendPCs
  BY DEF RInv, TypeOK, ThreadsOK, Begin, Goto
<1>3. Sending' = Sending /\ Unrecorded' = Unrecorded
  BY <1>1, <1>2 DEF Sending, Unrecorded, SendPCs
<1> QED
  BY <1>3, AccountKept

LEMMA SendBegins ==
  ASSUME RInv, NEW t \in Threads, NEW caller, NEW a, NEW recipient, StartSend(t, caller, a, recipient)
  PROVE  IsFiniteSet(Sending)' /\ LengthRight' /\ QueuedRight'
<1>1. \/ \E r : r.disposition # "queued" /\ Begin(t, "send_traffic", r)
      \/ \E place \in {"send_enqueue", "send_route"} : \E r : Begin(t, place, r)
  <2> DEFINE r == [NoRequest EXCEPT !.caller = caller, !.agent = recipient]
  <2>1. [r EXCEPT !.disposition = "rejected"].disposition = "rejected"
    BY DEF NoRequest
  <2>2. [r EXCEPT !.disposition = "unknown_recipient"].disposition = "unknown_recipient"
    BY DEF NoRequest
  <2>3. \/ Begin(t, "send_traffic", [r EXCEPT !.disposition = "rejected"])
        \/ Begin(t, "send_traffic", [r EXCEPT !.disposition = "unknown_recipient"])
        \/ Begin(t, "send_enqueue", r) \/ Begin(t, "send_route", r)
    BY DEF StartSend
  <2> HIDE DEF r
  <2> QED
    BY <2>1, <2>2, <2>3
<1>2. /\ \A u \in Threads \ {t} : pc'[u] = pc[u] /\ req'[u] = req[u]
      /\ pc'[t] \in SendPCs /\ ~(pc'[t] = "send_traffic" /\ req'[t].disposition = "queued")
  BY <1>1 DEF RInv, TypeOK, ThreadsOK, Begin, Goto, SendPCs
<1>3. t \notin Sending /\ t \notin Unrecorded
  BY DEF StartSend, Sending, Unrecorded, SendPCs
<1>4. Sending' = Sending \cup {t}
  BY <1>2 DEF Sending
<1>5. Unrecorded' = Unrecorded
  BY <1>2, <1>3 DEF Unrecorded
<1>6. IsFiniteSet(Sending') /\ Cardinality(Sending') = Cardinality(Sending) + 1
  BY <1>3, <1>4, FS_AddElement DEF RInv
<1>7. Answered' = Answered
  BY <1>6, CountTypes DEF Answered, StartSend
<1> QED
  BY <1>5, <1>6, <1>7 DEF RInv, LengthRight, QueuedRight, QueuedIn, StartSend, tables

\* A dial that raises takes its send out of the account.
LEMMA SendBreaks ==
  ASSUME RInv, NEW t \in Threads, Dial(t), unanswered' = unanswered + 1
  PROVE  IsFiniteSet(Sending)' /\ LengthRight' /\ QueuedRight'
<1>1. Finish(t)
  BY CountTypes DEF Dial
<1>2. /\ \A u \in Threads \ {t} : pc'[u] = pc[u] /\ req'[u] = req[u]
      /\ pc'[t] = "idle" /\ pc[t] = "send_dial"
      /\ UNCHANGED <<sent, accepted, traffic_buffer>>
  BY <1>1 DEF RInv, TypeOK, ThreadsOK, Dial, Finish, Begin, Goto, tables
<1>3. t \in Sending /\ Sending' = Sending \ {t}
  BY <1>2 DEF Sending, SendPCs
<1>4. IsFiniteSet(Sending') /\ Cardinality(Sending') = Cardinality(Sending) - 1
  BY <1>3, FS_RemoveElement DEF RInv
<1>5. Unrecorded' = Unrecorded
  BY <1>2 DEF Unrecorded
<1>6. Answered' = Answered
  BY <1>2, <1>4, CountTypes DEF Answered
<1> QED
  BY <1>2, <1>4, <1>5, <1>6 DEF RInv, LengthRight, QueuedRight, QueuedIn

LEMMA SendAdvances ==
  ASSUME RInv, NEW t \in Threads,
         Enqueue(t) \/ Route(t) \/ Dial(t), unanswered' = unanswered
  PROVE  IsFiniteSet(Sending)' /\ LengthRight' /\ QueuedRight'
<1>1. PICK place, r : place \in SendPCs /\ Begin(t, place, r)
  BY CountTypes DEF Enqueue, Route, Dial, SendPCs
<1>2. /\ \A u \in Threads \ {t} : pc'[u] = pc[u] /\ req'[u] = req[u]
      /\ pc'[t] = place /\ req'[t] = r
  BY <1>1 DEF RInv, TypeOK, ThreadsOK, Begin, Goto
<1>3. t \in Sending /\ t \notin Unrecorded
  BY DEF Enqueue, Route, Dial, Sending, Unrecorded, SendPCs
<1>4. Sending' = Sending /\ UNCHANGED <<sent, traffic_buffer>>
  BY <1>1, <1>2, <1>3 DEF Sending, Enqueue, Route, Dial, tables, history
<1>5. Answered' = Answered /\ IsFiniteSet(Sending') /\ LengthRight'
  BY <1>4 DEF RInv, Answered, LengthRight
<1>6. CASE Enqueue(t)
  <2>1. pc'[t] = "send_traffic" /\ req'[t].disposition = "queued"
    BY <1>6 DEF RInv, TypeOK, ThreadsOK, Requests, Enqueue, Begin, Goto
  <2>2. Unrecorded' = Unrecorded \cup {t}
    BY <1>2, <2>1 DEF Unrecorded
  <2>3. Cardinality(Unrecorded') = Cardinality(Unrecorded) + 1
    BY <1>3, <2>2, CountTypes, FS_AddElement
  <2>4. accepted' = accepted + 1
    BY <1>6 DEF Enqueue
  <2>5. Cardinality(QueuedIn(traffic_buffer)) \in Nat
    BY CountTypes, QueuedFinite
  <2> QED
    BY <1>4, <1>5, <2>3, <2>4, <2>5, CountTypes DEF RInv, QueuedRight, QueuedIn
<1>7. CASE Route(t) \/ Dial(t)
  <2>1. pc'[t] = "send_dial" \/ req'[t].disposition = "routed"
    BY <1>7, CountTypes DEF RInv, TypeOK, ThreadsOK, Requests, Route, Dial, Begin, Goto
  <2>2. Unrecorded' = Unrecorded
    BY <1>2, <1>3, <2>1 DEF Unrecorded
  <2>3. accepted' = accepted
    BY <1>7 DEF Route, Dial, history
  <2> QED
    BY <1>4, <1>5, <2>2, <2>3 DEF RInv, QueuedRight, QueuedIn
<1> QED
  BY <1>6, <1>7

LEMMA SendEnds ==
  ASSUME RInv, NEW t \in Threads, RecordTraffic(t)
  PROVE  IsFiniteSet(Sending)' /\ LengthRight' /\ QueuedRight'
<1> DEFINE d == req[t].disposition
<1>1. /\ \A u \in Threads \ {t} : pc'[u] = pc[u] /\ req'[u] = req[u]
      /\ pc'[t] = "idle" /\ pc[t] = "send_traffic"
      /\ d \in Dispositions
      /\ traffic_buffer' = RingAppend(traffic_buffer, d)
      /\ sent' = sent /\ unanswered' = unanswered /\ accepted' = accepted
  BY RequestFields DEF RInv, TypeOK, ThreadsOK, RecordTraffic, Finish, Begin, Goto, history
<1>2. t \in Sending /\ Sending' = Sending \ {t}
  BY <1>1 DEF Sending, SendPCs
<1>3. IsFiniteSet(Sending') /\ Cardinality(Sending') = Cardinality(Sending) - 1
  BY <1>2, FS_RemoveElement DEF RInv
<1>4. Answered' = Answered + 1
  BY <1>1, <1>3, CountTypes DEF Answered
<1>5. Cardinality(Unrecorded') = Cardinality(Unrecorded) - (IF d = "queued" THEN 1 ELSE 0)
  <2>1. CASE d = "queued"
    <3>1. t \in Unrecorded /\ Unrecorded' = Unrecorded \ {t}
      BY <1>1, <2>1 DEF Unrecorded
    <3> QED
      BY <2>1, <3>1, CountTypes, FS_RemoveElement
  <2>2. CASE d # "queued"
    <3>1. Unrecorded' = Unrecorded
      BY <1>1, <2>2 DEF Unrecorded
    <3> QED
      BY <2>2, <3>1, CountTypes
  <2> QED
    BY <2>1, <2>2
<1> HIDE DEF d
<1>6. LengthRight'
  <2>1. Len(traffic_buffer') = IF Len(traffic_buffer) + 1 > TrafficSize
                               THEN Len(traffic_buffer) ELSE Len(traffic_buffer) + 1
    BY <1>1, RingLength, CountTypes
  <2> QED
    BY <1>4, <2>1, CountTypes DEF RInv, LengthRight
<1>7. QueuedRight'
  <2> SUFFICES ASSUME Answered' <= TrafficSize
               PROVE  accepted' = Cardinality(QueuedIn(traffic_buffer')) + Cardinality(Unrecorded')
    BY DEF QueuedRight, QueuedIn
  <2>1. Answered <= TrafficSize /\ Len(traffic_buffer) + 1 <= TrafficSize
    BY <1>4, CountTypes DEF RInv, LengthRight
  <2>2. traffic_buffer' = Append(traffic_buffer, d)
    BY <1>1, <2>1, RingLength, CountTypes
  <2>3. Cardinality(QueuedIn(traffic_buffer'))
          = Cardinality(QueuedIn(traffic_buffer)) + (IF d = "queued" THEN 1 ELSE 0)
    BY <1>1, <2>2, QueuedOfAppend, CountTypes
  <2>4. Cardinality(QueuedIn(traffic_buffer)) \in Nat
    BY CountTypes, QueuedFinite
  <2> QED
    BY <1>1, <1>5, <2>1, <2>3, <2>4, CountTypes DEF RInv, QueuedRight
<1> QED
  BY <1>3, <1>6, <1>7

LEMMA NextKeepsAccount ==
  ASSUME RInv, ~MayRestart, [Next]_vars
  PROVE  IsFiniteSet(Sending)' /\ LengthRight' /\ QueuedRight'
<1>1. ASSUME UNCHANGED <<pc, req, sent, unanswered, accepted, traffic_buffer>>
      PROVE  IsFiniteSet(Sending)' /\ LengthRight' /\ QueuedRight'
  BY <1>1, AccountKept DEF Sending, Unrecorded
<1>2. CASE SweepStep \/ Tick
  <2>1. UNCHANGED <<pc, req, sent, unanswered, accepted, traffic_buffer>>
    BY <1>2 DEF SweepStep, SweepBegin, SweepSnapshot, SweepRead, SweepEnd, EvictRegistry,
                EvictCapabilities, EvictLease, EvictMailbox, Tick, tables, threads, history
  <2> QED
    BY <1>1, <2>1
<1>3. ASSUME NEW t \in Threads, StartRequest(t)
      PROVE  IsFiniteSet(Sending)' /\ LengthRight' /\ QueuedRight'
  <2>1. PICK caller \in Callers, a \in Agents :
        \/ \E kind \in Kinds, ttl \in Ttls \cup {NotGiven} : StartRegister(t, caller, a, kind, ttl)
        \/ StartDeregister(t, caller, a)
        \/ \E recipient \in Agents \cup {Nobody} : StartSend(t, caller, a, recipient)
        \/ StartPoll(t, caller, a)
    BY <1>3 DEF StartRequest
  <2>2. CASE \/ \E kind \in Kinds, ttl \in Ttls \cup {NotGiven} : StartRegister(t, caller, a, kind, ttl)
             \/ StartDeregister(t, caller, a) \/ StartPoll(t, caller, a)
    <3>1. pc[t] \notin SendPCs /\ UNCHANGED <<sent, unanswered, accepted, traffic_buffer>>
      BY <2>2 DEF StartRegister, StartDeregister, StartPoll, SendPCs, tables, history
    <3>2. \E place, r : place \notin SendPCs /\ Begin(t, place, r)
      BY <2>2 DEF StartRegister, StartDeregister, StartPoll, SendPCs
    <3> QED
      BY <3>1, <3>2, OtherMoves
  <2> QED
    BY <2>1, <2>2, SendBegins
<1>4. ASSUME NEW t \in Threads, HandlerStep(t) \/ PollTimeout(t)
      PROVE  IsFiniteSet(Sending)' /\ LengthRight' /\ QueuedRight'
  <2>1. CASE \/ RegisterEndpoint(t) \/ RegisterMailbox(t) \/ RegisterCapabilities(t)
             \/ DeregisterCapabilities(t) \/ DeregisterLease(t)
             \/ AutoRegisterEndpoint(t) \/ AutoRegisterMailbox(t)
             \/ AutoRegisterCapabilities(t) \/ AutoRegisterLease(t) \/ PollHeartbeat(t)
    <3>1. pc[t] \notin SendPCs /\ UNCHANGED <<sent, unanswered, accepted, traffic_buffer>>
      BY <2>1 DEF RegisterEndpoint, RegisterMailbox, RegisterCapabilities, DeregisterCapabilities,
                  DeregisterLease, AutoRegisterEndpoint, AutoRegisterMailbox,
                  AutoRegisterCapabilities, AutoRegisterLease, PollHeartbeat, SendPCs, history
    <3>2. \E place : place \notin SendPCs /\ Goto(t, place) /\ req' = req
      BY <2>1 DEF RegisterEndpoint, RegisterMailbox, RegisterCapabilities, DeregisterCapabilities,
                  DeregisterLease, AutoRegisterEndpoint, AutoRegisterMailbox,
                  AutoRegisterCapabilities, AutoRegisterLease, PollHeartbeat, SendPCs
    <3> QED
      BY <3>1, <3>2, OtherMoves
  <2>2. CASE RegisterLease(t) \/ DeregisterMailbox(t) \/ PollReply(t)
    <3>1. pc[t] \notin SendPCs /\ UNCHANGED <<sent, unanswered, accepted, traffic_buffer>>
      BY <2>2 DEF RegisterLease, DeregisterMailbox, PollReply, SendPCs, tables, history
    <3>2. \E place, r : place \notin SendPCs /\ Begin(t, place, r)
      BY <2>2 DEF RegisterLease, DeregisterMailbox, PollReply, Finish, SendPCs
    <3> QED
      BY <3>1, <3>2, OtherMoves
  <2>3. CASE PollEnter(t) \/ PollWake(t) \/ PollTimeout(t)
    <3>1. pc[t] \notin SendPCs /\ UNCHANGED <<sent, unanswered, accepted, traffic_buffer>>
      BY <2>3 DEF PollEnter, PollWake, PollTimeout, TakeAll, SendPCs, tables, history
    <3>2. UNCHANGED <<pc, req>> \/ \E place : place \notin SendPCs /\ Goto(t, place) /\ req' = req
      BY <2>3 DEF PollEnter, PollWake, PollTimeout, TakeAll, SendPCs
    <3> QED
      BY <3>1, <3>2, OtherMoves
  <2>4. CASE Enqueue(t) \/ Route(t) \/ Dial(t)
    <3>1. CASE unanswered' = unanswered
      BY <2>4, <3>1, SendAdvances
    <3>2. CASE unanswered' # unanswered
      <4>1. Dial(t)
        BY <2>4, <3>2 DEF Enqueue, Route, history
      <4>2. unanswered' = unanswered + 1
        BY <3>2, <4>1 DEF Dial
      <4> QED
        BY <4>1, <4>2, SendBreaks
    <3> QED
      BY <3>1, <3>2
  <2> QED
    BY <1>4, <2>1, <2>2, <2>3, <2>4, SendEnds DEF HandlerStep
<1>5. ~Restart
  BY DEF Restart
<1>6. UNCHANGED vars => UNCHANGED <<pc, req, sent, unanswered, accepted, traffic_buffer>>
  BY DEF vars, tables, threads, history
<1> QED
  BY <1>1, <1>2, <1>3, <1>4, <1>5, <1>6 DEF Next

\* Every send whose handler did not die in the dial has left one record, on each
\* of the ways out of its handler and whatever else the handlers of other sends do
\* in between, until the ring is full; and there are as many records of queued
\* messages as messages were queued.
THEOREM RecordsComplete == Spec => []TrafficComplete
<1>1. CASE MayRestart
  <2>1. TrafficComplete
    BY <1>1 DEF TrafficComplete
  <2> QED
    BY <2>1, PTL
<1>2. CASE ~MayRestart
  <2>1. Init => RInv
    <3> SUFFICES ASSUME Init PROVE RInv
      OBVIOUS
    <3>1. Sending = {} /\ Unrecorded = {} /\ QueuedIn(traffic_buffer) = {}
      BY DEF Init, Sending, Unrecorded, SendPCs, QueuedIn
    <3>2. IsFiniteSet(Sending) /\ Cardinality(Sending) = 0 /\ Cardinality(Unrecorded) = 0
          /\ Cardinality(QueuedIn(traffic_buffer)) = 0
      BY <3>1, FS_EmptySet
    <3>3. Answered = 0 /\ Len(traffic_buffer) = 0
      BY <3>2 DEF Init, Answered
    <3> QED
      BY <3>2, <3>3, InitOK, ConstantsAssumption DEF Init, RInv, LengthRight, QueuedRight
  <2>2. RInv /\ [Next]_vars => RInv'
    BY <1>2, NextOK, NextKeepsAccount DEF RInv
  <2>3. RInv => TrafficComplete
    BY DEF RInv, LengthRight, QueuedRight, Answered, QueuedIn, Unrecorded, TrafficComplete
  <2> QED
    BY <2>1, <2>2, <2>3, PTL DEF Spec
<1> QED
  BY <1>1, <1>2

-----------------------------------------------------------------------------
(* The tables agree, unless two changes of one agent overlap.              *)

\* A thread that changes the tables of its agent in several sections, or acts on
\* what it has read in an earlier one.  Waiting in a poll, the heartbeat of a poll
\* and dialling are none of these, nor is a sweep that reads.
Changing(t) ==
  pc[t] \in RegisterPCs \cup DeregisterPCs
             \cup {"send_enqueue", "auto_registry", "auto_mailbox", "auto_capabilities", "auto_lease"}
Evicting == sweep.pc \notin {"idle", "snapshot", "scan"}

\* Changes of one agent come one after the other; changes of several agents may
\* overlap as they like.
OneChange ==
  /\ \A t, u \in Threads :
       Changing(t) /\ Changing(u) /\ req[t].agent = req[u].agent => t = u
  /\ Evicting => \A t \in Threads : Changing(t) => req[t].agent # sweep.agent

Agrees(a) ==
  /\ a \in DOMAIN registry <=> a \in capabilities
  /\ a \in DOMAIN registry <=> a \in DOMAIN last_heartbeat
  /\ a \in DOMAIN registry <=> a \in DOMAIN ttl_seconds
  /\ a \in DOMAIN mailboxes => a \in DOMAIN registry
  /\ a \in DOMAIN registry /\ registry[a] = "mailbox" => a \in DOMAIN mailboxes

\* Nobody is changing the tables of a.
Free(a) == /\ \A t \in Threads : Changing(t) => req[t].agent # a
           /\ Evicting => sweep.agent # a

\* How far a thread has come.
Halfway(t) ==
  LET a == req[t].agent IN
  /\ pc[t] \in RegisterPCs => req[t].isNew \/ a \in DOMAIN ttl_seconds
  /\ pc[t] \in {"reg_mailbox", "reg_capabilities", "reg_lease", "auto_mailbox",
                "auto_capabilities", "auto_lease", "send_enqueue"} => a \in DOMAIN registry
  /\ pc[t] \in {"reg_capabilities", "reg_lease", "auto_capabilities", "auto_lease"}
       => (registry[a] = "mailbox" => a \in DOMAIN mailboxes)
  /\ pc[t] \in {"reg_lease", "auto_lease"} => a \in capabilities
  /\ pc[t] = "send_enqueue" => Agrees(a)
  /\ pc[t] \in DeregisterPCs => a \notin DOMAIN registry
  /\ pc[t] \in {"dereg_lease", "dereg_mailbox"} => a \notin capabilities
  /\ pc[t] = "dereg_mailbox" => a \notin DOMAIN last_heartbeat /\ a \notin DOMAIN ttl_seconds

\* How far an eviction has come.
HalfEvicted ==
  LET a == sweep.agent IN
  /\ sweep.pc \in {"evict_capabilities", "evict_lease", "evict_mailbox"} => a \notin DOMAIN registry
  /\ sweep.pc \in {"evict_lease", "evict_mailbox"} => a \notin capabilities
  /\ sweep.pc = "evict_mailbox" => a \notin DOMAIN last_heartbeat /\ a \notin DOMAIN ttl_seconds

FreeAgree == \A a \in Agents : Free(a) => Agrees(a)
AllHalfway == \A t \in Threads : Halfway(t)

AInv == TypeOK /\ FreeAgree /\ AllHalfway /\ HalfEvicted

\* A step that leaves what the tables say of agent a as it is.
RowKept(a) ==
  /\ SameAt(registry, registry', a)
  /\ a \in capabilities' <=> a \in capabilities
  /\ a \in DOMAIN last_heartbeat' <=> a \in DOMAIN last_heartbeat
  /\ a \in DOMAIN ttl_seconds' <=> a \in DOMAIN ttl_seconds
  /\ a \in DOMAIN mailboxes' <=> a \in DOMAIN mailboxes

LEMMA AgreesKept ==
  ASSUME NEW a, RowKept(a)
  PROVE  Agrees(a)' <=> Agrees(a)
BY DEF RowKept, SameAt, Agrees

LEMMA HalfwayKept ==
  ASSUME NEW u \in Threads, Halfway(u), pc'[u] = pc[u], req'[u] = req[u], RowKept(req[u].agent)
  PROVE  Halfway(u)'
<1>1. PICK a : a = req[u].agent
  OBVIOUS
<1>2. RowKept(a) /\ (Agrees(a)' <=> Agrees(a))
  BY <1>1, AgreesKept
<1> QED
  BY <1>1, <1>2 DEF Halfway, RowKept, SameAt

LEMMA IdleHalfway ==
  ASSUME NEW u
  PROVE  /\ ~Changing(u) => Halfway(u)
         /\ ~Changing(u)' => Halfway(u)'
BY DEF Changing, Halfway, RegisterPCs, DeregisterPCs

LEMMA EvictionKept ==
  ASSUME HalfEvicted, sweep'.pc = sweep.pc, sweep'.agent = sweep.agent,
         Evicting => RowKept(sweep.agent)
  PROVE  HalfEvicted'
<1>1. PICK a : a = sweep.agent
  OBVIOUS
<1> QED
  BY <1>1 DEF HalfEvicted, Evicting, RowKept, SameAt

\* The agents of changes in progress.
LEMMA ChangedAgents ==
  ASSUME TypeOK
  PROVE  /\ \A t \in Threads : Changing(t) => req[t].agent \in Agents
         /\ Evicting => sweep.agent \in Agents
BY DEF TypeOK, ThreadsOK, SweepOK, Changing, Evicting, RegisterPCs, DeregisterPCs

\* Thread t changes agent b, which nobody else is changing.
LEMMA ThreadChanges ==
  ASSUME AInv, NEW t \in Threads, NEW b \in Agents, sweep' = sweep,
         \A u \in Threads \ {t} : pc'[u] = pc[u] /\ req'[u] = req[u],
         \A a \in Agents \ {b} : RowKept(a),
         \A u \in Threads \ {t} : Changing(u) => req[u].agent # b,
         Evicting => sweep.agent # b,
         Changing(t) => req[t].agent = b,
         Changing(t)' => req'[t].agent = b,
         Halfway(t)',
         ~Changing(t)' => Agrees(b)'
  PROVE  FreeAgree' /\ AllHalfway' /\ HalfEvicted'
<1>1. ASSUME NEW a \in Agents, Free(a)'
      PROVE  Agrees(a)'
  <2>1. CASE a = b
    BY <1>1, <2>1 DEF Free
  <2>2. CASE a # b
    <3>1. Free(a)
      BY <1>1, <2>2 DEF Free, Changing, Evicting
    <3> QED
      BY <2>2, <3>1, AgreesKept DEF AInv, FreeAgree
  <2> QED
    BY <2>1, <2>2
<1>2. ASSUME NEW u \in Threads
      PROVE  Halfway(u)'
  <2>1. CASE u # t /\ Changing(u)
    BY <2>1, ChangedAgents, HalfwayKept DEF AInv, AllHalfway
  <2>2. CASE u # t /\ ~Changing(u)
    <3>1. ~Changing(u)'
      BY <2>2 DEF Changing
    <3> QED
      BY <3>1, IdleHalfway
  <2> QED
    BY <2>1, <2>2
<1>3. HalfEvicted'
  BY ChangedAgents, EvictionKept DEF AInv
<1> QED
  BY <1>1, <1>2, <1>3 DEF FreeAgree, AllHalfway

\* A thread that changes nothing, before or after, leaves every row as it is.
LEMMA ThreadLooks ==
  ASSUME AInv, NEW t \in Threads, UNCHANGED sweep, ~Changing(t), ~Changing(t)',
         \A u \in Threads \ {t} : pc'[u] = pc[u] /\ req'[u] = req[u],
         \A a \in Agents : RowKept(a)
  PROVE  FreeAgree' /\ AllHalfway' /\ HalfEvicted'
<1>1. ASSUME NEW a \in Agents, Free(a)'
      PROVE  Agrees(a)'
  <2>1. Free(a)
    BY <1>1 DEF Free, Changing, Evicting
  <2> QED
    BY <2>1, AgreesKept DEF AInv, FreeAgree
<1>2. ASSUME NEW u \in Threads
      PROVE  Halfway(u)'
  <2>1. CASE Changing(u)
    BY <2>1, ChangedAgents, HalfwayKept DEF AInv, AllHalfway
  <2>2. CASE ~Changing(u)
    <3>1. ~Changing(u)'
      BY <2>2 DEF Changing
    <3> QED
      BY <3>1, IdleHalfway
  <2> QED
    BY <2>1, <2>2
<1>3. HalfEvicted'
  BY ChangedAgents, EvictionKept DEF AInv
<1> QED
  BY <1>1, <1>2, <1>3 DEF FreeAgree, AllHalfway

\* A change that begins does so at an agent that nobody is changing.
LEMMA ChangeBegins ==
  ASSUME OneChange', NEW t \in Threads, sweep' = sweep, Changing(t)', 
         \A u \in Threads \ {t} : pc'[u] = pc[u] /\ req'[u] = req[u]
  PROVE  /\ \A u \in Threads \ {t} : Changing(u) => req[u].agent # req'[t].agent
         /\ Evicting => sweep.agent # req'[t].agent
BY DEF OneChange, Changing, Evicting

LEMMA NobodyElse ==
  ASSUME OneChange, NEW t \in Threads, Changing(t)
  PROVE  /\ \A u \in Threads \ {t} : Changing(u) => req[u].agent # req[t].agent
         /\ Evicting => sweep.agent # req[t].agent
BY DEF OneChange

\* Thread t moves alone.
OnlyMoves(t) == \A u \in Threads \ {t} : pc'[u] = pc[u] /\ req'[u] = req[u]

LEMMA GotoMoves ==
  ASSUME TypeOK, NEW t \in Threads, NEW place, Goto(t, place), req' = req
  PROVE  OnlyMoves(t) /\ pc'[t] = place /\ req'[t] = req[t]
BY DEF TypeOK, ThreadsOK, Goto, OnlyMoves

LEMMA BeginMoves ==
  ASSUME TypeOK, NEW t \in Threads, NEW place, NEW r, Begin(t, place, r)
  PROVE  OnlyMoves(t) /\ pc'[t] = place /\ req'[t] = r
BY DEF TypeOK, ThreadsOK, Begin, Goto, OnlyMoves

\* What a step of a change owes: it goes on at the same agent, or leaves the
\* tables in agreement on it.
LEMMA ChangeGoesOn ==
  ASSUME AInv, OneChange, NEW t \in Threads, Changing(t), OnlyMoves(t), sweep' = sweep,
         \A a \in Agents \ {req[t].agent} : RowKept(a),
         Halfway(t)', Changing(t)' => req'[t].agent = req[t].agent,
         NEW b, b = req[t].agent, ~Changing(t)' => Agrees(b)'
  PROVE  FreeAgree' /\ AllHalfway' /\ HalfEvicted'
<1>1. b \in Agents
  BY ChangedAgents DEF AInv
<1> QED
  BY <1>1, NobodyElse, ThreadChanges DEF OnlyMoves

LEMMA RegisterAgrees ==
  ASSUME AInv, OneChange, NEW t \in Threads,
         \/ RegisterEndpoint(t) \/ RegisterMailbox(t) \/ RegisterCapabilities(t) \/ RegisterLease(t)
  PROVE  FreeAgree' /\ AllHalfway' /\ HalfEvicted'
<1>1. PICK b : b = req[t].agent
  OBVIOUS
<1>2. TypeOK /\ Halfway(t) /\ Changing(t) /\ sweep' = sweep
  BY DEF AInv, AllHalfway, Changing, RegisterPCs, RegisterEndpoint, RegisterMailbox,
         RegisterCapabilities, RegisterLease
<1>3. CASE RegisterEndpoint(t)
  <2>1. /\ OnlyMoves(t) /\ req'[t] = req[t]
        /\ pc'[t] = IF req[t].kind = "mailbox" THEN "reg_mailbox" ELSE "reg_capabilities"
    BY <1>2, <1>3, GotoMoves DEF RegisterEndpoint
  <2>2. registry' = Put(registry, b, req[t].kind)
    BY <1>1, <1>3 DEF RegisterEndpoint
  <2>3. \A a \in Agents \ {b} : RowKept(a)
    BY <1>3, <2>2, OthersInDict DEF RegisterEndpoint, RowKept
  <2>4. Halfway(t)'
    BY <1>1, <1>2, <1>3, <2>1, <2>2
       DEF RegisterEndpoint, Halfway, RegisterPCs, DeregisterPCs, Put, SetDefault, Pop, Restrict
  <2>5. Changing(t)'
    BY <2>1 DEF Changing, RegisterPCs
  <2> QED
    BY <1>1, <1>2, <2>1, <2>3, <2>4, <2>5, ChangeGoesOn
<1>4. CASE RegisterMailbox(t)
  <2>1. OnlyMoves(t) /\ req'[t] = req[t] /\ pc'[t] = "reg_capabilities"
    BY <1>2, <1>4, GotoMoves DEF RegisterMailbox
  <2>2. mailboxes' = SetDefault(mailboxes, b, <<>>)
    BY <1>1, <1>4 DEF RegisterMailbox
  <2>3. \A a \in Agents \ {b} : RowKept(a)
    BY <1>4, <2>2 DEF RegisterMailbox, RowKept, SameAt, Put, SetDefault, Pop, Restrict
  <2>4. Halfway(t)'
    BY <1>1, <1>2, <1>4, <2>1, <2>2
       DEF RegisterMailbox, Halfway, RegisterPCs, DeregisterPCs, Put, SetDefault, Pop, Restrict
  <2>5. Changing(t)'
    BY <2>1 DEF Changing, RegisterPCs
  <2> QED
    BY <1>1, <1>2, <2>1, <2>3, <2>4, <2>5, ChangeGoesOn
<1>5. CASE RegisterCapabilities(t)
  <2>1. OnlyMoves(t) /\ req'[t] = req[t] /\ pc'[t] = "reg_lease"
    BY <1>2, <1>5, GotoMoves DEF RegisterCapabilities
  <2>2. capabilities' = capabilities \cup {b}
    BY <1>1, <1>5 DEF RegisterCapabilities
  <2>3. \A a \in Agents \ {b} : RowKept(a)
    BY <1>5, <2>2 DEF RegisterCapabilities, RowKept, SameAt
  <2>4. Halfway(t)'
    BY <1>1, <1>2, <1>5, <2>1, <2>2
       DEF RegisterCapabilities, Halfway, RegisterPCs, DeregisterPCs
  <2>5. Changing(t)'
    BY <2>1 DEF Changing, RegisterPCs
  <2> QED
    BY <1>1, <1>2, <2>1, <2>3, <2>4, <2>5, ChangeGoesOn
<1>6. CASE RegisterLease(t)
  <2>1. OnlyMoves(t) /\ pc'[t] = "idle"
    BY <1>2, <1>6, BeginMoves DEF RegisterLease, Finish
  <2>2. /\ last_heartbeat' = Put(last_heartbeat, b, clock)
        /\ \/ \E v : ttl_seconds' = Put(ttl_seconds, b, v)
           \/ ~req[t].isNew /\ ttl_seconds' = ttl_seconds
    BY <1>1, <1>6 DEF RegisterLease
  <2>3. \A a \in Agents \ {b} : RowKept(a)
    BY <1>6, <2>2 DEF RegisterLease, RowKept, SameAt, Put, SetDefault, Pop, Restrict
  <2>4. ~Changing(t)'
    BY <2>1 DEF Changing, RegisterPCs, DeregisterPCs
  <2>5. /\ b \in DOMAIN registry /\ b \in capabilities
        /\ registry[b] = "mailbox" => b \in DOMAIN mailboxes
        /\ req[t].isNew \/ b \in DOMAIN ttl_seconds
    BY <1>1, <1>2, <1>6 DEF RegisterLease, Halfway, RegisterPCs
  <2>6. b \in DOMAIN last_heartbeat' /\ b \in DOMAIN ttl_seconds'
    BY <2>2, <2>5 DEF Put, SetDefault, Pop, Restrict
  <2>7. Agrees(b)'
    BY <1>6, <2>5, <2>6 DEF RegisterLease, Agrees
  <2> QED
    BY <1>1, <1>2, <2>1, <2>3, <2>4, <2>7, IdleHalfway, ChangeGoesOn
<1> QED
  BY <1>3, <1>4, <1>5, <1>6

LEMMA AutoRegisterAgrees ==
  ASSUME AInv, OneChange, NEW t \in Threads,
         \/ AutoRegisterEndpoint(t) \/ AutoRegisterMailbox(t)
         \/ AutoRegisterCapabilities(t) \/ AutoRegisterLease(t)
  PROVE  FreeAgree' /\ AllHalfway' /\ HalfEvicted'
<1>1. PICK b : b = req[t].agent
  OBVIOUS
<1>2. TypeOK /\ Halfway(t) /\ Changing(t) /\ sweep' = sweep
  BY DEF AInv, AllHalfway, Changing, AutoRegisterEndpoint, AutoRegisterMailbox,
         AutoRegisterCapabilities, AutoRegisterLease
<1>3. CASE AutoRegisterEndpoint(t)
  <2>1. OnlyMoves(t) /\ req'[t] = req[t] /\ pc'[t] = "auto_mailbox"
    BY <1>2, <1>3, GotoMoves DEF AutoRegisterEndpoint
  <2>2. registry' = Put(registry, b, "mailbox")
    BY <1>1, <1>3 DEF AutoRegisterEndpoint
  <2>3. \A a \in Agents \ {b} : RowKept(a)
    BY <1>3, <2>2, OthersInDict DEF AutoRegisterEndpoint, RowKept
  <2>4. Halfway(t)'
    BY <1>1, <2>1, <2>2 DEF Halfway, RegisterPCs, DeregisterPCs, Put, SetDefault, Pop, Restrict
  <2>5. Changing(t)'
    BY <2>1 DEF Changing
  <2> QED
    BY <1>1, <1>2, <2>1, <2>3, <2>4, <2>5, ChangeGoesOn
<1>4. CASE AutoRegisterMailbox(t)
  <2>1. OnlyMoves(t) /\ req'[t] = req[t] /\ pc'[t] = "auto_capabilities"
    BY <1>2, <1>4, GotoMoves DEF AutoRegisterMailbox
  <2>2. mailboxes' = SetDefault(mailboxes, b, <<>>)
    BY <1>1, <1>4 DEF AutoRegisterMailbox
  <2>3. \A a \in Agents \ {b} : RowKept(a)
    BY <1>4, <2>2 DEF AutoRegisterMailbox, RowKept, SameAt, Put, SetDefault, Pop, Restrict
  <2>4. Halfway(t)'
    BY <1>1, <1>2, <1>4, <2>1, <2>2
       DEF AutoRegisterMailbox, Halfway, RegisterPCs, DeregisterPCs, Put, SetDefault, Pop, Restrict
  <2>5. Changing(t)'
    BY <2>1 DEF Changing
  <2> QED
    BY <1>1, <1>2, <2>1, <2>3, <2>4, <2>5, ChangeGoesOn
<1>5. CASE AutoRegisterCapabilities(t)
  <2>1. OnlyMoves(t) /\ req'[t] = req[t] /\ pc'[t] = "auto_lease"
    BY <1>2, <1>5, GotoMoves DEF AutoRegisterCapabilities
  <2>2. capabilities' = capabilities \cup {b}
    BY <1>1, <1>5 DEF AutoRegisterCapabilities
  <2>3. \A a \in Agents \ {b} : RowKept(a)
    BY <1>5, <2>2 DEF AutoRegisterCapabilities, RowKept, SameAt
  <2>4. Halfway(t)'
    BY <1>1, <1>2, <1>5, <2>1, <2>2
       DEF AutoRegisterCapabilities, Halfway, RegisterPCs, DeregisterPCs
  <2>5. Changing(t)'
    BY <2>1 DEF Changing
  <2> QED
    BY <1>1, <1>2, <2>1, <2>3, <2>4, <2>5, ChangeGoesOn
<1>6. CASE AutoRegisterLease(t)
  <2>1. OnlyMoves(t) /\ req'[t] = req[t] /\ pc'[t] = "poll_heartbeat"
    BY <1>2, <1>6, GotoMoves DEF AutoRegisterLease
  <2>2. /\ last_heartbeat' = Put(last_heartbeat, b, clock)
        /\ ttl_seconds' = SetDefault(ttl_seconds, b, DefaultTtl)
    BY <1>1, <1>6 DEF AutoRegisterLease
  <2>3. \A a \in Agents \ {b} : RowKept(a)
    BY <1>6, <2>2 DEF AutoRegisterLease, RowKept, SameAt, Put, SetDefault, Pop, Restrict
  <2>4. ~Changing(t)'
    BY <2>1 DEF Changing, RegisterPCs, DeregisterPCs
  <2>5. /\ b \in DOMAIN registry /\ b \in capabilities
        /\ registry[b] = "mailbox" => b \in DOMAIN mailboxes
    BY <1>1, <1>2, <1>6 DEF AutoRegisterLease, Halfway
  <2>6. b \in DOMAIN last_heartbeat' /\ b \in DOMAIN ttl_seconds'
    BY <2>2 DEF Put, SetDefault, Pop, Restrict
  <2>7. Agrees(b)'
    BY <1>6, <2>5, <2>6 DEF AutoRegisterLease, Agrees
  <2> QED
    BY <1>1, <1>2, <2>1, <2>3, <2>4, <2>7, IdleHalfway, ChangeGoesOn
<1> QED
  BY <1>3, <1>4, <1>5, <1>6

LEMMA DeregisterAgrees ==
  ASSUME AInv, OneChange, NEW t \in Threads,
         DeregisterCapabilities(t) \/ DeregisterLease(t) \/ DeregisterMailbox(t)
  PROVE  FreeAgree' /\ AllHalfway' /\ HalfEvicted'
<1>1. PICK b : b = req[t].agent
  OBVIOUS
<1>2. TypeOK /\ Halfway(t) /\ Changing(t) /\ sweep' = sweep
  BY DEF AInv, AllHalfway, Changing, DeregisterPCs, DeregisterCapabilities, DeregisterLease,
         DeregisterMailbox
<1>3. CASE DeregisterCapabilities(t)
  <2>1. OnlyMoves(t) /\ req'[t] = req[t] /\ pc'[t] = "dereg_lease"
    BY <1>2, <1>3, GotoMoves DEF DeregisterCapabilities
  <2>2. capabilities' = capabilities \ {b}
    BY <1>1, <1>3 DEF DeregisterCapabilities
  <2>3. \A a \in Agents \ {b} : RowKept(a)
    BY <1>3, <2>2 DEF DeregisterCapabilities, RowKept, SameAt
  <2>4. Halfway(t)'
    BY <1>1, <1>2, <1>3, <2>1, <2>2
       DEF DeregisterCapabilities, Halfway, RegisterPCs, DeregisterPCs
  <2>5. Changing(t)'
    BY <2>1 DEF Changing, DeregisterPCs
  <2> QED
    BY <1>1, <1>2, <2>1, <2>3, <2>4, <2>5, ChangeGoesOn
<1>4. CASE DeregisterLease(t)
  <2>1. OnlyMoves(t) /\ req'[t] = req[t] /\ pc'[t] = "dereg_mailbox"
    BY <1>2, <1>4, GotoMoves DEF DeregisterLease
  <2>2. last_heartbeat' = Pop(last_heartbeat, b) /\ ttl_seconds' = Pop(ttl_seconds, b)
    BY <1>1, <1>4 DEF DeregisterLease
  <2>3. \A a \in Agents \ {b} : RowKept(a)
    BY <1>4, <2>2 DEF DeregisterLease, RowKept, SameAt, Put, SetDefault, Pop, Restrict
  <2>4. b \notin DOMAIN last_heartbeat' /\ b \notin DOMAIN ttl_seconds'
    BY <2>2 DEF Put, SetDefault, Pop, Restrict
  <2>5. Halfway(t)'
    BY <1>1, <1>2, <1>4, <2>1, <2>4
       DEF DeregisterLease, Halfway, RegisterPCs, DeregisterPCs
  <2>6. Changing(t)'
    BY <2>1 DEF Changing, DeregisterPCs
  <2> QED
    BY <1>1, <1>2, <2>1, <2>3, <2>5, <2>6, ChangeGoesOn
<1>5. CASE DeregisterMailbox(t)
  <2>1. OnlyMoves(t) /\ pc'[t] = "idle"
    BY <1>2, <1>5, BeginMoves DEF DeregisterMailbox, Finish
  <2>2. mailboxes' = Pop(mailboxes, b)
    BY <1>1, <1>5 DEF DeregisterMailbox, PopMailbox
  <2>3. \A a \in Agents \ {b} : RowKept(a)
    BY <1>5, <2>2 DEF DeregisterMailbox, RowKept, SameAt, Put, SetDefault, Pop, Restrict
  <2>4. ~Changing(t)'
    BY <2>1 DEF Changing, RegisterPCs, DeregisterPCs
  <2>5. b \notin DOMAIN registry /\ b \notin capabilities /\ b \notin DOMAIN last_heartbeat
        /\ b \notin DOMAIN ttl_seconds
    BY <1>1, <1>2, <1>5 DEF DeregisterMailbox, Halfway, DeregisterPCs
  <2>6. b \notin DOMAIN mailboxes'
    BY <2>2 DEF Put, SetDefault, Pop, Restrict
  <2>7. Agrees(b)'
    BY <1>5, <2>5, <2>6 DEF DeregisterMailbox, Agrees
  <2> QED
    BY <1>1, <1>2, <2>1, <2>3, <2>4, <2>7, IdleHalfway, ChangeGoesOn
<1> QED
  BY <1>3, <1>4, <1>5

LEMMA EnqueueAgrees ==
  ASSUME AInv, OneChange, NEW t \in Threads, Enqueue(t)
  PROVE  FreeAgree' /\ AllHalfway' /\ HalfEvicted'
<1>1. PICK b : b = req[t].agent
  OBVIOUS
<1>2. TypeOK /\ Halfway(t) /\ Changing(t) /\ sweep' = sweep
  BY DEF AInv, AllHalfway, Changing, Enqueue
<1>3. OnlyMoves(t) /\ pc'[t] = "send_traffic"
  BY <1>2, BeginMoves DEF Enqueue
<1>4. DOMAIN mailboxes' = DOMAIN mailboxes \cup {b}
  BY <1>1 DEF Enqueue, SetDefault, Put
<1>5. \A a \in Agents \ {b} : RowKept(a)
  BY <1>4 DEF Enqueue, RowKept, SameAt
<1>6. ~Changing(t)'
  BY <1>3 DEF Changing, RegisterPCs, DeregisterPCs
<1>7. b \in DOMAIN registry /\ Agrees(b)
  BY <1>1, <1>2 DEF Enqueue, Halfway
<1>8. Agrees(b)'
  BY <1>4, <1>7 DEF Enqueue, Agrees
<1> QED
  BY <1>1, <1>2, <1>3, <1>5, <1>6, <1>8, IdleHalfway, ChangeGoesOn

\* Polls, and the rest of a send, change no row.
LEMMA LookingAgrees ==
  ASSUME AInv, NEW t \in Threads,
         \/ Route(t) \/ Dial(t) \/ RecordTraffic(t) \/ PollHeartbeat(t) \/ PollEnter(t)
         \/ PollWake(t) \/ PollTimeout(t) \/ PollReply(t)
  PROVE  FreeAgree' /\ AllHalfway' /\ HalfEvicted'
<1> USE DEF Changing, RegisterPCs, DeregisterPCs
<1>1. TypeOK
  BY DEF AInv
<1>2. CASE Route(t) \/ Dial(t) \/ RecordTraffic(t) \/ PollReply(t)
  <2>1. \E place \in {"idle", "send_dial", "send_traffic"} : \E r : Begin(t, place, r)
    BY <1>2 DEF Route, Dial, RecordTraffic, PollReply, Finish
  <2>2. OnlyMoves(t) /\ pc'[t] \in {"idle", "send_dial", "send_traffic"}
    BY <1>1, <2>1, BeginMoves
  <2>3. ~Changing(t) /\ sweep' = sweep /\ \A a \in Agents : RowKept(a)
    BY <1>2 DEF Route, Dial, RecordTraffic, PollReply, RowKept, SameAt, tables
  <2> QED
    BY <2>2, <2>3, ThreadLooks DEF OnlyMoves
<1>3. CASE PollHeartbeat(t)
  <2>1. OnlyMoves(t) /\ pc'[t] = "poll_enter"
    BY <1>1, <1>3, GotoMoves DEF PollHeartbeat
  <2>2. DOMAIN last_heartbeat' = DOMAIN last_heartbeat
    BY <1>1, <1>3 DEF TypeOK, TablesOK, PollHeartbeat, Put
  <2>3. ~Changing(t) /\ sweep' = sweep /\ \A a \in Agents : RowKept(a)
    BY <1>3, <2>2 DEF PollHeartbeat, RowKept, SameAt
  <2> QED
    BY <2>1, <2>3, ThreadLooks DEF OnlyMoves
<1>4. CASE PollEnter(t) \/ PollWake(t) \/ PollTimeout(t)
  <2>1. pc' = pc \/ \E place \in {"poll_wait", "poll_reply"} : Goto(t, place)
    BY <1>4 DEF PollEnter, PollWake, PollTimeout, TakeAll
  <2>2. req' = req
    BY <1>4 DEF PollEnter, PollWake, PollTimeout, TakeAll
  <2>3. ~Changing(t)
    BY <1>4 DEF PollEnter, PollWake, PollTimeout
  <2>4. OnlyMoves(t) /\ (pc' = pc \/ pc'[t] \in {"poll_wait", "poll_reply"})
    BY <1>1, <2>1, <2>2, GotoMoves DEF OnlyMoves
  <2>5. ~Changing(t)'
    BY <2>3, <2>4
  <2>6. DOMAIN mailboxes' = DOMAIN mailboxes
    BY <1>4 DEF PollEnter, PollWake, PollTimeout, TakeAll, Put, tables
  <2>7. sweep' = sweep /\ \A a \in Agents : RowKept(a)
    BY <1>4, <2>6 DEF PollEnter, PollWake, PollTimeout, TakeAll, RowKept, SameAt, tables
  <2> QED
    BY <2>3, <2>4, <2>5, <2>7, ThreadLooks DEF OnlyMoves
<1> QED
  BY <1>2, <1>3, <1>4

\* A change begins at an agent in agreement.
LEMMA ChangeStarts ==
  ASSUME AInv, OneChange', NEW t \in Threads, ~Changing(t), Changing(t)', OnlyMoves(t), sweep' = sweep,
         NEW b \in Agents, req'[t].agent = b, \A a \in Agents \ {b} : RowKept(a),
         Agrees(b) => Halfway(t)'
  PROVE  FreeAgree' /\ AllHalfway' /\ HalfEvicted'
<1>1. /\ \A u \in Threads \ {t} : Changing(u) => req[u].agent # b
      /\ Evicting => sweep.agent # b
  BY ChangeBegins DEF OnlyMoves
<1>2. Agrees(b)
  BY <1>1 DEF AInv, FreeAgree, Free
<1> QED
  BY <1>1, <1>2, ThreadChanges DEF OnlyMoves

LEMMA StartAgrees ==
  ASSUME AInv, OneChange', NEW t \in Threads, StartRequest(t)
  PROVE  FreeAgree' /\ AllHalfway' /\ HalfEvicted'
<1> USE DEF Changing, RegisterPCs, DeregisterPCs
<1>1. PICK caller \in Callers, b \in Agents :
        \/ \E kind \in Kinds, ttl \in Ttls \cup {NotGiven} : StartRegister(t, caller, b, kind, ttl)
        \/ StartDeregister(t, caller, b)
        \/ \E recipient \in Agents \cup {Nobody} : StartSend(t, caller, b, recipient)
        \/ StartPoll(t, caller, b)
  BY DEF StartRequest
<1>2. TypeOK /\ pc[t] = "idle" /\ ~Changing(t) /\ sweep' = sweep
  BY <1>1 DEF AInv, StartRegister, StartDeregister, StartSend, StartPoll
<1>3. ASSUME NEW kind \in Kinds, NEW ttl \in Ttls \cup {NotGiven}, StartRegister(t, caller, b, kind, ttl)
      PROVE  FreeAgree' /\ AllHalfway' /\ HalfEvicted'
  <2> DEFINE r == [NoRequest EXCEPT !.caller = caller, !.agent = b, !.kind = kind,
                                    !.ttl = ttl, !.isNew = b \notin DOMAIN registry]
  <2>1. r.agent = b /\ (r.isNew <=> b \notin DOMAIN registry)
    BY DEF NoRequest
  <2>2. Begin(t, "reg_registry", r)
    BY <1>3 DEF StartRegister
  <2> HIDE DEF r
  <2>3. OnlyMoves(t) /\ pc'[t] = "reg_registry" /\ req'[t] = r
    BY <1>2, <2>2, BeginMoves
  <2>4. ttl_seconds' = ttl_seconds /\ \A a \in Agents : RowKept(a)
    BY <1>3 DEF StartRegister, RowKept, SameAt, tables
  <2>5. Agrees(b) => Halfway(t)'
    BY <2>1, <2>3, <2>4 DEF Halfway, Agrees
  <2> QED
    BY <1>2, <2>1, <2>3, <2>4, <2>5, ChangeStarts
<1>4. CASE StartDeregister(t, caller, b)
  <2> DEFINE r == [NoRequest EXCEPT !.caller = caller, !.agent = b]
  <2>1. r.agent = b
    BY DEF NoRequest
  <2>2. Begin(t, "dereg_capabilities", r)
    BY <1>4 DEF StartDeregister
  <2> HIDE DEF r
  <2>3. OnlyMoves(t) /\ pc'[t] = "dereg_capabilities" /\ req'[t] = r
    BY <1>2, <2>2, BeginMoves
  <2>4. \A a \in Agents \ {b} : RowKept(a)
    BY <1>4, OthersInDict DEF StartDeregister, RowKept
  <2>5. b \notin DOMAIN registry'
    BY <1>4 DEF StartDeregister, Pop, Restrict
  <2>6. Halfway(t)'
    BY <2>1, <2>3, <2>5 DEF Halfway
  <2> QED
    BY <1>2, <2>1, <2>3, <2>4, <2>6, ChangeStarts
<1>5. ASSUME NEW recipient \in Agents \cup {Nobody}, StartSend(t, caller, b, recipient)
      PROVE  FreeAgree' /\ AllHalfway' /\ HalfEvicted'
  <2> DEFINE r == [NoRequest EXCEPT !.caller = caller, !.agent = recipient]
  <2>1. r.agent = recipient
    BY DEF NoRequest
  <2>2. \/ \E place \in {"send_traffic", "send_route"} : \E q : Begin(t, place, q)
        \/ recipient \in DOMAIN registry /\ Begin(t, "send_enqueue", r)
    BY <1>5 DEF StartSend
  <2> HIDE DEF r
  <2>3. registry' = registry /\ \A a \in Agents : RowKept(a)
    BY <1>5 DEF StartSend, RowKept, SameAt, tables
  <2>4. CASE \E place \in {"send_traffic", "send_route"} : \E q : Begin(t, place, q)
    <3>1. OnlyMoves(t) /\ pc'[t] \in {"send_traffic", "send_route"}
      BY <1>2, <2>4, BeginMoves
    <3> QED
      BY <1>2, <2>3, <3>1, ThreadLooks DEF OnlyMoves
  <2>5. CASE recipient \in DOMAIN registry /\ Begin(t, "send_enqueue", r)
    <3>1. OnlyMoves(t) /\ pc'[t] = "send_enqueue" /\ req'[t] = r
      BY <1>2, <2>5, BeginMoves
    <3>2. recipient \in Agents
      BY <1>2, <2>5 DEF TypeOK, TablesOK, IsDict
    <3>3. Agrees(recipient) => Agrees(recipient)'
      BY <2>3, <3>2, AgreesKept
    <3>4. Agrees(recipient) => Halfway(t)'
      BY <2>1, <2>3, <2>5, <3>1, <3>3 DEF Halfway
    <3> QED
      BY <1>2, <2>1, <2>3, <3>1, <3>2, <3>4, ChangeStarts
  <2> QED
    BY <2>2, <2>4, <2>5
<1>6. CASE StartPoll(t, caller, b)
  <2> DEFINE r == [NoRequest EXCEPT !.caller = caller, !.agent = b]
  <2>1. r.agent = b
    BY DEF NoRequest
  <2>2. Begin(t, "poll_heartbeat", r) \/ Begin(t, "auto_registry", r)
    BY <1>6 DEF StartPoll
  <2> HIDE DEF r
  <2>3. OnlyMoves(t) /\ pc'[t] \in {"poll_heartbeat", "auto_registry"} /\ req'[t] = r
    BY <1>2, <2>2, BeginMoves
  <2>4. \A a \in Agents : RowKept(a)
    BY <1>6 DEF StartPoll, RowKept, SameAt, tables
  <2>5. Halfway(t)'
    BY <2>3 DEF Halfway
  <2>6. CASE Changing(t)'
    BY <1>2, <2>1, <2>3, <2>4, <2>5, <2>6, ChangeStarts
  <2>7. CASE ~Changing(t)'
    BY <1>2, <2>3, <2>4, <2>7, ThreadLooks DEF OnlyMoves
  <2> QED
    BY <2>6, <2>7
<1> QED
  BY <1>1, <1>3, <1>4, <1>5, <1>6

\* The sweep changes agent b, which no thread is changing.
LEMMA SweepChanges ==
  ASSUME AInv, UNCHANGED <<pc, req>>, NEW b, b = sweep.agent,
         \A a \in Agents \ {b} : RowKept(a),
         \A t \in Threads : Changing(t) => req[t].agent # b,
         Evicting' => sweep'.agent = b, HalfEvicted', ~Evicting' => Agrees(b)'
  PROVE  FreeAgree' /\ AllHalfway' /\ HalfEvicted'
<1>1. ASSUME NEW a \in Agents, Free(a)'
      PROVE  Agrees(a)'
  <2>1. CASE a = b
    BY <1>1, <2>1 DEF Free
  <2>2. CASE a # b
    <3>1. Free(a)
      BY <1>1, <2>2 DEF Free, Changing
    <3> QED
      BY <2>2, <3>1, AgreesKept DEF AInv, FreeAgree
  <2> QED
    BY <2>1, <2>2
<1>2. ASSUME NEW u \in Threads
      PROVE  Halfway(u)'
  <2>1. CASE Changing(u)
    BY <2>1, ChangedAgents, HalfwayKept DEF AInv, AllHalfway
  <2>2. CASE ~Changing(u)
    <3>1. ~Changing(u)'
      BY <2>2 DEF Changing
    <3> QED
      BY <3>1, IdleHalfway
  <2> QED
    BY <2>1, <2>2
<1> QED
  BY <1>1, <1>2 DEF FreeAgree, AllHalfway

\* The sweep reads, and perhaps decides to evict.
LEMMA SweepLooks ==
  ASSUME AInv, UNCHANGED <<pc, req>>, \A a \in Agents : RowKept(a), ~Evicting,
         sweep'.pc \in {"idle", "snapshot", "scan", "evict_registry"}
  PROVE  FreeAgree' /\ AllHalfway' /\ HalfEvicted'
<1>1. ASSUME NEW a \in Agents, Free(a)'
      PROVE  Agrees(a)'
  <2>1. Free(a)
    BY <1>1 DEF Free, Changing
  <2> QED
    BY <2>1, AgreesKept DEF AInv, FreeAgree
<1>2. ASSUME NEW u \in Threads
      PROVE  Halfway(u)'
  <2>1. CASE Changing(u)
    BY <2>1, ChangedAgents, HalfwayKept DEF AInv, AllHalfway
  <2>2. CASE ~Changing(u)
    <3>1. ~Changing(u)'
      BY <2>2 DEF Changing
    <3> QED
      BY <3>1, IdleHalfway
  <2> QED
    BY <2>1, <2>2
<1>3. HalfEvicted'
  BY DEF HalfEvicted
<1> QED
  BY <1>1, <1>2, <1>3 DEF FreeAgree, AllHalfway

\* The sweep's own sections, in their order.
LEMMA SweepAgrees ==
  ASSUME AInv, OneChange, SweepStep
  PROVE  FreeAgree' /\ AllHalfway' /\ HalfEvicted'
<1>1. PICK b : b = sweep.agent
  OBVIOUS
<1>2. UNCHANGED <<pc, req>>
  BY DEF SweepStep, SweepBegin, SweepSnapshot, SweepRead, SweepEnd, EvictRegistry,
         EvictCapabilities, EvictLease, EvictMailbox, threads
<1>3. sweep \in [pc : SweepPCs, now : Nat, todo : {sweep.todo}, agent : Agents \cup {Nobody}]
  BY DEF AInv, TypeOK, SweepOK
<1>4. CASE SweepBegin \/ SweepSnapshot \/ (\E a \in Agents : SweepRead(a)) \/ SweepEnd
  <2>1. ~Evicting /\ UNCHANGED tables
    BY <1>4 DEF SweepBegin, SweepSnapshot, SweepRead, SweepEnd, Evicting
  <2>2. \A a \in Agents : RowKept(a)
    BY <2>1 DEF RowKept, SameAt, tables
  <2>3. sweep'.pc \in {"idle", "snapshot", "scan", "evict_registry"}
    <3>1. CASE SweepBegin \/ SweepSnapshot
      <4>1. \/ sweep' = [sweep EXCEPT !.pc = "snapshot", !.now = clock]
            \/ sweep' = [sweep EXCEPT !.pc = "scan", !.todo = registry]
        BY <3>1 DEF SweepBegin, SweepSnapshot
      <4> QED
        BY <1>3, <4>1
    <3>2. ASSUME NEW a \in Agents, SweepRead(a)
          PROVE  sweep'.pc \in {"scan", "evict_registry"}
      <4>1. sweep.pc = "scan"
        BY <3>2 DEF SweepRead
      <4>2. CASE Expired(a)
        <5>1. sweep' = [sweep EXCEPT !.pc = "evict_registry", !.agent = a,
                                     !.todo = Pop(sweep.todo, a)]
          BY <3>2, <4>2 DEF SweepRead
        <5> QED
          BY <1>3, <5>1
      <4>3. CASE ~Expired(a)
        <5>1. sweep' = [sweep EXCEPT !.todo = Pop(sweep.todo, a)]
          BY <3>2, <4>3 DEF SweepRead
        <5> QED
          BY <1>3, <4>1, <5>1
      <4> QED
        BY <4>2, <4>3
    <3>3. CASE SweepEnd
      BY <3>3 DEF SweepEnd, SweepIdle
    <3> QED
      BY <1>4, <3>1, <3>2, <3>3
  <2> QED
    BY <1>2, <2>1, <2>2, <2>3, SweepLooks
<1>5. ASSUME EvictRegistry \/ EvictCapabilities \/ EvictLease \/ EvictMailbox
      PROVE  Evicting /\ \A t \in Threads : Changing(t) => req[t].agent # b
  BY <1>1, <1>5 DEF EvictRegistry, EvictCapabilities, EvictLease, EvictMailbox, Evicting, OneChange
<1>6. CASE EvictRegistry
  <2>1. sweep'.pc = "evict_capabilities" /\ sweep'.agent = b
    BY <1>1, <1>3, <1>6 DEF EvictRegistry
  <2>2. registry' = Pop(registry, b)
    BY <1>1, <1>6 DEF EvictRegistry
  <2>3. \A a \in Agents \ {b} : RowKept(a)
    BY <1>6, <2>2, OthersInDict DEF EvictRegistry, RowKept
  <2>4. b \notin DOMAIN registry'
    BY <2>2 DEF Pop, Restrict
  <2>5. HalfEvicted' /\ Evicting'
    BY <2>1, <2>4 DEF HalfEvicted, Evicting
  <2> QED
    BY <1>1, <1>2, <1>5, <1>6, <2>1, <2>3, <2>5, SweepChanges
<1>7. CASE EvictCapabilities
  <2>1. sweep'.pc = "evict_lease" /\ sweep'.agent = b
    BY <1>1, <1>3, <1>7 DEF EvictCapabilities
  <2>2. b \notin DOMAIN registry' /\ b \notin capabilities'
    BY <1>1, <1>7 DEF EvictCapabilities, AInv, HalfEvicted
  <2>3. \A a \in Agents \ {b} : RowKept(a)
    BY <1>1, <1>7 DEF EvictCapabilities, RowKept, SameAt
  <2>4. HalfEvicted' /\ Evicting'
    BY <2>1, <2>2 DEF HalfEvicted, Evicting
  <2> QED
    BY <1>1, <1>2, <1>5, <1>7, <2>1, <2>3, <2>4, SweepChanges
<1>8. CASE EvictLease
  <2>1. sweep'.pc = "evict_mailbox" /\ sweep'.agent = b
    BY <1>1, <1>3, <1>8 DEF EvictLease
  <2>2. last_heartbeat' = Pop(last_heartbeat, b) /\ ttl_seconds' = Pop(ttl_seconds, b)
    BY <1>1, <1>8 DEF EvictLease
  <2>3. b \notin DOMAIN registry' /\ b \notin capabilities'
    BY <1>1, <1>8 DEF EvictLease, AInv, HalfEvicted
  <2>4. b \notin DOMAIN last_heartbeat' /\ b \notin DOMAIN ttl_seconds'
    BY <2>2 DEF Pop, Restrict
  <2>5. \A a \in Agents \ {b} : RowKept(a)
    BY <1>8, <2>2 DEF EvictLease, RowKept, SameAt, Pop, Restrict
  <2>6. HalfEvicted' /\ Evicting'
    BY <2>1, <2>3, <2>4 DEF HalfEvicted, Evicting
  <2> QED
    BY <1>1, <1>2, <1>5, <1>8, <2>1, <2>5, <2>6, SweepChanges
<1>9. CASE EvictMailbox
  <2>1. sweep'.pc = "scan"
    BY <1>3, <1>9 DEF EvictMailbox
  <2>2. mailboxes' = Pop(mailboxes, b)
    BY <1>1, <1>9 DEF EvictMailbox, PopMailbox
  <2>3. b \notin DOMAIN registry /\ b \notin capabilities /\ b \notin DOMAIN last_heartbeat
        /\ b \notin DOMAIN ttl_seconds
    BY <1>1, <1>9 DEF EvictMailbox, AInv, HalfEvicted
  <2>4. b \notin DOMAIN mailboxes'
    BY <2>2 DEF Pop, Restrict
  <2>5. \A a \in Agents \ {b} : RowKept(a)
    BY <1>9, <2>2 DEF EvictMailbox, RowKept, SameAt, Pop, Restrict
  <2>6. HalfEvicted' /\ ~Evicting'
    BY <2>1 DEF HalfEvicted, Evicting
  <2>7. Agrees(b)'
    BY <1>9, <2>3, <2>4 DEF EvictMailbox, Agrees
  <2> QED
    BY <1>1, <1>2, <1>5, <1>9, <2>5, <2>6, <2>7, SweepChanges
<1> QED
  BY <1>4, <1>6, <1>7, <1>8, <1>9 DEF SweepStep

\* Time passes, or nothing happens.
LEMMA StandstillAgrees ==
  ASSUME AInv, UNCHANGED <<registry, mailboxes, capabilities, last_heartbeat, ttl_seconds,
                           pc, req, sweep>>
  PROVE  FreeAgree' /\ AllHalfway' /\ HalfEvicted'
<1>1. \A a \in Agents : Agrees(a)' <=> Agrees(a)
  BY DEF Agrees
<1>2. \A a \in Agents : Free(a)' <=> Free(a)
  BY DEF Free, Changing, Evicting
<1>3. \A u \in Threads : Halfway(u)' <=> Halfway(u)
  BY DEF Halfway, Agrees
<1>4. HalfEvicted'
  BY DEF AInv, HalfEvicted
<1> QED
  BY <1>1, <1>2, <1>3, <1>4 DEF AInv, FreeAgree, AllHalfway

LEMMA RestartAgrees ==
  ASSUME Restart
  PROVE  FreeAgree' /\ AllHalfway' /\ HalfEvicted'
<1>1. \A u \in Threads : Halfway(u)'
  BY IdleHalfway DEF Restart, Changing, RegisterPCs, DeregisterPCs
<1>2. \A a \in Agents : Agrees(a)'
  BY DEF Restart, EmptyDict, Agrees
<1>3. HalfEvicted'
  BY DEF Restart, SweepIdle, HalfEvicted
<1> QED
  BY <1>1, <1>2, <1>3 DEF FreeAgree, AllHalfway

LEMMA InitAgrees ==
  ASSUME Init
  PROVE  FreeAgree /\ AllHalfway /\ HalfEvicted
<1>1. \A u \in Threads : Halfway(u)
  BY IdleHalfway DEF Init, Changing, RegisterPCs, DeregisterPCs
<1>2. \A a \in Agents : Agrees(a)
  BY DEF Init, EmptyDict, Agrees
<1>3. HalfEvicted
  BY DEF Init, SweepIdle, HalfEvicted
<1> QED
  BY <1>1, <1>2, <1>3 DEF FreeAgree, AllHalfway

LEMMA NextAgrees ==
  ASSUME AInv, OneChange, OneChange', [Next]_vars
  PROVE  AInv'
<1>1. TypeOK'
  BY NextOK DEF AInv
<1>2. CASE Tick \/ UNCHANGED vars
  BY <1>1, <1>2, StandstillAgrees DEF Tick, vars, tables, threads, AInv
<1>3. ASSUME NEW t \in Threads, StartRequest(t) \/ HandlerStep(t) \/ PollTimeout(t)
      PROVE  FreeAgree' /\ AllHalfway' /\ HalfEvicted'
  BY <1>3, StartAgrees, RegisterAgrees, AutoRegisterAgrees, DeregisterAgrees, EnqueueAgrees,
     LookingAgrees DEF HandlerStep
<1> QED
  BY <1>1, <1>2, <1>3, SweepAgrees, RestartAgrees DEF Next, AInv

\* When nothing is in progress every agent is free.
LEMMA QuietAgrees ==
  ASSUME AInv
  PROVE  TablesAgree /\ EveryAgentBearsTtl
<1> SUFFICES ASSUME Quiet PROVE TablesAgree /\ EveryAgentBearsTtl
  BY DEF TablesAgree, EveryAgentBearsTtl
<1>1. \A a \in Agents : Agrees(a)
  BY DEF Quiet, AInv, FreeAgree, Free, Changing, Evicting, RegisterPCs, DeregisterPCs
<1>2. /\ DOMAIN registry \subseteq Agents /\ DOMAIN mailboxes \subseteq Agents
      /\ capabilities \subseteq Agents
      /\ DOMAIN last_heartbeat \subseteq Agents /\ DOMAIN ttl_seconds \subseteq Agents
  BY DEF AInv, TypeOK, TablesOK, IsDict
<1> QED
  BY <1>1, <1>2 DEF Agrees, TablesAgree, EveryAgentBearsTtl

LEMMA AgreementInvariance == Spec /\ []OneChange => []AInv
<1>1. Init => AInv
  BY InitOK, InitAgrees DEF AInv
<1>2. AInv /\ OneChange /\ OneChange' /\ [Next]_vars => AInv'
  BY NextAgrees
<1> QED
  BY <1>1, <1>2, PTL DEF Spec

\* Whatever the handlers, the sweep and restarts do, the five tables agree on who is
\* registered whenever no request is in progress, as long as no two changes of the
\* same agent overlap.  Changes of different agents may overlap at every lock
\* section, and waiting polls, poll heartbeats, dials and sweep reads may overlap
\* anything: what breaks the agreement is two changes of one agent, nothing else.
THEOREM ChangesInTurnAgree == Spec /\ []OneChange => []TablesAgree
BY AgreementInvariance, QuietAgrees, PTL

\* ADR 0006's "every agent bears a ttl_seconds value" is true of the code under the
\* same condition, and so fails only where a registration overlaps another change of
\* its agent: a refresh whose is_new is stale, or an automatic registration that a
\* deletion crosses.
THEOREM ChangesInTurnBearTtl == Spec /\ []OneChange => []EveryAgentBearsTtl
BY AgreementInvariance, QuietAgrees, PTL

=============================================================================
