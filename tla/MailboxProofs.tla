---------------------------- MODULE MailboxProofs ----------------------------
(***************************************************************************)
(* Broker implements AbstractMailbox, for every set of agents and threads: *)
(* each step of the broker is a step of the abstract mailbox or changes    *)
(* nothing it can see.                                                     *)
(***************************************************************************)
EXTENDS BrokerMailbox, DeliveryProofs

-----------------------------------------------------------------------------
(* What the abstract mailbox sees.                                         *)

View == <<accepted, Queue, Carried, received, lost>>

AbstractStep == Promise!Next \/ UNCHANGED View

LEMMA ViewIsVars == UNCHANGED View <=> UNCHANGED Promise!vars
BY DEF View, Promise!vars

LEMMA SameRange == \A s : Promise!Range(s) = Range(s)
BY DEF Range, Promise!Range

\* A thread carries nothing exactly when its batch is empty.
LEMMA CarriesNothing ==
  \A t \in Threads : Carried[t] = Promise!Nothing <=> batch[t] = <<>>
BY DEF Carried, Promise!Nothing

\* Carried is settled by the batches and by whom the threads with a batch serve.
LEMMA CarriedKept ==
  ASSUME UNCHANGED batch,
         \A t \in Threads : batch[t] # <<>> => req'[t].agent = req[t].agent
  PROVE  Carried' = Carried
BY DEF Carried

\* An empty mailbox is as good as none.
LEMMA QueueKept ==
  ASSUME NEW a, mailboxes' \in {mailboxes, SetDefault(mailboxes, a, <<>>)}
  PROVE  Queue' = Queue
BY DEF Queue, SetDefault, Put

\* In a step that moves no message the abstract mailbox stutters, unless the
\* request of a thread with a batch changes.
LEMMA MoveStutters ==
  ASSUME DInv, NEW t \in Threads, pc[t] # "poll_reply",
         \A u \in Threads \ {t} : req'[u] = req[u], NEW a,
         mailboxes' \in {mailboxes, SetDefault(mailboxes, a, <<>>)},
         UNCHANGED <<batch, received, lost, accepted>>
  PROVE  UNCHANGED View
<1>1. \A u \in Threads : batch[u] # <<>> => req'[u].agent = req[u].agent
  BY DEF DInv, BatchesOfReplies
<1> QED
  BY <1>1, CarriedKept, QueueKept DEF View

LEMMA IdleStutters ==
  ASSUME UNCHANGED <<mailboxes, req, batch, received, lost, accepted>>
  PROVE  UNCHANGED View
BY DEF View, Queue, Carried

-----------------------------------------------------------------------------
(* The steps that move messages.                                           *)

LEMMA EnqueueAccepts ==
  ASSUME DInv, NEW t \in Threads, Enqueue(t)
  PROVE  Promise!Next
<1> DEFINE a == req[t].agent
<1>1. a \in Agents
  BY DEF DInv, TypeOK, ThreadsOK, Enqueue
<1>2. Queue' = [Queue EXCEPT ![a] = Append(@, accepted')]
  BY <1>1 DEF Enqueue, Queue, SetDefault, Put
<1>3. Carried' = Carried
  <2>1. \A u \in Threads : batch[u] # <<>> => req'[u].agent = req[u].agent
    BY DEF DInv, TypeOK, ThreadsOK, BatchesOfReplies, Enqueue, Begin
  <2> QED
    BY <2>1, CarriedKept DEF Enqueue
<1>4. accepted' = accepted + 1 /\ UNCHANGED <<received, lost>>
  BY DEF Enqueue
<1>5. Promise!Accept(a)
  BY <1>2, <1>3, <1>4 DEF Promise!Accept
<1> QED
  BY <1>1, <1>5 DEF Promise!Next

LEMMA TakeAllTakes ==
  ASSUME DInv, NEW t \in Threads, TakeAll(t), batch[t] = <<>>, req[t].agent \in Agents
  PROVE  AbstractStep
<1> DEFINE a == req[t].agent
<1>1. CASE a \in DOMAIN mailboxes /\ mailboxes[a] # <<>>
  <2>1. Carried[t] = Promise!Nothing /\ Queue[a] = mailboxes[a] /\ Queue[a] # <<>>
    BY <1>1, CarriesNothing DEF Queue
  <2>2. Queue' = [Queue EXCEPT ![a] = <<>>]
    BY <1>1 DEF TakeAll, Queue, Put
  <2>3. batch' = [batch EXCEPT ![t] = mailboxes[a]] /\ req' = req
    BY <1>1 DEF TakeAll
  <2>4. Carried' = [Carried EXCEPT ![t] = [agent |-> a, messages |-> Queue[a]]]
    BY <1>1, <2>1, <2>3 DEF Carried, DInv, TypeOK, ThreadsOK
  <2>5. UNCHANGED <<accepted, received, lost>>
    BY DEF TakeAll, history
  <2>6. Promise!Take(t, a)
    BY <2>1, <2>2, <2>4, <2>5 DEF Promise!Take
  <2> QED
    BY <2>6 DEF Promise!Next, AbstractStep
<1>2. CASE ~(a \in DOMAIN mailboxes /\ mailboxes[a] # <<>>)
  <2>1. batch' = batch
    BY <1>2 DEF TakeAll, DInv, TypeOK, ThreadsOK
  <2>2. Queue' = Queue
    BY <1>2 DEF TakeAll, Queue, Put
  <2>3. UNCHANGED <<req, accepted, received, lost>>
    BY DEF TakeAll, history
  <2> QED
    BY <2>1, <2>2, <2>3, CarriedKept DEF View, AbstractStep
<1> QED
  BY <1>1, <1>2

LEMMA PollReplyHands ==
  ASSUME DInv, NEW t \in Threads, PollReply(t)
  PROVE  AbstractStep
<1> DEFINE a == req[t].agent
<1>1. a \in Agents /\ Queue' = Queue /\ accepted' = accepted
  BY DEF DInv, TypeOK, ThreadsOK, PollReply, Queue, tables
<1>2. /\ batch' = [batch EXCEPT ![t] = <<>>]
      /\ req' = [req EXCEPT ![t] = NoRequest]
  BY DEF PollReply, Finish, Begin
<1>3. Carried' = [Carried EXCEPT ![t] = Promise!Nothing]
  BY <1>2 DEF Carried, Promise!Nothing, DInv, TypeOK, ThreadsOK
<1>4. CASE batch[t] # <<>>
  <2>1. Carried[t] = [agent |-> a, messages |-> batch[t]]
    BY <1>4 DEF Carried
  <2>2. Carried[t] # Promise!Nothing
    BY <1>4, CarriesNothing
  <2>3. \/ /\ received' = [received EXCEPT ![a] = @ \cup Range(batch[t])]
           /\ UNCHANGED lost
        \/ lost' = lost \cup Range(batch[t]) /\ UNCHANGED received
    BY DEF PollReply
  <2>4. Promise!Hand(t)
    BY <1>1, <1>3, <2>1, <2>2, <2>3, SameRange DEF Promise!Hand
  <2> QED
    BY <2>4 DEF Promise!Next, AbstractStep
<1>5. CASE batch[t] = <<>>
  <2>1. received' = received /\ lost' = lost
    BY <1>1, <1>5, RangeOfEmpty DEF PollReply, DInv, TypeOK, HistoryOK
  <2>2. Carried' = Carried
    BY <1>3, <1>5, CarriesNothing DEF Carried
  <2> QED
    BY <1>1, <2>1, <2>2 DEF View, AbstractStep
<1> QED
  BY <1>4, <1>5

LEMMA PopDiscards ==
  ASSUME DInv, NEW a \in Agents, PopMailbox(a), UNCHANGED <<batch, received, accepted>>,
         \A u \in Threads : req'[u] = req[u] \/ pc[u] # "poll_reply"
  PROVE  Promise!Next
<1>1. Queue' = [Queue EXCEPT ![a] = <<>>]
  BY DEF PopMailbox, Pop, Restrict, Queue
<1>2. lost' = lost \cup Range(Queue[a])
  BY RangeOfEmpty DEF PopMailbox, Queue
<1>3. Carried' = Carried
  BY CarriedKept DEF DInv, BatchesOfReplies
<1>4. Promise!Discard(a)
  BY <1>1, <1>2, <1>3, SameRange DEF Promise!Discard
<1> QED
  BY <1>4 DEF Promise!Next

LEMMA RestartCrashes ==
  ASSUME DInv, Restart
  PROVE  Promise!Next
<1>1. Queue' = [a \in Agents |-> <<>>]
  BY DEF Restart, Queue, EmptyDict
<1>2. Carried' = [t \in Threads |-> Promise!Nothing]
  BY DEF Restart, Carried, Promise!Nothing
<1>3. UNION {Range(Queue[a]) : a \in Agents} = InQueues
  <2>1. \A a \in Agents : \/ a \in DOMAIN mailboxes /\ Queue[a] = mailboxes[a]
                          \/ a \notin DOMAIN mailboxes /\ Range(Queue[a]) = {}
    BY RangeOfEmpty DEF Queue
  <2>2. DOMAIN mailboxes \subseteq Agents
    BY DEF DInv, TypeOK, TablesOK, IsDict
  <2> QED
    BY <2>1, <2>2 DEF InQueues
<1>4. UNION {Range(Carried[t].messages) : t \in Threads} = InBatches
  BY DEF Carried, InBatches
<1>5. /\ lost' = lost \cup InQueues \cup InBatches
      /\ UNCHANGED <<accepted, received>>
  BY DEF Restart
<1>6. Promise!Crash
  BY <1>1, <1>2, <1>3, <1>4, <1>5, SameRange DEF Promise!Crash
<1> QED
  BY <1>6 DEF Promise!Next

-----------------------------------------------------------------------------
(* The steps of the broker.                                                *)

LEMMA StartMaps ==
  ASSUME DInv, NEW t \in Threads, StartRequest(t)
  PROVE  AbstractStep
<1>1. pc[t] # "poll_reply" /\ \A u \in Threads \ {t} : req'[u] = req[u]
  BY StartBegins DEF DInv
<1>2. mailboxes' = mailboxes /\ UNCHANGED <<batch, received, lost, accepted>>
  BY DEF StartRequest, StartRegister, StartDeregister, StartSend, StartPoll,
         tables, history
<1> QED
  BY <1>1, <1>2, MoveStutters DEF AbstractStep

LEMMA RegisterMaps ==
  ASSUME DInv, NEW t \in Threads,
         \/ RegisterEndpoint(t) \/ RegisterMailbox(t)
         \/ RegisterCapabilities(t) \/ RegisterLease(t)
  PROVE  AbstractStep
<1>1. pc[t] # "poll_reply" /\ \A u \in Threads \ {t} : req'[u] = req[u]
  BY DEF DInv, TypeOK, ThreadsOK, RegisterEndpoint, RegisterMailbox,
         RegisterCapabilities, RegisterLease, Finish, Begin
<1>2. /\ mailboxes' \in {mailboxes, SetDefault(mailboxes, req[t].agent, <<>>)}
      /\ UNCHANGED <<batch, received, lost, accepted>>
  BY DEF RegisterEndpoint, RegisterMailbox, RegisterCapabilities, RegisterLease, history
<1> QED
  BY <1>1, <1>2, MoveStutters DEF AbstractStep

LEMMA DeregisterMaps ==
  ASSUME DInv, NEW t \in Threads,
         DeregisterCapabilities(t) \/ DeregisterLease(t) \/ DeregisterMailbox(t)
  PROVE  AbstractStep
<1>1. CASE DeregisterMailbox(t)
  <2>1. req[t].agent \in Agents
    BY <1>1, RequestFields DEF DInv, DeregisterMailbox
  <2>2. \A u \in Threads : req'[u] = req[u] \/ pc[u] # "poll_reply"
    BY <1>1 DEF DInv, TypeOK, ThreadsOK, DeregisterMailbox, Finish, Begin
  <2> QED
    BY <1>1, <2>1, <2>2, PopDiscards DEF DeregisterMailbox, AbstractStep
<1>2. CASE DeregisterCapabilities(t) \/ DeregisterLease(t)
  BY <1>2, IdleStutters DEF DeregisterCapabilities, DeregisterLease, history, AbstractStep
<1> QED
  BY <1>1, <1>2

LEMMA SendMaps ==
  ASSUME DInv, NEW t \in Threads,
         Enqueue(t) \/ Route(t) \/ Dial(t) \/ RecordTraffic(t)
  PROVE  AbstractStep
<1>1. CASE Enqueue(t)
  BY <1>1, EnqueueAccepts DEF AbstractStep
<1>2. CASE Route(t) \/ Dial(t) \/ RecordTraffic(t)
  <2>1. pc[t] # "poll_reply" /\ \A u \in Threads \ {t} : req'[u] = req[u]
    BY <1>2 DEF DInv, TypeOK, ThreadsOK, Route, Dial, RecordTraffic, Finish, Begin
  <2>2. mailboxes' = mailboxes /\ UNCHANGED <<batch, received, lost, accepted>>
    BY <1>2 DEF Route, Dial, RecordTraffic, tables, history
  <2> QED
    BY <2>1, <2>2, MoveStutters DEF AbstractStep
<1> QED
  BY <1>1, <1>2

LEMMA PollMoveMaps ==
  ASSUME DInv, NEW t \in Threads,
         \/ AutoRegisterEndpoint(t) \/ AutoRegisterMailbox(t)
         \/ AutoRegisterCapabilities(t) \/ AutoRegisterLease(t) \/ PollHeartbeat(t)
  PROVE  AbstractStep
<1>1. pc[t] # "poll_reply" /\ req' = req
  BY DEF AutoRegisterEndpoint, AutoRegisterMailbox, AutoRegisterCapabilities,
         AutoRegisterLease, PollHeartbeat
<1>2. /\ mailboxes' \in {mailboxes, SetDefault(mailboxes, req[t].agent, <<>>)}
      /\ UNCHANGED <<batch, received, lost, accepted>>
  BY DEF AutoRegisterEndpoint, AutoRegisterMailbox, AutoRegisterCapabilities,
         AutoRegisterLease, PollHeartbeat, history
<1> QED
  BY <1>1, <1>2, MoveStutters DEF AbstractStep

LEMMA PollTakeMaps ==
  ASSUME DInv, NEW t \in Threads, PollEnter(t) \/ PollWake(t) \/ PollTimeout(t)
  PROVE  AbstractStep
<1>1. pc[t] \in {"poll_enter", "poll_wait"}
  BY DEF PollEnter, PollWake, PollTimeout
<1>2. CASE TakeAll(t)
  <2>1. batch[t] = <<>> /\ req[t].agent \in Agents
    BY <1>1 DEF DInv, TypeOK, ThreadsOK, BatchesOfReplies
  <2> QED
    BY <1>2, <2>1, TakeAllTakes
<1>3. CASE UNCHANGED <<tables, req, batch, history>>
  BY <1>3, IdleStutters DEF tables, history, AbstractStep
<1> QED
  BY <1>2, <1>3 DEF PollEnter, PollWake, PollTimeout

LEMMA SweepMaps ==
  ASSUME DInv, SweepStep
  PROVE  AbstractStep
<1>1. CASE EvictMailbox
  <2>1. sweep.agent \in Agents
    BY <1>1 DEF EvictMailbox, DInv, TypeOK, SweepOK
  <2> QED
    BY <1>1, <2>1, PopDiscards DEF EvictMailbox, AbstractStep
<1>2. CASE ~EvictMailbox
  <2>1. UNCHANGED <<mailboxes, threads, history>>
    BY <1>2 DEF SweepStep, SweepBegin, SweepSnapshot, SweepRead, SweepEnd,
                EvictRegistry, EvictCapabilities, EvictLease, tables
  <2> QED
    BY <2>1, IdleStutters DEF threads, history, AbstractStep
<1> QED
  BY <1>1, <1>2

LEMMA InitMaps == Init => Promise!Init
BY DEF Init, EmptyDict, Queue, Carried, Promise!Init, Promise!Nothing

LEMMA NextMaps ==
  ASSUME DInv, [Next]_vars
  PROVE  AbstractStep
<1>1. ASSUME NEW t \in Threads, StartRequest(t) PROVE AbstractStep
  BY <1>1, StartMaps
<1>2. ASSUME NEW t \in Threads, HandlerStep(t) \/ PollTimeout(t) PROVE AbstractStep
  BY <1>2, RegisterMaps, DeregisterMaps, SendMaps, PollMoveMaps, PollTakeMaps,
     PollReplyHands DEF HandlerStep
<1>3. CASE SweepStep
  BY <1>3, SweepMaps
<1>4. CASE Tick \/ UNCHANGED vars
  BY <1>4, IdleStutters DEF Tick, vars, tables, threads, history, AbstractStep
<1>5. CASE Restart
  BY <1>5, RestartCrashes DEF AbstractStep
<1> QED
  BY <1>1, <1>2, <1>3, <1>4, <1>5 DEF Next

-----------------------------------------------------------------------------
(* The theorem.                                                            *)

\* The broker keeps the promise of AbstractMailbox: however registrations,
\* sends, polls, sweeps and restarts interleave, each agent has one queue that
\* grows at its end, is taken whole by one poll at a time, and is handed to that
\* agent alone; a message is lost only with its queue, its answer or the process.
THEOREM Refinement == Spec => KeepsPromise
<1>1. Init => Promise!Init
  BY InitMaps
<1>2. DInv /\ [Next]_vars => [Promise!Next]_Promise!vars
  BY NextMaps, ViewIsVars DEF AbstractStep
<1> QED
  BY <1>1, <1>2, DeliveryInvariant, PTL DEF Spec, KeepsPromise, Promise!Spec

=============================================================================
