----------------------------- MODULE PullProofs -----------------------------
(***************************************************************************)
(* Proofs about PullAgent, for any agents, requests and loops: types, no   *)
(* message waits for an executor that is gone, and every message that the  *)
(* broker accepts is in one place, however loops, replies and timeouts     *)
(* race.                                                                   *)
(***************************************************************************)
EXTENDS PullAgent, FiniteSetTheorems, SequenceTheorems, TLAPS

-----------------------------------------------------------------------------
(* The inductive invariant.                                                *)

\* The places a message can be in.
InQueue(m)    == m \in Range(Queue(Dest(m)))
InBatch(m, l) == m \in Range(batch[l])
InWork(m)     == m \in Range(submitted[Dest(m)])
InInbox(m)    == m \in inbox[Dest(m)]

\* Messages are nowhere but with the agent they are for.
Addressed ==
  /\ \A a \in Agents : \A m \in Range(Queue(a)) \cup Range(submitted[a]) \cup inbox[a] : Dest(m) = a
  /\ \A l \in Loops : \A m \in Range(batch[l]) : Dest(m) = Owner[l]

Distinct(q) == \A i, j \in DOMAIN q : q[i] = q[j] => i = j
NoDuplicates ==
  /\ \A a \in Agents : Distinct(Queue(a)) /\ Distinct(submitted[a])
  /\ \A l \in Loops : Distinct(batch[l])

\* A loop about to fill a slot has a reply at hand.
DeliversReply ==
  \A l \in Loops : place[l] = "deliver" => Head(batch[l]).kind = "reply"

\* What has been accepted is in one place, and nothing else is in any.
InOnePlace(m) ==
  /\ m \in accepted <=> \/ InQueue(m) \/ InWork(m) \/ InInbox(m) \/ Slotted(m) \/ m \in lost
                        \/ \E l \in Loops : InBatch(m, l)
  /\ InQueue(m) => ~InWork(m) /\ ~InInbox(m) /\ ~Slotted(m) /\ m \notin lost
  /\ InWork(m) => ~InInbox(m) /\ ~Slotted(m) /\ m \notin lost
  /\ InInbox(m) => ~Slotted(m) /\ m \notin lost
  /\ Slotted(m) => m \notin lost
  /\ \A l \in Loops : InBatch(m, l) =>
       /\ ~InQueue(m) /\ ~InWork(m) /\ ~InInbox(m) /\ ~Slotted(m) /\ m \notin lost
       /\ \A k \in Loops : InBatch(m, k) => k = l

Everywhere == \A m \in Messages : InOnePlace(m)

\* A request is posted once, handled once and replied to once.
Protocol ==
  \A r \in Requests :
    /\ Request(r) \in accepted => caller[r] \notin {"new", "send"}
    /\ Request(r) \in posts => caller[r] # "new" /\ Request(r) \notin accepted
    /\ Reply(r) \in accepted \cup posts \/ (\E h \in running : h.of = r) => InInbox(Request(r))
    /\ \A g, h \in running : g.of = r /\ h.of = r => g = h
    /\ \A h \in running : h.of = r => Reply(r) \notin accepted
    /\ Reply(r) \in posts => Reply(r) \notin accepted

Bookkeeping ==
  TypeOK /\ WorkHasExecutor /\ Addressed /\ NoDuplicates /\ DeliversReply /\ Everywhere /\ Protocol

-----------------------------------------------------------------------------
(* Sequences without duplicates.                                           *)

LEMMA EmptyQueue ==
  ASSUME NEW S
  PROVE  <<>> \in Seq(S) /\ Range(<<>>) = {} /\ Distinct(<<>>)
BY EmptySeq DEF Range, Distinct

LEMMA RangeInSet ==
  ASSUME NEW S, NEW q \in Seq(S)
  PROVE  /\ Range(q) \subseteq S
         /\ q = <<>> <=> Range(q) = {}
         /\ q # <<>> => Head(q) = q[1] /\ 1 \in DOMAIN q
<1>1. Len(q) \in Nat /\ DOMAIN q = 1 .. Len(q) /\ \A i \in 1 .. Len(q) : q[i] \in S
  BY LenProperties, ElementOfSeq
<1>2. q = <<>> <=> Len(q) = 0
  BY <1>1, EmptySeq
<1>3. q # <<>> => 1 \in DOMAIN q
  BY <1>1, <1>2
<1>4. Range(q) \subseteq S
  BY <1>1 DEF Range
<1>5. q = <<>> <=> Range(q) = {}
  BY <1>3, EmptyQueue DEF Range
<1>6. q # <<>> => Head(q) = q[1]
  OBVIOUS
<1> QED
  BY <1>3, <1>4, <1>5, <1>6

LEMMA AppendQueue ==
  ASSUME NEW S, NEW q \in Seq(S), NEW e \in S
  PROVE  /\ Append(q, e) \in Seq(S)
         /\ Range(Append(q, e)) = Range(q) \cup {e}
         /\ Distinct(q) /\ e \notin Range(q) => Distinct(Append(q, e))
<1> DEFINE p == Append(q, e)
<1>1. /\ p \in Seq(S) /\ Len(p) = Len(q) + 1 /\ Len(q) \in Nat
      /\ \A i \in 1 .. Len(q) : p[i] = q[i]
      /\ p[Len(q) + 1] = e
  BY AppendProperties, LenProperties
<1>2. DOMAIN p = 1 .. Len(q) + 1 /\ DOMAIN q = 1 .. Len(q)
  BY <1>1, LenProperties
<1> HIDE DEF p
<1>3. Range(p) = Range(q) \cup {e}
  BY <1>1, <1>2 DEF Range
<1>4. ASSUME Distinct(q), e \notin Range(q)
      PROVE  Distinct(p)
  <2> SUFFICES ASSUME NEW i \in DOMAIN p, NEW j \in DOMAIN p, p[i] = p[j]
               PROVE  i = j
    BY DEF Distinct
  <2>1. \A k \in DOMAIN q : q[k] # e
    BY <1>4 DEF Range
  <2> QED
    BY <1>1, <1>2, <1>4, <2>1 DEF Distinct
<1> QED
  BY <1>1, <1>3, <1>4 DEF p

LEMMA TailQueue ==
  ASSUME NEW S, NEW q \in Seq(S), q # <<>>, Distinct(q)
  PROVE  /\ Tail(q) \in Seq(S) /\ Head(q) \in S /\ Head(q) \in Range(q)
         /\ Range(Tail(q)) = Range(q) \ {Head(q)}
         /\ Distinct(Tail(q))
         /\ Tail(q) = <<>> <=> Len(q) = 1
<1> DEFINE p == Tail(q)
           e == Head(q)
<1>1. /\ p \in Seq(S) /\ e \in S /\ Len(p) = Len(q) - 1
      /\ \A i \in 1 .. Len(p) : p[i] = q[i + 1]
  BY HeadTailProperties
<1>2. /\ Len(q) \in Nat /\ Len(p) \in Nat
      /\ DOMAIN p = 1 .. Len(p) /\ DOMAIN q = 1 .. Len(q)
  BY <1>1, LenProperties
<1>3. e = q[1] /\ 1 \in DOMAIN q
  BY RangeInSet
<1> HIDE DEF p, e
<1>4. p = <<>> <=> Len(q) = 1
  <2>1. p = <<>> <=> Len(p) = 0
    BY <1>1, <1>2, EmptySeq
  <2> QED
    BY <1>1, <1>2, <2>1
<1>5. Distinct(p)
  <2> SUFFICES ASSUME NEW i \in DOMAIN p, NEW j \in DOMAIN p, p[i] = p[j]
               PROVE  i = j
    BY DEF Distinct
  <2>1. q[i + 1] = q[j + 1] /\ i + 1 \in DOMAIN q /\ j + 1 \in DOMAIN q
    BY <1>1, <1>2
  <2>2. i + 1 = j + 1
    BY <2>1 DEF Distinct
  <2> QED
    BY <1>2, <2>2
<1>6. Range(p) = Range(q) \ {e}
  <2>1. ASSUME NEW m \in Range(p)
        PROVE  m \in Range(q) /\ m # e
    <3>1. PICK i \in 1 .. Len(p) : p[i] = m
      BY <1>2 DEF Range
    <3>2. q[i + 1] = m /\ i + 1 \in DOMAIN q /\ i + 1 # 1
      BY <1>1, <1>2, <3>1
    <3> QED
      BY <1>3, <3>2 DEF Range, Distinct
  <2>2. ASSUME NEW m \in Range(q), m # e
        PROVE  m \in Range(p)
    <3>1. PICK i \in 1 .. Len(q) : q[i] = m
      BY <1>2 DEF Range
    <3>2. i # 1
      BY <1>3, <2>2, <3>1
    <3>3. i - 1 \in 1 .. Len(p) /\ (i - 1) + 1 = i
      BY <1>1, <1>2, <3>2
    <3>4. p[i - 1] = m
      BY <1>1, <3>1, <3>3
    <3> QED
      BY <1>2, <3>3, <3>4 DEF Range
  <2> QED
    BY <2>1, <2>2
<1>7. e \in Range(q)
  BY <1>3 DEF Range
<1> QED
  BY <1>1, <1>4, <1>5, <1>6, <1>7 DEF p, e

-----------------------------------------------------------------------------
(* Queues of the broker.                                                   *)

MailboxOK == DOMAIN mailbox \subseteq Agents /\ mailbox \in [DOMAIN mailbox -> Seq(Messages)]

LEMMA QueueTypes ==
  ASSUME TypeOK, NEW a \in Agents
  PROVE  Queue(a) \in Seq(Messages) /\ Range(Queue(a)) \subseteq Messages
<1>1. Queue(a) \in Seq(Messages)
  BY EmptySeq DEF TypeOK, Queue, HasQueue
<1> QED
  BY <1>1, RangeInSet

LEMMA NewQueue ==
  ASSUME TypeOK, NEW a \in Agents, NEW q \in Seq(Messages), mailbox' = WithQueue(a, q)
  PROVE  /\ MailboxOK'
         /\ Queue(a)' = q
         /\ \A x \in Agents \ {a} : Queue(x)' = Queue(x)
BY DEF TypeOK, MailboxOK, WithQueue, Queue, HasQueue

LEMMA SameQueues ==
  ASSUME TypeOK, mailbox' = mailbox
  PROVE  MailboxOK' /\ \A x \in Agents : Queue(x)' = Queue(x)
BY DEF TypeOK, MailboxOK, Queue, HasQueue

LEMMA ForgottenQueue ==
  ASSUME TypeOK, NEW a \in Agents, mailbox' = Restrict(mailbox, DOMAIN mailbox \ {a})
  PROVE  /\ MailboxOK'
         /\ Queue(a)' = <<>>
         /\ \A x \in Agents \ {a} : Queue(x)' = Queue(x)
<1>2. DOMAIN mailbox' = DOMAIN mailbox \ {a} /\ \A x \in DOMAIN mailbox' : mailbox'[x] = mailbox[x]
  BY DEF Restrict
<1>3. mailbox' = [x \in DOMAIN mailbox \ {a} |-> mailbox[x]]
  BY DEF Restrict
<1>4. MailboxOK'
  BY <1>2, <1>3 DEF TypeOK, MailboxOK
<1> QED
  BY <1>2, <1>4 DEF Queue, HasQueue

LEMMA DrainedQueue ==
  ASSUME TypeOK, NEW a \in Agents, Drain(a)
  PROVE  /\ MailboxOK'
         /\ Queue(a)' = <<>>
         /\ \A x \in Agents \ {a} : Queue(x)' = Queue(x)
<1>1. <<>> \in Seq(Messages)
  BY EmptySeq
<1>2. CASE HasQueue(a)
  BY <1>1, <1>2, NewQueue DEF Drain
<1>3. CASE ~HasQueue(a)
  BY <1>3, SameQueues DEF Queue, Drain
<1> QED
  BY <1>2, <1>3

LEMMA MessageTypes ==
  ASSUME NEW r \in Requests
  PROVE  /\ Request(r) \in Messages /\ Reply(r) \in Messages
         /\ Dest(Request(r)) = To[r] /\ Dest(Reply(r)) = From[r]
         /\ To[r] \in Agents /\ From[r] \in Agents
BY AgentAssumption DEF Request, Reply, Messages, Dest

\* The broker appends m.
LEMMA AppendedQueue ==
  ASSUME TypeOK, NEW m \in Messages, Enqueue(m), NEW a, a = Dest(m)
  PROVE  /\ MailboxOK' /\ a \in Agents
         /\ Queue(a)' = Append(Queue(a), m)
         /\ \A x \in Agents \ {a} : Queue(x)' = Queue(x)
         /\ accepted' \subseteq Messages
<1>1. a \in Agents
  BY AgentAssumption DEF Messages, Dest
<1>2. Append(Queue(a), m) \in Seq(Messages)
  BY <1>1, QueueTypes, AppendProperties
<1>3. mailbox' = WithQueue(a, Append(Queue(a), m)) /\ accepted' = accepted \cup {m}
  BY DEF Enqueue
<1> QED
  BY <1>1, <1>2, <1>3, NewQueue DEF TypeOK

\* The broker has no queues any more.
LEMMA NoQueues ==
  ASSUME mailbox' = [a \in {} |-> <<>>]
  PROVE  MailboxOK' /\ \A x \in Agents : Queue(x)' = <<>>
BY DEF MailboxOK, Queue, HasQueue

-----------------------------------------------------------------------------
(* Types, and executors.                                                   *)

Types == TypeOK /\ WorkHasExecutor

\* The types of all variables but those of the mailboxes, in parts.
LifetimeOK ==
  /\ recv_stop \in [Agents -> BOOLEAN]
  /\ recv_thread \in [Agents -> Loops \cup {NoLoop}]
  /\ \A a \in Agents : recv_thread[a] \in LoopsOf(a) \cup {NoLoop}
  /\ handler_pool \in [Agents -> 0 .. MaxStops + 1]
  /\ lifecycle \in [Agents -> Lifecycles]
  /\ stops \in 0 .. MaxStops
LoopsOK ==
  /\ place \in [Loops -> Places] /\ batch \in [Loops -> Seq(Messages)]
  /\ \A l \in Loops : batch[l] # <<>> <=> place[l] \in {"dispatch", "deliver"}
HandlersOK ==
  /\ submitted \in [Agents -> Seq(Messages)]
  /\ running \subseteq Handlers
  /\ inbox \in [Agents -> SUBSET Messages]
  /\ \A a \in Agents : submitted[a] # <<>> => handler_pool[a] # 0
CallsOK ==
  waiters \subseteq Requests /\ slots \subseteq Requests /\ caller \in [Requests -> CallerPlaces]
LedgerOK == accepted \subseteq Messages /\ lost \subseteq Messages
TasksOK ==
  /\ registry \subseteq Agents /\ registering \subseteq Agents /\ removing \subseteq Agents
  /\ posts \subseteq Messages /\ ghosts \subseteq Agents
FaultsOK == faults \in 0 .. MaxFaults

LEMMA Parts ==
  Types <=> /\ MailboxOK /\ TasksOK /\ LifetimeOK /\ LoopsOK /\ HandlersOK /\ CallsOK
            /\ LedgerOK /\ FaultsOK
BY DEF Types, TypeOK, WorkHasExecutor, MailboxOK, TasksOK, LifetimeOK, LoopsOK, HandlersOK,
       CallsOK, LedgerOK, FaultsOK

LEMMA NextParts ==
  ASSUME MailboxOK', TasksOK', LifetimeOK', LoopsOK', HandlersOK', CallsOK', LedgerOK', FaultsOK'
  PROVE  Types'
BY DEF Types, TypeOK, WorkHasExecutor, MailboxOK, TasksOK, LifetimeOK, LoopsOK, HandlersOK,
       CallsOK, LedgerOK, FaultsOK

LEMMA SameParts ==
  ASSUME Types
  PROVE  /\ mailbox' = mailbox => MailboxOK'
         /\ UNCHANGED tasks => TasksOK'
         /\ UNCHANGED lifetime => LifetimeOK'
         /\ UNCHANGED loops => LoopsOK'
         /\ UNCHANGED handlers /\ handler_pool' = handler_pool => HandlersOK'
         /\ UNCHANGED calls => CallsOK'
         /\ UNCHANGED ledger => LedgerOK'
         /\ faults' = faults => FaultsOK'
         /\ Fault => FaultsOK'
<1> USE Parts
<1>1. mailbox' = mailbox => MailboxOK'
  BY DEF MailboxOK
<1>2. UNCHANGED tasks => TasksOK'
  BY DEF TasksOK, tasks
<1>3. UNCHANGED lifetime => LifetimeOK'
  BY DEF LifetimeOK, lifetime
<1>4. UNCHANGED loops => LoopsOK'
  BY DEF LoopsOK, loops
<1>5. UNCHANGED handlers /\ handler_pool' = handler_pool => HandlersOK'
  BY DEF HandlersOK, handlers
<1>6. UNCHANGED calls => CallsOK'
  BY DEF CallsOK, calls
<1>7. UNCHANGED ledger => LedgerOK'
  BY DEF LedgerOK, ledger
<1>8. faults' = faults => FaultsOK'
  BY DEF FaultsOK
<1>9. Fault => FaultsOK'
  BY AgentAssumption DEF Fault, FaultsOK
<1> QED
  BY <1>1, <1>2, <1>3, <1>4, <1>5, <1>6, <1>7, <1>8, <1>9

LEMMA InitTypes == Init => Types
<1> SUFFICES ASSUME Init PROVE Types
  OBVIOUS
<1>1. <<>> \in Seq(Messages)
  BY EmptySeq
<1>2. MailboxOK /\ TasksOK /\ LedgerOK /\ CallsOK
  BY DEF Init, MailboxOK, TasksOK, LedgerOK, CallsOK, CallerPlaces
<1>3. LifetimeOK /\ FaultsOK
  BY AgentAssumption DEF Init, LifetimeOK, FaultsOK, Lifecycles
<1>4. LoopsOK /\ HandlersOK
  BY <1>1 DEF Init, LoopsOK, HandlersOK, Places
<1> QED
  BY <1>2, <1>3, <1>4, Parts

LEMMA LifecycleTypes ==
  ASSUME Types, NEW a \in Agents,
         \/ Start(a) \/ StartPool(a) \/ StartThread(a)
         \/ Stop(a) \/ StopPool(a) \/ StopUnregister(a) \/ StopJoin(a)
  PROVE  Types'
<1>1. TypeOK /\ TasksOK /\ LifetimeOK /\ LoopsOK /\ HandlersOK
  BY Parts DEF Types
<1>2. CASE Start(a)
  <2>1. TasksOK'
    BY <1>1, <1>2 DEF Start, EnterRegistry, TasksOK
  <2>2. LifetimeOK'
    BY <1>1, <1>2 DEF Start, LifetimeOK, Stage, Lifecycles
  <2>3. FaultsOK'
    BY <1>2, SameParts DEF Start
  <2> QED
    BY <1>2, <2>1, <2>2, <2>3, NextParts, SameParts DEF Start
<1>3. CASE StartPool(a)
  <2>1. LifetimeOK'
    <3>1. handler_pool' \in [Agents -> 0 .. MaxStops + 1]
      <4>1. stops + 1 \in 0 .. MaxStops + 1
        BY <1>1, AgentAssumption DEF LifetimeOK
      <4> QED
        BY <1>1, <1>3, <4>1 DEF StartPool, LifetimeOK
    <3>2. lifecycle' \in [Agents -> Lifecycles]
      BY <1>1, <1>3 DEF StartPool, LifetimeOK, Stage, Lifecycles
    <3> QED
      BY <1>1, <1>3, <3>1, <3>2 DEF StartPool, LifetimeOK
  <2>2. stops + 1 # 0
    BY <1>1 DEF LifetimeOK
  <2>3. HandlersOK'
    BY <1>1, <1>3, <2>2 DEF StartPool, LifetimeOK, HandlersOK, handlers
  <2> QED
    BY <1>3, <2>1, <2>3, NextParts, SameParts DEF StartPool, broker, handlers
<1>4. CASE StartThread(a)
  <2>1. PICK l \in EndedLoops(a) : Goto(l, "check") /\ recv_thread' = [recv_thread EXCEPT ![a] = l]
    BY <1>4 DEF StartThread
  <2>2. l \in LoopsOf(a) /\ l \in Loops /\ place[l] = "ended"
    BY DEF EndedLoops, LoopsOf
  <2>3. LifetimeOK'
    <3>1. /\ recv_thread' \in [Agents -> Loops \cup {NoLoop}]
          /\ \A b \in Agents : recv_thread'[b] \in LoopsOf(b) \cup {NoLoop}
      BY <1>1, <2>1, <2>2 DEF LifetimeOK
    <3>2. recv_stop' \in [Agents -> BOOLEAN]
      BY <1>1, <1>4 DEF StartThread, LifetimeOK
    <3>3. lifecycle' \in [Agents -> Lifecycles]
      BY <1>1, <1>4 DEF StartThread, LifetimeOK, Stage, Lifecycles
    <3> QED
      BY <1>1, <1>4, <3>1, <3>2, <3>3 DEF StartThread, LifetimeOK
  <2>4. LoopsOK'
    BY <1>1, <1>4, <2>1, <2>2 DEF StartThread, LoopsOK, Goto, Places
  <2> QED
    BY <1>4, <2>3, <2>4, NextParts, SameParts DEF StartThread, broker
<1>5. CASE Stop(a)
  <2>1. LifetimeOK'
    BY <1>1, <1>5, AgentAssumption DEF Stop, LifetimeOK, Stage, Lifecycles
  <2> QED
    BY <1>5, <2>1, NextParts, SameParts DEF Stop, broker
<1>6. CASE StopPool(a)
  <2>1. LifetimeOK'
    BY <1>1, <1>6, AgentAssumption DEF StopPool, LifetimeOK, Stage, Lifecycles
  <2>2. <<>> \in Seq(Messages) /\ Range(submitted[a]) \subseteq Messages
    BY <1>1, EmptySeq, RangeInSet DEF HandlersOK
  <2>3. HandlersOK'
    BY <1>1, <1>6, <2>2 DEF StopPool, HandlersOK, LifetimeOK
  <2>4. LedgerOK'
    BY <1>6, <2>2, Parts DEF StopPool, LedgerOK
  <2> QED
    BY <1>6, <2>1, <2>3, <2>4, NextParts, SameParts DEF StopPool, broker
<1>7. CASE StopUnregister(a)
  <2>1. LifetimeOK'
    BY <1>1, <1>7 DEF StopUnregister, LifetimeOK, Stage, Lifecycles
  <2>2. TasksOK'
    BY <1>1, <1>7 DEF StopUnregister, LeaveRegistry, TasksOK
  <2>3. FaultsOK'
    BY <1>7, SameParts DEF StopUnregister
  <2> QED
    BY <1>7, <2>1, <2>2, <2>3, NextParts, SameParts DEF StopUnregister
<1>8. CASE StopJoin(a)
  <2>1. LifetimeOK'
    BY <1>1, <1>8 DEF StopJoin, LifetimeOK, Stage, Lifecycles
  <2> QED
    BY <1>8, <2>1, NextParts, SameParts DEF StopJoin, broker
<1> QED
  BY <1>2, <1>3, <1>4, <1>5, <1>6, <1>7, <1>8

LEMMA LoopTypes ==
  ASSUME Types, NEW l \in Loops, LoopStep(l) \/ PollFails(l) \/ PollTruncated(l)
  PROVE  Types'
<1> DEFINE a == Owner[l]
<1>1. TypeOK /\ TasksOK /\ LoopsOK /\ HandlersOK /\ LedgerOK /\ a \in Agents
  BY Parts, AgentAssumption DEF Types
<1>2. CASE Poll(l)
  <2>1. LoopsOK'
    BY <1>1, <1>2 DEF Poll, LoopsOK, Goto, Places
  <2> QED
    BY <1>2, <2>1, NextParts, SameParts DEF Poll, broker, lifetime
<1>3. CASE PollArrives(l)
  <2>1. LoopsOK'
    BY <1>1, <1>3 DEF PollArrives, LoopsOK, Goto, Places
  <2>2. TasksOK'
    BY <1>1, <1>3 DEF PollArrives, EnterRegistry, TasksOK
  <2> QED
    BY <1>3, <2>1, <2>2, NextParts, SameParts DEF PollArrives, lifetime
<1>4. CASE PollReturns(l)
  <2>1. Queue(a) \in Seq(Messages)
    BY <1>1, QueueTypes
  <2>2. LoopsOK'
    BY <1>1, <1>4, <2>1 DEF PollReturns, LoopsOK, Goto, Places
  <2>3. MailboxOK'
    BY <1>1, <1>4, DrainedQueue DEF PollReturns
  <2> QED
    BY <1>4, <2>2, <2>3, NextParts, SameParts DEF PollReturns, lifetime
<1>5. CASE PollFails(l)
  <2>1. LoopsOK'
    BY <1>1, <1>5 DEF PollFails, LoopsOK, Goto, Places
  <2>2. TasksOK'
    BY <1>1, <1>5 DEF PollFails, TasksOK
  <2> QED
    BY <1>5, <2>1, <2>2, NextParts, SameParts DEF PollFails, lifetime
<1>6. CASE PollTruncated(l)
  <2>1. LoopsOK'
    BY <1>1, <1>6 DEF PollTruncated, LoopsOK, Goto, Places
  <2>2. MailboxOK' /\ LedgerOK'
    BY <1>1, <1>6, DrainedQueue, QueueTypes DEF PollTruncated, LedgerOK
  <2> QED
    BY <1>6, <2>1, <2>2, NextParts, SameParts DEF PollTruncated, lifetime
<1>7. ASSUME place[l] \in {"dispatch", "deliver"}
      PROVE  /\ batch[l] \in Seq(Messages) /\ Tail(batch[l]) \in Seq(Messages)
             /\ Head(batch[l]) \in Messages
             /\ Tail(batch[l]) = <<>> <=> Len(batch[l]) = 1
  <2>1. batch[l] \in Seq(Messages) /\ batch[l] # <<>>
    BY <1>1, <1>7 DEF LoopsOK
  <2>2. /\ Tail(batch[l]) \in Seq(Messages) /\ Head(batch[l]) \in Messages
        /\ Len(Tail(batch[l])) = Len(batch[l]) - 1
    BY <2>1, HeadTailProperties
  <2>3. Tail(batch[l]) = <<>> <=> Len(Tail(batch[l])) = 0
    BY <2>2, EmptySeq
  <2>4. Len(batch[l]) \in Nat
    BY <2>1, LenProperties
  <2> QED
    BY <2>1, <2>2, <2>3, <2>4
<1>8. ASSUME place[l] \in {"dispatch", "deliver"}, Dealt(l)
      PROVE  LoopsOK'
  BY <1>1, <1>7, <1>8 DEF Dealt, LoopsOK, Goto, Places
<1>9. CASE Dispatch(l)
  <2> DEFINE m == Head(batch[l])
  <2>1. m \in Messages
    BY <1>7, <1>9 DEF Dispatch
  <2>2. LoopsOK'
    <3>1. CASE Dealt(l)
      BY <1>8, <1>9, <3>1 DEF Dispatch
    <3>2. CASE Goto(l, "deliver") /\ batch' = batch
      BY <1>1, <1>9, <3>2 DEF Dispatch, LoopsOK, Goto, Places
    <3> QED
      BY <1>9, <3>1, <3>2 DEF Dispatch
  <2>3. HandlersOK'
    <3>1. CASE submitted' = submitted
      BY <1>1, <1>9, <3>1 DEF Dispatch, HandlersOK, lifetime
    <3>2. CASE handler_pool[a] # 0 /\ submitted' = [submitted EXCEPT ![a] = Append(@, m)]
      <4>1. Append(submitted[a], m) \in Seq(Messages)
        BY <1>1, <2>1, AppendProperties DEF HandlersOK
      <4> HIDE DEF m
      <4> QED
        BY <1>1, <1>9, <3>2, <4>1 DEF Dispatch, HandlersOK, lifetime
    <3> QED
      BY <1>9, <3>1, <3>2 DEF Dispatch
  <2>4. LedgerOK'
    BY <1>1, <1>9, <2>1 DEF Dispatch, LedgerOK
  <2> QED
    BY <1>9, <2>2, <2>3, <2>4, NextParts, SameParts DEF Dispatch, broker
<1>10. CASE Deliver(l)
  <2>1. LoopsOK'
    BY <1>8, <1>10 DEF Deliver
  <2>2. Head(batch[l]).of \in Requests
    BY <1>7, <1>10 DEF Deliver, Messages
  <2>3. CallsOK'
    BY <1>1, <1>10, <2>2, Parts DEF Deliver, CallsOK
  <2> QED
    BY <1>10, <2>1, <2>3, NextParts, SameParts DEF Deliver, broker, lifetime
<1> QED
  BY <1>2, <1>3, <1>4, <1>5, <1>6, <1>9, <1>10 DEF LoopStep

LEMMA TaskTypes ==
  ASSUME Types, NEW a \in Agents, TakeTask(a)
  PROVE  Types'
<1> DEFINE m == Head(submitted[a])
<1>1. HandlersOK /\ LifetimeOK
  BY Parts
<1>2. submitted[a] \in Seq(Messages) /\ submitted[a] # <<>> /\ handler_pool[a] \in 1 .. MaxStops + 1
  BY <1>1, AgentAssumption DEF TakeTask, HandlersOK, LifetimeOK
<1>3. Tail(submitted[a]) \in Seq(Messages) /\ m \in Messages /\ m.of \in Requests
  <2>1. Tail(submitted[a]) \in Seq(Messages) /\ Head(submitted[a]) \in Messages
    BY <1>2, HeadTailProperties
  <2> QED
    BY <2>1 DEF Messages
<1>4. running' \subseteq Handlers
  BY <1>1, <1>2, <1>3 DEF TakeTask, HandlersOK, Handlers
<1>5. inbox' \in [Agents -> SUBSET Messages]
  <2> HIDE DEF m
  <2>1. inbox' = [inbox EXCEPT ![a] = @ \cup {m}]
    BY DEF TakeTask, m
  <2> QED
    BY <1>1, <1>3, <2>1 DEF HandlersOK
<1>6. HandlersOK'
  BY <1>1, <1>2, <1>3, <1>4, <1>5 DEF TakeTask, HandlersOK, lifetime
<1> QED
  BY <1>6, NextParts, SameParts DEF TakeTask, broker

LEMMA HandlerTypes ==
  ASSUME Types, NEW h, HandlerEnds(h)
  PROVE  Types'
<1>1. TypeOK /\ TasksOK /\ HandlersOK /\ h \in Handlers /\ h.of \in Requests
  BY Parts DEF Types, HandlerEnds, HandlersOK, Handlers
<1>2. Reply(h.of) \in Messages
  BY <1>1, MessageTypes
<1>3. TasksOK'
  BY <1>1, <1>2 DEF HandlerEnds, FindRecipient, TasksOK
<1>4. HandlersOK'
  BY <1>1 DEF HandlerEnds, HandlersOK, lifetime
<1>5. FaultsOK'
  BY SameParts DEF HandlerEnds
<1> QED
  BY <1>3, <1>4, <1>5, NextParts, SameParts DEF HandlerEnds

LEMMA CallTypes ==
  ASSUME Types, NEW r \in Requests, Begin(r) \/ CallStep(r) \/ TimesOut(r)
  PROVE  Types'
<1>1. TypeOK /\ TasksOK /\ CallsOK
  BY Parts DEF Types
<1>2. CASE Begin(r)
  <2>1. CallsOK'
    BY <1>1, <1>2 DEF Begin, CallsOK, CallerGoto, CallerPlaces
  <2> QED
    BY <1>2, <2>1, NextParts, SameParts DEF Begin, broker, lifetime
<1>3. CASE Send(r)
  <2>1. CallsOK'
    BY <1>1, <1>3 DEF Send, CallsOK, CallerGoto, CallerPlaces
  <2>2. TasksOK'
    BY <1>1, <1>3, MessageTypes DEF Send, FindRecipient, TasksOK
  <2>3. FaultsOK'
    BY <1>3, SameParts DEF Send
  <2> QED
    BY <1>3, <2>1, <2>2, <2>3, NextParts, SameParts DEF Send, lifetime
<1>4. CASE Answered(r) \/ TimesOut(r) \/ Cleanup(r)
  <2>1. CallsOK'
    BY <1>1, <1>4 DEF Answered, TimesOut, Cleanup, CallsOK, CallerGoto, CallerPlaces
  <2> QED
    BY <1>4, <2>1, NextParts, SameParts DEF Answered, TimesOut, Cleanup, broker, lifetime
<1> QED
  BY <1>2, <1>3, <1>4 DEF CallStep

LEMMA BrokerTypes ==
  ASSUME Types, NEW a \in Agents, TableStep(a) \/ GhostEnds(a) \/ Evict(a)
  PROVE  Types'
<1>1. TypeOK /\ TasksOK /\ LedgerOK
  BY Parts DEF Types
<1>2. CASE GhostEnds(a)
  <2>1. MailboxOK' /\ LedgerOK'
    BY <1>1, <1>2, DrainedQueue, QueueTypes DEF GhostEnds, LedgerOK
  <2>2. TasksOK'
    BY <1>1, <1>2 DEF GhostEnds, TasksOK
  <2> QED
    BY <1>2, <2>1, <2>2, NextParts, SameParts DEF GhostEnds, lifetime
<1>3. CASE RegistrationEnds(a)
  <2>1. MailboxOK'
    BY <1>1, <1>3, QueueTypes, NewQueue DEF RegistrationEnds
  <2>2. TasksOK'
    BY <1>1, <1>3 DEF RegistrationEnds, TasksOK
  <2> QED
    BY <1>3, <2>1, <2>2, NextParts, SameParts DEF RegistrationEnds, lifetime
<1>4. CASE RemovalEnds(a)
  <2>1. MailboxOK' /\ LedgerOK'
    BY <1>1, <1>4, ForgottenQueue, QueueTypes DEF RemovalEnds, LedgerOK
  <2>2. TasksOK'
    BY <1>1, <1>4 DEF RemovalEnds, TasksOK
  <2> QED
    BY <1>4, <2>1, <2>2, NextParts, SameParts DEF RemovalEnds, lifetime
<1>5. CASE Evict(a)
  <2>1. TasksOK'
    BY <1>1, <1>5 DEF Evict, LeaveRegistry, TasksOK
  <2> QED
    BY <1>5, <2>1, NextParts, SameParts DEF Evict, lifetime
<1> QED
  BY <1>2, <1>3, <1>4, <1>5 DEF TableStep

LEMMA PostTypes ==
  ASSUME Types, NEW r \in Requests, PostStep(r)
  PROVE  Types'
<1>1. TypeOK /\ TasksOK /\ HandlersOK /\ CallsOK /\ LedgerOK
  BY Parts DEF Types
<1>2. PICK m \in Messages : Enqueue(m) /\ (EnqueueRequest(r) \/ EnqueueReply(r))
  BY MessageTypes DEF PostStep, EnqueueRequest, EnqueueReply
<1>3. MailboxOK' /\ LedgerOK'
  BY <1>1, <1>2, AppendedQueue DEF Enqueue, LedgerOK
<1>4. TasksOK'
  BY <1>1, <1>2 DEF Enqueue, TasksOK
<1>5. HandlersOK'
  BY <1>1, <1>2 DEF Enqueue, EnqueueRequest, EnqueueReply, HandlersOK, lifetime
<1>6. CallsOK'
  BY <1>1, <1>2 DEF Enqueue, EnqueueRequest, EnqueueReply, CallsOK, CallerGoto, CallerPlaces
<1>7. FaultsOK'
  BY <1>2, SameParts DEF EnqueueRequest, EnqueueReply
<1> QED
  BY <1>2, <1>3, <1>4, <1>5, <1>6, <1>7, NextParts, SameParts DEF Enqueue

LEMMA RestartTypes ==
  ASSUME Types, Restart
  PROVE  Types'
<1>1. TypeOK /\ LifetimeOK /\ LoopsOK /\ HandlersOK /\ CallsOK /\ LedgerOK
  BY Parts DEF Types
<1>2. MailboxOK'
  BY NoQueues DEF Restart
<1>3. TasksOK'
  BY DEF Restart, TasksOK
<1>4. LedgerOK'
  BY <1>1, QueueTypes DEF Restart, LedgerOK
<1>5. LifetimeOK'
  BY <1>1 DEF Restart, LifetimeOK, Lifecycles
<1>6. LoopsOK'
  BY <1>1 DEF Restart, LoopsOK, Places
<1>7. HandlersOK'
  BY <1>1 DEF Restart, HandlersOK
<1>8. CallsOK'
  BY <1>1 DEF Restart, CallsOK, CallerPlaces
<1>9. FaultsOK'
  BY SameParts DEF Restart
<1> QED
  BY <1>2, <1>3, <1>4, <1>5, <1>6, <1>7, <1>8, <1>9, NextParts

LEMMA StepTypes ==
  ASSUME Types, [Next]_vars
  PROVE  Types'
<1>1. CASE UNCHANGED vars
  BY <1>1, NextParts, SameParts DEF vars, broker, lifetime
<1>2. CASE \E a \in Agents : Start(a) \/ Stop(a) \/ LifecycleStep(a) \/ TakeTask(a)
                               \/ TableStep(a) \/ GhostEnds(a) \/ Evict(a)
  BY <1>2, LifecycleTypes, TaskTypes, BrokerTypes DEF LifecycleStep
<1>3. CASE \E l \in Loops : LoopStep(l) \/ PollFails(l) \/ PollTruncated(l)
  BY <1>3, LoopTypes
<1>4. CASE \E r \in Requests : Begin(r) \/ CallStep(r) \/ TimesOut(r) \/ HandlerStep(r)
                                 \/ PostStep(r)
  BY <1>4, CallTypes, HandlerTypes, PostTypes DEF HandlerStep
<1>5. CASE Restart
  BY <1>5, RestartTypes
<1> QED
  BY <1>1, <1>2, <1>3, <1>4, <1>5 DEF Next

\* Every variable keeps its type.
THEOREM PullTypes == Spec => []TypeOK
<1>1. Types => TypeOK
  BY DEF Types
<1> QED
  BY <1>1, InitTypes, StepTypes, PTL DEF Spec

\* No message waits for an executor that stop() has shut down, whenever the
\* loop submits it.
THEOREM ExecutorForWork == Spec => []WorkHasExecutor
<1>1. Types => WorkHasExecutor
  BY DEF Types
<1> QED
  BY <1>1, InitTypes, StepTypes, PTL DEF Spec

-----------------------------------------------------------------------------
(* Moves of messages from place to place.                                  *)

Located == Addressed /\ NoDuplicates /\ Everywhere

LEMMA DestIsAgent ==
  ASSUME NEW m \in Messages
  PROVE  Dest(m) \in Agents
BY AgentAssumption DEF Messages, Dest

\* Nothing moves.
LEMMA NothingMoves ==
  ASSUME Types, Located, \A x \in Agents : Queue(x)' = Queue(x),
         UNCHANGED <<batch, submitted, inbox, slots, lost, accepted>>
  PROVE  Located'
<1>1. Addressed' /\ NoDuplicates'
  BY DEF Located, Addressed, NoDuplicates
<1>2. ASSUME NEW m \in Messages
      PROVE  InOnePlace(m)'
  <2>1. /\ InQueue(m)' <=> InQueue(m)
        /\ InWork(m)' <=> InWork(m)
        /\ InInbox(m)' <=> InInbox(m)
        /\ Slotted(m)' <=> Slotted(m)
        /\ \A l \in Loops : InBatch(m, l)' <=> InBatch(m, l)
    BY DestIsAgent DEF InQueue, InWork, InInbox, Slotted, InBatch
  <2> QED
    BY <2>1 DEF Located, Everywhere, InOnePlace
<1> QED
  BY <1>1, <1>2 DEF Located, Everywhere

\* The queue of a is lost.
LEMMA QueueLost ==
  ASSUME Types, Located, NEW a \in Agents,
         Queue(a)' = <<>>, \A x \in Agents \ {a} : Queue(x)' = Queue(x),
         lost' = lost \cup Range(Queue(a)),
         UNCHANGED <<batch, submitted, inbox, slots, accepted>>
  PROVE  Located'
<1>1. Addressed' /\ NoDuplicates'
  BY EmptyQueue DEF Located, Addressed, NoDuplicates
<1>2. ASSUME NEW m \in Messages
      PROVE  InOnePlace(m)'
  <2>1. /\ InQueue(m)' <=> InQueue(m) /\ Dest(m) # a
        /\ m \in lost' <=> m \in lost \/ (InQueue(m) /\ Dest(m) = a)
        /\ InWork(m)' <=> InWork(m)
        /\ InInbox(m)' <=> InInbox(m)
        /\ Slotted(m)' <=> Slotted(m)
        /\ \A l \in Loops : InBatch(m, l)' <=> InBatch(m, l)
    BY DestIsAgent, EmptyQueue
       DEF InQueue, InWork, InInbox, Slotted, InBatch, Located, Addressed
  <2> QED
    BY <2>1 DEF Located, Everywhere, InOnePlace
<1> QED
  BY <1>1, <1>2 DEF Located, Everywhere

\* All queues are lost.
LEMMA QueuesLost ==
  ASSUME Types, Located, \A x \in Agents : Queue(x)' = <<>>,
         lost' = lost \cup UNION {Range(Queue(x)) : x \in Agents},
         UNCHANGED <<batch, submitted, inbox, slots, accepted>>
  PROVE  Located'
<1>1. Addressed' /\ NoDuplicates'
  BY EmptyQueue DEF Located, Addressed, NoDuplicates
<1>2. ASSUME NEW m \in Messages
      PROVE  InOnePlace(m)'
  <2>1. ~InQueue(m)'
    BY DestIsAgent, EmptyQueue DEF InQueue
  <2>2. m \in lost' <=> m \in lost \/ InQueue(m)
    <3>1. ASSUME NEW x \in Agents, m \in Range(Queue(x))
          PROVE  InQueue(m)
      BY <3>1 DEF InQueue, Located, Addressed
    <3>2. InQueue(m) => \E x \in Agents : m \in Range(Queue(x))
      BY DestIsAgent DEF InQueue
    <3> QED
      BY <3>1, <3>2
  <2>3. /\ InWork(m)' <=> InWork(m)
        /\ InInbox(m)' <=> InInbox(m)
        /\ Slotted(m)' <=> Slotted(m)
        /\ \A l \in Loops : InBatch(m, l)' <=> InBatch(m, l)
    BY DEF InWork, InInbox, Slotted, InBatch
  <2> QED
    BY <2>1, <2>2, <2>3 DEF Located, Everywhere, InOnePlace
<1> QED
  BY <1>1, <1>2 DEF Located, Everywhere

\* The work of a is lost.
LEMMA WorkLost ==
  ASSUME Types, Located, NEW a \in Agents,
         submitted' = [submitted EXCEPT ![a] = <<>>],
         lost' = lost \cup Range(submitted[a]),
         \A x \in Agents : Queue(x)' = Queue(x),
         UNCHANGED <<batch, inbox, slots, accepted>>
  PROVE  Located'
<1>1. submitted'[a] = <<>> /\ \A x \in Agents \ {a} : submitted'[x] = submitted[x]
  BY Parts DEF HandlersOK
<1>2. Addressed' /\ NoDuplicates'
  BY <1>1, EmptyQueue DEF Located, Addressed, NoDuplicates
<1>3. ASSUME NEW m \in Messages
      PROVE  InOnePlace(m)'
  <2>1. /\ InWork(m)' <=> InWork(m) /\ Dest(m) # a
        /\ m \in lost' <=> m \in lost \/ (InWork(m) /\ Dest(m) = a)
        /\ InQueue(m)' <=> InQueue(m)
        /\ InInbox(m)' <=> InInbox(m)
        /\ Slotted(m)' <=> Slotted(m)
        /\ \A l \in Loops : InBatch(m, l)' <=> InBatch(m, l)
    BY <1>1, DestIsAgent, EmptyQueue
       DEF InQueue, InWork, InInbox, Slotted, InBatch, Located, Addressed
  <2> QED
    BY <2>1 DEF Located, Everywhere, InOnePlace
<1> QED
  BY <1>2, <1>3 DEF Located, Everywhere

\* The queue of the agent of l becomes its batch, which was empty.
LEMMA QueueTaken ==
  ASSUME Types, Located, NEW l \in Loops, NEW a \in Agents, a = Owner[l],
         batch[l] = <<>>, batch' = [batch EXCEPT ![l] = Queue(a)],
         Queue(a)' = <<>>, \A x \in Agents \ {a} : Queue(x)' = Queue(x),
         UNCHANGED <<submitted, inbox, slots, lost, accepted>>
  PROVE  Located'
<1>1. batch'[l] = Queue(a) /\ \A k \in Loops \ {l} : batch'[k] = batch[k]
  BY Parts DEF LoopsOK
<1>2. Addressed' /\ NoDuplicates'
  BY <1>1, EmptyQueue DEF Located, Addressed, NoDuplicates
<1>3. ASSUME NEW m \in Messages
      PROVE  InOnePlace(m)'
  <2>1. /\ InQueue(m)' <=> InQueue(m) /\ Dest(m) # a
        /\ InWork(m)' <=> InWork(m)
        /\ InInbox(m)' <=> InInbox(m)
        /\ Slotted(m)' <=> Slotted(m)
    BY DestIsAgent, EmptyQueue DEF InQueue, InWork, InInbox, Slotted
  <2>2. /\ ~InBatch(m, l)
        /\ InBatch(m, l)' <=> InQueue(m) /\ Dest(m) = a
        /\ \A k \in Loops \ {l} : InBatch(m, k)' <=> InBatch(m, k)
    BY <1>1, DestIsAgent, EmptyQueue DEF InQueue, InBatch, Located, Addressed
  <2>3. InOnePlace(m)
    BY DEF Located, Everywhere
  <2>4. \/ InQueue(m)' \/ InWork(m)' \/ InInbox(m)' \/ Slotted(m)' \/ (m \in lost')
        \/ \E k \in Loops : InBatch(m, k)'
        <=> m \in accepted
    BY <2>1, <2>2, <2>3 DEF InOnePlace
  <2> QED
    BY <2>1, <2>2, <2>3, <2>4 DEF InOnePlace
<1> QED
  BY <1>2, <1>3 DEF Located, Everywhere

\* The broker queues a message that is new to it.
LEMMA MessageAccepted ==
  ASSUME Types, Located, NEW a \in Agents, NEW n \in Messages, a = Dest(n), n \notin accepted,
         Queue(a)' = Append(Queue(a), n), \A x \in Agents \ {a} : Queue(x)' = Queue(x),
         accepted' = accepted \cup {n},
         UNCHANGED <<batch, submitted, inbox, slots, lost>>
  PROVE  Located'
<1>1. Queue(a) \in Seq(Messages)
  BY QueueTypes DEF Types
<1>2. InOnePlace(n) /\ ~InQueue(n)
  BY DEF Located, Everywhere, InOnePlace
<1>3. Range(Queue(a)') = Range(Queue(a)) \cup {n} /\ Distinct(Queue(a)')
  BY <1>1, <1>2, AppendQueue DEF InQueue, Located, NoDuplicates
<1>4. Addressed' /\ NoDuplicates'
  <2>1. \A x \in Agents : \A m \in Range(Queue(x))' : Dest(m) = x
    BY <1>3 DEF Located, Addressed
  <2>2. \A x \in Agents : Distinct(Queue(x)')
    BY <1>3 DEF Located, NoDuplicates
  <2> QED
    BY <2>1, <2>2 DEF Located, Addressed, NoDuplicates
<1>5. ASSUME NEW m \in Messages
      PROVE  InOnePlace(m)'
  <2>1. /\ InQueue(m)' <=> InQueue(m) \/ m = n
        /\ InWork(m)' <=> InWork(m)
        /\ InInbox(m)' <=> InInbox(m)
        /\ Slotted(m)' <=> Slotted(m)
        /\ \A l \in Loops : InBatch(m, l)' <=> InBatch(m, l)
    BY <1>3, DestIsAgent DEF InQueue, InWork, InInbox, Slotted, InBatch
  <2> QED
    BY <1>2, <2>1 DEF Located, Everywhere, InOnePlace
<1> QED
  BY <1>4, <1>5 DEF Located, Everywhere

\* The first message of a batch leaves it.
HeadLeaves(l) == batch[l] # <<>> /\ batch' = [batch EXCEPT ![l] = Tail(@)]

LEMMA BatchHead ==
  ASSUME Types, Located, NEW l \in Loops, HeadLeaves(l), NEW n, n = Head(batch[l])
  PROVE  /\ n \in Messages /\ Dest(n) = Owner[l] /\ Owner[l] \in Agents /\ InBatch(n, l)
         /\ \A m : InBatch(m, l)' <=> InBatch(m, l) /\ m # n
         /\ \A k \in Loops \ {l} : \A m : InBatch(m, k)' <=> InBatch(m, k)
         /\ \A k \in Loops : /\ Distinct(batch'[k])
                             /\ \A m \in Range(batch'[k]) : Dest(m) = Owner[k]
<1>1. /\ batch'[l] = Tail(batch[l]) /\ \A k \in Loops \ {l} : batch'[k] = batch[k]
      /\ batch[l] \in Seq(Messages)
  BY Parts DEF LoopsOK, HeadLeaves
<1>2. Distinct(batch[l]) /\ batch[l] # <<>>
  BY DEF Located, NoDuplicates, HeadLeaves
<1>3. /\ n \in Messages /\ n \in Range(batch[l])
      /\ Range(batch'[l]) = Range(batch[l]) \ {n}
      /\ Distinct(batch'[l])
  BY <1>1, <1>2, TailQueue
<1>4. Dest(n) = Owner[l] /\ Owner[l] \in Agents
  BY <1>3, AgentAssumption DEF Located, Addressed
<1>5. \A k \in Loops : Distinct(batch'[k])
  BY <1>1, <1>3 DEF Located, NoDuplicates
<1>6. \A k \in Loops : \A m \in Range(batch'[k]) : Dest(m) = Owner[k]
  BY <1>1, <1>3 DEF Located, Addressed
<1> QED
  BY <1>1, <1>3, <1>4, <1>5, <1>6 DEF InBatch

\* ... and is lost.
LEMMA HeadLost ==
  ASSUME Types, Located, NEW l \in Loops, HeadLeaves(l), lost' = lost \cup {Head(batch[l])},
         \A x \in Agents : Queue(x)' = Queue(x),
         UNCHANGED <<submitted, inbox, slots, accepted>>
  PROVE  Located'
<1>1. PICK n : n = Head(batch[l])
  OBVIOUS
<1>2. /\ n \in Messages /\ InBatch(n, l)
      /\ \A m : InBatch(m, l)' <=> InBatch(m, l) /\ m # n
      /\ \A k \in Loops \ {l} : \A m : InBatch(m, k)' <=> InBatch(m, k)
      /\ \A k \in Loops : Distinct(batch'[k]) /\ \A m \in Range(batch'[k]) : Dest(m) = Owner[k]
  BY <1>1, BatchHead
<1>3. Addressed' /\ NoDuplicates'
  BY <1>2 DEF Located, Addressed, NoDuplicates
<1>4. ASSUME NEW m \in Messages
      PROVE  InOnePlace(m)'
  <2>1. /\ InQueue(m)' <=> InQueue(m)
        /\ InWork(m)' <=> InWork(m)
        /\ InInbox(m)' <=> InInbox(m)
        /\ Slotted(m)' <=> Slotted(m)
        /\ m \in lost' <=> m \in lost \/ m = n
    BY <1>1, DestIsAgent DEF InQueue, InWork, InInbox, Slotted
  <2>2. InOnePlace(m)
    BY DEF Located, Everywhere
  <2>3. m = n => /\ ~InQueue(m) /\ ~InWork(m) /\ ~InInbox(m) /\ ~Slotted(m) /\ m \in accepted
                 /\ \A k \in Loops : InBatch(m, k) => k = l
    BY <1>2, <2>2 DEF InOnePlace
  <2>4. m # n => \A k \in Loops : InBatch(m, k)' <=> InBatch(m, k)
    BY <1>2
  <2>5. m = n => \A k \in Loops : ~InBatch(m, k)'
    BY <1>2, <2>3
  <2> QED
    BY <2>1, <2>2, <2>3, <2>4, <2>5 DEF InOnePlace
<1> QED
  BY <1>3, <1>4 DEF Located, Everywhere

\* ... or goes to the executor.
LEMMA HeadSubmitted ==
  ASSUME Types, Located, NEW l \in Loops, HeadLeaves(l),
         submitted' = [submitted EXCEPT ![Owner[l]] = Append(@, Head(batch[l]))],
         \A x \in Agents : Queue(x)' = Queue(x),
         UNCHANGED <<inbox, slots, lost, accepted>>
  PROVE  Located'
<1>1. PICK n : n = Head(batch[l])
  OBVIOUS
<1>2. /\ n \in Messages /\ InBatch(n, l) /\ Dest(n) = Owner[l] /\ Owner[l] \in Agents
      /\ \A m : InBatch(m, l)' <=> InBatch(m, l) /\ m # n
      /\ \A k \in Loops \ {l} : \A m : InBatch(m, k)' <=> InBatch(m, k)
      /\ \A k \in Loops : Distinct(batch'[k]) /\ \A m \in Range(batch'[k]) : Dest(m) = Owner[k]
  BY <1>1, BatchHead
<1>3. PICK a \in Agents : a = Owner[l]
  BY <1>2
<1>4. /\ submitted'[a] = Append(submitted[a], n) /\ submitted[a] \in Seq(Messages)
      /\ \A x \in Agents \ {a} : submitted'[x] = submitted[x]
  BY <1>1, <1>3, Parts DEF HandlersOK
<1>5. n \notin Range(submitted[a])
  BY <1>2, <1>3 DEF Located, Everywhere, InOnePlace, InWork
<1>6. Range(submitted'[a]) = Range(submitted[a]) \cup {n} /\ Distinct(submitted'[a])
  BY <1>2, <1>4, <1>5, AppendQueue DEF Located, NoDuplicates
<1>7. Addressed' /\ NoDuplicates'
  <2>1. \A x \in Agents : \A m \in Range(submitted'[x]) : Dest(m) = x
    BY <1>2, <1>3, <1>4, <1>6 DEF Located, Addressed
  <2>2. \A x \in Agents : Distinct(submitted'[x])
    BY <1>4, <1>6 DEF Located, NoDuplicates
  <2> QED
    BY <1>2, <2>1, <2>2 DEF Located, Addressed, NoDuplicates
<1>8. ASSUME NEW m \in Messages
      PROVE  InOnePlace(m)'
  <2>1. /\ InQueue(m)' <=> InQueue(m)
        /\ InWork(m)' <=> InWork(m) \/ m = n
        /\ InInbox(m)' <=> InInbox(m)
        /\ Slotted(m)' <=> Slotted(m)
    BY <1>2, <1>3, <1>4, <1>6, DestIsAgent DEF InQueue, InWork, InInbox, Slotted
  <2>2. InOnePlace(m)
    BY DEF Located, Everywhere
  <2>3. m = n => /\ ~InQueue(m) /\ ~InWork(m) /\ ~InInbox(m) /\ ~Slotted(m) /\ m \notin lost
                 /\ m \in accepted
                 /\ \A k \in Loops : InBatch(m, k) => k = l
    BY <1>2, <2>2 DEF InOnePlace
  <2>4. m # n => \A k \in Loops : InBatch(m, k)' <=> InBatch(m, k)
    BY <1>2
  <2>5. m = n => \A k \in Loops : ~InBatch(m, k)'
    BY <1>2, <2>3
  <2> QED
    BY <2>1, <2>2, <2>3, <2>4, <2>5 DEF InOnePlace
<1> QED
  BY <1>7, <1>8 DEF Located, Everywhere

\* ... or, a reply, to the slot of its waiter.
LEMMA HeadDelivered ==
  ASSUME Types, Located, NEW l \in Loops, HeadLeaves(l), Head(batch[l]).kind = "reply",
         slots' = slots \cup {Head(batch[l]).of},
         \A x \in Agents : Queue(x)' = Queue(x),
         UNCHANGED <<submitted, inbox, lost, accepted>>
  PROVE  Located'
<1>1. PICK n : n = Head(batch[l])
  OBVIOUS
<1>2. /\ n \in Messages /\ InBatch(n, l)
      /\ \A m : InBatch(m, l)' <=> InBatch(m, l) /\ m # n
      /\ \A k \in Loops \ {l} : \A m : InBatch(m, k)' <=> InBatch(m, k)
      /\ \A k \in Loops : Distinct(batch'[k]) /\ \A m \in Range(batch'[k]) : Dest(m) = Owner[k]
  BY <1>1, BatchHead
<1>3. Addressed' /\ NoDuplicates'
  BY <1>2 DEF Located, Addressed, NoDuplicates
<1>4. ASSUME NEW m \in Messages
      PROVE  InOnePlace(m)'
  <2>1. Slotted(m)' <=> Slotted(m) \/ m = n
    <3>1. m = n <=> m.kind = "reply" /\ m.of = n.of
      BY <1>1, <1>2 DEF Messages
    <3> QED
      BY <1>1, <3>1 DEF Slotted
  <2>2. /\ InQueue(m)' <=> InQueue(m)
        /\ InWork(m)' <=> InWork(m)
        /\ InInbox(m)' <=> InInbox(m)
    BY DestIsAgent DEF InQueue, InWork, InInbox
  <2>3. InOnePlace(m)
    BY DEF Located, Everywhere
  <2>4. m = n => /\ ~InQueue(m) /\ ~InWork(m) /\ ~InInbox(m) /\ ~Slotted(m) /\ m \notin lost
                 /\ m \in accepted
                 /\ \A k \in Loops : InBatch(m, k) => k = l
    BY <1>2, <2>3 DEF InOnePlace
  <2>5. m # n => \A k \in Loops : InBatch(m, k)' <=> InBatch(m, k)
    BY <1>2
  <2>6. m = n => \A k \in Loops : ~InBatch(m, k)'
    BY <1>2, <2>4
  <2> QED
    BY <2>1, <2>2, <2>3, <2>4, <2>5, <2>6 DEF InOnePlace
<1> QED
  BY <1>3, <1>4 DEF Located, Everywhere

\* A worker takes the first message of the work queue into the inbox.
LEMMA TaskTaken ==
  ASSUME Types, Located, NEW a \in Agents, submitted[a] # <<>>,
         submitted' = [submitted EXCEPT ![a] = Tail(@)],
         inbox' = [inbox EXCEPT ![a] = @ \cup {Head(submitted[a])}],
         \A x \in Agents : Queue(x)' = Queue(x),
         UNCHANGED <<batch, slots, lost, accepted>>
  PROVE  Located'
<1>1. PICK n : n = Head(submitted[a])
  OBVIOUS
<1>2. /\ submitted'[a] = Tail(submitted[a]) /\ submitted[a] \in Seq(Messages)
      /\ \A x \in Agents \ {a} : submitted'[x] = submitted[x] /\ inbox'[x] = inbox[x]
      /\ inbox'[a] = inbox[a] \cup {n}
  BY <1>1, Parts DEF HandlersOK
<1>3. Distinct(submitted[a])
  BY DEF Located, NoDuplicates
<1>4. /\ n \in Messages /\ n \in Range(submitted[a])
      /\ Range(submitted'[a]) = Range(submitted[a]) \ {n}
      /\ Distinct(submitted'[a])
  BY <1>1, <1>2, <1>3, TailQueue
<1>5. Dest(n) = a
  BY <1>4 DEF Located, Addressed
<1>6. Addressed' /\ NoDuplicates'
  <2>1. \A x \in Agents : \A m \in Range(submitted'[x]) \cup inbox'[x] : Dest(m) = x
    BY <1>2, <1>4, <1>5 DEF Located, Addressed
  <2>2. \A x \in Agents : Distinct(submitted'[x])
    BY <1>2, <1>4 DEF Located, NoDuplicates
  <2> QED
    BY <2>1, <2>2 DEF Located, Addressed, NoDuplicates
<1>7. ASSUME NEW m \in Messages
      PROVE  InOnePlace(m)'
  <2>1. /\ InQueue(m)' <=> InQueue(m)
        /\ InWork(m)' <=> InWork(m) /\ m # n
        /\ InInbox(m)' <=> InInbox(m) \/ m = n
        /\ Slotted(m)' <=> Slotted(m)
        /\ \A l \in Loops : InBatch(m, l)' <=> InBatch(m, l)
    BY <1>2, <1>4, <1>5, DestIsAgent DEF InQueue, InWork, InInbox, Slotted, InBatch
  <2>2. m = n => InWork(m)
    BY <1>4, <1>5 DEF InWork
  <2> QED
    BY <2>1, <2>2 DEF Located, Everywhere, InOnePlace
<1> QED
  BY <1>6, <1>7 DEF Located, Everywhere

-----------------------------------------------------------------------------
(* Every step keeps each message in its one place.                         *)

LEMMA LifecycleLocated ==
  ASSUME Types, Located, NEW a \in Agents,
         \/ Start(a) \/ StartPool(a) \/ StartThread(a)
         \/ Stop(a) \/ StopPool(a) \/ StopUnregister(a) \/ StopJoin(a)
  PROVE  Located'
<1>1. TypeOK
  BY DEF Types
<1>2. \A x \in Agents : Queue(x)' = Queue(x)
  BY <1>1, SameQueues
     DEF Start, StartPool, StartThread, Stop, StopPool, StopUnregister, StopJoin, broker
<1>3. CASE StopPool(a)
  BY <1>2, <1>3, WorkLost DEF StopPool, loops, calls
<1>4. CASE Start(a) \/ StartPool(a) \/ StartThread(a) \/ Stop(a) \/ StopUnregister(a) \/ StopJoin(a)
  BY <1>2, <1>4, NothingMoves
     DEF Start, StartPool, StartThread, Stop, StopUnregister, StopJoin, loops, handlers, calls, ledger
<1> QED
  BY <1>3, <1>4

LEMMA LoopLocated ==
  ASSUME Types, Located, DeliversReply, NEW l \in Loops,
         LoopStep(l) \/ PollFails(l) \/ PollTruncated(l)
  PROVE  Located'
<1>1. TypeOK /\ LoopsOK /\ Owner[l] \in Agents
  BY Parts, AgentAssumption DEF Types
<1>2. CASE Poll(l) \/ PollFails(l) \/ PollArrives(l)
  <2>1. \A x \in Agents : Queue(x)' = Queue(x)
    BY <1>1, <1>2, SameQueues DEF Poll, PollFails, PollArrives, broker
  <2> QED
    BY <1>2, <2>1, NothingMoves DEF Poll, PollFails, PollArrives, handlers, calls, ledger
<1>4. CASE PollReturns(l)
  <2>1. batch[l] = <<>>
    BY <1>1, <1>4 DEF PollReturns, LoopsOK
  <2>2. /\ Queue(Owner[l])' = <<>>
        /\ \A x \in Agents \ {Owner[l]} : Queue(x)' = Queue(x)
    BY <1>1, <1>4, DrainedQueue DEF PollReturns
  <2> QED
    BY <1>1, <1>4, <2>1, <2>2, QueueTaken DEF PollReturns, handlers, calls, ledger
<1>5. CASE PollTruncated(l)
  <2>1. /\ Queue(Owner[l])' = <<>>
        /\ \A x \in Agents \ {Owner[l]} : Queue(x)' = Queue(x)
    BY <1>1, <1>5, DrainedQueue DEF PollTruncated
  <2> QED
    BY <1>1, <1>5, <2>1, QueueLost DEF PollTruncated, handlers, calls
<1>6. CASE Dispatch(l)
  <2>1. batch[l] # <<>>
    BY <1>1, <1>6 DEF Dispatch, LoopsOK
  <2>2. \A x \in Agents : Queue(x)' = Queue(x)
    BY <1>1, <1>6, SameQueues DEF Dispatch, broker
  <2>3. CASE UNCHANGED <<batch, submitted, lost>>
    BY <1>6, <2>2, <2>3, NothingMoves DEF Dispatch, calls
  <2>4. CASE /\ Dealt(l) /\ lost' = lost
             /\ submitted' = [submitted EXCEPT ![Owner[l]] = Append(@, Head(batch[l]))]
    <3>1. HeadLeaves(l)
      BY <2>1, <2>4 DEF HeadLeaves, Dealt
    <3> QED
      BY <1>6, <2>2, <2>4, <3>1, HeadSubmitted DEF Dispatch, calls
  <2>5. CASE Dealt(l) /\ lost' = lost \cup {Head(batch[l])} /\ submitted' = submitted
    <3>1. HeadLeaves(l)
      BY <2>1, <2>5 DEF HeadLeaves, Dealt
    <3> QED
      BY <1>6, <2>2, <2>5, <3>1, HeadLost DEF Dispatch, calls
  <2> QED
    BY <1>6, <2>3, <2>4, <2>5 DEF Dispatch
<1>7. CASE Deliver(l)
  <2>1. batch[l] # <<>> /\ Head(batch[l]).kind = "reply"
    BY <1>1, <1>7 DEF Deliver, LoopsOK, DeliversReply
  <2>2. \A x \in Agents : Queue(x)' = Queue(x)
    BY <1>1, <1>7, SameQueues DEF Deliver, broker
  <2>3. HeadLeaves(l)
    BY <1>7, <2>1 DEF Deliver, HeadLeaves, Dealt
  <2> QED
    BY <1>7, <2>1, <2>2, <2>3, HeadDelivered DEF Deliver, handlers, ledger
<1> QED
  BY <1>2, <1>4, <1>5, <1>6, <1>7 DEF LoopStep

LEMMA TaskLocated ==
  ASSUME Types, Located, NEW a \in Agents, TakeTask(a)
  PROVE  Located'
<1>1. \A x \in Agents : Queue(x)' = Queue(x)
  BY SameQueues DEF Types, TakeTask, broker
<1> QED
  BY <1>1, TaskTaken DEF TakeTask, loops, calls, ledger

LEMMA HandlerLocated ==
  ASSUME Types, Located, NEW h, HandlerEnds(h)
  PROVE  Located'
<1>1. \A x \in Agents : Queue(x)' = Queue(x)
  BY SameQueues DEF Types, HandlerEnds
<1> QED
  BY <1>1, NothingMoves DEF HandlerEnds, loops, calls, ledger

LEMMA CallLocated ==
  ASSUME Types, Located, NEW r \in Requests, Begin(r) \/ CallStep(r) \/ TimesOut(r)
  PROVE  Located'
<1>1. \A x \in Agents : Queue(x)' = Queue(x)
  BY SameQueues DEF Types, Begin, CallStep, Send, Answered, TimesOut, Cleanup, broker
<1> QED
  BY <1>1, NothingMoves
     DEF Begin, CallStep, Send, Answered, TimesOut, Cleanup, loops, handlers, ledger

LEMMA PostLocated ==
  ASSUME Types, Located, Protocol, NEW r \in Requests, PostStep(r)
  PROVE  Located'
<1>1. PICK m \in Messages : Enqueue(m) /\ (m = Request(r) \/ m = Reply(r))
  BY MessageTypes DEF PostStep, EnqueueRequest, EnqueueReply
<1>2. m \notin accepted
  BY <1>1 DEF Protocol, Enqueue
<1>3. PICK a : a = Dest(m)
  OBVIOUS
<1>4. /\ a \in Agents
      /\ Queue(a)' = Append(Queue(a), m)
      /\ \A x \in Agents \ {a} : Queue(x)' = Queue(x)
  BY <1>1, <1>3, AppendedQueue DEF Types
<1> QED
  BY <1>1, <1>2, <1>3, <1>4, MessageAccepted DEF Enqueue, loops

LEMMA BrokerLocated ==
  ASSUME Types, Located, NEW a \in Agents, TableStep(a) \/ GhostEnds(a) \/ Evict(a)
  PROVE  Located'
<1>1. TypeOK
  BY DEF Types
<1>2. CASE GhostEnds(a)
  BY <1>1, <1>2, DrainedQueue, QueueLost DEF GhostEnds, loops, handlers, calls
<1>3. CASE RemovalEnds(a)
  BY <1>1, <1>3, ForgottenQueue, QueueLost DEF RemovalEnds, loops, handlers, calls
<1>4. CASE RegistrationEnds(a) \/ Evict(a)
  <2>1. \A x \in Agents : Queue(x)' = Queue(x)
    BY <1>1, <1>4, QueueTypes, NewQueue, SameQueues DEF RegistrationEnds, Evict
  <2> QED
    BY <1>4, <2>1, NothingMoves DEF RegistrationEnds, Evict, loops, handlers, calls, ledger
<1> QED
  BY <1>2, <1>3, <1>4 DEF TableStep

LEMMA StepLocated ==
  ASSUME Types, Located, DeliversReply, Protocol, [Next]_vars
  PROVE  Located'
<1>1. CASE UNCHANGED vars
  <2>1. \A x \in Agents : Queue(x)' = Queue(x)
    BY <1>1, SameQueues DEF Types, vars, broker
  <2> QED
    BY <1>1, <2>1, NothingMoves DEF vars, loops, handlers, calls, ledger
<1>2. CASE \E a \in Agents : Start(a) \/ Stop(a) \/ LifecycleStep(a) \/ TakeTask(a)
                               \/ TableStep(a) \/ GhostEnds(a) \/ Evict(a)
  BY <1>2, LifecycleLocated, TaskLocated, BrokerLocated DEF LifecycleStep
<1>3. CASE \E l \in Loops : LoopStep(l) \/ PollFails(l) \/ PollTruncated(l)
  BY <1>3, LoopLocated
<1>4. CASE \E r \in Requests : Begin(r) \/ CallStep(r) \/ TimesOut(r) \/ HandlerStep(r)
                                 \/ PostStep(r)
  BY <1>4, CallLocated, HandlerLocated, PostLocated DEF HandlerStep
<1>5. CASE Restart
  BY <1>5, NoQueues, QueuesLost DEF Restart
<1> QED
  BY <1>1, <1>2, <1>3, <1>4, <1>5 DEF Next

-----------------------------------------------------------------------------
(* A loop fills slots with replies, and a request is handled once.         *)

LEMMA StepDelivers ==
  ASSUME Types, DeliversReply, [Next]_vars
  PROVE  DeliversReply'
<1>1. LoopsOK
  BY Parts
<1>2. CASE UNCHANGED loops
  BY <1>2 DEF DeliversReply, loops
<1>3. CASE \E a \in Agents : StartThread(a)
  <2>1. PICK a \in Agents : StartThread(a)
    BY <1>3
  <2>2. PICK l \in Loops : Goto(l, "check")
    BY <2>1 DEF StartThread, EndedLoops, LoopsOf
  <2> QED
    BY <1>1, <2>1, <2>2 DEF StartThread, DeliversReply, Goto, LoopsOK
<1>4. CASE \E l \in Loops : LoopStep(l) \/ PollFails(l) \/ PollTruncated(l)
  <2>1. PICK l \in Loops : LoopStep(l) \/ PollFails(l) \/ PollTruncated(l)
    BY <1>4
  <2>2. CASE Poll(l) \/ PollArrives(l) \/ PollFails(l) \/ PollTruncated(l)
    BY <1>1, <2>2 DEF Poll, PollArrives, PollFails, PollTruncated, DeliversReply, Goto, LoopsOK
  <2>3. CASE PollReturns(l)
    BY <1>1, <2>3 DEF PollReturns, DeliversReply, Goto, LoopsOK
  <2>4. CASE Dealt(l)
    BY <1>1, <2>4 DEF Dealt, DeliversReply, Goto, LoopsOK
  <2>5. CASE Goto(l, "deliver") /\ batch' = batch /\ Head(batch[l]).kind = "reply"
    BY <1>1, <2>5 DEF DeliversReply, Goto, LoopsOK
  <2> QED
    BY <2>1, <2>2, <2>3, <2>4, <2>5 DEF LoopStep, Dispatch, Deliver
<1>5. CASE \E a \in Agents : Start(a) \/ Stop(a) \/ StartPool(a) \/ StopPool(a) \/ StopUnregister(a)
                               \/ StopJoin(a) \/ TakeTask(a) \/ TableStep(a) \/ GhostEnds(a) \/ Evict(a)
  BY <1>2, <1>5 DEF Start, Stop, StartPool, StopPool, StopUnregister, StopJoin, TakeTask, TableStep,
                    RegistrationEnds, RemovalEnds, GhostEnds, Evict
<1>6. CASE \E r \in Requests : Begin(r) \/ CallStep(r) \/ TimesOut(r) \/ HandlerStep(r)
                                 \/ PostStep(r)
  BY <1>2, <1>6 DEF Begin, CallStep, Send, Answered, Cleanup, TimesOut, HandlerStep, HandlerEnds,
                    PostStep, EnqueueRequest, EnqueueReply, Enqueue
<1>7. CASE Restart
  BY <1>1, <1>7 DEF Restart, DeliversReply, LoopsOK
<1> QED
  BY <1>2, <1>3, <1>4, <1>5, <1>6, <1>7 DEF Next, LifecycleStep, vars

LEMMA ProtocolKept ==
  ASSUME Types, Protocol, accepted' = accepted, posts' \subseteq posts, running' \subseteq running,
         \A a \in Agents : inbox[a] \subseteq inbox'[a],
         \A r \in Requests : /\ caller'[r] \in {"new", "send"} => caller[r] \in {"new", "send"}
                             /\ caller'[r] = "new" => caller[r] = "new"
  PROVE  Protocol'
<1> SUFFICES ASSUME NEW r \in Requests
             PROVE  /\ Request(r) \in accepted' => caller'[r] \notin {"new", "send"}
                    /\ Request(r) \in posts' => caller'[r] # "new" /\ Request(r) \notin accepted'
                    /\ Reply(r) \in accepted' \cup posts' \/ (\E h \in running' : h.of = r)
                         => InInbox(Request(r))'
                    /\ \A k, h \in running' : k.of = r /\ h.of = r => k = h
                    /\ \A h \in running' : h.of = r => Reply(r) \notin accepted'
                    /\ Reply(r) \in posts' => Reply(r) \notin accepted'
  BY DEF Protocol
<1>1. InInbox(Request(r)) => InInbox(Request(r))'
  BY MessageTypes DEF InInbox
<1> QED
  BY <1>1 DEF Protocol

\* Only a request in nobody's inbox is handled, so nobody handles it yet.
LEMMA TaskProtocol ==
  ASSUME Types, Located, Protocol, NEW a \in Agents, TakeTask(a)
  PROVE  Protocol'
<1>1. HandlersOK
  BY Parts
<1>2. PICK m : m = Head(submitted[a])
  OBVIOUS
<1>3. /\ m \in Messages /\ Dest(m) = a /\ InWork(m)
      /\ inbox' = [inbox EXCEPT ![a] = @ \cup {m}]
  <2>1. Distinct(submitted[a]) /\ submitted[a] \in Seq(Messages) /\ submitted[a] # <<>>
    BY <1>1 DEF Located, NoDuplicates, HandlersOK, TakeTask
  <2>2. m \in Messages /\ m \in Range(submitted[a])
    BY <1>2, <2>1, TailQueue
  <2> QED
    BY <1>2, <2>2 DEF Located, Addressed, InWork, TakeTask
<1>4. ~InInbox(m)
  BY <1>3 DEF Located, Everywhere, InOnePlace
<1>5. /\ inbox'[a] = inbox[a] \cup {m}
      /\ \A x \in Agents \ {a} : inbox'[x] = inbox[x]
      /\ caller' = caller /\ accepted' = accepted /\ posts' = posts
  BY <1>1, <1>3 DEF HandlersOK, TakeTask, calls, ledger, broker, tasks
<1>6. CASE m.kind # "request"
  <2>1. running' = running
    BY <1>2, <1>6 DEF TakeTask
  <2> QED
    BY <1>5, <2>1, ProtocolKept
<1>7. CASE m.kind = "request"
  <2>1. PICK g : g = [of |-> m.of, pool |-> handler_pool[a]]
    OBVIOUS
  <2>2. running' = running \cup {g} /\ g.of = m.of
    BY <1>2, <1>7, <2>1 DEF TakeTask
  <2>3. m.of \in Requests /\ Request(m.of) = m
    BY <1>3, <1>7 DEF Messages, Request
  <2>4. Reply(m.of) \notin accepted \cup posts /\ \A h \in running : h.of # m.of
    BY <1>4, <2>3 DEF Protocol
  <2> SUFFICES ASSUME NEW r \in Requests
               PROVE  /\ Request(r) \in accepted' => caller'[r] \notin {"new", "send"}
                      /\ Request(r) \in posts' => caller'[r] # "new" /\ Request(r) \notin accepted'
                      /\ Reply(r) \in accepted' \cup posts' \/ (\E h \in running' : h.of = r)
                           => InInbox(Request(r))'
                      /\ \A k, h \in running' : k.of = r /\ h.of = r => k = h
                      /\ \A h \in running' : h.of = r => Reply(r) \notin accepted'
                      /\ Reply(r) \in posts' => Reply(r) \notin accepted'
    BY DEF Protocol
  <2>5. CASE r = m.of
    <3>1. InInbox(Request(r))'
      BY <1>3, <1>5, <2>3, <2>5 DEF InInbox
    <3> QED
      BY <1>5, <2>2, <2>4, <2>5, <3>1 DEF Protocol
  <2>6. CASE r # m.of
    <3>1. InInbox(Request(r)) => InInbox(Request(r))'
      BY <1>5, MessageTypes DEF InInbox
    <3> QED
      BY <1>5, <2>2, <2>6, <3>1 DEF Protocol
  <2> QED
    BY <2>5, <2>6
<1> QED
  BY <1>6, <1>7

\* A handler that posts its answer handles a request, whose answer is not yet
\* accepted.
LEMMA HandlerProtocol ==
  ASSUME Types, Protocol, NEW h, HandlerEnds(h)
  PROVE  Protocol'
<1>1. /\ h \in running /\ h.of \in Requests /\ running' \subseteq running /\ inbox' = inbox
      /\ caller' = caller /\ accepted' = accepted
  BY Parts DEF HandlerEnds, HandlersOK, Handlers, calls, ledger
<1>2. CASE posts' = posts
  BY <1>1, <1>2, ProtocolKept
<1>3. CASE posts' = posts \cup {Reply(h.of)}
  <2> SUFFICES ASSUME NEW r \in Requests
               PROVE  /\ Request(r) \in accepted' => caller'[r] \notin {"new", "send"}
                      /\ Request(r) \in posts' => caller'[r] # "new" /\ Request(r) \notin accepted'
                      /\ Reply(r) \in accepted' \cup posts' \/ (\E g \in running' : g.of = r)
                           => InInbox(Request(r))'
                      /\ \A k, g \in running' : k.of = r /\ g.of = r => k = g
                      /\ \A g \in running' : g.of = r => Reply(r) \notin accepted'
                      /\ Reply(r) \in posts' => Reply(r) \notin accepted'
    BY DEF Protocol
  <2>1. InInbox(Request(r))' = InInbox(Request(r))
    BY <1>1 DEF InInbox
  <2>2. Request(r) \in posts' => Request(r) \in posts
    BY <1>3 DEF Request, Reply
  <2>3. Reply(r) \in posts' => Reply(r) \in posts \/ r = h.of
    BY <1>3 DEF Reply
  <2>4. Reply(h.of) \notin accepted /\ InInbox(Request(h.of))
    BY <1>1 DEF Protocol
  <2> QED
    BY <1>1, <2>1, <2>2, <2>3, <2>4 DEF Protocol
<1> QED
  BY <1>2, <1>3 DEF HandlerEnds, FindRecipient

LEMMA CallProtocol ==
  ASSUME Types, Protocol, NEW r \in Requests, Begin(r) \/ CallStep(r) \/ TimesOut(r)
  PROVE  Protocol'
<1>1. CallsOK /\ running' = running /\ inbox' = inbox /\ accepted' = accepted
  BY Parts DEF Begin, CallStep, Send, Answered, Cleanup, TimesOut, handlers, ledger
<1>2. \A q \in Requests : /\ caller'[q] \in {"new", "send"} => caller[q] \in {"new", "send"}
                          /\ caller'[q] = "new" => caller[q] = "new"
  BY <1>1 DEF Begin, CallStep, Send, Answered, Cleanup, TimesOut, CallerGoto, CallsOK
<1>3. CASE posts' = posts
  BY <1>1, <1>2, <1>3, ProtocolKept
<1>4. CASE Send(r) /\ posts' = posts \cup {Request(r)}
  <2>1. Request(r) \notin accepted /\ caller'[r] # "new"
    BY <1>1, <1>4 DEF Send, CallerGoto, CallsOK, Protocol
  <2> SUFFICES ASSUME NEW q \in Requests
               PROVE  /\ Request(q) \in accepted' => caller'[q] \notin {"new", "send"}
                      /\ Request(q) \in posts' => caller'[q] # "new" /\ Request(q) \notin accepted'
                      /\ Reply(q) \in accepted' \cup posts' \/ (\E g \in running' : g.of = q)
                           => InInbox(Request(q))'
                      /\ \A k, g \in running' : k.of = q /\ g.of = q => k = g
                      /\ \A g \in running' : g.of = q => Reply(q) \notin accepted'
                      /\ Reply(q) \in posts' => Reply(q) \notin accepted'
    BY DEF Protocol
  <2>2. InInbox(Request(q))' = InInbox(Request(q))
    BY <1>1 DEF InInbox
  <2>3. Request(q) \in posts' => Request(q) \in posts \/ q = r
    BY <1>4 DEF Request
  <2>4. Reply(q) \in posts' => Reply(q) \in posts
    BY <1>4 DEF Request, Reply
  <2> QED
    BY <1>1, <1>2, <2>1, <2>2, <2>3, <2>4 DEF Protocol
<1> QED
  BY <1>3, <1>4 DEF Begin, CallStep, Send, Answered, Cleanup, TimesOut, FindRecipient, broker, tasks

\* What is appended was found once, and its sender has finished with it.
LEMMA PostProtocol ==
  ASSUME Types, Protocol, NEW r \in Requests, PostStep(r)
  PROVE  Protocol'
<1>1. PICK m : /\ Enqueue(m)
               /\ \/ EnqueueRequest(r) /\ m = Request(r)
                  \/ EnqueueReply(r) /\ m = Reply(r)
  BY DEF PostStep, EnqueueRequest, EnqueueReply
<1>2. /\ m \in posts /\ posts' = posts \ {m} /\ accepted' = accepted \cup {m} /\ inbox' = inbox
      /\ CallsOK
  BY <1>1, Parts DEF Enqueue
<1> SUFFICES ASSUME NEW q \in Requests
             PROVE  /\ Request(q) \in accepted' => caller'[q] \notin {"new", "send"}
                    /\ Request(q) \in posts' => caller'[q] # "new" /\ Request(q) \notin accepted'
                    /\ Reply(q) \in accepted' \cup posts' \/ (\E g \in running' : g.of = q)
                         => InInbox(Request(q))'
                    /\ \A k, g \in running' : k.of = q /\ g.of = q => k = g
                    /\ \A g \in running' : g.of = q => Reply(q) \notin accepted'
                    /\ Reply(q) \in posts' => Reply(q) \notin accepted'
  BY DEF Protocol
<1>3. InInbox(Request(q))' = InInbox(Request(q))
  BY <1>2 DEF InInbox
<1>4. CASE EnqueueRequest(r) /\ m = Request(r)
  <2>1. running' = running
    BY <1>4 DEF EnqueueRequest
  <2>2. /\ caller'[r] \notin {"new", "send"}
        /\ \A x \in Requests \ {r} : caller'[x] = caller[x]
    BY <1>2, <1>4 DEF EnqueueRequest, CallerGoto, CallsOK, Protocol, CallerPlaces
  <2>3. Request(q) = m <=> q = r
    BY <1>4 DEF Request
  <2>4. Reply(q) # m
    BY <1>4 DEF Request, Reply
  <2> QED
    BY <1>2, <1>3, <2>1, <2>2, <2>3, <2>4 DEF Protocol
<1>5. CASE EnqueueReply(r) /\ m = Reply(r)
  <2>1. running' = {h \in running : h.of # r} /\ caller' = caller
    BY <1>5 DEF EnqueueReply
  <2>2. Reply(q) = m <=> q = r
    BY <1>5 DEF Reply
  <2>3. Request(q) # m
    BY <1>5 DEF Request, Reply
  <2> QED
    BY <1>2, <1>3, <2>1, <2>2, <2>3 DEF Protocol
<1> QED
  BY <1>1, <1>4, <1>5

LEMMA StepProtocol ==
  ASSUME Types, Located, Protocol, [Next]_vars
  PROVE  Protocol'
<1>1. CASE UNCHANGED <<posts, running, inbox, caller, accepted>>
  BY <1>1, ProtocolKept
<1>2. CASE \E a \in Agents : TakeTask(a)
  BY <1>2, TaskProtocol
<1>3. CASE \E a \in Agents : Start(a) \/ Stop(a) \/ LifecycleStep(a) \/ TableStep(a) \/ GhostEnds(a)
                               \/ Evict(a)
  BY <1>1, <1>3 DEF Start, Stop, LifecycleStep, StartPool, StartThread, StopPool, StopUnregister,
                    StopJoin, TableStep, RegistrationEnds, RemovalEnds, GhostEnds, Evict, broker, tasks,
                    handlers, calls, ledger
<1>4. CASE \E l \in Loops : LoopStep(l) \/ PollFails(l) \/ PollTruncated(l)
  BY <1>1, <1>4 DEF LoopStep, Poll, PollArrives, PollReturns, Dispatch, Deliver, PollFails,
                    PollTruncated, broker, tasks, handlers, calls, ledger
<1>5. CASE \E r \in Requests : Begin(r) \/ CallStep(r) \/ TimesOut(r) \/ HandlerStep(r)
                                 \/ PostStep(r)
  BY <1>5, CallProtocol, HandlerProtocol, PostProtocol DEF HandlerStep
<1>6. CASE Restart
  <2>1. \A r \in Requests : /\ caller'[r] \in {"new", "send"} => caller[r] \in {"new", "send"}
                            /\ caller'[r] = "new" => caller[r] = "new"
    BY <1>6 DEF Restart
  <2> QED
    BY <1>6, <2>1, ProtocolKept DEF Restart
<1> QED
  BY <1>1, <1>2, <1>3, <1>4, <1>5, <1>6 DEF Next, vars, broker, tasks, handlers, calls, ledger

LEMMA InitBookkeeping == Init => Bookkeeping
<1> SUFFICES ASSUME Init PROVE Bookkeeping
  OBVIOUS
<1>1. \A a \in Agents : /\ Queue(a) = <<>> /\ submitted[a] = <<>> /\ inbox[a] = {}
  BY DEF Init, Queue, HasQueue
<1>2. \A l \in Loops : batch[l] = <<>> /\ place[l] = "ended"
  BY DEF Init
<1>3. Range(<<>>) = {} /\ Distinct(<<>>)
  BY EmptyQueue
<1>4. Addressed /\ NoDuplicates /\ DeliversReply
  BY <1>1, <1>2, <1>3 DEF Addressed, NoDuplicates, DeliversReply
<1>5. ASSUME NEW m \in Messages
      PROVE  InOnePlace(m)
  <2>1. ~InQueue(m) /\ ~InWork(m) /\ ~InInbox(m) /\ \A l \in Loops : ~InBatch(m, l)
    BY <1>1, <1>2, <1>3, DestIsAgent DEF InQueue, InWork, InInbox, InBatch
  <2> QED
    BY <2>1 DEF Init, InOnePlace, Slotted
<1>6. Protocol
  BY DEF Init, Protocol
<1> QED
  BY <1>4, <1>5, <1>6, InitTypes DEF Bookkeeping, Types, Everywhere

LEMMA StepBookkeeping ==
  ASSUME Bookkeeping, [Next]_vars
  PROVE  Bookkeeping'
<1>1. Types /\ Located
  BY DEF Bookkeeping, Types, Located
<1>2. Types' /\ Located' /\ DeliversReply' /\ Protocol'
  BY <1>1, StepTypes, StepLocated, StepDelivers, StepProtocol DEF Bookkeeping
<1> QED
  BY <1>2 DEF Bookkeeping, Types, Located

-----------------------------------------------------------------------------
(* From one place to one copy.                                             *)

LEMMA OccursIfMember ==
  ASSUME NEW q \in Seq(Messages), NEW m
  PROVE  Occurrences(m, q) > 0 <=> m \in Range(q)
<1> DEFINE I == {i \in DOMAIN q : q[i] = m}
<1>1. IsFiniteSet(I)
  <2>1. DOMAIN q = 1 .. Len(q) /\ Len(q) \in Int
    BY LenProperties
  <2>2. IsFiniteSet(1 .. Len(q))
    BY <2>1, FS_Interval
  <2> QED
    BY <2>1, <2>2, FS_Subset
<1>2. I = {} <=> m \notin Range(q)
  BY DEF Range
<1> HIDE DEF I
<1>3. Cardinality(I) \in Nat /\ (Cardinality(I) = 0 <=> I = {})
  BY <1>1, FS_CardinalityType, FS_EmptySet
<1>4. Occurrences(m, q) = Cardinality(I)
  BY DEF Occurrences, I
<1> QED
  BY <1>2, <1>3, <1>4

\* A set with at most one element counts one or nothing.
LEMMA OneOrNothing ==
  ASSUME NEW S, NEW x, S \subseteq {x}
  PROVE  Cardinality(S) = IF S = {} THEN 0 ELSE 1
<1>1. S = {} \/ S = {x}
  OBVIOUS
<1> QED
  BY <1>1, FS_EmptySet, FS_Singleton

LEMMA OneCopy ==
  ASSUME Types, Located, NEW m \in accepted
  PROVE  Copies(m) = 1
<1>1. m \in Messages /\ InOnePlace(m) /\ Dest(m) \in Agents
  BY Parts, DestIsAgent DEF LedgerOK, Located, Everywhere
<1> DEFINE Queued == {a \in DOMAIN mailbox : Occurrences(m, mailbox[a]) > 0}
           Held == {l \in Loops : Occurrences(m, batch[l]) > 0}
           Waits == {a \in Agents : Occurrences(m, submitted[a]) > 0}
           Taken == {a \in Agents : m \in inbox[a]}
           held == \E l \in Loops : InBatch(m, l)
<1>2. Cardinality(Queued) = IF InQueue(m) THEN 1 ELSE 0
  <2>1. ASSUME NEW a
        PROVE  a \in Queued <=> InQueue(m) /\ a = Dest(m)
    <3>1. ASSUME a \in DOMAIN mailbox
          PROVE  a \in Agents /\ Queue(a) = mailbox[a] /\ mailbox[a] \in Seq(Messages)
      BY <3>1, Parts DEF MailboxOK, Queue, HasQueue
    <3>2. a \in DOMAIN mailbox => (Occurrences(m, mailbox[a]) > 0 <=> m \in Range(Queue(a)))
      BY <3>1, OccursIfMember
    <3>3. a \in DOMAIN mailbox /\ m \in Range(Queue(a)) => a = Dest(m)
      BY <3>1 DEF Located, Addressed
    <3>4. a \notin DOMAIN mailbox => m \notin Range(Queue(a))
      BY EmptyQueue DEF Queue, HasQueue
    <3> QED
      BY <3>2, <3>3, <3>4 DEF InQueue
  <2>2. Queued \subseteq {Dest(m)} /\ (Queued = {} <=> ~InQueue(m))
    BY <2>1
  <2> HIDE DEF Queued
  <2> QED
    BY <2>2, OneOrNothing
<1>3. Cardinality(Held) = IF held THEN 1 ELSE 0
  <2>1. \A l \in Loops : Occurrences(m, batch[l]) > 0 <=> InBatch(m, l)
    BY Parts, OccursIfMember DEF LoopsOK, InBatch
  <2>2. PICK k : held => k \in Loops /\ InBatch(m, k)
    OBVIOUS
  <2>3. ASSUME NEW l
        PROVE  l \in Held <=> held /\ l = k
    BY <1>1, <2>1, <2>2 DEF InOnePlace
  <2>4. Held \subseteq {k} /\ (Held = {} <=> ~held)
    BY <2>3
  <2> HIDE DEF Held, held
  <2> QED
    BY <2>4, OneOrNothing
<1>4. Cardinality(Waits) = IF InWork(m) THEN 1 ELSE 0
  <2>1. ASSUME NEW a
        PROVE  a \in Waits <=> InWork(m) /\ a = Dest(m)
    <3>1. a \in Agents => (Occurrences(m, submitted[a]) > 0 <=> m \in Range(submitted[a]))
      BY Parts, OccursIfMember DEF HandlersOK
    <3>2. a \in Agents /\ m \in Range(submitted[a]) => a = Dest(m)
      BY DEF Located, Addressed
    <3> QED
      BY <1>1, <3>1, <3>2 DEF InWork
  <2>2. Waits \subseteq {Dest(m)} /\ (Waits = {} <=> ~InWork(m))
    BY <2>1
  <2> HIDE DEF Waits
  <2> QED
    BY <2>2, OneOrNothing
<1>5. Cardinality(Taken) = IF InInbox(m) THEN 1 ELSE 0
  <2>1. ASSUME NEW a
        PROVE  a \in Taken <=> InInbox(m) /\ a = Dest(m)
    BY <1>1 DEF Located, Addressed, InInbox
  <2>2. Taken \subseteq {Dest(m)} /\ (Taken = {} <=> ~InInbox(m))
    BY <2>1
  <2> HIDE DEF Taken
  <2> QED
    BY <2>2, OneOrNothing
<1>6. Copies(m) = Cardinality(Queued) + Cardinality(Held) + Cardinality(Waits) + Cardinality(Taken)
                  + (IF Slotted(m) THEN 1 ELSE 0) + (IF m \in lost THEN 1 ELSE 0)
  BY DEF Copies
<1>7. /\ InQueue(m) \/ held \/ InWork(m) \/ InInbox(m) \/ Slotted(m) \/ m \in lost
      /\ InQueue(m) => ~held /\ ~InWork(m) /\ ~InInbox(m) /\ ~Slotted(m) /\ m \notin lost
      /\ held => ~InWork(m) /\ ~InInbox(m) /\ ~Slotted(m) /\ m \notin lost
      /\ InWork(m) => ~InInbox(m) /\ ~Slotted(m) /\ m \notin lost
      /\ InInbox(m) => ~Slotted(m) /\ m \notin lost
      /\ Slotted(m) => m \notin lost
  BY <1>1 DEF InOnePlace
<1> HIDE DEF Queued, Held, Waits, Taken, held
<1> QED
  BY <1>2, <1>3, <1>4, <1>5, <1>6, <1>7

\* Every message that the broker has accepted is in one place and there once,
\* whatever overlaps: two receive loops of an agent, a reply and the timeout of
\* its requester, a stop and what is still in flight.
THEOREM OneWayHolds == Spec => []OneWay
<1>1. Bookkeeping => OneWay
  BY OneCopy DEF Bookkeeping, Types, Located, OneWay
<1>2. Spec => []Bookkeeping
  BY InitBookkeeping, StepBookkeeping, PTL DEF Spec
<1> QED
  BY <1>1, <1>2, PTL

=============================================================================
