----------------------------- MODULE PullAgent -----------------------------
(***************************************************************************)
(* Agents of the SDK in pull mode (sdk/agent.py), as BrokeredAgent and     *)
(* BrokeredResponder use them, talking to each other through the broker.   *)
(*                                                                         *)
(* Threads of an agent: the one that calls start() and stop(), the receive *)
(* loop, the workers of the handler pool, and the callers of               *)
(* send_request(), which may be handlers themselves.  Each action is what  *)
(* a thread does between two points where another can interfere: an        *)
(* attribute or lock shared with another thread, or a call to the broker.  *)
(*                                                                         *)
(* The broker is reduced to its registry and its queues, which it changes  *)
(* under different locks: a registration enters the registry first and     *)
(* makes the queue after that, a removal takes the agent from the registry *)
(* first and the queue after that, and a post looks its recipient up first *)
(* and appends after that.  Module Broker has all tables and threads; here *)
(* two registrations (or removals) of an agent at a time count as one.     *)
(***************************************************************************)
EXTENDS Naturals, Sequences, FiniteSets, Functions

CONSTANTS
  Agents,      \* the agents
  Requests,    \* the calls of send_request()
  From, To,    \* request -> requesting agent, request -> recipient
  Parent,      \* request -> the request whose handler makes it, or NoRequest
  NoRequest,
  Loops,       \* threads that run _recv_loop
  Owner,       \* loop -> its agent
  NoLoop,
  Workers,     \* max_handler_workers
  Stoppers,    \* bound: the agents whose stop() is called
  MaxStops,    \* bound: calls of stop()
  MaxFaults    \* bound: failures of network and broker

ASSUME AgentAssumption ==
  /\ From \in [Requests -> Agents] /\ To \in [Requests -> Agents]
  /\ NoRequest \notin Requests
  /\ Parent \in [Requests -> Requests \cup {NoRequest}]
  /\ \A r \in Requests : Parent[r] # NoRequest => From[r] = To[Parent[r]]
  /\ Owner \in [Loops -> Agents] /\ NoLoop \notin Loops
  /\ Stoppers \subseteq Agents
  /\ Workers \in Nat \ {0} /\ MaxStops \in Nat /\ MaxFaults \in Nat

VARIABLES
  registry,      \* broker: the registered agents
  mailbox,       \* broker: agent with a queue -> queue
  registering,   \* broker: agents that are in the registry, the queue to follow
  removing,      \* broker: agents that were unregistered, the queue to follow
  posts,         \* broker: messages whose recipient was found, to be appended
  ghosts,        \* broker: agents with a parked poll whose client has gone
  recv_stop,     \* agent -> whether the event is set
  recv_thread,   \* agent -> its loop as the attribute has it
  handler_pool,  \* agent -> number of its executor, 0 for None
  lifecycle,     \* agent -> where the call of start() or stop() is
  place, batch,  \* receive loop -> where it is, messages it has to dispatch
  submitted,     \* agent -> work queue of the executor
  running,       \* handlers at work: request and executor
  inbox,         \* agent -> messages put into _inbox
  waiters,       \* requests with an entry in _waiters
  slots,         \* requests whose waiter has been given its reply
  caller,        \* request -> where its call is
  stops, faults, \* numbers of stop() calls and failures so far
  accepted,      \* history: messages that the broker has queued
  lost           \* history: messages dropped by broker, network or agent

tasks    == <<registry, registering, removing, posts, ghosts>>
broker   == <<mailbox, tasks>>
lifetime == <<recv_stop, recv_thread, handler_pool, lifecycle, stops>>
loops    == <<place, batch>>
handlers == <<submitted, running, inbox>>
calls    == <<waiters, slots, caller>>
ledger   == <<accepted, lost>>
vars     == <<broker, lifetime, loops, handlers, calls, faults, ledger>>

-----------------------------------------------------------------------------
(* Messages, queues and places.                                            *)

Request(r) == [kind |-> "request", of |-> r]
Reply(r) == [kind |-> "reply", of |-> r]
Messages == [kind : {"request", "reply"}, of : Requests]

\* Whom a message is for.
Dest(m) == IF m.kind = "request" THEN To[m.of] ELSE From[m.of]

Registered(a) == a \in registry
HasQueue(a) == a \in DOMAIN mailbox
Queue(a) == IF HasQueue(a) THEN mailbox[a] ELSE <<>>
WithQueue(a, q) == [x \in DOMAIN mailbox \cup {a} |-> IF x = a THEN q ELSE mailbox[x]]

\* What registrations, removals, posts and polls do first.
EnterRegistry(a) == registry' = registry \cup {a} /\ registering' = registering \cup {a}
LeaveRegistry(a) == registry' = registry \ {a} /\ removing' = removing \cup {a}
FindRecipient(m) == Registered(Dest(m)) /\ posts' = posts \cup {m}
Drain(a) == mailbox' = IF HasQueue(a) THEN WithQueue(a, <<>>) ELSE mailbox

\* One more failure, as long as the bound allows it.
Fault == faults < MaxFaults /\ faults' = faults + 1

Lifecycles == {"idle", "start_pool", "start_thread",
               "stop_pool", "stop_unregister", "stop_join"}
Stage(a, stage) == lifecycle' = [lifecycle EXCEPT ![a] = stage]

Places == {"ended", "check", "polling", "parked", "dispatch", "deliver"}
LoopsOf(a) == {l \in Loops : Owner[l] = a}
EndedLoops(a) == {l \in LoopsOf(a) : place[l] = "ended"}
Goto(l, where) == place' = [place EXCEPT ![l] = where]

CallerPlaces == {"new", "send", "waiting", "cleanup", "answered", "failed"}
CallerGoto(r, where) == caller' = [caller EXCEPT ![r] = where]

\* A request whose handler has not ended: it may be posting its answer.
Handling(r) == (\E h \in running : h.of = r) /\ Reply(r) \notin posts

\* A handler makes one call at a time and ends after its calls.
ChildrenQuiet(p) ==
  \A r \in Requests : Parent[r] = p => caller[r] \in {"new", "answered", "failed"}

Init ==
  /\ mailbox = [a \in {} |-> <<>>]
  /\ registry = {} /\ registering = {} /\ removing = {} /\ posts = {} /\ ghosts = {}
  /\ recv_stop = [a \in Agents |-> FALSE]
  /\ recv_thread = [a \in Agents |-> NoLoop]
  /\ handler_pool = [a \in Agents |-> 0]
  /\ lifecycle = [a \in Agents |-> "idle"]
  /\ place = [l \in Loops |-> "ended"] /\ batch = [l \in Loops |-> <<>>]
  /\ submitted = [a \in Agents |-> <<>>]
  /\ running = {}
  /\ inbox = [a \in Agents |-> {}]
  /\ waiters = {} /\ slots = {}
  /\ caller = [r \in Requests |-> "new"]
  /\ stops = 0 /\ faults = 0
  /\ accepted = {} /\ lost = {}

-----------------------------------------------------------------------------
(* start() and stop().                                                     *)

\* The answer of the registration may be lost, in which case start() raises,
\* and a refusal of the broker goes unnoticed.
Start(a) ==
  /\ lifecycle[a] = "idle" /\ recv_thread[a] = NoLoop
  /\ \/ /\ EnterRegistry(a)
        /\ Stage(a, "start_pool")
        /\ UNCHANGED faults
     \/ /\ Fault
        /\ EnterRegistry(a)
        /\ UNCHANGED lifecycle
     \/ /\ Fault
        /\ Stage(a, "start_pool")
        /\ UNCHANGED <<registry, registering>>
  /\ UNCHANGED <<mailbox, removing, posts, ghosts, recv_stop, recv_thread, handler_pool,
                 stops, loops, handlers, calls, ledger>>

\* A new executor, once the broker has answered.  (A stop() comes between any
\* two executors of an agent.)
StartPool(a) ==
  /\ lifecycle[a] = "start_pool" /\ a \notin registering
  /\ handler_pool' = [handler_pool EXCEPT ![a] = stops + 1]
  /\ Stage(a, "start_thread")
  /\ UNCHANGED <<broker, recv_stop, recv_thread, stops, loops, handlers, calls,
                 faults, ledger>>

\* Threads are alike: a new one is any that is not in use.
StartThread(a) ==
  /\ lifecycle[a] = "start_thread"
  /\ recv_stop' = [recv_stop EXCEPT ![a] = FALSE]
  /\ EndedLoops(a) # {}
  /\ LET l == CHOOSE x \in EndedLoops(a) : TRUE
     IN Goto(l, "check") /\ recv_thread' = [recv_thread EXCEPT ![a] = l]
  /\ Stage(a, "idle")
  /\ UNCHANGED <<broker, handler_pool, stops, batch, handlers, calls, faults, ledger>>

Stop(a) ==
  /\ lifecycle[a] = "idle" /\ recv_thread[a] # NoLoop
  /\ a \in Stoppers /\ stops < MaxStops
  /\ stops' = stops + 1
  /\ recv_stop' = [recv_stop EXCEPT ![a] = TRUE]
  /\ Stage(a, "stop_pool")
  /\ UNCHANGED <<broker, recv_thread, handler_pool, loops, handlers, calls, faults, ledger>>

\* Fault: shutdown without cancel_futures.
StopPoolUncancelled(a) ==
  /\ lifecycle[a] = "stop_pool"
  /\ handler_pool' = [handler_pool EXCEPT ![a] = 0]
  /\ Stage(a, "stop_unregister")
  /\ UNCHANGED <<broker, recv_stop, recv_thread, stops, loops, handlers, calls,
                 faults, ledger>>

\* Queued work is cancelled, handlers at work go on.
StopPool(a) ==
  /\ lifecycle[a] = "stop_pool"
  /\ handler_pool' = [handler_pool EXCEPT ![a] = 0]
  /\ submitted' = [submitted EXCEPT ![a] = <<>>]
  /\ lost' = lost \cup Range(submitted[a])
  /\ Stage(a, "stop_unregister")
  /\ UNCHANGED <<broker, recv_stop, recv_thread, stops, loops, running,
                 inbox, calls, faults, accepted>>

\* DELETE at the broker.  An unreachable broker makes stop() raise half way,
\* and a refusal goes unnoticed.
StopUnregister(a) ==
  /\ lifecycle[a] = "stop_unregister"
  /\ \/ LeaveRegistry(a) /\ Stage(a, "stop_join") /\ UNCHANGED faults
     \/ Fault /\ LeaveRegistry(a) /\ Stage(a, "idle")
     \/ /\ Fault
        /\ \E stage \in {"idle", "stop_join"} : Stage(a, stage)
        /\ UNCHANGED <<registry, removing>>
  /\ UNCHANGED <<mailbox, registering, posts, ghosts, recv_stop, recv_thread,
                 handler_pool, stops, loops, handlers, calls, ledger>>

\* join(timeout=2.0), once the broker has answered, may return before the loop
\* has ended.
StopJoin(a) ==
  /\ lifecycle[a] = "stop_join" /\ a \notin removing
  /\ recv_thread' = [recv_thread EXCEPT ![a] = NoLoop]
  /\ Stage(a, "idle")
  /\ UNCHANGED <<broker, recv_stop, handler_pool, stops, loops, handlers, calls,
                 faults, ledger>>

-----------------------------------------------------------------------------
(* The receive loop.                                                       *)

\* Fault: while True in place of the test of the event.
PollAlways(l) ==
  /\ place[l] = "check"
  /\ Goto(l, "polling")
  /\ UNCHANGED <<broker, lifetime, batch, handlers, calls, faults, ledger>>

\* The loop ends when the event is set, and else sends a poll.
Poll(l) ==
  /\ place[l] = "check"
  /\ Goto(l, IF recv_stop[Owner[l]] THEN "ended" ELSE "polling")
  /\ UNCHANGED <<broker, lifetime, batch, handlers, calls, faults, ledger>>

\* Fault: the broker registers nobody on a poll.
PollArrivesUnheeded(l) ==
  /\ place[l] = "polling"
  /\ Goto(l, "parked")
  /\ UNCHANGED <<broker, lifetime, batch, handlers, calls, faults, ledger>>

\* The poll reaches the broker, which registers an agent that has no queue: it
\* does not look at the registry.
PollArrives(l) ==
  LET a == Owner[l] IN
  /\ place[l] = "polling"
  /\ Goto(l, "parked")
  /\ \/ ~HasQueue(a) /\ EnterRegistry(a)
     \/ HasQueue(a) /\ UNCHANGED <<registry, registering>>
  /\ UNCHANGED <<mailbox, removing, posts, ghosts, lifetime, batch, handlers, calls,
                 faults, ledger>>

\* The answer: all that is queued, or nothing when the wait is over or the
\* queue has gone.
PollReturns(l) ==
  LET a == Owner[l] IN
  /\ place[l] = "parked" /\ a \notin registering
  /\ batch' = [batch EXCEPT ![l] = Queue(a)]
  /\ Drain(a)
  /\ Goto(l, IF Queue(a) = <<>> THEN "check" ELSE "dispatch")
  /\ UNCHANGED <<tasks, lifetime, handlers, calls, faults, ledger>>

\* TransportError, OSError or a timeout: the loop goes round.  The broker may
\* still hold the poll.
PollFails(l) ==
  /\ place[l] \in {"polling", "parked"}
  /\ Fault
  /\ ghosts' = IF place[l] = "parked" THEN ghosts \cup {Owner[l]} ELSE ghosts
  /\ Goto(l, "check")
  /\ UNCHANGED <<mailbox, registry, registering, removing, posts, lifetime, batch,
                 handlers, calls, ledger>>

\* The connection breaks within the body of the answer: IncompleteRead is
\* neither a TransportError nor an OSError, and ends the thread.
PollTruncated(l) ==
  LET a == Owner[l] IN
  /\ place[l] = "parked" /\ a \notin registering
  /\ Fault
  /\ lost' = lost \cup Range(Queue(a))
  /\ Drain(a)
  /\ Goto(l, "ended")
  /\ UNCHANGED <<tasks, lifetime, batch, handlers, calls, accepted>>

\* Fault: the loop polls again after the first message.
DealtWithAll(l) ==
  /\ batch' = [batch EXCEPT ![l] = Tail(@)]
  /\ Goto(l, "check")

\* The loop has dealt with the first message of its batch.
Dealt(l) ==
  /\ batch' = [batch EXCEPT ![l] = Tail(@)]
  /\ Goto(l, IF Len(batch[l]) = 1 THEN "check" ELSE "dispatch")

\* Fault: replies go through the handler pool like everything else.
DispatchAllToPool(l) ==
  LET a == Owner[l]
      m == Head(batch[l])
  IN /\ place[l] = "dispatch"
     /\ Dealt(l)
     /\ IF handler_pool[a] # 0
        THEN submitted' = [submitted EXCEPT ![a] = Append(@, m)] /\ UNCHANGED lost
        ELSE lost' = lost \cup {m} /\ UNCHANGED submitted
     /\ UNCHANGED <<broker, lifetime, running, inbox, calls, faults, accepted>>

\* The waiter of a reply is looked up under the lock and used after it.  Any
\* other message goes to the executor, or is dropped when there is none.  (A
\* pool that stop() shuts down after _dispatch_pull has read the attribute
\* raises RuntimeError, which the guard of the loop catches: the message is
\* dropped as it is by a dispatch right after StopPool.)
Dispatch(l) ==
  LET a == Owner[l]
      m == Head(batch[l])
      awaited == m.kind = "reply" /\ m.of \in waiters
  IN /\ place[l] = "dispatch"
     /\ \/ /\ awaited
           /\ Goto(l, "deliver")
           /\ UNCHANGED <<batch, submitted, lost>>
        \/ /\ ~awaited /\ handler_pool[a] # 0
           /\ Dealt(l)
           /\ submitted' = [submitted EXCEPT ![a] = Append(@, m)]
           /\ UNCHANGED lost
        \/ /\ ~awaited /\ handler_pool[a] = 0
           /\ Dealt(l)
           /\ lost' = lost \cup {m}
           /\ UNCHANGED submitted
     /\ UNCHANGED <<broker, lifetime, running, inbox, calls, faults, accepted>>

\* Fault: no return after event.set(), the reply is dispatched as well.
DeliverFallsThrough(l) ==
  /\ place[l] = "deliver"
  /\ slots' = slots \cup {Head(batch[l]).of}
  /\ Dealt(l)
  /\ submitted' = IF handler_pool[Owner[l]] = 0 THEN submitted
                  ELSE [submitted EXCEPT ![Owner[l]] = Append(@, Head(batch[l]))]
  /\ UNCHANGED <<broker, lifetime, running, inbox, waiters, caller, faults, ledger>>

\* slot.append and event.set, whether or not the caller still waits.
Deliver(l) ==
  /\ place[l] = "deliver"
  /\ slots' = slots \cup {Head(batch[l]).of}
  /\ Dealt(l)
  /\ UNCHANGED <<broker, lifetime, handlers, waiters, caller, faults, ledger>>

-----------------------------------------------------------------------------
(* Handlers.                                                               *)

\* A worker takes the next message: it goes to the inbox, a request also to
\* the handler.  A reply whose caller has gone ends here.
TakeTask(a) ==
  LET m == Head(submitted[a])
      pool == handler_pool[a]
  IN /\ submitted[a] # <<>>
     /\ Cardinality({h \in running : h.pool = pool /\ To[h.of] = a}) < Workers
     /\ submitted' = [submitted EXCEPT ![a] = Tail(@)]
     /\ inbox' = [inbox EXCEPT ![a] = @ \cup {m}]
     /\ running' = running \cup
                   (IF m.kind = "request" THEN {[of |-> m.of, pool |-> pool]} ELSE {})
     /\ UNCHANGED <<broker, lifetime, loops, calls, faults, ledger>>

\* The handler returns or raises, and its response or error is posted: the
\* broker finds the requester and the worker waits, or it is lost because the
\* requester is not registered, or the post fails before or after it is found.
HandlerEnds(h) ==
  LET answer == Reply(h.of) IN
  /\ h \in running /\ Handling(h.of) /\ ChildrenQuiet(h.of)
  /\ \/ FindRecipient(answer) /\ UNCHANGED <<running, faults>>
     \/ /\ ~Registered(Dest(answer))
        /\ running' = running \ {h}
        /\ UNCHANGED <<posts, faults>>
     \/ /\ Fault
        /\ running' = running \ {h}
        /\ FindRecipient(answer) \/ UNCHANGED posts
  /\ UNCHANGED <<mailbox, registry, registering, removing, ghosts, lifetime, loops,
                 submitted, inbox, calls, ledger>>

-----------------------------------------------------------------------------
(* send_request().                                                         *)

\* A program thread, or the handler of another request, calls.
Begin(r) ==
  /\ caller[r] = "new"
  /\ \/ Parent[r] = NoRequest
     \/ Handling(Parent[r]) /\ ChildrenQuiet(Parent[r])
  /\ waiters' = waiters \cup {r}
  /\ CallerGoto(r, "send")
  /\ UNCHANGED <<broker, lifetime, loops, handlers, slots, faults, ledger>>

\* One POST, without retries: the broker finds the recipient, or answers 404,
\* or the call fails before or after that.
Send(r) ==
  LET found == FindRecipient(Request(r)) IN
  /\ caller[r] = "send" /\ Request(r) \notin posts
  /\ \/ found /\ UNCHANGED <<caller, faults>>
     \/ /\ ~Registered(To[r])
        /\ CallerGoto(r, "cleanup")
        /\ UNCHANGED <<posts, faults>>
     \/ /\ Fault
        /\ CallerGoto(r, "cleanup")
        /\ found \/ UNCHANGED posts
  /\ UNCHANGED <<mailbox, registry, registering, removing, ghosts, lifetime, loops,
                 handlers, waiters, slots, ledger>>

\* event.wait returns true: the reply is returned and the waiter removed.
Answered(r) ==
  /\ caller[r] = "waiting" /\ r \in slots
  /\ CallerGoto(r, "answered")
  /\ waiters' = waiters \ {r}
  /\ UNCHANGED <<broker, lifetime, loops, handlers, slots, faults, ledger>>

\* event.wait returns false; the waiter is still there.
TimesOut(r) ==
  /\ caller[r] = "waiting" /\ r \notin slots
  /\ CallerGoto(r, "cleanup")
  /\ UNCHANGED <<broker, lifetime, loops, handlers, waiters, slots, faults, ledger>>

Cleanup(r) ==
  /\ caller[r] = "cleanup"
  /\ CallerGoto(r, "failed")
  /\ waiters' = waiters \ {r}
  /\ UNCHANGED <<broker, lifetime, loops, handlers, slots, faults, ledger>>

-----------------------------------------------------------------------------
(* The broker and the network.                                             *)

\* setdefault: a registration keeps an existing queue.
RegistrationEnds(a) ==
  /\ a \in registering
  /\ registering' = registering \ {a}
  /\ mailbox' = WithQueue(a, Queue(a))
  /\ UNCHANGED <<registry, removing, posts, ghosts, lifetime, loops, handlers, calls,
                 faults, ledger>>

\* The queue goes with all that is in it.
RemovalEnds(a) ==
  /\ a \in removing
  /\ removing' = removing \ {a}
  /\ mailbox' = Restrict(mailbox, DOMAIN mailbox \ {a})
  /\ lost' = lost \cup Range(Queue(a))
  /\ UNCHANGED <<registry, registering, posts, ghosts, lifetime, loops, handlers, calls,
                 faults, accepted>>

\* setdefault and append: the queue that has gone since the recipient was found
\* is made again, without its registration.
Enqueue(m) ==
  /\ m \in posts
  /\ posts' = posts \ {m}
  /\ mailbox' = WithQueue(Dest(m), Append(Queue(Dest(m)), m))
  /\ accepted' = accepted \cup {m}
  /\ UNCHANGED <<registry, registering, removing, ghosts, lifetime, loops, submitted,
                 inbox, waiters, slots, lost>>

\* 202: the caller waits for the reply, unless it has given up or the answer of
\* the broker is lost.
EnqueueRequest(r) ==
  /\ Enqueue(Request(r))
  /\ \/ caller[r] = "send" /\ CallerGoto(r, "waiting") /\ UNCHANGED faults
     \/ caller[r] = "send" /\ CallerGoto(r, "cleanup") /\ Fault
     \/ caller[r] # "send" /\ UNCHANGED <<caller, faults>>
  /\ UNCHANGED running

\* 202: the worker is free.
EnqueueReply(r) ==
  /\ Enqueue(Reply(r))
  /\ running' = {h \in running : h.of # r}
  /\ UNCHANGED <<caller, faults>>

\* A poll whose client has gone drains the queue all the same, or its wait
\* ends with nothing.
GhostEnds(a) ==
  /\ a \in ghosts /\ a \notin registering
  /\ ghosts' = ghosts \ {a}
  /\ lost' = lost \cup Range(Queue(a))
  /\ Drain(a)
  /\ UNCHANGED <<registry, registering, removing, posts, lifetime, loops, handlers,
                 calls, faults, accepted>>

\* The sweep evicts an agent.  (It skips one without a heartbeat, which a first
\* registration records after it has made the queue.)
Evict(a) ==
  /\ Registered(a) /\ HasQueue(a)
  /\ Fault
  /\ LeaveRegistry(a)
  /\ UNCHANGED <<mailbox, registering, posts, ghosts, lifetime, loops, handlers, calls,
                 ledger>>

\* The broker restarts: its tables are empty, and every call that it has not
\* answered fails.
Restart ==
  LET unanswered(a) == \/ lifecycle[a] = "start_pool" /\ a \in registering
                       \/ lifecycle[a] = "stop_join" /\ a \in removing
  IN /\ Fault
     /\ mailbox' = [a \in {} |-> <<>>]
     /\ registry' = {} /\ registering' = {} /\ removing' = {} /\ posts' = {} /\ ghosts' = {}
     /\ lost' = lost \cup UNION {Range(Queue(a)) : a \in Agents}
     /\ lifecycle' = [a \in Agents |-> IF unanswered(a) THEN "idle" ELSE lifecycle[a]]
     /\ place' = [l \in Loops |-> IF place[l] = "parked" THEN "check" ELSE place[l]]
     /\ running' = {h \in running : Reply(h.of) \notin posts}
     /\ caller' = [r \in Requests |-> IF caller[r] = "send" /\ Request(r) \in posts
                                      THEN "cleanup" ELSE caller[r]]
     /\ UNCHANGED <<recv_stop, recv_thread, handler_pool, stops, batch, submitted, inbox,
                    waiters, slots, accepted>>

-----------------------------------------------------------------------------
(* The system.                                                             *)

LifecycleStep(a) ==
  StartPool(a) \/ StartThread(a) \/ StopPool(a) \/ StopUnregister(a) \/ StopJoin(a)

TableStep(a) == RegistrationEnds(a) \/ RemovalEnds(a)

LoopStep(l) ==
  Poll(l) \/ PollArrives(l) \/ PollReturns(l) \/ Dispatch(l) \/ Deliver(l)

CallStep(r) == Send(r) \/ Answered(r) \/ Cleanup(r)

PostStep(r) == EnqueueRequest(r) \/ EnqueueReply(r)

Handlers == [of : Requests, pool : 1 .. MaxStops + 1]
HandlerStep(r) == \E h \in Handlers : h.of = r /\ HandlerEnds(h)

Next ==
  \/ \E a \in Agents : Start(a) \/ Stop(a) \/ LifecycleStep(a) \/ TakeTask(a)
                         \/ TableStep(a) \/ GhostEnds(a) \/ Evict(a)
  \/ \E l \in Loops : LoopStep(l) \/ PollFails(l) \/ PollTruncated(l)
  \/ \E r \in Requests : Begin(r) \/ CallStep(r) \/ TimesOut(r) \/ HandlerStep(r)
                           \/ PostStep(r)
  \/ Restart

Spec == Init /\ [][Next]_vars

\* Threads run, those of the broker too, and handlers return.  Nobody has to
\* call start(), stop() or send_request(), and a caller may be as patient as it
\* likes.  (Fairness of the steps of an agent together asks less than fairness
\* of each, and is enough: there are finitely many without a new failure.)
FairSpec ==
  /\ Spec
  /\ \A a \in Agents : WF_vars(LifecycleStep(a) \/ TakeTask(a) \/ TableStep(a))
  /\ \A l \in Loops : WF_vars(LoopStep(l))
  /\ \A r \in Requests : WF_vars(CallStep(r) \/ HandlerStep(r) \/ PostStep(r))

-----------------------------------------------------------------------------
(* Safety.                                                                 *)

TypeOK ==
  /\ DOMAIN mailbox \subseteq Agents /\ mailbox \in [DOMAIN mailbox -> Seq(Messages)]
  /\ registry \subseteq Agents /\ registering \subseteq Agents /\ removing \subseteq Agents
  /\ posts \subseteq Messages /\ ghosts \subseteq Agents
  /\ recv_stop \in [Agents -> BOOLEAN]
  /\ recv_thread \in [Agents -> Loops \cup {NoLoop}]
  /\ \A a \in Agents : recv_thread[a] \in LoopsOf(a) \cup {NoLoop}
  /\ handler_pool \in [Agents -> 0 .. MaxStops + 1]
  /\ lifecycle \in [Agents -> Lifecycles]
  /\ place \in [Loops -> Places] /\ batch \in [Loops -> Seq(Messages)]
  /\ \A l \in Loops : batch[l] # <<>> <=> place[l] \in {"dispatch", "deliver"}
  /\ submitted \in [Agents -> Seq(Messages)]
  /\ running \subseteq Handlers
  /\ inbox \in [Agents -> SUBSET Messages]
  /\ waiters \subseteq Requests /\ slots \subseteq Requests
  /\ caller \in [Requests -> CallerPlaces]
  /\ stops \in 0 .. MaxStops /\ faults \in 0 .. MaxFaults
  /\ accepted \subseteq Messages /\ lost \subseteq Messages

\* Where a message that the broker has accepted can be, and how often.
Occurrences(m, s) == Cardinality({i \in DOMAIN s : s[i] = m})
Slotted(m) == m.kind = "reply" /\ m.of \in slots
Copies(m) ==
  LET Queued == {a \in DOMAIN mailbox : Occurrences(m, mailbox[a]) > 0}
      Held == {l \in Loops : Occurrences(m, batch[l]) > 0}
      Waits == {a \in Agents : Occurrences(m, submitted[a]) > 0}
      Taken == {a \in Agents : m \in inbox[a]}
  IN Cardinality(Queued) + Cardinality(Held) + Cardinality(Waits) + Cardinality(Taken)
     + (IF Slotted(m) THEN 1 ELSE 0) + (IF m \in lost THEN 1 ELSE 0)

\* A message goes one way only.  What the broker has accepted is in one place:
\* its queue, the batch of a loop, the executor, the inbox (and the handler),
\* the slot of a waiter, or lost, even when the reply races the timeout of its
\* requester, or two loops overlap.
OneWay == \A m \in accepted : Copies(m) = 1

\* Messages never wait for an executor that is gone: stop() cancels what is
\* queued and the loop drops what it still receives.
WorkHasExecutor == \A a \in Agents : submitted[a] # <<>> => handler_pool[a] # 0

-----------------------------------------------------------------------------
(* Liveness.                                                               *)

Started(a) == lifecycle[a] = "idle" /\ recv_thread[a] # NoLoop /\ ~recv_stop[a]
Alive(a) == Started(a) /\ place[recv_thread[a]] # "ended"

\* Agents whose handlers keep each other from ending: every worker of each is
\* taken by a handler with an unanswered request to one of them.
Asking(h, them) ==
  \E r \in Requests : /\ Parent[r] = h.of /\ To[r] \in them
                      /\ caller[r] \in {"send", "waiting"} /\ Reply(r) \notin accepted
Entangled(them) ==
  \A a \in them : Cardinality({h \in running : To[h.of] = a /\ Asking(h, them)}) >= Workers

Calm == /\ faults = 0 /\ stops = 0
        /\ \A r \in Requests : caller[r] # "failed"
        /\ \A them \in SUBSET Agents \ {{}} : ~Entangled(them)

\* A request of a started agent is answered, as long as nothing fails, nobody
\* stops, callers are patient, and no circle of agents has all its workers
\* waiting for each other.  Handlers may ask other agents while they occupy the
\* pool, because replies never go through it.
RepliesArrive ==
  \A r \in Requests :
    caller[r] = "send" /\ Started(From[r]) ~> caller[r] = "answered" \/ ~Calm

\* A queue without a registration that no removal is about to take away: a post
\* or a registration has made it after a removal took the agent from the
\* registry.
LeftOver(a) == HasQueue(a) /\ ~Registered(a) /\ a \notin removing

\* After evictions and restarts of the broker, an agent whose loop is alive is
\* registered again, without a restart of its own, unless a queue of its was left
\* over: the broker takes that for its registration.
HealsWhileAlive ==
  \A a \in Agents : <>[]Alive(a) => []<>(Registered(a) \/ LeftOver(a))

\* A stop that is not followed by a start takes effect: every loop of the agent
\* ends, also one whose poll was in flight or that join() did not wait for.
StopSettles ==
  \A a \in Agents : <>[]recv_stop[a] => <>[](\A l \in LoopsOf(a) : place[l] = "ended")

\* "It is self-healing across broker restarts": a started agent polls over and
\* over, whatever happens to its connections.
SelfHealing ==
  \A a \in Agents :
    <>[]Started(a) => []<>(\E l \in LoopsOf(a) : place[l] = "parked")

=============================================================================
