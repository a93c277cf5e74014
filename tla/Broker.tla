------------------------------- MODULE Broker -------------------------------
(***************************************************************************)
(* The broker of robotsix-agent-comm (broker/server.py): a threaded HTTP   *)
(* server that keeps every table in memory.  Each request runs on a        *)
(* handler thread of its own, one more thread sweeps expired               *)
(* registrations, and the tables are guarded by separate locks that are    *)
(* never nested.  One action is therefore one lock section of a handler    *)
(* (together with the thread-local code up to the next one), and the       *)
(* sections of different threads interleave freely.                        *)
(*                                                                         *)
(* A dict of the source is a function whose domain is the set of keys      *)
(* present.  Capabilities are payload: only their presence is kept.        *)
(* Messages are numbered in the order in which they are queued.            *)
(*                                                                         *)
(* Requests that stop at a 400, 401, 403 or 429 before any table is        *)
(* touched change nothing and are no action, except that a rejected        *)
(* send leaves a traffic record.                                           *)
(***************************************************************************)
EXTENDS Naturals, Integers, Sequences, FiniteSets, Functions

CONSTANTS
  Agents,        \* agent identifiers
  Nobody,        \* the empty identifier: no recipient, no authenticated caller
  Threads,       \* handler threads of the HTTP server
  AuthEnabled,   \* agent_tokens is not None
  SweepEnabled,  \* sweep_interval_seconds > 0
  DefaultTtl,    \* default_ttl_seconds
  Ttls,          \* the values of ttl_seconds that registrations carry
  Grace,         \* mailbox_grace_seconds
  TrafficSize,   \* traffic_buffer_size
  MayRestart,    \* whether the process may crash and start again
  Operations,    \* bound: the kinds of request that clients issue
  MaxSends,      \* bound: sends begun in a behaviour
  MaxClock       \* bound: last instant of the monotonic clock

ASSUME ConstantsAssumption ==
  /\ Nobody \notin Agents
  /\ AuthEnabled \in BOOLEAN /\ SweepEnabled \in BOOLEAN /\ MayRestart \in BOOLEAN
  /\ DefaultTtl \in Nat /\ Ttls \subseteq Nat /\ Grace \in Nat
  /\ Operations \subseteq {"register", "deregister", "send", "poll"}
  /\ TrafficSize \in Nat /\ MaxSends \in Nat /\ MaxClock \in Nat

VARIABLES
  registry,        \* agent -> kind of endpoint (Registry._endpoints)
  mailboxes,       \* agent -> queue of messages
  capabilities,    \* agents with a capabilities entry
  last_heartbeat,  \* agent -> instant of its last heartbeat
  ttl_seconds,     \* agent -> time to live, 0 for no expiry
  traffic_buffer,  \* ring buffer of the dispositions of the last sends
  pc,              \* where each handler thread is
  req,             \* the request each thread handles, with what it has read
  batch,           \* messages a thread has drained and not yet written
  notified,        \* waiting threads that notify_all has woken
  sweep,           \* the sweep thread: place, local now, snapshot, agent
  clock,           \* time.monotonic()
  sent,            \* number of sends begun
  unanswered,      \* history: number of sends whose handler died in the dial
  accepted,        \* history: number of messages queued so far
  received,        \* history: agent -> messages that reached its client
  lost             \* history: messages dropped with a mailbox, reply or process

tables   == <<registry, mailboxes, capabilities, last_heartbeat, ttl_seconds,
              traffic_buffer>>
threads  == <<pc, req, batch, notified>>
history  == <<sent, unanswered, accepted, received, lost>>
vars     == <<tables, threads, sweep, clock, history>>

-----------------------------------------------------------------------------
(* Dicts, kinds, requests.                                                 *)

EmptyDict == [k \in {} |-> 0]
Put(d, k, v) == [x \in DOMAIN d \cup {k} |-> IF x = k THEN v ELSE d[x]]
SetDefault(d, k, v) == IF k \in DOMAIN d THEN d ELSE Put(d, k, v)
Pop(d, k) == Restrict(d, DOMAIN d \ {k})
IsDict(d, K, V) == DOMAIN d \subseteq K /\ d \in [DOMAIN d -> V]

Kinds == {"endpoint", "mailbox"}
NotGiven == -1
Dispositions == {"queued", "routed", "unknown_recipient", "rejected"}

NoRequest == [caller |-> Nobody, agent |-> Nobody, kind |-> "mailbox",
              ttl |-> NotGiven, isNew |-> FALSE, disposition |-> "queued"]
Requests == [caller : Agents \cup {Nobody}, agent : Agents \cup {Nobody},
             kind : Kinds, ttl : Ttls \cup {NotGiven}, isNew : BOOLEAN,
             disposition : Dispositions]

RegisterPCs == {"reg_registry", "reg_mailbox", "reg_capabilities", "reg_lease"}
DeregisterPCs == {"dereg_capabilities", "dereg_lease", "dereg_mailbox"}
SendPCs == {"send_enqueue", "send_route", "send_dial", "send_traffic"}
PollPCs == {"auto_registry", "auto_mailbox", "auto_capabilities", "auto_lease",
            "poll_heartbeat", "poll_enter", "poll_wait", "poll_reply"}
PCs == {"idle"} \cup RegisterPCs \cup DeregisterPCs \cup SendPCs \cup PollPCs

SweepIdle == [pc |-> "idle", now |-> 0, todo |-> EmptyDict, agent |-> Nobody]
SweepPCs == {"idle", "snapshot", "scan", "evict_registry", "evict_capabilities",
             "evict_lease", "evict_mailbox"}

Quiet == (\A t \in Threads : pc[t] = "idle") /\ sweep.pc = "idle"
Waiting == {t \in Threads : pc[t] = "poll_wait"}

\* Who may be behind a request: with tokens, the token's agent.
Callers == IF AuthEnabled THEN Agents ELSE {Nobody}

\* Fault: the handlers forget the token check.
PermittedAlways(caller, a) == TRUE

\* The token check of the handlers: agent_id must match the token.
Permitted(caller, a) == caller = Nobody \/ caller = a

\* Thread t goes on at the given place, or ends its request.
Goto(t, place) == pc' = [pc EXCEPT ![t] = place]
Begin(t, place, r) == Goto(t, place) /\ req' = [req EXCEPT ![t] = r]
Finish(t) == Begin(t, "idle", NoRequest)

\* Fault: popping a mailbox wakes nobody.
PopMailboxSilently(a) ==
  /\ mailboxes' = Pop(mailboxes, a)
  /\ lost' = lost \cup (IF a \in DOMAIN mailboxes THEN Range(mailboxes[a]) ELSE {})
  /\ UNCHANGED notified

\* Dropping a mailbox drops what it holds and wakes every waiting poll.
PopMailbox(a) ==
  /\ mailboxes' = Pop(mailboxes, a)
  /\ lost' = lost \cup (IF a \in DOMAIN mailboxes THEN Range(mailboxes[a]) ELSE {})
  /\ notified' = Waiting

Init ==
  /\ registry = EmptyDict /\ mailboxes = EmptyDict /\ capabilities = {}
  /\ last_heartbeat = EmptyDict /\ ttl_seconds = EmptyDict
  /\ traffic_buffer = <<>>
  /\ pc = [t \in Threads |-> "idle"]
  /\ req = [t \in Threads |-> NoRequest]
  /\ batch = [t \in Threads |-> <<>>]
  /\ notified = {}
  /\ sweep = SweepIdle
  /\ clock = 0
  /\ sent = 0 /\ unanswered = 0 /\ accepted = 0
  /\ received = [a \in Agents |-> {}]
  /\ lost = {}

-----------------------------------------------------------------------------
(* POST /agents: register or refresh.                                      *)

\* Validation ends with the lookup that decides is_new, long before it is used.
StartRegister(t, caller, a, kind, ttl) ==
  /\ pc[t] = "idle"
  /\ Permitted(caller, a)
  /\ Begin(t, "reg_registry",
           [NoRequest EXCEPT !.caller = caller, !.agent = a, !.kind = kind,
                             !.ttl = ttl, !.isNew = a \notin DOMAIN registry])
  /\ UNCHANGED <<tables, batch, notified, sweep, clock, history>>

RegisterEndpoint(t) ==
  /\ pc[t] = "reg_registry"
  /\ registry' = Put(registry, req[t].agent, req[t].kind)
  /\ Goto(t, IF req[t].kind = "mailbox" THEN "reg_mailbox" ELSE "reg_capabilities")
  /\ UNCHANGED <<mailboxes, capabilities, last_heartbeat, ttl_seconds,
                 traffic_buffer, req, batch, notified, sweep, clock, history>>

\* Fault: a refresh replaces the queue.
RegisterMailboxAfresh(t) ==
  /\ pc[t] = "reg_mailbox"
  /\ mailboxes' = Put(mailboxes, req[t].agent, <<>>)
  /\ Goto(t, "reg_capabilities")
  /\ UNCHANGED <<registry, capabilities, last_heartbeat, ttl_seconds,
                 traffic_buffer, req, batch, notified, sweep, clock, history>>

\* An existing queue is kept: a refresh loses no message.
RegisterMailbox(t) ==
  /\ pc[t] = "reg_mailbox"
  /\ mailboxes' = SetDefault(mailboxes, req[t].agent, <<>>)
  /\ Goto(t, "reg_capabilities")
  /\ UNCHANGED <<registry, capabilities, last_heartbeat, ttl_seconds,
                 traffic_buffer, req, batch, notified, sweep, clock, history>>

RegisterCapabilities(t) ==
  /\ pc[t] = "reg_capabilities"
  /\ capabilities' = capabilities \cup {req[t].agent}
  /\ Goto(t, "reg_lease")
  /\ UNCHANGED <<registry, mailboxes, last_heartbeat, ttl_seconds,
                 traffic_buffer, req, batch, notified, sweep, clock, history>>

\* A refresh without an explicit ttl keeps the existing one, if there is one.
RegisterLease(t) ==
  LET a == req[t].agent IN
  /\ pc[t] = "reg_lease"
  /\ last_heartbeat' = Put(last_heartbeat, a, clock)
  /\ ttl_seconds' = IF req[t].ttl # NotGiven THEN Put(ttl_seconds, a, req[t].ttl)
                    ELSE IF req[t].isNew THEN Put(ttl_seconds, a, DefaultTtl)
                    ELSE ttl_seconds
  /\ Finish(t)
  /\ UNCHANGED <<registry, mailboxes, capabilities, traffic_buffer,
                 batch, notified, sweep, clock, history>>

-----------------------------------------------------------------------------
(* DELETE /agents/{id}.                                                    *)

StartDeregister(t, caller, a) ==
  /\ pc[t] = "idle"
  /\ Permitted(caller, a)
  /\ registry' = Pop(registry, a)
  /\ Begin(t, "dereg_capabilities", [NoRequest EXCEPT !.caller = caller, !.agent = a])
  /\ UNCHANGED <<mailboxes, capabilities, last_heartbeat, ttl_seconds,
                 traffic_buffer, batch, notified, sweep, clock, history>>

DeregisterCapabilities(t) ==
  /\ pc[t] = "dereg_capabilities"
  /\ capabilities' = capabilities \ {req[t].agent}
  /\ Goto(t, "dereg_lease")
  /\ UNCHANGED <<registry, mailboxes, last_heartbeat, ttl_seconds,
                 traffic_buffer, req, batch, notified, sweep, clock, history>>

\* Fault: the ttl of a deregistered agent stays behind.
DeregisterHeartbeatOnly(t) ==
  /\ pc[t] = "dereg_lease"
  /\ last_heartbeat' = Pop(last_heartbeat, req[t].agent)
  /\ Goto(t, "dereg_mailbox")
  /\ UNCHANGED <<registry, mailboxes, capabilities, ttl_seconds, traffic_buffer,
                 req, batch, notified, sweep, clock, history>>

DeregisterLease(t) ==
  /\ pc[t] = "dereg_lease"
  /\ last_heartbeat' = Pop(last_heartbeat, req[t].agent)
  /\ ttl_seconds' = Pop(ttl_seconds, req[t].agent)
  /\ Goto(t, "dereg_mailbox")
  /\ UNCHANGED <<registry, mailboxes, capabilities, traffic_buffer,
                 req, batch, notified, sweep, clock, history>>

DeregisterMailbox(t) ==
  /\ pc[t] = "dereg_mailbox"
  /\ PopMailbox(req[t].agent)
  /\ Finish(t)
  /\ UNCHANGED <<registry, capabilities, last_heartbeat, ttl_seconds,
                 traffic_buffer, batch, sweep, clock, sent, unanswered, accepted,
                 received>>

-----------------------------------------------------------------------------
(* POST /messages: queue for a mailbox agent, dial an endpoint agent.      *)

\* The checks and the first lookup.  A sender that is not the authenticated
\* agent (403) and a missing recipient (400) are rejected.
StartSend(t, caller, sender, recipient) ==
  /\ pc[t] = "idle"
  /\ sent < MaxSends
  /\ sent' = sent + 1
  /\ LET r == [NoRequest EXCEPT !.caller = caller, !.agent = recipient]
     IN \/ /\ ~Permitted(caller, sender) \/ recipient = Nobody
           /\ Begin(t, "send_traffic", [r EXCEPT !.disposition = "rejected"])
        \/ /\ Permitted(caller, sender) /\ recipient # Nobody
           /\ recipient \notin DOMAIN registry
           /\ Begin(t, "send_traffic", [r EXCEPT !.disposition = "unknown_recipient"])
        \/ /\ Permitted(caller, sender)
           /\ recipient \in DOMAIN registry
           /\ Begin(t, IF registry[recipient] = "mailbox" THEN "send_enqueue"
                       ELSE "send_route", r)
  /\ UNCHANGED <<tables, batch, notified, sweep, clock, unanswered, accepted, received, lost>>

\* Fault: an append without notify_all.
EnqueueSilently(t) ==
  LET a == req[t].agent
      queues == SetDefault(mailboxes, a, <<>>)
  IN /\ pc[t] = "send_enqueue"
     /\ accepted' = accepted + 1
     /\ mailboxes' = Put(queues, a, Append(queues[a], accepted'))
     /\ Begin(t, "send_traffic", [req[t] EXCEPT !.disposition = "queued"])
     /\ UNCHANGED <<registry, capabilities, last_heartbeat, ttl_seconds,
                    traffic_buffer, batch, notified, sweep, clock, sent, unanswered,
                    received, lost>>

\* Fault: appendleft in place of append.
EnqueueLeft(t) ==
  LET a == req[t].agent
      queues == SetDefault(mailboxes, a, <<>>)
  IN /\ pc[t] = "send_enqueue"
     /\ accepted' = accepted + 1
     /\ mailboxes' = Put(queues, a, <<accepted'>> \o queues[a])
     /\ notified' = Waiting
     /\ Begin(t, "send_traffic", [req[t] EXCEPT !.disposition = "queued"])
     /\ UNCHANGED <<registry, capabilities, last_heartbeat, ttl_seconds,
                    traffic_buffer, batch, sweep, clock, sent, unanswered,
                    received, lost>>

\* setdefault, append and notify_all in one section: the queue is created when
\* it has gone since the lookup.
Enqueue(t) ==
  LET a == req[t].agent
      queues == SetDefault(mailboxes, a, <<>>)
  IN /\ pc[t] = "send_enqueue"
     /\ accepted' = accepted + 1
     /\ mailboxes' = Put(queues, a, Append(queues[a], accepted'))
     /\ notified' = Waiting
     /\ Begin(t, "send_traffic", [req[t] EXCEPT !.disposition = "queued"])
     /\ UNCHANGED <<registry, capabilities, last_heartbeat, ttl_seconds,
                    traffic_buffer, batch, sweep, clock, sent, unanswered,
                    received, lost>>

\* Fault: a recipient that went between the lookups is answered, not recorded.
RouteUnrecorded(t) ==
  LET a == req[t].agent IN
  /\ pc[t] = "send_route"
  /\ IF a \in DOMAIN registry
     THEN Begin(t, "send_dial", [req[t] EXCEPT !.kind = registry[a]])
     ELSE Finish(t)
  /\ UNCHANGED <<tables, batch, notified, sweep, clock, history>>

\* Router.route looks the recipient up a second time; a recipient that has
\* gone is a 404 recorded as routed.
Route(t) ==
  LET a == req[t].agent IN
  /\ pc[t] = "send_route"
  /\ IF a \in DOMAIN registry
     THEN Begin(t, "send_dial", [req[t] EXCEPT !.kind = registry[a]])
     ELSE Begin(t, "send_traffic", [req[t] EXCEPT !.disposition = "routed"])
  /\ UNCHANGED <<tables, batch, notified, sweep, clock, history>>

\* The retried HTTP call to the endpoint: 200, 204 or 502, no table touched.  An
\* answer that is cut short or is no HTTP raises an HTTPException, which is
\* neither a TimeoutError nor an OSError: it leaves _do_post, retry_call and
\* _route_send, and ends the handler without answer and without record.
Dial(t) ==
  /\ pc[t] = "send_dial"
  /\ \/ /\ Begin(t, "send_traffic", [req[t] EXCEPT !.disposition = "routed"])
        /\ UNCHANGED unanswered
     \/ /\ Finish(t)
        /\ unanswered' = unanswered + 1
  /\ UNCHANGED <<tables, batch, notified, sweep, clock, sent, accepted, received, lost>>

\* deque(maxlen=TrafficSize): the oldest record makes room.
RingAppend(buffer, record) ==
  LET longer == Append(buffer, record)
  IN  IF Len(longer) > TrafficSize THEN Tail(longer) ELSE longer

RecordTraffic(t) ==
  /\ pc[t] = "send_traffic"
  /\ traffic_buffer' = RingAppend(traffic_buffer, req[t].disposition)
  /\ Finish(t)
  /\ UNCHANGED <<registry, mailboxes, capabilities, last_heartbeat, ttl_seconds,
                 batch, notified, sweep, clock, history>>

-----------------------------------------------------------------------------
(* GET /messages: long-poll the caller's mailbox.                          *)

\* Fault: a poll re-creates nothing.
StartPollNoHeal(t, caller, a) ==
  /\ pc[t] = "idle"
  /\ Permitted(caller, a)
  /\ Begin(t, "poll_heartbeat", [NoRequest EXCEPT !.caller = caller, !.agent = a])
  /\ UNCHANGED <<tables, batch, notified, sweep, clock, history>>

\* The membership test is outside every lock.
StartPoll(t, caller, a) ==
  /\ pc[t] = "idle"
  /\ Permitted(caller, a)
  /\ Begin(t, IF a \in DOMAIN mailboxes THEN "poll_heartbeat" ELSE "auto_registry",
           [NoRequest EXCEPT !.caller = caller, !.agent = a])
  /\ UNCHANGED <<tables, batch, notified, sweep, clock, history>>

AutoRegisterEndpoint(t) ==
  /\ pc[t] = "auto_registry"
  /\ registry' = Put(registry, req[t].agent, "mailbox")
  /\ Goto(t, "auto_mailbox")
  /\ UNCHANGED <<mailboxes, capabilities, last_heartbeat, ttl_seconds,
                 traffic_buffer, req, batch, notified, sweep, clock, history>>

AutoRegisterMailbox(t) ==
  /\ pc[t] = "auto_mailbox"
  /\ mailboxes' = SetDefault(mailboxes, req[t].agent, <<>>)
  /\ Goto(t, "auto_capabilities")
  /\ UNCHANGED <<registry, capabilities, last_heartbeat, ttl_seconds,
                 traffic_buffer, req, batch, notified, sweep, clock, history>>

AutoRegisterCapabilities(t) ==
  /\ pc[t] = "auto_capabilities"
  /\ capabilities' = capabilities \cup {req[t].agent}
  /\ Goto(t, "auto_lease")
  /\ UNCHANGED <<registry, mailboxes, last_heartbeat, ttl_seconds,
                 traffic_buffer, req, batch, notified, sweep, clock, history>>

\* Fault: the automatic registration sets no ttl.
AutoRegisterHeartbeatOnly(t) ==
  /\ pc[t] = "auto_lease"
  /\ last_heartbeat' = Put(last_heartbeat, req[t].agent, clock)
  /\ Goto(t, "poll_heartbeat")
  /\ UNCHANGED <<registry, mailboxes, capabilities, ttl_seconds, traffic_buffer,
                 req, batch, notified, sweep, clock, history>>

AutoRegisterLease(t) ==
  /\ pc[t] = "auto_lease"
  /\ last_heartbeat' = Put(last_heartbeat, req[t].agent, clock)
  /\ ttl_seconds' = SetDefault(ttl_seconds, req[t].agent, DefaultTtl)
  /\ Goto(t, "poll_heartbeat")
  /\ UNCHANGED <<registry, mailboxes, capabilities, traffic_buffer,
                 req, batch, notified, sweep, clock, history>>

\* A poll counts as a heartbeat, but only of an agent that has a ttl.
PollHeartbeat(t) ==
  LET a == req[t].agent IN
  /\ pc[t] = "poll_heartbeat"
  /\ last_heartbeat' = IF a \in DOMAIN ttl_seconds THEN Put(last_heartbeat, a, clock)
                       ELSE last_heartbeat
  /\ Goto(t, "poll_enter")
  /\ UNCHANGED <<registry, mailboxes, capabilities, ttl_seconds, traffic_buffer,
                 req, batch, notified, sweep, clock, history>>

\* Fault: the poll takes the oldest message only.
TakeOldest(t) ==
  LET a == req[t].agent IN
  /\ Goto(t, "poll_reply")
  /\ notified' = notified \ {t}
  /\ IF a \in DOMAIN mailboxes /\ mailboxes[a] # <<>>
     THEN /\ batch' = [batch EXCEPT ![t] = <<Head(mailboxes[a])>>]
          /\ mailboxes' = Put(mailboxes, a, Tail(mailboxes[a]))
     ELSE UNCHANGED <<batch, mailboxes>>
  /\ UNCHANGED <<registry, capabilities, last_heartbeat, ttl_seconds,
                 traffic_buffer, req, sweep, clock, history>>

\* The tail of the condition section, once the loop is left: answer with
\* nothing when the mailbox has gone, and with all it holds otherwise.
TakeAll(t) ==
  LET a == req[t].agent IN
  /\ Goto(t, "poll_reply")
  /\ notified' = notified \ {t}
  /\ IF a \in DOMAIN mailboxes
     THEN /\ batch' = [batch EXCEPT ![t] = mailboxes[a]]
          /\ mailboxes' = Put(mailboxes, a, <<>>)
     ELSE UNCHANGED <<batch, mailboxes>>
  /\ UNCHANGED <<registry, capabilities, last_heartbeat, ttl_seconds,
                 traffic_buffer, req, sweep, clock, history>>

\* The mailbox is there and empty: the loop goes round.
NothingYet(a) == a \in DOMAIN mailboxes /\ mailboxes[a] = <<>>

\* First look under the condition's lock.  A wait of 0 seconds is a wait that
\* times out at once.
PollEnter(t) ==
  /\ pc[t] = "poll_enter"
  /\ \/ ~NothingYet(req[t].agent) /\ TakeAll(t)
     \/ /\ NothingYet(req[t].agent)
        /\ Goto(t, "poll_wait")
        /\ UNCHANGED <<tables, req, batch, notified, sweep, clock, history>>

\* wait() returns because of a notify_all; the mailbox is looked up again.
PollWake(t) ==
  /\ pc[t] = "poll_wait" /\ t \in notified
  /\ \/ ~NothingYet(req[t].agent) /\ TakeAll(t)
     \/ /\ NothingYet(req[t].agent)
        /\ notified' = notified \ {t}
        /\ UNCHANGED <<tables, pc, req, batch, sweep, clock, history>>

\* Fault: every turn of the loop waits afresh instead of until the deadline.
PollTimeoutAfresh(t) ==
  /\ pc[t] = "poll_wait"
  /\ ~NothingYet(req[t].agent)
  /\ TakeAll(t)

\* The deadline has passed, whether or not a notify_all came as well.
PollTimeout(t) ==
  /\ pc[t] = "poll_wait"
  /\ TakeAll(t)

\* The response is written outside the lock, after the queue was cleared: it
\* reaches the client or the connection has gone.
PollReply(t) ==
  LET a == req[t].agent IN
  /\ pc[t] = "poll_reply"
  /\ \/ /\ received' = [received EXCEPT ![a] = @ \cup Range(batch[t])]
        /\ UNCHANGED lost
     \/ /\ batch[t] # <<>>
        /\ lost' = lost \cup Range(batch[t])
        /\ UNCHANGED received
  /\ batch' = [batch EXCEPT ![t] = <<>>]
  /\ Finish(t)
  /\ UNCHANGED <<tables, notified, sweep, clock, sent, unanswered, accepted>>

-----------------------------------------------------------------------------
(* The sweep thread.                                                       *)

\* Fault: now is read once, before the loop of the sweep thread.
SweepBeginOnce ==
  /\ SweepEnabled
  /\ sweep.pc = "idle"
  /\ sweep' = [sweep EXCEPT !.pc = "snapshot"]
  /\ UNCHANGED <<tables, threads, clock, history>>

SweepBegin ==
  /\ SweepEnabled
  /\ sweep.pc = "idle"
  /\ sweep' = [sweep EXCEPT !.pc = "snapshot", !.now = clock]
  /\ UNCHANGED <<tables, threads, clock, history>>

SweepSnapshot ==
  /\ sweep.pc = "snapshot"
  /\ sweep' = [sweep EXCEPT !.pc = "scan", !.todo = registry]
  /\ UNCHANGED <<tables, threads, clock, history>>

\* Judged by the snapshot's kind, the sweep's own now and the lease as read.
Expired(a) ==
  /\ a \in DOMAIN last_heartbeat /\ a \in DOMAIN ttl_seconds
  /\ ttl_seconds[a] > 0
  /\ sweep.now - last_heartbeat[a]
       > ttl_seconds[a] + (IF sweep.todo[a] = "mailbox" THEN Grace ELSE 0)

\* One turn of the loop; the dict's order is left open.
SweepRead(a) ==
  /\ sweep.pc = "scan" /\ a \in DOMAIN sweep.todo
  /\ sweep' = IF Expired(a)
              THEN [sweep EXCEPT !.pc = "evict_registry", !.agent = a,
                                 !.todo = Pop(@, a)]
              ELSE [sweep EXCEPT !.todo = Pop(@, a)]
  /\ UNCHANGED <<tables, threads, clock, history>>

SweepEnd ==
  /\ sweep.pc = "scan" /\ DOMAIN sweep.todo = {}
  /\ sweep' = SweepIdle
  /\ UNCHANGED <<tables, threads, clock, history>>

EvictRegistry ==
  /\ sweep.pc = "evict_registry"
  /\ registry' = Pop(registry, sweep.agent)
  /\ sweep' = [sweep EXCEPT !.pc = "evict_capabilities"]
  /\ UNCHANGED <<mailboxes, capabilities, last_heartbeat, ttl_seconds,
                 traffic_buffer, threads, clock, history>>

EvictCapabilities ==
  /\ sweep.pc = "evict_capabilities"
  /\ capabilities' = capabilities \ {sweep.agent}
  /\ sweep' = [sweep EXCEPT !.pc = "evict_lease"]
  /\ UNCHANGED <<registry, mailboxes, last_heartbeat, ttl_seconds,
                 traffic_buffer, threads, clock, history>>

EvictLease ==
  /\ sweep.pc = "evict_lease"
  /\ last_heartbeat' = Pop(last_heartbeat, sweep.agent)
  /\ ttl_seconds' = Pop(ttl_seconds, sweep.agent)
  /\ sweep' = [sweep EXCEPT !.pc = "evict_mailbox"]
  /\ UNCHANGED <<registry, mailboxes, capabilities, traffic_buffer,
                 threads, clock, history>>

EvictMailbox ==
  /\ sweep.pc = "evict_mailbox"
  /\ PopMailbox(sweep.agent)
  /\ sweep' = [sweep EXCEPT !.pc = "scan", !.agent = Nobody]
  /\ UNCHANGED <<registry, capabilities, last_heartbeat, ttl_seconds,
                 traffic_buffer, pc, req, batch, clock, sent, unanswered, accepted,
                 received>>

-----------------------------------------------------------------------------
(* Time, and the end of the process.                                       *)

Tick ==
  /\ clock < MaxClock
  /\ clock' = clock + 1
  /\ UNCHANGED <<tables, threads, sweep, history>>

\* The messages that only memory holds.
InQueues == UNION {Range(mailboxes[a]) : a \in DOMAIN mailboxes}
InBatches == UNION {Range(batch[t]) : t \in Threads}

\* A crash or restart: nothing is persisted, the requests in flight die.
Restart ==
  /\ MayRestart
  /\ registry' = EmptyDict /\ mailboxes' = EmptyDict /\ capabilities' = {}
  /\ last_heartbeat' = EmptyDict /\ ttl_seconds' = EmptyDict
  /\ traffic_buffer' = <<>>
  /\ pc' = [t \in Threads |-> "idle"]
  /\ req' = [t \in Threads |-> NoRequest]
  /\ batch' = [t \in Threads |-> <<>>]
  /\ notified' = {}
  /\ sweep' = SweepIdle
  /\ lost' = lost \cup InQueues \cup InBatches
  /\ UNCHANGED <<clock, sent, unanswered, accepted, received>>

-----------------------------------------------------------------------------
(* The system.                                                             *)

StartRequest(t) ==
  \E caller \in Callers, a \in Agents :
    \/ /\ "register" \in Operations
       /\ \E kind \in Kinds, ttl \in Ttls \cup {NotGiven} :
            StartRegister(t, caller, a, kind, ttl)
    \/ /\ "deregister" \in Operations
       /\ StartDeregister(t, caller, a)
    \/ /\ "send" \in Operations
       /\ \E recipient \in Agents \cup {Nobody} : StartSend(t, caller, a, recipient)
    \/ /\ "poll" \in Operations
       /\ StartPoll(t, caller, a)

\* What a thread does on its own once its request has begun.
HandlerStep(t) ==
  \/ RegisterEndpoint(t) \/ RegisterMailbox(t)
  \/ RegisterCapabilities(t) \/ RegisterLease(t)
  \/ DeregisterCapabilities(t) \/ DeregisterLease(t) \/ DeregisterMailbox(t)
  \/ Enqueue(t) \/ Route(t) \/ Dial(t) \/ RecordTraffic(t)
  \/ AutoRegisterEndpoint(t) \/ AutoRegisterMailbox(t)
  \/ AutoRegisterCapabilities(t) \/ AutoRegisterLease(t)
  \/ PollHeartbeat(t) \/ PollEnter(t) \/ PollWake(t) \/ PollReply(t)

SweepStep ==
  \/ SweepBegin \/ SweepSnapshot \/ (\E a \in Agents : SweepRead(a)) \/ SweepEnd
  \/ EvictRegistry \/ EvictCapabilities \/ EvictLease \/ EvictMailbox

Next ==
  \/ \E t \in Threads : StartRequest(t) \/ HandlerStep(t) \/ PollTimeout(t)
  \/ SweepStep
  \/ Tick
  \/ Restart

Spec == Init /\ [][Next]_vars

\* Threads run and deadlines pass, time advances and the sweep loop turns.
FairSpec ==
  /\ Spec
  /\ \A t \in Threads : WF_vars(HandlerStep(t)) /\ WF_vars(PollTimeout(t))
  /\ WF_vars(SweepStep)
  /\ WF_vars(Tick)

-----------------------------------------------------------------------------
(* Safety.                                                                 *)

TablesOK ==
  /\ IsDict(registry, Agents, Kinds)
  /\ IsDict(mailboxes, Agents, Seq(Nat))
  /\ capabilities \subseteq Agents
  /\ IsDict(last_heartbeat, Agents, Nat)
  /\ IsDict(ttl_seconds, Agents, Nat)
  /\ DOMAIN ttl_seconds \subseteq DOMAIN last_heartbeat
  /\ traffic_buffer \in Seq(Dispositions) /\ Len(traffic_buffer) <= TrafficSize

ThreadsOK ==
  /\ pc \in [Threads -> PCs]
  /\ req \in [Threads -> Requests]
  /\ \A t \in Threads :
       pc[t] \notin {"idle", "send_traffic"} => req[t].agent \in Agents
  /\ batch \in [Threads -> Seq(Nat)]
  /\ notified \subseteq Threads

SweepOK ==
  /\ sweep \in [pc : SweepPCs, now : Nat, todo : {sweep.todo},
                agent : Agents \cup {Nobody}]
  /\ IsDict(sweep.todo, Agents, Kinds)
  /\ sweep.pc \notin {"idle", "snapshot", "scan"} => sweep.agent \in Agents

HistoryOK ==
  /\ clock \in Nat /\ sent \in Nat /\ unanswered \in Nat /\ accepted \in Nat
  /\ received \in [Agents -> SUBSET Nat]
  /\ lost \subseteq Nat

\* Every table has its type, a ttl never outlives its heartbeat (both go in
\* one section), and the traffic buffer respects its size.
TypeOK == TablesOK /\ ThreadsOK /\ SweepOK /\ HistoryOK

\* No lost wakeup: a poll that sleeps without a notification pending has a
\* mailbox and nothing in it.  (Every append and every pop of a mailbox
\* notifies inside its section, and the poll looks the mailbox up again.)
NoStarvedWaiter ==
  \A t \in Threads :
    pc[t] = "poll_wait" /\ t \notin notified => NothingYet(req[t].agent)

\* The places a queued message can be in: its queue, the answer a poll is
\* about to write, its client, or nowhere any more.
QueueOf(a) == <<"queue", a>>
ReplyOf(t) == <<"reply", t>>
ClientOf(a) == <<"client", a>>
Lost == <<"lost", Nobody>>
Places == {QueueOf(a) : a \in DOMAIN mailboxes} \cup {ReplyOf(t) : t \in Threads}
            \cup {ClientOf(a) : a \in Agents} \cup {Lost}
Contents(p) == CASE p[1] = "queue"  -> Range(mailboxes[p[2]])
                 [] p[1] = "reply"  -> Range(batch[p[2]])
                 [] p[1] = "client" -> received[p[2]]
                 [] p[1] = "lost"   -> lost

\* At most once, and accounted for: a message the broker answered 202 for is
\* in exactly one of a queue, a response being written, its recipient and
\* the losses, whatever refreshes, polls, evictions and restarts interleave.
MessageConservation ==
  \A m \in 1 .. accepted :
    \E p \in Places : /\ m \in Contents(p)
                      /\ \A q \in Places : m \in Contents(q) => q = p

Increasing(s) == \A i, j \in DOMAIN s : i < j => s[i] < s[j]

\* The messages that polls of agent a have taken out, answered or not.
Drained(a) == received[a] \cup
              UNION {Range(batch[t]) : t \in {u \in Threads : req[u].agent = a}}

\* First in, first out: a mailbox is drained in the order of its appends, and
\* whatever has been drained from it was queued before all that is still in.
FifoMailbox ==
  \A a \in DOMAIN mailboxes :
    /\ Increasing(mailboxes[a])
    /\ \A m \in Drained(a), i \in DOMAIN mailboxes[a] : m < mailboxes[a][i]

\* Between requests the tables agree: registered agents are those with
\* capabilities and with a lease, a mailbox agent has its queue, and no queue
\* is without an agent.  Handlers keep this up as long as they do not overlap.
TablesAgree ==
  Quiet => /\ DOMAIN registry = capabilities
           /\ DOMAIN registry = DOMAIN last_heartbeat
           /\ DOMAIN registry = DOMAIN ttl_seconds
           /\ DOMAIN mailboxes \subseteq DOMAIN registry
           /\ \A a \in DOMAIN registry :
                registry[a] = "mailbox" => a \in DOMAIN mailboxes

Sending == {t \in Threads : pc[t] \in SendPCs}

\* Every send but those whose handler died in the dial left exactly one record,
\* and a queued message exactly one record that says so (as long as nothing has
\* been overwritten).
TrafficComplete ==
  ~MayRestart =>
    LET answered == sent - Cardinality(Sending) - unanswered
    IN  /\ Len(traffic_buffer) = IF answered < TrafficSize THEN answered ELSE TrafficSize
        /\ answered <= TrafficSize =>
             accepted = Cardinality({i \in DOMAIN traffic_buffer :
                                       traffic_buffer[i] = "queued"})
                        + Cardinality({t \in Threads : /\ pc[t] = "send_traffic"
                                                       /\ req[t].disposition = "queued"})

\* ADR 0006: "Every agent bears a ttl_seconds value (default 60) and the broker
\* maintains a last_heartbeat timestamp per registration."
EveryAgentBearsTtl ==
  Quiet => \A a \in DOMAIN registry :
             a \in DOMAIN ttl_seconds /\ a \in DOMAIN last_heartbeat

-----------------------------------------------------------------------------
(* What a step may never do.                                               *)

\* The registration of agent a.
RegistrationOf(a) ==
  <<a \in DOMAIN registry /\ registry[a] = "mailbox",
    a \in DOMAIN registry, a \in capabilities,
    IF a \in DOMAIN last_heartbeat THEN last_heartbeat[a] ELSE NotGiven,
    IF a \in DOMAIN ttl_seconds THEN ttl_seconds[a] ELSE NotGiven>>

\* With tokens, of all requests only those authenticated as a change the
\* registration of a, drop its mailbox or read from it: others may at most append
\* to its queue.
TokenOwnsAgent ==
  [][\A a \in Agents :
       /\ ~Restart /\ ~SweepStep
       /\ \/ RegistrationOf(a)' # RegistrationOf(a)
          \/ a \in DOMAIN mailboxes /\ a \notin DOMAIN mailboxes'
          \/ received'[a] # received[a]
       =>
         \E t \in Threads : /\ pc'[t] # pc[t]
                            /\ a \in {req[t].caller, req'[t].caller}]_vars

\* Whether the lease of a, judged now, has time left.
LeaseRuns(a) ==
  /\ a \in DOMAIN registry /\ a \in DOMAIN last_heartbeat /\ a \in DOMAIN ttl_seconds
  /\ \/ ttl_seconds[a] = 0
     \/ clock - last_heartbeat[a]
          <= ttl_seconds[a] + (IF registry[a] = "mailbox" THEN Grace ELSE 0)

\* The poll handler: "a pull agent stays registered while it is actively
\* listening".  No sweep removes an agent that waits in a poll on a lease that
\* has time left.
ListeningStaysRegistered ==
  [][\A t \in Threads :
       LET a == req[t].agent IN
       pc[t] = "poll_wait" /\ LeaseRuns(a) /\ sweep' # sweep => a \in DOMAIN registry']_vars

-----------------------------------------------------------------------------
(* Liveness.                                                               *)

\* Every request is answered, long polls and polls of evicted agents included.
RequestsAnswered == \A t \in Threads : pc[t] # "idle" ~> pc[t] = "idle"

\* An agent with a ttl that falls silent is evicted, whoever else is in the
\* snapshot (for leases that end before MaxClock).
SilentAgentEvicted ==
  \A a \in Agents, h \in 0 .. MaxClock :
    LET silent == /\ a \in DOMAIN registry /\ a \in DOMAIN ttl_seconds
                  /\ ttl_seconds[a] > 0
                  /\ last_heartbeat[a] = h
                  /\ h + ttl_seconds[a] + Grace < MaxClock
    IN  silent ~> ~silent

Polled(a) == \E t \in Threads : pc[t] = "poll_reply" /\ req[t].agent = a

\* The poll handler re-creates the caller's mailbox "on poll so senders can
\* reach it again": an agent that polls over and over is registered over and
\* over, even though restarts and deletions keep removing it.
PollingHeals == \A a \in Agents : []<>Polled(a) => []<>(a \in DOMAIN registry)

=============================================================================
