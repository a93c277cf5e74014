# A TLA+ model of robotsix-agent-comm

This directory specifies the parts of `robotsix-agent-comm` whose correctness
depends on the order in which things happen, checks them with TLC on small
instances, and proves theorems about them with TLAPS. The code is the
reference: every definition that models code is listed in `PROJECT.json`
(`map`) with the lines it stands for. Paths below are relative to
`src/robotsix_agent_comm/`.

## 1. The system

Agents exchange messages through a **broker**, a threaded HTTP server that
keeps everything in memory. An *endpoint* agent listens on an address that the
broker dials; a *mailbox* (pull) agent is never dialled: the broker queues its
messages and the agent fetches them with a long poll. A **supervision agent**
watches services, restarts the failing ones and escalates.

| Component | State | Operations | Interacts with |
|---|---|---|---|
| Broker tables (`broker/server.py`, `transport/registry.py`) | registry, mailboxes, capabilities, last_heartbeat, ttl_seconds: one dict each, four locks that are never nested | register or refresh, deregister, automatic registration on poll | handler threads, sweep thread |
| Broker delivery (`broker/server.py`) | mailboxes under the condition `mailbox_cond`, traffic ring | send (queue or dial), long poll | SDK and brokered transport over HTTP, router |
| Broker eviction (`broker/server.py`) | local `now`, snapshot, position | periodic sweep | all tables |
| Router, retry (`transport/router.py`, `retry.py`) | none but the attempt | look up again, dial with retries | registry, endpoint agents |
| Rate limiter (`broker/_rate_limit.py`) | tokens, last refill | consume | every request |
| Broker process (`broker/service.py`, `config.py`, `_audit.py`, start, stop and connections of `broker/server.py`) | configuration, TLS context, socket, serve and sweep threads, audit log, shutdown event | from_env, validate, build_broker, start, accept, authenticate, record, stop | signals, file system, clients |
| SDK agent (`sdk/agent.py`, `responder.py`) | receive thread, handler pool, waiters by correlation id | start, stop, request, handle | brokered transport |
| Brokered transport (`transport/brokered.py`, `sdk/brokered*.py`) | none | HTTP calls with retries | broker |
| Supervision (`lifecycle/supervision.py`) | per-service state, backoff, cooldown deadline, poll thread, stop event | start, stop, poll, restart, escalate | lifecycle backend, services |
| Lifecycle backend and service wrapper (`lifecycle/`) | child processes | start, stop, health | supervision |
| In-process transport server (`transport/server.py`) | none | run the handler of a dialled agent | router, handlers |
| Protocol, dashboard, tracing, lifecycle entry point | none that others read | formatting, output | all |

What is hard, and what makes each part correct:

* **Tables.** A request takes its locks one after the other, so two requests
  interleave between any two tables. Correct: between requests the tables agree;
  an agent has a ttl; with tokens only an agent's own requests touch it.
* **Delivery.** Pollers wait on one condition shared by all agents, while queues
  are appended to, drained, dropped and re-created. Correct: no lost wakeup, each
  accepted message in exactly one place, first in first out, one traffic record
  per send unless its handler dies in a dial, every request over in the end.
* **Eviction and restart.** The sweep decides on values it read earlier; a
  restart loses everything. Correct: silent agents go, listening ones stay,
  polling brings an agent back.
* **Supervision.** Backoff and cooldown are measured across polls, and `stop()`
  does not wait for ever. Correct: restarts are spaced in real time, a streak of failures
  logs a consistent story, failing services are escalated, recovery is noticed.
* **SDK agent.** Four kinds of thread share attributes without a lock, replies
  race timeouts, and polls outlive `stop()`. Correct: a message goes one way
  only, a request is answered even from within handlers as long as handlers do not
  wait for each other in a circle, an agent comes back after the broker removes it,
  and a stop takes effect.
* **Retries and rate limit.** A post outlives the patience of its client, a
  handler outlives that of the broker, and every request costs a token. Correct:
  the limit holds over any window, what the sender is told is true, order
  survives duplicates, sends end.
* **The process.** Files change between their validation and their use, the
  serve thread does the TLS handshakes, and `stop()` closes what handler threads
  still use. Correct: nothing is served without the credentials that were
  configured, whatever is answered as done is in the audit log, the exit status
  tells the truth, a signal ends the process.

`PROJECT.json` lists the hazards one by one at their lines, with the properties
that would catch each.

## 2. Modules

| Module | Contents |
|---|---|
| `Broker` | the broker: handler threads, sweep thread, restarts |
| `MCBroker` | instances for TLC |
| `BrokerProofs` | type correctness of `Broker`, no lost wakeup |
| `DeliveryProofs` | conservation and order of messages in `Broker` |
| `TablesProofs` | the tables of `Broker`: tokens, traffic records, agreement |
| `AbstractMailbox` | what the broker promises of a message it has accepted |
| `BrokerMailbox` | the refinement mapping from `Broker` to `AbstractMailbox` |
| `MailboxProofs` | `Broker` implements `AbstractMailbox` |
| `BrokerService` | the broker as a process: configuration, TLS, authentication, audit log, signals, stop |
| `MCBrokerService` | instances for TLC |
| `ServiceProofs` | the safety of `BrokerService` |
| `Supervision` | the supervision agent and the services around it |
| `MCSupervision` | instances for TLC |
| `SupervisionProofs` | types, streaks and restarts of `Supervision` |
| `PullAgent` | SDK agents in pull mode that talk through the broker |
| `MCPullAgent` | instances for TLC |
| `PullProofs` | the safety of `PullAgent` |
| `RetryingSend` | notifications through lookup, retries, the token bucket and the dialled agent |
| `MCRetryingSend` | instances for TLC |
| `SendingProofs` | the safety of `RetryingSend` |

### Broker

*State.* The five dicts of the server (`registry` maps an agent to its kind,
`capabilities` is a set since only presence matters) and the ring
`traffic_buffer`. Each handler thread has a program counter `pc`, the request
`req` with what it has read so far (`isNew`, `kind`, `disposition`), and the
`batch` it has drained. `notified` holds the waiting threads that a
`notify_all` has woken. `sweep` is the sweep thread's local state. `accepted`,
`received` and `lost` are history: messages are numbered as they are queued,
and these variables say where each number went.

*Actions.* One per lock section, together with the thread-local code before the
next section. `StartRegister`, `StartDeregister`, `StartSend` and `StartPoll`
take an idle thread through the checks of a request; the rest follows the
handler line by line. Two choices deserve a word:

* `StartRegister` only looks the agent up: `is_new` is decided there and used
  three sections later, in `RegisterLease`.
* `StartPoll` makes the membership test of line 909, which the code makes
  outside every lock. `PollEnter`, `PollWake` and `PollTimeout` are the sections
  of the condition variable: entering, waking after a notification, and waking
  at the deadline. A poll with `wait=0` is one whose deadline comes at once.

A rejected request touches no table and is no action, except that a rejected
send leaves a traffic record. Dialling an endpoint ends in 200, 204 or 502,
none of which touches a table, or in an `HTTPException` (an answer that is cut
short, or is no HTTP), which nothing catches on its way out of `_do_post`,
`retry_call` and `_route_send`: the handler then dies without an answer and without
a record, and `unanswered` counts it. `Restart` is a crash at any point followed by a
new process.

*Faults.* Operators marked `Fault:` are plausible bugs of the definition that
follows them. They are part of no behaviour: each one is substituted for its
definition to confirm that the property aimed at it fails.

### AbstractMailbox and BrokerMailbox

The abstract mailbox knows nothing of registrations, leases, locks, waiting or
sweeps. Each agent has a queue; a message is accepted at its end; a reader takes
a whole queue and hands it to that agent; a queue may be discarded, an answer
lost, and the process may end. The mapping: an agent without an entry in
`mailboxes` has an empty queue, and a reader is a handler thread between the
drain of a mailbox and the end of its response. A removal by a deregistration or
an eviction is `Discard`; nearly everything else the broker does is a stutter,
which is what the refinement says about it.

### BrokerService

*State.* The place of the main thread and the process's exit status, the
configuration, the TLS context, the listening socket, the events of both
daemon threads and where these are, the audit log; per connection its place,
the request (its kind of path, the token in the header, the token in the query,
the client's certificate), the identity it was given and the answer.
`carried_out` and `recorded` are history.

*Actions.* `FromEnv` is `from_env` with `validate`; `Build`, `Bind`, `Wrap` and
`OpenAudit` are `build_broker` and the constructor in their order, each with its
failure; `Install` the signal handlers; `BeginStop`, `CloseSocket`, `CloseAudit`
and `Join` the stages of `stop()`. A line that could not be flushed to the audit log
may still be in its buffer (`unflushed`), and `close()` then flushes again and may
fail again: `stop()` ends there, the threads are not joined, and the process ends
with status 1 although it has served. `ServeTurn` and `Accept` are `serve_forever`,
whose test of the shutdown request and whose `accept()` are apart;
`Handshake` ends when the client ends it, and until then the serve thread does
nothing else, as the listening socket is wrapped. A handler thread authenticates,
limits, operates, records and answers; a rejection is answered first and
recorded afterwards. What an operation does to the tables is the subject of
`Broker`; here it is carried out, refused or cut off. A file is what the file
system holds when it is read, so it may be found readable by `validate` and fail
to load later.

### Supervision

*State.* The agent's book (`state`, `backoff`, `deadline`), its thread and stop
event, the place of every poll loop, and `up`, the truth about each service,
which changes by itself. `streak` and `worked` are history: the incidents since the
service was last healthy, and of each of its restarts the instants at which the poll
that made it began, at which it set to work, and at which it was done. The counter of failures saturates at `MaxRestarts + 2`, which
no comparison of the code can tell from larger values.

*Actions.* One per stretch of the loop between calls to the backend. A health
check succeeds if the service is up at some moment of the check. `StopEnd` may
come before the loop has ended, as `join(timeout=5.0)` may return first.

### PullAgent

*State.* Per agent: `recv_stop`, `recv_thread` and `handler_pool` as the
attributes of `Agent` have them (executors are numbered, 0 is None), the place
of a call of `start()` or `stop()`, the executor's queue `submitted`, and
`inbox`. Per receive loop its place and the batch it dispatches; per call of
`send_request()` its place, with `waiters` and `slots` for the entries of
`_waiters`. The broker is reduced to its `registry` and its queues (`mailbox`), since
module `Broker` has the rest of its interior, and to what is under way between the
two: `registering` and `removing` hold the agents whose queue is still to be made or
removed, `posts` the messages whose recipient was found and that are not yet in its
queue, and `ghosts` the agents with a poll that is still held although its client has
gone.

*Actions.* One for each stretch between points where another thread can
interfere. `start()` has three steps and `stop()` four, because the loop looks
at the event and the pool meanwhile. A receive loop tests the event (`Poll`), its
request reaches the broker (`PollArrives`, which registers an agent that has no
queue), is answered (`PollReturns`) or fails (`PollFails`, `PollTruncated`), and the batch
is dispatched message by message. The broker changes the registry and the queues
under different locks, so that a registration (`Start` or `PollArrives`, then
`RegistrationEnds`), a removal (`StopUnregister` or the sweep's `Evict`, then
`RemovalEnds`) and a post (`Send` or `HandlerEnds`, then `Enqueue`, which makes the
queue when it has gone) are two steps each. A queue without a registration can come
about, as it does in `orphan`. Two registrations, or two removals, of one agent at a
time count as one: the second changes what the first has changed already.
`Deliver` is separate from `Dispatch` as the
waiter is looked up under the lock and used after it. That `_dispatch_pull`
reads the pool and then submits to it is one step: the `RuntimeError` of a pool
that was shut down in between is caught by the guard of the loop, and the message
is dropped as it is in a dispatch right after `StopPool`.

Replies are POSTed once and requests too (`send_request` in pull mode has no
retries), so a message is accepted at most once. `BrokeredAgent` delegates to
`Agent`; `BrokeredRequester.request` is `Start`, a call and `Stop`.

### RetryingSend

*State.* Per message the stage, attempt, end of sleep and answer of its send;
the posts under way and how far each has come; the token bucket of each
principal; as what the recipient is registered (`recipient`: a mailbox, an
endpoint or nothing) and what has `reached` it. `admitted` and `tried` are
history.

*Actions.* `Begin`, `Lookup`, `Post`, `ReadAnswer`, `PostFails`, `PostTruncated`
and `Awake` are the thread's; `Handle` is the broker's, which queues a message
for a mailbox or hands it to the router. `Route` looks the recipient up a second
time, by when it may have gone (404) or have become a mailbox without an address
(502). `Execute` is the agent's handler, which also runs when the broker has
given up on it (`DialFails`): the sender is then told 502 and sends again what
was handled. An answer of the agent that breaks off ends the broker's handler, and
the sender's connection closes without an answer (`NoAnswer`). A post stays under way
when its client times out. Tokens are integers: the unit is `1 / (RateDen * Second)`
of a token, so that every rate `RateNum / RateDen` is exact. A timeout may come at any time after the post, whatever its length.
What the model makes visible, besides the properties: the answer 429 has no
envelope as its body and is therefore never retried, an unknown recipient is
retried as if it were transient once the lookup has passed, and a rate below one
allows nothing at all, since the capacity stays below one token.

## 3. Runs

| Run | Module and .cfg | Expected | Question |
|---|---|---|---|
| `delivery` | `MCBroker`, `BrokerDelivery` | pass | Do concurrent requests for one agent lose wakeups, messages, order or traffic records, and do they implement the abstract mailbox? |
| `serial` | `MCBroker`, `BrokerSerial` | pass | Do requests that do not overlap keep the tables in agreement, and do they stay with their own agent, through restarts? Is the abstract mailbox implemented for several agents and through restarts? |
| `eviction` | `MCBroker`, `BrokerEviction` | pass | Are silent agents evicted and all requests answered? |
| `lease_gap` | `MCBroker`, `BrokerLeaseGap` | violation | Does every agent bear a ttl? |
| `listening` | `MCBroker`, `BrokerListening` | violation | Does a listening agent stay registered? |
| `orphan` | `MCBroker`, `BrokerOrphan` | violation | Does polling bring a registration back when a send overlaps an eviction? |
| `streaks` | `MCSupervision`, `SupervisionStreaks` | pass | Are incidents, restarts, escalation and recovery as they should be? |
| `overlapping_loops` | `MCSupervision`, `SupervisionOverlap` | violation | Are restarts spaced across `stop()` and `start()`? |
| `exchange` | `MCPullAgent`, `PullAgentExchange` | pass | Do messages between pull agents go one way, are requests made by handlers that themselves serve requests answered unless all workers wait for each other, and do agents stop and come back? |
| `healing` | `MCPullAgent`, `PullAgentHealing` | violation | Does a started agent poll on whatever happens to its connections? |
| `sending` | `MCRetryingSend`, `RetryingSends` | pass | Do the limit, the outcomes, the order and the backoff of retried sends hold, to mailboxes and to dialled agents? |
| `service` | `MCBrokerService`, `BrokerService` | pass | Is everything that is served secured as configured, is everything answered as done on record, and does the process start, stop and report its end as it should? |

*What the violations show.* Each contradicts a sentence of the documentation or
of a comment, quoted in `PROJECT.json` (`findings`).

* `lease_gap`: a deregistration takes the agent from the registry; before it reaches
  the lease, a first registration of the agent runs from its lookup (`is_new` true)
  to its end and sets heartbeat and ttl; the deregistration then deletes both. The
  agent is registered, and the sweep skips it for ever. (A refresh whose `is_new`
  was false before a deregistration, and which writes its entries after it, ends
  without a ttl as well; its trace is longer and so not the one TLC prints.)
* `listening`: the sweep reads an expired heartbeat, a poll renews it and waits,
  the sweep evicts.
* `orphan`: a poll registers the agent, its lease expires, and the sweep reads the
  expired heartbeat; a send looks the agent up and finds it a mailbox agent; the
  sweep empties all four tables; the send re-creates the queue by `setdefault`. The
  agent's polls then find a queue and register nothing; senders get 404.
* `overlapping_loops`: the old loop has decided to restart a service and has not yet
  recorded the restart when `stop()` gives up on it; `start()` clears the stop event,
  the new loop polls the same service, finds no restart on record, and both restart
  it at once.
* `healing`: the connection breaks within the body of a poll's answer;
  `http.client.IncompleteRead` is neither a `TransportError` nor an `OSError`, it
  ends the receive thread, and `start()` does nothing since the thread is on
  record.

*Bounds, and why they are enough.*

| Bound | Why |
|---|---|
| 3 threads, 1 agent in `delivery` | a waiter, a sender and a third request that drops, refreshes or drains the queue: the smallest set in which a wakeup can be lost or a batch overtaken. The threads are interchangeable, so the run uses symmetry on them |
| `MaxSends = 2` | two messages are the least whose order can be wrong; with `TrafficSize = 1` the second send makes the ring overflow |
| 1 thread, 2 agents in `serial` | requests in sequence; the second agent is the one whose tables must not change |
| `MaxClock = 2` with ttl 1 in `eviction`, `listening` and `orphan` | one instant on each side of the expiry |
| `Operations` | `eviction` leaves out sends and deregistrations, which neither evict nor keep an agent alive |
| `MaxRestarts = 3`, base 2, cap 3, clock 8 in `streaks` | three restarts (at 0, 2 and 5) and a fourth that must not come (at 8) fit before the clock ends, and the cap applies from the second delay on |
| 2 agents, requests `ask`, `back` and `again`, 1 worker in `exchange` | `back` is made by the handler of `ask` while it occupies the only worker of its agent: the least in which replies behind handlers would block. `again` is made by the handler of `back`, when both agents have their only worker taken: the least in which two agents can wait for each other |
| constraint `Bounded` in `exchange` | a behaviour in which `back` is made has no failure, and one in which `again` is made no stop either: `ask` meets every failure and stop, `back` every stop, and `again` neither. Only steps that nobody has to take lead out of the constraint, so fairness is not touched by it |
| 2 loops for the agent that stops, `MaxStops = 1`, `MaxFaults = 1` | an old loop and a new one overlap; each failure is tried at every point. Pairs of failures are not explored |
| 2 messages, `MaxAttempts = 3`, `MaxFailures = 2` in `sending` | an order; with two failures a message reaches its third and last attempt, after the delay of 1 and the one of 3 that is capped at 2. Losing the last attempt as well needs no third failure: an unknown recipient fails every attempt |
| 2 connections, 2 agents, 3 tokens, environments `development` and `staging` in `service` | one connection that tries every combination of credentials that the checks tell apart, and one that asks for an operation with all it takes, so that one handshake or handler can be in progress while another begins; agents with a token each or sharing one; a value that is neither production nor development |
| `FileSets`, `RequestKinds` in `service` | without, with half and with all of the TLS files; a token in the header, in the query, in both, and where it does not count |
| rate 3/2 per second, 2 ticks per second, clock 5 in `sending` | the bucket refuses the second request of an instant, and refills over two ticks to its capacity |

*Fairness.* Safety runs assume none. `Broker!FairSpec`: a handler thread that
can take a step takes it (the operating system schedules runnable threads and
no lock is held for ever), a deadline passes (`Condition.wait` returns after
its timeout), time advances, and the sweep thread runs. Clients owe nothing: no
request is ever forced to be issued. `Supervision!FairSpec`: poll loops run and
time passes; nobody has to start or stop the agent, and services may do as they
please. Liveness about leases and cooldowns is stated for those that end before
the clock's bound.

`PullAgent!FairSpec`: threads run, the broker answers polls, handlers return;
nobody has to start, stop or request, and no caller has to time out.
`RepliesArrive` is stated for behaviours without failures, stops and timeouts in
which no set of agents is `Entangled`, that is, has all its workers taken by handlers
that wait for replies from agents of the set; nothing but these keeps a reply away.
The run reaches such a state, and there the requests stay unanswered until a caller
times out: handlers that ask each other need more workers than requests that can be
open at a time. `HealsWhileAlive` excepts an agent with a queue that was left without
its registration (`LeftOver`): polls find it and register nothing, as `orphan` shows.
`RetryingSend!FairSpec`:
threads run, the broker and the dialled agent handle the posts that reach them
and time passes; failures are never forced. `SendsEnd` rests on the broker answering
every post in the end; the timeouts of the client, which the code has besides, are
among the failures.

`BrokerService!FairSpec`: the main, the serve and the sweep thread run (the
operating system schedules them; a sweep ends). Clients owe nothing: a handshake
may stay unfinished for ever, and so may a handler that waits for its client.
Both liveness properties of `service` therefore except a serve thread that is
kept in a handshake for ever. That exception is a fact about the code, which
sets no timeout for handshakes: such a broker neither accepts nor stops.

*Deadlock* is checked in every run but `sending` and `service`: an idle thread
can always begin a request, a poll loop can always be started, and the receive
loop polls on. In `sending` the system stops once all notifications have been
sent and the clock is at its bound; in `service` the process ends.

*Other disagreements between documents and code*, met while modelling and
without a run of their own:

* `docs/lifecycle/index.md:141` lets a service be escalated after so many
  restarts; `supervision.py:497` and `513` count failed polls, also those that
  merely wait for the backoff to elapse, so escalation can come after fewer.
* `docs/lifecycle/index.md:127` gives the delay after each restart, but
  `supervision.py:446` and `511` measure it between the beginnings of polls: the time
  that the health check and the restart itself take is taken off it, and a restart
  that took as long as its delay may be followed by the next at once. What holds in
  real time is `RestartsSpaced`.
* `transport/client.py:39-41` promises a `TransportError` for other socket and HTTP
  failures; an `http.client.HTTPException` is neither a `TimeoutError` nor an
  `OSError` and passes `_http.py:28-35`. When the broker dials, it ends the handler
  without answer, traffic record or audit line.
* `docs/lifecycle/index.md:146` says that all counters are reset on recovery;
  `restart_count` is not (`supervision.py:538`). Only wording depends on it.
* `docs/lifecycle/index.md` has the supervision loop started with the lifecycle
  service; its `main()` builds none.
* ADR 0006 §2.6 has failed authentications and rate-limit hits audited;
  the answers 401 and 429 leave no record.
* The automatic registration of a poll stores no capabilities
  (`broker/server.py:874`): after a restart of the broker a pull agent is
  reachable again but no longer found by what it can do.
* `GET /agents` reads three tables one after the other (`broker/server.py:369`),
  so that one answer may mix several moments.

## 4. Proofs

Every safety property of the passing runs is also a theorem, three of them under
a hypothesis about what does not overlap (`OneChange`, `OneLoop`): for every set of
agents, threads, messages and connections, every length of behaviour and every
setting that the modules' assumptions allow (section *Assumptions* below).

| Theorem | Module | States |
|---|---|---|
| `TypeCorrect` | `BrokerProofs` | `Spec => []TypeOK`: besides the types, a ttl never outlives its heartbeat and the traffic ring respects its size |
| `NoLostWakeup` | `BrokerProofs` | `Spec => []NoStarvedWaiter`: no poll sleeps without a pending notification while its queue holds a message or has gone |
| `Conservation` | `DeliveryProofs` | `Spec => []MessageConservation`: a message answered 202 is in exactly one of a queue, an answer being written, its client and the losses |
| `FirstInFirstOut` | `DeliveryProofs` | `Spec => []FifoMailbox`: an agent's polls take its messages in the order of their appends |
| `Refinement` | `MailboxProofs` | `Spec => KeepsPromise`: every step of the broker is a step of `AbstractMailbox` or a stutter |
| `RecordsComplete` | `TablesProofs` | `Spec => []TrafficComplete`: one record for each send that ended, except those whose handler died in the dial |
| `TokensProtectAgents` | `TablesProofs` | `AuthEnabled => (Spec => TokenOwnsAgent)`: with tokens a request changes, drops and reads what belongs to its own agent |
| `ChangesInTurnAgree` | `TablesProofs` | `Spec /\ []OneChange => []TablesAgree`: the tables agree between requests unless two changes of one agent overlap |
| `ChangesInTurnBearTtl` | `TablesProofs` | `Spec /\ []OneChange => []EveryAgentBearsTtl`: the sentence that `lease_gap` refutes, under the same condition |
| `NothingUnsecured`, `AuditComplete`, `StatusTellsTruth`, `ServiceTypes` | `ServiceProofs` | `Spec =>` `[]Secured`, `[]AnsweredIsRecorded`, `[]ExitHonest`, `[]TypeOK` of `BrokerService` |
| `LimitHolds`, `AttemptsBackOff`, `OutcomesTrue`, `OrderSurvives`, `SendingTypes` | `SendingProofs` | `Spec =>` `[]Allowance`, `[]BacksOff`, `[]OutcomeHonest`, `[]SendOrder`, `[]TypeOK` of `RetryingSend` |
| `StoryHolds`, `RestartsBackOff` | `SupervisionProofs` | `Spec /\ []OneLoop =>` `[]StreakStory`, `[]RestartsSpaced`: unless two poll loops overlap |
| `SupervisionTypes` | `SupervisionProofs` | `Spec => []TypeOK` of `Supervision`, overlapping loops included |
| `OneWayHolds`, `ExecutorForWork`, `PullTypes` | `PullProofs` | `Spec =>` `[]OneWay`, `[]WorkHasExecutor`, `[]TypeOK` of `PullAgent` |

*Types and wakeups.* One inductive invariant, `IInv == TypeOK /\
NoStarvedWaiter`. The types are needed because a wait is judged by the agent of
its request (`req[t].agent \in Agents`). One lemma per action shows that it
keeps the types; a second family shows that it keeps waiters safe: the only
actions that can end the condition "my queue is there and empty" are `Enqueue`
and `PopMailbox`, and both notify every waiter; the others leave the queue of a
waiting thread as it is, empty it (`TakeAll`) or create it (`SetDefault`).
Lemmas about `Put`, `SetDefault` and `Pop` carry the reasoning about dicts.

*Conservation and order.* The inductive invariant `DInv` adds two facts to the
properties themselves: only accepted messages are anywhere (`OnlyAccepted`: a
new message is then in no other place, and behind all others), and only a poll
about to answer holds messages (`BatchesOfReplies`: a thread that begins a new
request, or drains a queue, overwrites nothing). Each action is one of a few
kinds: it moves no message, it moves all messages of some places to another
(`TakeAll`, `PollReply`, `PopMailbox`, and `Restart` by `Relocation`), or it adds
a new one (`Enqueue`); one lemma per kind shows that it conserves messages, one
that it keeps order (`KeptQueuesFifo`).

*Refinement.* `DInv` is all it needs. What the abstract mailbox sees is
`accepted`, `Queue`, `Carried`, `received` and `lost`. A step that moves no
message leaves it as it is (`MoveStutters`): an empty mailbox that appears is as
good as none, and a request begins or ends only where a thread holds no messages
(`BatchesOfReplies`, without which `Carried` would change its agent). The other
steps map one to one: `Enqueue` to `Accept`, a drain to `Take` unless there is
nothing to take, the end of a response to `Hand`, `PopMailbox` (deregistration and
eviction) to `Discard`, and `Restart` to `Crash`.

*Tokens.* The check of a token is made once, at the start of a request, and the
sections that act on it come later, between those of others. `OwnAgent` carries
it along: a request that will touch a table, or answer a client, names the agent
it was authenticated as. Sends are the exception, and touch queues only. That
what a thread does to tables and clients concerns the agent of its request is
then a lemma per action (`HandlerTouches`, `StartTouches`).

*Traffic records.* `RInv` counts: the ring is as long as the sends that have ended
and did not die in a dial (`LengthRight`), and the messages queued so far are as many as the records that
say so and the sends that have queued and not yet recorded (`QueuedRight`), as
long as nothing was overwritten.

*Agreement of the tables.* Two requests that change one agent can leave its
tables in disagreement (`lease_gap` shows how). `OneChange` says that no two such
changes overlap, where a change is a registration, a deregistration, an
eviction, an automatic registration or an append that relies on an earlier
lookup. It excludes nothing else: changes of different agents interleave at every
lock section, and polls that wait, their heartbeats, dials and the reads of
the sweep come at any moment. The inductive invariant `AInv` says how far each
change has come (`Halfway`, `HalfEvicted`), and that an agent nobody is changing
is in agreement (`FreeAgree`). A step changes the row of at most one agent
(`RowKept` for the others); under `OneChange` nobody else is changing that one.
Both theorems follow, since nobody changes any agent between requests. So an
overlap of two changes of one agent is the only cause of a missing ttl, of an
orphaned queue, or of any other disagreement.

*The broker process.* `SInv` follows the material from the configuration to the
socket (`Material`), the main thread through its phases (`Course`), and each
connection through its request: `Vouched` says what its place vouches for
(a handshake, a certificate, a token of the identity), and `Kept` what stays true
when it is over. `Secured` and `AnsweredIsRecorded` say nothing of the places in
between and are not inductive. `ExitHonest` is part of the invariant: a status 1 comes
from a failed start, where `Connected` has nobody served yet, or from `CloseAudit`,
where `Course` has the socket closed and the serve loop over. `ServiceTypes` states
besides the types what `Course` says of the serve and sweep threads and the socket.

*Retried sends.* Four invariants, one for each property. `Paid`: what has been
admitted since the i-th request, and what the bucket still holds, came from one
full bucket and the refill since; `Allowance` is what that leaves when the
bucket is empty. `Backing`: a sender sleeps, and posts, no earlier than the
attempt before it and its delay allow. `PostsOK`: the copies that arrived and the
posts that may still arrive are at most the attempts, and who was answered has
arrived. `OrderOK`: what a message comes after has ended before it begins, and if
it was delivered it arrived first, so that posts still under way can only add
later copies.

*Supervision.* The type invariant needs no hypothesis. The others hold of a
streak only while no loop outlives its `stop()`: `OneLoop`, which the code means
to ensure by the join in `stop()`, and which fails when a poll lasts longer than
the join's timeout. `overlapping_loops` shows what happens then. `Stories` relates
the log of a streak to the book the loop decides by: the counter of failures, the
escalation flag, the last restart and the backoff, which is the delay after the
last attempt, except between a loop's decision to restart and the restart's
record (`BackoffFollows`). `Spaced` carries the distance from the poll of every
earlier restart to that of the last one, which is what the code measures. `Timings`
orders the real instants: a restart is over before the poll of the next one begins.
`RestartsSpaced`, which is about those instants, follows from the two.

*Pull agents.* `Bookkeeping` locates every accepted message: `Everywhere` says it
is in exactly one of the queue, a loop's batch, the pool, the inbox, its
requester's slot and the losses. This is inductive only together with `Addressed`
(a message is only with the agent it is for), `NoDuplicates` (it occurs once where
it is), `DeliversReply` (what a loop puts into a slot is a reply) and `Protocol` (a
request is posted, handled and replied to once, and a post under way is not yet
accepted), without which a second copy could be accepted. `WorkHasExecutor` is part of it: a loop of an earlier life of
the agent may still hold messages when `stop()` has shut the pool down, and then
finds the pool of the next life, or none and drops them.

*Assumptions.* `ConstantsAssumption` and its counterparts give the constants their
types; none bounds a number of agents, threads, messages or connections. What is
more than a type is checked by the code (`BackoffMax >= BackoffBase`,
`supervision.py:205`), or says how the constants go together (who makes the request
of whose handler, which agents a token table knows). One is a fact of arithmetic: `PowerAssumption` of `RetryingSend`, that the powers of
the backoff factor are naturals, which the provers cannot show by themselves (it is
an induction over data). The proofs of `TrafficComplete`
and `OutcomeHonest` count, and show the sets they count finite.

*Only model-checked.* All liveness properties (`RequestsAnswered`,
`SilentAgentEvicted`, `PollingHeals`, `FailingServiceEscalates`,
`RecoveryIsNoticed`, `RepliesArrive`, `HealsWhileAlive`, `StopSettles`,
`SendsEnd`, `SignalEndsService`, `ConnectionsAccepted`): fairness and ENABLED are
out of the prover's reach. The properties of the violation runs are false of the
code; for two of them the theorems above give the condition under which they
hold.

## 5. Not modelled

* Push mode of the SDK agent, `receive_message` and health checks. Start and stop
  of push mode are sequential; one thing to know is that a registration that
  fails after the local server was started leaves the server recorded, so that
  `start()` returns early afterwards. The 400 and 404 of a peer that is no agent,
  and start and stop of the in-process transport server, go with it.
* The kinds of requests that a responder dispatches: to the properties a handler
  is something that may make requests, answer or raise.
* The status server and the alert callback of the supervision agent, and
  `restart_count`, which no decision reads.
* The lifecycle backend: subprocesses and HTTP calls, external to the supervision
  agent. The lifecycle service's entry point has the shape of the broker's, with
  a configuration that warns where the broker's refuses.
* In `RetryingSend`, requests other than lookups and posts do not draw on the
  bucket; in `Broker` and `PullAgent` no request is limited, except that a
  registration, a deregistration or a poll that the broker refuses is among the
  failures of `PullAgent`.
* What `GET /agents` and `GET /traffic` answer, the dashboard and tracing:
  read-only or output only. The audit log is modelled as far as its records and
  its closing go, not its text.
* Parsing, validation messages and sockets. In `Broker` the model begins where a
  request has passed its checks, and a write to a client ends.
* What the interpreter does at its exit: an audit log on standard output that cannot
  be flushed there gives another status than those of `BrokerService`.
* The configuration contract: types for agents outside the repository.
* A wall clock that is set back.

## 6. Plan

Left, in this order:

1. Show that the reduced mailbox of `PullAgent` implements `AbstractMailbox` too:
   then agents that are checked against it are checked against a promise that
   `Broker` is proved to keep.
2. The condition under which `ListeningStaysRegistered` holds: as `OneChange` does
   for the tables, say which overlap of the sweep with a poll is the only cause of
   the eviction that `listening` shows.
3. `PullAgent` over the detailed `Broker` in place of its reduced mailbox, for one
   request and its reply.
