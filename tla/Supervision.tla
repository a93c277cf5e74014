---------------------------- MODULE Supervision -----------------------------
(***************************************************************************)
(* The supervision agent (lifecycle/supervision.py): a background loop     *)
(* health-checks every managed service, restarts a failing one with        *)
(* exponential backoff and escalates when that does not help.  The agent   *)
(* can be stopped and started again while a poll is under way.             *)
(*                                                                         *)
(* Services live outside: they fail and recover by themselves, and the     *)
(* backend's stop and start may fail.  One action is a stretch of the loop *)
(* between two calls to the backend or looks at the clock; the services'   *)
(* order within a cycle is left open.  The status endpoint only reads.     *)
(***************************************************************************)
EXTENDS Integers, Sequences, FiniteSets

CONSTANTS
  Services,     \* config.services
  Loops,        \* threads that run, or have run, the poll loop
  NoLoop,       \* None
  MaxRestarts,  \* max_restart_attempts
  BackoffBase,  \* backoff_base_seconds
  BackoffMax,   \* backoff_max_seconds
  Cooldown,     \* escalation_cooldown_seconds
  MaxClock      \* bound: last instant of the clock

\* SupervisionConfig.validate
ASSUME ConfigAssumption ==
  /\ NoLoop \notin Loops
  /\ MaxRestarts \in Nat
  /\ BackoffBase \in Nat \ {0} /\ BackoffMax \in Nat /\ BackoffMax >= BackoffBase
  /\ Cooldown \in Nat /\ MaxClock \in Nat

VARIABLES
  up,        \* external: whether each service answers its health check
  state,     \* ServiceState of each service
  backoff,   \* _backoff, 0 when there is no entry
  deadline,  \* _escalation_deadline, Never when there is no entry
  thread,    \* self._thread
  stopping,  \* a caller is inside stop()
  stopEvent, \* self._stop_event
  loop,      \* each loop thread: where it is, what is left of its cycle
  clock,     \* time.time()
  streak,    \* history: incidents of each service since it was last healthy
  worked     \* history: when the restarts of that streak were really at work

agent == <<thread, stopping, stopEvent>>
book  == <<state, backoff, deadline, streak, worked>>
vars  == <<up, book, agent, loop, clock>>

Never == -1
NoService == "none"
PCs == {"ended", "cycle", "service", "health", "restart", "stop", "start"}
IncidentKinds == {"degraded", "restarted", "escalated"}

NewState == [healthy |-> TRUE, consecutive_failures |-> 0, escalated |-> FALSE,
             last_restart |-> Never]
EndedLoop == [pc |-> "ended", todo |-> {}, service |-> NoService, now |-> 0,
              began |-> 0]

\* Only comparisons with 1 and MaxRestarts look at the counter of failures.
FailureCap == MaxRestarts + 2
CountUp(n) == IF n < FailureCap THEN n + 1 ELSE n

Incident(kind, at) == [kind |-> kind, at |-> at]
Logged(s, kind) == {i \in DOMAIN streak[s] : streak[s][i].kind = kind}

Init ==
  /\ up \in [Services -> BOOLEAN]
  /\ state = [s \in Services |-> NewState]
  /\ backoff = [s \in Services |-> 0]
  /\ deadline = [s \in Services |-> Never]
  /\ thread = NoLoop /\ stopping = FALSE /\ stopEvent = FALSE
  /\ loop = [l \in Loops |-> EndedLoop]
  /\ clock = 0
  /\ streak = [s \in Services |-> <<>>]
  /\ worked = [s \in Services |-> <<>>]

-----------------------------------------------------------------------------
(* start() and stop(), called by the owner of the agent.                   *)

Start ==
  /\ thread = NoLoop /\ ~stopping
  /\ \E l \in Loops : /\ loop[l].pc = "ended"
                      /\ loop' = [loop EXCEPT ![l].pc = "cycle"]
                      /\ thread' = l
  /\ stopEvent' = FALSE
  /\ UNCHANGED <<up, book, stopping, clock>>

StopBegin ==
  /\ ~stopping
  /\ stopping' = TRUE
  /\ stopEvent' = TRUE
  /\ UNCHANGED <<up, book, thread, loop, clock>>

\* join(timeout=5.0) returns when the loop has ended or the time is up: the
\* thread is forgotten in either case.
StopEnd ==
  /\ stopping
  /\ stopping' = FALSE
  /\ thread' = NoLoop
  /\ UNCHANGED <<up, book, stopEvent, loop, clock>>

-----------------------------------------------------------------------------
(* The poll loop.                                                          *)

\* The head of the loop, after the wait for the rest of the interval.
Cycle(l) ==
  /\ loop[l].pc = "cycle"
  /\ loop' = [loop EXCEPT ![l] = IF stopEvent THEN EndedLoop
                                 ELSE [@ EXCEPT !.pc = "service", !.todo = Services]]
  /\ UNCHANGED <<up, book, agent, clock>>

\* The next service of the cycle: skipped while its cooldown lasts.
PollService(l, s) ==
  /\ loop[l].pc = "service" /\ s \in loop[l].todo
  /\ loop' = [loop EXCEPT ![l] =
                IF stopEvent THEN EndedLoop
                ELSE IF deadline[s] # Never /\ clock < deadline[s]
                     THEN [@ EXCEPT !.todo = loop[l].todo \ {s}]
                     ELSE [@ EXCEPT !.pc = "health", !.todo = loop[l].todo \ {s},
                                    !.service = s, !.now = clock]]
  /\ UNCHANGED <<up, book, agent, clock>>

CycleEnd(l) ==
  /\ loop[l].pc = "service" /\ loop[l].todo = {}
  /\ loop' = [loop EXCEPT ![l].pc = "cycle"]
  /\ UNCHANGED <<up, book, agent, clock>>

\* The service has been dealt with for this cycle, or goes on to place.
Proceed(l, place) ==
  loop' = [loop EXCEPT ![l] = IF place = "service"
                              THEN [@ EXCEPT !.pc = place, !.service = NoService, !.now = 0,
                                             !.began = 0]
                              ELSE [@ EXCEPT !.pc = place]]

\* Fault: recovery leaves the service escalated.
HealthyStillEscalated(l) ==
  LET s == loop[l].service IN
  /\ loop[l].pc = "health" /\ up[s]
  /\ state' = [state EXCEPT ![s].healthy = TRUE, ![s].consecutive_failures = 0]
  /\ backoff' = [backoff EXCEPT ![s] = 0]
  /\ deadline' = [deadline EXCEPT ![s] = Never]
  /\ streak' = [streak EXCEPT ![s] = <<>>]
  /\ worked' = [worked EXCEPT ![s] = <<>>]
  /\ Proceed(l, "service")
  /\ UNCHANGED <<up, agent, clock>>

\* A check within the timeout succeeds: everything but last_restart is reset.
Healthy(l) ==
  LET s == loop[l].service IN
  /\ loop[l].pc = "health" /\ up[s]
  /\ state' = [state EXCEPT ![s].healthy = TRUE, ![s].consecutive_failures = 0,
                            ![s].escalated = FALSE]
  /\ backoff' = [backoff EXCEPT ![s] = 0]
  /\ deadline' = [deadline EXCEPT ![s] = Never]
  /\ streak' = [streak EXCEPT ![s] = <<>>]
  /\ worked' = [worked EXCEPT ![s] = <<>>]
  /\ Proceed(l, "service")
  /\ UNCHANGED <<up, agent, clock>>

\* Fault: one failure too many is tolerated.
ExceededLate(failures) == failures > MaxRestarts + 1

\* The restart threshold.
Exceeded(failures) == failures > MaxRestarts

\* Fault: the counter saturates at the threshold and never exceeds it.
FailedCapped(s) ==
  [state[s] EXCEPT !.healthy = FALSE,
                   !.consecutive_failures = IF @ < MaxRestarts THEN @ + 1 ELSE @]

\* The state of s with one more failure.
Failed(s) ==
  [state[s] EXCEPT !.healthy = FALSE, !.consecutive_failures = CountUp(@)]
DegradedLog(s, now) ==
  IF Failed(s).consecutive_failures = 1
  THEN Append(streak[s], Incident("degraded", now)) ELSE streak[s]

\* No check succeeded and the service is escalated: nothing more is done.
UnhealthyEscalated(l) ==
  LET s == loop[l].service IN
  /\ loop[l].pc = "health" /\ ~up[s] /\ state[s].escalated
  /\ state' = [state EXCEPT ![s] = Failed(s)]
  /\ Proceed(l, "service")
  /\ UNCHANGED <<up, backoff, deadline, streak, worked, agent, clock>>

\* Within the threshold: a restart is due.
UnhealthyRestart(l) ==
  LET s == loop[l].service IN
  /\ loop[l].pc = "health" /\ ~up[s] /\ ~state[s].escalated
  /\ ~Exceeded(Failed(s).consecutive_failures)
  /\ state' = [state EXCEPT ![s] = Failed(s)]
  /\ streak' = [streak EXCEPT ![s] = DegradedLog(s, loop[l].now)]
  /\ Proceed(l, "restart")
  /\ UNCHANGED <<up, backoff, deadline, worked, agent, clock>>

\* Beyond the threshold.
Escalate(l) ==
  LET s == loop[l].service
      now == loop[l].now
  IN /\ loop[l].pc = "health" /\ ~up[s] /\ ~state[s].escalated
     /\ Exceeded(Failed(s).consecutive_failures)
     /\ state' = [state EXCEPT ![s] = [Failed(s) EXCEPT !.escalated = TRUE]]
     /\ deadline' = [deadline EXCEPT ![s] = now + Cooldown]
     /\ backoff' = [backoff EXCEPT ![s] = 0]
     /\ streak' = [streak EXCEPT ![s] = Append(DegradedLog(s, now),
                                               Incident("escalated", now))]
     /\ Proceed(l, "service")
     /\ UNCHANGED <<up, worked, agent, clock>>

-----------------------------------------------------------------------------
(* The restart.                                                            *)

\* The last restart is younger than the current backoff.
StillWaiting(s, now) ==
  state[s].last_restart # Never /\ now - state[s].last_restart < backoff[s]

\* Fault: the backoff does not grow.
NextBackoffConstant(current) == BackoffBase

\* Fault: the backoff is not capped.
NextBackoffUncapped(current) == IF current = 0 THEN BackoffBase ELSE current * 2

\* Exponential, capped.
NextBackoff(current) ==
  IF current = 0 THEN BackoffBase
  ELSE IF current * 2 < BackoffMax THEN current * 2 ELSE BackoffMax

AttemptRestart(l) ==
  LET s == loop[l].service IN
  /\ loop[l].pc = "restart"
  /\ IF StillWaiting(s, loop[l].now)
     THEN Proceed(l, "service") /\ UNCHANGED backoff
     ELSE Proceed(l, "stop") /\ backoff' = [backoff EXCEPT ![s] = NextBackoff(@)]
  /\ UNCHANGED <<up, state, deadline, streak, worked, agent, clock>>

\* backend.stop: takes the service down or fails; a failure is ignored.
BackendStop(l) ==
  LET s == loop[l].service IN
  /\ loop[l].pc = "stop"
  /\ \E result \in {FALSE, up[s]} : up' = [up EXCEPT ![s] = result]
  /\ loop' = [loop EXCEPT ![l].pc = "start", ![l].began = clock]
  /\ UNCHANGED <<book, agent, clock>>

\* backend.start: brings the service up or does not; the attempt counts either
\* way, and is dated by the beginning of the poll.
BackendStart(l) ==
  LET s == loop[l].service
      now == loop[l].now
  IN /\ loop[l].pc = "start"
     /\ \E result \in {TRUE, up[s]} : up' = [up EXCEPT ![s] = result]
     /\ state' = [state EXCEPT ![s].last_restart = now]
     /\ streak' = [streak EXCEPT ![s] = Append(@, Incident("restarted", now))]
     /\ worked' = [worked EXCEPT ![s] = Append(@, [polled |-> now, began |-> loop[l].began,
                                                   ended |-> clock])]
     /\ Proceed(l, "service")
     /\ UNCHANGED <<backoff, deadline, agent, clock>>

-----------------------------------------------------------------------------
(* The world, and the system.                                              *)

Fail(s) ==
  /\ up[s] /\ up' = [up EXCEPT ![s] = FALSE]
  /\ UNCHANGED <<book, agent, loop, clock>>

Recover(s) ==
  /\ ~up[s] /\ up' = [up EXCEPT ![s] = TRUE]
  /\ UNCHANGED <<book, agent, loop, clock>>

Tick ==
  /\ clock < MaxClock
  /\ clock' = clock + 1
  /\ UNCHANGED <<up, book, agent, loop>>

LoopStep(l) ==
  \/ Cycle(l) \/ (\E s \in Services : PollService(l, s)) \/ CycleEnd(l)
  \/ Healthy(l) \/ UnhealthyEscalated(l) \/ UnhealthyRestart(l) \/ Escalate(l)
  \/ AttemptRestart(l) \/ BackendStop(l) \/ BackendStart(l)

Next ==
  \/ \E l \in Loops : LoopStep(l)
  \/ Start \/ StopBegin \/ StopEnd
  \/ \E s \in Services : Fail(s) \/ Recover(s)
  \/ Tick

Spec == Init /\ [][Next]_vars

\* The loop threads run and time passes; nobody has to start or stop the
\* agent, and no service has to fail or to recover.
FairSpec == Spec /\ WF_vars(Tick) /\ \A l \in Loops : WF_vars(LoopStep(l))

-----------------------------------------------------------------------------
(* Safety.                                                                 *)

TypeOK ==
  /\ up \in [Services -> BOOLEAN]
  /\ state \in [Services -> [healthy : BOOLEAN, consecutive_failures : 0 .. FailureCap,
                             escalated : BOOLEAN, last_restart : Nat \cup {Never}]]
  /\ backoff \in [Services -> {0} \cup (BackoffBase .. BackoffMax)]
  /\ deadline \in [Services -> Nat \cup {Never}]
  /\ thread \in Loops \cup {NoLoop}
  /\ stopping \in BOOLEAN /\ stopEvent \in BOOLEAN
  /\ loop \in [Loops -> [pc : PCs, todo : SUBSET Services,
                         service : Services \cup {NoService}, now : Nat, began : Nat]]
  /\ \A l \in Loops : loop[l].pc \notin {"ended", "cycle", "service"}
                        => loop[l].service \in Services
  /\ clock \in Nat
  /\ streak \in [Services -> Seq([kind : IncidentKinds, at : Nat])]
  /\ worked \in [Services -> Seq([polled : Nat, began : Nat, ended : Nat])]

\* The story of every streak of failures: one degraded incident first, then at
\* most MaxRestarts restarts, and at most one escalation, after which the
\* service is left alone until it is healthy again.
StreakStory ==
  \A s \in Services :
    LET log == streak[s] IN
    /\ log # <<>> => Logged(s, "degraded") = {1}
    /\ Cardinality(Logged(s, "restarted")) <= MaxRestarts
    /\ Logged(s, "escalated") \subseteq {Len(log)}
    /\ state[s].escalated <=> Logged(s, "escalated") # {}

\* The documented delay before the attempt that follows the i-th.
Delay(i) == LET d == BackoffBase * 2 ^ (i - 1) IN IF d < BackoffMax THEN d ELSE BackoffMax

\* docs/lifecycle: "delay = min(base * 2^(attempt - 1), max_backoff)".  In the real
\* instants at which the restarts of a streak are at work: none begins before
\* those before it have ended, nor within the n-th delay after the poll that made
\* the n-th one began; and from the end of one to the beginning of any but the next
\* lie the delays of all those between.  (Adjacent ones may follow each other more
\* closely: the delay counts from the beginning of a poll, so that the time of its
\* health check and of the restart itself is taken off it.)
RestartsSpaced ==
  \A s \in Services : LET w == worked[s] IN
    \A n, m \in DOMAIN w : n < m =>
      /\ w[m].began >= w[n].ended
      /\ w[m].began - w[n].polled >= Delay(n)
      /\ \A k \in DOMAIN w : n < k /\ k < m => w[m].began - w[n].ended >= Delay(k)

-----------------------------------------------------------------------------
(* Liveness, of an agent that is left running.                             *)

Running == thread # NoLoop /\ ~stopEvent

\* A service that stays down is escalated, however the backoff delays the
\* restarts.
FailingServiceEscalates ==
  \A s \in Services :
    <>[](Running /\ ~up[s]) => <>[](state[s].escalated)

\* A service that stays up is healthy again in the agent's book, even after it
\* was escalated (when its cooldown ends before MaxClock).
RecoveryIsNoticed ==
  \A s \in Services :
    <>[](Running /\ up[s] /\ deadline[s] <= MaxClock)
      => <>[](state[s].healthy /\ ~state[s].escalated)

=============================================================================
