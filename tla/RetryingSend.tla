---------------------------- MODULE RetryingSend ----------------------------
(***************************************************************************)
(* Notifications sent through the router, as Agent.send_notification does: *)
(* Router.route looks the recipient up at the broker and posts the message *)
(* with the retries of retry_call (transport/router.py, transport/retry.py,*)
(* transport/brokered.py).  Every request passes the token bucket of its   *)
(* principal at the broker (broker/_rate_limit.py).  The broker queues the *)
(* message for a mailbox agent and dials an endpoint agent, once           *)
(* (broker/server.py, transport/client.py), whose HTTP server hands the    *)
(* message to its handler (transport/server.py, Agent._handle).  Both      *)
(* posts outlive the patience of their clients: one may reach the broker   *)
(* after the sender has timed out and posted again, and be handled by the  *)
(* agent after the broker has timed out and answered 502.                  *)
(*                                                                         *)
(* Time is counted in ticks, Second of them per second.  Tokens are        *)
(* counted in units of 1 / (RateDen * Second) so that they stay integers:  *)
(* a request costs RateDen * Second units, and each tick adds RateNum.     *)
(***************************************************************************)
EXTENDS Integers, Sequences, FiniteSets, FiniteSetsExt

CONSTANTS
  Messages,     \* the notifications
  Sender,       \* message -> the thread that sends it
  Order,        \* message -> its place in the program of its sender
  Principals,   \* rate limit keys: authenticated agents, or __anonymous__
  Key,          \* message -> principal
  RateNum, RateDen, Second,               \* rate_limit_per_second, ticks per second
  MaxAttempts, BaseDelay, Factor, MaxDelay, \* RetryPolicy
  MaxFailures,  \* bound: failed lookups, attempts and dials, changes of the recipient
  MaxClock      \* bound: last instant of the clock

ASSUME SendAssumption ==
  /\ Order \in [Messages -> Nat] /\ Key \in [Messages -> Principals]
  /\ RateNum \in Nat /\ RateDen \in Nat \ {0} /\ Second \in Nat \ {0}
  /\ MaxAttempts \in Nat /\ BaseDelay \in Nat /\ Factor \in Nat \ {0} /\ MaxDelay \in Nat
  /\ MaxFailures \in Nat /\ MaxClock \in Nat

\* What a power of a natural number is, which the provers do not know.
ASSUME PowerAssumption == \A k \in 0 .. MaxAttempts : Factor ^ k \in Nat

VARIABLES
  stage,      \* message -> where its send is
  attempt,    \* message -> number of the current attempt
  wake,       \* message -> end of its sleep
  answer,     \* message -> status of the current attempt, 0 before it comes
  network,    \* posts on their way to the broker, in its hands or at the agent
  buckets,    \* principal -> tokens and last refill
  recipient,  \* what is registered for the recipient: nothing, a mailbox or an endpoint
  reached,    \* what has come to the recipient, in its mailbox or its handler
  clock, failures,
  admitted,   \* history: principal -> instants at which its requests passed
  tried       \* history: message -> instants of its attempts, and of their failures

client  == <<stage, attempt, wake, answer, tried>>
server  == <<buckets, reached, admitted>>
vars    == <<client, server, network, recipient, clock, failures>>

-----------------------------------------------------------------------------
(* RetryPolicy and the token bucket.                                       *)

\* Fault: every delay is the base delay.
DelayConstant(k) == BaseDelay

\* The delay after attempt k.
DelayFor(k) == Min({BaseDelay * Factor ^ (k - 1), MaxDelay})

Capacity == RateNum * Second
Cost == RateDen * Second

\* Fault: the refill is not capped.
RefilledUncapped(p) ==
  buckets[p].tokens + (clock - buckets[p].last_refill) * RateNum

\* The tokens of principal p after the refill for the time that has passed.
Refilled(p) ==
  Min({Capacity, buckets[p].tokens + (clock - buckets[p].last_refill) * RateNum})

Limited == RateNum > 0
Allowed(p) == ~Limited \/ Refilled(p) >= Cost

\* consume(): refill, then take the cost if it is there.
Consume(p) ==
  /\ buckets' = IF Limited
                THEN [buckets EXCEPT ![p] = [tokens |-> Refilled(p) - (IF Allowed(p) THEN Cost ELSE 0),
                                             last_refill |-> clock]]
                ELSE buckets
  /\ admitted' = IF Allowed(p) THEN [admitted EXCEPT ![p] = Append(@, clock)] ELSE admitted

-----------------------------------------------------------------------------
(* Stages.                                                                 *)

Finals == {"delivered", "delivery_error", "lookup_error", "raised"}
Stages == {"new", "lookup", "post", "waiting", "sleeping"} \cup Finals
Ended(m) == stage[m] \in Finals
Goto(m, place) == stage' = [stage EXCEPT ![m] = place]

Recipients == {"absent", "mailbox", "endpoint"}

\* A post travels, is routed by the broker, is at the agent with the broker
\* waiting for it, or without; or the agent's handler is done with it.
Steps == {"sent", "routing", "dialled", "abandoned", "executed"}
Posts == [message : Messages, attempt : 1 .. MaxAttempts, at : Steps]
\* The broker closes the connection without an answer.
NoAnswer == -1
Failure == failures < MaxFailures /\ failures' = failures + 1

Init ==
  /\ stage = [m \in Messages |-> "new"] /\ attempt = [m \in Messages |-> 0]
  /\ wake = [m \in Messages |-> 0] /\ answer = [m \in Messages |-> 0]
  /\ network = {}
  /\ buckets = [p \in Principals |-> [tokens |-> Capacity, last_refill |-> 0]]
  /\ recipient \in Recipients
  /\ reached = <<>>
  /\ clock = 0 /\ failures = 0
  /\ admitted = [p \in Principals |-> <<>>]
  /\ tried = [m \in Messages |-> <<>>]

-----------------------------------------------------------------------------
(* The sending thread.                                                     *)

\* A thread sends its messages one after the other, or gives some up.
Begin(m) ==
  /\ stage[m] = "new"
  /\ \A o \in Messages : Sender[o] = Sender[m] /\ o # m =>
       Ended(o) \/ (stage[o] = "new" /\ Order[o] > Order[m])
  /\ Goto(m, "lookup")
  /\ UNCHANGED <<attempt, wake, answer, tried, server, network, recipient, clock, failures>>

\* Fault: a lookup that is refused or finds nobody is repeated.
LookupUntilFound(m) ==
  /\ stage[m] = "lookup"
  /\ Consume(Key[m])
  /\ Goto(m, IF ~Allowed(Key[m]) \/ recipient = "absent" THEN "lookup" ELSE "post")
  /\ attempt' = [attempt EXCEPT ![m] = 1]
  /\ UNCHANGED <<wake, answer, tried, reached, network, recipient, clock, failures>>

\* GET /agents counts against the limit as well, also when its answer is lost.
\* It is not retried: a failure or a refusal is raised at once, like an unknown
\* recipient.
Lookup(m) ==
  /\ stage[m] = "lookup"
  /\ \/ /\ Consume(Key[m])
        /\ Goto(m, IF ~Allowed(Key[m]) \/ recipient = "absent" THEN "lookup_error"
                   ELSE IF MaxAttempts = 0 THEN "delivery_error" ELSE "post")
        /\ UNCHANGED failures
     \/ /\ Failure
        /\ Goto(m, "lookup_error")
        /\ Consume(Key[m]) \/ UNCHANGED <<buckets, admitted>>
  /\ attempt' = [attempt EXCEPT ![m] = Min({1, MaxAttempts})]
  /\ UNCHANGED <<wake, answer, tried, reached, network, recipient, clock>>

Post(m) ==
  /\ stage[m] = "post"
  /\ network' = network \cup {[message |-> m, attempt |-> attempt[m], at |-> "sent"]}
  /\ answer' = [answer EXCEPT ![m] = 0]
  /\ tried' = [tried EXCEPT ![m] = Append(@, [began |-> clock, failed |-> -1])]
  /\ Goto(m, "waiting")
  /\ UNCHANGED <<attempt, wake, server, recipient, clock, failures>>

\* Fault: one attempt more than the policy has.
AttemptFailsLate(m) ==
  /\ tried' = [tried EXCEPT ![m][Len(tried[m])].failed = clock]
  /\ IF attempt[m] > MaxAttempts
     THEN Goto(m, "delivery_error") /\ UNCHANGED <<attempt, wake>>
     ELSE /\ Goto(m, "sleeping")
          /\ attempt' = [attempt EXCEPT ![m] = @ + 1]
          /\ wake' = [wake EXCEPT ![m] = clock + DelayFor(attempt[m])]

\* A TransportError of an attempt: the last one ends the send, any other is
\* followed by a sleep.
AttemptFails(m) ==
  /\ tried' = [tried EXCEPT ![m][Len(tried[m])].failed = clock]
  /\ IF attempt[m] >= MaxAttempts
     THEN Goto(m, "delivery_error") /\ UNCHANGED <<attempt, wake>>
     ELSE /\ Goto(m, "sleeping")
          /\ attempt' = [attempt EXCEPT ![m] = @ + 1]
          /\ wake' = [wake EXCEPT ![m] = clock + DelayFor(attempt[m])]

\* 202 and 204 are success.  404 raises AgentNotFoundError and 502 DeliveryError,
\* which are TransportErrors, as is a connection closed without an answer.  The
\* body of a 429 is no envelope: deserialize raises a ProtocolError, which
\* retry_call does not catch.
ReadAnswer(m) ==
  /\ stage[m] = "waiting"
  /\ \/ answer[m] \in {202, 204} /\ Goto(m, "delivered") /\ UNCHANGED <<attempt, wake, tried>>
     \/ answer[m] \in {404, 502, NoAnswer} /\ AttemptFails(m)
     \/ answer[m] = 429 /\ Goto(m, "raised") /\ UNCHANGED <<attempt, wake, tried>>
  /\ UNCHANGED <<answer, server, network, recipient, clock, failures>>

\* The connection breaks within the body of the answer: IncompleteRead is no
\* TransportError, so retry_call does not catch it either.
PostTruncated(m) ==
  /\ stage[m] = "waiting" /\ answer[m] \notin {0, NoAnswer}
  /\ Failure
  /\ Goto(m, "raised")
  /\ UNCHANGED <<attempt, wake, answer, tried, server, network, recipient, clock>>

\* The client times out, whether its post is still under way, has been handled
\* or has been answered, or the connection is refused and the post is gone.
PostFails(m) ==
  LET post == [message |-> m, attempt |-> attempt[m], at |-> "sent"] IN
  /\ stage[m] = "waiting"
  /\ Failure
  /\ AttemptFails(m)
  /\ network' \in {network, network \ {post}}
  /\ UNCHANGED <<answer, server, recipient, clock>>

Awake(m) ==
  /\ stage[m] = "sleeping" /\ clock >= wake[m]
  /\ Goto(m, "post")
  /\ UNCHANGED <<attempt, wake, answer, tried, server, network, recipient, clock, failures>>

-----------------------------------------------------------------------------
(* The broker.                                                             *)

Without(post) == network \ {post}
Move(post, step) == Without(post) \cup {[post EXCEPT !.at = step]}

\* The answer counts for a sender that still waits for this attempt.
Tell(post, status) ==
  LET m == post.message IN
  answer' = IF stage[m] = "waiting" /\ attempt[m] = post.attempt
            THEN [answer EXCEPT ![m] = status] ELSE answer

\* Fault: it comes before what came earlier.
ArriveLeft(m) == reached' = <<m>> \o reached

\* The message comes to the recipient, after all that came before.
Arrive(m) == reached' = Append(reached, m)

\* A post is limited, then rejected for an unknown recipient, queued for a
\* mailbox, or handed to the router.
Handle(post) ==
  LET m == post.message IN
  /\ post \in network /\ post.at = "sent"
  /\ Consume(Key[m])
  /\ \/ /\ ~Allowed(Key[m])
        /\ Tell(post, 429) /\ network' = Without(post) /\ UNCHANGED reached
     \/ /\ Allowed(Key[m]) /\ recipient = "absent"
        /\ Tell(post, 404) /\ network' = Without(post) /\ UNCHANGED reached
     \/ /\ Allowed(Key[m]) /\ recipient = "mailbox"
        /\ Arrive(m)
        /\ Tell(post, 202) /\ network' = Without(post)
     \/ /\ Allowed(Key[m]) /\ recipient = "endpoint"
        /\ network' = Move(post, "routing") /\ UNCHANGED <<answer, reached>>
  /\ UNCHANGED <<stage, attempt, wake, tried, recipient, clock, failures>>

\* The router looks again: a recipient that has gone is unknown after all, and
\* one that has become a mailbox has no address that could be dialled.
Route(post) ==
  /\ post \in network /\ post.at = "routing"
  /\ \/ recipient = "absent" /\ Tell(post, 404) /\ network' = Without(post)
     \/ recipient = "mailbox" /\ Tell(post, 502) /\ network' = Without(post)
     \/ recipient = "endpoint" /\ network' = Move(post, "dialled") /\ UNCHANGED answer
  /\ UNCHANGED <<stage, attempt, wake, tried, server, recipient, clock, failures>>

\* The agent runs its handler, whether or not the broker still waits for it.
Execute(post) ==
  /\ post \in network /\ post.at \in {"dialled", "abandoned"}
  /\ Arrive(post.message)
  /\ network' = IF post.at = "dialled" THEN Move(post, "executed") ELSE Without(post)
  /\ UNCHANGED <<client, buckets, admitted, recipient, clock, failures>>

\* The agent answers 204 and the broker passes it on.
Executed(post) ==
  /\ post \in network /\ post.at = "executed"
  /\ Tell(post, 204) /\ network' = Without(post)
  /\ UNCHANGED <<stage, attempt, wake, tried, server, recipient, clock, failures>>

\* Fault: a dial that times out is taken for a delivery.
DialFailsQuietly(post) ==
  /\ Failure
  /\ post \in network /\ post.at \in {"dialled", "executed"}
  /\ network' = Without(post) /\ Tell(post, 204)
  /\ UNCHANGED <<stage, attempt, wake, tried, server, recipient, clock>>

\* The dial is refused, or times out before the agent is done; or the handler
\* raises, which breaks the connection, or its answer is lost: a 502, because
\* there is one attempt.  When the answer breaks off within its body nothing in
\* the broker catches the IncompleteRead, and the sender gets no answer.
DialFails(post) ==
  /\ Failure
  /\ post \in network /\ post.at \in {"dialled", "executed"}
  /\ \/ Tell(post, 502) /\ network' = Without(post)
     \/ post.at = "dialled" /\ Tell(post, 502) /\ network' = Move(post, "abandoned")
     \/ post.at = "executed" /\ Tell(post, NoAnswer) /\ network' = Without(post)
  /\ UNCHANGED <<stage, attempt, wake, tried, server, recipient, clock>>

BrokerStep(post) == Handle(post) \/ Route(post) \/ Execute(post) \/ Executed(post)

\* The recipient registers in the one way or the other, or is evicted.
RecipientChanges ==
  /\ Failure
  /\ recipient' \in Recipients \ {recipient}
  /\ UNCHANGED <<client, server, network, clock>>

Tick ==
  /\ clock < MaxClock
  /\ clock' = clock + 1
  /\ UNCHANGED <<client, server, network, recipient, failures>>

ClientStep(m) == Lookup(m) \/ Post(m) \/ ReadAnswer(m) \/ Awake(m)

Next ==
  \/ \E m \in Messages : Begin(m) \/ ClientStep(m) \/ PostFails(m) \/ PostTruncated(m)
  \/ \E post \in network : BrokerStep(post) \/ DialFails(post)
  \/ RecipientChanges
  \/ Tick

Spec == Init /\ [][Next]_vars

\* Threads run, the broker and the agent handle what reaches them, and time passes.
FairSpec ==
  /\ Spec
  /\ \A m \in Messages : WF_vars(ClientStep(m))
  /\ WF_vars(\E post \in network : BrokerStep(post))
  /\ WF_vars(Tick)

-----------------------------------------------------------------------------
(* Safety.                                                                 *)

TypeOK ==
  /\ stage \in [Messages -> Stages]
  /\ attempt \in [Messages -> 0 .. MaxAttempts]
  /\ wake \in [Messages -> Nat]
  /\ answer \in [Messages -> {0, NoAnswer, 202, 204, 404, 429, 502}]
  /\ network \subseteq Posts
  /\ \A p \in Principals : /\ buckets[p].tokens \in 0 .. Capacity
                           /\ buckets[p].last_refill \in 0 .. clock
  /\ recipient \in Recipients
  /\ reached \in Seq(Messages)
  /\ clock \in 0 .. MaxClock /\ failures \in 0 .. MaxFailures

\* The limit, over any window: of a principal's requests no more pass than the
\* capacity and the refill of the window allow.  (So at most twice the rate in
\* one second, which is what a full bucket and its refill give.)
Allowance ==
  Limited => \A p \in Principals : \A i, j \in DOMAIN admitted[p] :
    i <= j => (j - i + 1) * Cost <= Capacity + (admitted[p][j] - admitted[p][i]) * RateNum

CopiesOf(m) == Cardinality({i \in DOMAIN reached : reached[i] = m})

\* What the sender is told is true as far as it goes: a delivered message is in
\* the mailbox or was handled, a failed lookup has sent nothing, and no message
\* arrives more often than it was tried, which is at most MaxAttempts times.  (A
\* message that failed with any other error may have arrived all the same.)
OutcomeHonest ==
  \A m \in Messages :
    /\ stage[m] = "delivered" => CopiesOf(m) >= 1
    /\ stage[m] = "lookup_error" => CopiesOf(m) = 0
    /\ CopiesOf(m) <= Len(tried[m]) /\ Len(tried[m]) <= MaxAttempts

\* The first copies of what one thread delivers arrive in its order, whatever
\* copies of earlier attempts arrive late.
FirstAt(m) == Min({i \in DOMAIN reached : reached[i] = m})
SendOrder ==
  \A m, o \in Messages :
    /\ Sender[m] = Sender[o] /\ Order[m] < Order[o]
    /\ stage[m] = "delivered" /\ CopiesOf(o) > 0
    => FirstAt(m) < FirstAt(o)

\* The attempts of one message back off exponentially up to the maximum: the
\* one after the i-th failure begins no sooner than the policy says, whatever
\* late answers to earlier attempts come in between.
Pause(m, i) == tried[m][i + 1].began - tried[m][i].failed
BacksOff ==
  \A m \in Messages : \A i \in 1 .. Len(tried[m]) - 1 :
    Pause(m, i) >= Min({BaseDelay * Factor ^ (i - 1), MaxDelay})

-----------------------------------------------------------------------------
(* Liveness.                                                               *)

\* A send ends, with a result or an exception, however its attempts fare (for
\* sleeps that end before MaxClock).
SendsEnd ==
  \A m \in Messages :
    stage[m] = "lookup" ~> Ended(m) \/ (stage[m] = "sleeping" /\ wake[m] > MaxClock)

=============================================================================
