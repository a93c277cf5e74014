-------------------------- MODULE SupervisionProofs --------------------------
(***************************************************************************)
(* Proofs about Supervision, for any services, threads and policy: types   *)
(* in every behaviour, and the story and the spacing of restarts in the    *)
(* behaviours where no loop outlives the stop() that was to end it.        *)
(***************************************************************************)
EXTENDS Supervision, FiniteSetTheorems, SequenceTheorems, TLAPS

-----------------------------------------------------------------------------
(* The inductive invariant.                                                *)

Attempts(s) == Cardinality(Logged(s, "restarted"))

\* stop() joins its loop before start() makes another: what the code means to
\* ensure and does when a poll is shorter than the join's timeout.
OneLoop == \A k, l \in Loops : loop[k].pc # "ended" /\ loop[l].pc # "ended" => k = l

\* What the log and the book say of a service agrees.
Booked(s) ==
  /\ streak[s] = <<>> <=> state[s].consecutive_failures = 0
  /\ streak[s] # <<>> => Logged(s, "degraded") = {1}
  /\ Logged(s, "escalated") = IF state[s].escalated THEN {Len(streak[s])} ELSE {}
  /\ Attempts(s) <= MaxRestarts
  /\ ~state[s].escalated => /\ state[s].consecutive_failures <= MaxRestarts
                            /\ Attempts(s) <= state[s].consecutive_failures

Restarting(l, s) == loop[l].pc \in {"restart", "stop", "start"} /\ loop[l].service = s
Committed(l, s)  == loop[l].pc \in {"stop", "start"} /\ loop[l].service = s

\* A restart is one the failures so far allow.
RestartDue(l, s) ==
  Restarting(l, s) => /\ ~state[s].escalated
                      /\ Attempts(s) < state[s].consecutive_failures

\* The backoff is the delay that follows the last attempt, or the next one once
\* a loop has decided to make it.
DelayAfter(n) == IF n = 0 THEN 0 ELSE Delay(n)
BackoffFollows(s) ==
  /\ ~state[s].escalated /\ (\A l \in Loops : ~Committed(l, s))
       => backoff[s] = DelayAfter(Attempts(s))
  /\ \A l \in Loops : Committed(l, s) =>
       /\ backoff[s] = Delay(Attempts(s) + 1)
       /\ Attempts(s) > 0 => loop[l].now - state[s].last_restart >= Delay(Attempts(s))

\* The restarts of the streak, counted as the log counts them, lie their delays
\* apart by the beginnings of their polls, the last of which dates the state.
Spaced(s) ==
  LET w == worked[s] IN
  /\ Len(w) = Attempts(s)
  /\ Attempts(s) > 0 => state[s].last_restart = w[Attempts(s)].polled
  /\ \A n, m \in DOMAIN w : n < m => w[m].polled - w[n].polled >= Delay(n)

Story(s) == Booked(s) /\ (\A l \in Loops : RestartDue(l, s)) /\ BackoffFollows(s) /\ Spaced(s)
Stories == \A s \in Services : Story(s)

Working(l, s) == loop[l].pc \in {"health", "restart", "stop", "start"} /\ loop[l].service = s

\* The order of instants: a restart ends before the poll of the next begins, and
\* those that are over before the poll of a loop that is at work.
Timed(s) ==
  LET w == worked[s] IN
  /\ \A n \in DOMAIN w : /\ w[n].polled <= w[n].began /\ w[n].began <= w[n].ended
                         /\ w[n].ended <= clock
  /\ \A n, m \in DOMAIN w : n < m => w[n].ended <= w[m].polled
  /\ \A l \in Loops : Working(l, s) =>
       /\ loop[l].now <= clock
       /\ \A n \in DOMAIN w : w[n].ended <= loop[l].now
       /\ loop[l].pc = "start" => loop[l].now <= loop[l].began /\ loop[l].began <= clock
Timings == \A s \in Services : Timed(s)

-----------------------------------------------------------------------------
(* Delays.                                                                 *)

\* 2 ^ n counts the subsets of 1 .. n: those of 1 .. n + 1 are these and their
\* unions with {n + 1}.
LEMMA TwoPower ==
  ASSUME NEW n \in Nat
  PROVE  2 ^ n \in Nat \ {0} /\ 2 ^ (n + 1) = 2 * 2 ^ n
<1> DEFINE S == 1 .. n
           U == {A \cup {n + 1} : A \in SUBSET S}
<1>1. IsFiniteSet(S) /\ Cardinality(S) = n
  BY FS_Interval
<1>2. IsFiniteSet(1 .. (n + 1)) /\ Cardinality(1 .. (n + 1)) = n + 1
  BY FS_Interval
<1>3. IsFiniteSet(SUBSET S) /\ Cardinality(SUBSET S) = 2 ^ n
  BY <1>1, FS_SUBSET
<1>4. Cardinality(SUBSET (1 .. (n + 1))) = 2 ^ (n + 1)
  BY <1>2, FS_SUBSET
<1>5. IsFiniteSet(U) /\ Cardinality(U) = 2 ^ n
  <2> DEFINE f == [A \in SUBSET S |-> A \cup {n + 1}]
  <2>1. ASSUME NEW A \in SUBSET S, NEW B \in SUBSET S, A \cup {n + 1} = B \cup {n + 1}
        PROVE  A = B
    <3>1. n + 1 \notin S
      OBVIOUS
    <3> QED
      BY <2>1, <3>1
  <2>2. f \in [SUBSET S -> U] /\ \A A \in SUBSET S : f[A] = A \cup {n + 1}
    OBVIOUS
  <2>3. IsInjective(f)
    <3> SUFFICES ASSUME NEW A \in SUBSET S, NEW B \in SUBSET S, f[A] = f[B]
                 PROVE  A = B
      BY <2>2 DEF IsInjective
    <3> QED
      BY <2>1, <2>2
  <2>4. \A T \in U : \E A \in SUBSET S : f[A] = T
    BY <2>2
  <2> HIDE DEF f
  <2>5. f \in Bijection(SUBSET S, U)
    BY <2>2, <2>3, <2>4 DEF Bijection, Injection, Surjection
  <2>6. ExistsBijection(SUBSET S, U)
    BY <2>5 DEF ExistsBijection
  <2> QED
    BY <1>3, <2>6, FS_Bijection
<1>6. SUBSET (1 .. (n + 1)) = (SUBSET S) \cup U
  <2>1. ASSUME NEW A \in SUBSET (1 .. (n + 1))
        PROVE  A \in (SUBSET S) \cup U
    <3>1. A \ {n + 1} \in SUBSET S
      OBVIOUS
    <3>2. CASE n + 1 \in A
      <4>1. A = (A \ {n + 1}) \cup {n + 1}
        BY <3>2
      <4> QED
        BY <3>1, <4>1
    <3>3. CASE n + 1 \notin A
      <4>1. A = A \ {n + 1}
        BY <3>3
      <4> QED
        BY <3>1, <4>1
    <3> QED
      BY <3>2, <3>3
  <2>2. S \subseteq 1 .. (n + 1) /\ n + 1 \in 1 .. (n + 1)
    OBVIOUS
  <2>3. (SUBSET S) \cup U \subseteq SUBSET (1 .. (n + 1))
    BY <2>2
  <2> HIDE DEF S, U
  <2> QED
    BY <2>1, <2>3
<1>7. (SUBSET S) \cap U = {}
  OBVIOUS
<1>8. 2 ^ n \in Nat
  BY <1>3, FS_CardinalityType
<1>9. 2 ^ n # 0
  <2>1. {} \in SUBSET S
    OBVIOUS
  <2> QED
    BY <1>3, <2>1, FS_EmptySet
<1>10. 2 ^ (n + 1) = 2 ^ n + 2 ^ n
  <2>1. Cardinality((SUBSET S) \cup U) = Cardinality(SUBSET S) + Cardinality(U)
                                           - Cardinality((SUBSET S) \cap U)
    BY <1>3, <1>5, FS_Union
  <2>2. Cardinality((SUBSET S) \cap U) = 0
    BY <1>7, FS_EmptySet
  <2>3. Cardinality(SUBSET (1 .. (n + 1))) = Cardinality((SUBSET S) \cup U)
    BY <1>6
  <2> HIDE DEF S, U
  <2>4. 2 ^ (n + 1) = 2 ^ n + 2 ^ n - 0
    BY <1>3, <1>4, <1>5, <2>1, <2>2, <2>3
  <2> QED
    BY <1>8, <2>4
<1> QED
  BY <1>8, <1>9, <1>10

LEMMA DoubleInside ==
  ASSUME NEW b \in Nat, NEW x \in Nat
  PROVE  b * x \in Nat /\ b * (2 * x) = (b * x) * 2
OBVIOUS

LEMMA BaseTimes ==
  ASSUME NEW b \in Nat \ {0}, NEW x \in Nat \ {0}
  PROVE  b * x \in Nat /\ b * x >= b
<1>1. b * (x - 1) \in Nat
  OBVIOUS
<1>2. b * x = b * (x - 1) + b
  OBVIOUS
<1> QED
  BY <1>1, <1>2

LEMMA DelayBounds ==
  ASSUME NEW n \in Nat \ {0}
  PROVE  Delay(n) \in BackoffBase .. BackoffMax
<1>1. n - 1 \in Nat
  OBVIOUS
<1>2. 2 ^ (n - 1) \in Nat \ {0}
  BY <1>1, TwoPower
<1> DEFINE x == 2 ^ (n - 1)
           d == BackoffBase * x
<1> HIDE DEF x
<1>3. d \in Nat /\ d >= BackoffBase
  BY <1>2, BaseTimes, ConfigAssumption DEF x
<1>4. Delay(n) = IF d < BackoffMax THEN d ELSE BackoffMax
  BY DEF Delay, x
<1> HIDE DEF d
<1> QED
  BY <1>3, <1>4, ConfigAssumption

\* The code's doubling is the documented power of two.
LEMMA DelayDoubles ==
  ASSUME NEW n \in Nat
  PROVE  NextBackoff(DelayAfter(n)) = Delay(n + 1)
<1>1. CASE n = 0
  <2>1. 2 ^ 0 = 1
    OBVIOUS
  <2>2. (n + 1) - 1 = 0
    BY <1>1
  <2>3. BackoffBase * 2 ^ ((n + 1) - 1) = BackoffBase
    <3>1. BackoffBase * 1 = BackoffBase
      BY ConfigAssumption
    <3> QED
      BY <2>1, <2>2, <3>1
  <2>4. Delay(n + 1) = IF BackoffBase < BackoffMax THEN BackoffBase ELSE BackoffMax
    BY <2>3 DEF Delay
  <2>5. NextBackoff(DelayAfter(n)) = BackoffBase
    BY <1>1 DEF NextBackoff, DelayAfter
  <2> QED
    BY <2>4, <2>5, ConfigAssumption
<1>2. CASE n # 0
  <2> DEFINE x == 2 ^ (n - 1)
             y == 2 ^ ((n + 1) - 1)
             d == BackoffBase * x
             e == BackoffBase * y
  <2>1. n - 1 \in Nat /\ (n - 1) + 1 = (n + 1) - 1
    BY <1>2
  <2>2. x \in Nat \ {0} /\ y = 2 * x
    BY <2>1, TwoPower
  <2>3. Delay(n) = IF d < BackoffMax THEN d ELSE BackoffMax
    BY DEF Delay
  <2>4. Delay(n + 1) = IF e < BackoffMax THEN e ELSE BackoffMax
    BY DEF Delay
  <2> HIDE DEF x, y
  <2>5. d \in Nat /\ e = d * 2
    BY <2>2, DoubleInside, ConfigAssumption
  <2>6. Delay(n) \in BackoffBase .. BackoffMax
    BY <1>2, DelayBounds
  <2> HIDE DEF d, e
  <2>7. NextBackoff(Delay(n)) = IF Delay(n) * 2 < BackoffMax THEN Delay(n) * 2 ELSE BackoffMax
    BY <2>6, ConfigAssumption DEF NextBackoff
  <2>8. NextBackoff(Delay(n)) = Delay(n + 1)
    BY <2>3, <2>4, <2>5, <2>7, ConfigAssumption
  <2> QED
    BY <1>2, <2>8 DEF DelayAfter
<1> QED
  BY <1>1, <1>2

-----------------------------------------------------------------------------
(* Types: they hold however many loops run at once.                        *)

LoopRecord == [pc : PCs, todo : SUBSET Services, service : Services \cup {NoService},
               now : Nat, began : Nat]
WorkRecord == [polled : Nat, began : Nat, ended : Nat]
StateRecord == [healthy : BOOLEAN, consecutive_failures : 0 .. FailureCap,
                escalated : BOOLEAN, last_restart : Nat \cup {Never}]
IncidentRecord == [kind : IncidentKinds, at : Nat]

LEMMA Constants ==
  /\ MaxRestarts \in Nat /\ FailureCap \in Nat /\ FailureCap >= MaxRestarts + 2
  /\ BackoffBase \in Nat \ {0} /\ BackoffMax \in Nat /\ BackoffMax >= BackoffBase
  /\ Cooldown \in Nat /\ NoLoop \notin Loops
BY ConfigAssumption DEF FailureCap

\* A loop away from its cycle works on a service.
LoopsOK ==
  /\ loop \in [Loops -> LoopRecord]
  /\ \A l \in Loops : loop[l].pc \notin {"ended", "cycle", "service"}
                        => loop[l].service \in Services

LEMMA WorksOnService ==
  ASSUME TypeOK, NEW l \in Loops, loop[l].pc \in {"health", "restart", "stop", "start"}
  PROVE  loop[l].service \in Services /\ loop[l].now \in Nat
BY DEF TypeOK

LEMMA ProceedTypes ==
  ASSUME TypeOK, NEW l \in Loops, loop[l].pc \in {"health", "restart", "stop", "start"},
         NEW place \in {"service", "restart", "stop", "start"}, Proceed(l, place)
  PROVE  LoopsOK'
<1>1. loop \in [Loops -> LoopRecord] /\ place \in PCs /\ 0 \in Nat
  BY DEF TypeOK, LoopRecord, PCs
<1>2. loop[l].service \in Services
  BY WorksOnService
<1>3. loop' \in [Loops -> LoopRecord]
  BY <1>1 DEF Proceed, LoopRecord
<1>4. ASSUME NEW k \in Loops, loop'[k].pc \notin {"ended", "cycle", "service"}
      PROVE  loop'[k].service \in Services
  BY <1>1, <1>2, <1>4 DEF Proceed, LoopRecord, TypeOK
<1> QED
  BY <1>3, <1>4 DEF LoopsOK

LEMMA FailedTypes ==
  ASSUME TypeOK, NEW s \in Services
  PROVE  /\ Failed(s) \in StateRecord
         /\ Failed(s).escalated = state[s].escalated
         /\ Failed(s).last_restart = state[s].last_restart
         /\ Failed(s).consecutive_failures = CountUp(state[s].consecutive_failures)
<1>1. state[s] \in StateRecord
  BY DEF TypeOK, StateRecord
<1>2. CountUp(state[s].consecutive_failures) \in 0 .. FailureCap
  BY <1>1, Constants DEF StateRecord, CountUp
<1> QED
  BY <1>1, <1>2 DEF Failed, StateRecord

LEMMA IncidentTypes ==
  ASSUME NEW kind \in IncidentKinds, NEW at \in Nat
  PROVE  Incident(kind, at) \in IncidentRecord
BY DEF Incident, IncidentRecord

LEMMA DegradedLogTypes ==
  ASSUME TypeOK, NEW s \in Services, NEW at \in Nat
  PROVE  DegradedLog(s, at) \in Seq(IncidentRecord)
<1>1. streak[s] \in Seq(IncidentRecord)
  BY DEF TypeOK, IncidentRecord
<1>2. Incident("degraded", at) \in IncidentRecord
  BY IncidentTypes DEF IncidentKinds
<1> QED
  BY <1>1, <1>2, AppendProperties DEF DegradedLog

LEMMA InitTypes == Init => TypeOK
<1> SUFFICES ASSUME Init PROVE TypeOK
  OBVIOUS
<1>1. NewState \in StateRecord
  BY Constants DEF NewState, StateRecord, Never
<1>2. EndedLoop \in LoopRecord
  BY DEF EndedLoop, LoopRecord, PCs
<1>3. <<>> \in Seq(IncidentRecord)
  BY EmptySeq
<1>4. \A l \in Loops : loop[l].pc = "ended"
  BY DEF Init, EndedLoop
<1>5. <<>> \in Seq(WorkRecord)
  BY EmptySeq
<1> QED
  BY <1>1, <1>2, <1>3, <1>4, <1>5
     DEF Init, TypeOK, StateRecord, LoopRecord, IncidentRecord, WorkRecord

LEMMA WalkTypes ==
  ASSUME TypeOK, NEW l \in Loops,
         Cycle(l) \/ (\E s \in Services : PollService(l, s)) \/ CycleEnd(l)
  PROVE  TypeOK'
<1>1. loop \in [Loops -> LoopRecord] /\ clock \in Nat /\ EndedLoop \in LoopRecord
  BY DEF TypeOK, LoopRecord, EndedLoop, PCs
<1>2. CASE Cycle(l)
  <2>1. [loop[l] EXCEPT !.pc = "service", !.todo = Services] \in LoopRecord
    BY <1>1 DEF LoopRecord, PCs
  <2>2. loop' \in [Loops -> LoopRecord]
    BY <1>1, <1>2, <2>1 DEF Cycle
  <2>3. \A k \in Loops : loop'[k].pc \notin {"ended", "cycle", "service"}
                           => loop'[k].service \in Services
    BY <1>1, <1>2 DEF Cycle, TypeOK, LoopRecord, EndedLoop
  <2> QED
    BY <1>2, <2>2, <2>3 DEF Cycle, TypeOK, LoopRecord, book, agent
<1>3. ASSUME NEW s \in Services, PollService(l, s)
      PROVE  TypeOK'
  <2>1. /\ [loop[l] EXCEPT !.todo = loop[l].todo \ {s}] \in LoopRecord
        /\ [loop[l] EXCEPT !.pc = "health", !.todo = loop[l].todo \ {s}, !.service = s, !.now = clock]
             \in LoopRecord
    BY <1>1 DEF LoopRecord, PCs
  <2>2. loop' \in [Loops -> LoopRecord]
    BY <1>1, <1>3, <2>1 DEF PollService
  <2>3. \A k \in Loops : loop'[k].pc \notin {"ended", "cycle", "service"}
                           => loop'[k].service \in Services
    BY <1>1, <1>3 DEF PollService, TypeOK, LoopRecord, EndedLoop
  <2> QED
    BY <1>3, <2>2, <2>3 DEF PollService, TypeOK, LoopRecord, book, agent
<1>4. CASE CycleEnd(l)
  <2>1. loop' \in [Loops -> LoopRecord]
    BY <1>1, <1>4 DEF CycleEnd, LoopRecord, PCs
  <2>2. \A k \in Loops : loop'[k].pc \notin {"ended", "cycle", "service"}
                           => loop'[k].service \in Services
    BY <1>1, <1>4 DEF CycleEnd, TypeOK, LoopRecord
  <2> QED
    BY <1>4, <2>1, <2>2 DEF CycleEnd, TypeOK, LoopRecord, book, agent
<1> QED
  BY <1>2, <1>3, <1>4

LEMMA VerdictTypes ==
  ASSUME TypeOK, NEW l \in Loops,
         Healthy(l) \/ UnhealthyEscalated(l) \/ UnhealthyRestart(l) \/ Escalate(l)
  PROVE  TypeOK'
<1> DEFINE s == loop[l].service
<1>1. loop[l].pc = "health"
  BY DEF Healthy, UnhealthyEscalated, UnhealthyRestart, Escalate
<1>2. s \in Services /\ loop[l].now \in Nat
  BY <1>1, WorksOnService
<1>3. state \in [Services -> StateRecord] /\ streak \in [Services -> Seq(IncidentRecord)]
  BY DEF TypeOK, StateRecord, IncidentRecord
<1>4. Failed(s) \in StateRecord /\ DegradedLog(s, loop[l].now) \in Seq(IncidentRecord)
  BY <1>2, FailedTypes, DegradedLogTypes
<1>5. LoopsOK'
  BY <1>1, ProceedTypes DEF Healthy, UnhealthyEscalated, UnhealthyRestart, Escalate
<1>6. CASE Healthy(l)
  <2>1. state' \in [Services -> StateRecord]
    <3>1. state[s] \in StateRecord
      BY <1>2, <1>3
    <3>2. [state[s] EXCEPT !.healthy = TRUE, !.consecutive_failures = 0, !.escalated = FALSE]
            \in StateRecord
      <4>1. 0 \in 0 .. FailureCap
        BY Constants
      <4> HIDE DEF s
      <4> QED
        BY <3>1, <4>1 DEF StateRecord
    <3>3. state' = [state EXCEPT ![s] =
            [state[s] EXCEPT !.healthy = TRUE, !.consecutive_failures = 0, !.escalated = FALSE]]
      BY <1>2, <1>3, <1>6 DEF Healthy
    <3> QED
      BY <1>3, <3>2, <3>3
  <2>2. streak' \in [Services -> Seq(IncidentRecord)]
    BY <1>2, <1>3, <1>6, EmptySeq DEF Healthy
  <2>3. worked' \in [Services -> Seq(WorkRecord)]
    <3>1. worked \in [Services -> Seq(WorkRecord)]
      BY DEF TypeOK, WorkRecord
    <3> QED
      BY <1>2, <1>6, <3>1, EmptySeq DEF Healthy
  <2> QED
    BY <1>2, <1>5, <1>6, <2>1, <2>2, <2>3
       DEF Healthy, TypeOK, LoopsOK, LoopRecord, StateRecord, IncidentRecord, WorkRecord, agent
<1>7. CASE UnhealthyEscalated(l)
  <2>1. state' \in [Services -> StateRecord]
    BY <1>2, <1>3, <1>4, <1>7 DEF UnhealthyEscalated
  <2> QED
    BY <1>5, <1>7, <2>1
       DEF UnhealthyEscalated, TypeOK, LoopsOK, LoopRecord, StateRecord, agent
<1>8. CASE UnhealthyRestart(l)
  <2>1. state' \in [Services -> StateRecord]
    BY <1>2, <1>3, <1>4, <1>8 DEF UnhealthyRestart
  <2>2. streak' \in [Services -> Seq(IncidentRecord)]
    BY <1>2, <1>3, <1>4, <1>8 DEF UnhealthyRestart
  <2> QED
    BY <1>5, <1>8, <2>1, <2>2
       DEF UnhealthyRestart, TypeOK, LoopsOK, LoopRecord, StateRecord, IncidentRecord, agent
<1>9. CASE Escalate(l)
  <2>1. state' \in [Services -> StateRecord]
    BY <1>2, <1>3, <1>4, <1>9 DEF Escalate, StateRecord
  <2>2. Incident("escalated", loop[l].now) \in IncidentRecord
    BY <1>2, IncidentTypes DEF IncidentKinds
  <2>3. Append(DegradedLog(s, loop[l].now), Incident("escalated", loop[l].now))
          \in Seq(IncidentRecord)
    BY <1>4, <2>2, AppendProperties
  <2>4. streak' \in [Services -> Seq(IncidentRecord)]
    BY <1>2, <1>3, <1>9, <2>3 DEF Escalate
  <2>5. deadline' \in [Services -> Nat \cup {Never}]
    <3>1. deadline \in [Services -> Nat \cup {Never}]
      BY DEF TypeOK
    <3>2. loop[l].now + Cooldown \in Nat
      BY <1>2, Constants
    <3>3. deadline' = [deadline EXCEPT ![s] = loop[l].now + Cooldown]
      BY <1>9 DEF Escalate
    <3> QED
      BY <3>1, <3>2, <3>3
  <2> QED
    BY <1>2, <1>5, <1>9, <2>1, <2>4, <2>5
       DEF Escalate, TypeOK, LoopsOK, LoopRecord, StateRecord, IncidentRecord, agent
<1> QED
  BY <1>6, <1>7, <1>8, <1>9

LEMMA NextBackoffTypes ==
  ASSUME NEW b \in {0} \cup (BackoffBase .. BackoffMax)
  PROVE  NextBackoff(b) \in BackoffBase .. BackoffMax
BY Constants DEF NextBackoff

LEMMA RestartTypes ==
  ASSUME TypeOK, NEW l \in Loops, AttemptRestart(l) \/ BackendStop(l) \/ BackendStart(l)
  PROVE  TypeOK'
<1> DEFINE s == loop[l].service
<1>1. loop[l].pc \in {"restart", "stop", "start"}
  BY DEF AttemptRestart, BackendStop, BackendStart
<1>2. s \in Services /\ loop[l].now \in Nat
  BY <1>1, WorksOnService
<1>3. LoopsOK'
  <2>1. CASE AttemptRestart(l) \/ BackendStart(l)
    BY <1>1, <2>1, ProceedTypes DEF AttemptRestart, BackendStart
  <2>2. CASE BackendStop(l)
    <3>1. [loop[l] EXCEPT !.pc = "start", !.began = clock] \in LoopRecord
      BY DEF TypeOK, LoopRecord, PCs
    <3>2. loop' = [loop EXCEPT ![l] = [loop[l] EXCEPT !.pc = "start", !.began = clock]]
      BY <2>2 DEF BackendStop
    <3>3. loop \in [Loops -> LoopRecord]
      BY DEF TypeOK, LoopRecord
    <3> QED
      BY <1>2, <3>1, <3>2, <3>3 DEF TypeOK, LoopsOK
  <2> QED
    BY <2>1, <2>2
<1>4. CASE AttemptRestart(l)
  <2>1. NextBackoff(backoff[s]) \in BackoffBase .. BackoffMax
    BY <1>2, NextBackoffTypes DEF TypeOK
  <2>2. backoff' \in [Services -> {0} \cup (BackoffBase .. BackoffMax)]
    BY <1>2, <1>4, <2>1 DEF AttemptRestart, TypeOK
  <2> QED
    BY <1>3, <1>4, <2>2 DEF AttemptRestart, TypeOK, LoopsOK, LoopRecord, agent
<1>5. CASE BackendStop(l)
  <2>1. up' \in [Services -> BOOLEAN]
    BY <1>2, <1>5 DEF BackendStop, TypeOK
  <2> QED
    BY <1>3, <1>5, <2>1 DEF BackendStop, TypeOK, LoopsOK, LoopRecord, agent, book
<1>6. CASE BackendStart(l)
  <2>1. up' \in [Services -> BOOLEAN]
    BY <1>2, <1>6 DEF BackendStart, TypeOK
  <2>2. state' \in [Services -> StateRecord]
    <3>1. state \in [Services -> StateRecord] /\ state[s] \in StateRecord
      BY <1>2 DEF TypeOK, StateRecord
    <3>2. [state[s] EXCEPT !.last_restart = loop[l].now] \in StateRecord
      BY <1>2, <3>1 DEF StateRecord
    <3>3. state' = [state EXCEPT ![s] = [state[s] EXCEPT !.last_restart = loop[l].now]]
      BY <1>2, <1>6, <3>1 DEF BackendStart
    <3> QED
      BY <3>1, <3>2, <3>3
  <2>3. Incident("restarted", loop[l].now) \in IncidentRecord
    BY <1>2, IncidentTypes DEF IncidentKinds
  <2>4. streak \in [Services -> Seq(IncidentRecord)]
    BY DEF TypeOK, IncidentRecord
  <2>5. Append(streak[s], Incident("restarted", loop[l].now)) \in Seq(IncidentRecord)
    BY <1>2, <2>3, <2>4, AppendProperties
  <2>6. streak' \in [Services -> Seq(IncidentRecord)]
    BY <1>2, <1>6, <2>4, <2>5 DEF BackendStart
  <2>7. worked' \in [Services -> Seq(WorkRecord)]
    <3>1. worked \in [Services -> Seq(WorkRecord)]
      BY DEF TypeOK, WorkRecord
    <3>2. [polled |-> loop[l].now, began |-> loop[l].began, ended |-> clock] \in WorkRecord
      BY <1>2 DEF TypeOK, WorkRecord
    <3> QED
      BY <1>2, <1>6, <3>1, <3>2, AppendProperties DEF BackendStart
  <2> QED
    BY <1>3, <1>6, <2>1, <2>2, <2>6, <2>7
       DEF BackendStart, TypeOK, LoopsOK, LoopRecord, StateRecord, IncidentRecord, WorkRecord,
           agent
<1> QED
  BY <1>4, <1>5, <1>6

LEMMA OwnerTypes ==
  ASSUME TypeOK, Start \/ StopBegin \/ StopEnd
  PROVE  TypeOK'
<1>1. CASE Start
  <2>1. PICK l \in Loops : /\ loop[l].pc = "ended"
                           /\ loop' = [loop EXCEPT ![l].pc = "cycle"]
                           /\ thread' = l
    BY <1>1 DEF Start
  <2>2. loop' \in [Loops -> LoopRecord]
    BY <2>1 DEF TypeOK, LoopRecord, PCs
  <2>3. \A k \in Loops : loop'[k].pc \notin {"ended", "cycle", "service"}
                           => loop'[k].service \in Services
    BY <2>1 DEF TypeOK
  <2> QED
    BY <1>1, <2>1, <2>2, <2>3 DEF Start, TypeOK, LoopRecord, book
<1>2. CASE StopBegin
  BY <1>2 DEF StopBegin, TypeOK, book
<1>3. CASE StopEnd
  BY <1>3 DEF StopEnd, TypeOK, book
<1> QED
  BY <1>1, <1>2, <1>3

LEMMA WorldTypes ==
  ASSUME TypeOK, (\E s \in Services : Fail(s) \/ Recover(s)) \/ Tick
  PROVE  TypeOK'
<1>1. ASSUME NEW s \in Services, Fail(s) \/ Recover(s)
      PROVE  TypeOK'
  <2>1. up' \in [Services -> BOOLEAN]
    BY <1>1 DEF Fail, Recover, TypeOK
  <2> QED
    BY <1>1, <2>1 DEF Fail, Recover, TypeOK, book, agent
<1>2. CASE Tick
  <2>1. clock' \in Nat /\ UNCHANGED <<up, book, agent, loop>>
    BY <1>2 DEF Tick, TypeOK
  <2> QED
    BY <2>1 DEF TypeOK, book, agent
<1> QED
  BY <1>1, <1>2

\* Every variable keeps its type, whatever loops overlap.
THEOREM SupervisionTypes == Spec => []TypeOK
<1>1. ASSUME TypeOK, [Next]_vars
      PROVE  TypeOK'
  <2>1. CASE Next
    <3>1. ASSUME NEW l \in Loops, LoopStep(l)
          PROVE  TypeOK'
      BY <1>1, <3>1, WalkTypes, VerdictTypes, RestartTypes DEF LoopStep
    <3>2. CASE Start \/ StopBegin \/ StopEnd
      BY <1>1, <3>2, OwnerTypes
    <3>3. CASE (\E s \in Services : Fail(s) \/ Recover(s)) \/ Tick
      BY <1>1, <3>3, WorldTypes
    <3> QED
      BY <2>1, <3>1, <3>2, <3>3 DEF Next
  <2>2. CASE UNCHANGED vars
    BY <1>1, <2>2 DEF TypeOK, vars, agent, book
  <2> QED
    BY <1>1, <2>1, <2>2
<1> QED
  BY <1>1, InitTypes, PTL DEF Spec

-----------------------------------------------------------------------------
(* Logs.                                                                   *)

KindAt(log, kind) == {i \in DOMAIN log : log[i].kind = kind}

\* One incident more.
Grown(log, kind, at, new) == new = Append(log, Incident(kind, at))

LEMMA EmptyLog ==
  ASSUME NEW kind
  PROVE  KindAt(<<>>, kind) = {}
BY DEF KindAt

LEMMA LogTypes ==
  ASSUME TypeOK, NEW s \in Services
  PROVE  /\ streak[s] \in Seq(IncidentRecord)
         /\ Len(streak[s]) \in Nat /\ DOMAIN streak[s] = 1 .. Len(streak[s])
         /\ \A i \in 1 .. Len(streak[s]) : streak[s][i].at \in Nat
<1>1. streak[s] \in Seq(IncidentRecord)
  BY DEF TypeOK, IncidentRecord
<1>2. \A i \in 1 .. Len(streak[s]) : streak[s][i] \in IncidentRecord
  BY <1>1, ElementOfSeq
<1> QED
  BY <1>1, <1>2, LenProperties DEF IncidentRecord

LEMMA AppendKinds ==
  ASSUME NEW log \in Seq(IncidentRecord), NEW kind \in IncidentKinds, NEW at \in Nat,
         NEW new, Grown(log, kind, at, new)
  PROVE  /\ new \in Seq(IncidentRecord) /\ new # <<>> /\ Len(log) \in Nat /\ Len(new) = Len(log) + 1
         /\ DOMAIN log = 1 .. Len(log)
         /\ \A i \in 1 .. Len(log) : new[i] = log[i]
         /\ new[Len(log) + 1].kind = kind /\ new[Len(log) + 1].at = at
         /\ KindAt(new, kind) = KindAt(log, kind) \cup {Len(log) + 1}
<1>1. Incident(kind, at) \in IncidentRecord
  BY IncidentTypes
<1>2. /\ new \in Seq(IncidentRecord) /\ new # <<>> /\ Len(log) \in Nat /\ Len(new) = Len(log) + 1
      /\ \A i \in 1 .. Len(log) : new[i] = log[i]
      /\ new[Len(log) + 1] = Incident(kind, at)
  BY <1>1, AppendProperties, LenProperties DEF Grown
<1>3. DOMAIN log = 1 .. Len(log) /\ DOMAIN new = 1 .. (Len(log) + 1)
  BY <1>2, LenProperties
<1>4. 1 .. (Len(log) + 1) = (1 .. Len(log)) \cup {Len(log) + 1}
  BY <1>2
<1>5. new[Len(log) + 1].kind = kind /\ new[Len(log) + 1].at = at
  BY <1>2 DEF Incident
<1>6. KindAt(new, kind) = KindAt(log, kind) \cup {Len(log) + 1}
  BY <1>2, <1>3, <1>4, <1>5 DEF KindAt
<1> QED
  BY <1>2, <1>3, <1>5, <1>6

LEMMA AppendOther ==
  ASSUME NEW log \in Seq(IncidentRecord), NEW kind \in IncidentKinds, NEW at \in Nat,
         NEW new, Grown(log, kind, at, new), NEW other, other # kind
  PROVE  KindAt(new, other) = KindAt(log, other)
<1>1. /\ new \in Seq(IncidentRecord) /\ Len(log) \in Nat /\ Len(new) = Len(log) + 1
      /\ \A i \in 1 .. Len(log) : new[i] = log[i]
      /\ new[Len(log) + 1].kind = kind
  BY AppendKinds
<1>2. DOMAIN log = 1 .. Len(log) /\ DOMAIN new = 1 .. (Len(log) + 1)
  BY <1>1, LenProperties
<1>3. 1 .. (Len(log) + 1) = (1 .. Len(log)) \cup {Len(log) + 1}
  BY <1>1
<1> QED
  BY <1>1, <1>2, <1>3 DEF KindAt

LEMMA RestartCounts ==
  ASSUME TypeOK, NEW s \in Services
  PROVE  /\ \A k : Logged(s, k) \subseteq 1 .. Len(streak[s]) /\ IsFiniteSet(Logged(s, k))
         /\ Attempts(s) \in Nat
<1>1. Len(streak[s]) \in Nat /\ DOMAIN streak[s] = 1 .. Len(streak[s])
  BY LogTypes
<1>2. IsFiniteSet(1 .. Len(streak[s]))
  BY <1>1, FS_Interval
<1>3. ASSUME NEW k
      PROVE  Logged(s, k) \subseteq 1 .. Len(streak[s]) /\ IsFiniteSet(Logged(s, k))
  <2>1. Logged(s, k) \in SUBSET (1 .. Len(streak[s]))
    BY <1>1 DEF Logged
  <2> QED
    BY <1>2, <2>1, FS_Subset
<1>4. Attempts(s) \in Nat
  BY <1>3, FS_CardinalityType DEF Attempts
<1> QED
  BY <1>3, <1>4

LEMMA WorkTypes ==
  ASSUME TypeOK, NEW s \in Services
  PROVE  /\ worked[s] \in Seq(WorkRecord) /\ Len(worked[s]) \in Nat
         /\ DOMAIN worked[s] = 1 .. Len(worked[s])
         /\ \A n \in DOMAIN worked[s] : worked[s][n] \in WorkRecord
<1>1. worked[s] \in Seq(WorkRecord)
  BY DEF TypeOK, WorkRecord
<1> QED
  BY <1>1, LenProperties, ElementOfSeq

\* One more restart.
LEMMA MoreRestarts ==
  ASSUME TypeOK, NEW s \in Services, NEW n \in Nat, n = Len(streak[s]) + 1,
         Logged(s, "restarted")' = Logged(s, "restarted") \cup {n}
  PROVE  Attempts(s)' = Attempts(s) + 1
<1> DEFINE R == Logged(s, "restarted")
<1>1. R \subseteq 1 .. Len(streak[s]) /\ IsFiniteSet(R) /\ Len(streak[s]) \in Nat
  BY RestartCounts, LogTypes
<1>2. n \notin R
  BY <1>1
<1>3. Cardinality(R \cup {n}) = Cardinality(R) + 1
  BY <1>1, <1>2, FS_AddElement
<1> QED
  BY <1>3 DEF Attempts

-----------------------------------------------------------------------------
(* Steps that leave a service's story alone, or end it.                    *)

\* The book of s stays, and the loops that restart it.
LEMMA StoryFrame ==
  ASSUME NEW s \in Services, Story(s),
         state'[s] = state[s], streak'[s] = streak[s], backoff'[s] = backoff[s],
         worked'[s] = worked[s],
         \A l \in Loops : /\ Restarting(l, s)' => Restarting(l, s)
                          /\ Committed(l, s)' <=> Committed(l, s)
                          /\ Committed(l, s) => loop'[l].now = loop[l].now
  PROVE  Story(s)'
<1>1. \A k : Logged(s, k)' = Logged(s, k)
  BY DEF Logged
<1>2. Attempts(s)' = Attempts(s)
  BY <1>1 DEF Attempts
<1>3. Booked(s)'
  BY <1>1, <1>2 DEF Story, Booked
<1>4. \A l \in Loops : RestartDue(l, s)'
  BY <1>2 DEF Story, RestartDue
<1>5. BackoffFollows(s)'
  BY <1>2 DEF Story, BackoffFollows
<1>6. Spaced(s)'
  BY <1>2 DEF Story, Spaced
<1> QED
  BY <1>3, <1>4, <1>5, <1>6 DEF Story

\* A loop proceeds, or notes when its restart began.
Goes(l, place) ==
  \/ Proceed(l, place)
  \/ place = "start" /\ loop' = [loop EXCEPT ![l].pc = "start", ![l].began = clock]

\* With one loop, what it does next is all that goes on.
LEMMA OnlyLoopGoes ==
  ASSUME TypeOK, OneLoop, NEW l \in Loops, loop[l].pc \in PCs \ {"ended"}, NEW place,
         Goes(l, place)
  PROVE  /\ \A k \in Loops \ {l} : loop[k].pc = "ended" /\ loop'[k].pc = "ended"
         /\ loop'[l].pc = place
         /\ place # "service" => /\ loop'[l].service = loop[l].service
                                 /\ loop'[l].now = loop[l].now
         /\ place = "service" => loop'[l].service = NoService
<1>1. loop \in [Loops -> LoopRecord]
  BY DEF TypeOK, LoopRecord
<1>2. CASE Proceed(l, place)
  BY <1>1, <1>2 DEF OneLoop, Proceed, LoopRecord
<1>3. CASE place = "start" /\ loop' = [loop EXCEPT ![l].pc = "start", ![l].began = clock]
  BY <1>1, <1>3 DEF OneLoop, LoopRecord
<1> QED
  BY <1>2, <1>3 DEF Goes

LEMMA OnlyLoop ==
  ASSUME TypeOK, OneLoop, NEW l \in Loops, loop[l].pc \in PCs \ {"ended"}, NEW place,
         Proceed(l, place)
  PROVE  /\ \A k \in Loops \ {l} : loop[k].pc = "ended" /\ loop'[k].pc = "ended"
         /\ loop'[l].pc = place
         /\ place # "service" => /\ loop'[l].service = loop[l].service
                                 /\ loop'[l].now = loop[l].now
<1>1. Goes(l, place)
  BY DEF Goes
<1> QED
  BY <1>1, OnlyLoopGoes

\* No service but that of the loop changes.
LEMMA OtherServices ==
  ASSUME TypeOK, OneLoop, Stories, NEW l \in Loops, loop[l].pc \in PCs \ {"ended"},
         NEW place, Goes(l, place), NEW s \in Services, s # loop[l].service,
         state'[s] = state[s], streak'[s] = streak[s], backoff'[s] = backoff[s],
         worked'[s] = worked[s]
  PROVE  Story(s)'
<1>1. \A k \in Loops : ~Restarting(k, s) /\ ~Committed(k, s)
  BY OnlyLoopGoes DEF Restarting, Committed
<1>2. \A k \in Loops : ~Restarting(k, s)' /\ ~Committed(k, s)'
  BY OnlyLoopGoes DEF Restarting, Committed
<1> QED
  BY <1>1, <1>2, StoryFrame DEF Stories

LEMMA InitStories == Init => Stories
<1> SUFFICES ASSUME Init, NEW s \in Services
             PROVE  Story(s)
  BY DEF Stories
<1>1. streak[s] = <<>> /\ state[s] = NewState /\ backoff[s] = 0
  BY DEF Init
<1>2. \A k : Logged(s, k) = {}
  BY <1>1, EmptyLog DEF Logged, KindAt
<1>3. Attempts(s) = 0
  BY <1>2, FS_EmptySet DEF Attempts
<1>4. \A l \in Loops : ~Restarting(l, s) /\ ~Committed(l, s)
  BY DEF Init, EndedLoop, Restarting, Committed
<1> QED
  BY <1>1, <1>2, <1>3, <1>4, Constants
     DEF Story, Booked, RestartDue, BackoffFollows, DelayAfter, Spaced, NewState, Init

\* Steps of the walk over the services, of the owner and of the world.
LEMMA QuietStories ==
  ASSUME TypeOK, Stories, UNCHANGED <<state, backoff, streak, worked>>,
         \A k \in Loops : \/ loop'[k] = loop[k]
                          \/ /\ loop[k].pc \in {"ended", "cycle", "service"}
                             /\ loop'[k].pc \in {"ended", "cycle", "service", "health"}
  PROVE  Stories'
<1> SUFFICES ASSUME NEW s \in Services
             PROVE  Story(s)'
  BY DEF Stories
<1>1. \A k \in Loops : /\ Restarting(k, s)' => Restarting(k, s)
                       /\ Committed(k, s)' <=> Committed(k, s)
                       /\ Committed(k, s) => loop'[k].now = loop[k].now
  BY DEF Restarting, Committed
<1> QED
  BY <1>1, StoryFrame DEF Stories

LEMMA WalkStories ==
  ASSUME TypeOK, Stories, NEW l \in Loops,
         Cycle(l) \/ (\E s \in Services : PollService(l, s)) \/ CycleEnd(l)
  PROVE  Stories'
<1>1. loop \in [Loops -> LoopRecord]
  BY DEF TypeOK, LoopRecord
<1>2. CASE Cycle(l)
  <2>1. \A k \in Loops : \/ loop'[k] = loop[k]
                         \/ /\ loop[k].pc \in {"ended", "cycle", "service"}
                            /\ loop'[k].pc \in {"ended", "cycle", "service", "health"}
    BY <1>1, <1>2 DEF Cycle, EndedLoop, LoopRecord
  <2> QED
    BY <1>2, <2>1, QuietStories DEF Cycle, book
<1>3. ASSUME NEW s \in Services, PollService(l, s)
      PROVE  Stories'
  <2>1. \A k \in Loops : \/ loop'[k] = loop[k]
                         \/ /\ loop[k].pc \in {"ended", "cycle", "service"}
                            /\ loop'[k].pc \in {"ended", "cycle", "service", "health"}
    BY <1>1, <1>3 DEF PollService, EndedLoop, LoopRecord
  <2> QED
    BY <1>3, <2>1, QuietStories DEF PollService, book
<1>4. CASE CycleEnd(l)
  <2>1. \A k \in Loops : \/ loop'[k] = loop[k]
                         \/ /\ loop[k].pc \in {"ended", "cycle", "service"}
                            /\ loop'[k].pc \in {"ended", "cycle", "service", "health"}
    BY <1>1, <1>4 DEF CycleEnd, LoopRecord
  <2> QED
    BY <1>4, <2>1, QuietStories DEF CycleEnd, book
<1> QED
  BY <1>2, <1>3, <1>4

LEMMA OutsideStories ==
  ASSUME TypeOK, Stories,
         \/ Start \/ StopBegin \/ StopEnd
         \/ \E s \in Services : Fail(s) \/ Recover(s)
         \/ Tick
  PROVE  Stories'
<1>1. CASE Start
  <2>1. \A k \in Loops : \/ loop'[k] = loop[k]
                         \/ /\ loop[k].pc \in {"ended", "cycle", "service"}
                            /\ loop'[k].pc \in {"ended", "cycle", "service", "health"}
    BY <1>1 DEF Start, TypeOK
  <2> QED
    BY <1>1, <2>1, QuietStories DEF Start, book
<1>2. CASE UNCHANGED <<book, loop>>
  BY <1>2, QuietStories DEF book
<1> QED
  BY <1>1, <1>2 DEF StopBegin, StopEnd, Fail, Recover, Tick, book

-----------------------------------------------------------------------------
(* The verdict on a service.                                               *)

LEMMA FailureCounts ==
  ASSUME TypeOK, NEW s \in Services
  PROVE  LET f == state[s].consecutive_failures IN
         /\ f \in Nat /\ CountUp(f) \in Nat \ {0}
         /\ f <= MaxRestarts => CountUp(f) = f + 1
         /\ CountUp(f) = 1 <=> f = 0
<1>1. state[s].consecutive_failures \in 0 .. FailureCap
  BY DEF TypeOK
<1> QED
  BY <1>1, Constants DEF CountUp

\* The log with its degraded incident, which is its first.
LEMMA DegradedFirst ==
  ASSUME TypeOK, NEW s \in Services, Booked(s), NEW at \in Nat,
         NEW new, new = DegradedLog(s, at)
  PROVE  /\ new \in Seq(IncidentRecord) /\ new # <<>>
         /\ KindAt(new, "degraded") = {1}
         /\ KindAt(new, "restarted") = Logged(s, "restarted")
         /\ KindAt(new, "escalated") = Logged(s, "escalated")
         /\ \A i \in 1 .. Len(streak[s]) : new[i] = streak[s][i]
<1>1. streak[s] \in Seq(IncidentRecord)
  BY LogTypes
<1>2. Failed(s).consecutive_failures = 1 <=> streak[s] = <<>>
  BY FailedTypes, FailureCounts DEF Booked
<1>3. CASE streak[s] = <<>>
  <2>1. new = Append(streak[s], Incident("degraded", at))
    BY <1>2, <1>3 DEF DegradedLog
  <2>2. "degraded" \in IncidentKinds
    BY DEF IncidentKinds
  <2>3. /\ new \in Seq(IncidentRecord) /\ new # <<>> /\ Len(new) = Len(streak[s]) + 1
        /\ \A i \in 1 .. Len(streak[s]) : new[i] = streak[s][i]
        /\ KindAt(new, "degraded") = KindAt(streak[s], "degraded") \cup {Len(streak[s]) + 1}
        /\ KindAt(new, "restarted") = KindAt(streak[s], "restarted")
        /\ KindAt(new, "escalated") = KindAt(streak[s], "escalated")
    <3> DEFINE log == streak[s]
    <3>1. log \in Seq(IncidentRecord) /\ Grown(log, "degraded", at, new)
      BY <1>1, <2>1 DEF Grown
    <3> HIDE DEF log
    <3>2. /\ new \in Seq(IncidentRecord) /\ new # <<>> /\ Len(new) = Len(log) + 1
          /\ \A i \in 1 .. Len(log) : new[i] = log[i]
      BY <2>2, <3>1, AppendKinds
    <3>3. KindAt(new, "degraded") = KindAt(log, "degraded") \cup {Len(log) + 1}
      BY <2>2, <3>1, AppendKinds
    <3>4. KindAt(new, "restarted") = KindAt(log, "restarted")
      BY <2>2, <3>1, AppendOther
    <3>5. KindAt(new, "escalated") = KindAt(log, "escalated")
      BY <2>2, <3>1, AppendOther
    <3> QED
      BY <3>2, <3>3, <3>4, <3>5 DEF log
  <2>4. Len(streak[s]) = 0 /\ \A k : KindAt(streak[s], k) = {}
    BY <1>3, EmptySeq, EmptyLog
  <2>5. KindAt(new, "degraded") = {1}
    BY <2>3, <2>4
  <2> QED
    BY <2>3, <2>5 DEF Logged, KindAt
<1>4. CASE streak[s] # <<>>
  <2>1. new = streak[s]
    BY <1>2, <1>4 DEF DegradedLog
  <2> QED
    BY <1>1, <1>4, <2>1 DEF Booked, Logged, KindAt
<1> QED
  BY <1>3, <1>4

\* The restarts of s stay, and so does what is said of them.
LEMMA SpacedFrame ==
  ASSUME TypeOK, NEW s \in Services, Spaced(s),
         Logged(s, "restarted")' = Logged(s, "restarted"), worked'[s] = worked[s],
         state'[s].last_restart = state[s].last_restart
  PROVE  Spaced(s)' /\ Attempts(s)' = Attempts(s)
BY DEF Spaced, Attempts

LEMMA HealthyStory ==
  ASSUME TypeOK, OneLoop, Stories, NEW l \in Loops, Healthy(l),
         NEW s \in Services, s = loop[l].service
  PROVE  Story(s)'
<1>1. loop[l].pc \in PCs \ {"ended"}
  BY DEF Healthy, PCs
<1>2. /\ streak'[s] = <<>> /\ backoff'[s] = 0
      /\ state'[s].consecutive_failures = 0 /\ ~state'[s].escalated
  BY <1>1 DEF Healthy, TypeOK
<1>3. \A k \in Loops : ~Restarting(k, s)' /\ ~Committed(k, s)'
  BY <1>1, OnlyLoop DEF Healthy, Restarting, Committed
<1>4. \A k : Logged(s, k)' = {}
  BY <1>2, EmptyLog DEF Logged, KindAt
<1>5. Attempts(s)' = 0
  BY <1>4, FS_EmptySet DEF Attempts
<1>6. Booked(s)'
  <2>1. Logged(s, "escalated")' = {} /\ 0 <= MaxRestarts
    BY <1>4, Constants
  <2> QED
    BY <1>2, <1>5, <2>1 DEF Booked
<1>7. BackoffFollows(s)' /\ \A k \in Loops : RestartDue(k, s)'
  BY <1>2, <1>3, <1>5 DEF BackoffFollows, RestartDue, DelayAfter
<1>8. Spaced(s)'
  <2>1. worked'[s] = <<>>
    BY <1>1, WorksOnService DEF Healthy, TypeOK
  <2> QED
    BY <1>5, <2>1 DEF Spaced
<1> QED
  BY <1>6, <1>7, <1>8 DEF Story

LEMMA EscalatedStory ==
  ASSUME TypeOK, OneLoop, Stories, NEW l \in Loops, UnhealthyEscalated(l),
         NEW s \in Services, s = loop[l].service
  PROVE  Story(s)'
<1>1. loop[l].pc \in PCs \ {"ended"}
  BY DEF UnhealthyEscalated, PCs
<1>2. /\ streak' = streak /\ state'[s] = Failed(s) /\ state[s].escalated
      /\ Proceed(l, "service")
  BY <1>1 DEF UnhealthyEscalated, TypeOK
<1>3. \A k \in Loops : ~Restarting(k, s)' /\ ~Committed(k, s)'
  BY <1>1, <1>2, OnlyLoop DEF Restarting, Committed
<1>4. Booked(s) /\ Spaced(s)
  BY <1>1 DEF Stories, Story
<1>5. \A k : Logged(s, k)' = Logged(s, k)
  BY <1>2 DEF Logged
<1>6. Spaced(s)' /\ Attempts(s)' = Attempts(s)
  <2>1. worked' = worked
    BY DEF UnhealthyEscalated
  <2> QED
    BY <1>1, <1>2, <1>4, <1>5, <2>1, SpacedFrame, FailedTypes
<1>7. streak[s] # <<>>
  <2>1. Logged(s, "escalated") = {Len(streak[s])}
    BY <1>2, <1>4 DEF Booked
  <2>2. Len(streak[s]) \in 1 .. Len(streak[s])
    BY <1>1, <2>1, RestartCounts
  <2> QED
    BY <2>2, EmptySeq
<1>8. /\ state'[s].consecutive_failures # 0 /\ state'[s].escalated
  BY <1>1, <1>2, FailedTypes, FailureCounts
<1>9. Booked(s)'
  BY <1>2, <1>4, <1>5, <1>6, <1>7, <1>8 DEF Booked
<1>10. BackoffFollows(s)' /\ \A k \in Loops : RestartDue(k, s)'
  BY <1>3, <1>8 DEF BackoffFollows, RestartDue
<1> QED
  BY <1>6, <1>9, <1>10 DEF Story

LEMMA EscalateStory ==
  ASSUME TypeOK, OneLoop, Stories, NEW l \in Loops, Escalate(l),
         NEW s \in Services, s = loop[l].service
  PROVE  Story(s)'
<1> DEFINE log == DegradedLog(s, loop[l].now)
<1>1. loop[l].now \in Nat /\ loop[l].pc \in PCs \ {"ended"}
  BY WorksOnService DEF Escalate, PCs
<1>2. Booked(s) /\ Spaced(s)
  BY <1>1 DEF Stories, Story
<1>3. /\ state'[s] = [Failed(s) EXCEPT !.escalated = TRUE] /\ ~state[s].escalated
      /\ streak'[s] = Append(log, Incident("escalated", loop[l].now))
      /\ Proceed(l, "service")
  BY <1>1 DEF Escalate, TypeOK
<1>4. \A k \in Loops : ~Restarting(k, s)' /\ ~Committed(k, s)'
  BY <1>1, <1>3, OnlyLoop DEF Restarting, Committed
<1>5. /\ log \in Seq(IncidentRecord) /\ log # <<>>
      /\ KindAt(log, "degraded") = {1}
      /\ KindAt(log, "restarted") = Logged(s, "restarted")
      /\ KindAt(log, "escalated") = {}
      /\ \A i \in 1 .. Len(streak[s]) : log[i] = streak[s][i]
  <2>1. Logged(s, "escalated") = {}
    BY <1>2, <1>3 DEF Booked
  <2>2. TypeOK /\ Booked(s) /\ loop[l].now \in Nat /\ log = DegradedLog(s, loop[l].now)
    BY <1>1, <1>2
  <2> HIDE DEF log
  <2>3. log \in Seq(IncidentRecord) /\ log # <<>>
    BY <2>2, DegradedFirst
  <2>4. KindAt(log, "degraded") = {1}
    BY <2>2, DegradedFirst
  <2>5. KindAt(log, "restarted") = Logged(s, "restarted")
    BY <2>2, DegradedFirst
  <2>6. KindAt(log, "escalated") = Logged(s, "escalated")
    BY <2>2, DegradedFirst
  <2>7. \A i \in 1 .. Len(streak[s]) : log[i] = streak[s][i]
    BY <2>2, DegradedFirst
  <2> QED
    BY <2>1, <2>3, <2>4, <2>5, <2>6, <2>7
<1> HIDE DEF log
<1> DEFINE new == streak'[s]
<1>6. /\ new # <<>> /\ Len(new) = Len(log) + 1 /\ Len(log) \in Nat
      /\ \A i \in 1 .. Len(log) : new[i] = log[i]
      /\ KindAt(new, "escalated") = KindAt(log, "escalated") \cup {Len(log) + 1}
      /\ KindAt(new, "degraded") = KindAt(log, "degraded")
      /\ KindAt(new, "restarted") = KindAt(log, "restarted")
  <2>1. "escalated" \in IncidentKinds /\ Grown(log, "escalated", loop[l].now, new)
    BY <1>3 DEF IncidentKinds, Grown
  <2> HIDE DEF new
  <2>2. /\ new # <<>> /\ Len(new) = Len(log) + 1 /\ Len(log) \in Nat
        /\ \A i \in 1 .. Len(log) : new[i] = log[i]
    BY <1>1, <1>5, <2>1, AppendKinds
  <2>3. KindAt(new, "escalated") = KindAt(log, "escalated") \cup {Len(log) + 1}
    BY <1>1, <1>5, <2>1, AppendKinds
  <2>4. KindAt(new, "degraded") = KindAt(log, "degraded")
    BY <1>1, <1>5, <2>1, AppendOther
  <2>5. KindAt(new, "restarted") = KindAt(log, "restarted")
    BY <1>1, <1>5, <2>1, AppendOther
  <2> QED
    BY <2>2, <2>3, <2>4, <2>5
<1>7. /\ Logged(s, "degraded")' = {1}
      /\ Logged(s, "restarted")' = Logged(s, "restarted")
      /\ Logged(s, "escalated")' = {Len(streak'[s])}
  <2>1. \A k : Logged(s, k)' = KindAt(new, k)
    BY DEF Logged, KindAt
  <2> HIDE DEF new
  <2>2. KindAt(new, "escalated") = {Len(new)}
    BY <1>5, <1>6
  <2> QED
    BY <1>5, <1>6, <2>1, <2>2 DEF new
<1>8. \A i \in 1 .. Len(streak[s]) : streak'[s][i] = streak[s][i]
  <2>1. Len(streak[s]) <= Len(log) /\ Len(streak[s]) \in Nat
    <3>1. CASE Failed(s).consecutive_failures = 1
      <4>1. "degraded" \in IncidentKinds
        BY DEF IncidentKinds
      <4>2. Grown(streak[s], "degraded", loop[l].now, log)
        BY <3>1 DEF DegradedLog, log, Grown
      <4>3. Len(log) = Len(streak[s]) + 1
        BY <1>1, <4>1, <4>2, AppendKinds, LogTypes
      <4> QED
        BY <1>1, <4>3, LogTypes
    <3>2. CASE Failed(s).consecutive_failures # 1
      <4>1. log = streak[s]
        BY <3>2 DEF DegradedLog, log
      <4> QED
        BY <1>1, <4>1, LogTypes
    <3> QED
      BY <3>1, <3>2
  <2> QED
    BY <1>5, <1>6, <2>1
<1>9. /\ state'[s].escalated /\ state'[s].last_restart = state[s].last_restart
      /\ state'[s].consecutive_failures \in Nat \ {0}
  <2>1. Failed(s) \in StateRecord
    BY <1>1, FailedTypes
  <2>2. /\ [Failed(s) EXCEPT !.escalated = TRUE].escalated = TRUE
        /\ [Failed(s) EXCEPT !.escalated = TRUE].last_restart = Failed(s).last_restart
        /\ [Failed(s) EXCEPT !.escalated = TRUE].consecutive_failures
             = Failed(s).consecutive_failures
    BY <2>1 DEF StateRecord
  <2> QED
    BY <1>1, <1>3, <2>2, FailedTypes, FailureCounts
<1>10. Spaced(s)' /\ Attempts(s)' = Attempts(s)
  <2>1. worked' = worked
    BY DEF Escalate
  <2> QED
    BY <1>1, <1>2, <1>7, <1>8, <1>9, <2>1, SpacedFrame
<1>11. streak'[s] # <<>>
  BY <1>6, EmptySeq
<1>12. Booked(s)'
  BY <1>2, <1>7, <1>9, <1>10, <1>11 DEF Booked
<1>13. BackoffFollows(s)' /\ \A k \in Loops : RestartDue(k, s)'
  BY <1>4, <1>9 DEF BackoffFollows, RestartDue
<1> QED
  BY <1>10, <1>12, <1>13 DEF Story

-----------------------------------------------------------------------------
(* The restart.                                                            *)

LEMMA RestartStory ==
  ASSUME TypeOK, OneLoop, Stories, NEW l \in Loops, UnhealthyRestart(l),
         NEW s \in Services, s = loop[l].service
  PROVE  Story(s)'
<1> DEFINE log == DegradedLog(s, loop[l].now)
           f == state[s].consecutive_failures
<1>1. loop[l].now \in Nat /\ loop[l].pc \in PCs \ {"ended"}
  BY WorksOnService DEF UnhealthyRestart, PCs
<1>2. Story(s) /\ Booked(s) /\ Spaced(s)
  BY DEF Stories, Story
<1>3. /\ state'[s] = Failed(s) /\ ~state[s].escalated /\ backoff' = backoff
      /\ streak'[s] = log /\ Proceed(l, "restart")
      /\ Failed(s).consecutive_failures <= MaxRestarts
  <2>1. /\ state'[s] = Failed(s) /\ ~state[s].escalated /\ backoff' = backoff
        /\ streak'[s] = log /\ Proceed(l, "restart")
    BY DEF UnhealthyRestart, TypeOK
  <2>2. ~ (Failed(s).consecutive_failures > MaxRestarts)
    BY DEF UnhealthyRestart, Exceeded
  <2>3. Failed(s).consecutive_failures \in Nat
    BY FailedTypes, FailureCounts
  <2> QED
    BY <2>1, <2>2, <2>3, Constants
<1>4. /\ \A k \in Loops : ~Committed(k, s) /\ ~Committed(k, s)'
  BY <1>1, <1>3, OnlyLoop DEF Committed, UnhealthyRestart
<1>5. /\ streak'[s] # <<>>
      /\ Logged(s, "degraded")' = {1}
      /\ Logged(s, "restarted")' = Logged(s, "restarted")
      /\ Logged(s, "escalated")' = Logged(s, "escalated")
      /\ \A i \in 1 .. Len(streak[s]) : streak'[s][i] = streak[s][i]
  <2>1. /\ log \in Seq(IncidentRecord) /\ log # <<>>
        /\ KindAt(log, "degraded") = {1}
        /\ KindAt(log, "restarted") = Logged(s, "restarted")
        /\ KindAt(log, "escalated") = Logged(s, "escalated")
        /\ \A i \in 1 .. Len(streak[s]) : log[i] = streak[s][i]
    <3>1. log = DegradedLog(s, loop[l].now) /\ Booked(s) /\ loop[l].now \in Nat
      BY <1>1, <1>2
    <3> HIDE DEF log, f
    <3>2. log \in Seq(IncidentRecord) /\ log # <<>>
      BY <3>1, DegradedFirst
    <3>3. KindAt(log, "degraded") = {1}
      BY <3>1, DegradedFirst
    <3>4. KindAt(log, "restarted") = Logged(s, "restarted")
      BY <3>1, DegradedFirst
    <3>5. KindAt(log, "escalated") = Logged(s, "escalated")
      BY <3>1, DegradedFirst
    <3>6. \A i \in 1 .. Len(streak[s]) : log[i] = streak[s][i]
      BY <3>1, DegradedFirst
    <3> QED
      BY <3>2, <3>3, <3>4, <3>5, <3>6
  <2>2. \A k : Logged(s, k)' = KindAt(log, k)
    BY <1>3 DEF Logged, KindAt
  <2> HIDE DEF log
  <2> QED
    BY <1>3, <2>1, <2>2
<1>6. /\ ~state'[s].escalated /\ state'[s].last_restart = state[s].last_restart
      /\ state'[s].consecutive_failures = f + 1 /\ f \in Nat /\ f + 1 <= MaxRestarts
  <2>1. f <= MaxRestarts
    BY <1>2, <1>3 DEF Booked
  <2> QED
    BY <1>3, <2>1, FailedTypes, FailureCounts
<1>7. Spaced(s)' /\ Attempts(s)' = Attempts(s)
  <2>1. worked' = worked
    BY DEF UnhealthyRestart
  <2> QED
    BY <1>2, <1>5, <1>6, <2>1, SpacedFrame
<1>8. Attempts(s) \in Nat /\ Attempts(s) <= f /\ Attempts(s) <= MaxRestarts
  BY <1>2, <1>3, RestartCounts DEF Booked
<1> HIDE DEF f
<1>9. Booked(s)'
  <2>1. Logged(s, "escalated")' = {}
    BY <1>2, <1>3, <1>5 DEF Booked
  <2>2. state'[s].consecutive_failures # 0 /\ state'[s].consecutive_failures <= MaxRestarts
        /\ Attempts(s)' <= state'[s].consecutive_failures /\ Attempts(s)' <= MaxRestarts
    BY <1>6, <1>7, <1>8
  <2> QED
    BY <1>5, <1>6, <2>1, <2>2 DEF Booked
<1>10. \A k \in Loops : RestartDue(k, s)'
  <2>1. Attempts(s)' < state'[s].consecutive_failures
    BY <1>6, <1>7, <1>8
  <2> QED
    BY <1>6, <2>1 DEF RestartDue
<1>11. BackoffFollows(s)'
  <2>1. backoff[s] = DelayAfter(Attempts(s))
    BY <1>2, <1>3, <1>4 DEF Story, BackoffFollows
  <2> QED
    BY <1>3, <1>4, <1>7, <2>1 DEF BackoffFollows
<1> QED
  BY <1>7, <1>9, <1>10, <1>11 DEF Story

LEMMA AttemptStory ==
  ASSUME TypeOK, OneLoop, Stories, NEW l \in Loops, AttemptRestart(l),
         NEW s \in Services, s = loop[l].service
  PROVE  Story(s)'
<1>1. loop[l].now \in Nat /\ loop[l].pc = "restart" /\ loop[l].pc \in PCs \ {"ended"}
  BY WorksOnService DEF AttemptRestart, PCs
<1>2. Story(s)
  BY DEF Stories
<1>3. UNCHANGED <<state, streak, worked>>
  BY DEF AttemptRestart
<1>4. Restarting(l, s)
  BY <1>1 DEF Restarting
<1>5. CASE StillWaiting(s, loop[l].now)
  <2>1. Proceed(l, "service") /\ backoff' = backoff
    BY <1>5 DEF AttemptRestart
  <2>2. \A k \in Loops : /\ ~Restarting(k, s)'
                         /\ ~Committed(k, s)' /\ ~Committed(k, s)
    BY <1>1, <2>1, OnlyLoop DEF Restarting, Committed
  <2> QED
    BY <1>2, <1>3, <2>1, <2>2, StoryFrame
<1>6. CASE ~StillWaiting(s, loop[l].now)
  <2>1. Proceed(l, "stop") /\ backoff'[s] = NextBackoff(backoff[s])
    BY <1>6 DEF AttemptRestart, TypeOK
  <2>2. /\ \A k \in Loops \ {l} : ~Restarting(k, s)' /\ ~Committed(k, s)'
        /\ \A k \in Loops : ~Committed(k, s)
        /\ Committed(l, s)' /\ loop'[l].now = loop[l].now
    BY <1>1, <2>1, OnlyLoop DEF Restarting, Committed
  <2>3. ~state[s].escalated /\ Attempts(s) < state[s].consecutive_failures
    BY <1>2, <1>4 DEF Story, RestartDue
  <2>4. Attempts(s) \in Nat
    BY RestartCounts
  <2>5. backoff[s] = DelayAfter(Attempts(s))
    BY <1>2, <2>2, <2>3 DEF Story, BackoffFollows
  <2>6. backoff'[s] = Delay(Attempts(s) + 1)
    BY <2>1, <2>4, <2>5, DelayDoubles
  <2>7. Attempts(s) > 0 => loop[l].now - state[s].last_restart >= Delay(Attempts(s))
    <3> SUFFICES ASSUME Attempts(s) > 0
                 PROVE  loop[l].now - state[s].last_restart >= Delay(Attempts(s))
      OBVIOUS
    <3>1. backoff[s] = Delay(Attempts(s)) /\ Attempts(s) \in Nat \ {0}
      BY <2>4, <2>5 DEF DelayAfter
    <3>2. Attempts(s) \in DOMAIN worked[s] /\ state[s].last_restart = worked[s][Attempts(s)].polled
      BY <1>2, <3>1, WorkTypes DEF Story, Spaced
    <3>3. state[s].last_restart \in Nat
      BY <3>2, WorkTypes DEF WorkRecord
    <3>4. state[s].last_restart # Never
      BY <3>3 DEF Never
    <3>5. ~ (loop[l].now - state[s].last_restart < backoff[s])
      BY <1>6, <3>4 DEF StillWaiting
    <3>6. Delay(Attempts(s)) \in Nat
      BY <3>1, DelayBounds, Constants
    <3> QED
      BY <1>1, <3>1, <3>3, <3>5, <3>6
  <2>8. \A k : Logged(s, k)' = Logged(s, k)
    BY <1>3 DEF Logged
  <2>9. Attempts(s)' = Attempts(s)
    BY <2>8 DEF Attempts
  <2>10. BackoffFollows(s)'
    BY <1>3, <2>2, <2>6, <2>7, <2>9 DEF BackoffFollows
  <2>11. \A k \in Loops : RestartDue(k, s)'
    BY <1>3, <2>3, <2>9 DEF RestartDue
  <2>12. Booked(s)' /\ Spaced(s)'
    BY <1>2, <1>3, <2>8, <2>9 DEF Story, Booked, Spaced
  <2> QED
    BY <2>10, <2>11, <2>12 DEF Story
<1> QED
  BY <1>5, <1>6

LEMMA StopStory ==
  ASSUME TypeOK, OneLoop, Stories, NEW l \in Loops, BackendStop(l),
         NEW s \in Services, s = loop[l].service
  PROVE  Story(s)'
<1>1. loop[l].pc = "stop" /\ loop[l].pc \in PCs \ {"ended"} /\ Goes(l, "start")
  BY DEF BackendStop, Goes, PCs
<1>2. \A k \in Loops : /\ Restarting(k, s)' => Restarting(k, s)
                       /\ Committed(k, s)' <=> Committed(k, s)
                       /\ Committed(k, s) => loop'[k].now = loop[k].now
  BY <1>1, OnlyLoopGoes DEF Restarting, Committed
<1> QED
  BY <1>2, StoryFrame DEF Stories, BackendStop, book

LEMMA DelayIsNatural ==
  ASSUME NEW n \in Nat \ {0}
  PROVE  Delay(n) \in Nat
<1>1. Delay(n) \in BackoffBase .. BackoffMax
  BY DelayBounds
<1> QED
  BY <1>1, Constants

LEMMA GapsAdd ==
  ASSUME NEW x \in Int, NEW y \in Int, NEW z \in Int, NEW d \in Nat, NEW e \in Nat,
         z - y >= d, y - x >= e
  PROVE  z - x >= d /\ z - x >= e
OBVIOUS

LEMMA StartStory ==
  ASSUME TypeOK, OneLoop, Stories, NEW l \in Loops, BackendStart(l),
         NEW s \in Services, s = loop[l].service
  PROVE  Story(s)'
<1> DEFINE now == loop[l].now
           last == state[s].last_restart
           a == Attempts(s)
           f == state[s].consecutive_failures
           R == Logged(s, "restarted")
<1>0. PICK n \in Nat : n = Len(streak[s]) + 1
  BY LogTypes
<1>1. now \in Nat /\ loop[l].pc = "start" /\ loop[l].pc \in PCs \ {"ended"}
  BY WorksOnService DEF BackendStart, PCs
<1>2. Story(s) /\ Committed(l, s) /\ Restarting(l, s)
  BY <1>1 DEF Stories, Committed, Restarting
<1>3. /\ Proceed(l, "service") /\ backoff' = backoff
      /\ state'[s].last_restart = now
      /\ state'[s].escalated = state[s].escalated
      /\ state'[s].consecutive_failures = f
  BY DEF BackendStart, TypeOK
<1>4. \A k \in Loops : ~Restarting(k, s)' /\ ~Committed(k, s)'
  BY <1>1, <1>3, OnlyLoop DEF Restarting, Committed
<1>5. /\ ~state[s].escalated /\ a < f /\ f <= MaxRestarts
      /\ backoff[s] = Delay(a + 1)
      /\ a > 0 => now - last >= Delay(a)
  BY <1>2 DEF Story, Booked, RestartDue, BackoffFollows
<1>6. a \in Nat /\ f \in Nat /\ last \in Int
  <2>1. last \in Int
    BY DEF TypeOK, Never
  <2> QED
    BY <2>1, RestartCounts, FailureCounts
<1>7. /\ streak'[s] # <<>>
      /\ \A i \in 1 .. Len(streak[s]) : streak'[s][i] = streak[s][i]
      /\ streak'[s][n].at = now
      /\ Logged(s, "restarted")' = R \cup {n}
      /\ Logged(s, "degraded")' = Logged(s, "degraded")
      /\ Logged(s, "escalated")' = Logged(s, "escalated")
  <2> DEFINE new == streak'[s]
             log == streak[s]
  <2>1. Grown(log, "restarted", now, new) /\ log \in Seq(IncidentRecord)
        /\ "restarted" \in IncidentKinds
    BY LogTypes DEF BackendStart, Grown, TypeOK, IncidentKinds
  <2>2. \A k : Logged(s, k)' = KindAt(new, k) /\ Logged(s, k) = KindAt(log, k)
    BY DEF Logged, KindAt
  <2> HIDE DEF new, log, now
  <2>3. new # <<>> /\ \A i \in 1 .. Len(log) : new[i] = log[i]
    BY <1>1, <2>1, AppendKinds
  <2>7. new[Len(log) + 1].at = now
    BY <1>1, <2>1, AppendKinds
  <2>4. KindAt(new, "restarted") = KindAt(log, "restarted") \cup {Len(log) + 1}
    BY <1>1, <2>1, AppendKinds
  <2>5. KindAt(new, "degraded") = KindAt(log, "degraded")
    BY <1>1, <2>1, AppendOther
  <2>6. KindAt(new, "escalated") = KindAt(log, "escalated")
    BY <1>1, <2>1, AppendOther
  <2> QED
    BY <1>0, <2>2, <2>3, <2>4, <2>5, <2>6, <2>7 DEF new, log
<1>8. Attempts(s)' = a + 1
  BY <1>0, <1>7, MoreRestarts
<1>9. PICK e \in WorkRecord : e.polled = now /\ worked'[s] = Append(worked[s], e)
  <2> DEFINE e == [polled |-> now, began |-> loop[l].began, ended |-> clock]
  <2>1. e \in WorkRecord /\ e.polled = now
    BY <1>1 DEF TypeOK, WorkRecord
  <2>2. worked'[s] = Append(worked[s], e)
    BY DEF BackendStart, TypeOK
  <2> HIDE DEF e
  <2> QED
    BY <2>1, <2>2
<1>10. Spaced(s)'
  <2> DEFINE w == worked[s]
             v == worked'[s]
  <2>1. w \in Seq(WorkRecord) /\ Len(w) = a
        /\ \A i, m \in 1 .. a : i < m => w[m].polled - w[i].polled >= Delay(i)
    BY <1>2, WorkTypes DEF Story, Spaced
  <2>6. a > 0 => last = w[a].polled
    BY <1>2 DEF Story, Spaced
  <2> HIDE DEF w
  <2>2. Len(v) = a + 1 /\ v[a + 1] = e /\ DOMAIN v = 1 .. a + 1
        /\ \A i \in 1 .. a : v[i] = w[i]
    BY <1>6, <1>9, <2>1, AppendProperties DEF w
  <2> HIDE DEF v
  <2>3. ASSUME NEW i \in 1 .. a
        PROVE  now - w[i].polled >= Delay(i)
    <3>1. a \in Nat \ {0} /\ i \in Nat \ {0} /\ a > 0
      BY <1>6
    <3>2. Delay(i) \in Nat /\ Delay(a) \in Nat
      BY <3>1, DelayIsNatural
    <3>3. last = w[a].polled /\ now - last >= Delay(a) /\ a \in 1 .. a
      <4>2. a > 0 => now - last >= Delay(a)
        BY <1>5
      <4> HIDE DEF a, last, now
      <4> QED
        BY <2>6, <3>1, <4>2
    <3>4. w[i].polled \in Nat
      <4>1. w[i] \in WorkRecord
        BY <2>1, ElementOfSeq
      <4> QED
        BY <4>1 DEF WorkRecord
    <3> HIDE DEF now, last, a
    <3>5. CASE i = a
      BY <3>3, <3>5
    <3>6. CASE i # a
      <4>1. i < a
        BY <3>1, <3>6
      <4>2. last - w[i].polled >= Delay(i)
        BY <2>1, <3>3, <4>1
      <4> QED
        BY <1>1, <1>6, <3>2, <3>3, <3>4, <4>2, GapsAdd
    <3> QED
      BY <3>5, <3>6
  <2>4. ASSUME NEW i \in 1 .. a + 1, NEW m \in 1 .. a + 1, i < m
        PROVE  v[m].polled - v[i].polled >= Delay(i)
    <3>1. i \in 1 .. a /\ v[i] = w[i]
      BY <1>6, <2>2, <2>4
    <3>2. CASE m = a + 1
      BY <1>9, <2>2, <2>3, <3>1, <3>2
    <3>3. CASE m # a + 1
      <4>1. m \in 1 .. a
        BY <1>6, <3>3
      <4> QED
        BY <2>1, <2>2, <2>4, <3>1, <4>1
    <3> QED
      BY <3>2, <3>3
  <2>5. state'[s].last_restart = v[a + 1].polled
    BY <1>3, <1>9, <2>2
  <2> QED
    BY <1>8, <2>2, <2>4, <2>5 DEF Spaced, v
<1>11. Booked(s)'
  <2>1. Logged(s, "degraded")' = {1} /\ Logged(s, "escalated")' = {}
    BY <1>2, <1>5, <1>6, <1>7 DEF Story, Booked
  <2>2. f # 0 /\ a + 1 <= f /\ a + 1 <= MaxRestarts
    BY <1>5, <1>6, Constants
  <2> HIDE DEF a, f
  <2> QED
    BY <1>3, <1>5, <1>7, <1>8, <2>1, <2>2 DEF Booked
<1>12. BackoffFollows(s)' /\ \A k \in Loops : RestartDue(k, s)'
  <2>1. backoff'[s] = DelayAfter(Attempts(s)')
    BY <1>3, <1>5, <1>6, <1>8 DEF DelayAfter
  <2> QED
    BY <1>4, <2>1 DEF BackoffFollows, RestartDue
<1> QED
  BY <1>10, <1>11, <1>12 DEF Story

-----------------------------------------------------------------------------
(* The theorems.                                                           *)

LEMMA StepStories ==
  ASSUME TypeOK, OneLoop, Stories, [Next]_vars
  PROVE  Stories'
<1>1. ASSUME NEW l \in Loops, LoopStep(l)
      PROVE  Stories'
  <2>1. CASE Cycle(l) \/ (\E s \in Services : PollService(l, s)) \/ CycleEnd(l)
    BY <2>1, WalkStories
  <2>2. CASE \/ Healthy(l) \/ UnhealthyEscalated(l) \/ UnhealthyRestart(l) \/ Escalate(l)
             \/ AttemptRestart(l) \/ BackendStop(l) \/ BackendStart(l)
    <3> SUFFICES ASSUME NEW s \in Services
                 PROVE  Story(s)'
      BY DEF Stories
    <3>1. CASE s = loop[l].service
      BY <2>2, <3>1, HealthyStory, EscalatedStory, RestartStory, EscalateStory,
         AttemptStory, StopStory, StartStory
    <3>2. CASE s # loop[l].service
      <4>1. /\ state'[s] = state[s] /\ streak'[s] = streak[s] /\ backoff'[s] = backoff[s]
            /\ worked'[s] = worked[s]
        <5>1. CASE Healthy(l)
          BY <3>2, <5>1 DEF Healthy, TypeOK
        <5>2. CASE UnhealthyEscalated(l)
          BY <3>2, <5>2 DEF UnhealthyEscalated, TypeOK
        <5>3. CASE UnhealthyRestart(l)
          BY <3>2, <5>3 DEF UnhealthyRestart, TypeOK
        <5>4. CASE Escalate(l)
          BY <3>2, <5>4 DEF Escalate, TypeOK
        <5>5. CASE AttemptRestart(l)
          BY <3>2, <5>5 DEF AttemptRestart, TypeOK
        <5>6. CASE BackendStop(l)
          BY <3>2, <5>6 DEF BackendStop, TypeOK, book
        <5>7. CASE BackendStart(l)
          BY <3>2, <5>7 DEF BackendStart, TypeOK
        <5> QED
          BY <2>2, <5>1, <5>2, <5>3, <5>4, <5>5, <5>6, <5>7
      <4>2. loop[l].pc \in PCs \ {"ended"} /\ \E place : Goes(l, place)
        BY <2>2 DEF Healthy, UnhealthyEscalated, UnhealthyRestart, Escalate,
                    AttemptRestart, BackendStop, BackendStart, PCs, Goes
      <4> QED
        BY <3>2, <4>1, <4>2, OtherServices
    <3> QED
      BY <3>1, <3>2
  <2> QED
    BY <1>1, <2>1, <2>2 DEF LoopStep
<1>2. CASE \/ Start \/ StopBegin \/ StopEnd
           \/ \E s \in Services : Fail(s) \/ Recover(s)
           \/ Tick
  BY <1>2, OutsideStories
<1>3. CASE UNCHANGED vars
  BY <1>3, QuietStories DEF vars, book
<1> QED
  BY <1>1, <1>2, <1>3 DEF Next

\* The inductive invariant, when no loop outlives its stop().
THEOREM StoriesInvariance == Spec /\ []OneLoop => []Stories
<1>1. Spec => []TypeOK
  BY SupervisionTypes
<1>2. TypeOK /\ OneLoop /\ Stories /\ [Next]_vars => Stories'
  BY StepStories
<1> QED
  BY <1>1, <1>2, InitStories, PTL DEF Spec

\* Unless loops overlap, every streak of failures has its story: one degraded
\* incident, at most MaxRestarts restarts, at most one escalation, the last.
THEOREM StoryHolds == Spec /\ []OneLoop => []StreakStory
<1>1. ASSUME TypeOK, Stories
      PROVE  StreakStory
  <2> SUFFICES ASSUME NEW s \in Services
               PROVE  /\ streak[s] # <<>> => Logged(s, "degraded") = {1}
                      /\ Cardinality(Logged(s, "restarted")) <= MaxRestarts
                      /\ Logged(s, "escalated") \subseteq {Len(streak[s])}
                      /\ state[s].escalated <=> Logged(s, "escalated") # {}
    BY DEF StreakStory
  <2>1. Booked(s)
    BY <1>1 DEF Stories, Story
  <2> QED
    BY <2>1 DEF Booked, Attempts
<1>2. Spec => []TypeOK
  BY SupervisionTypes
<1> QED
  BY <1>1, <1>2, StoriesInvariance, PTL

\* The instants of the restarts are in order, for what one loop does.
LEMMA TimesFrame ==
  ASSUME TypeOK, NEW s \in Services, Timed(s), worked'[s] = worked[s],
         clock' \in Nat, clock' >= clock,
         \A k \in Loops : Working(k, s)' =>
           /\ Working(k, s) /\ loop'[k].now = loop[k].now
           /\ loop'[k].pc = "start" => loop[k].pc = "start" /\ loop'[k].began = loop[k].began
  PROVE  Timed(s)'
<1>1. clock \in Nat /\ \A n \in DOMAIN worked[s] : worked[s][n] \in WorkRecord
  BY WorkTypes DEF TypeOK
<1>2. \A k \in Loops : loop[k].now \in Nat /\ loop[k].began \in Nat
  BY DEF TypeOK
<1> QED
  BY <1>1, <1>2 DEF Timed, WorkRecord

\* The poll of a service begins.
LEMMA PollTimes ==
  ASSUME TypeOK, OneLoop, Timings, NEW l \in Loops, NEW t \in Services, PollService(l, t)
  PROVE  Timings'
<1> SUFFICES ASSUME NEW s \in Services
             PROVE  Timed(s)'
  BY DEF Timings
<1>1. loop \in [Loops -> LoopRecord] /\ loop[l].pc = "service" /\ Timed(s)
  BY DEF TypeOK, LoopRecord, PollService, Timings
<1>2. worked' = worked /\ clock' = clock /\ clock \in Nat
  BY DEF PollService, book, TypeOK
<1>3. \A k \in Loops \ {l} : loop'[k].pc = "ended"
  BY <1>1 DEF OneLoop, PollService
<1>4. CASE ~Working(l, s)'
  BY <1>1, <1>2, <1>3, <1>4, TimesFrame DEF Working
<1>5. CASE Working(l, s)'
  <2>1. loop'[l].now = clock /\ loop'[l].pc = "health"
    BY <1>1, <1>5 DEF PollService, Working, EndedLoop, LoopRecord
  <2>2. \A k \in Loops : Working(k, s)' => k = l
    BY <1>3 DEF Working
  <2> QED
    BY <1>1, <1>2, <2>1, <2>2 DEF Timed
<1> QED
  BY <1>4, <1>5

\* backend.stop is called.
LEMMA StopTimes ==
  ASSUME TypeOK, OneLoop, Timings, NEW l \in Loops, BackendStop(l)
  PROVE  Timings'
<1> SUFFICES ASSUME NEW s \in Services
             PROVE  Timed(s)'
  BY DEF Timings
<1>1. loop \in [Loops -> LoopRecord] /\ loop[l].pc = "stop" /\ Timed(s)
  BY DEF TypeOK, LoopRecord, BackendStop, Timings
<1>2. worked' = worked /\ clock' = clock /\ clock \in Nat
  BY DEF BackendStop, book, TypeOK
<1>3. \A k \in Loops \ {l} : loop'[k] = loop[k] /\ loop[k].pc = "ended"
  BY <1>1 DEF OneLoop, BackendStop
<1>4. /\ loop'[l].pc = "start" /\ loop'[l].service = loop[l].service
      /\ loop'[l].now = loop[l].now /\ loop'[l].began = clock
  BY <1>1 DEF BackendStop, LoopRecord
<1>5. \A k \in Loops : Working(k, s)' => k = l /\ Working(l, s)
  BY <1>1, <1>3, <1>4 DEF Working
<1> QED
  BY <1>1, <1>2, <1>4, <1>5 DEF Timed

\* The restart is over and on record.
LEMMA StartTimes ==
  ASSUME TypeOK, OneLoop, Timings, NEW l \in Loops, BackendStart(l)
  PROVE  Timings'
<1> SUFFICES ASSUME NEW s \in Services
             PROVE  Timed(s)'
  BY DEF Timings
<1>1. loop \in [Loops -> LoopRecord] /\ loop[l].pc = "start" /\ Timed(s)
  BY DEF TypeOK, LoopRecord, BackendStart, Timings
<1>2. clock' = clock /\ clock \in Nat /\ loop[l].service \in Services
  BY <1>1, WorksOnService DEF BackendStart, TypeOK
<1>3. \A k \in Loops : ~Working(k, s)'
  BY <1>1 DEF OneLoop, BackendStart, Proceed, Working, LoopRecord
<1>4. CASE s # loop[l].service
  <2>1. worked'[s] = worked[s]
    BY <1>4 DEF BackendStart, TypeOK
  <2> QED
    BY <1>1, <1>2, <1>3, <2>1, TimesFrame
<1>5. CASE s = loop[l].service
  <2> DEFINE w == worked[s]
             v == worked'[s]
             e == [polled |-> loop[l].now, began |-> loop[l].began, ended |-> clock]
  <2>1. /\ e \in WorkRecord /\ e.polled <= e.began /\ e.began <= e.ended /\ e.ended <= clock
        /\ \A n \in DOMAIN w : w[n].ended <= e.polled
    <3>1. Working(l, s)
      BY <1>1, <1>5 DEF Working
    <3> QED
      BY <1>1, <1>2, <3>1 DEF Timed, WorkRecord, LoopRecord
  <2>2. v = Append(w, e) /\ w \in Seq(WorkRecord)
    BY <1>5, WorkTypes DEF BackendStart, TypeOK
  <2>3. /\ \A n \in DOMAIN w : /\ w[n].polled <= w[n].began /\ w[n].began <= w[n].ended
                               /\ w[n].ended <= clock
        /\ \A n, m \in DOMAIN w : n < m => w[n].ended <= w[m].polled
    BY <1>1 DEF Timed
  <2> HIDE DEF e, w, v
  <2>4. PICK a \in Nat : a = Len(w) /\ DOMAIN w = 1 .. a
    BY <2>2, LenProperties
  <2>5. DOMAIN v = 1 .. a + 1 /\ v[a + 1] = e /\ \A i \in 1 .. a : v[i] = w[i]
    BY <2>1, <2>2, <2>4, AppendProperties
  <2>6. \A n \in DOMAIN v : /\ v[n].polled <= v[n].began /\ v[n].began <= v[n].ended
                            /\ v[n].ended <= clock
    BY <2>1, <2>3, <2>4, <2>5
  <2>7. \A n, m \in DOMAIN v : n < m => v[n].ended <= v[m].polled
    <3> SUFFICES ASSUME NEW n \in 1 .. a + 1, NEW m \in 1 .. a + 1, n < m
                 PROVE  v[n].ended <= v[m].polled
      BY <2>5
    <3>1. n \in 1 .. a
      BY <2>4
    <3>2. CASE m = a + 1
      BY <2>1, <2>4, <2>5, <3>1, <3>2
    <3>3. CASE m # a + 1
      BY <2>3, <2>4, <2>5, <3>1, <3>3
    <3> QED
      BY <3>2, <3>3
  <2> QED
    BY <1>2, <1>3, <2>6, <2>7 DEF Timed, v
<1> QED
  BY <1>4, <1>5

LEMMA StepTimes ==
  ASSUME TypeOK, OneLoop, Timings, [Next]_vars
  PROVE  Timings'
<1>1. loop \in [Loops -> LoopRecord] /\ clock \in Nat /\ \A s \in Services : Timed(s)
  BY DEF TypeOK, LoopRecord, Timings
<1>2. ASSUME UNCHANGED worked, clock' \in Nat, clock' >= clock,
             \A k \in Loops : loop'[k].pc \in {"health", "restart", "stop", "start"} =>
               /\ loop[k].pc \in {"health", "restart", "stop", "start"}
               /\ loop'[k].service = loop[k].service /\ loop'[k].now = loop[k].now
               /\ loop'[k].pc = "start" => loop[k].pc = "start" /\ loop'[k].began = loop[k].began
      PROVE  Timings'
  <2> SUFFICES ASSUME NEW s \in Services
               PROVE  Timed(s)'
    BY DEF Timings
  <2> QED
    BY <1>1, <1>2, TimesFrame DEF Working
<1>3. ASSUME NEW l \in Loops, Healthy(l)
      PROVE  Timings'
  <2> SUFFICES ASSUME NEW s \in Services
               PROVE  Timed(s)'
    BY DEF Timings
  <2>1. clock' = clock /\ (worked'[s] = worked[s] \/ worked'[s] = <<>>)
    BY <1>3 DEF Healthy, TypeOK
  <2>2. \A k \in Loops : Working(k, s)' => Working(k, s) /\ loop'[k] = loop[k]
    BY <1>1, <1>3 DEF Healthy, Proceed, Working, LoopRecord
  <2>3. CASE worked'[s] = worked[s]
    BY <1>1, <2>1, <2>2, <2>3, TimesFrame
  <2>4. CASE worked'[s] = <<>>
    BY <1>1, <2>1, <2>2, <2>4 DEF Timed, Working
  <2> QED
    BY <2>1, <2>3, <2>4
<1>4. ASSUME NEW l \in Loops, NEW place \in {"service", "restart", "stop"}, Proceed(l, place),
             loop[l].pc \in {"health", "restart"}, UNCHANGED <<worked, clock>>
      PROVE  Timings'
  <2>1. \A k \in Loops : loop'[k].pc \in {"health", "restart", "stop", "start"} =>
               /\ loop[k].pc \in {"health", "restart", "stop", "start"}
               /\ loop'[k].service = loop[k].service /\ loop'[k].now = loop[k].now
               /\ loop'[k].pc = "start" => loop[k].pc = "start" /\ loop'[k].began = loop[k].began
    BY <1>1, <1>4 DEF Proceed, LoopRecord
  <2> QED
    BY <1>1, <1>2, <1>4, <2>1
<1>5. ASSUME NEW l \in Loops,
             \/ UnhealthyEscalated(l) \/ UnhealthyRestart(l) \/ Escalate(l)
             \/ AttemptRestart(l)
      PROVE  Timings'
  BY <1>4, <1>5 DEF UnhealthyEscalated, UnhealthyRestart, Escalate, AttemptRestart
<1>6. ASSUME NEW l \in Loops, Cycle(l) \/ CycleEnd(l)
      PROVE  Timings'
  <2>1. UNCHANGED <<worked, clock>>
    BY <1>6 DEF Cycle, CycleEnd, book
  <2>2. /\ \A k \in Loops \ {l} : loop'[k] = loop[k]
        /\ loop'[l].pc \in {"ended", "service", "cycle"}
    <3>1. CASE Cycle(l)
      <4>1. CASE stopEvent
        BY <1>1, <3>1, <4>1 DEF Cycle, EndedLoop
      <4>2. CASE ~stopEvent
        BY <1>1, <3>1, <4>2 DEF Cycle, LoopRecord
      <4> QED
        BY <4>1, <4>2
    <3>2. CASE CycleEnd(l)
      BY <1>1, <3>2 DEF CycleEnd, LoopRecord
    <3> QED
      BY <1>6, <3>1, <3>2
  <2> QED
    BY <1>1, <1>2, <2>1, <2>2
<1>7. CASE \/ Start \/ StopBegin \/ StopEnd
           \/ \E s \in Services : Fail(s) \/ Recover(s)
           \/ Tick
  <2>1. UNCHANGED worked /\ clock' \in Nat /\ clock' >= clock
    BY <1>1, <1>7 DEF Start, StopBegin, StopEnd, Fail, Recover, Tick, book
  <2>2. \A k \in Loops : loop'[k] = loop[k] \/ loop'[k].pc = "cycle"
    BY <1>1, <1>7 DEF Start, StopBegin, StopEnd, Fail, Recover, Tick, LoopRecord
  <2> QED
    BY <1>2, <2>1, <2>2
<1>8. CASE UNCHANGED vars
  BY <1>1, <1>2, <1>8 DEF vars, book
<1> QED
  BY <1>3, <1>4, <1>5, <1>6, <1>7, <1>8, PollTimes, StopTimes, StartTimes DEF Next, LoopStep

THEOREM TimingsInvariance == Spec /\ []OneLoop => []Timings
<1>1. Spec => []TypeOK
  BY SupervisionTypes
<1>2. Init => Timings
  BY DEF Init, Timings, Timed, Working, EndedLoop
<1>3. TypeOK /\ OneLoop /\ Timings /\ [Next]_vars => Timings'
  BY StepTimes
<1> QED
  BY <1>1, <1>2, <1>3, PTL DEF Spec

\* The delays between the polls become delays between the restarts themselves.
LEMMA RealSpacing ==
  ASSUME TypeOK, Stories, Timings
  PROVE  RestartsSpaced
<1> SUFFICES ASSUME NEW s \in Services, NEW n \in DOMAIN worked[s], NEW m \in DOMAIN worked[s],
                    n < m
             PROVE  /\ worked[s][m].began >= worked[s][n].ended
                    /\ worked[s][m].began - worked[s][n].polled >= Delay(n)
                    /\ \A k \in DOMAIN worked[s] :
                         n < k /\ k < m => worked[s][m].began - worked[s][n].ended >= Delay(k)
  BY DEF RestartsSpaced
<1> DEFINE w == worked[s]
<1>1. DOMAIN w \subseteq Nat \ {0} /\ \A i \in DOMAIN w : w[i] \in WorkRecord
  BY WorkTypes
<1>2. /\ \A i \in DOMAIN w : w[i].polled <= w[i].began
      /\ \A i, j \in DOMAIN w : i < j => w[i].ended <= w[j].polled
      /\ \A i, j \in DOMAIN w : i < j => w[j].polled - w[i].polled >= Delay(i)
  BY DEF Timings, Timed, Stories, Story, Spaced
<1>3. \A i \in DOMAIN w : Delay(i) \in Nat
  BY <1>1, DelayIsNatural
<1> HIDE DEF w
<1>4. w[m].began >= w[n].ended
  BY <1>1, <1>2 DEF WorkRecord, w
<1>5. w[m].began - w[n].polled >= Delay(n)
  BY <1>1, <1>2, <1>3 DEF WorkRecord, w
<1>6. ASSUME NEW k \in DOMAIN w, n < k, k < m
      PROVE  w[m].began - w[n].ended >= Delay(k)
  BY <1>1, <1>2, <1>3, <1>6 DEF WorkRecord, w
<1> QED
  BY <1>4, <1>5, <1>6 DEF w

\* RestartsSpaced, unless loops overlap, for any services and policy: in the
\* instants at which the restarts of a streak are at work (_attempt_restart), each
\* begins after those before it, at least the n-th documented delay after the poll
\* that made the n-th, and from the end of one to the beginning of the next but one
\* and later ones there lie the delays of all between.
THEOREM RestartsBackOff == Spec /\ []OneLoop => []RestartsSpaced
<1>1. Spec => []TypeOK
  BY SupervisionTypes
<1> QED
  BY <1>1, RealSpacing, StoriesInvariance, TimingsInvariance, PTL

=============================================================================
