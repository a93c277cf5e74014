---------------------------- MODULE SendingProofs ----------------------------
(***************************************************************************)
(* Proofs about RetryingSend, for any messages, senders, principals, rates *)
(* and retry policies: the limit holds over every window, outcomes are     *)
(* true, attempts back off, and the order of a sender survives late posts. *)
(***************************************************************************)
EXTENDS RetryingSend, FiniteSetTheorems, SequenceTheorems, WellFoundedInduction, TLAPS

-----------------------------------------------------------------------------
(* Minima.                                                                 *)

LEMMA MinOfTwo ==
  ASSUME NEW a \in Int, NEW b \in Int
  PROVE  Min({a, b}) = IF a <= b THEN a ELSE b
BY DEF Min

\* A set of naturals that is not empty has a minimum.
LEMMA MinOfNaturals ==
  ASSUME NEW S \in SUBSET Nat, S # {}
  PROVE  Min(S) \in S /\ \A y \in S : Min(S) <= y
<1>1. PICK n \in S : TRUE
  OBVIOUS
<1> DEFINE Below == {0 .. k : k \in {j \in S : j <= n}}
           R == StrictSubsetOrdering(0 .. n)
<1>2. Below \subseteq SUBSET (0 .. n) /\ Below # {}
  OBVIOUS
<1>3. IsWellFoundedOn(R, SUBSET (0 .. n))
  <2>1. IsFiniteSet(0 .. n)
    BY FS_Interval
  <2>2. FiniteSubsetsOf(0 .. n) = SUBSET (0 .. n)
    BY <2>1, FS_FiniteSubsetsOfFinite
  <2>3. IsWellFoundedOn(StrictSubsetOrdering(0 .. n), FiniteSubsetsOf(0 .. n))
    BY FS_StrictSubsetOrderingWellFounded
  <2> QED
    BY <2>2, <2>3
<1>4. PICK X \in Below : \A Y \in Below : ~ (<<Y, X>> \in R)
  <2> HIDE DEF Below, R
  <2> QED
    BY <1>2, <1>3, WFMin
<1>5. PICK x \in S : x <= n /\ X = 0 .. x
  BY <1>4
<1>6. ASSUME NEW y \in S
      PROVE  x <= y
  <2>1. SUFFICES ASSUME y < x PROVE FALSE
    BY <1>5
  <2>2. 0 .. y \in Below
    BY <1>5, <2>1
  <2>3. 0 .. y \subseteq 0 .. x /\ x \in 0 .. x /\ x \notin 0 .. y
    BY <1>5, <2>1
  <2>4. <<0 .. y, X>> \in R
    BY <1>2, <1>4, <1>5, <2>2, <2>3 DEF StrictSubsetOrdering
  <2> QED
    BY <1>4, <2>2, <2>4
<1> QED
  BY <1>6 DEF Min

-----------------------------------------------------------------------------
(* Types.                                                                  *)

Tries == [began : Nat, failed : Int]

\* The types of all variables, the histories included.
TypeInv ==
  /\ stage \in [Messages -> Stages]
  /\ attempt \in [Messages -> 0 .. MaxAttempts]
  /\ wake \in [Messages -> Nat]
  /\ answer \in [Messages -> {0, NoAnswer, 202, 204, 404, 429, 502}]
  /\ network \subseteq Posts
  /\ buckets \in [Principals -> [tokens : 0 .. Capacity, last_refill : 0 .. clock]]
  /\ recipient \in Recipients
  /\ reached \in Seq(Messages)
  /\ clock \in 0 .. MaxClock /\ failures \in 0 .. MaxFailures
  /\ admitted \in [Principals -> Seq(Nat)]
  /\ tried \in [Messages -> Seq(Tries)]

LEMMA Numbers ==
  /\ Capacity \in Nat /\ Cost \in Nat \ {0}
  /\ RateNum \in Nat /\ Limited \in BOOLEAN
BY SendAssumption DEF Capacity, Cost, Limited

LEMMA DelayIsNatural ==
  ASSUME NEW k \in 1 .. MaxAttempts
  PROVE  DelayFor(k) \in Nat
<1>1. Factor ^ (k - 1) \in Nat /\ BaseDelay \in Nat /\ MaxDelay \in Nat
  BY PowerAssumption, SendAssumption
<1>2. BaseDelay * Factor ^ (k - 1) \in Nat
  BY <1>1
<1> QED
  BY <1>1, <1>2, MinOfTwo DEF DelayFor

\* The refill of a bucket.
LEMMA RefillBounds ==
  ASSUME TypeInv, NEW p \in Principals
  PROVE  /\ Refilled(p) \in 0 .. Capacity
         /\ Refilled(p) <= buckets[p].tokens + (clock - buckets[p].last_refill) * RateNum
<1> DEFINE gain == (clock - buckets[p].last_refill) * RateNum
<1>1. clock - buckets[p].last_refill \in Nat /\ buckets[p].tokens \in 0 .. Capacity
  BY DEF TypeInv
<1>2. gain \in Nat
  BY <1>1, Numbers
<1> HIDE DEF gain
<1>3. Refilled(p) = Min({Capacity, buckets[p].tokens + gain})
  BY DEF Refilled, gain
<1>4. Refilled(p) \in 0 .. Capacity /\ Refilled(p) <= buckets[p].tokens + gain
  BY <1>1, <1>2, <1>3, Numbers, MinOfTwo
<1> QED
  BY <1>4 DEF gain

\* A request of principal p is let through or not; both keep the types.
LEMMA ConsumeTypes ==
  ASSUME TypeInv, NEW p \in Principals, Consume(p), clock' = clock
  PROVE  /\ buckets' \in [Principals -> [tokens : 0 .. Capacity, last_refill : 0 .. clock]]
         /\ admitted' \in [Principals -> Seq(Nat)]
<1>1. Refilled(p) \in 0 .. Capacity /\ clock \in Nat
  BY RefillBounds DEF TypeInv
<1>2. admitted' \in [Principals -> Seq(Nat)]
  BY <1>1 DEF TypeInv, Consume
<1>3. CASE Limited
  <2>1. Refilled(p) - (IF Allowed(p) THEN Cost ELSE 0) \in 0 .. Capacity
    BY <1>1, <1>3, Numbers DEF Allowed
  <2>2. buckets' = [buckets EXCEPT ![p] =
                      [tokens |-> Refilled(p) - (IF Allowed(p) THEN Cost ELSE 0),
                       last_refill |-> clock]]
    BY <1>3 DEF Consume
  <2>3. clock \in 0 .. clock
    BY <1>1
  <2> QED
    BY <1>2, <2>1, <2>2, <2>3 DEF TypeInv
<1>4. CASE ~Limited
  BY <1>2, <1>4 DEF Consume, TypeInv
<1> QED
  BY <1>3, <1>4

-----------------------------------------------------------------------------
(* The token bucket.                                                       *)

\* Every request since the i-th has been paid from a full bucket and what was
\* refilled since.
Paid ==
  Limited => \A p \in Principals : \A i \in DOMAIN admitted[p] :
    /\ admitted[p][i] <= buckets[p].last_refill
    /\ (Len(admitted[p]) - i + 1) * Cost + buckets[p].tokens
         <= Capacity + (buckets[p].last_refill - admitted[p][i]) * RateNum

BucketInv == Paid /\ Allowance

LEMMA Distribute ==
  ASSUME NEW a \in Int, NEW b \in Int, NEW r \in Int
  PROVE  /\ (a + b) * r = a * r + b * r
         /\ a * r \in Int /\ b * r \in Int /\ (a + b) * r \in Int
OBVIOUS

\* What k requests and the tokens that were left come to, after a refill ...
LEMMA PaidAfterRefill ==
  ASSUME NEW k \in Int, NEW cost \in Int, NEW tokens \in Int, NEW limit \in Int,
         NEW rate \in Int, NEW since \in Int, NEW last \in Int, NEW now \in Int,
         NEW refilled \in Int, refilled <= tokens + (now - last) * rate,
         k * cost + tokens <= limit + (last - since) * rate
  PROVE  k * cost + refilled <= limit + (now - since) * rate
<1>1. now - since = (now - last) + (last - since)
  OBVIOUS
<1>2. /\ (now - since) * rate = (now - last) * rate + (last - since) * rate
      /\ (now - last) * rate \in Int /\ (last - since) * rate \in Int
  BY <1>1, Distribute
<1>3. k * cost \in Int
  OBVIOUS
<1> QED
  BY <1>2, <1>3

\* ... and after one more request.
LEMMA PaidAfterRequest ==
  ASSUME NEW k \in Int, NEW cost \in Int, NEW tokens \in Int, NEW bound \in Int,
         k * cost + tokens <= bound
  PROVE  (k + 1) * cost + (tokens - cost) <= bound
<1>1. (k + 1) * cost = k * cost + 1 * cost /\ k * cost \in Int
  BY Distribute
<1> QED
  BY <1>1

LEMMA ConsumePays ==
  ASSUME TypeInv, BucketInv, NEW p \in Principals, Consume(p), clock' = clock
  PROVE  BucketInv'
<1>1. CASE ~Limited
  BY <1>1 DEF BucketInv, Paid, Allowance, Limited
<1>2. CASE Limited
  <2> DEFINE past == admitted[p]
             left == Refilled(p) - (IF Allowed(p) THEN Cost ELSE 0)
             since(i) == Len(past) - i + 1
             limit(i) == Capacity + (clock - past[i]) * RateNum
  <2>1. /\ buckets' = [buckets EXCEPT ![p] = [tokens |-> left, last_refill |-> clock]]
        /\ admitted' = IF Allowed(p) THEN [admitted EXCEPT ![p] = Append(@, clock)] ELSE admitted
    BY <1>2 DEF Consume
  <2>2. /\ past \in Seq(Nat) /\ clock \in Nat /\ Refilled(p) \in 0 .. Capacity
        /\ buckets[p].tokens \in Nat /\ buckets[p].last_refill \in 0 .. clock
        /\ Refilled(p) <= buckets[p].tokens + (clock - buckets[p].last_refill) * RateNum
    BY RefillBounds DEF TypeInv
  <2>3. /\ buckets'[p].tokens = left /\ buckets'[p].last_refill = clock
        /\ \A q \in Principals \ {p} : buckets'[q] = buckets[q] /\ admitted'[q] = admitted[q]
        /\ ~Allowed(p) => admitted'[p] = past
        /\ Allowed(p) => admitted'[p] = Append(past, clock)
    BY <2>1 DEF TypeInv
  <2>4. left \in Nat /\ left <= Capacity
    BY <1>2, <2>2, Numbers DEF Allowed
  <2>5. ASSUME NEW i \in DOMAIN past
        PROVE  /\ past[i] \in Nat /\ past[i] <= clock
               /\ since(i) \in Int /\ limit(i) \in Int
               /\ since(i) * Cost + Refilled(p) <= limit(i)
    <3>1. /\ past[i] \in Nat /\ past[i] <= buckets[p].last_refill /\ since(i) \in Int
          /\ since(i) * Cost + buckets[p].tokens
               <= Capacity + (buckets[p].last_refill - past[i]) * RateNum
      <4>1. /\ past[i] <= buckets[p].last_refill
            /\ since(i) * Cost + buckets[p].tokens
                 <= Capacity + (buckets[p].last_refill - past[i]) * RateNum
        BY <1>2 DEF BucketInv, Paid
      <4>2. past[i] \in Nat /\ since(i) \in Int
        BY <2>2
      <4> QED
        BY <4>1, <4>2
    <3>2. limit(i) \in Int
      <4>1. clock - past[i] \in Int
        BY <2>2, <3>1
      <4> QED
        BY <4>1, Numbers
    <3>3. /\ Cost \in Int /\ buckets[p].tokens \in Int /\ Capacity \in Int /\ RateNum \in Int
          /\ past[i] \in Int /\ buckets[p].last_refill \in Int /\ clock \in Int
          /\ Refilled(p) \in Int
      <4>1. Cost \in Int /\ Capacity \in Int /\ RateNum \in Int
        BY Numbers
      <4>2. past[i] \in Int
        BY <3>1
      <4> QED
        BY <2>2, <4>1, <4>2
    <3> HIDE DEF since
    <3>4. since(i) * Cost + Refilled(p) <= limit(i)
      BY <2>2, <3>1, <3>3, PaidAfterRefill
    <3> QED
      BY <2>2, <3>1, <3>2, <3>4
  <2>6. ASSUME NEW i \in DOMAIN past
        PROVE  /\ ~Allowed(p) => since(i) * Cost + left <= limit(i)
               /\ Allowed(p) => (since(i) + 1) * Cost + left <= limit(i)
    <3>1. /\ since(i) \in Int /\ limit(i) \in Int /\ Refilled(p) \in Int /\ Cost \in Int
          /\ since(i) * Cost + Refilled(p) <= limit(i)
      BY <2>2, <2>5, Numbers
    <3>2. CASE ~Allowed(p)
      <4>1. left = Refilled(p)
        BY <3>1, <3>2
      <4> QED
        BY <3>1, <3>2, <4>1
    <3>3. CASE Allowed(p)
      <4>1. left = Refilled(p) - Cost
        BY <3>3
      <4> HIDE DEF since, limit, left
      <4>2. (since(i) + 1) * Cost + (Refilled(p) - Cost) <= limit(i)
        BY <3>1, PaidAfterRequest
      <4> QED
        BY <3>3, <4>1, <4>2
    <3> QED
      BY <3>2, <3>3
  <2> HIDE DEF left, limit
  <2>7. ASSUME ~Allowed(p)
        PROVE  BucketInv'
    <3>1. admitted'[p] = past
      BY <2>3, <2>7
    <3>2. \A i \in DOMAIN past : since(i) * Cost + left <= Capacity + (clock - past[i]) * RateNum
      BY <2>6, <2>7 DEF limit
    <3>3. Paid'
      BY <1>2, <2>3, <2>5, <3>1, <3>2 DEF BucketInv, Paid, Limited
    <3>4. Allowance'
      BY <1>2, <2>3, <3>1 DEF BucketInv, Allowance, Limited
    <3> QED
      BY <3>3, <3>4 DEF BucketInv
  <2>8. ASSUME Allowed(p)
        PROVE  BucketInv'
    <3> DEFINE now == Append(past, clock)
               n == Len(past)
    <3>1. /\ admitted'[p] = now /\ n \in Nat /\ Len(now) = n + 1 /\ DOMAIN now = 1 .. n + 1
          /\ DOMAIN past = 1 .. n /\ now[n + 1] = clock /\ \A i \in 1 .. n : now[i] = past[i]
      BY <2>2, <2>3, <2>8
    <3> HIDE DEF now, n
    <3>2. ASSUME NEW i \in 1 .. n
          PROVE  /\ now[i] \in Nat /\ now[i] <= clock
                 /\ ((n + 1) - i + 1) * Cost + left <= Capacity + (clock - now[i]) * RateNum
      <4>1. (n + 1) - i + 1 = since(i) + 1
        BY <3>1 DEF n
      <4>2. (since(i) + 1) * Cost + left <= limit(i)
        BY <2>6, <2>8, <3>1
      <4> QED
        BY <2>5, <3>1, <4>1, <4>2 DEF limit
    <3>3. /\ ((n + 1) - (n + 1) + 1) * Cost = Cost /\ (clock - now[n + 1]) * RateNum = 0
          /\ Cost + left = Refilled(p)
      <4>1. (n + 1) - (n + 1) + 1 = 1 /\ clock - now[n + 1] = 0
        BY <2>2, <3>1
      <4> QED
        BY <2>2, <2>8, <4>1, Numbers DEF left
    <3>4. ASSUME NEW i \in 1 .. n + 1
          PROVE  /\ now[i] \in Nat /\ now[i] <= clock
                 /\ ((n + 1) - i + 1) * Cost + left <= Capacity + (clock - now[i]) * RateNum
      <4>1. CASE i \in 1 .. n
        BY <3>2, <4>1
      <4>2. CASE i = n + 1
        BY <2>2, <3>1, <3>3, <4>2, Numbers
      <4> QED
        BY <3>1, <4>1, <4>2
    <3>5. Paid'
      BY <1>2, <2>3, <3>1, <3>4 DEF BucketInv, Paid, Limited
    <3>6. ASSUME NEW i \in 1 .. n + 1, NEW j \in 1 .. n + 1, i <= j
          PROVE  (j - i + 1) * Cost <= Capacity + (now[j] - now[i]) * RateNum
      <4>1. CASE j \in 1 .. n
        <5>1. i \in 1 .. n
          BY <3>1, <3>6, <4>1
        <5> QED
          BY <1>2, <3>1, <3>6, <4>1, <5>1 DEF BucketInv, Allowance
      <4>2. CASE j = n + 1
        <5>1. ((n + 1) - i + 1) * Cost + left <= Capacity + (clock - now[i]) * RateNum
          BY <3>4
        <5>2. /\ ((n + 1) - i + 1) * Cost \in Int
              /\ (clock - now[i]) * RateNum \in Int
          <6>1. (n + 1) - i + 1 \in Int
            BY <3>1
          <6>2. now[i] \in Nat /\ clock \in Nat
            BY <2>2, <3>4
          <6>3. clock - now[i] \in Int
            BY <6>2
          <6> QED
            BY <6>1, <6>3, Numbers
        <5> QED
          BY <2>4, <3>1, <4>2, <5>1, <5>2, Numbers
      <4> QED
        BY <3>1, <4>1, <4>2
    <3>7. Allowance'
      BY <1>2, <2>3, <3>1, <3>6 DEF BucketInv, Allowance, Limited
    <3> QED
      BY <3>5, <3>7 DEF BucketInv
  <2> QED
    BY <2>7, <2>8
<1> QED
  BY <1>1, <1>2

-----------------------------------------------------------------------------
(* Every step keeps the types.                                             *)

\* The failure of the attempt that is under way.
LEMMA FailLast ==
  ASSUME NEW s \in Seq(Tries), s # <<>>, NEW t \in Nat
  PROVE  LET f == [s EXCEPT ![Len(s)].failed = t] IN
         /\ f \in Seq(Tries) /\ Len(f) = Len(s)
         /\ \A i \in 1 .. Len(s) : f[i].began = s[i].began
         /\ \A i \in 1 .. Len(s) - 1 : f[i] = s[i]
         /\ f[Len(s)].failed = t
<1> DEFINE n == Len(s)
           e == [s[n] EXCEPT !.failed = t]
<1>1. n \in 1 .. Len(s) /\ s[n] \in Tries
  BY EmptySeq, LenProperties
<1>2. e \in Tries /\ e.began = s[n].began /\ e.failed = t
  BY <1>1 DEF Tries
<1>3. [s EXCEPT ![Len(s)].failed = t] = [s EXCEPT ![n] = e]
  OBVIOUS
<1>4. /\ [s EXCEPT ![n] = e] \in Seq(Tries) /\ Len([s EXCEPT ![n] = e]) = Len(s)
      /\ \A j \in 1 .. Len(s) : [s EXCEPT ![n] = e][j] = IF j = n THEN e ELSE s[j]
  <2> HIDE DEF n, e
  <2> QED
    BY <1>1, <1>2, ExceptSeq
<1> QED
  BY <1>1, <1>2, <1>3, <1>4

LEMMA AttemptFailsTypes ==
  ASSUME TypeInv, NEW m \in Messages, AttemptFails(m), attempt[m] >= 1, tried[m] # <<>>,
         clock' = clock
  PROVE  /\ stage' \in [Messages -> Stages]
         /\ attempt' \in [Messages -> 0 .. MaxAttempts]
         /\ wake' \in [Messages -> Nat]
         /\ tried' \in [Messages -> Seq(Tries)]
<1>1. tried[m] \in Seq(Tries) /\ clock \in Nat
  BY DEF TypeInv
<1>2. [tried[m] EXCEPT ![Len(tried[m])].failed = clock] \in Seq(Tries)
  BY <1>1, FailLast
<1>3. tried' \in [Messages -> Seq(Tries)]
  BY <1>2 DEF TypeInv, AttemptFails
<1>4. CASE attempt[m] >= MaxAttempts
  <2>1. stage' = [stage EXCEPT ![m] = "delivery_error"] /\ UNCHANGED <<attempt, wake>>
    BY <1>4 DEF AttemptFails, Goto
  <2> QED
    BY <1>3, <2>1 DEF TypeInv, Stages, Finals
<1>5. CASE ~(attempt[m] >= MaxAttempts)
  <2>1. attempt[m] \in 1 .. MaxAttempts /\ attempt[m] + 1 \in 0 .. MaxAttempts
    BY <1>5, SendAssumption DEF TypeInv
  <2>2. clock + DelayFor(attempt[m]) \in Nat
    BY <1>1, <2>1, DelayIsNatural
  <2>3. /\ stage' = [stage EXCEPT ![m] = "sleeping"]
        /\ attempt' = [attempt EXCEPT ![m] = attempt[m] + 1]
        /\ wake' = [wake EXCEPT ![m] = clock + DelayFor(attempt[m])]
    BY <1>5 DEF AttemptFails, Goto
  <2> QED
    BY <1>3, <2>1, <2>2, <2>3 DEF TypeInv, Stages
<1> QED
  BY <1>4, <1>5

LEMMA FailureTypes ==
  ASSUME TypeInv, Failure
  PROVE  failures' \in 0 .. MaxFailures
BY SendAssumption DEF TypeInv, Failure

LEMMA ClientTypes ==
  ASSUME TypeInv, NEW m \in Messages, stage[m] \in {"post", "waiting"} => attempt[m] >= 1,
         stage[m] = "waiting" => tried[m] # <<>>,
         Begin(m) \/ ClientStep(m) \/ PostFails(m) \/ PostTruncated(m)
  PROVE  TypeInv'
<1>1. CASE Begin(m)
  BY <1>1 DEF Begin, Goto, TypeInv, Stages, server
<1>2. CASE Lookup(m)
  <2>1. Min({1, MaxAttempts}) \in 0 .. MaxAttempts
    BY SendAssumption, MinOfTwo
  <2>2. Key[m] \in Principals
    BY SendAssumption
  <2>3. failures' \in 0 .. MaxFailures
    BY <1>2, FailureTypes DEF Lookup, TypeInv
  <2>4. /\ buckets' \in [Principals -> [tokens : 0 .. Capacity, last_refill : 0 .. clock]]
        /\ admitted' \in [Principals -> Seq(Nat)]
    <3>1. CASE Consume(Key[m])
      BY <1>2, <2>2, <3>1, ConsumeTypes DEF Lookup
    <3>2. CASE UNCHANGED <<buckets, admitted>>
      BY <3>2 DEF TypeInv
    <3> QED
      BY <1>2, <3>1, <3>2 DEF Lookup
  <2>5. PICK place \in Stages : stage' = [stage EXCEPT ![m] = place]
    BY <1>2 DEF Lookup, Goto, Stages, Finals
  <2> QED
    BY <1>2, <2>1, <2>3, <2>4, <2>5 DEF Lookup, TypeInv, Capacity
<1>3. CASE Post(m)
  <2>1. [message |-> m, attempt |-> attempt[m], at |-> "sent"] \in Posts
    BY <1>3 DEF Post, Posts, Steps, TypeInv
  <2>2. Append(tried[m], [began |-> clock, failed |-> -1]) \in Seq(Tries)
    <3>1. [began |-> clock, failed |-> -1] \in Tries /\ tried[m] \in Seq(Tries)
      BY DEF TypeInv, Tries
    <3> QED
      BY <3>1, AppendProperties
  <2> QED
    BY <1>3, <2>1, <2>2 DEF Post, Goto, TypeInv, Stages, server
<1>4. CASE ReadAnswer(m)
  <2>1. CASE AttemptFails(m)
    BY <1>4, <2>1, AttemptFailsTypes DEF ReadAnswer, TypeInv, server, Capacity
  <2>2. CASE ~AttemptFails(m)
    <3>1. PICK place \in {"delivered", "raised"} :
            Goto(m, place) /\ UNCHANGED <<attempt, wake, tried>>
      BY <1>4, <2>2 DEF ReadAnswer
    <3> QED
      BY <1>4, <3>1 DEF ReadAnswer, Goto, TypeInv, server, Stages, Finals, Capacity
  <2> QED
    BY <2>1, <2>2
<1>5. CASE PostFails(m)
  BY <1>5, AttemptFailsTypes, FailureTypes DEF PostFails, TypeInv, server
<1>6. CASE PostTruncated(m)
  BY <1>6, FailureTypes DEF PostTruncated, Goto, TypeInv, server, Stages, Finals
<1>7. CASE Awake(m)
  BY <1>7 DEF Awake, Goto, TypeInv, server, Stages
<1> QED
  BY <1>1, <1>2, <1>3, <1>4, <1>5, <1>6, <1>7 DEF ClientStep

LEMMA MoveTypes ==
  ASSUME network \subseteq Posts, NEW post \in network, NEW step \in Steps
  PROVE  Without(post) \subseteq Posts /\ Move(post, step) \subseteq Posts
BY DEF Without, Move, Posts

LEMMA TellTypes ==
  ASSUME TypeInv, NEW post \in network, NEW status \in {NoAnswer, 202, 204, 404, 429, 502},
         Tell(post, status)
  PROVE  answer' \in [Messages -> {0, NoAnswer, 202, 204, 404, 429, 502}]
BY DEF TypeInv, Tell, Posts

LEMMA BrokerTypes ==
  ASSUME TypeInv, NEW post \in network, BrokerStep(post) \/ DialFails(post)
  PROVE  TypeInv'
<1>1. post \in Posts /\ post.message \in Messages /\ Key[post.message] \in Principals
  BY SendAssumption DEF TypeInv, Posts
<1>2. network' \subseteq Posts
  BY MoveTypes
  DEF BrokerStep, Handle, Route, Execute, Executed, DialFails, TypeInv, Steps
<1>3. answer' \in [Messages -> {0, NoAnswer, 202, 204, 404, 429, 502}]
  <2>1. CASE UNCHANGED answer
    BY <2>1 DEF TypeInv
  <2>2. CASE \E status \in {NoAnswer, 202, 204, 404, 429, 502} : Tell(post, status)
    BY <2>2, TellTypes
  <2> QED
    BY <2>1, <2>2 DEF BrokerStep, Handle, Route, Execute, Executed, DialFails, client
<1>4. reached' \in {reached, Append(reached, post.message)}
  BY DEF BrokerStep, Handle, Route, Execute, Executed, DialFails, server, Arrive
<1>5. reached' \in Seq(Messages)
  <2>1. reached \in Seq(Messages) /\ Append(reached, post.message) \in Seq(Messages)
    BY <1>1, AppendProperties DEF TypeInv
  <2> QED
    BY <1>4, <2>1
<1>6. failures' \in 0 .. MaxFailures
  BY FailureTypes DEF BrokerStep, Handle, Route, Execute, Executed, DialFails, TypeInv
<1>7. clock' = clock
  BY DEF BrokerStep, Handle, Route, Execute, Executed, DialFails
<1>8. /\ buckets' \in [Principals -> [tokens : 0 .. Capacity, last_refill : 0 .. clock]]
      /\ admitted' \in [Principals -> Seq(Nat)]
  <2>1. CASE Handle(post)
    BY <1>1, <1>7, <2>1, ConsumeTypes DEF Handle
  <2>2. CASE UNCHANGED <<buckets, admitted>>
    BY <2>2 DEF TypeInv
  <2> QED
    BY <2>1, <2>2 DEF BrokerStep, Route, Execute, Executed, DialFails, server
<1>9. UNCHANGED <<stage, attempt, wake, tried, recipient>>
  BY DEF BrokerStep, Handle, Route, Execute, Executed, DialFails, client
<1> QED
  BY <1>2, <1>3, <1>5, <1>6, <1>7, <1>8, <1>9 DEF TypeInv, Capacity

LEMMA OtherTypes ==
  ASSUME TypeInv, RecipientChanges \/ Tick \/ UNCHANGED vars
  PROVE  TypeInv'
<1>1. CASE RecipientChanges
  BY <1>1, FailureTypes DEF RecipientChanges, TypeInv, client, server, Capacity
<1>2. CASE Tick
  <2>1. clock' \in 0 .. MaxClock /\ \A t \in 0 .. clock : t \in 0 .. clock'
    BY <1>2, SendAssumption DEF Tick, TypeInv
  <2>2. buckets' \in [Principals -> [tokens : 0 .. Capacity, last_refill : 0 .. clock']]
    BY <1>2, <2>1 DEF Tick, TypeInv, server
  <2> QED
    BY <1>2, <2>1, <2>2 DEF Tick, TypeInv, client, server, Capacity
<1>3. CASE UNCHANGED vars
  BY <1>3 DEF TypeInv, vars, client, server, Capacity
<1> QED
  BY <1>1, <1>2, <1>3

-----------------------------------------------------------------------------
(* Attempts and the pauses between them.                                   *)

\* The attempts of a message are counted.
Progress(m) ==
  /\ stage[m] \in {"new", "lookup", "lookup_error"} => tried[m] = <<>>
  /\ stage[m] \in {"post", "sleeping"} => attempt[m] = Len(tried[m]) + 1
  /\ stage[m] = "waiting" => attempt[m] = Len(tried[m]) /\ tried[m] # <<>>
  /\ Len(tried[m]) <= MaxAttempts

\* When the next attempt may begin.
Due(m) == tried[m][Len(tried[m])].failed + DelayFor(Len(tried[m]))

Backing(m) ==
  /\ stage[m] = "sleeping" => tried[m] # <<>> /\ wake[m] >= Due(m)
  /\ stage[m] = "post" /\ tried[m] # <<>> => clock >= Due(m)
  /\ \A i \in 1 .. Len(tried[m]) - 1 : Pause(m, i) >= DelayFor(i)

AttemptsOK == \A m \in Messages : Progress(m) /\ Backing(m)

\* What ClientTypes asks for.
LEMMA AttemptIsCounted ==
  ASSUME TypeInv, AttemptsOK, NEW m \in Messages
  PROVE  /\ tried[m] \in Seq(Tries) /\ Len(tried[m]) \in Nat
         /\ attempt[m] \in Nat /\ clock \in Nat /\ wake[m] \in Nat
         /\ stage[m] \in {"post", "waiting"} => attempt[m] >= 1
         /\ stage[m] = "waiting" => tried[m] # <<>> /\ Len(tried[m]) >= 1
<1>1. /\ tried[m] \in Seq(Tries) /\ Len(tried[m]) \in Nat
      /\ attempt[m] \in Nat /\ clock \in Nat /\ wake[m] \in Nat
  BY SendAssumption, LenProperties DEF TypeInv
<1>2. stage[m] = "waiting" => tried[m] # <<>> /\ Len(tried[m]) >= 1
  BY <1>1, EmptySeq DEF AttemptsOK, Progress
<1> QED
  BY <1>1, <1>2 DEF AttemptsOK, Progress

LEMMA DueIsInteger ==
  ASSUME TypeInv, AttemptsOK, NEW m \in Messages, tried[m] # <<>>
  PROVE  Due(m) \in Int
<1>1. tried[m] \in Seq(Tries) /\ Len(tried[m]) \in Nat /\ Len(tried[m]) >= 1
  BY AttemptIsCounted, EmptySeq
<1>2. tried[m][Len(tried[m])] \in Tries /\ Len(tried[m]) \in 1 .. MaxAttempts
  BY <1>1, ElementOfSeq, LenProperties, SendAssumption DEF AttemptsOK, Progress
<1> QED
  BY <1>2, DelayIsNatural DEF Due, Tries

\* A step of one message.
LEMMA OneMessage ==
  ASSUME AttemptsOK, NEW m \in Messages, clock' = clock,
         \A o \in Messages \ {m} : /\ stage'[o] = stage[o] /\ attempt'[o] = attempt[o]
                                   /\ wake'[o] = wake[o] /\ tried'[o] = tried[o],
         Progress(m)', Backing(m)'
  PROVE  AttemptsOK'
BY DEF AttemptsOK, Progress, Backing, Due, Pause

\* An attempt that fails is followed by the pause of its number.
LEMMA AttemptFailsKeeps ==
  ASSUME TypeInv, AttemptsOK, NEW m \in Messages, stage[m] = "waiting", AttemptFails(m),
         clock' = clock
  PROVE  AttemptsOK'
<1> DEFINE n == Len(tried[m])
<1>1. /\ tried[m] \in Seq(Tries) /\ n \in Nat /\ n >= 1 /\ tried[m] # <<>> /\ clock \in Nat
      /\ attempt[m] = n /\ n <= MaxAttempts
  BY AttemptIsCounted DEF AttemptsOK, Progress
<1>2. /\ tried' = [tried EXCEPT ![m] = [tried[m] EXCEPT ![n].failed = clock]]
      /\ stage \in [Messages -> Stages] /\ tried \in [Messages -> Seq(Tries)]
      /\ attempt \in [Messages -> 0 .. MaxAttempts] /\ wake \in [Messages -> Nat]
  BY DEF AttemptFails, TypeInv
<1>3. /\ Len(tried'[m]) = n
      /\ \A i \in 1 .. n : tried'[m][i].began = tried[m][i].began
      /\ \A i \in 1 .. n - 1 : tried'[m][i] = tried[m][i]
      /\ tried'[m][n].failed = clock /\ tried'[m] # <<>>
  <2>1. tried'[m] = [tried[m] EXCEPT ![n].failed = clock]
    BY <1>2
  <2>2. tried'[m] \in Seq(Tries) /\ Len(tried'[m]) = n
    BY <1>1, <2>1, FailLast
  <2> QED
    BY <1>1, <2>1, <2>2, FailLast, EmptySeq
<1> HIDE DEF n
<1>4. \A i \in 1 .. n - 1 : (Pause(m, i) >= DelayFor(i))'
  <2>1. ASSUME NEW i \in 1 .. n - 1
        PROVE  (Pause(m, i) >= DelayFor(i))'
    <3>1. Pause(m, i) >= DelayFor(i) /\ i + 1 \in 1 .. n
      BY <1>1 DEF AttemptsOK, Backing, n
    <3>2. tried'[m][i + 1].began = tried[m][i + 1].began /\ tried'[m][i] = tried[m][i]
      BY <1>3, <3>1
    <3> QED
      BY <3>1, <3>2 DEF Pause, DelayFor
  <2> QED
    BY <2>1
<1>5. CASE attempt[m] >= MaxAttempts
  <2>1. stage'[m] = "delivery_error"
    BY <1>2, <1>5 DEF AttemptFails, Goto
  <2>2. Progress(m)' /\ Backing(m)'
    BY <1>1, <1>3, <1>4, <2>1 DEF Progress, Backing
  <2>3. \A o \in Messages \ {m} : /\ stage'[o] = stage[o] /\ attempt'[o] = attempt[o]
                                  /\ wake'[o] = wake[o] /\ tried'[o] = tried[o]
    BY <1>2, <1>5 DEF AttemptFails, Goto
  <2> QED
    BY <2>2, <2>3, OneMessage
<1>6. CASE ~(attempt[m] >= MaxAttempts)
  <2>1. /\ stage' = [stage EXCEPT ![m] = "sleeping"]
        /\ attempt' = [attempt EXCEPT ![m] = n + 1]
        /\ wake' = [wake EXCEPT ![m] = clock + DelayFor(n)]
    BY <1>1, <1>2, <1>6 DEF AttemptFails, Goto
  <2>2. stage'[m] = "sleeping" /\ attempt'[m] = n + 1 /\ wake'[m] = clock + DelayFor(n)
    BY <1>2, <2>1
  <2>3. Progress(m)'
    BY <1>1, <1>3, <2>2 DEF Progress
  <2>4. wake'[m] >= Due(m)'
    <3>1. DelayFor(n) \in Nat /\ Due(m)' = clock + DelayFor(n)
      BY <1>1, <1>3, DelayIsNatural, SendAssumption DEF Due
    <3> QED
      BY <1>1, <2>2, <3>1
  <2>5. Backing(m)'
    BY <1>3, <1>4, <2>2, <2>4 DEF Backing
  <2>6. \A o \in Messages \ {m} : /\ stage'[o] = stage[o] /\ attempt'[o] = attempt[o]
                                  /\ wake'[o] = wake[o] /\ tried'[o] = tried[o]
    BY <1>2, <2>1
  <2> QED
    BY <2>3, <2>5, <2>6, OneMessage
<1> QED
  BY <1>5, <1>6

\* An attempt begins when it is due.
LEMMA PostKeeps ==
  ASSUME TypeInv, AttemptsOK, NEW m \in Messages, Post(m)
  PROVE  AttemptsOK'
<1> DEFINE n == Len(tried[m])
           try == [began |-> clock, failed |-> -1]
<1>1. /\ tried[m] \in Seq(Tries) /\ n \in Nat /\ clock \in Nat /\ try \in Tries
      /\ attempt[m] = n + 1 /\ n + 1 <= MaxAttempts
  BY AttemptIsCounted DEF AttemptsOK, Progress, Post, Tries, TypeInv
<1>2. /\ tried' = [tried EXCEPT ![m] = Append(tried[m], try)]
      /\ stage' = [stage EXCEPT ![m] = "waiting"]
      /\ stage \in [Messages -> Stages] /\ tried \in [Messages -> Seq(Tries)]
      /\ UNCHANGED <<attempt, wake, clock>> /\ stage[m] = "post"
  BY DEF Post, Goto, TypeInv
<1> HIDE DEF try
<1>3. /\ tried'[m] = Append(tried[m], try) /\ stage'[m] = "waiting" /\ Len(tried'[m]) = n + 1
      /\ tried'[m] # <<>> /\ tried'[m][n + 1] = try
      /\ \A i \in 1 .. n : tried'[m][i] = tried[m][i]
  BY <1>1, <1>2, AppendProperties
<1>4. Progress(m)'
  BY <1>1, <1>2, <1>3 DEF Progress
<1>5. ASSUME NEW i \in 1 .. n
      PROVE  (Pause(m, i) >= DelayFor(i))'
  <2>1. CASE i \in 1 .. n - 1
    <3>1. Pause(m, i) >= DelayFor(i) /\ i + 1 \in 1 .. n
      BY <1>1, <2>1 DEF AttemptsOK, Backing
    <3> QED
      BY <1>3, <3>1 DEF Pause, DelayFor
  <2>2. CASE i = n
    <3>1. tried[m] # <<>> /\ tried[m][n] \in Tries /\ DelayFor(n) \in Nat
      BY <1>1, <2>2, DelayIsNatural, ElementOfSeq, SendAssumption
    <3>2. clock >= tried[m][n].failed + DelayFor(n) /\ tried[m][n].failed \in Int
      BY <1>2, <3>1 DEF AttemptsOK, Backing, Due, Tries
    <3>3. Pause(m, i)' = clock - tried[m][n].failed
      BY <1>3, <2>2 DEF Pause, try
    <3>4. clock - tried[m][n].failed >= DelayFor(n)
      BY <1>1, <3>1, <3>2
    <3> QED
      BY <2>2, <3>3, <3>4 DEF DelayFor
  <2> QED
    BY <1>1, <2>1, <2>2
<1>6. Backing(m)'
  BY <1>1, <1>3, <1>5 DEF Backing
<1>7. \A o \in Messages \ {m} : /\ stage'[o] = stage[o] /\ attempt'[o] = attempt[o]
                                /\ wake'[o] = wake[o] /\ tried'[o] = tried[o]
  BY <1>2
<1> QED
  BY <1>2, <1>4, <1>6, <1>7, OneMessage

\* A message that goes to another place without a post or a failure of one.
LEMMA GotoKeeps ==
  ASSUME TypeInv, AttemptsOK, NEW m \in Messages, NEW place \in Stages, Goto(m, place),
         UNCHANGED <<wake, tried, clock>>, Progress(m)',
         \A o \in Messages \ {m} : attempt'[o] = attempt[o],
         place # "sleeping", place = "post" /\ tried[m] # <<>> => clock >= Due(m)
  PROVE  AttemptsOK'
<1>1. stage'[m] = place /\ \A o \in Messages \ {m} : stage'[o] = stage[o]
  BY DEF Goto, TypeInv
<1>2. Backing(m)'
  BY <1>1 DEF AttemptsOK, Backing, Due, Pause
<1> QED
  BY <1>1, <1>2, OneMessage

LEMMA ClientAttempts ==
  ASSUME TypeInv, AttemptsOK, NEW m \in Messages,
         Begin(m) \/ ClientStep(m) \/ PostFails(m) \/ PostTruncated(m)
  PROVE  AttemptsOK'
<1>1. stage \in [Messages -> Stages] /\ attempt \in [Messages -> 0 .. MaxAttempts]
  BY DEF TypeInv
<1>2. Progress(m) /\ Backing(m)
  BY DEF AttemptsOK
<1>3. CASE Begin(m)
  <2>1. Progress(m)'
    BY <1>1, <1>2, <1>3 DEF Begin, Goto, Progress
  <2> QED
    BY <1>3, <2>1, GotoKeeps DEF Begin, Stages
<1>4. CASE Lookup(m)
  <2>1. /\ stage[m] = "lookup" /\ tried[m] = <<>> /\ UNCHANGED <<wake, tried, clock>>
        /\ attempt' = [attempt EXCEPT ![m] = Min({1, MaxAttempts})]
    BY <1>2, <1>4 DEF Lookup, Progress
  <2>2. PICK place \in {"lookup_error", "delivery_error", "post"} :
          Goto(m, place) /\ (place = "post" => MaxAttempts # 0)
    BY <1>4 DEF Lookup
  <2>3. place = "post" => attempt'[m] = 1
    BY <1>1, <2>1, <2>2, SendAssumption, MinOfTwo
  <2>4. Len(tried[m]) = 0 /\ stage'[m] = place
    BY <1>1, <2>1, <2>2 DEF Goto
  <2>5. Progress(m)'
    BY <2>1, <2>2, <2>3, <2>4, SendAssumption DEF Progress
  <2>6. \A o \in Messages \ {m} : attempt'[o] = attempt[o]
    BY <1>1, <2>1
  <2> QED
    BY <2>1, <2>2, <2>5, <2>6, GotoKeeps DEF Stages, Finals
<1>5. CASE Post(m)
  BY <1>5, PostKeeps
<1>6. CASE stage[m] = "waiting" /\ AttemptFails(m) /\ clock' = clock
  BY <1>6, AttemptFailsKeeps
<1>7. CASE /\ stage[m] = "waiting" /\ UNCHANGED <<attempt, wake, tried, clock>>
           /\ \E place \in {"delivered", "raised"} : Goto(m, place)
  <2>1. PICK place \in {"delivered", "raised"} : Goto(m, place)
    BY <1>7
  <2>2. Progress(m)'
    BY <1>1, <1>2, <1>7, <2>1 DEF Goto, Progress
  <2> QED
    BY <1>7, <2>1, <2>2, GotoKeeps DEF Stages, Finals
<1>8. CASE Awake(m)
  <2>1. /\ stage[m] = "sleeping" /\ clock >= wake[m] /\ tried[m] # <<>> /\ wake[m] >= Due(m)
        /\ Goto(m, "post") /\ UNCHANGED <<attempt, wake, tried, clock>>
    BY <1>2, <1>8 DEF Awake, Backing
  <2>2. Progress(m)'
    BY <1>1, <1>2, <2>1 DEF Goto, Progress
  <2>3. clock >= Due(m)
    <3>1. clock \in Nat /\ wake[m] \in Nat /\ Due(m) \in Int
      BY <2>1, AttemptIsCounted, DueIsInteger
    <3> QED
      BY <2>1, <3>1
  <2> QED
    BY <2>1, <2>2, <2>3, GotoKeeps DEF Stages
<1> QED
  BY <1>3, <1>4, <1>5, <1>6, <1>7, <1>8
  DEF ClientStep, ReadAnswer, PostFails, PostTruncated

-----------------------------------------------------------------------------
(* Copies of a message, and the posts that may still become one.           *)

Arrived(m) == \E i \in DOMAIN reached : reached[i] = m

\* The attempts of m that may still arrive.
Open(m) == {k \in 1 .. MaxAttempts : \E p \in network : /\ p.message = m /\ p.attempt = k
                                                        /\ p.at # "executed"}

\* A post is one attempt, under way or carried out, of a message that is
\* waited for or was; and what arrived and may still arrive was tried.
PostsOK ==
  /\ \A p, q \in network : p.message = q.message /\ p.attempt = q.attempt => p = q
  /\ \A p \in network : /\ p.attempt <= Len(tried[p.message])
                        /\ p.at = "executed" => Arrived(p.message)
  /\ \A m \in Messages : /\ stage[m] = "delivered" \/ answer[m] \in {202, 204} => Arrived(m)
                         /\ CopiesOf(m) + Cardinality(Open(m)) <= Len(tried[m])

LEMMA CopiesType ==
  ASSUME TypeInv, NEW m \in Messages
  PROVE  /\ IsFiniteSet({i \in DOMAIN reached : reached[i] = m})
         /\ CopiesOf(m) \in Nat /\ (CopiesOf(m) = 0 <=> ~Arrived(m))
         /\ IsFiniteSet(Open(m)) /\ Cardinality(Open(m)) \in Nat
<1> DEFINE S == {i \in DOMAIN reached : reached[i] = m}
<1>1. IsFiniteSet(1 .. Len(reached)) /\ DOMAIN reached = 1 .. Len(reached)
  BY FS_Interval, LenProperties DEF TypeInv
<1>2. IsFiniteSet(S)
  BY <1>1, FS_Subset
<1>3. Cardinality(S) \in Nat /\ (Cardinality(S) = 0 <=> S = {})
  BY <1>2, FS_CardinalityType, FS_EmptySet
<1>4. IsFiniteSet(1 .. MaxAttempts) /\ Open(m) \subseteq 1 .. MaxAttempts
  BY FS_Interval, SendAssumption DEF Open
<1>5. IsFiniteSet(Open(m)) /\ Cardinality(Open(m)) \in Nat
  BY <1>4, FS_Subset, FS_CardinalityType
<1> QED
  BY <1>2, <1>3, <1>5 DEF CopiesOf, Arrived

\* A message that arrives is one copy more of it, and none of another.
LEMMA CopiesGrow ==
  ASSUME TypeInv, NEW x \in Messages, Arrive(x), NEW m \in Messages
  PROVE  /\ CopiesOf(m)' = CopiesOf(m) + (IF m = x THEN 1 ELSE 0)
         /\ Arrived(m) => Arrived(m)'
         /\ Arrived(x)'
<1> DEFINE n == Len(reached)
           S == {i \in DOMAIN reached : reached[i] = m}
           T == {i \in DOMAIN reached' : reached'[i] = m}
<1>1. /\ reached \in Seq(Messages) /\ n \in Nat /\ DOMAIN reached = 1 .. n
      /\ reached' = Append(reached, x)
  BY LenProperties DEF TypeInv, Arrive
<1>2. /\ DOMAIN reached' = 1 .. n + 1 /\ reached'[n + 1] = x
      /\ \A i \in 1 .. n : reached'[i] = reached[i]
  BY <1>1, AppendProperties, LenProperties
<1>3. n + 1 \notin S /\ n + 1 \in DOMAIN reached' /\ 1 .. n + 1 = 1 .. n \cup {n + 1}
  BY <1>1, <1>2
<1>4. T = IF m = x THEN S \cup {n + 1} ELSE S
  BY <1>1, <1>2, <1>3
<1>5. IsFiniteSet(S) /\ Cardinality(S) \in Nat
  BY CopiesType, FS_CardinalityType
<1>6. Cardinality(T) = Cardinality(S) + (IF m = x THEN 1 ELSE 0)
  <2> HIDE DEF S, T
  <2>1. Cardinality(S \cup {n + 1}) = Cardinality(S) + 1
    BY <1>3, <1>5, FS_AddElement
  <2> QED
    BY <1>4, <1>5, <2>1
<1>7. Arrived(m) => Arrived(m)'
  BY <1>1, <1>2, <1>3 DEF Arrived
<1>8. Arrived(x)'
  BY <1>2, <1>3 DEF Arrived
<1> QED
  BY <1>6, <1>7, <1>8 DEF CopiesOf

\* What a step of the broker or the agent on one post does to posts and copies.
LEMMA PostStepKeeps ==
  ASSUME TypeInv, PostsOK, NEW post \in network, NEW step \in Steps,
         network' \in {Without(post), Move(post, step)},
         UNCHANGED <<stage, tried>>,
         \/ /\ reached' = reached
            /\ network' = Move(post, step) => step # "executed" /\ post.at # "executed"
         \/ /\ Arrive(post.message) /\ post.at # "executed"
            /\ network' = Move(post, step) => step = "executed",
         \A m \in Messages : \/ answer'[m] = answer[m]
                             \/ answer'[m] \in {202, 204} => m = post.message /\ Arrived(m)'
  PROVE  PostsOK'
<1> DEFINE x == post.message
           k == post.attempt
<1>1. /\ x \in Messages /\ k \in 1 .. MaxAttempts /\ network \subseteq Posts
      /\ post \in Posts
  BY DEF TypeInv, Posts
<1>2. \A p \in network' : \/ p \in network /\ p # post
                          \/ /\ network' = Move(post, step) /\ p = [post EXCEPT !.at = step]
                             /\ p.message = x /\ p.attempt = k /\ p.at = step
  BY <1>1 DEF Without, Move, Posts
<1>3. \A p \in network : p # post => ~(p.message = x /\ p.attempt = k)
  BY DEF PostsOK
<1>4. \A m \in Messages : Arrived(m) => Arrived(m)'
  BY <1>1, CopiesGrow DEF Arrived
<1>5. \A p, q \in network' : p.message = q.message /\ p.attempt = q.attempt => p = q
  BY <1>2, <1>3 DEF PostsOK
<1>6. \A p \in network' : /\ p.attempt <= Len(tried'[p.message])
                          /\ p.at = "executed" => Arrived(p.message)'
  <2>1. ASSUME NEW p \in network', p \in network
        PROVE  /\ p.attempt <= Len(tried'[p.message])
               /\ p.at = "executed" => Arrived(p.message)'
    BY <1>1, <1>4, <2>1 DEF PostsOK, Posts
  <2>2. ASSUME network' = Move(post, step), NEW p \in network', p = [post EXCEPT !.at = step],
               p.message = x, p.attempt = k, p.at = step
        PROVE  /\ p.attempt <= Len(tried'[p.message])
               /\ p.at = "executed" => Arrived(p.message)'
    <3>1. p.attempt <= Len(tried'[p.message])
      BY <2>2 DEF PostsOK
    <3>2. step = "executed" => Arrived(x)'
      BY <1>1, <2>2, CopiesGrow
    <3> QED
      BY <2>2, <3>1, <3>2
  <2> QED
    BY <1>2, <2>1, <2>2
<1>7. ASSUME NEW m \in Messages
      PROVE  CopiesOf(m)' + Cardinality(Open(m)') <= Len(tried'[m])
  <2>1. CopiesOf(m) + Cardinality(Open(m)) <= Len(tried[m]) /\ Len(tried[m]) \in Nat
    BY LenProperties DEF PostsOK, TypeInv
  <2>2. /\ IsFiniteSet(Open(m)) /\ Cardinality(Open(m)) \in Nat /\ CopiesOf(m) \in Nat
    BY CopiesType
  <2>3. Open(m)' \subseteq Open(m)
    BY <1>1, <1>2 DEF Open
  <2>4. Cardinality(Open(m)') <= Cardinality(Open(m)) /\ Cardinality(Open(m)') \in Nat
    BY <2>2, <2>3, FS_Subset, FS_CardinalityType
  <2>5. CASE CopiesOf(m)' = CopiesOf(m)
    BY <2>1, <2>2, <2>4, <2>5
  <2>6. CASE CopiesOf(m)' # CopiesOf(m)
    <3>1. reached' # reached
      BY <2>6 DEF CopiesOf
    <3>2. /\ Arrive(x) /\ post.at # "executed" /\ m = x /\ CopiesOf(m)' = CopiesOf(m) + 1
          /\ network' = Move(post, step) => step = "executed"
      BY <1>1, <2>2, <2>6, <3>1, CopiesGrow
    <3>3. k \in Open(m) /\ Open(m)' \subseteq Open(m) \ {k}
      BY <1>1, <1>2, <1>3, <3>2 DEF Open
    <3>4. /\ IsFiniteSet(Open(m) \ {k})
          /\ Cardinality(Open(m) \ {k}) = Cardinality(Open(m)) - 1
      BY <2>2, <3>3, FS_RemoveElement
    <3>5. Cardinality(Open(m)') <= Cardinality(Open(m)) - 1
      BY <3>3, <3>4, FS_Subset
    <3> QED
      BY <2>1, <2>2, <2>4, <3>2, <3>5
  <2> QED
    BY <2>5, <2>6
<1>8. \A m \in Messages : stage'[m] = "delivered" \/ answer'[m] \in {202, 204} => Arrived(m)'
  BY <1>4 DEF PostsOK
<1> QED
  BY <1>5, <1>6, <1>7, <1>8 DEF PostsOK

LEMMA BrokerPosts ==
  ASSUME TypeInv, PostsOK, NEW post \in network, BrokerStep(post) \/ DialFails(post)
  PROVE  PostsOK'
<1>1. UNCHANGED <<stage, tried>>
  BY DEF BrokerStep, Handle, Route, Execute, Executed, DialFails, client
<1>2. PICK step \in Steps :
        /\ network' \in {Without(post), Move(post, step)}
        /\ \/ /\ reached' = reached
              /\ network' = Move(post, step) => step # "executed" /\ post.at # "executed"
           \/ /\ Arrive(post.message) /\ post.at # "executed"
              /\ network' = Move(post, step) => step = "executed"
  <2>1. "routing" \in Steps /\ "dialled" \in Steps /\ "abandoned" \in Steps
        /\ "executed" \in Steps
    BY DEF Steps
  <2>2. \A s \in Steps : Without(post) # Move(post, s)
    <3>1. ASSUME NEW s \in Steps PROVE Without(post) # Move(post, s)
      <4> DEFINE moved == [post EXCEPT !.at = s]
      <4>1. post \in Posts /\ moved.message = post.message /\ moved.attempt = post.attempt
        BY DEF TypeInv, Posts
      <4>2. moved \in network => moved = post
        BY <4>1 DEF PostsOK
      <4>3. moved \notin Without(post) /\ moved \in Move(post, s)
        BY <4>2 DEF Without, Move
      <4> QED
        BY <4>3
    <3> QED
      BY <3>1
  <2>3. CASE Handle(post)
    BY <2>1, <2>2, <2>3 DEF Handle
  <2>4. CASE Route(post)
    BY <2>1, <2>2, <2>4 DEF Route, server
  <2>5. CASE Execute(post)
    BY <2>1, <2>2, <2>5 DEF Execute
  <2>6. CASE Executed(post)
    BY <2>1, <2>2, <2>6 DEF Executed, server
  <2>7. CASE DialFails(post)
    BY <2>1, <2>2, <2>7 DEF DialFails, server
  <2> QED
    BY <2>3, <2>4, <2>5, <2>6, <2>7 DEF BrokerStep
<1>3. \A m \in Messages : \/ answer'[m] = answer[m]
                          \/ answer'[m] \in {202, 204} => m = post.message /\ Arrived(m)'
  <2>1. CASE answer' = answer
    BY <2>1
  <2>2. CASE \E status \in {NoAnswer, 404, 429, 502} : Tell(post, status)
    BY <2>2 DEF NoAnswer, Tell, TypeInv, Posts
  <2>3. CASE Tell(post, 202) /\ Arrive(post.message)
    BY <2>3, CopiesGrow DEF Tell, TypeInv, Posts
  <2>4. CASE Tell(post, 204) /\ post.at = "executed" /\ reached' = reached
    BY <2>4 DEF Tell, TypeInv, Posts, PostsOK, Arrived
  <2> QED
    BY <2>1, <2>2, <2>3, <2>4
    DEF BrokerStep, Handle, Route, Execute, Executed, DialFails, client, server
<1> QED
  BY <1>1, <1>2, <1>3, PostStepKeeps

\* Posts that get lost, and outcomes that are read off an answer.
LEMMA PostsShrink ==
  ASSUME TypeInv, PostsOK, network' \subseteq network, reached' = reached, answer' = answer,
         \A m \in Messages : Len(tried'[m]) = Len(tried[m]),
         \A m \in Messages : stage'[m] = "delivered"
                               => stage[m] = "delivered" \/ answer[m] \in {202, 204}
  PROVE  PostsOK'
<1>1. ASSUME NEW m \in Messages
      PROVE  CopiesOf(m)' + Cardinality(Open(m)') <= Len(tried'[m])
  <2>1. CopiesOf(m)' = CopiesOf(m)
    BY DEF CopiesOf
  <2>2. Open(m)' \subseteq Open(m)
    BY DEF Open
  <2>3. Cardinality(Open(m)') <= Cardinality(Open(m)) /\ Cardinality(Open(m)') \in Nat
    BY <2>2, CopiesType, FS_Subset, FS_CardinalityType
  <2>4. CopiesOf(m) + Cardinality(Open(m)) <= Len(tried[m]) /\ Len(tried[m]) \in Nat
    BY LenProperties DEF PostsOK, TypeInv
  <2>5. CopiesOf(m) \in Nat /\ Cardinality(Open(m)) \in Nat
    BY CopiesType
  <2> QED
    BY <2>1, <2>3, <2>4, <2>5
<1>2. \A m \in Messages : Arrived(m)' <=> Arrived(m)
  BY DEF Arrived
<1>3. \A p \in network : p.message \in Messages
  BY DEF TypeInv, Posts
<1> QED
  BY <1>1, <1>2, <1>3 DEF PostsOK, Arrived

\* A post is a new attempt.
LEMMA PostPosts ==
  ASSUME TypeInv, AttemptsOK, PostsOK, NEW m \in Messages, Post(m)
  PROVE  PostsOK'
<1> DEFINE n == Len(tried[m])
           new == [message |-> m, attempt |-> attempt[m], at |-> "sent"]
<1>1. /\ n \in Nat /\ attempt[m] = n + 1 /\ n + 1 \in 1 .. MaxAttempts
      /\ tried[m] \in Seq(Tries) /\ clock \in Nat
  BY AttemptIsCounted, SendAssumption DEF AttemptsOK, Progress, Post, TypeInv
<1>2. /\ network' = network \cup {new} /\ reached' = reached
      /\ answer' = [answer EXCEPT ![m] = 0] /\ stage' = [stage EXCEPT ![m] = "waiting"]
      /\ tried' = [tried EXCEPT ![m] = Append(tried[m], [began |-> clock, failed |-> -1])]
  BY DEF Post, Goto, server
<1>3. /\ Len(tried'[m]) = n + 1 /\ \A o \in Messages \ {m} : tried'[o] = tried[o]
  <2>1. [began |-> clock, failed |-> -1] \in Tries
    BY <1>1 DEF Tries
  <2> QED
    BY <1>1, <1>2, <2>1, AppendProperties DEF TypeInv
<1>4. new.message = m /\ new.attempt = n + 1 /\ new.at = "sent"
  BY <1>1
<1> HIDE DEF new
<1>5. \A p \in network : p.message = m => p.attempt <= n /\ p.attempt \in Nat
  BY DEF PostsOK, TypeInv, Posts
<1>6. \A p, q \in network' : p.message = q.message /\ p.attempt = q.attempt => p = q
  BY <1>1, <1>2, <1>4, <1>5 DEF PostsOK
<1>7. \A o \in Messages : Arrived(o)' <=> Arrived(o)
  BY <1>2 DEF Arrived
<1>8. \A p \in network' : /\ p.attempt <= Len(tried'[p.message])
                          /\ p.at = "executed" => Arrived(p.message)'
  <2>1. ASSUME NEW p \in network
        PROVE  /\ p.attempt <= Len(tried'[p.message])
               /\ p.at = "executed" => Arrived(p.message)'
    <3>1. p.message \in Messages /\ p.attempt \in Nat
      BY DEF TypeInv, Posts
    <3> QED
      BY <1>1, <1>3, <1>5, <1>7, <3>1 DEF PostsOK
  <2> QED
    BY <1>1, <1>2, <1>3, <1>4, <2>1
<1>9. \A o \in Messages : stage'[o] = "delivered" \/ answer'[o] \in {202, 204} => Arrived(o)'
  BY <1>2, <1>7 DEF PostsOK, TypeInv
<1>10. ASSUME NEW o \in Messages
       PROVE  CopiesOf(o)' + Cardinality(Open(o)') <= Len(tried'[o])
  <2>1. CopiesOf(o)' = CopiesOf(o)
    BY <1>2 DEF CopiesOf
  <2>2. CopiesOf(o) + Cardinality(Open(o)) <= Len(tried[o])
    BY DEF PostsOK
  <2>3. IsFiniteSet(Open(o)) /\ Cardinality(Open(o)) \in Nat /\ CopiesOf(o) \in Nat
    BY CopiesType
  <2>4. CASE o = m
    <3>1. Open(o)' = Open(o) \cup {n + 1}
      BY <1>1, <1>2, <1>4, <2>4 DEF Open
    <3>2. Cardinality(Open(o)') <= Cardinality(Open(o)) + 1 /\ Cardinality(Open(o)') \in Nat
      <4>1. /\ IsFiniteSet(Open(o) \cup {n + 1})
            /\ Cardinality(Open(o) \cup {n + 1}) \in {Cardinality(Open(o)), Cardinality(Open(o)) + 1}
        BY <2>3, FS_AddElement
      <4> QED
        BY <2>3, <3>1, <4>1
    <3> QED
      BY <1>1, <1>3, <2>1, <2>2, <2>3, <2>4, <3>2
  <2>5. CASE o # m
    <3>1. Open(o)' = Open(o)
      BY <1>2, <1>4, <2>5 DEF Open
    <3> QED
      BY <1>3, <2>1, <2>2, <2>5, <3>1
  <2> QED
    BY <2>4, <2>5
<1> QED
  BY <1>6, <1>8, <1>9, <1>10 DEF PostsOK

LEMMA ClientPosts ==
  ASSUME TypeInv, AttemptsOK, PostsOK, NEW m \in Messages,
         Begin(m) \/ ClientStep(m) \/ PostFails(m) \/ PostTruncated(m)
  PROVE  PostsOK'
<1>1. CASE Post(m)
  BY <1>1, PostPosts
<1>2. CASE ~Post(m)
  <2>1. network' \subseteq network /\ reached' = reached /\ answer' = answer
    BY <1>2
    DEF Begin, ClientStep, Lookup, ReadAnswer, Awake, PostFails, PostTruncated, server
  <2>2. \A o \in Messages : Len(tried'[o]) = Len(tried[o])
    <3>1. CASE stage[m] = "waiting" /\ AttemptFails(m)
      <4>1. tried[m] \in Seq(Tries) /\ tried[m] # <<>> /\ clock \in Nat
        BY <3>1, AttemptIsCounted
      <4>2. tried' = [tried EXCEPT ![m] = [tried[m] EXCEPT ![Len(tried[m])].failed = clock]]
        BY <3>1 DEF AttemptFails
      <4> QED
        BY <4>1, <4>2, FailLast DEF TypeInv
    <3>2. CASE tried' = tried
      BY <3>2
    <3> QED
      BY <1>2, <3>1, <3>2
      DEF Begin, ClientStep, Lookup, ReadAnswer, Awake, PostFails, PostTruncated
  <2>3. \A o \in Messages : stage'[o] = "delivered"
                              => stage[o] = "delivered" \/ answer[o] \in {202, 204}
    BY <1>2
    DEF Begin, ClientStep, Lookup, ReadAnswer, Awake, PostFails, PostTruncated, AttemptFails,
        Goto, TypeInv
  <2> QED
    BY <2>1, <2>2, <2>3, PostsShrink
<1> QED
  BY <1>1, <1>2

-----------------------------------------------------------------------------
(* The order of a sender.                                                  *)

Earlier(m, o) == Sender[m] = Sender[o] /\ Order[m] < Order[o]

\* What a message comes after has ended, and has arrived before it if it was
\* delivered.
OrderOK ==
  \A m, o \in Messages : Earlier(m, o) =>
    /\ stage[o] # "new" => Ended(m)
    /\ stage[m] = "delivered" =>
         \A j \in DOMAIN reached :
           reached[j] = o => \E i \in DOMAIN reached : i < j /\ reached[i] = m

\* Who has arrived has begun.
LEMMA ArrivedHasBegun ==
  ASSUME TypeInv, AttemptsOK, PostsOK, NEW o \in Messages, Arrived(o)
  PROVE  stage[o] # "new"
<1>1. CopiesOf(o) + Cardinality(Open(o)) <= Len(tried[o])
  BY DEF PostsOK
<1>2. CopiesOf(o) \in Nat /\ CopiesOf(o) # 0 /\ Cardinality(Open(o)) \in Nat
  BY CopiesType
<1>3. tried[o] # <<>>
  <2>1. Len(tried[o]) \in Nat /\ Len(tried[o]) # 0
    BY <1>1, <1>2, LenProperties DEF TypeInv
  <2> QED
    BY <2>1
<1> QED
  BY <1>3 DEF AttemptsOK, Progress

LEMMA ClientOrder ==
  ASSUME TypeInv, AttemptsOK, PostsOK, OrderOK, NEW x \in Messages,
         Begin(x) \/ ClientStep(x) \/ PostFails(x) \/ PostTruncated(x)
  PROVE  OrderOK'
<1>1. reached' = reached
  BY DEF Begin, ClientStep, Lookup, Post, ReadAnswer, Awake, PostFails, PostTruncated, server
<1>2. PICK place \in Stages : stage' = [stage EXCEPT ![x] = place]
  BY DEF Begin, ClientStep, Lookup, Post, ReadAnswer, Awake, PostFails, PostTruncated,
         AttemptFails, Goto, Stages, Finals
<1>3. ~Ended(x) /\ (stage[x] = "new" => Begin(x))
  BY DEF Begin, ClientStep, Lookup, Post, ReadAnswer, Awake, PostFails, PostTruncated,
         Ended, Finals
<1>4. stage \in [Messages -> Stages] /\ Order \in [Messages -> Nat]
  BY SendAssumption DEF TypeInv
<1>5. ASSUME NEW m \in Messages, NEW o \in Messages, Earlier(m, o), stage'[o] # "new"
      PROVE  Ended(m)'
  <2>1. CASE o # x \/ stage[x] # "new"
    <3>1. stage[o] # "new"
      BY <1>2, <1>4, <1>5, <2>1
    <3>2. Ended(m)
      BY <1>5, <3>1 DEF OrderOK
    <3> QED
      BY <1>2, <1>3, <1>4, <3>2 DEF Ended
  <2>2. CASE o = x /\ stage[x] = "new"
    <3>1. m # o /\ ~(Order[m] > Order[o]) /\ Sender[m] = Sender[o]
      BY <1>4, <1>5 DEF Earlier
    <3>2. Ended(m)
      BY <1>3, <2>2, <3>1 DEF Begin
    <3> QED
      BY <1>2, <1>3, <1>4, <3>2 DEF Ended
  <2> QED
    BY <2>1, <2>2
<1>6. ASSUME NEW m \in Messages, NEW o \in Messages, Earlier(m, o), stage'[m] = "delivered",
             NEW j \in DOMAIN reached, reached[j] = o
      PROVE  \E i \in DOMAIN reached : i < j /\ reached[i] = m
  <2>1. Ended(m)
    <3>1. stage[o] # "new"
      BY <1>6, ArrivedHasBegun DEF Arrived
    <3> QED
      BY <1>6, <3>1 DEF OrderOK
  <2>2. stage[m] = "delivered"
    BY <1>2, <1>3, <1>4, <1>6, <2>1
  <2> QED
    BY <1>6, <2>2 DEF OrderOK
<1> QED
  BY <1>1, <1>5, <1>6 DEF OrderOK, Earlier

\* What arrives comes after all that was delivered.
LEMMA ArrivalOrder ==
  ASSUME TypeInv, PostsOK, OrderOK, stage' = stage, NEW x \in Messages,
         reached' = reached \/ Arrive(x)
  PROVE  OrderOK'
<1>1. CASE reached' = reached
  BY <1>1 DEF OrderOK, Earlier, Ended
<1>2. CASE Arrive(x)
  <2> DEFINE n == Len(reached)
  <2>1. /\ n \in Nat /\ DOMAIN reached = 1 .. n /\ DOMAIN reached' = 1 .. n + 1
        /\ \A i \in 1 .. n : reached'[i] = reached[i]
    BY <1>2, AppendProperties, LenProperties DEF TypeInv, Arrive
  <2>2. ASSUME NEW m \in Messages, NEW o \in Messages, Earlier(m, o), stage[m] = "delivered",
               NEW j \in DOMAIN reached', reached'[j] = o
        PROVE  \E i \in DOMAIN reached' : i < j /\ reached'[i] = m
    <3>1. PICK i \in DOMAIN reached : i < j /\ reached[i] = m
      <4>1. CASE j \in 1 .. n
        BY <2>1, <2>2, <4>1 DEF OrderOK
      <4>2. CASE j = n + 1
        BY <2>1, <2>2, <4>2 DEF PostsOK, Arrived
      <4> QED
        BY <2>1, <4>1, <4>2
    <3> QED
      BY <2>1, <3>1
  <2> QED
    BY <2>2 DEF OrderOK, Earlier, Ended
<1> QED
  BY <1>1, <1>2

-----------------------------------------------------------------------------
(* The invariant of the specification.                                     *)

IInv == TypeInv /\ BucketInv /\ AttemptsOK /\ PostsOK /\ OrderOK

LEMMA InvariantInitially == Init => IInv
<1> SUFFICES ASSUME Init PROVE IInv
  OBVIOUS
<1>1. TypeInv
  <2>1. /\ MaxAttempts \in Nat /\ MaxClock \in Nat /\ MaxFailures \in Nat /\ Capacity \in Nat
    BY SendAssumption, Numbers
  <2> QED
    BY <2>1, EmptySeq DEF Init, TypeInv, Stages, Recipients
<1>2. BucketInv
  BY DEF Init, BucketInv, Paid, Allowance
<1>3. AttemptsOK
  <2>1. \A m \in Messages : tried[m] = <<>> /\ stage[m] = "new" /\ Len(tried[m]) = 0
    BY DEF Init
  <2> QED
    BY <2>1, SendAssumption DEF AttemptsOK, Progress, Backing
<1>4. PostsOK
  <2>1. network = {} /\ reached = <<>> /\ DOMAIN reached = {}
    BY DEF Init
  <2>2. ASSUME NEW m \in Messages
        PROVE  CopiesOf(m) + Cardinality(Open(m)) <= Len(tried[m])
    <3>1. {i \in DOMAIN reached : reached[i] = m} = {} /\ Open(m) = {}
      BY <2>1 DEF Open
    <3>2. CopiesOf(m) = 0 /\ Cardinality(Open(m)) = 0
      BY <3>1, FS_EmptySet DEF CopiesOf
    <3> QED
      BY <3>2 DEF Init
  <2> QED
    BY <2>1, <2>2 DEF PostsOK, Init
<1>5. OrderOK
  BY DEF Init, OrderOK
<1> QED
  BY <1>1, <1>2, <1>3, <1>4, <1>5 DEF IInv

\* The bucket is touched by what passes the rate limit only.
LEMMA BucketUntouched ==
  ASSUME BucketInv, UNCHANGED <<buckets, admitted>>
  PROVE  BucketInv'
BY DEF BucketInv, Paid, Allowance, Limited, Capacity, Cost

LEMMA InvariantKept == IInv /\ [Next]_vars => IInv'
<1> SUFFICES ASSUME IInv, [Next]_vars PROVE IInv'
  OBVIOUS
<1> USE DEF IInv
<1>1. ASSUME NEW m \in Messages, Begin(m) \/ ClientStep(m) \/ PostFails(m) \/ PostTruncated(m)
      PROVE  IInv'
  <2>1. TypeInv'
    BY <1>1, ClientTypes, AttemptIsCounted
  <2>2. BucketInv'
    <3>1. CASE Lookup(m) /\ Consume(Key[m])
      <4>1. Key[m] \in Principals
        BY SendAssumption
      <4> QED
        BY <3>1, <4>1, ConsumePays DEF Lookup
    <3>2. CASE UNCHANGED <<buckets, admitted>>
      BY <3>2, BucketUntouched
    <3> QED
      BY <1>1, <3>1, <3>2
      DEF Begin, ClientStep, Lookup, Post, ReadAnswer, Awake, PostFails, PostTruncated, server
  <2> QED
    BY <1>1, <2>1, <2>2, ClientAttempts, ClientPosts, ClientOrder
<1>2. ASSUME NEW post \in network, BrokerStep(post) \/ DialFails(post)
      PROVE  IInv'
  <2>1. post.message \in Messages /\ Key[post.message] \in Principals
    BY SendAssumption DEF TypeInv, Posts
  <2>2. TypeInv' /\ PostsOK'
    BY <1>2, BrokerTypes, BrokerPosts
  <2>3. BucketInv'
    <3>1. CASE Handle(post)
      BY <2>1, <3>1, ConsumePays DEF Handle
    <3>2. CASE UNCHANGED <<buckets, admitted>>
      BY <3>2, BucketUntouched
    <3> QED
      BY <1>2, <3>1, <3>2 DEF BrokerStep, Route, Execute, Executed, DialFails, server
  <2>4. UNCHANGED <<stage, attempt, wake, tried, clock>>
    BY <1>2 DEF BrokerStep, Handle, Route, Execute, Executed, DialFails, client
  <2>5. AttemptsOK'
    BY <2>4 DEF AttemptsOK, Progress, Backing, Due, Pause, DelayFor
  <2>6. reached' = reached \/ Arrive(post.message)
    BY <1>2 DEF BrokerStep, Handle, Route, Execute, Executed, DialFails, server
  <2>7. OrderOK'
    BY <2>1, <2>4, <2>6, ArrivalOrder
  <2> QED
    BY <2>2, <2>3, <2>5, <2>7
<1>3. ASSUME RecipientChanges \/ Tick \/ UNCHANGED vars
      PROVE  IInv'
  <2>1. TypeInv'
    BY <1>3, OtherTypes
  <2>2. /\ UNCHANGED <<stage, attempt, wake, tried, answer, buckets, admitted, reached, network>>
        /\ clock' >= clock
    BY <1>3 DEF RecipientChanges, Tick, vars, client, server, TypeInv
  <2>3. BucketInv'
    BY <2>2, BucketUntouched
  <2>4. AttemptsOK'
    <3>1. ASSUME NEW m \in Messages
          PROVE  Progress(m)' /\ Backing(m)'
      <4>1. Progress(m)'
        BY <2>2 DEF AttemptsOK, Progress
      <4>2. stage[m] = "post" /\ tried[m] # <<>> => clock' >= Due(m)
        <5>1. ASSUME stage[m] = "post", tried[m] # <<>> PROVE clock' >= Due(m)
          <6>1. Due(m) \in Int
            BY <5>1, DueIsInteger
          <6>2. clock \in Nat /\ clock' \in Nat
            BY <2>1 DEF TypeInv
          <6> QED
            BY <2>2, <5>1, <6>1, <6>2 DEF AttemptsOK, Backing
        <5> QED
          BY <5>1
      <4>3. Backing(m)'
        BY <2>2, <4>2 DEF AttemptsOK, Backing, Due, Pause, DelayFor
      <4> QED
        BY <4>1, <4>3
    <3> QED
      BY <3>1 DEF AttemptsOK
  <2>5. PostsOK'
    BY <2>2, PostsShrink
  <2>6. OrderOK'
    BY <2>2 DEF OrderOK, Ended
  <2> QED
    BY <2>1, <2>3, <2>4, <2>5, <2>6
<1> QED
  BY <1>1, <1>2, <1>3 DEF Next

THEOREM Invariance == Spec => []IInv
BY InvariantInitially, InvariantKept, PTL DEF Spec

\* TypeOK: the variables keep their types; a bucket holds no more than its
\* capacity, and no message has more attempts than the policy allows.
THEOREM SendingTypes == Spec => []TypeOK
<1>1. IInv => TypeOK
  BY DEF IInv, TypeInv, TypeOK
<1> QED
  BY <1>1, Invariance, PTL

\* Allowance: for any rate, number of principals and interleaving of their
\* requests, no more of a principal's requests pass the token bucket of
\* _rate_limit.py in any window than its capacity and the refill of the window.
THEOREM LimitHolds == Spec => []Allowance
<1>1. IInv => Allowance
  BY DEF IInv, BucketInv
<1> QED
  BY <1>1, Invariance, PTL

\* BacksOff: for any retry policy the attempts of retry_call are separated by the
\* delays of the policy.
THEOREM AttemptsBackOff == Spec => []BacksOff
<1>1. IInv => BacksOff
  BY DEF IInv, AttemptsOK, Backing, BacksOff, DelayFor
<1> QED
  BY <1>1, Invariance, PTL

\* OutcomeHonest: what route() returns or raises is true of what arrived: a
\* delivery has arrived, a failed lookup has not, and no message arrives more
\* often than it was tried.
THEOREM OutcomesTrue == Spec => []OutcomeHonest
<1>1. ASSUME IInv, NEW m \in Messages
      PROVE  /\ stage[m] = "delivered" => CopiesOf(m) >= 1
             /\ stage[m] = "lookup_error" => CopiesOf(m) = 0
             /\ CopiesOf(m) <= Len(tried[m]) /\ Len(tried[m]) <= MaxAttempts
  <2>1. /\ CopiesOf(m) \in Nat /\ (CopiesOf(m) = 0 <=> ~Arrived(m))
        /\ Cardinality(Open(m)) \in Nat /\ Len(tried[m]) \in Nat
    BY <1>1, CopiesType, LenProperties DEF IInv, TypeInv
  <2>2. /\ CopiesOf(m) + Cardinality(Open(m)) <= Len(tried[m])
        /\ stage[m] = "delivered" => Arrived(m)
    BY <1>1 DEF IInv, PostsOK
  <2>3. /\ stage[m] = "lookup_error" => Len(tried[m]) = 0
        /\ Len(tried[m]) <= MaxAttempts
    BY <1>1 DEF IInv, AttemptsOK, Progress
  <2> QED
    BY <2>1, <2>2, <2>3
<1>2. IInv => OutcomeHonest
  BY <1>1 DEF OutcomeHonest
<1> QED
  BY <1>2, Invariance, PTL

\* SendOrder: the first copies of what one thread delivers arrive in the order of
\* its program, for any number of threads and messages and however late the posts
\* of earlier attempts are handled.
THEOREM OrderSurvives == Spec => []SendOrder
<1>1. ASSUME IInv, NEW m \in Messages, NEW o \in Messages, Earlier(m, o),
             stage[m] = "delivered", CopiesOf(o) > 0
      PROVE  FirstAt(m) < FirstAt(o)
  <2> DEFINE A(x) == {i \in DOMAIN reached : reached[i] = x}
  <2>1. DOMAIN reached \subseteq Nat
    <3>1. reached \in Seq(Messages)
      BY <1>1 DEF IInv, TypeInv
    <3>2. DOMAIN reached = 1 .. Len(reached) /\ Len(reached) \in Nat
      BY <3>1, LenProperties
    <3> QED
      BY <3>2
  <2>2. A(o) # {}
    <3>1. CopiesOf(o) # 0
      BY <1>1
    <3> QED
      BY <1>1, <3>1, CopiesType DEF IInv, Arrived
  <2>3. A(o) \in SUBSET Nat /\ A(m) \in SUBSET Nat
    BY <2>1
  <2>4. FirstAt(o) \in A(o)
    BY <2>2, <2>3, MinOfNaturals DEF FirstAt
  <2>5. PICK i \in DOMAIN reached : i < FirstAt(o) /\ reached[i] = m
    BY <1>1, <2>4 DEF IInv, OrderOK
  <2>6. i \in A(m) /\ A(m) # {}
    BY <2>5
  <2>7. FirstAt(m) \in A(m) /\ FirstAt(m) <= i
    BY <2>3, <2>6, MinOfNaturals DEF FirstAt
  <2> QED
    BY <2>1, <2>4, <2>5, <2>7
<1>2. IInv => SendOrder
  BY <1>1 DEF SendOrder, Earlier
<1> QED
  BY <1>2, Invariance, PTL

=============================================================================
