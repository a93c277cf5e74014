--------------------------- MODULE DeliveryProofs ---------------------------
(***************************************************************************)
(* Proofs about what Broker promises of a queued message: it is in exactly *)
(* one place, and each mailbox is first in, first out.                     *)
(***************************************************************************)
EXTENDS BrokerProofs

-----------------------------------------------------------------------------
(* The inductive invariant.                                                *)

\* Only messages that were accepted are anywhere.
OnlyAccepted == \A p \in Places : Contents(p) \subseteq 1 .. accepted

\* Only a poll that is about to answer holds messages.
BatchesOfReplies == \A t \in Threads : batch[t] # <<>> => pc[t] = "poll_reply"

DInv == /\ TypeOK /\ BatchesOfReplies /\ OnlyAccepted
        /\ MessageConservation /\ FifoMailbox

-----------------------------------------------------------------------------
(* Places.                                                                 *)

\* What each place holds.
LEMMA ContentsOfPlaces ==
  /\ \A a : Contents(QueueOf(a)) = Range(mailboxes[a])
  /\ \A t : Contents(ReplyOf(t)) = Range(batch[t])
  /\ \A a : Contents(ClientOf(a)) = received[a]
  /\ Contents(Lost) = lost
BY DEF Contents, QueueOf, ReplyOf, ClientOf, Lost

LEMMA ContentsOfPlacesNext ==
  /\ \A a : Contents(QueueOf(a))' = Range(mailboxes'[a])
  /\ \A t : Contents(ReplyOf(t))' = Range(batch'[t])
  /\ \A a : Contents(ClientOf(a))' = received'[a]
  /\ Contents(Lost)' = lost'
BY DEF Contents, QueueOf, ReplyOf, ClientOf, Lost

LEMMA PlacesAre ==
  \A p : p \in Places <=>
            \/ \E a \in DOMAIN mailboxes : p = QueueOf(a)
            \/ \E t \in Threads : p = ReplyOf(t)
            \/ \E a \in Agents : p = ClientOf(a)
            \/ p = Lost
BY DEF Places

LEMMA PlacesAreNext ==
  \A p : p \in Places' <=>
            \/ \E a \in DOMAIN mailboxes' : p = QueueOf(a)
            \/ \E t \in Threads : p = ReplyOf(t)
            \/ \E a \in Agents : p = ClientOf(a)
            \/ p = Lost
BY DEF Places

\* Different places are different.
LEMMA PlacesDiffer ==
  /\ \A a, b : QueueOf(a) = QueueOf(b) => a = b
  /\ \A t, u : ReplyOf(t) = ReplyOf(u) => t = u
  /\ \A a, b : ClientOf(a) = ClientOf(b) => a = b
  /\ \A a, t : QueueOf(a) # ReplyOf(t) /\ QueueOf(a) # ClientOf(t) /\ QueueOf(a) # Lost
  /\ \A a, t : ReplyOf(t) # ClientOf(a) /\ ReplyOf(t) # Lost
  /\ \A a : ClientOf(a) # Lost
BY DEF QueueOf, ReplyOf, ClientOf, Lost

\* The messages of a queue.
LEMMA RangeOfEmpty == Range(<<>>) = {}
BY DEF Range

LEMMA RangeOfAppend ==
  ASSUME NEW s \in Seq(Nat), NEW m \in Nat
  PROVE  Range(Append(s, m)) = Range(s) \cup {m}
<1>1. ASSUME NEW i \in DOMAIN Append(s, m)
      PROVE  Append(s, m)[i] \in Range(s) \cup {m}
  BY DEF Range
<1>2. ASSUME NEW i \in DOMAIN s
      PROVE  i \in DOMAIN Append(s, m) /\ Append(s, m)[i] = s[i]
  OBVIOUS
<1>3. Len(s) + 1 \in DOMAIN Append(s, m) /\ Append(s, m)[Len(s) + 1] = m
  OBVIOUS
<1> QED
  BY <1>1, <1>2, <1>3 DEF Range

\* Messages move from the places of S to q, and at most empty places come or go:
\* every message is still in exactly one place.
LEMMA Relocation ==
  ASSUME OnlyAccepted, MessageConservation, accepted' = accepted,
         NEW S, NEW q \in Places, q \in Places', q \notin S,
         \A m : m \in Contents(q)' <=>
                  m \in Contents(q) \/ \E p \in Places : p \in S /\ m \in Contents(p),
         \A p \in Places' : p # q /\ p \in S => Contents(p)' = {},
         \A p \in Places' : p # q /\ p \notin Places => Contents(p)' = {},
         \A p \in Places' : p # q /\ p \notin S /\ p \in Places
                              => Contents(p)' = Contents(p),
         \A p \in Places : p \notin Places' => p \in S \/ Contents(p) = {}
  PROVE  OnlyAccepted' /\ MessageConservation'
<1>1. OnlyAccepted'
  BY DEF OnlyAccepted
<1>2. ASSUME NEW m \in 1 .. accepted
      PROVE  \E p \in Places' :
               /\ m \in Contents(p)'
               /\ \A r \in Places' : m \in Contents(r)' => r = p
  <2>1. PICK p \in Places : /\ m \in Contents(p)
                            /\ \A r \in Places : m \in Contents(r) => r = p
    BY DEF MessageConservation
  <2>2. CASE p \in S \/ p = q
    <3>1. m \in Contents(q)'
      BY <2>1, <2>2
    <3>2. \A r \in Places' : m \in Contents(r)' => r = q
      BY <2>1, <2>2
    <3> QED
      BY <3>1, <3>2
  <2>3. CASE p \notin S /\ p # q
    <3>1. p \in Places' /\ m \in Contents(p)'
      BY <2>1, <2>3
    <3>2. \A r \in Places' : m \in Contents(r)' => r = p
      BY <2>1, <2>3
    <3> QED
      BY <3>1, <3>2
  <2> QED
    BY <2>2, <2>3
<1> QED
  BY <1>1, <1>2 DEF MessageConservation

-----------------------------------------------------------------------------
(* Conservation: the kinds of step.                                        *)

Conserved == OnlyAccepted /\ MessageConservation

\* No message moves; at most an empty queue appears.
LEMMA NewQueueConserves ==
  ASSUME DInv, NEW a,
         mailboxes' \in {mailboxes, SetDefault(mailboxes, a, <<>>)},
         UNCHANGED <<batch, received, lost, accepted>>
  PROVE  Conserved'
<1>1. \A b \in DOMAIN mailboxes : b \in DOMAIN mailboxes' /\ mailboxes'[b] = mailboxes[b]
  BY DEF SetDefault, Put
<1>2. \A b \in DOMAIN mailboxes' : b \notin DOMAIN mailboxes => mailboxes'[b] = <<>>
  BY DEF SetDefault, Put
<1>3. \A p \in Places : p \in Places' /\ Contents(p)' = Contents(p)
  BY <1>1, PlacesAre, PlacesAreNext, ContentsOfPlaces, ContentsOfPlacesNext
<1>4. \A p \in Places' : p \notin Places => Contents(p)' = {}
  BY <1>2, PlacesAre, PlacesAreNext, ContentsOfPlacesNext, RangeOfEmpty
<1> QED
  BY <1>3, <1>4 DEF Conserved, DInv, OnlyAccepted, MessageConservation

\* A poll moves what is in its agent's queue into its answer.
LEMMA TakeAllConserves ==
  ASSUME DInv, NEW t \in Threads, pc[t] \in {"poll_enter", "poll_wait"}, TakeAll(t)
  PROVE  Conserved'
<1>a. PICK a : a = req[t].agent
  OBVIOUS
<1>1. CASE a \notin DOMAIN mailboxes
  BY <1>a, <1>1, NewQueueConserves, RequestFields DEF TakeAll, DInv, history
<1>2. CASE a \in DOMAIN mailboxes
  <2>1. /\ DOMAIN mailboxes' = DOMAIN mailboxes
        /\ mailboxes'[a] = <<>>
        /\ \A b \in DOMAIN mailboxes : b # a => mailboxes'[b] = mailboxes[b]
    BY <1>a, <1>2 DEF TakeAll, Put
  <2>2. /\ batch'[t] = mailboxes[a] /\ batch[t] = <<>>
        /\ \A u \in Threads : u # t => batch'[u] = batch[u]
    BY <1>a, <1>2 DEF TakeAll, DInv, TypeOK, ThreadsOK, BatchesOfReplies
  <2>3. UNCHANGED <<received, lost, accepted>>
    BY DEF TakeAll, history
  <2>4. Places' = Places /\ QueueOf(a) \in Places /\ ReplyOf(t) \in Places
    BY <1>2, <2>1, PlacesAre, PlacesAreNext
  <2>5. /\ Contents(QueueOf(a))' = {}
        /\ Contents(ReplyOf(t)) = {}
        /\ Contents(ReplyOf(t))' = Contents(QueueOf(a))
    BY <2>1, <2>2, ContentsOfPlaces, ContentsOfPlacesNext, RangeOfEmpty
  <2>6. \A p \in Places : p # QueueOf(a) /\ p # ReplyOf(t) => Contents(p)' = Contents(p)
    BY <2>1, <2>2, <2>3, PlacesAre, ContentsOfPlaces, ContentsOfPlacesNext
  <2>7. QueueOf(a) # ReplyOf(t)
    BY PlacesDiffer
  <2> QED
    BY <2>3, <2>4, <2>5, <2>6, <2>7 DEF Conserved, DInv, OnlyAccepted, MessageConservation
<1> QED
  BY <1>1, <1>2

\* An answer moves its messages to the client, or loses them with the connection.
LEMMA PollReplyConserves ==
  ASSUME DInv, NEW t \in Threads, PollReply(t)
  PROVE  Conserved'
<1>a. PICK a \in Agents : a = req[t].agent
  BY RequestFields DEF DInv, PollReply
<1>1. /\ batch'[t] = <<>>
      /\ \A u \in Threads : u # t => batch'[u] = batch[u]
  BY DEF DInv, TypeOK, ThreadsOK, PollReply
<1>2. mailboxes' = mailboxes /\ accepted' = accepted
  BY DEF PollReply, tables
<1>3. Places' = Places /\ ReplyOf(t) \in Places
  BY <1>2, PlacesAre, PlacesAreNext
<1>4. Contents(ReplyOf(t))' = {}
  BY <1>1, ContentsOfPlacesNext, RangeOfEmpty
<1>5. ASSUME NEW q \in Places, q # ReplyOf(t),
             Contents(q)' = Contents(q) \cup Contents(ReplyOf(t)),
             \A p \in Places : p # q /\ p # ReplyOf(t) => Contents(p)' = Contents(p)
      PROVE  Conserved'
  BY <1>2, <1>3, <1>4, <1>5 DEF Conserved, DInv, OnlyAccepted, MessageConservation
<1>6. CASE /\ received' = [received EXCEPT ![a] = @ \cup Range(batch[t])]
           /\ UNCHANGED lost
  <2>1. /\ received'[a] = received[a] \cup Range(batch[t])
        /\ \A b \in Agents : b # a => received'[b] = received[b]
    BY <1>6 DEF DInv, TypeOK, HistoryOK
  <2>2. Contents(ClientOf(a))' = Contents(ClientOf(a)) \cup Contents(ReplyOf(t))
    BY <2>1, ContentsOfPlaces, ContentsOfPlacesNext
  <2>3. \A p \in Places : p # ClientOf(a) /\ p # ReplyOf(t) => Contents(p)' = Contents(p)
    BY <1>1, <1>2, <1>6, <2>1, PlacesAre, ContentsOfPlaces, ContentsOfPlacesNext
  <2>4. ClientOf(a) \in Places /\ ClientOf(a) # ReplyOf(t)
    BY PlacesAre, PlacesDiffer
  <2> QED
    BY <1>5, <2>2, <2>3, <2>4
<1>7. CASE lost' = lost \cup Range(batch[t]) /\ UNCHANGED received
  <2>1. Contents(Lost)' = Contents(Lost) \cup Contents(ReplyOf(t))
    BY <1>7, ContentsOfPlaces, ContentsOfPlacesNext
  <2>2. \A p \in Places : p # Lost /\ p # ReplyOf(t) => Contents(p)' = Contents(p)
    BY <1>1, <1>2, <1>7, PlacesAre, ContentsOfPlaces, ContentsOfPlacesNext
  <2>3. Lost \in Places /\ Lost # ReplyOf(t)
    BY PlacesAre, PlacesDiffer
  <2> QED
    BY <1>5, <2>1, <2>2, <2>3
<1> QED
  BY <1>a, <1>6, <1>7 DEF PollReply

\* A mailbox that is dropped loses what is in it.
LEMMA PopMailboxConserves ==
  ASSUME DInv, NEW a \in Agents, PopMailbox(a), UNCHANGED <<batch, received, accepted>>
  PROVE  Conserved'
<1>1. /\ DOMAIN mailboxes' = DOMAIN mailboxes \ {a}
      /\ \A b \in DOMAIN mailboxes' : mailboxes'[b] = mailboxes[b]
  BY DEF PopMailbox, Pop, Restrict
<1>2. \A p : p \in Places' <=> p \in Places /\ p # QueueOf(a)
  BY <1>1, PlacesAre, PlacesAreNext, PlacesDiffer
<1>3. \A p \in Places' : p # Lost => Contents(p)' = Contents(p)
  BY <1>1, PlacesAreNext, ContentsOfPlaces, ContentsOfPlacesNext
<1>4. Lost \in Places /\ Lost # QueueOf(a)
  BY PlacesAre, PlacesDiffer
<1>5. Contents(Lost)' = Contents(Lost) \cup
                          (IF QueueOf(a) \in Places THEN Contents(QueueOf(a)) ELSE {})
  <2>1. QueueOf(a) \in Places <=> a \in DOMAIN mailboxes
    BY PlacesAre, PlacesDiffer
  <2>2. lost' = lost \cup (IF a \in DOMAIN mailboxes THEN Range(mailboxes[a]) ELSE {})
    BY DEF PopMailbox
  <2>3. /\ Contents(Lost)' = lost' /\ Contents(Lost) = lost
        /\ Contents(QueueOf(a)) = Range(mailboxes[a])
    BY ContentsOfPlaces, ContentsOfPlacesNext
  <2> QED
    BY <2>1, <2>2, <2>3
<1> QED
  BY <1>2, <1>3, <1>4, <1>5 DEF Conserved, DInv, OnlyAccepted, MessageConservation

\* A new message is in the queue it was appended to, and nowhere else.
LEMMA EnqueueConserves ==
  ASSUME DInv, NEW t \in Threads, Enqueue(t)
  PROVE  Conserved'
<1>a. PICK a \in Agents : a = req[t].agent
  BY RequestFields DEF DInv, Enqueue
<1> DEFINE queue == IF a \in DOMAIN mailboxes THEN mailboxes[a] ELSE <<>>
<1>1. accepted \in Nat /\ accepted' = accepted + 1
  BY DEF DInv, TypeOK, HistoryOK, Enqueue
<1>2. /\ DOMAIN mailboxes' = DOMAIN mailboxes \cup {a}
      /\ mailboxes'[a] = Append(queue, accepted')
      /\ \A b \in DOMAIN mailboxes : b # a => mailboxes'[b] = mailboxes[b]
  BY <1>a DEF Enqueue, Put, SetDefault
<1>3. UNCHANGED <<batch, received, lost>>
  BY DEF Enqueue
<1>4. queue \in Seq(Nat)
  BY DEF DInv, TypeOK, TablesOK, IsDict
<1> HIDE DEF queue
<1>5. \A p : p \in Places' <=> p \in Places \/ p = QueueOf(a)
  BY <1>2, PlacesAre, PlacesAreNext
<1>6. \A p \in Places : p # QueueOf(a) => Contents(p)' = Contents(p)
  BY <1>2, <1>3, PlacesAre, ContentsOfPlaces, ContentsOfPlacesNext
<1>7. Contents(QueueOf(a))' = {accepted + 1} \cup
                                (IF QueueOf(a) \in Places THEN Contents(QueueOf(a)) ELSE {})
  <2>1. Contents(QueueOf(a))' = Range(queue) \cup {accepted + 1}
    <3>1. Range(Append(queue, accepted + 1)) = Range(queue) \cup {accepted + 1}
      BY <1>1, <1>4, RangeOfAppend
    <3>2. Contents(QueueOf(a))' = Range(mailboxes'[a])
      BY ContentsOfPlacesNext
    <3> QED
      BY <1>1, <1>2, <3>1, <3>2
  <2>2. QueueOf(a) \in Places <=> a \in DOMAIN mailboxes
    BY PlacesAre, PlacesDiffer
  <2> QED
    BY <2>1, <2>2, ContentsOfPlaces, RangeOfEmpty DEF queue
<1>8. OnlyAccepted'
  BY <1>1, <1>5, <1>6, <1>7 DEF DInv, OnlyAccepted
<1>9. ASSUME NEW m \in 1 .. accepted'
      PROVE  \E p \in Places' : /\ m \in Contents(p)'
                               /\ \A q \in Places' : m \in Contents(q)' => q = p
  <2>1. CASE m = accepted + 1
    <3>1. \A q \in Places : m \notin Contents(q)
      BY <1>1, <2>1 DEF DInv, OnlyAccepted
    <3> QED
      BY <1>5, <1>6, <1>7, <2>1, <3>1
  <2>2. CASE m \in 1 .. accepted
    <3>1. PICK p \in Places : /\ m \in Contents(p)
                              /\ \A q \in Places : m \in Contents(q) => q = p
      BY <2>2 DEF DInv, MessageConservation
    <3>2. m # accepted + 1
      BY <1>1, <2>2
    <3> QED
      BY <1>5, <1>6, <1>7, <3>1, <3>2
  <2> QED
    BY <1>1, <2>1, <2>2
<1> QED
  BY <1>8, <1>9 DEF Conserved, MessageConservation

\* A restart loses what only memory holds.
LEMMA RestartConserves ==
  ASSUME DInv, Restart
  PROVE  Conserved'
<1> DEFINE S == {p \in Places : \/ \E a \in DOMAIN mailboxes : p = QueueOf(a)
                                \/ \E t \in Threads : p = ReplyOf(t)}
<1>1. /\ DOMAIN mailboxes' = {}
      /\ \A t \in Threads : batch'[t] = <<>>
      /\ UNCHANGED <<received, accepted>>
  BY DEF Restart, EmptyDict
<1>2. Lost \in Places /\ Lost \in Places' /\ Lost \notin S
  BY PlacesAre, PlacesAreNext, PlacesDiffer
<1>3. \A p \in Places' : p \in Places /\ (p \in S => Contents(p)' = {})
  BY <1>1, PlacesAre, PlacesAreNext, PlacesDiffer, ContentsOfPlacesNext, RangeOfEmpty
<1>4. \A p \in Places' : p # Lost /\ p \notin S => Contents(p)' = Contents(p)
  BY <1>1, PlacesAre, PlacesAreNext, ContentsOfPlaces, ContentsOfPlacesNext
<1>5. \A p \in Places : p \notin Places' => p \in S
  BY PlacesAre, PlacesAreNext
<1>6. \A m : m \in Contents(Lost)' <=>
               m \in Contents(Lost) \/ \E p \in Places : p \in S /\ m \in Contents(p)
  <2>1. \A m : m \in InQueues <=> \E a \in DOMAIN mailboxes : m \in Range(mailboxes[a])
    BY DEF InQueues
  <2>2. \A m : m \in InBatches <=> \E t \in Threads : m \in Range(batch[t])
    BY DEF InBatches
  <2> QED
    BY <2>1, <2>2, PlacesAre, ContentsOfPlaces, ContentsOfPlacesNext DEF Restart
<1> QED
  BY <1>1, <1>2, <1>3, <1>4, <1>5, <1>6, Relocation DEF DInv, Conserved

-----------------------------------------------------------------------------
(* First in, first out: the same kinds of step.                            *)

\* Queues and answers hold accepted messages, and so does every client.
LEMMA HeldAreAccepted ==
  ASSUME DInv
  PROVE  /\ accepted \in Nat
         /\ \A a \in DOMAIN mailboxes : /\ a \in Agents /\ mailboxes[a] \in Seq(Nat)
                                       /\ \A i \in DOMAIN mailboxes[a] :
                                            mailboxes[a][i] \in 1 .. accepted
         /\ \A a \in Agents : Drained(a) \subseteq 1 .. accepted
<1>1. accepted \in Nat /\ \A a \in DOMAIN mailboxes : a \in Agents /\ mailboxes[a] \in Seq(Nat)
  BY DEF DInv, TypeOK, HistoryOK, TablesOK, IsDict
<1>2. \A a \in DOMAIN mailboxes : Range(mailboxes[a]) \subseteq 1 .. accepted
  BY PlacesAre, ContentsOfPlaces DEF DInv, OnlyAccepted
<1>3. \A a \in Agents : received[a] \subseteq 1 .. accepted
  BY PlacesAre, ContentsOfPlaces DEF DInv, OnlyAccepted
<1>4. \A t \in Threads : Range(batch[t]) \subseteq 1 .. accepted
  BY PlacesAre, ContentsOfPlaces DEF DInv, OnlyAccepted
<1>5. \A a \in DOMAIN mailboxes : \A i \in DOMAIN mailboxes[a] :
        mailboxes[a][i] \in 1 .. accepted
  BY <1>2 DEF Range
<1>6. \A a \in Agents : Drained(a) \subseteq 1 .. accepted
  BY <1>3, <1>4 DEF Drained
<1> QED
  BY <1>1, <1>5, <1>6

\* Who has drained what, member by member.
LEMMA DrainedAre ==
  \A a, m : m \in Drained(a) <=>
     m \in received[a] \/ \E t \in Threads : req[t].agent = a /\ m \in Range(batch[t])
BY DEF Drained

LEMMA DrainedAreNext ==
  \A a, m : m \in Drained(a)' <=>
     m \in received'[a] \/ \E t \in Threads : req'[t].agent = a /\ m \in Range(batch'[t])
BY DEF Drained

\* Queues that are kept as they are, dropped or new stay in order as long as
\* nothing more has been drained.
LEMMA KeptQueuesFifo ==
  ASSUME FifoMailbox,
         \A a \in DOMAIN mailboxes' :
           \/ mailboxes'[a] = <<>>
           \/ /\ a \in DOMAIN mailboxes /\ mailboxes'[a] = mailboxes[a]
              /\ Drained(a)' \subseteq Drained(a)
  PROVE  FifoMailbox'
<1> SUFFICES ASSUME NEW a \in DOMAIN mailboxes'
             PROVE  /\ Increasing(mailboxes'[a])
                    /\ \A m \in Drained(a)', i \in DOMAIN mailboxes'[a] :
                         m < mailboxes'[a][i]
  BY DEF FifoMailbox
<1>1. CASE mailboxes'[a] = <<>>
  BY <1>1 DEF Increasing
<1>2. CASE /\ a \in DOMAIN mailboxes /\ mailboxes'[a] = mailboxes[a]
           /\ Drained(a)' \subseteq Drained(a)
  BY <1>2 DEF FifoMailbox
<1> QED
  BY <1>1, <1>2

\* A thread that holds no messages may take another request.
LEMMA DrainedKept ==
  ASSUME DInv, NEW t \in Threads, pc[t] # "poll_reply",
         \A u \in Threads \ {t} : req'[u] = req[u], batch' = batch, received' = received
  PROVE  \A a \in Agents : Drained(a)' \subseteq Drained(a)
<1>1. Range(batch[t]) = {}
  BY RangeOfEmpty DEF DInv, BatchesOfReplies
<1> QED
  BY <1>1, DrainedAre, DrainedAreNext

LEMMA TakeAllFifo ==
  ASSUME DInv, NEW t \in Threads, TakeAll(t)
  PROVE  FifoMailbox'
<1>a. PICK a : a = req[t].agent
  OBVIOUS
<1>1. req' = req /\ received' = received /\ \A u \in Threads \ {t} : batch'[u] = batch[u]
  BY DEF TakeAll, history, DInv, TypeOK, ThreadsOK
<1>2. CASE a \notin DOMAIN mailboxes
  BY <1>a, <1>1, <1>2, KeptQueuesFifo, DrainedAre, DrainedAreNext DEF DInv, TakeAll
<1>3. CASE a \in DOMAIN mailboxes
  <2>1. /\ DOMAIN mailboxes' = DOMAIN mailboxes
        /\ mailboxes'[a] = <<>>
        /\ \A b \in DOMAIN mailboxes : b # a => mailboxes'[b] = mailboxes[b]
    BY <1>a, <1>3 DEF TakeAll, Put
  <2>2. \A b \in DOMAIN mailboxes : b # a => Drained(b)' \subseteq Drained(b)
    BY <1>a, <1>1, DrainedAre, DrainedAreNext
  <2> QED
    BY <2>1, <2>2, KeptQueuesFifo DEF DInv
<1> QED
  BY <1>2, <1>3

LEMMA PollReplyFifo ==
  ASSUME DInv, NEW t \in Threads, PollReply(t)
  PROVE  FifoMailbox'
<1>a. PICK a \in Agents : a = req[t].agent
  BY RequestFields DEF DInv, PollReply
<1>1. /\ batch'[t] = <<>>
      /\ \A u \in Threads \ {t} : batch'[u] = batch[u] /\ req'[u] = req[u]
      /\ mailboxes' = mailboxes
  BY DEF DInv, TypeOK, ThreadsOK, PollReply, Finish, Begin, tables
<1>2. \A b \in Agents : received'[b] \subseteq
                         received[b] \cup (IF b = a THEN Range(batch[t]) ELSE {})
  BY <1>a DEF PollReply, DInv, TypeOK, HistoryOK
<1>3. \A b \in Agents : Drained(b)' \subseteq Drained(b)
  BY <1>a, <1>1, <1>2, DrainedAre, DrainedAreNext, RangeOfEmpty
<1> QED
  BY <1>1, <1>3, KeptQueuesFifo, HeldAreAccepted DEF DInv

\* A message is queued behind all that were accepted before.
LEMMA EnqueueFifo ==
  ASSUME DInv, NEW t \in Threads, Enqueue(t)
  PROVE  FifoMailbox'
<1>a. PICK a \in Agents : a = req[t].agent
  BY RequestFields DEF DInv, Enqueue
<1> DEFINE queue == IF a \in DOMAIN mailboxes THEN mailboxes[a] ELSE <<>>
<1>1. accepted \in Nat /\ accepted' = accepted + 1
  BY HeldAreAccepted DEF Enqueue
<1>2. /\ DOMAIN mailboxes' = DOMAIN mailboxes \cup {a}
      /\ mailboxes'[a] = Append(queue, accepted + 1)
      /\ \A b \in DOMAIN mailboxes : b # a => mailboxes'[b] = mailboxes[b]
  BY <1>a, <1>1 DEF Enqueue, Put, SetDefault
<1>3. \A b \in Agents : Drained(b)' \subseteq Drained(b)
  BY DrainedKept DEF Enqueue, Begin, DInv, TypeOK, ThreadsOK
<1>4. /\ queue \in Seq(Nat) /\ Increasing(queue)
      /\ \A i \in DOMAIN queue : queue[i] <= accepted
      /\ \A m \in Drained(a), i \in DOMAIN queue : m < queue[i]
  BY HeldAreAccepted DEF DInv, FifoMailbox, Increasing
<1> HIDE DEF queue
<1>5. Increasing(mailboxes'[a])
  BY <1>1, <1>2, <1>4 DEF Increasing
<1>6. ASSUME NEW m \in Drained(a)', NEW i \in DOMAIN mailboxes'[a]
      PROVE  m < mailboxes'[a][i]
  <2>1. m \in Drained(a) /\ m \in 1 .. accepted
    BY <1>3, <1>6, HeldAreAccepted
  <2>2. \/ i \in DOMAIN queue /\ mailboxes'[a][i] = queue[i]
        \/ mailboxes'[a][i] = accepted + 1
    BY <1>1, <1>2, <1>4, <1>6
  <2> QED
    BY <1>1, <1>4, <2>1, <2>2
<1>7. \A b \in DOMAIN mailboxes : b # a =>
        /\ Increasing(mailboxes'[b])
        /\ \A m \in Drained(b)', i \in DOMAIN mailboxes'[b] : m < mailboxes'[b][i]
  BY <1>2, <1>3, HeldAreAccepted DEF DInv, FifoMailbox
<1> QED
  BY <1>2, <1>5, <1>6, <1>7 DEF FifoMailbox

-----------------------------------------------------------------------------
(* The steps of the broker.                                                *)

Delivered == BatchesOfReplies /\ Conserved /\ FifoMailbox

\* A thread goes on without touching a message; at most an empty queue appears.
LEMMA MoveKeepsDelivery ==
  ASSUME DInv, NEW t \in Threads, pc[t] # "poll_reply", NEW place, Goto(t, place),
         \A u \in Threads \ {t} : req'[u] = req[u], NEW a,
         mailboxes' \in {mailboxes, SetDefault(mailboxes, a, <<>>)},
         UNCHANGED <<batch, received, lost, accepted>>
  PROVE  Delivered'
<1>1. BatchesOfReplies'
  BY DEF DInv, TypeOK, ThreadsOK, BatchesOfReplies, Goto
<1>2. \A b \in DOMAIN mailboxes' :
        mailboxes'[b] = <<>> \/ (b \in DOMAIN mailboxes /\ mailboxes'[b] = mailboxes[b])
  BY DEF SetDefault, Put
<1>3. FifoMailbox'
  BY <1>2, DrainedKept, HeldAreAccepted, KeptQueuesFifo DEF DInv
<1> QED
  BY <1>1, <1>3, NewQueueConserves DEF Delivered

\* Nothing that concerns a message changes.
LEMMA IdleKeepsDelivery ==
  ASSUME DInv, UNCHANGED <<mailboxes, pc, req, batch, received, lost, accepted>>
  PROVE  Delivered'
<1>1. BatchesOfReplies' /\ FifoMailbox'
  BY DEF DInv, BatchesOfReplies, FifoMailbox, Drained, Increasing
<1>2. Conserved'
  BY NewQueueConserves
<1> QED
  BY <1>1, <1>2 DEF Delivered

\* A mailbox is dropped by a thread that holds no messages, or by the sweep.
LEMMA PopKeepsDelivery ==
  ASSUME DInv, NEW a \in Agents, PopMailbox(a), UNCHANGED <<batch, received, accepted>>,
         \A u \in Threads : \/ req'[u] = req[u] /\ pc'[u] = pc[u]
                            \/ pc[u] # "poll_reply"
  PROVE  Delivered'
<1>1. BatchesOfReplies'
  BY DEF DInv, BatchesOfReplies
<1>2. \A b \in DOMAIN mailboxes' : b \in DOMAIN mailboxes /\ mailboxes'[b] = mailboxes[b]
  BY DEF PopMailbox, Pop, Restrict
<1>3. \A u \in Threads : req'[u] = req[u] \/ Range(batch[u]) = {}
  BY RangeOfEmpty DEF DInv, BatchesOfReplies
<1>4. \A b \in Agents : Drained(b)' \subseteq Drained(b)
  BY <1>3, DrainedAre, DrainedAreNext
<1>5. FifoMailbox'
  BY <1>2, <1>4, HeldAreAccepted, KeptQueuesFifo DEF DInv
<1> QED
  BY <1>1, <1>5, PopMailboxConserves DEF Delivered

LEMMA StartKeepsDelivery ==
  ASSUME DInv, NEW t \in Threads, StartRequest(t)
  PROVE  Delivered'
<1>1. PICK place : Goto(t, place)
  BY StartBegins DEF DInv
<1>2. pc[t] # "poll_reply" /\ \A u \in Threads \ {t} : req'[u] = req[u]
  BY StartBegins DEF DInv
<1>3. mailboxes' = mailboxes /\ UNCHANGED <<batch, received, lost, accepted>>
  BY DEF StartRequest, StartRegister, StartDeregister, StartSend, StartPoll,
         tables, history
<1> QED
  BY <1>1, <1>2, <1>3, MoveKeepsDelivery

LEMMA RegisterKeepsDelivery ==
  ASSUME DInv, NEW t \in Threads,
         \/ RegisterEndpoint(t) \/ RegisterMailbox(t)
         \/ RegisterCapabilities(t) \/ RegisterLease(t)
  PROVE  Delivered'
<1>1. PICK place : Goto(t, place)
  BY DEF RegisterEndpoint, RegisterMailbox, RegisterCapabilities, RegisterLease,
         Finish, Begin
<1>2. pc[t] \in RegisterPCs /\ \A u \in Threads \ {t} : req'[u] = req[u]
  BY DEF DInv, TypeOK, ThreadsOK, RegisterEndpoint, RegisterMailbox, RegisterPCs,
         RegisterCapabilities, RegisterLease, Finish, Begin
<1>3. /\ mailboxes' \in {mailboxes, SetDefault(mailboxes, req[t].agent, <<>>)}
      /\ UNCHANGED <<batch, received, lost, accepted>>
  BY DEF RegisterEndpoint, RegisterMailbox, RegisterCapabilities, RegisterLease, history
<1> QED
  BY <1>1, <1>2, <1>3, MoveKeepsDelivery DEF RegisterPCs

LEMMA DeregisterKeepsDelivery ==
  ASSUME DInv, NEW t \in Threads,
         DeregisterCapabilities(t) \/ DeregisterLease(t) \/ DeregisterMailbox(t)
  PROVE  Delivered'
<1>1. pc[t] \in DeregisterPCs /\ req[t].agent \in Agents
  BY RequestFields DEF DInv, DeregisterCapabilities, DeregisterLease,
     DeregisterMailbox, DeregisterPCs
<1>2. CASE DeregisterMailbox(t)
  <2>1. \A u \in Threads : (req'[u] = req[u] /\ pc'[u] = pc[u]) \/ pc[u] # "poll_reply"
    BY <1>1, <1>2 DEF DInv, TypeOK, ThreadsOK, DeregisterMailbox, Finish, Begin, Goto,
                      DeregisterPCs
  <2>2. PICK a \in Agents : PopMailbox(a)
    BY <1>1, <1>2 DEF DeregisterMailbox
  <2> QED
    BY <1>2, <2>1, <2>2, PopKeepsDelivery DEF DeregisterMailbox
<1>3. CASE DeregisterCapabilities(t) \/ DeregisterLease(t)
  <2>1. PICK place : Goto(t, place)
    BY <1>3 DEF DeregisterCapabilities, DeregisterLease
  <2>2. req' = req /\ mailboxes' = mailboxes /\ UNCHANGED <<batch, received, lost, accepted>>
    BY <1>3 DEF DeregisterCapabilities, DeregisterLease, history
  <2> QED
    BY <1>1, <2>1, <2>2, MoveKeepsDelivery DEF DeregisterPCs
<1> QED
  BY <1>2, <1>3

LEMMA SendKeepsDelivery ==
  ASSUME DInv, NEW t \in Threads,
         Enqueue(t) \/ Route(t) \/ Dial(t) \/ RecordTraffic(t)
  PROVE  Delivered'
<1>1. CASE Enqueue(t)
  <2>1. BatchesOfReplies'
    BY <1>1 DEF DInv, TypeOK, ThreadsOK, BatchesOfReplies, Enqueue, Begin, Goto
  <2> QED
    BY <1>1, <2>1, EnqueueConserves, EnqueueFifo DEF Delivered
<1>2. CASE Route(t) \/ Dial(t) \/ RecordTraffic(t)
  <2>1. PICK place : Goto(t, place)
    BY <1>2 DEF Route, Dial, RecordTraffic, Finish, Begin
  <2>2. pc[t] # "poll_reply" /\ \A u \in Threads \ {t} : req'[u] = req[u]
    BY <1>2 DEF DInv, TypeOK, ThreadsOK, Route, Dial, RecordTraffic, Finish, Begin
  <2>3. mailboxes' = mailboxes /\ UNCHANGED <<batch, received, lost, accepted>>
    BY <1>2 DEF Route, Dial, RecordTraffic, tables, history
  <2> QED
    BY <2>1, <2>2, <2>3, MoveKeepsDelivery
<1> QED
  BY <1>1, <1>2

\* The poll up to its first look into the mailbox.
LEMMA PollMoveKeepsDelivery ==
  ASSUME DInv, NEW t \in Threads,
         \/ AutoRegisterEndpoint(t) \/ AutoRegisterMailbox(t)
         \/ AutoRegisterCapabilities(t) \/ AutoRegisterLease(t) \/ PollHeartbeat(t)
  PROVE  Delivered'
<1>1. PICK place : Goto(t, place)
  BY DEF AutoRegisterEndpoint, AutoRegisterMailbox, AutoRegisterCapabilities,
         AutoRegisterLease, PollHeartbeat
<1>2. pc[t] # "poll_reply" /\ req' = req
  BY DEF AutoRegisterEndpoint, AutoRegisterMailbox, AutoRegisterCapabilities,
         AutoRegisterLease, PollHeartbeat
<1>3. /\ mailboxes' \in {mailboxes, SetDefault(mailboxes, req[t].agent, <<>>)}
      /\ UNCHANGED <<batch, received, lost, accepted>>
  BY DEF AutoRegisterEndpoint, AutoRegisterMailbox, AutoRegisterCapabilities,
         AutoRegisterLease, PollHeartbeat, history
<1> QED
  BY <1>1, <1>2, <1>3, MoveKeepsDelivery

\* The poll in front of its mailbox.
LEMMA PollTakeKeepsDelivery ==
  ASSUME DInv, NEW t \in Threads, PollEnter(t) \/ PollWake(t) \/ PollTimeout(t)
  PROVE  Delivered'
<1>1. pc[t] \in {"poll_enter", "poll_wait"}
  BY DEF PollEnter, PollWake, PollTimeout
<1>2. CASE TakeAll(t)
  <2>1. BatchesOfReplies'
    BY <1>2 DEF DInv, TypeOK, ThreadsOK, BatchesOfReplies, TakeAll, Goto
  <2> QED
    BY <1>1, <1>2, <2>1, TakeAllConserves, TakeAllFifo DEF Delivered
<1>3. CASE Goto(t, "poll_wait") /\ UNCHANGED <<tables, req, batch, notified, sweep, clock, history>>
  BY <1>1, <1>3, MoveKeepsDelivery DEF tables, history
<1>4. CASE UNCHANGED <<tables, pc, req, batch, sweep, clock, history>>
  BY <1>4, IdleKeepsDelivery DEF tables, history
<1> QED
  BY <1>2, <1>3, <1>4 DEF PollEnter, PollWake, PollTimeout

LEMMA PollReplyKeepsDelivery ==
  ASSUME DInv, NEW t \in Threads, PollReply(t)
  PROVE  Delivered'
<1>1. BatchesOfReplies'
  BY DEF DInv, TypeOK, ThreadsOK, BatchesOfReplies, PollReply, Finish, Begin, Goto
<1> QED
  BY <1>1, PollReplyConserves, PollReplyFifo DEF Delivered

LEMMA SweepKeepsDelivery ==
  ASSUME DInv, SweepStep
  PROVE  Delivered'
<1>1. CASE EvictMailbox
  <2>1. sweep.agent \in Agents
    BY <1>1 DEF EvictMailbox, DInv, TypeOK, SweepOK
  <2>2. PICK a \in Agents : PopMailbox(a)
    BY <1>1, <2>1 DEF EvictMailbox
  <2> QED
    BY <1>1, <2>2, PopKeepsDelivery DEF EvictMailbox
<1>2. CASE ~EvictMailbox
  <2>1. UNCHANGED <<mailboxes, threads, history>>
    BY <1>2 DEF SweepStep, SweepBegin, SweepSnapshot, SweepRead, SweepEnd,
                EvictRegistry, EvictCapabilities, EvictLease, tables
  <2> QED
    BY <2>1, IdleKeepsDelivery DEF threads, history
<1> QED
  BY <1>1, <1>2

LEMMA RestartKeepsDelivery ==
  ASSUME DInv, Restart
  PROVE  Delivered'
<1>1. BatchesOfReplies' /\ FifoMailbox'
  BY DEF Restart, BatchesOfReplies, FifoMailbox, EmptyDict
<1> QED
  BY <1>1, RestartConserves DEF Delivered

LEMMA InitDelivery == Init => DInv
<1> SUFFICES ASSUME Init PROVE DInv
  OBVIOUS
<1>1. TypeOK
  BY InitOK
<1>2. BatchesOfReplies /\ FifoMailbox
  BY DEF Init, BatchesOfReplies, FifoMailbox, EmptyDict
<1>3. \A p \in Places : Contents(p) = {}
  BY PlacesAre, ContentsOfPlaces, RangeOfEmpty DEF Init, EmptyDict
<1>4. accepted = 0
  BY DEF Init
<1> QED
  BY <1>1, <1>2, <1>3, <1>4 DEF DInv, OnlyAccepted, MessageConservation

LEMMA NextDelivery ==
  ASSUME DInv, [Next]_vars
  PROVE  DInv'
<1> SUFFICES Delivered'
  BY NextOK DEF Delivered, Conserved, DInv
<1>1. ASSUME NEW t \in Threads, StartRequest(t) PROVE Delivered'
  BY <1>1, StartKeepsDelivery
<1>2. ASSUME NEW t \in Threads, HandlerStep(t) \/ PollTimeout(t) PROVE Delivered'
  BY <1>2, RegisterKeepsDelivery, DeregisterKeepsDelivery, SendKeepsDelivery,
     PollMoveKeepsDelivery, PollTakeKeepsDelivery, PollReplyKeepsDelivery DEF HandlerStep
<1>3. CASE SweepStep
  BY <1>3, SweepKeepsDelivery
<1>4. CASE Tick \/ UNCHANGED vars
  BY <1>4, IdleKeepsDelivery DEF Tick, vars, tables, threads, history
<1>5. CASE Restart
  BY <1>5, RestartKeepsDelivery
<1> QED
  BY <1>1, <1>2, <1>3, <1>4, <1>5 DEF Next

-----------------------------------------------------------------------------
(* The theorems.                                                           *)

LEMMA DeliveryInvariant == Spec => []DInv
<1>1. Init => DInv
  BY InitDelivery
<1>2. DInv /\ [Next]_vars => DInv'
  BY NextDelivery
<1> QED
  BY <1>1, <1>2, PTL DEF Spec

\* Every message that was answered 202 is at every moment in exactly one of a
\* queue, an answer about to be written, its client, and the losses: refreshes,
\* concurrent polls, removals, evictions and restarts neither copy nor drop one.
THEOREM Conservation == Spec => []MessageConservation
<1>1. DInv => MessageConservation
  BY DEF DInv
<1> QED
  BY <1>1, DeliveryInvariant, PTL

\* Polls of an agent take its messages in the order in which they were queued,
\* however many polls of it are in progress.
THEOREM FirstInFirstOut == Spec => []FifoMailbox
<1>1. DInv => FifoMailbox
  BY DEF DInv
<1> QED
  BY <1>1, DeliveryInvariant, PTL

=============================================================================
