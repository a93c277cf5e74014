--------------------------- MODULE AbstractMailbox ---------------------------
(***************************************************************************)
(* What the broker promises of the messages it answers 202 for, without    *)
(* registrations, leases, locks, waits or sweeps: one queue per agent, and *)
(* readers that take all a queue holds and hand it to the agent.  A        *)
(* message is lost only with a queue, with the answer that carries it, or  *)
(* with the process.                                                       *)
(***************************************************************************)
EXTENDS Naturals, Sequences, Functions

CONSTANTS
  Agents,    \* whom messages are for
  Readers,   \* what carries messages from a queue to its agent
  Nobody     \* the agent of a reader that carries nothing

VARIABLES
  accepted,  \* number of messages accepted, which also numbers them
  queue,     \* agent -> messages that wait for it
  carried,   \* reader -> messages it has taken, and the agent they are for
  received,  \* agent -> messages handed to it
  lost       \* messages that nobody will receive

vars == <<accepted, queue, carried, received, lost>>

Nothing == [agent |-> Nobody, messages |-> <<>>]

Init ==
  /\ accepted = 0
  /\ queue = [a \in Agents |-> <<>>]
  /\ carried = [r \in Readers |-> Nothing]
  /\ received = [a \in Agents |-> {}]
  /\ lost = {}

Accept(a) ==
  /\ accepted' = accepted + 1
  /\ queue' = [queue EXCEPT ![a] = Append(@, accepted')]
  /\ UNCHANGED <<carried, received, lost>>

\* A reader takes the whole queue, in its order.
Take(r, a) ==
  /\ carried[r] = Nothing /\ queue[a] # <<>>
  /\ carried' = [carried EXCEPT ![r] = [agent |-> a, messages |-> queue[a]]]
  /\ queue' = [queue EXCEPT ![a] = <<>>]
  /\ UNCHANGED <<accepted, received, lost>>

\* All that was taken together arrives, or none of it.
Hand(r) ==
  /\ carried[r] # Nothing
  /\ carried' = [carried EXCEPT ![r] = Nothing]
  /\ LET messages == Range(carried[r].messages)
     IN \/ /\ received' = [received EXCEPT ![carried[r].agent] = @ \cup messages]
           /\ UNCHANGED lost
        \/ lost' = lost \cup messages /\ UNCHANGED received
  /\ UNCHANGED <<accepted, queue>>

\* A queue is given up with all it holds.
Discard(a) ==
  /\ queue' = [queue EXCEPT ![a] = <<>>]
  /\ lost' = lost \cup Range(queue[a])
  /\ UNCHANGED <<accepted, carried, received>>

\* The process ends, and what it had not handed over with it.
Crash ==
  /\ queue' = [a \in Agents |-> <<>>]
  /\ carried' = [r \in Readers |-> Nothing]
  /\ lost' = lost \cup (UNION {Range(queue[a]) : a \in Agents})
                  \cup (UNION {Range(carried[r].messages) : r \in Readers})
  /\ UNCHANGED <<accepted, received>>

Next ==
  \/ \E a \in Agents : Accept(a) \/ Discard(a) \/ \E r \in Readers : Take(r, a)
  \/ \E r \in Readers : Hand(r)
  \/ Crash

Spec == Init /\ [][Next]_vars

=============================================================================
