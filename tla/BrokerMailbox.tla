---------------------------- MODULE BrokerMailbox ----------------------------
(***************************************************************************)
(* The broker implements AbstractMailbox: an agent without a mailbox has   *)
(* an empty queue, and a reader is a handler thread between the drain of   *)
(* a mailbox and the end of its response.                                  *)
(***************************************************************************)
EXTENDS Broker

Queue == [a \in Agents |-> IF a \in DOMAIN mailboxes THEN mailboxes[a] ELSE <<>>]

Carried == [t \in Threads |->
  [agent    |-> IF batch[t] = <<>> THEN Nobody ELSE req[t].agent,
   messages |-> batch[t]]]

Promise == INSTANCE AbstractMailbox WITH
  Readers <- Threads, queue <- Queue, carried <- Carried

\* Every step of handlers, sweeps and restarts, however they interleave, is a
\* step of the abstract mailbox or none: a queue grows only at its end, is only
\* ever taken whole by one reader, and what was taken goes to that agent and no
\* other.
KeepsPromise == Promise!Spec

=============================================================================
