---------------------------- MODULE MCPullAgent ----------------------------
(***************************************************************************)
(* Two pull agents for TLC: alice asks bob (request ask), the handler of   *)
(* bob asks back (back) before it answers, and the handler of alice asks   *)
(* bob once more (again) before it answers that.  Where only ask is of     *)
(* interest, no handler makes a request.                                   *)
(***************************************************************************)
EXTENDS PullAgent

CONSTANTS alice, bob, ask, back, again, la

Askers == [r \in Requests |-> IF r = back THEN bob ELSE alice]
Asked == [r \in Requests |-> IF r = back THEN alice ELSE bob]
Nested == [r \in Requests |-> CASE r = ask -> NoRequest [] r = back -> ask [] r = again -> back]
LoopOwners == [l \in Loops |-> IF l = la THEN alice ELSE bob]

\* Bound: the deeper requests are nested, the less goes wrong.
Bounded ==
  /\ caller[back] # "new" => faults = 0
  /\ caller[again] # "new" => stops = 0

=============================================================================
