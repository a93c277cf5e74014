--------------------------- MODULE MCRetryingSend ---------------------------
(***************************************************************************)
(* Two notifications of one thread for TLC.                                *)
(***************************************************************************)
EXTENDS RetryingSend

CONSTANTS first, second, anonymous

Threads == [m \in Messages |-> 1]
Program == [m \in Messages |-> IF m = second THEN 2 ELSE 1]
SamePrincipal == [m \in Messages |-> anonymous]

=============================================================================
