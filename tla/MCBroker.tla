------------------------------ MODULE MCBroker ------------------------------
(***************************************************************************)
(* Small instances of Broker for TLC.  The threads of the server are       *)
(* interchangeable, so safety runs use symmetry on them; runs that check   *)
(* liveness do not.                                                        *)
(***************************************************************************)
EXTENDS BrokerMailbox, TLC

ThreadSymmetry == Permutations(Threads)

NoTtls == {}
FiniteTtls == {1}
EndlessTtls == {0}

AllOperations == {"register", "deregister", "send", "poll"}
RegisterAndPoll == {"register", "poll"}
SendAndPoll == {"send", "poll"}

=============================================================================
