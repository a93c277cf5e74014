--------------------------- MODULE MCBrokerService ---------------------------
(***************************************************************************)
(* Two connections for TLC, one that tries everything and one that asks    *)
(* for an operation with all it takes; tables in which two agents have one *)
(* token each or share one, and a token that is in none; an environment    *)
(* that is neither production nor development.                             *)
(***************************************************************************)
EXTENDS BrokerService

CONSTANTS conn1, conn2, erin, frank, key1, key2, bogus

AllTokens == {key1, key2, bogus}
Tables == {[a \in {erin, frank} |-> key1],
           [a \in {erin, frank} |-> IF a = erin THEN key1 ELSE key2]}

NamedFiles == {{}, {"cert", "ca"}, {"cert", "key"}, {"cert", "key", "ca"}}

Kind(path, header, query, certificate) ==
  [path |-> path, header |-> header, query |-> query, certificate |-> certificate]

\* With every credential, with and without a certificate, and the browser's
\* way of passing a token where it is allowed and where it is not.
Everything ==
  {Kind("health", NoToken, NoToken, FALSE),
   Kind("operate", key1, NoToken, TRUE), Kind("operate", key2, NoToken, FALSE),
   Kind("operate", NoToken, key1, TRUE),
   Kind("read", bogus, key1, TRUE), Kind("read", NoToken, key2, TRUE)}
WellMade == {Kind("operate", key1, NoToken, TRUE)}

Kinds == [c \in Connections |-> IF c = conn1 THEN Everything ELSE WellMade]

=============================================================================
