----------------------------- MODULE MCPairing -----------------------------
(***************************************************************************)
(* Instances of Pairing for TLC.                                           *)
(***************************************************************************)
EXTENDS Pairing

CONSTANTS a, b, c

\* Two agents that dial each other, b with a terminal.
BothWays == {<<a, b>>, <<b, a>>}
Nobody == {}

\* b is dialled by two agents.
TwoClients == {<<a, b>>, <<c, b>>}
=============================================================================
