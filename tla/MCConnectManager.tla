-------------------------- MODULE MCConnectManager --------------------------
(***************************************************************************)
(* An instance of ConnectManager for TLC.                                  *)
(***************************************************************************)
EXTENDS ConnectManager, TLC

CONSTANTS a1, a2, p1, p2

\* Two machines with one address each.
TwoAddrs == {a1, a2}
TwoPeers == {p1, p2}
OneEach == (a1 :> p1) @@ (a2 :> p2)
=============================================================================
