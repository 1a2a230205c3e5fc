----------------------------- MODULE MCHandoff ------------------------------
(***************************************************************************)
(* Instances of Handoff for TLC.                                           *)
(***************************************************************************)
EXTENDS HandoffFocus

\* The peer on the right, and nothing else.
OnePeer == {<<1, 0>>}

\* Two screens in a row on the right.
Row == {<<1, 0>>, <<2, 0>>}

\* What the IPC server of the controlled machine may broadcast, apart from
\* messages that no one acts on.
AllBroadcasts == {ReturnVia("Right"), Goodbye}

\* Only its SwitchScreen, the one that takes the focus away.
SwitchBroadcasts == {ReturnVia("Right")}
=============================================================================
