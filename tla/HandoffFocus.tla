---------------------------- MODULE HandoffFocus ----------------------------
(***************************************************************************)
(* Handoff implements Focus.  The user's place is the cell the event loop  *)
(* works on, the session is over once the loop has left its select!, the   *)
(* peer acts while has_control, and the orders are what is on the wire.    *)
(***************************************************************************)
EXTENDS Handoff

RemoteState ==
  IF server = "Ended" THEN "Gone"
  ELSE IF has_control THEN "Controlled" ELSE "Idle"

F == INSTANCE Focus WITH
  Place <- Coord, Home <- Origin,
  EnterOrder <- EdgeCrossed, StopOrder <- ReturnControl,
  Traffic <- ClientMsg \ {EdgeCrossed, ReturnControl},
  place <- active_coord,
  over <- ~Looping,
  peer <- RemoteState,
  cut <- link = "Down" \/ server = "Ended",
  orders <- c2s

\* Every step of the two event loops, the receiver, the workers, the outbound
\* sender and the failures is a step of Focus or leaves it alone: no screen is
\* entered unannounced, the user never comes home from a place it is not at,
\* and the peer takes and drops control only on orders, in their order.
FocusKept == F!Spec
=============================================================================
