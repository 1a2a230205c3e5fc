------------------------------- MODULE Focus --------------------------------
(***************************************************************************)
(* What the hand-off promises, without devices, grabs, tasks, heartbeats   *)
(* or channels: the user works at one place of the desk at a time; a       *)
(* remote place is entered only by announcing it to the peer, in the order *)
(* the places are visited; and the peer acts on the user's behalf only     *)
(* between an announcement and the next order to stop, which it obeys in   *)
(* the order they were given, or until it gives up by itself.              *)
(***************************************************************************)
EXTENDS Integers, Sequences

CONSTANTS
  Place, Home, \* the cells of the desk, and the local one
  EnterOrder,  \* "the user is with you"
  StopOrder,   \* "the user is not with you any more"
  Traffic      \* everything else the controller says

VARIABLES
  place,  \* where the user works
  over,   \* the controller has ended the session, or is about to
  peer,   \* "Idle" | "Controlled" | "Gone"
  cut,    \* what is said from now on is lost
  orders  \* said and not yet heard, oldest first

vars == <<place, over, peer, cut, orders>>

Init ==
  /\ place = Home /\ ~over /\ peer = "Idle" /\ ~cut /\ orders = <<>>

Say(m) == orders' = IF cut THEN orders ELSE Append(orders, m)

\* Go to a remote place, from home or from another remote place.
GoOut ==
  /\ ~over
  /\ place' \in Place \ {Home}
  /\ Say(EnterOrder)
  /\ UNCHANGED <<over, peer, cut>>

\* Come home, and stop the peer.
Reclaim ==
  /\ ~over
  /\ place # Home /\ place' = Home
  /\ Say(StopOrder)
  /\ UNCHANGED <<over, peer, cut>>

\* Come home because the peer says that the user left it.
ComeHome ==
  /\ ~over
  /\ place # Home /\ place' = Home
  /\ UNCHANGED <<over, peer, cut, orders>>

Talk ==
  /\ \E m \in Traffic : Say(m)
  /\ UNCHANGED <<place, over, peer, cut>>

\* The session ends for the controller, in order or by the death of its
\* process, which may take the last orders with it.
Finish ==
  /\ over'
  /\ \/ UNCHANGED orders
     \/ \E i \in 0..Len(orders), m \in Traffic :
          /\ ~cut
          /\ orders' = Append(SubSeq(orders, 1, i), m)
  /\ UNCHANGED <<place, peer, cut>>

\* The peer hears the oldest message.  On anything but an order it may also
\* find that the cursor left its screen.
Obey ==
  /\ orders # <<>> /\ peer # "Gone"
  /\ orders' = Tail(orders)
  /\ \/ Head(orders) = EnterOrder /\ peer' = "Controlled"
     \/ Head(orders) = StopOrder /\ peer' = "Idle"
     \/ Head(orders) \in Traffic /\ peer' \in {peer, "Idle"}
  /\ UNCHANGED <<place, over, cut>>

\* The peer leaves the session; nothing said to it is heard any more.
Leave ==
  /\ peer' = "Gone" /\ cut' /\ orders' = <<>>
  /\ UNCHANGED <<place, over>>

\* The connection breaks, and takes what was said last with it.
Cut ==
  /\ cut'
  /\ \E i \in 0..Len(orders) : orders' = SubSeq(orders, 1, i)
  /\ UNCHANGED <<place, over, peer>>

Next ==
  \/ GoOut \/ Reclaim \/ ComeHome \/ Talk \/ Finish
  \/ Obey \/ Leave \/ Cut

Spec == Init /\ [][Next]_vars
=============================================================================
