------------------------------- MODULE MCDesk -------------------------------
(***************************************************************************)
(* An instance of Desk for TLC: two peers, and a screen of a few pixels.   *)
(***************************************************************************)
EXTENDS Desk

Screen == [x |-> 6, y |-> 6]

\* Slow and fast motions along the axes, and a diagonal one.
SomeMotions ==
  {[x |-> i, y |-> 0] : i \in {-2, 1, 2}}
    \cup {[x |-> 0, y |-> i] : i \in {-2, 1}}
    \cup {[x |-> 2, y |-> -1]}

\* On top of this machine: the screens are shifted to where there is room.
SomeCells == {<<0, 0>>}
=============================================================================
