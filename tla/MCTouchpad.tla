---------------------------- MODULE MCTouchpad -----------------------------
(***************************************************************************)
(* An instance of Touchpad for TLC.                                        *)
(***************************************************************************)
EXTENDS Touchpad

\* Three positions, two of them level.  With Notch = 2 moves along x are whole
\* units of scroll and those along y are not.
ThreePoints == {<<0, 0>>, <<2, 0>>, <<4, 1>>}
=============================================================================
