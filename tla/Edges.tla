------------------------------- MODULE Edges --------------------------------
(***************************************************************************)
(* Screen edges and the integer grid on which screens are placed           *)
(* (manguesechee-core/src/protocol.rs).  The local screen of the           *)
(* controller is the origin of the grid.                                   *)
(***************************************************************************)
EXTENDS Integers

Edge == {"Left", "Right", "Top", "Bottom"}

\* Edge::opposite
Opposite(e) ==
  CASE e = "Left"   -> "Right"
    [] e = "Right"  -> "Left"
    [] e = "Top"    -> "Bottom"
    [] e = "Bottom" -> "Top"

\* Edge::delta
Delta(e) ==
  CASE e = "Right"  -> <<1, 0>>
    [] e = "Left"   -> <<-1, 0>>
    [] e = "Top"    -> <<0, 1>>
    [] e = "Bottom" -> <<0, -1>>

Coord == Int \X Int

\* (0, 0): the controller's own screen.
Origin == <<0, 0>>

\* The cell reached from cell c through edge e (active_coord + edge.delta()).
Step(c, e) == <<c[1] + Delta(e)[1], c[2] + Delta(e)[2]>>
=============================================================================
