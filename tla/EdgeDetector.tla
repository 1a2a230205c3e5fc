---------------------------- MODULE EdgeDetector ----------------------------
(***************************************************************************)
(* The tracked cursor of manguesechee-agent/src/edge.rs, which decides     *)
(* when a motion crosses an edge of the screen.  A detector is a record;   *)
(* its operations are functions of it, so that one module serves the       *)
(* controller, which leaves its screen, and the controlled machine, which  *)
(* gives control back.  Positions are whole pixels (a ratio is modelled by *)
(* the pixel it stands for on a screen of the same size).                  *)
(***************************************************************************)
EXTENDS Edges

CONSTANTS
  Size,       \* [x |-> width, y |-> height]
  Deadzone,   \* corner_deadzone
  Threshold,  \* velocity_threshold: the speed that crosses at once; 0 for any
  SwitchDelay,\* is a dwell at the edge configured (switch_delay # 0)?
  MarginMin, MarginMax \* least and greatest inset of an entry (350 and 600)

ASSUME SizeAssumption == Size.x \in Nat \ {0} /\ Size.y \in Nat \ {0}
ASSUME SettingsAssumption ==
  /\ Deadzone \in Nat /\ Threshold \in Nat /\ SwitchDelay \in BOOLEAN
  /\ MarginMin \in Nat \ {0} /\ MarginMax \in Nat /\ MarginMin <= MarginMax

Axes == {"x", "y"}
Axis(e)  == IF e \in {"Left", "Right"} THEN "x" ELSE "y"
Cross(e) == IF e \in {"Left", "Right"} THEN "y" ELSE "x"

\* The edges at the far end of their axis; y grows downwards on a screen.
Far(e) == e \in {"Right", "Bottom"}

Clamp(v, lo, hi) == IF v < lo THEN lo ELSE IF v > hi THEN hi ELSE v

None == "None"      \* no edge
NoRatio == -1
NoContact == [edge |-> None, dwelt |-> FALSE]

\* EdgeDetector::new: the cursor is taken to be in the middle.
Middle == [a \in Axes |-> Size[a] \div 2]

NewDetector(lock) ==
  [pos |-> Middle, contact |-> NoContact, cooldown |-> FALSE, locked |-> lock]

OnScreen(pos) == \A a \in Axes : pos[a] \in 0..(Size[a] - 1)

\* set_locked
SetLocked(det, lock) ==
  [det EXCEPT !.locked = lock,
              !.contact = IF lock THEN NoContact ELSE det.contact]

\* arm_cooldown; the durations differ (300, 400 and 1500 ms) and are left out.
ArmCooldown(det) == [det EXCEPT !.contact = NoContact, !.cooldown = TRUE]

\* How far inside the screen an entry puts the cursor.
Margin(e) == Clamp(Size[Axis(e)] \div 5, MarginMin, MarginMax)

Border(e) == IF Far(e) THEN Size[Axis(e)] - 1 ELSE 0

\* Mutant: an entry puts the cursor right at the edge.
InsetAtBorder(e) == Border(e)

Inset(e) ==
  IF Far(e)
  THEN IF Size[Axis(e)] > Margin(e) THEN Size[Axis(e)] - Margin(e) ELSE 0
  ELSE IF Margin(e) < Size[Axis(e)] THEN Margin(e) ELSE Size[Axis(e)] - 1

\* current_ratio
CurrentRatio(det, e) ==
  IF Size[Cross(e)] > 1 THEN Clamp(det.pos[Cross(e)], 0, Size[Cross(e)] - 1)
  ELSE Size[Cross(e)] \div 2

\* Mutant: the ratio is not used.
PlaceIgnoringRatio(det, e, ratio) ==
  ArmCooldown([det EXCEPT !.pos = [@ EXCEPT ![Axis(e)] = Inset(e)]])

\* place_at_entry_ratio: without a ratio the other axis is left as it was.
PlaceAtEntry(det, e, ratio) ==
  LET inside == [det.pos EXCEPT ![Axis(e)] = Inset(e)]
      pos    == IF ratio = NoRatio THEN inside
                ELSE [inside EXCEPT
                       ![Cross(e)] = Clamp(ratio, 0, Size[Cross(e)] - 1)]
  IN ArmCooldown([det EXCEPT !.pos = pos])

PlaceAtCenter(det) == ArmCooldown([det EXCEPT !.pos = Middle])

-----------------------------------------------------------------------------
(* update                                                                  *)

Beyond(pos, e) ==
  IF Far(e) THEN pos[Axis(e)] >= Size[Axis(e)] ELSE pos[Axis(e)] < 0

InCorner(pos, e) ==
  \/ pos[Cross(e)] < Deadzone
  \/ pos[Cross(e)] > Size[Cross(e)] - Deadzone

\* Mutant: a cursor that waits at an edge stays beyond it.
ClampToNothing(pos, e) == pos

ClampToEdge(pos, e) == [pos EXCEPT ![Axis(e)] = Border(e)]

\* One edge check: a cursor beyond the edge is a candidate, or is held back
\* by the dead zone of the corner.  A later candidate replaces an earlier one.
\* (Both users of the detector allow every edge.)
Check(s, e) ==
  IF ~Beyond(s.pos, e) THEN s
  ELSE IF InCorner(s.pos, e) THEN [s EXCEPT !.pos = ClampToEdge(s.pos, e)]
  ELSE [s EXCEPT !.candidate = e]

Checked(pos) ==
  Check(Check(Check(Check([pos |-> pos, candidate |-> None],
                          "Right"), "Left"), "Bottom"), "Top")

\* The speed of motion d towards edge e.
Speed(d, e) == IF Far(e) THEN d[Axis(e)] ELSE -d[Axis(e)]

\* A candidate crosses when it is fast, when nothing is configured to hold it
\* back, or after the dwell at this very edge.
MayCross(det, d, e) ==
  \/ Threshold > 0 /\ Speed(d, e) >= Threshold
  \/ Threshold = 0 /\ ~SwitchDelay
  \/ SwitchDelay /\ det.contact = [edge |-> e, dwelt |-> TRUE]

\* The detector after motion d, and the edge it reports.  The cursor that
\* crosses is left where it is, beyond the edge.
Update(det, d) ==
  LET moved == [a \in Axes |-> det.pos[a] + d[a]]
      s     == Checked(moved)
      e     == s.candidate
      at(pos, contact, out) ==
        [det |-> [det EXCEPT !.pos = pos, !.contact = contact], out |-> out]
  IN CASE det.locked ->
            at([a \in Axes |-> Clamp(moved[a], 0, Size[a] - 1)],
               det.contact, None)
       [] ~det.locked /\ e = None -> at(s.pos, NoContact, None)
       [] ~det.locked /\ e # None /\ det.cooldown ->
            at([s.pos EXCEPT ![Axis(e)] = Inset(e)], NoContact, None)
       [] ~det.locked /\ e # None /\ ~det.cooldown /\ MayCross(det, d, e) ->
            at(s.pos, NoContact, e)
       [] ~det.locked /\ e # None /\ ~det.cooldown /\ ~MayCross(det, d, e) ->
            at(ClampToEdge(s.pos, e),
               IF ~SwitchDelay THEN NoContact
               ELSE IF det.contact.edge = e THEN det.contact
               ELSE [edge |-> e, dwelt |-> FALSE],
               None)

\* Time passes: the dwell is long enough, or the cooldown is over.
Dwell(det) == [det EXCEPT !.contact.dwelt = det.contact.edge # None]

CoolDown(det) == [det EXCEPT !.cooldown = FALSE]
=============================================================================
