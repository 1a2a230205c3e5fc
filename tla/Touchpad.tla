----------------------------- MODULE Touchpad ------------------------------
(***************************************************************************)
(* The reading of a touchpad by a session's capture worker                 *)
(* (manguesechee-input/src/capture.rs, MouseCapture), and what of it the   *)
(* peer's virtual mouse holds down (uinput.rs, MouseInjector).             *)
(*                                                                         *)
(* The environment is a clickpad under the multi-touch protocol of the     *)
(* kernel: a finger takes the lowest free slot; a frame reports the slots  *)
(* that changed, then BTN_TOUCH and the number of fingers, then the        *)
(* position of the oldest finger as ABS_X and ABS_Y, then SYN; and no      *)
(* value is reported that was the last one reported.  In one frame either  *)
(* fingers move, or one lands, or one is lifted, or the pad is clicked.    *)
(*                                                                         *)
(* Positions are in counts of the pad.  A scroll is kept in counts too,    *)
(* Notch of them being one unit of MouseScroll (16 in the code).           *)
(***************************************************************************)
EXTENDS Integers, SequencesExt

CONSTANTS
  LastSlot,
  Points,  \* positions <<x, y>> on the pad
  Notch,
  None

ASSUME TouchpadAssumption ==
  /\ LastSlot \in Nat
  /\ Points \subseteq Int \X Int
  /\ Notch \in Nat \ {0}
  /\ None \notin Int

Slots == 0..LastSlot

VARIABLES
  \* the pad and the kernel
  fingers,       \* the slots of the fingers on the pad, oldest first
  at,            \* the last position reported of each slot
  pointer,       \* the last ABS_X and ABS_Y reported
  slot,          \* the last ABS_MT_SLOT reported
  clicked,
  pipe,          \* the events of the current frame not read yet
  \* the fields of MouseCapture
  slots, active_slot, btn_touch, finger_count, cur, last, pending_scroll,
  out,           \* what next_event has just returned
  forwarded,     \* the session sends what is returned and the peer injects it
  held_buttons,  \* of the peer's MouseInjector
  \* history
  shift,         \* how far the oldest finger moves in the current frame
  crossed,       \* since the pad was touched, a finger took slot 0 with an
                 \* older one in another slot
  steady         \* since the peer's buttons were all up, no finger came or
                 \* went, no grab came and the focus did not leave in the middle
                 \* of a click

pad == <<fingers, at, pointer, slot, clicked>>
touch == <<slots, active_slot, btn_touch, finger_count, cur, last>>
history == <<shift, crossed, steady>>
vars == <<pad, pipe, touch, pending_scroll, out, forwarded, held_buttons,
          history>>

Event(type, value) == [type |-> type, value |-> value]
Nothing == [type |-> "None"]
Still == <<0, 0>>
NoPoint == <<None, None>>

Init ==
  /\ fingers \in {<<>>, <<0>>}
  /\ at \in [Slots -> Points] /\ pointer \in Points /\ slot \in Slots
  /\ clicked = FALSE /\ pipe = <<>>
  /\ slots = {} /\ active_slot = 0 /\ btn_touch = FALSE /\ finger_count = 0
  /\ cur = NoPoint /\ last = None /\ pending_scroll = <<0, 0>>
  /\ out = Nothing /\ forwarded = FALSE /\ held_buttons = {}
  /\ shift = Still /\ crossed = (fingers # <<>>) /\ steady = TRUE

-----------------------------------------------------------------------------
(* The kernel.                                                             *)

When(b, events) == IF b THEN events ELSE <<>>

\* The changed axes of a position, under the names of the two axes.
Axes(old, new, x, y) ==
  When(old[1] # new[1], <<Event(x, new[1])>>)
    \o When(old[2] # new[2], <<Event(y, new[2])>>)

\* What a frame says of slot s; `before` is the slot it named before.
SlotEvents(s, before, id, new) ==
  When(s # before, <<Event("ABS_MT_SLOT", s)>>)
    \o id \o Axes(at[s], new, "ABS_MT_POSITION_X", "ABS_MT_POSITION_Y")

Tools == <<"BTN_TOOL_FINGER", "BTN_TOOL_DOUBLETAP", "BTN_TOOL_TRIPLETAP",
           "BTN_TOOL_QUADTAP">>

\* The number of fingers goes from m to n.
ToolEvents(k, m, n) ==
  When((m = k) # (n = k), <<Event(Tools[k], IF n = k THEN 1 ELSE 0)>>)

CountEvents(m, n) ==
  When((m = 0) # (n = 0), <<Event("BTN_TOUCH", IF n = 0 THEN 0 ELSE 1)>>)
    \o ToolEvents(1, m, n) \o ToolEvents(2, m, n)
    \o ToolEvents(3, m, n) \o ToolEvents(4, m, n)

Syn == <<Event("SYN", 0)>>

\* A frame: the events of its slots, then those of the pointer emulation.
Frame(slotEvents, fingers2, at2) ==
  LET pointer2 == IF fingers2 = <<>> THEN pointer ELSE at2[fingers2[1]] IN
  /\ pipe' = slotEvents \o CountEvents(Len(fingers), Len(fingers2))
                        \o Axes(pointer, pointer2, "ABS_X", "ABS_Y") \o Syn
  /\ fingers' = fingers2 /\ at' = at2 /\ pointer' = pointer2
  /\ out' = Nothing
  /\ UNCHANGED <<clicked, touch, pending_scroll, forwarded, held_buttons>>

\* Tracking ids are not told apart: 0 for one, -1 for none.
Land(p) ==
  LET free == Slots \ ToSet(fingers)
      s == CHOOSE t \in free : \A u \in free : t <= u
      id == <<Event("ABS_MT_TRACKING_ID", 0)>>
  IN
  /\ pipe = <<>> /\ free # {}
  /\ Frame(SlotEvents(s, slot, id, p), Append(fingers, s),
           [at EXCEPT ![s] = p])
  /\ slot' = s
  /\ shift' = Still /\ steady' = (steady /\ ~clicked)
  /\ crossed' = IF fingers = <<>> THEN FALSE ELSE crossed \/ s = 0

\* The i-th finger, by age, is lifted.
Lift(i) ==
  LET s == fingers[i]
      id == <<Event("ABS_MT_TRACKING_ID", -1)>>
  IN
  /\ pipe = <<>>
  /\ Frame(SlotEvents(s, slot, id, at[s]), RemoveAt(fingers, i), at)
  /\ slot' = s
  /\ shift' = Still /\ steady' = (steady /\ ~clicked)
  /\ UNCHANGED crossed

Moved(at2) == {s \in Slots : at2[s] # at[s]}

\* What a frame says of the slots that moved, in the order of the driver.
MoveEvents(order, at2) ==
  FlattenSeq([i \in 1..Len(order) |->
    SlotEvents(order[i], IF i = 1 THEN slot ELSE order[i - 1], <<>>,
               at2[order[i]])])

Move(at2) ==
  LET first == fingers[1] IN
  /\ pipe = <<>> /\ Moved(at2) # {} /\ Moved(at2) \subseteq ToSet(fingers)
  /\ \E order \in SetToSeqs(Moved(at2)) :
       /\ Frame(MoveEvents(order, at2), fingers, at2)
       /\ slot' = order[Len(order)]
  /\ shift' = <<at2[first][1] - at[first][1], at2[first][2] - at[first][2]>>
  /\ UNCHANGED <<crossed, steady>>

Click ==
  /\ pipe = <<>>
  /\ clicked \/ fingers # <<>>
  /\ clicked' = ~clicked
  /\ pipe' = <<Event("BTN_LEFT", IF clicked THEN 0 ELSE 1)>> \o Syn
  /\ out' = Nothing /\ shift' = Still
  /\ UNCHANGED <<fingers, at, pointer, slot, touch, pending_scroll, forwarded,
                 held_buttons, crossed, steady>>

-----------------------------------------------------------------------------
(* The worker reads one event at a time.                                   *)

Next1(types) == pipe # <<>> /\ Head(pipe).type \in types
value == Head(pipe).value

Taken == pipe' = Tail(pipe) /\ UNCHANGED <<pad, forwarded, history>>

Return(event) == out' = event /\ UNCHANGED held_buttons

\* touch_active, which the code recomputes whenever one of the two changes.
TouchActive(slots2, touch2) == slots2 # {} \/ touch2

\* The fields after an event that may end the touch.
Settle(slots2, touch2) ==
  /\ slots' = slots2 /\ btn_touch' = touch2
  /\ IF TouchActive(slots2, touch2)
     THEN UNCHANGED <<cur, last, finger_count>>
     ELSE cur' = NoPoint /\ last' = None /\ finger_count' = 0

ReadSlot ==
  /\ Next1({"ABS_MT_SLOT"}) /\ Taken
  /\ active_slot' = value
  /\ Return(Nothing)
  /\ UNCHANGED <<slots, btn_touch, finger_count, cur, last, pending_scroll>>

ReadTrackingId ==
  /\ Next1({"ABS_MT_TRACKING_ID"}) /\ Taken
  /\ Settle(IF value >= 0 THEN slots \cup {active_slot}
                          ELSE slots \ {active_slot}, btn_touch)
  /\ Return(Nothing)
  /\ UNCHANGED <<active_slot, pending_scroll>>

\* Of the slots only the first gives a position; ABS_X and ABS_Y do whenever
\* the pad is touched.
ReadPosition ==
  /\ \/ /\ Next1({"ABS_MT_POSITION_X", "ABS_MT_POSITION_Y"})
        /\ LET axis == IF Head(pipe).type = "ABS_MT_POSITION_X" THEN 1 ELSE 2 IN
           cur' = IF active_slot = 0 THEN [cur EXCEPT ![axis] = value] ELSE cur
     \/ /\ Next1({"ABS_X", "ABS_Y"})
        /\ LET axis == IF Head(pipe).type = "ABS_X" THEN 1 ELSE 2 IN
           cur' = IF TouchActive(slots, btn_touch)
                  THEN [cur EXCEPT ![axis] = value] ELSE cur
  /\ Taken /\ Return(Nothing)
  /\ UNCHANGED <<slots, active_slot, btn_touch, finger_count, last,
                 pending_scroll>>

ReadTouch ==
  /\ Next1({"BTN_TOUCH"}) /\ Taken
  /\ Settle(slots, value # 0)
  /\ Return(Nothing)
  /\ UNCHANGED <<active_slot, pending_scroll>>

\* finger_count when the tool for k fingers goes on or off.
NewCount(k) ==
  IF value # 0 THEN k ELSE IF finger_count = k THEN k - 1 ELSE finger_count

\* Mutant: the last position is kept when a finger comes or goes.
ReadToolKeepsLast ==
  \E k \in 1..4 :
    /\ Next1({Tools[k]}) /\ Taken
    /\ finger_count' = NewCount(k)
    /\ Return(Nothing)
    /\ UNCHANGED <<slots, active_slot, btn_touch, cur, last, pending_scroll>>

ReadTool ==
  \E k \in 1..4 :
    /\ Next1({Tools[k]}) /\ Taken
    /\ finger_count' = NewCount(k)
    /\ last' = IF NewCount(k) # finger_count THEN None ELSE last
    /\ Return(Nothing)
    /\ UNCHANGED <<slots, active_slot, btn_touch, cur, pending_scroll>>

\* What the peer's virtual mouse does with a button, if it gets it.
Inject(button, pressed) ==
  held_buttons' =
    IF ~forwarded THEN held_buttons
    ELSE IF pressed THEN held_buttons \cup {button}
    ELSE held_buttons \ {button}

\* Mutant: a release is the left button's, whatever was pressed.
ReadLeftReleasesLeft ==
  LET button == IF finger_count = 2 /\ value # 0 THEN "Right" ELSE "Left" IN
  /\ Next1({"BTN_LEFT"}) /\ Taken
  /\ out' = [type |-> "MouseButton", button |-> button, pressed |-> value # 0]
  /\ Inject(button, value # 0)
  /\ UNCHANGED <<touch, pending_scroll>>

\* With two fingers down it is the right button, now.
ReadLeft ==
  LET button == IF finger_count = 2 THEN "Right" ELSE "Left" IN
  /\ Next1({"BTN_LEFT"}) /\ Taken
  /\ out' = [type |-> "MouseButton", button |-> button, pressed |-> value # 0]
  /\ Inject(button, value # 0)
  /\ UNCHANGED <<touch, pending_scroll>>

\* f32::trunc of counts in notches.
Trunc(n) == IF n < 0 THEN -((-n) \div Notch) ELSE n \div Notch

\* The move of the touch since the last SYN.
Delta ==
  IF TouchActive(slots, btn_touch) /\ None \notin {cur[1], cur[2]} /\ last # None
  THEN <<cur[1] - last[1], cur[2] - last[2]>> ELSE Still

\* Mutant: what was scrolled stays pending.
ReadSynUnflushed ==
  LET scroll == IF finger_count >= 2
                THEN <<pending_scroll[1] - Delta[1], pending_scroll[2] - Delta[2]>>
                ELSE pending_scroll
      units == <<Trunc(scroll[1]), Trunc(scroll[2])>>
  IN
  /\ Next1({"SYN"}) /\ Taken
  /\ last' = IF TouchActive(slots, btn_touch)
             THEN IF None \notin {cur[1], cur[2]} THEN cur ELSE last
             ELSE None
  /\ IF TouchActive(slots, btn_touch)
     THEN UNCHANGED <<cur, finger_count>>
     ELSE cur' = NoPoint /\ finger_count' = 0
  /\ pending_scroll' = scroll
  /\ Return(IF units # Still THEN [type |-> "MouseScroll", by |-> units]
            ELSE IF Delta # Still /\ finger_count < 2
            THEN [type |-> "MouseMove", by |-> <<2 * Delta[1], 2 * Delta[2]>>]
            ELSE Nothing)
  /\ UNCHANGED <<slots, active_slot, btn_touch>>

\* The end of a frame: two fingers or more scroll, fewer move the pointer, by
\* twice the counts; whole units of a scroll are returned.
ReadSyn ==
  LET scroll == IF finger_count >= 2
                THEN <<pending_scroll[1] - Delta[1], pending_scroll[2] - Delta[2]>>
                ELSE pending_scroll
      units == <<Trunc(scroll[1]), Trunc(scroll[2])>>
  IN
  /\ Next1({"SYN"}) /\ Taken
  /\ last' = IF TouchActive(slots, btn_touch)
             THEN IF None \notin {cur[1], cur[2]} THEN cur ELSE last
             ELSE None
  /\ IF TouchActive(slots, btn_touch)
     THEN UNCHANGED <<cur, finger_count>>
     ELSE cur' = NoPoint /\ finger_count' = 0
  /\ pending_scroll' =
       <<scroll[1] - Notch * units[1], scroll[2] - Notch * units[2]>>
  /\ Return(IF units # Still THEN [type |-> "MouseScroll", by |-> units]
            ELSE IF Delta # Still /\ finger_count < 2
            THEN [type |-> "MouseMove", by |-> <<2 * Delta[1], 2 * Delta[2]>>]
            ELSE Nothing)
  /\ UNCHANGED <<slots, active_slot, btn_touch>>

-----------------------------------------------------------------------------
(* grab and ungrab, and the focus, each between any two events: the worker *)
(* takes a grab from a watch channel when it comes to it, while the event  *)
(* loop forwards by its own state.                                         *)

\* Mutant: the fingers are not forgotten, only their number.
GrabKeepsSlots ==
  /\ finger_count' = 0 /\ cur' = NoPoint /\ last' = None
  /\ pending_scroll' = <<0, 0>>
  /\ out' = Nothing /\ steady' = (held_buttons = {})
  /\ UNCHANGED <<pad, pipe, slots, btn_touch, active_slot, forwarded,
                 held_buttons, shift, crossed>>

\* Both forget the touch, whether the device was grabbed already or not.
Grab ==
  /\ slots' = {} /\ btn_touch' = FALSE /\ finger_count' = 0
  /\ cur' = NoPoint /\ last' = None /\ pending_scroll' = <<0, 0>>
  /\ out' = Nothing /\ steady' = (held_buttons = {})
  /\ UNCHANGED <<pad, pipe, active_slot, forwarded, held_buttons, shift, crossed>>

ForwardingBegins ==
  /\ ~forwarded /\ forwarded' = TRUE
  /\ out' = Nothing /\ steady' = (held_buttons = {})
  /\ UNCHANGED <<pad, pipe, touch, pending_scroll, held_buttons, shift, crossed>>

\* The client goes home or the peer gives up control, which releases all its
\* buttons (release_all), at once or later: a peer whose own ReturnControl was
\* late keeps control for a while.
ForwardingEnds ==
  /\ forwarded' = FALSE
  /\ held_buttons' \in {held_buttons, {}}
  /\ out' = Nothing /\ steady' = (held_buttons' = {})
  /\ UNCHANGED <<pad, pipe, touch, pending_scroll, shift, crossed>>

Read ==
  \/ ReadSlot \/ ReadTrackingId \/ ReadPosition \/ ReadTouch \/ ReadTool
  \/ ReadLeft \/ ReadSyn

Next ==
  \/ \E p \in Points : Land(p)
  \/ \E i \in DOMAIN fingers : Lift(i)
  \/ \E at2 \in [Slots -> Points] : Move(at2)
  \/ Click
  \/ Read
  \/ Grab \/ ForwardingBegins \/ ForwardingEnds

Spec == Init /\ [][Next]_vars

-----------------------------------------------------------------------------
Coordinates == {p[1] : p \in Points} \cup {p[2] : p \in Points}

\* The type of every variable; less than one unit of scroll is ever kept.
TypeOK ==
  /\ ToSet(fingers) \subseteq Slots /\ at \in [Slots -> Points]
  /\ slot \in Slots /\ clicked \in BOOLEAN /\ forwarded \in BOOLEAN
  /\ slots \subseteq Slots /\ active_slot \in Slots /\ btn_touch \in BOOLEAN
  /\ finger_count \in 0..4
  /\ \A axis \in 1..2 :
       /\ cur[axis] = None \/ cur[axis] \in Coordinates
       /\ pending_scroll[axis] \in (1 - Notch)..(Notch - 1)
  /\ last # None => \A axis \in 1..2 : last[axis] \in Coordinates
  /\ held_buttons \subseteq {"Left", "Right"}
  /\ crossed \in BOOLEAN /\ steady \in BOOLEAN

\* The pointer moves with one finger on the pad and scrolls with more
\* (capture.rs:164-170), although the count is kept apart from the slots and a
\* grab forgets both in the middle of a touch or of a frame.
PointerMovesWithOneFinger ==
  /\ out.type = "MouseMove" => Len(fingers) = 1
  /\ out.type = "MouseScroll" => Len(fingers) >= 2

\* What is reported is how far the oldest finger moved in this frame, never the
\* distance from one finger, or one touch, to another; a scroll that is not
\* whole units is kept.  Not so once a finger took slot 0 with an older one
\* down: the code then mixes the positions of the two.
MotionIsTheFingers ==
  [][~crossed =>
       LET units == IF out'.type = "MouseScroll" THEN out'.by ELSE Still
           scrolled == [axis \in 1..2 |-> Notch * units[axis]
                          + pending_scroll'[axis] - pending_scroll[axis]]
       IN
       /\ out'.type = "MouseMove" =>
            out'.by = <<2 * shift[1], 2 * shift[2]>>
       /\ (pipe' # pipe /\ scrolled # Still) =>
            scrolled = <<-shift[1], -shift[2]>>]_vars

\* A click that is over holds no button of the peer down, unless in the middle
\* of one a finger came or went or a grab was applied, when the press and the
\* release are reported of different buttons, or the focus left and the peer
\* kept control, when the release is not sent.
ClickReleased ==
  (pipe = <<>> /\ ~clicked /\ steady) => held_buttons = {}
=============================================================================
