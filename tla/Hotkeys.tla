------------------------------- MODULE Hotkeys ------------------------------
(***************************************************************************)
(* The keyboard between two screens: HotkeyMatcher (hotkeys.rs) and what   *)
(* the controller's event loop (client.rs) does with each key event -- act *)
(* on a hotkey, forward the event, or leave it to the local desktop.       *)
(*                                                                         *)
(* The matcher follows the modifiers by the events it is fed and forgets   *)
(* them whenever the focus moves by a hotkey or by the cursor, while the   *)
(* user's fingers stay where they are.                                     *)
(*                                                                         *)
(* What the controller sends reaches the peer (server.rs) at once; what    *)
(* the peer sends is on its way for any time, and may cross it.  The       *)
(* session goes on for ever; how it ends is in Handoff.                    *)
(***************************************************************************)
EXTENDS Naturals

CONSTANTS
  Keys,      \* the keys of the keyboard
  Class,     \* of each modifier key: "ctrl", "alt", "shift" or "meta"
  Esc,       \* KEY_ESC
  Arrows,    \* KEY_UP, KEY_DOWN, KEY_LEFT, KEY_RIGHT
  NoCombo,   \* a shortcut that is disabled or cannot be parsed
  Configs,   \* the settings of [hotkeys] the user may have
  MaxReturns \* bound of the model on the returns under way

Mods == DOMAIN Class
ModClass == {"ctrl", "alt", "shift", "meta"}
Combo == [mods : SUBSET ModClass, key : Keys]
Config == [enabled : BOOLEAN,
           toggle_lock : Combo \cup {NoCombo},
           switch_screen : Combo \cup {NoCombo},
           emergency_escape : Combo \cup {NoCombo}]

ASSUME ClassAssumption == Class \in [Mods -> ModClass] /\ Mods \subseteq Keys
ASSUME EscAssumption == Esc \in Keys \ Mods
ASSUME ArrowsAssumption == Arrows \subseteq Keys \ (Mods \cup {Esc})
ASSUME NoComboAssumption == NoCombo \notin Combo
ASSUME ConfigsAssumption == Configs \subseteq Config
ASSUME MaxReturnsAssumption == MaxReturns \in Nat

VARIABLES
  config,  \* read once, when the session's event loop starts
  tracked, \* the modifiers HotkeyMatcher holds to be down
  state,   \* "Local" | "Forwarding"
  has_control, \* of the peer: it injects what is forwarded
  remote,  \* keys that its virtual keyboard holds down
  returns, \* ReturnControl messages of the peer under way
  down,    \* keys the user holds down
  since,   \* history: those of them pressed since the focus last moved
  fired,   \* history: the action of the last key event
  crossed  \* history: a return of the peer was sent while the controller
           \* worked there, or has crossed an entry, and no later
           \* ReturnControl of the controller has set this right

peer == <<has_control, remote, returns, crossed>>
vars == <<config, tracked, state, down, since, fired, peer>>

HotkeyAction == {"None", "EmergencyEscape", "DirectionalJump", "SwitchScreen",
                 "ToggleCursorLock"}

-----------------------------------------------------------------------------
(* HotkeyMatcher.                                                          *)

\* ctrl_held, alt_held, shift_held, meta_held: either key of a class will do.
ClassesOf(keys) == {Class[k] : k \in keys \cap Mods}

\* HotkeyCombo::matches: the trigger key, and exactly these modifiers.
Matches(combo, k, held) ==
  combo # NoCombo /\ combo.key = k /\ combo.mods = held

CtrlAlt(held) == {"ctrl", "alt"} \subseteq held

\* Mutant: the shortcuts of the user come before the built-in escape.
PressActionUserFirst(c, k, held) ==
  IF ~c.enabled THEN "None"
  ELSE IF CtrlAlt(held) /\ k \in Arrows THEN "DirectionalJump"
  ELSE IF Matches(c.switch_screen, k, held) THEN "SwitchScreen"
  ELSE IF Matches(c.toggle_lock, k, held) THEN "ToggleCursorLock"
  ELSE IF Matches(c.emergency_escape, k, held) \/ (CtrlAlt(held) /\ k = Esc)
         THEN "EmergencyEscape"
  ELSE "None"

\* process_key for a key that goes down, in the order of its checks.
PressAction(c, k, held) ==
  IF ~c.enabled THEN "None"
  ELSE IF Matches(c.emergency_escape, k, held) \/ (CtrlAlt(held) /\ k = Esc)
         THEN "EmergencyEscape"
  ELSE IF CtrlAlt(held) /\ k \in Arrows THEN "DirectionalJump"
  ELSE IF Matches(c.switch_screen, k, held) THEN "SwitchScreen"
  ELSE IF Matches(c.toggle_lock, k, held) THEN "ToggleCursorLock"
  ELSE "None"

\* The modifiers as process_key leaves them.
TrackedWith(k) == tracked \cup ({k} \cap Mods)

-----------------------------------------------------------------------------
\* The session starts: the user may hold any keys, of which the matcher knows
\* nothing (the KeySync that is sent now is ignored by the peer).
Init ==
  /\ config \in Configs
  /\ tracked = {} /\ state = "Local"
  /\ has_control = FALSE /\ remote = {} /\ returns = 0
  /\ down \in SUBSET Keys /\ since = {} /\ fired = "None" /\ crossed = FALSE

-----------------------------------------------------------------------------
(* The peer (handle_server_message).                                       *)

\* EdgeCrossed: what its keyboard holds down stays so.
Enter ==
  /\ state' = "Forwarding" /\ since' = {}
  /\ has_control' = TRUE
  /\ crossed' = (crossed \/ returns > 0)
  /\ UNCHANGED <<remote, returns>>

\* ReturnControl: release_all.
GoHome ==
  /\ state' = "Local" /\ since' = {}
  /\ has_control' = FALSE /\ remote' = {}
  /\ crossed' = (crossed /\ returns > 0)
  /\ UNCHANGED returns

\* The keys of the peer once `keys` are those that a forwarded event leaves;
\* without control it passes the event over.
Forward(keys) ==
  /\ remote' = IF state = "Forwarding" /\ has_control THEN keys ELSE remote
  /\ UNCHANGED <<has_control, returns, crossed>>

\* The cursor leaves the peer's screen; a ReturnControl for which its channel
\* has no room is dropped.
CursorLeavesPeer ==
  /\ state = "Forwarding" /\ has_control
  /\ has_control' = FALSE /\ remote' = {}
  /\ returns' \in {returns} \cup {n \in {returns + 1} : n <= MaxReturns}
  /\ fired' = "None"
  /\ UNCHANGED <<config, tracked, state, down, since, crossed>>

\* The peer's user switches screens while its agent forwards elsewhere: what
\* its IPC server broadcasts goes to its controllers as well.
PeerSwitchesScreen ==
  /\ returns < MaxReturns /\ returns' = returns + 1
  /\ crossed' = TRUE /\ fired' = "None"
  /\ UNCHANGED <<config, tracked, state, has_control, remote, down, since>>

-----------------------------------------------------------------------------
(* The event loop.                                                         *)

\* The user presses k, which is action a to the matcher.  (The kernel's
\* repeated presses of a key that is held are dropped by KeyboardCapture.)
Presses(k, a) ==
  /\ k \notin down
  /\ down' = down \cup {k}
  /\ fired' = a
  /\ a = PressAction(config, k, ClassesOf(TrackedWith(k)))
  /\ UNCHANGED config

\* No hotkey: the event is forwarded, or left to the local desktop.
TypeKey(k) ==
  /\ Presses(k, "None")
  /\ tracked' = TrackedWith(k)
  /\ since' = since \cup {k}
  /\ Forward(remote \cup {k})
  /\ UNCHANGED state

\* HotkeyAction::ToggleCursorLock; the lock itself belongs to EdgeDetector.
ToggleCursorLock(k) ==
  /\ Presses(k, "ToggleCursorLock")
  /\ tracked' = TrackedWith(k)
  /\ since' = since \cup {k}
  /\ UNCHANGED <<state, peer>>

\* HotkeyAction::DirectionalJump: enter, come back, go on to the next screen,
\* or stay where there is none (Handoff has the conditions).
DirectionalJump(k) ==
  /\ Presses(k, "DirectionalJump")
  /\ \/ Enter /\ tracked' = {}
     \/ state = "Forwarding" /\ GoHome /\ tracked' = {}
     \/ /\ tracked' = TrackedWith(k) /\ since' = since \cup {k}
        /\ UNCHANGED <<state, peer>>

\* From one screen to the other.
SwitchesFocus ==
  \/ state = "Local" /\ Enter
  \/ state = "Forwarding" /\ GoHome

\* HotkeyAction::SwitchScreen
SwitchScreen(k) ==
  /\ Presses(k, "SwitchScreen")
  /\ SwitchesFocus
  /\ tracked' = {}

\* HotkeyAction::EmergencyEscape: when Local the event goes the usual way.
EmergencyEscape(k) ==
  /\ Presses(k, "EmergencyEscape")
  /\ \/ state = "Forwarding" /\ GoHome /\ tracked' = {}
     \/ /\ state = "Local"
        /\ tracked' = TrackedWith(k) /\ since' = since \cup {k}
        /\ UNCHANGED <<state, peer>>

Press(k) ==
  \/ TypeKey(k) \/ ToggleCursorLock(k) \/ DirectionalJump(k)
  \/ SwitchScreen(k) \/ EmergencyEscape(k)

\* Mutant: one flag per class of modifiers.
ReleaseClass(k) ==
  /\ k \in down
  /\ down' = down \ {k}
  /\ tracked' = IF k \in Mods THEN {m \in tracked : Class[m] # Class[k]}
                              ELSE tracked
  /\ since' = since \ {k}
  /\ Forward(remote \ {k})
  /\ fired' = "None"
  /\ UNCHANGED <<config, state>>

\* Mutant: the release of a modifier is taken for part of a hotkey.
ReleaseSwallowed(k) ==
  /\ k \in down
  /\ down' = down \ {k}
  /\ tracked' = tracked \ {k}
  /\ since' = since \ {k}
  /\ Forward(IF k \in tracked THEN remote ELSE remote \ {k})
  /\ fired' = "None"
  /\ UNCHANGED <<config, state>>

\* The user lets k go.  A release is never a hotkey.
Release(k) ==
  /\ k \in down
  /\ down' = down \ {k}
  /\ tracked' = tracked \ {k}
  /\ since' = since \ {k}
  /\ Forward(remote \ {k})
  /\ fired' = "None"
  /\ UNCHANGED <<config, state>>

-----------------------------------------------------------------------------
(* The focus moves by other means.                                         *)

\* The cursor crosses an edge of the local screen.
CursorEnters ==
  /\ state = "Local" /\ Enter
  /\ tracked' = {} /\ fired' = "None"
  /\ UNCHANGED <<config, down>>

\* A ReturnControl of the peer arrives, whatever has been sent since then.
TakesReturn(s) ==
  /\ returns > 0 /\ state = s
  /\ returns' = returns - 1
  /\ fired' = "None"
  /\ UNCHANGED <<config, down, remote>>

PassesReturnOver ==
  /\ TakesReturn("Local")
  /\ UNCHANGED <<state, tracked, since, has_control, crossed>>

\* The user comes home; the peer, which should have let go, is not told.
CursorReturns ==
  /\ TakesReturn("Forwarding")
  /\ state' = "Local" /\ tracked' = {} /\ since' = {}
  /\ UNCHANGED <<has_control, crossed>>

\* Mutant: a traversal starts with the keys of the previous screen.
CursorTraversesHolding ==
  /\ TakesReturn("Forwarding")
  /\ has_control' = TRUE /\ since' = {} /\ tracked' = down
  /\ crossed' = (crossed \/ returns > 1)
  /\ UNCHANGED state

\* The cursor goes on to the next screen, by an EdgeCrossed; the modifiers stay
\* tracked.
CursorTraverses ==
  /\ TakesReturn("Forwarding")
  /\ has_control' = TRUE /\ since' = {}
  /\ crossed' = (crossed \/ returns > 1)
  /\ UNCHANGED <<state, tracked>>

\* The IPC command SwitchScreen: the modifiers stay tracked.
IpcMovesFocus ==
  /\ SwitchesFocus
  /\ fired' = "None"
  /\ UNCHANGED <<config, tracked, down>>

Next ==
  \/ \E k \in Keys : Press(k) \/ Release(k)
  \/ CursorEnters \/ CursorReturns \/ CursorTraverses \/ PassesReturnOver
  \/ IpcMovesFocus
  \/ CursorLeavesPeer \/ PeerSwitchesScreen

Spec == Init /\ [][Next]_vars

-----------------------------------------------------------------------------
(* Properties.                                                             *)

\* Every variable has its type.
TypeOK ==
  /\ config \in Configs
  /\ tracked \subseteq Mods
  /\ state \in {"Local", "Forwarding"}
  /\ remote \subseteq Keys /\ down \subseteq Keys /\ since \subseteq Keys
  /\ fired \in HotkeyAction
  /\ has_control \in BOOLEAN /\ crossed \in BOOLEAN
  /\ returns \in 0..MaxReturns

\* The matcher knows every modifier pressed since the focus last moved and
\* still held, and believes none to be down that is not: with both keys of a
\* class in any order, a hotkey is not missed, and none fires for a modifier
\* the user has let go.
TrackingInv ==
  /\ since \cap Mods \subseteq tracked
  /\ tracked \subseteq down
  /\ since \subseteq down

\* A key that is down on the peer is one the user holds, and none is once the
\* focus is home: no order of hotkeys, whose presses are swallowed, of releases
\* and of returns leaves a key stuck there.  The exception is a return of the
\* peer that crosses an entry, or that its user's SwitchScreen causes: it
\* takes the controller home while the peer keeps control and its keys
\* (client.rs:1116, server.rs:409).  It lasts until the controller sends a
\* ReturnControl with none of the peer's under way.
RemoteHeldAreHeld ==
  ~crossed => remote \subseteq down /\ (state = "Local" => remote = {})

\* In state Forwarding, Escape with a Ctrl and an Alt that were pressed since
\* the focus last moved ends it, whatever shortcuts are configured.
EscapeReturns ==
  [][(/\ state = "Forwarding" /\ config.enabled
      /\ Esc \notin down /\ Esc \in down'
      /\ CtrlAlt(ClassesOf(since))) => state' = "Local"]_vars

\* "Ctrl + Alt + Escape: Emergency ungrab (instantly releases all hardware
\* capture back to local display)" (usage.md:206), "ALWAYS active for safety"
\* (hotkeys.rs:171): so with any Ctrl and Alt the user holds.  Violated.
EscapeAlwaysActive ==
  [][(/\ state = "Forwarding" /\ config.enabled
      /\ Esc \notin down /\ Esc \in down'
      /\ CtrlAlt(ClassesOf(down))) => state' = "Local"]_vars
=============================================================================
