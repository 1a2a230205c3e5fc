--------------------------- MODULE Hotkeys_proof ----------------------------
(***************************************************************************)
(* Proofs about Hotkeys, for every keyboard and every configuration.       *)
(***************************************************************************)
EXTENDS Hotkeys, TLAPS

\* The peer holds nothing down without control, and unless a return of its own
\* has crossed an entry it is without control once one is under way, and
\* whenever the controller is home.
ControlInv ==
  /\ ~has_control => remote = {}
  /\ ~crossed /\ returns > 0 => ~has_control
  /\ ~crossed /\ state = "Local" => ~has_control

\* The invariants are inductive together: a change of focus empties since, and
\* each key event changes tracked, since and down alike, remote as far as the
\* peer has control.
HeldInv == TypeOK /\ TrackingInv /\ ControlInv /\ RemoteHeldAreHeld

-----------------------------------------------------------------------------
(* Pure facts.                                                             *)

\* A larger set of keys holds at least its classes of modifiers down.
LEMMA ClassesGrow ==
  ASSUME NEW S, NEW T, S \cap Mods \subseteq T
  PROVE  ClassesOf(S) \subseteq ClassesOf(T)
BY DEF ClassesOf

\* Escape with Ctrl and Alt is the emergency escape in every configuration.
LEMMA EscapeComesFirst ==
  ASSUME NEW c, NEW held, c.enabled, CtrlAlt(held)
  PROVE  PressAction(c, Esc, held) = "EmergencyEscape"
BY DEF PressAction

\* The matcher tracks only modifiers.
LEMMA TrackedWithType ==
  ASSUME TypeOK, NEW k \in Keys
  PROVE  TrackedWith(k) \subseteq Mods /\ tracked \subseteq TrackedWith(k)
BY DEF TypeOK, TrackedWith

-----------------------------------------------------------------------------
(* The inductive invariant.                                                *)

LEMMA InitHolds == Init => HeldInv
<1> SUFFICES ASSUME Init PROVE HeldInv
  OBVIOUS
<1>1. returns \in 0..MaxReturns
  BY MaxReturnsAssumption DEF Init
<1>2. TypeOK
  BY <1>1 DEF Init, TypeOK, HotkeyAction
<1>3. TrackingInv /\ ControlInv /\ RemoteHeldAreHeld
  BY DEF Init, TrackingInv, ControlInv, RemoteHeldAreHeld
<1> QED BY <1>2, <1>3 DEF HeldInv

\* The peer as an EdgeCrossed leaves it.
LEMMA EnterHolds ==
  ASSUME HeldInv, Enter, down \subseteq down'
  PROVE  ControlInv' /\ RemoteHeldAreHeld'
<1>1. ControlInv'
  BY DEF Enter, HeldInv, TypeOK, ControlInv
<1>2. RemoteHeldAreHeld'
  BY DEF Enter, HeldInv, TypeOK, ControlInv, RemoteHeldAreHeld
<1> QED BY <1>1, <1>2

\* The peer as a ReturnControl leaves it.
LEMMA GoHomeHolds ==
  ASSUME GoHome
  PROVE  ControlInv' /\ RemoteHeldAreHeld'
BY DEF GoHome, ControlInv, RemoteHeldAreHeld

\* A key press that is not a hotkey, or is the cursor lock.
LEMMA TypingHolds ==
  ASSUME HeldInv, NEW k \in Keys, TypeKey(k) \/ ToggleCursorLock(k)
  PROVE  HeldInv'
<1>1. /\ config' = config /\ state' = state
      /\ down' = down \cup {k} /\ since' = since \cup {k}
      /\ tracked' = TrackedWith(k)
      /\ UNCHANGED <<has_control, returns, crossed>>
      /\ \/ remote' = remote
         \/ state = "Forwarding" /\ has_control /\ remote' = remote \cup {k}
  BY DEF TypeKey, ToggleCursorLock, Presses, Forward, peer
<1>2. fired' \in HotkeyAction
  BY DEF TypeKey, ToggleCursorLock, Presses, HotkeyAction
<1>3. TypeOK'
  BY <1>1, <1>2, TrackedWithType DEF HeldInv, TypeOK
<1>4. TrackingInv'
  BY <1>1 DEF HeldInv, TypeOK, TrackingInv, TrackedWith
<1>5. ControlInv'
  BY <1>1 DEF HeldInv, ControlInv
<1>6. RemoteHeldAreHeld'
  BY <1>1 DEF HeldInv, TypeOK, RemoteHeldAreHeld
<1> QED BY <1>3, <1>4, <1>5, <1>6 DEF HeldInv

\* A hotkey that may move the focus: either it does, and what followed the old
\* focus is forgotten, or the key counts like any other.
LEMMA JumpingHolds ==
  ASSUME HeldInv, NEW k \in Keys,
         DirectionalJump(k) \/ SwitchScreen(k) \/ EmergencyEscape(k)
  PROVE  HeldInv'
<1>1. /\ config' = config
      /\ down' = down \cup {k}
      /\ fired' \in HotkeyAction
  BY DEF DirectionalJump, SwitchScreen, EmergencyEscape, Presses, HotkeyAction
<1>2. \/ Enter \/ GoHome \/ UNCHANGED <<state, peer>>
  BY DEF DirectionalJump, SwitchScreen, EmergencyEscape, SwitchesFocus
<1>3. \/ tracked' = {} /\ since' = {}
      \/ tracked' = TrackedWith(k) /\ since' = since \cup {k}
  BY DEF DirectionalJump, SwitchScreen, EmergencyEscape, SwitchesFocus, Enter,
         GoHome
<1>4. TypeOK'
  <2>1. /\ state' \in {"Local", "Forwarding"} /\ remote' \subseteq Keys
        /\ has_control' \in BOOLEAN /\ crossed' \in BOOLEAN
        /\ returns' \in 0..MaxReturns
    BY <1>2 DEF Enter, GoHome, peer, HeldInv, TypeOK
  <2> QED BY <1>1, <1>3, <2>1, TrackedWithType DEF HeldInv, TypeOK
<1>5. TrackingInv'
  BY <1>1, <1>3 DEF HeldInv, TypeOK, TrackingInv, TrackedWith
<1>6. ControlInv' /\ RemoteHeldAreHeld'
  <2>1. CASE UNCHANGED <<state, peer>>
    BY <1>1, <2>1 DEF peer, HeldInv, TypeOK, ControlInv, RemoteHeldAreHeld
  <2> QED BY <1>1, <1>2, <2>1, EnterHolds, GoHomeHolds
<1> QED BY <1>4, <1>5, <1>6 DEF HeldInv

LEMMA ReleaseHolds ==
  ASSUME HeldInv, NEW k \in Keys, Release(k)
  PROVE  HeldInv'
<1>1. TypeOK'
  BY DEF Release, Forward, HeldInv, TypeOK, HotkeyAction
<1>2. TrackingInv'
  BY DEF Release, HeldInv, TypeOK, TrackingInv
<1>3. ControlInv'
  BY DEF Release, Forward, HeldInv, TypeOK, ControlInv
<1>4. RemoteHeldAreHeld'
  BY DEF Release, Forward, HeldInv, TypeOK, ControlInv, RemoteHeldAreHeld
<1> QED BY <1>1, <1>2, <1>3, <1>4 DEF HeldInv

\* The cursor and the IPC command move the focus by a message to the peer.
LEMMA FocusMovesHold ==
  ASSUME HeldInv, CursorEnters \/ IpcMovesFocus
  PROVE  HeldInv'
<1>1. /\ config' = config /\ down' = down
      /\ since' = {} /\ fired' = "None"
      /\ tracked' = {} \/ tracked' = tracked
      /\ Enter \/ GoHome
  BY DEF CursorEnters, IpcMovesFocus, SwitchesFocus, Enter, GoHome
<1>2. TypeOK'
  BY <1>1 DEF HeldInv, TypeOK, HotkeyAction, Enter, GoHome
<1>3. TrackingInv'
  BY <1>1 DEF HeldInv, TrackingInv
<1>4. ControlInv' /\ RemoteHeldAreHeld'
  BY <1>1, EnterHolds, GoHomeHolds
<1> QED BY <1>2, <1>3, <1>4 DEF HeldInv

\* A ReturnControl of the peer arrives: the peer is without control, unless the
\* message has crossed an entry.
LEMMA ReturnsHold ==
  ASSUME HeldInv, PassesReturnOver \/ CursorReturns \/ CursorTraverses
  PROVE  HeldInv'
<1>1. /\ config' = config /\ down' = down /\ remote' = remote
      /\ fired' = "None" /\ returns > 0 /\ returns' = returns - 1
      /\ since' = since \/ since' = {}
      /\ (tracked' = {} /\ since' = {}) \/ tracked' = tracked
  BY DEF PassesReturnOver, CursorReturns, CursorTraverses, TakesReturn
<1>2. TypeOK'
  <2>1. returns' \in 0..MaxReturns
    BY <1>1, MaxReturnsAssumption DEF HeldInv, TypeOK
  <2>2. /\ state' \in {"Local", "Forwarding"}
        /\ has_control' \in BOOLEAN /\ crossed' \in BOOLEAN
    BY DEF PassesReturnOver, CursorReturns, CursorTraverses, TakesReturn,
           HeldInv, TypeOK
  <2>3. tracked' \subseteq Mods /\ since' \subseteq Keys
    BY <1>1 DEF HeldInv, TypeOK
  <2> QED BY <1>1, <2>1, <2>2, <2>3 DEF HeldInv, TypeOK, HotkeyAction
<1>3. TrackingInv'
  BY <1>1 DEF HeldInv, TrackingInv
<1>4. CASE PassesReturnOver
  BY <1>1, <1>2, <1>3, <1>4
     DEF PassesReturnOver, HeldInv, TypeOK, ControlInv, RemoteHeldAreHeld
<1>5. CASE CursorReturns
  BY <1>1, <1>2, <1>3, <1>5
     DEF CursorReturns, HeldInv, TypeOK, ControlInv, RemoteHeldAreHeld
<1>6. CASE CursorTraverses
  <2>1. state' = "Forwarding" /\ has_control' = TRUE
        /\ crossed' = (crossed \/ returns > 1)
    BY <1>6 DEF CursorTraverses, TakesReturn
  <2>2. ~crossed' => ~(returns' > 0)
    <3>1. returns \in Nat
      BY DEF HeldInv, TypeOK
    <3>2. ~crossed' => ~(returns > 1)
      BY <2>1
    <3>3. returns' = returns - 1
      BY <1>1
    <3>4. ~(returns > 1) => ~(returns' > 0)
      BY <3>1, <3>3
    <3> QED BY <3>2, <3>4
  <2>3. ControlInv'
    BY <2>1, <2>2 DEF ControlInv
  <2>4. RemoteHeldAreHeld'
    BY <1>1, <2>1 DEF HeldInv, RemoteHeldAreHeld, TypeOK
  <2> QED BY <1>2, <1>3, <2>3, <2>4 DEF HeldInv
<1> QED BY <1>4, <1>5, <1>6

\* What the peer sends by itself: it has let go, or the message is crossed.
LEMMA PeerStepsHold ==
  ASSUME HeldInv, CursorLeavesPeer \/ PeerSwitchesScreen
  PROVE  HeldInv'
<1>1. /\ UNCHANGED <<config, tracked, state, down, since>>
      /\ fired' = "None"
  BY DEF CursorLeavesPeer, PeerSwitchesScreen
<1>2. TypeOK'
  <2>1. returns' \in 0..MaxReturns
    <3>1. returns' = returns \/ (returns' = returns + 1 /\ returns' <= MaxReturns)
      BY MaxReturnsAssumption
         DEF CursorLeavesPeer, PeerSwitchesScreen, HeldInv, TypeOK
    <3> QED BY <3>1, MaxReturnsAssumption DEF HeldInv, TypeOK
  <2>2. /\ has_control' \in BOOLEAN /\ crossed' \in BOOLEAN
        /\ remote' \subseteq Keys
    BY DEF CursorLeavesPeer, PeerSwitchesScreen, HeldInv, TypeOK
  <2> QED BY <1>1, <2>1, <2>2 DEF HeldInv, TypeOK, HotkeyAction
<1>3. TrackingInv'
  BY <1>1 DEF HeldInv, TrackingInv
<1>4. ControlInv' /\ RemoteHeldAreHeld'
  BY <1>1 DEF CursorLeavesPeer, PeerSwitchesScreen, HeldInv, ControlInv,
              RemoteHeldAreHeld
<1> QED BY <1>2, <1>3, <1>4 DEF HeldInv

LEMMA StepHolds == HeldInv /\ [Next]_vars => HeldInv'
<1> SUFFICES ASSUME HeldInv, [Next]_vars PROVE HeldInv'
  OBVIOUS
<1>1. ASSUME NEW k \in Keys, Press(k) PROVE HeldInv'
  BY <1>1, TypingHolds, JumpingHolds DEF Press
<1>2. ASSUME NEW k \in Keys, Release(k) PROVE HeldInv'
  BY <1>2, ReleaseHolds
<1>3. CASE CursorEnters \/ IpcMovesFocus
  BY <1>3, FocusMovesHold
<1>4. CASE PassesReturnOver \/ CursorReturns \/ CursorTraverses
  BY <1>4, ReturnsHold
<1>5. CASE CursorLeavesPeer \/ PeerSwitchesScreen
  BY <1>5, PeerStepsHold
<1>6. CASE UNCHANGED vars
  BY <1>6 DEF vars, peer, HeldInv, TypeOK, TrackingInv, ControlInv,
              RemoteHeldAreHeld
<1> QED BY <1>1, <1>2, <1>3, <1>4, <1>5, <1>6 DEF Next

\* HeldInv holds in every reachable state.
LEMMA HeldInvHolds == Spec => []HeldInv
BY InitHolds, StepHolds, PTL DEF Spec

-----------------------------------------------------------------------------
(* The theorems.                                                           *)

\* Every variable keeps its type, on every keyboard and configuration.
THEOREM TypeCorrect == Spec => []TypeOK
<1>1. HeldInv => TypeOK
  BY DEF HeldInv
<1> QED BY <1>1, HeldInvHolds, PTL

\* HotkeyMatcher misses no modifier pressed since the focus last moved and
\* believes in none that was let go, however many keys a class has.
THEOREM TrackingHolds == Spec => []TrackingInv
<1>1. HeldInv => TrackingInv
  BY DEF HeldInv
<1> QED BY <1>1, HeldInvHolds, PTL

\* Unless a ReturnControl of the peer has crossed an entry, the peer holds no
\* key down that the user does not, and none once the focus is back: swallowed
\* hotkey presses leave nothing to be released.
THEOREM NoStuckKeys == Spec => []RemoteHeldAreHeld
<1>1. HeldInv => RemoteHeldAreHeld
  BY DEF HeldInv
<1> QED BY <1>1, HeldInvHolds, PTL

\* The built-in escape works for modifiers pressed since the focus last moved,
\* whatever the user's shortcuts are.
THEOREM EscapeAlwaysReturns == Spec => EscapeReturns
<1> DEFINE Escapes == /\ state = "Forwarding" /\ config.enabled
                      /\ Esc \notin down /\ Esc \in down'
                      /\ CtrlAlt(ClassesOf(since))
<1>1. HeldInv /\ [Next]_vars => [Escapes => state' = "Local"]_vars
  <2> SUFFICES ASSUME HeldInv, Next, Escapes PROVE state' = "Local"
    OBVIOUS
  <2>0. down' # down
    OBVIOUS
  <2>1. Press(Esc)
    <3>1. \E k \in Keys : Press(k) \/ Release(k)
      BY <2>0 DEF Next, CursorEnters, CursorReturns, CursorTraverses,
           PassesReturnOver, TakesReturn, IpcMovesFocus, CursorLeavesPeer,
           PeerSwitchesScreen
    <3>2. PICK k \in Keys : Press(k) \/ Release(k)
      BY <3>1
    <3> QED BY <3>2 DEF Press, Release, TypeKey, ToggleCursorLock, DirectionalJump,
           SwitchScreen, EmergencyEscape, Presses
  <2>2. TrackedWith(Esc) = tracked
    BY EscAssumption DEF TrackedWith
  <2>3. CtrlAlt(ClassesOf(tracked))
    BY ClassesGrow DEF CtrlAlt, HeldInv, TrackingInv
  <2>4. PressAction(config, Esc, ClassesOf(TrackedWith(Esc))) = "EmergencyEscape"
    BY <2>2, <2>3, EscapeComesFirst
  <2>5. EmergencyEscape(Esc)
    BY <2>1, <2>4 DEF Press, TypeKey, ToggleCursorLock, DirectionalJump,
                      SwitchScreen, Presses
  <2> QED BY <2>5 DEF EmergencyEscape, GoHome
<1> QED BY <1>1, HeldInvHolds, PTL DEF Spec, EscapeReturns
=============================================================================
