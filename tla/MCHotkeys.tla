----------------------------- MODULE MCHotkeys ------------------------------
(***************************************************************************)
(* Instances of Hotkeys for TLC.                                           *)
(***************************************************************************)
EXTENDS Hotkeys, TLC

CONSTANT None

\* Two keys of one class, one of another.
TwoCtrls == ("lctrl" :> "ctrl") @@ ("rctrl" :> "ctrl") @@ ("lalt" :> "alt")
SixKeys == {"lctrl", "rctrl", "lalt", "esc", "right", "tab"}
OneArrow == {"right"}

CtrlAltWith(k) == [mods |-> {"ctrl", "alt"}, key |-> k]
Plain(k) == [mods |-> {}, key |-> k]

\* Shortcuts that compete with the built-in escape and with each other, one
\* without modifiers, disabled ones; and hotkeys switched off.
FewConfigs == [enabled : {TRUE},
               toggle_lock : {CtrlAltWith("esc"), Plain("tab")},
               switch_screen : {CtrlAltWith("esc"), CtrlAltWith("tab")},
               emergency_escape : {None, CtrlAltWith("tab")}]
OffConfig == [enabled |-> FALSE, toggle_lock |-> Plain("tab"),
              switch_screen |-> CtrlAltWith("tab"), emergency_escape |-> None]
AllConfigs == FewConfigs \cup {OffConfig}

\* HotkeyConfig::default, with "tab" for ScrollLock too.
DefaultConfig == {[enabled |-> TRUE, toggle_lock |-> Plain("tab"),
                   switch_screen |-> CtrlAltWith("tab"),
                   emergency_escape |-> CtrlAltWith("esc")]}
=============================================================================
