---------------------------- MODULE HandoffEscape ----------------------------
(***************************************************************************)
(* Handoff together with a record of the last thing the user asked for:    *)
(* the emergency escape hotkey, which "drops remote holds"                 *)
(* (manguesechee-input/src/hotkeys.rs:15-16), and nothing since.           *)
(***************************************************************************)
EXTENDS Handoff

VARIABLE escaped

EscapeInit == Init /\ escaped = FALSE

\* client.rs:887-902: Ctrl+Alt+Escape is acted upon only while Forwarding.
EscapePressed ==
  /\ Looping
  /\ EmergencyEscape \/ (state = "Local" /\ UNCHANGED vars)
  /\ escaped' = TRUE

\* Any other step; entering the remote screen again ends the record.
OtherStep ==
  /\ Next
  /\ escaped' = (escaped /\ state' # "Forwarding")

EscapeNext == EscapePressed \/ OtherStep

EscapeSpec == EscapeInit /\ [][EscapeNext]_<<vars, escaped>>

\* Once the user has pressed the emergency escape and the server has read all
\* that was sent to it, it holds no key down.
EscapeDropsRemoteHolds ==
  escaped /\ link = "Up" /\ Looping /\ c2s = <<>> => held = {}
=============================================================================
