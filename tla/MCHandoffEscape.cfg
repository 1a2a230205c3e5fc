SPECIFICATION EscapeSpec
CONSTANTS
  Devices = {mouse}
  Keys = {a}
  Grid <- OnePeer
  TargetEdge = "Right"
  ExitEdges = {"Left"}
  Broadcasts <- NoBroadcasts
  C2SCap = 3
  S2CCap = 1
  InCap = 1
  OutCap = 1
  MaxMissed = 1
INVARIANT EscapeDropsRemoteHolds
CHECK_DEADLOCK FALSE
