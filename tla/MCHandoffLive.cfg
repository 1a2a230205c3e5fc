SPECIFICATION FairSpec
CONSTANTS
  Devices = {mouse}
  Keys = {a}
  Grid <- OnePeer
  TargetEdge = "Right"
  ExitEdges = {"Left"}
  Broadcasts <- SwitchBroadcasts
  C2SCap = 1
  S2CCap = 1
  InCap = 1
  OutCap = 1
  MaxMissed = 1
PROPERTIES
  PeerLossFreesDevices
  SessionEndReleasesKeys
  StrandedFocusResolves
CHECK_DEADLOCK FALSE
