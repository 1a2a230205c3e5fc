SPECIFICATION Spec
CONSTANTS
  Devices = {mouse}
  Keys = {a}
  Grid <- Row
  TargetEdge = "Right"
  ExitEdges = {"Left"}
  Broadcasts <- AllBroadcasts
  C2SCap = 2
  S2CCap = 1
  InCap = 1
  OutCap = 1
  MaxMissed = 1
INVARIANTS
  TypeOK
  HeldOnlyWithControl
  FocusNotStranded
  LoopStateAgrees
  GrabbedOnlyWhileForwarding
PROPERTIES
  FocusKept
CHECK_DEADLOCK FALSE
