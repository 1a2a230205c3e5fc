SPECIFICATION Spec
CONSTANTS
  MaxRing = 50
  Size <- Screen
  Deadzone = 1
  Threshold = 2
  SwitchDelay = TRUE
  MarginMin = 3
  MarginMax = 3
  Peers = {"p1", "p2"}
  Peer = "p1"
  Local = "local"
  Motions <- SomeMotions
  Ratios = {0}
  Words = {"left"}
  GridCells <- SomeCells
  Lockable = TRUE
  MaxDrift = 1
INVARIANTS
  OneScreenPerCell
  PlacedAsAsked
  NoBounceBack
  CrossedByMotion
  StrayOnlyAfterRemoteSwitch
CHECK_DEADLOCK FALSE
