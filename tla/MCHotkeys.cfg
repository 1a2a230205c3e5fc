SPECIFICATION Spec
CONSTANTS
  Keys <- SixKeys
  Class <- TwoCtrls
  Esc = "esc"
  Arrows <- OneArrow
  None = None
  NoCombo = None
  MaxReturns = 1
  Configs <- AllConfigs
INVARIANTS
  TypeOK
  TrackingInv
  RemoteHeldAreHeld
PROPERTIES
  EscapeReturns
