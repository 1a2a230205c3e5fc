SPECIFICATION Spec
CONSTANTS
  LastSlot = 1
  Points <- ThreePoints
  Notch = 2
  None = None
INVARIANTS
  TypeOK
  PointerMovesWithOneFinger
  ClickReleased
PROPERTIES
  MotionIsTheFingers
