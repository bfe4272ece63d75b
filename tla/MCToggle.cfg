CONSTANTS
  Box = {b1, b2}
  None = none
  OnLabel = 1
  OffLabel = 1
  HandleMargin = 3
  ContainerRadius = 1
  DragThreshold = 1
  PageWidth = 3
  MaxLost = 1
SYMMETRY Interchangeable
SPECIFICATION Spec
INVARIANTS
  TypeOK
  HandleAgrees
  Rest
PROPERTIES
  ClickToggles
  DragDecides
