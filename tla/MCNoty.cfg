CONSTANTS
  Note = {plain, sticky, urgent, corner}
  Growl = {corner}
  Forced = {urgent}
  Modal = {urgent, corner}
  Sticky = {sticky}
  MaxClock = 1
SPECIFICATION FairSpec
INVARIANTS
  TypeOK
  TurnTaken
  HandlersCurrent
  OverlayOwned
PROPERTIES
  ServedInOrder
  EachServed
