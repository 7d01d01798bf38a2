CONSTANTS
  desktop = desktop
  win1 = win1
  win2 = win2
  field1 = field1
  field2 = field2
  Nobody = Nobody
  Root = desktop
  Window <- MCWindow
  Field <- MCField
  Children <- MCChildren
  Place <- MCPlace
  Extent <- MCExtent
  Button <- MCButton
  Moves <- MCMoves
SPECIFICATION Spec
INVARIANTS
  TypeOK
  FrontDragHolds
  KeysReachLastPressed
PROPERTY WindowsMoveWithMouse
