CONSTANTS
  desktop = desktop
  win1 = win1
  win2 = win2
  field1 = field1
  Nobody = Nobody
  Root = desktop
  Window <- MCWindow
  Field <- MCField
  Children <- MCChildren
  Place <- MCPlace
  Extent <- MCExtent
  Button <- MCButton
  Moves <- MCMoves
  Word = 64
  Paint <- MCPaint
  Left <- MCLeft
SPECIFICATION ScreenSpec
INVARIANTS
  ModeIsSet
  SeenIsReached
PROPERTY ScreenCatchesUp
