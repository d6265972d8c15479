SPECIFICATION Spec
CONSTANTS
  stop = stop
  speed = speed
  l1 = l1
  c1 = c1
  c2 = c2
  c3 = c3
  Lanes <- MCLanes
  Types <- MCTypes
  Ctrls <- MCCtrls
  TypeOf <- MCTypeOf
  Tiles <- MCTiles
  TileOf <- MCTileOf
  Views <- MCViews
  InitLive <- MCLive
  Bounds <- MCBounds
  None = None
INVARIANT PageSound
INVARIANT ModeReady
INVARIANT RightControl
PROPERTY KeepsItsControl
CHECK_DEADLOCK FALSE
