SPECIFICATION PartSpec
CONSTANTS
  NoRop = NoRop
  RopIds <- MCRops
  RopFileAt0 <- MCRopFile
  MaxTyped = 1
  MaxSent = 3
  NoIhp = NoIhp
  MaxCorridors = 2
  IhpData <- MCData
  IhpTrigger = 2
  IhpGap = 2
  MaxRuns = 7
  LowestInt <- MCLowest
  MaxEnds = 5
  MaxMoves = 3
  MaxDrawings = 2
  Bends <- MCBends
  Backwards <- MCBackwards
  Reach = 1
  MaxDrags = 3
  Tabs = {t1, t2}
  Lease = 1
  MaxTime = 2
  MaxLogins = 2
  MaxCalls = 4
  MaxVisits = 3
  Ports = {p1, p2}
  MaxClicks = 3
  MaxChanges = 2
  Cars = {v1, v2}
  Forward = {v1}
  SmStart = 5
  MaxPolls = 4
  MaxMapClicks = 2
  Lanes <- MCLanes
  NoLane = NoLane
  Full <- MCFull
  Mile <- MCMile
  Wide <- MCWide
  MaxPieces = 3
SYMMETRY MCTabs
CHECK_DEADLOCK FALSE
INVARIANT PartTypeOK
INVARIANT ShowsServed
INVARIANT RulesKept
INVARIANT ControlsLead
INVARIANT CorridorDrawn
INVARIANT TrackDrawn
INVARIANT SessionsLast
INVARIANT PieceSent
PROPERTY SmoothControls
