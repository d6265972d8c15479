SPECIFICATION Spec
CONSTANTS
  base = base
  c1 = c1
  c2 = c2
  c3 = c3
  Ids <- MCIds
  Geos <- MCGeos
  GeoOf <- EvenGeoOf
  Built <- MCBuilt
  Reread <- MCReread
  Crosses <- MCCrosses
  Drawable <- MCIds
  Tiles <- MCTiles
  t1 = t1
  t2 = t2
  Threads <- MCThreads
  Base = base
  SimSkew = 0
  MaxClock = 2
  MaxRequests = 3
  Forever = 99
  NoId = NoId
  NoThread = NoThread
INVARIANT TypeOK
INVARIANT IndexedIsStored
INVARIANT FoundStays
 
INVARIANT SuccessorFirst
INVARIANT RetiredIsEnded
INVARIANT RetiredNotInForce
INVARIANT DrawnIsIndexed
PROPERTY OnlyTargetEnds
PROPERTY ImplementsLedger
SYMMETRY EvenSymmetry
