SPECIFICATION ReaderSpec
CONSTANTS
  base = base
  c1 = c1
  c2 = c2
  Ids <- MCIds
  Geos <- MCGeos
  GeoOf <- EvenGeoOf
  Built <- BothTiles
  Reread <- BothTiles
  Crosses <- BothTiles
  Drawable <- MCIds
  Tiles <- MCTiles
  t1 = t1
  t2 = t2
  Threads <- MCThreads
  Base = base
  SimSkew = 0
  MaxClock = 1
  MaxRequests = 2
  Forever = 99
  NoId = NoId
  NoThread = NoThread
  Requests <- OneOrTwo
INVARIANT ReaderTypeOK
INVARIANT NothingDeleted
INVARIANT NoGap
INVARIANT FailsOnRelabelOnly
INVARIANT AnsweredOnce
SYMMETRY ReaderSymmetry
