SPECIFICATION FairSpec
CONSTANTS
  base = base
  c1 = c1
  c2 = c2
  c3 = c3
  Ids <- OddIds
  Geos <- MCGeos
  GeoOf <- OddGeoOf
  Built <- MCBuilt
  Reread <- MCReread
  Crosses <- MCCrosses
  Drawable <- OddDrawable
  Tiles <- MCTiles
  t1 = t1
  t2 = t2
  Threads <- MCThreads
  Base = base
  SimSkew = 0
  MaxClock = 2
  MaxRequests = 2
  Forever = 99
  NoId = NoId
  NoThread = NoThread
INVARIANT RetiredIsEnded
 
