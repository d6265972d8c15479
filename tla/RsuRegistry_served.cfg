SPECIFICATION Spec
CONSTANTS
  p1 = p1
  p2 = p2
  g1 = g1
  g2 = g2
  d1 = d1
  r1 = r1
  r2 = r2
  Absent = Absent
  Ports = {p1, p2}
  Bsms <- MCBsms
  Along <- MCAlong
  Regs = {g1, g2}
  Dels = {d1}
  Reqs = {r1, r2}
  Duration = 1
  TicksPerSecond = 1
  MaxNow = 1
  MaxRegistering = 1
  MaxAsking = 2
 
INVARIANT ServedIfUnchanged
INVARIANT TrackedOnce
INVARIANT IgnoredWasProcessed
SYMMETRY MCSymmetry
CHECK_DEADLOCK FALSE
