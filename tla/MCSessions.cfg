SPECIFICATION Spec
CONSTANTS
  w1 = w1
  w2 = w2
  p1 = p1
  p2 = p2
  NoPair = NoPair
  Requests <- MCRequests
  Pairs <- MCPairs
  AccessTtl = 1
  RefreshTtl = 2
  MaxTime = 3
  MaxFaults = 1
SYMMETRY MCSymmetry
INVARIANTS
  LogoutSticks
  RotationBounded
