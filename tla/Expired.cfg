\* A leg that was never sent expires.
SPECIFICATION Spec
CONSTANTS
  p1 = p1
  p2 = p2
  l1 = l1
  l2 = l2
  l3 = l3
  c1 = c1
  c2 = c2
  c3 = c3
  A = A
  B = B
  Packages = {p1, p2}
  Legs = {l1, l2, l3}
  Clients = {c1, c2, c3}
  Symbols = {A, B}
  LegSeq <- MCLegSeq
  Client <- MCClient
  Symbol <- MCSymbol
  Side <- MCSide
  Quantity <- MCQuantity
  Tolerance = 0
  Dims <- MCDims
  Limit <- MCLimit
  Held <- MCNothingHeld
  Proposals <- MCNoGreeks
  Faults = {"expired"}
  MaxFaults = 1
INVARIANT
  ClosedLegHasNoLiveOrder
