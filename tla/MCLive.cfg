\* Refusals and failing checks only: every report arrives, once and in order.
SPECIFICATION LiveFairSpec
CONSTANTS
  p1 = p1
  p2 = p2
  l1 = l1
  l2 = l2
  c1 = c1
  c2 = c2
  A = A
  B = B
  Packages = {p1, p2}
  Legs = {l1, l2}
  Clients = {c1, c2}
  Symbols = {A, B}
  LegSeq <- MCLegSeq
  Client <- MCClient
  Symbol <- MCSymbol
  Side <- MCSide
  Quantity <- MCQuantity
  Tolerance = 0
  Dims <- MCDims
  Limit <- MCLimit
  Held <- MCNothingHeld
  Proposals <- MCProposals
  Faults = {"refused", "check_failed"}
  MaxFaults = 1
INVARIANTS
  BookedGreeksInLimit
PROPERTIES
  LegsEventuallySent
  BlocksAreTransient
