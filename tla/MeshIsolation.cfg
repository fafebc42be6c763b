\* A chain a - x - y - b with two suspicious nodes in the middle.
CONSTANTS
  a = a
  b = b
  x = x
  y = y
  Node <- ChainNodes
  Fibre <- ChainFibres
  Order <- FirstX
  Probed = {x}
  Cabinets = {y}
  Consecutive = 2
  Probation = 1
  Reconfig = 1
  BlockTicks = 2
SPECIFICATION FairSpec
INVARIANTS
  RevokedStaysOut
  DarkFibresAreTaken
  QuarantinedGivesNothing
PROPERTIES
  ReleaseNeedsIndependent
  CleanNodeReturns
