SPECIFICATION FairSpec
CONSTANTS
  Node = {ist, bag, lon}
INVARIANTS
  OneServiceAtATime
  EndpointsOnline
PROPERTIES
  ServiceKeepsNodeOut
  ServicedNodeReturns
