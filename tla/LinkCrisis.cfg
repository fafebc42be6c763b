SPECIFICATION CrisisFairSpec
CONSTANTS
  Link = {a, b}
  TestKey = test
  MaxBurst = 3
INVARIANTS
  PanelsShowTheTruth
  NoLoadLeftBehind
PROPERTIES
  LinksRecover
