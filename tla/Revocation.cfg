\* Two requests of one client at a time; the watcher looks every second,
\* entries live for three, or one; a query takes up to one.
CONSTANTS
  q1 = q1
  q2 = q2
  None = None
  Query = {q1, q2}
  Ttl = 3
  ShortTtl = 1
  MaxDelay = 1
  Poll = 1
  MaxTime = 7
SPECIFICATION Spec
INVARIANTS
  StaleProcessIsSeen
  AcceptanceEnds
  LockoutEnds
SYMMETRY QuerySymmetry
