\* Two connections and one key, which may come back in stale files; the
\* process may restart once.
CONSTANTS
  k1 = k1
  k2 = k2
  c1 = c1
  c2 = c2
  ank = ank
  ist = ist
  None = None
  Sae = {ank, ist}
  route = route
  Route = {route}
  RouteName <- OneRoute
  SizeOf <- OneSize
  AnySize = AnySize
  CompactAt = 1
  MaxNumber = 1
  Conn = {c1, c2}
  KeyId = {k1}
  MaxIds = 1
  MaxInbox = 1
  MaxGone = 2
  MaxRestarts = 1
SPECIFICATION ServerSpec
INVARIANTS
  NoSecondMaster
PROPERTIES NoKeysAfterSweep
SYMMETRY ServerSymmetry
CONSTRAINT ForeignPeers
