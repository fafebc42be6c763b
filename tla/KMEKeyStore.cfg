\* One route and four keys; the queue is cut as soon as two keys are used up
\* and make up half of it.  The process may restart once.
CONSTANTS
  k1 = k1
  k2 = k2
  k3 = k3
  k4 = k4
  r1 = r1
  r2 = r2
  Route = {r1}
  KeyId = {k1, k2, k3, k4}
  SizeOf <- SameSize
  AnySize = AnySize
  CompactAt = 1
  MaxNumber = 2
  MaxIds = 2
  MaxRestarts = 1
  MaxGone = 2
SPECIFICATION Spec
INVARIANTS
  TypeOK
  QueueHoldsUnissued
  OneSlavePerMaster
  AuditCountersAgree
PROPERTIES
  HalfOpenKeysStay
  DeliverySpec
SYMMETRY StoreSymmetry
