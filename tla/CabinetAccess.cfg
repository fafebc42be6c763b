\* One grant that is valid for one unit of time, clocks up to one unit apart.
CONSTANTS
  g1 = g1
  g2 = g2
  Never = Never
  NoWindow = NoWindow
  Grant = {g1}
  Ttl = 1
  UnlockWindow = 2
  Tolerance = 1
  MaxAge = 1
  MaxPending = 2
  PreDrain = 1
  MaxTime = 5
  MaxSkew = 1
  Leads = {0, 2}
SPECIFICATION Spec
INVARIANTS
  SingleUse
  OpenDoorIsNoticed
PROPERTIES OpenedSoonAfterCheck
VIEW WindowView
SYMMETRY GrantSymmetry
