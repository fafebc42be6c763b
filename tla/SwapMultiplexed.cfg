SPECIFICATION Spec
CONSTANTS
  Slots = 3
  Attempts = 6
  Multiplexing = 2
  MaxRounds = 2
  Floor = 1
  Urgent = 2
  Fresh = 5
  Target = 5
  Best = 9
INVARIANTS
  SmartKeepsPhotons
CHECK_DEADLOCK FALSE
