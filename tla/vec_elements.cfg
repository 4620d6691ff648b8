SPECIFICATION Spec
CONSTANTS
  FIRST_CAP = 2
  Uninit = Uninit
  MaxCap = 4
  MaxMade = 4
  MaxDrops = 5
INVARIANTS TypeOK ReadsInitialised OneOwner
PROPERTIES NeverDropsTaken ImplementsVec
CHECK_DEADLOCK FALSE
