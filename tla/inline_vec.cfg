SPECIFICATION Spec
CONSTANTS
  N = 2
  Elem = {e1, e2}
  Uninit = none
  MaxCap = 8
  MaxPushes = 6
INVARIANTS TypeOK OneBuffer
PROPERTIES ImplementsSequence
CHECK_DEADLOCK FALSE
