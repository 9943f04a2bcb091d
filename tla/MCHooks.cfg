SPECIFICATION FairSpec
CONSTANTS
  Units = {"u1", "u2", "u3"}
  Keyboards = {"u1", "u2"}
INVARIANTS HooksInv GoneUnused FilterReady OnlyNetFUnregistered
PROPERTY UnloadEnds
CHECK_DEADLOCK FALSE
