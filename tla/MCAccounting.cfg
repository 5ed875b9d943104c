SPECIFICATION Spec
CONSTANTS
  Crossing <- MCCrossing
  HandleCall <- MCHandleCall
  BareCall <- MCBareCall
  Layout <- MCLayout
  NameOf <- MCNameOf
  Elsewhere = "elsewhere"
  MaxCalls = 3
  MaxPhases = 2
INVARIANTS
  EveryByteIsCharged
  AgainIsGroundCoveredBefore
  EveryCallIsOnOneLine
CHECK_DEADLOCK FALSE
