SPECIFICATION Spec
CONSTANTS
  Fn <- MCFn
  NameOrder <- MCNameOrder
  Module <- MCModule
  Service <- MCService
  Hooked <- MCHooked
  Addr <- MCAddr
  Nobody = Nobody
  Binaries <- MCBinaries
INVARIANTS
  WalkIsExact
PROPERTIES
  Implements
  Finds
CHECK_DEADLOCK FALSE
