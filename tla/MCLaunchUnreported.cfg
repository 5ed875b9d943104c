SPECIFICATION Spec
CONSTANTS
  Call <- MCCall
  Pool = {"buffer", "application"}
  MaxPages = 1
  MaxTouches = 2
  MaxCrossings = 2
INVARIANT
  FailedLaunchHasAResult
