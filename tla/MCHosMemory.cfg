SPECIFICATION Spec
CONSTANTS
  PageSize = 2
  HeapBase = 4
  HeapEnd = 8
  Buffer <- MCBuffer
  Size = {1, 3}
  Stored = {0, 1}
  Poison = 205
  FreedPoison = 204
  Zero = 0
  MaxStores = 3
INVARIANTS
  RegionsApart
  StoresAreFound
PROPERTY
  TouchedNeverShrinks
CHECK_DEADLOCK FALSE
