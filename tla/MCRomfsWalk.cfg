SPECIFICATION Spec
CONSTANTS
  Addable <- MCAddable
  MaxFiles = 4
  PathRank <- MCPathRank
  NameRank <- MCNameRank
  Hash <- MCHash
  DataAlign = 2
  Empty = Empty
  Beyond = Beyond
  Askew = Askew
  Within = Within
  ModLoose <- MCModLoose
  ModBin <- MCModBin
  Faults = {"looped"}
INVARIANT NoWalkGoesDeeperThanTheTables
CHECK_DEADLOCK FALSE
