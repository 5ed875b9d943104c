SPECIFICATION Spec
CONSTANTS
  Addable <- MCAddable
  MaxFiles = 4
  PathRank <- MCPathRank
  NameRank <- MCNameRank
  Hash <- MCHash
  DataAlign = 2
  Empty = Empty
  Beyond = Beyond
  Askew = Askew
  Within = Within
  ModLoose <- MCModLoose
  ModBin <- MCModBin
  Faults = {"parent", "sibling", "child", "file", "hash", "dirHash", "fileHash", "offset", "source"}
INVARIANTS
  PackedIsTheTree
  AcceptedOpens
  AcceptedServesTheTree
CHECK_DEADLOCK FALSE
