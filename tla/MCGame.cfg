SPECIFICATION GameSpec
CONSTANTS
  ProgramId = {8, 9, 16}
  Level = {0, 6}
  Mark = {1, 9}
  DlcIndex = {3}
  Storage = {4, 5}
  BuiltInUser = 4
  FamilySize = 8
  PatchIdOffset = 2
  AddOnContentIdOffset = 4
  UpdateStep = 67108864
  PageSize = 1
  None = None
  MaxInstalls = 4
  MaxOpen = 1
  Listed <- MCListed
  DirRank <- MCRankOf
  ParentShare = 2
  Bands <- MCBands
  TailShare = 800000
  ReparentPer1000 = 180
  ChainLower = 2
  ChainUpper = 4
  AddedFrom = 20
  Asked <- MCAsked
  UpdateLevel = 6
INVARIANTS
  ToldIsReported
  PagesReachTheFamily
  TailIsLaidInOrder
  DeliveriesAddUp
  UpdateShows
CHECK_DEADLOCK FALSE
