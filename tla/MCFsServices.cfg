SPECIFICATION Spec
CONSTANTS
  Name <- MCName
  Path <- MCPath
  Rank <- MCRank
  Spelling <- MCPath
  Upper <- MCUnchanged
  Lower <- MCUnchanged
  Pieces <- MCPieces
  Escaping = {}
  SettingsIni <- Ini
  Byte = {0}
  Zero = 0
  TargetPath <- MCTargetPath
  ModPath <- MCModPath
  MaxSize = 1
  MaxHandles = 2
  MaxEntries = 1
  BaseSize = 1
  EntryKinds <- MCEntryKinds
  OpenMode <- MCOpenMode
INVARIANTS
  LiveHandleFindsItsFile
  IdsNeverShared
  ListingIsASnapshot
  ReadIsWhatTheFileHas
PROPERTY
  CrossedBytesExist
CHECK_DEADLOCK FALSE
