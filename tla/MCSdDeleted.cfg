SPECIFICATION Spec
CONSTANTS
  Name <- MCName
  Path <- MCPlainPath
  Rank <- MCPlainRank
  Spelling <- MCPlainPath
  Upper <- MCUpper
  Lower <- MCLower
  Pieces <- MCPieces
  Escaping = {}
  SettingsIni <- Ini
  Byte = {0}
  Zero = 0
  TargetPath <- MCTargetPath
  ModPath <- MCModPath
  MaxSize = 1
  MaxCalls = 3
  InitialMirror <- MCInitialMirror
INVARIANT
  DeletedFilesNeverAppear
