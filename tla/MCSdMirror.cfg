SPECIFICATION Spec
CONSTANTS
  Name <- MCName
  Path <- MCPath
  Rank <- MCRank
  Spelling <- MCSpelling
  Upper <- MCUpper
  Lower <- MCLower
  Pieces <- MCPieces
  Escaping <- MCEscaping
  SettingsIni <- Ini
  Byte = {0}
  Zero = 0
  TargetPath <- MCOddPath
  ModPath <- MCModPath
  MaxSize = 1
  MaxCalls = 2
  InitialMirror <- MCInitialMirror
INVARIANTS
  TypeOK
  Rooted
  WrittenWhole
  NoStaleMod
  FlushedIsFound
  MirrorChangesOnlyByFlush
  AtMostOneTorn
PROPERTIES
  SettingsSurvive
  FlushEnds
