SPECIFICATION FairSpec
CONSTANTS
  NumSegments = 5
  SegSize = 4
  NumSsbs = 1
  BlockSize = 2
  MaxData = 2
  NumFiles = 4
  ChunkLen = 2
  CleanBelow = 0
  CleanSpan = 2
  NameOrder <- MCNameOrder
  Numerals <- MCNumerals
  FileNames <- MCFileNames
  Sources <- MCLogSources
  Overwrites <- MCLogOverwrites
  MaxCommands = 4
  MaxMounts = 3
  MaxCrashes = 1
INVARIANTS
  TypeOK
  CheckpointCurrent
  DisplayAligned
  NamesSound
PROPERTIES
  StoreSpec
