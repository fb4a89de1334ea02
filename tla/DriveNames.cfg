SPECIFICATION Spec
CONSTANTS
  NumSegments = 4
  SegSize = 4
  NumSsbs = 1
  BlockSize = 2
  MaxData = 2
  NumFiles = 4
  ChunkLen = 2
  CleanBelow = 0
  CleanSpan = 2
  NameOrder <- MCNameOrder
  Numerals <- MCNumerals
  FileNames <- MCFileNames
  Sources <- MCSources
  Overwrites <- MCOverwrites
  MaxCommands = 4
  MaxMounts = 3
  MaxCrashes = 0
INVARIANT
  NameMapLoads
