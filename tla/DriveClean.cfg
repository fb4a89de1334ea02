SPECIFICATION FairSpec
CONSTANTS
  NumSegments = 5
  SegSize = 5
  NumSsbs = 1
  BlockSize = 2
  MaxData = 2
  NumFiles = 4
  ChunkLen = 2
  CleanBelow = 3
  CleanSpan = 3
  NameOrder <- MCNameOrder
  Numerals <- MCNumerals
  FileNames <- MCFileNames
  Sources <- MCSources
  Overwrites <- MCOverwrites
  MaxCommands = 6
  MaxMounts = 1
  MaxCrashes = 0
INVARIANTS
  ImapSound
  ChunksSound
  NamesSound
PROPERTIES
  CommandsEndOrStick
