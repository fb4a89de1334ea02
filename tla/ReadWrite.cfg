SPECIFICATION FairSpec
CONSTANTS
  NumReaders = 2
  NumWriters = 2
  NCount = 2
  Draws <- MCDraws
  Leftover <- AnyNext
INVARIANTS
  TypeOK
  MutualExclusion
  ListWhole
  ReadExact
  AnnouncedLate
PROPERTIES
  WriterPreference
  ThreadsTerminate
