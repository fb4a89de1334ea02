SPECIFICATION Spec
CONSTANTS
  NumReaders = 2
  NumWriters = 2
  NCount = 1
  Draws <- MCDraws
  Leftover <- ZeroedNext
INVARIANT
  AllWorkDone
