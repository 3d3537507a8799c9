SPECIFICATION MemorySpec
CONSTANTS
  Writers = {w1, w2}
  Entries = {e1, e2}
  Early = {e1}
  Facts = {f, k}
  MaxEntries = 1
  TopK = 1
  Index = Index
  Nothing = Nothing
  NoWriter = NoWriter
INVARIANTS LibraryInOrder NoRing
PROPERTIES EveryWriterEnds
