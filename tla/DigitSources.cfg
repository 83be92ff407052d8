\* Two downloads into a file that two threads read, or the API under two threads.
CONSTANTS
  Totals = {3, 5}
  ChunkLimit = 2
  InitialFiles <- MCInitialFiles
  LineBreak = LineBreak
  MaxDownloads = 2
  Threads = {t1, t2}
  Offsets = {0, 2}
  Counts = {3}
  MaxPerRequest = 2
  MaxReads = 2
  MaxEmpty = 1
SPECIFICATION FairSpec
INVARIANTS
  TypeOK
  FileInPlace
PROPERTIES
  ImplementsReader
  OnlyFreshTruncates
  EveryReadEnds
