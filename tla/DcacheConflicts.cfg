\* Direct-mapped Dcaches; three lines that compete for one Scache entry and one lock
\* stripe, of which line 2 cannot be read; one processor also invalidates its Dcache.
CONSTANTS
  NoProc = NoProc
  Procs = {p1, p2}
  Tags = {0, 1, 2}
  BadTags = {2}
  Accesses = {"load", "store"}
  Controllers = {p1}
  DcSets = 1
  DcWays = 1
  ScSets = 1
  Mutexes = 1
  WbDepth = 1
SPECIFICATION FairSpec
INVARIANT Inclusion
INVARIANT StoresKept
INVARIANT BufferDrains
PROPERTY Progress
