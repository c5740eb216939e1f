\* Three processors contend for one line with LL, SC, loads and stores.
CONSTANTS
  NoProc = NoProc
  Procs = {p1, p2, p3}
  Tags = {0}
  BadTags = {}
  Accesses = {"load", "store", "ll", "sc"}
  Observing = {"load", "store", "ll", "sc"}
  Controllers = {}
  DcSets = 1
  DcWays = 1
  ScSets = 1
  Mutexes = 1
  WbDepth = 1
SPECIFICATION HSpec
SYMMETRY Symmetry
INVARIANT LoadFresh
PROPERTY ScAtomic
