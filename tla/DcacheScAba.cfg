\* The same, but only LL observes: what happens to the line after it counts.
CONSTANTS
  NoProc = NoProc
  Procs = {p1, p2}
  Tags = {0}
  BadTags = {}
  Accesses = {"load", "store", "ll", "sc"}
  Observing = {"ll"}
  Controllers = {}
  DcSets = 1
  DcWays = 1
  ScSets = 1
  Mutexes = 1
  WbDepth = 1
SPECIFICATION HSpec
PROPERTY ScAtomic
