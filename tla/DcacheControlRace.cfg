\* Two ways; one processor invalidates its Dcache while the other reads a line
\* that it holds.
CONSTANTS
  NoProc = NoProc
  Procs = {p1, p2}
  Tags = {0}
  BadTags = {}
  Accesses = {"load", "store"}
  Controllers = {p1}
  DcSets = 1
  DcWays = 2
  ScSets = 1
  Mutexes = 1
  WbDepth = 1
SPECIFICATION Spec
INVARIANT SingleWriter
