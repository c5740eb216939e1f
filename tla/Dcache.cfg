\* Two lines with a Scache entry each, which compete for the two ways of one Dcache
\* set and for one write buffer entry.
CONSTANTS
  NoProc = NoProc
  Procs = {p1, p2}
  Tags = {0, 1}
  BadTags = {}
  Accesses = {"load", "store"}
  Controllers = {}
  DcSets = 1
  DcWays = 2
  ScSets = 2
  Mutexes = 1
  WbDepth = 1
SPECIFICATION Spec
SYMMETRY Symmetry
INVARIANT SingleWriter
INVARIANT OneWay
INVARIANT WriteBufferExclusive
INVARIANT Coherent
