\* Three blocks, of which two are reclaimed at a time, for five program counters in three
\* pages of two instructions; one place remembered per block, one entry per prediction table.
CONSTANTS
  Null = Null
  Blocks = {b1, b2, b3}
  Ptables = {t1, t2, t3}
  CachedByMax = 1
  Reclaim = 2
  Entries = 1
  BlockInsts = 2
  PageInsts = 2
  Asids = {1, 2}
  Images = {"A", "B"}
  Code <- TheCode
  Pcs = {0, 2, 3, 4, 5}
  Kernel = {0}
  Changing = {1}
SPECIFICATION Spec
SYMMETRY Symmetry
INVARIANT RunsMapped
INVARIANT LinksLead
INVARIANT ListsAgree
