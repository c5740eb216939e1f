\* Words 0 and 2 share an L1 entry, words 0 and 3 an L2 entry; word 3 is also
\* written with ordinary stores.  Two address spaces, buffers of a wired
\* entry and another.  Words of two bits, instructions of two bytes on two registers, two
\* to a block.
CONSTANTS
  None = None
  Procs = {p1, p2}
  Addrs = {0, 2, 3}
  Plain = {3}
  Values = {x0, x1}
  L1Size = 2
  L2Size = 3
  Asids = {1, 2}
  Pages = {v1, v2}
  CodePage = v1
  Table = T
  Root = R
  Globals = {v2, R}
  TbSize = 2
  Wired = 1
  Fast = {TRUE, FALSE}
  Bits = 2
  Registers = {0, 1}
  RegisterBits = 1
  ImmediateBits = 1
  LR = 1
  Log <- TheLog
  InstBytes = 2
  Instrs <- TheInstrs
  BlockInsts = 2
  FakeZero = 2
  ShiftSink = 3
SPECIFICATION PSpec
INVARIANT ReservedIsKnown
INVARIANT TranslationCurrent
INVARIANT FaultReported
INVARIANT BlockFits
PROPERTY Reserves
PROPERTY LostForACause
PROPERTY Progress
PROPERTY AccessEnds
PROPERTY ImplementsArchitecture
