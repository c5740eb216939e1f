\* Disk: registers of three values and a disk of two sectors: a transfer can end inside the
\* disk, at its end, beyond it, and beyond the registers.  A seek takes up to two frames.
\* Port: FIFOs of three and two characters, a debt of two milliseconds, two characters at a
\* time.  Terminal: two rows of two cells, escape sequences of two parameters,
\* each left out or 1.
\* Keyboard: two keys.
CONSTANTS
  None = None
  Procs = {p1, p2}
  Threads = {t1, t2}
  Disks = {0}
  SectorCount = 2
  Word = 3
  MaxCount = 1
  Align = 3
  Asynchronous = TRUE
  MaxSeek = 2
  FrameTimes = {0, 1}
  Times = 4
  TransmitSize = 3
  ReceiveSize = 2
  AccumulatedCost = 2
  CharsPerSchedule = 2
  SerialAsynchronous = TRUE
  SerialFrameTimes = {0, 1, 3}
  Ints = 8
  Characters = 4
  Width = 2
  Height = 2
  Tab = 8
  ParamCount = 2
  Numbers = {1}
  CursorParam = 1
  AllParam = 1
  MaxCode = 1
  ReleasedBit = 4
  Nothing = 7
SPECIFICATION BSpec
INVARIANT OperationInOnePlace
INVARIANT AnnouncedIsRead
INVARIANT OrderKept
INVARIANT Shown
INVARIANT NoStuckKey
PROPERTY TransferUndisturbed
PROPERTY OperationsEnd
PROPERTY TransmitEnds
