# A TLA+ verification of xremu

xremu emulates a multiprocessor XR/17032 computer in C.  Several simulated processors, each with simulated
caches, run on host threads that a small work scheduler feeds; devices run on the same threads or on the
main (SDL) thread.  Two things are hard.  One is what threads do to one another: the cache coherence protocol,
the scheduler's lists and chains, the interrupt controllers, devices that drop their lock, the lock all of them
use.  The other is what the emulator keeps to be fast and must not keep too long: decoded blocks that link to one
another, translations remembered outside the translation buffers, operands rewritten while decoding.  This
directory models both, checks them with TLC on small instances and proves what could be proved with TLAPS for every instance.

Sources are named relative to `src/src/`.

## 1. The system

| Part | State | Operations | Meets others through |
|---|---|---|---|
| `fastmutex.h` XrMutex, XrSemaphore | contention counter, host semaphore | lock, unlock, trylock, wait, post | everything that locks |
| `xraccess.inc.c` Dcache, write buffer, Scache | tags, flags, write buffer per processor; the directory shared | load, store, LL, SC, flush, downgrade by another processor | striped locks; EBus for misses |
| `xr17032fast.c` DCACHECTRL, WMB, MB, XrCheckConditions | write buffer countdown | invalidate, flush | the Dcache, partly without its locks |
| `xr17032fast.c` TLB, exceptions, RS | ITB/DTB, mode stack | lookup, fill, exception, RFE | private to a processor |
| `xr17032fast.c` Iblock cache | decoded blocks, hash and page lists, links | build, link, reclaim, invalidate | private to a processor |
| `xrfastaccess.inc.c` claim tables | claimed addresses | claim, store if claimed | lock striped by address (build without cache simulation only) |
| `lsic.c` interrupt controllers | mask, pending, level, line per processor | register writes, claim, targeted and broadcast interrupts | devices on any thread; the processor reads the line without a lock |
| `xr17032fast.c` execution loop | Halted, RS, cycles, Progress | execute, check conditions, halt, wake | LSIC, scheduler |
| `scheduler.c` | work list, next frame list, semaphore, chain per thread | schedule for any, for the next frame, for me; the loop; the frame | processors, disks, ports as schedulables |
| `dks.c` disks | controller registers, operation, timeslice | commands, schedule, complete | scheduler, LSIC, memory (past the Dcaches) |
| `serial.c`, `tty.c` | FIFOs, cost, terminal | write, read, schedule, interval | scheduler, LSIC, host input |
| `amtsu.c`, `keybd.c`, `mouse.c` | selected device, queues | select, command, pop | host events, LSIC |
| `kinnowfb.c`, `screen.c` | framebuffer, dirty rectangle | write, draw | processor threads against the main thread |
| `ebus.c`, `ram256.c`, `pboard.c`, `rtc.c` | branch table, RAM, board registers, clock | read, write, reset | every access that leaves a cache |
| `main.c` | configuration, frame clock | start, MainLoop | the scheduler |
| `text.c`, `dbg.c`, `queue.h` | - | drawing, disassembly, list macros | - |

Hard behaviours: a write upgrade or miss that another processor overtakes between two locks; a read hit with
no lock at all; DCACHECTRL beside a downgrade; the write buffer full, flushed by its owner or purged by
another; an interrupt between the last check and HLT; a semaphore and a list that change one after the
other; a chain without a lock; timeslices written back after the unlock; reclaim of Iblocks that others
link to; device completions beside new commands.  `PROJECT.json` lists each under "hazards", at its line, with
the properties that look for it, or the reason why none does yet.

What makes each part correct, in a sentence: the lock excludes and loses no wakeup; a valid cache line holds
every store made to it, a writer is alone, no buffered store is lost; the interrupt line agrees with what a
handler can claim, and a halted processor is woken; a schedulable is in exactly one place and gets to the end
of its frame; an operation on a disk or a port completes once and says so; the Iblock cache never runs a stale
block; translation returns what the TLB holds.

## 2. Modules

| Module | Models | State and actions in the code |
|---|---|---|
| `FastMutex` | XrMutex on an XrSemaphore | each atomic operation of lock, unlock and trylock is an action; the XrSemaphore (`sem_t`) is its count |
| `FastMutexProofs` | | theorems about it |
| `Dcache` | XrDcacheAccess, XrDowngradeLine, XrFlushWriteBuffer, XrFindOrReplaceInScache, DCACHECTRL | a processor's access is a program counter and locals in `cpu`; a step ends at each lock operation and wherever another thread could see or change what the handler still uses |
| `DcacheMC` | | symmetry of the processors for TLC |
| `DcacheHistory`, `DcacheHistoryMC` | | adds which lines another processor stored to since this one observed them, to state what LL/SC and loads promise |
| `DcacheProofs` | | types of Dcache, for every geometry; inclusion, single writer, one way; coherence, the write buffer, its countdown; what a load returns, SC |
| `Lsic` | `lsic.c` | one step per handler, since each runs under one InterruptLock |
| `Interrupts` | XrExecuteFast, XrCheckConditions, HLT, RFE, MTCR to RS, XrPushMode; devices, timer, IPIs | composes Lsic with the processors; a block of instructions is a step |
| `InterruptsProofs` | | the line agrees with the claim register, in Lsic and in the running system; types, handlers find their interrupt |
| `Scheduler` | `scheduler.c`, XrProcessorSchedule, DKSSchedule, SerialSchedule and the frame of `main.c` | a list operation is a step (its lock); every access to a chain, which has no lock, is one |
| `SchedulerProofs` | | the semaphore counts the listed work; everything is in one place, chains are private |
| `Reservations` | what LL and SC promise | abstract: a processor has at most one reservation, SC needs it and ends those of others on the word |
| `ClaimTable` | XrClaimAddress, XrStoreIfClaimed (build without caches) | a step per lock operation and per access to an entry that another thread could come between |
| `ClaimTableProofs` | | it implements Reservations |
| `IblockCache`, `IblockCacheMC` | decoded blocks: XrLookupIblock, XrPopulateIblockList, XrFreeIblock, cached pointers, JALR tables, the three invalidations | `c` holds the structure, pointers as values; a step is a dispatch, a followed link, a decode with the reclaim it needs, or a control register write |
| `IblockCacheProofs` | | what is executed is what is mapped; links lead to blocks that know them; lists agree |
| `Tlb` | both translation buffers, the hints, the block's cached entries, misses, faults, the mode stack, the control registers that write the buffers | a step is one translation, or what software does between two |
| `Words` | ALU operations on words of `Bits` bits | functions; the logical operations are sums over the bits, not those of the Bitwise module, so that theorems can reach them |
| `Instructions` | XrDecodeInstructions and the XrExecute functions | a step is one entry of a block: a virtual shift, the instruction, the linkage, XrCheckConditions |
| `Architecture` | what software expects of an instruction | abstract: one step per instruction; Instructions implements it |
| `Processor`, `ProcessorMC` | ClaimTable, Tlb and Instructions as parts of a processor | a behaviour follows one part |
| `ProcessorProofs` | | no translation is stale, faults are the program's, entries fit a block; Instructions implements Architecture |
| `Dks` | `dks.c` | a handler under ControllerMutex is a step; a transfer, which drops it, has a beginning and an end; a call of DKSSchedule reads its timeslice before and writes it after |
| `Serial` | `serial.c` | a handler under the terminal's mutex is a step; the timeslice as in Dks |
| `Terminal` | `tty.c` | a character is a step; a drawing is two, the rectangle drawn under the mutex and copied to the texture without it; of the text there is which cells differ from the texture (`stale`) |
| `Keyboard` | `keybd.c` behind the ports of `amtsu.c` | a key, a command, or a read of port A is a step |
| `Board` | Dks, Serial, Terminal and Keyboard as parts of the board | a behaviour follows one part |
| `BoardProofs` | | operations in one place, transfers undisturbed, completions read; characters in order; cells drawn; no key stuck |
| `SchedulerMC` | three instances of Scheduler | a behaviour is of one of them |

Abstractions.  In Dcache a line's data is "new" when every store so far is in it and "old" when one is
missing: all that coherence can tell apart.  A store merged into an old line leaves it old, so one lost store is
never hidden by the next.  Lock stripes, sets, ways and buffer depth are constants; the only assumption on them is that
lines of one Scache set share a Dcache set and a stripe, as in the code, whose sizes are powers of two
(`NestAssumption`).  In Lsic a pair of registers is a set of numbers.  In Interrupts a block that matters does one
thing that matters.  In Scheduler what a processor executes is how much timeslice it spends; a device operation is
Busy and what is left of a timeslice.  In ClaimTable a word is its claim hash, and software gives SC the address of
its last LL.  In Dks what the geometry computes is any seek up to
a bound, sector data are left out, the driver in the guest is any sequence of commands and a handler that claims, completes
and then reads the info, and DKSReset is one step although it takes no lock.  Disks share the registers and nothing else,
so one disk suffices.

In IblockCache hash buckets are left out (a block is in its bucket as long as it is in the LRU list) and software
keeps to the architecture: it invalidates a page whose code or mapping changed before it executes it again, and its
kernel leaves the kernel's pages only by RFE (`CodeAssumption`).  In Tlb
software is one program, the handlers of a miss and of a fault, and a kernel that invalidates what it changes: always in
the DTB, and in the ITB, which holds only CodePage and Root, at least when CodePage changed.  An invalidation in the ITB
frees the block of CodePage, with its cached entries, when it is of that page or of all; one in the DTB frees none.  What an
instruction accesses is chosen when it has been fetched.  In
Instructions memory answers a request with a value or a fault, and an instruction is decoded when it is reached, which
nothing tells from the decoding of the whole block.  Register 0 is a register in the handler of a TB miss and zero
elsewhere: the decoder chooses, from the mode it sees.  In Serial a character is its number in what was written or
typed.  In Terminal cells have no contents and sequences no colors.  In Keyboard one driver uses the bus.

`Processor` and `Board` put parts side by side that see of one another only that something happens, so that a behaviour
follows one of them (`part`): interleaving parts that share nothing would multiply states and show no more.

Host memory is sequentially consistent throughout; atomicity of plain ints
is taken for granted where the code does.

Locks are actions of the models that use them, as a variable naming the holder: that an XrMutex behaves so is what
FastMutex checks and FastMutexProofs proves.

## 3. Runs

| Run | Asks | Instance |
|---|---|---|
| `fastmutex` | exclusion, no wakeup lost or left over, a waiter always admitted | 4 threads: one inside, one about to post, two waiting, so that a post can meet the wrong waiter |
| `dcache` | single writer, one way, buffered lines exclusive, coherence | 2 processors, 2 lines, 2 ways, 1 buffer entry: both replacement and a full buffer happen |
| `dcache_conflicts` | inclusion, no store lost, the buffer drains, no access retries for ever | 3 lines on one directory entry, one of them unreadable (the bus error path), DCACHECTRL by one processor |
| `dcache_llsc` | loads are fresh, SC does not overwrite an unobserved store | 3 processors, 1 line, all four accesses |
| `dcache_sc_aba` | violation: see findings | 2 processors, 1 line, only LL observes |
| `dcache_control_race` | violation: see findings | 2 processors, 1 line, 2 ways, DCACHECTRL |
| `interrupts` | line = claim, a handler finds its interrupt, a halted processor is woken | 2 processors, a device in the high registers, the timer in the low ones, levels on both sides of 32 |
| `scheduler` | one place, private chains, work is posted, frames end | 2 processors, in three systems: 2 threads with a disk; 1 thread with a serial port in frames of up to 2 ms, so that it goes on within its timeslice; 1 thread with a disk and a port, in frames of 1 ms |
| `scheduler_stale` | violation: see findings | 2 threads, 2 processors, a serial port |
| `processor` | the claim tables implement reservations, SC updates what LL read, claims are lost for a cause only, LL and SC finish; no translation outlives its invalidation, faults are reported as the program's, an access gets through; the interpreter implements the architecture, entries fit a block | 2 processors, 3 words of which two share an L1 entry and two an L2 entry; 2 address spaces, 2 pages, buffers of a wired entry and another, with and without FASTMEMORY; words of 2 bits, 2 registers, instructions of every kind, 2 to a block |
| `blocks` | what runs is what is mapped, links lead to blocks that are there and know of it, lists and tables agree | 3 blocks of which 2 are reclaimed at a time, 1 remembered place per block, tables of 1 entry, 5 program counters in 3 pages, 2 address spaces |
| `board` | disk operations in one place, undisturbed, announced, ended; characters in order and transmitted; changed cells drawn or on their way; no key stuck | 2 processors, 2 threads, 1 disk of 2 sectors, registers of 3 values, seeks of up to 2 frames; FIFOs of 3 and 2 characters, a debt of 2 ms; a terminal of 2 rows of 2 cells, escape sequences of two parameters, each left out or 1; 2 keys |

Each property has a mutant in `PROJECT.json`: a change to a modelled operation, written beside it under
"Mutation:", with which TLC finds the property violated on the same instance.

Why these bounds are enough.  The cache protocol has two roles for a line, the processor that acts and the one
it takes the line from; a third (dcache_llsc) can act between the two.  Conflicts need as many lines on an entry as it
has places, and one more.  The mutex needs two waiters besides owner and poster.  A chain has one owner and at
most one intruder, and a thread that is busy or idle is all another can see of it.  The scheduler's counters are bounded
by what is scheduled.  A block cache of three blocks reclaims while one is being linked and one runs.  A translation buffer with one
replaceable entry has every entry replaced as soon as it can be.  Words of two bits have a sign, a carry and a
shift by their size; two registers make every pair of operands equal and different.  A FIFO of three characters can be
filled, drained in parts and drained at once; two rows scroll, and two columns wrap.  The geometry itself, and the number of processors and threads, are what the theorems are for.

Bounds that cut something off: `MaxDt` and `FrameTimes` (milliseconds of a frame), `MaxSeek` (of a seek), `CyclesGoal` (blocks per XrExecuteFast), `StepMs`
(XR_STEP_MS, scaled), and in Scheduler that a processor executes at most one part of a millisecond before the
rest of it (polling ends a call early at most once per millisecond).  In Tlb, IblockCache and Instructions `Pages`, `Images`,
`Pcs` and `Instrs` are the program; `Numbers` are those of an escape sequence, `Characters` numbers characters modulo more than a
FIFO holds, `Times` and `Ints` are the numbers of values of a time: timeslices wrap where the code's would.  `CursorParam` and `AllParam` are
1 instead of 25 and 2, the one number there is: an escape sequence is told by its last character, so one number can be a row, a margin, the cursor's
parameter and that of clearing everything.

Symmetry is used in `dcache`, `dcache_llsc` and `blocks`, which check no liveness, and nowhere else.

### Fairness

- FastMutex: a thread inside a handler moves on; one that is not need not lock again.  A waiter that the
  semaphore could admit often enough is admitted only as some waiter is: `WaitersAdmitted` does not promise a
  particular one, since sem_wait does not.
- Dcache: weak fairness of the steps of an access that was begun; software need not begin another.
- Interrupts: weak fairness of each processor's execution (the scheduler comes back to it each frame) and of a
  broadcast under way.  No fairness of devices, timers or software's choice of a block.
- Scheduler: weak fairness of the main loop and of each host thread, which the host's threads give.
- Dks: weak fairness of transfers and of each host thread.  Frames keep coming to a disk that waits for one, and
  not all of them find a thread held up between the unlock of DKSSchedule and its store (lines 183-185): a thread
  would have to lose the host processor there for a whole frame, each time.
- Serial: as Dks, of its threads and frames.  Nothing is assumed of the driver, which may write for ever.
- Tlb: weak fairness of what an instruction takes until it is done: its translations and the handlers.  None of the
  kernel, which may change the page table or switch address spaces as often as it likes between two instructions, nor
  of the beginning of an instruction.
- ClaimTable: weak fairness of the steps of an LL or SC that was begun.

### Findings

- `dcache_sc_aba`: `xr17032fast.c:1032` says SC fails "if we no longer have the cache line from LL's load".
  The code fails it only if the line is absent at that moment: a plain load by the same processor after
  another's store brings it back, and SC succeeds.  If loads count as observations too (`dcache_llsc`), SC is atomic.
- `dcache_control_race`: DCACHECTRL clears DcFlags without CacheMutexes.  A downgrade in progress revives the line;
  a line is exclusive in one Dcache and valid in another.
- `scheduler_stale`: SerialSchedule enters its port in the chain of the thread that last popped the port, not the
  one that runs it.  Two threads write one chain, and a halted processor is lost from all lists: its timeslices never
  run down.  Disks do not use that call, and without ports chains are private (`OwnChain` in `scheduler`).

## 4. Proofs

TLC says it of an instance; these hold for every value of the constants.

- **FastMutex** (any finite set of threads).  `TokenInv`: one right to enter, held by a thread inside, or lying in the
  semaphore, or free; the counter counts the threads inside, waiting or on their way to wait.  Counting needs
  cardinalities, hence the finiteness.  From it `TypeCorrect`, `MutexExclusive`, `WakeupsKept`.
- **Dcache types** (`DcacheProofs.TypeCorrect`).  The one delicate part is that a replacement way and a found line are
  always lines of the set.
- **Dcache directory** (`DirectoryIncludes`, `ExclusiveAlone`, `LineInOneWay`), assuming `Controllers = {}`: no software
  writes DCACHECTRL, for otherwise the claims are false (`dcache_control_race`; `Inclusion` survives on the instance of
  `dcache_conflicts`, which is direct-mapped, but is proved without it).  None of the three is inductive.  `DirInv` adds what a thread
  inside the protocol relies on between its steps: it holds the Scache stripe (`Owner`); the line of an upgrade is
  still its own (`LineKept`, `OnlyLine`), a line that missed is still absent (`NotHeld`); the Dcaches already visited hold the
  victim's tag no higher than the new state (`Visited`), the line found is the only one (`Found`); the directory already
  names the new owner while the fill is under way (`Entered`).  Each step is shown to have effects only on the
  lines of its own stripe (`Frame`), from which other threads' parts are kept once and for all (`OthersKept`); what is
  left is, per step, its own part.  `DirInv` was checked with TLC on two instances before it was proved.
- **Dcache coherence** (`LinesCoherent`, `NoStoreLost`, `BufferConsistent`, `BufferIsDrained`), on top of `DirInv`, so with
  `Controllers = {}` again but for the last.  A store goes into an exclusive line, of which the directory leaves no other copy; the line
  is then in the write buffer, and whoever takes it away writes it to RAM first; so a fill reads a RAM that misses nothing.
  `CohInv` adds to the three properties what a thread knows of its own line and buffer entry between a look and its use, and what keeps
  it: the Dcache stripe (`CacheOwner`, `Ready`), the Scache stripe (`SharedEntry`, `Sharing`), or that only a processor itself enters lines in its
  buffer (`SlotKept`, `FlushSlot`).  `Countdown`, an invariant of its own, says that the countdown runs from before the entry is made until a flush has passed
  it; it needs nothing of the directory.
- **Loads and SC** (`LoadIsFresh`, `ScIsAtomic`), by the same invariants in the specification with history.  A load's line keeps its tag while it is copied
  (`Reading`).  A valid line has been observed since another processor's last store to it (`ObservedLines`), as that store took the line away and it came
  back by a fill; SC never fills (`ScPresent`).  Hence `Observing = Accesses`: with LL alone observing the claim is false (`dcache_sc_aba`).
- **Lsic** (`LineClaimAgreement`, any processors, any numbers below 64).  `LsicInv`: the two masks derived from the level are those of the
  level, on both sides of 32, and the line is computed from the registers as they are.  That the claim loop finds a
  least number uses well-foundedness of the naturals.
- **Interrupts** (`RunningLineIsClaim`, `InterruptNotLost`, `TypeCorrect`).  Every step of the running system is a step of Lsic or
  leaves it alone, so Lsic's own proof carries over; beyond it, the line stays up from the check that takes an
  interrupt to the handler's first write, since everyone else only raises.
- **Scheduler: the semaphore** (`SemaphoreCountsWork`, any finite set of threads).  Length of the list = semaphore + threads between the two
  operations + main between them.  The proof needs nothing of what the schedulables are.
- **Scheduler: places** (`EverythingInOnePlace`, `ChainsAreOwn`, `CpusAreKept`; any finite set of processors, any disks, and either no ports or a single
  host thread, for with a port and two threads all three are false: `scheduler_stale`).  `OnePlace` counts references, which no step can be
  reasoned about locally.  `PlacesInv` says instead that there *are* maps `kind` and `pos` from schedulables to places such that each list, link,
  chain head and thread refers to exactly those that the maps place there (`OnLists`, `OnChains`, `OnLinks`, `AsNext`, `Running`); a place then has one
  occupant, and `Holders` is the singleton of it (`HeldInPlace`).  Each step is shown to keep this with maps changed at the one or two schedulables it
  moves.  Lists need their positions shifted, hence the list lemmas; the chains, which have no lock, need a third map `owner`: links
  never lead from one thread's work to another's, and a processor's owner is its PreferredThread (`Owned`), so that XrScheduleWorkForMe
  writes the caller's own chain.  A port that has not been taken from the work list yet must not go on in a chain (`Unpopped`): its timeslice is not positive.

- **Claim tables** (`TablesReserve`, `ScUpdatesWhatLlRead`, `ClaimsLostForACause`, `TypeCorrect`; any processors, words and
  table sizes).  A reservation is the word of the last LL while the processor's L1 entry still names its L2 entry.  For SC to be
  right no two processors may have one on a word, and that is not inductive: `ClaimInv` says that L1 and L2 entries name each other
  (`NamedByL2`, `NamedByL1`) except while a processor is between the two writes of an eviction, a removal or an entry (`Evicted`,
  `Taken`, `Entered`), what locks it holds there, and what it knows of the entries.  It was checked with TLC first.  Steps that
  change no table keep it for one reason; each of the five others has a lemma.  The refinement then maps the finishing read to
  LoadLinked, the store to StoreConditional, ClearRemote and the beginning of an LL to Lose, RFE to GiveUp, and the rest to
  stuttering; `ClaimsLostForACause` says whose doing a loss is: a word that shares the L1 or the L2 entry does take a claim; `ScUpdatesWhatLlRead` uses only the steps of Reservations.

- **Board: the disk controller** (`OperationPlaced`, `TransfersUndisturbed`, `AnnouncementsAreRead`; any processors, threads and disks, and for
  the last at least one processor).  A disk is in `Completing` exactly while an actor completes its transfer (`Transfers`), which is why a command that
  comes while the controller's lock is dropped leaves it alone, and a thread never holds a decision and a transfer at once (`OneTask`).
- **Board: the serial port** (`CharactersInOrder`; FIFOs of any size).  The driver writes only after it has seen the port not busy, and then the FIFO has
  room (`TransmitInv`), so nothing is dropped; a character bypasses the FIFO only when it is empty.  The receive indices run modulo twice the size and
  their distance is the room that is missing (`ReceiveInv`).  The prover knows of remainders little more than their definition, so that the
  remainder of a sum, of a difference and modulo half the number are lemmas.
- **Board: the terminal** (`CellsAreShown`; any size, any tab stops).  A changed cell is in the rectangle or, drawn as it looks, on its way to the texture.
  The rectangle only grows until it is drawn, and every handler puts into it what it
  writes and where the cursor was and is (`ChangesShown`, `HandlerShown`); a cell that changes between the two steps of a drawing is again in the
  rectangle.  Where the copy reads its place from a rectangle that has moved, the cells that it misplaces are the theorem's exception (section 5).  It is cut off at the last column and row, which loses nothing as long as the cursor is
  in the terminal or just after the last column and the scroll window is in it (`Fits`).  A character that wraps is the delicate one: its own rectangle
  begins at the second column, and the first cell of the new line is dirty by TTYNewline alone.
- **Board: the keyboard** (`KeysComeUp`; any codes).  A press that waits is of a key still pressed or with its release waiting too (`KeysInv`).

- **Translation** (`TranslationAlways`, `TranslationStaysCurrent`, `FaultsReported`; any pages, address spaces and programs of software,
  buffers of any size).  `TranslationCurrent` is not inductive for two reasons.  A miss handler enters what it reads, so one has to know what it
  reads by and when: `BuffersInv` adds that tags, hints and entries are of pages there are and that
  global pages are the same everywhere.  And an invalidation spares the wired entries, so these must be right for ever: `WiredKept` says the first entry
  of either buffer is Root's, which software does not change, and that other wired ones are Root's or invalid.  An invalidation in the DTB alone leaves nothing old in the ITB because that
  holds only pages of `CodeOnly`.  A block's cached entry is not kept current at all: it may outlive its invalidation, and is used only while it
  equals the entry in its slot of the DTB, which is.  `IblockEntryHits` makes that comparison, and without it the property fails (its mutant).  `ControlInv` says what a handler knows of the program's access: where it is, the mode it came from, and
  that the handler of a miss, which finds Root in the DTB, misses at most for the page of a page table entry; so the first address and program counter
  are still in TBMISSADDR and TBPC when XrPageFault reports the fault of a nested miss.
- **Instructions** (`InterpreterImplements`, a refinement, and `BlocksFit`; words of any length, any number of registers, any program, blocks of
  any length).  The abstraction map forgets the entries, the block and the two hidden registers.  Three entries change nothing that software sees:
  the decoding, the shift of an operand into the hidden register, and the linkage.  Every other one is the whole instruction: `UnderWay` says that what is
  left of an instruction is what the decoder makes of it, or its last entry with the shifted operand where that entry looks for it; `RegistersKept` that the hidden zero register
  stays zero, so that a redirected operand reads as the architecture says; `BetweenTwo` what holds between two instructions.  The lemma `DecodedAs`
  follows the tables of the decoder once, format by format; the arithmetic is the same function on both sides.  `RoomKept` counts two entries of room
  for an instruction and one more for the linkage.

- **Iblock cache** (`RunsWhatIsMapped`, `LinksLeadToBlocks`, `ListsAlwaysAgree`; any number of blocks, any table size, any code that keeps to
  `CodeAssumption`).  `IInv`, checked with TLC first on the instance of `blocks`, has four parts.  `Structure` is `ListsAgree` with its types and with the
  paths of free blocks empty.  `LinksOK` says more of a link than `LinksLead`: it leads where control can go from the block that has it, and, in the user's
  pages, to the same address space; that is what lets a step follow it without a lookup.  `CodeKept`: a block holds what a fetch at its key gives, and has a
  table only if it ends in JALR.  `Runs`: the mode belongs to the page, and the block is the one at the program counter.  Reclaim and the
  invalidation of a page run along a list that they change: `EachOK` is by induction over the list as it was at the beginning, each step freeing
  one block that is still in use, with no link left that leads to it (`InvalidatedLinks`, because a linked block knows the place), so the order does not matter and the
  hazard keeps its links.  That loop is a recursive function, which the prover knows only once a solution of its equations is shown to exist
  (`SolutionExists`, by the least number that has none).  A block gets its prediction table because there are as many as blocks and another
  owner for each would be one too many (`TableFree`).

Assumptions are the named ASSUMEs of the modules (of Processor: `TlbAssumption`, `InstructionsAssumption` in Processor), each evaluated by TLC in the runs, and those stated in a theorem.

Only model-checked: all liveness (`WaitersAdmitted`, both `Progress`, `HaltedIsWoken`, `FramesEnd`, `AccessEnds`,
`OperationsEnd`, `TransmitEnds`), which is out of the prover's reach.  The type invariants of FastMutex, Dcache, Interrupts and ClaimTable are proved and are in no run.

## 5. What the models show that is no finding

Nothing in the repository says otherwise, but a reader of the code may want to know:

- A cursor shown or hidden after the last column is not drawn: `TTYMakeDirty` cuts the rectangle off to the left of it
  (tty.c:521, 530).  `Shown` leaves these cells out (`Spoils`).
- TTYDraw unlocks the mutex (tty.c:176) and then reads DirtyX1 and DirtyY1 again for SDL_UpdateTexture (178-180).  A character handled by
  another thread in that gap makes a new rectangle, and what was drawn is copied to its corner: the cells of the drawing stay
  as they were on the screen, and those under the copy show something else, until they change again or fall into a later rectangle.
  `UpdateTexture` does this.  `Shown` leaves out the cells it spoils when the new rectangle does not hold them, so it
  says that there is no *other* way to miss a change.
- `ESC [ H` without parameters goes to the last row and column: -1 is compared with the unsigned width (tty.c:93).
- A key pressed, released and pressed again between two polls is reported as released only (keybd.c:38-42); the guest learns of
  the second press with the next event of the key.  `NoStuckKey` promises only the other direction.
- Late stores of a timeslice (serial.c:206) can leave it negative and, in principle, add up.  The port still transmits.
- Bus reset (amtsu.c, command 2 of the controller) clears the keyboard's state without its mutex, and the mouse keeps only its last
  button release: neither is modelled.
- Dividing the least number by -1 is undefined in C (xr17032fast.c:1091); `Quotient` takes what wrapping gives.

## 6. Not modelled

Of what is modelled: frames longer than a seek, after which a late write of a timeslice can leave the next
negative (dks.c:171), and two disks at once (Dks); DCACHECTRL and ICACHECTRL of one page frame, the reset of a processor by an
exception with EB = 0 and uncached accesses (Dcache); DMA, which goes past the Dcaches; the user NMI (Interrupts); the
legacy mode and privileged instructions in user mode (Instructions); the EMSCRIPTEN build, where the loop returns instead of waiting (Scheduler);
the SINGLE_THREAD_MP variants of the claim functions, which have no locks; the serial port's interrupts and files; device selection,
the bus reset and the mouse; weak host memory.

Left out for good: drawing, glyphs, disassembly, file I/O, byte storage (RAM, NVRAM, board registers), the clock.  `PROJECT.json`
gives the reason for each part.

## 7. Plan

1. *Done*: everything in section 2.
2. Whether the Dcache's LL/SC implements `Reservations` once loads are taken for observations.
3. Dcache: page-frame invalidation and its index arithmetic, reset by exception, uncached access.
4. The mouse and the selection of devices; the port's interrupts.
