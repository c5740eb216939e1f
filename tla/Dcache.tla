------------------------------- MODULE Dcache -------------------------------
(***************************************************************************)
(* Coherence of the simulated caches of xraccess.inc.c (the default build, *)
(* XR_SIMULATE_CACHES = 1, several host threads).  Each processor has a    *)
(* set-associative Dcache whose dirty lines sit in a short write buffer;   *)
(* all processors share the direct-mapped Scache, which holds no data: it  *)
(* is the directory that says which tags some Dcache may hold, and who     *)
(* holds one exclusively.                                                  *)
(*                                                                         *)
(* Locks.  CacheMutexes[p] guards the Dcache of p and XrScacheMutexes the  *)
(* directory, both striped by tag.  A thread takes an Scache stripe first  *)
(* and then at most one Dcache stripe at a time.  They are XrMutexes; that *)
(* those exclude one another is FastMutex's MutexExclusive.  Three places  *)
(* work without the Dcache lock: the read hit, the last part of the write  *)
(* upgrade (which holds the Scache stripe) and DCACHECTRL.                 *)
(*                                                                         *)
(* A step ends where a lock is taken or released, or where another         *)
(* processor could see or change what the rest of the handler uses.        *)
(*                                                                         *)
(* Data.  What a line or a line of RAM holds is "new" when it is the       *)
(* contents all stores so far add up to, and "old" when some store is      *)
(* missing from it.  A store merged into an old line leaves it old.  RAM   *)
(* is written by processors only: DMA by the disk controller is not here.  *)
(* Host memory is taken to be sequentially consistent.                     *)
(***************************************************************************)
EXTENDS Integers

CONSTANTS
  Procs,       \* the processors in XrProcessorTable
  NoProc,
  Tags,        \* line numbers: address >> XR_DC_LINE_SIZE_LOG
  BadTags,     \* lines whose EBusRead reports EBUSERROR
  Accesses,    \* kinds of access the software makes
  Controllers, \* processors whose software writes DCACHECTRL
  DcSets,      \* XR_DC_SETS
  DcWays,      \* XR_DC_WAYS
  ScSets,      \* XR_SC_SETS; XR_SC_WAY_LOG = 0
  Mutexes,     \* distinct values of XR_MUTEX_INDEX over line-aligned addresses
  WbDepth      \* XR_WB_DEPTH

ASSUME ProcAssumption == NoProc \notin Procs

ASSUME SizeAssumption ==
  /\ Tags \subseteq Nat
  /\ BadTags \subseteq Tags
  /\ Accesses \subseteq {"load", "store", "ll", "sc"}
  /\ Controllers \subseteq Procs
  /\ {DcSets, DcWays, ScSets, Mutexes, WbDepth} \subseteq Nat \ {0}

DcSet(t) == t % DcSets        \* XR_DC_SET_NUMBER
ScSet(t) == t % ScSets        \* XR_SC_SET_NUMBER
Mutex(t) == t % Mutexes       \* XR_MUTEX_INDEX

\* The sizes are powers of two: lines of one Scache set share a Dcache set, and
\* lines of one Dcache set share a lock.
ASSUME NestAssumption ==
  \A t, u \in Tags :
    /\ ScSet(t) = ScSet(u) => DcSet(t) = DcSet(u)
    /\ DcSet(t) = DcSet(u) => Mutex(t) = Mutex(u)

Stripes == 0 .. Mutexes - 1
Slots == 0 .. WbDepth - 1
ScIndices == 0 .. ScSets - 1
Lines == (0 .. DcSets - 1) \X (0 .. DcWays - 1)   \* Dcache index: <<set, way>>
LinesOf(t) == {l \in Lines : l[1] = DcSet(t)}

NoTag == -1
NoSlot == -1              \* XR_WB_INDEX_INVALID
NoLine == <<-1, -1>>      \* XR_CACHE_INDEX_INVALID

\* XR_LINE_INVALID, XR_LINE_SHARED, XR_LINE_EXCLUSIVE: XrDowngradeLine compares
\* them as numbers.
INVALID == 0
SHARED == 1
EXCLUSIVE == 2
LineStates == {INVALID, SHARED, EXCLUSIVE}

Data == {"new", "old"}

VARIABLES
  DcFlags, DcTags, Dc,            \* [Procs -> [Lines -> ...]]
  DcIndexToWbIndex,               \* [Procs -> [Lines -> slot]]
  WbIndices,                      \* [Procs -> [Slots -> line]]
  WbCycles,                       \* [Procs -> BOOLEAN]: WbCycles # 0
  DcReplacementIndex,             \* [Procs -> way], kept modulo the ways
  Locked,                         \* [Procs -> BOOLEAN]
  XrScacheFlags, XrScacheTags, XrScacheExclusiveIds,
  CacheMutexes, XrScacheMutexes,  \* the processor whose thread is inside
  Ram,                            \* [Tags -> Data]
  cpu                             \* locals of the access each processor is in

dcacheVars == <<DcFlags, DcTags, Dc>>
wbVars == <<DcIndexToWbIndex, WbIndices, WbCycles>>
scacheVars == <<XrScacheFlags, XrScacheTags, XrScacheExclusiveIds>>
lockVars == <<CacheMutexes, XrScacheMutexes>>
vars == <<dcacheVars, wbVars, DcReplacementIndex, Locked, scacheVars, lockVars,
          Ram, cpu>>

PC == {"idle", "start", "copy", "scan", "merge", "upgrade", "abort", "miss",
       "downgrade", "downgrading", "fill", "filling", "filled",
       "flush", "flushlock", "flushing", "invalidate"}
Ops == Accesses \cup {"none"}

\* line, slot: index and freewbindex of XrDcacheAccess, index and i of
\* XrFlushWriteBuffer.  todo: Dcaches still to downgrade; victim, vline: the one
\* being downgraded and the line found there.  ret: what follows the loop.
Locals == [pc : PC, op : Ops, tag : Tags \cup {NoTag},
           line : Lines \cup {NoLine}, slot : 0 .. WbDepth,
           todo : SUBSET Procs, victim : Procs \cup {NoProc},
           vline : Lines \cup {NoLine},
           ret : {"idle", "start", "invalidate", "upgrade", "miss"}]

Idle == [pc |-> "idle", op |-> "none", tag |-> NoTag, line |-> NoLine, slot |-> 0,
         todo |-> {}, victim |-> NoProc, vline |-> NoLine, ret |-> "idle"]

\* XrReset, XrInitializeProcessor and XrInitializeProcessors.  DcFlags comes from
\* malloc and is never written before use; fresh zero pages are assumed.
Init ==
  /\ DcFlags = [p \in Procs |-> [l \in Lines |-> INVALID]]
  /\ DcTags = [p \in Procs |-> [l \in Lines |-> NoTag]]
  /\ Dc = [p \in Procs |-> [l \in Lines |-> "old"]]
  /\ DcIndexToWbIndex = [p \in Procs |-> [l \in Lines |-> NoSlot]]
  /\ WbIndices = [p \in Procs |-> [s \in Slots |-> NoLine]]
  /\ WbCycles = [p \in Procs |-> FALSE]
  /\ DcReplacementIndex = [p \in Procs |-> 0]
  /\ Locked = [p \in Procs |-> FALSE]
  /\ XrScacheFlags = [i \in ScIndices |-> INVALID]
  /\ XrScacheTags = [i \in ScIndices |-> NoTag]
  /\ XrScacheExclusiveIds = [i \in ScIndices |-> NoProc]
  /\ CacheMutexes = [p \in Procs |-> [m \in Stripes |-> NoProc]]
  /\ XrScacheMutexes = [m \in Stripes |-> NoProc]
  /\ Ram = [t \in Tags |-> "new"]
  /\ cpu = [p \in Procs |-> Idle]
-----------------------------------------------------------------------------
At(p, label) == cpu[p].pc = label
Goto(p, label) == cpu' = [cpu EXCEPT ![p].pc = label]
Return(p) == cpu' = [cpu EXCEPT ![p] = Idle]

Tag(p) == cpu[p].tag
Writing(p) == cpu[p].op \in {"store", "sc"}        \* dest == 0
NewState(p) == IF Writing(p) THEN EXCLUSIVE ELSE SHARED

CacheFree(q, t) == CacheMutexes[q][Mutex(t)] = NoProc
SetCacheLock(q, t, owner) ==
  CacheMutexes' = [CacheMutexes EXCEPT ![q][Mutex(t)] = owner]
ScacheFree(t) == XrScacheMutexes[Mutex(t)] = NoProc
SetScacheLock(t, owner) ==
  XrScacheMutexes' = [XrScacheMutexes EXCEPT ![Mutex(t)] = owner]

Valid(p, l) == DcFlags[p][l] # INVALID

\* The first line, in way order, of a set of lines of one Dcache set; NoLine if
\* the set is empty.
First(lines) ==
  IF lines = {} THEN NoLine
  ELSE CHOOSE l \in lines : \A k \in lines : l[2] <= k[2]

\* The line of tag t that p's lookup hits.
Hit(p, t) == First({l \in LinesOf(t) : Valid(p, l) /\ DcTags[p][l] = t})

\* XrFindInScache.
InScache(t) ==
  XrScacheFlags[ScSet(t)] # INVALID /\ XrScacheTags[ScSet(t)] = t

FreeSlots(p) == {s \in Slots : WbIndices[p][s] = NoLine}

\* A store by p merged into its line l: every other copy of the line misses it.
Merge(p, l) ==
  /\ Dc' = [q \in Procs |-> [k \in Lines |->
              IF DcTags[q][k] = Tag(p) /\ <<q, k>> # <<p, l>> THEN "old" ELSE Dc[q][k]]]
  /\ Ram' = [Ram EXCEPT ![Tag(p)] = "old"]

\* WbIndices and DcIndexToWbIndex are set to name each other.
InsertWb(p, s, l) ==
  /\ WbIndices' = [WbIndices EXCEPT ![p][s] = l]
  /\ DcIndexToWbIndex' = [DcIndexToWbIndex EXCEPT ![p][l] = s]

\* The line l of q is written to RAM if it is in the write buffer, and its entry
\* is cleared.
ForceWrite(q, l) ==
  LET s == DcIndexToWbIndex[q][l] IN
  IF s # NoSlot
  THEN /\ Ram' = [Ram EXCEPT ![DcTags[q][l]] = Dc[q][l]]
       /\ WbIndices' = [WbIndices EXCEPT ![q][s] = NoLine]
       /\ DcIndexToWbIndex' = [DcIndexToWbIndex EXCEPT ![q][l] = NoSlot]
  ELSE UNCHANGED <<Ram, WbIndices, DcIndexToWbIndex>>
-----------------------------------------------------------------------------
(* XrDcacheAccess: the hits.                                               *)

\* A processor begins an access.  XrExecuteSC reaches the cache only while Locked.
Begin(p, o, t) ==
  /\ At(p, "idle")
  /\ o = "sc" => Locked[p]
  /\ cpu' = [cpu EXCEPT ![p] = [Idle EXCEPT !.pc = "start", !.op = o, !.tag = t]]
  /\ UNCHANGED <<dcacheVars, wbVars, DcReplacementIndex, Locked, scacheVars,
                 lockVars, Ram>>

\* A read looks the line up with no lock held.
LoadLookup(p) ==
  /\ At(p, "start") /\ ~Writing(p)
  /\ LET l == Hit(p, Tag(p)) IN
     cpu' = [cpu EXCEPT ![p].pc = IF l = NoLine THEN "miss" ELSE "copy", ![p].line = l]
  /\ UNCHANGED <<dcacheVars, wbVars, DcReplacementIndex, Locked, scacheVars,
                 lockVars, Ram>>

\* LL sets Locked when its read is done.
ReturnFromLoad(p) ==
  /\ Return(p)
  /\ Locked' = [Locked EXCEPT ![p] = @ \/ cpu[p].op = "ll"]

\* The read hit copies the data out, still with no lock.
LoadCopy(p) ==
  /\ At(p, "copy")
  /\ ReturnFromLoad(p)
  /\ UNCHANGED <<dcacheVars, wbVars, DcReplacementIndex, scacheVars, lockVars, Ram>>

\* A write starts with its own Dcache stripe.
StoreLock(p) ==
  /\ At(p, "start") /\ Writing(p)
  /\ CacheFree(p, Tag(p))
  /\ SetCacheLock(p, Tag(p), p)
  /\ Goto(p, "scan")
  /\ UNCHANGED <<dcacheVars, wbVars, DcReplacementIndex, Locked, scacheVars,
                 XrScacheMutexes, Ram>>

\* The write buffer slots whose line has tag t.
SlotsOf(p, t) ==
  {s \in Slots : WbIndices[p][s] # NoLine /\ DcTags[p][WbIndices[p][s]] = t}

\* The line is in the write buffer: the store is merged under the lock.
StoreHitsBuffer(p) ==
  /\ At(p, "scan")
  /\ \E s \in SlotsOf(p, Tag(p)) :
       /\ \A r \in SlotsOf(p, Tag(p)) : s <= r
       /\ Merge(p, WbIndices[p][s])
  /\ SetCacheLock(p, Tag(p), NoProc)
  /\ Return(p)
  /\ UNCHANGED <<DcFlags, DcTags, wbVars, DcReplacementIndex, Locked, scacheVars,
                 XrScacheMutexes>>

\* Mutation: the access starts over without flushing.
StoreRetriesUnflushed(p) ==
  /\ At(p, "scan")
  /\ SlotsOf(p, Tag(p)) = {}
  /\ FreeSlots(p) = {}
  /\ SetCacheLock(p, Tag(p), NoProc)
  /\ Goto(p, "start")
  /\ UNCHANGED <<dcacheVars, wbVars, DcReplacementIndex, Locked, scacheVars,
                 XrScacheMutexes, Ram>>

\* No entry is free: the buffer is flushed and the access starts over.
StoreFindsBufferFull(p) ==
  /\ At(p, "scan")
  /\ SlotsOf(p, Tag(p)) = {}
  /\ FreeSlots(p) = {}
  /\ SetCacheLock(p, Tag(p), NoProc)
  /\ cpu' = [cpu EXCEPT ![p].pc = "flush", ![p].slot = 0, ![p].ret = "start"]
  /\ UNCHANGED <<dcacheVars, wbVars, DcReplacementIndex, Locked, scacheVars,
                 XrScacheMutexes, Ram>>

\* Mutation: the countdown is not started.
NoCountdown(p) == UNCHANGED WbCycles

\* The countdown after which XrCheckConditions empties the write buffer.
StartCountdown(p) == WbCycles' = [WbCycles EXCEPT ![p] = TRUE]

\* An entry is free (the last free one is used): the countdown starts and the
\* line is looked up.  An exclusive line keeps the lock; a shared line, or none,
\* gives it up, and there SC fails if the line is not present at all.
StoreLookup(p) ==
  LET l == Hit(p, Tag(p))
      exclusive == l # NoLine /\ DcFlags[p][l] = EXCLUSIVE IN
  /\ At(p, "scan")
  /\ SlotsOf(p, Tag(p)) = {}
  /\ \E s \in FreeSlots(p) :
       /\ \A r \in FreeSlots(p) : r <= s
       /\ IF l = NoLine /\ cpu[p].op = "sc" THEN Return(p)
          ELSE cpu' = [cpu EXCEPT ![p].pc = IF exclusive THEN "merge"
                                            ELSE IF l = NoLine THEN "miss" ELSE "upgrade",
                                  ![p].line = l, ![p].slot = s]
  /\ IF exclusive THEN UNCHANGED CacheMutexes ELSE SetCacheLock(p, Tag(p), NoProc)
  /\ StartCountdown(p)
  /\ UNCHANGED <<dcacheVars, WbIndices, DcIndexToWbIndex, DcReplacementIndex, Locked,
                 scacheVars, XrScacheMutexes, Ram>>

\* The line is ours: enter it in the write buffer, merge, unlock.
StoreMerge(p) ==
  /\ At(p, "merge")
  /\ InsertWb(p, cpu[p].slot, cpu[p].line)
  /\ Merge(p, cpu[p].line)
  /\ SetCacheLock(p, Tag(p), NoProc)
  /\ Return(p)
  /\ UNCHANGED <<DcFlags, DcTags, WbCycles, DcReplacementIndex, Locked, scacheVars,
                 XrScacheMutexes>>
-----------------------------------------------------------------------------
(* XrDcacheAccess: write to a shared line; XrDowngradeLine.                *)

\* Mutation: the line is not looked at again under the Scache lock.
UpgradeLockUnchecked(p) ==
  /\ At(p, "upgrade")
  /\ ScacheFree(Tag(p))
  /\ SetScacheLock(Tag(p), p)
  /\ cpu' = [cpu EXCEPT ![p].pc = "downgrade", ![p].ret = "upgrade",
                        ![p].todo = Procs \ {p}]
  /\ UNCHANGED <<dcacheVars, wbVars, DcReplacementIndex, Locked, scacheVars,
                 CacheMutexes, Ram>>

\* The Scache stripe is taken and the line, which was unlocked meanwhile, looked
\* at again.  If it was invalidated the access starts over; if the Scache does
\* not have it the emulator aborts; else every other copy is to be invalidated.
UpgradeLock(p) ==
  /\ At(p, "upgrade")
  /\ ScacheFree(Tag(p))
  /\ IF ~Valid(p, cpu[p].line) \/ ~InScache(Tag(p))
     THEN /\ cpu' = [cpu EXCEPT ![p].pc = IF Valid(p, cpu[p].line) THEN "abort" ELSE "start",
                                ![p].line = NoLine, ![p].slot = 0]
          /\ UNCHANGED XrScacheMutexes
     ELSE /\ SetScacheLock(Tag(p), p)
          /\ cpu' = [cpu EXCEPT
                       ![p].pc = "downgrade", ![p].ret = "upgrade",
                       ![p].todo = IF XrScacheFlags[ScSet(Tag(p))] = SHARED
                                   THEN Procs \ {p}
                                   ELSE {XrScacheExclusiveIds[ScSet(Tag(p))]}]
  /\ UNCHANGED <<dcacheVars, wbVars, DcReplacementIndex, Locked, scacheVars,
                 CacheMutexes, Ram>>

\* The tag that the holder of the Scache stripe takes away from other Dcaches: its
\* own, or the one its own replaces; and the state it leaves them in.
DowngradeTag(p) == XrScacheTags[ScSet(Tag(p))]
DowngradeState(p) ==
  IF cpu[p].ret = "miss" /\ ~Writing(p) /\ InScache(Tag(p)) THEN SHARED ELSE INVALID

\* Mutation: the state of the line is not compared.
LineToDowngradeAnyState(p, q) ==
  First({l \in LinesOf(DowngradeTag(p)) : DcTags[q][l] = DowngradeTag(p)})

\* The line of q that XrDowngradeLine finds.
LineToDowngrade(p, q) ==
  First({l \in LinesOf(DowngradeTag(p)) : /\ DcFlags[q][l] > DowngradeState(p)
                                          /\ DcTags[q][l] = DowngradeTag(p)})

\* Mutation: the search does not take the lock of the Dcache it searches.
DowngradeLockless(p) ==
  /\ At(p, "downgrade")
  /\ \E q \in cpu[p].todo :
       cpu' = [cpu EXCEPT ![p].pc = "downgrading", ![p].victim = q,
                          ![p].vline = LineToDowngrade(p, q), ![p].todo = @ \ {q}]
  /\ UNCHANGED <<dcacheVars, wbVars, DcReplacementIndex, Locked, scacheVars, lockVars, Ram>>

\* XrDowngradeLine of the next processor, up to finding the line.
DowngradeLock(p) ==
  /\ At(p, "downgrade")
  /\ \E q \in cpu[p].todo :
       /\ CacheFree(q, DowngradeTag(p))
       /\ SetCacheLock(q, DowngradeTag(p), p)
       /\ cpu' = [cpu EXCEPT ![p].pc = "downgrading", ![p].victim = q,
                             ![p].vline = LineToDowngrade(p, q), ![p].todo = @ \ {q}]
  /\ UNCHANGED <<dcacheVars, wbVars, DcReplacementIndex, Locked, scacheVars,
                 XrScacheMutexes, Ram>>

\* Mutation: the buffered line is not written out.
DowngradeDropsBuffer(p) ==
  LET q == cpu[p].victim   l == cpu[p].vline IN
  /\ At(p, "downgrading")
  /\ IF l # NoLine
     THEN DcFlags' = [DcFlags EXCEPT ![q][l] = DowngradeState(p)]
     ELSE UNCHANGED DcFlags
  /\ SetCacheLock(q, DowngradeTag(p), NoProc)
  /\ cpu' = [cpu EXCEPT ![p].pc = "downgrade", ![p].victim = NoProc, ![p].vline = NoLine]
  /\ UNCHANGED <<DcTags, Dc, wbVars, DcReplacementIndex, Locked, scacheVars,
                 XrScacheMutexes, Ram>>

\* XrDowngradeLine: the line found is written out if buffered and downgraded.
DowngradeLine(p) ==
  LET q == cpu[p].victim   l == cpu[p].vline IN
  /\ At(p, "downgrading")
  /\ IF l # NoLine
     THEN /\ ForceWrite(q, l)
          /\ DcFlags' = [DcFlags EXCEPT ![q][l] = DowngradeState(p)]
     ELSE UNCHANGED <<Ram, WbIndices, DcIndexToWbIndex, DcFlags>>
  /\ SetCacheLock(q, DowngradeTag(p), NoProc)
  /\ cpu' = [cpu EXCEPT ![p].pc = "downgrade", ![p].victim = NoProc, ![p].vline = NoLine]
  /\ UNCHANGED <<DcTags, Dc, WbCycles, DcReplacementIndex, Locked, scacheVars,
                 XrScacheMutexes>>

Downgraded(p, why) == At(p, "downgrade") /\ cpu[p].todo = {} /\ cpu[p].ret = why

\* The line becomes exclusive and the store is merged, with the Scache stripe held
\* and the Dcache stripe not.
UpgradeDone(p) ==
  LET i == ScSet(Tag(p)) IN
  /\ Downgraded(p, "upgrade")
  /\ XrScacheFlags' = [XrScacheFlags EXCEPT ![i] = EXCLUSIVE]
  /\ XrScacheExclusiveIds' = [XrScacheExclusiveIds EXCEPT ![i] = p]
  /\ DcFlags' = [DcFlags EXCEPT ![p][cpu[p].line] = EXCLUSIVE]
  /\ InsertWb(p, cpu[p].slot, cpu[p].line)
  /\ Merge(p, cpu[p].line)
  /\ SetScacheLock(Tag(p), NoProc)
  /\ Return(p)
  /\ UNCHANGED <<DcTags, WbCycles, DcReplacementIndex, Locked, XrScacheTags, CacheMutexes>>
-----------------------------------------------------------------------------
(* XrDcacheAccess: the miss; XrFindOrReplaceInScache.                      *)

\* Mutation: replacing an Scache line leaves the copies of its old tag alone.
ToDowngradeKeepsOld(p) ==
  LET i == ScSet(Tag(p)) IN
  CASE ~InScache(Tag(p)) -> {}
    [] XrScacheFlags[i] = EXCLUSIVE -> {XrScacheExclusiveIds[i]}
    [] XrScacheFlags[i] = SHARED /\ Writing(p) -> Procs
    [] OTHER -> {}

\* The Dcaches a miss has to visit: the exclusive owner of the entry found or
\* replaced; all of them if it is shared, unless the entry is ours and we read;
\* none if it was invalid.
ToDowngrade(p) ==
  LET i == ScSet(Tag(p)) IN
  CASE XrScacheFlags[i] = EXCLUSIVE -> {XrScacheExclusiveIds[i]}
    [] XrScacheFlags[i] = SHARED /\ (Writing(p) \/ ~InScache(Tag(p))) -> Procs
    [] OTHER -> {}

\* The Scache stripe is taken and the tag looked up.
MissLock(p) ==
  /\ At(p, "miss")
  /\ ScacheFree(Tag(p))
  /\ SetScacheLock(Tag(p), p)
  /\ cpu' = [cpu EXCEPT ![p].pc = "downgrade", ![p].ret = "miss", ![p].todo = ToDowngrade(p)]
  /\ UNCHANGED <<dcacheVars, wbVars, DcReplacementIndex, Locked, scacheVars,
                 CacheMutexes, Ram>>

\* Mutation: the Scache stripe is released before the line is filled.
SetScacheUnlocks(p) ==
  LET i == ScSet(Tag(p)) IN
  /\ Downgraded(p, "miss")
  /\ XrScacheFlags' = [XrScacheFlags EXCEPT ![i] = NewState(p)]
  /\ XrScacheTags' = [XrScacheTags EXCEPT ![i] = Tag(p)]
  /\ XrScacheExclusiveIds' = [XrScacheExclusiveIds EXCEPT ![i] = p]
  /\ SetScacheLock(Tag(p), NoProc)
  /\ Goto(p, "fill")
  /\ UNCHANGED <<dcacheVars, wbVars, DcReplacementIndex, Locked, CacheMutexes, Ram>>

\* The Scache entry takes the tag in the state wanted.
SetScache(p) ==
  LET i == ScSet(Tag(p)) IN
  /\ Downgraded(p, "miss")
  /\ XrScacheFlags' = [XrScacheFlags EXCEPT ![i] = NewState(p)]
  /\ XrScacheTags' = [XrScacheTags EXCEPT ![i] = Tag(p)]
  /\ XrScacheExclusiveIds' = [XrScacheExclusiveIds EXCEPT ![i] = p]
  /\ Goto(p, "fill")
  /\ UNCHANGED <<dcacheVars, wbVars, DcReplacementIndex, Locked, lockVars, Ram>>

FillLock(p) ==
  /\ At(p, "fill")
  /\ CacheFree(p, Tag(p))
  /\ SetCacheLock(p, Tag(p), p)
  /\ Goto(p, "filling")
  /\ UNCHANGED <<dcacheVars, wbVars, DcReplacementIndex, Locked, scacheVars,
                 XrScacheMutexes, Ram>>

\* DcReplacementIndex++ & (XR_DC_WAYS - 1).
NextWay(p) == (DcReplacementIndex[p] + 1) % DcWays

\* A way is chosen in turn and its line written out if buffered; the line is read
\* from RAM and the Scache stripe released.  After a bus error both entries are
\* invalid again and both locks released.
Fill(p) ==
  LET l == <<DcSet(Tag(p)), DcReplacementIndex[p]>>
      i == ScSet(Tag(p))
      failed == Tag(p) \in BadTags IN
  /\ At(p, "filling")
  /\ DcReplacementIndex' = [DcReplacementIndex EXCEPT ![p] = NextWay(p)]
  /\ IF Valid(p, l) THEN ForceWrite(p, l)
     ELSE UNCHANGED <<Ram, WbIndices, DcIndexToWbIndex>>
  /\ DcTags' = [DcTags EXCEPT ![p][l] = Tag(p)]
  /\ SetScacheLock(Tag(p), NoProc)
  /\ IF failed
     THEN /\ DcFlags' = [DcFlags EXCEPT ![p][l] = INVALID]
          /\ Dc' = [Dc EXCEPT ![p][l] = "old"]
          /\ XrScacheFlags' = [XrScacheFlags EXCEPT ![i] = INVALID]
          /\ SetCacheLock(p, Tag(p), NoProc)
          /\ Return(p)
     ELSE /\ DcFlags' = [DcFlags EXCEPT ![p][l] = NewState(p)]
          /\ Dc' = [Dc EXCEPT ![p][l] = Ram[Tag(p)]]
          /\ cpu' = [cpu EXCEPT ![p].pc = "filled", ![p].line = l]
          /\ UNCHANGED <<XrScacheFlags, CacheMutexes>>
  /\ UNCHANGED <<WbCycles, Locked, XrScacheTags, XrScacheExclusiveIds>>

\* After a write miss: enter the line in the write buffer, merge, unlock.
FilledStore(p) ==
  /\ At(p, "filled") /\ Writing(p)
  /\ InsertWb(p, cpu[p].slot, cpu[p].line)
  /\ Merge(p, cpu[p].line)
  /\ SetCacheLock(p, Tag(p), NoProc)
  /\ Return(p)
  /\ UNCHANGED <<DcFlags, DcTags, WbCycles, DcReplacementIndex, Locked, scacheVars,
                 XrScacheMutexes>>

\* After a read miss: copy the data out, unlock.
FilledLoad(p) ==
  /\ At(p, "filled") /\ ~Writing(p)
  /\ SetCacheLock(p, Tag(p), NoProc)
  /\ ReturnFromLoad(p)
  /\ UNCHANGED <<dcacheVars, wbVars, DcReplacementIndex, scacheVars, XrScacheMutexes, Ram>>
-----------------------------------------------------------------------------
(* XrFlushWriteBuffer and its callers.                                     *)

StartFlush(p, after) ==
  cpu' = [cpu EXCEPT ![p] = [Idle EXCEPT !.pc = "flush", !.ret = after]]

\* XrExecuteWmb, XrExecuteMb.
Barrier(p) ==
  /\ At(p, "idle")
  /\ StartFlush(p, "idle")
  /\ UNCHANGED <<dcacheVars, wbVars, DcReplacementIndex, Locked, scacheVars, lockVars, Ram>>

\* XrCheckConditions: the buffer is emptied if the countdown was started.
CheckConditions(p) ==
  /\ At(p, "idle")
  /\ WbCycles[p]
  /\ WbCycles' = [WbCycles EXCEPT ![p] = FALSE]
  /\ StartFlush(p, "idle")
  /\ UNCHANGED <<dcacheVars, WbIndices, DcIndexToWbIndex, DcReplacementIndex, Locked,
                 scacheVars, lockVars, Ram>>

\* XrExecuteMtcr, DCACHECTRL: the buffer is flushed and then the Dcache
\* invalidated, here all of it.
CacheControl(p) ==
  /\ p \in Controllers
  /\ At(p, "idle")
  /\ StartFlush(p, "invalidate")
  /\ UNCHANGED <<dcacheVars, wbVars, DcReplacementIndex, Locked, scacheVars, lockVars, Ram>>

\* XrFlushWriteBuffer: the next entry in use is read without a lock; after the
\* last one the caller goes on.
FlushNext(p) ==
  LET used == {s \in cpu[p].slot .. WbDepth - 1 : WbIndices[p][s] # NoLine} IN
  /\ At(p, "flush")
  /\ \/ \E s \in used :
          /\ \A r \in used : s <= r
          /\ cpu' = [cpu EXCEPT ![p].pc = "flushlock", ![p].slot = s,
                                ![p].line = WbIndices[p][s]]
     \/ /\ used = {}
        /\ IF cpu[p].ret = "idle" THEN Return(p)
           ELSE cpu' = [cpu EXCEPT ![p].pc = cpu[p].ret, ![p].slot = 0,
                                   ![p].line = NoLine, ![p].ret = "idle"]
  /\ UNCHANGED <<dcacheVars, wbVars, DcReplacementIndex, Locked, scacheVars, lockVars, Ram>>

FlushLock(p) ==
  LET t == DcTags[p][cpu[p].line] IN
  /\ At(p, "flushlock")
  /\ CacheFree(p, t)
  /\ SetCacheLock(p, t, p)
  /\ Goto(p, "flushing")
  /\ UNCHANGED <<dcacheVars, wbVars, DcReplacementIndex, Locked, scacheVars,
                 XrScacheMutexes, Ram>>

\* The entry, unless it was flushed meanwhile, is written out and cleared.
FlushWrite(p) ==
  LET l == cpu[p].line   t == DcTags[p][l] IN
  /\ At(p, "flushing")
  /\ IF WbIndices[p][cpu[p].slot] # NoLine
     THEN /\ Ram' = [Ram EXCEPT ![t] = Dc[p][l]]
          /\ WbIndices' = [WbIndices EXCEPT ![p][cpu[p].slot] = NoLine]
          /\ DcIndexToWbIndex' = [DcIndexToWbIndex EXCEPT ![p][l] = NoSlot]
     ELSE UNCHANGED <<Ram, WbIndices, DcIndexToWbIndex>>
  /\ SetCacheLock(p, t, NoProc)
  /\ cpu' = [cpu EXCEPT ![p].pc = "flush", ![p].slot = @ + 1]
  /\ UNCHANGED <<dcacheVars, WbCycles, DcReplacementIndex, Locked, scacheVars,
                 XrScacheMutexes>>

\* DCACHECTRL's loop over DcFlags, which takes no lock.
Invalidate(p) ==
  /\ At(p, "invalidate")
  /\ DcFlags' = [DcFlags EXCEPT ![p] = [l \in Lines |-> INVALID]]
  /\ Return(p)
  /\ UNCHANGED <<DcTags, Dc, wbVars, DcReplacementIndex, Locked, scacheVars, lockVars, Ram>>

\* XrExecuteRfe.
Rfe(p) ==
  /\ At(p, "idle")
  /\ Locked' = [Locked EXCEPT ![p] = FALSE]
  /\ UNCHANGED <<dcacheVars, wbVars, DcReplacementIndex, scacheVars, lockVars, Ram, cpu>>
-----------------------------------------------------------------------------
\* The steps in which a store takes effect.
StoreStep(p) == StoreHitsBuffer(p) \/ StoreMerge(p) \/ UpgradeDone(p) \/ FilledStore(p)

\* The steps of an access or flush that was begun.
Continue(p) ==
  \/ StoreStep(p)
  \/ LoadLookup(p) \/ LoadCopy(p)
  \/ StoreLock(p) \/ StoreFindsBufferFull(p) \/ StoreLookup(p)
  \/ UpgradeLock(p) \/ DowngradeLock(p) \/ DowngradeLine(p)
  \/ MissLock(p) \/ SetScache(p) \/ FillLock(p) \/ Fill(p) \/ FilledLoad(p)
  \/ FlushNext(p) \/ FlushLock(p) \/ FlushWrite(p)
  \/ Invalidate(p)

Start(p) ==
  \/ \E o \in Accesses, t \in Tags : Begin(p, o, t)
  \/ Barrier(p) \/ CheckConditions(p) \/ CacheControl(p)
  \/ Rfe(p)

Next == \E p \in Procs : Start(p) \/ Continue(p)

Spec == Init /\ [][Next]_vars

\* A host thread inside a handler keeps running, and a contended XrMutex admits
\* one of its waiters; whether software begins another access is its own choice.
FairSpec == Spec /\ \A p \in Procs : WF_vars(Continue(p))
-----------------------------------------------------------------------------
(* What the protocol promises.                                             *)

\* Types of the cache, directory, lock and buffer state.
TypeOK ==
  /\ DcFlags \in [Procs -> [Lines -> LineStates]]
  /\ DcTags \in [Procs -> [Lines -> Tags \cup {NoTag}]]
  /\ Dc \in [Procs -> [Lines -> Data]]
  /\ DcIndexToWbIndex \in [Procs -> [Lines -> Slots \cup {NoSlot}]]
  /\ WbIndices \in [Procs -> [Slots -> Lines \cup {NoLine}]]
  /\ WbCycles \in [Procs -> BOOLEAN]
  /\ DcReplacementIndex \in [Procs -> 0 .. DcWays - 1]
  /\ Locked \in [Procs -> BOOLEAN]
  /\ XrScacheFlags \in [ScIndices -> LineStates]
  /\ XrScacheTags \in [ScIndices -> Tags \cup {NoTag}]
  /\ XrScacheExclusiveIds \in [ScIndices -> Procs \cup {NoProc}]
  /\ CacheMutexes \in [Procs -> [Stripes -> Procs \cup {NoProc}]]
  /\ XrScacheMutexes \in [Stripes -> Procs \cup {NoProc}]
  /\ Ram \in [Tags -> Data]
  /\ cpu \in [Procs -> Locals]

Holds(p, l, t) == Valid(p, l) /\ DcTags[p][l] = t

\* "Since it's exclusive it can only be in one Dcache" (xraccess.inc.c:624): a
\* line exclusive in one Dcache is valid in no other, in whatever order misses,
\* upgrades, downgrades and replacements of the processors interleave.
SingleWriter ==
  \A p, q \in Procs : \A k, l \in Lines :
    DcFlags[p][k] = EXCLUSIVE /\ Holds(q, l, DcTags[p][k]) => p = q

\* A Dcache holds a line in one way only: XrDowngradeLine stops at the first way
\* it finds, and a miss fills whichever way is next.
OneWay ==
  \A p \in Procs : \A k, l \in Lines :
    Valid(p, k) /\ Holds(p, l, DcTags[p][k]) => k = l

\* "Our cache is maintained as a subset of the Scache" (xraccess.inc.c:606): what
\* a Dcache holds the directory knows of, an exclusive line by its holder, and a
\* tag exclusive in the directory is held by no other processor.  The abort
\* that relies on it is never reached.
Inclusion ==
  /\ \A p \in Procs : ~At(p, "abort")
  /\ \A p \in Procs, l \in Lines : Valid(p, l) =>
       LET i == ScSet(DcTags[p][l]) IN
       /\ InScache(DcTags[p][l])
       /\ DcFlags[p][l] = EXCLUSIVE => XrScacheFlags[i] = EXCLUSIVE
       /\ XrScacheFlags[i] = EXCLUSIVE => XrScacheExclusiveIds[i] = p

\* The two halves of the write buffer name each other, a buffered line is held
\* exclusively ("the writebuffer entry should be purged with the tag locked
\* whenever the line is invalidated or downgraded", xraccess.inc.c:475), and no
\* tag is in it twice.
WriteBufferExclusive ==
  \A p \in Procs, l \in Lines :
    /\ \A s \in Slots : WbIndices[p][s] = l <=> DcIndexToWbIndex[p][l] = s
    /\ DcIndexToWbIndex[p][l] # NoSlot => DcFlags[p][l] = EXCLUSIVE

\* A line that is valid holds every store made to it by any processor: fills read
\* RAM only after the holder's buffered line was written there.
Coherent == \A p \in Procs, l \in Lines : Valid(p, l) => Dc[p][l] = "new"

\* A store missing from RAM is on its way there: the line that has it is in its
\* processor's write buffer, which a flush or a downgrade writes out.
StoresKept ==
  \A t \in Tags : Ram[t] = "old" =>
    \E p \in Procs, l \in Lines :
      Holds(p, l, t) /\ DcIndexToWbIndex[p][l] # NoSlot /\ Dc[p][l] = "new"

\* A processor between accesses with stores in its write buffer has the countdown
\* running that makes XrCheckConditions write them out.
BufferDrains ==
  \A p \in Procs : At(p, "idle") /\ FreeSlots(p) # Slots => WbCycles[p]

Busy == {p \in Procs : ~At(p, "idle")}

\* The retries of XrDcacheAccess (full buffer, line lost before the upgrade) and
\* its locks do not keep the same processors busy for ever: one of them
\* finishes, or another one begins.
Progress == \A busy \in (SUBSET Procs) \ {{}} : []<>(Busy # busy)
=============================================================================
