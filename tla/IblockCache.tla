----------------------------- MODULE IblockCache -----------------------------
(***************************************************************************)
(* The cache of decoded blocks of one processor (xr17032fast.c).  A block  *)
(* (Iblock) is found by its program counter and address space, and linked  *)
(* directly from the blocks that branch to it: by the two CachedPaths of a *)
(* block, or by the prediction table that a block ending in JALR has       *)
(* instead.  A link is followed without a lookup.  So that a block can be  *)
(* reclaimed, it remembers up to CachedByMax places that link to it; a     *)
(* link pushed out of that list is cut.  Virtual pages (Vpages) list the   *)
(* blocks in them, for the invalidation of a page.                         *)
(*                                                                         *)
(* c is the data structure, with pointers as values: a place is Path(b, i) *)
(* or Entry(t, i), and c.link says what it holds.  The first path of a     *)
(* block with a prediction table holds the table, and the first entry of a *)
(* free table the next one, as in the code.  Hash lists of blocks are left *)
(* out: a block enters and leaves its bucket when it enters and leaves the *)
(* LRU list.                                                               *)
(*                                                                         *)
(* The rest is the program.  image says what code each page of an address  *)
(* space holds.  Software keeps to the architecture: a page whose code or  *)
(* mapping changed is invalidated before it is executed again, the address *)
(* space is changed only by code that all of them share, and the kernel    *)
(* goes to the user's pages only with RFE (CodeAssumption).                *)
(***************************************************************************)
EXTENDS Integers, SequencesExt, FiniteSetsExt

CONSTANTS
  Blocks, Ptables,          \* the structures allocated by XrInitializeProcessor
  Null,
  CachedByMax,              \* XR_IBLOCK_CACHEDBY_MAX
  Reclaim,                  \* XR_IBLOCK_RECLAIM
  Entries,                  \* XR_JALR_PREDICTION_TABLE_ENTRIES
  BlockInsts,               \* XR_IBLOCK_INSTS
  PageInsts,                \* instructions in a page
  Asids,                    \* address spaces; one stands for RS_MMU off
  Images,                   \* bound: what a page can hold
  Code,                     \* [Images \X Pcs -> instruction]
  Pcs, Kernel,              \* program counters; the pages of the kernel
  Changing                  \* bound: the pages whose code changes

VARIABLES
  c,       \* the cache
  Pc, asid, user,  \* program counter, XR_CURRENT_ASID, RS_USER
  block,   \* the block being executed; Null in XrCheckConditions
  image    \* [Asids -> [pages -> Images]]

vars == <<c, Pc, asid, user, block, image>>

PathTrue == 0
PathFalse == 1
Paths == {PathTrue, PathFalse}
Vpn(pc) == pc \div PageInsts
Vpns == {Vpn(pc) : pc \in Pcs}
\* The exception vectors are in the kernel's first page.
Vector == 0

\* CachedPaths of a block, Iblocks of a prediction table.
Path(b, i) == <<"path", b, i>>
Entry(t, i) == <<"ptable", t, i>>
Indices == 0 .. (Entries - 1)
Places == {Path(b, i) : b \in Blocks, i \in Paths}
            \cup {Entry(t, i) : t \in Ptables, i \in Indices}

ASSUME SizeAssumption ==
  /\ IsFiniteSet(Blocks) /\ IsFiniteSet(Ptables)
  /\ Blocks \cap Ptables = {} /\ Null \notin Blocks \cup Ptables \cup Places
  /\ Cardinality(Ptables) = Cardinality(Blocks)
  /\ Reclaim \in 2 .. (Cardinality(Blocks) - 1)
  /\ CachedByMax \in Nat \ {0} /\ Entries \in Nat \ {0}
  /\ BlockInsts \in Nat \ {0} /\ PageInsts \in Nat \ {0}
  /\ Pcs \subseteq Nat /\ Images # {}
  /\ Changing \subseteq Vpns \ Kernel

NoBlock == [Pc |-> 0, Asid |-> Null, Insts |-> <<>>, PteKernel |-> FALSE,
            CachedBy |-> [i \in 0 .. (CachedByMax - 1) |-> Null], CachedByFifoIndex |-> 0,
            HasPtable |-> FALSE]
NoPcs == [i \in Indices |-> 0]

\* The tables of the sequence free are those on the free list, in this order.
FreeTables(d, free) ==
  /\ d.PtableFreeList = IF free = <<>> THEN Null ELSE free[1]
  /\ \A n \in DOMAIN free :
       d.link[Entry(free[n], 0)] = IF n < Len(free) THEN free[n + 1] ELSE Null

\* XrInitializeProcessor: every structure is free.
Init ==
  /\ \E free \in SetToSeqs(Blocks), tables \in SetToSeqs(Ptables) :
       c = [IblockFreeList |-> free, IblockLruList |-> <<>>,
            PtableFreeList |-> tables[1], VpageHash |-> {},
            iblock |-> [b \in Blocks |-> NoBlock],
            link |-> [p \in Places |->
              IF \E n \in 1 .. (Len(tables) - 1) : p = Entry(tables[n], 0)
              THEN tables[1 + CHOOSE n \in DOMAIN tables : p = Entry(tables[n], 0)] ELSE Null],
            PtablePcs |-> [t \in Ptables |-> NoPcs],
            vpage |-> [v \in Vpns |-> [References |-> 0, IblockVpnList |-> <<>>]]]
  /\ Pc = Vector /\ asid \in Asids /\ user = FALSE /\ block = Null
  /\ image = [a \in Asids |-> [v \in Vpns |-> CHOOSE i \in Images : TRUE]]
-----------------------------------------------------------------------------
(* Links.                                                                  *)

Active(d) == ToSet(d.IblockLruList)
Table(d, b) == d.link[Path(b, PathTrue)]

\* The places in CachedBy that still link to b.
LinkedFrom(d, b, indices) ==
  {p \in {d.iblock[b].CachedBy[i] : i \in indices} \ {Null} : d.link[p] = b}
Cut(d, places) ==
  [d EXCEPT !.link = [p \in Places |-> IF p \in places THEN Null ELSE d.link[p]]]

\* XrInvalidateIblockPointers.
InvalidatePointers(d, b) == Cut(d, LinkedFrom(d, b, DOMAIN d.iblock[b].CachedBy))

\* Mutation: the link that is pushed out of CachedBy stays.
CreateCachedPointerKeepsOldest(d, b, p) ==
  LET index == d.iblock[b].CachedByFifoIndex IN
  [d EXCEPT
     !.link[p] = b,
     !.iblock[b] = [@ EXCEPT !.CachedByFifoIndex = (index + 1) % CachedByMax,
                             !.CachedBy[index] = p]]
\* XrCreateCachedPointerToBlock.
CreateCachedPointer(d, b, p) ==
  LET index == d.iblock[b].CachedByFifoIndex IN
  [Cut(d, LinkedFrom(d, b, {index})) EXCEPT
     !.link[p] = b,
     !.iblock[b] = [@ EXCEPT !.CachedByFifoIndex = (index + 1) % CachedByMax,
                             !.CachedBy[index] = p]]
-----------------------------------------------------------------------------
(* Allocation and invalidation.                                            *)

\* XrAllocatePtable, for block b.
AllocatePtable(d, b) ==
  LET t == d.PtableFreeList IN
  [d EXCEPT !.PtableFreeList = d.link[Entry(t, 0)],
            !.link = [p \in Places |-> IF p = Path(b, PathTrue) THEN t
                                       ELSE IF \E i \in Indices : p = Entry(t, i) THEN Null
                                       ELSE d.link[p]],
            !.iblock[b].HasPtable = TRUE]

\* XrFreePtable.  What else is left in a table is not used before it is allocated.
FreePtable(d, t) ==
  [d EXCEPT !.link = [p \in Places |->
              IF p = Entry(t, 0) THEN d.PtableFreeList
              ELSE IF \E i \in Indices : p = Entry(t, i) THEN Null ELSE d.link[p]],
            !.PtablePcs[t] = NoPcs,
            !.PtableFreeList = t]

\* RemoveEntryList.
Unlink(list, b) == RemoveAt(list, CHOOSE i \in DOMAIN list : list[i] = b)

\* The Vpage of b in XrFreeIblock: freed with its last block.
LeaveVpage(d, b) ==
  LET v == Vpn(d.iblock[b].Pc) IN
  [d EXCEPT !.vpage[v] = [References |-> @.References - 1,
                          IblockVpnList |-> Unlink(@.IblockVpnList, b)],
            !.VpageHash = IF d.vpage[v].References = 1 THEN @ \ {v} ELSE @]

\* The block moves from all lists to the free list.  What is left in it is not used before
\* it is allocated.
MoveToFree(d, b) ==
  [LeaveVpage(d, b) EXCEPT
     !.IblockLruList = Unlink(@, b), !.IblockFreeList = <<b>> \o @,
     !.iblock[b] = NoBlock,
     !.link = [p \in Places |-> IF \E i \in Paths : p = Path(b, i) THEN Null ELSE d.link[p]]]

\* Mutation: the prediction table is not freed.
FreeIblockKeepsPtable(d, b) == MoveToFree(d, b)
\* XrFreeIblock.
FreeIblock(d, b) ==
  IF d.iblock[b].HasPtable THEN FreePtable(MoveToFree(d, b), Table(d, b)) ELSE MoveToFree(d, b)

\* The loops that free blocks; hazard is passed over.
FreeNext(d, b, hazard, cutting) ==
  IF b = hazard THEN d ELSE FreeIblock(IF cutting THEN InvalidatePointers(d, b) ELSE d, b)
FreeEach(d, list, hazard, cutting) ==
  LET after[n \in 0 .. Len(list)] ==
        IF n = 0 THEN d ELSE FreeNext(after[n - 1], list[n], hazard, cutting)
  IN  after[Len(list)]

\* XrPopulateIblockList: all but hazard of the last Reclaim blocks.
PopulateIblockList(d, hazard) ==
  FreeEach(d, SubSeq(Reverse(d.IblockLruList), 1, Reclaim), hazard, TRUE)

\* XrInvalidateIblockCache: links between freed blocks are left in them.
InvalidateIblockCache(d) == FreeEach(d, d.IblockLruList, Null, FALSE)

\* Mutation: links into the page from other pages stay.
InvalidateIblockCacheByVpnKeepsLinks(d, vpn) ==
  IF vpn \in d.VpageHash THEN FreeEach(d, d.vpage[vpn].IblockVpnList, Null, FALSE) ELSE d
\* XrInvalidateIblockCacheByVpn and XrInvalidateVpage, in every address space.
InvalidateIblockCacheByVpn(d, vpn) ==
  IF vpn \in d.VpageHash THEN FreeEach(d, d.vpage[vpn].IblockVpnList, Null, TRUE) ELSE d

\* XrInsertIblockInVpage.
InsertIblockInVpage(d, b, pc) ==
  [d EXCEPT !.VpageHash = @ \cup {Vpn(pc)},
            !.vpage[Vpn(pc)] =
              [References |-> IF Vpn(pc) \in d.VpageHash THEN @.References + 1 ELSE 1,
               IblockVpnList |-> <<b>> \o @.IblockVpnList]]
-----------------------------------------------------------------------------
(* Decoding.                                                               *)

\* Fetches do not cross page boundaries.
InstCount(pc) ==
  IF Vpn(pc + BlockInsts - 1) # Vpn(pc) THEN (Vpn(pc) + 1) * PageInsts - pc ELSE BlockInsts

\* The instructions from pc up to a control transfer or the end of the fetch, of a page
\* that holds code.
Decoded(code, pc) ==
  LET ends == {i \in 0 .. (InstCount(pc) - 1) : Code[code, pc + i].op # "plain"}
      last == IF ends = {} THEN InstCount(pc) - 1 ELSE Min(ends)
  IN  [i \in 1 .. (last + 1) |-> Code[code, pc + i - 1]]

\* Where control may go from pc: the kernel's code stays in its pages.
Reach(pc) == {q \in Pcs : Vpn(pc) \in Kernel => Vpn(q) \in Kernel}
ASSUME CodeAssumption ==
  /\ Vector \in Pcs /\ Vpn(Vector) \in Kernel
  /\ \A code \in Images, pc \in Pcs :
       LET insts == Decoded(code, pc)
           last == Last(insts)
       IN  /\ last.op \in {"plain", "branch", "jump", "jalr"}
           /\ last.op \in {"plain", "branch"} => pc + Len(insts) \in Reach(pc)
           /\ last.op \in {"branch", "jump"} => last.target \in Reach(pc)
           /\ last.op = "jalr" => last.targets \subseteq Reach(pc)

\* XrAllocateIblock and the initialization of the block for pc.
NewIblock(d, hazard, pc) ==
  LET e == IF d.IblockFreeList = <<>> THEN PopulateIblockList(d, hazard) ELSE d
      b == e.IblockFreeList[1]
      f == [e EXCEPT !.IblockFreeList = Tail(@), !.IblockLruList = <<b>> \o @,
                     !.iblock[b] = [NoBlock EXCEPT !.Pc = pc, !.Asid = asid,
                                      !.Insts = Decoded(image[asid][Vpn(pc)], pc),
                                      !.PteKernel = Vpn(pc) \in Kernel]]
  IN  InsertIblockInVpage(f, b, pc)

\* XrLookupIblock.
Lookup(d, pc) == {b \in Active(d) : d.iblock[b].Pc = pc /\ d.iblock[b].Asid = asid}

\* XrVectorException.
Except == Pc' = Vector /\ user' = FALSE /\ block' = Null

\* XrDecodeInstructions at pc finds, or fetches, a block that the mode may execute.
Allowed(pc) == ~(user /\ Vpn(pc) \in Kernel)

\* The check on a cached block, or by the translation.
MayExecute(d, pc) ==
  IF Lookup(d, pc) # {} THEN \A b \in Lookup(d, pc) : ~(user /\ d.iblock[b].PteKernel)
  ELSE Allowed(pc)

\* XrDecodeInstructions(proc, hazard) and then to the block.  Either the link at place
\* is made, or there is none to make (place = Null).
Enter(d, hazard, pc, place) ==
  /\ UNCHANGED <<asid, image>>
  /\ IF MayExecute(d, pc)
     THEN LET cached == Lookup(d, pc)
              e == IF cached # {} THEN d ELSE NewIblock(d, hazard, pc)
              b == IF cached # {} THEN CHOOSE x \in cached : TRUE ELSE e.IblockLruList[1]
          IN  /\ c' = IF place = Null THEN e ELSE CreateCachedPointer(e, b, place)
              /\ block' \in {b} \cup (IF place = Null THEN {} ELSE {Null})
              /\ Pc' = pc /\ user' = user
     ELSE c' = d /\ Except

\* XR_DISPATCH: every 32nd time the chain of blocks returns to XrExecuteFast.
Dispatch(d, pc, to) ==
  /\ c' = d /\ Pc' = pc /\ block' \in {to, Null}
  /\ UNCHANGED <<asid, user, image>>
-----------------------------------------------------------------------------
(* A processor executes.                                                   *)

\* XrCheckConditions.
CheckConditions == block = Null /\ Enter(c, Null, Pc, Null)

Insts(b) == c.iblock[b].Insts
FallThrough(b) == c.iblock[b].Pc + Len(Insts(b))
\* Control leaves b for pc by place.
Follow(d, pc, place) ==
  IF d.link[place] # Null THEN Dispatch(d, pc, d.link[place])
  ELSE Enter(d, block, pc, place)

\* Where the paths of b lead: a branch, a jump, the special linkage instruction.
PathPc(d, b, path) ==
  LET i == Last(d.iblock[b].Insts) IN
  IF path = PathFalse \/ i.op = "plain" THEN d.iblock[b].Pc + Len(d.iblock[b].Insts)
  ELSE i.target

\* XrExecuteBeq and the other branches, XrExecuteB, J and Jal,
\* XrSpecialLinkageInstruction.
Branch ==
  /\ block # Null /\ Last(Insts(block)).op # "jalr"
  /\ \E path \in (IF Last(Insts(block)).op = "branch" THEN Paths ELSE {PathTrue}) :
       Follow(c, PathPc(c, block, path), Path(block, path))

\* XrExecuteJalr.
Jalr ==
  /\ block # Null /\ Last(Insts(block)).op = "jalr"
  /\ \E pc \in Last(Insts(block)).targets :
       LET d == IF c.iblock[block].HasPtable THEN c ELSE AllocatePtable(c, block)
           t == Table(d, block)
           index == pc % Entries
           to == d.link[Entry(t, index)]
       IN  IF d.PtablePcs[t][index] = pc /\ to # Null THEN Dispatch(d, pc, to)
           ELSE IF MayExecute(d, pc)
                THEN Enter([d EXCEPT !.PtablePcs[t][index] = pc], block, pc, Entry(t, index))
                ELSE Enter(d, block, pc, Entry(t, index))

\* An interrupt between blocks, or an instruction that faults.
Exception == Except /\ UNCHANGED <<c, asid, image>>

InKernel == block # Null /\ ~user

\* XrExecuteRfe: back to a page of the user, or of the kernel.
Rfe ==
  /\ InKernel
  /\ \E pc \in Pcs : Pc' = pc /\ user' = (Vpn(pc) \notin Kernel)
  /\ block' = Null
  /\ UNCHANGED <<c, asid, image>>

\* XrExecuteMtcr to ITBTAG, or to RS for the MMU: the block goes on.
MtcrItbTag ==
  /\ InKernel
  /\ asid' \in Asids
  /\ UNCHANGED <<c, Pc, user, block, image>>

\* XrExecuteMtcr to ICACHECTRL, or to ITBCTRL for many pages, after any change of
\* the user's pages.  The block ends.
MtcrInvalidate ==
  /\ InKernel
  /\ \E new \in [Asids -> [Changing -> Images]] :
       image' = [a \in Asids |-> [v \in Vpns |-> IF v \in Changing THEN new[a][v]
                                                ELSE image[a][v]]]
  /\ c' = InvalidateIblockCache(c)
  /\ Pc' \in Pcs /\ Vpn(Pc') \in Kernel /\ block' = Null
  /\ UNCHANGED <<asid, user>>

\* XrExecuteMtcr to ITBCTRL for one page.
MtcrInvalidatePage ==
  /\ InKernel
  /\ \E v \in Changing :
       /\ \E new \in [Asids -> Images] :
            image' = [a \in Asids |-> [image[a] EXCEPT ![v] = new[a]]]
       /\ c' = InvalidateIblockCacheByVpn(c, v)
  /\ Pc' \in Pcs /\ Vpn(Pc') \in Kernel /\ block' = Null
  /\ UNCHANGED <<asid, user>>

Next == CheckConditions \/ Branch \/ Jalr \/ Exception \/ Rfe
          \/ MtcrItbTag \/ MtcrInvalidate \/ MtcrInvalidatePage

Spec == Init /\ [][Next]_vars
-----------------------------------------------------------------------------
(* What the cache promises.                                                *)

\* The block being executed holds the instructions that a fetch at its address would
\* give now, and the mode may execute them: what is followed without a lookup is what
\* the lookup would have found.
RunsMapped ==
  block # Null =>
    /\ block \in Active(c)
    /\ ~user => c.iblock[block].Pc \in Pcs
    /\ LET pc == c.iblock[block].Pc
       IN  c.iblock[block].Insts = Decoded(image[asid][Vpn(pc)], pc)
    /\ ~(user /\ c.iblock[block].PteKernel)

Owned(d) == {b \in Active(d) : d.iblock[b].HasPtable}

\* The places where block b has links, and where a link there has to lead.
Out(d, b) == IF d.iblock[b].HasPtable THEN {Entry(Table(d, b), i) : i \in Indices}
             ELSE {Path(b, i) : i \in Paths}
PlacePc(d, p) == IF p[1] = "path" THEN PathPc(d, p[2], p[3]) ELSE d.PtablePcs[p[2]][p[3]]

\* A link leads to a block that is in the cache and starts where control would go, and
\* that block knows the place, so that it can cut the link when it is reclaimed.
LinksLead ==
  \A b \in Active(c) : \A p \in Out(c, b) : c.link[p] # Null =>
    /\ c.link[p] \in Active(c)
    /\ c.iblock[c.link[p]].Pc = PlacePc(c, p)
    /\ \E i \in DOMAIN c.iblock[c.link[p]].CachedBy : c.iblock[c.link[p]].CachedBy[i] = p

\* Blocks, prediction tables and Vpages are free or in use by exactly one; a key has
\* one block, a page one Vpage, which lists its blocks and counts them.
ListsAgree ==
  /\ IsInjective(c.IblockFreeList \o c.IblockLruList)
  /\ ToSet(c.IblockFreeList) \cup Active(c) = Blocks
  /\ \A a, b \in Active(c) : a # b => <<c.iblock[a].Pc, c.iblock[a].Asid>>
                                        # <<c.iblock[b].Pc, c.iblock[b].Asid>>
  /\ \A a, b \in Owned(c) : a # b => Table(c, a) # Table(c, b)
  /\ LET used == {Table(c, b) : b \in Owned(c)}
     IN  used \subseteq Ptables /\ \E free \in SetToSeqs(Ptables \ used) : FreeTables(c, free)
  /\ \A v \in Vpns :
       LET page == c.vpage[v] IN
       /\ IsInjective(page.IblockVpnList)
       /\ ToSet(page.IblockVpnList) = {b \in Active(c) : Vpn(c.iblock[b].Pc) = v}
       /\ v \in c.VpageHash <=> page.IblockVpnList # <<>>
       /\ v \in c.VpageHash => page.References = Len(page.IblockVpnList)
=============================================================================
