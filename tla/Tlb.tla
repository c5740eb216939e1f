--------------------------------- MODULE Tlb ---------------------------------
(***************************************************************************)
(* Address translation of one processor: the two translation buffers (I    *)
(* for fetches, D for data), in which software enters page table entries   *)
(* after a miss, and what the emulator puts in front of them: for each     *)
(* buffer a hint with the last translation, and in the FASTMEMORY build    *)
(* a cached entry for loads and one for stores in every block of           *)
(* instructions.                                                           *)
(*                                                                         *)
(* A step is one translation, or what software does between two of them.   *)
(* Software is external: one program, whose instructions fetch and then    *)
(* access data; the handler of a miss, which loads the entry from the page *)
(* table, itself mapped (Table maps the pages of the program, Root, which  *)
(* is wired, maps Table), and enters it; the handler of a fault, which     *)
(* maps the page or drops the instruction.  Software that changes the page *)
(* table invalidates what it changed: in the DTB, and in the ITB, where    *)
(* only CodePage is entered beside Root, at least when that page changed.  *)
(* An invalidation in the ITB frees blocks with their cached entries, one  *)
(* in the DTB none.  Handlers run from wired code.                         *)
(***************************************************************************)
EXTENDS Integers

CONSTANTS
  Null,
  Asids,       \* address spaces
  Pages,       \* virtual pages of the program
  CodePage,    \* the one it fetches from
  Table, Root, \* pages of the page table
  Globals,     \* pages entered with PTE_GLOBAL
  TbSize,      \* XR_ITB_SIZE, XR_DTB_SIZE
  Wired,       \* the first index after the wired entries: 4
  Fast         \* builds to follow: TRUE for FASTMEMORY

VARIABLES
  fast,      \* the build
  tb,        \* [Sides -> [0 .. TbSize - 1 -> entries]]: Itb, Dtb
  tag,       \* Cr[ITBTAG], Cr[DTBTAG]
  index,     \* Cr[ITBINDEX], Cr[DTBINDEX]
  hint,      \* ItbLastVpn and ItbLastResult, DtbLastVpn and DtbLastEntry
  iblockTb,  \* DtbLoadCache and DtbStoreCache of the block of CodePage
  rs,        \* the three modes of Cr[RS]
  cr,        \* the other control registers, and LastTbMissWasWrite
  pc,        \* what runs: the program or a handler
  insn,      \* the program's instruction, and how far it is
  pt         \* the page table

buffers == <<tb, tag, index, hint, iblockTb>>
vars == <<fast, buffers, rs, cr, pc, insn, pt>>

Sides == {"I", "D"}
Vpns == Pages \cup {Table, Root}
KernelPages == {Table, Root}
\* What a page table entry says; the page frame adds nothing that an entry replaced by
\* another does not show.
NotValid == [valid |-> FALSE, writable |-> FALSE]
ReadOnly == [valid |-> TRUE, writable |-> FALSE]
Writable == [valid |-> TRUE, writable |-> TRUE]
Ptes == {NotValid, ReadOnly, Writable}
\* TB_INVALID_ENTRY: no address space that software uses has its tag.
Invalid == [asid |-> Null, vpn |-> Null, pte |-> Null]
NoHint == [vpn |-> Null, tbe |-> Invalid, slot |-> 0]
NoEntry == [tbe |-> Invalid, slot |-> 0]
NewBlock == [k \in {"load", "store"} |-> NoEntry]
\* The page that holds the page table entry of v.
PtePage(v) == IF v \in Pages THEN Table ELSE Root

Done == [stage |-> "done", addr |-> Null, write |-> FALSE]

Init ==
  /\ fast \in Fast
  /\ pt = [a \in Asids |-> [v \in Vpns |->
       IF v = Root THEN Writable ELSE NotValid]]
  /\ tb = [s \in Sides |-> [i \in 0 .. (TbSize - 1) |->
       IF i = 0 THEN [asid |-> CHOOSE a \in Asids : TRUE, vpn |-> Root,
                      pte |-> pt[CHOOSE a \in Asids : TRUE][Root]]
       ELSE Invalid]]
  /\ tag = [s \in Sides |-> [asid |-> CHOOSE a \in Asids : TRUE, vpn |-> Root]]
  /\ index = [s \in Sides |-> Wired]
  /\ hint = [s \in Sides |-> NoHint]
  /\ iblockTb = NewBlock
  /\ rs = <<[user |-> TRUE, tbmiss |-> FALSE], [user |-> FALSE, tbmiss |-> FALSE],
            [user |-> FALSE, tbmiss |-> FALSE]>>
  /\ cr = [EBADADDR |-> Null, EPC |-> "program", TBMISSADDR |-> Null, TBPC |-> "program",
           ecause |-> "none", LastTbMissWasWrite |-> FALSE]
  /\ pc = "program"
  /\ insn = Done
-----------------------------------------------------------------------------
(* Exceptions.                                                             *)

\* XrPushMode.
PushMode(modes) == <<modes[1], modes[1], modes[2]>>
\* XrVectorException: kernel mode.
Vectored(modes) == [modes EXCEPT ![1].user = FALSE]

\* XrBasicException for a fault at v.
BasicException(v, write) ==
  /\ rs' = Vectored(PushMode(rs))
  /\ cr' = [cr EXCEPT !.EBADADDR = v, !.EPC = pc, !.ecause = IF write THEN "PGW" ELSE "PGF"]
  /\ pc' = "fault"

\* The end of XrLookupItb and XrLookupDtb.  A miss in the handler of a miss leaves the
\* address and program counter of the first one.
TbMiss(s, v, write) ==
  LET first == ~rs[1].tbmiss IN
  /\ rs' = Vectored(IF first THEN [PushMode(rs) EXCEPT ![1].tbmiss = TRUE] ELSE rs)
  /\ cr' = [cr EXCEPT !.LastTbMissWasWrite = write,
                      !.TBMISSADDR = IF first THEN v ELSE @,
                      !.TBPC = IF first THEN pc ELSE @]
  /\ tag' = [tag EXCEPT ![s].vpn = v]
  /\ pc' = s

\* Mutation: the fault is reported where it happened.
PageFaultReportsHandler(v, write) == BasicException(v, write)
\* XrPageFault.  In the handler of a miss it is the fault of the instruction that missed.
PageFault(v, write) ==
  IF rs[1].tbmiss
  THEN /\ rs' = Vectored([rs EXCEPT ![1].tbmiss = FALSE])
       /\ cr' = [cr EXCEPT !.EBADADDR = cr.TBMISSADDR, !.EPC = cr.TBPC,
                           !.ecause = IF cr.LastTbMissWasWrite THEN "PGW" ELSE "PGF"]
       /\ pc' = "fault"
  ELSE BasicException(v, write)

\* XrExecuteRfe.
Rfe ==
  /\ pc' = IF rs[1].tbmiss THEN cr.TBPC ELSE cr.EPC
  /\ rs' = <<rs[2], rs[3], [user |-> FALSE, tbmiss |-> FALSE]>>
-----------------------------------------------------------------------------
(* Translation.                                                            *)

Matches(s, e, v) == e.vpn = v /\ (e.asid = tag[s].asid \/ e.vpn \in Globals)
\* XrLookupItb, XrLookupDtb: the slots that match.
Found(s, v) == {i \in 0 .. (TbSize - 1) : Matches(s, tb[s][i], v)}
Least(S) == CHOOSE i \in S : \A j \in S : i <= j

\* The translation of v: that of the hint, or a lookup.
FromHint(s, v) == hint[s].vpn = v
Tbe(s, v) == IF FromHint(s, v) THEN hint[s].tbe ELSE tb[s][Least(Found(s, v))]
Slot(s, v) == IF FromHint(s, v) THEN hint[s].slot ELSE Least(Found(s, v))

\* XrTranslate, XrTranslateIstream, XrTranslateDstream; then is what follows when it succeeds.
Translate(s, v, write, then) ==
  IF ~FromHint(s, v) /\ Found(s, v) = {}
  THEN TbMiss(s, v, write) /\ UNCHANGED <<fast, tb, index, hint, iblockTb, insn, pt>>
  ELSE LET tbe == Tbe(s, v) IN
       IF ~tbe.pte.valid
       THEN PageFault(v, write) /\ UNCHANGED <<fast, buffers, insn, pt>>
       ELSE IF (v \in KernelPages /\ rs[1].user) \/ (write /\ ~tbe.pte.writable)
       THEN BasicException(v, write) /\ UNCHANGED <<fast, buffers, insn, pt>>
       ELSE /\ hint' = [hint EXCEPT ![s] = [vpn |-> v, tbe |-> tbe, slot |-> Slot(s, v)]]
            /\ then
            /\ UNCHANGED <<fast, tb, tag, index, cr, pt>>

\* The instruction is there: the first time it shows what it is to access, and how.
Decoded ==
  \/ /\ insn.addr = Null
     /\ \E v \in Pages \cup {Table}, w \in BOOLEAN :
          insn' = [stage |-> "data", addr |-> v, write |-> w]
  \/ /\ insn.addr # Null
     /\ insn' = [insn EXCEPT !.stage = "data"]

Fetch ==
  /\ pc = "program" /\ insn.stage = "fetch"
  /\ Translate("I", CodePage, FALSE, Decoded /\ UNCHANGED <<iblockTb, rs, pc>>)

Kind == IF insn.write THEN "store" ELSE "load"
\* Mutation: the entry is not compared with the DTB.
IblockEntryHitsAlone(k, v) ==
  /\ fast /\ iblockTb[k].tbe.vpn = v /\ iblockTb[k].tbe.asid = tag["D"].asid
  /\ k = "store" => iblockTb[k].tbe.pte.writable
\* The cached entry of the block, in XrAccessRead and XrAccessWrite.
IblockEntryHits(k, v) ==
  /\ fast /\ iblockTb[k].tbe.vpn = v /\ iblockTb[k].tbe.asid = tag["D"].asid
  /\ tb["D"][iblockTb[k].slot] = iblockTb[k].tbe
  /\ k = "store" => iblockTb[k].tbe.pte.writable

\* XrAccessRead, XrAccessWrite; XrAccess.
Access ==
  /\ pc = "program" /\ insn.stage = "data"
  /\ LET v == insn.addr
         done == insn' = Done /\ UNCHANGED <<rs, pc>>
     IN  IF IblockEntryHits(Kind, v) THEN done /\ UNCHANGED <<fast, buffers, cr, pt>>
         ELSE Translate("D", v, insn.write,
                done /\ iblockTb' = IF fast
                  THEN [iblockTb EXCEPT ![Kind] = [tbe |-> Tbe("D", v), slot |-> Slot("D", v)]]
                  ELSE iblockTb)
-----------------------------------------------------------------------------
(* The handler of a miss.                                                  *)

\* XrExecuteMtcr to ITBPTE or DTBPTE.
EnterPte(s, pte) ==
  /\ tb' = [tb EXCEPT ![s][index[s]] = [asid |-> tag[s].asid, vpn |-> tag[s].vpn, pte |-> pte]]
  /\ index' = [index EXCEPT ![s] = IF @ + 1 = TbSize THEN Wired ELSE @ + 1]

\* It loads the entry at ITBADDR or DTBADDR, enters it and returns.
MissHandler(s) ==
  /\ pc = s
  /\ LET v == PtePage(tag[s].vpn) IN
     IF ~FromHint("D", v) /\ Found("D", v) = {}
     THEN TbMiss("D", v, FALSE) /\ UNCHANGED <<fast, tb, index, hint, iblockTb, insn, pt>>
     ELSE IF ~Tbe("D", v).pte.valid
     THEN PageFault(v, FALSE) /\ UNCHANGED <<fast, buffers, insn, pt>>
     ELSE /\ hint' = [hint EXCEPT !["D"] = [vpn |-> v, tbe |-> Tbe("D", v), slot |-> Slot("D", v)]]
          /\ EnterPte(s, pt[tag[s].asid][tag[s].vpn])
          /\ Rfe
          /\ cr' = [cr EXCEPT !.TBMISSADDR = Null, !.LastTbMissWasWrite = FALSE]
          /\ UNCHANGED <<fast, tag, iblockTb, insn, pt>>
-----------------------------------------------------------------------------
(* Invalidation.                                                           *)

Purge(s, gone(_)) ==
  [i \in 0 .. (TbSize - 1) |-> IF gone(i) THEN Invalid ELSE tb[s][i]]

\* Mutation: only the hint for the page goes.
CtrlPageKeepsEntries(s, v) ==
  [tb |-> tb[s], hint |-> IF hint[s].vpn = v THEN NoHint ELSE hint[s],
   iblockTb |-> IF s = "I" /\ v = CodePage THEN NewBlock ELSE iblockTb]
\* XrExecuteMtcr to ITBCTRL or DTBCTRL for one page: in every address space.  ITBCTRL frees
\* the blocks in the page.
CtrlPage(s, v) ==
  [tb |-> Purge(s, LAMBDA i : tb[s][i].vpn = v),
   hint |-> IF hint[s].vpn = v THEN NoHint ELSE hint[s],
   iblockTb |-> IF s = "I" /\ v = CodePage THEN NewBlock ELSE iblockTb]

\* To ITBCTRL or DTBCTRL for all entries (3), all but the wired (1), and all but these
\* and the global ones (2).  ITBCTRL frees all blocks.
CtrlAll(s, how) ==
  [tb |-> Purge(s, LAMBDA i :
     /\ how # 3 => i >= Wired
     /\ how = 2 => tb[s][i].vpn \notin Globals),
   hint |-> NoHint,
   iblockTb |-> IF s = "I" THEN NewBlock ELSE iblockTb]

\* Software writes control registers: ctrl says, for each buffer it writes to, what follows.
Invalidate(ctrl) ==
  /\ tb' = [s \in Sides |-> IF s \in DOMAIN ctrl THEN ctrl[s].tb ELSE tb[s]]
  /\ hint' = [s \in Sides |-> IF s \in DOMAIN ctrl THEN ctrl[s].hint ELSE hint[s]]
  /\ iblockTb' = IF "I" \in DOMAIN ctrl THEN ctrl["I"].iblockTb ELSE iblockTb

\* Software changes its page table: one page, for which it invalidates that page; or any
\* that the invalidation reaches.  Globals are the same in all address spaces.
Consistent(table) ==
  \A a, b \in Asids : \A v \in Globals : table[a][v] = table[b][v]
Changed(table) == {v \in Vpns : \E a \in Asids : table[a][v] # pt[a][v]}

Remap(table) ==
  /\ Consistent(table) /\ Root \notin Changed(table)
  /\ pt' = table
  /\ \E S \in {{"D"}, Sides} :
       /\ CodePage \in Changed(table) => S = Sides
       /\ \/ \E v \in Vpns :
                /\ Changed(table) = {v}
                /\ Invalidate([s \in S |-> CtrlPage(s, v)])
          \/ /\ Changed(table) # {}
             /\ \E how \in {1, 2} :
                  /\ how = 2 => Changed(table) \cap Globals = {}
                  /\ Invalidate([s \in S |-> CtrlAll(s, how)])

\* The program starts an instruction.
Start ==
  /\ pc = "program" /\ insn.stage = "done"
  /\ insn' = [stage |-> "fetch", addr |-> Null, write |-> FALSE]
  /\ UNCHANGED <<fast, buffers, rs, cr, pc, pt>>

\* The kernel, in between.
Kernel ==
  /\ pc = "program" /\ insn.stage = "done"
  /\ \E a \in Asids, v \in Pages \cup {Table}, pte \in Ptes :
       /\ v \notin Globals => pte # ReadOnly
       /\ Remap([b \in Asids |-> IF b = a \/ v \in Globals THEN [pt[b] EXCEPT ![v] = pte] ELSE pt[b]])
  /\ UNCHANGED <<fast, tag, index, rs, cr, pc, insn>>

\* XrExecuteMtcr to ITBTAG and DTBTAG.
WriteTag(a) ==
  /\ tag' = [s \in Sides |-> [tag[s] EXCEPT !.asid = a]]
  /\ hint' = [s \in Sides |-> NoHint]

SwitchAsid ==
  /\ pc = "program" /\ insn.stage = "done"
  /\ \E a \in Asids \ {tag["D"].asid} : WriteTag(a)
  /\ UNCHANGED <<fast, tb, index, iblockTb, rs, cr, pc, insn, pt>>

\* The handler of a fault maps the page, and Table for it, and returns; an access to a page
\* of the kernel is dropped.
FaultHandler ==
  /\ pc = "fault"
  /\ Rfe
  /\ LET a == tag["D"].asid
         v == cr.EBADADDR
         ok == v \in Pages
     IN  IF ok
         THEN /\ Remap([b \in Asids |->
                   IF b = a THEN [pt[b] EXCEPT ![v] = Writable, ![Table] = Writable]
                   ELSE IF v \in Globals THEN [pt[b] EXCEPT ![v] = Writable] ELSE pt[b]])
              /\ insn' = [insn EXCEPT !.stage = "fetch"]
         ELSE insn' = Done /\ UNCHANGED <<tb, hint, iblockTb, pt>>
  /\ cr' = [cr EXCEPT !.EBADADDR = Null, !.ecause = "none", !.TBMISSADDR = Null,
                      !.LastTbMissWasWrite = FALSE]
  /\ UNCHANGED <<fast, tag, index>>

Step == Fetch \/ Access \/ FaultHandler \/ \E s \in Sides : MissHandler(s)
Next == Step \/ Start \/ Kernel \/ SwitchAsid

Spec == Init /\ [][Next]_vars /\ WF_vars(Step)
-----------------------------------------------------------------------------
\* Every entry of a buffer, the hint and the cached entries that would be used are what
\* the page table says: no translation outlives its invalidation.
TranslationCurrent ==
  /\ \A s \in Sides, i \in 0 .. (TbSize - 1) :
       tb[s][i] # Invalid => tb[s][i].pte = pt[tb[s][i].asid][tb[s][i].vpn]
  /\ \A s \in Sides : hint[s].vpn # Null =>
       hint[s].tbe.pte = pt[tag[s].asid][hint[s].vpn]
  /\ \A k \in DOMAIN iblockTb, v \in Vpns : IblockEntryHits(k, v) =>
       iblockTb[k].tbe.pte = pt[tag["D"].asid][v]

\* The page the instruction is at.
Current == IF insn.stage = "fetch" THEN CodePage ELSE insn.addr
\* A fault is reported to software as one of the program's instruction: its address, its
\* kind of access, its mode to return to.
FaultReported ==
  pc = "fault" =>
    /\ cr.EBADADDR = Current /\ cr.EPC = "program"
    /\ cr.ecause = (IF insn.stage = "data" /\ insn.write THEN "PGW" ELSE "PGF")
    /\ rs[2] = [user |-> TRUE, tbmiss |-> FALSE] /\ ~rs[1].tbmiss

\* An instruction gets through, however often it misses and faults on the way.
AccessEnds == []<>(insn.stage = "done")
=============================================================================
