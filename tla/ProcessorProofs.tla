--------------------------- MODULE ProcessorProofs ---------------------------
(***************************************************************************)
(* What is proved of a processor, for every number of pages, registers,    *)
(* entries of the buffers and slots of a block.                            *)
(*                                                                         *)
(* Translation (TranslationInv).  Each entry of a buffer and each hint is  *)
(* what the page table says; that is kept because an invalidation reaches  *)
(* every copy of what changed but the wired ones, and Root, which is wired *)
(* in the first entry, does not change: with it the handler of a miss      *)
(* always finds the page of the page table's own entry, so it can miss     *)
(* itself only once.  An invalidation in the DTB alone leaves nothing old  *)
(* in the ITB, which holds only CodePage and Root (CodeOnly); a block's    *)
(* cached entry may be old, but is then no longer the one in its slot of   *)
(* the DTB and is not used.  What the handler then knows of the program's  *)
(* access decides what a fault reports.                                    *)
(*                                                                         *)
(* Instructions (InstructionsInv).  The entries that are left of the       *)
(* instruction under way are those the decoder made, with their operands   *)
(* in registers that nothing has written since; each step is then one of   *)
(* the architecture, or changes nothing that software sees.  There is room *)
(* for two entries whenever an instruction is decoded.                     *)
(***************************************************************************)
EXTENDS Processor, Sequences, TLAPS, WellFoundedInduction

-----------------------------------------------------------------------------
(* The translation buffers.                                                *)

Slots == 0 .. (TbSize - 1)
Entries == [asid : Asids, vpn : T!Vpns, pte : T!Ptes] \cup {T!Invalid}

\* The types of the translation buffers and of the page table.
BuffersTyped ==
  /\ tb \in [T!Sides -> [Slots -> Entries]]
  /\ tag \in [T!Sides -> [asid : Asids, vpn : T!Vpns]]
  /\ index \in [T!Sides -> Wired .. (TbSize - 1)]
  /\ hint \in [T!Sides -> [vpn : T!Vpns \cup {None}, tbe : Entries, slot : Slots]]
  /\ iblockTb \in [{"load", "store"} -> [tbe : Entries, slot : Slots]]
  /\ pt \in [Asids -> [T!Vpns -> T!Ptes]]

\* What software keeps to: the pages of all address spaces are the same in all of them, and
\* Root is mapped.
TableOK == T!Consistent(pt) /\ \A a \in Asids : pt[a][Root] = T!Writable

\* The first entry is that of Root, and no other is among the wired ones.
WiredKept ==
  \A s \in T!Sides :
    /\ tb[s][0].vpn = Root
    /\ \A i \in 0 .. (Wired - 1) : tb[s][i].vpn \in {Root, None}

EntryCurrent(s, i) == tb[s][i] # T!Invalid => tb[s][i].pte = pt[tb[s][i].asid][tb[s][i].vpn]
HintCurrent(s) == hint[s].vpn # None => hint[s].tbe.pte = pt[tag[s].asid][hint[s].vpn]

\* The buffer of fetches holds no page but the program's CodePage and Root: a change of any
\* other that invalidates in the DTB alone leaves nothing old in it.
CodePages == {CodePage, Root, None}
CodeOnly ==
  /\ tag["I"].vpn \in CodePages /\ hint["I"].vpn \in CodePages
  /\ \A i \in Slots : tb["I"][i].vpn \in CodePages

BuffersInv ==
  /\ BuffersTyped /\ TableOK /\ WiredKept /\ CodeOnly
  /\ \A s \in T!Sides : HintCurrent(s) /\ \A i \in Slots : EntryCurrent(s, i)

\* The pages, and the address spaces, are not None.
LEMMA PagesApart ==
  /\ None \notin T!Vpns /\ None \notin Asids /\ Root \in T!Vpns /\ Table \in T!Vpns
  /\ Pages \subseteq T!Vpns /\ CodePage \in Pages /\ Root # Table /\ Root \notin Pages
  /\ 0 \in Slots /\ Wired \in Slots /\ Wired \in Nat \ {0} /\ TbSize \in Nat
  /\ Root \in Globals
BY TlbAssumption DEF T!Vpns, Slots

\* The first slot that matches is one of them.
LEMMA LeastFound ==
  ASSUME NEW S \in SUBSET Slots, S # {}
  PROVE  T!Least(S) \in S
<1> DEFINE Less == {ss \in Nat \X Nat : ss[1] < ss[2]}
<1>1. Less = OpToRel(<, Nat)
  BY Zenon DEF OpToRel
<1>2. IsWellFoundedOn(Less, Nat) /\ S \subseteq Nat
  <2>1. S \subseteq Nat
    BY PagesApart DEF Slots
  <2> QED BY <1>1, <2>1, NatLessThanWellFounded, Zenon
<1>3. PICK n \in S : \A m \in S : <<m, n>> \notin Less
  <2> HIDE DEF Less
  <2> QED BY <1>2, WFMin
<1>4. \A m \in S : ~(m < n)
  BY <1>2, <1>3
<1>5. \A m \in S : n <= m
  BY <1>2, <1>4
<1> QED BY <1>3, <1>5 DEF T!Least

\* A translation that is found, by the hint or by a lookup, is what the page table says.
LEMMA TbeCurrent ==
  ASSUME BuffersInv, NEW s \in T!Sides, NEW v \in T!Vpns,
         T!FromHint(s, v) \/ T!Found(s, v) # {}
  PROVE  /\ T!Tbe(s, v) \in Entries /\ T!Slot(s, v) \in Slots
         /\ T!Tbe(s, v).pte = pt[tag[s].asid][v]
<1>1. CASE T!FromHint(s, v)
  BY <1>1, PagesApart DEF BuffersInv, BuffersTyped, HintCurrent, T!FromHint, T!Tbe, T!Slot
<1>2. CASE ~T!FromHint(s, v)
  <2> DEFINE S == T!Found(s, v)
  <2>1. S \subseteq Slots /\ S # {}
    BY <1>2 DEF T!Found, Slots
  <2>2. PICK i : i = T!Least(S) /\ i \in S
    BY <2>1, LeastFound
  <2>3. i \in Slots /\ T!Matches(s, tb[s][i], v)
    BY <2>1, <2>2 DEF T!Found
  <2>4. T!Tbe(s, v) = tb[s][i] /\ T!Slot(s, v) = i
    BY <1>2, <2>2 DEF T!Tbe, T!Slot
  <2>5. PICK e : e = tb[s][i] /\ e \in Entries /\ e.vpn = v
    BY <2>3 DEF BuffersInv, BuffersTyped, T!Matches
  <2>6. e # T!Invalid
    BY <2>5, PagesApart DEF T!Invalid
  <2>7. e.pte = pt[e.asid][v] /\ e.asid \in Asids
    BY <2>3, <2>5, <2>6 DEF BuffersInv, EntryCurrent, Entries
  <2>8. tag[s].asid \in Asids
    BY DEF BuffersInv, BuffersTyped
  <2>9. pt[e.asid][v] = pt[tag[s].asid][v]
    <3>1. e.asid = tag[s].asid \/ v \in Globals
      BY <2>3, <2>5 DEF T!Matches
    <3> QED BY <2>7, <2>8, <3>1 DEF BuffersInv, TableOK, T!Consistent
  <2> QED BY <2>3, <2>4, <2>5, <2>7, <2>9
<1> QED BY <1>1, <1>2

\* What an invalidation leaves in a buffer and in its hint, when the pages of gone change.
Purged(s, entries, last, gone) ==
  /\ entries \in [Slots -> Entries] /\ entries[0] = tb[s][0]
  /\ \A i \in Slots :
       entries[i] = T!Invalid \/ (entries[i] = tb[s][i] /\ tb[s][i].vpn \notin gone)
  /\ last \in [vpn : T!Vpns \cup {None}, tbe : Entries, slot : Slots]
  /\ last = T!NoHint \/ (last = hint[s] /\ hint[s].vpn \notin gone)

\* What the lemmas on invalidations need of a buffer.
LEMMA BufferOf ==
  ASSUME BuffersInv, NEW s \in T!Sides
  PROVE  /\ tb[s][0].vpn = Root /\ tb[s] \in [Slots -> Entries]
         /\ \A i \in Slots : i < Wired => tb[s][i].vpn \in {Root, None}
         /\ hint[s] \in [vpn : T!Vpns \cup {None}, tbe : Entries, slot : Slots]
         /\ T!Invalid \in Entries
         /\ T!NoHint \in [vpn : T!Vpns \cup {None}, tbe : Entries, slot : Slots]
<1>1. /\ tb[s][0].vpn = Root /\ tb[s] \in [Slots -> Entries]
      /\ \A i \in Slots : i < Wired => tb[s][i].vpn \in {Root, None}
      /\ hint[s] \in [vpn : T!Vpns \cup {None}, tbe : Entries, slot : Slots]
  BY PagesApart DEF BuffersInv, BuffersTyped, WiredKept, Slots
<1>2. /\ T!Invalid \in Entries
      /\ T!NoHint \in [vpn : T!Vpns \cup {None}, tbe : Entries, slot : Slots]
  BY PagesApart DEF Entries, T!NoHint
<1> QED BY <1>1, <1>2

\* An invalidation of one page leaves nothing of it.
LEMMA PagePurged ==
  ASSUME BuffersInv, NEW s \in T!Sides, NEW v \in T!Vpns, v # Root
  PROVE  Purged(s, T!CtrlPage(s, v).tb, T!CtrlPage(s, v).hint, {v})
<1>a. PICK entries : entries = T!CtrlPage(s, v).tb
  OBVIOUS
<1>b. PICK last : last = T!CtrlPage(s, v).hint
  OBVIOUS
<1>1. entries = [i \in Slots |-> IF tb[s][i].vpn = v THEN T!Invalid ELSE tb[s][i]]
  BY <1>a DEF T!CtrlPage, T!Purge, Slots
<1>2. last = IF hint[s].vpn = v THEN T!NoHint ELSE hint[s]
  BY <1>b DEF T!CtrlPage
<1>3. /\ entries \in [Slots -> Entries] /\ entries[0] = tb[s][0]
      /\ \A i \in Slots :
           entries[i] = T!Invalid \/ (entries[i] = tb[s][i] /\ tb[s][i].vpn \notin {v})
  BY <1>1, BufferOf, PagesApart
<1>4. /\ last \in [vpn : T!Vpns \cup {None}, tbe : Entries, slot : Slots]
      /\ last = T!NoHint \/ (last = hint[s] /\ hint[s].vpn \notin {v})
  BY <1>2, BufferOf
<1> QED BY <1>3, <1>4, <1>a, <1>b DEF Purged

\* One of all entries, wired and global ones excepted, leaves nothing that changes.
LEMMA AllPurged ==
  ASSUME BuffersInv, NEW s \in T!Sides, NEW how \in {1, 2}, NEW gone,
         Root \notin gone, None \notin gone, how = 2 => gone \cap Globals = {}
  PROVE  Purged(s, T!CtrlAll(s, how).tb, T!CtrlAll(s, how).hint, gone)
<1>a. PICK entries : entries = T!CtrlAll(s, how).tb
  OBVIOUS
<1> DEFINE Gone(i) == i >= Wired /\ (how = 2 => tb[s][i].vpn \notin Globals)
<1>1. entries = [i \in Slots |-> IF Gone(i) THEN T!Invalid ELSE tb[s][i]]
  BY <1>a DEF T!CtrlAll, T!Purge, Slots
<1>2. \A i \in Slots : ~Gone(i) => tb[s][i].vpn \notin gone
  <2>1. \A i \in Slots : ~Gone(i) =>
          i < Wired \/ (how = 2 /\ tb[s][i].vpn \in Globals)
    BY PagesApart DEF Slots
  <2> HIDE DEF Gone
  <2> QED BY <2>1, BufferOf
<1>3. ~Gone(0)
  BY PagesApart
<1> HIDE DEF Gone
<1>4. entries \in [Slots -> Entries]
  BY <1>1, BufferOf
<1>5. T!CtrlAll(s, how).hint = T!NoHint
  BY DEF T!CtrlAll
<1> QED BY <1>1, <1>2, <1>3, <1>4, <1>5, <1>a, BufferOf, PagesApart DEF Purged

\* The entries that are left, and what is not in Changed, stay as they are.
LEMMA Remapped ==
  ASSUME BuffersInv, NEW table \in [Asids -> [T!Vpns -> T!Ptes]], T!Remap(table),
         UNCHANGED <<tag, index>>
  PROVE  BuffersInv'
<1>1. /\ pt' = table /\ T!Consistent(table)
      /\ Root \notin T!Changed(table) /\ None \notin T!Changed(table)
  BY PagesApart DEF T!Remap, T!Changed
<1>2. \A a \in Asids : \A v \in T!Vpns : v \notin T!Changed(table) => pt'[a][v] = pt[a][v]
  BY <1>1 DEF T!Changed
<1>a. PICK gone : gone = T!Changed(table)
  OBVIOUS
\* The buffers that are invalidated, and how: of one page, or of all.
<1>b. PICK S \in {{"D"}, T!Sides} :
        /\ CodePage \in gone => S = T!Sides
        /\ \/ \E v \in T!Vpns : gone = {v} /\ T!Invalidate([s \in S |-> T!CtrlPage(s, v)])
           \/ \E how \in {1, 2} :
                 /\ how = 2 => gone \cap Globals = {}
                 /\ T!Invalidate([s \in S |-> T!CtrlAll(s, how)])
  BY <1>a DEF T!Remap
<1>c. /\ tb' = [s \in T!Sides |-> tb'[s]] /\ hint' = [s \in T!Sides |-> hint'[s]]
      /\ iblockTb' \in {iblockTb, T!NewBlock}
      /\ \A s \in T!Sides \ S : tb'[s] = tb[s] /\ hint'[s] = hint[s]
      /\ \A s \in S : Purged(s, tb'[s], hint'[s], gone)
  <2>1. CASE \E v \in T!Vpns : gone = {v} /\ T!Invalidate([s \in S |-> T!CtrlPage(s, v)])
    <3>1. PICK v \in T!Vpns : gone = {v} /\ T!Invalidate([s \in S |-> T!CtrlPage(s, v)])
      BY <2>1
    <3>2. /\ tb' = [s \in T!Sides |-> IF s \in S THEN T!CtrlPage(s, v).tb ELSE tb[s]]
          /\ hint' = [s \in T!Sides |-> IF s \in S THEN T!CtrlPage(s, v).hint ELSE hint[s]]
          /\ iblockTb' \in {iblockTb, T!CtrlPage("I", v).iblockTb}
      BY <3>1 DEF T!Invalidate
    <3>3. T!CtrlPage("I", v).iblockTb \in {iblockTb, T!NewBlock}
      BY DEF T!CtrlPage
    <3>4. \A s \in S : s \in T!Sides /\ Purged(s, T!CtrlPage(s, v).tb, T!CtrlPage(s, v).hint, gone)
      BY <1>1, <1>a, <3>1, PagePurged DEF T!Sides
    <3> QED BY <3>2, <3>3, <3>4
  <2>2. CASE \E how \in {1, 2} :
               /\ how = 2 => gone \cap Globals = {}
               /\ T!Invalidate([s \in S |-> T!CtrlAll(s, how)])
    <3>1. PICK how \in {1, 2} :
            /\ how = 2 => gone \cap Globals = {}
            /\ T!Invalidate([s \in S |-> T!CtrlAll(s, how)])
      BY <2>2
    <3>2. /\ tb' = [s \in T!Sides |-> IF s \in S THEN T!CtrlAll(s, how).tb ELSE tb[s]]
          /\ hint' = [s \in T!Sides |-> IF s \in S THEN T!CtrlAll(s, how).hint ELSE hint[s]]
          /\ iblockTb' \in {iblockTb, T!CtrlAll("I", how).iblockTb}
      BY <3>1 DEF T!Invalidate
    <3>3. T!CtrlAll("I", how).iblockTb \in {iblockTb, T!NewBlock}
      BY DEF T!CtrlAll
    <3>4. \A s \in S : s \in T!Sides /\ Purged(s, T!CtrlAll(s, how).tb, T!CtrlAll(s, how).hint, gone)
      BY <1>1, <1>a, <3>1, AllPurged DEF T!Sides
    <3> QED BY <3>2, <3>3, <3>4
  <2> QED BY <1>b, <2>1, <2>2
\* A buffer that is not invalidated is that of the fetches, which has no page that changes.
<1>3. \A s \in T!Sides : Purged(s, tb'[s], hint'[s], gone)
  <2>1. ASSUME NEW s \in T!Sides \ S PROVE Purged(s, tb'[s], hint'[s], gone)
    <3>1. s = "I" /\ gone \cap CodePages = {}
      BY <1>1, <1>a, <1>b DEF T!Sides, CodePages
    <3>2. hint["I"].vpn \notin gone /\ \A i \in Slots : tb["I"][i].vpn \notin gone
      BY <3>1 DEF BuffersInv, CodeOnly
    <3> QED BY <1>c, <3>1, <3>2, BufferOf DEF Purged
  <2> QED BY <1>c, <2>1
<1>4. BuffersTyped'
  <2>1. iblockTb' \in [{"load", "store"} -> [tbe : Entries, slot : Slots]]
    BY <1>c, PagesApart DEF T!NewBlock, T!NoEntry, Entries, BuffersInv, BuffersTyped
  <2>2. /\ tag' \in [T!Sides -> [asid : Asids, vpn : T!Vpns]]
        /\ index' \in [T!Sides -> Wired .. (TbSize - 1)]
        /\ pt' \in [Asids -> [T!Vpns -> T!Ptes]]
    BY <1>1 DEF BuffersInv, BuffersTyped
  <2>3. /\ tb' \in [T!Sides -> [Slots -> Entries]]
        /\ hint' \in [T!Sides -> [vpn : T!Vpns \cup {None}, tbe : Entries, slot : Slots]]
    BY <1>3, <1>c DEF Purged
  <2> QED BY <2>1, <2>2, <2>3 DEF BuffersTyped
<1>5. TableOK'
  BY <1>1, <1>2, PagesApart DEF BuffersInv, TableOK, T!Consistent
<1>6. WiredKept' /\ CodeOnly'
  <2>1. T!Invalid.vpn = None /\ T!NoHint.vpn = None
    BY DEF T!Invalid, T!NoHint
  <2>2. ASSUME NEW s \in T!Sides, NEW i \in 0 .. (Wired - 1)
        PROVE  tb'[s][i].vpn \in {Root, None} /\ tb'[s][0].vpn = Root
    <3>1. i \in Slots /\ tb[s][i].vpn \in {Root, None} /\ tb[s][0].vpn = Root
      BY PagesApart DEF BuffersInv, WiredKept, Slots
    <3> QED BY <1>3, <2>1, <3>1 DEF Purged
  <2>3. 0 \in 0 .. (Wired - 1)
    BY PagesApart
  <2>4. WiredKept'
    BY <2>2, <2>3 DEF WiredKept
  <2>5. CodeOnly'
    <3>1. Purged("I", tb'["I"], hint'["I"], gone)
      BY <1>3 DEF T!Sides
    <3>2. CodeOnly
      BY DEF BuffersInv
    <3> QED BY <2>1, <3>1, <3>2 DEF Purged, CodeOnly, CodePages
  <2> QED BY <2>4, <2>5
<1>7. ASSUME NEW s \in T!Sides PROVE HintCurrent(s)'
  <2>1. tag'[s].asid = tag[s].asid /\ tag[s].asid \in Asids /\ hint[s].vpn \in T!Vpns \cup {None}
    BY DEF BuffersInv, BuffersTyped
  <2>2. CASE hint'[s] = T!NoHint
    BY <2>2 DEF T!NoHint, HintCurrent
  <2>3. CASE hint'[s] = hint[s] /\ hint[s].vpn \notin gone
    BY <1>2, <1>a, <2>1, <2>3 DEF BuffersInv, HintCurrent
  <2> QED BY <1>3, <2>2, <2>3 DEF Purged
<1>8. ASSUME NEW s \in T!Sides, NEW i \in Slots PROVE EntryCurrent(s, i)'
  <2>1. CASE tb'[s][i] = T!Invalid
    BY <2>1 DEF EntryCurrent
  <2>2. CASE tb'[s][i] = tb[s][i] /\ tb[s][i].vpn \notin gone
    <3>1. tb[s][i] # T!Invalid => tb[s][i].asid \in Asids /\ tb[s][i].vpn \in T!Vpns
      BY DEF BuffersInv, BuffersTyped, Entries
    <3> QED BY <1>2, <1>a, <2>2, <3>1 DEF BuffersInv, EntryCurrent
  <2> QED BY <1>3, <2>1, <2>2 DEF Purged
<1> QED BY <1>4, <1>5, <1>6, <1>7, <1>8 DEF BuffersInv

\* A miss changes a tag only, to a page.
LEMMA BuffersAtMiss ==
  ASSUME BuffersInv, NEW s \in T!Sides, NEW v \in T!Vpns, s = "I" => v = CodePage,
         NEW write, T!TbMiss(s, v, write),
         UNCHANGED <<tb, index, hint, iblockTb, pt>>
  PROVE  BuffersInv'
<1>1. /\ tag' \in [T!Sides -> [asid : Asids, vpn : T!Vpns]]
      /\ \A t \in T!Sides : tag'[t].asid = tag[t].asid
  <2>1. tag' = [tag EXCEPT ![s].vpn = v] /\ tag \in [T!Sides -> [asid : Asids, vpn : T!Vpns]]
    BY DEF T!TbMiss, BuffersInv, BuffersTyped
  <2> QED BY <2>1
<1>2. /\ BuffersTyped' /\ TableOK' /\ WiredKept'
  BY <1>1 DEF BuffersInv, BuffersTyped, TableOK, T!Consistent, WiredKept
<1>3. \A t \in T!Sides : HintCurrent(t)' /\ \A i \in Slots : EntryCurrent(t, i)'
  BY <1>1 DEF BuffersInv, HintCurrent, EntryCurrent
<1>4. CodeOnly'
  <2>1. tag'["I"].vpn \in {tag["I"].vpn, CodePage}
    BY DEF T!TbMiss, BuffersInv, BuffersTyped, T!Sides
  <2> QED BY <2>1 DEF BuffersInv, CodeOnly, CodePages
<1> QED BY <1>2, <1>3, <1>4 DEF BuffersInv

\* A translation that succeeds is kept in the hint.
LEMMA HintMade ==
  ASSUME BuffersInv, NEW s \in T!Sides, NEW v \in T!Vpns, s = "I" => v = CodePage,
         T!FromHint(s, v) \/ T!Found(s, v) # {},
         hint' = [hint EXCEPT ![s] = [vpn |-> v, tbe |-> T!Tbe(s, v), slot |-> T!Slot(s, v)]],
         UNCHANGED <<tag, pt>>
  PROVE  /\ hint' \in [T!Sides -> [vpn : T!Vpns \cup {None}, tbe : Entries, slot : Slots]]
         /\ hint'["I"].vpn \in CodePages
         /\ \A t \in T!Sides : HintCurrent(t)'
<1>a. PICK e : e = T!Tbe(s, v)
  OBVIOUS
<1>b. PICK n : n = T!Slot(s, v)
  OBVIOUS
<1>1. e \in Entries /\ n \in Slots /\ e.pte = pt[tag[s].asid][v]
  BY <1>a, <1>b, TbeCurrent
<1>2. hint' = [hint EXCEPT ![s] = [vpn |-> v, tbe |-> e, slot |-> n]]
  BY <1>a, <1>b
<1>3. hint \in [T!Sides -> [vpn : T!Vpns \cup {None}, tbe : Entries, slot : Slots]]
  BY DEF BuffersInv, BuffersTyped
<1>4. ASSUME NEW t \in T!Sides PROVE HintCurrent(t)'
  <2>1. CASE t = s
    BY <1>1, <1>2, <1>3, <2>1 DEF HintCurrent
  <2>2. CASE t # s
    BY <1>2, <1>3, <2>2 DEF BuffersInv, HintCurrent
  <2> QED BY <2>1, <2>2
<1>5. hint'["I"].vpn \in CodePages
  <2>1. hint'["I"].vpn \in {hint["I"].vpn, CodePage}
    BY <1>2, <1>3 DEF T!Sides
  <2> QED BY <2>1 DEF BuffersInv, CodeOnly, CodePages
<1> QED BY <1>1, <1>2, <1>3, <1>4, <1>5

\* And by XrAccess in the block.
LEMMA BuffersAtHint ==
  ASSUME BuffersInv, NEW s \in T!Sides, NEW v \in T!Vpns, s = "I" => v = CodePage,
         T!FromHint(s, v) \/ T!Found(s, v) # {},
         hint' = [hint EXCEPT ![s] = [vpn |-> v, tbe |-> T!Tbe(s, v), slot |-> T!Slot(s, v)]],
         iblockTb' \in {iblockTb, [iblockTb EXCEPT ![T!Kind] =
                                     [tbe |-> T!Tbe(s, v), slot |-> T!Slot(s, v)]]},
         UNCHANGED <<tb, tag, index, pt>>
  PROVE  BuffersInv'
<1>a. PICK e : e = T!Tbe(s, v)
  OBVIOUS
<1>b. PICK n : n = T!Slot(s, v)
  OBVIOUS
<1>c. PICK k : k = T!Kind /\ k \in {"load", "store"}
  BY DEF T!Kind
<1>1. e \in Entries /\ n \in Slots
  BY <1>a, <1>b, TbeCurrent
<1>2. iblockTb' \in {iblockTb, [iblockTb EXCEPT ![k] = [tbe |-> e, slot |-> n]]}
  BY <1>a, <1>b, <1>c
<1>3. /\ hint' \in [T!Sides -> [vpn : T!Vpns \cup {None}, tbe : Entries, slot : Slots]]
      /\ hint'["I"].vpn \in CodePages
      /\ \A t \in T!Sides : HintCurrent(t)'
  BY HintMade
<1>4. BuffersTyped'
  <2>1. iblockTb' \in [{"load", "store"} -> [tbe : Entries, slot : Slots]]
    BY <1>1, <1>2, <1>c DEF BuffersInv, BuffersTyped
  <2> QED BY <1>3, <2>1 DEF BuffersInv, BuffersTyped
<1>5. TableOK' /\ WiredKept' /\ CodeOnly'
  BY <1>3 DEF BuffersInv, TableOK, T!Consistent, WiredKept, CodeOnly
<1>6. \A t \in T!Sides : \A i \in Slots : EntryCurrent(t, i)'
  BY DEF BuffersInv, EntryCurrent
<1> QED BY <1>3, <1>4, <1>5, <1>6 DEF BuffersInv

\* XrExecuteMtcr to ITBPTE or DTBPTE enters what the page table says, and not in a wired
\* entry.
LEMMA BuffersAtEntry ==
  ASSUME BuffersInv, NEW s \in T!Sides, T!EnterPte(s, pt[tag[s].asid][tag[s].vpn]),
         hint' \in [T!Sides -> [vpn : T!Vpns \cup {None}, tbe : Entries, slot : Slots]],
         hint'["I"].vpn \in CodePages, \A t \in T!Sides : HintCurrent(t)',
         UNCHANGED <<tag, iblockTb, pt>>
  PROVE  BuffersInv'
<1>a. PICK e : e = [asid |-> tag[s].asid, vpn |-> tag[s].vpn, pte |-> pt[tag[s].asid][tag[s].vpn]]
  OBVIOUS
<1>b. PICK n : n = index[s]
  OBVIOUS
<1>1. /\ tb' = [tb EXCEPT ![s][n] = e]
      /\ index' = [index EXCEPT ![s] = IF n + 1 = TbSize THEN Wired ELSE n + 1]
  <2>1. index \in [T!Sides -> Wired .. (TbSize - 1)]
    BY DEF BuffersInv, BuffersTyped
  <2> QED BY <1>a, <1>b, <2>1 DEF T!EnterPte
<1>2. /\ e \in Entries /\ e.pte = pt[e.asid][e.vpn]
      /\ n \in Slots /\ n \in Wired .. (TbSize - 1)
  BY <1>a, <1>b, PagesApart DEF BuffersInv, BuffersTyped, Entries, Slots
<1>3. \A t \in T!Sides : \A i \in Slots : tb'[t][i] = IF t = s /\ i = n THEN e ELSE tb[t][i]
  BY <1>1, <1>2 DEF BuffersInv, BuffersTyped
<1>4. BuffersTyped'
  <2>1. tb' \in [T!Sides -> [Slots -> Entries]]
    BY <1>1, <1>2 DEF BuffersInv, BuffersTyped
  <2>2. index' \in [T!Sides -> Wired .. (TbSize - 1)]
    <3>1. (IF n + 1 = TbSize THEN Wired ELSE n + 1) \in Wired .. (TbSize - 1)
      BY <1>2, PagesApart DEF Slots
    <3> QED BY <1>1, <3>1 DEF BuffersInv, BuffersTyped
  <2> QED BY <2>1, <2>2 DEF BuffersInv, BuffersTyped
<1>5. WiredKept'
  <2>1. \A i \in Slots : i < Wired => i # n
    BY <1>2, PagesApart DEF Slots
  <2>2. \A t \in T!Sides : \A i \in Slots : i < Wired => tb'[t][i] = tb[t][i]
    BY <1>3, <2>1
  <2> QED BY <2>2, PagesApart DEF BuffersInv, WiredKept, Slots
<1>6. TableOK'
  BY DEF BuffersInv, TableOK, T!Consistent
<1>7. \A t \in T!Sides : \A i \in Slots : EntryCurrent(t, i)'
  BY <1>2, <1>3 DEF BuffersInv, EntryCurrent
<1>8. CodeOnly'
  <2>1. s = "I" => e.vpn \in CodePages
    BY <1>a DEF BuffersInv, CodeOnly
  <2>2. \A i \in Slots : tb'["I"][i].vpn \in CodePages
    BY <1>3, <2>1 DEF BuffersInv, CodeOnly, T!Sides
  <2> QED BY <2>2 DEF BuffersInv, CodeOnly
<1> QED BY <1>4, <1>5, <1>6, <1>7, <1>8 DEF BuffersInv

-----------------------------------------------------------------------------
(* What runs: the program or a handler.                                    *)

Modes == [user : BOOLEAN, tbmiss : BOOLEAN]
Program == [user |-> TRUE, tbmiss |-> FALSE]
Labels == {"program", "I", "D", "fault"}
Instruction == [stage : {"done", "fetch", "data"}, addr : Pages \cup {Table, None}, write : BOOLEAN]
Registered == [EBADADDR : T!Vpns \cup {None}, EPC : Labels, TBMISSADDR : T!Vpns \cup {None},
               TBPC : Labels, ecause : {"none", "PGW", "PGF"}, LastTbMissWasWrite : BOOLEAN]

ControlTyped ==
  /\ rs \in [1 .. 3 -> Modes] /\ pc \in Labels
  /\ insn \in Instruction /\ (insn.stage = "data" => insn.addr # None)
  /\ cr \in Registered

\* The access under way is a store.
Stores == insn.stage = "data" /\ insn.write = TRUE

\* The handler of a miss knows what the program missed; whether that was a store it knows
\* while its own load can fail, which is when the program missed one of its pages.
ControlInv ==
  /\ ControlTyped
  /\ pc = "program" => rs[1] = Program
  /\ pc # "program" => /\ rs[2] = Program /\ rs[1].user = FALSE /\ insn.stage # "done"
                       /\ rs[1].tbmiss = TRUE <=> pc # "fault"
  /\ pc \in T!Sides =>
       /\ cr.TBPC = "program" /\ cr.TBMISSADDR = T!Current
       /\ tag[pc].vpn \in Pages => (cr.LastTbMissWasWrite = TRUE <=> Stores)
  /\ pc = "fault" =>
       /\ cr.EBADADDR = T!Current /\ cr.EPC = "program"
       /\ cr.ecause = (IF Stores THEN "PGW" ELSE "PGF")

TranslationInv == BuffersInv /\ ControlInv

\* The modes on the stack of RS are changed one at a time.
LEMMA ModeStack ==
  ASSUME NEW a, NEW b, NEW d, NEW x
  PROVE  /\ [<<a, b, d>> EXCEPT ![1].user = x] = <<[a EXCEPT !.user = x], b, d>>
         /\ [<<a, b, d>> EXCEPT ![1].tbmiss = x] = <<[a EXCEPT !.tbmiss = x], b, d>>
OBVIOUS

\* A stack of three modes.
LEMMA ThreeModes ==
  ASSUME NEW a \in Modes, NEW b \in Modes, NEW d \in Modes
  PROVE  <<a, b, d>> \in [1 .. 3 -> Modes]
OBVIOUS

\* The fields of a mode.
LEMMA ModeFields ==
  ASSUME NEW u, NEW m, NEW x
  PROVE  /\ [[user |-> u, tbmiss |-> m] EXCEPT !.user = x] = [user |-> x, tbmiss |-> m]
         /\ [[user |-> u, tbmiss |-> m] EXCEPT !.tbmiss = x] = [user |-> u, tbmiss |-> x]
OBVIOUS

\* What the handler of a miss runs in, and that of a fault.
InMiss == [user |-> FALSE, tbmiss |-> TRUE]
InFault == [user |-> FALSE, tbmiss |-> FALSE]

\* They are modes, and what the exceptions make of that of the program.
LEMMA ModesApart ==
  /\ InMiss \in Modes /\ InFault \in Modes /\ Program \in Modes
  /\ [[Program EXCEPT !.tbmiss = TRUE] EXCEPT !.user = FALSE] = InMiss
  /\ [Program EXCEPT !.user = FALSE] = InFault
<1>1. InMiss \in Modes /\ InFault \in Modes /\ Program \in Modes
  BY DEF InMiss, InFault, Program, Modes
<1>2. [[Program EXCEPT !.tbmiss = TRUE] EXCEPT !.user = FALSE] = InMiss
  BY ModeFields, Zenon DEF InMiss, Program
<1>3. [Program EXCEPT !.user = FALSE] = InFault
  <2>1. PICK f : f = FALSE
    OBVIOUS
  <2>2. PICK t : t = TRUE
    OBVIOUS
  <2>3. [[user |-> t, tbmiss |-> f] EXCEPT !.user = f] = [user |-> f, tbmiss |-> f]
    OBVIOUS
  <2> QED BY <2>1, <2>2, <2>3 DEF InFault, Program
<1> QED BY <1>1, <1>2, <1>3

\* The page of the program's access is one that the page table maps.
LEMMA CurrentPage ==
  ASSUME ControlInv, insn.stage # "done"
  PROVE  T!Current \in Pages \cup {Table} /\ T!Current \in T!Vpns
<1>1. insn.stage = "fetch" \/ insn.addr \in Pages \cup {Table}
  BY DEF ControlInv, ControlTyped, Instruction
<1> QED BY <1>1, PagesApart DEF T!Current

\* The program misses: the handler of the miss begins.
LEMMA ProgramMisses ==
  ASSUME TranslationInv, pc = "program", insn.stage # "done", NEW s \in T!Sides,
         s = "I" => T!Current = CodePage,
         NEW write \in BOOLEAN, write = TRUE <=> Stores, T!TbMiss(s, T!Current, write),
         UNCHANGED <<fast, tb, index, hint, iblockTb, insn, pt>>
  PROVE  TranslationInv'
<1>a. PICK v : v = T!Current /\ v \in T!Vpns
  BY CurrentPage DEF TranslationInv
<1>1. BuffersInv'
  BY <1>a, BuffersAtMiss DEF TranslationInv
<1>2. rs \in [1 .. 3 -> Modes] /\ rs[1] = Program /\ pc' = s /\ s \in Labels /\ s \in {"I", "D"}
  BY DEF TranslationInv, ControlInv, ControlTyped, T!TbMiss, T!Sides, Labels
<1>3. /\ rs' \in [1 .. 3 -> Modes]
      /\ rs'[2] = Program /\ rs'[1].user = FALSE /\ rs'[1].tbmiss = TRUE
  <2>a. PICK m : m = rs[1] /\ m = Program
    BY <1>2
  <2>b. PICK n : n = rs[2] /\ n \in Modes
    BY <1>2
  <2>1. rs' = [[<<m, m, n>> EXCEPT ![1].tbmiss = TRUE] EXCEPT ![1].user = FALSE]
    BY <2>a, <2>b DEF T!TbMiss, T!Vectored, T!PushMode, Program
  <2>2. rs' = <<InMiss, m, n>>
    BY <2>1, <2>a, ModeStack, ModesApart
  <2> QED BY <2>2, <2>a, <2>b, ThreeModes, ModesApart DEF InMiss
<1>4. /\ cr' = [cr EXCEPT !.LastTbMissWasWrite = write, !.TBMISSADDR = v, !.TBPC = "program"]
      /\ cr \in Registered
  BY <1>2, <1>a DEF T!TbMiss, Program, TranslationInv, ControlInv, ControlTyped
<1>5. /\ cr' \in Registered
      /\ cr'.TBPC = "program" /\ cr'.TBMISSADDR = v /\ cr'.LastTbMissWasWrite = write
  BY <1>4, <1>a DEF Registered, Labels
<1>6. T!Current' = v /\ (Stores' <=> Stores)
  BY <1>a DEF T!Current, Stores
<1>7. ControlTyped'
  BY <1>2, <1>3, <1>5 DEF TranslationInv, ControlInv, ControlTyped
<1>8. ControlInv'
  BY <1>2, <1>3, <1>5, <1>6, <1>7 DEF ControlInv
<1> QED BY <1>1, <1>8 DEF TranslationInv

\* The program faults: the handler of the fault begins.
LEMMA ProgramFaults ==
  ASSUME TranslationInv, pc = "program", insn.stage # "done",
         NEW write \in BOOLEAN, write = TRUE <=> Stores,
         T!PageFault(T!Current, write) \/ T!BasicException(T!Current, write),
         UNCHANGED <<fast, T!buffers, insn, pt>>
  PROVE  TranslationInv'
<1>a. PICK v : v = T!Current /\ v \in T!Vpns
  BY CurrentPage DEF TranslationInv
<1>1. BuffersInv'
  BY DEF TranslationInv, BuffersInv, BuffersTyped, TableOK, T!Consistent, WiredKept, CodeOnly,
         HintCurrent, EntryCurrent, T!buffers
<1>2. rs \in [1 .. 3 -> Modes] /\ rs[1] = Program /\ cr \in Registered
  BY DEF TranslationInv, ControlInv, ControlTyped
<1>3. T!BasicException(v, write)
  BY <1>2, <1>a DEF T!PageFault, Program
<1>4. /\ rs' \in [1 .. 3 -> Modes]
      /\ rs'[2] = Program /\ rs'[1].user = FALSE /\ rs'[1].tbmiss = FALSE
  <2>a. PICK m : m = rs[1] /\ m = Program
    BY <1>2
  <2>b. PICK n : n = rs[2] /\ n \in Modes
    BY <1>2
  <2>1. rs' = [<<m, m, n>> EXCEPT ![1].user = FALSE]
    BY <1>3, <2>a, <2>b DEF T!BasicException, T!Vectored, T!PushMode
  <2>c. [<<m, m, n>> EXCEPT ![1].user = FALSE] = <<[m EXCEPT !.user = FALSE], m, n>>
    <3>1. PICK f : f = FALSE
      OBVIOUS
    <3>2. [<<m, m, n>> EXCEPT ![1].user = f] = <<[m EXCEPT !.user = f], m, n>>
      OBVIOUS
    <3> QED BY <3>1, <3>2
  <2>2. rs' = <<InFault, m, n>>
    BY <2>1, <2>a, <2>c, ModesApart
  <2> QED BY <2>2, <2>a, <2>b, ThreeModes, ModesApart DEF InFault
<1>5. /\ cr' = [cr EXCEPT !.EBADADDR = v, !.EPC = "program",
                          !.ecause = IF write THEN "PGW" ELSE "PGF"]
      /\ pc' = "fault"
  BY <1>3 DEF T!BasicException
<1>6. /\ cr' \in Registered
      /\ cr'.EBADADDR = v /\ cr'.EPC = "program" /\ cr'.ecause = IF Stores THEN "PGW" ELSE "PGF"
  BY <1>2, <1>5, <1>a DEF Registered, Labels
<1>7. T!Current' = v /\ (Stores' <=> Stores)
  BY <1>a DEF T!Current, Stores
<1>8. ControlTyped'
  BY <1>4, <1>5, <1>6 DEF TranslationInv, ControlInv, ControlTyped, Labels
<1>9. ControlInv'
  BY <1>4, <1>5, <1>6, <1>7, <1>8 DEF ControlInv, T!Sides
<1> QED BY <1>1, <1>9 DEF TranslationInv

\* The instructions that software may be at.
LEMMA InstructionDone == T!Done \in Instruction /\ T!Done.stage = "done"
BY DEF T!Done, Instruction

\* Between two misses the program goes on, with another stage of its instruction or with none.
LEMMA ProgramGoes ==
  ASSUME ControlInv, pc = "program", insn' \in Instruction,
         insn'.stage = "data" => insn'.addr # None, UNCHANGED <<rs, pc, cr>>
  PROVE  ControlInv'
<1>1. ControlTyped'
  BY DEF ControlInv, ControlTyped
<1> QED BY <1>1 DEF ControlInv, T!Sides

\* A fetch, whether it is translated, misses or faults.
LEMMA FetchKeeps ==
  ASSUME TranslationInv, T!Fetch
  PROVE  TranslationInv'
<1>1. /\ pc = "program" /\ insn.stage = "fetch" /\ T!Current = CodePage
      /\ FALSE <=> Stores
  BY DEF T!Fetch, T!Current, Stores
<1>2. "I" \in T!Sides /\ CodePage \in T!Vpns /\ FALSE \in BOOLEAN
  BY PagesApart DEF T!Sides
<1>3. CASE ~T!FromHint("I", CodePage) /\ T!Found("I", CodePage) = {}
  BY <1>1, <1>2, <1>3, ProgramMisses DEF T!Fetch, T!Translate
<1>4. CASE T!FromHint("I", CodePage) \/ T!Found("I", CodePage) # {}
  <2>1. CASE (T!PageFault(CodePage, FALSE) \/ T!BasicException(CodePage, FALSE))
               /\ UNCHANGED <<fast, T!buffers, insn, pt>>
    BY <1>1, <1>2, <2>1, ProgramFaults
  <2>2. CASE /\ hint' = [hint EXCEPT !["I"] = [vpn |-> CodePage, tbe |-> T!Tbe("I", CodePage),
                                               slot |-> T!Slot("I", CodePage)]]
             /\ T!Decoded
             /\ UNCHANGED <<fast, tb, tag, index, cr, pt, iblockTb, rs, pc>>
    <3>1. BuffersInv'
      BY <1>2, <1>4, <2>2, BuffersAtHint DEF TranslationInv
    <3>2. insn' \in Instruction /\ insn'.addr # None
      BY <1>1, <2>2, PagesApart DEF T!Decoded, TranslationInv, ControlInv, ControlTyped, Instruction
    <3> QED BY <1>1, <2>2, <3>1, <3>2, ProgramGoes DEF TranslationInv
  <2> QED BY <1>4, <2>1, <2>2 DEF T!Fetch, T!Translate
<1> QED BY <1>3, <1>4

\* XrAccessRead and XrAccessWrite, through the entry of the block or through Dtb.
LEMMA AccessKeeps ==
  ASSUME TranslationInv, T!Access
  PROVE  TranslationInv'
<1>a. PICK v : v = insn.addr
  OBVIOUS
<1>b. PICK write : write = insn.write /\ write \in BOOLEAN
  BY DEF TranslationInv, ControlInv, ControlTyped, Instruction
<1>1. /\ pc = "program" /\ insn.stage = "data" /\ T!Current = v /\ v \in T!Vpns
      /\ write = TRUE <=> Stores
  <2>1. pc = "program" /\ insn.stage = "data" /\ T!Current = v
    BY <1>a DEF T!Access, T!Current
  <2> QED BY <1>b, <2>1, CurrentPage DEF Stores, TranslationInv
<1>2. "D" \in T!Sides
  BY DEF T!Sides
<1>3. ASSUME insn' = T!Done, UNCHANGED <<rs, pc, cr>> PROVE ControlInv'
  BY <1>1, <1>3, InstructionDone, ProgramGoes DEF TranslationInv
<1>4. CASE T!IblockEntryHits(T!Kind, insn.addr)
  <2>1. insn' = T!Done /\ UNCHANGED <<rs, pc, cr>> /\ UNCHANGED <<T!buffers, pt>>
    BY <1>4 DEF T!Access
  <2>2. BuffersInv'
    BY <2>1 DEF TranslationInv, BuffersInv, BuffersTyped, TableOK, T!Consistent, WiredKept, CodeOnly,
         HintCurrent, EntryCurrent, T!buffers
  <2> QED BY <1>3, <2>1, <2>2 DEF TranslationInv
<1>5. CASE ~T!IblockEntryHits(T!Kind, insn.addr)
  <2>1. CASE ~T!FromHint("D", v) /\ T!Found("D", v) = {}
    <3>1. T!TbMiss("D", v, write) /\ UNCHANGED <<fast, tb, index, hint, iblockTb, insn, pt>>
      BY <1>5, <1>a, <1>b, <2>1 DEF T!Access, T!Translate
    <3> QED BY <1>1, <1>2, <1>b, <3>1, ProgramMisses
  <2>2. CASE T!FromHint("D", v) \/ T!Found("D", v) # {}
    <3>1. CASE (T!PageFault(v, write) \/ T!BasicException(v, write))
                 /\ UNCHANGED <<fast, T!buffers, insn, pt>>
      BY <1>1, <1>b, <3>1, ProgramFaults
    <3>2. CASE /\ hint' = [hint EXCEPT !["D"] = [vpn |-> v, tbe |-> T!Tbe("D", v),
                                                 slot |-> T!Slot("D", v)]]
               /\ insn' = T!Done /\ UNCHANGED <<rs, pc>>
               /\ iblockTb' \in {iblockTb, [iblockTb EXCEPT ![T!Kind] =
                                     [tbe |-> T!Tbe("D", v), slot |-> T!Slot("D", v)]]}
               /\ UNCHANGED <<fast, tb, tag, index, cr, pt>>
      <4>1. BuffersInv'
        BY <1>1, <1>2, <2>2, <3>2, BuffersAtHint DEF TranslationInv
      <4> QED BY <1>3, <3>2, <4>1 DEF TranslationInv
    <3> QED BY <1>5, <1>a, <1>b, <2>2, <3>1, <3>2 DEF T!Access, T!Translate
  <2> QED BY <2>1, <2>2
<1> QED BY <1>4, <1>5

\* The handler of a miss finds the page of the page table that it reads: Root always, Table
\* unless it misses again.
LEMMA RootFound ==
  ASSUME BuffersInv
  PROVE  /\ T!FromHint("D", Root) \/ T!Found("D", Root) # {}
         /\ T!Tbe("D", Root).pte = T!Writable
<1>1. "D" \in T!Sides
  BY DEF T!Sides
<1>2. tb["D"][0].vpn = Root
  BY <1>1 DEF BuffersInv, WiredKept
<1>3. 0 \in T!Found("D", Root)
  BY <1>2, PagesApart DEF T!Found, T!Matches, Slots
<1>4. T!Tbe("D", Root).pte = pt[tag["D"].asid][Root]
  BY <1>1, <1>3, PagesApart, TbeCurrent
<1>5. tag["D"].asid \in Asids
  BY <1>1 DEF BuffersInv, BuffersTyped
<1> QED BY <1>3, <1>4, <1>5 DEF BuffersInv, TableOK

\* The handler misses itself: it starts again, for Table.
LEMMA HandlerMisses ==
  ASSUME TranslationInv, pc \in T!Sides, T!TbMiss("D", Table, FALSE),
         UNCHANGED <<fast, tb, index, hint, iblockTb, insn, pt>>
  PROVE  TranslationInv'
<1>0. "D" \in T!Sides /\ T!Sides = {"I", "D"} /\ pc \in {"I", "D"}
  BY DEF T!Sides
<1>1. BuffersInv'
  BY <1>0, BuffersAtMiss, PagesApart DEF TranslationInv
<1>2. /\ rs \in [1 .. 3 -> Modes] /\ rs[1].user = FALSE /\ rs[1].tbmiss = TRUE /\ rs[2] = Program
      /\ cr \in Registered /\ tag \in [T!Sides -> [asid : Asids, vpn : T!Vpns]]
      /\ cr.TBPC = "program" /\ cr.TBMISSADDR = T!Current /\ insn.stage # "done"
  BY <1>0 DEF TranslationInv, ControlInv, ControlTyped, BuffersInv, BuffersTyped
<1>3. /\ rs' \in [1 .. 3 -> Modes]
      /\ rs'[2] = Program /\ rs'[1].user = FALSE /\ rs'[1].tbmiss = TRUE
  <2>1. rs' = [rs EXCEPT ![1].user = FALSE]
    BY <1>2 DEF T!TbMiss, T!Vectored
  <2>2. rs[1] \in Modes
    BY <1>2
  <2>3. rs'[1] = [rs[1] EXCEPT !.user = FALSE] /\ rs'[2] = rs[2] /\ rs'[3] = rs[3]
    BY <1>2, <2>1
  <2>4. [rs[1] EXCEPT !.user = FALSE] \in Modes
    BY <2>2 DEF Modes
  <2>5. rs' \in [1 .. 3 -> Modes]
    BY <1>2, <2>1, <2>4
  <2>6. rs'[1].user = FALSE /\ rs'[1].tbmiss = TRUE
    BY <1>2, <2>2, <2>3 DEF Modes
  <2> QED BY <1>2, <2>3, <2>5, <2>6
<1>4. /\ cr' \in Registered /\ cr'.TBPC = cr.TBPC /\ cr'.TBMISSADDR = cr.TBMISSADDR
  <2>1. cr' = [cr EXCEPT !.LastTbMissWasWrite = FALSE, !.TBMISSADDR = cr.TBMISSADDR,
                         !.TBPC = cr.TBPC]
    BY <1>2 DEF T!TbMiss
  <2> QED BY <1>2, <2>1 DEF Registered
<1>5. pc' = "D" /\ tag'["D"].vpn = Table
  BY <1>0, <1>2 DEF T!TbMiss
<1>6. T!Current' = T!Current
  BY DEF T!Current
<1>7. ControlTyped'
  BY <1>3, <1>4, <1>5 DEF TranslationInv, ControlInv, ControlTyped, Labels
<1>8. ControlInv'
  BY <1>0, <1>2, <1>3, <1>4, <1>5, <1>6, <1>7, PagesApart, TlbAssumption DEF ControlInv
<1> QED BY <1>1, <1>8 DEF TranslationInv

\* The handler reads from a page that is not mapped: the fault is the program's.
LEMMA HandlerFaults ==
  ASSUME TranslationInv, pc \in T!Sides, tag[pc].vpn \in Pages, T!PageFault(Table, FALSE),
         UNCHANGED <<fast, T!buffers, insn, pt>>
  PROVE  TranslationInv'
<1>0. T!Sides = {"I", "D"} /\ pc \in {"I", "D"}
  BY DEF T!Sides
<1>1. BuffersInv'
  BY DEF TranslationInv, BuffersInv, BuffersTyped, TableOK, T!Consistent, WiredKept, CodeOnly,
         HintCurrent, EntryCurrent, T!buffers
<1>2. /\ rs \in [1 .. 3 -> Modes] /\ rs[1].user = FALSE /\ rs[1].tbmiss = TRUE /\ rs[2] = Program
      /\ cr \in Registered /\ insn.stage # "done"
      /\ cr.TBPC = "program" /\ cr.TBMISSADDR = T!Current
      /\ cr.LastTbMissWasWrite = TRUE <=> Stores
  BY <1>0 DEF TranslationInv, ControlInv, ControlTyped
<1>3. /\ rs' \in [1 .. 3 -> Modes]
      /\ rs'[2] = Program /\ rs'[1].user = FALSE /\ rs'[1].tbmiss = FALSE
  <2>1. rs' = [[rs EXCEPT ![1].tbmiss = FALSE] EXCEPT ![1].user = FALSE]
    BY <1>2 DEF T!PageFault, T!Vectored
  <2>2. PICK m : m = [[rs[1] EXCEPT !.tbmiss = FALSE] EXCEPT !.user = FALSE]
    OBVIOUS
  <2>3. rs' = [rs EXCEPT ![1] = m]
    BY <1>2, <2>1, <2>2
  <2>4. m \in Modes /\ m.user = FALSE /\ m.tbmiss = FALSE
    <3>1. rs[1] \in Modes
      BY <1>2
    <3> QED BY <2>2, <3>1 DEF Modes
  <2> QED BY <1>2, <2>3, <2>4
<1>4. /\ cr' = [cr EXCEPT !.EBADADDR = cr.TBMISSADDR, !.EPC = cr.TBPC,
                          !.ecause = IF cr.LastTbMissWasWrite THEN "PGW" ELSE "PGF"]
      /\ pc' = "fault"
  BY <1>2 DEF T!PageFault
<1>5. /\ cr' \in Registered
      /\ cr'.EBADADDR = T!Current /\ cr'.EPC = "program"
      /\ cr'.ecause = IF Stores THEN "PGW" ELSE "PGF"
  BY <1>2, <1>4 DEF Registered
<1>6. T!Current' = T!Current /\ (Stores' <=> Stores)
  BY DEF T!Current, Stores
<1>7. ControlTyped'
  BY <1>3, <1>4, <1>5 DEF TranslationInv, ControlInv, ControlTyped, Labels
<1>8. ControlInv'
  BY <1>2, <1>3, <1>4, <1>5, <1>6, <1>7 DEF ControlInv, T!Sides
<1> QED BY <1>1, <1>8 DEF TranslationInv

\* RFE returns to the program.
LEMMA Returns ==
  ASSUME ControlInv, pc # "program", T!Rfe, cr' \in Registered, insn' \in Instruction,
         insn'.stage = "data" => insn'.addr # None
  PROVE  ControlInv'
<1>1. rs \in [1 .. 3 -> Modes] /\ rs[2] = Program /\ pc \in Labels
  BY DEF ControlInv, ControlTyped
<1>2. pc' = "program"
  BY <1>1 DEF ControlInv, T!Rfe, T!Sides, Labels
<1>3. rs' \in [1 .. 3 -> Modes] /\ rs'[1] = Program
  <2>1. rs' = <<rs[2], rs[3], InFault>>
    BY DEF T!Rfe, InFault
  <2>2. rs[2] \in Modes /\ rs[3] \in Modes /\ InFault \in Modes
    BY <1>1, ModesApart
  <2> QED BY <1>1, <2>1, <2>2, ThreeModes
<1>4. ControlTyped'
  BY <1>2, <1>3 DEF ControlTyped, Labels
<1> QED BY <1>2, <1>3, <1>4 DEF ControlInv, T!Sides

\* The handler of a miss: it enters the page, misses itself, or meets a fault.
LEMMA MissHandlerKeeps ==
  ASSUME TranslationInv, NEW s \in T!Sides, T!MissHandler(s)
  PROVE  TranslationInv'
<1>a. PICK v : v = T!PtePage(tag[s].vpn)
  OBVIOUS
<1>1. pc = s /\ "D" \in T!Sides /\ pc # "program"
  BY DEF T!MissHandler, T!Sides
<1>2. /\ v = Root \/ (v = Table /\ tag[s].vpn \in Pages)
      /\ v \in T!Vpns
  BY <1>a, PagesApart DEF T!PtePage
<1>3. CASE ~T!FromHint("D", v) /\ T!Found("D", v) = {}
  <2>1. v = Table
    BY <1>2, <1>3, RootFound DEF TranslationInv
  <2>2. T!TbMiss("D", v, FALSE) /\ UNCHANGED <<fast, tb, index, hint, iblockTb, insn, pt>>
    BY <1>3, <1>a DEF T!MissHandler
  <2> QED BY <1>1, <2>1, <2>2, HandlerMisses
<1>4. CASE (T!FromHint("D", v) \/ T!Found("D", v) # {}) /\ ~T!Tbe("D", v).pte.valid
  <2>1. v = Table /\ tag[s].vpn \in Pages
    BY <1>2, <1>4, RootFound DEF TranslationInv, T!Writable
  <2>2. T!PageFault(v, FALSE) /\ UNCHANGED <<fast, T!buffers, insn, pt>>
    BY <1>4, <1>a DEF T!MissHandler
  <2> QED BY <1>1, <2>1, <2>2, HandlerFaults
<1>5. CASE (T!FromHint("D", v) \/ T!Found("D", v) # {}) /\ T!Tbe("D", v).pte.valid
  <2>1. /\ hint' = [hint EXCEPT !["D"] = [vpn |-> v, tbe |-> T!Tbe("D", v), slot |-> T!Slot("D", v)]]
        /\ T!EnterPte(s, pt[tag[s].asid][tag[s].vpn])
        /\ T!Rfe
        /\ cr' = [cr EXCEPT !.TBMISSADDR = None, !.LastTbMissWasWrite = FALSE]
        /\ UNCHANGED <<fast, tag, iblockTb, insn, pt>>
    BY <1>5, <1>a DEF T!MissHandler
  <2>2. /\ hint' \in [T!Sides -> [vpn : T!Vpns \cup {None}, tbe : Entries, slot : Slots]]
        /\ hint'["I"].vpn \in CodePages /\ \A t \in T!Sides : HintCurrent(t)'
    BY <1>1, <1>2, <1>5, <2>1, HintMade DEF TranslationInv
  <2>3. BuffersInv'
    BY <2>1, <2>2, BuffersAtEntry DEF TranslationInv
  <2>4. /\ cr' \in Registered /\ insn' \in Instruction
        /\ insn'.stage = "data" => insn'.addr # None
    BY <2>1 DEF TranslationInv, ControlInv, ControlTyped, Registered
  <2>5. ControlInv'
    BY <1>1, <2>1, <2>4, Returns DEF TranslationInv
  <2> QED BY <2>3, <2>5 DEF TranslationInv
<1> QED BY <1>3, <1>4, <1>5

\* The handler of a fault maps the page or drops the instruction.
LEMMA FaultHandlerKeeps ==
  ASSUME TranslationInv, T!FaultHandler
  PROVE  TranslationInv'
<1>1. /\ pc = "fault" /\ T!Rfe /\ UNCHANGED <<fast, tag, index>>
      /\ cr' = [cr EXCEPT !.EBADADDR = None, !.ecause = "none", !.TBMISSADDR = None,
                          !.LastTbMissWasWrite = FALSE]
  BY DEF T!FaultHandler
<1>2. cr' \in Registered
  BY <1>1 DEF TranslationInv, ControlInv, ControlTyped, Registered
<1>3. insn \in Instruction
  BY <1>1 DEF TranslationInv, ControlInv, ControlTyped
<1>a. PICK v : v = cr.EBADADDR
  OBVIOUS
<1>b. PICK a : a = tag["D"].asid
  OBVIOUS
<1>4. CASE v \in Pages
  <2>1. PICK table :
          table = [b \in Asids |->
                    IF b = a THEN [pt[b] EXCEPT ![v] = T!Writable, ![Table] = T!Writable]
                    ELSE IF v \in Globals THEN [pt[b] EXCEPT ![v] = T!Writable] ELSE pt[b]]
    OBVIOUS
  <2>2. T!Remap(table) /\ insn' = [insn EXCEPT !.stage = "fetch"]
    BY <1>4, <1>a, <1>b, <2>1 DEF T!FaultHandler
  <2>3. pt \in [Asids -> [T!Vpns -> T!Ptes]] /\ T!Writable \in T!Ptes
    BY DEF TranslationInv, BuffersInv, BuffersTyped, T!Ptes
  <2>4. table \in [Asids -> [T!Vpns -> T!Ptes]]
    <3>1. ASSUME NEW b \in Asids PROVE table[b] \in [T!Vpns -> T!Ptes]
      <4>1. pt[b] \in [T!Vpns -> T!Ptes]
        BY <2>3
      <4> QED BY <2>1, <2>3, <4>1
    <3> QED BY <2>1, <3>1
  <2>5. BuffersInv'
    BY <1>1, <2>2, <2>4, Remapped DEF TranslationInv
  <2>6. insn' \in Instruction /\ insn'.stage = "fetch"
    BY <1>3, <2>2 DEF Instruction
  <2>7. ControlInv'
    BY <1>1, <1>2, <2>6, Returns DEF TranslationInv
  <2> QED BY <2>5, <2>7 DEF TranslationInv
<1>5. CASE v \notin Pages
  <2>1. insn' = T!Done /\ UNCHANGED <<tb, hint, iblockTb, pt>>
    BY <1>5, <1>a DEF T!FaultHandler
  <2>2. BuffersInv'
    BY <1>1, <2>1 DEF TranslationInv, BuffersInv, BuffersTyped, TableOK, T!Consistent, WiredKept, CodeOnly,
         HintCurrent, EntryCurrent
  <2>3. ControlInv'
    BY <1>1, <1>2, <2>1, InstructionDone, Returns DEF TranslationInv
  <2> QED BY <2>2, <2>3 DEF TranslationInv
<1> QED BY <1>4, <1>5

\* The program's next instruction.
LEMMA StartKeeps ==
  ASSUME TranslationInv, T!Start
  PROVE  TranslationInv'
<1>1. /\ pc = "program" /\ UNCHANGED <<T!buffers, rs, cr, pc, pt>>
      /\ insn' = [stage |-> "fetch", addr |-> None, write |-> FALSE]
  BY DEF T!Start
<1>2. insn' \in Instruction /\ insn'.stage = "fetch"
  BY <1>1 DEF Instruction
<1>3. ControlInv'
  BY <1>1, <1>2, ProgramGoes DEF TranslationInv
<1>4. BuffersInv'
  BY <1>1 DEF TranslationInv, BuffersInv, BuffersTyped, TableOK, T!Consistent, WiredKept, CodeOnly,
       HintCurrent, EntryCurrent, T!buffers
<1> QED BY <1>3, <1>4 DEF TranslationInv

\* The kernel changes an entry of the page table and invalidates what it changed.
LEMMA KernelKeeps ==
  ASSUME TranslationInv, T!Kernel
  PROVE  TranslationInv'
<1>1. PICK a \in Asids, v \in Pages \cup {Table}, pte \in T!Ptes :
        T!Remap([b \in Asids |->
                   IF b = a \/ v \in Globals THEN [pt[b] EXCEPT ![v] = pte] ELSE pt[b]])
  BY DEF T!Kernel
<1>2. pc = "program" /\ UNCHANGED <<fast, tag, index, rs, cr, pc, insn>>
  BY DEF T!Kernel
<1>3. PICK table :
        table = [b \in Asids |->
                   IF b = a \/ v \in Globals THEN [pt[b] EXCEPT ![v] = pte] ELSE pt[b]]
  OBVIOUS
<1>4. pt \in [Asids -> [T!Vpns -> T!Ptes]]
  BY DEF TranslationInv, BuffersInv, BuffersTyped
<1>5. table \in [Asids -> [T!Vpns -> T!Ptes]]
  <2>1. ASSUME NEW b \in Asids PROVE table[b] \in [T!Vpns -> T!Ptes]
    <3>1. pt[b] \in [T!Vpns -> T!Ptes]
      BY <1>4
    <3> QED BY <1>3, <3>1
  <2> QED BY <1>3, <2>1
<1>6. BuffersInv'
  BY <1>1, <1>2, <1>3, <1>5, Remapped DEF TranslationInv
<1>7. ControlInv'
  BY <1>2, ProgramGoes DEF TranslationInv, ControlInv, ControlTyped
<1> QED BY <1>6, <1>7 DEF TranslationInv

\* XrExecuteMtcr to ITBTAG and DTBTAG: another address space, and no hint from the old one.
LEMMA SwitchAsidKeeps ==
  ASSUME TranslationInv, T!SwitchAsid
  PROVE  TranslationInv'
<1>1. PICK a \in Asids : T!WriteTag(a)
  BY DEF T!SwitchAsid
<1>2. pc = "program" /\ UNCHANGED <<fast, tb, index, iblockTb, rs, cr, pc, insn, pt>>
  BY DEF T!SwitchAsid
<1>3. hint' = [s \in T!Sides |-> T!NoHint]
  BY <1>1 DEF T!WriteTag
<1>4. /\ hint' \in [T!Sides -> [vpn : T!Vpns \cup {None}, tbe : Entries, slot : Slots]]
      /\ hint'["I"].vpn \in CodePages /\ \A s \in T!Sides : HintCurrent(s)'
  BY <1>3, PagesApart DEF T!NoHint, Entries, HintCurrent, T!Sides, CodePages
<1>5. tag' \in [T!Sides -> [asid : Asids, vpn : T!Vpns]] /\ tag'["I"].vpn = tag["I"].vpn
  <2>1. tag \in [T!Sides -> [asid : Asids, vpn : T!Vpns]]
    BY DEF TranslationInv, BuffersInv, BuffersTyped
  <2>2. a \in Asids /\ tag' = [s \in T!Sides |-> [tag[s] EXCEPT !.asid = a]]
    BY <1>1 DEF T!WriteTag
  <2>3. \A s \in T!Sides : [tag[s] EXCEPT !.asid = a] \in [asid : Asids, vpn : T!Vpns]
    BY <2>1, <2>2
  <2>4. tag'["I"].vpn = tag["I"].vpn
    BY <2>1, <2>2 DEF T!Sides
  <2> QED BY <2>2, <2>3, <2>4
<1>6. BuffersInv'
  BY <1>2, <1>4, <1>5 DEF TranslationInv, BuffersInv, BuffersTyped, TableOK, T!Consistent,
       WiredKept, CodeOnly, EntryCurrent
<1>7. ControlInv'
  BY <1>2, ProgramGoes DEF TranslationInv, ControlInv, ControlTyped
<1> QED BY <1>6, <1>7 DEF TranslationInv

\* At reset only Root is mapped, in the first entry of both buffers.
LEMMA TranslationInit == T!Init => TranslationInv
<1> SUFFICES ASSUME T!Init PROVE TranslationInv
  OBVIOUS
<1>a. PICK a : a = (CHOOSE b \in Asids : TRUE) /\ a \in Asids
  BY TlbAssumption
<1>1. /\ pt = [b \in Asids |-> [v \in T!Vpns |-> IF v = Root THEN T!Writable ELSE T!NotValid]]
      /\ tag = [s \in T!Sides |-> [asid |-> a, vpn |-> Root]]
      /\ index = [s \in T!Sides |-> Wired]
      /\ hint = [s \in T!Sides |-> T!NoHint]
      /\ iblockTb = [k \in {"load", "store"} |-> T!NoEntry]
  BY <1>a DEF T!Init, T!NewBlock
<1>2. pt[a][Root] = T!Writable
  BY <1>1, <1>a, PagesApart
<1>3. PICK e : e = [asid |-> a, vpn |-> Root, pte |-> T!Writable]
  OBVIOUS
<1>4. tb = [s \in T!Sides |-> [i \in Slots |-> IF i = 0 THEN e ELSE T!Invalid]]
  BY <1>2, <1>3, <1>a DEF T!Init, Slots
<1>5. /\ e \in Entries /\ T!Invalid \in Entries /\ e.vpn = Root
      /\ e.pte = pt[e.asid][e.vpn] /\ T!Invalid.vpn = None
  BY <1>2, <1>3, <1>a, PagesApart DEF Entries, T!Ptes, T!Invalid
<1>6. BuffersTyped
  <2>1. tb \in [T!Sides -> [Slots -> Entries]]
    BY <1>4, <1>5
  <2>2. hint \in [T!Sides -> [vpn : T!Vpns \cup {None}, tbe : Entries, slot : Slots]]
    BY <1>1, PagesApart DEF T!NoHint, Entries
  <2>3. iblockTb \in [{"load", "store"} -> [tbe : Entries, slot : Slots]]
    BY <1>1, PagesApart DEF T!NoEntry, Entries
  <2>4. /\ tag \in [T!Sides -> [asid : Asids, vpn : T!Vpns]]
        /\ index \in [T!Sides -> Wired .. (TbSize - 1)]
    BY <1>1, <1>a, PagesApart DEF Slots
  <2>5. pt \in [Asids -> [T!Vpns -> T!Ptes]]
    BY <1>1 DEF T!Ptes
  <2> QED BY <2>1, <2>2, <2>3, <2>4, <2>5 DEF BuffersTyped
<1>7. TableOK
  BY <1>1, PagesApart, TlbAssumption DEF TableOK, T!Consistent, T!Vpns
<1>8. WiredKept /\ CodeOnly
  BY <1>1, <1>4, <1>5, PagesApart DEF WiredKept, CodeOnly, CodePages, T!NoHint, T!Sides, Slots
<1>9. \A s \in T!Sides : HintCurrent(s) /\ \A i \in Slots : EntryCurrent(s, i)
  BY <1>1, <1>4, <1>5 DEF HintCurrent, EntryCurrent, T!NoHint
<1>10. ControlInv
  <2>1. rs \in [1 .. 3 -> Modes] /\ rs[1] = Program /\ pc = "program"
    <3>1. rs = <<Program, InFault, InFault>> /\ pc = "program"
      BY DEF T!Init, Program, InFault
    <3> QED BY <3>1, ThreeModes, ModesApart
  <2>2. cr \in Registered /\ insn = T!Done
    BY DEF T!Init, Registered, Labels
  <2> QED BY <2>1, <2>2, InstructionDone DEF ControlInv, ControlTyped, Labels, T!Sides
<1> QED BY <1>6, <1>7, <1>8, <1>9, <1>10 DEF TranslationInv, BuffersInv

\* What one step of a processor does to its translation: a step of Tlb, or nothing.
LEMMA TranslationKept == TranslationInv /\ [PNext]_pvars => TranslationInv'
<1> SUFFICES ASSUME TranslationInv, [PNext]_pvars PROVE TranslationInv'
  OBVIOUS
<1>1. CASE T!Next
  <2>1. T!Fetch => TranslationInv'
    BY FetchKeeps
  <2>2. T!Access => TranslationInv'
    BY AccessKeeps
  <2>3. T!FaultHandler => TranslationInv'
    BY FaultHandlerKeeps
  <2>4. \A s \in T!Sides : T!MissHandler(s) => TranslationInv'
    BY MissHandlerKeeps
  <2>5. T!Start \/ T!Kernel \/ T!SwitchAsid => TranslationInv'
    BY StartKeeps, KernelKeeps, SwitchAsidKeeps
  <2> QED BY <1>1, <2>1, <2>2, <2>3, <2>4, <2>5 DEF T!Next, T!Step
<1>2. CASE UNCHANGED tvars
  <2>1. BuffersInv'
    BY <1>2 DEF tvars, TranslationInv, BuffersInv, BuffersTyped, TableOK, T!Consistent,
         WiredKept, CodeOnly, HintCurrent, EntryCurrent
  <2>2. ControlInv'
    BY <1>2 DEF tvars, TranslationInv, ControlInv, ControlTyped, Stores, T!Current
  <2> QED BY <2>1, <2>2 DEF TranslationInv
<1>3. T!Next \/ UNCHANGED tvars
  BY DEF PNext, OfClaims, OfTranslation, OfInstructions, pvars
<1> QED BY <1>1, <1>2, <1>3

\* The buffers, the page table and the handlers agree in every state of a processor.
THEOREM TranslationAlways == PSpec => []TranslationInv
<1>1. PInit => TranslationInv
  BY TranslationInit DEF PInit
<1> QED BY <1>1, TranslationKept, PTL DEF PSpec

\* No translation that would be used outlives its invalidation: not in the buffers, not in
\* the hint, and not in the block of instructions.
THEOREM TranslationStaysCurrent == PSpec => []TranslationCurrent
<1>1. TranslationInv => TranslationCurrent
  <2> SUFFICES ASSUME TranslationInv PROVE TranslationCurrent
    OBVIOUS
  <2>1. /\ \A s \in T!Sides, i \in 0 .. (TbSize - 1) :
             tb[s][i] # T!Invalid => tb[s][i].pte = pt[tb[s][i].asid][tb[s][i].vpn]
        /\ \A s \in T!Sides : hint[s].vpn # None =>
             hint[s].tbe.pte = pt[tag[s].asid][hint[s].vpn]
    BY DEF TranslationInv, BuffersInv, EntryCurrent, HintCurrent, Slots
  <2>2. ASSUME NEW k \in DOMAIN iblockTb, NEW v \in T!Vpns, T!IblockEntryHits(k, v)
        PROVE  iblockTb[k].tbe.pte = pt[tag["D"].asid][v]
    <3>1. PICK e : e = iblockTb[k].tbe
      OBVIOUS
    <3>2. PICK n \in Slots : n = iblockTb[k].slot
      BY DEF TranslationInv, BuffersInv, BuffersTyped
    <3>3. e.vpn = v /\ e.asid = tag["D"].asid /\ tb["D"][n] = e
      BY <2>2, <3>1, <3>2 DEF T!IblockEntryHits
    <3>4. e # T!Invalid
      BY <3>3, PagesApart DEF T!Invalid
    <3>5. "D" \in T!Sides /\ EntryCurrent("D", n)
      BY <3>2 DEF TranslationInv, BuffersInv, T!Sides
    <3> QED BY <3>1, <3>3, <3>4, <3>5 DEF EntryCurrent
  <2> QED BY <2>1, <2>2 DEF TranslationCurrent, T!TranslationCurrent
<1> QED BY <1>1, TranslationAlways, PTL

\* A fault that software sees is one of the program's instruction, also when it was the
\* handler of a miss that met it.
THEOREM FaultsReported == PSpec => []FaultReported
<1>1. TranslationInv => FaultReported
  <2> SUFFICES ASSUME TranslationInv, pc = "fault"
      PROVE  /\ cr.EBADADDR = T!Current /\ cr.EPC = "program"
             /\ cr.ecause = (IF insn.stage = "data" /\ insn.write THEN "PGW" ELSE "PGF")
             /\ rs[2] = [user |-> TRUE, tbmiss |-> FALSE] /\ ~rs[1].tbmiss
    BY DEF FaultReported, T!FaultReported
  <2>1. /\ cr.EBADADDR = T!Current /\ cr.EPC = "program"
        /\ cr.ecause = (IF Stores THEN "PGW" ELSE "PGF")
        /\ rs[2] = Program /\ ~(rs[1].tbmiss = TRUE)
    BY DEF TranslationInv, ControlInv
  <2>2. PICK w \in BOOLEAN : w = insn.write
    BY DEF TranslationInv, ControlInv, ControlTyped, Instruction
  <2>3. PICK m \in BOOLEAN : m = rs[1].tbmiss
    BY DEF TranslationInv, ControlInv, ControlTyped, Modes
  <2>4. ~rs[1].tbmiss
    BY <2>1, <2>3
  <2>5. Stores <=> (insn.stage = "data" /\ insn.write)
    BY <2>2, Zenon DEF Stores
  <2> QED BY <2>1, <2>4, <2>5 DEF Program
<1> QED BY <1>1, TranslationAlways, PTL

-----------------------------------------------------------------------------
(* Instructions: their entries.                                            *)

\* The instructions whose second operand may be shifted on its way.
ShiftedOps == I!LogicOps \cup I!DivideOps \cup {"loadr", "storer"}
MemoryOps == {"loadr", "storer", "load", "store", "storei", "ll", "sc"}

\* How the decoder goes from an instruction to its format.
LEMMA DecodedAs ==
  ASSUME NEW i \in I!Formats
  PROVE  /\ i.op \in ShiftedOps => I!Decode(i) =
              I!WithShift(i, i.op, IF i.op = "storer" THEN I!Source(i.rd) ELSE i.rd, I!Source(i.ra))
         /\ i.op = "shift" => I!Decode(i) = I!DecodeRegShifts(i)
         /\ i.op \in I!ImmediateOps => I!Decode(i) = I!DecodeImmediate(i)
         /\ i.op \in {"load", "store", "storei"} => I!Decode(i) = I!DecodeImmOffset(i)
         /\ i.op \in {"ll", "sc"} => I!Decode(i) = I!DecodeLock(i)
         /\ i.op \in I!Branches => I!Decode(i) = I!DecodeBranch(i)
         /\ i.op \in {"jalr", "adr", "j", "jal"} => I!Decode(i) = I!DecodeJump(i)
         /\ i.op \in {"illegal", "sys", "brk", "fence", "pause", "mfcr"} =>
              I!Decode(i) = <<I!Entry(i.op, i.rd, 0, 0)>>
<1> USE DEF I!LogicOps, I!DivideOps, I!ImmediateOps, I!Branches
<1>1. i.op \in I!LogicOps => I!Decode(i) = I!DecodeLogic(i)
  BY DEF I!Decode
<1>2. i.op \in I!DivideOps => I!Decode(i) = I!DecodeDivide(i)
  BY DEF I!Decode
<1>3. i.op \in {"loadr", "storer"} => I!Decode(i) = I!DecodeRegOffset(i)
  BY DEF I!Decode
<1>4. i.op = "shift" => I!Decode(i) = I!DecodeRegShifts(i)
  BY DEF I!Decode
<1>5. i.op \in I!ImmediateOps => I!Decode(i) = I!DecodeImmediate(i)
  BY DEF I!Decode
<1>6. i.op \in {"load", "store", "storei"} => I!Decode(i) = I!DecodeImmOffset(i)
  BY DEF I!Decode
<1>7. i.op \in {"ll", "sc"} => I!Decode(i) = I!DecodeLock(i)
  BY DEF I!Decode
<1>8. i.op \in I!Branches => I!Decode(i) = I!DecodeBranch(i)
  BY DEF I!Decode
<1>9. i.op \in {"jalr", "adr", "j", "jal"} => I!Decode(i) = I!DecodeJump(i)
  BY DEF I!Decode
<1>10. i.op \in {"illegal", "sys", "brk", "fence", "pause", "mfcr"} =>
         I!Decode(i) = <<I!Entry(i.op, i.rd, 0, 0)>>
  BY DEF I!Decode
<1>11. i.op \in ShiftedOps => I!Decode(i) =
         I!WithShift(i, i.op, IF i.op = "storer" THEN I!Source(i.rd) ELSE i.rd, I!Source(i.ra))
  BY <1>1, <1>2, <1>3 DEF ShiftedOps, I!DecodeLogic, I!DecodeDivide, I!DecodeRegOffset
<1> QED BY <1>4, <1>5, <1>6, <1>7, <1>8, <1>9, <1>10, <1>11

\* What the last entry e of an instruction says of it: the functions have the operands the
\* instruction has, the second in register c.
Says(i, e, c) ==
  /\ e.f \in I!LogicOps \cup I!DivideOps \cup {"loadr"} =>
       i.op = e.f /\ e.a = i.rd /\ e.b = I!Source(i.ra) /\ e.c = c
  /\ e.f = "storer" => i.op = e.f /\ e.a = I!Source(i.rd) /\ e.b = I!Source(i.ra) /\ e.c = c
  /\ e.f = "shift" => i.op = e.f /\ e.a = i.rd /\ e.b = I!Source(i.ra) /\ e.c = I!Source(i.rb)
  /\ e.f \in I!ImmediateOps =>
       /\ i.op \in I!ImmediateOps /\ e.f = IF i.op = "lui" THEN "ori" ELSE i.op
       /\ e.a = i.rd /\ e.b = I!Source(i.ra) /\ e.c = I!A!Immediate(i.op, i.imm)
  /\ e.f \in {"load", "store", "storei"} => i.op = e.f /\ e.c = i.imm * 2^Log[i.size]
  /\ e.f = "load" => e.a = i.rd /\ e.b = I!Source(i.ra)
  /\ e.f = "store" => e.a = I!Source(i.rd) /\ e.b = I!Source(i.ra)
  /\ e.f = "storei" => e.a = I!Source(i.rd) /\ e.b = i.ra
  /\ e.f \in {"ll", "sc"} =>
       i.op = e.f /\ e.a = i.rd /\ e.b = I!Source(i.ra) /\ e.c = I!Source(i.rb)
  /\ e.f \in I!Branches => i.op = e.f /\ e.a = I!Source(i.rd) /\ e.c = i.target
  /\ e.f = "b" => i.op = "beq" /\ I!Source(i.rd) = FakeZero /\ e.c = i.target
  /\ e.f = "jalr" => i.op = e.f /\ e.a = i.rd /\ e.b = I!Source(i.ra) /\ e.c = i.imm * InstBytes
  /\ e.f = "adr" => i.op = e.f /\ e.a = i.rd /\ e.c = I!Word(ip + i.imm)
  /\ e.f \in {"j", "jal"} => i.op = e.f /\ e.c = i.target
  /\ e.f \in {"illegal", "sys", "brk", "fence", "pause", "mfcr"} => i.op = e.f /\ e.a = i.rd
  /\ e.f \notin I!Shifts \cup {"linkage"}

\* The entry of an instruction without a shift, and that after a shift.
LEMMA LastEntry ==
  ASSUME NEW i \in I!Formats, NEW c, NEW e,
         \/ /\ i.op \in ShiftedOps
            /\ e = I!Entry(i.op, IF i.op = "storer" THEN I!Source(i.rd) ELSE i.rd, I!Source(i.ra), c)
         \/ i.op \notin ShiftedOps /\ I!Decode(i) = <<e>>
  PROVE  Says(i, e, c)
<1> USE DEF I!LogicOps, I!DivideOps, I!ImmediateOps, I!Branches, I!Shifts, I!Entry, Says
<1>1. CASE i.op \in ShiftedOps
  <2>1. e.f = i.op /\ e.a = (IF i.op = "storer" THEN I!Source(i.rd) ELSE i.rd)
        /\ e.b = I!Source(i.ra) /\ e.c = c
    BY <1>1
  <2> QED BY <1>1, <2>1 DEF ShiftedOps
<1>2. CASE i.op = "shift"
  BY <1>2, DecodedAs DEF I!DecodeRegShifts, ShiftedOps
<1>3. CASE i.op \in I!ImmediateOps
  <2>1. <<e>> = I!DecodeImmediate(i)
    BY <1>3, DecodedAs DEF ShiftedOps
  <2>2. /\ e.f = (IF i.op = "lui" THEN "ori" ELSE i.op) /\ e.a = i.rd /\ e.b = I!Source(i.ra)
        /\ e.c = I!A!Immediate(i.op, i.imm)
    BY <2>1 DEF I!DecodeImmediate, I!A!Immediate, I!Word, I!Size, I!SignExt,
         I!A!Word, I!A!Size, I!A!SignExt
  <2> QED BY <1>3, <2>2
<1>4. CASE i.op \in {"load", "store", "storei"}
  BY <1>4, DecodedAs DEF I!DecodeImmOffset, ShiftedOps
<1>5. CASE i.op \in {"ll", "sc"}
  BY <1>5, DecodedAs DEF I!DecodeLock, ShiftedOps
<1>6. CASE i.op \in I!Branches
  BY <1>6, DecodedAs DEF I!DecodeBranch, ShiftedOps
<1>7. CASE i.op \in {"jalr", "adr", "j", "jal"}
  BY <1>7, DecodedAs DEF I!DecodeJump, ShiftedOps
<1>8. CASE i.op \in {"illegal", "sys", "brk", "fence", "pause", "mfcr"}
  BY <1>8, DecodedAs DEF ShiftedOps
<1> QED BY <1>1, <1>2, <1>3, <1>4, <1>5, <1>6, <1>7, <1>8 DEF I!Formats, I!Ops, ShiftedOps

\* Every other instruction has one entry.
LEMMA OneEntry ==
  ASSUME NEW i \in I!Formats, i.op \notin ShiftedOps
  PROVE  \E e : I!Decode(i) = <<e>>
<1> USE DEF I!LogicOps, I!DivideOps, I!ImmediateOps, I!Branches, ShiftedOps
<1>1. CASE i.op = "shift"
  BY <1>1, DecodedAs DEF I!DecodeRegShifts
<1>2. CASE i.op \in I!ImmediateOps
  BY <1>2, DecodedAs DEF I!DecodeImmediate
<1>3. CASE i.op \in {"load", "store", "storei"}
  BY <1>3, DecodedAs DEF I!DecodeImmOffset
<1>4. CASE i.op \in {"ll", "sc"}
  BY <1>4, DecodedAs DEF I!DecodeLock
<1>5. CASE i.op \in I!Branches
  BY <1>5, DecodedAs DEF I!DecodeBranch
<1>6. CASE i.op \in {"jalr", "adr", "j", "jal"}
  BY <1>6, DecodedAs DEF I!DecodeJump
<1>7. CASE i.op \in {"illegal", "sys", "brk", "fence", "pause", "mfcr"}
  BY <1>7, DecodedAs
<1> QED BY <1>1, <1>2, <1>3, <1>4, <1>5, <1>6, <1>7 DEF I!Formats, I!Ops

\* The entries of an instruction: its last one, after a shift if it has one.
LEMMA Decoded ==
  ASSUME NEW i \in I!Formats
  PROVE  \/ \E e : I!Decode(i) = <<e>> /\ Says(i, e, I!Source(i.rb))
                     /\ (i.op \in ShiftedOps => i.amt = 0)
         \/ /\ i.op \in ShiftedOps
            /\ \E e : I!Decode(i) = <<I!Entry(i.type, I!Source(i.rb), i.amt, 0), e>>
                        /\ Says(i, e, ShiftSink)
<1>1. CASE i.op \notin ShiftedOps
  BY <1>1, OneEntry, LastEntry
<1>2. CASE i.op \in ShiftedOps
  <2>a. PICK a : a = IF i.op = "storer" THEN I!Source(i.rd) ELSE i.rd
    OBVIOUS
  <2>1. I!Decode(i) = I!WithShift(i, i.op, a, I!Source(i.ra))
    BY <1>2, <2>a, DecodedAs
  <2>2. /\ Says(i, I!Entry(i.op, a, I!Source(i.ra), ShiftSink), ShiftSink)
        /\ Says(i, I!Entry(i.op, a, I!Source(i.ra), I!Source(i.rb)), I!Source(i.rb))
    BY <1>2, <2>a, LastEntry
  <2> QED BY <1>2, <2>1, <2>2 DEF I!WithShift
<1> QED BY <1>1, <1>2

-----------------------------------------------------------------------------
(* Instructions: what holds between two steps of the interpreter.          *)

\* FakeZero is never written.
RegistersKept == DOMAIN reg = Registers \cup {FakeZero, ShiftSink} /\ reg[FakeZero] = 0

\* Between two instructions the block may be at its end.
BetweenTwo == ir = None => access = None /\ inst \in {<<>>, I!Linkage}

\* The instruction under way is at its last entry, with its operands, or before that at the
\* shift of the second one.
UnderWay ==
  ir # None =>
    /\ ir \in Instrs /\ trap = None
    /\ \/ \E e, c : /\ inst = <<e>> /\ Says(ir, e, c)
                    /\ ir.op \in ShiftedOps => reg[c] = I!A!Operand
       \/ /\ ir.op \in ShiftedOps
          /\ \E e : /\ inst = <<I!Entry(ir.type, I!Source(ir.rb), ir.amt, 0), e>>
                    /\ Says(ir, e, ShiftSink)

\* There is room for an instruction of two entries whenever one is decoded.
RoomKept ==
  /\ slot \in Nat
  /\ inst = <<>> => slot < BlockInsts
  /\ inst = I!Linkage => slot <= BlockInsts + 1
  /\ ir # None => slot + Len(inst) <= BlockInsts + 1

InstructionsInv == RegistersKept /\ BetweenTwo /\ UnderWay /\ RoomKept

\* What the constants say of instructions.
LEMMA InstructionConstants ==
  /\ Instrs \subseteq I!Formats /\ None \notin Instrs /\ LR \in Registers
  /\ FakeZero \notin Registers /\ ShiftSink \notin Registers /\ FakeZero # ShiftSink
  /\ BlockInsts \in Nat /\ BlockInsts > 0
  /\ \A i \in I!Formats : i.rd \in Registers /\ i.ra \in Registers /\ i.rb \in Registers
                            /\ i.type \in I!Shifts
BY InstructionsAssumption DEF I!Formats

\* What the decoder makes of register 0 reads as the architecture says.
LEMMA SourceReads ==
  ASSUME RegistersKept, NEW r \in Registers
  PROVE  reg[I!Source(r)] = I!A!Read(r)
BY DEF RegistersKept, I!Source, I!A!Read

\* A register of software is written: FakeZero stays.
LEMMA RegisterWritten ==
  ASSUME RegistersKept, NEW r \in Registers, NEW v, reg' = [reg EXCEPT ![r] = v]
  PROVE  /\ RegistersKept'
         /\ [q \in Registers |-> reg'[q]] = [[q \in Registers |-> reg[q]] EXCEPT ![r] = v]
BY InstructionConstants DEF RegistersKept

\* Executing an entry that is neither a shift nor the linkage: it is the last one of the
\* instruction, with its operands.
LEMMA AtLastEntry ==
  ASSUME InstructionsInv, inst # <<>>, inst[1].f \notin I!Shifts \cup {"linkage"}
  PROVE  /\ ir # None /\ ir \in I!Formats
         /\ \E e, c : /\ inst = <<e>> /\ inst[1] = e /\ Says(ir, e, c)
                      /\ ir.op \in ShiftedOps => reg[c] = I!A!Operand
<1>1. ir # None
  BY DEF InstructionsInv, BetweenTwo, I!Linkage, I!Entry
<1>2. ir \in I!Formats
  BY <1>1, InstructionConstants DEF InstructionsInv, UnderWay
<1>3. ASSUME NEW e, inst = <<I!Entry(ir.type, I!Source(ir.rb), ir.amt, 0), e>>
      PROVE  FALSE
  <2>1. inst[1].f = ir.type
    BY <1>3 DEF I!Entry
  <2> QED BY <1>2, <2>1, InstructionConstants
<1> QED BY <1>1, <1>2, <1>3 DEF InstructionsInv, UnderWay

\* After an instruction, in the block or with the exit from it.
LEMMA KeptAfter ==
  ASSUME InstructionsInv, RegistersKept', ir' = None, access' = None,
         \/ ir # None /\ \E e : inst = <<e>> /\ slot' = slot + 1
              /\ inst' \in {I!Linkage} \cup (IF I!Full(slot + 1) THEN {} ELSE {<<>>})
         \/ slot' = 0 /\ inst' = <<>>
  PROVE  InstructionsInv'
<1>1. BetweenTwo' /\ UnderWay'
  BY DEF BetweenTwo, UnderWay, I!Linkage, I!Entry
<1>2. I!Linkage # <<>>
  BY DEF I!Linkage
<1>3. ASSUME slot' = 0, inst' = <<>> PROVE RoomKept'
  BY <1>2, <1>3, InstructionConstants DEF RoomKept, I!Linkage, I!Entry
<1>4. ASSUME ir # None,
             \E e : inst = <<e>> /\ slot' = slot + 1
               /\ inst' \in {I!Linkage} \cup (IF I!Full(slot + 1) THEN {} ELSE {<<>>})
      PROVE  RoomKept'
  <2>1. slot \in Nat /\ slot <= BlockInsts
    BY <1>4, InstructionConstants DEF InstructionsInv, RoomKept
  <2>2. slot' \in Nat /\ slot' <= BlockInsts + 1 /\ (inst' = <<>> => slot' < BlockInsts)
    BY <1>2, <1>4, <2>1, InstructionConstants DEF I!Full
  <2> QED BY <2>2 DEF RoomKept, I!Linkage, I!Entry
<1> QED BY <1>1, <1>3, <1>4 DEF InstructionsInv

-----------------------------------------------------------------------------
(* Instructions: one step of the interpreter, and what it is to software.  *)

\* Both levels compute with the same arithmetic.
LEMMA SameArithmetic ==
  ASSUME NEW op, NEW x, NEW y
  PROVE  /\ I!A!Logic(op, x, y) = I!Logic(op, x, y) /\ I!A!Divide(op, x, y) = I!Divide(op, x, y)
         /\ I!A!Shift(op, x, y) = I!Shift(op, x, y) /\ I!A!Taken(op, x) = I!Taken(op, x)
         /\ I!A!Word(x) = I!Word(x) /\ I!A!SignExt(x, y) = I!SignExt(x, y)
         /\ I!A!After = I!After
<1>1. I!A!Word(x) = I!Word(x) /\ I!A!SignExt(x, y) = I!SignExt(x, y) /\ I!A!After = I!After
  BY DEF I!A!Word, I!Word, I!A!Size, I!Size, I!A!SignExt, I!SignExt, I!A!After, I!After
<1>2. I!A!Taken(op, x) = I!Taken(op, x)
  BY DEF I!A!Taken, I!Taken, I!A!Signed, I!Signed, I!A!Size, I!Size
<1>3. I!A!Divide(op, x, y) = I!Divide(op, x, y)
  BY Zenon DEF I!A!Divide, I!Divide, I!A!Word, I!Word, I!A!Signed, I!Signed, I!A!Size, I!Size,
     I!A!Quotient, I!Quotient
<1>4. I!A!Shift(op, x, y) = I!Shift(op, x, y)
  BY Zenon DEF I!A!Shift, I!Shift, I!A!Word, I!Word, I!A!Signed, I!Signed, I!A!Size, I!Size,
     I!A!Or, I!Or, I!A!Bitwise, I!Bitwise, I!A!Bool, I!Bool, I!A!Bit, I!Bit
<1>5. I!A!Logic(op, x, y) = I!Logic(op, x, y)
  BY Zenon DEF I!A!Logic, I!Logic, I!A!Word, I!Word, I!A!Signed, I!Signed, I!A!Size, I!Size,
     I!A!Or, I!Or, I!A!Xor, I!Xor, I!A!And, I!And, I!A!Bitwise, I!Bitwise, I!A!Bool, I!Bool,
     I!A!Bit, I!Bit
<1> QED BY <1>1, <1>2, <1>3, <1>4, <1>5

\* Both levels know the same operations.
LEMMA SameOps ==
  /\ I!A!LogicOps = I!LogicOps /\ I!A!DivideOps = I!DivideOps /\ I!A!Words = I!Words
  /\ I!A!ImmediateOps = I!ImmediateOps /\ I!A!Branches = I!Branches
BY DEF I!A!LogicOps, I!LogicOps, I!A!DivideOps, I!DivideOps, I!A!Words, I!Words, I!A!Size, I!Size,
   I!A!ImmediateOps, I!ImmediateOps, I!A!Branches, I!Branches

\* At reset nothing is under way on either level.
LEMMA InstructionsInit == I!Init => InstructionsInv /\ I!A!Init
<1> SUFFICES ASSUME I!Init PROVE InstructionsInv /\ I!A!Init
  OBVIOUS
<1>1. RegistersKept /\ BetweenTwo /\ UnderWay
  BY DEF I!Init, RegistersKept, BetweenTwo, UnderWay
<1>2. RoomKept
  BY InstructionConstants DEF I!Init, RoomKept, I!Linkage
<1>3. I!A!Init
  BY DEF I!Init, I!A!Init
<1> QED BY <1>1, <1>2, <1>3 DEF InstructionsInv

\* Decoding fetches an instruction.
LEMMA FetchImplements ==
  ASSUME InstructionsInv, I!Fetch
  PROVE  InstructionsInv' /\ I!A!Fetch
<1>1. I!A!Fetch
  BY DEF I!Fetch, I!A!Fetch
<1>a. PICK i \in Instrs : ir' = i /\ inst' = I!Decode(i)
  BY DEF I!Fetch
<1>2. /\ i \in I!Formats /\ i # None /\ slot < BlockInsts /\ slot \in Nat
      /\ UNCHANGED <<reg, ip, tbmiss, locked, slot, access, trap>> /\ trap = None
  BY InstructionConstants DEF I!Fetch, InstructionsInv, RoomKept
<1>3. RegistersKept' /\ BetweenTwo'
  BY <1>2, <1>a DEF InstructionsInv, RegistersKept, BetweenTwo
<1>4. ASSUME NEW e, NEW c, Says(i, e, c) PROVE Says(ir, e, c)'
  BY <1>2, <1>a, <1>4 DEF Says, I!Source
<1>5. CASE \E e : /\ I!Decode(i) = <<e>> /\ Says(i, e, I!Source(i.rb))
                  /\ (i.op \in ShiftedOps => i.amt = 0)
  <2>1. PICK e : /\ I!Decode(i) = <<e>> /\ Says(i, e, I!Source(i.rb))
                 /\ (i.op \in ShiftedOps => i.amt = 0)
    BY <1>5
  <2>2. PICK c : c = I!Source(i.rb)
    OBVIOUS
  <2>3. i.op \in ShiftedOps => reg'[c] = I!A!Operand'
    <3>1. reg[c] = I!A!Read(i.rb)
      BY <1>2, <2>2, InstructionConstants, SourceReads DEF InstructionsInv
    <3>2. I!A!Read(i.rb) = (IF i.rb = 0 /\ ~tbmiss THEN 0 ELSE [q \in Registers |-> reg[q]][i.rb])
      BY DEF I!A!Read
    <3>3. i.amt = 0 => I!A!Operand' =
            (IF i.rb = 0 /\ ~tbmiss THEN 0 ELSE [q \in Registers |-> reg[q]][i.rb])
      BY <1>2, <1>a DEF I!A!Operand, I!A!Shift, I!A!Read
    <3> QED BY <1>2, <2>1, <3>1, <3>2, <3>3
  <2>4. UnderWay'
    BY <1>2, <1>4, <1>a, <2>1, <2>2, <2>3 DEF UnderWay
  <2>5. RoomKept'
    <3>1. inst' = <<e>> /\ inst' # <<>> /\ e.f # "linkage" /\ Len(inst') = 1
      BY <1>a, <2>1 DEF Says
    <3> QED BY <1>2, <3>1, InstructionConstants DEF RoomKept, I!Linkage, I!Entry
  <2> QED BY <1>1, <1>3, <2>4, <2>5 DEF InstructionsInv
<1>6. CASE /\ i.op \in ShiftedOps
           /\ \E e : I!Decode(i) = <<I!Entry(i.type, I!Source(i.rb), i.amt, 0), e>>
                       /\ Says(i, e, ShiftSink)
  <2>1. PICK e : /\ I!Decode(i) = <<I!Entry(i.type, I!Source(i.rb), i.amt, 0), e>>
                 /\ Says(i, e, ShiftSink)
    BY <1>6
  <2>2. UnderWay'
    <3>1. I!Source(ir.rb)' = I!Source(i.rb)
      BY <1>2, <1>a DEF I!Source
    <3>2. inst' = <<I!Entry(ir.type, I!Source(ir.rb), ir.amt, 0)', e>>
      BY <1>a, <2>1, <3>1 DEF I!Entry
    <3> QED BY <1>2, <1>4, <1>6, <1>a, <2>1, <3>2 DEF UnderWay
  <2>3. RoomKept'
    <3>1. inst' # <<>> /\ Len(inst') = 2
      BY <1>a, <2>1
    <3>2. inst' # I!Linkage
      BY <3>1 DEF I!Linkage
    <3> QED BY <1>2, <3>1, <3>2, InstructionConstants DEF RoomKept, I!Linkage, I!Entry
  <2> QED BY <1>1, <1>3, <2>2, <2>3 DEF InstructionsInv
<1> QED BY <1>2, <1>5, <1>6, Decoded

\* What software sees of the registers.
Seen == [q \in Registers |-> reg[q]]

\* XR_NEXT completes an instruction that writes a register, and one that writes none.
LEMMA Advanced ==
  ASSUME InstructionsInv, ir # None, NEW e, inst = <<e>>, NEW registers, I!Advance(registers),
         registers = reg \/ \E r \in Registers : \E v : registers = [reg EXCEPT ![r] = v]
  PROVE  /\ InstructionsInv'
         /\ I!A!Complete([q \in Registers |-> registers[q]], I!A!After)
<1>1. /\ reg' = registers /\ ip' = I!After /\ slot' = slot + 1
      /\ inst' \in {I!Linkage} \cup (IF I!Full(slot + 1) THEN {} ELSE {<<>>})
      /\ ir' = None /\ access' = None /\ UNCHANGED <<tbmiss, trap>>
  BY DEF I!Advance
<1>2. RegistersKept'
  BY <1>1, RegisterWritten DEF InstructionsInv, RegistersKept
<1>3. InstructionsInv'
  BY <1>1, <1>2, KeptAfter
<1>4. I!A!After = I!After
  BY SameArithmetic
<1> QED BY <1>1, <1>3, <1>4 DEF I!A!Complete, I!A!Done

\* An instruction that leaves the block.
LEMMA Departed ==
  ASSUME InstructionsInv, NEW registers, NEW next, I!Leave(registers, next),
         registers = reg \/ \E r \in Registers : \E v : registers = [reg EXCEPT ![r] = v]
  PROVE  /\ InstructionsInv'
         /\ I!A!Complete([q \in Registers |-> registers[q]], next)
<1>1. /\ reg' = registers /\ ip' = next /\ slot' = 0 /\ inst' = <<>>
      /\ ir' = None /\ access' = None /\ UNCHANGED <<tbmiss, trap>>
  BY DEF I!Leave
<1>2. RegistersKept'
  BY <1>1, RegisterWritten DEF InstructionsInv, RegistersKept
<1>3. InstructionsInv'
  BY <1>1, <1>2, KeptAfter
<1> QED BY <1>1, <1>3 DEF I!A!Complete, I!A!Done

\* The same, of an instruction that writes no register.
LEMMA AdvancedWithout ==
  ASSUME InstructionsInv, ir # None, NEW e, inst = <<e>>, I!Advance(reg)
  PROVE  InstructionsInv' /\ I!A!Complete([q \in Registers |-> reg[q]], I!A!After)
<1>1. PICK registers : registers = reg
  OBVIOUS
<1>2. I!Advance(registers)
  BY <1>1
<1> QED BY <1>1, <1>2, Advanced

\* And of one that leaves the block.
LEMMA DepartedWithout ==
  ASSUME InstructionsInv, NEW next, I!Leave(reg, next)
  PROVE  InstructionsInv' /\ I!A!Complete([q \in Registers |-> reg[q]], next)
<1>1. PICK registers : registers = reg
  OBVIOUS
<1>2. I!Leave(registers, next)
  BY <1>1
<1> QED BY <1>1, <1>2, Departed

\* XrBasicException, in an instruction or instead of one.
LEMMA Raised ==
  ASSUME InstructionsInv, NEW cause, NEW epc, I!Raise(cause, epc),
         reg' = reg \/ \E r \in Registers : \E v : reg' = [reg EXCEPT ![r] = v]
  PROVE  InstructionsInv' /\ I!A!Raise(cause, epc)
<1>1. /\ slot' = 0 /\ inst' = <<>> /\ ir' = None /\ access' = None
  BY DEF I!Raise
<1>2. RegistersKept'
  BY RegisterWritten DEF InstructionsInv, RegistersKept
<1>3. InstructionsInv'
  BY <1>1, <1>2, KeptAfter
<1> QED BY <1>3 DEF I!Raise, I!A!Raise, I!A!Done

\* A register written by the interpreter is one written of those software sees.
LEMMA WrittenSeen ==
  ASSUME RegistersKept, NEW r \in Registers, NEW v
  PROVE  [q \in Registers |-> [reg EXCEPT ![r] = v][q]] = [Seen EXCEPT ![r] = v]
BY DEF RegistersKept, Seen

\* The instructions that compute a register: what they compute is what the architecture says.
LEMMA ComputeImplements ==
  ASSUME InstructionsInv,
         I!ExecuteLogic \/ I!ExecuteDivide \/ I!ExecuteShift \/ I!ExecuteImmediate \/ I!ExecuteAdr
  PROVE  InstructionsInv' /\ I!A!Compute
<1>a. PICK f : f = inst[1].f
  OBVIOUS
<1>1. /\ inst # <<>> /\ access = None /\ UNCHANGED locked
      /\ f \in I!LogicOps \cup I!DivideOps \cup {"shift", "adr"} \cup I!ImmediateOps
  BY <1>a DEF I!ExecuteLogic, I!ExecuteDivide, I!ExecuteShift, I!ExecuteImmediate, I!ExecuteAdr,
     I!Executing, I!This
<1>2. f \notin I!Shifts \cup {"linkage"}
  BY <1>1 DEF I!LogicOps, I!DivideOps, I!ImmediateOps, I!Shifts
<1>3. ir # None /\ ir \in I!Formats
  BY <1>1, <1>2, <1>a, AtLastEntry
<1>4. PICK e, c : /\ inst = <<e>> /\ inst[1] = e /\ e.f = f /\ Says(ir, e, c)
                  /\ ir.op \in ShiftedOps => reg[c] = I!A!Operand
  BY <1>1, <1>2, <1>a, AtLastEntry
<1>5. /\ ir.rd \in Registers /\ ir.ra \in Registers /\ ir.rb \in Registers
      /\ reg[I!Source(ir.ra)] = I!A!Read(ir.ra) /\ reg[I!Source(ir.rb)] = I!A!Read(ir.rb)
  BY <1>3, InstructionConstants, SourceReads DEF InstructionsInv
<1>6. /\ I!Ra = reg[e.b] /\ I!Rb = reg[e.c]
  BY <1>4 DEF I!Ra, I!Rb, I!This
<1>7. /\ ir.op \in I!LogicOps \cup I!DivideOps \cup I!ImmediateOps \cup {"shift", "adr"}
      /\ e.a = ir.rd /\ I!Advance([reg EXCEPT ![e.a] = I!A!Result])
  <2> USE DEF I!LogicOps, I!DivideOps, I!ImmediateOps
  <2>1. CASE I!ExecuteLogic
    <3>1. f \in I!LogicOps /\ I!Advance([reg EXCEPT ![e.a] = I!Logic(f, I!Ra, I!Rb)])
      BY <1>4, <1>a, <2>1 DEF I!ExecuteLogic, I!This
    <3>2. ir.op = f /\ e.a = ir.rd /\ I!Ra = I!A!Read(ir.ra) /\ I!Rb = I!A!Operand
      BY <1>4, <1>5, <1>6, <3>1 DEF Says, ShiftedOps
    <3>3. I!A!Result = I!Logic(f, I!Ra, I!Rb)
      BY <3>1, <3>2, SameArithmetic, SameOps DEF I!A!Result
    <3> QED BY <3>1, <3>2, <3>3
  <2>2. CASE I!ExecuteDivide
    <3>1. f \in I!DivideOps /\ I!Advance([reg EXCEPT ![e.a] = I!Divide(f, I!Ra, I!Rb)])
      BY <1>4, <1>a, <2>2 DEF I!ExecuteDivide, I!This
    <3>2. ir.op = f /\ e.a = ir.rd /\ I!Ra = I!A!Read(ir.ra) /\ I!Rb = I!A!Operand
      BY <1>4, <1>5, <1>6, <3>1 DEF Says, ShiftedOps
    <3>3. I!A!Result = I!Divide(f, I!Ra, I!Rb)
      BY <3>1, <3>2, SameArithmetic, SameOps DEF I!A!Result
    <3> QED BY <3>1, <3>2, <3>3
  <2>3. CASE I!ExecuteShift
    <3>1. f = "shift" /\ I!Advance([reg EXCEPT ![e.a] = I!Shift(ir.type, I!Rb, I!Ra % Bits)])
      BY <1>4, <1>a, <2>3 DEF I!ExecuteShift, I!This
    <3>2. ir.op = f /\ e.a = ir.rd /\ I!Ra = I!A!Read(ir.ra) /\ I!Rb = I!A!Read(ir.rb)
      BY <1>4, <1>5, <1>6, <3>1 DEF Says
    <3>3. I!A!Result = I!Shift(ir.type, I!Rb, I!Ra % Bits)
      BY <3>1, <3>2, SameArithmetic, SameOps DEF I!A!Result
    <3> QED BY <3>1, <3>2, <3>3
  <2>4. CASE I!ExecuteImmediate
    <3>1. /\ f \in I!ImmediateOps
          /\ I!Advance([reg EXCEPT ![e.a] = I!Logic(I!A!OfImmediate(f), I!Ra, e.c)])
      BY <1>4, <1>a, <2>4 DEF I!ExecuteImmediate, I!This
    <3>2. /\ ir.op \in I!ImmediateOps /\ f = IF ir.op = "lui" THEN "ori" ELSE ir.op
          /\ e.a = ir.rd /\ I!Ra = I!A!Read(ir.ra) /\ e.c = I!A!Immediate(ir.op, ir.imm)
      BY <1>4, <1>5, <1>6, <3>1 DEF Says
    <3>3. I!A!OfImmediate(f) = I!A!OfImmediate(ir.op)
      BY <3>2 DEF I!A!OfImmediate
    <3>4. I!A!Result = I!Logic(I!A!OfImmediate(f), I!Ra, e.c)
      BY <3>2, <3>3, SameArithmetic, SameOps DEF I!A!Result
    <3> QED BY <3>1, <3>2, <3>4
  <2>5. CASE I!ExecuteAdr
    <3>1. f = "adr" /\ I!Advance([reg EXCEPT ![e.a] = e.c])
      BY <1>4, <1>a, <2>5 DEF I!ExecuteAdr, I!This
    <3>2. ir.op = f /\ e.a = ir.rd /\ e.c = I!Word(ip + ir.imm)
      BY <1>4, <3>1 DEF Says
    <3>3. I!A!Result = e.c
      BY <3>1, <3>2, SameArithmetic, SameOps DEF I!A!Result
    <3> QED BY <3>1, <3>2, <3>3
  <2> QED BY <2>1, <2>2, <2>3, <2>4, <2>5
<1>b. PICK v : v = I!A!Result
  OBVIOUS
<1>8. /\ InstructionsInv'
      /\ I!A!Complete([q \in Registers |-> [reg EXCEPT ![ir.rd] = v][q]], I!A!After)
  BY <1>3, <1>4, <1>5, <1>7, <1>b, Advanced
<1>9. I!A!Complete([Seen EXCEPT ![ir.rd] = I!A!Result], I!A!After)
  BY <1>5, <1>8, <1>b, WrittenSeen DEF InstructionsInv, I!A!Complete
<1> QED BY <1>1, <1>3, <1>7, <1>8, <1>9, SameOps DEF I!A!Compute, I!A!Executing, Seen

\* MFCR: some value.
LEMMA ReadControlImplements ==
  ASSUME InstructionsInv, I!ExecuteMfcr
  PROVE  InstructionsInv' /\ I!A!ReadControl
<1>1. inst # <<>> /\ access = None /\ inst[1].f = "mfcr" /\ UNCHANGED locked
  BY DEF I!ExecuteMfcr, I!Executing, I!This
<1>2. PICK e : /\ ir # None /\ ir \in I!Formats /\ inst = <<e>>
               /\ e.f = "mfcr" /\ ir.op = "mfcr" /\ e.a = ir.rd
  BY <1>1, AtLastEntry DEF I!Shifts, Says
<1>3. PICK v \in I!Words : I!Advance([reg EXCEPT ![ir.rd] = v])
  BY <1>2 DEF I!ExecuteMfcr, I!This
<1>4. ir.rd \in Registers
  BY <1>2, InstructionConstants
<1>5. /\ InstructionsInv'
      /\ I!A!Complete([q \in Registers |-> [reg EXCEPT ![ir.rd] = v][q]], I!A!After)
  BY <1>2, <1>3, <1>4, Advanced
<1>6. I!A!Complete([Seen EXCEPT ![ir.rd] = v], I!A!After)
  BY <1>4, <1>5, WrittenSeen DEF InstructionsInv
<1> QED BY <1>1, <1>2, <1>3, <1>5, <1>6, SameOps DEF I!A!ReadControl, I!A!Executing, Seen

\* The fences and PAUSE, also the one that ends the timeslice.
LEMMA NothingImplements ==
  ASSUME InstructionsInv, I!ExecuteFence \/ I!ExecutePause
  PROVE  InstructionsInv' /\ I!A!Nothing
<1>1. /\ inst # <<>> /\ access = None /\ inst[1].f \in {"fence", "pause"} /\ UNCHANGED locked
      /\ I!Advance(reg) \/ I!Leave(reg, I!After)
  BY DEF I!ExecuteFence, I!ExecutePause, I!Executing, I!This
<1>2. PICK e : ir # None /\ inst = <<e>> /\ ir.op \in {"fence", "pause"}
  BY <1>1, AtLastEntry DEF I!Shifts, Says
<1>3. InstructionsInv' /\ I!A!Complete([q \in Registers |-> reg[q]], I!A!After)
  <2>1. I!Advance(reg) => InstructionsInv' /\ I!A!Complete([q \in Registers |-> reg[q]], I!A!After)
    BY <1>2, AdvancedWithout
  <2>2. I!Leave(reg, I!A!After) =>
          InstructionsInv' /\ I!A!Complete([q \in Registers |-> reg[q]], I!A!After)
    <3>1. PICK n : n = I!A!After
      OBVIOUS
    <3>2. I!Leave(reg, n) => InstructionsInv' /\ I!A!Complete([q \in Registers |-> reg[q]], n)
      BY DepartedWithout
    <3> QED BY <3>1, <3>2 DEF I!Leave, I!A!Complete
  <2> QED BY <1>1, <2>1, <2>2, SameArithmetic DEF I!Leave
<1> QED BY <1>1, <1>2, <1>3 DEF I!A!Nothing, I!A!Executing

\* Branches and jumps: to the same target, with the same link.
LEMMA BranchOrJumpImplements ==
  ASSUME InstructionsInv, I!ExecuteBranch \/ I!ExecuteJump \/ I!ExecuteJalr
  PROVE  InstructionsInv' /\ I!A!BranchOrJump
<1>a. PICK f : f = inst[1].f
  OBVIOUS
<1>1. /\ inst # <<>> /\ access = None
      /\ f \in I!Branches \cup {"b", "j", "jal", "jalr"}
  BY <1>a DEF I!ExecuteBranch, I!ExecuteJump, I!ExecuteJalr, I!Executing, I!This
<1>2. f \notin I!Shifts \cup {"linkage"}
  BY <1>1 DEF I!Branches, I!Shifts
<1>3. ir # None /\ ir \in I!Formats
  BY <1>1, <1>2, <1>a, AtLastEntry
<1>4. PICK e, c : inst = <<e>> /\ inst[1] = e /\ e.f = f /\ Says(ir, e, c)
  BY <1>1, <1>2, <1>a, AtLastEntry
<1>5. /\ ir.rd \in Registers /\ ir.ra \in Registers /\ LR \in Registers
      /\ reg[I!Source(ir.ra)] = I!A!Read(ir.ra) /\ reg[I!Source(ir.rd)] = I!A!Read(ir.rd)
  BY <1>3, InstructionConstants, SourceReads DEF InstructionsInv
<1>6. RegistersKept /\ I!A!After = I!After
  BY SameArithmetic DEF InstructionsInv
<1>7. CASE I!ExecuteBranch
  <2>1. /\ f \in I!Branches /\ UNCHANGED locked
        /\ I!Leave(reg, IF I!Taken(f, reg[e.a]) THEN e.c ELSE I!After)
    BY <1>4, <1>7 DEF I!ExecuteBranch, I!This, I!Rd
  <2>2. ir.op = f /\ reg[e.a] = I!A!Read(ir.rd) /\ e.c = ir.target
    BY <1>4, <1>5, <2>1 DEF Says
  <2>3. I!Leave(reg, IF I!A!Taken(ir.op, I!A!Read(ir.rd)) THEN ir.target ELSE I!A!After)
    BY <1>6, <2>1, <2>2, SameArithmetic
  <2>4. /\ InstructionsInv'
        /\ I!A!Complete([q \in Registers |-> reg[q]],
             IF I!A!Taken(ir.op, I!A!Read(ir.rd)) THEN ir.target ELSE I!A!After)
    <3>1. PICK n : n = IF I!A!Taken(ir.op, I!A!Read(ir.rd)) THEN ir.target ELSE I!A!After
      OBVIOUS
    <3>2. I!Leave(reg, n)
      BY <2>3, <3>1 DEF I!Leave
    <3>3. InstructionsInv' /\ I!A!Complete([q \in Registers |-> reg[q]], n)
      BY <3>2, DepartedWithout
    <3> QED BY <3>1, <3>3 DEF I!A!Complete
  <2> QED BY <1>1, <1>3, <2>1, <2>2, <2>4, SameOps DEF I!A!BranchOrJump, I!A!Executing
<1>8. CASE I!ExecuteJump
  <2>1. /\ f \in {"b", "j", "jal"} /\ UNCHANGED locked
        /\ I!Leave(IF f = "jal" THEN [reg EXCEPT ![LR] = I!After] ELSE reg, e.c)
    BY <1>4, <1>8 DEF I!ExecuteJump, I!This
  <2>a. PICK n : n = ir.target
    OBVIOUS
  <2>2. e.c = n
    BY <1>4, <2>1, <2>a DEF Says
  <2>3. CASE f = "b"
    <3>1. ir.op = "beq" /\ I!Source(ir.rd) = FakeZero
      BY <1>4, <2>3 DEF Says
    <3>2. I!A!Taken(ir.op, I!A!Read(ir.rd))
      BY <1>5, <1>6, <3>1 DEF RegistersKept, I!A!Taken
    <3>3. InstructionsInv' /\ I!A!Complete([q \in Registers |-> reg[q]], n)
      <4>1. I!Leave(reg, n)
        BY <2>1, <2>2, <2>3 DEF I!Leave
      <4> QED BY <4>1, DepartedWithout
    <3>4. I!A!Complete([q \in Registers |-> reg[q]],
            IF I!A!Taken(ir.op, I!A!Read(ir.rd)) THEN ir.target ELSE I!A!After)
      BY <2>a, <3>2, <3>3 DEF I!A!Complete
    <3>5. ir.op \in I!A!Branches
      BY <3>1 DEF I!A!Branches
    <3> QED BY <1>1, <1>3, <2>1, <3>3, <3>4, <3>5 DEF I!A!BranchOrJump, I!A!Executing
  <2>4. CASE f = "j"
    <3>1. ir.op = "j"
      BY <1>4, <2>4 DEF Says
    <3>2. InstructionsInv' /\ I!A!Complete([q \in Registers |-> reg[q]], n)
      <4>1. I!Leave(reg, n)
        BY <2>1, <2>2, <2>4 DEF I!Leave
      <4> QED BY <4>1, DepartedWithout
    <3>3. I!A!Complete([q \in Registers |-> reg[q]], ir.target)
      BY <2>a, <3>2 DEF I!A!Complete
    <3> QED BY <1>1, <1>3, <2>1, <3>1, <3>2, <3>3 DEF I!A!BranchOrJump, I!A!Executing
  <2>5. CASE f = "jal"
    <3>1. ir.op = "jal"
      BY <1>4, <2>5 DEF Says
    <3>2. /\ InstructionsInv'
          /\ I!A!Complete([q \in Registers |-> [reg EXCEPT ![LR] = I!After][q]], n)
      <4>1. PICK registers : registers = [reg EXCEPT ![LR] = I!After]
        OBVIOUS
      <4>2. I!Leave(registers, n)
        BY <2>1, <2>2, <2>5, <4>1 DEF I!Leave
      <4>3. InstructionsInv' /\ I!A!Complete([q \in Registers |-> registers[q]], n)
        <5>1. \E r \in Registers : \E v : registers = [reg EXCEPT ![r] = v]
          BY <1>5, <4>1
        <5> QED BY <4>2, <5>1, Departed
      <4> QED BY <4>1, <4>3 DEF I!A!Complete
    <3>3. I!A!Complete([Seen EXCEPT ![LR] = I!A!After], ir.target)
      BY <1>5, <1>6, <2>a, <3>2, WrittenSeen DEF I!A!Complete
    <3> QED BY <1>1, <1>3, <2>1, <3>1, <3>2, <3>3 DEF I!A!BranchOrJump, I!A!Executing, Seen
  <2> QED BY <2>1, <2>3, <2>4, <2>5
<1>9. CASE I!ExecuteJalr
  <2>a. PICK to : to = I!Word(I!A!Read(ir.ra) + ir.imm * InstBytes)
    OBVIOUS
  <2>1. f = "jalr"
    BY <1>9, <1>a DEF I!ExecuteJalr, I!This
  <2>2. ir.op = "jalr" /\ e.a = ir.rd /\ e.b = I!Source(ir.ra) /\ e.c = ir.imm * InstBytes
    BY <1>4, <2>1 DEF Says
  <2>3. I!Word(I!Ra + e.c) = to
    BY <1>4, <1>5, <2>2, <2>a DEF I!Ra, I!This
  <2>4. IF to % InstBytes # 0
        THEN I!Raise("UNA", to) /\ reg' = [reg EXCEPT ![ir.rd] = I!After]
        ELSE I!Leave([reg EXCEPT ![ir.rd] = I!After], to) /\ UNCHANGED locked
    BY <1>4, <1>9, <2>2, <2>3 DEF I!ExecuteJalr, I!This
  <2>5. [q \in Registers |-> [reg EXCEPT ![ir.rd] = I!After][q]] = [Seen EXCEPT ![ir.rd] = I!A!After]
    BY <1>5, <1>6, WrittenSeen
  <2>6. to = I!A!Word(I!A!Read(ir.ra) + ir.imm * InstBytes)
    BY <2>a, SameArithmetic
  <2>7. CASE to % InstBytes # 0
    <3>1. InstructionsInv' /\ I!A!Raise("UNA", to)
      BY <1>5, <2>4, <2>7, Raised
    <3>2. [q \in Registers |-> reg'[q]] = [Seen EXCEPT ![ir.rd] = I!A!After]
      BY <2>4, <2>5, <2>7
    <3> QED BY <1>1, <1>3, <2>2, <2>6, <2>7, <3>1, <3>2
            DEF I!A!BranchOrJump, I!A!Executing, Seen, I!A!Raise
  <2>8. CASE to % InstBytes = 0
    <3>1. /\ InstructionsInv' /\ UNCHANGED locked
          /\ I!A!Complete([q \in Registers |-> [reg EXCEPT ![ir.rd] = I!After][q]], to)
      BY <1>5, <2>4, <2>8, Departed
    <3>2. I!A!Complete([Seen EXCEPT ![ir.rd] = I!A!After],
                       I!A!Word(I!A!Read(ir.ra) + ir.imm * InstBytes))
      BY <2>5, <2>6, <3>1 DEF I!A!Complete
    <3>3. I!A!Word(I!A!Read(ir.ra) + ir.imm * InstBytes) % InstBytes = 0
      BY <2>6, <2>8
    <3> QED BY <1>1, <1>3, <2>2, <3>1, <3>2, <3>3 DEF I!A!BranchOrJump, I!A!Executing, Seen
  <2> QED BY <2>7, <2>8
<1> QED BY <1>7, <1>8, <1>9

\* The instructions that raise an exception.
LEMMA SoftwareImplements ==
  ASSUME InstructionsInv, I!ExecuteTrap
  PROVE  InstructionsInv' /\ I!A!Software
<1>1. /\ inst # <<>> /\ access = None /\ inst[1].f \in {"illegal", "sys", "brk"} /\ UNCHANGED reg
      /\ \/ inst[1].f = "illegal" /\ I!Raise("INV", ip)
         \/ inst[1].f = "sys" /\ I!Raise("SYS", I!After)
         \/ inst[1].f = "brk" /\ I!Raise("BRK", I!After)
  BY DEF I!ExecuteTrap, I!Executing, I!This
<1>2. ir # None /\ ir.op = inst[1].f
  BY <1>1, AtLastEntry DEF I!Shifts, Says
<1>3. /\ InstructionsInv'
      /\ \/ ir.op = "illegal" /\ I!A!Raise("INV", ip)
         \/ ir.op = "sys" /\ I!A!Raise("SYS", I!A!After)
         \/ ir.op = "brk" /\ I!A!Raise("BRK", I!A!After)
  BY <1>1, <1>2, Raised, SameArithmetic
<1> QED BY <1>1, <1>2, <1>3 DEF I!A!Software, I!A!Executing

\* What waits for memory stays as it is.
LEMMA KeptWaiting ==
  ASSUME InstructionsInv, ir # None, UNCHANGED <<reg, ip, tbmiss, locked, ir, inst, slot, trap>>
  PROVE  InstructionsInv'
<1>1. RegistersKept' /\ BetweenTwo'
  BY DEF InstructionsInv, RegistersKept, BetweenTwo
<1>2. UnderWay'
  <2>1. I!A!Operand' = I!A!Operand
    BY DEF I!A!Operand, I!A!Shift, I!A!Read, I!A!Word, I!A!Size, I!A!Signed, I!A!Or, I!A!Bitwise,
       I!A!Bool, I!A!Bit
  <2>2. ASSUME NEW e, NEW c, Says(ir, e, c) PROVE Says(ir, e, c)'
    BY <2>2 DEF Says, I!Source
  <2>3. I!Entry(ir.type, I!Source(ir.rb), ir.amt, 0)' = I!Entry(ir.type, I!Source(ir.rb), ir.amt, 0)
    BY DEF I!Entry, I!Source
  <2> QED BY <2>1, <2>2, <2>3 DEF InstructionsInv, UnderWay
<1>3. RoomKept'
  BY DEF InstructionsInv, RoomKept, I!Linkage, I!Entry
<1> QED BY <1>1, <1>2, <1>3 DEF InstructionsInv

\* The shift of an operand: software sees nothing of it.
LEMMA VirtualShiftImplements ==
  ASSUME InstructionsInv, I!ExecuteVirtualShift
  PROVE  InstructionsInv' /\ UNCHANGED I!A!vars
<1>1. /\ inst # <<>> /\ inst[1].f \in I!Shifts
      /\ inst' = Tail(inst) /\ slot' = slot + 1
      /\ UNCHANGED <<ip, tbmiss, locked, ir, access, trap>>
      /\ reg' = [reg EXCEPT ![ShiftSink] = I!Shift(inst[1].f, reg[inst[1].a], inst[1].b)]
  BY DEF I!ExecuteVirtualShift, I!Executing, I!This, I!Rd
<1>2. ir # None
  BY <1>1 DEF InstructionsInv, BetweenTwo, I!Linkage, I!Entry, I!Shifts
<1>3. /\ ir \in I!Formats /\ ir \in Instrs /\ trap = None
      /\ ir.op \in ShiftedOps
      /\ \E e : /\ inst = <<I!Entry(ir.type, I!Source(ir.rb), ir.amt, 0), e>>
                /\ Says(ir, e, ShiftSink)
  <2>1. ir \in Instrs /\ trap = None /\ ir \in I!Formats
    BY <1>2, InstructionConstants DEF InstructionsInv, UnderWay
  <2>2. ASSUME NEW e, NEW c, inst = <<e>>, Says(ir, e, c) PROVE FALSE
    <3>1. inst[1] = e
      BY <2>2
    <3>2. e.f \notin I!Shifts
      BY <2>2 DEF Says
    <3> QED BY <1>1, <3>1, <3>2
  <2>3. UnderWay
    BY DEF InstructionsInv
  <2> QED BY <1>2, <2>1, <2>2, <2>3 DEF UnderWay
<1>4. PICK e : /\ inst = <<I!Entry(ir.type, I!Source(ir.rb), ir.amt, 0), e>>
               /\ Says(ir, e, ShiftSink)
  BY <1>3
<1>5. inst' = <<e>> /\ Len(inst) = 2
  BY <1>1, <1>4
<1>6. inst[1].f = ir.type /\ inst[1].a = I!Source(ir.rb) /\ inst[1].b = ir.amt
  BY <1>4 DEF I!Entry
<1>7. ir.rb \in Registers /\ reg[I!Source(ir.rb)] = I!A!Read(ir.rb)
  BY <1>3, InstructionConstants, SourceReads DEF InstructionsInv
<1>8. reg' = [reg EXCEPT ![ShiftSink] = I!A!Operand]
  <2>1. I!Shift(ir.type, I!A!Read(ir.rb), ir.amt) = I!A!Operand
    BY SameArithmetic DEF I!A!Operand
  <2> QED BY <1>1, <1>6, <1>7, <2>1
<1>9. /\ \A r \in Registers : reg'[r] = reg[r]
      /\ reg'[ShiftSink] = I!A!Operand
      /\ [r \in Registers |-> reg'[r]] = [r \in Registers |-> reg[r]]
  BY <1>8, InstructionConstants DEF InstructionsInv, RegistersKept
<1>10. I!A!Operand' = I!A!Operand
  <2>1. I!A!Read(ir.rb)' = I!A!Read(ir.rb)
    BY <1>1, <1>9 DEF I!A!Read
  <2> QED BY <1>1, <2>1 DEF I!A!Operand, I!A!Shift, I!A!Word, I!A!Size, I!A!Signed, I!A!Or,
     I!A!Bitwise, I!A!Bool, I!A!Bit
<1>11. UnderWay'
  <2>1. Says(ir, e, ShiftSink)'
    BY <1>1, <1>4 DEF Says, I!Source
  <2> QED BY <1>1, <1>3, <1>5, <1>9, <1>10, <2>1 DEF UnderWay
<1>12. RegistersKept' /\ BetweenTwo'
  BY <1>1, <1>2, <1>8, InstructionConstants DEF InstructionsInv, RegistersKept, BetweenTwo
<1>13. RoomKept'
  <2>1. slot \in Nat /\ slot + 2 <= BlockInsts + 1
    BY <1>2, <1>5 DEF InstructionsInv, RoomKept
  <2>2. e.f # "linkage" /\ inst' # <<>> /\ Len(inst') = 1
    BY <1>4, <1>5 DEF Says
  <2>3. slot' \in Nat /\ slot' <= BlockInsts + 1 /\ slot' + Len(inst') <= BlockInsts + 1
    <3>1. slot' = slot + 1
      BY <1>1
    <3>2. BlockInsts \in Nat
      BY InstructionConstants
    <3> QED BY <2>1, <2>2, <3>1, <3>2
  <2> QED BY <2>2, <2>3 DEF RoomKept
<1>14. UNCHANGED I!A!vars
  BY <1>1, <1>9 DEF I!A!vars
<1> QED BY <1>11, <1>12, <1>13, <1>14 DEF InstructionsInv

\* The exit from the block: nor of that.
LEMMA LinkageImplements ==
  ASSUME InstructionsInv, I!ExecuteLinkage
  PROVE  InstructionsInv' /\ UNCHANGED I!A!vars
<1>1. /\ inst # <<>> /\ inst[1].f = "linkage" /\ slot' = 0 /\ inst' = <<>>
      /\ UNCHANGED <<reg, ip, tbmiss, locked, ir, access, trap>> /\ access = None
  BY DEF I!ExecuteLinkage, I!Executing, I!This
<1>2. ir = None
  <2> SUFFICES ASSUME ir # None PROVE FALSE
    OBVIOUS
  <2>1. ir.type \in I!Shifts
    BY InstructionConstants DEF InstructionsInv, UnderWay
  <2> QED BY <1>1, <2>1 DEF InstructionsInv, UnderWay, Says, I!Entry, I!Shifts
<1>3. InstructionsInv'
  <2>1. RegistersKept'
    BY <1>1 DEF InstructionsInv, RegistersKept
  <2> QED BY <1>1, <1>2, <2>1, KeptAfter
<1> QED BY <1>1, <1>3 DEF I!A!vars

\* The handler of an exception begins or returns.
LEMMA ResumeImplements ==
  ASSUME InstructionsInv, I!Resume
  PROVE  InstructionsInv' /\ I!A!Resume
<1>1. /\ trap # None /\ UNCHANGED <<reg, ir, inst, slot, access>>
      /\ trap' = None /\ ip' \in I!A!Ips /\ tbmiss' \in BOOLEAN /\ locked' \in {locked, FALSE}
  BY DEF I!Resume
<1>2. ir = None
  BY <1>1 DEF InstructionsInv, UnderWay
<1>3. InstructionsInv'
  BY <1>1, <1>2 DEF InstructionsInv, RegistersKept, BetweenTwo, UnderWay, RoomKept,
     I!Linkage, I!Entry
<1> QED BY <1>1, <1>3 DEF I!A!Resume

\* An interrupt comes between two instructions.
LEMMA InterruptImplements ==
  ASSUME InstructionsInv, I!Interrupt
  PROVE  InstructionsInv' /\ I!A!Interrupt
<1>1. inst = <<>> /\ trap = None /\ I!Raise("INT", ip) /\ UNCHANGED reg
  BY DEF I!Interrupt
<1>2. ir = None
  BY <1>1 DEF InstructionsInv, UnderWay
<1>3. PICK at : at = ip
  OBVIOUS
<1>4. I!Raise("INT", at)
  BY <1>1, <1>3 DEF I!Raise
<1>5. InstructionsInv' /\ I!A!Raise("INT", at)
  BY <1>1, <1>4, Raised
<1> QED BY <1>1, <1>2, <1>3, <1>5 DEF I!A!Interrupt, I!A!Raise

\* The instructions that access memory ask for what the architecture says; an SC without an LL
\* before it asks for nothing.
LEMMA RequestImplements ==
  ASSUME InstructionsInv,
         \/ I!ExecuteRegOffset \/ I!ExecuteLoadImmOffset \/ I!ExecuteStoreImmOffset
         \/ I!ExecuteLL \/ I!ExecuteSC
  PROVE  InstructionsInv' /\ (I!A!Access \/ I!A!Refused)
<1>a. PICK f : f = inst[1].f
  OBVIOUS
<1>1. inst # <<>> /\ access = None /\ f \in MemoryOps
  BY <1>a DEF I!ExecuteRegOffset, I!ExecuteLoadImmOffset, I!ExecuteStoreImmOffset, I!ExecuteLL,
     I!ExecuteSC, I!Executing, I!This, MemoryOps
<1>2. f \notin I!Shifts \cup {"linkage"}
  BY <1>1 DEF I!Shifts, MemoryOps
<1>3. ir # None /\ ir \in I!Formats
  BY <1>1, <1>2, <1>a, AtLastEntry
<1>4. PICK e, c : /\ inst = <<e>> /\ inst[1] = e /\ e.f = f /\ Says(ir, e, c)
                  /\ ir.op \in ShiftedOps => reg[c] = I!A!Operand
  BY <1>1, <1>2, <1>a, AtLastEntry
<1>5. /\ ir.rd \in Registers
      /\ reg[I!Source(ir.ra)] = I!A!Read(ir.ra) /\ reg[I!Source(ir.rb)] = I!A!Read(ir.rb)
      /\ reg[I!Source(ir.rd)] = I!A!Read(ir.rd)
  BY <1>3, InstructionConstants, SourceReads DEF InstructionsInv
<1>6. ir.op = f
  BY <1>1, <1>4 DEF Says, MemoryOps
<1>7. I!Rd = reg[e.a] /\ I!Ra = reg[e.b] /\ I!Rb = reg[e.c]
  BY <1>4 DEF I!Rd, I!Ra, I!Rb, I!This
<1>b. PICK offset : offset = ir.imm * 2^Log[ir.size]
  OBVIOUS
\* The five requests, in the architecture's terms.
<1>8. CASE \/ I!ExecuteRegOffset \/ I!ExecuteLoadImmOffset \/ I!ExecuteStoreImmOffset
           \/ I!ExecuteLL \/ (I!ExecuteSC /\ locked)
  <2>1. /\ access' = I!A!Request /\ (f = "sc" => locked)
        /\ UNCHANGED <<reg, ip, tbmiss, locked, ir, inst, slot, trap>>
    <3>1. CASE I!ExecuteRegOffset
      <4>1. /\ f \in {"loadr", "storer"}
            /\ I!Request(f = "storer", I!Word(I!Ra + I!Rb), IF f = "storer" THEN I!Rd ELSE 0)
        BY <1>a, <3>1 DEF I!ExecuteRegOffset, I!This
      <4>2. /\ I!Ra = I!A!Read(ir.ra) /\ I!Rb = I!A!Operand
            /\ f = "storer" => I!Rd = I!A!Read(ir.rd)
        BY <1>4, <1>5, <1>6, <1>7, <4>1 DEF Says, ShiftedOps
      <4>3. I!A!Word(I!A!Read(ir.ra) + I!A!Operand) = I!Word(I!Ra + I!Rb)
        BY <4>2, SameArithmetic
      <4>4. I!A!Request = [write |-> f = "storer", size |-> ir.size,
                           addr |-> I!Word(I!Ra + I!Rb),
                           value |-> IF f = "storer" THEN I!Rd ELSE 0]
        BY <1>6, <4>1, <4>2, <4>3 DEF I!A!Request, I!A!StoreOps, I!A!LoadOps
      <4> QED BY <4>1, <4>4 DEF I!Request
    <3>2. CASE I!ExecuteLoadImmOffset
      <4>1. f = "load" /\ I!Request(FALSE, I!Word(I!Ra + e.c), 0)
        BY <1>4, <1>a, <3>2 DEF I!ExecuteLoadImmOffset, I!This
      <4>2. I!Ra = I!A!Read(ir.ra) /\ e.c = offset
        BY <1>4, <1>5, <1>7, <1>b, <4>1 DEF Says
      <4>3. I!A!Word(I!A!Read(ir.ra) + offset) = I!Word(I!Ra + e.c)
        BY <4>2, SameArithmetic
      <4>4. I!A!Request = [write |-> FALSE, size |-> ir.size, addr |-> I!Word(I!Ra + e.c),
                           value |-> 0]
        <5>1. (ir.op \in I!A!StoreOps) = FALSE
          BY <1>6, <4>1 DEF I!A!StoreOps
        <5> QED BY <1>6, <1>b, <4>1, <4>3, <5>1 DEF I!A!Request, I!A!LoadOps
      <4> QED BY <4>1, <4>4 DEF I!Request
    <3>3. CASE I!ExecuteStoreImmOffset
      <4>a. PICK v : v = IF f = "store" THEN I!Ra ELSE I!SignExt(e.b, RegisterBits)
        OBVIOUS
      <4>1. f \in {"store", "storei"} /\ I!Request(TRUE, I!Word(I!Rd + e.c), v)
        BY <1>4, <1>a, <3>3, <4>a DEF I!ExecuteStoreImmOffset, I!This, I!Request
      <4>2. /\ I!Rd = I!A!Read(ir.rd) /\ e.c = offset
            /\ f = "store" => I!Ra = I!A!Read(ir.ra)
            /\ f = "storei" => e.b = ir.ra
        BY <1>4, <1>5, <1>7, <1>b, <4>1 DEF Says
      <4>3. /\ I!A!Word(I!A!Read(ir.rd) + offset) = I!Word(I!Rd + e.c)
            /\ I!A!SignExt(e.b, RegisterBits) = I!SignExt(e.b, RegisterBits)
        BY <4>2, SameArithmetic
      <4>4. I!A!Request = [write |-> TRUE, size |-> ir.size, addr |-> I!Word(I!Rd + e.c),
                           value |-> v]
        BY <1>6, <1>b, <4>1, <4>2, <4>3, <4>a DEF I!A!Request, I!A!StoreOps, I!A!LoadOps
      <4> QED BY <4>1, <4>4 DEF I!Request
    <3>4. CASE I!ExecuteLL
      <4>1. f = "ll" /\ I!Request(FALSE, I!Ra, 0)
        BY <1>a, <3>4 DEF I!ExecuteLL, I!This
      <4>2. I!Ra = I!A!Read(ir.ra)
        BY <1>4, <1>5, <1>7, <4>1 DEF Says
      <4>3. I!A!Request = [write |-> FALSE, size |-> ir.size, addr |-> I!Ra, value |-> 0]
        <5>1. (ir.op \in I!A!StoreOps) = FALSE
          BY <1>6, <4>1 DEF I!A!StoreOps
        <5> QED BY <1>6, <4>1, <4>2, <5>1 DEF I!A!Request, I!A!LoadOps
      <4> QED BY <4>1, <4>3 DEF I!Request
    <3>5. CASE I!ExecuteSC /\ locked
      <4>1. f = "sc" /\ I!Request(TRUE, I!Ra, I!Rb)
        BY <1>a, <3>5 DEF I!ExecuteSC, I!This
      <4>2. I!Ra = I!A!Read(ir.ra) /\ I!Rb = I!A!Read(ir.rb)
        BY <1>4, <1>5, <1>7, <4>1 DEF Says
      <4>3. I!A!Request = [write |-> TRUE, size |-> ir.size, addr |-> I!Ra, value |-> I!Rb]
        BY <1>6, <4>1, <4>2 DEF I!A!Request, I!A!StoreOps, I!A!LoadOps
      <4> QED BY <3>5, <4>1, <4>3 DEF I!Request
    <3> QED BY <1>8, <3>1, <3>2, <3>3, <3>4, <3>5
  <2>2. InstructionsInv'
    BY <1>3, <2>1, KeptWaiting
  <2>3. ir.op \in I!A!LoadOps \cup I!A!StoreOps
    BY <1>1, <1>6 DEF I!A!LoadOps, I!A!StoreOps, MemoryOps
  <2> QED BY <1>1, <1>3, <1>6, <2>1, <2>2, <2>3 DEF I!A!Access, I!A!Executing
<1>9. CASE I!ExecuteSC /\ ~locked
  <2>1. f = "sc" /\ I!Advance([reg EXCEPT ![e.a] = 0]) /\ UNCHANGED locked
    BY <1>4, <1>9, <1>a DEF I!ExecuteSC, I!This
  <2>2. e.a = ir.rd
    BY <1>4, <2>1 DEF Says
  <2>3. /\ InstructionsInv'
        /\ I!A!Complete([q \in Registers |-> [reg EXCEPT ![ir.rd] = 0][q]], I!A!After)
    BY <1>3, <1>4, <1>5, <2>1, <2>2, Advanced
  <2>4. I!A!Complete([Seen EXCEPT ![ir.rd] = 0], I!A!After)
    BY <1>5, <2>3, WrittenSeen DEF InstructionsInv, I!A!Complete
  <2> QED BY <1>1, <1>3, <1>6, <1>9, <2>1, <2>3, <2>4 DEF I!A!Refused, I!A!Executing, Seen
<1> QED BY <1>8, <1>9

\* Memory answers, or does not.
LEMMA AnswerImplements ==
  ASSUME InstructionsInv, I!Answer
  PROVE  InstructionsInv' /\ I!A!Answer
<1>a. PICK f : f = inst[1].f
  OBVIOUS
<1>1. access # None /\ I!A!Aligned
  BY DEF I!Answer, I!Aligned, I!A!Aligned
<1>2. f \in MemoryOps /\ ir # None /\ inst # <<>>
  <2>1. f \in MemoryOps
    BY <1>a DEF I!Answer, I!This, MemoryOps
  <2>2. ir # None
    BY <1>1 DEF InstructionsInv, BetweenTwo
  <2>3. inst # <<>>
    <3>1. \/ \E e : inst = <<e>>
          \/ \E d, e : inst = <<d, e>>
      BY <2>2, Zenon DEF InstructionsInv, UnderWay
    <3> QED BY <3>1
  <2> QED BY <2>1, <2>2, <2>3
<1>3. f \notin I!Shifts \cup {"linkage"}
  BY <1>2 DEF I!Shifts, MemoryOps
<1>4. PICK e, c : inst = <<e>> /\ inst[1] = e /\ e.f = f /\ Says(ir, e, c)
  BY <1>2, <1>3, <1>a, AtLastEntry
<1>5. ir.op = f /\ ir.rd \in Registers
  BY <1>2, <1>3, <1>4, <1>a, AtLastEntry, InstructionConstants DEF Says, MemoryOps
<1>6. ASSUME NEW v, I!Advance([reg EXCEPT ![ir.rd] = v])
      PROVE  InstructionsInv' /\ I!A!Complete([Seen EXCEPT ![ir.rd] = v], I!A!After)
  <2>1. /\ InstructionsInv'
        /\ I!A!Complete([q \in Registers |-> [reg EXCEPT ![ir.rd] = v][q]], I!A!After)
    BY <1>2, <1>4, <1>5, <1>6, Advanced
  <2> QED BY <1>5, <2>1, WrittenSeen DEF InstructionsInv, I!A!Complete
<1>7. CASE /\ f \in {"loadr", "load", "ll"}
           /\ \E v \in I!Words : I!Advance([reg EXCEPT ![e.a] = v])
           /\ locked' = (locked \/ f = "ll")
  <2>1. e.a = ir.rd
    BY <1>4, <1>7 DEF Says
  <2> QED BY <1>1, <1>5, <1>6, <1>7, <2>1, SameOps DEF I!A!Answer, I!A!LoadOps, Seen
<1>8. CASE /\ f = "sc" /\ UNCHANGED locked
           /\ \E v \in {0, 1} : I!Advance([reg EXCEPT ![e.a] = v])
  <2>1. e.a = ir.rd
    BY <1>4, <1>8 DEF Says
  <2> QED BY <1>1, <1>5, <1>6, <1>8, <2>1 DEF I!A!Answer, Seen
<1>9. CASE f \in {"storer", "store", "storei"} /\ I!Advance(reg) /\ UNCHANGED locked
  <2>1. InstructionsInv' /\ I!A!Complete([q \in Registers |-> reg[q]], I!A!After)
    BY <1>2, <1>4, <1>9, AdvancedWithout
  <2> QED BY <1>1, <1>5, <1>9, <2>1 DEF I!A!Answer, I!A!StoreOps
<1> QED BY <1>4, <1>7, <1>8, <1>9, <1>a DEF I!Answer, I!This

\* Memory answers with a fault.
LEMMA FaultImplements ==
  ASSUME InstructionsInv, I!Fault
  PROVE  InstructionsInv' /\ I!A!Fault
<1>1. PICK at, cause : at = ip /\ cause = IF I!Aligned THEN "fault" ELSE "UNA"
  OBVIOUS
<1>2. access # None /\ I!Raise(cause, at) /\ UNCHANGED reg
  BY <1>1 DEF I!Fault, I!Raise
<1>3. InstructionsInv' /\ I!A!Raise(cause, at)
  BY <1>2, Raised
<1>4. I!A!Aligned <=> I!Aligned
  BY DEF I!A!Aligned, I!Aligned
<1> QED BY <1>1, <1>2, <1>3, <1>4 DEF I!A!Fault, I!A!Raise

\* A step of the interpreter keeps the invariant and is a step of the architecture, or nothing
\* that software sees.
LEMMA InstructionsStep ==
  ASSUME InstructionsInv, I!Next
  PROVE  InstructionsInv' /\ (I!A!vars' = I!A!vars \/ I!A!Next)
<1> USE DEF I!A!Next
<1>1. CASE I!Fetch
  BY <1>1, FetchImplements
<1>2. CASE I!Interrupt
  BY <1>2, InterruptImplements
<1>3. CASE I!Resume
  BY <1>3, ResumeImplements
<1>4. CASE I!ExecuteVirtualShift \/ I!ExecuteLinkage
  BY <1>4, VirtualShiftImplements, LinkageImplements
<1>5. CASE I!ExecuteLogic \/ I!ExecuteDivide \/ I!ExecuteShift \/ I!ExecuteImmediate \/ I!ExecuteAdr
  BY <1>5, ComputeImplements
<1>6. CASE I!ExecuteMfcr
  BY <1>6, ReadControlImplements
<1>7. CASE I!ExecuteFence \/ I!ExecutePause
  BY <1>7, NothingImplements
<1>8. CASE I!ExecuteBranch \/ I!ExecuteJump \/ I!ExecuteJalr
  BY <1>8, BranchOrJumpImplements
<1>9. CASE I!ExecuteTrap
  BY <1>9, SoftwareImplements
<1>10. CASE \/ I!ExecuteRegOffset \/ I!ExecuteLoadImmOffset \/ I!ExecuteStoreImmOffset
            \/ I!ExecuteLL \/ I!ExecuteSC
  BY <1>10, RequestImplements
<1>11. CASE I!Answer
  BY <1>11, AnswerImplements
<1>12. CASE I!Fault
  BY <1>12, FaultImplements
<1> QED BY <1>1, <1>2, <1>3, <1>4, <1>5, <1>6, <1>7, <1>8, <1>9, <1>10, <1>11, <1>12 DEF I!Next

\* A step of a processor is one of its interpreter, or changes nothing of it.
LEMMA InstructionsKept ==
  InstructionsInv /\ [PNext]_pvars =>
    InstructionsInv' /\ (I!A!vars' = I!A!vars \/ I!A!Next)
<1> SUFFICES ASSUME InstructionsInv, [PNext]_pvars
    PROVE  InstructionsInv' /\ (I!A!vars' = I!A!vars \/ I!A!Next)
  OBVIOUS
<1>1. CASE I!Next
  BY <1>1, InstructionsStep
<1>2. CASE UNCHANGED ivars
  <2>1. UNCHANGED <<reg, ip, tbmiss, locked, ir, inst, slot, access, trap>>
    BY <1>2 DEF ivars
  <2>2. I!A!vars' = I!A!vars
    BY <2>1 DEF I!A!vars
  <2>3. CASE ir # None
    BY <2>1, <2>2, <2>3, KeptWaiting
  <2>4. CASE ir = None
    BY <2>1, <2>2, <2>4 DEF InstructionsInv, RegistersKept, BetweenTwo, UnderWay, RoomKept,
       I!Linkage, I!Entry
  <2> QED BY <2>3, <2>4
<1>3. I!Next \/ UNCHANGED ivars
  BY DEF PNext, OfClaims, OfTranslation, OfInstructions, pvars
<1> QED BY <1>1, <1>2, <1>3

\* The entries of every instruction, and the linkage after them, find room in the block.
THEOREM BlocksFit == PSpec => []BlockFits
<1>1. InstructionsInv => BlockFits
  <2> SUFFICES ASSUME InstructionsInv PROVE slot + Len(inst) <= BlockInsts + 2
    BY DEF BlockFits, I!BlockFits
  <2>1. BlockInsts \in Nat /\ slot \in Nat
    BY InstructionConstants DEF InstructionsInv, RoomKept
  <2>2. CASE ir # None
    <3>1. slot + Len(inst) <= BlockInsts + 1
      BY <2>2 DEF InstructionsInv, RoomKept
    <3>2. \/ \E e : inst = <<e>>
          \/ \E d, e : inst = <<d, e>>
      BY <2>2, Zenon DEF InstructionsInv, UnderWay
    <3>3. Len(inst) \in Nat
      BY <3>2
    <3> QED BY <2>1, <3>1, <3>3
  <2>3. CASE ir = None
    <3>1. CASE inst = <<>>
      BY <2>1, <3>1 DEF InstructionsInv, RoomKept
    <3>2. CASE inst = I!Linkage
      <4>1. slot <= BlockInsts + 1 /\ Len(inst) = 1
        BY <3>2 DEF InstructionsInv, RoomKept, I!Linkage
      <4> QED BY <2>1, <4>1
    <3> QED BY <2>3, <3>1, <3>2 DEF InstructionsInv, BetweenTwo
  <2> QED BY <2>2, <2>3
<1>2. InstructionsInv /\ [PNext]_pvars => InstructionsInv'
  BY InstructionsKept
<1>3. PInit => InstructionsInv
  BY InstructionsInit DEF PInit
<1> QED BY <1>1, <1>2, <1>3, PTL DEF PSpec

\* The interpreter, with its blocks, its order of decoding and its two hidden registers,
\* implements the architecture: one instruction after another, on the registers of software.
THEOREM InterpreterImplements == PSpec => ImplementsArchitecture
<1>1. InstructionsInv /\ [PNext]_pvars => [I!A!vars' = I!A!vars \/ I!A!Next]_(I!A!vars)
  BY InstructionsKept
<1>2. InstructionsInv /\ [PNext]_pvars => InstructionsInv'
  BY InstructionsKept
<1>3. PInit => InstructionsInv /\ I!A!Init
  BY InstructionsInit DEF PInit
<1> QED BY <1>1, <1>2, <1>3, PTL DEF PSpec, ImplementsArchitecture, I!ImplementsArchitecture
=============================================================================
