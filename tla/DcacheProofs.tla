---------------------------- MODULE DcacheProofs ----------------------------
(***************************************************************************)
(* Proofs about Dcache, for any number of processors, lines, sets, ways,   *)
(* locks and write buffer entries: its types, and that the Scache          *)
(* directory does its job.  It includes the Dcaches, an exclusive line is  *)
(* in one Dcache only, and in one way of it.  For that it is assumed that  *)
(* no software writes DCACHECTRL, which breaks it (the run                 *)
(* dcache_control_race).                                                   *)
(*                                                                         *)
(* The argument.  All that a thread changes in line states, tags and       *)
(* directory entries while it is inside the directory belongs to the       *)
(* Scache stripe whose lock it holds, so a thread that holds another       *)
(* stripe finds its own part as it left it (Effects, OthersKept).  A       *)
(* thread that takes a line away visits the Dcaches one by one; Visited    *)
(* says what those visited hold.  That XrDowngradeLine stops at the first  *)
(* way it finds is right because of OneWay, which in turn holds because a  *)
(* thread that misses goes on not having the line (NotHeld).               *)
(*                                                                         *)
(* The last part is about DcacheHistory: what a load and an LL/SC pair     *)
(* get.  The lines that a load copies keep their tag while it does so, and *)
(* only a store to that tag makes them old (Reading).  A line that is      *)
(* valid has been observed since the last store of another processor to it *)
(* (ObservedLines), since such a store needs the line exclusively and a    *)
(* line comes back by a fill, which observes it, but for the time between  *)
(* fill and merge of a store.  SC never fills (ScPresent), so the valid    *)
(* line it finds is one that was observed.                                 *)
(***************************************************************************)
EXTENDS DcacheHistory, TLAPS, WellFoundedInduction

\* The values that a processor's locals have at each label of XrDcacheAccess and
\* XrFlushWriteBuffer where they are used.
LocalsUsed(c) ==
  /\ c.pc \in {"start", "copy", "scan", "merge", "upgrade", "abort", "miss",
               "downgrade", "downgrading", "fill", "filling", "filled"}
     => c.tag \in Tags
  /\ c.pc \in {"start", "scan", "merge", "upgrade", "miss", "downgrade",
               "downgrading", "fill", "filling", "filled", "flushlock", "flushing"}
     => c.slot \in Slots
  /\ c.pc \in {"copy", "merge", "upgrade", "filled", "flushlock", "flushing"}
     => c.line \in Lines
  /\ c.pc \in {"downgrade", "downgrading"} =>
       c.ret = "miss" \/ (c.ret = "upgrade" /\ c.line \in Lines)
  /\ c.pc = "downgrading" => c.victim \in Procs
  /\ c.pc \in {"flush", "flushlock", "flushing"} =>
       c.ret \in {"idle", "invalidate"} \/ (c.ret = "start" /\ c.tag \in Tags)

LocalsOK == cpu \in [Procs -> Locals] /\ \A p \in Procs : LocalsUsed(cpu[p])

\* The rest of TypeOK, and: an exclusive directory entry names a processor.
StateOK ==
  /\ DcFlags \in [Procs -> [Lines -> LineStates]]
  /\ DcTags \in [Procs -> [Lines -> Tags \cup {NoTag}]]
  /\ Dc \in [Procs -> [Lines -> Data]]
  /\ DcIndexToWbIndex \in [Procs -> [Lines -> Slots \cup {NoSlot}]]
  /\ WbIndices \in [Procs -> [Slots -> Lines \cup {NoLine}]]
  /\ WbCycles \in [Procs -> BOOLEAN]
  /\ DcReplacementIndex \in [Procs -> 0 .. DcWays - 1]
  /\ Locked \in [Procs -> BOOLEAN]
  /\ XrScacheFlags \in [ScIndices -> LineStates]
  /\ XrScacheTags \in [ScIndices -> Tags \cup {NoTag}]
  /\ XrScacheExclusiveIds \in [ScIndices -> Procs \cup {NoProc}]
  /\ CacheMutexes \in [Procs -> [Stripes -> Procs \cup {NoProc}]]
  /\ XrScacheMutexes \in [Stripes -> Procs \cup {NoProc}]
  /\ Ram \in [Tags -> Data]
  /\ \A i \in ScIndices : XrScacheFlags[i] = EXCLUSIVE => XrScacheExclusiveIds[i] \in Procs

TypeInv == StateOK /\ LocalsOK

\* The set and lock numbers of a line are in range.
LEMMA Indices ==
  ASSUME NEW t \in Tags
  PROVE  DcSet(t) \in 0 .. DcSets - 1 /\ ScSet(t) \in ScIndices /\ Mutex(t) \in Stripes
BY SizeAssumption DEF DcSet, ScSet, Mutex, ScIndices, Stripes

\* What the sizes being positive comes to.
LEMMA Sizes ==
  /\ 0 \in 0 .. DcWays - 1 /\ 0 \in Slots
  /\ \A s \in Slots : s + 1 \in 0 .. WbDepth /\ s \in 0 .. WbDepth
  /\ \A w \in 0 .. DcWays - 1 : (w + 1) % DcWays \in 0 .. DcWays - 1
  /\ NoSlot \notin Slots /\ NoLine \notin Lines /\ NoTag \notin Tags
BY SizeAssumption DEF Slots, NoSlot, NoLine, NoTag, Lines

\* A step that changes the locals of one processor keeps LocalsOK if what they
\* become is right.
LEMMA LocalStep ==
  ASSUME LocalsOK, NEW p \in Procs, NEW c \in Locals, LocalsUsed(c),
         cpu' = [cpu EXCEPT ![p] = c]
  PROVE  LocalsOK'
<1>1. \A q \in Procs : cpu'[q] = IF q = p THEN c ELSE cpu[q]
  BY DEF LocalsOK
<1> HIDE DEF Locals, LocalsUsed
<1> QED BY <1>1 DEF LocalsOK

\* Between accesses the locals are in order.
LEMMA IdleOK == Idle \in Locals /\ LocalsUsed(Idle)
BY Sizes DEF Idle, Locals, PC, Ops, LocalsUsed, NoTag

\* So they are when XrDcacheAccess or XrFlushWriteBuffer returns.
LEMMA ReturnStep ==
  ASSUME LocalsOK, NEW p \in Procs, Return(p)
  PROVE  LocalsOK'
BY IdleOK, LocalStep DEF Return

\* So they are after a step that changes the label only, if the new one finds what
\* it needs.
LEMMA GotoStep ==
  ASSUME LocalsOK, NEW p \in Procs, NEW label \in PC, Goto(p, label),
         LocalsUsed([cpu[p] EXCEPT !.pc = label])
  PROVE  LocalsOK'
<1>1. cpu' = [cpu EXCEPT ![p] = [cpu[p] EXCEPT !.pc = label]]
  BY DEF Goto
<1>2. [cpu[p] EXCEPT !.pc = label] \in Locals
  BY DEF LocalsOK, Locals
<1> QED BY <1>1, <1>2, LocalStep

\* After XrReset everything has its type.
LEMMA InitTyped == Init => TypeInv
<1> SUFFICES ASSUME Init PROVE TypeInv
  OBVIOUS
<1>1. LocalsOK
  BY IdleOK DEF Init, LocalsOK
<1>2. StateOK
  BY Sizes DEF Init, StateOK, LineStates, Data, INVALID, EXCLUSIVE
<1> QED BY <1>1, <1>2 DEF TypeInv

\* A nonempty set of naturals has a least element.
LEMMA LeastExists ==
  ASSUME NEW S, S \subseteq Nat, S # {}
  PROVE  \E n \in S : \A m \in S : n <= m
<1> DEFINE R == {ss \in Nat \X Nat : ss[1] < ss[2]}
<1>1. R = OpToRel(<, Nat)
  BY Zenon DEF OpToRel
<1>2. IsWellFoundedOn(R, Nat)
  BY <1>1, NatLessThanWellFounded, Zenon
<1>3. PICK n \in S : \A m \in S : <<m, n>> \notin R
  <2> HIDE DEF R
  <2> QED BY <1>2, WFMin
<1>4. \A m \in S : ~(m < n)
  BY <1>3
<1> QED BY <1>4

\* The search in way order finds a line if there is one.
LEMMA FirstLine ==
  ASSUME NEW lines, lines \subseteq Lines
  PROVE  /\ lines = {} => First(lines) = NoLine
         /\ lines # {} => First(lines) \in lines
<1>1. CASE lines = {}
  BY <1>1 DEF First
<1>2. CASE lines # {}
  <2> DEFINE Ways == {l[2] : l \in lines}
  <2>1. Ways \subseteq Nat /\ Ways # {}
    BY <1>2, SizeAssumption DEF Lines
  <2>2. PICK w \in Ways : \A v \in Ways : w <= v
    BY <2>1, LeastExists
  <2>3. \E l \in lines : \A k \in lines : l[2] <= k[2]
    BY <2>2
  <2> QED BY <1>2, <2>3 DEF First
<1> QED BY <1>1, <1>2

\* Lookups and searches give lines of the Dcache.
LEMMA Lookups ==
  ASSUME NEW p \in Procs, NEW q \in Procs, NEW t \in Tags
  PROVE  /\ Hit(p, t) \in Lines \cup {NoLine}
         /\ LineToDowngrade(p, q) \in Lines \cup {NoLine}
<1>1. \A lines : lines \subseteq Lines => First(lines) \in Lines \cup {NoLine}
  BY FirstLine
<1>2. \A u : LinesOf(u) \subseteq Lines
  BY DEF LinesOf
<1>3. Hit(p, t) \in Lines \cup {NoLine}
  BY <1>1, <1>2 DEF Hit
<1>4. LineToDowngrade(p, q) \in Lines \cup {NoLine}
  BY <1>1, <1>2 DEF LineToDowngrade
<1> QED BY <1>3, <1>4
-----------------------------------------------------------------------------
\* A processor that begins something, or continues it, has its locals in order.
LEMMA LocalsTyped ==
  ASSUME TypeInv, NEW p \in Procs, Start(p) \/ Continue(p)
  PROVE  LocalsOK'
<1>0. LocalsOK /\ cpu[p] \in Locals /\ LocalsUsed(cpu[p])
  BY DEF TypeInv, LocalsOK
<1>1. ASSUME NEW o \in Accesses, NEW t \in Tags, Begin(p, o, t) PROVE LocalsOK'
  <2> DEFINE c == [Idle EXCEPT !.pc = "start", !.op = o, !.tag = t]
  <2>1. c \in Locals /\ LocalsUsed(c)
    BY IdleOK, Sizes DEF Locals, PC, Ops, LocalsUsed, Idle
  <2>2. cpu' = [cpu EXCEPT ![p] = c]
    BY <1>1 DEF Begin
  <2> QED BY <1>0, <2>1, <2>2, LocalStep
<1>2. ASSUME LoadLookup(p) PROVE LocalsOK'
  <2> DEFINE l == Hit(p, Tag(p))
             c == [cpu[p] EXCEPT !.pc = IF l = NoLine THEN "miss" ELSE "copy", !.line = l]
  <2>1. l \in Lines \cup {NoLine}
    BY <1>0, <1>2, Lookups DEF LoadLookup, At, Tag, LocalsUsed
  <2>2. cpu' = [cpu EXCEPT ![p] = c]
    BY <1>0, <1>2 DEF LoadLookup, LocalsOK
  <2>3. c \in Locals /\ LocalsUsed(c)
    <3>1. cpu[p].tag \in Tags /\ cpu[p].slot \in Slots
      BY <1>0, <1>2 DEF LoadLookup, At, LocalsUsed
    <3>2. c \in Locals
      BY <1>0, <2>1 DEF Locals, PC
    <3>3. CASE l = NoLine
      BY <1>0, <3>1, <3>2, <3>3 DEF LocalsUsed, Locals
    <3>4. CASE l # NoLine
      BY <1>0, <2>1, <3>1, <3>2, <3>4 DEF LocalsUsed, Locals
    <3> QED BY <3>2, <3>3, <3>4
  <2> QED BY <1>0, <2>2, <2>3, LocalStep
<1>3. ASSUME LoadCopy(p) \/ FilledLoad(p) PROVE LocalsOK'
  BY <1>0, <1>3, ReturnStep DEF LoadCopy, FilledLoad, ReturnFromLoad
<1>4. ASSUME StoreHitsBuffer(p) \/ StoreMerge(p) \/ UpgradeDone(p) \/ FilledStore(p) \/ Invalidate(p) PROVE LocalsOK'
  BY <1>0, <1>4, ReturnStep DEF StoreHitsBuffer, StoreMerge, UpgradeDone, FilledStore, Invalidate
<1>5. ASSUME StoreLock(p) PROVE LocalsOK'
  <2>1. LocalsUsed([cpu[p] EXCEPT !.pc = "scan"])
    BY <1>0, <1>5 DEF StoreLock, At, LocalsUsed, Locals
  <2> QED BY <1>0, <1>5, <2>1, GotoStep DEF StoreLock, PC
<1>6. ASSUME SetScache(p) PROVE LocalsOK'
  <2>1. LocalsUsed([cpu[p] EXCEPT !.pc = "fill"])
    BY <1>0, <1>6 DEF SetScache, Downgraded, At, LocalsUsed, Locals
  <2> QED BY <1>0, <1>6, <2>1, GotoStep DEF SetScache, PC
<1>7. ASSUME FillLock(p) PROVE LocalsOK'
  <2>1. LocalsUsed([cpu[p] EXCEPT !.pc = "filling"])
    BY <1>0, <1>7 DEF FillLock, At, LocalsUsed, Locals
  <2> QED BY <1>0, <1>7, <2>1, GotoStep DEF FillLock, PC
<1>8. ASSUME FlushLock(p) PROVE LocalsOK'
  <2>1. LocalsUsed([cpu[p] EXCEPT !.pc = "flushing"])
    BY <1>0, <1>8 DEF FlushLock, At, LocalsUsed, Locals
  <2> QED BY <1>0, <1>8, <2>1, GotoStep DEF FlushLock, PC
<1>9. ASSUME StoreFindsBufferFull(p) PROVE LocalsOK'
  <2> DEFINE c == [cpu[p] EXCEPT !.pc = "flush", !.slot = 0, !.ret = "start"]
  <2>1. cpu' = [cpu EXCEPT ![p] = c]
    BY <1>0, <1>9 DEF StoreFindsBufferFull, LocalsOK
  <2>2. c \in Locals /\ LocalsUsed(c)
    BY <1>0, <1>9, Sizes DEF StoreFindsBufferFull, At, Locals, PC, LocalsUsed
  <2> QED BY <1>0, <2>1, <2>2, LocalStep
<1>10. ASSUME StoreLookup(p) PROVE LocalsOK'
  <2> DEFINE l == Hit(p, Tag(p))
             exclusive == l # NoLine /\ DcFlags[p][l] = EXCLUSIVE
             next == IF exclusive THEN "merge" ELSE IF l = NoLine THEN "miss" ELSE "upgrade"
  <2>1. cpu[p].tag \in Tags /\ l \in Lines \cup {NoLine}
    BY <1>0, <1>10, Lookups DEF StoreLookup, At, Tag, LocalsUsed
  <2>2. CASE Return(p)
    BY <1>0, <2>2, ReturnStep
  <2>3. CASE ~Return(p)
    <3>1. PICK s \in Slots :
            cpu' = [cpu EXCEPT ![p].pc = next, ![p].line = l, ![p].slot = s]
      BY <1>10, <2>3 DEF StoreLookup, FreeSlots
    <3> DEFINE c == [cpu[p] EXCEPT !.pc = next, !.line = l, !.slot = s]
    <3>2. cpu' = [cpu EXCEPT ![p] = c]
      BY <1>0, <3>1 DEF LocalsOK
    <3>3. c \in Locals
      BY ZenonT(40), <1>0, <2>1, Sizes DEF Locals, PC
    <3>4. c.pc = next /\ c.line = l /\ c.slot \in Slots /\ c.tag \in Tags
      BY <1>0, <2>1 DEF Locals
    <3>5. LocalsUsed(c)
      BY <2>1, <3>4 DEF LocalsUsed
    <3> QED BY <1>0, <3>2, <3>3, <3>5, LocalStep
  <2> QED BY <2>2, <2>3
<1>11. ASSUME UpgradeLock(p) PROVE LocalsOK'
  <2> DEFINE l == cpu[p].line   i == ScSet(Tag(p))
  <2>1. cpu[p].tag \in Tags /\ cpu[p].slot \in Slots /\ l \in Lines /\ i \in ScIndices
    BY <1>0, <1>11, Indices DEF UpgradeLock, At, Tag, LocalsUsed
  <2>2. CASE ~Valid(p, l) \/ ~InScache(Tag(p))
    <3> DEFINE c == [cpu[p] EXCEPT !.pc = IF Valid(p, l) THEN "abort" ELSE "start",
                                   !.line = NoLine, !.slot = 0]
    <3>1. cpu' = [cpu EXCEPT ![p] = c]
      BY <1>0, <1>11, <2>2 DEF UpgradeLock, LocalsOK
    <3>2. c \in Locals
      BY ZenonT(40), <1>0, Sizes DEF Locals, PC
    <3>3. c.pc \in {"abort", "start"} /\ c.slot = 0 /\ c.tag = cpu[p].tag
      BY <1>0 DEF Locals
    <3>4. LocalsUsed(c)
      BY <2>1, <3>3, Sizes DEF LocalsUsed
    <3> QED BY <1>0, <3>1, <3>2, <3>4, LocalStep
  <2>3. CASE ~(~Valid(p, l) \/ ~InScache(Tag(p)))
    <3> DEFINE todo == IF XrScacheFlags[i] = SHARED THEN Procs \ {p} ELSE {XrScacheExclusiveIds[i]}
               c == [cpu[p] EXCEPT !.pc = "downgrade", !.ret = "upgrade", !.todo = todo]
    <3>1. XrScacheFlags[i] \in {SHARED, EXCLUSIVE}
      BY <2>1, <2>3 DEF InScache, TypeInv, StateOK, LineStates
    <3>2. todo \subseteq Procs
      BY <2>1, <3>1 DEF TypeInv, StateOK, SHARED, EXCLUSIVE
    <3>3. cpu' = [cpu EXCEPT ![p] = c]
      BY <1>0, <1>11, <2>3 DEF UpgradeLock, LocalsOK
    <3>4. c \in Locals
      BY ZenonT(40), <1>0, <3>2 DEF Locals, PC
    <3>5. c.pc = "downgrade" /\ c.ret = "upgrade" /\ c.slot = cpu[p].slot
          /\ c.tag = cpu[p].tag /\ c.line = l
      BY <1>0 DEF Locals
    <3>6. LocalsUsed(c)
      BY <2>1, <3>5 DEF LocalsUsed
    <3> QED BY <1>0, <3>3, <3>4, <3>6, LocalStep
  <2> QED BY <2>2, <2>3
<1>12. ASSUME MissLock(p) PROVE LocalsOK'
  <2> DEFINE c == [cpu[p] EXCEPT !.pc = "downgrade", !.ret = "miss", !.todo = ToDowngrade(p)]
  <2>1. cpu[p].tag \in Tags /\ cpu[p].slot \in Slots /\ ScSet(Tag(p)) \in ScIndices
    BY <1>0, <1>12, Indices DEF MissLock, At, Tag, LocalsUsed
  <2>2. ToDowngrade(p) \subseteq Procs
    BY <2>1 DEF TypeInv, StateOK, ToDowngrade
  <2>3. cpu' = [cpu EXCEPT ![p] = c]
    BY <1>0, <1>12 DEF MissLock, LocalsOK
  <2>4. c \in Locals
    BY <1>0, <2>2 DEF Locals, PC
  <2>5. c.pc = "downgrade" /\ c.ret = "miss" /\ c.slot = cpu[p].slot /\ c.tag = cpu[p].tag
    BY <1>0 DEF Locals
  <2>6. LocalsUsed(c)
    BY <2>1, <2>5 DEF LocalsUsed
  <2> QED BY <1>0, <2>3, <2>4, <2>6, LocalStep
<1>13. ASSUME DowngradeLock(p) PROVE LocalsOK'
  <2>1. PICK q \in cpu[p].todo :
          cpu' = [cpu EXCEPT ![p].pc = "downgrading", ![p].victim = q,
                             ![p].vline = LineToDowngrade(p, q), ![p].todo = @ \ {q}]
    BY <1>13 DEF DowngradeLock
  <2> DEFINE c == [cpu[p] EXCEPT !.pc = "downgrading", !.victim = q,
                                 !.vline = LineToDowngrade(p, q), !.todo = @ \ {q}]
  <2>2. q \in Procs /\ cpu[p].tag \in Tags /\ LocalsUsed(cpu[p]) /\ cpu[p].pc = "downgrade"
    BY <1>0, <1>13 DEF DowngradeLock, At, LocalsUsed, Locals
  <2>3. LineToDowngrade(p, q) \in Lines \cup {NoLine}
    BY <2>2, Lookups
  <2>4. cpu' = [cpu EXCEPT ![p] = c]
    BY <1>0, <2>1 DEF LocalsOK
  <2>5. c \in Locals
    BY <1>0, <2>2, <2>3 DEF Locals, PC
  <2>6. c.pc = "downgrading" /\ c.victim = q /\ c.slot = cpu[p].slot /\ c.tag = cpu[p].tag
        /\ c.ret = cpu[p].ret /\ c.line = cpu[p].line
    BY <1>0 DEF Locals
  <2>7. LocalsUsed(c)
    BY <2>2, <2>6 DEF LocalsUsed
  <2> QED BY <1>0, <2>4, <2>5, <2>7, LocalStep
<1>14. ASSUME DowngradeLine(p) PROVE LocalsOK'
  <2> DEFINE c == [cpu[p] EXCEPT !.pc = "downgrade", !.victim = NoProc, !.vline = NoLine]
  <2>1. cpu' = [cpu EXCEPT ![p] = c]
    BY <1>0, <1>14 DEF DowngradeLine, LocalsOK
  <2>2. c \in Locals
    BY <1>0 DEF Locals, PC
  <2>3. c.pc = "downgrade" /\ c.slot = cpu[p].slot /\ c.tag = cpu[p].tag
        /\ c.ret = cpu[p].ret /\ c.line = cpu[p].line
    BY <1>0 DEF Locals
  <2>4. LocalsUsed(c)
    BY <1>0, <1>14, <2>3 DEF DowngradeLine, At, LocalsUsed
  <2> QED BY <1>0, <2>1, <2>2, <2>4, LocalStep
<1>15. ASSUME Fill(p) PROVE LocalsOK'
  <2> DEFINE l == <<DcSet(Tag(p)), DcReplacementIndex[p]>>
             c == [cpu[p] EXCEPT !.pc = "filled", !.line = l]
  <2>1. cpu[p].tag \in Tags /\ cpu[p].slot \in Slots
    BY <1>0, <1>15 DEF Fill, At, LocalsUsed
  <2>2. l \in Lines
    BY <2>1, Indices DEF Tag, Lines, TypeInv, StateOK
  <2>3. CASE Return(p)
    BY <1>0, <2>3, ReturnStep
  <2>4. CASE ~Return(p)
    <3>1. cpu' = [cpu EXCEPT ![p] = c]
      BY <1>0, <1>15, <2>4 DEF Fill, LocalsOK
    <3>2. c \in Locals
      BY <1>0, <2>2 DEF Locals, PC
    <3>3. c.pc = "filled" /\ c.line = l /\ c.slot = cpu[p].slot /\ c.tag = cpu[p].tag
      BY <1>0 DEF Locals
    <3>4. LocalsUsed(c)
      BY <2>1, <2>2, <3>3 DEF LocalsUsed
    <3> QED BY <1>0, <3>1, <3>2, <3>4, LocalStep
  <2> QED BY <2>3, <2>4
<1>16. ASSUME NEW after \in {"idle", "invalidate"}, StartFlush(p, after) PROVE LocalsOK'
  <2> DEFINE c == [Idle EXCEPT !.pc = "flush", !.ret = after]
  <2>1. c \in Locals /\ LocalsUsed(c)
    BY IdleOK, Sizes DEF Locals, PC, LocalsUsed, Idle
  <2>2. cpu' = [cpu EXCEPT ![p] = c]
    BY <1>16 DEF StartFlush
  <2> QED BY <1>0, <2>1, <2>2, LocalStep
<1>17. ASSUME Barrier(p) \/ CheckConditions(p) \/ CacheControl(p) PROVE LocalsOK'
  BY <1>16, <1>17 DEF Barrier, CheckConditions, CacheControl
<1>18. ASSUME Rfe(p) PROVE LocalsOK'
  BY <1>0, <1>18 DEF Rfe, LocalsOK
<1>19. ASSUME FlushNext(p) PROVE LocalsOK'
  <2>1. CASE Return(p)
    BY <1>0, <2>1, ReturnStep
  <2>2. ASSUME NEW s \in Slots, WbIndices[p][s] # NoLine,
               cpu' = [cpu EXCEPT ![p].pc = "flushlock", ![p].slot = s,
                                  ![p].line = WbIndices[p][s]]
        PROVE  LocalsOK'
    <3> DEFINE c == [cpu[p] EXCEPT !.pc = "flushlock", !.slot = s, !.line = WbIndices[p][s]]
    <3>1. WbIndices[p][s] \in Lines
      BY <2>2 DEF TypeInv, StateOK
    <3>2. cpu' = [cpu EXCEPT ![p] = c]
      BY <1>0, <2>2 DEF LocalsOK
    <3>3. c \in Locals
      BY <1>0, <3>1, Sizes DEF Locals, PC
    <3>4. c.pc = "flushlock" /\ c.slot = s /\ c.line \in Lines /\ c.tag = cpu[p].tag
          /\ c.ret = cpu[p].ret
      BY <1>0, <3>1 DEF Locals
    <3>5. LocalsUsed(c)
      BY <1>0, <1>19, <3>4 DEF FlushNext, At, LocalsUsed
    <3> QED BY <1>0, <3>2, <3>3, <3>5, LocalStep
  <2>3. ASSUME cpu[p].ret # "idle",
               cpu' = [cpu EXCEPT ![p].pc = cpu[p].ret, ![p].slot = 0,
                                  ![p].line = NoLine, ![p].ret = "idle"]
        PROVE  LocalsOK'
    <3> DEFINE c == [cpu[p] EXCEPT !.pc = cpu[p].ret, !.slot = 0, !.line = NoLine, !.ret = "idle"]
    <3>1. cpu[p].ret = "invalidate" \/ (cpu[p].ret = "start" /\ cpu[p].tag \in Tags)
      BY <1>0, <1>19, <2>3 DEF FlushNext, At, LocalsUsed
    <3>2. cpu' = [cpu EXCEPT ![p] = c]
      BY <1>0, <2>3 DEF LocalsOK
    <3>3. c \in Locals
      BY <1>0, <3>1, Sizes DEF Locals, PC
    <3>4. c.pc = cpu[p].ret /\ c.slot = 0 /\ c.tag = cpu[p].tag
      BY <1>0 DEF Locals
    <3>5. LocalsUsed(c)
      BY <3>1, <3>4, Sizes DEF LocalsUsed
    <3> QED BY <1>0, <3>2, <3>3, <3>5, LocalStep
  <2>4. cpu[p].slot \in Nat
    BY <1>0, SizeAssumption DEF Locals
  <2> DEFINE used == {s \in cpu[p].slot .. WbDepth - 1 : WbIndices[p][s] # NoLine}
  <2>5. used \subseteq Slots
    BY <2>4 DEF Slots
  <2>6. CASE used = {}
    BY <1>19, <2>1, <2>3, <2>6 DEF FlushNext
  <2>7. CASE used # {}
    BY <1>19, <2>2, <2>5, <2>7 DEF FlushNext
  <2> QED BY <2>6, <2>7
<1>20. ASSUME FlushWrite(p) PROVE LocalsOK'
  <2> DEFINE c == [cpu[p] EXCEPT !.pc = "flush", !.slot = @ + 1]
  <2>1. cpu[p].slot + 1 \in 0 .. WbDepth
    BY <1>0, <1>20, Sizes DEF FlushWrite, At, LocalsUsed
  <2>2. cpu' = [cpu EXCEPT ![p] = c]
    BY <1>0, <1>20 DEF FlushWrite, LocalsOK
  <2>3. c \in Locals
    BY <1>0, <2>1 DEF Locals, PC
  <2>4. c.pc = "flush" /\ c.tag = cpu[p].tag /\ c.ret = cpu[p].ret
    BY <1>0 DEF Locals
  <2>5. LocalsUsed(c)
    BY <1>0, <1>20, <2>4 DEF FlushWrite, At, LocalsUsed
  <2> QED BY <1>0, <2>2, <2>3, <2>5, LocalStep
<1> QED
  BY <1>1, <1>2, <1>3, <1>4, <1>5, <1>6, <1>7, <1>8, <1>9, <1>10, <1>11, <1>12, <1>13,
     <1>14, <1>15, <1>17, <1>18, <1>19, <1>20
  DEF Start, Continue, StoreStep

\* Every step keeps the types of the caches, the directory, the locks and the buffer.
LEMMA StateTyped ==
  ASSUME TypeInv, NEW p \in Procs, Start(p) \/ Continue(p)
  PROVE  StateOK'
<1>0. StateOK /\ cpu[p] \in Locals /\ LocalsUsed(cpu[p])
  BY DEF TypeInv, LocalsOK
<1>l. ASSUME NEW q \in Procs, NEW t, NEW o \in Procs \cup {NoProc}, SetCacheLock(q, t, o)
      PROVE  CacheMutexes' \in [Procs -> [Stripes -> Procs \cup {NoProc}]]
  BY <1>0, <1>l DEF StateOK, SetCacheLock
<1>s. \A t, o : o \in Procs \cup {NoProc} /\ SetScacheLock(t, o)
              => XrScacheMutexes' \in [Stripes -> Procs \cup {NoProc}]
  BY <1>0 DEF StateOK, SetScacheLock
<1>m. ASSUME NEW l \in Lines, Merge(p, l)
      PROVE  Dc' \in [Procs -> [Lines -> Data]] /\ Ram' \in [Tags -> Data]
  BY <1>0, <1>m DEF StateOK, Merge, Data
<1>i. ASSUME NEW l \in Lines, NEW s \in Slots, InsertWb(p, s, l)
      PROVE  /\ WbIndices' \in [Procs -> [Slots -> Lines \cup {NoLine}]]
             /\ DcIndexToWbIndex' \in [Procs -> [Lines -> Slots \cup {NoSlot}]]
  BY <1>0, <1>i DEF StateOK, InsertWb
<1>f. ASSUME NEW q \in Procs, NEW l \in Lines, ForceWrite(q, l)
      PROVE  /\ WbIndices' \in [Procs -> [Slots -> Lines \cup {NoLine}]]
             /\ DcIndexToWbIndex' \in [Procs -> [Lines -> Slots \cup {NoSlot}]]
             /\ Ram' \in [Tags -> Data]
  <2>1. CASE DcIndexToWbIndex[q][l] = NoSlot
    BY <1>0, <1>f, <2>1 DEF StateOK, ForceWrite
  <2>2. CASE DcIndexToWbIndex[q][l] # NoSlot
    <3>1. /\ WbIndices' = [WbIndices EXCEPT ![q][DcIndexToWbIndex[q][l]] = NoLine]
          /\ DcIndexToWbIndex' = [DcIndexToWbIndex EXCEPT ![q][l] = NoSlot]
          /\ Ram' = [Ram EXCEPT ![DcTags[q][l]] = Dc[q][l]]
      BY <1>f, <2>2 DEF ForceWrite
    <3>2. /\ WbIndices' \in [Procs -> [Slots -> Lines \cup {NoLine}]]
          /\ DcIndexToWbIndex' \in [Procs -> [Lines -> Slots \cup {NoSlot}]]
      BY <1>0, <3>1 DEF StateOK
    <3>3. Dc[q][l] \in Data
      BY <1>0 DEF StateOK
    <3>4. Ram' \in [Tags -> Data]
      BY <1>0, <3>1, <3>3 DEF StateOK
    <3> QED BY <3>2, <3>4
  <2> QED BY <2>1, <2>2
<1>1. ASSUME NEW o, NEW t, Begin(p, o, t) PROVE StateOK'
  BY <1>0, <1>1 DEF StateOK, Begin, dcacheVars, wbVars, scacheVars, lockVars
<1>2. ASSUME LoadLookup(p) \/ LoadCopy(p) PROVE StateOK'
  BY <1>0, <1>2 DEF StateOK, LoadLookup, LoadCopy, ReturnFromLoad,
                    dcacheVars, wbVars, scacheVars, lockVars
<1>3. ASSUME StoreLock(p) \/ StoreFindsBufferFull(p) PROVE StateOK'
  BY <1>0, <1>3, <1>l DEF StateOK, StoreLock, StoreFindsBufferFull,
                          dcacheVars, wbVars, scacheVars
<1>4. ASSUME StoreHitsBuffer(p) PROVE StateOK'
  <2>1. PICK s \in Slots : WbIndices[p][s] # NoLine /\ Merge(p, WbIndices[p][s])
    BY <1>4 DEF StoreHitsBuffer, SlotsOf
  <2>2. WbIndices[p][s] \in Lines
    BY <1>0, <2>1 DEF StateOK
  <2> QED BY <1>0, <1>4, <1>l, <1>m, <2>1, <2>2 DEF StateOK, StoreHitsBuffer, wbVars, scacheVars
<1>5. ASSUME StoreLookup(p) PROVE StateOK'
  <2>1. CacheMutexes' \in [Procs -> [Stripes -> Procs \cup {NoProc}]]
    BY <1>0, <1>5, <1>l DEF StateOK, StoreLookup
  <2> QED BY <1>0, <1>5, <2>1 DEF StateOK, StoreLookup, StartCountdown, dcacheVars, scacheVars
<1>6. ASSUME StoreMerge(p) PROVE StateOK'
  <2>1. cpu[p].line \in Lines /\ cpu[p].slot \in Slots
    BY <1>0, <1>6 DEF StoreMerge, At, LocalsUsed
  <2> QED BY <1>0, <1>6, <1>l, <1>m, <1>i, <2>1 DEF StateOK, StoreMerge, scacheVars
<1>7. ASSUME UpgradeLock(p) PROVE StateOK'
  <2>1. XrScacheMutexes' \in [Stripes -> Procs \cup {NoProc}]
    BY <1>0, <1>7, <1>s DEF StateOK, UpgradeLock
  <2> QED BY <1>0, <1>7, <2>1 DEF StateOK, UpgradeLock, dcacheVars, wbVars, scacheVars
<1>8. ASSUME DowngradeLock(p) PROVE StateOK'
  <2>1. CacheMutexes' \in [Procs -> [Stripes -> Procs \cup {NoProc}]]
    BY <1>0, <1>8, <1>l DEF DowngradeLock, Locals
  <2> QED BY <1>0, <1>8, <2>1 DEF StateOK, DowngradeLock, dcacheVars, wbVars, scacheVars
<1>9. ASSUME DowngradeLine(p) PROVE StateOK'
  <2> DEFINE q == cpu[p].victim   l == cpu[p].vline
  <2>1. q \in Procs /\ l \in Lines \cup {NoLine}
    BY <1>0, <1>9 DEF DowngradeLine, At, LocalsUsed, Locals
  <2>2. DowngradeState(p) \in LineStates
    BY DEF DowngradeState, LineStates
  <2>3. /\ WbIndices' \in [Procs -> [Slots -> Lines \cup {NoLine}]]
        /\ DcIndexToWbIndex' \in [Procs -> [Lines -> Slots \cup {NoSlot}]]
        /\ Ram' \in [Tags -> Data]
        /\ DcFlags' \in [Procs -> [Lines -> LineStates]]
    <3>1. CASE l = NoLine
      BY <1>0, <1>9, <3>1 DEF StateOK, DowngradeLine
    <3>2. CASE l # NoLine
      <4>1. ForceWrite(q, l) /\ DcFlags' = [DcFlags EXCEPT ![q][l] = DowngradeState(p)]
        BY <1>9, <3>2 DEF DowngradeLine
      <4> QED BY <1>0, <1>f, <2>1, <2>2, <3>2, <4>1 DEF StateOK
    <3> QED BY <3>1, <3>2
  <2>4. CacheMutexes' \in [Procs -> [Stripes -> Procs \cup {NoProc}]]
    BY <1>9, <1>l, <2>1 DEF DowngradeLine
  <2> QED BY <1>0, <1>9, <2>3, <2>4 DEF StateOK, DowngradeLine, scacheVars
<1>10. ASSUME UpgradeDone(p) PROVE StateOK'
  <2>1. cpu[p].line \in Lines /\ cpu[p].slot \in Slots /\ ScSet(Tag(p)) \in ScIndices
    BY <1>0, <1>10, Indices DEF UpgradeDone, Downgraded, At, LocalsUsed, Tag
  <2>2. /\ XrScacheFlags' \in [ScIndices -> LineStates]
        /\ XrScacheExclusiveIds' \in [ScIndices -> Procs \cup {NoProc}]
        /\ \A i \in ScIndices : XrScacheFlags'[i] = EXCLUSIVE => XrScacheExclusiveIds'[i] \in Procs
        /\ DcFlags' \in [Procs -> [Lines -> LineStates]]
    BY <1>0, <1>10, <2>1 DEF StateOK, UpgradeDone, LineStates
  <2>3. XrScacheMutexes' \in [Stripes -> Procs \cup {NoProc}]
    BY <1>10, <1>s DEF UpgradeDone
  <2> QED BY <1>0, <1>10, <1>m, <1>i, <2>1, <2>2, <2>3 DEF StateOK, UpgradeDone
<1>11. ASSUME MissLock(p) PROVE StateOK'
  <2>1. XrScacheMutexes' \in [Stripes -> Procs \cup {NoProc}]
    BY <1>0, <1>11, <1>s DEF MissLock
  <2> QED BY <1>0, <1>11, <2>1 DEF StateOK, MissLock, dcacheVars, wbVars, scacheVars
<1>12. ASSUME SetScache(p) PROVE StateOK'
  <2>1. Tag(p) \in Tags /\ ScSet(Tag(p)) \in ScIndices /\ NewState(p) \in LineStates
    BY <1>0, <1>12, Indices
    DEF SetScache, Downgraded, At, LocalsUsed, Tag, NewState, LineStates
  <2> QED BY <1>0, <1>12, <2>1 DEF StateOK, SetScache, dcacheVars, wbVars, lockVars
<1>13. ASSUME FillLock(p) PROVE StateOK'
  BY <1>0, <1>13, <1>l DEF StateOK, FillLock, dcacheVars, wbVars, scacheVars
<1>14. ASSUME Fill(p) PROVE StateOK'
  <2> DEFINE t == Tag(p)
             l == <<DcSet(t), DcReplacementIndex[p]>>
             i == ScSet(t)
  <2>1. t \in Tags /\ i \in ScIndices /\ l \in Lines /\ NewState(p) \in LineStates
    BY <1>0, <1>14, Indices DEF StateOK, Fill, At, LocalsUsed, Tag, Lines, NewState, LineStates
  <2>2. /\ WbIndices' \in [Procs -> [Slots -> Lines \cup {NoLine}]]
        /\ DcIndexToWbIndex' \in [Procs -> [Lines -> Slots \cup {NoSlot}]]
        /\ Ram' \in [Tags -> Data]
    <3>1. CASE Valid(p, l)
      BY <1>14, <1>f, <2>1, <3>1 DEF Fill
    <3>2. CASE ~Valid(p, l)
      BY <1>0, <1>14, <3>2 DEF StateOK, Fill
    <3> QED BY <3>1, <3>2
  <2>3. DcReplacementIndex' \in [Procs -> 0 .. DcWays - 1]
    BY <1>0, <1>14, Sizes DEF StateOK, Fill, NextWay
  <2>4. /\ DcTags' \in [Procs -> [Lines -> Tags \cup {NoTag}]]
        /\ XrScacheMutexes' \in [Stripes -> Procs \cup {NoProc}]
        /\ UNCHANGED <<WbCycles, Locked, XrScacheTags, XrScacheExclusiveIds>>
    BY <1>0, <1>14, <1>s, <2>1 DEF StateOK, Fill
  <2>5. /\ DcFlags' \in [Procs -> [Lines -> LineStates]]
        /\ Dc' \in [Procs -> [Lines -> Data]]
        /\ XrScacheFlags' \in [ScIndices -> LineStates]
        /\ CacheMutexes' \in [Procs -> [Stripes -> Procs \cup {NoProc}]]
        /\ \A j \in ScIndices : XrScacheFlags'[j] = EXCLUSIVE => XrScacheFlags[j] = EXCLUSIVE
    <3>1. CASE t \in BadTags
      <4>1. /\ DcFlags' = [DcFlags EXCEPT ![p][l] = INVALID]
            /\ Dc' = [Dc EXCEPT ![p][l] = "old"]
            /\ XrScacheFlags' = [XrScacheFlags EXCEPT ![i] = INVALID]
            /\ SetCacheLock(p, t, NoProc)
        BY <1>14, <3>1 DEF Fill
      <4>2. INVALID \in LineStates /\ INVALID # EXCLUSIVE /\ "old" \in Data
        BY DEF LineStates, INVALID, EXCLUSIVE, Data
      <4>3. CacheMutexes' \in [Procs -> [Stripes -> Procs \cup {NoProc}]]
        BY <1>l, <4>1
      <4>4. DcFlags' \in [Procs -> [Lines -> LineStates]] /\ Dc' \in [Procs -> [Lines -> Data]]
        BY <1>0, <2>1, <4>1, <4>2 DEF StateOK
      <4>5. /\ XrScacheFlags' \in [ScIndices -> LineStates]
            /\ \A j \in ScIndices : XrScacheFlags'[j] = EXCLUSIVE => XrScacheFlags[j] = EXCLUSIVE
        BY <1>0, <2>1, <4>1, <4>2 DEF StateOK
      <4> QED BY <4>3, <4>4, <4>5
    <3>2. CASE t \notin BadTags
      <4>1. /\ DcFlags' = [DcFlags EXCEPT ![p][l] = NewState(p)]
            /\ Dc' = [Dc EXCEPT ![p][l] = Ram[t]]
            /\ UNCHANGED <<XrScacheFlags, CacheMutexes>>
        BY <1>14, <3>2 DEF Fill
      <4>2. Ram[t] \in Data
        BY <1>0, <2>1 DEF StateOK
      <4> QED BY <1>0, <2>1, <4>1, <4>2 DEF StateOK
    <3> QED BY <3>1, <3>2
  <2> QED BY <1>0, <2>2, <2>3, <2>4, <2>5 DEF StateOK
<1>15. ASSUME FilledStore(p) PROVE StateOK'
  <2>1. cpu[p].line \in Lines /\ cpu[p].slot \in Slots
    BY <1>0, <1>15 DEF FilledStore, At, LocalsUsed
  <2> QED BY <1>0, <1>15, <1>l, <1>m, <1>i, <2>1 DEF StateOK, FilledStore, scacheVars
<1>16. ASSUME FilledLoad(p) PROVE StateOK'
  BY <1>0, <1>16, <1>l DEF StateOK, FilledLoad, ReturnFromLoad, dcacheVars, wbVars, scacheVars
<1>17. ASSUME Barrier(p) \/ CheckConditions(p) \/ CacheControl(p) PROVE StateOK'
  BY <1>0, <1>17 DEF StateOK, Barrier, CheckConditions, CacheControl,
                     dcacheVars, wbVars, scacheVars, lockVars
<1>18. ASSUME FlushNext(p) \/ Rfe(p) PROVE StateOK'
  BY <1>0, <1>18 DEF StateOK, FlushNext, Rfe, dcacheVars, wbVars, scacheVars, lockVars
<1>19. ASSUME FlushLock(p) PROVE StateOK'
  BY <1>0, <1>19, <1>l DEF StateOK, FlushLock, dcacheVars, wbVars, scacheVars
<1>20. ASSUME FlushWrite(p) PROVE StateOK'
  <2> DEFINE l == cpu[p].line
  <2>1. l \in Lines
    BY <1>0, <1>20 DEF FlushWrite, At, LocalsUsed
  <2>2. /\ WbIndices' \in [Procs -> [Slots -> Lines \cup {NoLine}]]
        /\ DcIndexToWbIndex' \in [Procs -> [Lines -> Slots \cup {NoSlot}]]
        /\ Ram' \in [Tags -> Data]
    <3>1. CASE WbIndices[p][cpu[p].slot] # NoLine
      <4>1. Dc[p][l] \in Data
        BY <1>0, <2>1 DEF StateOK
      <4>2. /\ Ram' = [Ram EXCEPT ![DcTags[p][l]] = Dc[p][l]]
            /\ WbIndices' = [WbIndices EXCEPT ![p][cpu[p].slot] = NoLine]
            /\ DcIndexToWbIndex' = [DcIndexToWbIndex EXCEPT ![p][l] = NoSlot]
        BY <1>20, <3>1 DEF FlushWrite
      <4> QED BY <1>0, <4>1, <4>2 DEF StateOK
    <3>2. CASE WbIndices[p][cpu[p].slot] = NoLine
      BY <1>0, <1>20, <3>2 DEF StateOK, FlushWrite
    <3> QED BY <3>1, <3>2
  <2> QED BY <1>0, <1>20, <1>l, <2>2 DEF StateOK, FlushWrite, dcacheVars, scacheVars
<1>21. ASSUME Invalidate(p) PROVE StateOK'
  BY <1>0, <1>21 DEF StateOK, Invalidate, LineStates, wbVars, scacheVars, lockVars
<1> QED
  BY <1>1, <1>2, <1>3, <1>4, <1>5, <1>6, <1>7, <1>8, <1>9, <1>10, <1>11, <1>12, <1>13,
     <1>14, <1>15, <1>16, <1>17, <1>18, <1>19, <1>20, <1>21
  DEF Start, Continue, StoreStep

\* The types hold in every behaviour of Dcache, of any size.
LEMMA AlwaysTyped == Spec => []TypeInv
<1>1. TypeInv /\ [Next]_vars => TypeInv'
  <2>1. ASSUME TypeInv, NEW p \in Procs, Start(p) \/ Continue(p) PROVE TypeInv'
    BY <2>1, LocalsTyped, StateTyped DEF TypeInv
  <2>2. TypeInv /\ UNCHANGED vars => TypeInv'
    BY DEF TypeInv, StateOK, LocalsOK, vars, dcacheVars, wbVars, scacheVars, lockVars
  <2> QED BY <2>1, <2>2 DEF Next
<1> QED BY <1>1, InitTyped, PTL DEF Spec

\* No access, flush, downgrade or reset of flags puts a line, slot, tag or lock
\* owner that does not exist into the caches, the directory or the write buffer.
THEOREM TypeCorrect == Spec => []TypeOK
<1>1. TypeInv => TypeOK
  BY DEF TypeInv, StateOK, LocalsOK, TypeOK
<1> QED BY <1>1, AlwaysTyped, PTL
-----------------------------------------------------------------------------
(* The directory.                                                          *)

Downgrading(p) == cpu[p].pc \in {"downgrade", "downgrading"}
InDirectory(p) == Downgrading(p) \/ cpu[p].pc \in {"fill", "filling"}
Upgrading(p) == Downgrading(p) /\ cpu[p].ret = "upgrade"
Missing(p) ==
  cpu[p].pc \in {"miss", "fill", "filling"} \/ (Downgrading(p) /\ cpu[p].ret = "miss")

NoControl == \A p \in Procs : cpu[p].pc # "invalidate" /\ cpu[p].ret # "invalidate"

\* A directory entry is at the place of its tag, and one in use has a tag.
Placed ==
  \A i \in ScIndices :
    /\ XrScacheFlags[i] # INVALID => XrScacheTags[i] # NoTag
    /\ XrScacheTags[i] # NoTag => ScSet(XrScacheTags[i]) = i

\* A valid line is at the place of its tag, and was read without an error.
Filed ==
  \A p \in Procs, l \in Lines : Valid(p, l) =>
    DcTags[p][l] \in Tags \ BadTags /\ l \in LinesOf(DcTags[p][l])

Included ==
  \A p \in Procs, l \in Lines : Valid(p, l) =>
    LET i == ScSet(DcTags[p][l]) IN
    /\ InScache(DcTags[p][l])
    /\ DcFlags[p][l] = EXCLUSIVE => XrScacheFlags[i] = EXCLUSIVE
    /\ XrScacheFlags[i] = EXCLUSIVE => XrScacheExclusiveIds[i] = p

Owner(p) == InDirectory(p) => XrScacheMutexes[Mutex(Tag(p))] = p

\* The line that a write upgrade is about keeps its tag.
LineKept(p) ==
  cpu[p].pc = "upgrade" \/ Upgrading(p) =>
    /\ DcTags[p][cpu[p].line] = Tag(p)
    /\ Tag(p) \notin BadTags
    /\ cpu[p].line \in LinesOf(Tag(p))
OnlyLine(p) ==
  Upgrading(p) =>
    /\ InScache(Tag(p))
    /\ \A l \in Lines : Holds(p, l, Tag(p)) => l = cpu[p].line
NotHeld(p) == Missing(p) => \A l \in Lines : ~Holds(p, l, Tag(p))

\* Dcaches are visited only for a directory entry in use.
InUse(p) ==
  Downgrading(p) /\ (cpu[p].todo # {} \/ cpu[p].pc = "downgrading") =>
    XrScacheFlags[ScSet(Tag(p))] # INVALID
ToVisit(p, q) ==
  \/ q \in cpu[p].todo
  \/ cpu[p].pc = "downgrading" /\ q = cpu[p].victim
  \/ cpu[p].ret = "upgrade" /\ q = p
Visited(p) ==
  Downgrading(p) =>
    \A q \in Procs, l \in Lines :
      ~ToVisit(p, q) /\ Holds(q, l, DowngradeTag(p)) => DcFlags[q][l] <= DowngradeState(p)
Found(p) ==
  cpu[p].pc = "downgrading" =>
    LET q == cpu[p].victim
        Above(l) == Holds(q, l, DowngradeTag(p)) /\ DcFlags[q][l] > DowngradeState(p) IN
    /\ cpu[p].vline # NoLine => Above(cpu[p].vline)
    /\ \A l \in Lines : Above(l) => l = cpu[p].vline
Entered(p) ==
  cpu[p].pc \in {"fill", "filling"} =>
    LET i == ScSet(Tag(p)) IN
    /\ XrScacheFlags[i] = NewState(p)
    /\ XrScacheTags[i] = Tag(p)
    /\ XrScacheExclusiveIds[i] = p

Phase(p) ==
  /\ Owner(p) /\ LineKept(p) /\ OnlyLine(p) /\ NotHeld(p)
  /\ InUse(p) /\ Visited(p) /\ Found(p) /\ Entered(p)

DirInv ==
  /\ NoControl /\ Placed /\ Filed /\ Included /\ OneWay
  /\ \A p \in Procs : cpu[p].pc # "abort" /\ Phase(p)
-----------------------------------------------------------------------------
(* What a step leaves alone.                                               *)

DirectoryState == <<DcFlags, DcTags, scacheVars, XrScacheMutexes>>

Shared == Placed /\ Filed /\ Included /\ OneWay

\* What a step of p, inside the directory with the stripe of its tag or about to
\* take it, may change: lines and entries of its tag's sets, that stripe.  No line
\* of another processor becomes valid.
Frame(p) ==
  /\ \A q \in Procs \ {p} : cpu'[q] = cpu[q] /\ DcTags'[q] = DcTags[q]
  /\ \A q \in Procs \ {p}, l \in Lines : Valid(q, l)' => Valid(q, l)
  /\ \A q \in Procs, l \in Lines : l[1] # DcSet(Tag(p)) =>
       DcFlags'[q][l] = DcFlags[q][l] /\ DcTags'[q][l] = DcTags[q][l]
  /\ \A i \in ScIndices : i # ScSet(Tag(p)) =>
       /\ XrScacheFlags'[i] = XrScacheFlags[i]
       /\ XrScacheTags'[i] = XrScacheTags[i]
       /\ XrScacheExclusiveIds'[i] = XrScacheExclusiveIds[i]
  /\ XrScacheMutexes[Mutex(Tag(p))] \in {NoProc, p}
  /\ \A m \in Stripes : m # Mutex(Tag(p)) => XrScacheMutexes'[m] = XrScacheMutexes[m]

\* Away from the directory nothing is asked of a processor's locals.
LEMMA Outside ==
  ASSUME NEW p \in Procs,
         cpu[p].pc \notin {"upgrade", "miss", "downgrade", "downgrading", "fill", "filling"}
  PROVE  Phase(p)
BY DEF Phase, Owner, LineKept, OnlyLine, NotHeld, InUse, Visited, Found, Entered,
       InDirectory, Upgrading, Missing, Downgrading

\* A step that leaves lines and directory alone keeps what others rely on.
LEMMA QuietStep ==
  ASSUME DirInv, NEW p \in Procs, UNCHANGED DirectoryState,
         \A q \in Procs \ {p} : cpu'[q] = cpu[q],
         cpu'[p].pc \notin {"abort", "invalidate"}, cpu'[p].ret # "invalidate",
         Phase(p)'
  PROVE  DirInv'
<1>1. Shared'
  BY DEF DirInv, Shared, Placed, Filed, Included, OneWay, InScache, Holds, Valid,
         DirectoryState, scacheVars
<1>2. ASSUME NEW q \in Procs, q # p PROVE Phase(q)'
  <2>1. cpu'[q] = cpu[q] /\ Phase(q)
    BY <1>2 DEF DirInv
  <2> QED
    BY SMTT(30), ZenonT(40), <2>1
    DEF Phase, Owner, LineKept, OnlyLine, NotHeld, InUse, Visited, Found, Entered,
        InDirectory, Upgrading, Missing, Downgrading, ToVisit, DowngradeTag, DowngradeState,
        NewState, Writing, InScache, Holds, Valid, Tag, DirectoryState, scacheVars
<1>3. NoControl' /\ \A q \in Procs : cpu'[q].pc # "abort"
  BY DEF DirInv, NoControl
<1> QED BY <1>1, <1>2, <1>3 DEF DirInv, Shared

\* A line not in the Dcache set of p's tag is held after p's step as before it.
LEMMA Elsewhere ==
  ASSUME Filed, Filed', NEW p \in Procs, Frame(p),
         NEW u, DcSet(u) # DcSet(Tag(p)), NEW q \in Procs, NEW l \in Lines
  PROVE  /\ Holds(q, l, u)' <=> Holds(q, l, u)
         /\ Holds(q, l, u) => DcFlags'[q][l] = DcFlags[q][l]
<1>1. CASE l[1] # DcSet(Tag(p))
  BY <1>1 DEF Frame, Holds, Valid
<1>2. CASE l[1] = DcSet(Tag(p))
  <2>1. l \notin LinesOf(u)
    BY <1>2 DEF LinesOf
  <2> QED BY <2>1 DEF Filed, Holds
<1> QED BY <1>1, <1>2

\* A processor inside the directory has its tag, in another set than the tag of any
\* other processor that is there or may enter.
LEMMA OtherStripe ==
  ASSUME TypeInv, DirInv, NEW p \in Procs, Frame(p), Tag(p) \in Tags,
         NEW q \in Procs, q # p, InDirectory(q)
  PROVE  /\ Tag(q) \in Tags
         /\ Mutex(Tag(q)) # Mutex(Tag(p))
         /\ DcSet(Tag(q)) # DcSet(Tag(p))
         /\ ScSet(Tag(q)) # ScSet(Tag(p))
<1>1. Tag(q) \in Tags
  BY DEF TypeInv, LocalsOK, LocalsUsed, InDirectory, Downgrading, Tag
<1>2. XrScacheMutexes[Mutex(Tag(q))] = q
  BY DEF DirInv, Phase, Owner
<1>3. Mutex(Tag(q)) # Mutex(Tag(p))
  BY <1>2, ProcAssumption DEF Frame
<1> QED BY <1>1, <1>3, NestAssumption

\* The entry of a processor inside the directory: the tag taken away belongs there.
LEMMA EntryTag ==
  ASSUME TypeInv, DirInv, NEW q \in Procs, Tag(q) \in Tags
  PROVE  /\ ScSet(Tag(q)) \in ScIndices
         /\ DowngradeTag(q) # NoTag => /\ DowngradeTag(q) \in Tags
                                       /\ ScSet(DowngradeTag(q)) = ScSet(Tag(q))
                                       /\ DcSet(DowngradeTag(q)) = DcSet(Tag(q))
<1>1. ScSet(Tag(q)) \in ScIndices
  BY Indices
<1>2. DowngradeTag(q) # NoTag => DowngradeTag(q) \in Tags /\ ScSet(DowngradeTag(q)) = ScSet(Tag(q))
  BY <1>1 DEF DowngradeTag, DirInv, Placed, TypeInv, StateOK
<1> QED BY <1>1, <1>2, NestAssumption

\* A step of p keeps what another processor relies on.
LEMMA OthersKept ==
  ASSUME TypeInv, DirInv, NEW p \in Procs, Frame(p), Tag(p) \in Tags, Filed',
         NEW q \in Procs, q # p
  PROVE  Phase(q)'
<1>0. /\ cpu'[q] = cpu[q] /\ DcTags'[q] = DcTags[q]
      /\ Phase(q)
  BY DEF Frame, DirInv
<1>1. \A l \in Lines : \A u : Holds(q, l, u)' => Holds(q, l, u)
  BY <1>0 DEF Frame, Holds
<1>2. LineKept(q)'
  BY <1>0 DEF Phase, LineKept, Upgrading, Downgrading, Tag
<1>3. NotHeld(q)'
  BY <1>0, <1>1 DEF Phase, NotHeld, Missing, Downgrading, Tag
<1>4. CASE ~InDirectory(q)
  BY <1>0, <1>2, <1>3, <1>4
  DEF Phase, Owner, OnlyLine, InUse, Visited, Found, Entered, InDirectory, Upgrading, Downgrading
<1>5. CASE InDirectory(q)
  <2> DEFINE t == Tag(q)   i == ScSet(t)
  <2>1. /\ t \in Tags /\ i \in ScIndices /\ Mutex(t) \in Stripes
        /\ Mutex(t) # Mutex(Tag(p)) /\ DcSet(t) # DcSet(Tag(p)) /\ i # ScSet(Tag(p))
    BY <1>5, OtherStripe, Indices
  <2>2. /\ XrScacheFlags'[i] = XrScacheFlags[i]
        /\ XrScacheTags'[i] = XrScacheTags[i]
        /\ XrScacheExclusiveIds'[i] = XrScacheExclusiveIds[i]
        /\ XrScacheMutexes'[Mutex(t)] = XrScacheMutexes[Mutex(t)]
    BY <2>1 DEF Frame
  <2>3. Owner(q)' /\ InUse(q)' /\ Entered(q)'
    BY <1>0, <2>2 DEF Phase, Owner, InUse, Entered, InDirectory, Downgrading, Tag, NewState, Writing
  <2>4. OnlyLine(q)'
    BY <1>0, <1>1, <2>2 DEF Phase, OnlyLine, Upgrading, Downgrading, InScache, Tag
  <2>5. DowngradeTag(q)' = DowngradeTag(q) /\ DowngradeState(q)' = DowngradeState(q)
    BY <1>0, <2>2 DEF DowngradeTag, DowngradeState, Tag, Writing, InScache
  <2> PICK u : u = DowngradeTag(q)
    OBVIOUS
  <2>6. ASSUME NEW r \in Procs, NEW l \in Lines
        PROVE  /\ Holds(r, l, u)' <=> Holds(r, l, u)
               /\ Holds(r, l, u) => DcFlags'[r][l] = DcFlags[r][l]
    <3>1. CASE u = NoTag
      BY <3>1, Sizes DEF DirInv, Filed, Holds
    <3>2. CASE u # NoTag
      <4>1. DcSet(u) # DcSet(Tag(p))
        BY <2>1, <3>2, EntryTag
      <4> QED BY <4>1, Elsewhere DEF DirInv
    <3> QED BY <3>1, <3>2
  <2>7. Visited(q)'
    BY <1>0, <2>5, <2>6 DEF Phase, Visited, ToVisit, Downgrading
  <2>8. Found(q)'
    BY <1>0, <2>5, <2>6, <1>5 DEF Phase, Found, TypeInv, LocalsOK, LocalsUsed, Locals
  <2> QED BY <1>2, <1>3, <2>3, <2>4, <2>7, <2>8 DEF Phase
<1> QED BY <1>4, <1>5

\* A step that does change lines or directory has to account for itself only.
LEMMA LoudStep ==
  ASSUME TypeInv, DirInv, NEW p \in Procs, Frame(p), Tag(p) \in Tags, Shared',
         cpu'[p].pc \notin {"abort", "invalidate"}, cpu'[p].ret # "invalidate",
         Phase(p)'
  PROVE  DirInv'
<1>1. \A q \in Procs : Phase(q)'
  BY OthersKept DEF Shared
<1>2. NoControl' /\ \A q \in Procs : cpu'[q].pc # "abort"
  BY DEF DirInv, NoControl, Frame
<1> QED BY <1>1, <1>2 DEF DirInv, Shared

-----------------------------------------------------------------------------
(* Steps that leave lines and directory alone.                             *)

\* Steps to a place away from the directory.
LEMMA AwaySteps ==
  ASSUME TypeInv, DirInv, NEW p \in Procs,
         \/ \E o \in Accesses, t \in Tags : Begin(p, o, t)
         \/ Barrier(p) \/ CheckConditions(p) \/ Rfe(p)
         \/ LoadCopy(p) \/ StoreLock(p) \/ StoreHitsBuffer(p) \/ StoreFindsBufferFull(p)
         \/ StoreMerge(p) \/ FilledStore(p) \/ FilledLoad(p)
         \/ FlushNext(p) \/ FlushLock(p) \/ FlushWrite(p)
  PROVE  DirInv'
<1>0. /\ cpu \in [Procs -> Locals] /\ LocalsUsed(cpu[p])
      /\ cpu[p].pc # "invalidate" /\ cpu[p].ret # "invalidate"
  BY DEF TypeInv, LocalsOK, DirInv, NoControl
<1> DEFINE Away == /\ \A q \in Procs \ {p} : cpu'[q] = cpu[q]
                   /\ cpu'[p].pc \in {"idle", "start", "scan", "flush", "flushlock", "flushing"}
                   /\ cpu'[p].ret # "invalidate"
                   /\ UNCHANGED DirectoryState
<1>r. ASSUME Return(p), UNCHANGED DirectoryState PROVE Away
  BY <1>0, <1>r DEF Return, Idle
<1>f. ASSUME StartFlush(p, "idle"), UNCHANGED DirectoryState PROVE Away
  BY <1>0, <1>f DEF StartFlush, Idle
<1>1. ASSUME NEW o, NEW t, Begin(p, o, t) PROVE Away
  BY <1>0, <1>1 DEF Begin, Idle, DirectoryState, dcacheVars, scacheVars, lockVars
<1>2. ASSUME Barrier(p) \/ CheckConditions(p) PROVE Away
  BY <1>2, <1>f DEF Barrier, CheckConditions, DirectoryState, dcacheVars, scacheVars, lockVars
<1>3. ASSUME Rfe(p) PROVE Away
  BY <1>0, <1>3 DEF Rfe, At, DirectoryState, dcacheVars, scacheVars, lockVars
<1>4. ASSUME LoadCopy(p) \/ StoreHitsBuffer(p) \/ StoreMerge(p) \/ FilledStore(p) \/ FilledLoad(p)
      PROVE  Away
  BY <1>4, <1>r DEF LoadCopy, StoreHitsBuffer, StoreMerge, FilledStore, FilledLoad,
                    ReturnFromLoad, DirectoryState, dcacheVars, scacheVars, lockVars
<1>5. ASSUME StoreLock(p) \/ FlushLock(p) PROVE Away
  BY <1>0, <1>5 DEF StoreLock, FlushLock, Goto, Locals, DirectoryState, dcacheVars, scacheVars
<1>6. ASSUME StoreFindsBufferFull(p) PROVE Away
  BY <1>0, <1>6 DEF StoreFindsBufferFull, Locals, DirectoryState, dcacheVars, scacheVars
<1>7. ASSUME FlushWrite(p) PROVE Away
  BY <1>0, <1>7 DEF FlushWrite, Locals, DirectoryState, dcacheVars, scacheVars
<1>8. ASSUME FlushNext(p) PROVE Away
  <2>1. cpu[p].ret \in {"idle", "start"}
    BY <1>0, <1>8 DEF FlushNext, At, LocalsUsed
  <2>2. UNCHANGED DirectoryState
    BY <1>8 DEF FlushNext, DirectoryState, dcacheVars, scacheVars, lockVars
  <2>3. CASE Return(p)
    BY <1>r, <2>2, <2>3
  <2>4. CASE ~Return(p)
    <3>1. \/ \E s : cpu' = [cpu EXCEPT ![p].pc = "flushlock", ![p].slot = s,
                                       ![p].line = WbIndices[p][s]]
          \/ cpu' = [cpu EXCEPT ![p].pc = cpu[p].ret, ![p].slot = 0,
                                ![p].line = NoLine, ![p].ret = "idle"]
      BY <1>8, <2>4 DEF FlushNext
    <3>2. ASSUME NEW s, cpu' = [cpu EXCEPT ![p].pc = "flushlock", ![p].slot = s,
                                           ![p].line = WbIndices[p][s]]
          PROVE  Away
      BY <1>0, <2>2, <3>2 DEF Locals
    <3>3. ASSUME cpu' = [cpu EXCEPT ![p].pc = cpu[p].ret, ![p].slot = 0,
                                    ![p].line = NoLine, ![p].ret = "idle"],
                 cpu[p].ret = "start"
          PROVE  Away
      BY <1>0, <2>2, <3>3 DEF Locals
    <3>4. CASE cpu[p].ret = "start"
      BY <3>1, <3>2, <3>3, <3>4
    <3>5. CASE cpu[p].ret = "idle"
      BY <1>8, <2>4, <3>2, <3>5 DEF FlushNext
    <3> QED BY <2>1, <3>4, <3>5
  <2> QED BY <2>3, <2>4
<1>9. Away
  BY <1>1, <1>2, <1>3, <1>4, <1>5, <1>6, <1>7, <1>8
<1>10. Phase(p)'
  BY <1>9 DEF Phase, Owner, LineKept, OnlyLine, NotHeld, InUse, Visited, Found, Entered,
              InDirectory, Upgrading, Missing, Downgrading
<1> QED BY <1>9, <1>10, QuietStep

\* A lookup that finds a line, or none, leaves LineKept or NotHeld to the write
\* upgrade or the miss that follows.
LEMMA LookupSteps ==
  ASSUME TypeInv, DirInv, NEW p \in Procs, LoadLookup(p) \/ StoreLookup(p)
  PROVE  DirInv'
<1>0. /\ cpu \in [Procs -> Locals] /\ Tag(p) \in Tags
      /\ cpu[p].ret # "invalidate"
      /\ UNCHANGED DirectoryState
  BY DEF TypeInv, LocalsOK, LocalsUsed, DirInv, NoControl, LoadLookup, StoreLookup, At, Tag,
         DirectoryState, dcacheVars, scacheVars, lockVars
<1> DEFINE t == Tag(p)   l == Hit(p, t)
<1>1. /\ \A q \in Procs \ {p} : cpu'[q] = cpu[q]
      /\ \/ cpu'[p].pc \in {"idle", "copy", "merge"} /\ cpu'[p].ret # "invalidate"
         \/ /\ cpu'[p].pc = "miss" /\ l = NoLine
            /\ cpu'[p].tag = t /\ cpu'[p].ret = cpu[p].ret
         \/ /\ cpu'[p].pc = "upgrade" /\ l # NoLine
            /\ cpu'[p].tag = t /\ cpu'[p].line = l /\ cpu'[p].ret = cpu[p].ret
  <2>1. CASE LoadLookup(p)
    <3> DEFINE next == IF l = NoLine THEN "miss" ELSE "copy"
    <3>1. cpu' = [cpu EXCEPT ![p].pc = next, ![p].line = l]
      BY <2>1 DEF LoadLookup
    <3>2. /\ \A q \in Procs \ {p} : cpu'[q] = cpu[q]
          /\ cpu'[p].pc = next /\ cpu'[p].tag = t /\ cpu'[p].ret = cpu[p].ret
      BY <1>0, <3>1 DEF Locals, Tag
    <3> QED BY <1>0, <3>2
  <2>2. CASE StoreLookup(p)
    <3>1. CASE Return(p)
      BY <1>0, <3>1 DEF Return, Idle
    <3>2. CASE ~Return(p)
      <4> DEFINE exclusive == l # NoLine /\ DcFlags[p][l] = EXCLUSIVE
                 next == IF exclusive THEN "merge" ELSE IF l = NoLine THEN "miss" ELSE "upgrade"
      <4>1. PICK s : cpu' = [cpu EXCEPT ![p].pc = next, ![p].line = l, ![p].slot = s]
        BY <2>2, <3>2 DEF StoreLookup
      <4>2. /\ \A q \in Procs \ {p} : cpu'[q] = cpu[q]
            /\ cpu'[p].pc = next /\ cpu'[p].line = l
            /\ cpu'[p].tag = t /\ cpu'[p].ret = cpu[p].ret
        BY <1>0, <4>1 DEF Locals, Tag
      <4> QED BY <1>0, <4>2
    <3> QED BY <3>1, <3>2
  <2> QED BY <2>1, <2>2
<1> DEFINE held == {k \in LinesOf(t) : Valid(p, k) /\ DcTags[p][k] = t}
<1>2. held \subseteq Lines /\ l = First(held)
  BY DEF LinesOf, Hit
<1>3. l # NoLine => l \in held
  BY <1>2, FirstLine
<1>4. l = NoLine => \A k \in Lines : ~Holds(p, k, t)
  <2>1. l = NoLine => held = {}
    BY <1>2, FirstLine, Sizes
  <2> QED BY <2>1 DEF Holds, DirInv, Filed
<1>5. CASE cpu'[p].pc = "miss"
  <2>1. NotHeld(p)'
    BY <1>0, <1>1, <1>4, <1>5 DEF NotHeld, Holds, Valid, Tag, DirectoryState
  <2>2. Phase(p)'
    BY <1>5, <2>1 DEF Phase, Owner, LineKept, OnlyLine, InUse, Visited, Found, Entered,
              InDirectory, Upgrading, Downgrading
  <2> QED BY <1>0, <1>1, <1>5, <2>2, QuietStep
<1>6. CASE cpu'[p].pc = "upgrade"
  <2>1. l \in LinesOf(t) /\ Valid(p, l) /\ DcTags[p][l] = t
    BY <1>1, <1>3, <1>6
  <2>2. t \notin BadTags
    BY <2>1 DEF DirInv, Filed, LinesOf
  <2>3. LineKept(p)'
    BY <1>0, <1>1, <1>6, <2>1, <2>2 DEF LineKept, Tag, DirectoryState
  <2>4. Phase(p)'
    BY <1>6, <2>3 DEF Phase, Owner, NotHeld, OnlyLine, InUse, Visited, Found, Entered,
              InDirectory, Upgrading, Missing, Downgrading
  <2> QED BY <1>0, <1>1, <1>6, <2>4, QuietStep
<1>7. CASE cpu'[p].pc \in {"idle", "copy", "merge"}
  <2>1. Phase(p)'
    BY <1>7 DEF Phase, Owner, LineKept, NotHeld, OnlyLine, InUse, Visited, Found, Entered,
              InDirectory, Upgrading, Missing, Downgrading
  <2> QED BY <1>0, <1>1, <1>7, <2>1, QuietStep
<1> QED BY <1>1, <1>5, <1>6, <1>7

\* Taking a Dcache lock inside the directory.  The line XrDowngradeLine finds is the
\* only one to take away, by OneWay.
LEMMA InnerLocks ==
  ASSUME TypeInv, DirInv, NEW p \in Procs, FillLock(p) \/ DowngradeLock(p)
  PROVE  DirInv'
<1>0. /\ cpu \in [Procs -> Locals] /\ LocalsUsed(cpu[p])
      /\ cpu[p].ret # "invalidate" /\ Phase(p)
  BY DEF TypeInv, LocalsOK, DirInv, NoControl
<1>1. UNCHANGED DirectoryState
  BY DEF FillLock, DowngradeLock, DirectoryState, dcacheVars, scacheVars
<1>2. CASE FillLock(p)
  <2>1. /\ \A q \in Procs \ {p} : cpu'[q] = cpu[q]
        /\ cpu[p].pc = "fill" /\ cpu'[p].pc = "filling"
        /\ cpu'[p].tag = cpu[p].tag /\ cpu'[p].op = cpu[p].op /\ cpu'[p].ret = cpu[p].ret
    BY <1>0, <1>2 DEF FillLock, At, Goto, Locals
  <2>2. Phase(p)'
    BY <1>0, <1>1, <2>1
    DEF Phase, Owner, LineKept, NotHeld, OnlyLine, InUse, Visited, Found, Entered, NewState,
        Writing, InDirectory, Upgrading, Missing, Downgrading, Tag, Holds, Valid,
        DirectoryState, scacheVars
  <2> QED BY <1>0, <1>1, <2>1, <2>2, QuietStep
<1>3. CASE DowngradeLock(p)
  <2>1. PICK q \in cpu[p].todo :
          cpu' = [cpu EXCEPT ![p].pc = "downgrading", ![p].victim = q,
                             ![p].vline = LineToDowngrade(p, q), ![p].todo = @ \ {q}]
    BY <1>3 DEF DowngradeLock
  <2>2. /\ \A r \in Procs \ {p} : cpu'[r] = cpu[r]
        /\ cpu[p].pc = "downgrade" /\ cpu'[p].pc = "downgrading"
        /\ cpu'[p].tag = cpu[p].tag /\ cpu'[p].op = cpu[p].op /\ cpu'[p].ret = cpu[p].ret
        /\ cpu'[p].line = cpu[p].line /\ cpu'[p].todo = cpu[p].todo \ {q}
        /\ cpu'[p].victim = q /\ cpu'[p].vline = LineToDowngrade(p, q)
        /\ q \in Procs /\ Tag(p) \in Tags
    <3>1. cpu[p].pc = "downgrade" /\ q \in Procs /\ Tag(p) \in Tags
      BY <1>0, <1>3, <2>1 DEF DowngradeLock, At, Locals, LocalsUsed, Tag
    <3>2. cpu[p] \in Locals
      BY <1>0
    <3> DEFINE v == LineToDowngrade(p, q)
    <3>3. /\ \A r \in Procs \ {p} : cpu'[r] = cpu[r]
          /\ cpu'[p] = [cpu[p] EXCEPT !.pc = "downgrading", !.victim = q,
                                      !.vline = v, !.todo = @ \ {q}]
      BY <1>0, <2>1
    <3> HIDE DEF v
    <3>4. /\ cpu'[p].pc = "downgrading" /\ cpu'[p].victim = q /\ cpu'[p].vline = v
          /\ cpu'[p].tag = cpu[p].tag /\ cpu'[p].op = cpu[p].op /\ cpu'[p].ret = cpu[p].ret
          /\ cpu'[p].line = cpu[p].line /\ cpu'[p].todo = cpu[p].todo \ {q}
      BY <3>2, <3>3 DEF Locals
    <3> QED BY <3>1, <3>3, <3>4 DEF v
  <2>3. /\ DowngradeTag(p)' = DowngradeTag(p) /\ DowngradeState(p)' = DowngradeState(p)
        /\ Tag(p)' = Tag(p)
    BY <1>1, <2>2
    DEF DowngradeTag, DowngradeState, Tag, Writing, InScache, DirectoryState, scacheVars
  <2>4. Owner(p)' /\ LineKept(p)' /\ OnlyLine(p)' /\ NotHeld(p)'
    BY <1>0, <1>1, <2>2, <2>3
    DEF Phase, Owner, LineKept, NotHeld, OnlyLine, InDirectory, Upgrading, Missing, Downgrading,
        Holds, Valid, InScache, DirectoryState, scacheVars
  <2>5. InUse(p)' /\ Visited(p)' /\ Entered(p)'
    BY <1>0, <1>1, <2>2, <2>3
    DEF Phase, InUse, Visited, Entered, ToVisit, Downgrading, Holds, Valid,
        DirectoryState, scacheVars
  <2>6. Found(p)'
    <3> DEFINE u == DowngradeTag(p)
               Above(l) == Holds(q, l, u) /\ DcFlags[q][l] > DowngradeState(p)
               found == {l \in LinesOf(u) : DcFlags[q][l] > DowngradeState(p) /\ DcTags[q][l] = u}
               v == LineToDowngrade(p, q)
    <3>1. found \subseteq Lines /\ v = First(found)
      BY DEF LinesOf, LineToDowngrade
    <3>2. \A l \in Lines : l \in found <=> Above(l)
      <4>1. ASSUME NEW l \in Lines, DcFlags[q][l] > DowngradeState(p) PROVE Valid(q, l)
        BY <2>2, <4>1
        DEF TypeInv, StateOK, LineStates, Valid, DowngradeState, INVALID, SHARED, EXCLUSIVE
      <4> QED BY <4>1, <2>2 DEF Holds, DirInv, Filed, LinesOf
    <3>3. (v # NoLine => v \in found) /\ (found # {} => v \in found)
      BY <3>1, FirstLine
    <3>4. \A k, l \in Lines : Above(k) /\ Above(l) => k = l
      BY <2>2 DEF DirInv, OneWay, Holds
    <3>5. /\ v # NoLine => Above(v)
          /\ \A l \in Lines : Above(l) => l = v
      BY <3>1, <3>2, <3>3, <3>4
    <3> QED BY <1>1, <2>2, <2>3, <3>5
            DEF Found, Holds, Valid, DirectoryState
  <2>7. Phase(p)'
    BY <2>4, <2>5, <2>6 DEF Phase
  <2> QED BY <1>0, <1>1, <2>2, <2>7, QuietStep
<1> QED BY <1>2, <1>3

-----------------------------------------------------------------------------
(* Steps that take the Scache stripe.                                      *)

\* Taking the stripe changes nothing that it guards.
LEMMA LockFrame ==
  ASSUME TypeInv, DirInv, NEW p \in Procs, Tag(p) \in Tags,
         ScacheFree(Tag(p)), SetScacheLock(Tag(p), p),
         UNCHANGED <<DcFlags, DcTags, scacheVars>>,
         \A q \in Procs \ {p} : cpu'[q] = cpu[q]
  PROVE  /\ Frame(p) /\ Shared'
         /\ XrScacheMutexes'[Mutex(Tag(p))] = p
<1>1. Shared'
  BY DEF DirInv, Shared, Placed, Filed, Included, OneWay, InScache, Holds, Valid, scacheVars
<1>2. XrScacheMutexes'[Mutex(Tag(p))] = p
  BY Indices DEF TypeInv, StateOK, SetScacheLock
<1>3. \A m \in Stripes : m # Mutex(Tag(p)) => XrScacheMutexes'[m] = XrScacheMutexes[m]
  BY DEF TypeInv, StateOK, SetScacheLock
<1> QED BY <1>1, <1>2, <1>3 DEF Frame, Valid, ScacheFree, scacheVars

\* Nobody holds the tag of an entry not in use, and one processor alone that of an
\* exclusive entry.
LEMMA HoldersOf ==
  ASSUME TypeInv, DirInv, NEW p \in Procs, Tag(p) \in Tags,
         NEW q \in Procs, NEW l \in Lines, Holds(q, l, DowngradeTag(p))
  PROVE  /\ XrScacheFlags[ScSet(Tag(p))] # INVALID
         /\ XrScacheFlags[ScSet(Tag(p))] = EXCLUSIVE => q = XrScacheExclusiveIds[ScSet(Tag(p))]
         /\ DcFlags[q][l] = EXCLUSIVE => XrScacheFlags[ScSet(Tag(p))] = EXCLUSIVE
<1> DEFINE u == DowngradeTag(p)
<1>1. Valid(q, l) /\ DcTags[q][l] = u
  BY DEF Holds
<1>2. u \in Tags
  BY <1>1 DEF DirInv, Filed
<1>3. ScSet(u) = ScSet(Tag(p))
  BY <1>2, EntryTag, Sizes
<1> QED BY <1>1, <1>3 DEF DirInv, Included, InScache

\* XrDcacheAccess takes the stripe for a write upgrade.
LEMMA UpgradeLockStep ==
  ASSUME TypeInv, DirInv, NEW p \in Procs, UpgradeLock(p)
  PROVE  DirInv'
<1> DEFINE l == cpu[p].line   t == Tag(p)   i == ScSet(t)
<1>0. /\ cpu \in [Procs -> Locals] /\ cpu[p].pc = "upgrade"
      /\ cpu[p].ret # "invalidate" /\ Phase(p)
      /\ t \in Tags /\ l \in Lines
  BY DEF TypeInv, LocalsOK, LocalsUsed, DirInv, NoControl, UpgradeLock, At, Tag
<1>1. DcTags[p][l] = t /\ l \in LinesOf(t) /\ t \notin BadTags
  BY <1>0 DEF Phase, LineKept
<1>2. Valid(p, l) => InScache(t)
  BY <1>0, <1>1 DEF DirInv, Included
<1>3. CASE ~Valid(p, l)
  <2>1. /\ UNCHANGED DirectoryState
        /\ cpu' = [cpu EXCEPT ![p].pc = "start", ![p].line = NoLine, ![p].slot = 0]
    BY <1>3 DEF UpgradeLock, DirectoryState, dcacheVars
  <2>2. /\ \A q \in Procs \ {p} : cpu'[q] = cpu[q]
        /\ cpu'[p].pc = "start" /\ cpu'[p].ret = cpu[p].ret
    BY <1>0, <2>1 DEF Locals
  <2>3. Phase(p)'
    BY <2>2 DEF Phase, Owner, LineKept, NotHeld, OnlyLine, InUse, Visited, Found, Entered,
              InDirectory, Upgrading, Missing, Downgrading
  <2> QED BY <1>0, <2>1, <2>2, <2>3, QuietStep
<1>4. CASE Valid(p, l)
  <2> DEFINE todo == IF XrScacheFlags[i] = SHARED THEN Procs \ {p} ELSE {XrScacheExclusiveIds[i]}
  <2>1. /\ cpu' = [cpu EXCEPT ![p].pc = "downgrade", ![p].ret = "upgrade", ![p].todo = todo]
        /\ ScacheFree(t) /\ SetScacheLock(t, p)
        /\ UNCHANGED <<DcFlags, DcTags, scacheVars>>
    BY <1>2, <1>4 DEF UpgradeLock, dcacheVars
  <2>2. /\ \A q \in Procs \ {p} : cpu'[q] = cpu[q]
        /\ cpu'[p].pc = "downgrade" /\ cpu'[p].ret = "upgrade" /\ cpu'[p].todo = todo
        /\ cpu'[p].tag = t /\ cpu'[p].line = l
    <3> HIDE DEF todo
    <3> QED BY <1>0, <2>1 DEF Locals, Tag
  <2>3. Frame(p) /\ Shared' /\ XrScacheMutexes'[Mutex(t)] = p
    BY <1>0, <2>1, <2>2, LockFrame
  <2>4. XrScacheFlags[i] \in {SHARED, EXCLUSIVE} /\ DowngradeTag(p) = t
    BY <1>0, <1>2, <1>4, Indices DEF InScache, TypeInv, StateOK, LineStates, DowngradeTag
  <2>5. Owner(p)' /\ LineKept(p)' /\ NotHeld(p)' /\ Found(p)' /\ Entered(p)'
    BY <1>1, <2>1, <2>2, <2>3
    DEF Owner, LineKept, NotHeld, Found, Entered, Upgrading, Missing, Downgrading, Tag
  <2>6. InUse(p)'
    BY <2>1, <2>2, <2>4 DEF InUse, Tag, INVALID, SHARED, EXCLUSIVE, scacheVars
  <2>7. OnlyLine(p)'
    BY <1>0, <1>1, <1>2, <1>4, <2>1, <2>2
    DEF OnlyLine, Tag, DirInv, OneWay, Holds, Valid, InScache, scacheVars
  <2>8. Visited(p)'
    <3> SUFFICES ASSUME NEW q \in Procs, NEW k \in Lines, q # p, q \notin todo,
                        Holds(q, k, DowngradeTag(p))
                 PROVE  FALSE
      BY <2>1, <2>2 DEF Visited, ToVisit, Holds, Valid, DowngradeTag, Tag, scacheVars
    <3>1. XrScacheFlags[i] = EXCLUSIVE
      BY <2>4
    <3> QED BY <1>0, <3>1, HoldersOf DEF SHARED, EXCLUSIVE
  <2>9. Phase(p)'
    BY <2>5, <2>6, <2>7, <2>8 DEF Phase
  <2> QED BY <1>0, <2>2, <2>3, <2>9, LoudStep
<1> QED BY <1>3, <1>4

\* XrDcacheAccess takes the stripe for a miss.
LEMMA MissLockStep ==
  ASSUME TypeInv, DirInv, NEW p \in Procs, MissLock(p)
  PROVE  DirInv'
<1> DEFINE t == Tag(p)   i == ScSet(t)
<1>0. /\ cpu \in [Procs -> Locals] /\ cpu[p].pc = "miss" /\ Phase(p)
      /\ t \in Tags /\ i \in ScIndices
  BY Indices DEF TypeInv, LocalsOK, LocalsUsed, DirInv, MissLock, At, Tag
<1>1. /\ cpu' = [cpu EXCEPT ![p].pc = "downgrade", ![p].ret = "miss", ![p].todo = ToDowngrade(p)]
      /\ ScacheFree(t) /\ SetScacheLock(t, p)
      /\ UNCHANGED <<DcFlags, DcTags, scacheVars>>
  BY DEF MissLock, dcacheVars
<1>2. /\ \A q \in Procs \ {p} : cpu'[q] = cpu[q]
      /\ cpu'[p].pc = "downgrade" /\ cpu'[p].ret = "miss" /\ cpu'[p].todo = ToDowngrade(p)
      /\ cpu'[p].tag = t /\ cpu'[p].op = cpu[p].op
  BY <1>0, <1>1 DEF Locals, Tag
<1>3. Frame(p) /\ Shared' /\ XrScacheMutexes'[Mutex(t)] = p
  BY <1>0, <1>1, <1>2, LockFrame
<1>4. XrScacheFlags[i] \in LineStates
  BY <1>0 DEF TypeInv, StateOK
<1>5. Owner(p)' /\ LineKept(p)' /\ OnlyLine(p)' /\ NotHeld(p)' /\ Found(p)' /\ Entered(p)'
  BY <1>0, <1>1, <1>2, <1>3
  DEF Phase, Owner, LineKept, OnlyLine, NotHeld, Found, Entered, Upgrading, Missing,
      Downgrading, Tag, Holds, Valid
<1>6. InUse(p)'
  <2>1. XrScacheFlags[i] = INVALID => ToDowngrade(p) = {}
    BY DEF ToDowngrade, INVALID, SHARED, EXCLUSIVE
  <2> QED BY <1>1, <1>2, <2>1 DEF InUse, Tag, scacheVars
<1>7. Visited(p)'
  <2>1. DowngradeTag(p)' = DowngradeTag(p) /\ Tag(p)' = t
    BY <1>1, <1>2 DEF DowngradeTag, Tag, scacheVars
  <2>2. DowngradeState(p)' = IF ~Writing(p) /\ InScache(t) THEN SHARED ELSE INVALID
    BY <1>1, <1>2 DEF DowngradeState, Tag, Writing, InScache, scacheVars
  <2>3. SUFFICES ASSUME NEW q \in Procs, NEW k \in Lines, q \notin ToDowngrade(p),
                        Holds(q, k, DowngradeTag(p))
                 PROVE  DcFlags[q][k] <= DowngradeState(p)'
    BY <1>1, <1>2, <2>1 DEF Visited, ToVisit, Holds, Valid
  <2>4. /\ XrScacheFlags[i] # INVALID
        /\ XrScacheFlags[i] = EXCLUSIVE => q = XrScacheExclusiveIds[i]
        /\ DcFlags[q][k] = EXCLUSIVE => XrScacheFlags[i] = EXCLUSIVE
    BY <1>0, <2>3, HoldersOf
  <2>5. XrScacheFlags[i] = SHARED /\ ~Writing(p) /\ InScache(t)
    BY <1>4, <2>3, <2>4 DEF ToDowngrade, LineStates, INVALID, SHARED, EXCLUSIVE
  <2>6. DcFlags[q][k] \in LineStates /\ DcFlags[q][k] # EXCLUSIVE
    BY <2>4, <2>5 DEF TypeInv, StateOK, SHARED, EXCLUSIVE
  <2> QED BY <2>2, <2>5, <2>6 DEF LineStates, INVALID, SHARED, EXCLUSIVE
<1>8. Phase(p)'
  BY <1>5, <1>6, <1>7 DEF Phase
<1> QED BY <1>0, <1>2, <1>3, <1>8, LoudStep

-----------------------------------------------------------------------------
(* Steps inside the directory.                                             *)

\* XrDowngradeLine: the line found goes down, and with it all that the Dcache holds.
LEMMA DowngradeStep ==
  ASSUME TypeInv, DirInv, NEW p \in Procs, DowngradeLine(p)
  PROVE  DirInv'
<1> DEFINE q == cpu[p].victim   v == cpu[p].vline   t == Tag(p)   i == ScSet(t)
           u == DowngradeTag(p)   down == DowngradeState(p)
<1>0. /\ cpu \in [Procs -> Locals] /\ cpu[p].pc = "downgrading" /\ Phase(p)
      /\ cpu[p].ret # "invalidate"
      /\ t \in Tags /\ i \in ScIndices /\ q \in Procs /\ v \in Lines \cup {NoLine}
      /\ Downgrading(p) /\ InDirectory(p)
  BY Indices
  DEF TypeInv, LocalsOK, LocalsUsed, Locals, DirInv, NoControl, DowngradeLine, At, Tag,
      Downgrading, InDirectory
<1>1. /\ cpu' = [cpu EXCEPT ![p].pc = "downgrade", ![p].victim = NoProc, ![p].vline = NoLine]
      /\ UNCHANGED <<DcTags, scacheVars, XrScacheMutexes>>
      /\ DcFlags' = IF v # NoLine THEN [DcFlags EXCEPT ![q][v] = down] ELSE DcFlags
  BY DEF DowngradeLine
<1>2. /\ \A r \in Procs \ {p} : cpu'[r] = cpu[r]
      /\ cpu'[p].pc = "downgrade" /\ cpu'[p].ret = cpu[p].ret /\ cpu'[p].todo = cpu[p].todo
      /\ cpu'[p].tag = cpu[p].tag /\ cpu'[p].op = cpu[p].op /\ cpu'[p].line = cpu[p].line
  BY <1>0, <1>1 DEF Locals
<1>3. /\ v # NoLine => Holds(q, v, u) /\ DcFlags[q][v] > down
      /\ \A l \in Lines : Holds(q, l, u) /\ DcFlags[q][l] > down => l = v
  BY <1>0 DEF Phase, Found
<1>4. down \in {INVALID, SHARED}
  BY DEF DowngradeState
<1>5. \A r \in Procs, l \in Lines :
        DcFlags'[r][l] = IF v # NoLine /\ r = q /\ l = v THEN down ELSE DcFlags[r][l]
  BY <1>0, <1>1 DEF TypeInv, StateOK
<1>6. \A r \in Procs, l \in Lines :
        /\ Valid(r, l)' => Valid(r, l)
        /\ DcFlags'[r][l] = EXCLUSIVE => DcFlags[r][l] = EXCLUSIVE
  BY <1>0, <1>3, <1>4, <1>5 DEF Holds, Valid, INVALID, SHARED, EXCLUSIVE
<1>7. \A r \in Procs, l \in Lines : \A w : Holds(r, l, w)' => Holds(r, l, w)
  BY <1>1, <1>6 DEF Holds
<1>8. Shared'
  <2>1. Placed' /\ Filed'
    BY <1>1, <1>6 DEF DirInv, Placed, Filed, scacheVars
  <2>2. Included'
    BY <1>1, <1>6 DEF DirInv, Included, InScache, scacheVars
  <2>3. OneWay'
    BY <1>1, <1>6 DEF DirInv, OneWay, Holds
  <2> QED BY <2>1, <2>2, <2>3 DEF Shared
<1>9. Frame(p)
  <2>1. v # NoLine => v[1] = DcSet(t)
    <3> SUFFICES ASSUME v # NoLine PROVE v[1] = DcSet(t)
      OBVIOUS
    <3>1. u \in Tags \ BadTags /\ v \in LinesOf(u)
      BY <1>0, <1>3 DEF Holds, DirInv, Filed
    <3>2. DcSet(u) = DcSet(t)
      BY <1>0, <3>1, EntryTag, Sizes
    <3> QED BY <3>1, <3>2 DEF LinesOf
  <2>2. \A r \in Procs, l \in Lines : l[1] # DcSet(t) => DcFlags'[r][l] = DcFlags[r][l]
    BY <1>5, <2>1
  <2>3. XrScacheMutexes[Mutex(t)] = p
    BY <1>0 DEF Phase, Owner
  <2> QED BY <1>1, <1>2, <1>6, <2>2, <2>3 DEF Frame, scacheVars
<1>10. /\ DowngradeTag(p)' = u /\ DowngradeState(p)' = down /\ Tag(p)' = t
  BY <1>1, <1>2 DEF DowngradeTag, DowngradeState, Tag, Writing, InScache, scacheVars
<1>11. Owner(p)' /\ LineKept(p)' /\ InUse(p)' /\ Found(p)' /\ Entered(p)'
  BY <1>0, <1>1, <1>2, <1>10
  DEF Phase, Owner, LineKept, InUse, Found, Entered, InDirectory, Upgrading, Downgrading,
      scacheVars
<1>12. OnlyLine(p)' /\ NotHeld(p)'
  BY <1>0, <1>1, <1>2, <1>7, <1>10
  DEF Phase, OnlyLine, NotHeld, Upgrading, Missing, Downgrading, InScache, scacheVars
<1>13. Visited(p)'
  <2> SUFFICES ASSUME NEW r \in Procs, NEW l \in Lines, ~ToVisit(p, r)',
                      Valid(r, l)', DcTags[r][l] = u
               PROVE  DcFlags'[r][l] <= down
    BY <1>1, <1>10 DEF Visited, Holds
  <2>1. Holds(r, l, u)
    BY <1>6 DEF Holds
  <2>2. CASE r # q
    BY <1>0, <1>2, <1>5, <2>1, <2>2 DEF Phase, Visited, ToVisit
  <2>3. CASE r = q
    <3>1. DcFlags[r][l] \in Nat /\ down \in Nat
      <4>1. DcFlags[r][l] \in LineStates
        BY DEF TypeInv, StateOK
      <4> QED BY <1>4, <4>1 DEF LineStates, INVALID, SHARED, EXCLUSIVE
    <3>2. CASE DcFlags[r][l] > down
      BY <1>3, <1>5, <2>1, <2>3, <3>1, <3>2, Sizes
    <3>3. CASE ~(DcFlags[r][l] > down)
      BY <1>5, <3>1, <3>3
    <3> QED BY <3>2, <3>3
  <2> QED BY <2>2, <2>3
<1>14. Phase(p)'
  BY <1>11, <1>12, <1>13 DEF Phase
<1> QED BY <1>0, <1>2, <1>8, <1>9, <1>14, LoudStep


\* XrFindOrReplaceInScache: nothing valid is left of what the entry was for, or it
\* is for the same tag and all share it.
LEMMA SetScacheStep ==
  ASSUME TypeInv, DirInv, NEW p \in Procs, SetScache(p)
  PROVE  DirInv'
<1> DEFINE t == Tag(p)   i == ScSet(t)   new == NewState(p)
<1>0. /\ cpu \in [Procs -> Locals] /\ cpu[p].pc = "downgrade" /\ Phase(p)
      /\ cpu[p].ret = "miss" /\ cpu[p].todo = {}
      /\ t \in Tags /\ i \in ScIndices
      /\ Downgrading(p) /\ InDirectory(p) /\ Missing(p)
  BY Indices
  DEF TypeInv, LocalsOK, LocalsUsed, DirInv, SetScache, Downgraded, At, Tag,
      Downgrading, InDirectory, Missing
<1>1. /\ cpu' = [cpu EXCEPT ![p].pc = "fill"]
      /\ UNCHANGED <<DcFlags, DcTags, XrScacheMutexes>>
      /\ XrScacheFlags' = [XrScacheFlags EXCEPT ![i] = new]
      /\ XrScacheTags' = [XrScacheTags EXCEPT ![i] = t]
      /\ XrScacheExclusiveIds' = [XrScacheExclusiveIds EXCEPT ![i] = p]
  BY DEF SetScache, Goto, dcacheVars, lockVars
<1>2. /\ \A q \in Procs \ {p} : cpu'[q] = cpu[q]
      /\ cpu'[p].pc = "fill" /\ cpu'[p].ret = "miss"
      /\ cpu'[p].tag = t /\ cpu'[p].op = cpu[p].op
  BY <1>0, <1>1 DEF Locals, Tag
<1>3. \A j \in ScIndices :
        /\ XrScacheFlags'[j] = IF j = i THEN new ELSE XrScacheFlags[j]
        /\ XrScacheTags'[j] = IF j = i THEN t ELSE XrScacheTags[j]
        /\ XrScacheExclusiveIds'[j] = IF j = i THEN p ELSE XrScacheExclusiveIds[j]
  BY <1>1 DEF TypeInv, StateOK
<1>4. new \in {SHARED, EXCLUSIVE} /\ (new = EXCLUSIVE => Writing(p))
  BY DEF NewState, SHARED, EXCLUSIVE
<1>5. Placed' /\ Filed' /\ OneWay'
  <2>1. Filed' /\ OneWay'
    BY <1>1 DEF DirInv, Filed, OneWay, Holds, Valid
  <2>2. Placed'
    BY <1>0, <1>3, Sizes DEF DirInv, Placed
  <2> QED BY <2>1, <2>2
<1>6. ASSUME NEW q \in Procs, NEW l \in Lines, Valid(q, l), ScSet(DcTags[q][l]) = i
      PROVE  /\ DcTags[q][l] = t /\ ~Writing(p) /\ DcFlags[q][l] # EXCLUSIVE
  <2>1. InScache(DcTags[q][l])
    BY <1>6 DEF DirInv, Included
  <2>2. Holds(q, l, DowngradeTag(p))
    BY <1>6, <2>1 DEF InScache, Holds, DowngradeTag
  <2>3. ~ToVisit(p, q)
    BY <1>0 DEF ToVisit
  <2>4. DcFlags[q][l] <= DowngradeState(p) /\ DcFlags[q][l] \in LineStates
    BY <1>0, <2>2, <2>3 DEF Phase, Visited, TypeInv, StateOK
  <2>5. DowngradeState(p) # INVALID
    BY <1>6, <2>4 DEF Valid, LineStates, INVALID, SHARED, EXCLUSIVE
  <2>6. DowngradeState(p) = SHARED /\ ~Writing(p) /\ InScache(t)
    BY <2>5 DEF DowngradeState
  <2>7. DcFlags[q][l] # EXCLUSIVE
    BY <2>4, <2>6 DEF SHARED, EXCLUSIVE
  <2> QED BY <1>6, <2>1, <2>6, <2>7 DEF InScache
<1>7. Included'
  <2> SUFFICES ASSUME NEW q \in Procs, NEW l \in Lines, Valid(q, l)
               PROVE  LET j == ScSet(DcTags[q][l]) IN
                      /\ XrScacheFlags'[j] # INVALID /\ XrScacheTags'[j] = DcTags[q][l]
                      /\ DcFlags[q][l] = EXCLUSIVE => XrScacheFlags'[j] = EXCLUSIVE
                      /\ XrScacheFlags'[j] = EXCLUSIVE => XrScacheExclusiveIds'[j] = q
    BY <1>1 DEF Included, InScache, Valid
  <2> DEFINE j == ScSet(DcTags[q][l])
  <2>1. j \in ScIndices
    BY Indices DEF DirInv, Filed
  <2>2. CASE j = i
    BY <1>3, <1>4, <1>6, <2>1, <2>2 DEF INVALID, SHARED, EXCLUSIVE
  <2>3. CASE j # i
    BY <1>3, <2>1, <2>3 DEF DirInv, Included, InScache
  <2> QED BY <2>2, <2>3
<1>8. Frame(p)
  <2>1. XrScacheMutexes[Mutex(t)] = p
    BY <1>0 DEF Phase, Owner
  <2> QED BY <1>1, <1>2, <1>3, <2>1 DEF Frame, Valid
<1>9. Phase(p)'
  <2>1. Owner(p)' /\ LineKept(p)' /\ OnlyLine(p)' /\ InUse(p)' /\ Visited(p)' /\ Found(p)'
    BY <1>0, <1>1, <1>2
    DEF Phase, Owner, LineKept, OnlyLine, InUse, Visited, Found, InDirectory, Upgrading,
        Downgrading, Tag
  <2>2. NotHeld(p)'
    BY <1>0, <1>1, <1>2 DEF Phase, NotHeld, Missing, Holds, Valid, Tag
  <2>3. Entered(p)'
    BY <1>0, <1>2, <1>3 DEF Entered, NewState, Writing, Tag
  <2> QED BY <2>1, <2>2, <2>3 DEF Phase
<1> QED BY <1>0, <1>2, <1>5, <1>7, <1>8, <1>9, LoudStep DEF Shared

\* The end of a write upgrade: by then no other processor holds the line.
LEMMA UpgradeDoneStep ==
  ASSUME TypeInv, DirInv, NEW p \in Procs, UpgradeDone(p)
  PROVE  DirInv'
<1> DEFINE t == Tag(p)   i == ScSet(t)   l == cpu[p].line
<1>0. /\ cpu \in [Procs -> Locals] /\ cpu[p].pc = "downgrade" /\ Phase(p)
      /\ cpu[p].ret = "upgrade" /\ cpu[p].todo = {}
      /\ t \in Tags /\ i \in ScIndices /\ l \in Lines
      /\ Downgrading(p) /\ InDirectory(p) /\ Upgrading(p)
  BY Indices
  DEF TypeInv, LocalsOK, LocalsUsed, DirInv, UpgradeDone, Downgraded, At, Tag,
      Downgrading, InDirectory, Upgrading
<1>1. /\ cpu' = [cpu EXCEPT ![p] = Idle]
      /\ UNCHANGED <<DcTags, XrScacheTags>>
      /\ DcFlags' = [DcFlags EXCEPT ![p][l] = EXCLUSIVE]
      /\ XrScacheFlags' = [XrScacheFlags EXCEPT ![i] = EXCLUSIVE]
      /\ XrScacheExclusiveIds' = [XrScacheExclusiveIds EXCEPT ![i] = p]
      /\ XrScacheMutexes' = [XrScacheMutexes EXCEPT ![Mutex(t)] = NoProc]
  BY DEF UpgradeDone, Return, SetScacheLock
<1>2. /\ \A q \in Procs \ {p} : cpu'[q] = cpu[q]
      /\ cpu'[p].pc = "idle" /\ cpu'[p].ret = "idle"
  BY <1>0, <1>1 DEF Idle
<1>3. \A j \in ScIndices :
        /\ XrScacheFlags'[j] = IF j = i THEN EXCLUSIVE ELSE XrScacheFlags[j]
        /\ XrScacheExclusiveIds'[j] = IF j = i THEN p ELSE XrScacheExclusiveIds[j]
  BY <1>1 DEF TypeInv, StateOK
<1>4. \A q \in Procs, k \in Lines :
        DcFlags'[q][k] = IF q = p /\ k = l THEN EXCLUSIVE ELSE DcFlags[q][k]
  BY <1>0, <1>1 DEF TypeInv, StateOK
<1>5. /\ DcTags[p][l] = t /\ t \notin BadTags /\ l \in LinesOf(t)
      /\ XrScacheFlags[i] # INVALID /\ XrScacheTags[i] = t
  BY <1>0 DEF Phase, LineKept, OnlyLine, InScache
<1>6. ASSUME NEW q \in Procs, NEW k \in Lines, Holds(q, k, t) PROVE q = p /\ k = l
  <2>1. CASE q = p
    BY <1>0, <1>6, <2>1 DEF Phase, OnlyLine
  <2>2. CASE q # p
    <3>1. ~ToVisit(p, q) /\ Holds(q, k, DowngradeTag(p))
      BY <1>0, <1>5, <1>6, <2>2 DEF ToVisit, DowngradeTag
    <3>2. DcFlags[q][k] <= INVALID /\ DcFlags[q][k] \in LineStates
      BY <1>0, <3>1 DEF Phase, Visited, DowngradeState, TypeInv, StateOK
    <3> QED BY <1>6, <3>2 DEF Holds, Valid, LineStates, INVALID, SHARED, EXCLUSIVE
  <2> QED BY <2>1, <2>2
<1>7. \A q \in Procs, k \in Lines : Valid(q, k)' => Valid(q, k) \/ (q = p /\ k = l)
  BY <1>4 DEF Valid
<1>8. Shared'
  <2>1. Placed'
    BY <1>1, <1>3, <1>5, Sizes, <1>0 DEF DirInv, Placed
  <2>2. Filed'
    BY <1>0, <1>1, <1>5, <1>7 DEF DirInv, Filed
  <2>3. OneWay'
    <3> SUFFICES ASSUME NEW q \in Procs, NEW k \in Lines, NEW m \in Lines,
                        Valid(q, k)', Valid(q, m)', DcTags[q][m] = DcTags[q][k]
                 PROVE  k = m
      BY <1>1 DEF OneWay, Holds
    <3>1. CASE Valid(q, k) /\ Valid(q, m)
      BY <3>1 DEF DirInv, OneWay, Holds
    <3>2. CASE q = p /\ k = l
      BY <1>5, <1>6, <1>7, <3>2 DEF Holds
    <3>3. CASE q = p /\ m = l
      BY <1>5, <1>6, <1>7, <3>3 DEF Holds
    <3> QED BY <1>7, <3>1, <3>2, <3>3
  <2>4. Included'
    <3> SUFFICES ASSUME NEW q \in Procs, NEW k \in Lines, Valid(q, k)'
                 PROVE  LET j == ScSet(DcTags[q][k]) IN
                        /\ XrScacheFlags'[j] # INVALID /\ XrScacheTags[j] = DcTags[q][k]
                        /\ DcFlags'[q][k] = EXCLUSIVE => XrScacheFlags'[j] = EXCLUSIVE
                        /\ XrScacheFlags'[j] = EXCLUSIVE => XrScacheExclusiveIds'[j] = q
      BY <1>1 DEF Included, InScache
    <3> DEFINE j == ScSet(DcTags[q][k])
    <3>1. CASE q = p /\ k = l
      BY <1>0, <1>3, <1>5, <3>1 DEF INVALID, EXCLUSIVE
    <3>2. CASE ~(q = p /\ k = l)
      <4>1. Valid(q, k)
        BY <1>7, <3>2
      <4>2. j \in ScIndices /\ InScache(DcTags[q][k])
        BY <4>1, Indices DEF DirInv, Filed, Included
      <4>3. j # i
        BY <1>5, <1>6, <3>2, <4>1, <4>2 DEF InScache, Holds
      <4> QED BY <1>3, <1>4, <3>2, <4>1, <4>2, <4>3 DEF DirInv, Included, InScache
    <3> QED BY <3>1, <3>2
  <2> QED BY <2>1, <2>2, <2>3, <2>4 DEF Shared
<1>9. Frame(p)
  <2>1. XrScacheMutexes[Mutex(t)] = p
    BY <1>0 DEF Phase, Owner
  <2>2. \A m \in Stripes : m # Mutex(t) => XrScacheMutexes'[m] = XrScacheMutexes[m]
    BY <1>1 DEF TypeInv, StateOK
  <2>3. l[1] = DcSet(t)
    BY <1>5 DEF LinesOf
  <2> QED BY <1>1, <1>2, <1>3, <1>4, <1>7, <2>1, <2>2, <2>3 DEF Frame
<1>10. Phase(p)'
  BY <1>2 DEF Phase, Owner, LineKept, NotHeld, OnlyLine, InUse, Visited, Found, Entered,
              InDirectory, Upgrading, Missing, Downgrading
<1> QED BY <1>0, <1>2, <1>8, <1>9, <1>10, LoudStep


\* The end of a miss: the line is in no way yet, and the entry is ready for it.
LEMMA FillStep ==
  ASSUME TypeInv, DirInv, NEW p \in Procs, Fill(p)
  PROVE  DirInv'
<1> DEFINE t == Tag(p)   i == ScSet(t)   l == <<DcSet(t), DcReplacementIndex[p]>>
           state == IF t \in BadTags THEN INVALID ELSE NewState(p)
<1>0. /\ cpu \in [Procs -> Locals] /\ cpu[p].pc = "filling" /\ Phase(p)
      /\ cpu[p].ret # "invalidate"
      /\ t \in Tags /\ i \in ScIndices /\ l \in Lines /\ l[1] = DcSet(t)
      /\ InDirectory(p) /\ Missing(p)
  BY Indices
  DEF TypeInv, StateOK, LocalsOK, LocalsUsed, DirInv, NoControl, Fill, At, Tag, InDirectory,
      Missing, Lines
<1>1. /\ DcTags' = [DcTags EXCEPT ![p][l] = t]
      /\ DcFlags' = [DcFlags EXCEPT ![p][l] = state]
      /\ XrScacheFlags' = IF t \in BadTags THEN [XrScacheFlags EXCEPT ![i] = INVALID]
                          ELSE XrScacheFlags
      /\ UNCHANGED <<XrScacheTags, XrScacheExclusiveIds>>
      /\ XrScacheMutexes' = [XrScacheMutexes EXCEPT ![Mutex(t)] = NoProc]
  BY DEF Fill, SetScacheLock
<1>2. /\ \A q \in Procs \ {p} : cpu'[q] = cpu[q]
      /\ cpu'[p].pc \in {"idle", "filled"} /\ cpu'[p].ret # "invalidate"
  <2>1. CASE t \in BadTags
    BY <1>0, <2>1 DEF Fill, Return, Idle
  <2>2. CASE t \notin BadTags
    <3>1. cpu' = [cpu EXCEPT ![p].pc = "filled", ![p].line = l]
      BY <2>2 DEF Fill
    <3> HIDE DEF l
    <3> QED BY <1>0, <3>1 DEF Locals
  <2> QED BY <2>1, <2>2
<1> HIDE DEF l
<1>3. \A q \in Procs, k \in Lines :
        /\ DcFlags'[q][k] = IF q = p /\ k = l THEN state ELSE DcFlags[q][k]
        /\ DcTags'[q][k] = IF q = p /\ k = l THEN t ELSE DcTags[q][k]
  BY <1>0, <1>1 DEF TypeInv, StateOK
<1>4. \A j \in ScIndices :
        XrScacheFlags'[j] = IF j = i /\ t \in BadTags THEN INVALID ELSE XrScacheFlags[j]
  BY <1>1 DEF TypeInv, StateOK
<1>5. /\ XrScacheFlags[i] = NewState(p) /\ XrScacheTags[i] = t /\ XrScacheExclusiveIds[i] = p
      /\ \A k \in Lines : ~Holds(p, k, t)
  BY <1>0 DEF Phase, Entered, NotHeld
<1>6. /\ NewState(p) \in {SHARED, EXCLUSIVE}
      /\ SHARED # INVALID /\ EXCLUSIVE # INVALID
  BY DEF NewState, INVALID, SHARED, EXCLUSIVE
\* A valid line is the one filled, or was valid and is of another tag if it is p's.
<1>7. ASSUME NEW q \in Procs, NEW k \in Lines, Valid(q, k)'
      PROVE  \/ q = p /\ k = l /\ t \notin BadTags /\ DcTags'[q][k] = t
             \/ /\ ~(q = p /\ k = l) /\ Valid(q, k)
                /\ DcFlags'[q][k] = DcFlags[q][k] /\ DcTags'[q][k] = DcTags[q][k]
                /\ q = p => DcTags[q][k] # t
  BY <1>3, <1>5, <1>7 DEF Valid, Holds
<1>8. Shared'
  <2>1. Placed'
    BY <1>1, <1>4 DEF DirInv, Placed
  <2>2. Filed'
    <3> SUFFICES ASSUME NEW q \in Procs, NEW k \in Lines, Valid(q, k)'
                 PROVE  DcTags'[q][k] \in Tags \ BadTags /\ k \in LinesOf(DcTags'[q][k])
      BY DEF Filed
    <3>1. l \in LinesOf(t)
      BY <1>0 DEF LinesOf
    <3> QED BY <1>0, <1>7, <3>1 DEF DirInv, Filed
  <2>3. OneWay'
    <3> SUFFICES ASSUME NEW q \in Procs, NEW k \in Lines, NEW m \in Lines,
                        Valid(q, k)', Valid(q, m)', DcTags'[q][m] = DcTags'[q][k]
                 PROVE  k = m
      BY DEF OneWay, Holds
    <3> QED BY <1>7 DEF DirInv, OneWay, Holds
  <2>4. Included'
    <3> SUFFICES ASSUME NEW q \in Procs, NEW k \in Lines, Valid(q, k)'
                 PROVE  LET j == ScSet(DcTags'[q][k]) IN
                        /\ XrScacheFlags'[j] # INVALID /\ XrScacheTags[j] = DcTags'[q][k]
                        /\ DcFlags'[q][k] = EXCLUSIVE => XrScacheFlags'[j] = EXCLUSIVE
                        /\ XrScacheFlags'[j] = EXCLUSIVE => XrScacheExclusiveIds[j] = q
      BY <1>1 DEF Included, InScache
    <3>1. CASE q = p /\ k = l /\ t \notin BadTags /\ DcTags'[q][k] = t
      BY <1>0, <1>3, <1>4, <1>5, <1>6, <3>1
    <3>2. CASE /\ Valid(q, k)
               /\ DcFlags'[q][k] = DcFlags[q][k] /\ DcTags'[q][k] = DcTags[q][k]
      <4> DEFINE j == ScSet(DcTags[q][k])
      <4>1. j \in ScIndices /\ InScache(DcTags[q][k]) /\ DcTags[q][k] \notin BadTags
        BY <3>2, Indices DEF DirInv, Filed, Included
      <4>2. XrScacheFlags'[j] = XrScacheFlags[j]
        BY <1>4, <1>5, <4>1 DEF InScache
      <4> QED BY <3>2, <4>1, <4>2 DEF DirInv, Included, InScache
    <3> QED BY <1>7, <3>1, <3>2
  <2> QED BY <2>1, <2>2, <2>3, <2>4 DEF Shared
<1>9. Frame(p)
  <2>1. XrScacheMutexes[Mutex(t)] = p
    BY <1>0 DEF Phase, Owner
  <2>2. \A m \in Stripes : m # Mutex(t) => XrScacheMutexes'[m] = XrScacheMutexes[m]
    BY <1>1 DEF TypeInv, StateOK
  <2>3. \A q \in Procs \ {p} : DcTags'[q] = DcTags[q]
    BY <1>1 DEF TypeInv, StateOK
  <2> QED BY <1>0, <1>1, <1>2, <1>3, <1>4, <1>7, <2>1, <2>2, <2>3 DEF Frame
<1>10. Phase(p)'
  BY <1>2 DEF Phase, Owner, LineKept, NotHeld, OnlyLine, InUse, Visited, Found, Entered,
              InDirectory, Upgrading, Missing, Downgrading
<1> QED BY <1>0, <1>2, <1>8, <1>9, <1>10, LoudStep
-----------------------------------------------------------------------------
\* After XrReset the Dcaches and the directory are empty.
LEMMA InitDir == Init => DirInv
BY Sizes DEF Init, DirInv, NoControl, Placed, Filed, Included, OneWay, Phase, Owner, LineKept,
             OnlyLine, NotHeld, InUse, Visited, Found, Entered, InDirectory, Upgrading, Missing,
             Downgrading, Valid, Holds, Idle

\* Every step keeps the directory in order, if no software writes DCACHECTRL.
LEMMA StepDir ==
  ASSUME Controllers = {}, TypeInv, DirInv, NEW p \in Procs, Start(p) \/ Continue(p)
  PROVE  DirInv'
<1>1. ~CacheControl(p) /\ ~Invalidate(p)
  BY DEF CacheControl, Invalidate, At, DirInv, NoControl
<1> QED
  BY <1>1, AwaySteps, LookupSteps, InnerLocks, UpgradeLockStep, MissLockStep, DowngradeStep,
     SetScacheStep, UpgradeDoneStep, FillStep
  DEF Start, Continue, StoreStep

\* The directory is in order in every behaviour, of any size.
LEMMA AlwaysDir ==
  ASSUME Controllers = {}
  PROVE  Spec => []DirInv
<1>1. TypeInv /\ DirInv /\ [Next]_vars => DirInv'
  <2>1. ASSUME TypeInv, DirInv, UNCHANGED vars PROVE DirInv'
    <3>1. UNCHANGED DirectoryState /\ cpu' = cpu
      BY <2>1 DEF vars, DirectoryState, dcacheVars, lockVars
    <3>2. NoControl' /\ (Placed /\ Filed /\ Included /\ OneWay)'
      BY <2>1, <3>1
      DEF DirInv, NoControl, Placed, Filed, Included, OneWay, InScache, Valid, Holds,
          DirectoryState, scacheVars
    <3>3. ASSUME NEW q \in Procs PROVE Phase(q)' /\ cpu'[q] = cpu[q]
      BY <2>1, <3>1
      DEF DirInv, Phase, Owner, LineKept, OnlyLine, NotHeld, InUse, Visited, Found, Entered,
          InDirectory, Upgrading, Missing, Downgrading, ToVisit, DowngradeTag, DowngradeState,
          NewState, Writing, InScache, Valid, Holds, Tag, DirectoryState, scacheVars
    <3> QED BY <2>1, <3>2, <3>3 DEF DirInv
  <2> QED BY <2>1, StepDir DEF Next
<1> QED BY <1>1, InitDir, AlwaysTyped, PTL DEF Spec

\* What a Dcache holds the Scache directory knows of, an exclusive line by its holder,
\* and XrDcacheAccess never reaches the abort of a write upgrade.
THEOREM DirectoryIncludes ==
  ASSUME Controllers = {}
  PROVE  Spec => []Inclusion
<1>1. DirInv => Inclusion
  BY DEF DirInv, Inclusion, Included, At
<1>2. Spec => []DirInv
  BY AlwaysDir
<1> QED BY <1>1, <1>2, PTL

\* A line that one Dcache holds exclusively is valid in no other, however accesses of
\* the processors interleave.
THEOREM ExclusiveAlone ==
  ASSUME Controllers = {}
  PROVE  Spec => []SingleWriter
<1>1. DirInv => SingleWriter
  BY DEF DirInv, SingleWriter, Included, Holds, Valid, INVALID, EXCLUSIVE
<1>2. Spec => []DirInv
  BY AlwaysDir
<1> QED BY <1>1, <1>2, PTL

\* A Dcache has a line in one way only, so XrDowngradeLine may stop at the first it
\* finds.
THEOREM LineInOneWay ==
  ASSUME Controllers = {}
  PROVE  Spec => []OneWay
<1>1. DirInv => OneWay
  BY DEF DirInv
<1>2. Spec => []DirInv
  BY AlwaysDir
<1> QED BY <1>1, <1>2, PTL
-----------------------------------------------------------------------------
(***************************************************************************)
(* Proof that the simulated caches are coherent, for any number of         *)
(* processors, lines, sets, ways, locks and write buffer entries: a valid  *)
(* line holds every store made to it, and a store that RAM misses is in a  *)
(* write buffer.  As for the directory it is assumed that no software      *)
(* writes DCACHECTRL; that a write buffer is always drained does not need  *)
(* the assumption.                                                         *)
(*                                                                         *)
(* The argument.  A store is merged into an exclusive line only, and the   *)
(* directory lets nobody else have such a line, so no valid copy misses    *)
(* the store.  The line is then in the write buffer, and everything that   *)
(* takes it away writes it to RAM first.  So a fill, which finds no        *)
(* exclusive holder but itself, and itself without the line (Entered,      *)
(* NotHeld), reads a RAM that misses nothing.  What is left to show is     *)
(* that what a thread knows of its own line and write buffer entry         *)
(* outlasts the steps of others between its look and its use: by the       *)
(* Dcache stripe (Ready), by the Scache stripe (Sharing), or because only  *)
(* a processor itself enters lines in its write buffer (SlotKept).         *)
(***************************************************************************)
Buffered(p, l) == DcIndexToWbIndex[p][l] # NoSlot

\* Places from which a processor goes on to enter a line in its write buffer.
Inserting(p) ==
  \/ cpu[p].pc \in {"merge", "upgrade"}
  \/ Upgrading(p)
  \/ Writing(p) /\ (Missing(p) \/ cpu[p].pc = "filled")

Flushing(p) == cpu[p].pc \in {"flush", "flushlock", "flushing"}

\* The countdown runs while an entry is in use, or about to be, unless a flush is
\* under way that has not passed the entry.
Counting(p) ==
  /\ Inserting(p) => WbCycles[p]
  /\ \A s \in Slots : WbIndices[p][s] # NoLine =>
       WbCycles[p] \/ (Flushing(p) /\ cpu[p].slot <= s)
Countdown == \A p \in Procs : Counting(p)

\* The two halves of the write buffer name each other.
HalvesAgree ==
  \A p \in Procs, l \in Lines, s \in Slots :
    WbIndices[p][s] = l <=> DcIndexToWbIndex[p][l] = s

BufferedExclusive ==
  \A p \in Procs, l \in Lines : Buffered(p, l) => DcFlags[p][l] = EXCLUSIVE

\* A shared line is shared in the directory too, but for the time from its downgrade
\* by a miss to the change of its entry.
SharedEntry ==
  \A p \in Procs, l \in Lines : DcFlags[p][l] = SHARED =>
    LET i == ScSet(DcTags[p][l]) IN
    \/ XrScacheFlags[i] = SHARED
    \/ \E r \in Procs : Downgrading(r) /\ cpu[r].ret = "miss" /\ ScSet(Tag(r)) = i

\* The Dcache stripes a thread holds.
CacheOwner(p) ==
  /\ cpu[p].pc \in {"scan", "merge", "filling", "filled"} =>
       CacheMutexes[p][Mutex(Tag(p))] = p
  /\ cpu[p].pc = "flushing" => CacheMutexes[p][Mutex(DcTags[p][cpu[p].line])] = p
  /\ cpu[p].pc = "downgrading" => CacheMutexes[cpu[p].victim][Mutex(DowngradeTag(p))] = p
SlotKept(p) == Inserting(p) => WbIndices[p][cpu[p].slot] = NoLine
\* A store is about to be merged with the Dcache stripe held.
Merging(p) == cpu[p].pc = "merge" \/ (cpu[p].pc = "filled" /\ Writing(p))
Ready(p) ==
  Merging(p) =>
    LET l == cpu[p].line IN
    DcFlags[p][l] = EXCLUSIVE /\ DcTags[p][l] = Tag(p) /\ ~Buffered(p, l)
Sharing(p) ==
  /\ cpu[p].pc = "upgrade" => DcFlags[p][cpu[p].line] # EXCLUSIVE
  /\ Upgrading(p) =>
       /\ DcFlags[p][cpu[p].line] = SHARED
       /\ p \notin cpu[p].todo
       /\ cpu[p].pc = "downgrading" => cpu[p].victim # p
FlushSlot(p) ==
  cpu[p].pc \in {"flushlock", "flushing"} =>
    WbIndices[p][cpu[p].slot] \in {cpu[p].line, NoLine}

Duty(p) == CacheOwner(p) /\ SlotKept(p) /\ Ready(p) /\ Sharing(p) /\ FlushSlot(p)

CohInv ==
  /\ HalvesAgree /\ BufferedExclusive /\ SharedEntry /\ Coherent /\ StoresKept
  /\ \A p \in Procs : Duty(p)
-----------------------------------------------------------------------------
(* What the steps do to one line, entry or lock at a time.                 *)

\* Any tag that a line may have has a lock.
LEMMA AnyMutex ==
  ASSUME NEW t \in Tags \cup {NoTag}
  PROVE  Mutex(t) \in Stripes
BY SizeAssumption DEF Mutex, Stripes, NoTag

\* The Dcache locks that q holds are still its own.
LocksKept(q) ==
  \A x \in Procs, m \in Stripes : CacheMutexes[x][m] = q => CacheMutexes'[x][m] = q

\* Taking a free Dcache stripe, or changing one's own, leaves the others theirs.
LEMMA CacheLock ==
  ASSUME TypeInv, NEW p \in Procs, NEW x \in Procs, NEW t \in Tags \cup {NoTag},
         NEW o, SetCacheLock(x, t, o), CacheMutexes[x][Mutex(t)] \in {NoProc, p}
  PROVE  /\ \A q \in Procs \ {p} : LocksKept(q)
         /\ CacheMutexes'[x][Mutex(t)] = o
<1>1. \A y \in Procs, m \in Stripes :
        CacheMutexes'[y][m] = IF y = x /\ m = Mutex(t) THEN o ELSE CacheMutexes[y][m]
  BY AnyMutex DEF TypeInv, StateOK, SetCacheLock
<1> QED BY <1>1, AnyMutex, ProcAssumption DEF LocksKept

\* What a line entered in the write buffer changes.
LEMMA Inserted ==
  ASSUME TypeInv, NEW p \in Procs, NEW s \in Slots, NEW l \in Lines, InsertWb(p, s, l)
  PROVE  \A q \in Procs :
           /\ \A x \in Slots :
                WbIndices'[q][x] = IF q = p /\ x = s THEN l ELSE WbIndices[q][x]
           /\ \A k \in Lines :
                DcIndexToWbIndex'[q][k] = IF q = p /\ k = l THEN s ELSE DcIndexToWbIndex[q][k]
BY DEF TypeInv, StateOK, InsertWb

\* What a merged store changes.
LEMMA Merged ==
  ASSUME TypeInv, NEW p \in Procs, NEW l \in Lines, Merge(p, l)
  PROVE  /\ \A q \in Procs, k \in Lines :
              Dc'[q][k] = IF DcTags[q][k] = Tag(p) /\ ~(q = p /\ k = l) THEN "old" ELSE Dc[q][k]
         /\ \A t \in Tags : Ram'[t] = IF t = Tag(p) THEN "old" ELSE Ram[t]
<1>1. \A q \in Procs, k \in Lines :
        Dc'[q][k] = IF DcTags[q][k] = Tag(p) /\ ~(q = p /\ k = l) THEN "old" ELSE Dc[q][k]
  BY DEF Merge
<1>2. \A t \in Tags : Ram'[t] = IF t = Tag(p) THEN "old" ELSE Ram[t]
  BY DEF Merge, TypeInv, StateOK
<1> QED BY <1>1, <1>2

\* Line l of q is not in the write buffer any more, and in RAM if it was.
WrittenOut(q, l) ==
  /\ \A r \in Procs, x \in Slots :
       WbIndices'[r][x] = IF r = q /\ WbIndices[r][x] = l THEN NoLine ELSE WbIndices[r][x]
  /\ \A r \in Procs, k \in Lines :
       DcIndexToWbIndex'[r][k] = IF r = q /\ k = l THEN NoSlot ELSE DcIndexToWbIndex[r][k]
  /\ \A t \in Tags :
       Ram'[t] = IF Buffered(q, l) /\ t = DcTags[q][l] THEN Dc[q][l] ELSE Ram[t]

\* Clearing both halves of an entry that agree, and writing its line.
LEMMA Clearing ==
  ASSUME TypeInv, HalvesAgree, NEW q \in Procs, NEW l \in Lines, NEW s \in Slots,
         WbIndices[q][s] = l,
         Ram' = [Ram EXCEPT ![DcTags[q][l]] = Dc[q][l]],
         WbIndices' = [WbIndices EXCEPT ![q][s] = NoLine],
         DcIndexToWbIndex' = [DcIndexToWbIndex EXCEPT ![q][l] = NoSlot]
  PROVE  WrittenOut(q, l)
<1>1. /\ DcIndexToWbIndex[q][l] = s /\ Buffered(q, l)
      /\ \A x \in Slots : WbIndices[q][x] = l <=> x = s
  BY Sizes DEF HalvesAgree, Buffered
<1>2. \A r \in Procs, x \in Slots :
        WbIndices'[r][x] = IF r = q /\ WbIndices[r][x] = l THEN NoLine ELSE WbIndices[r][x]
  BY <1>1 DEF TypeInv, StateOK
<1>3. \A r \in Procs, k \in Lines :
        DcIndexToWbIndex'[r][k] = IF r = q /\ k = l THEN NoSlot ELSE DcIndexToWbIndex[r][k]
  BY DEF TypeInv, StateOK
<1>4. \A t \in Tags : Ram'[t] = IF t = DcTags[q][l] THEN Dc[q][l] ELSE Ram[t]
  BY DEF TypeInv, StateOK
<1> QED BY <1>1, <1>2, <1>3, <1>4 DEF WrittenOut

\* Nothing is done for a line that is in no entry.
LEMMA NothingToWrite ==
  ASSUME TypeInv, HalvesAgree, NEW q \in Procs, NEW l \in Lines, ~Buffered(q, l),
         UNCHANGED <<Ram, WbIndices, DcIndexToWbIndex>>
  PROVE  WrittenOut(q, l)
<1>1. \A x \in Slots : WbIndices[q][x] # l
  BY Sizes DEF HalvesAgree, Buffered
<1> QED BY <1>1 DEF WrittenOut, Buffered

\* Scache1ForceFlushWriteBuffer: the line is out of the buffer, and in RAM if it was in.
LEMMA Forced ==
  ASSUME TypeInv, HalvesAgree, NEW q \in Procs, NEW l \in Lines, ForceWrite(q, l)
  PROVE  WrittenOut(q, l)
<1> DEFINE s == DcIndexToWbIndex[q][l]
<1>1. CASE s = NoSlot
  BY <1>1, NothingToWrite DEF ForceWrite, Buffered
<1>2. CASE s # NoSlot
  <2>1. s \in Slots
    BY <1>2 DEF TypeInv, StateOK
  <2>2. WbIndices[q][s] = l
    BY <2>1 DEF HalvesAgree
  <2>3. /\ Ram' = [Ram EXCEPT ![DcTags[q][l]] = Dc[q][l]]
        /\ WbIndices' = [WbIndices EXCEPT ![q][s] = NoLine]
        /\ DcIndexToWbIndex' = [DcIndexToWbIndex EXCEPT ![q][l] = NoSlot]
    BY <1>2 DEF ForceWrite
  <2> QED BY <2>1, <2>2, <2>3, Clearing
<1> QED BY <1>1, <1>2


\* No line of a step's processor is in an entry that was not before, and stores that
\* RAM still misses are in lines other than the one written out.
LEMMA AfterWrite ==
  ASSUME TypeInv, CohInv, NEW q \in Procs, NEW l \in Lines, WrittenOut(q, l)
  PROVE  /\ HalvesAgree'
         /\ \A r \in Procs, k \in Lines :
              Buffered(r, k)' <=> Buffered(r, k) /\ ~(r = q /\ k = l)
         /\ \A t \in Tags : Ram'[t] = "old" =>
              \E r \in Procs, k \in Lines :
                /\ ~(r = q /\ k = l)
                /\ Holds(r, k, t) /\ Buffered(r, k) /\ Dc[r][k] = "new"
<1>1. HalvesAgree'
  <2> SUFFICES ASSUME NEW r \in Procs, NEW k \in Lines, NEW x \in Slots
               PROVE  WbIndices'[r][x] = k <=> DcIndexToWbIndex'[r][k] = x
    BY DEF HalvesAgree
  <2>1. WbIndices[r][x] = k <=> DcIndexToWbIndex[r][k] = x
    BY DEF CohInv, HalvesAgree
  <2> QED BY <2>1, Sizes DEF WrittenOut
<1>2. \A r \in Procs, k \in Lines :
        Buffered(r, k)' <=> Buffered(r, k) /\ ~(r = q /\ k = l)
  BY DEF WrittenOut, Buffered
<1>3. ASSUME NEW t \in Tags, Ram'[t] = "old"
      PROVE  \E r \in Procs, k \in Lines :
               /\ ~(r = q /\ k = l)
               /\ Holds(r, k, t) /\ Buffered(r, k) /\ Dc[r][k] = "new"
  <2>1. Buffered(q, l) => Dc[q][l] = "new"
    BY DEF CohInv, BufferedExclusive, Coherent, Valid, EXCLUSIVE, INVALID
  <2>2. ~(Buffered(q, l) /\ t = DcTags[q][l]) /\ Ram[t] = "old"
    BY <1>3, <2>1 DEF WrittenOut
  <2>3. PICK r \in Procs, k \in Lines : Holds(r, k, t) /\ Buffered(r, k) /\ Dc[r][k] = "new"
    BY <2>2 DEF CohInv, StoresKept, Buffered
  <2> QED BY <2>2, <2>3 DEF Holds
<1> QED BY <1>1, <1>2, <1>3

\* A store merged into an exclusive line that is, or comes, into the write buffer: no
\* valid copy misses it, because there is none.
LEMMA AfterMerge ==
  ASSUME TypeInv, CohInv, SingleWriter', OneWay', NEW p \in Procs, NEW l \in Lines,
         Tag(p) \in Tags, Merge(p, l), Holds(p, l, Tag(p)), UNCHANGED DcTags,
         \A q \in Procs, k \in Lines :
           DcFlags'[q][k] = IF q = p /\ k = l THEN EXCLUSIVE ELSE DcFlags[q][k],
         \A q \in Procs, k \in Lines :
           Buffered(q, k)' <=> Buffered(q, k) \/ (q = p /\ k = l)
  PROVE  BufferedExclusive' /\ Coherent' /\ StoresKept'
<1>1. BufferedExclusive'
  BY DEF CohInv, BufferedExclusive
<1>2. \A q \in Procs, k \in Lines : Valid(q, k)' <=> Valid(q, k)
  BY DEF Holds, Valid, EXCLUSIVE, INVALID
<1>3. /\ \A q \in Procs, k \in Lines :
           Dc'[q][k] = IF DcTags[q][k] = Tag(p) /\ ~(q = p /\ k = l) THEN "old" ELSE Dc[q][k]
      /\ \A t \in Tags : Ram'[t] = IF t = Tag(p) THEN "old" ELSE Ram[t]
  BY Merged
<1>4. ASSUME NEW q \in Procs, NEW k \in Lines, Valid(q, k), DcTags[q][k] = Tag(p)
      PROVE  q = p /\ k = l
  <2>1. DcFlags'[p][l] = EXCLUSIVE /\ DcTags[p][l] = Tag(p) /\ Valid(p, l)' /\ Valid(q, k)'
    BY <1>2, <1>4 DEF Holds
  <2>2. q = p
    BY <1>4, <2>1 DEF SingleWriter, Holds
  <2>3. k = l
    BY <1>4, <2>1, <2>2 DEF OneWay, Holds
  <2> QED BY <2>2, <2>3
<1>5. Coherent'
  BY <1>2, <1>3, <1>4 DEF CohInv, Coherent
<1>6. StoresKept'
  <2> SUFFICES ASSUME NEW t \in Tags, Ram'[t] = "old"
               PROVE  \E q \in Procs, k \in Lines :
                        Holds(q, k, t)' /\ Buffered(q, k)' /\ Dc'[q][k] = "new"
    BY DEF StoresKept, Buffered
  <2>1. CASE t = Tag(p)
    <3>1. Holds(p, l, t)' /\ Buffered(p, l)'
      BY <1>2, <2>1 DEF Holds
    <3>2. Dc'[p][l] = "new"
      BY <1>3 DEF CohInv, Coherent, Holds
    <3> QED BY <3>1, <3>2
  <2>2. CASE t # Tag(p)
    <3>1. PICK q \in Procs, k \in Lines : Holds(q, k, t) /\ Buffered(q, k) /\ Dc[q][k] = "new"
      BY <1>3, <2>2 DEF CohInv, StoresKept, Buffered
    <3>2. Holds(q, k, t)' /\ Buffered(q, k)' /\ Dc'[q][k] = "new"
      BY <1>2, <1>3, <2>2, <3>1 DEF Holds
    <3> QED BY <3>2
  <2> QED BY <2>1, <2>2
<1> QED BY <1>1, <1>5, <1>6

\* The lines whose state a thread relies on between two of its steps.
Guarded(q, l) == l = cpu[q].line /\ (Merging(q) \/ Upgrading(q))

\* A step of another processor leaves q's knowledge of its line and entry true.
LEMMA KeepDuty ==
  ASSUME TypeInv, NEW q \in Procs, Duty(q), cpu'[q] = cpu[q], DcTags'[q] = DcTags[q],
         LocksKept(q),
         cpu[q].pc = "downgrading" => DowngradeTag(q)' = DowngradeTag(q),
         \A s \in Slots : WbIndices'[q][s] \in {WbIndices[q][s], NoLine},
         \A l \in Lines :
           /\ Buffered(q, l)' => Buffered(q, l)
           /\ \/ DcFlags'[q][l] = DcFlags[q][l]
              \/ DcFlags'[q][l] # EXCLUSIVE /\ ~Guarded(q, l)
  PROVE  Duty(q)'
<1>0. cpu[q] \in Locals /\ LocalsUsed(cpu[q])
  BY DEF TypeInv, LocalsOK
<1>1. CacheOwner(q)'
  <2>1. ASSUME cpu[q].pc \in {"scan", "merge", "filling", "filled"}
        PROVE  CacheMutexes'[q][Mutex(Tag(q))] = q
    BY <1>0, <2>1, AnyMutex DEF Duty, CacheOwner, LocksKept, LocalsUsed, Tag
  <2>2. ASSUME cpu[q].pc = "flushing"
        PROVE  CacheMutexes'[q][Mutex(DcTags[q][cpu[q].line])] = q
    <3>1. DcTags[q][cpu[q].line] \in Tags \cup {NoTag}
      BY <1>0, <2>2 DEF LocalsUsed, TypeInv, StateOK
    <3> QED BY <2>2, <3>1, AnyMutex DEF Duty, CacheOwner, LocksKept
  <2>3. ASSUME cpu[q].pc = "downgrading"
        PROVE  CacheMutexes'[cpu[q].victim][Mutex(DowngradeTag(q))] = q
    <3>1. Tag(q) \in Tags /\ cpu[q].victim \in Procs
      BY <1>0, <2>3 DEF LocalsUsed, Tag
    <3>2. DowngradeTag(q) \in Tags \cup {NoTag}
      BY <3>1, Indices DEF DowngradeTag, TypeInv, StateOK
    <3> QED BY <2>3, <3>1, <3>2, AnyMutex DEF Duty, CacheOwner, LocksKept
  <2> QED BY <2>1, <2>2, <2>3 DEF CacheOwner, Tag
<1>2. SlotKept(q)' /\ FlushSlot(q)'
  <2>1. Inserting(q) => cpu[q].slot \in Slots
    BY <1>0 DEF Inserting, Upgrading, Missing, Downgrading, LocalsUsed
  <2>2. Inserting(q)' <=> Inserting(q)
    BY DEF Inserting, Upgrading, Missing, Downgrading, Writing
  <2>3. cpu[q].pc \in {"flushlock", "flushing"} => cpu[q].slot \in Slots
    BY <1>0 DEF LocalsUsed
  <2> QED BY <2>1, <2>2, <2>3 DEF Duty, SlotKept, FlushSlot
<1>3. Ready(q)' /\ Sharing(q)'
  <2>1. Merging(q) \/ Upgrading(q) \/ cpu[q].pc = "upgrade" => cpu[q].line \in Lines
    BY <1>0 DEF Merging, Upgrading, Downgrading, LocalsUsed
  <2>2. (Merging(q)' <=> Merging(q)) /\ (Upgrading(q)' <=> Upgrading(q))
    BY DEF Merging, Upgrading, Downgrading, Writing
  <2>3. Ready(q)'
    BY <2>1, <2>2 DEF Duty, Ready, Guarded, Tag
  <2>4. Sharing(q)'
    BY <2>1, <2>2 DEF Duty, Sharing, Guarded
  <2> QED BY <2>3, <2>4
<1> QED BY <1>1, <1>2, <1>3 DEF Duty

\* Only the thread that holds a Scache stripe changes the tag it takes away.
LEMMA KeepDowngradeTag ==
  ASSUME TypeInv, DirInv, NEW p \in Procs, NEW q \in Procs, q # p, InDirectory(q),
         cpu'[q] = cpu[q],
         \/ UNCHANGED XrScacheTags
         \/ SetScache(p)
  PROVE  DowngradeTag(q)' = DowngradeTag(q)
<1>1. CASE UNCHANGED XrScacheTags
  BY <1>1 DEF DowngradeTag, Tag
<1>2. CASE SetScache(p)
  <2>1. Tag(q) \in Tags /\ Tag(p) \in Tags /\ InDirectory(p)
    BY <1>2 DEF SetScache, Downgraded, At, TypeInv, LocalsOK, LocalsUsed, InDirectory,
                Downgrading, Tag
  <2>2. XrScacheMutexes[Mutex(Tag(q))] = q /\ XrScacheMutexes[Mutex(Tag(p))] = p
    BY <2>1 DEF DirInv, Phase, Owner
  <2>3. ScSet(Tag(q)) # ScSet(Tag(p))
    BY <2>1, <2>2, NestAssumption
  <2>4. XrScacheTags' = [XrScacheTags EXCEPT ![ScSet(Tag(p))] = Tag(p)]
    BY <1>2 DEF SetScache
  <2> QED BY <2>1, <2>3, <2>4, Indices DEF DowngradeTag, Tag, TypeInv, StateOK
<1> QED BY <1>1, <1>2

-----------------------------------------------------------------------------
(* Steps that change no line, no entry and no RAM.                         *)

\* What such a step leaves as it is.
CalmState ==
  <<DcFlags, DcTags, Dc, WbIndices, DcIndexToWbIndex, Ram, XrScacheFlags, XrScacheTags>>

\* Such a step has to account for its own locals only.
LEMMA CalmStep ==
  ASSUME TypeInv, DirInv, CohInv, NEW p \in Procs, UNCHANGED CalmState,
         \A q \in Procs \ {p} : cpu'[q] = cpu[q] /\ LocksKept(q),
         Downgrading(p) /\ cpu[p].ret = "miss" =>
           Downgrading(p)' /\ cpu'[p].ret = "miss" /\ Tag(p)' = Tag(p),
         Duty(p)'
  PROVE  CohInv'
<1>1. HalvesAgree' /\ BufferedExclusive' /\ Coherent' /\ StoresKept'
  BY DEF CohInv, HalvesAgree, BufferedExclusive, Coherent, StoresKept, Buffered, Holds, Valid,
         CalmState
<1>2. SharedEntry'
  <2>1. \A r \in Procs : Downgrading(r) /\ cpu[r].ret = "miss" =>
          Downgrading(r)' /\ cpu'[r].ret = "miss" /\ Tag(r)' = Tag(r)
    BY DEF Downgrading, Tag
  <2> QED BY <2>1 DEF CohInv, SharedEntry, CalmState
<1>3. ASSUME NEW q \in Procs, q # p PROVE Duty(q)'
  <2>1. DowngradeTag(q)' = DowngradeTag(q)
    BY <1>3 DEF DowngradeTag, Tag, CalmState
  <2>2. Duty(q) /\ cpu'[q] = cpu[q] /\ LocksKept(q)
    BY <1>3 DEF CohInv
  <2> QED BY <2>1, <2>2, KeepDuty DEF CalmState, Buffered
<1> QED BY <1>1, <1>2, <1>3 DEF CohInv

\* Between accesses and at the start of one nothing is relied on.
LEMMA NoDuty ==
  ASSUME NEW p \in Procs, cpu'[p].pc \in {"idle", "start", "copy", "flush", "abort"}
  PROVE  Duty(p)'
BY DEF Duty, CacheOwner, SlotKept, Ready, Sharing, FlushSlot, Inserting, Merging, Upgrading,
       Missing, Downgrading

\* Nor by a miss of a load before it fills, but its locks.
LEMMA LoadDuty ==
  ASSUME NEW p \in Procs, cpu'[p].pc = "miss", ~Writing(p)'
  PROVE  Duty(p)'
BY DEF Duty, CacheOwner, SlotKept, Ready, Sharing, FlushSlot, Inserting, Merging, Upgrading,
       Missing, Downgrading

\* Steps that end an access or a flush, or begin one, or start it over, with no lock
\* changed.
LEMMA CalmUnlocked ==
  ASSUME TypeInv, DirInv, CohInv, NEW p \in Procs,
         \/ \E o \in Accesses, t \in Tags : Begin(p, o, t)
         \/ Barrier(p) \/ CheckConditions(p) \/ Rfe(p)
         \/ LoadLookup(p) \/ LoadCopy(p) \/ FlushNext(p)
  PROVE  CohInv'
<1>0. /\ cpu \in [Procs -> Locals] /\ LocalsUsed(cpu[p])
      /\ cpu[p].pc # "invalidate" /\ cpu[p].ret # "invalidate"
  BY DEF TypeInv, LocalsOK, DirInv, NoControl
<1> DEFINE Calm == /\ UNCHANGED CalmState /\ UNCHANGED CacheMutexes
                   /\ ~Downgrading(p)
                   /\ \A q \in Procs \ {p} : cpu'[q] = cpu[q]
                   /\ Duty(p)'
<1>c. ASSUME Calm PROVE CohInv'
  BY <1>c, CalmStep DEF LocksKept
<1>1. ASSUME NEW o, NEW t, Begin(p, o, t) PROVE Calm
  <2>1. /\ UNCHANGED CalmState /\ UNCHANGED CacheMutexes /\ ~Downgrading(p)
        /\ \A q \in Procs \ {p} : cpu'[q] = cpu[q]
        /\ cpu'[p].pc = "start"
    BY <1>0, <1>1 DEF Begin, At, Idle, Downgrading, CalmState, dcacheVars, wbVars, scacheVars,
                      lockVars
  <2>2. Duty(p)'
    BY <2>1, NoDuty
  <2> QED BY <2>1, <2>2
<1>2. ASSUME Barrier(p) \/ CheckConditions(p) \/ Rfe(p) \/ LoadCopy(p) PROVE Calm
  <2>1. /\ UNCHANGED CalmState /\ UNCHANGED CacheMutexes /\ ~Downgrading(p)
        /\ \A q \in Procs \ {p} : cpu'[q] = cpu[q]
        /\ cpu'[p].pc \in {"idle", "flush"}
    <3>1. CASE Barrier(p) \/ CheckConditions(p)
      BY <1>0, <3>1 DEF Barrier, CheckConditions, StartFlush, At, Idle, Downgrading, CalmState,
                        dcacheVars, wbVars, scacheVars, lockVars
    <3>2. CASE Rfe(p)
      BY <1>0, <3>2 DEF Rfe, At, Downgrading, CalmState, dcacheVars, wbVars, scacheVars, lockVars
    <3>3. CASE LoadCopy(p)
      BY <1>0, <3>3 DEF LoadCopy, ReturnFromLoad, Return, At, Idle, Downgrading, CalmState,
                        dcacheVars, wbVars, scacheVars, lockVars
    <3> QED BY <1>2, <3>1, <3>2, <3>3
  <2>2. Duty(p)'
    BY <2>1, NoDuty
  <2> QED BY <2>1, <2>2
<1>3. ASSUME LoadLookup(p) PROVE Calm
  <2> DEFINE l == Hit(p, Tag(p))   next == IF l = NoLine THEN "miss" ELSE "copy"
  <2>1. cpu' = [cpu EXCEPT ![p].pc = next, ![p].line = l]
    BY <1>3 DEF LoadLookup
  <2>2. /\ UNCHANGED CalmState /\ UNCHANGED CacheMutexes /\ ~Downgrading(p) /\ ~Writing(p)
    BY <1>3 DEF LoadLookup, At, Downgrading, CalmState, dcacheVars, wbVars, scacheVars, lockVars
  <2>3. /\ \A q \in Procs \ {p} : cpu'[q] = cpu[q]
        /\ cpu'[p].pc \in {"miss", "copy"} /\ cpu'[p].op = cpu[p].op
    BY <1>0, <2>1 DEF Locals
  <2>4. Duty(p)'
    BY <2>2, <2>3, NoDuty, LoadDuty DEF Writing
  <2> QED BY <2>2, <2>3, <2>4
<1>4. ASSUME FlushNext(p) PROVE Calm
  <2>1. /\ UNCHANGED CalmState /\ UNCHANGED CacheMutexes /\ ~Downgrading(p)
        /\ cpu[p].ret \in {"idle", "start"} /\ cpu[p].slot \in Nat
    <3>1. UNCHANGED CalmState /\ UNCHANGED CacheMutexes
      BY <1>4 DEF FlushNext, CalmState, dcacheVars, wbVars, scacheVars, lockVars
    <3>2. ~Downgrading(p) /\ cpu[p].ret \in {"idle", "start"}
      BY <1>0, <1>4 DEF FlushNext, At, Downgrading, LocalsUsed
    <3>3. cpu[p].slot \in Nat
      BY <1>0, SizeAssumption DEF Locals
    <3> QED BY <3>1, <3>2, <3>3
  <2> DEFINE used == {s \in cpu[p].slot .. WbDepth - 1 : WbIndices[p][s] # NoLine}
  <2>2. CASE \E s \in used : cpu' = [cpu EXCEPT ![p].pc = "flushlock", ![p].slot = s,
                                                ![p].line = WbIndices[p][s]]
    <3>1. PICK s \in used : cpu' = [cpu EXCEPT ![p].pc = "flushlock", ![p].slot = s,
                                               ![p].line = WbIndices[p][s]]
      BY <2>2
    <3>2. /\ \A q \in Procs \ {p} : cpu'[q] = cpu[q]
          /\ cpu'[p].pc = "flushlock" /\ cpu'[p].slot = s /\ cpu'[p].line = WbIndices[p][s]
      BY <1>0, <3>1 DEF Locals
    <3>3. FlushSlot(p)'
      BY <2>1, <3>2 DEF FlushSlot, CalmState
    <3>4. Duty(p)'
      BY <3>2, <3>3 DEF Duty, CacheOwner, SlotKept, Ready, Sharing, Inserting, Merging, Upgrading,
                        Missing, Downgrading
    <3> QED BY <2>1, <3>2, <3>4
  <2>3. CASE cpu' = [cpu EXCEPT ![p] = Idle]
             \/ cpu' = [cpu EXCEPT ![p].pc = cpu[p].ret, ![p].slot = 0,
                                   ![p].line = NoLine, ![p].ret = "idle"]
    <3>1. /\ \A q \in Procs \ {p} : cpu'[q] = cpu[q]
          /\ cpu'[p].pc \in {"idle", "start"}
      BY <1>0, <2>1, <2>3 DEF Locals, Idle
    <3>2. Duty(p)'
      BY <3>1, NoDuty
    <3> QED BY <2>1, <3>1, <3>2
  <2> QED BY <1>4, <2>2, <2>3 DEF FlushNext, Return
<1> QED BY <1>c, <1>1, <1>2, <1>3, <1>4

\* Taking and releasing Dcache stripes.
LEMMA CalmLocks ==
  ASSUME TypeInv, DirInv, CohInv, NEW p \in Procs,
         StoreLock(p) \/ StoreFindsBufferFull(p) \/ FillLock(p) \/ FilledLoad(p) \/ FlushLock(p)
  PROVE  CohInv'
<1>0. /\ cpu \in [Procs -> Locals] /\ LocalsUsed(cpu[p]) /\ Duty(p)
  BY DEF TypeInv, LocalsOK, CohInv
<1>1. CASE StoreLock(p) \/ FillLock(p)
  <2>1. /\ UNCHANGED CalmState /\ ~Downgrading(p) /\ Tag(p) \in Tags
        /\ SetCacheLock(p, Tag(p), p) /\ CacheMutexes[p][Mutex(Tag(p))] = NoProc
    BY <1>0, <1>1 DEF StoreLock, FillLock, At, LocalsUsed, Tag, CacheFree, Downgrading,
                      CalmState, dcacheVars, wbVars, scacheVars
  <2>2. /\ \A q \in Procs \ {p} : LocksKept(q)
        /\ CacheMutexes'[p][Mutex(Tag(p))] = p
    BY <2>1, CacheLock
  <2>3. /\ \A q \in Procs \ {p} : cpu'[q] = cpu[q]
        /\ \/ cpu'[p].pc = "scan"
           \/ cpu[p].pc = "fill" /\ cpu'[p].pc = "filling"
        /\ cpu'[p].tag = cpu[p].tag /\ cpu'[p].op = cpu[p].op /\ cpu'[p].slot = cpu[p].slot
    BY <1>0, <1>1 DEF StoreLock, FillLock, At, Goto, Locals
  <2>4. CacheOwner(p)' /\ Ready(p)' /\ Sharing(p)' /\ FlushSlot(p)'
    BY <2>2, <2>3 DEF CacheOwner, Ready, Sharing, FlushSlot, Merging, Upgrading, Downgrading, Tag
  <2>5. SlotKept(p)'
    BY <1>0, <2>1, <2>3 DEF Duty, SlotKept, Inserting, Upgrading, Missing, Downgrading, Writing,
                            CalmState
  <2> QED BY <2>1, <2>2, <2>3, <2>4, <2>5, CalmStep DEF Duty
<1>2. CASE FlushLock(p)
  <2> DEFINE t == DcTags[p][cpu[p].line]
  <2>1. /\ UNCHANGED CalmState /\ ~Downgrading(p) /\ t \in Tags \cup {NoTag}
        /\ SetCacheLock(p, t, p) /\ CacheMutexes[p][Mutex(t)] = NoProc
    BY <1>0, <1>2 DEF FlushLock, At, LocalsUsed, CacheFree, Downgrading, TypeInv, StateOK,
                      CalmState, dcacheVars, wbVars, scacheVars
  <2>2. /\ \A q \in Procs \ {p} : LocksKept(q)
        /\ CacheMutexes'[p][Mutex(t)] = p
    BY <2>1, CacheLock
  <2>3. /\ \A q \in Procs \ {p} : cpu'[q] = cpu[q]
        /\ cpu[p].pc = "flushlock" /\ cpu'[p].pc = "flushing"
        /\ cpu'[p].line = cpu[p].line /\ cpu'[p].slot = cpu[p].slot
    BY <1>0, <1>2 DEF FlushLock, At, Goto, Locals
  <2>4. CacheOwner(p)' /\ FlushSlot(p)'
    BY <1>0, <2>1, <2>2, <2>3 DEF Duty, CacheOwner, FlushSlot, CalmState
  <2>5. SlotKept(p)' /\ Ready(p)' /\ Sharing(p)'
    BY <2>3 DEF SlotKept, Ready, Sharing, Inserting, Merging, Upgrading, Missing, Downgrading
  <2> QED BY <2>1, <2>2, <2>3, <2>4, <2>5, CalmStep DEF Duty
<1>3. CASE StoreFindsBufferFull(p) \/ FilledLoad(p)
  <2>1. /\ UNCHANGED CalmState /\ ~Downgrading(p) /\ Tag(p) \in Tags
        /\ SetCacheLock(p, Tag(p), NoProc) /\ CacheMutexes[p][Mutex(Tag(p))] = p
    BY <1>0, <1>3 DEF StoreFindsBufferFull, FilledLoad, At, LocalsUsed, Tag, Downgrading,
                      Duty, CacheOwner, CalmState, dcacheVars, wbVars, scacheVars
  <2>2. \A q \in Procs \ {p} : LocksKept(q)
    BY <2>1, CacheLock
  <2>3. /\ \A q \in Procs \ {p} : cpu'[q] = cpu[q]
        /\ cpu'[p].pc \in {"idle", "flush"}
    BY <1>0, <1>3 DEF StoreFindsBufferFull, FilledLoad, ReturnFromLoad, Return, Idle, Locals
  <2>4. Duty(p)'
    BY <2>3, NoDuty
  <2> QED BY <2>1, <2>2, <2>3, <2>4, CalmStep
<1> QED BY <1>1, <1>2, <1>3


\* The lookup of a store: an exclusive line that it finds is in no entry, for the scan
\* of the buffer has just missed it.
LEMMA CalmLookup ==
  ASSUME TypeInv, DirInv, CohInv, NEW p \in Procs, StoreLookup(p)
  PROVE  CohInv'
<1> DEFINE t == Tag(p)   l == Hit(p, t)   held == {k \in LinesOf(t) : Valid(p, k) /\ DcTags[p][k] = t}
           exclusive == l # NoLine /\ DcFlags[p][l] = EXCLUSIVE
           next == IF exclusive THEN "merge" ELSE IF l = NoLine THEN "miss" ELSE "upgrade"
<1>0. /\ cpu \in [Procs -> Locals] /\ cpu[p].pc = "scan" /\ t \in Tags
      /\ CacheMutexes[p][Mutex(t)] = p /\ ~Downgrading(p)
      /\ UNCHANGED CalmState
  BY DEF TypeInv, LocalsOK, LocalsUsed, CohInv, Duty, CacheOwner, StoreLookup, At, Tag, Downgrading,
         CalmState, dcacheVars, scacheVars
<1>1. l # NoLine => l \in Lines /\ DcTags[p][l] = t
  <2>1. held \subseteq Lines /\ l = First(held)
    BY DEF LinesOf, Hit
  <2>2. l # NoLine => l \in held
    BY <2>1, FirstLine
  <2> QED BY <2>1, <2>2
<1>2. l # NoLine => ~Buffered(p, l)
  <2> SUFFICES ASSUME l # NoLine, Buffered(p, l) PROVE FALSE
    OBVIOUS
  <2>1. DcIndexToWbIndex[p][l] \in Slots
    BY <1>1 DEF Buffered, TypeInv, StateOK
  <2>2. DcIndexToWbIndex[p][l] \in SlotsOf(p, t)
    BY <1>1, <2>1 DEF CohInv, HalvesAgree, SlotsOf
  <2> QED BY <2>2 DEF StoreLookup
<1>3. \A q \in Procs \ {p} : LocksKept(q)
  BY <1>0, CacheLock DEF StoreLookup, LocksKept
<1>4. CASE Return(p)
  <2>1. /\ \A q \in Procs \ {p} : cpu'[q] = cpu[q]
        /\ cpu'[p].pc = "idle"
    BY <1>0, <1>4 DEF Return, Idle
  <2>2. Duty(p)'
    BY <2>1, NoDuty
  <2> QED BY <1>0, <1>3, <2>1, <2>2, CalmStep
<1>5. CASE ~Return(p)
  <2>1. PICK s \in FreeSlots(p) :
          cpu' = [cpu EXCEPT ![p].pc = next, ![p].line = l, ![p].slot = s]
    BY <1>5 DEF StoreLookup
  <2>2. /\ \A q \in Procs \ {p} : cpu'[q] = cpu[q]
        /\ cpu'[p].pc = next /\ cpu'[p].line = l /\ cpu'[p].slot = s
        /\ cpu'[p].tag = cpu[p].tag
    BY <1>0, <2>1 DEF Locals
  <2>3. SlotKept(p)' /\ FlushSlot(p)'
    BY <1>0, <2>1, <2>2 DEF SlotKept, FlushSlot, FreeSlots, CalmState
  <2>4. CASE exclusive
    <3>1. CacheOwner(p)'
      BY <1>0, <2>2, <2>4 DEF CacheOwner, StoreLookup, Tag
    <3>2. Ready(p)' /\ Sharing(p)'
      BY <1>0, <1>1, <1>2, <2>2, <2>4 DEF Ready, Sharing, Upgrading, Downgrading, Buffered, Tag,
                                          CalmState
    <3> QED BY <1>0, <1>3, <2>2, <2>3, <3>1, <3>2, CalmStep DEF Duty
  <2>5. CASE ~exclusive
    <3>1. CacheOwner(p)' /\ Ready(p)'
      BY <2>2, <2>5 DEF CacheOwner, Ready, Merging
    <3>2. Sharing(p)'
      BY <1>0, <2>2, <2>5 DEF Sharing, Upgrading, Downgrading, CalmState
    <3> QED BY <1>0, <1>3, <2>2, <2>3, <3>1, <3>2, CalmStep DEF Duty
  <2> QED BY <2>4, <2>5
<1> QED BY <1>4, <1>5

\* With the Scache stripe free no miss is between the two halves of a downgrade: the
\* line that is valid and not exclusive is shared in the directory too, and the upgrade
\* visits all Dcaches but its own.
LEMMA CalmUpgrade ==
  ASSUME TypeInv, DirInv, CohInv, NEW p \in Procs, UpgradeLock(p)
  PROVE  CohInv'
<1> DEFINE t == Tag(p)   i == ScSet(t)   l == cpu[p].line
<1>0. /\ cpu \in [Procs -> Locals] /\ cpu[p].pc = "upgrade" /\ t \in Tags /\ i \in ScIndices
      /\ l \in Lines /\ DcTags[p][l] = t /\ DcFlags[p][l] # EXCLUSIVE
      /\ WbIndices[p][cpu[p].slot] = NoLine
      /\ ~Downgrading(p) /\ UNCHANGED CalmState /\ UNCHANGED CacheMutexes
  BY Indices
  DEF TypeInv, LocalsOK, LocalsUsed, DirInv, Phase, LineKept, CohInv, Duty, Sharing, SlotKept,
      Inserting, UpgradeLock, At, Tag, Downgrading, CalmState, dcacheVars, wbVars, scacheVars
<1>1. \A q \in Procs \ {p} : LocksKept(q)
  BY <1>0 DEF LocksKept
<1>2. CASE ~Valid(p, l) \/ ~InScache(t)
  <2> DEFINE next == IF Valid(p, l) THEN "abort" ELSE "start"
  <2>1. cpu' = [cpu EXCEPT ![p].pc = next, ![p].line = NoLine, ![p].slot = 0]
    BY <1>2 DEF UpgradeLock
  <2>2. /\ \A q \in Procs \ {p} : cpu'[q] = cpu[q]
        /\ cpu'[p].pc \in {"abort", "start"}
    BY <1>0, <2>1 DEF Locals
  <2>3. Duty(p)'
    BY <2>2, NoDuty
  <2> QED BY <1>0, <1>1, <2>2, <2>3, CalmStep
<1>3. CASE ~(~Valid(p, l) \/ ~InScache(t))
  <2> DEFINE todo == IF XrScacheFlags[i] = SHARED THEN Procs \ {p} ELSE {XrScacheExclusiveIds[i]}
  <2>1. cpu' = [cpu EXCEPT ![p].pc = "downgrade", ![p].ret = "upgrade", ![p].todo = todo]
    BY <1>3 DEF UpgradeLock
  <2>2. /\ \A q \in Procs \ {p} : cpu'[q] = cpu[q]
        /\ cpu'[p].pc = "downgrade" /\ cpu'[p].ret = "upgrade" /\ cpu'[p].todo = todo
        /\ cpu'[p].line = l /\ cpu'[p].slot = cpu[p].slot
    BY <1>0, <2>1 DEF Locals
  <2>3. DcFlags[p][l] = SHARED
    BY <1>0, <1>3 DEF Valid, TypeInv, StateOK, LineStates
  <2>4. XrScacheFlags[i] = SHARED
    <3> SUFFICES ASSUME NEW r \in Procs, Downgrading(r), ScSet(Tag(r)) = i
                 PROVE  FALSE
      BY <1>0, <2>3 DEF CohInv, SharedEntry
    <3>1. Tag(r) \in Tags /\ XrScacheMutexes[Mutex(Tag(r))] = r
      BY DEF TypeInv, LocalsOK, LocalsUsed, Downgrading, InDirectory, Tag, DirInv, Phase, Owner
    <3>2. Mutex(Tag(r)) = Mutex(t)
      BY <1>0, <3>1, NestAssumption
    <3>3. XrScacheMutexes[Mutex(t)] = NoProc
      BY DEF UpgradeLock, ScacheFree
    <3> QED BY <3>1, <3>2, <3>3, ProcAssumption
  <2>5. Sharing(p)'
    BY <1>0, <2>2, <2>3, <2>4 DEF Sharing, CalmState
  <2>6. SlotKept(p)'
    BY <1>0, <2>2 DEF SlotKept, CalmState
  <2>7. CacheOwner(p)' /\ Ready(p)' /\ FlushSlot(p)'
    BY <2>2 DEF CacheOwner, Ready, FlushSlot, Merging
  <2> QED BY <1>0, <1>1, <2>2, <2>5, <2>6, <2>7, CalmStep DEF Duty
<1> QED BY <1>2, <1>3

\* The miss takes the Scache stripe.
LEMMA CalmMiss ==
  ASSUME TypeInv, DirInv, CohInv, NEW p \in Procs, MissLock(p)
  PROVE  CohInv'
<1>0. /\ cpu \in [Procs -> Locals] /\ cpu[p].pc = "miss" /\ Duty(p)
      /\ ~Downgrading(p) /\ UNCHANGED CalmState /\ UNCHANGED CacheMutexes
  BY DEF TypeInv, LocalsOK, CohInv, MissLock, At, Downgrading, CalmState, dcacheVars, wbVars,
         scacheVars
<1>1. \A q \in Procs \ {p} : LocksKept(q)
  BY <1>0 DEF LocksKept
<1>2. cpu' = [cpu EXCEPT ![p].pc = "downgrade", ![p].ret = "miss", ![p].todo = ToDowngrade(p)]
  BY DEF MissLock
<1>3. /\ \A q \in Procs \ {p} : cpu'[q] = cpu[q]
      /\ cpu'[p].pc = "downgrade" /\ cpu'[p].ret = "miss"
      /\ cpu'[p].op = cpu[p].op /\ cpu'[p].slot = cpu[p].slot
  BY <1>0, <1>2 DEF Locals
<1>4. SlotKept(p)'
  BY <1>0, <1>3 DEF Duty, SlotKept, Inserting, Upgrading, Missing, Downgrading, Writing, CalmState
<1>5. CacheOwner(p)' /\ Ready(p)' /\ Sharing(p)' /\ FlushSlot(p)'
  BY <1>3 DEF CacheOwner, Ready, Sharing, FlushSlot, Merging, Upgrading
<1> QED BY <1>0, <1>1, <1>3, <1>4, <1>5, CalmStep DEF Duty

\* XrDowngradeLine takes the stripe of the Dcache it visits.
LEMMA CalmDowngradeLock ==
  ASSUME TypeInv, DirInv, CohInv, NEW p \in Procs, DowngradeLock(p)
  PROVE  CohInv'
<1> DEFINE t == DowngradeTag(p)
<1>0. /\ cpu \in [Procs -> Locals] /\ cpu[p].pc = "downgrade" /\ Duty(p)
      /\ cpu[p].todo \subseteq Procs /\ Tag(p) \in Tags /\ UNCHANGED CalmState
  BY DEF TypeInv, LocalsOK, LocalsUsed, Locals, CohInv, DowngradeLock, At, Tag, CalmState,
         dcacheVars, wbVars, scacheVars
<1>1. t \in Tags \cup {NoTag}
  BY <1>0, Indices DEF DowngradeTag, TypeInv, StateOK
<1>2. PICK q \in cpu[p].todo :
        /\ CacheFree(q, t) /\ SetCacheLock(q, t, p)
        /\ cpu' = [cpu EXCEPT ![p].pc = "downgrading", ![p].victim = q,
                              ![p].vline = LineToDowngrade(p, q), ![p].todo = @ \ {q}]
  BY DEF DowngradeLock
<1>3. /\ \A r \in Procs \ {p} : LocksKept(r)
      /\ CacheMutexes'[q][Mutex(t)] = p
  BY <1>0, <1>1, <1>2, CacheLock DEF CacheFree
<1>4. /\ \A r \in Procs \ {p} : cpu'[r] = cpu[r]
      /\ cpu'[p].pc = "downgrading" /\ cpu'[p].victim = q /\ cpu'[p].todo = cpu[p].todo \ {q}
      /\ cpu'[p].ret = cpu[p].ret /\ cpu'[p].tag = cpu[p].tag /\ cpu'[p].op = cpu[p].op
      /\ cpu'[p].slot = cpu[p].slot /\ cpu'[p].line = cpu[p].line
  BY <1>0, <1>2 DEF Locals
<1>5. CacheOwner(p)'
  BY <1>0, <1>3, <1>4 DEF CacheOwner, DowngradeTag, Tag, CalmState
<1>6. SlotKept(p)'
  BY <1>0, <1>4 DEF Duty, SlotKept, Inserting, Upgrading, Missing, Downgrading, Writing, CalmState
<1>7. Sharing(p)'
  BY <1>0, <1>4 DEF Duty, Sharing, Upgrading, Downgrading, CalmState
<1>8. Ready(p)' /\ FlushSlot(p)'
  BY <1>4 DEF Ready, FlushSlot, Merging
<1>9. Downgrading(p)' /\ Tag(p)' = Tag(p)
  BY <1>4 DEF Downgrading, Tag
<1> QED BY <1>0, <1>3, <1>4, <1>5, <1>6, <1>7, <1>8, <1>9, CalmStep DEF Duty

-----------------------------------------------------------------------------
(* Stores.                                                                 *)

\* The other processors rely on nothing that a store of p changes.
LEMMA StoreOthers ==
  ASSUME TypeInv, DirInv, CohInv, NEW p \in Procs,
         UNCHANGED <<DcTags, XrScacheTags>>,
         \A q \in Procs \ {p} :
           /\ cpu'[q] = cpu[q] /\ LocksKept(q) /\ DcFlags'[q] = DcFlags[q]
           /\ \A s \in Slots : WbIndices'[q][s] = WbIndices[q][s]
           /\ \A k \in Lines : DcIndexToWbIndex'[q][k] = DcIndexToWbIndex[q][k]
  PROVE  \A q \in Procs \ {p} : Duty(q)'
<1> SUFFICES ASSUME NEW q \in Procs, q # p PROVE Duty(q)'
  OBVIOUS
<1>1. cpu'[q] = cpu[q] /\ Duty(q)
  BY DEF CohInv
<1>2. DowngradeTag(q)' = DowngradeTag(q)
  BY <1>1 DEF DowngradeTag, Tag
<1> QED BY <1>1, <1>2, KeepDuty DEF Buffered

\* A new entry in a slot that was free, for a line that was in none.
LEMMA InsertHalves ==
  ASSUME TypeInv, CohInv, NEW p \in Procs, NEW s \in Slots, NEW l \in Lines,
         InsertWb(p, s, l), WbIndices[p][s] = NoLine, ~Buffered(p, l)
  PROVE  /\ HalvesAgree'
         /\ \A q \in Procs, k \in Lines :
              Buffered(q, k)' <=> Buffered(q, k) \/ (q = p /\ k = l)
<1>1. \A q \in Procs :
        /\ \A x \in Slots :
             WbIndices'[q][x] = IF q = p /\ x = s THEN l ELSE WbIndices[q][x]
        /\ \A k \in Lines :
             DcIndexToWbIndex'[q][k] = IF q = p /\ k = l THEN s ELSE DcIndexToWbIndex[q][k]
  BY Inserted
<1>2. HalvesAgree'
  <2> SUFFICES ASSUME NEW q \in Procs, NEW k \in Lines, NEW x \in Slots
               PROVE  WbIndices'[q][x] = k <=> DcIndexToWbIndex'[q][k] = x
    BY DEF HalvesAgree
  <2>1. \A y \in Slots : WbIndices[q][y] = k <=> DcIndexToWbIndex[q][k] = y
    BY DEF CohInv, HalvesAgree
  <2>2. k # NoLine /\ x # NoSlot
    BY Sizes
  <2> QED BY <1>1, <2>1, <2>2 DEF Buffered
<1>3. \A q \in Procs, k \in Lines :
        Buffered(q, k)' <=> Buffered(q, k) \/ (q = p /\ k = l)
  BY <1>1, Sizes DEF Buffered
<1> QED BY <1>2, <1>3

\* A store to a line that is exclusive already, under the Dcache stripe.
LEMMA StoreLocked ==
  ASSUME TypeInv, DirInv, DirInv', CohInv, NEW p \in Procs,
         StoreHitsBuffer(p) \/ StoreMerge(p) \/ FilledStore(p)
  PROVE  CohInv'
<1> DEFINE t == Tag(p)
<1>0. /\ cpu \in [Procs -> Locals] /\ LocalsUsed(cpu[p]) /\ Duty(p)
      /\ t \in Tags /\ ~Downgrading(p)
      /\ UNCHANGED <<DcTags, DcFlags, XrScacheTags, XrScacheFlags>>
      /\ SetCacheLock(p, t, NoProc) /\ CacheMutexes[p][Mutex(t)] = p
      /\ cpu' = [cpu EXCEPT ![p] = Idle]
  BY DEF TypeInv, LocalsOK, LocalsUsed, CohInv, Duty, CacheOwner, StoreHitsBuffer, StoreMerge,
         FilledStore, Return, At, Tag, Downgrading, scacheVars
<1>1. /\ \A q \in Procs \ {p} : cpu'[q] = cpu[q] /\ LocksKept(q)
      /\ Duty(p)'
  <2>1. /\ \A q \in Procs \ {p} : cpu'[q] = cpu[q]
        /\ cpu'[p].pc = "idle"
    BY <1>0 DEF Idle
  <2> QED BY <1>0, <2>1, NoDuty, CacheLock
<1>2. PICK l \in Lines :
        /\ Merge(p, l) /\ DcFlags[p][l] = EXCLUSIVE /\ DcTags[p][l] = t
        /\ HalvesAgree'
        /\ \A q \in Procs, k \in Lines :
             Buffered(q, k)' <=> Buffered(q, k) \/ (q = p /\ k = l)
        /\ \A q \in Procs \ {p} :
             /\ \A s \in Slots : WbIndices'[q][s] = WbIndices[q][s]
             /\ \A k \in Lines : DcIndexToWbIndex'[q][k] = DcIndexToWbIndex[q][k]
  <2>1. CASE StoreHitsBuffer(p)
    <3>1. PICK s \in Slots :
            WbIndices[p][s] # NoLine /\ DcTags[p][WbIndices[p][s]] = t /\ Merge(p, WbIndices[p][s])
      BY <2>1 DEF StoreHitsBuffer, SlotsOf
    <3> DEFINE l == WbIndices[p][s]
    <3>2. l \in Lines
      BY <3>1 DEF TypeInv, StateOK
    <3>3. Buffered(p, l)
      BY <3>2, Sizes DEF CohInv, HalvesAgree, Buffered
    <3>4. UNCHANGED <<WbIndices, DcIndexToWbIndex>>
      BY <2>1 DEF StoreHitsBuffer, wbVars
    <3>5. HalvesAgree' /\ DcFlags[p][l] = EXCLUSIVE
      BY <3>2, <3>3, <3>4 DEF CohInv, HalvesAgree, BufferedExclusive
    <3> QED BY <3>1, <3>2, <3>3, <3>4, <3>5 DEF Buffered
  <2>2. CASE StoreMerge(p) \/ FilledStore(p)
    <3> DEFINE l == cpu[p].line   s == cpu[p].slot
    <3>1. /\ Merging(p) /\ Inserting(p) /\ l \in Lines /\ s \in Slots
          /\ InsertWb(p, s, l) /\ Merge(p, l)
      BY <1>0, <2>2 DEF StoreMerge, FilledStore, At, Merging, Inserting, LocalsUsed
    <3>2. /\ DcFlags[p][l] = EXCLUSIVE /\ DcTags[p][l] = t /\ ~Buffered(p, l)
          /\ WbIndices[p][s] = NoLine
      BY <1>0, <3>1 DEF Duty, Ready, SlotKept
    <3> QED BY <3>1, <3>2, InsertHalves, Inserted
  <2> QED BY <2>1, <2>2
<1>3. BufferedExclusive' /\ Coherent' /\ StoresKept'
  <2>1. SingleWriter' /\ OneWay'
    BY DEF DirInv, SingleWriter, Included, Holds, Valid, INVALID, EXCLUSIVE
  <2>2. Holds(p, l, t)
    BY <1>2 DEF Holds, Valid, INVALID, EXCLUSIVE
  <2> QED BY <1>0, <1>2, <2>1, <2>2, AfterMerge
<1>4. SharedEntry'
  <2>1. \A r \in Procs : Downgrading(r) =>
          Downgrading(r)' /\ cpu'[r].ret = cpu[r].ret /\ Tag(r)' = Tag(r)
    BY <1>0, <1>1 DEF Downgrading, Tag
  <2> QED BY <1>0, <2>1 DEF CohInv, SharedEntry
<1>5. \A q \in Procs \ {p} : Duty(q)'
  BY <1>0, <1>1, <1>2, StoreOthers
<1> QED BY <1>1, <1>2, <1>3, <1>4, <1>5 DEF CohInv

\* The end of a write upgrade, under the Scache stripe alone.
LEMMA StoreUpgrades ==
  ASSUME TypeInv, DirInv, DirInv', CohInv, NEW p \in Procs, UpgradeDone(p)
  PROVE  CohInv'
<1> DEFINE t == Tag(p)   i == ScSet(t)   l == cpu[p].line   s == cpu[p].slot
<1>0. /\ cpu \in [Procs -> Locals] /\ Duty(p) /\ Phase(p) /\ Upgrading(p) /\ cpu[p].ret = "upgrade"
      /\ t \in Tags /\ i \in ScIndices /\ l \in Lines /\ s \in Slots
      /\ UNCHANGED <<DcTags, XrScacheTags, CacheMutexes>>
      /\ InsertWb(p, s, l) /\ Merge(p, l)
      /\ cpu' = [cpu EXCEPT ![p] = Idle]
      /\ DcFlags' = [DcFlags EXCEPT ![p][l] = EXCLUSIVE]
      /\ XrScacheFlags' = [XrScacheFlags EXCEPT ![i] = EXCLUSIVE]
      /\ XrScacheExclusiveIds' = [XrScacheExclusiveIds EXCEPT ![i] = p]
  BY Indices
  DEF TypeInv, LocalsOK, LocalsUsed, DirInv, CohInv, UpgradeDone, Downgraded, Return, At, Tag,
      Upgrading, Downgrading
<1>1. /\ \A q \in Procs \ {p} : cpu'[q] = cpu[q] /\ LocksKept(q)
      /\ Duty(p)'
  <2>1. /\ \A q \in Procs \ {p} : cpu'[q] = cpu[q]
        /\ cpu'[p].pc = "idle"
    BY <1>0 DEF Idle
  <2> QED BY <1>0, <2>1, NoDuty DEF LocksKept
<1>2. /\ DcFlags[p][l] = SHARED /\ DcTags[p][l] = t /\ ~Buffered(p, l)
      /\ WbIndices[p][s] = NoLine
  <2>1. DcFlags[p][l] = SHARED /\ DcTags[p][l] = t /\ WbIndices[p][s] = NoLine
    BY <1>0 DEF Duty, Sharing, SlotKept, Inserting, Phase, LineKept
  <2> QED BY <1>0, <2>1 DEF CohInv, BufferedExclusive, SHARED, EXCLUSIVE
<1>3. /\ \A q \in Procs, k \in Lines :
           DcFlags'[q][k] = IF q = p /\ k = l THEN EXCLUSIVE ELSE DcFlags[q][k]
      /\ \A q \in Procs \ {p} : DcFlags'[q] = DcFlags[q]
      /\ \A j \in ScIndices : j # i => XrScacheFlags'[j] = XrScacheFlags[j]
      /\ XrScacheFlags'[i] = EXCLUSIVE /\ XrScacheExclusiveIds'[i] = p
  BY <1>0 DEF TypeInv, StateOK
<1>4. /\ HalvesAgree'
      /\ \A q \in Procs, k \in Lines :
           Buffered(q, k)' <=> Buffered(q, k) \/ (q = p /\ k = l)
  BY <1>0, <1>2, InsertHalves
<1>5. BufferedExclusive' /\ Coherent' /\ StoresKept'
  <2>1. SingleWriter' /\ OneWay'
    BY DEF DirInv, SingleWriter, Included, Holds, Valid, INVALID, EXCLUSIVE
  <2>2. Holds(p, l, t)
    BY <1>2 DEF Holds, Valid, INVALID, SHARED
  <2> QED BY <1>0, <1>3, <1>4, <2>1, <2>2, AfterMerge
<1>6. SharedEntry'
  <2> SUFFICES ASSUME NEW q \in Procs, NEW k \in Lines, DcFlags'[q][k] = SHARED
               PROVE  LET j == ScSet(DcTags[q][k]) IN
                      \/ XrScacheFlags'[j] = SHARED
                      \/ \E r \in Procs : Downgrading(r)' /\ cpu'[r].ret = "miss" /\ ScSet(Tag(r)') = j
    BY <1>0 DEF SharedEntry, Tag
  <2> DEFINE j == ScSet(DcTags[q][k])
  <2>1. ~(q = p /\ k = l) /\ DcFlags[q][k] = SHARED /\ Valid(q, k)'
    BY <1>3 DEF SHARED, EXCLUSIVE, Valid, INVALID
  <2>2. InScache(DcTags[q][k])' /\ j \in ScIndices
    BY <1>0, <2>1, Indices DEF DirInv, Included, Filed
  <2>3. j # i
    <3> SUFFICES ASSUME j = i PROVE FALSE
      OBVIOUS
    <3>1. DcTags[q][k] = t /\ q = p
      <4>1. PICK m \in Lines : m = l
        BY <1>0
      <4>2. XrScacheTags[i] = t
        <5>1. Valid(p, m)' /\ DcTags'[p][m] = t /\ XrScacheTags' = XrScacheTags
          BY <1>0, <1>2, <1>3, <4>1 DEF Valid, EXCLUSIVE, INVALID
        <5>2. InScache(DcTags[p][m])'
          BY <1>0, <5>1 DEF DirInv, Included
        <5> QED BY <5>1, <5>2 DEF InScache
      <4>3. q = p
        BY <1>0, <1>3, <2>1 DEF DirInv, Included
      <4> QED BY <1>0, <2>2, <4>2, <4>3 DEF InScache
    <3>2. k = l
      BY <1>0, <1>2, <1>3, <2>1, <3>1 DEF DirInv, OneWay, Holds, Valid, EXCLUSIVE, INVALID
    <3> QED BY <2>1, <3>1, <3>2
  <2>4. \A r \in Procs : Downgrading(r) /\ cpu[r].ret = "miss" =>
          Downgrading(r)' /\ cpu'[r].ret = "miss" /\ Tag(r)' = Tag(r)
    BY <1>0, <1>1 DEF Downgrading, Tag
  <2> QED BY <1>3, <2>1, <2>2, <2>3, <2>4 DEF CohInv, SharedEntry
<1>7. \A q \in Procs \ {p} : Duty(q)'
  BY <1>0, <1>1, <1>3, Inserted, StoreOthers
<1> QED BY <1>1, <1>4, <1>5, <1>6, <1>7 DEF CohInv

-----------------------------------------------------------------------------
(* Lines taken away or written out; the directory entry and the fill.      *)

\* The entry of a flush is written out, unless somebody did so since it was read.
LEMMA FlushKeeps ==
  ASSUME TypeInv, DirInv, CohInv, NEW p \in Procs, FlushWrite(p)
  PROVE  CohInv'
<1> DEFINE s == cpu[p].slot   t == DcTags[p][cpu[p].line]
<1>0. /\ cpu \in [Procs -> Locals] /\ LocalsUsed(cpu[p]) /\ Duty(p)
      /\ cpu[p].pc = "flushing" /\ ~Downgrading(p)
      /\ UNCHANGED <<DcFlags, DcTags, Dc, XrScacheTags, XrScacheFlags>>
      /\ SetCacheLock(p, t, NoProc)
      /\ cpu' = [cpu EXCEPT ![p].pc = "flush", ![p].slot = @ + 1]
  BY DEF TypeInv, LocalsOK, CohInv, FlushWrite, At, Downgrading, dcacheVars, scacheVars
<1>1. PICK l \in Lines : l = cpu[p].line
  BY <1>0 DEF LocalsUsed
<1>2. /\ \A q \in Procs \ {p} : cpu'[q] = cpu[q] /\ LocksKept(q)
      /\ Duty(p)'
  <2>1. /\ \A q \in Procs \ {p} : cpu'[q] = cpu[q]
        /\ cpu'[p].pc = "flush"
    BY <1>0 DEF Locals
  <2>2. t \in Tags \cup {NoTag} /\ CacheMutexes[p][Mutex(t)] = p
    BY <1>0, <1>1 DEF Duty, CacheOwner, TypeInv, StateOK
  <2>3. \A q \in Procs \ {p} : LocksKept(q)
    BY <1>0, <2>2, CacheLock
  <2> QED BY <2>1, <2>3, NoDuty
<1>3. CASE WbIndices[p][s] = NoLine
  <2>1. UNCHANGED CalmState
    BY <1>0, <1>3 DEF FlushWrite, CalmState
  <2> QED BY <1>0, <1>2, <2>1, CalmStep
<1>4. CASE WbIndices[p][s] # NoLine
  <2>1. s \in Slots /\ WbIndices[p][s] = l
    BY <1>0, <1>1, <1>4 DEF LocalsUsed, Duty, FlushSlot
  <2>2. WrittenOut(p, l)
    BY <1>1, <1>4, <2>1, Clearing DEF FlushWrite, CohInv
  <2>3. HalvesAgree' /\ BufferedExclusive' /\ Coherent' /\ StoresKept'
    <3>1. HalvesAgree'
      BY <2>2, AfterWrite
    <3>2. \A r \in Procs, k \in Lines : Buffered(r, k)' <=> Buffered(r, k) /\ ~(r = p /\ k = l)
      BY <2>2, AfterWrite
    <3>3. BufferedExclusive' /\ Coherent'
      BY <1>0, <3>2 DEF CohInv, BufferedExclusive, Coherent, Valid
    <3>4. StoresKept'
      <4> SUFFICES ASSUME NEW u \in Tags, Ram'[u] = "old"
                   PROVE  \E r \in Procs, k \in Lines :
                            Holds(r, k, u)' /\ Buffered(r, k)' /\ Dc'[r][k] = "new"
        BY DEF StoresKept, Buffered
      <4>1. PICK r \in Procs, k \in Lines :
              ~(r = p /\ k = l) /\ Holds(r, k, u) /\ Buffered(r, k) /\ Dc[r][k] = "new"
        BY <2>2, AfterWrite
      <4>2. Holds(r, k, u)' /\ Buffered(r, k)' /\ Dc'[r][k] = "new"
        BY <1>0, <3>2, <4>1 DEF Holds, Valid
      <4> QED BY <4>2
    <3> QED BY <3>1, <3>3, <3>4
  <2>4. SharedEntry'
    <3>1. \A r \in Procs : Downgrading(r) =>
            Downgrading(r)' /\ cpu'[r].ret = cpu[r].ret /\ Tag(r)' = Tag(r)
      BY <1>0, <1>2 DEF Downgrading, Tag
    <3> QED BY <1>0, <3>1 DEF CohInv, SharedEntry
  <2>5. \A q \in Procs \ {p} : Duty(q)'
    <3>1. \A q \in Procs \ {p} :
            /\ \A x \in Slots : WbIndices'[q][x] = WbIndices[q][x]
            /\ \A k \in Lines : DcIndexToWbIndex'[q][k] = DcIndexToWbIndex[q][k]
      BY <2>2 DEF WrittenOut
    <3> QED BY <1>0, <1>2, <3>1, StoreOthers
  <2> QED BY <1>2, <2>3, <2>4, <2>5 DEF CohInv
<1> QED BY <1>3, <1>4

\* A line that XrDowngradeLine takes away is one nobody is between look and use with:
\* its own processor would hold the Dcache stripe, or the Scache stripe.
LEMMA VictimUnguarded ==
  ASSUME TypeInv, DirInv, CohInv, NEW p \in Procs, cpu[p].pc = "downgrading",
         NEW q \in Procs, q # p, NEW l \in Lines, q = cpu[p].victim, l = cpu[p].vline
  PROVE  ~Guarded(q, l)
<1> DEFINE t == DowngradeTag(p)
<1>1. /\ Tag(p) \in Tags /\ InDirectory(p) /\ Phase(p) /\ Phase(q) /\ Duty(p) /\ Duty(q)
  BY DEF TypeInv, LocalsOK, LocalsUsed, InDirectory, Downgrading, DirInv, CohInv, Tag
<1>2. DcTags[q][l] = t /\ t \in Tags /\ DcSet(t) = DcSet(Tag(p))
  <2>1. Holds(q, l, t)
    BY <1>1, Sizes DEF Phase, Found
  <2>2. t \in Tags
    BY <2>1 DEF DirInv, Filed, Holds
  <2> QED BY <1>1, <2>1, <2>2, EntryTag, Sizes DEF Holds
<1>3. CASE Merging(q)
  <2>1. CacheMutexes[q][Mutex(Tag(q))] = q /\ CacheMutexes[q][Mutex(t)] = p
    BY <1>1, <1>3 DEF Duty, CacheOwner, Merging
  <2>2. Guarded(q, l) => Tag(q) = t
    BY <1>1, <1>2, <1>3 DEF Guarded, Duty, Ready
  <2> QED BY <2>1, <2>2
<1>4. CASE Upgrading(q)
  <2>1. Tag(q) \in Tags /\ InDirectory(q)
    BY <1>4 DEF Upgrading, InDirectory, Downgrading, TypeInv, LocalsOK, LocalsUsed, Tag
  <2>2. XrScacheMutexes[Mutex(Tag(q))] = q /\ XrScacheMutexes[Mutex(Tag(p))] = p
    BY <1>1, <2>1 DEF Phase, Owner
  <2>3. Guarded(q, l) => Tag(q) = t
    BY <1>1, <1>2, <1>4 DEF Guarded, Phase, LineKept
  <2>4. Mutex(t) = Mutex(Tag(p))
    BY <1>1, <1>2, NestAssumption
  <2> QED BY <2>2, <2>3, <2>4
<1> QED BY <1>3, <1>4 DEF Guarded

\* XrDowngradeLine writes the line out and downgrades it.
LEMMA DowngradeKeeps ==
  ASSUME TypeInv, DirInv, CohInv, NEW p \in Procs, DowngradeLine(p)
  PROVE  CohInv'
<1> DEFINE t == DowngradeTag(p)
<1>0. /\ cpu \in [Procs -> Locals] /\ Duty(p) /\ Phase(p)
      /\ cpu[p].pc = "downgrading" /\ cpu[p].victim \in Procs
      /\ cpu[p].vline \in Lines \cup {NoLine}
      /\ Tag(p) \in Tags /\ InDirectory(p) /\ Downgrading(p)
      /\ UNCHANGED <<DcTags, Dc, XrScacheTags, XrScacheFlags>>
      /\ SetCacheLock(cpu[p].victim, t, NoProc)
      /\ cpu' = [cpu EXCEPT ![p].pc = "downgrade", ![p].victim = NoProc, ![p].vline = NoLine]
  BY DEF TypeInv, LocalsOK, LocalsUsed, Locals, DirInv, CohInv, DowngradeLine, At, InDirectory,
         Downgrading, Tag, scacheVars
<1>1. PICK q \in Procs, l \in Lines \cup {NoLine} : q = cpu[p].victim /\ l = cpu[p].vline
  BY <1>0
<1>2. /\ \A r \in Procs \ {p} : cpu'[r] = cpu[r]
      /\ cpu'[p].pc = "downgrade" /\ cpu'[p].todo = cpu[p].todo
      /\ cpu'[p].ret = cpu[p].ret /\ cpu'[p].tag = cpu[p].tag /\ cpu'[p].op = cpu[p].op
      /\ cpu'[p].slot = cpu[p].slot /\ cpu'[p].line = cpu[p].line
  BY <1>0 DEF Locals
<1>3. \A r \in Procs \ {p} : LocksKept(r)
  <2>1. t \in Tags \cup {NoTag}
    BY <1>0, Indices DEF DowngradeTag, TypeInv, StateOK
  <2>2. CacheMutexes[q][Mutex(t)] = p
    BY <1>0, <1>1 DEF Duty, CacheOwner
  <2> QED BY <1>0, <1>1, <2>1, <2>2, CacheLock
<1>4. CacheOwner(p)' /\ Ready(p)' /\ FlushSlot(p)'
  BY <1>2 DEF CacheOwner, Ready, FlushSlot, Merging
<1>5. Downgrading(p)' /\ Tag(p)' = Tag(p) /\ (Inserting(p)' <=> Inserting(p))
      /\ (Upgrading(p)' <=> Upgrading(p))
  BY <1>0, <1>2 DEF Downgrading, Tag, Inserting, Upgrading, Missing, Writing
<1>6. CASE l = NoLine
  <2>1. UNCHANGED CalmState
    BY <1>0, <1>1, <1>6 DEF DowngradeLine, CalmState
  <2>2. SlotKept(p)' /\ Sharing(p)'
    BY <1>0, <1>2, <1>5, <2>1 DEF Duty, SlotKept, Sharing, CalmState
  <2> QED BY <1>0, <1>2, <1>3, <1>4, <1>5, <2>1, <2>2, CalmStep DEF Duty
<1>7. CASE l # NoLine
  <2>1. /\ l \in Lines /\ ForceWrite(q, l)
        /\ DcFlags' = [DcFlags EXCEPT ![q][l] = DowngradeState(p)]
    BY <1>1, <1>7 DEF DowngradeLine
  <2>2. /\ \A r \in Procs, k \in Lines :
             DcFlags'[r][k] = IF r = q /\ k = l THEN DowngradeState(p) ELSE DcFlags[r][k]
        /\ DowngradeState(p) \in {INVALID, SHARED}
        /\ Holds(q, l, t) /\ t \in Tags /\ ScSet(t) = ScSet(Tag(p))
    <3>1. Holds(q, l, t)
      BY <1>0, <1>1, <1>7 DEF Phase, Found
    <3>2. t \in Tags
      BY <2>1, <3>1 DEF DirInv, Filed, Holds
    <3>3. ScSet(t) = ScSet(Tag(p))
      BY <1>0, <3>2, EntryTag, Sizes
    <3>4. DowngradeState(p) \in {INVALID, SHARED}
      BY DEF DowngradeState
    <3>5. \A r \in Procs, k \in Lines :
             DcFlags'[r][k] = IF r = q /\ k = l THEN DowngradeState(p) ELSE DcFlags[r][k]
      BY <2>1 DEF TypeInv, StateOK
    <3> QED BY <3>1, <3>2, <3>3, <3>4, <3>5
  <2>3. WrittenOut(q, l)
    BY <2>1, Forced DEF CohInv
  <2>4. /\ HalvesAgree'
        /\ \A r \in Procs, k \in Lines : Buffered(r, k)' <=> Buffered(r, k) /\ ~(r = q /\ k = l)
    BY <2>1, <2>3, AfterWrite
  <2>5. BufferedExclusive' /\ Coherent'
    <3>1. \A r \in Procs, k \in Lines : Valid(r, k)' => Valid(r, k)
      BY <2>2 DEF Holds, Valid
    <3> QED BY <1>0, <2>2, <2>4, <3>1 DEF CohInv, BufferedExclusive, Coherent
  <2>6. StoresKept'
    <3> SUFFICES ASSUME NEW u \in Tags, Ram'[u] = "old"
                 PROVE  \E r \in Procs, k \in Lines :
                          Holds(r, k, u)' /\ Buffered(r, k)' /\ Dc'[r][k] = "new"
      BY DEF StoresKept, Buffered
    <3>1. PICK r \in Procs, k \in Lines :
            ~(r = q /\ k = l) /\ Holds(r, k, u) /\ Buffered(r, k) /\ Dc[r][k] = "new"
      BY <2>1, <2>3, AfterWrite
    <3>2. Holds(r, k, u)' /\ Buffered(r, k)' /\ Dc'[r][k] = "new"
      BY <1>0, <2>2, <2>4, <3>1 DEF Holds, Valid
    <3> QED BY <3>2
  <2>7. SharedEntry'
    <3> SUFFICES ASSUME NEW r \in Procs, NEW k \in Lines, DcFlags'[r][k] = SHARED
                 PROVE  LET j == ScSet(DcTags[r][k]) IN
                        \/ XrScacheFlags[j] = SHARED
                        \/ \E x \in Procs : Downgrading(x)' /\ cpu'[x].ret = "miss" /\ ScSet(Tag(x)') = j
      BY <1>0 DEF SharedEntry, Tag
    <3>1. CASE r = q /\ k = l
      <4>1. cpu[p].ret = "miss"
        BY <2>2, <3>1 DEF DowngradeState, SHARED, INVALID
      <4>2. DcTags[r][k] = t
        BY <2>2, <3>1 DEF Holds
      <4> QED BY <1>2, <1>5, <2>2, <4>1, <4>2
    <3>2. CASE ~(r = q /\ k = l)
      <4>1. \A x \in Procs : Downgrading(x) =>
              Downgrading(x)' /\ cpu'[x].ret = cpu[x].ret /\ Tag(x)' = Tag(x)
        BY <1>2, <1>5 DEF Downgrading, Tag
      <4>2. DcFlags[r][k] = SHARED
        BY <2>2, <3>2
      <4> QED BY <4>1, <4>2 DEF CohInv, SharedEntry
    <3> QED BY <3>1, <3>2
  <2>8. SlotKept(p)' /\ Sharing(p)'
    <3>1. Inserting(p) => cpu[p].slot \in Slots
      BY <1>0 DEF LocalsUsed, TypeInv, LocalsOK
    <3>2. SlotKept(p)'
      BY <1>0, <1>2, <1>5, <2>3, <3>1 DEF Duty, SlotKept, WrittenOut
    <3>3. Upgrading(p) => q # p /\ cpu[p].line \in Lines
      BY <1>0, <1>1 DEF Duty, Sharing, Upgrading, LocalsUsed, TypeInv, LocalsOK
    <3>4. Sharing(p)'
      BY <1>0, <1>2, <1>5, <2>2, <3>3 DEF Duty, Sharing
    <3> QED BY <3>2, <3>4
  <2>9. ASSUME NEW r \in Procs, r # p PROVE Duty(r)'
    <3>1. cpu'[r] = cpu[r] /\ DcTags'[r] = DcTags[r] /\ LocksKept(r) /\ Duty(r)
      BY <1>0, <1>2, <1>3, <2>9 DEF CohInv
    <3>2. DowngradeTag(r)' = DowngradeTag(r)
      BY <1>0, <3>1 DEF DowngradeTag, Tag
    <3>3. \A s \in Slots : WbIndices'[r][s] \in {WbIndices[r][s], NoLine}
      BY <2>3 DEF WrittenOut
    <3>4. r = q => ~Guarded(r, l)
      BY <1>0, <1>1, <2>1, <2>9, VictimUnguarded
    <3>5. \A k \in Lines :
            \/ DcFlags'[r][k] = DcFlags[r][k]
            \/ DcFlags'[r][k] # EXCLUSIVE /\ ~Guarded(r, k)
      BY <2>2, <3>4 DEF INVALID, SHARED, EXCLUSIVE
    <3> QED BY <2>4, <3>1, <3>2, <3>3, <3>5, KeepDuty
  <2> QED BY <1>4, <2>4, <2>5, <2>6, <2>7, <2>8, <2>9 DEF CohInv, Duty
<1> QED BY <1>1, <1>6, <1>7


\* When the directory entry changes, the Dcaches have been visited: lines of the entry
\* are shared only if it becomes so.
LEMMA EntryKeeps ==
  ASSUME TypeInv, DirInv, CohInv, NEW p \in Procs, SetScache(p)
  PROVE  CohInv'
<1> DEFINE t == Tag(p)   i == ScSet(t)
<1>0. /\ cpu \in [Procs -> Locals] /\ Duty(p) /\ Phase(p)
      /\ cpu[p].pc = "downgrade" /\ cpu[p].ret = "miss" /\ cpu[p].todo = {} /\ Downgrading(p)
      /\ t \in Tags /\ i \in ScIndices
      /\ UNCHANGED <<DcFlags, DcTags, Dc, WbIndices, DcIndexToWbIndex, Ram, CacheMutexes>>
      /\ XrScacheFlags' = [XrScacheFlags EXCEPT ![i] = NewState(p)]
      /\ cpu' = [cpu EXCEPT ![p].pc = "fill"]
  BY Indices
  DEF TypeInv, LocalsOK, LocalsUsed, DirInv, CohInv, SetScache, Goto, Downgraded, At, Downgrading,
      Tag, dcacheVars, wbVars, lockVars
<1>1. /\ \A q \in Procs \ {p} : cpu'[q] = cpu[q]
      /\ cpu'[p].pc = "fill" /\ cpu'[p].op = cpu[p].op /\ cpu'[p].slot = cpu[p].slot
  BY <1>0 DEF Locals
<1>2. HalvesAgree' /\ BufferedExclusive' /\ Coherent' /\ StoresKept'
  BY <1>0 DEF CohInv, HalvesAgree, BufferedExclusive, Coherent, StoresKept, Buffered, Holds, Valid
<1>3. SharedEntry'
  <2> SUFFICES ASSUME NEW q \in Procs, NEW k \in Lines, DcFlags[q][k] = SHARED
               PROVE  LET j == ScSet(DcTags[q][k]) IN
                      \/ XrScacheFlags'[j] = SHARED
                      \/ \E r \in Procs : Downgrading(r)' /\ cpu'[r].ret = "miss" /\ ScSet(Tag(r)') = j
    BY <1>0 DEF SharedEntry, Tag
  <2> DEFINE j == ScSet(DcTags[q][k])
  <2>1. Valid(q, k) /\ DcTags[q][k] \in Tags /\ j \in ScIndices /\ InScache(DcTags[q][k])
    BY Indices DEF Valid, SHARED, INVALID, DirInv, Filed, Included
  <2>2. CASE j # i
    <3>1. XrScacheFlags'[j] = XrScacheFlags[j]
      BY <1>0, <2>1, <2>2 DEF TypeInv, StateOK
    <3>2. \A r \in Procs : Downgrading(r) /\ ScSet(Tag(r)) = j =>
            Downgrading(r)' /\ cpu'[r].ret = cpu[r].ret /\ Tag(r)' = Tag(r)
      BY <1>1, <2>2 DEF Downgrading, Tag
    <3> QED BY <3>1, <3>2 DEF CohInv, SharedEntry
  <2>3. CASE j = i
    <3>1. Holds(q, k, DowngradeTag(p))
      BY <2>1, <2>3 DEF Holds, DowngradeTag, InScache
    <3>2. ~ToVisit(p, q)
      BY <1>0 DEF ToVisit
    <3>3. SHARED <= DowngradeState(p)
      BY <1>0, <3>1, <3>2 DEF Phase, Visited
    <3>4. ~Writing(p)
      BY <3>3 DEF DowngradeState, SHARED, INVALID
    <3>5. XrScacheFlags'[i] = SHARED
      BY <1>0, <3>4 DEF NewState, TypeInv, StateOK
    <3> QED BY <2>3, <3>5
  <2> QED BY <2>2, <2>3
<1>4. Duty(p)'
  <2>1. SlotKept(p)'
    BY <1>0, <1>1 DEF Duty, SlotKept, Inserting, Upgrading, Missing, Downgrading, Writing
  <2>2. CacheOwner(p)' /\ Ready(p)' /\ Sharing(p)' /\ FlushSlot(p)'
    BY <1>1 DEF CacheOwner, Ready, Sharing, FlushSlot, Merging, Upgrading, Downgrading
  <2> QED BY <2>1, <2>2 DEF Duty
<1>5. ASSUME NEW q \in Procs, q # p PROVE Duty(q)'
  <2>1. cpu'[q] = cpu[q] /\ Duty(q) /\ LocksKept(q)
    BY <1>0, <1>1, <1>5 DEF CohInv, LocksKept
  <2>2. cpu[q].pc = "downgrading" => DowngradeTag(q)' = DowngradeTag(q)
    BY <1>5, <2>1, KeepDowngradeTag DEF InDirectory, Downgrading
  <2> QED BY <1>0, <2>1, <2>2, KeepDuty DEF Buffered
<1> QED BY <1>2, <1>3, <1>4, <1>5 DEF CohInv

\* The line read from RAM misses nothing: what RAM misses is held exclusively, by the
\* owner in the directory entry, which is the processor that reads and has no such line.
LEMMA RamIsNew ==
  ASSUME TypeInv, DirInv, CohInv, NEW p \in Procs, cpu[p].pc = "filling"
  PROVE  Ram[Tag(p)] = "new"
<1>1. /\ Tag(p) \in Tags /\ Phase(p)
  BY DEF TypeInv, LocalsOK, LocalsUsed, DirInv, Tag
<1>2. SUFFICES ASSUME Ram[Tag(p)] = "old" PROVE FALSE
  BY <1>1 DEF TypeInv, StateOK, Data
<1>3. PICK q \in Procs, k \in Lines : Holds(q, k, Tag(p)) /\ Buffered(q, k)
  BY <1>1, <1>2 DEF CohInv, StoresKept, Buffered
<1>4. DcFlags[q][k] = EXCLUSIVE /\ Valid(q, k) /\ DcTags[q][k] = Tag(p)
  BY <1>3 DEF CohInv, BufferedExclusive, Holds
<1>5. XrScacheExclusiveIds[ScSet(Tag(p))] = q
  BY <1>4 DEF DirInv, Included
<1>6. XrScacheExclusiveIds[ScSet(Tag(p))] = p /\ \A l \in Lines : ~Holds(p, l, Tag(p))
  BY <1>1 DEF Phase, Entered, NotHeld, Missing
<1> QED BY <1>3, <1>5, <1>6

\* The fill replaces a line, which is written out before.
LEMMA FillKeeps ==
  ASSUME TypeInv, DirInv, DirInv', CohInv, NEW p \in Procs, Fill(p)
  PROVE  CohInv'
<1> DEFINE t == Tag(p)   i == ScSet(t)
           state == IF t \in BadTags THEN INVALID ELSE NewState(p)
<1>0. /\ cpu \in [Procs -> Locals] /\ Duty(p) /\ Phase(p)
      /\ cpu[p].pc = "filling" /\ cpu[p].slot \in Slots
      /\ t \in Tags /\ i \in ScIndices /\ InDirectory(p) /\ Missing(p) /\ ~Downgrading(p)
      /\ Ram[t] = "new"
      /\ UNCHANGED XrScacheTags
  BY Indices, RamIsNew
  DEF TypeInv, StateOK, LocalsOK, LocalsUsed, DirInv, CohInv, Fill, At, Tag, InDirectory, Missing,
      Downgrading
<1>l. PICK l \in Lines : l = <<DcSet(t), DcReplacementIndex[p]>>
  BY <1>0, Indices DEF TypeInv, StateOK, Lines
<1>1. /\ DcTags' = [DcTags EXCEPT ![p][l] = t]
      /\ DcFlags' = [DcFlags EXCEPT ![p][l] = state]
      /\ IF Valid(p, l) THEN ForceWrite(p, l)
         ELSE UNCHANGED <<Ram, WbIndices, DcIndexToWbIndex>>
      /\ IF t \in BadTags
         THEN /\ Dc' = [Dc EXCEPT ![p][l] = "old"]
              /\ XrScacheFlags' = [XrScacheFlags EXCEPT ![i] = INVALID]
              /\ SetCacheLock(p, t, NoProc)
              /\ cpu' = [cpu EXCEPT ![p] = Idle]
         ELSE /\ Dc' = [Dc EXCEPT ![p][l] = Ram[t]]
              /\ UNCHANGED <<XrScacheFlags, CacheMutexes>>
              /\ cpu' = [cpu EXCEPT ![p].pc = "filled", ![p].line = l]
  BY <1>l DEF Fill, Return
<1>2. \A q \in Procs, k \in Lines :
        /\ DcFlags'[q][k] = IF q = p /\ k = l THEN state ELSE DcFlags[q][k]
        /\ DcTags'[q][k] = IF q = p /\ k = l THEN t ELSE DcTags[q][k]
        /\ Dc'[q][k] = IF q = p /\ k = l THEN (IF t \in BadTags THEN "old" ELSE "new") ELSE Dc[q][k]
  BY <1>0, <1>1 DEF TypeInv, StateOK
<1>3. /\ \A q \in Procs \ {p} : cpu'[q] = cpu[q]
      /\ IF t \in BadTags THEN cpu'[p].pc = "idle"
         ELSE /\ cpu'[p].pc = "filled" /\ cpu'[p].line = l /\ cpu'[p].tag = t
              /\ cpu'[p].op = cpu[p].op /\ cpu'[p].slot = cpu[p].slot
  BY <1>0, <1>1 DEF Locals, Idle, Tag
<1>4. WrittenOut(p, l)
  <2>1. ~Valid(p, l) => ~Buffered(p, l)
    BY DEF CohInv, BufferedExclusive, Valid, INVALID, EXCLUSIVE
  <2> QED BY <1>1, <2>1, Forced, NothingToWrite DEF CohInv
<1>5. /\ HalvesAgree'
      /\ \A r \in Procs, k \in Lines : Buffered(r, k)' <=> Buffered(r, k) /\ ~(r = p /\ k = l)
  BY <1>4, AfterWrite
<1>6. BufferedExclusive' /\ Coherent'
  <2>1. BufferedExclusive'
    BY <1>2, <1>5 DEF CohInv, BufferedExclusive
  <2>2. Coherent'
    BY <1>2 DEF CohInv, Coherent, Valid
  <2> QED BY <2>1, <2>2
<1>7. StoresKept'
  <2> SUFFICES ASSUME NEW u \in Tags, Ram'[u] = "old"
               PROVE  \E r \in Procs, k \in Lines :
                        Holds(r, k, u)' /\ Buffered(r, k)' /\ Dc'[r][k] = "new"
    BY DEF StoresKept, Buffered
  <2>1. PICK r \in Procs, k \in Lines :
          ~(r = p /\ k = l) /\ Holds(r, k, u) /\ Buffered(r, k) /\ Dc[r][k] = "new"
    BY <1>4, AfterWrite
  <2>2. Holds(r, k, u)' /\ Buffered(r, k)' /\ Dc'[r][k] = "new"
    BY <1>2, <1>5, <2>1 DEF Holds, Valid
  <2> QED BY <2>2
<1>8. SharedEntry'
  <2> SUFFICES ASSUME NEW q \in Procs, NEW k \in Lines, DcFlags'[q][k] = SHARED
               PROVE  LET j == ScSet(DcTags'[q][k]) IN
                      \/ XrScacheFlags'[j] = SHARED
                      \/ \E r \in Procs : Downgrading(r)' /\ cpu'[r].ret = "miss" /\ ScSet(Tag(r)') = j
    BY DEF SharedEntry, Tag
  <2> DEFINE j == ScSet(DcTags'[q][k])
  <2>1. Valid(q, k)'
    BY DEF Valid, SHARED, INVALID
  <2>2. InScache(DcTags[q][k])' /\ j \in ScIndices
    BY <2>1, Indices DEF DirInv, Included, Filed
  <2>3. XrScacheFlags'[j] = XrScacheFlags[j]
    BY <1>0, <1>1, <2>2 DEF InScache, TypeInv, StateOK
  <2>4. CASE q = p /\ k = l
    <3>1. state = SHARED /\ j = i
      BY <1>2, <2>4
    <3>2. XrScacheFlags[i] = SHARED
      BY <1>0, <3>1 DEF Phase, Entered, SHARED, INVALID
    <3> QED BY <2>3, <3>1, <3>2
  <2>5. CASE ~(q = p /\ k = l)
    <3>1. \A r \in Procs : Downgrading(r) =>
            Downgrading(r)' /\ cpu'[r].ret = cpu[r].ret /\ Tag(r)' = Tag(r)
      BY <1>0, <1>3 DEF Downgrading, Tag
    <3> QED BY <1>2, <2>3, <2>5, <3>1 DEF CohInv, SharedEntry
  <2> QED BY <2>4, <2>5
<1>9. Duty(p)'
  <2>1. CASE t \in BadTags
    BY <1>3, <2>1, NoDuty
  <2>2. CASE t \notin BadTags
    <3>1. CacheOwner(p)'
      BY <1>0, <1>1, <1>3, <2>2 DEF Duty, CacheOwner, Tag
    <3>2. SlotKept(p)'
      <4>1. Inserting(p)' => Inserting(p)
        BY <1>0, <1>3, <2>2 DEF Inserting, Upgrading, Missing, Downgrading, Writing
      <4> QED BY <1>0, <1>3, <1>4, <2>2, <4>1 DEF Duty, SlotKept, WrittenOut
    <3>3. Ready(p)'
      <4>1. Merging(p)' => Writing(p)
        BY <1>3, <2>2 DEF Merging, Writing
      <4> QED BY <1>2, <1>3, <1>5, <2>2, <4>1 DEF Ready, Tag, NewState
    <3>4. Sharing(p)' /\ FlushSlot(p)'
      BY <1>3, <2>2 DEF Sharing, FlushSlot, Upgrading, Downgrading
    <3> QED BY <3>1, <3>2, <3>3, <3>4 DEF Duty
  <2> QED BY <2>1, <2>2
<1>10. ASSUME NEW q \in Procs, q # p PROVE Duty(q)'
  <2>1. cpu'[q] = cpu[q] /\ Duty(q)
    BY <1>3, <1>10 DEF CohInv
  <2>2. LocksKept(q)
    <3>1. CacheMutexes[p][Mutex(t)] = p
      BY <1>0 DEF Duty, CacheOwner
    <3> QED BY <1>0, <1>1, <1>10, <3>1, CacheLock DEF LocksKept
  <2>3. DowngradeTag(q)' = DowngradeTag(q)
    BY <1>0, <2>1 DEF DowngradeTag, Tag
  <2>4. DcTags'[q] = DcTags[q] /\ DcFlags'[q] = DcFlags[q]
    BY <1>1, <1>10 DEF TypeInv, StateOK
  <2>5. \A s \in Slots : WbIndices'[q][s] = WbIndices[q][s]
    BY <1>4, <1>10 DEF WrittenOut
  <2> QED BY <1>5, <2>1, <2>2, <2>3, <2>4, <2>5, KeepDuty
<1> QED BY <1>5, <1>6, <1>7, <1>8, <1>9, <1>10 DEF CohInv

-----------------------------------------------------------------------------
\* After XrReset RAM misses nothing and the write buffers are empty.
LEMMA InitCoh == Init => CohInv
<1> SUFFICES ASSUME Init PROVE CohInv
  OBVIOUS
<1>1. HalvesAgree /\ BufferedExclusive
  BY Sizes DEF Init, HalvesAgree, BufferedExclusive, Buffered
<1>2. SharedEntry /\ Coherent /\ StoresKept
  BY DEF Init, SharedEntry, Coherent, StoresKept, Valid, INVALID, SHARED
<1>3. \A p \in Procs : Duty(p)
  BY DEF Init, Idle, Duty, CacheOwner, SlotKept, Ready, Sharing, FlushSlot, Inserting, Merging,
         Upgrading, Missing, Downgrading
<1> QED BY <1>1, <1>2, <1>3 DEF CohInv

\* Every step keeps the caches coherent, if no software writes DCACHECTRL.
LEMMA StepCoh ==
  ASSUME Controllers = {}, TypeInv, DirInv, CohInv, NEW p \in Procs, Start(p) \/ Continue(p)
  PROVE  CohInv'
<1>1. ~CacheControl(p) /\ ~Invalidate(p)
  BY DEF CacheControl, Invalidate, At, DirInv, NoControl
<1>2. DirInv'
  BY StepDir
<1> QED
  BY <1>1, <1>2, CalmUnlocked, CalmLocks, CalmLookup, CalmUpgrade, CalmMiss, CalmDowngradeLock,
     StoreLocked, StoreUpgrades, FlushKeeps, DowngradeKeeps, EntryKeeps, FillKeeps
  DEF Start, Continue, StoreStep

\* The caches are coherent in every behaviour, of any size.
LEMMA AlwaysCoh ==
  ASSUME Controllers = {}
  PROVE  Spec => []CohInv
<1>1. TypeInv /\ DirInv /\ CohInv /\ [Next]_vars => CohInv'
  <2>1. ASSUME CohInv, UNCHANGED vars PROVE CohInv'
    BY SMTT(30), ZenonT(40), <2>1
    DEF CohInv, HalvesAgree, BufferedExclusive, SharedEntry, Coherent, StoresKept, Duty, CacheOwner,
        SlotKept, Ready, Sharing, FlushSlot, Inserting, Merging, Upgrading, Missing, Downgrading,
        Writing, Tag, DowngradeTag, Buffered, Holds, Valid,
        vars, dcacheVars, wbVars, scacheVars, lockVars
  <2> QED BY <2>1, StepCoh DEF Next
<1>2. Spec => []DirInv
  BY AlwaysDir
<1> QED BY <1>1, <1>2, InitCoh, AlwaysTyped, PTL DEF Spec

\* A valid line holds every store that any processor made to it, in whatever order
\* misses, upgrades, downgrades, flushes and replacements of the processors interleave.
THEOREM LinesCoherent ==
  ASSUME Controllers = {}
  PROVE  Spec => []Coherent
<1>1. CohInv => Coherent
  BY DEF CohInv
<1>2. Spec => []CohInv
  BY AlwaysCoh
<1> QED BY <1>1, <1>2, PTL

\* No store is lost: one that RAM misses is in a line of some processor's write buffer.
THEOREM NoStoreLost ==
  ASSUME Controllers = {}
  PROVE  Spec => []StoresKept
<1>1. CohInv => StoresKept
  BY DEF CohInv
<1>2. Spec => []CohInv
  BY AlwaysCoh
<1> QED BY <1>1, <1>2, PTL

\* The two halves of a write buffer name each other, and a line in it is exclusive:
\* whoever invalidates or downgrades a line purges its entry (xraccess.inc.c:475).
THEOREM BufferConsistent ==
  ASSUME Controllers = {}
  PROVE  Spec => []WriteBufferExclusive
<1>1. CohInv => WriteBufferExclusive
  BY DEF CohInv, WriteBufferExclusive, HalvesAgree, BufferedExclusive, Buffered
<1>2. Spec => []CohInv
  BY AlwaysCoh
<1> QED BY <1>1, <1>2, PTL

-----------------------------------------------------------------------------
(* The countdown.  Nothing here needs the directory, or Controllers = {}.  *)

\* Entries of the write buffer of q are at most emptied, as another processor may do.
OnlyEmpties(q) == \A s \in Slots : WbIndices'[q][s] \in {WbIndices[q][s], NoLine}
\* The steps that may enter a line in the write buffer of p.
Inserts(p) == StoreMerge(p) \/ UpgradeDone(p) \/ FilledStore(p)

\* A forced write empties an entry.
LEMMA ForceEmpties ==
  ASSUME TypeInv, NEW q \in Procs, NEW l \in Lines, ForceWrite(q, l), NEW r \in Procs
  PROVE  OnlyEmpties(r)
<1>1. CASE DcIndexToWbIndex[q][l] = NoSlot
  BY <1>1 DEF ForceWrite, OnlyEmpties
<1>2. CASE DcIndexToWbIndex[q][l] # NoSlot
  <2>1. WbIndices' = [WbIndices EXCEPT ![q][DcIndexToWbIndex[q][l]] = NoLine]
    BY <1>2 DEF ForceWrite
  <2> QED BY <2>1 DEF TypeInv, StateOK, OnlyEmpties
<1> QED BY <1>1, <1>2

\* Only a store enters a line in a write buffer, its own processor's.
LEMMA BufferSteps ==
  ASSUME TypeInv, NEW p \in Procs, Start(p) \/ Continue(p), NEW q \in Procs,
         ~(q = p /\ Inserts(p))
  PROVE  OnlyEmpties(q)
<1>0. LocalsUsed(cpu[p]) /\ cpu[p] \in Locals
  BY DEF TypeInv, LocalsOK
<1>1. CASE UNCHANGED WbIndices
  BY <1>1 DEF OnlyEmpties
<1>2. CASE Inserts(p)
  BY <1>0, <1>2 DEF Inserts, StoreMerge, UpgradeDone, FilledStore, InsertWb, OnlyEmpties,
                    TypeInv, StateOK
<1>3. CASE DowngradeLine(p)
  <2>1. CASE cpu[p].vline = NoLine
    BY <1>1, <1>3, <2>1 DEF DowngradeLine
  <2>2. CASE cpu[p].vline # NoLine
    BY <1>0, <1>3, <2>2, ForceEmpties DEF DowngradeLine, At, LocalsUsed, Locals
  <2> QED BY <2>1, <2>2
<1>4. CASE Fill(p)
  <2>1. PICK l \in Lines : l = <<DcSet(Tag(p)), DcReplacementIndex[p]>>
    BY <1>0, <1>4, Indices DEF Fill, At, LocalsUsed, Tag, Lines, TypeInv, StateOK
  <2>2. ForceWrite(p, l) \/ UNCHANGED WbIndices
    BY <1>4, <2>1 DEF Fill
  <2> QED BY <1>1, <2>2, ForceEmpties
<1>5. CASE FlushWrite(p)
  BY <1>5 DEF FlushWrite, OnlyEmpties, TypeInv, StateOK
<1>6. UNCHANGED WbIndices \/ Inserts(p) \/ DowngradeLine(p) \/ Fill(p) \/ FlushWrite(p)
  BY DEF Start, Continue, StoreStep, Begin, Barrier, CheckConditions, CacheControl, Rfe,
         LoadLookup, LoadCopy, StoreLock, StoreFindsBufferFull, StoreLookup, StoreHitsBuffer,
         UpgradeLock, DowngradeLock, MissLock, SetScache, FillLock, FilledLoad, FlushNext, FlushLock,
         Invalidate, Inserts, wbVars
<1> QED BY <1>1, <1>2, <1>3, <1>4, <1>5, <1>6

\* The countdown of another processor goes on.
LEMMA OthersCounting ==
  ASSUME TypeInv, NEW p \in Procs, Start(p) \/ Continue(p), NEW q \in Procs, q # p, Counting(q)
  PROVE  Counting(q)'
<1>0. cpu \in [Procs -> Locals] /\ LocalsUsed(cpu[p])
  BY DEF TypeInv, LocalsOK
<1>1. cpu'[q] = cpu[q]
  BY <1>0 DEF Start, Continue, StoreStep, Begin, Barrier, CheckConditions, CacheControl, Rfe,
    LoadLookup, LoadCopy, ReturnFromLoad, StoreLock, StoreFindsBufferFull, StoreLookup,
    StoreHitsBuffer, StoreMerge, UpgradeLock, DowngradeLock, DowngradeLine, UpgradeDone, MissLock,
    SetScache, FillLock, Fill, FilledStore, FilledLoad, FlushNext, FlushLock, FlushWrite, Invalidate,
    Goto, Return, StartFlush
<1>2. WbCycles'[q] = WbCycles[q]
  <2>1. \/ UNCHANGED WbCycles
        \/ WbCycles' = [WbCycles EXCEPT ![p] = TRUE]
        \/ WbCycles' = [WbCycles EXCEPT ![p] = FALSE]
    BY DEF Start, Continue, StoreStep, Begin, Barrier, CheckConditions, CacheControl, Rfe,
      LoadLookup, LoadCopy, StoreLock, StoreFindsBufferFull, StoreLookup, StoreHitsBuffer,
      StoreMerge, UpgradeLock, DowngradeLock, DowngradeLine, UpgradeDone, MissLock, SetScache,
      FillLock, Fill, FilledStore, FilledLoad, FlushNext, FlushLock, FlushWrite, Invalidate,
      StartCountdown, wbVars
  <2> QED BY <2>1 DEF TypeInv, StateOK
<1>3. OnlyEmpties(q)
  BY BufferSteps
<1> QED BY <1>1, <1>2, <1>3 DEF Counting, OnlyEmpties, Inserting, Flushing, Upgrading, Missing,
           Downgrading, Writing

\* So does that of the processor itself: a flush starts over from entry 0 when it
\* stops the countdown, and goes past an entry only when that is empty.
LEMMA OwnCounting ==
  ASSUME TypeInv, NEW p \in Procs, Start(p) \/ Continue(p), Counting(p)
  PROVE  Counting(p)'
<1>0. /\ cpu \in [Procs -> Locals] /\ LocalsUsed(cpu[p]) /\ cpu[p].slot \in Nat
      /\ WbCycles \in [Procs -> BOOLEAN]
  BY SizeAssumption DEF TypeInv, StateOK, LocalsOK, Locals
<1>k. ASSUME OnlyEmpties(p), UNCHANGED WbCycles, ~Flushing(p), Inserting(p)' => Inserting(p)
      PROVE  Counting(p)'
  BY <1>k DEF Counting, OnlyEmpties
<1>f. ASSUME OnlyEmpties(p), cpu'[p].pc = "flush", cpu'[p].slot = 0
      PROVE  Counting(p)'
  <2>1. \A s \in Slots : 0 <= s
    BY DEF Slots
  <2> QED BY <1>f, <2>1 DEF Counting, Flushing, Inserting, Upgrading, Missing, Downgrading
<1>c. ASSUME WbCycles'[p]
      PROVE  Counting(p)'
  BY <1>c DEF Counting
<1>1. CASE Inserts(p)
  <2>1. Inserting(p) /\ UNCHANGED WbCycles
    BY <1>1 DEF Inserts, StoreMerge, UpgradeDone, FilledStore, Downgraded, At, Inserting,
                Upgrading, Downgrading
  <2> QED BY <1>c, <2>1 DEF Counting
<1>2. CASE StoreLookup(p)
  BY <1>0, <1>2, <1>c DEF StoreLookup, StartCountdown
<1>3. CASE Barrier(p) \/ CheckConditions(p) \/ CacheControl(p) \/ StoreFindsBufferFull(p)
  <2>1. cpu'[p].pc = "flush" /\ cpu'[p].slot = 0
    <3>1. CASE Barrier(p) \/ CheckConditions(p) \/ CacheControl(p)
      BY <1>0, <3>1 DEF Barrier, CheckConditions, CacheControl, StartFlush, Idle
    <3>2. CASE StoreFindsBufferFull(p)
      BY <1>0, <3>2 DEF StoreFindsBufferFull, Locals
    <3> QED BY <1>3, <3>1, <3>2
  <2>2. ~Inserts(p)
    BY <1>3 DEF Barrier, CheckConditions, CacheControl, StoreFindsBufferFull, Inserts, StoreMerge,
                UpgradeDone, FilledStore, Downgraded, At
  <2> QED BY <1>f, <2>1, <2>2, BufferSteps
<1>4. CASE \/ \E o \in Accesses, t \in Tags : Begin(p, o, t)
           \/ Rfe(p) \/ LoadLookup(p) \/ LoadCopy(p) \/ StoreLock(p) \/ StoreHitsBuffer(p)
           \/ UpgradeLock(p) \/ DowngradeLock(p) \/ DowngradeLine(p) \/ MissLock(p) \/ SetScache(p)
           \/ FillLock(p) \/ Fill(p) \/ FilledLoad(p) \/ Invalidate(p)
  <2>1. UNCHANGED WbCycles /\ ~Flushing(p) /\ ~Inserts(p)
    BY <1>4 DEF Begin, Rfe, LoadLookup, LoadCopy, StoreLock, StoreHitsBuffer, UpgradeLock,
      DowngradeLock, DowngradeLine, MissLock, SetScache, FillLock, Fill, FilledLoad, Invalidate,
      Inserts, StoreMerge, UpgradeDone, FilledStore, Downgraded, At, Flushing, wbVars
  <2>2. Inserting(p)' => Inserting(p)
    <3>1. CASE \/ \E o \in Accesses, t \in Tags : Begin(p, o, t)
               \/ Rfe(p) \/ LoadCopy(p) \/ StoreLock(p) \/ StoreHitsBuffer(p)
               \/ FilledLoad(p) \/ Invalidate(p)
      <4>1. cpu'[p].pc \in {"idle", "start", "scan"}
        <5>1. CASE \E o \in Accesses, t \in Tags : Begin(p, o, t)
          BY <1>0, <5>1 DEF Begin, Idle
        <5>2. CASE Rfe(p)
          BY <5>2 DEF Rfe, At
        <5>3. CASE StoreLock(p)
          BY <1>0, <5>3 DEF StoreLock, Goto, Locals
        <5>4. CASE LoadCopy(p) \/ StoreHitsBuffer(p) \/ FilledLoad(p) \/ Invalidate(p)
          BY <1>0, <5>4 DEF LoadCopy, ReturnFromLoad, StoreHitsBuffer, FilledLoad, Invalidate,
                            Return, Idle
        <5> QED BY <3>1, <5>1, <5>2, <5>3, <5>4
      <4> QED BY <4>1 DEF Inserting, Upgrading, Missing, Downgrading
    <3>2. CASE LoadLookup(p)
      <4>1. cpu'[p].pc \in {"miss", "copy"} /\ cpu'[p].op = cpu[p].op
        BY <1>0, <3>2 DEF LoadLookup, Locals
      <4> QED BY <3>2, <4>1 DEF LoadLookup, Inserting, Upgrading, Missing, Downgrading, Writing
    <3>3. CASE UpgradeLock(p)
      BY <3>3 DEF UpgradeLock, At, Inserting
    <3>4. CASE DowngradeLock(p) \/ DowngradeLine(p)
      <4>1. /\ cpu[p].pc \in {"downgrade", "downgrading"} /\ cpu'[p].pc \in {"downgrade", "downgrading"}
            /\ cpu'[p].ret = cpu[p].ret /\ cpu'[p].op = cpu[p].op
        <5>1. CASE DowngradeLock(p)
          <6>1. cpu[p].pc = "downgrade"
            BY <5>1 DEF DowngradeLock, At
          <6>2. \E q : cpu' = [cpu EXCEPT ![p].pc = "downgrading", ![p].victim = q,
                                ![p].vline = LineToDowngrade(p, q), ![p].todo = @ \ {q}]
            BY <5>1 DEF DowngradeLock
          <6> QED BY <1>0, <6>1, <6>2 DEF Locals
        <5>2. CASE DowngradeLine(p)
          BY <1>0, <5>2 DEF DowngradeLine, At, Locals
        <5> QED BY <3>4, <5>1, <5>2
      <4> QED BY <4>1 DEF Inserting, Upgrading, Missing, Downgrading, Writing
    <3>5. CASE MissLock(p) \/ SetScache(p) \/ FillLock(p)
      <4>1. /\ \/ cpu[p].pc = "miss" /\ cpu'[p].pc = "downgrade" /\ cpu'[p].ret = "miss"
               \/ /\ (cpu[p].pc = "downgrade" /\ cpu[p].ret = "miss") \/ cpu[p].pc = "fill"
                  /\ cpu'[p].pc \in {"fill", "filling"}
            /\ cpu'[p].op = cpu[p].op
        BY <1>0, <3>5 DEF MissLock, SetScache, FillLock, Downgraded, At, Goto, Locals
      <4> QED BY <4>1 DEF Inserting, Upgrading, Missing, Downgrading, Writing
    <3>6. CASE Fill(p)
      <4>1. cpu[p].pc = "filling"
        BY <3>6 DEF Fill, At
      <4>2. \/ cpu'[p].pc = "idle"
            \/ cpu'[p].pc = "filled" /\ cpu'[p].op = cpu[p].op
        <5>1. CASE Return(p)
          BY <1>0, <5>1 DEF Return, Idle
        <5>2. CASE ~Return(p)
          <6>1. \E l : cpu' = [cpu EXCEPT ![p].pc = "filled", ![p].line = l]
            BY <3>6, <5>2 DEF Fill
          <6> QED BY <1>0, <6>1 DEF Locals
        <5> QED BY <5>1, <5>2
      <4> QED BY <4>1, <4>2 DEF Inserting, Upgrading, Missing, Downgrading, Writing
    <3> QED BY <1>4, <3>1, <3>2, <3>3, <3>4, <3>5, <3>6
  <2> QED BY <1>k, <2>1, <2>2, BufferSteps
<1>5. CASE FlushNext(p)
  <2> DEFINE used == {s \in cpu[p].slot .. WbDepth - 1 : WbIndices[p][s] # NoLine}
  <2>1. UNCHANGED <<WbIndices, WbCycles>> /\ Flushing(p)
    BY <1>5 DEF FlushNext, At, Flushing, wbVars
  <2>2. CASE \E s \in used : /\ \A r \in used : s <= r
                             /\ cpu' = [cpu EXCEPT ![p].pc = "flushlock", ![p].slot = s,
                                                   ![p].line = WbIndices[p][s]]
    <3>1. PICK s \in used : /\ \A r \in used : s <= r
                            /\ cpu' = [cpu EXCEPT ![p].pc = "flushlock", ![p].slot = s,
                                                  ![p].line = WbIndices[p][s]]
      BY <2>2
    <3>2. cpu'[p].pc = "flushlock" /\ cpu'[p].slot = s
      BY <1>0, <3>1 DEF Locals
    <3>3. \A x \in Slots : WbIndices[p][x] # NoLine /\ cpu[p].slot <= x => s <= x
      BY <1>0, <3>1, SizeAssumption DEF Slots
    <3> QED BY <2>1, <3>2, <3>3 DEF Counting, Flushing, Inserting, Upgrading, Missing, Downgrading
  <2>3. CASE used = {}
    <3>1. \A x \in Slots : WbIndices[p][x] # NoLine => ~(cpu[p].slot <= x)
      BY <1>0, <2>3, SizeAssumption DEF Slots
    <3>2. cpu'[p].pc \in {"idle", "start", "invalidate"}
      <4>1. CASE Return(p)
        BY <1>0, <4>1 DEF Return, Idle
      <4>2. CASE ~Return(p)
        <5>1. /\ cpu[p].ret # "idle"
              /\ cpu' = [cpu EXCEPT ![p].pc = cpu[p].ret, ![p].slot = 0,
                                    ![p].line = NoLine, ![p].ret = "idle"]
          BY <1>5, <2>3, <4>2 DEF FlushNext
        <5>2. cpu[p].ret \in {"start", "invalidate"}
          BY <1>0, <2>1, <5>1 DEF LocalsUsed, Flushing
        <5> QED BY <1>0, <5>1, <5>2 DEF Locals
      <4> QED BY <4>1, <4>2
    <3> QED BY <2>1, <3>1, <3>2 DEF Counting, Inserting, Upgrading, Missing, Downgrading
  <2> QED BY <1>5, <2>2, <2>3 DEF FlushNext
<1>6. CASE FlushLock(p)
  <2>1. cpu'[p].pc = "flushing" /\ cpu'[p].slot = cpu[p].slot /\ Flushing(p)
        /\ UNCHANGED <<WbIndices, WbCycles>>
    BY <1>0, <1>6 DEF FlushLock, At, Goto, Locals, Flushing, wbVars
  <2> QED BY <2>1 DEF Counting, Flushing, Inserting, Upgrading, Missing, Downgrading
<1>7. CASE FlushWrite(p)
  <2>1. /\ cpu'[p].pc = "flush" /\ cpu'[p].slot = cpu[p].slot + 1
        /\ Flushing(p) /\ UNCHANGED WbCycles /\ cpu[p].slot \in Slots
    BY <1>0, <1>7 DEF FlushWrite, At, Locals, LocalsUsed, Flushing
  <2>2. \A x \in Slots :
          WbIndices'[p][x] # NoLine => WbIndices[p][x] # NoLine /\ x # cpu[p].slot
    BY <1>7, <2>1 DEF FlushWrite, TypeInv, StateOK
  <2>3. \A x \in Slots : x # cpu[p].slot /\ cpu[p].slot <= x => cpu[p].slot + 1 <= x
    BY <1>0, SizeAssumption DEF Slots
  <2> QED BY <2>1, <2>2, <2>3 DEF Counting, Flushing, Inserting, Upgrading, Missing, Downgrading
<1> QED BY <1>1, <1>2, <1>3, <1>4, <1>5, <1>6, <1>7 DEF Start, Continue, StoreStep, Inserts

\* A processor between accesses that has stores in its write buffer has the countdown
\* running that makes XrCheckConditions write them out.
THEOREM BufferIsDrained == Spec => []BufferDrains
<1>1. Init => Countdown
  <2> SUFFICES ASSUME Init, NEW p \in Procs PROVE Counting(p)
    BY DEF Countdown
  <2>1. cpu[p].pc = "idle" /\ \A s \in Slots : WbIndices[p][s] = NoLine
    BY DEF Init, Idle
  <2> QED BY <2>1 DEF Counting, Inserting, Upgrading, Missing, Downgrading
<1>2. TypeInv /\ Countdown /\ [Next]_vars => Countdown'
  <2>1. ASSUME Countdown, UNCHANGED vars PROVE Countdown'
    BY <2>1 DEF Countdown, Counting, Inserting, Flushing, Upgrading, Missing, Downgrading, Writing,
                vars, wbVars
  <2> QED BY <2>1, OthersCounting, OwnCounting DEF Next, Countdown
<1>3. Countdown => BufferDrains
  BY DEF Countdown, Counting, BufferDrains, FreeSlots, Flushing, At
<1> QED BY <1>1, <1>2, <1>3, AlwaysTyped, PTL DEF Spec
-----------------------------------------------------------------------------
(* DcacheHistory: loads, LL and SC.                                        *)

\* A load is copying line data out, under the Dcache stripe or not.
Copying(p) == At(p, "copy") \/ (At(p, "filled") /\ ~Writing(p))

OvertakenOK == overtaken \in [Procs -> SUBSET Tags]

Reading ==
  \A p \in Procs :
    /\ At(p, "copy") => ~Writing(p)
    /\ Copying(p) => DcTags[p][cpu[p].line] = Tag(p)

\* A processor that is neither idle nor flushing for itself is in an access.
InAccess ==
  \A p \in Procs : cpu[p].op = "none" =>
    /\ cpu[p].pc \in {"idle", "flush", "flushlock", "flushing", "invalidate"}
    /\ cpu[p].ret # "start"

ScPresent ==
  \A p \in Procs : cpu[p].op = "sc" => ~Missing(p) /\ cpu[p].pc # "filled"

ObservedLines ==
  \A p \in Procs, l \in Lines :
    Valid(p, l) /\ DcTags[p][l] \in overtaken[p] =>
      cpu[p].pc = "filled" /\ cpu[p].op = "store" /\ DcTags[p][l] = Tag(p)

\* What is known of the caches.
Inv == TypeInv /\ DirInv /\ CohInv
-----------------------------------------------------------------------------
\* A step with its history is a step of Dcache.
LEMMA HistorySteps ==
  ASSUME NEW p \in Procs
  PROVE  /\ HStore(p) => Continue(p)
         /\ HOther(p) => Start(p) \/ Continue(p)
BY DEF HStore, HOther, Continue

\* So the caches are as coherent with the history as without it.
LEMMA HistoryCoh ==
  ASSUME Controllers = {}
  PROVE  HSpec => []Inv
<1>1. HInit => Init
  BY DEF HInit
<1>2. [HNext]_hvars => [Next]_vars
  BY HistorySteps DEF HNext, Next, hvars
<1>3. HSpec => Spec
  BY <1>1, <1>2, PTL DEF HSpec, Spec
<1> QED BY <1>3, AlwaysTyped, AlwaysDir, AlwaysCoh, PTL DEF Inv

\* A line that a processor stores to is exclusive when the store is done, and was
\* valid before.
LEMMA StoredLine ==
  ASSUME Inv, NEW q \in Procs, StoreStep(q)
  PROVE  /\ Tag(q) \in Tags
         /\ UNCHANGED DcTags
         /\ \E l \in Lines :
              /\ Merge(q, l)
              /\ DcTags[q][l] = Tag(q) /\ Valid(q, l) /\ DcFlags'[q][l] = EXCLUSIVE
              /\ \A x \in Procs, k \in Lines : ~(x = q /\ k = l) => DcFlags'[x][k] = DcFlags[x][k]
<1>0. cpu[q] \in Locals /\ LocalsUsed(cpu[q])
  BY DEF Inv, TypeInv, LocalsOK
<1>1. CASE StoreHitsBuffer(q)
  <2>1. PICK s \in SlotsOf(q, Tag(q)) : Merge(q, WbIndices[q][s])
    BY <1>1 DEF StoreHitsBuffer
  <2>2. s \in Slots /\ WbIndices[q][s] # NoLine /\ DcTags[q][WbIndices[q][s]] = Tag(q)
    BY DEF SlotsOf
  <2>3. PICK l \in Lines : l = WbIndices[q][s]
    BY <2>2 DEF Inv, TypeInv, StateOK
  <2>4. DcIndexToWbIndex[q][l] = s
    BY <2>2, <2>3 DEF Inv, CohInv, HalvesAgree
  <2>5. DcFlags[q][l] = EXCLUSIVE
    BY <2>2, <2>4, Sizes DEF Inv, CohInv, BufferedExclusive, Buffered
  <2>6. Tag(q) \in Tags
    BY <1>0, <1>1 DEF StoreHitsBuffer, At, LocalsUsed, Tag
  <2>7. UNCHANGED <<DcTags, DcFlags>>
    BY <1>1 DEF StoreHitsBuffer
  <2> QED BY <2>1, <2>2, <2>3, <2>5, <2>6, <2>7 DEF Valid, EXCLUSIVE, INVALID
<1>2. CASE StoreMerge(q) \/ FilledStore(q)
  <2>1. PICK l \in Lines : l = cpu[q].line
    BY <1>0, <1>2 DEF StoreMerge, FilledStore, At, LocalsUsed
  <2>2. DcFlags[q][l] = EXCLUSIVE /\ DcTags[q][l] = Tag(q)
    BY <1>2, <2>1 DEF Inv, CohInv, Duty, Ready, Merging, StoreMerge, FilledStore, At
  <2>3. Tag(q) \in Tags
    BY <1>0, <1>2 DEF StoreMerge, FilledStore, At, LocalsUsed, Tag
  <2>4. Merge(q, l) /\ UNCHANGED <<DcTags, DcFlags>>
    BY <1>2, <2>1 DEF StoreMerge, FilledStore
  <2> QED BY <2>2, <2>3, <2>4 DEF Valid, EXCLUSIVE, INVALID
<1>3. CASE UpgradeDone(q)
  <2>1. cpu[q].pc = "downgrade" /\ cpu[q].ret = "upgrade" /\ Upgrading(q)
    BY <1>3 DEF UpgradeDone, Downgraded, At, Upgrading, Downgrading
  <2>2. PICK l \in Lines : l = cpu[q].line
    BY <1>0, <2>1 DEF LocalsUsed
  <2>3. DcTags[q][l] = Tag(q)
    BY <2>1, <2>2 DEF Inv, DirInv, Phase, LineKept
  <2>4. DcFlags[q][l] = SHARED
    BY <2>1, <2>2 DEF Inv, CohInv, Duty, Sharing
  <2>5. Tag(q) \in Tags
    BY <1>0, <2>1 DEF LocalsUsed, Tag
  <2>6. Merge(q, l) /\ UNCHANGED DcTags
    BY <1>3, <2>2 DEF UpgradeDone
  <2>7. DcFlags' = [DcFlags EXCEPT ![q][l] = EXCLUSIVE]
    BY <1>3, <2>2 DEF UpgradeDone
  <2>8. \A x \in Procs, k \in Lines :
          DcFlags'[x][k] = IF x = q /\ k = l THEN EXCLUSIVE ELSE DcFlags[x][k]
    BY <2>7 DEF Inv, TypeInv, StateOK
  <2> QED BY <2>3, <2>4, <2>5, <2>6, <2>8 DEF Valid, SHARED, INVALID
<1> QED BY <1>1, <1>2, <1>3 DEF StoreStep

\* What a step other than a store may change in lines: those of the processor that
\* fills.  Lines become valid by a fill only.
LEMMA OtherLines ==
  ASSUME Inv, Controllers = {}, NEW q \in Procs, HOther(q)
  PROVE  /\ \A p \in Procs, l \in Lines :
              ~(Fill(q) /\ p = q /\ l = <<DcSet(Tag(q)), DcReplacementIndex[q]>>) =>
                /\ DcTags'[p][l] = DcTags[p][l] /\ Dc'[p][l] = Dc[p][l]
                /\ Valid(p, l)' => Valid(p, l)
         /\ \A p \in Procs \ {q} : cpu'[p] = cpu[p]
<1>0. ~Invalidate(q)
  BY DEF Inv, DirInv, NoControl, Invalidate, At
<1>c. cpu \in [Procs -> Locals] /\ cpu[q] \in Locals /\ LocalsUsed(cpu[q])
  BY DEF Inv, TypeInv, LocalsOK
<1>f. /\ DcFlags \in [Procs -> [Lines -> LineStates]]
      /\ DcTags \in [Procs -> [Lines -> Tags \cup {NoTag}]]
      /\ Dc \in [Procs -> [Lines -> Data]]
  BY DEF Inv, TypeInv, StateOK
<1>1. CASE DowngradeLine(q)
  <2>1. UNCHANGED <<DcTags, Dc>> /\ \A p \in Procs \ {q} : cpu'[p] = cpu[p]
    BY <1>1, <1>c DEF DowngradeLine, dcacheVars
  <2>2. ~Fill(q)
    BY <1>1 DEF DowngradeLine, Fill, At
  <2>3. ASSUME NEW p \in Procs, NEW l \in Lines, Valid(p, l)' PROVE Valid(p, l)
    <3>1. CASE cpu[q].vline = NoLine
      BY <1>1, <2>3, <3>1 DEF DowngradeLine, Valid
    <3>2. CASE cpu[q].vline # NoLine
      <4>1. DcFlags' = [DcFlags EXCEPT ![cpu[q].victim][cpu[q].vline] = DowngradeState(q)]
        BY <1>1, <3>2 DEF DowngradeLine
      <4>2. Holds(cpu[q].victim, cpu[q].vline, DowngradeTag(q))
        BY <1>1, <3>2 DEF Inv, DirInv, Phase, Found, DowngradeLine, At
      <4> QED BY <1>f, <2>3, <4>1, <4>2 DEF Holds, Valid
    <3> QED BY <3>1, <3>2
  <2> QED BY <2>1, <2>2, <2>3
<1>2. CASE Fill(q)
  <2> DEFINE l0 == <<DcSet(Tag(q)), DcReplacementIndex[q]>>
  <2>1. /\ DcTags' = [DcTags EXCEPT ![q][l0] = Tag(q)]
        /\ \E f : DcFlags' = [DcFlags EXCEPT ![q][l0] = f]
        /\ \E d : Dc' = [Dc EXCEPT ![q][l0] = d]
    BY <1>2 DEF Fill
  <2>2. \A p \in Procs \ {q} : cpu'[p] = cpu[p]
    BY <1>2, <1>c DEF Fill, Return
  <2>3. ASSUME NEW p \in Procs, NEW l \in Lines, ~(p = q /\ l = l0)
        PROVE  DcTags'[p][l] = DcTags[p][l] /\ Dc'[p][l] = Dc[p][l]
               /\ (Valid(p, l)' => Valid(p, l))
    <3> HIDE DEF l0
    <3> QED BY <1>f, <2>1, <2>3 DEF Valid
  <2> QED BY <2>2, <2>3, <1>2
<1>3. CASE ~DowngradeLine(q) /\ ~Fill(q)
  <2>1. UNCHANGED <<DcFlags, DcTags, Dc>>
    BY <1>0, <1>3 DEF HOther, Start, Begin, Barrier, CheckConditions, CacheControl, Rfe,
      LoadLookup, LoadCopy, StoreLock, StoreFindsBufferFull, StoreLookup, UpgradeLock,
      DowngradeLock, MissLock, SetScache, FillLock, FilledLoad, FlushNext, FlushLock,
      FlushWrite, dcacheVars
  <2>2. \A p \in Procs \ {q} : cpu'[p] = cpu[p]
    BY <1>0, <1>c, <1>3 DEF HOther, Start, Begin, Barrier, CheckConditions, CacheControl, Rfe,
      LoadLookup, LoadCopy, StoreLock, StoreFindsBufferFull, StoreLookup, UpgradeLock,
      DowngradeLock, MissLock, SetScache, FillLock, FilledLoad, FlushNext, FlushLock,
      FlushWrite, StartFlush, Goto, Return, ReturnFromLoad
  <2> QED BY <1>3, <2>1, <2>2 DEF Valid
<1> QED BY <1>1, <1>2, <1>3

\* A step other than a store removes the tag that it observes from its processor's.
LEMMA OtherHistory ==
  ASSUME OvertakenOK, NEW q \in Procs, HOther(q)
  PROVE  /\ \A p \in Procs \ {q} : overtaken'[p] = overtaken[p]
         /\ overtaken'[q] = IF Observes(q) THEN overtaken[q] \ {Tag(q)} ELSE overtaken[q]
BY DEF HOther, OvertakenOK

\* A store adds its tag to what the other processors have overtaken.
LEMMA StoreHistory ==
  ASSUME OvertakenOK, NEW q \in Procs, HStore(q)
  PROVE  /\ \A p \in Procs \ {q} : overtaken'[p] = overtaken[p] \cup {Tag(q)}
         /\ overtaken'[q] = IF cpu[q].op \in Observing THEN overtaken[q] \ {Tag(q)}
                            ELSE overtaken[q]
BY DEF HStore, OvertakenOK

\* When its store is done the processor is between accesses.
LEMMA StoreReturns ==
  ASSUME TypeInv, NEW q \in Procs, StoreStep(q)
  PROVE  /\ cpu'[q] = Idle
         /\ \A p \in Procs \ {q} : cpu'[p] = cpu[p]
<1>1. cpu \in [Procs -> Locals]
  BY DEF TypeInv, LocalsOK
<1>2. cpu' = [cpu EXCEPT ![q] = Idle]
  BY DEF StoreStep, StoreHitsBuffer, StoreMerge, UpgradeDone, FilledStore, Return
<1> QED BY <1>1, <1>2

\* Where the steps other than stores go: to the directory and the fill by way of a miss
\* or an upgrade, with the access unchanged, and an SC not to a miss.
LEMMA Labels ==
  ASSUME Inv, NEW q \in Procs
  PROVE  /\ Start(q) => cpu'[q].pc \in {"idle", "start", "flush"}
         /\ LoadCopy(q) \/ FilledLoad(q) \/ Invalidate(q) => cpu'[q] = Idle
         /\ FlushNext(q) => cpu'[q].pc \in {"flushlock", "idle", "start", "invalidate"}
         /\ StoreFindsBufferFull(q) \/ FlushLock(q) \/ FlushWrite(q) =>
              cpu'[q].pc \in {"flush", "flushing"} /\ cpu'[q].op = cpu[q].op
         /\ StoreLock(q) \/ SetScache(q) \/ FillLock(q) =>
              cpu'[q].pc \in {"scan", "fill", "filling"} /\ cpu'[q].op = cpu[q].op
         /\ LoadLookup(q) => cpu'[q].pc \in {"copy", "miss"} /\ cpu'[q].op = cpu[q].op
         /\ StoreLookup(q) =>
              \/ cpu'[q] = Idle
              \/ /\ cpu'[q].pc \in {"merge", "upgrade", "miss"} /\ cpu'[q].op = cpu[q].op
                 /\ cpu'[q].pc = "miss" => cpu[q].op # "sc"
         /\ DowngradeLock(q) \/ DowngradeLine(q) \/ MissLock(q) =>
              cpu'[q].pc \in {"downgrade", "downgrading"} /\ cpu'[q].op = cpu[q].op
         /\ DowngradeLock(q) \/ DowngradeLine(q) => cpu'[q].ret = cpu[q].ret
         /\ UpgradeLock(q) =>
              \/ cpu'[q].pc \in {"abort", "start"}
              \/ cpu'[q].pc = "downgrade" /\ cpu'[q].ret = "upgrade"
         /\ UpgradeLock(q) => cpu'[q].op = cpu[q].op
         /\ Fill(q) =>
              cpu'[q] = Idle \/ (cpu'[q].pc = "filled" /\ cpu'[q].op = cpu[q].op)
<1>0. cpu \in [Procs -> Locals] /\ LocalsUsed(cpu[q])
  BY DEF Inv, TypeInv, LocalsOK
<1>1. ASSUME Start(q) PROVE cpu'[q].pc \in {"idle", "start", "flush"}
  <2>1. ASSUME NEW o \in Accesses, NEW t \in Tags, Begin(q, o, t) PROVE cpu'[q].pc = "start"
    BY <1>0, <2>1 DEF Begin, Idle
  <2>2. ASSUME Barrier(q) \/ CheckConditions(q) \/ CacheControl(q) PROVE cpu'[q].pc = "flush"
    BY <1>0, <2>2 DEF Barrier, CheckConditions, CacheControl, StartFlush, Idle
  <2>3. ASSUME Rfe(q) PROVE cpu'[q].pc = "idle"
    BY <2>3 DEF Rfe, At
  <2> QED BY <1>1, <2>1, <2>2, <2>3 DEF Start
<1>2. ASSUME LoadCopy(q) \/ FilledLoad(q) \/ Invalidate(q) PROVE cpu'[q] = Idle
  BY <1>0, <1>2 DEF LoadCopy, FilledLoad, Invalidate, ReturnFromLoad, Return
<1>3. ASSUME FlushNext(q)
      PROVE  cpu'[q].pc \in {"flushlock", "idle", "start", "invalidate"}
  <2>1. cpu[q].pc = "flush"
    BY <1>3 DEF FlushNext, At
  <2>2. cpu[q].ret \in {"idle", "start", "invalidate"}
    BY <1>0, <2>1 DEF LocalsUsed
  <2>3. \/ \E s : cpu' = [cpu EXCEPT ![q].pc = "flushlock", ![q].slot = s,
                                    ![q].line = WbIndices[q][s]]
        \/ cpu' = [cpu EXCEPT ![q] = Idle]
        \/ cpu' = [cpu EXCEPT ![q].pc = cpu[q].ret, ![q].slot = 0,
                             ![q].line = NoLine, ![q].ret = "idle"]
    BY <1>3 DEF FlushNext, Return
  <2>4. ASSUME NEW s, cpu' = [cpu EXCEPT ![q].pc = "flushlock", ![q].slot = s,
                                       ![q].line = WbIndices[q][s]]
        PROVE  cpu'[q].pc = "flushlock"
    BY <1>0, <2>4 DEF Locals
  <2>5. ASSUME cpu' = [cpu EXCEPT ![q] = Idle] PROVE cpu'[q].pc = "idle"
    BY <1>0, <2>5 DEF Idle
  <2>6. ASSUME cpu' = [cpu EXCEPT ![q].pc = cpu[q].ret, ![q].slot = 0,
                                ![q].line = NoLine, ![q].ret = "idle"]
        PROVE  cpu'[q].pc = cpu[q].ret
    BY <1>0, <2>6 DEF Locals
  <2> QED BY <2>2, <2>3, <2>4, <2>5, <2>6
<1>4. ASSUME StoreFindsBufferFull(q) \/ FlushLock(q) \/ FlushWrite(q)
      PROVE  cpu'[q].pc \in {"flush", "flushing"} /\ cpu'[q].op = cpu[q].op
  BY <1>0, <1>4 DEF Locals, StoreFindsBufferFull, FlushLock, FlushWrite, Goto
<1>5. ASSUME StoreLock(q) \/ SetScache(q) \/ FillLock(q)
      PROVE  cpu'[q].pc \in {"scan", "fill", "filling"} /\ cpu'[q].op = cpu[q].op
  BY <1>0, <1>5 DEF Locals, StoreLock, SetScache, FillLock, Goto
<1>6. ASSUME LoadLookup(q)
      PROVE  cpu'[q].pc \in {"copy", "miss"} /\ cpu'[q].op = cpu[q].op
  BY <1>0, <1>6 DEF Locals, LoadLookup
<1>7. ASSUME StoreLookup(q)
      PROVE  \/ cpu'[q] = Idle
             \/ /\ cpu'[q].pc \in {"merge", "upgrade", "miss"} /\ cpu'[q].op = cpu[q].op
                /\ cpu'[q].pc = "miss" => cpu[q].op # "sc"
  <2>1. \/ Return(q)
        \/ \E label \in {"merge", "miss", "upgrade"} : \E l, s :
             /\ label = "miss" => cpu[q].op # "sc"
             /\ cpu' = [cpu EXCEPT ![q].pc = label, ![q].line = l, ![q].slot = s]
    BY <1>7, Zenon DEF StoreLookup
  <2>2. ASSUME NEW label \in {"merge", "miss", "upgrade"}, NEW l, NEW s,
               cpu' = [cpu EXCEPT ![q].pc = label, ![q].line = l, ![q].slot = s]
        PROVE  cpu'[q].pc = label /\ cpu'[q].op = cpu[q].op
    BY <1>0, <2>2 DEF Locals
  <2>3. ASSUME Return(q) PROVE cpu'[q] = Idle
    BY <1>0, <2>3 DEF Return
  <2>4. CASE Return(q)
    BY <2>3, <2>4
  <2>5. ASSUME NEW label \in {"merge", "miss", "upgrade"}, NEW l, NEW s,
               label = "miss" => cpu[q].op # "sc",
               cpu' = [cpu EXCEPT ![q].pc = label, ![q].line = l, ![q].slot = s]
        PROVE  /\ cpu'[q].pc \in {"merge", "upgrade", "miss"} /\ cpu'[q].op = cpu[q].op
               /\ cpu'[q].pc = "miss" => cpu[q].op # "sc"
    BY <2>2, <2>5
  <2> QED BY <2>1, <2>4, <2>5
<1>8. ASSUME DowngradeLock(q) \/ DowngradeLine(q)
      PROVE  /\ cpu'[q].pc \in {"downgrade", "downgrading"}
             /\ cpu'[q].op = cpu[q].op /\ cpu'[q].ret = cpu[q].ret
  <2>1. CASE DowngradeLock(q)
    <3>1. PICK x \in cpu[q].todo :
            cpu' = [cpu EXCEPT ![q].pc = "downgrading", ![q].victim = x,
                               ![q].vline = LineToDowngrade(q, x), ![q].todo = @ \ {x}]
      BY <2>1 DEF DowngradeLock
    <3> QED BY <1>0, <3>1 DEF Locals
  <2>2. CASE DowngradeLine(q)
    BY <1>0, <2>2 DEF Locals, DowngradeLine
  <2> QED BY <1>8, <2>1, <2>2
<1>9. ASSUME MissLock(q) PROVE cpu'[q].pc = "downgrade" /\ cpu'[q].op = cpu[q].op
  BY <1>0, <1>9 DEF Locals, MissLock
<1>10. ASSUME UpgradeLock(q)
       PROVE  /\ \/ cpu'[q].pc \in {"abort", "start"}
                 \/ cpu'[q].pc = "downgrade" /\ cpu'[q].ret = "upgrade"
              /\ cpu'[q].op = cpu[q].op
  BY <1>0, <1>10 DEF Locals, UpgradeLock
<1>11. ASSUME Fill(q)
       PROVE  cpu'[q] = Idle \/ (cpu'[q].pc = "filled" /\ cpu'[q].op = cpu[q].op)
  <2>1. Return(q) \/ \E l : cpu' = [cpu EXCEPT ![q].pc = "filled", ![q].line = l]
    BY <1>11 DEF Fill
  <2> QED BY <1>0, <2>1 DEF Locals, Return
<1> QED BY <1>1, <1>2, <1>3, <1>4, <1>5, <1>6, <1>7, <1>8, <1>9, <1>10, <1>11

-----------------------------------------------------------------------------
(* Loads.                                                                  *)

\* Only lines that exist are overtaken.
LEMMA OvertakenTyped ==
  ASSUME Inv, OvertakenOK, NEW q \in Procs, HStore(q) \/ HOther(q)
  PROVE  OvertakenOK'
<1>1. CASE HStore(q)
  <2>1. Tag(q) \in Tags
    BY <1>1, StoredLine DEF HStore
  <2> QED BY <1>1, <2>1 DEF HStore, OvertakenOK
<1>2. CASE HOther(q)
  <2>1. overtaken' = overtaken \/ overtaken' = [overtaken EXCEPT ![q] = @ \ {Tag(q)}]
    BY <1>2 DEF HOther
  <2> QED BY <2>1 DEF OvertakenOK
<1> QED BY <1>1, <1>2

\* A line that a load is copying is not touched by the others, unless they store to it.
LEMMA OthersReading ==
  ASSUME Controllers = {}, Inv, OvertakenOK, Reading, LoadFresh,
         NEW q \in Procs, HStore(q) \/ HOther(q), NEW p \in Procs, p # q, Copying(p)'
  PROVE  /\ cpu[p].pc = "copy" => ~Writing(p)
         /\ DcTags'[p][cpu'[p].line] = Tag(p)'
         /\ cpu'[p] = cpu[p]
         /\ Tag(p) \notin overtaken'[p] => Dc'[p][cpu'[p].line] = "new"
<1>1. cpu'[p] = cpu[p]
  BY StoreReturns, OtherLines DEF HStore, Inv
<1>2. Copying(p)
  BY <1>1 DEF Copying, At, Writing
<1>3. DcTags[p][cpu[p].line] = Tag(p) /\ (cpu[p].pc = "copy" => ~Writing(p))
  BY <1>2 DEF Reading, At
<1>4. cpu[p].line \in Lines
  BY <1>2 DEF Inv, TypeInv, LocalsOK, LocalsUsed, Copying, At
<1>5. PICK l \in Lines : l = cpu[p].line
  BY <1>4
<1>6. Tag(p) \notin overtaken[p] => Dc[p][l] = "new"
  BY <1>2, <1>5 DEF LoadFresh, Copying
<1>7. CASE HStore(q)
  <2>1. DcTags' = DcTags
    BY <1>7, StoredLine DEF HStore
  <2>2. PICK k \in Lines : Merge(q, k)
    BY <1>7, StoredLine DEF HStore
  <2>3. Dc'[p][l] = IF DcTags[p][l] = Tag(q) THEN "old" ELSE Dc[p][l]
    BY <2>2, Merged DEF Inv
  <2>4. overtaken'[p] = overtaken[p] \cup {Tag(q)}
    BY <1>7, StoreHistory
  <2> QED BY <1>1, <1>3, <1>5, <1>6, <2>1, <2>3, <2>4 DEF Tag
<1>8. CASE HOther(q)
  <2>1. DcTags'[p][l] = DcTags[p][l] /\ Dc'[p][l] = Dc[p][l]
    BY <1>8, OtherLines
  <2>2. overtaken'[p] = overtaken[p]
    BY <1>8, OtherHistory
  <2> QED BY <1>1, <1>3, <1>5, <1>6, <2>1, <2>2 DEF Tag
<1> QED BY <1>7, <1>8

\* The step that begins to copy: the line found is valid, or was read from a RAM that
\* misses nothing.
LEMMA BeginsReading ==
  ASSUME Controllers = {}, Inv, NEW q \in Procs, HStore(q) \/ HOther(q), Copying(q)'
  PROVE  /\ cpu'[q].pc = "copy" => ~Writing(q)'
         /\ DcTags'[q][cpu'[q].line] = Tag(q)'
         /\ Dc'[q][cpu'[q].line] = "new"
<1>0. cpu \in [Procs -> Locals] /\ LocalsUsed(cpu[q])
  BY DEF Inv, TypeInv, LocalsOK
<1>1. ~HStore(q)
  BY StoreReturns DEF HStore, Inv, Copying, At, Idle
<1>2. CASE LoadLookup(q)
  <2>1. cpu[q].tag \in Tags /\ Tag(q) \in Tags /\ ~Writing(q)
    BY <1>0, <1>2 DEF LoadLookup, At, LocalsUsed, Tag
  <2>2. PICK l : l = Hit(q, Tag(q))
    OBVIOUS
  <2>3. cpu' = [cpu EXCEPT ![q].pc = IF l = NoLine THEN "miss" ELSE "copy", ![q].line = l]
    BY <1>2, <2>2 DEF LoadLookup
  <2>4. l # NoLine
    BY <1>0, <2>3 DEF Copying, At
  <2>5. l \in LinesOf(Tag(q)) /\ Valid(q, l) /\ DcTags[q][l] = Tag(q)
    <3> DEFINE S == {k \in LinesOf(Tag(q)) : Valid(q, k) /\ DcTags[q][k] = Tag(q)}
    <3>1. S \subseteq Lines
      BY DEF LinesOf
    <3>2. l = First(S)
      BY <2>2 DEF Hit
    <3> HIDE DEF S
    <3>3. First(S) \in S
      BY <2>4, <3>1, <3>2, FirstLine
    <3> QED BY <3>2, <3>3 DEF S
  <2>6. Dc[q][l] = "new"
    BY <2>5 DEF Inv, CohInv, Coherent, LinesOf
  <2>7. cpu'[q].line = l /\ Tag(q)' = Tag(q) /\ (Writing(q)' <=> Writing(q))
    BY <1>0, <2>3 DEF Tag, Writing
  <2>8. UNCHANGED <<DcTags, Dc>>
    BY <1>2 DEF LoadLookup, dcacheVars
  <2> QED BY <2>1, <2>5, <2>6, <2>7, <2>8
<1>3. CASE Fill(q)
  <2>1. cpu[q].pc = "filling" /\ Tag(q) \in Tags
    BY <1>0, <1>3 DEF Fill, At, LocalsUsed, Tag
  <2>2. Tag(q) \notin BadTags
    BY <1>0, <1>3 DEF Fill, Return, Copying, At, Idle
  <2>3. PICK l : l = <<DcSet(Tag(q)), DcReplacementIndex[q]>>
    OBVIOUS
  <2>4. l \in Lines
    BY <2>1, <2>3, Indices DEF Inv, TypeInv, StateOK, Lines
  <2>5. /\ cpu' = [cpu EXCEPT ![q].pc = "filled", ![q].line = l]
        /\ DcTags' = [DcTags EXCEPT ![q][l] = Tag(q)]
        /\ Dc' = [Dc EXCEPT ![q][l] = Ram[Tag(q)]]
    BY <1>3, <2>2, <2>3 DEF Fill
  <2>6. Ram[Tag(q)] = "new"
    BY <2>1, RamIsNew DEF Inv
  <2>7. cpu'[q].line = l /\ Tag(q)' = Tag(q) /\ cpu'[q].pc = "filled"
    BY <1>0, <2>5 DEF Tag
  <2>8. DcTags'[q][l] = Tag(q) /\ Dc'[q][l] = "new"
    BY <2>4, <2>5, <2>6 DEF Inv, TypeInv, StateOK
  <2> QED BY <2>7, <2>8
<1>4. CASE HOther(q) /\ ~LoadLookup(q) /\ ~Fill(q)
  BY <1>4, Labels DEF HOther, Copying, At, Idle
<1> QED BY <1>1, <1>2, <1>3, <1>4

\* Every step keeps what is known of the lines that loads copy.
LEMMA ReadStep ==
  ASSUME Controllers = {}, Inv, OvertakenOK, Reading, LoadFresh,
         NEW q \in Procs, HStore(q) \/ HOther(q)
  PROVE  Reading' /\ LoadFresh'
<1>1. ASSUME NEW p \in Procs, Copying(p)'
      PROVE  /\ cpu'[p].pc = "copy" => ~Writing(p)'
             /\ DcTags'[p][cpu'[p].line] = Tag(p)'
             /\ Tag(p)' \notin overtaken'[p] => Dc'[p][cpu'[p].line] = "new"
  <2>1. CASE p = q
    BY <1>1, <2>1, BeginsReading
  <2>2. CASE p # q
    BY <1>1, <2>2, OthersReading DEF Writing, Tag
  <2> QED BY <2>1, <2>2
<1>2. Reading'
  BY <1>1 DEF Reading, Copying, At
<1>3. LoadFresh'
  BY <1>1 DEF LoadFresh, Copying, At
<1> QED BY <1>2, <1>3

\* What a load copies out of a line, with no lock or after a fill, misses no store but
\* those that others make while it copies.
THEOREM LoadIsFresh ==
  ASSUME Controllers = {}
  PROVE  HSpec => []LoadFresh
<1> DEFINE I == OvertakenOK /\ Reading /\ LoadFresh
<1>1. HInit => I
  BY DEF HInit, Init, OvertakenOK, Reading, LoadFresh, Copying, At, Idle
<1>2. I /\ Inv /\ [HNext]_hvars => I'
  <2> SUFFICES ASSUME I, Inv, [HNext]_hvars PROVE I'
    OBVIOUS
  <2>1. CASE UNCHANGED hvars
    BY <2>1 DEF hvars, vars, dcacheVars, OvertakenOK, Reading, LoadFresh, Copying, At,
      Writing, Tag
  <2>2. CASE HNext
    BY <2>2, OvertakenTyped, ReadStep DEF HNext
  <2> QED BY <2>1, <2>2
<1>3. I => LoadFresh
  OBVIOUS
<1> HIDE DEF I
<1> QED BY <1>1, <1>2, <1>3, HistoryCoh, PTL DEF HSpec

-----------------------------------------------------------------------------
(* SC.                                                                     *)

\* An SC whose line is not present fails (StoreLookup): it neither misses nor fills.
LEMMA ScStep ==
  ASSUME Inv, Controllers = {}, ScPresent, NEW q \in Procs, HStore(q) \/ HOther(q)
  PROVE  ScPresent'
<1> DEFINE Sound(p) == cpu[p].op = "sc" => ~Missing(p) /\ cpu[p].pc # "filled"
<1>1. ASSUME NEW p \in Procs, p # q PROVE Sound(p)'
  <2>1. cpu'[p] = cpu[p]
    BY <1>1, StoreReturns, OtherLines DEF HStore, Inv
  <2> QED BY <2>1 DEF ScPresent, Missing, Downgrading
<1>2. Sound(q)
  BY DEF ScPresent
<1>3. Sound(q)'
  <2>1. CASE HStore(q)
    BY <2>1, StoreReturns DEF HStore, Inv, Idle, Missing, Downgrading
  <2>2. CASE LoadLookup(q)
    BY <2>2, Labels DEF LoadLookup, Writing
  <2>3. CASE MissLock(q) \/ SetScache(q) \/ FillLock(q) \/ Fill(q)
    <3>1. cpu[q].op # "sc"
      BY <1>2, <2>3 DEF MissLock, SetScache, FillLock, Fill, Downgraded, At, Missing, Downgrading
    <3> QED BY <2>3, <3>1, Labels DEF Missing, Downgrading, Idle
  <2>4. CASE DowngradeLock(q) \/ DowngradeLine(q)
    BY <1>2, <2>4, Labels DEF DowngradeLock, DowngradeLine, At, Missing, Downgrading
  <2>5. CASE StoreLock(q) \/ StoreLookup(q) \/ UpgradeLock(q)
    <3>1. CASE StoreLock(q)
      <4>1. cpu'[q].pc = "scan"
        BY <3>1 DEF Inv, TypeInv, LocalsOK, Locals, StoreLock, Goto
      <4> QED BY <4>1 DEF Missing, Downgrading
    <3>2. CASE StoreLookup(q) \/ UpgradeLock(q)
      BY <3>2, Labels DEF Missing, Downgrading, Idle
    <3> QED BY <2>5, <3>1, <3>2
  <2>6. CASE HOther(q) /\ ~LoadLookup(q) /\ ~MissLock(q) /\ ~SetScache(q) /\ ~FillLock(q)
             /\ ~Fill(q) /\ ~DowngradeLock(q) /\ ~DowngradeLine(q) /\ ~StoreLock(q)
             /\ ~StoreLookup(q) /\ ~UpgradeLock(q)
    <3>1. cpu'[q].pc \in {"idle", "start", "flush", "flushlock", "flushing", "invalidate"}
      BY <2>6, Labels DEF HOther, Idle
    <3> QED BY <3>1 DEF Missing, Downgrading
  <2> QED BY <2>1, <2>2, <2>3, <2>4, <2>5, <2>6
<1> QED BY <1>1, <1>3 DEF ScPresent

\* An access keeps its kind until it returns.
LEMMA AccessStep ==
  ASSUME Inv, Controllers = {}, InAccess, NEW q \in Procs, HStore(q) \/ HOther(q)
  PROVE  InAccess'
<1> DEFINE Sound(p) ==
      cpu[p].op = "none" =>
        /\ cpu[p].pc \in {"idle", "flush", "flushlock", "flushing", "invalidate"}
        /\ cpu[p].ret # "start"
<1>0. cpu \in [Procs -> Locals] /\ LocalsUsed(cpu[q]) /\ Sound(q)
  BY DEF Inv, TypeInv, LocalsOK, InAccess
<1>1. ASSUME NEW p \in Procs, p # q PROVE Sound(p)'
  <2>1. cpu'[p] = cpu[p]
    BY <1>1, StoreReturns, OtherLines DEF HStore, Inv
  <2> QED BY <2>1 DEF InAccess
<1>2. cpu'[q] = Idle => Sound(q)'
  BY DEF Idle
<1>3. Sound(q)'
  <2>1. CASE HStore(q)
    BY <1>2, <2>1, StoreReturns DEF HStore, Inv
  <2>2. CASE Start(q)
    <3>1. ASSUME NEW o \in Accesses, NEW t \in Tags, Begin(q, o, t) PROVE Sound(q)'
      <4>1. o # "none"
        BY SizeAssumption
      <4> QED BY <1>0, <3>1, <4>1 DEF Begin, Idle
    <3>2. ASSUME Barrier(q) \/ CheckConditions(q) \/ CacheControl(q) PROVE Sound(q)'
      BY <1>0, <3>2 DEF Barrier, CheckConditions, CacheControl, StartFlush, Idle
    <3>3. ASSUME Rfe(q) PROVE Sound(q)'
      BY <1>0, <3>3 DEF Rfe
    <3> QED BY <2>2, <3>1, <3>2, <3>3 DEF Start
  <2>3. CASE FlushNext(q)
    <3>1. cpu[q].pc = "flush"
      BY <2>3 DEF FlushNext, At
    <3>2. \/ \E s : cpu' = [cpu EXCEPT ![q].pc = "flushlock", ![q].slot = s,
                                      ![q].line = WbIndices[q][s]]
          \/ cpu' = [cpu EXCEPT ![q] = Idle]
          \/ cpu' = [cpu EXCEPT ![q].pc = cpu[q].ret, ![q].slot = 0,
                               ![q].line = NoLine, ![q].ret = "idle"]
      BY <2>3 DEF FlushNext, Return
    <3>3. ASSUME NEW s, cpu' = [cpu EXCEPT ![q].pc = "flushlock", ![q].slot = s,
                                         ![q].line = WbIndices[q][s]]
          PROVE  Sound(q)'
      BY <1>0, <3>3 DEF Locals
    <3>4. ASSUME cpu' = [cpu EXCEPT ![q] = Idle] PROVE Sound(q)'
      BY <1>0, <1>2, <3>4
    <3>5. ASSUME cpu' = [cpu EXCEPT ![q].pc = cpu[q].ret, ![q].slot = 0,
                                  ![q].line = NoLine, ![q].ret = "idle"]
          PROVE  Sound(q)'
      <4>1. cpu'[q].pc = cpu[q].ret /\ cpu'[q].ret = "idle" /\ cpu'[q].op = cpu[q].op
        BY <1>0, <3>5 DEF Locals
      <4>2. cpu[q].op = "none" => cpu[q].ret \in {"idle", "invalidate"}
        BY <1>0, <3>1 DEF LocalsUsed
      <4> QED BY <4>1, <4>2
    <3> QED BY <3>2, <3>3, <3>4, <3>5
  <2>4. CASE FlushLock(q) \/ FlushWrite(q)
    BY <1>0, <2>4 DEF Locals, FlushLock, FlushWrite, Goto
  <2>5. CASE HOther(q) /\ ~Start(q) /\ ~FlushNext(q) /\ ~FlushLock(q) /\ ~FlushWrite(q)
    <3>1. cpu'[q] = Idle \/ cpu'[q].op = cpu[q].op
      BY <2>5, Labels DEF HOther
    <3>2. cpu'[q] = Idle \/ cpu[q].op # "none"
      <4>1. ASSUME LoadLookup(q) \/ StoreLock(q) \/ StoreFindsBufferFull(q) \/ StoreLookup(q)
                   \/ UpgradeLock(q) \/ DowngradeLock(q) \/ DowngradeLine(q) \/ MissLock(q)
                   \/ SetScache(q) \/ FillLock(q) \/ Fill(q)
            PROVE  cpu[q].op # "none"
        BY <1>0, <4>1 DEF LoadLookup, StoreLock, StoreFindsBufferFull, StoreLookup, UpgradeLock,
          DowngradeLock, DowngradeLine, MissLock, SetScache, FillLock, Fill, Downgraded, At
      <4> QED BY <2>5, <4>1, Labels DEF HOther
    <3> QED BY <1>2, <3>1, <3>2
  <2> QED BY <2>1, <2>2, <2>3, <2>4, <2>5
<1> QED BY <1>1, <1>3 DEF InAccess

\* A store of another processor overtakes no line that is valid: it is exclusive.
LEMMA StoreOvertakes ==
  ASSUME Inv, Inv', OvertakenOK, ObservedLines, NEW q \in Procs, HStore(q),
         NEW p \in Procs, p # q, NEW l \in Lines, Valid(p, l)'
  PROVE  /\ Valid(p, l) /\ cpu'[p] = cpu[p] /\ DcTags'[p][l] = DcTags[p][l]
         /\ DcTags'[p][l] \in overtaken'[p] => DcTags[p][l] \in overtaken[p]
<1>1. StoreStep(q)
  BY DEF HStore
<1>2. cpu'[p] = cpu[p] /\ overtaken'[p] = overtaken[p] \cup {Tag(q)} /\ UNCHANGED DcTags
  BY <1>1, StoreReturns, StoreHistory, StoredLine DEF Inv
<1>3. PICK k \in Lines :
        /\ DcTags[q][k] = Tag(q) /\ DcFlags'[q][k] = EXCLUSIVE
        /\ \A x \in Procs, m \in Lines : ~(x = q /\ m = k) => DcFlags'[x][m] = DcFlags[x][m]
  BY <1>1, StoredLine
<1>4. Valid(p, l)
  BY <1>3 DEF Valid
<1>5. DcTags'[p][l] # Tag(q)
  <2>1. SingleWriter'
    BY DEF Inv, DirInv, SingleWriter, Included, Holds, Valid, INVALID, EXCLUSIVE
  <2> QED BY <1>2, <1>3, <2>1 DEF SingleWriter, Holds
<1> QED BY <1>2, <1>4, <1>5

\* A valid line goes on having been observed since others stored to it: a fill observes
\* it, or is the first part of a store.
LEMMA ObservedStep ==
  ASSUME Controllers = {}, Observing = Accesses, Inv, Inv', OvertakenOK, InAccess, ScPresent,
         ObservedLines, NEW q \in Procs, HStore(q) \/ HOther(q)
  PROVE  ObservedLines'
<1> SUFFICES ASSUME NEW p \in Procs, NEW l \in Lines,
                    Valid(p, l)', DcTags'[p][l] \in overtaken'[p]
             PROVE  /\ cpu'[p].pc = "filled" /\ cpu'[p].op = "store"
                    /\ DcTags'[p][l] = Tag(p)'
  BY DEF ObservedLines
<1>0. cpu[p] \in Locals /\ LocalsUsed(cpu[p])
  BY DEF Inv, TypeInv, LocalsOK
<1>1. CASE HStore(q) /\ p # q
  BY <1>1, StoreOvertakes DEF ObservedLines, Tag
<1>2. CASE HStore(q) /\ p = q
  <2>1. StoreStep(p)
    BY <1>2 DEF HStore
  <2>2. cpu[p].op \in Observing
    <3>1. cpu[p].op # "none"
      BY <2>1 DEF StoreStep, StoreHitsBuffer, StoreMerge, UpgradeDone, FilledStore, Downgraded,
        At, InAccess
    <3> QED BY <1>0, <3>1 DEF Locals, Ops
  <2>3. overtaken'[p] = overtaken[p] \ {Tag(p)}
    BY <1>2, <2>2, StoreHistory
  <2>4. UNCHANGED DcTags /\ DcTags[p][l] \in overtaken[p] /\ DcTags[p][l] # Tag(p)
    BY <2>1, <2>3, StoredLine
  <2>5. Valid(p, l)
    BY <2>1, StoredLine DEF Valid
  <2> QED BY <2>4, <2>5 DEF ObservedLines
<1>3. CASE HOther(q) /\ p # q
  <2>1. /\ DcTags'[p][l] = DcTags[p][l] /\ Valid(p, l)
        /\ cpu'[p] = cpu[p] /\ overtaken'[p] = overtaken[p]
    BY ZenonT(40), <1>3, OtherLines, OtherHistory
  <2> QED BY <2>1 DEF ObservedLines, Tag
<1>4. CASE HOther(q) /\ p = q
  <2> DEFINE l0 == <<DcSet(Tag(p)), DcReplacementIndex[p]>>
  <2>1. overtaken'[p] = IF Observes(p) THEN overtaken[p] \ {Tag(p)} ELSE overtaken[p]
    BY <1>4, OtherHistory
  <2>2. CASE Fill(p) /\ l = l0
    <3>1. cpu[p].pc = "filling" /\ Tag(p) \in Tags
      BY <1>0, <2>2 DEF Fill, At, LocalsUsed, Tag
    <3>2. l0 \in Lines
      BY <2>2
    <3>3. DcTags'[p][l] = Tag(p)
      BY <2>2, <3>2 DEF Fill, Inv, TypeInv, StateOK
    <3>4. Tag(p) \notin BadTags
      <4>1. ASSUME Tag(p) \in BadTags PROVE DcFlags'[p][l] = INVALID
        BY <2>2, <3>2, <4>1 DEF Fill, Inv, TypeInv, StateOK
      <4> QED BY <4>1 DEF Valid
    <3>5. cpu' = [cpu EXCEPT ![p].pc = "filled", ![p].line = l0]
      BY <2>2, <3>4 DEF Fill
    <3>6. cpu'[p].pc = "filled" /\ cpu'[p].op = cpu[p].op /\ Tag(p)' = Tag(p)
      BY <1>0, <3>5 DEF Inv, TypeInv, LocalsOK, Locals, Tag
    <3>7. cpu[p].op \in Observing
      <4>1. cpu[p].op # "none"
        BY <3>1 DEF InAccess
      <4> QED BY <1>0, <4>1 DEF Locals, Ops
    <3>8. cpu[p].op # "sc"
      BY <3>1 DEF ScPresent, Missing
    <3>9. ~Observes(p)
      BY <2>1, <3>3
    <3>10. Writing(p)
      BY <3>1, <3>4, <3>7, <3>9 DEF Observes, At
    <3>11. cpu[p].op = "store"
      BY <3>8, <3>10 DEF Writing
    <3> QED BY <3>3, <3>6, <3>11
  <2>3. CASE ~(Fill(p) /\ l = l0)
    <3>1. DcTags'[p][l] = DcTags[p][l] /\ Valid(p, l)
      BY <1>4, <2>3, OtherLines
    <3>2. DcTags[p][l] \in overtaken[p]
      BY <2>1, <3>1
    <3>3. cpu[p].pc = "filled" /\ Writing(p)
      BY <3>1, <3>2 DEF ObservedLines, Writing
    <3>4. ~HOther(p)
      BY <3>3 DEF HOther, Start, Begin, Barrier, CheckConditions, CacheControl, Rfe, LoadLookup,
        LoadCopy, StoreLock, StoreFindsBufferFull, StoreLookup, UpgradeLock, DowngradeLock,
        DowngradeLine, MissLock, SetScache, FillLock, Fill, FilledLoad, FlushNext, FlushLock,
        FlushWrite, Invalidate, Downgraded, At
    <3> QED BY <1>4, <3>4
  <2> QED BY <2>2, <2>3
<1> QED BY <1>1, <1>2, <1>3, <1>4

\* An SC that stores finds its line valid.
LEMMA ScFindsLine ==
  ASSUME Inv, ScPresent, ObservedLines, NEW p \in Procs, cpu[p].op = "sc", HStore(p)
  PROVE  Tag(p) \notin overtaken[p]
<1>1. PICK l \in Lines : DcTags[p][l] = Tag(p) /\ Valid(p, l)
  BY StoredLine DEF HStore
<1>2. cpu[p].pc # "filled"
  BY DEF ScPresent
<1> QED BY <1>1, <1>2 DEF ObservedLines

\* "Store the word in a way that will atomically fail if we no longer have the cache
\* line from LL's load" (xr17032fast.c:1032): no store of another processor comes
\* between the last access that observed the line and an SC that stores to it.
THEOREM ScIsAtomic ==
  ASSUME Controllers = {}, Observing = Accesses
  PROVE  HSpec => ScAtomic
<1> DEFINE I == OvertakenOK /\ InAccess /\ ScPresent /\ ObservedLines
           Atomic == \A p \in Procs : cpu[p].op = "sc" /\ HStore(p) => Tag(p) \notin overtaken[p]
<1>1. HInit => I
  BY DEF HInit, Init, OvertakenOK, InAccess, ScPresent, ObservedLines, Missing, Downgrading,
    Valid, Idle
<1>2. I /\ Inv /\ Inv' /\ [HNext]_hvars => I'
  <2> SUFFICES ASSUME I, Inv, Inv', [HNext]_hvars PROVE I'
    OBVIOUS
  <2>1. CASE UNCHANGED hvars
    BY <2>1 DEF hvars, vars, dcacheVars, OvertakenOK, InAccess, ScPresent, ObservedLines,
      Missing, Downgrading, Valid, Tag
  <2>2. CASE HNext
    <3>1. PICK q \in Procs : HStore(q) \/ HOther(q)
      BY <2>2 DEF HNext
    <3> QED BY <3>1, OvertakenTyped, AccessStep, ScStep, ObservedStep
  <2> QED BY <2>1, <2>2
<1>3. I /\ Inv => Atomic
  BY ScFindsLine
<1>4. I /\ Inv => [Atomic]_hvars
  BY <1>3
<1>5. ScAtomic <=> [][Atomic]_hvars
  BY PTL DEF ScAtomic
<1> HIDE DEF I, Atomic
<1> QED BY <1>1, <1>2, <1>4, <1>5, HistoryCoh, PTL DEF HSpec
=============================================================================
