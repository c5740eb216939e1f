-------------------------- MODULE ClaimTableProofs --------------------------
(***************************************************************************)
(* The claim tables implement LL/SC reservations, for any processors,      *)
(* words and table sizes: every step of ClaimTable is a step of            *)
(* Reservations or leaves it alone.  What makes it hold is that the L1 and *)
(* L2 entries name each other, except for what a processor in the middle   *)
(* of XrClaimAddress has changed so far.                                   *)
(***************************************************************************)
EXTENDS ClaimTable, TLAPS

\* The processor of the L1 entry has cleared the L2 entry that named it, and clears
\* this one before it unlocks it.
Evicted(e) == At(e[1], "evicted") /\ l1entry(e[1]) = e

\* It has entered e in the L2 entry and not yet the L2 entry in e.
Entered(e, j) == At(e[1], "entered") /\ l1entry(e[1]) = e /\ l2entry(e[1]) = j

\* A processor has taken the claim of j away and not yet entered its own.
Taken(j) == \E p \in Procs : At(p, "enter") /\ l2entry(p) = j

\* An L1 entry that names an L2 entry is named by it.
NamedByL2 ==
  \A e \in L1 : L1Other[e] # NoEntry => Evicted(e) \/ L2Other[L1Other[e]] = e

\* An L2 entry that names an L1 entry is named by it.
NamedByL1 ==
  \A j \in L2 : L2Other[j] # NoL1 =>
    L1Other[L2Other[j]] = j \/ Entered(L2Other[j], j) \/ Taken(j)

\* What a processor holds and knows at each point of XrClaimAddress and
\* XrStoreIfClaimed.
LocalsKnown(p) ==
  /\ ~At(p, "idle") => cpu[p].addr \in Addrs
  /\ cpu[p].pc \in {"lockremote", "remote"} => cpu[p].remote \in L1
  /\ cpu[p].pc \in {"sc", "store"} => Locked[p] = cpu[p].addr

LocksHeld(p) ==
  /\ cpu[p].pc \in {"hit", "evict", "evicted", "store"} => L1Lock[l1entry(p)] = p
  /\ At(p, "remote") => L1Lock[cpu[p].remote] = p
  /\ cpu[p].pc \in {"lockremote", "remote", "enter", "entered", "read"} => L2Lock[l2entry(p)] = p

OwnEntry(p) ==
  /\ cpu[p].pc \in {"hit", "store", "read"} => Claimed(p)
  /\ At(p, "evict") => L1Other[l1entry(p)] # NoEntry
  /\ cpu[p].pc \in {"lock2", "lockremote", "remote", "enter", "entered"} =>
       L1Other[l1entry(p)] = NoEntry
  /\ At(p, "evicted") => \A j \in L2 : L2Other[j] = l1entry(p) => Taken(j)

EntryOfOther(p) ==
  /\ cpu[p].pc \in {"lockremote", "remote"} => L2Other[l2entry(p)] \in {NoL1, cpu[p].remote}
  /\ At(p, "enter") => \A e \in L1 : L1Other[e] = l2entry(p) => Evicted(e)
  /\ At(p, "entered") => L2Other[l2entry(p)] = l1entry(p)

ClaimInv ==
  /\ TypeOK
  /\ NamedByL2
  /\ NamedByL1
  /\ \A p \in Procs : LocalsKnown(p) /\ LocksHeld(p) /\ OwnEntry(p) /\ EntryOfOther(p)

-----------------------------------------------------------------------------
\* The entries of a word are entries; no entry is the null pointer.
LEMMA Entries ==
  /\ NoEntry \notin L2 /\ NoL1 \notin L1 /\ None \notin Procs /\ None \notin Addrs
  /\ \A e \in L1 : e[1] \in Procs
  /\ \A p \in Procs : cpu[p].addr \in Addrs =>
       l1entry(p) \in L1 /\ l1entry(p)[1] = p /\ l2entry(p) \in L2
<1>1. \A a \in Addrs : L2Index(a) # NoEntry
  BY ClaimAssumption DEF L2Index, NoEntry
<1>2. NoEntry \notin L2
  BY <1>1 DEF L2
<1> QED BY <1>2, ClaimAssumption DEF L1, L2, NoL1, l1entry, l2entry

\* A processor changes its own locals, and the locks that are its own or free.
OnlyMoves(p) ==
  /\ \A q \in Procs \ {p} : cpu'[q] = cpu[q] /\ Locked'[q] = Locked[q]
  /\ \A e \in L1 : L1Lock[e] \notin {None, p} => L1Lock'[e] = L1Lock[e]
  /\ \A j \in L2 : L2Lock[j] \notin {None, p} => L2Lock'[j] = L2Lock[j]

Quiet(p) ==
  \/ \E a \in Addrs : Begin(p, a)
  \/ \E a \in Plain, v \in Values : PlainStore(p, a, v)
  \/ BeginStore(p) \/ Rfe(p)
  \/ LockL1(p) \/ ReadClaimed(p) \/ LockL2(p) \/ LockRemote(p) \/ ReadEntered(p)
  \/ LockStore(p) \/ \E v \in Values : Store(p, v)

ChangesTables(p) ==
  EvictL2(p) \/ EvictL1(p) \/ ClearRemote(p) \/ EnterL2(p) \/ EnterL1(p)

\* The actions, sorted by whether they change a table.
LEMMA Steps ==
  ASSUME Next
  PROVE  \E p \in Procs : Quiet(p) \/ ChangesTables(p)
BY DEF Next, Continue, Quiet, ChangesTables

\* Types are kept.
LEMMA TypeStep ==
  ASSUME TypeOK, NEW p \in Procs, LocalsKnown(p), Quiet(p) \/ ChangesTables(p)
  PROVE  TypeOK'
<1> USE Entries
<1>1. ASSUME NEW a \in Addrs, Begin(p, a) PROVE TypeOK'
  BY <1>1 DEF Begin, TypeOK, At, Idle, PC, tables, locks
<1>2. ASSUME NEW a \in Plain, NEW v \in Values, PlainStore(p, a, v) PROVE TypeOK'
  BY <1>2, ClaimAssumption DEF PlainStore, TypeOK, tables, locks
<1>3. CASE BeginStore(p)
  BY <1>3 DEF BeginStore, TypeOK, At, Idle, PC, tables, locks
<1>4. CASE Rfe(p)
  BY <1>4 DEF Rfe, TypeOK, tables, locks
<1>5. CASE LockL1(p)
  <2>1. \E label \in {"hit", "evict", "evicted"} : Goto(p, label)
    BY <1>5 DEF LockL1
  <2>2. cpu' \in [Procs -> [pc : PC, addr : Addrs \cup {None}, remote : L1 \cup {NoL1}]]
    BY <2>1 DEF TypeOK, Goto, PC
  <2> QED BY <1>5, <2>2 DEF LockL1, Lock1, TypeOK, At, tables, LocalsKnown
<1>6. CASE ReadClaimed(p)
  BY <1>6 DEF ReadClaimed, ReadAndReturn, Unlock1, TypeOK, At, Idle, PC, tables, LocalsKnown
<1>7. CASE EvictL2(p)
  <2>1. cpu' \in [Procs -> [pc : PC, addr : Addrs \cup {None}, remote : L1 \cup {NoL1}]]
    BY SMTT(30), ZenonT(40), <1>7 DEF EvictL2, TypeOK, Goto, PC
  <2>2. L2Other' \in [L2 -> L1 \cup {NoL1}]
    BY SMTT(30), ZenonT(40), <1>7 DEF EvictL2, TypeOK
  <2> QED BY <1>7, <2>1, <2>2 DEF EvictL2, TypeOK, locks
<1>8. CASE EvictL1(p)
  BY SMTT(30), ZenonT(40), <1>8 DEF EvictL1, Unlock1, TypeOK, At, Goto, PC, LocalsKnown
<1>9. CASE LockL2(p)
  <2>1. L2Other[l2entry(p)] \in L1 \cup {NoL1}
    BY <1>9 DEF LockL2, TypeOK, At, LocalsKnown
  <2> QED BY <1>9, <2>1 DEF LockL2, TypeOK, At, PC, tables, LocalsKnown
<1>10. CASE LockRemote(p)
  BY <1>10 DEF LockRemote, Lock1, TypeOK, At, Goto, PC, tables, LocalsKnown
<1>11. CASE ClearRemote(p)
  BY <1>11 DEF ClearRemote, Unlock1, TypeOK, At, Goto, PC, LocalsKnown
<1>12. CASE EnterL2(p)
  BY <1>12 DEF EnterL2, TypeOK, At, Goto, PC, locks, LocalsKnown
<1>13. CASE EnterL1(p)
  <2>1. cpu' \in [Procs -> [pc : PC, addr : Addrs \cup {None}, remote : L1 \cup {NoL1}]]
    BY <1>13 DEF EnterL1, TypeOK, Goto, PC
  <2>2. L1Other' \in [L1 -> L2 \cup {NoEntry}]
    BY <1>13 DEF EnterL1, TypeOK, At, LocalsKnown
  <2> QED BY <1>13, <2>1, <2>2 DEF EnterL1, TypeOK, locks
<1>14. CASE ReadEntered(p)
  BY <1>14 DEF ReadEntered, ReadAndReturn, TypeOK, At, Idle, PC, tables, LocalsKnown
<1>15. CASE LockStore(p)
  <2>1. cpu' \in [Procs -> [pc : PC, addr : Addrs \cup {None}, remote : L1 \cup {NoL1}]]
    BY <1>15 DEF LockStore, TypeOK, Goto, Idle, PC
  <2>2. L1Lock' \in [L1 -> Procs \cup {None}]
    BY <1>15 DEF LockStore, Lock1, TypeOK, At, LocalsKnown
  <2> QED BY <1>15, <2>1, <2>2 DEF LockStore, TypeOK, tables
<1>16. ASSUME NEW v \in Values, Store(p, v) PROVE TypeOK'
  BY <1>16 DEF Store, Unlock1, TypeOK, At, Idle, PC, tables, LocalsKnown
<1> QED
  BY <1>1, <1>2, <1>3, <1>4, <1>5, <1>6, <1>7, <1>8, <1>9, <1>10, <1>11, <1>12, <1>13, <1>14,
     <1>15, <1>16 DEF Quiet, ChangesTables

\* Nobody moves another processor, or takes a lock away from it.
LEMMA Alone ==
  ASSUME TypeOK, NEW p \in Procs, LocalsKnown(p), LocksHeld(p), Quiet(p) \/ ChangesTables(p)
  PROVE  OnlyMoves(p)
<1> USE DEF OnlyMoves, TypeOK
<1>1. ASSUME NEW a \in Addrs, Begin(p, a) PROVE OnlyMoves(p)
  BY <1>1 DEF Begin, locks
<1>2. ASSUME NEW a \in Plain, NEW v \in Values, PlainStore(p, a, v) PROVE OnlyMoves(p)
  BY <1>2 DEF PlainStore, locks
<1>3. CASE BeginStore(p)
  BY <1>3 DEF BeginStore, locks
<1>4. CASE Rfe(p)
  BY <1>4 DEF Rfe, locks
<1>5. CASE LockL1(p)
  BY <1>5 DEF LockL1, Lock1, Goto
<1>6. CASE ReadClaimed(p)
  BY <1>6 DEF ReadClaimed, ReadAndReturn, Unlock1, At, LocksHeld
<1>7. CASE EvictL2(p)
  BY <1>7 DEF EvictL2, Goto, locks
<1>8. CASE EvictL1(p)
  BY <1>8 DEF EvictL1, Unlock1, At, Goto, LocksHeld
<1>9. CASE LockL2(p)
  BY <1>9 DEF LockL2
<1>10. CASE LockRemote(p)
  BY <1>10 DEF LockRemote, Lock1, Goto
<1>11. CASE ClearRemote(p)
  BY <1>11 DEF ClearRemote, Unlock1, At, Goto, LocksHeld
<1>12. CASE EnterL2(p)
  BY <1>12 DEF EnterL2, Goto, locks
<1>13. CASE EnterL1(p)
  BY <1>13 DEF EnterL1, Goto, locks
<1>14. CASE ReadEntered(p)
  BY <1>14 DEF ReadEntered, ReadAndReturn, At, LocksHeld
<1>15. CASE LockStore(p)
  BY <1>15 DEF LockStore, Lock1, Goto
<1>16. ASSUME NEW v \in Values, Store(p, v) PROVE OnlyMoves(p)
  BY <1>16 DEF Store, Unlock1, At, LocksHeld
<1> QED
  BY <1>1, <1>2, <1>3, <1>4, <1>5, <1>6, <1>7, <1>8, <1>9, <1>10, <1>11, <1>12, <1>13, <1>14,
     <1>15, <1>16 DEF Quiet, ChangesTables

\* What the others know of their locals and hold stays so.
LEMMA OthersHold ==
  ASSUME TypeOK, NEW p \in Procs, OnlyMoves(p),
         NEW q \in Procs \ {p}, LocalsKnown(q), LocksHeld(q)
  PROVE  LocalsKnown(q)' /\ LocksHeld(q)'
<1>1. cpu'[q] = cpu[q] /\ Locked'[q] = Locked[q] /\ q # None
  BY Entries DEF OnlyMoves
<1>2. LocalsKnown(q)'
  BY <1>1 DEF LocalsKnown, At
<1>3. cpu[q].addr \in Addrs => l1entry(q) \in L1 /\ l2entry(q) \in L2
  BY Entries
<1>4. l1entry(q)' = l1entry(q) /\ l2entry(q)' = l2entry(q)
  BY <1>1 DEF l1entry, l2entry
<1>5. LocksHeld(q)'
  BY <1>1, <1>3, <1>4 DEF LocksHeld, LocalsKnown, OnlyMoves, At
<1> QED BY <1>2, <1>5

\* Where a processor goes, it has the locals and the locks that it needs there.
LEMMA OwnHold ==
  ASSUME TypeOK, NEW p \in Procs, LocalsKnown(p), LocksHeld(p), Quiet(p) \/ ChangesTables(p)
  PROVE  LocalsKnown(p)' /\ LocksHeld(p)'
<1> DEFINE Goal == LocalsKnown(p)' /\ LocksHeld(p)'
<1> USE Entries DEF TypeOK, LocalsKnown, LocksHeld, At, l1entry, l2entry
<1>1. ASSUME NEW a \in Addrs, Begin(p, a) PROVE Goal
  BY <1>1 DEF Begin, Idle, locks
<1>2. ASSUME NEW a \in Plain, NEW v \in Values, PlainStore(p, a, v) PROVE Goal
  BY <1>2 DEF PlainStore, locks
<1>3. CASE BeginStore(p)
  BY <1>3 DEF BeginStore, Idle, locks
<1>4. CASE Rfe(p)
  BY <1>4 DEF Rfe, locks
<1>5. CASE LockL1(p)
  BY <1>5 DEF LockL1, Lock1, Goto
<1>6. CASE ReadClaimed(p)
  BY <1>6 DEF ReadClaimed, ReadAndReturn, Idle
<1>7. CASE EvictL2(p)
  BY <1>7 DEF EvictL2, Goto, locks
<1>8. CASE EvictL1(p)
  BY <1>8 DEF EvictL1, Goto
<1>9. CASE LockL2(p)
  BY <1>9 DEF LockL2
<1>10. CASE LockRemote(p)
  BY <1>10 DEF LockRemote, Lock1, Goto
<1>11. CASE ClearRemote(p)
  BY <1>11 DEF ClearRemote, Goto
<1>12. CASE EnterL2(p)
  BY <1>12 DEF EnterL2, Goto, locks
<1>13. CASE EnterL1(p)
  BY <1>13 DEF EnterL1, Goto, locks
<1>14. CASE ReadEntered(p)
  BY <1>14 DEF ReadEntered, ReadAndReturn, Idle
<1>15. CASE LockStore(p)
  BY SMTT(30), ZenonT(40), <1>15 DEF LockStore, Lock1, Goto, Idle
<1>16. ASSUME NEW v \in Values, Store(p, v) PROVE Goal
  BY <1>16 DEF Store, Idle
<1> QED
  BY <1>1, <1>2, <1>3, <1>4, <1>5, <1>6, <1>7, <1>8, <1>9, <1>10, <1>11, <1>12, <1>13, <1>14,
     <1>15, <1>16 DEF Quiet, ChangesTables

\* What an entry is in the middle of stays so while others move.
LEMMA OthersMeanwhile ==
  ASSUME NEW p \in Procs, OnlyMoves(p)
  PROVE  /\ \A e \in L1 : (At(p, "evicted") => e # l1entry(p)) /\ Evicted(e) => Evicted(e)'
         /\ ~At(p, "enter") => \A j \in L2 : Taken(j) => Taken(j)'
         /\ ~At(p, "entered") => \A e \in L1, j \in L2 : Entered(e, j) => Entered(e, j)'
<1>1. \A q \in Procs \ {p} : cpu'[q] = cpu[q]
  BY DEF OnlyMoves
<1>2. ASSUME NEW e \in L1, At(p, "evicted") => e # l1entry(p), Evicted(e)
      PROVE  Evicted(e)'
  <2>1. e[1] \in Procs \ {p}
    BY <1>2, Entries DEF Evicted
  <2> QED BY <1>1, <1>2, <2>1 DEF Evicted, At, l1entry
<1>3. ASSUME ~At(p, "enter"), NEW j \in L2, Taken(j)
      PROVE  Taken(j)'
  BY <1>1, <1>3 DEF Taken, At, l2entry
<1>4. ASSUME ~At(p, "entered"), NEW e \in L1, NEW j \in L2, Entered(e, j)
      PROVE  Entered(e, j)'
  BY <1>1, <1>4, Entries DEF Entered, At, l1entry, l2entry
<1> QED BY <1>2, <1>3, <1>4

\* A step that changes no table.
LEMMA QuietLeaves ==
  ASSUME TypeOK, NEW p \in Procs, LocalsKnown(p), Quiet(p)
  PROVE  /\ UNCHANGED tables
         /\ ~At(p, "evicted") /\ ~At(p, "enter") /\ ~At(p, "entered")
<1> USE DEF At, tables
<1> QED
  BY DEF Quiet, Begin, PlainStore, BeginStore, Rfe, LockL1, ReadClaimed, LockL2, LockRemote,
         ReadEntered, LockStore, Store

\* A step that changes no table keeps what the others know of them.
LEMMA QuietOthers ==
  ASSUME ClaimInv, NEW p \in Procs, Quiet(p), NEW q \in Procs \ {p}
  PROVE  OwnEntry(q)' /\ EntryOfOther(q)'
<1>1. TypeOK /\ LocalsKnown(p) /\ LocksHeld(p) /\ LocalsKnown(q) /\ OwnEntry(q) /\ EntryOfOther(q)
  BY DEF ClaimInv
<1>2. OnlyMoves(p)
  BY <1>1, Alone
<1>3. UNCHANGED <<L1Other, L2Other, l1entry(q), l2entry(q)>> /\ cpu'[q] = cpu[q]
  BY <1>1, <1>2, QuietLeaves DEF tables, OnlyMoves, l1entry, l2entry
<1>4. /\ \A e \in L1 : Evicted(e) => Evicted(e)'
      /\ \A j \in L2 : Taken(j) => Taken(j)'
  BY <1>1, <1>2, QuietLeaves, OthersMeanwhile
<1>5. OwnEntry(q)'
  BY <1>1, <1>3, <1>4 DEF OwnEntry, At, Claimed
<1>6. EntryOfOther(q)'
  BY <1>1, <1>3, <1>4 DEF EntryOfOther, At
<1> QED BY <1>5, <1>6

\* The tables name each other as before.
LEMMA QuietTables ==
  ASSUME ClaimInv, NEW p \in Procs, Quiet(p)
  PROVE  NamedByL2' /\ NamedByL1'
<1>1. TypeOK /\ LocalsKnown(p) /\ LocksHeld(p) /\ NamedByL2 /\ NamedByL1
  BY DEF ClaimInv
<1>2. UNCHANGED <<L1Other, L2Other>>
  BY <1>1, QuietLeaves DEF tables
<1>3. /\ \A e \in L1 : Evicted(e) => Evicted(e)'
      /\ \A j \in L2 : Taken(j) => Taken(j)'
      /\ \A e \in L1, j \in L2 : Entered(e, j) => Entered(e, j)'
  BY <1>1, Alone, QuietLeaves, OthersMeanwhile
<1>4. NamedByL2'
  BY <1>1, <1>2, <1>3 DEF NamedByL2
<1>5. \A j \in L2 : L2Other[j] # NoL1 => L2Other[j] \in L1
  BY <1>1 DEF TypeOK
<1>6. NamedByL1'
  BY <1>1, <1>2, <1>3, <1>5 DEF NamedByL1
<1> QED BY <1>4, <1>6

\* What the processor itself knows, in the two steps that look at an entry.
LEMMA LockL1Own ==
  ASSUME ClaimInv, NEW p \in Procs, LockL1(p)
  PROVE  OwnEntry(p)' /\ EntryOfOther(p)'
<1>1. TypeOK /\ LocalsKnown(p) /\ LocksHeld(p) /\ NamedByL1 /\ At(p, "lock1") /\ Quiet(p)
  BY DEF ClaimInv, LockL1, Quiet
<1>2. l1entry(p) \in L1 /\ l1entry(p)[1] = p
  BY <1>1, Entries DEF LocalsKnown, At
<1>3. UNCHANGED <<L1Other, L2Other, l1entry(p), l2entry(p)>>
  BY <1>1 DEF LockL1, tables, Goto, TypeOK, l1entry, l2entry
<1>5. CASE Claimed(p)
  <2>1. cpu'[p].pc = "hit"
    BY <1>5 DEF LockL1, Goto, ClaimInv, TypeOK
  <2> QED BY <1>5, <1>3, <2>1 DEF OwnEntry, EntryOfOther, At, Claimed
<1>6. CASE ~Claimed(p) /\ L1Other[l1entry(p)] # NoEntry
  <2>1. cpu'[p].pc = "evict"
    BY <1>6 DEF LockL1, Goto, ClaimInv, TypeOK
  <2> QED BY <1>6, <1>3, <2>1 DEF OwnEntry, EntryOfOther, At
<1>7. CASE ~Claimed(p) /\ L1Other[l1entry(p)] = NoEntry
  <2>1. cpu'[p].pc = "evicted"
    BY <1>7 DEF LockL1, Goto, ClaimInv, TypeOK
  <2>2. ASSUME NEW j \in L2, L2Other[j] = l1entry(p) PROVE Taken(j)
    <3>1. L2Other[j] # NoL1 /\ j # NoEntry /\ ~Entered(l1entry(p), j)
      BY <2>2, <1>1, <1>2, Entries DEF Entered, At
    <3> QED BY <3>1, <2>2, <1>1, <1>7 DEF NamedByL1
  <2>3. \A j \in L2 : Taken(j) => Taken(j)'
    BY <1>1, Alone, QuietLeaves, OthersMeanwhile
  <2> QED BY <1>3, <2>1, <2>2, <2>3 DEF OwnEntry, EntryOfOther, At
<1> QED BY <1>5, <1>6, <1>7

\* With the L2 entry locked, what p knows of its own and of the remote entry stays so.
LEMMA LockL2Own ==
  ASSUME ClaimInv, NEW p \in Procs, LockL2(p)
  PROVE  OwnEntry(p)' /\ EntryOfOther(p)'
<1>1. TypeOK /\ LocalsKnown(p) /\ LocksHeld(p) /\ OwnEntry(p) /\ NamedByL2 /\ At(p, "lock2") /\ Quiet(p)
  BY DEF ClaimInv, LockL2, Quiet
<1>2. l1entry(p) \in L1 /\ l2entry(p) \in L2
  BY <1>1, Entries DEF LocalsKnown, At
<1>3. UNCHANGED <<L1Other, L2Other, l1entry(p), l2entry(p)>>
  BY <1>1 DEF LockL2, tables, TypeOK, l1entry, l2entry
<1>4. OwnEntry(p)'
  BY <1>1, <1>3 DEF LockL2, TypeOK, OwnEntry, At
<1>5. CASE L2Other[l2entry(p)] = NoL1
  <2>1. cpu'[p].pc = "enter"
    BY <1>1, <1>5 DEF LockL2, TypeOK
  <2>2. \A e \in L1 : L1Other[e] = l2entry(p) => Evicted(e)
    BY <1>1, <1>2, <1>5, Entries DEF NamedByL2
  <2>3. \A e \in L1 : Evicted(e) => Evicted(e)'
    BY <1>1, Alone, QuietLeaves, OthersMeanwhile
  <2> QED BY <1>3, <1>4, <2>1, <2>2, <2>3 DEF EntryOfOther, At
<1>6. CASE L2Other[l2entry(p)] # NoL1
  <2>1. cpu'[p].pc = "lockremote" /\ cpu'[p].remote = L2Other[l2entry(p)]
    BY <1>1, <1>6 DEF LockL2, TypeOK
  <2> QED BY <1>3, <1>4, <2>1 DEF EntryOfOther, At
<1> QED BY <1>5, <1>6

\* The same in the other steps that change no table.
LEMMA QuietOwn ==
  ASSUME ClaimInv, NEW p \in Procs, Quiet(p)
  PROVE  OwnEntry(p)' /\ EntryOfOther(p)'
<1>1. TypeOK /\ LocalsKnown(p) /\ OwnEntry(p) /\ EntryOfOther(p)
  BY DEF ClaimInv
<1>2. UNCHANGED <<L1Other, L2Other>>
  BY <1>1, QuietLeaves DEF tables
<1>3. ASSUME cpu'[p].pc \in {"idle", "lock1", "sc"}
      PROVE  OwnEntry(p)' /\ EntryOfOther(p)'
  BY <1>3 DEF OwnEntry, EntryOfOther, At
<1>4. CASE \E a \in Addrs : Begin(p, a)
  BY <1>1, <1>3, <1>4 DEF Begin, Idle, TypeOK
<1>5. CASE \E a \in Plain, v \in Values : PlainStore(p, a, v)
  BY <1>1, <1>3, <1>5 DEF PlainStore, At
<1>6. CASE BeginStore(p)
  BY <1>1, <1>3, <1>6 DEF BeginStore, Idle, TypeOK
<1>7. CASE Rfe(p)
  BY <1>1, <1>3, <1>7 DEF Rfe, At
<1>8. CASE ReadClaimed(p) \/ ReadEntered(p) \/ \E v \in Values : Store(p, v)
  BY <1>1, <1>3, <1>8 DEF ReadClaimed, ReadEntered, ReadAndReturn, Store, Idle, TypeOK
<1>9. CASE LockRemote(p)
  BY <1>1, <1>2, <1>9 DEF LockRemote, Goto, TypeOK, OwnEntry, EntryOfOther, At, l1entry, l2entry
<1>10. CASE LockStore(p)
  <2>1. CASE Claimed(p)
    <3>1. cpu'[p].pc = "store" /\ Claimed(p)'
      BY <1>1, <1>2, <1>10, <2>1 DEF LockStore, Goto, TypeOK, Claimed, l1entry, l2entry
    <3> QED BY <3>1 DEF OwnEntry, EntryOfOther, At
  <2>2. CASE ~Claimed(p)
    BY <1>1, <1>3, <1>10, <2>2 DEF LockStore, Idle, TypeOK
  <2> QED BY <2>1, <2>2
<1> QED
  BY <1>4, <1>5, <1>6, <1>7, <1>8, <1>9, <1>10, LockL1Own, LockL2Own DEF Quiet
-----------------------------------------------------------------------------
(* The steps that change a table.                                          *)

\* All the invariant says of the tables and of what each processor knows of them.
TablesKept ==
  NamedByL2' /\ NamedByL1' /\ \A q \in Procs : OwnEntry(q)' /\ EntryOfOther(q)'

\* What the steps share: others are where they were, and have what they had.
LEMMA TableStep ==
  ASSUME ClaimInv, NEW p \in Procs, ChangesTables(p)
  PROVE  /\ TypeOK /\ NamedByL2 /\ NamedByL1
         /\ \A q \in Procs : /\ LocalsKnown(q) /\ LocksHeld(q) /\ OwnEntry(q) /\ EntryOfOther(q)
                             /\ UNCHANGED <<l1entry(q), l2entry(q)>>
                             /\ ~At(q, "idle") => l1entry(q) \in L1 /\ l2entry(q) \in L2
         /\ \A q \in Procs \ {p} : cpu'[q] = cpu[q]
         /\ l1entry(p) \in L1 /\ l1entry(p)[1] = p /\ l2entry(p) \in L2
<1>1. /\ TypeOK /\ NamedByL2 /\ NamedByL1
      /\ \A q \in Procs : LocalsKnown(q) /\ LocksHeld(q) /\ OwnEntry(q) /\ EntryOfOther(q)
  BY DEF ClaimInv
<1>2. \A q \in Procs \ {p} : cpu'[q] = cpu[q]
  BY <1>1, Alone DEF OnlyMoves
<1>3. cpu'[p].addr = cpu[p].addr /\ ~At(p, "idle")
  BY <1>1 DEF ChangesTables, EvictL2, EvictL1, ClearRemote, EnterL2, EnterL1, Goto, At, TypeOK
<1>4. \A q \in Procs : UNCHANGED <<l1entry(q), l2entry(q)>>
  BY <1>2, <1>3 DEF l1entry, l2entry
<1>5. \A q \in Procs : ~At(q, "idle") => l1entry(q) \in L1 /\ l1entry(q)[1] = q /\ l2entry(q) \in L2
  BY <1>1, Entries DEF LocalsKnown
<1> QED BY <1>1, <1>2, <1>3, <1>4, <1>5

\* Two processors do not hold one entry.
LEMMA OneHolder ==
  ASSUME NEW p \in Procs, NEW q \in Procs, p # q, LocksHeld(p), LocksHeld(q)
  PROVE  /\ /\ cpu[p].pc \in {"lockremote", "remote", "enter", "entered", "read"}
            /\ cpu[q].pc \in {"lockremote", "remote", "enter", "entered", "read"}
            => l2entry(p) # l2entry(q)
         /\ At(p, "remote") /\ cpu[q].pc \in {"hit", "evict", "evicted", "store"} =>
              cpu[p].remote # l1entry(q)
BY DEF LocksHeld

\* The claim that p drops from L1 is taken out of L2, and the tables still agree.
LEMMA EvictL2Keeps ==
  ASSUME ClaimInv, NEW p \in Procs, EvictL2(p)
  PROVE  TablesKept
<1> DEFINE e0 == l1entry(p)
           j0 == L1Other[l1entry(p)]
<1>1. /\ TypeOK /\ NamedByL2 /\ NamedByL1 /\ OwnEntry(p)
      /\ \A q \in Procs : OwnEntry(q) /\ EntryOfOther(q) /\ UNCHANGED <<l1entry(q), l2entry(q)>>
      /\ \A q \in Procs \ {p} : cpu'[q] = cpu[q]
      /\ \A q \in Procs : ~At(q, "idle") => l1entry(q) \in L1 /\ l1entry(q)[1] = q /\ l2entry(q) \in L2
      /\ e0 \in L1 /\ e0[1] = p /\ OnlyMoves(p)
  BY TableStep, Alone, Entries DEF ChangesTables, l1entry
<1>2. At(p, "evict") /\ cpu'[p].pc = "evicted" /\ UNCHANGED L1Other
  BY <1>1 DEF EvictL2, Goto, TypeOK
<1>3. j0 \in L2 /\ L2Other[j0] = e0
  BY <1>1, <1>2 DEF OwnEntry, TypeOK, NamedByL2, Evicted, At
<1>4. L2Other' = [L2Other EXCEPT ![j0] = NoL1]
  BY DEF EvictL2
<1>5. /\ \A e \in L1 : Evicted(e) => Evicted(e)'
      /\ \A j \in L2 : Taken(j) => Taken(j)'
      /\ \A e \in L1, j \in L2 : Entered(e, j) => Entered(e, j)'
  BY <1>1, <1>2, OthersMeanwhile DEF At
<1>6. NamedByL2'
  <2> SUFFICES ASSUME NEW e \in L1, L1Other[e] # NoEntry
               PROVE  Evicted(e)' \/ L2Other'[L1Other[e]] = e
    BY <1>2 DEF NamedByL2
  <2>1. CASE e = e0
    BY <2>1, <1>1, <1>2 DEF Evicted, At
  <2>2. CASE e # e0
    BY <2>2, <1>1, <1>3, <1>4, <1>5 DEF NamedByL2, TypeOK
  <2> QED BY <2>1, <2>2
<1>7. NamedByL1'
  BY <1>1, <1>2, <1>4, <1>5 DEF NamedByL1, TypeOK
<1>8. ASSUME NEW q \in Procs \ {p} PROVE OwnEntry(q)'
  <2>1. At(q, "evicted") => \A j \in L2 : L2Other'[j] = l1entry(q) => Taken(j)'
    BY <1>1, <1>4, <1>5, Entries DEF OwnEntry, TypeOK, At
  <2> QED BY <2>1, <1>1, <1>2 DEF OwnEntry, At, Claimed
<1>9. ASSUME NEW q \in Procs \ {p} PROVE EntryOfOther(q)'
  <2>1. At(q, "entered") => l2entry(q) # j0
    BY <1>1, <1>3 DEF EntryOfOther, At
  <2> QED BY <2>1, <1>1, <1>2, <1>4, <1>5 DEF EntryOfOther, At, TypeOK
<1>10. OwnEntry(p)'
  <2>1. ASSUME NEW j \in L2, L2Other'[j] = e0 PROVE Taken(j)'
    <3>1. L2Other[j] = e0 /\ j # j0 /\ e0 # NoL1
      BY <2>1, <1>1, <1>4, Entries DEF TypeOK
    <3>2. ~Entered(e0, j)
      BY <1>1, <1>2 DEF Entered, At
    <3> QED BY <3>1, <3>2, <1>1, <1>5 DEF NamedByL1
  <2> QED BY <2>1, <1>1, <1>2 DEF OwnEntry, At
<1>11. EntryOfOther(p)'
  BY <1>2 DEF EntryOfOther, At
<1> QED BY <1>6, <1>7, <1>8, <1>9, <1>10, <1>11 DEF TablesKept

\* Then it is taken out of L1.
LEMMA EvictL1Keeps ==
  ASSUME ClaimInv, NEW p \in Procs, EvictL1(p)
  PROVE  TablesKept
<1> DEFINE e0 == l1entry(p)
<1>1. /\ TypeOK /\ NamedByL2 /\ NamedByL1 /\ OwnEntry(p)
      /\ \A q \in Procs : OwnEntry(q) /\ EntryOfOther(q) /\ UNCHANGED <<l1entry(q), l2entry(q)>>
      /\ \A q \in Procs \ {p} : cpu'[q] = cpu[q]
      /\ \A q \in Procs : ~At(q, "idle") => l1entry(q) \in L1 /\ l1entry(q)[1] = q /\ l2entry(q) \in L2
      /\ e0 \in L1 /\ e0[1] = p /\ OnlyMoves(p)
  BY TableStep, Alone, Entries DEF ChangesTables, l1entry
<1>2. At(p, "evicted") /\ cpu'[p].pc = "lock2" /\ UNCHANGED L2Other
  BY <1>1 DEF EvictL1, Goto, TypeOK
<1>3. L1Other' = [L1Other EXCEPT ![e0] = NoEntry]
  BY DEF EvictL1
<1>4. /\ \A e \in L1 \ {e0} : Evicted(e) => Evicted(e)'
      /\ \A j \in L2 : Taken(j) => Taken(j)'
      /\ \A e \in L1, j \in L2 : Entered(e, j) => Entered(e, j)'
  BY <1>1, <1>2, OthersMeanwhile DEF At
<1>5. L1Other'[e0] = NoEntry /\ \A e \in L1 \ {e0} : L1Other'[e] = L1Other[e]
  BY <1>1, <1>3 DEF TypeOK
<1>6. NamedByL2'
  BY <1>1, <1>2, <1>4, <1>5 DEF NamedByL2
<1>7. NamedByL1'
  <2> SUFFICES ASSUME NEW j \in L2, L2Other[j] # NoL1
               PROVE  L1Other'[L2Other[j]] = j \/ Entered(L2Other[j], j)' \/ Taken(j)'
    BY <1>2 DEF NamedByL1, Entered
  <2>1. CASE L2Other[j] = e0
    BY <2>1, <1>1, <1>2, <1>4 DEF OwnEntry, At
  <2>2. CASE L2Other[j] # e0
    <3>1. L2Other[j] \in L1 \ {e0}
      BY <2>2, <1>1 DEF TypeOK
    <3> QED BY <3>1, <1>1, <1>2, <1>4, <1>5 DEF NamedByL1
  <2> QED BY <2>1, <2>2
<1>8. ASSUME NEW q \in Procs \ {p} PROVE OwnEntry(q)'
  <2>1. ~At(q, "idle") => L1Other'[l1entry(q)] = L1Other[l1entry(q)]
    BY <1>1, <1>5
  <2> QED BY <2>1, <1>1, <1>2, <1>4 DEF OwnEntry, At, Claimed
<1>9. ASSUME NEW q \in Procs \ {p} PROVE EntryOfOther(q)'
  <2>1. At(q, "enter") => \A e \in L1 : L1Other'[e] = l2entry(q) => Evicted(e)'
    BY <1>1, <1>4, <1>5, Entries DEF EntryOfOther, At
  <2> QED BY <2>1, <1>1, <1>2 DEF EntryOfOther, At
<1>10. OwnEntry(p)' /\ EntryOfOther(p)'
  BY <1>1, <1>2, <1>5 DEF OwnEntry, EntryOfOther, At
<1> QED BY <1>6, <1>7, <1>8, <1>9, <1>10 DEF TablesKept


\* The claim that is taken away is the one that the L2 entry names.
LEMMA RemoteIsClaim ==
  ASSUME ClaimInv, NEW p \in Procs, ClearRemote(p), L2Other[l2entry(p)] # NoL1
  PROVE  L2Other[l2entry(p)] = cpu[p].remote /\ L1Other[cpu[p].remote] = l2entry(p)
<1>1. /\ NamedByL1 /\ EntryOfOther(p) /\ l2entry(p) \in L2 /\ cpu[p].remote \in L1
      /\ \A q \in Procs : LocksHeld(q)
  BY TableStep DEF ChangesTables, ClearRemote, LocalsKnown, At
<1>2. At(p, "remote")
  BY DEF ClearRemote
<1>3. L2Other[l2entry(p)] = cpu[p].remote
  BY <1>1, <1>2 DEF EntryOfOther, At
<1>4. ~Entered(cpu[p].remote, l2entry(p)) /\ ~Taken(l2entry(p))
  <2>1. \A q \in Procs : At(q, "entered") \/ At(q, "enter") => l2entry(q) # l2entry(p)
    BY <1>1, <1>2, OneHolder DEF At
  <2> QED BY <2>1, <1>1, Entries DEF Entered, Taken
<1> QED BY <1>1, <1>3, <1>4 DEF NamedByL1

\* The claim of the processor that held this L2 entry is taken out of L1.
LEMMA ClearRemoteKeeps ==
  ASSUME ClaimInv, NEW p \in Procs, ClearRemote(p)
  PROVE  TablesKept
<1> DEFINE r == cpu[p].remote
           j0 == l2entry(p)
<1>1. /\ TypeOK /\ NamedByL2 /\ NamedByL1 /\ OwnEntry(p)
      /\ \A q \in Procs : /\ OwnEntry(q) /\ EntryOfOther(q) /\ LocksHeld(q) /\ LocalsKnown(q)
                          /\ UNCHANGED <<l1entry(q), l2entry(q)>>
      /\ \A q \in Procs \ {p} : cpu'[q] = cpu[q]
      /\ \A q \in Procs : ~At(q, "idle") => l1entry(q) \in L1 /\ l2entry(q) \in L2
      /\ j0 \in L2 /\ OnlyMoves(p)
  BY TableStep, Alone DEF ChangesTables
<1>2. At(p, "remote") /\ cpu'[p].pc = "enter" /\ UNCHANGED L2Other
  BY <1>1 DEF ClearRemote, Goto, TypeOK
<1>3. \/ L2Other[j0] = NoL1 /\ L1Other' = L1Other
      \/ L2Other[j0] = r /\ L1Other[r] = j0 /\ L1Other' = [L1Other EXCEPT ![r] = NoEntry]
  BY RemoteIsClaim DEF ClearRemote
<1>4. \A e \in L1 : \/ L1Other'[e] = L1Other[e]
                    \/ e = r /\ L1Other'[e] = NoEntry /\ L1Other[e] = j0 /\ L2Other[j0] = r
  BY <1>1, <1>3 DEF TypeOK
<1>5. /\ \A e \in L1 : Evicted(e) => Evicted(e)'
      /\ \A j \in L2 : Taken(j) => Taken(j)'
      /\ \A e \in L1, j \in L2 : Entered(e, j) => Entered(e, j)'
  BY <1>1, <1>2, OthersMeanwhile DEF At
<1>6. Taken(j0)'
  BY <1>1, <1>2 DEF Taken, At
<1>7. NamedByL2'
  BY <1>1, <1>2, <1>4, <1>5 DEF NamedByL2
<1>8. NamedByL1'
  <2>1. \A j \in L2 : L2Other[j] # NoL1 => L2Other[j] \in L1
    BY <1>1 DEF TypeOK
  <2> QED BY <2>1, <1>1, <1>2, <1>4, <1>5, <1>6 DEF NamedByL1
<1>9. ASSUME NEW q \in Procs \ {p} PROVE OwnEntry(q)'
  <2>1. cpu[q].pc \in {"hit", "store", "evict", "read"} => L1Other'[l1entry(q)] = L1Other[l1entry(q)]
    <3>1. cpu[q].pc \in {"hit", "store", "evict"} => r # l1entry(q)
      BY <1>1, <1>2, OneHolder DEF At
    <3>2. At(q, "read") => L1Other[l1entry(q)] # j0
      BY <1>1, <1>2, OneHolder DEF OwnEntry, Claimed, At
    <3> QED BY <3>1, <3>2, <1>1, <1>4 DEF At
  <2>2. ~At(q, "idle") /\ L1Other[l1entry(q)] = NoEntry => L1Other'[l1entry(q)] = NoEntry
    BY <1>1, <1>4
  <2> QED BY <2>1, <2>2, <1>1, <1>2, <1>5 DEF OwnEntry, At, Claimed
<1>10. ASSUME NEW q \in Procs \ {p} PROVE EntryOfOther(q)'
  <2>1. At(q, "enter") => \A e \in L1 : L1Other'[e] = l2entry(q) => Evicted(e)'
    BY <1>1, <1>4, <1>5, Entries DEF EntryOfOther, At
  <2> QED BY <2>1, <1>1, <1>2 DEF EntryOfOther, At
<1>11. OwnEntry(p)'
  BY <1>1, <1>2, <1>4 DEF OwnEntry, At
<1>12. EntryOfOther(p)'
  <2>1. ASSUME NEW e \in L1, L1Other'[e] = j0 PROVE Evicted(e)
    <3>1. L1Other[e] = j0 /\ j0 # NoEntry /\ L2Other[j0] # e
      BY <2>1, <1>1, <1>3, <1>4, Entries DEF TypeOK
    <3> QED BY <3>1, <1>1 DEF NamedByL2
  <2> QED BY <2>1, <1>1, <1>2, <1>5 DEF EntryOfOther, At
<1> QED BY <1>7, <1>8, <1>9, <1>10, <1>11, <1>12 DEF TablesKept


\* The new claim is entered in L2.
LEMMA EnterL2Keeps ==
  ASSUME ClaimInv, NEW p \in Procs, EnterL2(p)
  PROVE  TablesKept
<1> DEFINE e0 == l1entry(p)
           j0 == l2entry(p)
<1>1. /\ TypeOK /\ NamedByL2 /\ NamedByL1 /\ OwnEntry(p) /\ EntryOfOther(p)
      /\ \A q \in Procs : /\ OwnEntry(q) /\ EntryOfOther(q) /\ LocksHeld(q)
                          /\ UNCHANGED <<l1entry(q), l2entry(q)>>
      /\ \A q \in Procs \ {p} : cpu'[q] = cpu[q]
      /\ \A q \in Procs : ~At(q, "idle") => l1entry(q) \in L1 /\ l1entry(q)[1] = q /\ l2entry(q) \in L2
      /\ e0 \in L1 /\ e0[1] = p /\ j0 \in L2 /\ OnlyMoves(p)
  BY TableStep, Alone, Entries DEF ChangesTables, l1entry
<1>2. At(p, "enter") /\ cpu'[p].pc = "entered" /\ UNCHANGED L1Other
  BY <1>1 DEF EnterL2, Goto, TypeOK
<1>3. L2Other'[j0] = e0 /\ \A j \in L2 \ {j0} : L2Other'[j] = L2Other[j]
  BY <1>1 DEF EnterL2, TypeOK
<1>4. /\ \A e \in L1 : Evicted(e) => Evicted(e)'
      /\ \A e \in L1, j \in L2 : Entered(e, j) => Entered(e, j)'
  BY <1>1, <1>2, OthersMeanwhile DEF At
<1>5. ASSUME NEW j \in L2 \ {j0}, Taken(j) PROVE Taken(j)'
  <2>1. PICK q \in Procs \ {p} : At(q, "enter") /\ l2entry(q) = j
    BY <1>5 DEF Taken
  <2> QED BY <2>1, <1>1 DEF Taken, At
<1>6. NamedByL2'
  <2> SUFFICES ASSUME NEW e \in L1, L1Other[e] # NoEntry
               PROVE  Evicted(e)' \/ L2Other'[L1Other[e]] = e
    BY <1>2 DEF NamedByL2
  <2>1. CASE L1Other[e] = j0
    BY <2>1, <1>1, <1>2, <1>4 DEF EntryOfOther
  <2>2. CASE L1Other[e] # j0
    BY <2>2, <1>1, <1>3, <1>4 DEF NamedByL2, TypeOK
  <2> QED BY <2>1, <2>2
<1>7. NamedByL1'
  <2> SUFFICES ASSUME NEW j \in L2, L2Other'[j] # NoL1
               PROVE  L1Other'[L2Other'[j]] = j \/ Entered(L2Other[j], j)' \/ Taken(j)'
    BY DEF NamedByL1
  <2>1. CASE j = j0
    BY <2>1, <1>1, <1>2, <1>3 DEF Entered, At
  <2>2. CASE j # j0
    <3>1. L2Other'[j] = L2Other[j] /\ L2Other[j] \in L1
      BY <2>2, <1>1, <1>3 DEF TypeOK
    <3> QED BY <3>1, <2>2, <1>1, <1>2, <1>4, <1>5 DEF NamedByL1
  <2> QED BY <2>1, <2>2
<1>8. ASSUME NEW q \in Procs \ {p} PROVE OwnEntry(q)'
  <2>1. At(q, "evicted") => \A j \in L2 : L2Other'[j] = l1entry(q) => Taken(j)'
    BY <1>1, <1>3, <1>5 DEF OwnEntry, At
  <2> QED BY <2>1, <1>1, <1>2 DEF OwnEntry, At, Claimed
<1>9. ASSUME NEW q \in Procs \ {p} PROVE EntryOfOther(q)'
  <2>1. cpu[q].pc \in {"lockremote", "remote", "entered"} => L2Other'[l2entry(q)] = L2Other[l2entry(q)]
    BY <1>1, <1>2, <1>3, OneHolder DEF At
  <2> QED BY <2>1, <1>1, <1>2, <1>4 DEF EntryOfOther, At
<1>10. OwnEntry(p)' /\ EntryOfOther(p)'
  BY <1>1, <1>2, <1>3 DEF OwnEntry, EntryOfOther, At
<1> QED BY <1>6, <1>7, <1>8, <1>9, <1>10 DEF TablesKept

\* Then it is entered in L1.
LEMMA EnterL1Keeps ==
  ASSUME ClaimInv, NEW p \in Procs, EnterL1(p)
  PROVE  TablesKept
<1> DEFINE e0 == l1entry(p)
           j0 == l2entry(p)
<1>1. /\ TypeOK /\ NamedByL2 /\ NamedByL1 /\ OwnEntry(p) /\ EntryOfOther(p)
      /\ \A q \in Procs : /\ OwnEntry(q) /\ EntryOfOther(q) /\ LocksHeld(q)
                          /\ UNCHANGED <<l1entry(q), l2entry(q)>>
      /\ \A q \in Procs \ {p} : cpu'[q] = cpu[q]
      /\ \A q \in Procs : ~At(q, "idle") => l1entry(q) \in L1 /\ l1entry(q)[1] = q /\ l2entry(q) \in L2
      /\ e0 \in L1 /\ e0[1] = p /\ j0 \in L2 /\ OnlyMoves(p)
  BY TableStep, Alone, Entries DEF ChangesTables, l1entry
<1>2. At(p, "entered") /\ cpu'[p].pc = "read" /\ UNCHANGED L2Other
  BY <1>1 DEF EnterL1, Goto, TypeOK
<1>3. L1Other'[e0] = j0 /\ \A e \in L1 \ {e0} : L1Other'[e] = L1Other[e]
  BY <1>1 DEF EnterL1, TypeOK
<1>4. L1Other[e0] = NoEntry /\ L2Other[j0] = e0
  BY <1>1, <1>2 DEF OwnEntry, EntryOfOther, At
<1>5. /\ \A e \in L1 : Evicted(e) => Evicted(e)'
      /\ \A j \in L2 : Taken(j) => Taken(j)'
  BY <1>1, <1>2, OthersMeanwhile DEF At
<1>6. NamedByL2'
  BY <1>1, <1>2, <1>3, <1>4, <1>5 DEF NamedByL2
<1>7. NamedByL1'
  <2> SUFFICES ASSUME NEW j \in L2, L2Other[j] # NoL1
               PROVE  L1Other'[L2Other[j]] = j \/ Entered(L2Other[j], j)' \/ Taken(j)'
    BY <1>2 DEF NamedByL1
  <2>1. L2Other[j] \in L1
    BY <1>1 DEF TypeOK
  <2>2. CASE L1Other[L2Other[j]] = j
    BY <2>1, <2>2, <1>3, <1>4, Entries
  <2>3. CASE Entered(L2Other[j], j)
    <3>1. CASE L2Other[j] = e0
      BY <3>1, <2>3, <1>1, <1>3 DEF Entered
    <3>2. CASE L2Other[j] # e0
      <4>1. L2Other[j][1] \in Procs \ {p}
        BY <3>2, <2>1, <2>3, Entries DEF Entered
      <4> QED BY <4>1, <2>3, <1>1, <1>2 DEF Entered, At
    <3> QED BY <3>1, <3>2
  <2>4. CASE Taken(j)
    BY <2>4, <1>5
  <2> QED BY <2>2, <2>3, <2>4, <1>1 DEF NamedByL1
<1>8. ASSUME NEW q \in Procs \ {p} PROVE OwnEntry(q)'
  <2>1. ~At(q, "idle") => L1Other'[l1entry(q)] = L1Other[l1entry(q)]
    BY <1>1, <1>3
  <2> QED BY <2>1, <1>1, <1>2, <1>5 DEF OwnEntry, At, Claimed
<1>9. ASSUME NEW q \in Procs \ {p} PROVE EntryOfOther(q)'
  <2>1. At(q, "enter") => \A e \in L1 : L1Other'[e] = l2entry(q) => Evicted(e)'
    BY <1>1, <1>2, <1>3, <1>5, OneHolder DEF EntryOfOther, At
  <2> QED BY <2>1, <1>1, <1>2 DEF EntryOfOther, At
<1>10. OwnEntry(p)' /\ EntryOfOther(p)'
  BY <1>1, <1>2, <1>3 DEF OwnEntry, EntryOfOther, At, Claimed
<1> QED BY <1>6, <1>7, <1>8, <1>9, <1>10 DEF TablesKept

-----------------------------------------------------------------------------
(* The invariant, and the refinement.                                      *)

\* The invariant holds when the claim tables are empty.
LEMMA ClaimInvInit == Init => ClaimInv
<1> SUFFICES ASSUME Init PROVE ClaimInv
  OBVIOUS
<1>1. TypeOK
  BY ClaimAssumption DEF Init, TypeOK, Idle, PC
<1>2. NamedByL2 /\ NamedByL1
  BY DEF Init, NamedByL2, NamedByL1
<1>3. ASSUME NEW p \in Procs
      PROVE  LocalsKnown(p) /\ LocksHeld(p) /\ OwnEntry(p) /\ EntryOfOther(p)
  BY DEF Init, Idle, LocalsKnown, LocksHeld, OwnEntry, EntryOfOther, At
<1> QED BY <1>1, <1>2, <1>3 DEF ClaimInv

\* Every step keeps it.
LEMMA ClaimInvStep == ClaimInv /\ [Next]_vars => ClaimInv'
<1> SUFFICES ASSUME ClaimInv, [Next]_vars PROVE ClaimInv'
  OBVIOUS
<1>1. CASE UNCHANGED vars
  <2> USE <1>1 DEF vars, tables, locks, At, l1entry, l2entry
  <2>1. TypeOK'
    BY DEF ClaimInv, TypeOK
  <2>2. NamedByL2' /\ NamedByL1'
    BY DEF ClaimInv, NamedByL2, NamedByL1, Evicted, Entered, Taken
  <2>3. ASSUME NEW p \in Procs PROVE LocalsKnown(p)' /\ LocksHeld(p)'
    BY DEF ClaimInv, LocalsKnown, LocksHeld
  <2>4. ASSUME NEW p \in Procs PROVE OwnEntry(p)' /\ EntryOfOther(p)'
    BY DEF ClaimInv, OwnEntry, EntryOfOther, Evicted, Taken, Claimed
  <2> QED BY <2>1, <2>2, <2>3, <2>4 DEF ClaimInv
<1>2. ASSUME NEW p \in Procs, Quiet(p) \/ ChangesTables(p) PROVE ClaimInv'
  <2>1. TypeOK /\ \A q \in Procs : LocalsKnown(q) /\ LocksHeld(q)
    BY DEF ClaimInv
  <2>2. TypeOK'
    BY <1>2, <2>1, TypeStep
  <2>3. \A q \in Procs : LocalsKnown(q)' /\ LocksHeld(q)'
    BY <1>2, <2>1, Alone, OwnHold, OthersHold
  <2>4. TablesKept
    <3>1. CASE Quiet(p)
      BY <3>1, QuietTables, QuietOwn, QuietOthers DEF TablesKept
    <3>2. CASE ChangesTables(p)
      BY <3>2, EvictL2Keeps, EvictL1Keeps, ClearRemoteKeeps, EnterL2Keeps, EnterL1Keeps
         DEF ChangesTables
    <3> QED BY <1>2, <3>1, <3>2
  <2> QED BY <2>2, <2>3, <2>4 DEF ClaimInv, TablesKept
<1> QED BY <1>1, <1>2, Steps

\* XrClaimAddress and XrStoreIfClaimed keep the types of the tables, their locks and
\* their locals.
THEOREM TypeCorrect == Spec => []TypeOK
<1>1. ClaimInv => TypeOK
  BY DEF ClaimInv
<1> QED BY <1>1, ClaimInvInit, ClaimInvStep, PTL DEF Spec

\* The reservations at most lose one, and nothing else happens.
LEMMA Loses ==
  ASSUME NEW p \in Procs, UNCHANGED <<Memory, known>>,
         \A q \in Procs \ {p} : Reserved(q)' = Reserved(q),
         Reserved(p)' \in {Reserved(p), None}
  PROVE  [R!ReservationsNext]_(R!reservationVars)
<1>1. CASE Reserved(p)' = Reserved(p)
  BY <1>1 DEF R!reservationVars
<1>2. CASE Reserved(p)' = None
  <2>1. R!Lose(p)
    BY <1>2 DEF R!Lose
  <2> QED BY <2>1 DEF R!ReservationsNext
<1> QED BY <1>1, <1>2

\* Only taking a claim away touches the reservation of another processor.
LEMMA OthersReserved ==
  ASSUME ClaimInv, NEW p \in Procs, Quiet(p) \/ ChangesTables(p), ~ClearRemote(p),
         NEW q \in Procs \ {p}
  PROVE  Reserved(q)' = Reserved(q)
<1>1. TypeOK /\ LocalsKnown(p) /\ LocksHeld(p)
  BY DEF ClaimInv
<1>2. cpu'[q] = cpu[q] /\ Locked'[q] = Locked[q]
  BY <1>1, Alone DEF OnlyMoves
<1>3. \A e \in L1 : e[1] = q => L1Other'[e] = L1Other[e]
  <2>1. CASE Quiet(p)
    BY <2>1, <1>1, QuietLeaves DEF tables
  <2>2. CASE EvictL2(p) \/ EnterL2(p)
    BY <2>2 DEF EvictL2, EnterL2
  <2>3. CASE EvictL1(p) \/ EnterL1(p)
    BY <2>3, <1>1 DEF EvictL1, EnterL1, TypeOK, l1entry
  <2> QED BY <2>1, <2>2, <2>3 DEF ChangesTables
<1>4. Locked[q] # None => <<q, L1Index(Locked[q])>> \in L1
  BY <1>1 DEF TypeOK, L1
<1> QED BY <1>2, <1>3, <1>4 DEF Reserved

\* An LL that finishes has the claim of its word.
LEMMA ReadReserves ==
  ASSUME ClaimInv, NEW p \in Procs, ReadClaimed(p) \/ ReadEntered(p)
  PROVE  R!ReservationsNext
<1>1. TypeOK /\ LocalsKnown(p) /\ OwnEntry(p) /\ Quiet(p)
  BY DEF ClaimInv, Quiet
<1>2. ReadAndReturn(p) /\ UNCHANGED <<tables, Memory>> /\ cpu[p].addr \in Addrs /\ Claimed(p)
  BY <1>1 DEF ReadClaimed, ReadEntered, At, LocalsKnown, OwnEntry
<1>3. cpu'[p].pc = "idle" /\ Locked'[p] = cpu[p].addr /\ L1Other' = L1Other
  BY <1>1, <1>2 DEF ReadAndReturn, Idle, TypeOK, tables
<1>4. Reserved(p)' = cpu[p].addr
  BY <1>2, <1>3, Entries DEF Reserved, Claimed, l1entry, l2entry
<1>5. ~ClearRemote(p)
  BY DEF ReadClaimed, ReadEntered, ClearRemote, At
<1>6. \A q \in Procs \ {p} : Reserved(q)' = Reserved(q)
  BY <1>1, <1>5, OthersReserved
<1>7. R!LoadLinked(p, cpu[p].addr)
  BY <1>2, <1>4, <1>6 DEF R!LoadLinked, ReadAndReturn
<1> QED BY <1>2, <1>7 DEF R!ReservationsNext

\* Two processors do not have the claim of one L2 entry, unless one of them is
\* clearing its own.
LEMMA OneReservation ==
  ASSUME ClaimInv, NEW p \in Procs, NEW q \in Procs \ {p}, Reserved(p) # None
  PROVE  Reserved(q) # Reserved(p)
<1> DEFINE a == Locked[p]
           e == <<p, L1Index(a)>>
           f == <<q, L1Index(a)>>
<1> SUFFICES ASSUME Reserved(q) = Reserved(p) PROVE FALSE
  OBVIOUS
<1>1. /\ a \in Addrs /\ Locked[q] = a /\ L1Other[e] = L2Index(a) /\ L1Other[f] = L2Index(a)
      /\ ~At(p, "evicted") /\ ~At(q, "evicted")
  BY DEF ClaimInv, TypeOK, Reserved, At
<1>2. e \in L1 /\ f \in L1 /\ L2Index(a) \in L2
  BY <1>1 DEF L1, L2
<1>3. L2Other[L2Index(a)] = e /\ L2Other[L2Index(a)] = f
  BY <1>1, <1>2, Entries DEF ClaimInv, NamedByL2, Evicted
<1> QED BY <1>3

\* An SC that stores does so under the only reservation of the word.
LEMMA StoreReserved ==
  ASSUME ClaimInv, NEW p \in Procs, NEW v \in Values, Store(p, v)
  PROVE  R!ReservationsNext
<1> DEFINE a == cpu[p].addr
<1>1. TypeOK /\ LocalsKnown(p) /\ OwnEntry(p) /\ Quiet(p) /\ At(p, "store") /\ ~ClearRemote(p)
  BY DEF ClaimInv, Quiet, Store, ClearRemote, At
<1>2. a \in Addrs /\ Locked[p] = a /\ Claimed(p)
  BY <1>1 DEF LocalsKnown, OwnEntry, At
<1>3. cpu'[p].pc = "idle" /\ UNCHANGED <<Locked, L1Other>>
  BY <1>1 DEF Store, Idle, TypeOK, tables
<1>4. Reserved(p) = a /\ Reserved(p)' = a /\ a # None
  BY <1>1, <1>2, <1>3, Entries DEF Reserved, Claimed, At, l1entry, l2entry
<1>5. \A q \in Procs \ {p} : Reserved(q)' = Reserved(q) /\ Reserved(q) # a
  BY <1>1, <1>4, OthersReserved, OneReservation
<1>6. R!StoreConditional(p, a, v)
  BY <1>4, <1>5 DEF R!StoreConditional, Store
<1> QED BY <1>2, <1>6 DEF R!ReservationsNext

\* Every step is one of the abstract reservations, or none.
LEMMA RefinementStep == ClaimInv /\ [Next]_vars => [R!ReservationsNext]_(R!reservationVars)
<1> SUFFICES ASSUME ClaimInv, [Next]_vars
             PROVE  [R!ReservationsNext]_(R!reservationVars)
  OBVIOUS
<1>1. CASE UNCHANGED vars
  BY <1>1 DEF vars, tables, R!reservationVars, Reserved
<1>2. ASSUME NEW p \in Procs, Quiet(p)
      PROVE  [R!ReservationsNext]_(R!reservationVars)
  <2> USE <1>2
  <2>2. TypeOK /\ LocalsKnown(p) /\ LocksHeld(p) /\ ~ClearRemote(p) /\ L1Other' = L1Other
    <3>1. TypeOK /\ LocalsKnown(p) /\ LocksHeld(p)
      BY DEF ClaimInv
    <3>2. ~ClearRemote(p)
      BY DEF Quiet, Begin, PlainStore, BeginStore, Rfe, LockL1, ReadClaimed, LockL2, LockRemote,
             ReadEntered, LockStore, Store, ClearRemote, At
    <3> QED BY <3>1, <3>2, QuietLeaves DEF tables
  <2>3. \A q \in Procs \ {p} : Reserved(q)' = Reserved(q)
    BY <2>2, OthersReserved
  <2>4. CASE ReadClaimed(p) \/ ReadEntered(p)
    BY <2>4, ReadReserves
  <2>5. CASE \E v \in Values : Store(p, v)
    BY <2>5, StoreReserved
  <2>6. CASE \E a \in Plain, v \in Values : PlainStore(p, a, v)
    <3>1. PICK a \in Plain, v \in Values : PlainStore(p, a, v)
      BY <2>6
    <3>2. Reserved(p)' = Reserved(p)
      BY <3>1, <2>2 DEF PlainStore, Reserved
    <3>3. R!PlainStore(a, v)
      BY <3>1, <3>2, <2>3 DEF PlainStore, R!PlainStore
    <3> QED BY <3>3 DEF R!ReservationsNext
  <2>7. CASE \/ \E a \in Addrs : Begin(p, a)
             \/ BeginStore(p) \/ LockL1(p) \/ LockL2(p) \/ LockRemote(p) \/ LockStore(p)
    <3>1. UNCHANGED <<Memory, known>>
      BY <2>7 DEF Begin, BeginStore, LockL1, LockL2, LockRemote, LockStore
    <3>2. Reserved(p)' \in {Reserved(p), None}
      <4>1. Locked' = Locked
        BY <2>7 DEF Begin, BeginStore, LockL1, LockL2, LockRemote, LockStore
      <4>2. cpu[p].pc \in {"idle", "sc", "store"} \/ cpu'[p].pc \notin {"idle", "sc", "store"}
        <5>1. CASE (\E a \in Addrs : Begin(p, a)) \/ BeginStore(p) \/ LockStore(p)
          BY <5>1 DEF Begin, BeginStore, LockStore, At
        <5>2. CASE LockL1(p)
          BY <5>2, <2>2 DEF LockL1, Goto, TypeOK
        <5>3. CASE LockL2(p) \/ LockRemote(p)
          BY <5>3, <2>2 DEF LockL2, LockRemote, Goto, TypeOK
        <5> QED BY <2>7, <5>1, <5>2, <5>3
      <4> QED BY <4>1, <4>2, <2>2 DEF Reserved
    <3> QED BY <3>1, <3>2, <2>3, Loses
  <2>8. CASE Rfe(p)
    <3>1. Reserved(p)' = None
      BY <2>8, <2>2 DEF Rfe, Reserved, TypeOK
    <3>2. R!GiveUp(p)
      BY <2>8, <2>3, <3>1 DEF Rfe, R!GiveUp
    <3> QED BY <3>2 DEF R!ReservationsNext
  <2> QED BY <2>4, <2>5, <2>6, <2>7, <2>8 DEF Quiet
<1>3. ASSUME NEW p \in Procs, ChangesTables(p)
      PROVE  [R!ReservationsNext]_(R!reservationVars)
  <2> USE <1>3
  <2>1. TypeOK /\ LocalsKnown(p) /\ LocksHeld(p) /\ UNCHANGED <<Memory, Locked, known>>
    BY DEF ClaimInv, ChangesTables, EvictL2, EvictL1, ClearRemote, EnterL2, EnterL1
  <2>2. Reserved(p) = None /\ Reserved(p)' = None
    BY <2>1 DEF ChangesTables, EvictL2, EvictL1, ClearRemote, EnterL2, EnterL1, Goto, At, TypeOK,
                Reserved
  <2>3. CASE ~ClearRemote(p)
    BY <2>1, <2>2, <2>3, OthersReserved, Loses
  <2>4. CASE ClearRemote(p)
    <3> DEFINE r == cpu[p].remote
    <3>1. PICK o \in Procs : r \in L1 /\ o = r[1]
      BY <2>1, <2>4, Entries DEF LocalsKnown, ClearRemote, At
    <3>2. \A q \in Procs \ {p} : cpu'[q] = cpu[q]
      BY <2>1, Alone DEF OnlyMoves
    <3>3. L1Other' = L1Other \/ L1Other' = [L1Other EXCEPT ![r] = NoEntry]
      BY <2>4 DEF ClearRemote
    <3>4. \A e \in L1 : L1Other'[e] = L1Other[e] \/ (e[1] = o /\ L1Other'[e] = NoEntry)
      BY <2>1, <3>1, <3>3 DEF TypeOK
    <3>5. \A q \in Procs : Locked[q] # None =>
            <<q, L1Index(Locked[q])>> \in L1 /\ L2Index(Locked[q]) # NoEntry
      BY <2>1, Entries DEF TypeOK, L1, L2
    <3>6. \A q \in Procs \ {o} : Reserved(q)' = Reserved(q)
      BY <2>1, <2>2, <3>2, <3>4, <3>5 DEF Reserved
    <3>7. Reserved(o)' \in {Reserved(o), None}
      <4>1. CASE o = p
        BY <4>1, <2>2
      <4>2. CASE o # p
        BY <4>2, <2>1, <3>2, <3>4, <3>5 DEF Reserved
      <4> QED BY <4>1, <4>2
    <3> QED BY <2>1, <3>6, <3>7, Loses
  <2> QED BY <2>3, <2>4
<1> QED BY <1>1, <1>2, <1>3, Steps

\* The claim tables implement reservations: an SC that succeeds stores under one that
\* no other processor's SC has ended since the LL.
THEOREM TablesReserve == Spec => Reserves
<1>1. Init => R!ReservationsInit
  BY DEF Init, R!ReservationsInit, Reserved
<1> QED BY <1>1, ClaimInvInit, ClaimInvStep, RefinementStep, PTL DEF Spec, Reserves, R!ReservationsSpec

\* What an SC overwrites is what its LL read, for words that software stores to by SC
\* alone.  This needs no more of the tables than that they implement reservations.
THEOREM ScUpdatesWhatLlRead == Spec => []ReservedIsKnown
<1>1. Init => ReservedIsKnown
  BY DEF Init, ReservedIsKnown, Reserved
<1>2. ReservedIsKnown /\ ClaimInv /\ [R!ReservationsNext]_(R!reservationVars) => ReservedIsKnown'
  <2> SUFFICES ASSUME ReservedIsKnown, TypeOK, [R!ReservationsNext]_(R!reservationVars),
                      NEW q \in Procs, Reserved(q)' \notin Plain \cup {None}
               PROVE  Memory'[Reserved(q)'] = known'[q]
    BY DEF ReservedIsKnown, ClaimInv
  <2> USE DEF ReservedIsKnown, TypeOK
  <2>1. CASE UNCHANGED R!reservationVars
    BY <2>1 DEF R!reservationVars
  <2>2. ASSUME NEW p \in Procs, NEW a \in Addrs, R!LoadLinked(p, a)
        PROVE  Memory'[Reserved(q)'] = known'[q]
    BY <2>2 DEF R!LoadLinked
  <2>3. ASSUME NEW p \in Procs, NEW a \in Addrs, NEW v \in Values, R!StoreConditional(p, a, v)
        PROVE  Memory'[Reserved(q)'] = known'[q]
    BY <2>3 DEF R!StoreConditional
  <2>4. ASSUME NEW p \in Procs, R!Lose(p)
        PROVE  Memory'[Reserved(q)'] = known'[q]
    BY <2>4 DEF R!Lose
  <2>5. ASSUME NEW p \in Procs, R!GiveUp(p)
        PROVE  Memory'[Reserved(q)'] = known'[q]
    BY <2>5 DEF R!GiveUp
  <2>6. ASSUME NEW a \in Plain, NEW v \in Values, R!PlainStore(a, v)
        PROVE  Memory'[Reserved(q)'] = known'[q]
    BY <2>6 DEF R!PlainStore
  <2> QED BY <2>1, <2>2, <2>3, <2>4, <2>5, <2>6 DEF R!ReservationsNext
<1> QED BY <1>1, <1>2, ClaimInvInit, ClaimInvStep, RefinementStep, PTL DEF Spec


\* A claim goes away only through its own processor's LL of a word in the same L1 entry, or
\* through a processor that holds the L2 entry of the claim, for that word or for another
\* that shares the entry.
THEOREM ClaimsLostForACause == Spec => LostForACause
<1> DEFINE Lost(e) == L1Other[e] # NoEntry /\ L1Other'[e] # L1Other[e]
           Cause(e) == At(e[1], "evicted") \/ L2Lock[L1Other[e]] # None
<1>1. ClaimInv /\ [Next]_vars => \A e \in L1 : Lost(e) => Cause(e)
  <2> SUFFICES ASSUME ClaimInv, [Next]_vars, NEW e \in L1, Lost(e)
               PROVE  Cause(e)
    OBVIOUS
  <2>1. PICK p \in Procs : Quiet(p) \/ ChangesTables(p)
    BY Steps DEF vars, tables
  <2>2. TypeOK /\ LocalsKnown(p) /\ LocksHeld(p) /\ OwnEntry(p)
    BY DEF ClaimInv
  <2>3. ~Quiet(p) /\ ~EvictL2(p) /\ ~EnterL2(p)
    BY <2>2, QuietLeaves DEF tables, EvictL2, EnterL2
  <2>4. CASE EvictL1(p)
    BY <2>2, <2>4 DEF EvictL1, TypeOK, l1entry
  <2>5. CASE EnterL1(p)
    BY <2>2, <2>5 DEF EnterL1, TypeOK, OwnEntry, At
  <2>6. CASE ClearRemote(p)
    <3>1. L2Other[l2entry(p)] # NoL1 /\ e = cpu[p].remote
      BY <2>2, <2>6 DEF ClearRemote, TypeOK
    <3>2. L1Other[e] = l2entry(p) /\ L2Lock[l2entry(p)] = p
      BY <3>1, <2>2, <2>6, RemoteIsClaim DEF LocksHeld, ClearRemote, At
    <3> QED BY <3>2, Entries
  <2> QED BY <2>1, <2>3, <2>4, <2>5, <2>6 DEF ChangesTables
<1> QED BY <1>1, ClaimInvInit, ClaimInvStep, PTL DEF Spec, LostForACause
=============================================================================
