----------------------------- MODULE ClaimTable -----------------------------
(***************************************************************************)
(* LL and SC of the build without caches (FASTMEMORY, several threads):    *)
(* the claim tables of xrfastaccess.inc.c.  Each processor has an L1       *)
(* table, all share the L2 table; an L1 entry and an L2 entry that name    *)
(* each other are a claim of the processor on the words that hash to both. *)
(* XrClaimAddress makes the claim, taking it from the processor that has   *)
(* it, and XrStoreIfClaimed stores only under it.                          *)
(*                                                                         *)
(* Words reached without translation or outside RAM are not claimed at all *)
(* (XrAccessRead, XrAccessWrite); they are not here.                       *)
(*                                                                         *)
(* Each entry has a lock, but an L2 entry is cleared under the lock of the *)
(* L1 entry that it names, and an L1 entry is set by its own processor     *)
(* under the lock of the L2 entry: every read and write that another       *)
(* thread could come between is a step.                                    *)
(***************************************************************************)
EXTENDS Integers

CONSTANTS
  Procs, Addrs, Plain, Values, None,
  L1Size,    \* XR_L1_CLAIM_TABLE_SIZE
  L2Size     \* XR_L2_CLAIM_TABLE_SIZE

ASSUME ClaimAssumption ==
  /\ Addrs \subseteq Nat
  /\ Plain \subseteq Addrs
  /\ None \notin Addrs \cup Values \cup Procs
  /\ L1Size \in Nat \ {0} /\ L2Size \in Nat \ {0}

\* A word stands for its XR_CLAIM_HASH; a program gives SC the address of its last LL.
L1Index(a) == a % L1Size
L2Index(a) == a % L2Size

L1 == Procs \X {L1Index(a) : a \in Addrs}   \* entries of all the L1 tables
L2 == {L2Index(a) : a \in Addrs}
NoEntry == -1                               \* OtherEntry = 0 in an L1 entry
NoL1 == <<None, -1>>                        \* OtherEntry = 0 in an L2 entry

VARIABLES
  L1Other,   \* [L1 -> L2 or NoEntry]: OtherEntry
  L2Other,   \* [L2 -> L1 or NoL1]
  L1Lock, L2Lock,
  Memory,
  Locked,    \* [Procs -> None: Locked = 0; otherwise the word of the last LL]
  cpu,       \* locals of the LL or SC each processor is in
  known      \* history: what it last loaded with LL or stored with SC, since its last RFE

tables == <<L1Other, L2Other>>
locks == <<L1Lock, L2Lock>>
vars == <<tables, locks, Memory, Locked, cpu, known>>

PC == {"idle", "lock1", "hit", "evict", "evicted", "lock2", "lockremote", "remote",
       "enter", "entered", "read", "sc", "store"}
Idle == [pc |-> "idle", addr |-> None, remote |-> NoL1]

Init ==
  /\ L1Other = [e \in L1 |-> NoEntry]
  /\ L2Other = [e \in L2 |-> NoL1]
  /\ L1Lock = [e \in L1 |-> None]
  /\ L2Lock = [e \in L2 |-> None]
  /\ Memory \in [Addrs -> Values]
  /\ Locked = [p \in Procs |-> None]
  /\ cpu = [p \in Procs |-> Idle]
  /\ known = [p \in Procs |-> None]

At(p, label) == cpu[p].pc = label
Goto(p, label) == cpu' = [cpu EXCEPT ![p].pc = label]
l1entry(p) == <<p, L1Index(cpu[p].addr)>>
l2entry(p) == L2Index(cpu[p].addr)
Claimed(p) == L1Other[l1entry(p)] = l2entry(p)

Lock1(p, e) == L1Lock[e] = None /\ L1Lock' = [L1Lock EXCEPT ![e] = p]
Unlock1(e) == L1Lock' = [L1Lock EXCEPT ![e] = None]
-----------------------------------------------------------------------------
(* XrClaimAddress.                                                         *)

Begin(p, a) ==
  /\ At(p, "idle")
  /\ cpu' = [cpu EXCEPT ![p] = [Idle EXCEPT !.pc = "lock1", !.addr = a]]
  /\ UNCHANGED <<tables, locks, Memory, Locked, known>>

\* The lock of the L1 entry, and what it holds.
LockL1(p) ==
  /\ At(p, "lock1")
  /\ Lock1(p, l1entry(p))
  /\ Goto(p, IF Claimed(p) THEN "hit"
             ELSE IF L1Other[l1entry(p)] # NoEntry THEN "evict" ELSE "evicted")
  /\ UNCHANGED <<tables, L2Lock, Memory, Locked, known>>

\* val = *hostaddr, and XrExecuteLL sets Locked.
ReadAndReturn(p) ==
  /\ known' = [known EXCEPT ![p] = Memory[cpu[p].addr]]
  /\ Locked' = [Locked EXCEPT ![p] = cpu[p].addr]
  /\ cpu' = [cpu EXCEPT ![p] = Idle]

\* The claim is there already.
ReadClaimed(p) ==
  /\ At(p, "hit")
  /\ ReadAndReturn(p)
  /\ Unlock1(l1entry(p))
  /\ UNCHANGED <<tables, L2Lock, Memory>>

\* l1entry->OtherEntry->OtherEntry = 0.
EvictL2(p) ==
  /\ At(p, "evict")
  /\ L2Other' = [L2Other EXCEPT ![L1Other[l1entry(p)]] = NoL1]
  /\ Goto(p, "evicted")
  /\ UNCHANGED <<L1Other, locks, Memory, Locked, known>>

\* l1entry->OtherEntry = 0, if it was not.
EvictL1(p) ==
  /\ At(p, "evicted")
  /\ L1Other' = [L1Other EXCEPT ![l1entry(p)] = NoEntry]
  /\ Unlock1(l1entry(p))
  /\ Goto(p, "lock2")
  /\ UNCHANGED <<L2Other, L2Lock, Memory, Locked, known>>

\* The lock of the L2 entry, and the L1 entry that it names.
LockL2(p) ==
  /\ At(p, "lock2")
  /\ L2Lock[l2entry(p)] = None
  /\ L2Lock' = [L2Lock EXCEPT ![l2entry(p)] = p]
  /\ LET remote == L2Other[l2entry(p)] IN
     cpu' = [cpu EXCEPT ![p].remote = remote,
                        ![p].pc = IF remote = NoL1 THEN "enter" ELSE "lockremote"]
  /\ UNCHANGED <<tables, L1Lock, Memory, Locked, known>>

LockRemote(p) ==
  /\ At(p, "lockremote")
  /\ Lock1(p, cpu[p].remote)
  /\ Goto(p, "remote")
  /\ UNCHANGED <<tables, L2Lock, Memory, Locked, known>>

\* Mutation: the claim is taken without telling its owner.
KeepRemote(p) ==
  /\ At(p, "remote")
  /\ UNCHANGED L1Other
  /\ Unlock1(cpu[p].remote)
  /\ Goto(p, "enter")
  /\ UNCHANGED <<L2Other, L2Lock, Memory, Locked, known>>

\* Mutation: the L2 entry is not looked at again.
ClearRemoteUnchecked(p) ==
  /\ At(p, "remote")
  /\ L1Other' = [L1Other EXCEPT ![cpu[p].remote] = NoEntry]
  /\ Unlock1(cpu[p].remote)
  /\ Goto(p, "enter")
  /\ UNCHANGED <<L2Other, L2Lock, Memory, Locked, known>>

\* Mutation: the lock is kept.
ClearRemoteLocked(p) ==
  /\ At(p, "remote")
  /\ L1Other' = IF L2Other[l2entry(p)] = NoL1 THEN L1Other
                ELSE [L1Other EXCEPT ![cpu[p].remote] = NoEntry]
  /\ Goto(p, "enter")
  /\ UNCHANGED <<L2Other, locks, Memory, Locked, known>>

\* The remote entry is cleared, unless its owner has done so.  It is locked, and
\* nobody else changes what this L2 entry names.
ClearRemote(p) ==
  /\ At(p, "remote")
  /\ L1Other' = IF L2Other[l2entry(p)] = NoL1 THEN L1Other
                ELSE [L1Other EXCEPT ![cpu[p].remote] = NoEntry]
  /\ Unlock1(cpu[p].remote)
  /\ Goto(p, "enter")
  /\ UNCHANGED <<L2Other, L2Lock, Memory, Locked, known>>

\* The two entries are made to name each other.
EnterL2(p) ==
  /\ At(p, "enter")
  /\ L2Other' = [L2Other EXCEPT ![l2entry(p)] = l1entry(p)]
  /\ Goto(p, "entered")
  /\ UNCHANGED <<L1Other, locks, Memory, Locked, known>>

EnterL1(p) ==
  /\ At(p, "entered")
  /\ L1Other' = [L1Other EXCEPT ![l1entry(p)] = l2entry(p)]
  /\ Goto(p, "read")
  /\ UNCHANGED <<L2Other, locks, Memory, Locked, known>>

ReadEntered(p) ==
  /\ At(p, "read")
  /\ ReadAndReturn(p)
  /\ L2Lock' = [L2Lock EXCEPT ![l2entry(p)] = None]
  /\ UNCHANGED <<tables, L1Lock, Memory>>
-----------------------------------------------------------------------------
(* XrStoreIfClaimed.                                                       *)

\* XrExecuteSC, when Locked: to the word of the last LL.
BeginStore(p) ==
  /\ At(p, "idle")
  /\ Locked[p] # None
  /\ cpu' = [cpu EXCEPT ![p] = [Idle EXCEPT !.pc = "sc", !.addr = Locked[p]]]
  /\ UNCHANGED <<tables, locks, Memory, Locked, known>>

\* Mutation: SC does not look at the claim.
LockStoreAnyway(p) ==
  /\ At(p, "sc")
  /\ Lock1(p, l1entry(p))
  /\ Goto(p, "store")
  /\ UNCHANGED <<tables, L2Lock, Memory, Locked, known>>

\* The lock, under which the claim stays what it is; without it SC fails.
LockStore(p) ==
  /\ At(p, "sc")
  /\ L1Lock[l1entry(p)] = None
  /\ IF Claimed(p) THEN Lock1(p, l1entry(p)) /\ Goto(p, "store")
     ELSE cpu' = [cpu EXCEPT ![p] = Idle] /\ UNCHANGED L1Lock
  /\ UNCHANGED <<tables, L2Lock, Memory, Locked, known>>

Store(p, v) ==
  /\ At(p, "store")
  /\ Memory' = [Memory EXCEPT ![cpu[p].addr] = v]
  /\ known' = [known EXCEPT ![p] = v]
  /\ Unlock1(l1entry(p))
  /\ cpu' = [cpu EXCEPT ![p] = Idle]
  /\ UNCHANGED <<tables, L2Lock, Locked>>
-----------------------------------------------------------------------------
\* XrExecuteRfe.
Rfe(p) ==
  /\ At(p, "idle")
  /\ Locked' = [Locked EXCEPT ![p] = None]
  /\ known' = [known EXCEPT ![p] = None]
  /\ UNCHANGED <<tables, locks, Memory, cpu>>

\* An ordinary store of a processor, which does not look at claims.
PlainStore(p, a, v) ==
  /\ At(p, "idle")
  /\ Memory' = [Memory EXCEPT ![a] = v]
  /\ UNCHANGED <<tables, locks, Locked, cpu, known>>

Continue(p) ==
  \/ LockL1(p) \/ ReadClaimed(p) \/ EvictL2(p) \/ EvictL1(p)
  \/ LockL2(p) \/ LockRemote(p) \/ ClearRemote(p) \/ EnterL2(p) \/ EnterL1(p) \/ ReadEntered(p)
  \/ LockStore(p) \/ \E v \in Values : Store(p, v)

Next ==
  \E p \in Procs :
    \/ \E a \in Addrs : Begin(p, a)
    \/ \E a \in Plain, v \in Values : PlainStore(p, a, v)
    \/ BeginStore(p) \/ Rfe(p) \/ Continue(p)

Spec == Init /\ [][Next]_vars

\* A host thread inside a handler keeps running, and a contended XrMutex admits one
\* of its waiters.
FairSpec == Spec /\ \A p \in Procs : WF_vars(Continue(p))
-----------------------------------------------------------------------------
\* Types of the tables, their locks and the processors' locals.
TypeOK ==
  /\ L1Other \in [L1 -> L2 \cup {NoEntry}]
  /\ L2Other \in [L2 -> L1 \cup {NoL1}]
  /\ L1Lock \in [L1 -> Procs \cup {None}]
  /\ L2Lock \in [L2 -> Procs \cup {None}]
  /\ Memory \in [Addrs -> Values]
  /\ Locked \in [Procs -> Addrs \cup {None}]
  /\ cpu \in [Procs -> [pc : PC, addr : Addrs \cup {None}, remote : L1 \cup {NoL1}]]
  /\ known \in [Procs -> Values \cup {None}]

\* The reservation that a processor can store under: its last LL's, if the claim is
\* still there and it is not making another.
Reserved(p) ==
  LET a == Locked[p] IN
  IF cpu[p].pc \in {"idle", "sc", "store"} /\ a # None
       /\ L1Other[<<p, L1Index(a)>>] = L2Index(a)
  THEN a ELSE None

\* The tables keep what LL and SC promise: a store under a claim is one under a
\* reservation that no other processor's SC has ended since the LL.
R == INSTANCE Reservations WITH reserved <- [p \in Procs |-> Reserved(p)]
Reserves == R!ReservationsSpec

\* A word under a processor's reservation holds what it loaded, or stored itself,
\* so that an SC updates what its LL read.
ReservedIsKnown ==
  \A p \in Procs : Reserved(p) \notin Plain \cup {None} => Memory[Reserved(p)] = known[p]

\* A claim is lost only to its processor's own LL of a word in its L1 entry, or to a
\* processor that has the lock of its L2 entry: a word that shares neither entry with it
\* takes nothing from it, and a claim made since by others is not cleared for an older one.
LostForACause ==
  [][\A e \in L1 : L1Other[e] # NoEntry /\ L1Other'[e] # L1Other[e] =>
       At(e[1], "evicted") \/ L2Lock[L1Other[e]] # None]_vars

\* The nested locks of XrClaimAddress do not keep the same processors busy for
\* ever: one of them finishes, or another one begins.
Progress ==
  \A busy \in (SUBSET Procs) \ {{}} : []<>({p \in Procs : ~At(p, "idle")} # busy)
=============================================================================
