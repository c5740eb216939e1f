-------------------------------- MODULE Lsic --------------------------------
(***************************************************************************)
(* The interrupt controllers of lsic.c, one for each processor.  Every     *)
(* handler runs under the InterruptLock of the processor whose controller  *)
(* it is, so each is one step.  A pair of 32-bit registers is one set of   *)
(* interrupt numbers.                                                      *)
(***************************************************************************)
EXTENDS Integers

CONSTANTS
  Procs,      \* Ids of the processors in XrProcessorTable
  Numbers     \* interrupt numbers, 0 .. 63 in the code

ASSUME ProcsAssumption == Procs \subseteq Nat
ASSUME NumbersAssumption == Numbers \subseteq 0 .. 63

Word(w) == {n \in Numbers : 32 * w <= n /\ n < 32 * (w + 1)}  \* bits of register w
Sources == Numbers \ {0}                                      \* what LsicInterrupt accepts

VARIABLES
  Mask,               \* LSIC_MASK_0 and LSIC_MASK_1
  Pending,            \* LSIC_PENDING_0 and LSIC_PENDING_1
  Ipl,                \* LSIC_IPL
  LowIplMask, HighIplMask,
  InterruptPending    \* read by the processor without the lock

lsicVars == <<Mask, Pending, Ipl, LowIplMask, HighIplMask, InterruptPending>>

\* LsicTable is zero at start.
LsicInit ==
  /\ Mask = [p \in Procs |-> {}]
  /\ Pending = [p \in Procs |-> {}]
  /\ Ipl = [p \in Procs |-> 0]
  /\ LowIplMask = [p \in Procs |-> {}]
  /\ HighIplMask = [p \in Procs |-> {}]
  /\ InterruptPending = [p \in Procs |-> FALSE]

\* The expression that ends LsicInterruptTargeted and LsicWrite.
Line(mask, pending, low, high) ==
  (pending \cap low) \ mask # {} \/ (pending \cap high) \ mask # {}

\* InterruptPending of p follows its registers.
Recompute(p) ==
  InterruptPending' = [InterruptPending EXCEPT ![p] =
    Line(Mask'[p], Pending'[p], LowIplMask'[p], HighIplMask'[p])]

\* LsicInterruptTargeted.
InterruptTargeted(p, n) ==
  /\ Pending' = [Pending EXCEPT ![p] = @ \cup {n}]
  /\ UNCHANGED <<Mask, Ipl, LowIplMask, HighIplMask>>
  /\ Recompute(p)

\* Mutation: unmasking does not look for interrupts already pending.
WriteMaskQuietly(p, w, value) ==
  /\ Mask' = [Mask EXCEPT ![p] = (@ \ Word(w)) \cup value]
  /\ UNCHANGED <<Pending, Ipl, LowIplMask, HighIplMask, InterruptPending>>

\* LsicWrite: LSIC_MASK_0, LSIC_MASK_1.
WriteMask(p, w, value) ==
  /\ Mask' = [Mask EXCEPT ![p] = (@ \ Word(w)) \cup value]
  /\ UNCHANGED <<Pending, Ipl, LowIplMask, HighIplMask>>
  /\ Recompute(p)

\* Mutation: the value is stored instead of ORed.
WritePendingStores(p, w, value) ==
  /\ Pending' = [Pending EXCEPT ![p] = (@ \ Word(w)) \cup (value \ {32 * w})]
  /\ UNCHANGED <<Mask, Ipl, LowIplMask, HighIplMask>>
  /\ Recompute(p)

\* LsicWrite: LSIC_PENDING_0, LSIC_PENDING_1.  Zero clears the register; anything
\* else is ORed into it, without bit 0 of either register.
WritePending(p, w, value) ==
  /\ Pending' = [Pending EXCEPT ![p] =
       IF value = {} THEN @ \ Word(w) ELSE @ \cup (value \ {32 * w})]
  /\ UNCHANGED <<Mask, Ipl, LowIplMask, HighIplMask>>
  /\ Recompute(p)

\* LsicWrite: LSIC_CLAIM_COMPLETE.
WriteComplete(p, n) ==
  /\ Pending' = [Pending EXCEPT ![p] = @ \ {n}]
  /\ UNCHANGED <<Mask, Ipl, LowIplMask, HighIplMask>>
  /\ Recompute(p)

\* LsicIplMasks[v], as bits of register w: bit 0 to bit v.
IplMask(w, v) == {n \in Word(w) : n - 32 * w <= v}

\* LsicWrite: LSIC_IPL.
WriteIpl(p, n) ==
  /\ Ipl' = [Ipl EXCEPT ![p] = n]
  /\ LowIplMask' = [LowIplMask EXCEPT ![p] = IF n >= 32 THEN Word(0) ELSE IplMask(0, n)]
  /\ HighIplMask' = [HighIplMask EXCEPT ![p] = IF n >= 32 THEN IplMask(1, n - 32) ELSE {}]
  /\ UNCHANGED <<Mask, Pending>>
  /\ Recompute(p)

\* LsicRead of LSIC_CLAIM_COMPLETE: the first number from 1 to the IPL that is
\* pending and not masked, or 0.
Claimable(p) == {n \in (1 .. Ipl[p]) \cap Numbers : n \in Pending[p] /\ n \notin Mask[p]}
Claim(p) ==
  IF Claimable(p) = {} THEN 0
  ELSE CHOOSE n \in Claimable(p) : \A m \in Claimable(p) : n <= m

LsicNext ==
  \E p \in Procs :
    \/ \E n \in Sources : InterruptTargeted(p, n)
    \/ \E w \in {0, 1} : \E value \in SUBSET Word(w) :
         WriteMask(p, w, value) \/ WritePending(p, w, value)
    \/ \E n \in Numbers : WriteComplete(p, n) \/ WriteIpl(p, n)

LsicSpec == LsicInit /\ [][LsicNext]_lsicVars
-----------------------------------------------------------------------------
\* Types of the controllers' registers.
LsicTypeOK ==
  /\ Mask \in [Procs -> SUBSET Numbers]
  /\ Pending \in [Procs -> SUBSET Numbers]
  /\ Ipl \in [Procs -> Numbers \cup {0}]
  /\ LowIplMask \in [Procs -> SUBSET Word(0)]
  /\ HighIplMask \in [Procs -> SUBSET Word(1)]
  /\ InterruptPending \in [Procs -> BOOLEAN]

\* The flag that interrupts the processor and the number its handler then reads
\* agree, though one comes from the masks LsicWrite derives from the IPL and the
\* other from the loop of LsicRead: a processor is never interrupted for nothing,
\* and never left alone with an interrupt it could claim.
LineIsClaim == \A p \in Procs : InterruptPending[p] <=> Claim(p) # 0

\* The invariant behind it: the masks are those of the IPL, up to number 0, which
\* is never pending.
MasksFollowIpl ==
  \A p \in Procs :
    /\ 0 \notin Pending[p]
    /\ LowIplMask[p] \ {0} = {n \in Word(0) : n <= Ipl[p]} \ {0}
    /\ HighIplMask[p] = {n \in Word(1) : n <= Ipl[p]}
    /\ InterruptPending[p] = Line(Mask[p], Pending[p], LowIplMask[p], HighIplMask[p])

LsicInv == LsicTypeOK /\ MasksFollowIpl
=============================================================================
