-------------------------- MODULE InterruptsProofs --------------------------
(***************************************************************************)
(* Interrupts, for any set of processors, devices and interrupt numbers:   *)
(* types, the agreement of the line with the claim register, and that a    *)
(* handler finds the interrupt it was vectored for.                        *)
(*                                                                         *)
(* The controllers are the ones of Lsic, whose invariant is proved from    *)
(* its own steps: here every step is one of those or leaves them alone.    *)
(* What is new is the history of the processors: the line stays up from    *)
(* the check that takes the interrupt to the handler's first write.        *)
(***************************************************************************)
EXTENDS Interrupts, TLAPS, WellFoundedInduction

(* The controllers alone, by the steps of Lsic.                            *)

\* A nonempty set of naturals has a least element, as the CHOOSE in Claim assumes.
LEMMA LeastExists ==
  ASSUME NEW S, S \subseteq Nat, S # {}
  PROVE  \E n \in S : \A m \in S : n <= m
<1> DEFINE R == {ss \in Nat \X Nat : ss[1] < ss[2]}
<1>1. R = OpToRel(<, Nat)
  BY Zenon DEF OpToRel
<1>2. IsWellFoundedOn(R, Nat)
  BY <1>1, NatLessThanWellFounded, Zenon
<1>3. PICK n \in S : \A m \in S : <<m, n>> \notin R
  <2> HIDE DEF R
  <2> QED BY <1>2, WFMin
<1>4. \A m \in S : ~(m < n)
  BY <1>3
<1> QED BY <1>4

\* What LsicRead finds in the claim register is 0 exactly when its loop finds no
\* number: the loop starts at 1.
LEMMA ClaimNonzero ==
  ASSUME NEW p \in Procs
  PROVE  Claim(p) # 0 <=> Claimable(p) # {}
<1>1. CASE Claimable(p) = {}
  BY <1>1 DEF Claim
<1>2. CASE Claimable(p) # {}
  <2>1. Claimable(p) \subseteq Nat /\ 0 \notin Claimable(p)
    BY NumbersAssumption DEF Claimable
  <2>2. \E n \in Claimable(p) : \A m \in Claimable(p) : n <= m
    BY <1>2, <2>1, LeastExists
  <2>3. Claim(p) \in Claimable(p)
    BY <1>2, <2>2 DEF Claim
  <2> QED BY <1>2, <2>1, <2>3
<1> QED BY <1>1, <1>2

\* Every number is in one of the two registers.
LEMMA Words ==
  /\ Word(0) = {n \in Numbers : n < 32}
  /\ Word(1) = {n \in Numbers : 32 <= n}
<1>1. \A n \in Numbers : n \in Nat /\ n <= 63
  BY NumbersAssumption
<1>2. 32 * 0 = 0 /\ 32 * (0 + 1) = 32 /\ 32 * 1 = 32 /\ 32 * (1 + 1) = 64
  OBVIOUS
<1>3. \A n : n \in Word(0) <=> n \in Numbers /\ n < 32
  BY <1>1, <1>2 DEF Word
<1>4. \A n : n \in Word(1) <=> n \in Numbers /\ 32 <= n
  BY <1>1, <1>2 DEF Word
<1>5. Word(0) = {n \in Numbers : n < 32}
  BY <1>3
<1> QED BY <1>4, <1>5

\* The masks that LsicWrite derives from a level hold the numbers up to it.
LEMMA LevelMasks ==
  ASSUME NEW n \in Numbers
  PROVE  /\ (IF n >= 32 THEN Word(0) ELSE IplMask(0, n)) = {m \in Word(0) : m <= n}
         /\ (IF n >= 32 THEN IplMask(1, n - 32) ELSE {}) = {m \in Word(1) : m <= n}
<1>1. n \in Nat /\ \A m \in Numbers : m \in Nat
  BY NumbersAssumption
<1>2. \A m \in Word(0) : m \in Nat /\ m < 32
  BY <1>1, Words
<1>3. \A m \in Word(1) : m \in Nat /\ 32 <= m
  BY <1>1, Words
<1>4. CASE n >= 32
  <2>1. Word(0) = {m \in Word(0) : m <= n}
    BY <1>1, <1>2, <1>4
  <2>2. IplMask(1, n - 32) = {m \in Word(1) : m - 32 * 1 <= n - 32}
    BY DEF IplMask
  <2>3. \A m \in Word(1) : m - 32 * 1 <= n - 32 <=> m <= n
    BY <1>1, <1>3
  <2>4. IplMask(1, n - 32) = {m \in Word(1) : m <= n}
    BY <2>2, <2>3
  <2> QED BY <1>4, <2>1, <2>4
<1>5. CASE ~(n >= 32)
  <2>1. IplMask(0, n) = {m \in Word(0) : m - 32 * 0 <= n}
    BY DEF IplMask
  <2>2. \A m \in Word(0) : m - 32 * 0 <= n <=> m <= n
    BY <1>1, <1>2
  <2>3. IplMask(0, n) = {m \in Word(0) : m <= n}
    BY <2>1, <2>2
  <2>4. {} = {m \in Word(1) : m <= n}
    BY <1>1, <1>3, <1>5
  <2> QED BY <1>5, <2>3, <2>4
<1> QED BY <1>4, <1>5

\* With masks that follow the IPL, the line is up exactly when the claim loop
\* finds a number.
LEMMA LineAgrees == LsicInv => LineIsClaim
<1> SUFFICES ASSUME LsicInv, NEW p \in Procs
             PROVE  InterruptPending[p] <=> Claim(p) # 0
  BY DEF LineIsClaim
<1> USE DEF LsicInv, LsicTypeOK
<1>1. Pending[p] \subseteq Numbers /\ 0 \notin Pending[p] /\ Ipl[p] \in Nat
  <2>1. Ipl[p] \in Numbers \cup {0}
    OBVIOUS
  <2>2. Ipl[p] \in Nat
    <3> HIDE DEF LsicInv, LsicTypeOK
    <3>1. \A n \in Numbers \cup {0} : n \in Nat
      BY NumbersAssumption
    <3> QED BY <2>1, <3>1
  <2>3. Pending[p] \subseteq Numbers /\ 0 \notin Pending[p]
    BY DEF MasksFollowIpl
  <2> QED BY <2>2, <2>3
<1>2. Pending[p] \cap (LowIplMask[p] \cup HighIplMask[p]) = {n \in Pending[p] : n <= Ipl[p]}
  <2>1. \A n \in Pending[p] : n \in Word(0) \/ n \in Word(1)
    BY <1>1, Words, NumbersAssumption
  <2>2. \A n \in Pending[p] : n \in LowIplMask[p] \/ n \in HighIplMask[p] <=> n <= Ipl[p]
    BY <1>1, <2>1 DEF MasksFollowIpl
  <2> HIDE DEF LsicInv, LsicTypeOK
  <2> QED BY <2>2
<1>3. InterruptPending[p] <=> {n \in Pending[p] : n <= Ipl[p]} \ Mask[p] # {}
  BY <1>2 DEF MasksFollowIpl, Line
<1>4. Claimable(p) = {n \in Pending[p] : n <= Ipl[p]} \ Mask[p]
  <2>1. \A n \in Pending[p] : n \in Nat /\ n # 0
    BY <1>1, NumbersAssumption
  <2> QED BY <1>1, <2>1 DEF Claimable
<1> QED BY <1>3, <1>4, ClaimNonzero

\* LsicTable is zero at start: no level, nothing pending, the line down.
LEMMA LsicInitInv == LsicInit => LsicInv
<1> SUFFICES ASSUME LsicInit PROVE LsicInv
  OBVIOUS
<1>1. LsicTypeOK
  BY DEF LsicInit, LsicTypeOK
<1>2. \A n \in Numbers : n \in Nat /\ (n <= 0 <=> n = 0)
  BY NumbersAssumption
<1>3. {n \in Word(0) : n <= 0} \ {0} = {} /\ {n \in Word(1) : n <= 0} = {}
  BY <1>2, Words
<1>4. MasksFollowIpl
  BY <1>3 DEF LsicInit, MasksFollowIpl, Line
<1> QED BY <1>1, <1>4 DEF LsicInv

\* Each handler leaves the masks and the line of the controller it wrote in step.
LEMMA LsicNextInv == LsicInv /\ [LsicNext]_lsicVars => LsicInv'
<1> SUFFICES ASSUME LsicInv, [LsicNext]_lsicVars PROVE LsicInv'
  OBVIOUS
<1> USE DEF LsicInv, LsicTypeOK, MasksFollowIpl
<1>1. ASSUME NEW p \in Procs, NEW n \in Sources, InterruptTargeted(p, n) PROVE LsicInv'
  BY <1>1 DEF InterruptTargeted, Recompute, Sources, Line
<1>2. ASSUME NEW p \in Procs, NEW w \in {0, 1}, NEW value \in SUBSET Word(w),
             WriteMask(p, w, value)
      PROVE  LsicInv'
  BY <1>2 DEF WriteMask, Recompute, Line, Word
<1>3. ASSUME NEW p \in Procs, NEW w \in {0, 1}, NEW value \in SUBSET Word(w),
             WritePending(p, w, value)
      PROVE  LsicInv'
  <2>1. 0 \notin value \ {32 * w}
    BY DEF Word
  <2> QED BY <1>3, <2>1 DEF WritePending, Recompute, Line, Word
<1>4. ASSUME NEW p \in Procs, NEW n \in Numbers, WriteComplete(p, n) PROVE LsicInv'
  BY <1>4 DEF WriteComplete, Recompute, Line
<1>5. ASSUME NEW p \in Procs, NEW n \in Numbers, WriteIpl(p, n) PROVE LsicInv'
  <2>1. /\ LowIplMask'[p] = {m \in Word(0) : m <= n}
        /\ HighIplMask'[p] = {m \in Word(1) : m <= n}
    BY <1>5, LevelMasks DEF WriteIpl
  <2> QED BY <1>5, <2>1 DEF WriteIpl, Recompute, Line
<1>6. CASE UNCHANGED lsicVars
  BY <1>6 DEF lsicVars, Line
<1> QED BY <1>1, <1>2, <1>3, <1>4, <1>5, <1>6 DEF LsicNext

\* The processors are interrupted exactly for what their handlers can claim.
THEOREM LineClaimAgreement == LsicSpec => []LineIsClaim
<1>1. LsicSpec => []LsicInv
  BY LsicInitInv, LsicNextInv, PTL DEF LsicSpec
<1> QED BY <1>1, LineAgrees, PTL
-----------------------------------------------------------------------------
(* The processors, their blocks and the devices.                           *)

\* XrExecuteFast and the timer only see InterruptPending; devices and blocks write
\* a controller by one operation of lsic.c or not at all.
LEMMA ControllerSteps == TypeOK /\ [Next]_vars => [LsicNext]_lsicVars
<1> SUFFICES ASSUME TypeOK, Next PROVE [LsicNext]_lsicVars
  BY DEF vars
<1>1. ASSUME NEW d \in Devices, Raise(d) \/ RaiseNext(d) PROVE [LsicNext]_lsicVars
  <2>1. CASE Raise(d)
    BY <2>1 DEF Raise
  <2>2. CASE RaiseNext(d)
    <3>1. PICK p \in broadcast[d] : InterruptTargeted(p, d)
      BY <2>2 DEF RaiseNext
    <3>2. p \in Procs /\ d \in Sources
      BY InterruptsAssumption DEF TypeOK
    <3> QED BY <3>1, <3>2, Zenon DEF LsicNext
  <2> QED BY <1>1, <2>1, <2>2
<1>2. ASSUME NEW p \in Procs, TimerInterrupt(p) PROVE [LsicNext]_lsicVars
  BY <1>2, InterruptsAssumption DEF TimerInterrupt, LsicNext
<1>3. ASSUME NEW p \in Procs, ExecuteFastPolled(p) \/ ExecuteFast(p) \/ StopExecuting(p)
                                \/ CheckConditions(p)
      PROVE  [LsicNext]_lsicVars
  BY <1>3 DEF ExecuteFastPolled, ExecuteFast, StopExecuting, CheckConditions
<1>4. ASSUME NEW p \in Procs, WriteController(p) PROVE [LsicNext]_lsicVars
  <2>1. \A w \in {0, 1} : {} \in SUBSET Word(w)
    OBVIOUS
  <2>2. \A n \in Ipls : n \in Numbers
    BY InterruptsAssumption
  <2>3. \/ \E w \in {0, 1} : \E value \in SUBSET Word(w) :
             WriteMask(p, w, value) \/ WritePending(p, w, value)
        \/ \E n \in Numbers : WriteComplete(p, n) \/ WriteIpl(p, n)
    BY <1>4, <2>1, <2>2, Zenon DEF WriteController
  <2> QED BY <2>3, Zenon DEF LsicNext
<1>5. ASSUME NEW p \in Procs, SendInterrupt(p) PROVE [LsicNext]_lsicVars
  <2>1. PICK q \in Procs \ {p}, w \in {0, 1} :
          \E value \in (SUBSET Word(w)) \ {{}} : WritePending(q, w, value)
    BY <1>5 DEF SendInterrupt
  <2> QED BY <2>1, Zenon DEF LsicNext
<1>6. ASSUME NEW p \in Procs, Execute(p) PROVE [LsicNext]_lsicVars
  BY <1>4, <1>5, <1>6 DEF Execute, ExecuteException, ExecuteHlt, ExecuteRfe, WriteRs, ExecuteBlock
<1> QED BY <1>1, <1>2, <1>3, <1>6, Zenon DEF Next, Run

\* Three modes as the tuple that Interrupts writes for RS.
LEMMA TripleTyped ==
  ASSUME NEW a \in BOOLEAN, NEW b \in BOOLEAN, NEW c \in BOOLEAN
  PROVE  <<a, b, c>> \in [1 .. 3 -> BOOLEAN]
<1>1. \A i \in 1 .. 3 : i = 1 \/ i = 2 \/ i = 3
  OBVIOUS
<1> QED BY <1>1

\* The mode stack stays three modes deep: XrPushMode drops the oldest, XrExecuteRfe
\* fills in from below.
LEMMA ModesTyped ==
  ASSUME NEW modes \in [1 .. 3 -> BOOLEAN], NEW int \in BOOLEAN
  PROVE  /\ PushMode(modes) \in [1 .. 3 -> BOOLEAN]
         /\ <<modes[2], modes[3], FALSE>> \in [1 .. 3 -> BOOLEAN]
         /\ [modes EXCEPT ![1] = int] \in [1 .. 3 -> BOOLEAN]
<1>1. \A a, b, c \in BOOLEAN : <<a, b, c>> \in [1 .. 3 -> BOOLEAN]
  BY TripleTyped
<1>2. modes[1] \in BOOLEAN /\ modes[2] \in BOOLEAN /\ modes[3] \in BOOLEAN
  OBVIOUS
<1>3. [modes EXCEPT ![1] = int] \in [1 .. 3 -> BOOLEAN]
  OBVIOUS
<1> QED BY <1>1, <1>2, <1>3 DEF PushMode

\* No block is run after the cycles of a call are used up (XrCheckConditions), so
\* a block that ends has not exceeded them.
LEMMA BlockTyped ==
  ASSUME TypeOK, NEW p \in Procs, EndBlock(p)
  PROVE  /\ pc' \in [Procs -> {"out", "check", "block"}]
         /\ CyclesDone' \in [Procs -> 0 .. CyclesGoal]
         /\ broadcast' \in [Devices -> SUBSET Procs]
<1>1. PICK done \in CyclesDone[p] + 1 .. CyclesGoal :
        CyclesDone' = [CyclesDone EXCEPT ![p] = done]
  BY DEF EndBlock
<1>2. CyclesDone[p] \in 0 .. CyclesGoal /\ CyclesGoal \in Nat
  BY InterruptsAssumption DEF TypeOK
<1>3. done \in 0 .. CyclesGoal
  BY <1>1, <1>2
<1> QED BY <1>1, <1>3 DEF EndBlock, TypeOK

\* Types, with the controllers' invariant: what every other fact rests on.
Inv == TypeOK /\ LsicInv

\* Everything is off at reset.
LEMMA InitInv == Init => Inv
<1> SUFFICES ASSUME Init PROVE Inv
  OBVIOUS
<1>1. LsicInv
  BY LsicInitInv DEF Init
<1>2. <<FALSE, FALSE, FALSE>> \in [1 .. 3 -> BOOLEAN]
  BY TripleTyped
<1>3. TypeOK
  BY <1>1, <1>2, InterruptsAssumption DEF Init, TypeOK, LsicInv
<1> QED BY <1>1, <1>3 DEF Inv

\* Every step keeps the types, and the controllers' invariant by Lsic's own proof.
LEMMA NextInv == Inv /\ [Next]_vars => Inv'
<1> SUFFICES ASSUME Inv, [Next]_vars PROVE Inv'
  OBVIOUS
<1>1. LsicInv'
  BY ControllerSteps, LsicNextInv DEF Inv
<1>2. LsicTypeOK' /\ TypeOK
  BY <1>1 DEF LsicInv, Inv
<1> DEFINE CpuTypes ==
      /\ pc \in [Procs -> {"out", "check", "block"}]
      /\ CyclesDone \in [Procs -> 0 .. CyclesGoal]
      /\ Halted \in [Procs -> BOOLEAN]
      /\ RsInt \in [Procs -> [1 .. 3 -> BOOLEAN]]
      /\ broadcast \in [Devices -> SUBSET Procs]
      /\ vectored \in [Procs -> BOOLEAN]
<1>3. CpuTypes
  BY <1>2 DEF TypeOK
<1>4. ASSUME NEW d \in Devices, Raise(d) \/ RaiseNext(d) PROVE CpuTypes'
  BY <1>3, <1>4 DEF Raise, RaiseNext, cpuVars
<1>5. ASSUME NEW p \in Procs, TimerInterrupt(p) PROVE CpuTypes'
  BY <1>3, <1>5 DEF TimerInterrupt, cpuVars
<1>6. ASSUME NEW p \in Procs, ExecuteFastPolled(p) \/ ExecuteFast(p) \/ StopExecuting(p)
      PROVE  CpuTypes'
  <2>1. 0 \in 0 .. CyclesGoal
    BY InterruptsAssumption
  <2> QED BY <1>3, <1>6, <2>1 DEF ExecuteFastPolled, ExecuteFast, StopExecuting
<1>7. ASSUME NEW p \in Procs, CheckConditions(p) PROVE CpuTypes'
  <2>1. RsInt[p] \in [1 .. 3 -> BOOLEAN]
    BY <1>3
  <2>2. PushMode(RsInt[p]) \in [1 .. 3 -> BOOLEAN]
    BY <2>1, ModesTyped
  <2>3. RsInt' \in [Procs -> [1 .. 3 -> BOOLEAN]]
    BY <1>3, <1>7, <2>2 DEF CheckConditions
  <2>4. vectored' \in [Procs -> BOOLEAN]
    <3>1. \E b \in BOOLEAN : vectored' = [vectored EXCEPT ![p] = b]
      <4>1. (vectored[p] \/ (InterruptPending[p] /\ Enabled(p))) \in BOOLEAN
        OBVIOUS
      <4> QED BY <1>7, <4>1, Zenon DEF CheckConditions
    <3> QED BY <1>3, <3>1
  <2> QED BY <1>3, <1>7, <2>3, <2>4 DEF CheckConditions
<1>8. ASSUME NEW p \in Procs, Execute(p) PROVE CpuTypes'
  <2>1. EndBlock(p)
    BY <1>8 DEF Execute, ExecuteException, ExecuteHlt, ExecuteRfe, WriteRs, WriteController,
                SendInterrupt, ExecuteBlock
  <2>2. RsInt[p] \in [1 .. 3 -> BOOLEAN]
    BY <1>3
  <2>3. /\ PushMode(RsInt[p]) \in [1 .. 3 -> BOOLEAN]
        /\ <<RsInt[p][2], RsInt[p][3], FALSE>> \in [1 .. 3 -> BOOLEAN]
        /\ \A int \in BOOLEAN : [RsInt[p] EXCEPT ![1] = int] \in [1 .. 3 -> BOOLEAN]
    BY <2>2, ModesTyped
  <2>4. RsInt' \in [Procs -> [1 .. 3 -> BOOLEAN]]
    <3>1. \E modes \in [1 .. 3 -> BOOLEAN] :
            RsInt' = [RsInt EXCEPT ![p] = modes] \/ RsInt' = RsInt
      <4>1. ASSUME NEW int \in BOOLEAN, WriteRs(p, int)
            PROVE  \E modes \in [1 .. 3 -> BOOLEAN] : RsInt' = [RsInt EXCEPT ![p] = modes]
        BY <2>3, <4>1, Zenon DEF WriteRs
      <4>2. CASE ExecuteException(p)
        BY <2>3, <4>2, Zenon DEF ExecuteException
      <4>3. CASE ExecuteRfe(p)
        BY <2>3, <4>3, Zenon DEF ExecuteRfe
      <4>4. CASE ExecuteHlt(p) \/ WriteController(p) \/ SendInterrupt(p) \/ ExecuteBlock(p)
        BY <2>2, <4>4, Zenon DEF ExecuteHlt, WriteController, SendInterrupt, ExecuteBlock
      <4> QED BY <1>8, <4>1, <4>2, <4>3, <4>4, Zenon DEF Execute
    <3> QED BY <1>3, <3>1
  <2>5. Halted' \in [Procs -> BOOLEAN] /\ vectored' \in [Procs -> BOOLEAN]
    BY <1>3, <1>8 DEF Execute, ExecuteException, ExecuteHlt, ExecuteRfe, WriteRs,
                      WriteController, SendInterrupt, ExecuteBlock
  <2> QED BY <1>2, <2>1, <2>4, <2>5, BlockTyped
<1>9. ASSUME UNCHANGED vars PROVE CpuTypes'
  <2>1. UNCHANGED <<pc, CyclesDone, Halted, RsInt, broadcast, vectored>>
    BY <1>9 DEF vars, cpuVars
  <2> QED BY <1>3, <2>1
<1>10. CpuTypes'
  <2> HIDE DEF CpuTypes
  <2> QED BY <1>4, <1>5, <1>6, <1>7, <1>8, <1>9, Zenon DEF Next, Run
<1>11. TypeOK'
  BY <1>2, <1>10 DEF TypeOK
<1> QED BY <1>1, <1>11 DEF Inv

\* Raising an interrupt never lowers the line of a processor, neither the one that
\* is interrupted nor another (LsicInterruptTargeted, a nonzero LSIC_PENDING).
LEMMA RaisingKeepsLine ==
  ASSUME LsicInv, NEW p \in Procs, NEW q \in Procs, InterruptPending[p],
         \/ \E n \in Numbers : InterruptTargeted(q, n)
         \/ \E w \in {0, 1} : \E value \in (SUBSET Word(w)) \ {{}} : WritePending(q, w, value)
  PROVE  InterruptPending'[p]
<1> USE DEF LsicInv, LsicTypeOK
<1>1. Pending[p] \subseteq Pending'[p] /\ UNCHANGED <<Mask, LowIplMask, HighIplMask>>
  <2>1. ASSUME NEW n \in Numbers, InterruptTargeted(q, n)
        PROVE  Pending[p] \subseteq Pending'[p] /\ UNCHANGED <<Mask, LowIplMask, HighIplMask>>
    BY <2>1 DEF InterruptTargeted
  <2>2. ASSUME NEW w \in {0, 1}, NEW value \in (SUBSET Word(w)) \ {{}}, WritePending(q, w, value)
        PROVE  Pending[p] \subseteq Pending'[p] /\ UNCHANGED <<Mask, LowIplMask, HighIplMask>>
    <3> DEFINE bits == value \ {32 * w}
    <3>1. Pending' = [Pending EXCEPT ![q] = Pending[q] \cup bits]
      <4>1. value # {}
        BY <2>2
      <4> QED BY <2>2, <4>1, Zenon DEF WritePending
    <3> HIDE DEF bits
    <3>2. UNCHANGED <<Mask, LowIplMask, HighIplMask>>
      BY <2>2 DEF WritePending
    <3> QED BY <3>1, <3>2
  <2> QED BY <2>1, <2>2
<1>2. /\ InterruptPending[p] = Line(Mask[p], Pending[p], LowIplMask[p], HighIplMask[p])
      /\ InterruptPending' = [InterruptPending EXCEPT ![q] =
           Line(Mask'[q], Pending'[q], LowIplMask'[q], HighIplMask'[q])]
  BY DEF InterruptTargeted, WritePending, Recompute, MasksFollowIpl
<1>3. Line(Mask[p], Pending'[p], LowIplMask[p], HighIplMask[p])
  BY <1>1, <1>2 DEF Line
<1> QED BY <1>1, <1>2, <1>3

\* The handler's line is up until the handler writes its controller.
LineStaysUp == \A p \in Procs : vectored[p] => InterruptPending[p]

\* Other processors and devices only raise; a processor's own write ends the
\* history it keeps.
LEMMA NextLineStaysUp == Inv /\ LineStaysUp /\ [Next]_vars => LineStaysUp'
<1> SUFFICES ASSUME Inv, LineStaysUp, [Next]_vars, NEW p \in Procs, vectored'[p]
             PROVE  InterruptPending'[p]
  BY DEF LineStaysUp
<1> USE DEF Inv
<1>1. vectored \in [Procs -> BOOLEAN] /\ (vectored[p] => InterruptPending[p])
  BY DEF TypeOK, LineStaysUp
<1>2. ASSUME NEW d \in Devices, Raise(d) \/ RaiseNext(d) PROVE InterruptPending'[p]
  <2>1. CASE Raise(d)
    BY <1>1, <2>1 DEF Raise, lsicVars
  <2>2. CASE RaiseNext(d)
    <3>1. PICK q \in broadcast[d] : InterruptTargeted(q, d) /\ UNCHANGED vectored
      BY <2>2 DEF RaiseNext
    <3>2. q \in Procs /\ d \in Numbers
      BY InterruptsAssumption DEF TypeOK, Sources
    <3> QED BY <1>1, <3>1, <3>2, RaisingKeepsLine
  <2> QED BY <1>2, <2>1, <2>2
<1>3. ASSUME NEW q \in Procs, TimerInterrupt(q) PROVE InterruptPending'[p]
  <2>1. Timer \in Numbers
    BY InterruptsAssumption DEF Sources
  <2> QED BY <1>1, <1>3, <2>1, RaisingKeepsLine DEF TimerInterrupt
<1>4. ASSUME NEW q \in Procs, ExecuteFastPolled(q) \/ ExecuteFast(q) \/ StopExecuting(q)
      PROVE  InterruptPending'[p]
  BY <1>1, <1>4 DEF ExecuteFastPolled, ExecuteFast, StopExecuting, lsicVars
<1>5. ASSUME NEW q \in Procs, CheckConditions(q) PROVE InterruptPending'[p]
  BY <1>1, <1>5 DEF CheckConditions, lsicVars
<1>6. ASSUME NEW q \in Procs, WriteController(q) PROVE InterruptPending'[p]
  <2>1. p # q /\ vectored[p]
    BY <1>1, <1>6 DEF WriteController
  <2>2. \E line : InterruptPending' = [InterruptPending EXCEPT ![q] = line]
    BY <1>6, Zenon DEF WriteController, WriteMask, WritePending, WriteComplete, WriteIpl, Recompute
  <2> QED BY <1>1, <2>1, <2>2 DEF LsicInv, LsicTypeOK
<1>7. ASSUME NEW q \in Procs, SendInterrupt(q) PROVE InterruptPending'[p]
  <2>1. PICK r \in Procs : \E w \in {0, 1} : \E value \in (SUBSET Word(w)) \ {{}} :
                             WritePending(r, w, value)
    BY <1>7 DEF SendInterrupt
  <2> QED BY <1>1, <1>7, <2>1, RaisingKeepsLine DEF SendInterrupt
<1>8. ASSUME NEW q \in Procs,
             ExecuteException(q) \/ ExecuteHlt(q) \/ ExecuteRfe(q) \/ ExecuteBlock(q)
               \/ \E int \in BOOLEAN : WriteRs(q, int)
      PROVE  InterruptPending'[p]
  BY <1>1, <1>8 DEF ExecuteException, ExecuteHlt, ExecuteRfe, ExecuteBlock, WriteRs, lsicVars
<1>9. CASE UNCHANGED vars
  BY <1>1, <1>9 DEF vars, lsicVars
<1> QED BY <1>2, <1>3, <1>4, <1>5, <1>6, <1>7, <1>8, <1>9, Zenon DEF Next, Run, Execute

\* Types, for every run of processors, devices and timers.
THEOREM TypeCorrect == Spec => []TypeOK
<1>1. Inv => TypeOK
  BY DEF Inv
<1> QED BY InitInv, NextInv, <1>1, PTL DEF Spec

\* The line and the claim register agree in the running system too, not only under
\* the controllers' own specification.
THEOREM RunningLineIsClaim == Spec => []LineIsClaim
<1>1. Inv => LineIsClaim
  BY LineAgrees DEF Inv
<1> QED BY InitInv, NextInv, <1>1, PTL DEF Spec

\* A handler finds the interrupt that XrCheckConditions took, whatever arrives
\* between the check and the handler's first access to the controller.
THEOREM InterruptNotLost == Spec => []HandlerHasInterrupt
<1>1. Init => LineStaysUp
  BY DEF Init, LineStaysUp
<1>2. Inv /\ LineStaysUp => HandlerHasInterrupt
  BY LineAgrees DEF Inv, LineStaysUp, HandlerHasInterrupt, LineIsClaim
<1> QED BY InitInv, NextInv, <1>1, NextLineStaysUp, <1>2, PTL DEF Spec
=============================================================================
