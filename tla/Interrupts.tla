----------------------------- MODULE Interrupts -----------------------------
(***************************************************************************)
(* How a processor is interrupted: the controllers of Lsic, the devices    *)
(* that raise interrupts from other host threads, and the execution loop   *)
(* of xr17032fast.c that looks at InterruptPending between instruction     *)
(* blocks, takes the interrupt, halts and is woken.                        *)
(*                                                                         *)
(* Each processor is run by its host thread in calls of XrExecuteFast.  A  *)
(* block is one step and does at most one of the things that matter here.  *)
(* The software is privileged code that writes its own controller as it    *)
(* likes and other controllers only to send an interrupt.                  *)
(***************************************************************************)
EXTENDS Lsic, Sequences

CONSTANTS
  Devices,     \* numbers raised by LsicInterrupt
  Timer,       \* number of the interval timer (2 in the code)
  Ipls,        \* levels that software sets
  Handlers,    \* processors whose software takes interrupts; the rest send them
  CyclesGoal   \* blocks that fit in one call of XrExecuteFast

ASSUME InterruptsAssumption ==
  /\ Devices \subseteq Sources
  /\ Timer \in Sources
  /\ Ipls \subseteq Numbers
  /\ Handlers \subseteq Procs
  /\ CyclesGoal \in Nat \ {0}

VARIABLES
  pc,          \* "out": between calls; "check": XrCheckConditions; "block"
  CyclesDone,
  Halted,
  RsInt,       \* RS_INT in the three modes of the stack in RS, current first
  broadcast,   \* processors that a LsicInterrupt under way has yet to reach
  vectored     \* history: the handler has not touched the controller yet

cpuVars == <<pc, CyclesDone, Halted, RsInt>>
vars == <<lsicVars, cpuVars, broadcast, vectored>>

Init ==
  /\ LsicInit
  /\ pc = [p \in Procs |-> "out"]
  /\ CyclesDone = [p \in Procs |-> 0]
  /\ Halted = [p \in Procs |-> FALSE]
  /\ RsInt = [p \in Procs |-> <<FALSE, FALSE, FALSE>>]
  /\ broadcast = [d \in Devices |-> {}]
  /\ vectored = [p \in Procs |-> FALSE]

Enabled(p) == RsInt[p][1]

\* LsicInterrupt, called by a device; the loop goes through the processors in
\* the order of their Ids, one lock at a time.
Raise(d) ==
  /\ broadcast[d] = {}
  /\ broadcast' = [broadcast EXCEPT ![d] = Procs]
  /\ UNCHANGED <<lsicVars, cpuVars, vectored>>

RaiseNext(d) ==
  \E p \in broadcast[d] :
    /\ \A q \in broadcast[d] : p <= q
    /\ broadcast' = [broadcast EXCEPT ![d] = @ \ {p}]
    /\ InterruptTargeted(p, d)
    /\ UNCHANGED <<cpuVars, vectored>>

\* XrProcessorSchedule: the interval timer ran down.
TimerInterrupt(p) ==
  /\ pc[p] = "out"
  /\ InterruptTargeted(p, Timer)
  /\ UNCHANGED <<cpuVars, broadcast, vectored>>

\* Mutation: the processor woken stays halted.
ExecuteFastStaysHalted(p) ==
  /\ pc[p] = "out"
  /\ Halted[p] => InterruptPending[p] /\ Enabled(p)
  /\ CyclesDone' = [CyclesDone EXCEPT ![p] = 0]
  /\ pc' = [pc EXCEPT ![p] = "check"]
  /\ UNCHANGED <<lsicVars, Halted, RsInt, broadcast, vectored>>

\* XrExecuteFast: a halted processor runs again if it can be interrupted.
ExecuteFast(p) ==
  /\ pc[p] = "out"
  /\ Halted[p] => InterruptPending[p] /\ Enabled(p)
  /\ Halted' = [Halted EXCEPT ![p] = FALSE]
  /\ CyclesDone' = [CyclesDone EXCEPT ![p] = 0]
  /\ pc' = [pc EXCEPT ![p] = "check"]
  /\ UNCHANGED <<lsicVars, RsInt, broadcast, vectored>>

\* XrExecuteFast after too much polling (Progress <= 0): it returns, but only after
\* it has cleared Halted.
ExecuteFastPolled(p) ==
  /\ pc[p] = "out"
  /\ Halted[p] => InterruptPending[p] /\ Enabled(p)
  /\ Halted' = [Halted EXCEPT ![p] = FALSE]
  /\ CyclesDone' = [CyclesDone EXCEPT ![p] = 0]
  /\ UNCHANGED <<lsicVars, pc, RsInt, broadcast, vectored>>

\* XrCheckConditions: NoMore, when the cycles are used up or after HLT.  (PAUSE,
\* once it has been called too often, ends the call like the last of the cycles.)
StopExecuting(p) ==
  /\ pc[p] = "check"
  /\ CyclesDone[p] >= CyclesGoal \/ Halted[p]
  /\ pc' = [pc EXCEPT ![p] = "out"]
  /\ UNCHANGED <<lsicVars, CyclesDone, Halted, RsInt, broadcast, vectored>>

\* XrPushMode and XrVectorException: the modes move down and interrupts are off.
PushMode(modes) == <<FALSE, modes[1], modes[2]>>

\* XrCheckConditions: the interrupt is taken if there is one, and the next block
\* is called.
CheckConditions(p) ==
  LET taken == InterruptPending[p] /\ Enabled(p) IN
  /\ pc[p] = "check"
  /\ CyclesDone[p] < CyclesGoal /\ ~Halted[p]
  /\ RsInt' = IF taken THEN [RsInt EXCEPT ![p] = PushMode(@)] ELSE RsInt
  /\ vectored' = [vectored EXCEPT ![p] = @ \/ taken]
  /\ pc' = [pc EXCEPT ![p] = "block"]
  /\ UNCHANGED <<lsicVars, CyclesDone, Halted, broadcast>>

\* A block ends, having used some of the cycles left.
EndBlock(p) ==
  /\ pc[p] = "block"
  /\ \E done \in CyclesDone[p] + 1 .. CyclesGoal :
       CyclesDone' = [CyclesDone EXCEPT ![p] = done]
  /\ pc' = [pc EXCEPT ![p] = "check"]
  /\ UNCHANGED broadcast

\* XrBasicException of a block that faults, traps or cannot be fetched.
ExecuteException(p) ==
  /\ EndBlock(p)
  /\ RsInt' = [RsInt EXCEPT ![p] = PushMode(@)]
  /\ UNCHANGED <<lsicVars, Halted, vectored>>

\* XrExecuteHlt.
ExecuteHlt(p) ==
  /\ EndBlock(p)
  /\ Halted' = [Halted EXCEPT ![p] = TRUE]
  /\ UNCHANGED <<lsicVars, RsInt, vectored>>

\* XrExecuteRfe: the modes move up.
ExecuteRfe(p) ==
  /\ EndBlock(p)
  /\ RsInt' = [RsInt EXCEPT ![p] = <<@[2], @[3], FALSE>>]
  /\ vectored' = [vectored EXCEPT ![p] = FALSE]
  /\ UNCHANGED <<lsicVars, Halted>>

\* XrExecuteMtcr to RS, changing RS_INT of the current mode only.
WriteRs(p, int) ==
  /\ p \in Handlers
  /\ EndBlock(p)
  /\ RsInt' = [RsInt EXCEPT ![p][1] = int]
  /\ UNCHANGED <<lsicVars, Halted, vectored>>

\* A block that stores to the processor's own controller (PBoardWrite).
WriteController(p) ==
  /\ p \in Handlers
  /\ EndBlock(p)
  /\ \/ \E w \in {0, 1} : \E value \in SUBSET Word(w) : WriteMask(p, w, value)
     \/ \E w \in {0, 1} : WritePending(p, w, {})
     \/ \E n \in Numbers : WriteComplete(p, n)
     \/ \E n \in Ipls : WriteIpl(p, n)
  /\ vectored' = [vectored EXCEPT ![p] = FALSE]
  /\ UNCHANGED <<Halted, RsInt>>

\* A block that interrupts another processor.
SendInterrupt(p) ==
  /\ EndBlock(p)
  /\ \E q \in Procs \ {p}, w \in {0, 1} :
       \E value \in (SUBSET Word(w)) \ {{}} : WritePending(q, w, value)
  /\ UNCHANGED <<Halted, RsInt, vectored>>

\* Any other block.
ExecuteBlock(p) == EndBlock(p) /\ UNCHANGED <<lsicVars, Halted, RsInt, vectored>>

Execute(p) ==
  \/ ExecuteException(p) \/ ExecuteHlt(p) \/ ExecuteRfe(p) \/ \E int \in BOOLEAN : WriteRs(p, int)
  \/ WriteController(p) \/ SendInterrupt(p) \/ ExecuteBlock(p)

Run(p) == ExecuteFast(p) \/ StopExecuting(p) \/ CheckConditions(p) \/ Execute(p)

Next ==
  \/ \E d \in Devices : Raise(d) \/ RaiseNext(d)
  \/ \E p \in Procs : TimerInterrupt(p) \/ ExecuteFastPolled(p) \/ Run(p)

Spec == Init /\ [][Next]_vars

\* The scheduler calls XrExecuteFast again for every processor, in this frame or in
\* the next; XrProcessorStartTimeslice restores Progress each frame, so not every
\* call returns for polling.  A device thread finishes its broadcast.
FairSpec ==
  /\ Spec
  /\ \A p \in Procs : WF_vars(Run(p))
  /\ \A d \in Devices : WF_vars(RaiseNext(d))
-----------------------------------------------------------------------------
\* Types of the processors' state.
TypeOK ==
  /\ LsicTypeOK
  /\ pc \in [Procs -> {"out", "check", "block"}]
  /\ CyclesDone \in [Procs -> 0 .. CyclesGoal]
  /\ Halted \in [Procs -> BOOLEAN]
  /\ RsInt \in [Procs -> [1 .. 3 -> BOOLEAN]]
  /\ broadcast \in [Devices -> SUBSET Procs]
  /\ vectored \in [Procs -> BOOLEAN]

\* Until a handler writes the controller, the claim register has an interrupt for
\* it: what made XrCheckConditions take the interrupt does not go away, whatever
\* devices and other processors do.
HandlerHasInterrupt == \A p \in Procs : vectored[p] => Claim(p) # 0

\* A halted processor with interrupts enabled is woken by an interrupt it can
\* claim, also by one that arrives between the check before HLT and HLT itself.
HaltedIsWoken ==
  \A p \in Procs : Halted[p] /\ Enabled(p) /\ InterruptPending[p] ~> vectored[p]
=============================================================================
