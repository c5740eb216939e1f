-------------------------------- MODULE Dks --------------------------------
(***************************************************************************)
(* The disk controller dks.c.  A processor's driver writes its registers   *)
(* and commands; a command starts an operation on the selected disk, which *)
(* the processor completes on the spot when there is nothing to wait for,  *)
(* and the disk's schedulable in later timeslices otherwise.               *)
(*                                                                         *)
(* Every handler runs under ControllerMutex and is one step, except that   *)
(* DKSCompleteTransfer unlocks it while the data moves: a transfer has a   *)
(* beginning and an end, and anything may come in between.  A timeslice is *)
(* written back after the unlock.                                          *)
(*                                                                         *)
(* A disk's schedulable is on no list, on the work list or a chain         *)
(* ("queued"), or on the next frame's list ("next"); Scheduler has the     *)
(* lists.  Of the LSIC there is the pending bit of interrupt 3; Lsic and   *)
(* Interrupts have the rest.                                               *)
(***************************************************************************)
EXTENDS Integers

CONSTANTS
  Procs,
  Threads,       \* scheduler threads
  Disks,         \* IDs of the disks that are present
  SectorCount,   \* of each disk
  Word,          \* 2^32: number of values of a register
  MaxCount,      \* most sectors of a transfer, 8 in the code
  Align,         \* alignment of a transfer address, 512 in the code
  Asynchronous,  \* DKSAsynchronous: seek times are simulated
  MaxSeek,       \* longest seek, in milliseconds
  FrameTimes,    \* what a frame may take, in milliseconds
  Times,         \* 2^32: number of values of a time in milliseconds
  None

ASSUME DksAssumption ==
  /\ Word \in Nat \ {0} /\ SectorCount \in 0 .. Word - 1
  /\ MaxCount \in 1 .. Word - 1 /\ Align \in Nat \ {0}
  /\ Asynchronous \in BOOLEAN /\ MaxSeek \in Nat
  /\ Times \in Nat /\ FrameTimes \subseteq 0 .. Times \div 2 - 1
  /\ Disks \subseteq 0 .. Word - 1
  /\ Procs \cap Threads = {}
  /\ None \notin Disks

Actors == Procs \cup Threads
Registers == 0 .. Word - 1

\* Timeslices are int, intervals uint32_t, and compared as uint32_t.
Unsigned(time) == time % Times
Signed(time) == IF Unsigned(time) < Times \div 2 THEN Unsigned(time) ELSE Unsigned(time) - Times

VARIABLES
  DKSStatus, DKSCompleted,        \* disks whose bit is set
  DKSPortA,
  DKSSelectedDrive,               \* a disk or None
  DKSTransferCount, DKSTransferAddress, DKSDoInterrupt,
  disk,                           \* [Disks -> TransferSector, Count, Address, OperationInterval]
  Completing,                     \* disks whose transfer is under way
  queue,                          \* [Disks -> "none", "queued" or "next"]
  Timeslice,                      \* [Disks -> milliseconds]
  doing,                          \* [Actors -> disk whose transfer it is completing, or None]
  call,                           \* [Threads -> its call of DKSSchedule]
  Pending,                        \* processors whose LSIC has interrupt 3 pending
  handler,                        \* [Procs -> where the driver's interrupt handler is]
  announced                       \* history: completions with an interrupt, not yet read

registers == <<DKSPortA, DKSSelectedDrive, DKSTransferCount, DKSTransferAddress, DKSDoInterrupt>>
operations == <<DKSStatus, DKSCompleted, disk, Completing, announced>>
scheduling == <<queue, Timeslice, call>>
interrupts == <<Pending, handler>>
vars == <<registers, operations, scheduling, interrupts, doing>>

NoCall == [at |-> "none", disk |-> None, timeslice |-> 0]

Init ==
  /\ DKSStatus = {} /\ DKSCompleted = {} /\ Completing = {} /\ announced = {}
  /\ DKSPortA = 0 /\ DKSSelectedDrive = None
  /\ DKSTransferCount = 0 /\ DKSTransferAddress = 0 /\ DKSDoInterrupt = FALSE
  /\ disk = [d \in Disks |-> [sector |-> 0, count |-> 0, address |-> 0, interval |-> 0]]
  /\ queue = [d \in Disks |-> "none"]
  /\ Timeslice = [d \in Disks |-> 0]
  /\ doing = [a \in Actors |-> None]
  /\ call = [t \in Threads |-> NoCall]
  /\ Pending = {}
  /\ handler = [p \in Procs |-> "none"]

\* A processor executes its driver: it is in no transfer and no handler of interrupt 3.
Driver(p) == doing[p] = None /\ handler[p] = "none"
-----------------------------------------------------------------------------
(* Registers and commands of DKSWriteCMD.  Refused commands change nothing. *)

WritePortA(p, value) ==
  /\ Driver(p)
  /\ DKSPortA' = value
  /\ UNCHANGED <<DKSSelectedDrive, DKSTransferCount, DKSTransferAddress, DKSDoInterrupt,
                 operations, scheduling, interrupts, doing>>

\* Command 1.
SelectDrive(p) ==
  /\ Driver(p)
  /\ DKSSelectedDrive' = IF DKSPortA \in Disks THEN DKSPortA ELSE None
  /\ UNCHANGED <<DKSPortA, DKSTransferCount, DKSTransferAddress, DKSDoInterrupt,
                 operations, scheduling, interrupts, doing>>

\* Command 5: whether the disk of port A is present.
PollDrive(p) ==
  /\ Driver(p)
  /\ DKSPortA' = IF DKSPortA \in Disks THEN 1 ELSE 0
  /\ UNCHANGED <<DKSSelectedDrive, DKSTransferCount, DKSTransferAddress, DKSDoInterrupt,
                 operations, scheduling, interrupts, doing>>

\* Commands 6 and 7.
SetInterrupts(p) ==
  /\ Driver(p)
  /\ DKSDoInterrupt' = ~DKSDoInterrupt
  /\ UNCHANGED <<DKSPortA, DKSSelectedDrive, DKSTransferCount, DKSTransferAddress,
                 operations, scheduling, interrupts, doing>>

\* Command 8.
SetCount(p) ==
  /\ Driver(p)
  /\ DKSPortA \in 1 .. MaxCount
  /\ DKSTransferCount' = DKSPortA
  /\ UNCHANGED <<DKSPortA, DKSSelectedDrive, DKSTransferAddress, DKSDoInterrupt,
                 operations, scheduling, interrupts, doing>>

\* Command 9.
SetAddress(p) ==
  /\ Driver(p)
  /\ DKSTransferAddress' = DKSPortA - (DKSPortA % Align)
  /\ UNCHANGED <<DKSPortA, DKSSelectedDrive, DKSTransferCount, DKSDoInterrupt,
                 operations, scheduling, interrupts, doing>>

\* Command 4, by the driver itself or by its interrupt handler.
ReadInfo(p) ==
  /\ doing[p] = None /\ handler[p] \in {"none", "completed"}
  /\ handler' = [handler EXCEPT ![p] = "none"]
  /\ DKSPortA' = 0
  /\ DKSCompleted' = {}
  /\ announced' = {}
  /\ UNCHANGED <<DKSSelectedDrive, DKSTransferCount, DKSTransferAddress, DKSDoInterrupt,
                 DKSStatus, disk, Completing, scheduling, Pending, doing>>

\* PBoardReset: DKSReset; operations under way go on, and LsicReset does nothing.
Reset(p) ==
  /\ Driver(p)
  /\ DKSDoInterrupt' = FALSE /\ DKSPortA' = 0 /\ DKSSelectedDrive' = None
  /\ DKSTransferCount' = 0 /\ DKSTransferAddress' = 0
  /\ UNCHANGED <<operations, scheduling, interrupts, doing>>
-----------------------------------------------------------------------------
(* Operations.                                                             *)

\* Mutation: a busy disk accepts.
AcceptsBusy(d) ==
  LET end == (DKSPortA + DKSTransferCount) % Word IN
  /\ end >= DKSPortA
  /\ end < SectorCount

\* The checks of DKSDispatchIO.
Accepts(d) ==
  LET end == (DKSPortA + DKSTransferCount) % Word IN
  /\ end >= DKSPortA
  /\ end < SectorCount
  /\ d \notin DKSStatus

\* DKSCompleteTransfer up to the unlock.
BeginTransfer(a, d) ==
  /\ Completing' = Completing \cup {d}
  /\ doing' = [doing EXCEPT ![a] = d]

\* XrScheduleWorkForMe and XrScheduleWorkForNextFrame: not if it is on a list.
Enqueue(d, list) == queue' = [queue EXCEPT ![d] = IF @ = "none" THEN list ELSE @]

\* Mutation: a disk is scheduled even if the operation completes on the spot.
StartAlwaysScheduled(p, d) ==
  IF disk'[d].interval = 0
  THEN BeginTransfer(p, d) /\ Enqueue(d, "queued")
  ELSE Enqueue(d, "queued") /\ UNCHANGED <<Completing, doing>>

\* The end of DKSDispatchIO.
Start(p, d) ==
  IF disk'[d].interval = 0
  THEN BeginTransfer(p, d) /\ UNCHANGED queue
  ELSE Enqueue(d, "queued") /\ UNCHANGED <<Completing, doing>>

\* Commands 2 and 3; DKSSeek adds to what is left of the last operation's interval.
DispatchIO(p, d, seek) ==
  /\ Driver(p)
  /\ d = DKSSelectedDrive
  /\ Accepts(d)
  /\ DKSStatus' = DKSStatus \cup {d}
  /\ disk' = [disk EXCEPT ![d] =
       [sector |-> DKSPortA, count |-> DKSTransferCount, address |-> DKSTransferAddress,
        interval |-> IF Asynchronous THEN Unsigned(@.interval + seek) ELSE 0]]
  /\ Start(p, d)
  /\ UNCHANGED <<registers, DKSCompleted, announced, Timeslice, call, interrupts>>

\* Mutation: no interrupt if one of the completions is yet to be read.
DKSInfoOnce(d) ==
  /\ Pending' = IF DKSDoInterrupt /\ DKSCompleted = {} THEN Procs ELSE Pending
  /\ announced' = IF DKSDoInterrupt THEN announced \cup {d} ELSE announced

\* DKSInfo: LsicInterrupt(3) reaches every processor.
DKSInfo(d) ==
  /\ Pending' = IF DKSDoInterrupt THEN Procs ELSE Pending
  /\ announced' = IF DKSDoInterrupt THEN announced \cup {d} ELSE announced

\* The rest of DKSCompleteTransfer and of its caller: DKSSchedule has the timeslice
\* yet to write.
FinishTransfer(a) ==
  LET d == doing[a] IN
  /\ d # None
  /\ doing' = [doing EXCEPT ![a] = None]
  /\ Completing' = Completing \ {d}
  /\ DKSStatus' = DKSStatus \ {d}
  /\ DKSCompleted' = DKSCompleted \cup {d}
  /\ DKSInfo(d)
  /\ UNCHANGED <<registers, disk, scheduling, handler>>
-----------------------------------------------------------------------------
(* DKSSchedule.                                                            *)

\* The scheduler takes it off its list; the timeslice is read before the lock.
Enter(t, d) ==
  /\ call[t] = NoCall /\ doing[t] = None
  /\ queue[d] = "queued"
  /\ queue' = [queue EXCEPT ![d] = "none"]
  /\ call' = [call EXCEPT ![t] = [at |-> "entered", disk |-> d, timeslice |-> Timeslice[d]]]
  /\ UNCHANGED <<registers, operations, Timeslice, interrupts, doing>>

\* The timeslice is yet to be written back.
Leave(t, timeslice) ==
  call' = [call EXCEPT ![t].at = "left", ![t].timeslice = timeslice]

\* There is an operation, and nobody is completing it.  The other branch of DKSSchedule,
\* for a disk that spins, is never reached: OperationInOnePlace.
Operating(t, d) ==
  /\ call[t].at = "entered" /\ call[t].disk = d
  /\ d \in DKSStatus /\ d \notin Completing

\* The timeslice is enough.
Sufficient(t, d) ==
  /\ Operating(t, d)
  /\ Unsigned(Timeslice[d]) >= disk[d].interval
  /\ BeginTransfer(t, d)
  /\ Leave(t, Signed(call[t].timeslice - disk[d].interval))
  /\ UNCHANGED <<registers, DKSStatus, DKSCompleted, disk, announced, queue, Timeslice, interrupts>>

\* Mutation: the time is not taken off the interval.
InsufficientUncharged(t, d) ==
  /\ Operating(t, d)
  /\ Unsigned(Timeslice[d]) < disk[d].interval
  /\ Enqueue(d, "next")
  /\ Leave(t, 0)
  /\ UNCHANGED <<registers, operations, Timeslice, interrupts, doing>>

\* It is not: the disk goes on in the next frame.
Insufficient(t, d) ==
  /\ Operating(t, d)
  /\ Unsigned(Timeslice[d]) < disk[d].interval
  /\ disk' = [disk EXCEPT ![d].interval = Unsigned(@ - Timeslice[d])]
  /\ Enqueue(d, "next")
  /\ Leave(t, 0)
  /\ UNCHANGED <<registers, DKSStatus, DKSCompleted, Completing, announced, Timeslice,
                 interrupts, doing>>

\* After the unlock.
WriteTimeslice(t) ==
  /\ doing[t] = None /\ call[t].at = "left"
  /\ Timeslice' = [Timeslice EXCEPT ![call[t].disk] = call[t].timeslice]
  /\ call' = [call EXCEPT ![t] = NoCall]
  /\ UNCHANGED <<registers, operations, queue, interrupts, doing>>

\* DKSStartTimeslice, and the work list.
Frame(d, dt) ==
  /\ queue[d] = "next"
  /\ Timeslice' = [Timeslice EXCEPT ![d] = dt]
  /\ queue' = [queue EXCEPT ![d] = "queued"]
  /\ UNCHANGED <<registers, operations, call, interrupts, doing>>
-----------------------------------------------------------------------------
(* The driver's handler of interrupt 3: it claims and completes it at the  *)
(* LSIC, which clears the pending bit, and then reads the info.            *)

TakeInterrupt(p) ==
  /\ Driver(p)
  /\ p \in Pending
  /\ handler' = [handler EXCEPT ![p] = "claimed"]
  /\ UNCHANGED <<registers, operations, scheduling, Pending, doing>>

CompleteInterrupt(p) ==
  /\ handler[p] = "claimed"
  /\ Pending' = Pending \ {p}
  /\ handler' = [handler EXCEPT ![p] = "completed"]
  /\ UNCHANGED <<registers, operations, scheduling, doing>>

Command(p) ==
  \/ \E value \in Registers : WritePortA(p, value)
  \/ SelectDrive(p) \/ PollDrive(p) \/ SetInterrupts(p) \/ SetCount(p) \/ SetAddress(p)
  \/ ReadInfo(p) \/ Reset(p)
  \/ \E d \in Disks, seek \in 0 .. MaxSeek : DispatchIO(p, d, seek)

Schedule(t) ==
  \/ \E d \in Disks : Enter(t, d) \/ Sufficient(t, d) \/ Insufficient(t, d)
  \/ WriteTimeslice(t)

Next ==
  \/ \E p \in Procs : Command(p) \/ TakeInterrupt(p) \/ CompleteInterrupt(p)
  \/ \E a \in Actors : FinishTransfer(a)
  \/ \E t \in Threads : Schedule(t)
  \/ \E d \in Disks, dt \in FrameTimes : Frame(d, dt)

Spec == Init /\ [][Next]_vars

\* A frame that takes some time comes when no thread holds an old timeslice back.
GoodFrame(d) ==
  /\ \A t \in Threads : call[t].disk # d
  /\ \E dt \in FrameTimes \ {0} : Frame(d, dt)

\* A processor and a host thread go on with what they began, and frames keep coming to
\* a disk that waits for them and do not all find a thread held up between the unlock
\* and the store.
FairSpec ==
  /\ Spec
  /\ \A p \in Procs : WF_vars(FinishTransfer(p))
  /\ \A t \in Threads : WF_vars(Schedule(t) \/ FinishTransfer(t))
  /\ \A d \in Disks : <>[](queue[d] # "next") \/ []<><<GoodFrame(d)>>_vars
-----------------------------------------------------------------------------
\* Who has an operation: those who complete it, and those about to decide on it.
Holders(d) == {a \in Actors : doing[a] = d} \cup
              {t \in Threads : call[t].at = "entered" /\ call[t].disk = d}

\* An operation is in one place: with one processor or thread, or on one list.  Nobody
\* completes it twice although the lock is dropped, and a disk with nothing to do is
\* never scheduled.
OperationInOnePlace ==
  \A d \in Disks :
    /\ \A a, b \in Holders(d) : a = b
    /\ Holders(d) # {} => queue[d] = "none"
    /\ d \in DKSStatus <=> Holders(d) # {} \/ queue[d] # "none"

\* Nothing that a transfer under way still uses changes while the lock is dropped.
TransferUndisturbed ==
  [][\A a \in Actors : doing[a] # None /\ doing'[a] = doing[a] => disk'[doing[a]] = disk[doing[a]]]_vars

\* A completion with an interrupt is read by somebody: the interrupt is still pending,
\* or a handler has completed it and is about to read the info.
AnnouncedIsRead ==
  announced # {} => \E p \in Procs : p \in Pending \/ handler[p] = "completed"

\* An operation that was started ends, whatever the timeslices, though one is written
\* back after the operation that used it.
OperationsEnd == \A d \in Disks : d \in DKSStatus ~> d \notin DKSStatus
=============================================================================
