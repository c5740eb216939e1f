---------------------------- MODULE BoardProofs ----------------------------
(***************************************************************************)
(* Proofs about the devices of the platform board, each for any number of  *)
(* what it has: disks, threads, processors, keys, and a terminal of any    *)
(* size.  No step of one part changes the state of another, so each part   *)
(* has an invariant of its own.                                            *)
(*                                                                         *)
(* The disk controller.  An operation is in one place because a transfer   *)
(* under way is one that some actor completes (Transfers), and because a   *)
(* thread does not decide on an operation while it completes one           *)
(* (OneTask).                                                              *)
(* The keyboard.  A press that waits for the driver is of a key that is    *)
(* still pressed, or whose release waits too (KeysInv).                    *)
(* The terminal.  MakeDirty only widens the dirty rectangle (Dirtied), and *)
(* each handler makes dirty what it writes to and where the cursor was and *)
(* is.  That the rectangle is cut off at the last column and row loses     *)
(* nothing because the cursor and the scroll window stay in the terminal   *)
(* (Fits).  A drawing takes over what the rectangle held, and gives up     *)
(* what changes before it is copied (ChangesShown).                        *)
(* The serial port.  A character goes to the terminal at once only when    *)
(* the FIFO is empty, and the FIFO has room while the driver has seen that *)
(* the port is not busy (TransmitInv).  The indices of the receive FIFO    *)
(* run modulo twice its size and are as far apart as the room it has not   *)
(* (ReceiveInv); what is needed of remainders is proved first.             *)
(***************************************************************************)
EXTENDS Board, Sequences, TLAPS

-----------------------------------------------------------------------------
(* The disk controller.                                                    *)

\* Where a call of DKSSchedule is, and what it holds.
IsCall(c) ==
  /\ c.at \in {"none", "entered", "left"} /\ c.disk \in Disks \cup {None}
  /\ "at" \in DOMAIN c /\ "disk" \in DOMAIN c /\ "timeslice" \in DOMAIN c

DiskTypes ==
  /\ DKSStatus \subseteq Disks /\ Completing \subseteq Disks
  /\ queue \in [Disks -> {"none", "queued", "next"}]
  /\ doing \in [Actors -> Disks \cup {None}]
  /\ call = [t \in Threads |-> call[t]] /\ \A t \in Threads : IsCall(call[t])
  /\ handler \in [Procs -> {"none", "claimed", "completed"}]
  /\ DOMAIN disk = Disks

\* A transfer is under way while an actor completes it.
Transfers == \A d \in Disks : d \in Completing <=> \E a \in Actors : doing[a] = d

\* A thread decides on an operation or completes one, not both.
OneTask == \A t \in Threads : call[t].at = "entered" => doing[t] = None

DiskInv == DiskTypes /\ Transfers /\ OneTask /\ OperationInOnePlace

\* A step that moves no operation.
LEMMA DisksStay ==
  ASSUME DiskInv, UNCHANGED <<DKSStatus, Completing, queue, doing>>,
         handler' \in [Procs -> {"none", "claimed", "completed"}], DOMAIN disk' = Disks,
         call' = [t \in Threads |-> call'[t]], \A t \in Threads : IsCall(call'[t]),
         \A t \in Threads : call'[t].at = "entered" \/ call[t].at = "entered" => call'[t] = call[t]
  PROVE  DiskInv'
<1>1. \A d \in Disks : Holders(d)' = Holders(d)
  BY DEF Holders
<1> QED BY <1>1 DEF DiskInv, DiskTypes, Transfers, OneTask, OperationInOnePlace

\* The driver starts an operation on an idle disk.
LEMMA DispatchPlaced ==
  ASSUME DiskInv, NEW p \in Procs, NEW d \in Disks, NEW seek \in 0 .. MaxSeek,
         DispatchIO(p, d, seek)
  PROVE  DiskInv'
<1>1. /\ p \in Actors /\ doing[p] = None /\ p \notin Threads /\ None \notin Disks
      /\ d \notin DKSStatus
  BY DksAssumption DEF DispatchIO, Driver, Accepts, Actors
<1>2. Holders(d) = {} /\ queue[d] = "none"
  BY <1>1 DEF DiskInv, OperationInOnePlace
<1>3. DKSStatus' = DKSStatus \cup {d} /\ call' = call /\ handler' = handler /\ DOMAIN disk' = Disks
  BY DEF DispatchIO, interrupts, DiskInv, DiskTypes
<1>4. CASE disk'[d].interval = 0
  <2>1. /\ Completing' = Completing \cup {d} /\ doing' = [doing EXCEPT ![p] = d]
        /\ queue' = queue
    BY <1>4 DEF DispatchIO, Start, BeginTransfer
  <2>2. \A a \in Actors : doing'[a] = IF a = p THEN d ELSE doing[a]
    BY <2>1 DEF DiskInv, DiskTypes
  <2>3. DiskTypes' /\ OneTask'
    BY <1>1, <1>3, <2>1, <2>2 DEF DiskInv, DiskTypes, OneTask, Actors
  <2>4. Transfers'
    BY <1>1, <2>1, <2>2 DEF DiskInv, Transfers
  <2>5. Holders(d)' = {p}
    BY <1>1, <1>2, <1>3, <2>2 DEF Holders
  <2>6. \A e \in Disks \ {d} : Holders(e)' = Holders(e)
    BY <1>1, <1>3, <2>2 DEF Holders
  <2>7. OperationInOnePlace'
    BY <1>2, <1>3, <2>1, <2>5, <2>6 DEF DiskInv, OperationInOnePlace
  <2> QED BY <2>3, <2>4, <2>7 DEF DiskInv
<1>5. CASE disk'[d].interval # 0
  <2>1. /\ Completing' = Completing /\ doing' = doing
        /\ queue' = [queue EXCEPT ![d] = "queued"]
    BY <1>2, <1>5 DEF DispatchIO, Start, Enqueue, DiskInv, DiskTypes
  <2>2. \A e \in Disks : queue'[e] = IF e = d THEN "queued" ELSE queue[e]
    BY <2>1 DEF DiskInv, DiskTypes
  <2>3. DiskTypes' /\ OneTask' /\ Transfers'
    BY <1>3, <2>1 DEF DiskInv, DiskTypes, OneTask, Transfers
  <2>4. \A e \in Disks : Holders(e)' = Holders(e)
    BY <1>3, <2>1 DEF Holders
  <2>5. OperationInOnePlace'
    BY <1>2, <1>3, <2>2, <2>4 DEF DiskInv, OperationInOnePlace
  <2> QED BY <2>3, <2>5 DEF DiskInv
<1> QED BY <1>4, <1>5

\* The transfer is done, and the disk idle.
LEMMA FinishPlaced ==
  ASSUME DiskInv, NEW a \in Actors, FinishTransfer(a)
  PROVE  DiskInv'
<1>0. PICK d : d = doing[a]
  OBVIOUS
<1>1. /\ d \in Disks /\ None \notin Disks
      /\ doing' = [doing EXCEPT ![a] = None] /\ Completing' = Completing \ {d}
      /\ DKSStatus' = DKSStatus \ {d} /\ queue' = queue /\ call' = call /\ handler' = handler
      /\ disk' = disk
  BY <1>0, DksAssumption DEF FinishTransfer, scheduling, DiskInv, DiskTypes
<1>2. \A b \in Actors : doing'[b] = IF b = a THEN None ELSE doing[b]
  BY <1>1 DEF DiskInv, DiskTypes
<1>3. a \in Holders(d) /\ \A b \in Holders(d) : b = a
  BY <1>0, <1>1 DEF Holders, DiskInv, OperationInOnePlace
<1>4. queue[d] = "none"
  BY <1>1, <1>3 DEF DiskInv, OperationInOnePlace
<1>5. DiskTypes' /\ OneTask'
  BY <1>1, <1>2 DEF DiskInv, DiskTypes, OneTask, Actors
<1>6. Transfers'
  <2>1. \A b \in Actors : doing[b] = d => b = a
    BY <1>3 DEF Holders
  <2> QED BY <1>0, <1>1, <1>2, <2>1 DEF DiskInv, Transfers
<1>7. Holders(d)' = {}
  <2>1. a \in Threads => call[a].at # "entered"
    BY <1>0, <1>1 DEF DiskInv, OneTask
  <2>2. \A b \in Actors : doing'[b] # d
    BY <1>1, <1>2, <1>3 DEF Holders
  <2>3. \A t \in Threads : ~(call'[t].at = "entered" /\ call'[t].disk = d)
    BY <1>1, <1>3, <2>1 DEF Holders
  <2> QED BY <2>2, <2>3 DEF Holders
<1>8. \A e \in Disks \ {d} : Holders(e)' = Holders(e)
  BY <1>0, <1>1, <1>2 DEF Holders
<1>9. OperationInOnePlace'
  BY <1>1, <1>4, <1>7, <1>8 DEF DiskInv, OperationInOnePlace
<1> QED BY <1>5, <1>6, <1>9 DEF DiskInv

\* A thread takes the disk off its list.
LEMMA EnterPlaced ==
  ASSUME DiskInv, NEW t \in Threads, NEW d \in Disks, Enter(t, d)
  PROVE  DiskInv'
<1>1. /\ call[t].at = "none" /\ doing[t] = None /\ queue[d] = "queued" /\ None \notin Disks
      /\ call' = [call EXCEPT ![t] = [at |-> "entered", disk |-> d, timeslice |-> Timeslice[d]]]
      /\ queue' = [queue EXCEPT ![d] = "none"]
      /\ UNCHANGED <<DKSStatus, Completing, doing, handler, disk>>
  BY DksAssumption DEF Enter, NoCall, operations, interrupts
<1>2. \A u \in Threads : call'[u] = IF u = t THEN [at |-> "entered", disk |-> d, timeslice |-> Timeslice[d]] ELSE call[u]
  BY <1>1 DEF DiskInv, DiskTypes
<1>3. \A e \in Disks : queue'[e] = IF e = d THEN "none" ELSE queue[e]
  BY <1>1 DEF DiskInv, DiskTypes
<1>4. Holders(d) = {} /\ d \in DKSStatus
  BY <1>1 DEF DiskInv, OperationInOnePlace
<1>5. Holders(d)' = {t}
  BY <1>1, <1>2, <1>4 DEF Holders
<1>6. \A e \in Disks \ {d} : Holders(e)' = Holders(e)
  BY <1>1, <1>2 DEF Holders
<1>7. OperationInOnePlace'
  BY <1>1, <1>3, <1>4, <1>5, <1>6 DEF DiskInv, OperationInOnePlace
<1>8. DiskTypes'
  <2>1. call' = [u \in Threads |-> call'[u]] /\ \A u \in Threads : IsCall(call'[u])
    BY <1>1, <1>2 DEF DiskInv, DiskTypes, IsCall
  <2>2. queue' \in [Disks -> {"none", "queued", "next"}]
    BY <1>1 DEF DiskInv, DiskTypes
  <2> QED BY <1>1, <2>1, <2>2 DEF DiskInv, DiskTypes
<1>9. OneTask' /\ Transfers'
  BY <1>1, <1>2 DEF DiskInv, OneTask, Transfers
<1> QED BY <1>7, <1>8, <1>9 DEF DiskInv

\* The thread completes the operation.
LEMMA SufficientPlaced ==
  ASSUME DiskInv, NEW t \in Threads, NEW d \in Disks, Sufficient(t, d)
  PROVE  DiskInv'
<1>1. PICK left : call' = [call EXCEPT ![t].at = "left", ![t].timeslice = left]
  BY DEF Sufficient, Leave
<1>2. /\ call[t].at = "entered" /\ call[t].disk = d /\ d \in DKSStatus /\ d \notin Completing
      /\ Completing' = Completing \cup {d} /\ doing' = [doing EXCEPT ![t] = d]
      /\ UNCHANGED <<DKSStatus, disk, queue, handler>>
  BY DEF Sufficient, Operating, BeginTransfer, interrupts
<1>3. /\ call' = [u \in Threads |-> call'[u]]
      /\ \A u \in Threads :
           IF u = t THEN IsCall(call'[u]) /\ call'[u].at = "left" ELSE call'[u] = call[u]
  <2>1. call = [u \in Threads |-> call[u]] /\ IsCall(call[t])
    BY DEF DiskInv, DiskTypes
  <2> QED BY <1>1, <2>1 DEF IsCall
<1>4. t \in Actors /\ None \notin Disks /\ doing[t] = None
      /\ \A a \in Actors : doing'[a] = IF a = t THEN d ELSE doing[a]
  BY <1>2, DksAssumption DEF DiskInv, DiskTypes, Actors, OneTask
<1>5. Holders(d) = {t}
  BY <1>2 DEF Holders, DiskInv, OperationInOnePlace
<1>6. Holders(d)' = {t}
  BY <1>3, <1>4, <1>5 DEF Holders
<1>7. \A e \in Disks \ {d} : Holders(e)' = Holders(e)
  BY <1>2, <1>3, <1>4 DEF Holders
<1>8. OperationInOnePlace'
  BY <1>2, <1>5, <1>6, <1>7 DEF DiskInv, OperationInOnePlace
<1>9. DiskTypes'
  <2>1. \A u \in Threads : IsCall(call'[u])
    BY <1>3 DEF DiskInv, DiskTypes
  <2>2. doing' \in [Actors -> Disks \cup {None}]
    BY <1>2 DEF DiskInv, DiskTypes
  <2> QED BY <1>2, <1>3, <2>1, <2>2 DEF DiskInv, DiskTypes
<1>10. OneTask' /\ Transfers'
  BY <1>2, <1>3, <1>4 DEF DiskInv, OneTask, Transfers, Actors
<1> QED BY <1>8, <1>9, <1>10 DEF DiskInv

\* Or leaves it for the next frame.
LEMMA InsufficientPlaced ==
  ASSUME DiskInv, NEW t \in Threads, NEW d \in Disks, Insufficient(t, d)
  PROVE  DiskInv'
<1>1. call' = [call EXCEPT ![t].at = "left", ![t].timeslice = 0]
  BY DEF Insufficient, Leave
<1>2. /\ call[t].at = "entered" /\ call[t].disk = d /\ d \in DKSStatus /\ d \notin Completing
      /\ Enqueue(d, "next") /\ DOMAIN disk' = Disks
      /\ UNCHANGED <<DKSStatus, Completing, doing, handler>>
  BY DEF Insufficient, Operating, interrupts, DiskInv, DiskTypes
<1>3. /\ call' = [u \in Threads |-> call'[u]]
      /\ \A u \in Threads :
           IF u = t THEN IsCall(call'[u]) /\ call'[u].at = "left" ELSE call'[u] = call[u]
  <2>1. call = [u \in Threads |-> call[u]] /\ IsCall(call[t])
    BY DEF DiskInv, DiskTypes
  <2> QED BY <1>1, <2>1 DEF IsCall
<1>4. Holders(d) = {t} /\ doing[t] = None /\ t \in Actors
  BY <1>2 DEF Holders, DiskInv, OperationInOnePlace, OneTask, Actors
<1>5. queue[d] = "none"
  BY <1>4 DEF DiskInv, OperationInOnePlace
<1>6. \A e \in Disks : queue'[e] = IF e = d THEN "next" ELSE queue[e]
  BY <1>2, <1>5 DEF DiskInv, DiskTypes, Enqueue
<1>7. Holders(d)' = {}
  <2>1. \A a \in Actors : doing'[a] # d
    BY <1>2, <1>4, DksAssumption DEF Holders
  <2>2. \A u \in Threads : ~(call'[u].at = "entered" /\ call'[u].disk = d)
    BY <1>3, <1>4 DEF Holders
  <2> QED BY <2>1, <2>2 DEF Holders
<1>8. \A e \in Disks \ {d} : Holders(e)' = Holders(e)
  BY <1>2, <1>3 DEF Holders
<1>9. OperationInOnePlace'
  BY <1>2, <1>6, <1>7, <1>8 DEF DiskInv, OperationInOnePlace
<1>10. DiskTypes'
  <2>1. \A u \in Threads : IsCall(call'[u])
    BY <1>3 DEF DiskInv, DiskTypes
  <2>2. queue' \in [Disks -> {"none", "queued", "next"}]
    BY <1>2, <1>5 DEF DiskInv, DiskTypes, Enqueue
  <2> QED BY <1>2, <1>3, <2>1, <2>2 DEF DiskInv, DiskTypes
<1>11. OneTask' /\ Transfers'
  BY <1>2, <1>3 DEF DiskInv, OneTask, Transfers
<1> QED BY <1>9, <1>10, <1>11 DEF DiskInv

\* The disk comes to the work list.
LEMMA FramePlaced ==
  ASSUME DiskInv, NEW d \in Disks, NEW dt, Frame(d, dt)
  PROVE  DiskInv'
<1>1. /\ queue[d] = "next" /\ queue' = [queue EXCEPT ![d] = "queued"]
      /\ UNCHANGED <<DKSStatus, Completing, disk, call, doing, handler>>
  BY DEF Frame, operations, interrupts
<1>2. \A e \in Disks : queue'[e] = IF e = d THEN "queued" ELSE queue[e]
  BY <1>1 DEF DiskInv, DiskTypes
<1>3. \A e \in Disks : Holders(e)' = Holders(e)
  BY <1>1 DEF Holders
<1>4. OperationInOnePlace'
  BY <1>1, <1>2, <1>3 DEF DiskInv, OperationInOnePlace
<1> QED BY <1>1, <1>4 DEF DiskInv, DiskTypes, OneTask, Transfers

\* The driver's other steps, and the store of a timeslice.
LEMMA OthersStay ==
  ASSUME DiskInv,
         \/ \E p \in Procs :
              \/ \E value \in Registers : WritePortA(p, value)
              \/ SelectDrive(p) \/ PollDrive(p) \/ SetInterrupts(p) \/ SetCount(p)
              \/ SetAddress(p) \/ ReadInfo(p) \/ Reset(p)
              \/ TakeInterrupt(p) \/ CompleteInterrupt(p)
         \/ \E t \in Threads : WriteTimeslice(t)
  PROVE  DiskInv'
<1>1. /\ UNCHANGED <<DKSStatus, Completing, queue, doing, disk>>
      /\ \/ call' = call
         \/ \E t \in Threads : call[t].at = "left" /\ call' = [call EXCEPT ![t] = NoCall]
      /\ \/ handler' = handler
         \/ \E p \in Procs, to \in {"none", "claimed", "completed"} :
              handler' = [handler EXCEPT ![p] = to]
  BY DEF WritePortA, SelectDrive, PollDrive, SetInterrupts, SetCount, SetAddress, ReadInfo, Reset,
         TakeInterrupt, CompleteInterrupt, WriteTimeslice, operations, scheduling, interrupts
<1>2. handler' \in [Procs -> {"none", "claimed", "completed"}] /\ DOMAIN disk' = Disks
  BY <1>1 DEF DiskInv, DiskTypes
<1> DEFINE CallsStay ==
             /\ call' = [t \in Threads |-> call'[t]] /\ \A t \in Threads : IsCall(call'[t])
             /\ \A t \in Threads : call'[t].at = "entered" \/ call[t].at = "entered" =>
                  call'[t] = call[t]
<1>3. CallsStay
  <2>1. CASE call' = call
    BY <2>1 DEF DiskInv, DiskTypes
  <2>2. ASSUME NEW t \in Threads, call[t].at = "left", call' = [call EXCEPT ![t] = NoCall]
        PROVE  CallsStay
    <3>1. \A u \in Threads : call'[u] = IF u = t THEN NoCall ELSE call[u]
      BY <2>2 DEF DiskInv, DiskTypes
    <3>2. IsCall(NoCall) /\ NoCall.at = "none"
      BY DEF IsCall, NoCall
    <3> QED BY <2>2, <3>1, <3>2 DEF DiskInv, DiskTypes
  <2> QED BY <1>1, <2>1, <2>2
<1> QED BY <1>1, <1>2, <1>3, DisksStay

\* Every step of the controller and its disks.
LEMMA DisksPlaced ==
  ASSUME DiskInv, Next
  PROVE  DiskInv'
BY OthersStay, DispatchPlaced, FinishPlaced, EnterPlaced, SufficientPlaced, InsufficientPlaced,
   FramePlaced DEF Next, Command, Schedule

\* The start of the controller, and steps that are none of its.
LEMMA InitDisks == Init => DiskInv /\ AnnouncedIsRead
<1> SUFFICES ASSUME Init PROVE DiskInv /\ AnnouncedIsRead
  OBVIOUS
<1>1. None \notin Disks
  BY DksAssumption
<1>2. /\ \A a \in Actors : doing[a] = None
      /\ \A t \in Threads : call[t] = NoCall
      /\ \A d \in Disks : queue[d] = "none"
      /\ DKSStatus = {} /\ Completing = {} /\ announced = {} /\ DOMAIN disk = Disks
  BY DEF Init
<1>3. IsCall(NoCall) /\ NoCall.at = "none"
  BY DEF IsCall, NoCall
<1>4. DiskTypes
  BY <1>2, <1>3 DEF Init, DiskTypes
<1>5. \A d \in Disks : Holders(d) = {}
  BY <1>1, <1>2, <1>3 DEF Holders
<1>6. Transfers /\ OneTask /\ OperationInOnePlace
  BY <1>1, <1>2, <1>3, <1>5 DEF Transfers, OneTask, OperationInOnePlace
<1> QED BY <1>2, <1>4, <1>6 DEF DiskInv, AnnouncedIsRead

\* The parts share nothing: a step of the board is one of the controller or leaves it alone.
LEMMA DisksApart ==
  ASSUME [BNext]_bvars
  PROVE  Next \/ UNCHANGED vars
BY DEF BNext, bvars, OfDisks, OfTransmission, OfReception, OfTerminal, OfKeyboard

\* The invariant of the controller holds on the board.
LEMMA AlwaysDisks == BSpec => []DiskInv
<1>1. BInit => DiskInv
  BY InitDisks DEF BInit
<1>2. DiskInv /\ [BNext]_bvars => DiskInv'
  <2> SUFFICES ASSUME DiskInv, [BNext]_bvars PROVE DiskInv'
    OBVIOUS
  <2>1. CASE Next
    BY <2>1, DisksPlaced
  <2>2. CASE UNCHANGED vars
    <3>1. UNCHANGED <<DKSStatus, Completing, queue, doing, handler, disk, call>>
      BY <2>2 DEF vars, operations, scheduling, interrupts
    <3> QED BY <3>1, DisksStay DEF DiskInv, DiskTypes
  <2> QED BY <2>1, <2>2, DisksApart
<1> QED BY <1>1, <1>2, PTL DEF BSpec

\* An operation is in one place: with one processor or thread that completes it or is
\* about to decide on it, or on one list, although the lock of the controller is dropped
\* while data moves; and an idle disk is in none.
THEOREM OperationPlaced == BSpec => []OperationInOnePlace
<1>1. DiskInv => OperationInOnePlace
  BY DEF DiskInv
<1> QED BY <1>1, AlwaysDisks, PTL

\* What DKSCompleteTransfer reads again of its disk after it took the lock back is what it
\* was before it dropped it.
THEOREM TransfersUndisturbed == BSpec => TransferUndisturbed
<1> DEFINE Undisturbed == \A a \in Actors : doing[a] # None /\ doing'[a] = doing[a] =>
                            disk'[doing[a]] = disk[doing[a]]
<1>1. DiskInv /\ [BNext]_bvars => [Undisturbed]_vars
  <2> SUFFICES ASSUME DiskInv, Next, NEW a \in Actors, doing[a] # None
               PROVE  disk'[doing[a]] = disk[doing[a]]
    BY DisksApart
  <2>1. /\ doing[a] \in Disks /\ doing[a] \in Completing /\ DOMAIN disk = Disks
        /\ doing[a] \in DKSStatus
    <3>1. doing[a] \in Disks /\ a \in Holders(doing[a])
      BY DEF DiskInv, DiskTypes, Holders
    <3> QED BY <3>1 DEF DiskInv, DiskTypes, Transfers, OperationInOnePlace
  <2> DEFINE IdleChanges ==
               \/ disk' = disk
               \/ \E d \in Disks : \E new : /\ d \notin DKSStatus \/ d \notin Completing
                                         /\ disk' = [disk EXCEPT ![d] = new]
  <2>2. IdleChanges
    <3>1. ASSUME NEW p \in Procs, Command(p) \/ TakeInterrupt(p) \/ CompleteInterrupt(p) PROVE IdleChanges
      <4>1. CASE \E d \in Disks, seek \in 0 .. MaxSeek : DispatchIO(p, d, seek)
        BY <4>1 DEF DispatchIO, Accepts
      <4>2. CASE ~\E d \in Disks, seek \in 0 .. MaxSeek : DispatchIO(p, d, seek)
        BY <3>1, <4>2 DEF Command, WritePortA, SelectDrive, PollDrive, SetInterrupts, SetCount,
          SetAddress, ReadInfo, Reset, TakeInterrupt, CompleteInterrupt, operations
      <4> QED BY <4>1, <4>2
    <3>2. ASSUME NEW t \in Threads, Schedule(t) PROVE IdleChanges
      <4>1. ASSUME NEW d \in Disks, Insufficient(t, d) PROVE IdleChanges
        <5>1. d \notin Completing
          BY <4>1 DEF Insufficient, Operating
        <5>2. PICK new : disk' = [disk EXCEPT ![d].interval = new]
          BY <4>1 DEF Insufficient
        <5>3. disk' = [disk EXCEPT ![d] = [disk[d] EXCEPT !.interval = new]]
          BY <5>2
        <5> QED BY <5>1, <5>3
      <4>2. ASSUME NEW d \in Disks, Enter(t, d) \/ Sufficient(t, d) PROVE IdleChanges
        BY <4>2 DEF Enter, Sufficient, operations
      <4>3. CASE WriteTimeslice(t)
        BY <4>3 DEF WriteTimeslice, operations
      <4> QED BY <3>2, <4>1, <4>2, <4>3 DEF Schedule
    <3>3. ASSUME NEW b \in Actors, FinishTransfer(b) PROVE IdleChanges
      BY <3>3 DEF FinishTransfer
    <3>4. ASSUME NEW d \in Disks, NEW dt \in FrameTimes, Frame(d, dt) PROVE IdleChanges
      BY <3>4 DEF Frame, operations
    <3> QED BY <3>1, <3>2, <3>3, <3>4 DEF Next
  <2> QED BY <2>1, <2>2
<1>2. TransferUndisturbed <=> [][Undisturbed]_vars
  BY PTL DEF TransferUndisturbed
<1> HIDE DEF Undisturbed
<1> QED BY <1>1, <1>2, AlwaysDisks, PTL DEF BSpec

\* A completion that was announced is read: for as long as it is not, some processor has
\* the interrupt pending, or has completed it and will read the info; an interrupt that
\* comes while another is handled is not lost.
THEOREM AnnouncementsAreRead ==
  ASSUME Procs # {}
  PROVE  BSpec => []AnnouncedIsRead
<1>1. BInit => AnnouncedIsRead
  BY InitDisks DEF BInit
<1>2. DiskInv /\ AnnouncedIsRead /\ [BNext]_bvars => AnnouncedIsRead'
  <2> SUFFICES ASSUME DiskInv, AnnouncedIsRead, Next \/ UNCHANGED vars, announced' # {}
               PROVE  \E p \in Procs : p \in Pending' \/ handler'[p] = "completed"
    BY DisksApart DEF AnnouncedIsRead
  <2>0. DOMAIN handler = Procs
    BY DEF DiskInv, DiskTypes
  <2>1. CASE announced' = announced /\ UNCHANGED interrupts
    BY <2>1 DEF AnnouncedIsRead, interrupts
  <2>2. ASSUME NEW p \in Procs, TakeInterrupt(p) PROVE \E q \in Procs : q \in Pending' \/ handler'[q] = "completed"
    BY <2>2 DEF TakeInterrupt
  <2>3. ASSUME NEW p \in Procs, CompleteInterrupt(p) PROVE \E q \in Procs : q \in Pending' \/ handler'[q] = "completed"
    BY <2>0, <2>3 DEF CompleteInterrupt
  <2>4. ASSUME NEW a \in Actors, FinishTransfer(a) PROVE \E q \in Procs : q \in Pending' \/ handler'[q] = "completed"
    <3>1. CASE DKSDoInterrupt
      BY <2>4, <3>1 DEF FinishTransfer, DKSInfo
    <3>2. CASE ~DKSDoInterrupt
      BY <2>4, <3>2 DEF FinishTransfer, DKSInfo, AnnouncedIsRead
    <3> QED BY <3>1, <3>2
  <2>5. CASE UNCHANGED vars
    BY <2>1, <2>5 DEF vars, operations
  <2>6. ASSUME NEW p \in Procs, Command(p) PROVE announced' = announced /\ UNCHANGED interrupts
    BY <2>6 DEF Command, WritePortA, SelectDrive, PollDrive, SetInterrupts, SetCount, SetAddress,
      ReadInfo, Reset, DispatchIO, operations
  <2>7. ASSUME NEW t \in Threads, Schedule(t) PROVE announced' = announced /\ UNCHANGED interrupts
    BY <2>7 DEF Schedule, Enter, Sufficient, Insufficient, WriteTimeslice, operations
  <2>8. ASSUME NEW d \in Disks, NEW dt \in FrameTimes, Frame(d, dt)
        PROVE  announced' = announced /\ UNCHANGED interrupts
    BY <2>8 DEF Frame, operations
  <2> QED BY <2>1, <2>2, <2>3, <2>4, <2>5, <2>6, <2>7, <2>8 DEF Next
<1> QED BY <1>1, <1>2, AlwaysDisks, PTL DEF BSpec
-----------------------------------------------------------------------------
(* The keyboard.                                                           *)

\* A press that is outstanding, or in a report the driver has to read, is of a key that is
\* still pressed or whose release is outstanding.
KeysInv ==
  /\ OutstandingPressed \subseteq Pressed \cup OutstandingReleased
  /\ OutstandingPressed \cup OutstandingReleased \subseteq K!Codes
  /\ PortAValue \in Nat
  /\ popped \in BOOLEAN /\ down \subseteq K!Codes
  /\ popped /\ PortAValue \in K!Codes => PortAValue \in Pressed \cup OutstandingReleased
  /\ K!NoStuckKey

\* Codes, releases and no report are different values of port A.
LEMMA ReportsApart ==
  /\ K!Codes \subseteq Nat /\ Nothing \in Nat \ K!Codes
  /\ \A code \in K!Codes : K!ReleaseOf(code) \in Nat \ K!Codes
  /\ \A code, other \in K!Codes : K!ReleaseOf(code) = K!ReleaseOf(other) => code = other
BY KeyboardAssumption DEF K!Codes, K!ReleaseOf

\* Keys pressed and released, reports taken and read, in any order.
LEMMA KeysStep ==
  ASSUME KeysInv, K!Next
  PROVE  KeysInv'
<1>1. ASSUME NEW code \in K!Codes, K!KeyboardPressed(code) PROVE KeysInv'
  BY <1>1 DEF K!KeyboardPressed, KeysInv, K!NoStuckKey
<1>2. ASSUME NEW code \in K!Codes, K!KeyboardReleased(code) PROVE KeysInv'
  BY <1>2 DEF K!KeyboardReleased, KeysInv, K!NoStuckKey
<1>3. ASSUME NEW code \in K!Codes, K!Select(code) PROVE KeysInv'
  BY <1>3, ReportsApart DEF K!Select, K!keys, KeysInv, K!NoStuckKey
<1>4. CASE K!Pop
  <2>1. CASE UNCHANGED K!keys /\ PortAValue' = Nothing
    BY <1>4, <2>1, ReportsApart DEF K!Pop, K!keys, KeysInv, K!NoStuckKey
  <2>2. ASSUME NEW code \in K!Codes, code \in OutstandingReleased, K!PopReleased(code)
        PROVE  KeysInv'
    BY <1>4, <2>2, ReportsApart DEF K!Pop, K!PopReleased, KeysInv, K!NoStuckKey
  <2>3. ASSUME NEW code \in K!Codes, code \in OutstandingPressed, K!PopPressed(code)
        PROVE  KeysInv'
    BY <1>4, <2>3, ReportsApart DEF K!Pop, K!PopPressed, KeysInv, K!NoStuckKey
  <2> QED BY <1>4, <2>1, <2>2, <2>3 DEF K!Pop, K!Outstanding, KeysInv
<1>5. CASE K!ReadPortA
  BY <1>5, ReportsApart DEF K!ReadPortA, K!keys, KeysInv, K!NoStuckKey
<1>6. CASE K!KeyboardReset
  BY <1>6, ReportsApart DEF K!KeyboardReset, KeysInv, K!NoStuckKey
<1>7. CASE K!Check
  BY <1>7, ReportsApart DEF K!Check, K!keys, KeysInv, K!NoStuckKey
<1> QED BY <1>1, <1>2, <1>3, <1>4, <1>5, <1>6, <1>7 DEF K!Next

\* A key that was released does not stay down for the guest, however often it was pressed
\* and released between two reports.
THEOREM KeysComeUp == BSpec => []NoStuckKey
<1> DEFINE I == part = "keyboard" => KeysInv
<1>1. BInit => I
  <2> SUFFICES ASSUME BInit, part = "keyboard" PROVE KeysInv
    OBVIOUS
  <2>1. K!Init
    BY DEF BInit
  <2> QED BY <2>1, ReportsApart DEF K!Init, KeysInv, K!NoStuckKey
<1>2. I /\ [BNext]_bvars => I'
  <2> SUFFICES ASSUME I, [BNext]_bvars, part' = "keyboard" PROVE KeysInv'
    OBVIOUS
  <2>1. CASE UNCHANGED <<part, keyboard>>
    BY <2>1 DEF keyboard, KeysInv, K!NoStuckKey
  <2>2. CASE OfKeyboard /\ K!Next
    BY <2>2, KeysStep DEF OfKeyboard, Of
  <2>3. BNext => (OfKeyboard /\ K!Next) \/ UNCHANGED <<part, keyboard>>
    BY DEF BNext, OfDisks, OfTransmission, OfReception, OfTerminal, OfKeyboard, Of
  <2> QED BY <2>1, <2>2, <2>3 DEF bvars
<1>3. I => NoStuckKey
  BY DEF NoStuckKey, KeysInv
<1> HIDE DEF I
<1> QED BY <1>1, <1>2, <1>3, PTL DEF BSpec
-----------------------------------------------------------------------------
(* The terminal.                                                           *)

\* A terminal, wherever its cursor is.
Terminals ==
  [CursorX : Int, CursorY : Int, IsCursorHidden : BOOLEAN,
   DirtyX1 : Int, DirtyY1 : Int, DirtyX2 : Int, DirtyY2 : Int, IsDirty : BOOLEAN,
   ScrollWindowTop : Int, ScrollWindowBottom : Int,
   IsEscape : Int, EscapeIndex : 0 .. (ParamCount - 1),
   EscapeParams : [0 .. (ParamCount - 1) -> Nat]]

\* Nothing but the dirty rectangle differs.
SameBut(t, u) ==
  /\ u.CursorX = t.CursorX /\ u.CursorY = t.CursorY /\ u.IsCursorHidden = t.IsCursorHidden
  /\ u.ScrollWindowTop = t.ScrollWindowTop /\ u.ScrollWindowBottom = t.ScrollWindowBottom
  /\ u.IsEscape = t.IsEscape /\ u.EscapeIndex = t.EscapeIndex /\ u.EscapeParams = t.EscapeParams

\* The dirty rectangle of u contains that of t.
Wider(t, u) ==
  t.IsDirty =>
    /\ u.IsDirty
    /\ u.DirtyX1 <= t.DirtyX1 /\ t.DirtyX2 <= u.DirtyX2
    /\ u.DirtyY1 <= t.DirtyY1 /\ t.DirtyY2 <= u.DirtyY2
\* TTYMakeDirty: the rectangle that it leaves contains what was dirty and the corners that it
\* was given, cut off at the last column and row.
LEMMA Dirtied ==
  ASSUME NEW t \in Terminals, NEW x1 \in Int, NEW y1 \in Int, NEW x2 \in Int, NEW y2 \in Int,
         NEW u, u = T!MakeDirty(t, x1, y1, x2, y2)
  PROVE  /\ u \in Terminals /\ SameBut(t, u) /\ Wider(t, u) /\ u.IsDirty
         /\ u.DirtyX1 <= T!Lesser(x1, x2) /\ T!Lesser(T!Greater(x1, x2), Width - 1) <= u.DirtyX2
         /\ u.DirtyY1 <= T!Lesser(y1, y2) /\ T!Lesser(T!Greater(y1, y2), Height - 1) <= u.DirtyY2
<1> DEFINE left == T!Lesser(x1, x2)
           top == T!Lesser(y1, y2)
           right == T!Lesser(T!Greater(x1, x2), Width - 1)
           bottom == T!Lesser(T!Greater(y1, y2), Height - 1)
<1>1. left \in Int /\ top \in Int /\ right \in Int /\ bottom \in Int
  BY TerminalAssumption DEF T!Lesser, T!Greater
<1>2. CASE t.IsDirty
  <2>1. u = [t EXCEPT !.DirtyX1 = T!Lesser(t.DirtyX1, left), !.DirtyY1 = T!Lesser(t.DirtyY1, top),
                      !.DirtyX2 = T!Greater(t.DirtyX2, right), !.DirtyY2 = T!Greater(t.DirtyY2, bottom)]
    BY <1>2 DEF T!MakeDirty
  <2>2. /\ T!Lesser(t.DirtyX1, left) \in Int /\ T!Lesser(t.DirtyY1, top) \in Int
        /\ T!Greater(t.DirtyX2, right) \in Int /\ T!Greater(t.DirtyY2, bottom) \in Int
        /\ T!Lesser(t.DirtyX1, left) <= t.DirtyX1 /\ T!Lesser(t.DirtyX1, left) <= left
        /\ T!Lesser(t.DirtyY1, top) <= t.DirtyY1 /\ T!Lesser(t.DirtyY1, top) <= top
        /\ T!Greater(t.DirtyX2, right) >= t.DirtyX2 /\ T!Greater(t.DirtyX2, right) >= right
        /\ T!Greater(t.DirtyY2, bottom) >= t.DirtyY2 /\ T!Greater(t.DirtyY2, bottom) >= bottom
    <3>1. /\ t.DirtyX1 \in Int /\ t.DirtyX2 \in Int /\ t.DirtyY1 \in Int /\ t.DirtyY2 \in Int
      BY DEF Terminals
    <3> HIDE DEF left, top, right, bottom
    <3> QED BY <1>1, <3>1 DEF T!Lesser, T!Greater
  <2> HIDE DEF left, top, right, bottom
  <2>3. u \in Terminals
    BY ZenonT(40), <2>1, <2>2 DEF Terminals
  <2>4. SameBut(t, u) /\ u.IsDirty = t.IsDirty
    BY <2>1 DEF Terminals, SameBut
  <2>5. /\ u.DirtyX1 = T!Lesser(t.DirtyX1, left) /\ u.DirtyY1 = T!Lesser(t.DirtyY1, top)
        /\ u.DirtyX2 = T!Greater(t.DirtyX2, right) /\ u.DirtyY2 = T!Greater(t.DirtyY2, bottom)
    BY <2>1 DEF Terminals
  <2> QED BY <1>1, <1>2, <2>2, <2>3, <2>4, <2>5 DEF Wider, left, top, right, bottom
<1>3. CASE ~t.IsDirty
  <2>1. u = [t EXCEPT !.DirtyX1 = left, !.DirtyY1 = top,
                      !.DirtyX2 = right, !.DirtyY2 = bottom, !.IsDirty = TRUE]
    BY <1>3 DEF T!MakeDirty
  <2> HIDE DEF left, top, right, bottom
  <2>3. u \in Terminals
    BY ZenonT(40), <1>1, <2>1 DEF Terminals
  <2>4. SameBut(t, u) /\ u.IsDirty
    BY <2>1 DEF Terminals, SameBut
  <2>5. u.DirtyX1 = left /\ u.DirtyY1 = top /\ u.DirtyX2 = right /\ u.DirtyY2 = bottom
    BY <2>1 DEF Terminals
  <2> QED BY <1>1, <1>3, <2>3, <2>4, <2>5 DEF Wider, left, top, right, bottom
<1> QED BY <1>2, <1>3

\* Its cursor is in the terminal, or after the last column, and its scroll window is in it.
Fits(t) ==
  /\ t.CursorX \in 0 .. Width /\ t.CursorY \in T!Rows
  /\ t.ScrollWindowTop \in T!Rows /\ t.ScrollWindowBottom \in T!Rows
  /\ t.ScrollWindowTop <= t.ScrollWindowBottom

\* A cell is in the dirty rectangle.
Covers(t, x, y) ==
  t.IsDirty /\ t.DirtyX1 <= x /\ x <= t.DirtyX2 /\ t.DirtyY1 <= y /\ y <= t.DirtyY2

\* A drawing under way, or none.
Drawings == [x : Int, y : Int, width : Int, height : Int, cells : SUBSET (Int \X Int)]

TerminalInv == tty \in Terminals /\ Fits(tty) /\ drawing \in Drawings /\ T!Shown

\* A cell of a dirty rectangle stays in a wider one.
LEMMA StaysCovered ==
  ASSUME NEW t \in Terminals, NEW u \in Terminals, Wider(t, u),
         NEW x \in Int, NEW y \in Int, Covers(t, x, y)
  PROVE  Covers(u, x, y)
<1>1. /\ t.DirtyX1 \in Int /\ t.DirtyX2 \in Int /\ t.DirtyY1 \in Int /\ t.DirtyY2 \in Int
      /\ u.DirtyX1 \in Int /\ u.DirtyX2 \in Int /\ u.DirtyY1 \in Int /\ u.DirtyY2 \in Int
  BY DEF Terminals
<1> QED BY <1>1 DEF Wider, Covers
\* A rectangle made wider twice contains the first.
LEMMA WiderTwice ==
  ASSUME NEW t \in Terminals, NEW u \in Terminals, NEW v \in Terminals, Wider(t, u), Wider(u, v)
  PROVE  Wider(t, v)
<1>1. /\ t.DirtyX1 \in Int /\ t.DirtyX2 \in Int /\ t.DirtyY1 \in Int /\ t.DirtyY2 \in Int
      /\ u.DirtyX1 \in Int /\ u.DirtyX2 \in Int /\ u.DirtyY1 \in Int /\ u.DirtyY2 \in Int
      /\ v.DirtyX1 \in Int /\ v.DirtyX2 \in Int /\ v.DirtyY1 \in Int /\ v.DirtyY2 \in Int
  BY DEF Terminals
<1> QED BY <1>1 DEF Wider

\* The cells that change are in the rectangle, those that do not are left as they were to be
\* drawn, by the rectangle or by the drawing under way.
LEMMA ChangesShown ==
  ASSUME TerminalInv, NEW t \in Terminals, Fits(t), Wider(tty, t), tty' = t,
         NEW changed, T!Outdates(changed),
         \A c \in stale' : (c \in stale /\ c \notin changed) \/ (t.IsDirty /\ c \in T!DirtyCells(t))
  PROVE  TerminalInv'
<1>1. /\ t.DirtyX1 \in Int /\ t.DirtyX2 \in Int /\ t.DirtyY1 \in Int /\ t.DirtyY2 \in Int
      /\ tty.DirtyX1 \in Int /\ tty.DirtyX2 \in Int /\ tty.DirtyY1 \in Int /\ tty.DirtyY2 \in Int
  BY DEF TerminalInv, Terminals
<1>2. drawing' \in Drawings /\ drawing'.cells = drawing.cells \ changed
  BY DEF TerminalInv, Drawings, T!Outdates
<1>3. ASSUME NEW c \in stale'
      PROVE  (t.IsDirty /\ c \in T!DirtyCells(t)) \/ c \in drawing'.cells
  <2>1. CASE c \in stale /\ c \notin changed
    <3>1. (tty.IsDirty /\ c \in T!DirtyCells(tty)) \/ c \in drawing.cells
      BY <2>1 DEF TerminalInv, T!Shown
    <3>2. CASE tty.IsDirty /\ c \in T!DirtyCells(tty)
      <4>1. /\ c = <<c[1], c[2]>> /\ c[1] \in tty.DirtyX1 .. tty.DirtyX2
            /\ c[2] \in tty.DirtyY1 .. tty.DirtyY2
        BY <3>2 DEF T!DirtyCells
      <4>2. c[1] \in t.DirtyX1 .. t.DirtyX2 /\ c[2] \in t.DirtyY1 .. t.DirtyY2 /\ t.IsDirty
        BY <1>1, <3>2, <4>1 DEF Wider
      <4> QED BY <4>1, <4>2 DEF T!DirtyCells
    <3> QED BY <1>2, <2>1, <3>1, <3>2
  <2> QED BY <2>1
<1>4. T!Shown'
  BY <1>3 DEF T!Shown, T!DirtyCells
<1> QED BY <1>2, <1>4 DEF TerminalInv, Fits

\* A handler that makes what it writes to and where its cursor shows dirty.
LEMMA HandlerShown ==
  ASSUME TerminalInv, NEW t \in Terminals, Fits(t), Wider(tty, t), NEW cells,
         \A c \in cells : c \in Int \X Int /\ Covers(t, c[1], c[2]),
         \/ T!CursorCell(t) = T!CursorCell(tty)
         \/ /\ Covers(t, T!Lesser(tty.CursorX, Width - 1), tty.CursorY)
            /\ Covers(t, T!Lesser(t.CursorX, Width - 1), t.CursorY),
         T!Becomes(t, cells)
  PROVE  TerminalInv'
<1>a. PICK changed : changed = cells \cup T!CursorChanges(t)
  OBVIOUS
<1>1. tty' = t /\ stale' = stale \cup changed /\ T!Outdates(changed)
  BY <1>a DEF T!Becomes
<1>2. ASSUME NEW c \in T!CursorChanges(t)
      PROVE  c \in Int \X Int /\ Covers(t, c[1], c[2])
  <2>1. T!CursorCell(t) # T!CursorCell(tty)
    BY <1>2 DEF T!CursorChanges
  <2>2. \/ c = <<T!Lesser(tty.CursorX, Width - 1), tty.CursorY>>
        \/ c = <<T!Lesser(t.CursorX, Width - 1), t.CursorY>>
    BY <1>2 DEF T!CursorChanges, T!CursorCell
  <2>3. /\ T!Lesser(tty.CursorX, Width - 1) \in Int /\ T!Lesser(t.CursorX, Width - 1) \in Int
        /\ tty.CursorY \in Int /\ t.CursorY \in Int
    BY TerminalAssumption DEF TerminalInv, Terminals, T!Lesser
  <2> QED BY <2>1, <2>2, <2>3
<1>3. /\ t.DirtyX1 \in Int /\ t.DirtyX2 \in Int /\ t.DirtyY1 \in Int /\ t.DirtyY2 \in Int
  BY DEF Terminals
<1>4. ASSUME NEW c \in changed
      PROVE  t.IsDirty /\ c \in T!DirtyCells(t)
  <2>1. c = <<c[1], c[2]>> /\ c[1] \in Int /\ c[2] \in Int /\ Covers(t, c[1], c[2])
    BY <1>2, <1>a
  <2> QED BY <1>3, <2>1 DEF T!DirtyCells, Covers
<1> QED BY <1>1, <1>4, ChangesShown

\* The cursor comes to x, y.
At(t, x, y) == [t EXCEPT !.CursorX = x, !.CursorY = y]

\* Moving the cursor leaves the rectangle and the scroll window.
LEMMA CursorAt ==
  ASSUME NEW t \in Terminals, NEW x \in Int, NEW y \in Int, NEW u, u = At(t, x, y)
  PROVE  /\ u \in Terminals /\ u.CursorX = x /\ u.CursorY = y /\ Wider(t, u)
         /\ u.ScrollWindowTop = t.ScrollWindowTop /\ u.ScrollWindowBottom = t.ScrollWindowBottom
         /\ u.IsCursorHidden = t.IsCursorHidden
<1>1. u \in Terminals
  BY DEF At, Terminals
<1>2. /\ u.CursorX = x /\ u.CursorY = y
      /\ u.ScrollWindowTop = t.ScrollWindowTop /\ u.ScrollWindowBottom = t.ScrollWindowBottom
      /\ u.IsCursorHidden = t.IsCursorHidden
      /\ u.DirtyX1 = t.DirtyX1 /\ u.DirtyX2 = t.DirtyX2
      /\ u.DirtyY1 = t.DirtyY1 /\ u.DirtyY2 = t.DirtyY2 /\ u.IsDirty = t.IsDirty
  BY DEF At, Terminals
<1>3. t.DirtyX1 \in Int /\ t.DirtyX2 \in Int /\ t.DirtyY1 \in Int /\ t.DirtyY2 \in Int
  BY DEF Terminals
<1> QED BY <1>1, <1>2, <1>3 DEF Wider

\* Every cell of the scroll window is dirty once it is scrolled.
LEMMA Scrolled ==
  ASSUME NEW t \in Terminals, NEW u, u = T!Scroll(t),
         t.ScrollWindowTop \in T!Rows, t.ScrollWindowBottom \in T!Rows,
         t.ScrollWindowTop <= t.ScrollWindowBottom
  PROVE  /\ u \in Terminals /\ SameBut(t, u) /\ Wider(t, u)
         /\ \A x \in T!Columns :
              \A y \in t.ScrollWindowTop .. t.ScrollWindowBottom : Covers(u, x, y)
<1>1. /\ 0 \in Int /\ Width - 1 \in Int /\ t.ScrollWindowTop \in Int /\ t.ScrollWindowBottom \in Int
      /\ u = T!MakeDirty(t, 0, t.ScrollWindowTop, Width - 1, t.ScrollWindowBottom)
  BY TerminalAssumption DEF Terminals, T!Scroll
<1>2. /\ u \in Terminals /\ SameBut(t, u) /\ Wider(t, u) /\ u.IsDirty
      /\ u.DirtyX1 <= T!Lesser(0, Width - 1)
      /\ T!Lesser(T!Greater(0, Width - 1), Width - 1) <= u.DirtyX2
      /\ u.DirtyY1 <= T!Lesser(t.ScrollWindowTop, t.ScrollWindowBottom)
      /\ T!Lesser(T!Greater(t.ScrollWindowTop, t.ScrollWindowBottom), Height - 1) <= u.DirtyY2
  BY <1>1, Dirtied
<1>3. u.DirtyX1 \in Int /\ u.DirtyX2 \in Int /\ u.DirtyY1 \in Int /\ u.DirtyY2 \in Int
  BY <1>2 DEF Terminals
<1>4. /\ u.DirtyX1 <= 0 /\ Width - 1 <= u.DirtyX2
      /\ u.DirtyY1 <= t.ScrollWindowTop /\ t.ScrollWindowBottom <= u.DirtyY2
  BY <1>1, <1>2, <1>3, TerminalAssumption DEF T!Lesser, T!Greater, T!Rows
<1> QED BY <1>1, <1>2, <1>3, <1>4, TerminalAssumption DEF Covers, T!Columns

\* TTYNewline: the rows that the cursor leaves and comes to are dirty up to it, and what is
\* scrolled.
LEMMA NewlineDirties ==
  ASSUME NEW t \in Terminals, Fits(t), NEW u, u = T!Newline(t)
  PROVE  /\ u \in Terminals /\ Fits(u) /\ Wider(t, u) /\ u.CursorX = t.CursorX
         /\ u.IsCursorHidden = t.IsCursorHidden
         /\ \A x \in 0 .. T!Lesser(t.CursorX, Width - 1) :
              Covers(u, x, t.CursorY) /\ Covers(u, x, u.CursorY)
         /\ \A c \in T!NewlineCells(t) : c \in Int \X Int /\ Covers(u, c[1], c[2])
<1>a. PICK X : X = t.CursorX
  OBVIOUS
<1>b. PICK Y : Y = t.CursorY
  OBVIOUS
<1>c. PICK d : d = [t EXCEPT !.CursorY = @ + 1]
  OBVIOUS
<1>d. PICK left : left = T!MakeDirty(d, X, Y, 0, Y + 1)
  OBVIOUS
<1>1. /\ X \in 0 .. Width /\ Y \in 0 .. (Height - 1) /\ X \in Int /\ Y \in Int /\ Y + 1 \in Int /\ 0 \in Int
      /\ t.ScrollWindowTop \in 0 .. (Height - 1) /\ t.ScrollWindowBottom \in 0 .. (Height - 1)
      /\ t.ScrollWindowBottom \in Int
  BY <1>a, <1>b, TerminalAssumption DEF Fits, T!Rows
<1>2. d = At(t, X, Y + 1)
  BY <1>a, <1>b, <1>c DEF At, Terminals
<1>3. /\ d \in Terminals /\ d.CursorX = X /\ d.CursorY = Y + 1 /\ Wider(t, d)
      /\ d.ScrollWindowTop = t.ScrollWindowTop /\ d.ScrollWindowBottom = t.ScrollWindowBottom
      /\ d.IsCursorHidden = t.IsCursorHidden
  BY <1>1, <1>2, CursorAt
<1>4. /\ left \in Terminals /\ SameBut(d, left) /\ Wider(d, left) /\ left.IsDirty
      /\ left.DirtyX1 <= T!Lesser(X, 0) /\ T!Lesser(T!Greater(X, 0), Width - 1) <= left.DirtyX2
      /\ left.DirtyY1 <= T!Lesser(Y, Y + 1)
      /\ T!Lesser(T!Greater(Y, Y + 1), Height - 1) <= left.DirtyY2
  BY <1>1, <1>3, <1>d, Dirtied
<1>5. /\ left.DirtyX1 \in Int /\ left.DirtyX2 \in Int
      /\ left.DirtyY1 \in Int /\ left.DirtyY2 \in Int
  BY <1>4 DEF Terminals
<1>6. /\ left.DirtyX1 <= 0 /\ T!Lesser(X, Width - 1) <= left.DirtyX2
      /\ left.DirtyY1 <= Y /\ T!Lesser(Y + 1, Height - 1) <= left.DirtyY2
      /\ T!Lesser(X, Width - 1) \in Nat
  BY <1>1, <1>4, <1>5, TerminalAssumption DEF T!Lesser, T!Greater
<1>7. \A x \in 0 .. T!Lesser(X, Width - 1) :
        Covers(left, x, Y) /\ Covers(left, x, T!Lesser(Y + 1, Height - 1))
  BY <1>1, <1>4, <1>5, <1>6, TerminalAssumption DEF Covers, T!Lesser
<1>8. /\ left.CursorX = X /\ left.CursorY = Y + 1
      /\ left.ScrollWindowTop = t.ScrollWindowTop /\ left.ScrollWindowBottom = t.ScrollWindowBottom
      /\ left.IsCursorHidden = t.IsCursorHidden
  BY <1>3, <1>4 DEF SameBut
<1>9. Wider(t, left)
  BY <1>3, <1>4, WiderTwice
<1>10. CASE ~T!Scrolls(t)
  <2>1. u = left /\ T!NewlineCells(t) = {}
    BY <1>10, <1>a, <1>b, <1>c, <1>d DEF T!Newline, T!NewlineCells
  <2>2. Y + 1 <= t.ScrollWindowBottom /\ Y + 1 \in 0 .. (Height - 1)
        /\ T!Lesser(Y + 1, Height - 1) = Y + 1
    BY <1>1, <1>10, <1>b, TerminalAssumption DEF T!Scrolls, T!Lesser
  <2>3. Fits(left)
    BY <1>1, <1>8, <2>2 DEF Fits, T!Rows
  <2> QED BY <1>4, <1>7, <1>8, <1>9, <1>a, <1>b, <2>1, <2>2, <2>3
<1>11. CASE T!Scrolls(t)
  <2>e. PICK e : e = [left EXCEPT !.CursorY = t.ScrollWindowBottom]
    OBVIOUS
  <2>1. u = T!Scroll(e) /\ T!NewlineCells(t) = T!Window(t)
    BY <1>11, <1>a, <1>b, <1>c, <1>d, <2>e DEF T!Newline, T!NewlineCells
  <2>2. e = At(left, X, t.ScrollWindowBottom)
    BY <1>4, <1>8, <2>e DEF At, Terminals
  <2>3. /\ e \in Terminals /\ e.CursorX = X /\ e.CursorY = t.ScrollWindowBottom /\ Wider(left, e)
        /\ e.ScrollWindowTop = t.ScrollWindowTop /\ e.ScrollWindowBottom = t.ScrollWindowBottom
        /\ e.IsCursorHidden = t.IsCursorHidden
    BY <1>1, <1>4, <1>8, <2>2, CursorAt
  <2>4. /\ u \in Terminals /\ SameBut(e, u) /\ Wider(e, u)
        /\ \A x \in T!Columns :
             \A y \in t.ScrollWindowTop .. t.ScrollWindowBottom : Covers(u, x, y)
    BY <2>1, <2>3, Scrolled DEF Fits
  <2>5. Wider(left, u) /\ Wider(t, u)
    BY <1>4, <1>9, <2>3, <2>4, WiderTwice
  <2>6. /\ u.CursorX = X /\ u.CursorY = t.ScrollWindowBottom
        /\ u.ScrollWindowTop = t.ScrollWindowTop /\ u.ScrollWindowBottom = t.ScrollWindowBottom
        /\ u.IsCursorHidden = t.IsCursorHidden
    BY <2>3, <2>4 DEF SameBut
  <2>7. Fits(u)
    BY <1>1, <2>6 DEF Fits, T!Rows
  <2>8. ASSUME NEW x \in 0 .. T!Lesser(X, Width - 1)
        PROVE  Covers(u, x, Y) /\ Covers(u, x, u.CursorY)
    <3>1. x \in Int /\ x \in T!Columns
      BY <1>1, TerminalAssumption DEF T!Columns, T!Lesser
    <3>2. t.ScrollWindowBottom \in t.ScrollWindowTop .. t.ScrollWindowBottom
      BY <1>1 DEF Fits
    <3> QED BY <1>1, <1>4, <1>7, <2>4, <2>5, <2>6, <3>1, <3>2, StaysCovered
  <2>9. ASSUME NEW c \in T!NewlineCells(t)
        PROVE  c \in Int \X Int /\ Covers(u, c[1], c[2])
    <3>1. c \in T!Columns \X (t.ScrollWindowTop .. t.ScrollWindowBottom)
      BY <2>1 DEF T!Window, T!RowsOf
    <3> QED BY <1>1, <2>4, <3>1, TerminalAssumption DEF T!Columns
  <2> QED BY <1>a, <1>b, <2>4, <2>5, <2>6, <2>7, <2>8, <2>9
<1> QED BY <1>10, <1>11

\* The cursor moves from where it is: it is dirty where it was and where it is now.
LEMMA MovedShown ==
  ASSUME TerminalInv, NEW x \in T!Columns, NEW y \in T!Rows, NEW t,
         t = T!MakeDirty(At(tty, x, y), tty.CursorX, tty.CursorY, x, y)
  PROVE  /\ t \in Terminals /\ Fits(t) /\ Wider(tty, t)
         /\ Covers(t, T!Lesser(tty.CursorX, Width - 1), tty.CursorY)
         /\ Covers(t, T!Lesser(t.CursorX, Width - 1), t.CursorY)
<1>a. PICK X : X = tty.CursorX
  OBVIOUS
<1>b. PICK Y : Y = tty.CursorY
  OBVIOUS
<1>d. PICK d : d = At(tty, x, y)
  OBVIOUS
<1>1. /\ tty \in Terminals /\ x \in Int /\ y \in Int /\ X \in Int /\ Y \in Int
      /\ X \in 0 .. Width /\ Y \in 0 .. (Height - 1)
      /\ x \in 0 .. (Width - 1) /\ y \in 0 .. (Height - 1)
  BY <1>a, <1>b, TerminalAssumption DEF TerminalInv, Fits, T!Columns, T!Rows
<1>2. /\ d \in Terminals /\ d.CursorX = x /\ d.CursorY = y /\ Wider(tty, d)
      /\ d.ScrollWindowTop = tty.ScrollWindowTop
      /\ d.ScrollWindowBottom = tty.ScrollWindowBottom
  BY <1>1, <1>d, CursorAt
<1>3. /\ t \in Terminals /\ SameBut(d, t) /\ Wider(d, t) /\ t.IsDirty
      /\ t.DirtyX1 <= T!Lesser(X, x) /\ T!Lesser(T!Greater(X, x), Width - 1) <= t.DirtyX2
      /\ t.DirtyY1 <= T!Lesser(Y, y) /\ T!Lesser(T!Greater(Y, y), Height - 1) <= t.DirtyY2
  BY <1>1, <1>2, <1>a, <1>b, <1>d, Dirtied
<1>4. /\ t.DirtyX1 \in Int /\ t.DirtyX2 \in Int /\ t.DirtyY1 \in Int /\ t.DirtyY2 \in Int
  BY <1>3 DEF Terminals
<1>5. /\ t.DirtyX1 <= T!Lesser(X, Width - 1) /\ T!Lesser(X, Width - 1) <= t.DirtyX2
      /\ t.DirtyX1 <= x /\ x <= t.DirtyX2 /\ T!Lesser(x, Width - 1) = x
      /\ t.DirtyY1 <= Y /\ Y <= t.DirtyY2 /\ t.DirtyY1 <= y /\ y <= t.DirtyY2
  BY <1>1, <1>3, <1>4, TerminalAssumption DEF T!Lesser, T!Greater
<1>6. /\ t.CursorX = x /\ t.CursorY = y /\ t.ScrollWindowTop = tty.ScrollWindowTop
      /\ t.ScrollWindowBottom = tty.ScrollWindowBottom
  BY <1>2, <1>3 DEF SameBut
<1>7. Fits(t)
  BY <1>1, <1>6, TerminalAssumption DEF TerminalInv, Fits, T!Columns, T!Rows
<1>8. Wider(tty, t)
  BY <1>1, <1>2, <1>3, WiderTwice
<1>9. Covers(t, T!Lesser(X, Width - 1), Y) /\ Covers(t, T!Lesser(x, Width - 1), y)
  BY <1>3, <1>5 DEF Covers
<1> QED BY <1>3, <1>6, <1>7, <1>8, <1>9, <1>a, <1>b

\* The cursor, the dirty rectangle and the scroll window are the same.
SameScreen(t, u) ==
  /\ u.CursorX = t.CursorX /\ u.CursorY = t.CursorY /\ u.IsCursorHidden = t.IsCursorHidden
  /\ u.ScrollWindowTop = t.ScrollWindowTop /\ u.ScrollWindowBottom = t.ScrollWindowBottom
  /\ u.DirtyX1 = t.DirtyX1 /\ u.DirtyX2 = t.DirtyX2
  /\ u.DirtyY1 = t.DirtyY1 /\ u.DirtyY2 = t.DirtyY2 /\ u.IsDirty = t.IsDirty

\* What SameScreen leaves.
LEMMA ScreenKept ==
  ASSUME NEW t \in Terminals, NEW u \in Terminals, SameScreen(t, u)
  PROVE  /\ Wider(t, u) /\ (Fits(t) => Fits(u)) /\ T!CursorCell(u) = T!CursorCell(t)
         /\ \A x, y : Covers(t, x, y) => Covers(u, x, y)
<1>1. t.DirtyX1 \in Int /\ t.DirtyX2 \in Int /\ t.DirtyY1 \in Int /\ t.DirtyY2 \in Int
  BY DEF Terminals
<1> QED BY <1>1 DEF SameScreen, Wider, Fits, Covers, T!CursorCell

\* The end of an escape sequence leaves the screen.
LEMMA EscapeEnded ==
  ASSUME NEW t \in Terminals, NEW u, u = T!EscapeEnds(t)
  PROVE  u \in Terminals /\ SameScreen(t, u)
<1>a. PICK params : params = [i \in 0 .. (ParamCount - 1) |-> 0]
  OBVIOUS
<1>1. params \in [0 .. (ParamCount - 1) -> Nat] /\ 0 \in 0 .. (ParamCount - 1) /\ 0 \in Int
  BY <1>a, TerminalAssumption
<1>2. DOMAIN t.EscapeParams = 0 .. (ParamCount - 1)
  BY DEF Terminals
<1>3. u = [t EXCEPT !.IsEscape = 0, !.EscapeIndex = 0, !.EscapeParams = params]
  BY <1>a, <1>2 DEF T!EscapeEnds, Terminals
<1>4. u \in Terminals
  BY <1>1, <1>3 DEF Terminals
<1>5. SameScreen(t, u)
  BY <1>3 DEF Terminals, SameScreen
<1> QED BY <1>4, <1>5

\* A handler that ends an escape sequence.
LEMMA EndShown ==
  ASSUME TerminalInv, NEW t \in Terminals, Fits(t), Wider(tty, t), NEW cells,
         \A c \in cells : c \in Int \X Int /\ Covers(t, c[1], c[2]),
         \/ T!CursorCell(t) = T!CursorCell(tty)
         \/ /\ Covers(t, T!Lesser(tty.CursorX, Width - 1), tty.CursorY)
            /\ Covers(t, T!Lesser(t.CursorX, Width - 1), t.CursorY),
         T!Ends(t, cells)
  PROVE  TerminalInv'
<1>a. PICK u : u = T!EscapeEnds(t)
  OBVIOUS
<1>1. u \in Terminals /\ SameScreen(t, u)
  BY <1>a, EscapeEnded
<1>2. /\ Wider(t, u) /\ Fits(u) /\ T!CursorCell(u) = T!CursorCell(t)
      /\ \A x, y : Covers(t, x, y) => Covers(u, x, y)
  BY <1>1, ScreenKept
<1>3. Wider(tty, u)
  BY <1>1, <1>2, WiderTwice DEF TerminalInv
<1>4. u.CursorX = t.CursorX /\ u.CursorY = t.CursorY
  BY <1>1 DEF SameScreen
<1>5. T!Becomes(u, cells)
  BY <1>a DEF T!Ends
<1> QED BY <1>1, <1>2, <1>3, <1>4, <1>5, HandlerShown

\* A terminal starts an escape sequence, or goes on with one, and its screen stays.
LEMMA ParseShown ==
  ASSUME TerminalInv, NEW t \in Terminals, SameScreen(tty, t), T!Becomes(t, {})
  PROVE  TerminalInv'
<1>1. Wider(tty, t) /\ Fits(t) /\ T!CursorCell(t) = T!CursorCell(tty)
  BY ScreenKept DEF TerminalInv
<1> QED BY <1>1, HandlerShown

\* Moving on to the next line.
LEMMA NewlineShown ==
  ASSUME TerminalInv, T!Becomes(T!Newline(tty), T!NewlineCells(tty))
  PROVE  TerminalInv'
<1>a. PICK t : t = T!Newline(tty)
  OBVIOUS
<1>1. /\ t \in Terminals /\ Fits(t) /\ Wider(tty, t) /\ t.CursorX = tty.CursorX
      /\ \A x \in 0 .. T!Lesser(tty.CursorX, Width - 1) :
           Covers(t, x, tty.CursorY) /\ Covers(t, x, t.CursorY)
      /\ \A c \in T!NewlineCells(tty) : c \in Int \X Int /\ Covers(t, c[1], c[2])
  BY <1>a, NewlineDirties DEF TerminalInv
<1>2. T!Lesser(tty.CursorX, Width - 1) \in 0 .. T!Lesser(tty.CursorX, Width - 1)
  BY TerminalAssumption DEF TerminalInv, Fits, T!Lesser
<1>3. /\ Covers(t, T!Lesser(tty.CursorX, Width - 1), tty.CursorY)
      /\ Covers(t, T!Lesser(t.CursorX, Width - 1), t.CursorY)
  BY <1>1, <1>2
<1>4. T!Becomes(t, T!NewlineCells(tty))
  BY <1>a
<1> QED BY <1>1, <1>3, <1>4, HandlerShown

\* Backspace, carriage return and tab move the cursor to a column.
LEMMA ToColumnShown ==
  ASSUME TerminalInv, NEW x \in T!Columns, NEW y \in T!Rows, NEW t,
         t = T!MakeDirty(At(tty, x, y), tty.CursorX, tty.CursorY, x, y), T!Becomes(t, {})
  PROVE  TerminalInv'
<1>1. /\ t \in Terminals /\ Fits(t) /\ Wider(tty, t)
      /\ Covers(t, T!Lesser(tty.CursorX, Width - 1), tty.CursorY)
      /\ Covers(t, T!Lesser(t.CursorX, Width - 1), t.CursorY)
  BY MovedShown
<1> QED BY <1>1, HandlerShown
\* TTYBackspace: to the left, or to the end of the line above.
LEMMA BackspaceShown ==
  ASSUME TerminalInv, T!Becomes(T!Backspace(tty), {})
  PROVE  TerminalInv'
<1>a. PICK to : to = IF tty.CursorX > 0 THEN <<tty.CursorX - 1, tty.CursorY>>
                     ELSE IF tty.CursorY > 0 THEN <<Width - 1, tty.CursorY - 1>> ELSE <<0, 0>>
  OBVIOUS
<1>1. to[1] \in T!Columns /\ to[2] \in T!Rows
  BY <1>a, TerminalAssumption DEF TerminalInv, Fits, T!Columns, T!Rows
<1>b. PICK t : t = T!MakeDirty(At(tty, to[1], to[2]), tty.CursorX, tty.CursorY, to[1], to[2])
  OBVIOUS
<1>2. t = T!Backspace(tty)
  BY <1>a, <1>b DEF T!Backspace, At
<1>3. T!Becomes(t, {})
  BY <1>2
<1> QED BY <1>1, <1>b, <1>3, ToColumnShown
\* TTYCarriageReturn.
LEMMA CarriageReturnShown ==
  ASSUME TerminalInv, T!Becomes(T!CarriageReturn(tty), {})
  PROVE  TerminalInv'
<1>1. 0 \in T!Columns /\ tty.CursorY \in T!Rows
  BY TerminalAssumption DEF TerminalInv, Fits, T!Columns
<1>2. [tty EXCEPT !.CursorX = 0] = At(tty, 0, tty.CursorY)
  BY DEF TerminalInv, Terminals, At
<1>b. PICK t : t = T!MakeDirty(At(tty, 0, tty.CursorY), tty.CursorX, tty.CursorY, 0, tty.CursorY)
  OBVIOUS
<1>3. t = T!CarriageReturn(tty)
  BY <1>b, <1>2 DEF T!CarriageReturn
<1>4. T!Becomes(t, {})
  BY <1>3
<1> QED BY <1>1, <1>b, <1>4, ToColumnShown
\* TTYTab: to the next tab stop, or to the last column.
LEMMA TabShown ==
  ASSUME TerminalInv, T!Becomes(T!TabStop(tty), {})
  PROVE  TerminalInv'
<1>a. PICK q : q = (tty.CursorX + Tab) \div Tab
  OBVIOUS
<1>b. PICK s : s = q * Tab
  OBVIOUS
<1>c. PICK x : x = T!Lesser(s, Width - 1)
  OBVIOUS
<1>1. q \in Nat
  <2>1. tty.CursorX + Tab \in Nat /\ Tab \in Nat \ {0}
    BY TerminalAssumption DEF TerminalInv, Fits
  <2> QED BY <2>1, <1>a
<1>2. s \in Nat
  BY <1>1, <1>b, TerminalAssumption
<1>3. x \in T!Columns /\ tty.CursorY \in T!Rows
  BY <1>2, <1>c, TerminalAssumption DEF TerminalInv, Fits, T!Lesser, T!Columns
<1>4. [tty EXCEPT !.CursorX = x] = At(tty, x, tty.CursorY)
  BY DEF TerminalInv, Terminals, At
<1>d. PICK t : t = T!MakeDirty(At(tty, x, tty.CursorY), tty.CursorX, tty.CursorY, x, tty.CursorY)
  OBVIOUS
<1>5. t = T!TabStop(tty)
  BY <1>a, <1>b, <1>c, <1>d, <1>4 DEF T!TabStop
<1>6. T!Becomes(t, {})
  BY <1>5
<1> QED BY <1>3, <1>d, <1>6, ToColumnShown

\* TTYPutCharacter in the line.
LEMMA PrintableShown ==
  ASSUME TerminalInv, ~T!Wraps(tty), T!Becomes(T!Printable(tty), T!PrintableCells(tty))
  PROVE  TerminalInv'
<1>a. PICK X : X = tty.CursorX
  OBVIOUS
<1>b. PICK Y : Y = tty.CursorY
  OBVIOUS
<1>c. PICK Z : Z = X + 1
  OBVIOUS
<1>d. PICK d : d = At(tty, Z, Y)
  OBVIOUS
<1>e. PICK t : t = T!MakeDirty(d, X, Y, Z, Y)
  OBVIOUS
<1>1. /\ tty \in Terminals /\ X \in Int /\ Y \in Int /\ Z \in Int
      /\ X \in 0 .. (Width - 1) /\ Y \in 0 .. (Height - 1)
  BY <1>a, <1>b, <1>c, TerminalAssumption DEF TerminalInv, Fits, T!Rows, T!Wraps
<1>2. t = T!Printable(tty) /\ T!PrintableCells(tty) = {<<X, Y>>}
  <2>1. [tty EXCEPT !.CursorX = @ + 1] = At(tty, Z, Y)
    BY <1>1, <1>a, <1>b, <1>c DEF Terminals, At
  <2> QED BY <2>1, <1>a, <1>b, <1>c, <1>d, <1>e DEF T!Printable, T!PrintableCells
<1>3. /\ d \in Terminals /\ d.CursorX = Z /\ d.CursorY = Y /\ Wider(tty, d)
      /\ d.ScrollWindowTop = tty.ScrollWindowTop
      /\ d.ScrollWindowBottom = tty.ScrollWindowBottom
  BY <1>1, <1>d, CursorAt
<1>4. /\ t \in Terminals /\ SameBut(d, t) /\ Wider(d, t) /\ t.IsDirty
      /\ t.DirtyX1 <= T!Lesser(X, Z) /\ T!Lesser(T!Greater(X, Z), Width - 1) <= t.DirtyX2
      /\ t.DirtyY1 <= T!Lesser(Y, Y) /\ T!Lesser(T!Greater(Y, Y), Height - 1) <= t.DirtyY2
  BY <1>1, <1>3, <1>e, Dirtied
<1>5. /\ t.DirtyX1 \in Int /\ t.DirtyX2 \in Int /\ t.DirtyY1 \in Int /\ t.DirtyY2 \in Int
  BY <1>4 DEF Terminals
<1>6. /\ Covers(t, X, Y) /\ Covers(t, T!Lesser(Z, Width - 1), Y) /\ T!Lesser(X, Width - 1) = X
  BY <1>1, <1>4, <1>5, <1>c, TerminalAssumption DEF Covers, T!Lesser, T!Greater
<1>7. /\ t.CursorX = Z /\ t.CursorY = Y /\ t.ScrollWindowTop = tty.ScrollWindowTop
      /\ t.ScrollWindowBottom = tty.ScrollWindowBottom
  BY <1>3, <1>4 DEF SameBut
<1>8. Fits(t)
  BY <1>1, <1>7, <1>b, <1>c, TerminalAssumption DEF TerminalInv, Fits
<1>9. Wider(tty, t)
  BY <1>1, <1>3, <1>4, WiderTwice
<1>10. /\ Covers(t, T!Lesser(tty.CursorX, Width - 1), tty.CursorY)
       /\ Covers(t, T!Lesser(t.CursorX, Width - 1), t.CursorY)
  BY <1>6, <1>7, <1>a, <1>b
<1>11. \A c \in {<<X, Y>>} : c \in Int \X Int /\ Covers(t, c[1], c[2])
  BY <1>1, <1>6
<1>12. T!Becomes(t, {<<X, Y>>})
  BY <1>2
<1> QED BY <1>4, <1>8, <1>9, <1>10, <1>11, <1>12, HandlerShown

\* TTYPutCharacter after the last column: the line is left first, and what Newline makes
\* dirty of the next one includes its first cell.
LEMMA WrapShown ==
  ASSUME TerminalInv, T!Wraps(tty), T!Becomes(T!Printable(tty), T!PrintableCells(tty))
  PROVE  TerminalInv'
<1>b. PICK Y : Y = tty.CursorY
  OBVIOUS
<1>c. PICK z : z = At(tty, 0, Y)
  OBVIOUS
<1>d. PICK at : at = T!Newline(z)
  OBVIOUS
<1>e. PICK V : V = at.CursorY
  OBVIOUS
<1>f. PICK d : d = At(at, 1, V)
  OBVIOUS
<1>g. PICK t : t = T!MakeDirty(d, Width, Y, 1, V)
  OBVIOUS
<1>1. /\ tty \in Terminals /\ Y \in Int /\ 0 \in Int /\ 1 \in Int /\ Width \in Int
      /\ tty.CursorX = Width /\ Y \in 0 .. (Height - 1)
  BY <1>b, TerminalAssumption DEF TerminalInv, Fits, T!Rows, T!Wraps
<1>2. /\ z \in Terminals /\ z.CursorX = 0 /\ z.CursorY = Y /\ Wider(tty, z)
      /\ z.ScrollWindowTop = tty.ScrollWindowTop
      /\ z.ScrollWindowBottom = tty.ScrollWindowBottom
  BY <1>1, <1>c, CursorAt
<1>3. Fits(z)
  BY <1>1, <1>2, <1>b, TerminalAssumption DEF TerminalInv, Fits
<1>4. /\ at \in Terminals /\ Fits(at) /\ Wider(z, at) /\ at.CursorX = 0
      /\ \A x \in 0 .. T!Lesser(0, Width - 1) : Covers(at, x, Y) /\ Covers(at, x, V)
      /\ \A c \in T!NewlineCells(z) : c \in Int \X Int /\ Covers(at, c[1], c[2])
  BY <1>2, <1>3, <1>d, <1>e, NewlineDirties
<1>5. Covers(at, 0, Y) /\ Covers(at, 0, V)
  BY <1>4, TerminalAssumption DEF T!Lesser
<1>6. T!NewlineCells(tty) = T!NewlineCells(z)
  BY <1>1, <1>2, <1>b DEF T!NewlineCells, T!Scrolls, T!Window
<1>7. t = T!Printable(tty) /\ T!PrintableCells(tty) = {<<0, V>>} \cup T!NewlineCells(z)
  <2>1. [tty EXCEPT !.CursorX = 0] = z
    BY <1>1, <1>b, <1>c DEF Terminals, At
  <2>2. [at EXCEPT !.CursorX = @ + 1] = At(at, 1, V)
    <3>1. at.CursorX + 1 = 1
      BY <1>4
    <3>2. [at EXCEPT !.CursorX = @ + 1] = [at EXCEPT !.CursorX = 1]
      BY <3>1
    <3>3. [at EXCEPT !.CursorX = 1] = At(at, 1, V)
      BY <1>4, <1>e DEF Terminals, At
    <3> QED BY <3>2, <3>3
  <2>3. T!Printable(tty)
          = T!MakeDirty([at EXCEPT !.CursorX = @ + 1], tty.CursorX, tty.CursorY, at.CursorX + 1, at.CursorY)
    BY <2>1, <1>d DEF T!Printable
  <2>4. T!Printable(tty) = T!MakeDirty(d, Width, Y, 1, V)
    BY <2>2, <2>3, <1>1, <1>4, <1>b, <1>e, <1>f
  <2>5. T!PrintableCells(tty) = {<<at.CursorX, at.CursorY>>} \cup T!NewlineCells(tty)
    BY <2>1, <1>d DEF T!PrintableCells
  <2> QED BY <2>4, <2>5, <1>4, <1>6, <1>e, <1>g
<1>8. V \in Int /\ V \in 0 .. (Height - 1)
  BY <1>4, <1>e, TerminalAssumption DEF Fits, T!Rows
<1>9. /\ d \in Terminals /\ d.CursorX = 1 /\ d.CursorY = V /\ Wider(at, d)
      /\ d.ScrollWindowTop = at.ScrollWindowTop
      /\ d.ScrollWindowBottom = at.ScrollWindowBottom
  BY <1>1, <1>4, <1>8, <1>f, CursorAt
<1>10. /\ t \in Terminals /\ SameBut(d, t) /\ Wider(d, t) /\ t.IsDirty
       /\ t.DirtyX1 <= T!Lesser(Width, 1)
       /\ T!Lesser(T!Greater(Width, 1), Width - 1) <= t.DirtyX2
       /\ t.DirtyY1 <= T!Lesser(Y, V) /\ T!Lesser(T!Greater(Y, V), Height - 1) <= t.DirtyY2
  BY <1>1, <1>8, <1>9, <1>g, Dirtied
<1>11. Wider(at, t) /\ Wider(tty, t)
  BY <1>1, <1>2, <1>4, <1>9, <1>10, WiderTwice
<1>12. Covers(t, 0, Y) /\ Covers(t, 0, V)
  BY <1>1, <1>4, <1>5, <1>8, <1>10, <1>11, StaysCovered
<1>13. \A c \in T!NewlineCells(z) : c \in Int \X Int /\ Covers(t, c[1], c[2])
  BY <1>4, <1>10, <1>11, StaysCovered
<1>14. /\ t.CursorX = 1 /\ t.CursorY = V /\ t.ScrollWindowTop = at.ScrollWindowTop
       /\ t.ScrollWindowBottom = at.ScrollWindowBottom
  BY <1>9, <1>10 DEF SameBut
<1>15. /\ t.DirtyX1 \in Int /\ t.DirtyX2 \in Int /\ t.DirtyY1 \in Int /\ t.DirtyY2 \in Int
  BY <1>10 DEF Terminals
<1>16. Covers(t, T!Lesser(Width, Width - 1), Y) /\ Covers(t, T!Lesser(1, Width - 1), V)
  BY <1>1, <1>8, <1>10, <1>12, <1>15, TerminalAssumption DEF Covers, T!Lesser, T!Greater
<1>17. Fits(t)
  BY <1>4, <1>14, <1>e, TerminalAssumption DEF Fits
<1>18. /\ Covers(t, T!Lesser(tty.CursorX, Width - 1), tty.CursorY)
       /\ Covers(t, T!Lesser(t.CursorX, Width - 1), t.CursorY)
  BY <1>1, <1>14, <1>16, <1>b
<1>19. \A c \in {<<0, V>>} \cup T!NewlineCells(z) : c \in Int \X Int /\ Covers(t, c[1], c[2])
  BY <1>8, <1>12, <1>13
<1>20. T!Becomes(t, {<<0, V>>} \cup T!NewlineCells(z))
  BY <1>7
<1> QED BY <1>10, <1>11, <1>17, <1>18, <1>19, <1>20, HandlerShown

\* TTYPutCharacter.
LEMMA PutCharacterShown ==
  ASSUME TerminalInv, T!PutCharacter
  PROVE  TerminalInv'
<1>1. ASSUME T!Becomes(T!StartEscape(tty), {})
      PROVE  TerminalInv'
  <2>a. PICK e : e = T!EscapeEnds(tty)
    OBVIOUS
  <2>b. PICK t : t = [e EXCEPT !.IsEscape = 1]
    OBVIOUS
  <2>1. e \in Terminals /\ SameScreen(tty, e)
    BY <2>a, EscapeEnded DEF TerminalInv
  <2>2. t \in Terminals
    BY SMTT(30), <2>1, <2>b DEF Terminals
  <2>3. SameScreen(e, t)
    BY <2>1, <2>b DEF Terminals, SameScreen
  <2>4. SameScreen(tty, t)
    BY <2>1, <2>3 DEF SameScreen
  <2>5. T!Becomes(t, {})
    BY <1>1, <2>a, <2>b DEF T!StartEscape
  <2> QED BY <2>2, <2>4, <2>5, ParseShown
<1> QED BY <1>1, NewlineShown, BackspaceShown, CarriageReturnShown, TabShown, PrintableShown,
           WrapShown DEF T!PutCharacter

\* Number, Separator, Private and Other leave the screen.
LEMMA ParsedShown ==
  ASSUME TerminalInv,
         (\E n \in Numbers : T!Number(n)) \/ T!Separator \/ T!Private \/ T!Other
  PROVE  TerminalInv'
<1>0. tty \in Terminals /\ tty.EscapeIndex \in 0 .. (ParamCount - 1)
      /\ tty.EscapeParams \in [0 .. (ParamCount - 1) -> Nat]
  BY DEF TerminalInv, Terminals
<1>1. ASSUME NEW n \in Numbers, T!Number(n)
      PROVE  TerminalInv'
  <2>a. PICK params : params = [tty.EscapeParams EXCEPT ![tty.EscapeIndex] = n]
    OBVIOUS
  <2>b. PICK t : t = [tty EXCEPT !.EscapeParams = params]
    OBVIOUS
  <2>1. n \in Nat
    BY TerminalAssumption
  <2>2. params \in [0 .. (ParamCount - 1) -> Nat]
    BY <1>0, <2>1, <2>a
  <2>3. t \in Terminals
    BY <1>0, <2>2, <2>b DEF Terminals
  <2>4. SameScreen(tty, t)
    BY <1>0, <2>b DEF Terminals, SameScreen
  <2>5. T!Becomes(t, {})
    BY <1>1, <2>a, <2>b DEF T!Number
  <2> QED BY <2>3, <2>4, <2>5, ParseShown
<1>2. ASSUME T!Separator
      PROVE  TerminalInv'
  <2>a. PICK i : i = (tty.EscapeIndex + 1) % ParamCount
    OBVIOUS
  <2>b. PICK t : t = [tty EXCEPT !.EscapeIndex = i]
    OBVIOUS
  <2>1. i \in 0 .. (ParamCount - 1)
    BY <1>0, <2>a, TerminalAssumption
  <2>3. t \in Terminals
    BY <1>0, <2>1, <2>b DEF Terminals
  <2>4. SameScreen(tty, t)
    BY <1>0, <2>b DEF Terminals, SameScreen
  <2>5. T!Becomes(t, {})
    BY <1>2, <2>a, <2>b DEF T!Separator
  <2> QED BY <2>3, <2>4, <2>5, ParseShown
<1>3. ASSUME T!Private
      PROVE  TerminalInv'
  <2>b. PICK t : t = [tty EXCEPT !.IsEscape = 2]
    OBVIOUS
  <2>3. t \in Terminals
    BY SMTT(30), <1>0, <2>b DEF Terminals
  <2>4. SameScreen(tty, t)
    BY <1>0, <2>b DEF Terminals, SameScreen
  <2>5. T!Becomes(t, {})
    BY <1>3, <2>b DEF T!Private
  <2> QED BY <2>3, <2>4, <2>5, ParseShown
<1>4. ASSUME T!Other
      PROVE  TerminalInv'
  <2>b. PICK t : t = T!EscapeEnds(tty)
    OBVIOUS
  <2>1. t \in Terminals /\ SameScreen(tty, t)
    BY <1>0, <2>b, EscapeEnded
  <2>2. T!Becomes(t, {})
    BY <1>4, <2>b DEF T!Other
  <2> QED BY <2>1, <2>2, ParseShown
<1> QED BY <1>1, <1>2, <1>3, <1>4

\* TTYMoveCursor.
LEMMA MoveCursorShown ==
  ASSUME TerminalInv, T!MoveCursor
  PROVE  TerminalInv'
<1>a. PICK x : x = T!Clip(T!Param(1) - 1, Width)
  OBVIOUS
<1>b. PICK y : y = T!Clip(T!Param(0) - 1, Height)
  OBVIOUS
<1>1. x \in T!Columns /\ y \in T!Rows
  BY <1>a, <1>b, TerminalAssumption DEF T!Clip, T!Columns, T!Rows
<1>c. PICK t : t = T!MakeDirty(At(tty, x, y), tty.CursorX, tty.CursorY, x, y)
  OBVIOUS
<1>2. T!Ends(t, {})
  BY <1>a, <1>b, <1>c DEF T!MoveCursor, At
<1>3. /\ t \in Terminals /\ Fits(t) /\ Wider(tty, t)
      /\ Covers(t, T!Lesser(tty.CursorX, Width - 1), tty.CursorY)
      /\ Covers(t, T!Lesser(t.CursorX, Width - 1), t.CursorY)
  BY <1>1, <1>c, MovedShown
<1> QED BY <1>2, <1>3, EndShown

\* TTYEscClear: the whole terminal is dirty.
LEMMA ClearShown ==
  ASSUME TerminalInv, T!Clear
  PROVE  TerminalInv'
<1>1. CASE T!Param(0) # AllParam
  <2>1. T!Ends(tty, {})
    BY <1>1 DEF T!Clear
  <2>2. tty \in Terminals /\ Fits(tty) /\ Wider(tty, tty)
    BY DEF TerminalInv, Terminals, Wider
  <2> QED BY <2>1, <2>2, EndShown
<1>2. CASE T!Param(0) = AllParam
  <2>a. PICK d : d = [tty EXCEPT !.IsCursorHidden = FALSE, !.ScrollWindowTop = 0,
                                 !.ScrollWindowBottom = Height - 1]
    OBVIOUS
  <2>b. PICK t : t = T!MakeDirty(d, 0, 0, Width - 1, Height - 1)
    OBVIOUS
  <2>1. T!Ends(t, T!Columns \X T!Rows)
    BY <1>2, <2>a, <2>b DEF T!Clear
  <2>2. /\ tty \in Terminals /\ 0 \in Int /\ Width - 1 \in Int /\ Height - 1 \in Int
        /\ 0 \in T!Rows /\ Height - 1 \in T!Rows /\ 0 <= Height - 1
    BY TerminalAssumption DEF TerminalInv, T!Rows
  <2>3. d \in Terminals
    BY <2>2, <2>a DEF Terminals
  <2>4. /\ d.CursorX = tty.CursorX /\ d.CursorY = tty.CursorY
        /\ d.ScrollWindowTop = 0 /\ d.ScrollWindowBottom = Height - 1
        /\ d.DirtyX1 = tty.DirtyX1 /\ d.DirtyX2 = tty.DirtyX2
        /\ d.DirtyY1 = tty.DirtyY1 /\ d.DirtyY2 = tty.DirtyY2 /\ d.IsDirty = tty.IsDirty
    BY <2>2, <2>a DEF Terminals
  <2>5. Wider(tty, d)
    <3>1. /\ tty.DirtyX1 \in Int /\ tty.DirtyX2 \in Int
          /\ tty.DirtyY1 \in Int /\ tty.DirtyY2 \in Int
      BY <2>2 DEF Terminals
    <3> QED BY <2>4, <3>1 DEF Wider
  <2>6. /\ t \in Terminals /\ SameBut(d, t) /\ Wider(d, t) /\ t.IsDirty
        /\ t.DirtyX1 <= T!Lesser(0, Width - 1)
        /\ T!Lesser(T!Greater(0, Width - 1), Width - 1) <= t.DirtyX2
        /\ t.DirtyY1 <= T!Lesser(0, Height - 1)
        /\ T!Lesser(T!Greater(0, Height - 1), Height - 1) <= t.DirtyY2
    BY <2>2, <2>3, <2>b, Dirtied
  <2>7. /\ t.DirtyX1 \in Int /\ t.DirtyX2 \in Int /\ t.DirtyY1 \in Int /\ t.DirtyY2 \in Int
    BY <2>6 DEF Terminals
  <2>8. \A x \in T!Columns : \A y \in T!Rows : Covers(t, x, y)
    BY <2>6, <2>7, TerminalAssumption DEF Covers, T!Lesser, T!Greater, T!Columns, T!Rows
  <2>9. /\ t.CursorX = tty.CursorX /\ t.CursorY = tty.CursorY
        /\ t.ScrollWindowTop = 0 /\ t.ScrollWindowBottom = Height - 1
    BY <2>4, <2>6 DEF SameBut
  <2>10. Fits(t)
    BY <2>2, <2>9 DEF TerminalInv, Fits
  <2>11. Wider(tty, t)
    BY <2>2, <2>3, <2>5, <2>6, WiderTwice
  <2>12. T!Lesser(tty.CursorX, Width - 1) \in T!Columns /\ tty.CursorY \in T!Rows
    BY TerminalAssumption DEF TerminalInv, Fits, T!Lesser, T!Columns
  <2>13. /\ Covers(t, T!Lesser(tty.CursorX, Width - 1), tty.CursorY)
         /\ Covers(t, T!Lesser(t.CursorX, Width - 1), t.CursorY)
    BY <2>8, <2>9, <2>12
  <2>14. \A c \in T!Columns \X T!Rows : c \in Int \X Int /\ Covers(t, c[1], c[2])
    BY <2>8, TerminalAssumption DEF T!Columns, T!Rows
  <2> QED BY <2>1, <2>6, <2>10, <2>11, <2>13, <2>14, EndShown
<1> QED BY <1>1, <1>2

\* TTYEscClearLine.
LEMMA ClearLineShown ==
  ASSUME TerminalInv, T!ClearLine
  PROVE  TerminalInv'
<1>a. PICK from : from = IF T!Param(0) = 0 THEN tty.CursorX ELSE 0
  OBVIOUS
<1>b. PICK Y : Y = tty.CursorY
  OBVIOUS
<1>1. /\ tty \in Terminals /\ Fits(tty) /\ from \in 0 .. Width /\ from \in Int
      /\ Y \in 0 .. (Height - 1) /\ Y \in Int /\ Width - 1 \in Int
  BY <1>a, <1>b, TerminalAssumption DEF TerminalInv, Fits, T!Rows
<1>2. CASE T!Param(0) \notin {0, AllParam}
  <2>1. T!Ends(tty, {})
    BY <1>2 DEF T!ClearLine
  <2>2. Wider(tty, tty)
    BY <1>1 DEF Terminals, Wider
  <2> QED BY <1>1, <2>1, <2>2, EndShown
<1>3. CASE T!Param(0) \in {0, AllParam}
  <2>a. PICK t : t = T!MakeDirty(tty, from, Y, Width - 1, Y)
    OBVIOUS
  <2>1. T!Ends(t, (from .. (Width - 1)) \X {Y})
    BY <1>3, <1>a, <1>b, <2>a DEF T!ClearLine
  <2>2. /\ t \in Terminals /\ SameBut(tty, t) /\ Wider(tty, t) /\ t.IsDirty
        /\ t.DirtyX1 <= T!Lesser(from, Width - 1)
        /\ T!Lesser(T!Greater(from, Width - 1), Width - 1) <= t.DirtyX2
        /\ t.DirtyY1 <= T!Lesser(Y, Y) /\ T!Lesser(T!Greater(Y, Y), Height - 1) <= t.DirtyY2
    BY <1>1, <2>a, Dirtied
  <2>3. /\ t.DirtyX1 \in Int /\ t.DirtyX2 \in Int /\ t.DirtyY1 \in Int /\ t.DirtyY2 \in Int
    BY <2>2 DEF Terminals
  <2>4. \A x \in from .. (Width - 1) : Covers(t, x, Y)
    BY <1>1, <2>2, <2>3, TerminalAssumption DEF Covers, T!Lesser, T!Greater
  <2>5. \A c \in (from .. (Width - 1)) \X {Y} : c \in Int \X Int /\ Covers(t, c[1], c[2])
    BY <1>1, <2>4
  <2>6. Fits(t) /\ T!CursorCell(t) = T!CursorCell(tty)
    BY <1>1, <2>2 DEF SameBut, Fits, T!CursorCell
  <2> QED BY <2>1, <2>2, <2>5, <2>6, EndShown
<1> QED BY <1>2, <1>3

\* TTYEscSetScrollMargins: the scroll window stays in the terminal, top above bottom.
LEMMA SetScrollMarginsShown ==
  ASSUME TerminalInv, T!SetScrollMargins
  PROVE  TerminalInv'
<1>a. PICK top : top = T!Margin(T!Param(0), 0)
  OBVIOUS
<1>b. PICK bottom : bottom = T!Greater(T!Margin(T!Param(1), Height - 1), top)
  OBVIOUS
<1>c. PICK t : t = [tty EXCEPT !.ScrollWindowTop = top, !.ScrollWindowBottom = bottom]
  OBVIOUS
<1>0. tty \in Terminals /\ T!Param(0) \in Nat /\ T!Param(1) \in Nat
  <2>1. 0 \in 0 .. (ParamCount - 1) /\ 1 \in 0 .. (ParamCount - 1)
    BY TerminalAssumption
  <2> QED BY <2>1 DEF TerminalInv, Terminals, T!Param
<1>1. T!Margin(T!Param(0), 0) \in 0 .. (Height - 1)
  BY <1>0, TerminalAssumption DEF T!Margin
<1>2. T!Margin(T!Param(1), Height - 1) \in 0 .. (Height - 1)
  BY <1>0, TerminalAssumption DEF T!Margin
<1>3. top \in 0 .. (Height - 1) /\ bottom \in 0 .. (Height - 1) /\ top <= bottom
  BY <1>1, <1>2, <1>a, <1>b, TerminalAssumption DEF T!Greater
<1>4. top \in Int /\ bottom \in Int
  BY <1>3
<1>5. t \in Terminals
  BY <1>0, <1>4, <1>c DEF Terminals
<1>6. /\ t.CursorX = tty.CursorX /\ t.CursorY = tty.CursorY
      /\ t.IsCursorHidden = tty.IsCursorHidden
      /\ t.ScrollWindowTop = top /\ t.ScrollWindowBottom = bottom
      /\ t.DirtyX1 = tty.DirtyX1 /\ t.DirtyX2 = tty.DirtyX2
      /\ t.DirtyY1 = tty.DirtyY1 /\ t.DirtyY2 = tty.DirtyY2 /\ t.IsDirty = tty.IsDirty
  BY <1>0, <1>c DEF Terminals
<1>7. Fits(t) /\ T!CursorCell(t) = T!CursorCell(tty)
  BY <1>3, <1>6 DEF TerminalInv, Fits, T!Rows, T!CursorCell
<1>8. Wider(tty, t)
  <2>1. /\ tty.DirtyX1 \in Int /\ tty.DirtyX2 \in Int
        /\ tty.DirtyY1 \in Int /\ tty.DirtyY2 \in Int
    BY <1>0 DEF Terminals
  <2> QED BY <1>6, <2>1 DEF Wider
<1>9. T!Ends(t, {})
  BY <1>a, <1>b, <1>c DEF T!SetScrollMargins
<1> QED BY <1>5, <1>7, <1>8, <1>9, EndShown

\* TTYScrollUp and TTYScrollDown.
LEMMA ScrollWindowShown ==
  ASSUME TerminalInv, T!ScrollWindow
  PROVE  TerminalInv'
<1>a. PICK t : t = T!Scroll(tty)
  OBVIOUS
<1>1. /\ t \in Terminals /\ SameBut(tty, t) /\ Wider(tty, t)
      /\ \A x \in T!Columns :
           \A y \in tty.ScrollWindowTop .. tty.ScrollWindowBottom : Covers(t, x, y)
  BY <1>a, Scrolled DEF TerminalInv, Fits
<1>2. Fits(t) /\ T!CursorCell(t) = T!CursorCell(tty)
  BY <1>1 DEF SameBut, TerminalInv, Fits, T!CursorCell
<1>3. ASSUME NEW c \in T!Window(tty)
      PROVE  c \in Int \X Int /\ Covers(t, c[1], c[2])
  <2>1. c \in T!Columns \X (tty.ScrollWindowTop .. tty.ScrollWindowBottom)
    BY DEF T!Window, T!RowsOf
  <2>2. tty.ScrollWindowTop \in Int /\ tty.ScrollWindowBottom \in Int
    BY DEF TerminalInv, Terminals
  <2> QED BY <1>1, <2>1, <2>2, TerminalAssumption DEF T!Columns
<1>4. T!Ends(t, T!Window(tty))
  BY <1>a DEF T!ScrollWindow
<1> QED BY <1>1, <1>2, <1>3, <1>4, EndShown

\* The cursor is shown or hidden.
LEMMA ToggleShown ==
  ASSUME TerminalInv, NEW hidden \in BOOLEAN, T!Toggle(hidden)
  PROVE  TerminalInv'
<1>a. PICK h : h = [tty EXCEPT !.IsCursorHidden = hidden]
  OBVIOUS
<1>b. PICK after : after = T!EscapeEnds(h)
  OBVIOUS
<1>c. PICK X : X = tty.CursorX
  OBVIOUS
<1>d. PICK Y : Y = tty.CursorY
  OBVIOUS
<1>e. PICK dirty : dirty = T!MakeDirty(after, X, Y, X, Y)
  OBVIOUS
<1>1. /\ tty \in Terminals /\ X \in Int /\ Y \in Int
      /\ X \in 0 .. Width /\ Y \in 0 .. (Height - 1)
  BY <1>c, <1>d, TerminalAssumption DEF TerminalInv, Fits, T!Rows
<1>2. /\ h \in Terminals
      /\ h.CursorX = X /\ h.CursorY = Y /\ h.IsCursorHidden = hidden
      /\ h.ScrollWindowTop = tty.ScrollWindowTop /\ h.ScrollWindowBottom = tty.ScrollWindowBottom
      /\ h.DirtyX1 = tty.DirtyX1 /\ h.DirtyX2 = tty.DirtyX2
      /\ h.DirtyY1 = tty.DirtyY1 /\ h.DirtyY2 = tty.DirtyY2 /\ h.IsDirty = tty.IsDirty
  BY <1>1, <1>a, <1>c, <1>d DEF Terminals
<1>3. after \in Terminals /\ SameScreen(h, after)
  BY <1>2, <1>b, EscapeEnded
<1>4. /\ after.CursorX = X /\ after.CursorY = Y /\ after.IsCursorHidden = hidden
      /\ Wider(tty, after) /\ Fits(after)
  <2>1. /\ tty.DirtyX1 \in Int /\ tty.DirtyX2 \in Int
        /\ tty.DirtyY1 \in Int /\ tty.DirtyY2 \in Int
    BY <1>1 DEF Terminals
  <2> QED BY <1>2, <1>3, <2>1, <1>c, <1>d DEF SameScreen, Wider, TerminalInv, Fits
<1>5. /\ dirty \in Terminals /\ SameBut(after, dirty) /\ Wider(after, dirty) /\ dirty.IsDirty
      /\ dirty.DirtyX1 <= T!Lesser(X, X)
      /\ T!Lesser(T!Greater(X, X), Width - 1) <= dirty.DirtyX2
      /\ dirty.DirtyY1 <= T!Lesser(Y, Y)
      /\ T!Lesser(T!Greater(Y, Y), Height - 1) <= dirty.DirtyY2
  BY <1>1, <1>3, <1>e, Dirtied
<1>6. dirty.CursorX = X /\ dirty.CursorY = Y /\ Wider(tty, dirty) /\ Fits(dirty)
  <2>1. Wider(tty, dirty)
    BY <1>1, <1>3, <1>4, <1>5, WiderTwice
  <2> QED BY <1>4, <1>5, <2>1 DEF SameBut, Fits
<1>7. tty' = IF hidden = tty.IsCursorHidden THEN after ELSE dirty
  BY <1>a, <1>b, <1>c, <1>d, <1>e DEF T!Toggle
<1>8. CASE X = Width
  <2>1. /\ T!Outdates(T!CursorChanges(tty'))
        /\ stale' = (stale \ T!CursorChanges(tty')) \cup (T!CursorChanges(tty') \cap T!DirtyCells(tty'))
    BY <1>8, <1>1, <1>c, TerminalAssumption DEF T!Toggle, T!Spoils
  <2>2. CASE hidden = tty.IsCursorHidden
    <3>1. T!CursorChanges(tty') = {}
      BY <1>4, <1>7, <1>c, <1>d, <2>2 DEF T!CursorChanges, T!CursorCell
    <3> QED BY <1>3, <1>4, <1>7, <2>1, <2>2, <3>1, ChangesShown
  <2>3. CASE hidden # tty.IsCursorHidden
    BY <1>5, <1>6, <1>7, <2>1, <2>3, ChangesShown
  <2> QED BY <2>2, <2>3
<1>9. CASE X < Width
  <2>1. stale' = stale \cup T!CursorChanges(tty') /\ T!Outdates(T!CursorChanges(tty'))
    BY <1>9, <1>c DEF T!Toggle
  <2>2. T!Becomes(tty', {})
    BY <2>1 DEF T!Becomes, T!Outdates
  <2>3. CASE hidden = tty.IsCursorHidden
    <3>1. T!CursorCell(after) = T!CursorCell(tty)
      BY <1>4, <1>c, <1>d, <2>3 DEF T!CursorCell
    <3>2. T!Becomes(after, {})
      BY <1>7, <2>2, <2>3
    <3> QED BY <1>3, <1>4, <3>1, <3>2, HandlerShown
  <2>4. CASE hidden # tty.IsCursorHidden
    <3>1. /\ dirty.DirtyX1 \in Int /\ dirty.DirtyX2 \in Int
          /\ dirty.DirtyY1 \in Int /\ dirty.DirtyY2 \in Int
      BY <1>5 DEF Terminals
    <3>2. Covers(dirty, T!Lesser(X, Width - 1), Y)
      BY <1>1, <1>5, <1>9, <3>1, TerminalAssumption DEF Covers, T!Lesser, T!Greater
    <3>3. /\ Covers(dirty, T!Lesser(tty.CursorX, Width - 1), tty.CursorY)
          /\ Covers(dirty, T!Lesser(dirty.CursorX, Width - 1), dirty.CursorY)
      BY <1>6, <3>2, <1>c, <1>d
    <3>4. T!Becomes(dirty, {})
      BY <1>7, <2>2, <2>4
    <3> QED BY <1>5, <1>6, <3>3, <3>4, HandlerShown
  <2> QED BY <2>3, <2>4
<1> QED BY <1>1, <1>8, <1>9, TerminalAssumption

\* TTYDraw draws all that was to be drawn.
LEMMA DrawShown ==
  ASSUME TerminalInv, T!Draw
  PROVE  TerminalInv'
<1>1. tty' \in Terminals /\ Fits(tty')
  BY DEF TerminalInv, Terminals, Fits, T!Draw
<1>2. /\ tty.DirtyX1 \in Int /\ tty.DirtyY1 \in Int /\ tty.DirtyX2 \in Int /\ tty.DirtyY2 \in Int
      /\ T!DirtyCells(tty) \subseteq Int \X Int
  BY DEF TerminalInv, Terminals, T!DirtyCells
<1>3. drawing' \in Drawings /\ drawing'.cells = T!DirtyCells(tty) \cap stale
  BY <1>2 DEF T!Draw, Drawings
<1>4. T!Shown'
  <2>1. drawing.cells = {} /\ stale' = stale
    BY DEF T!Draw, T!NoDrawing
  <2>2. \A c \in stale : c \in T!DirtyCells(tty)
    BY <2>1 DEF TerminalInv, T!Shown
  <2> QED BY <1>3, <2>1, <2>2 DEF T!Shown
<1> QED BY <1>1, <1>3, <1>4 DEF TerminalInv, Fits

\* What was on its way to the texture comes there, or is left to the rectangle, which is dirty
\* when it goes to another place.
LEMMA UpdateTextureShown ==
  ASSUME TerminalInv, T!UpdateTexture
  PROVE  TerminalInv'
<1>1. drawing' = T!NoDrawing /\ tty' = tty
  BY DEF T!UpdateTexture
<1>2. drawing' \in Drawings
  BY <1>1 DEF T!NoDrawing, Drawings
<1>3. ASSUME NEW c \in stale'
      PROVE  tty.IsDirty /\ c \in T!DirtyCells(tty)
  <2>1. \A d \in stale : d \notin drawing.cells => tty.IsDirty /\ d \in T!DirtyCells(tty)
    BY DEF TerminalInv, T!Shown
  <2>2. CASE stale' = stale \ drawing.cells
    BY <2>1, <2>2
  <2>3. CASE tty.IsDirty /\ \E there : T!Spoils(drawing.cells \cup there, tty)
    BY <2>1, <2>3 DEF T!Spoils
  <2>4. PICK x \in T!Reread(drawing.x, tty.DirtyX1, Width),
             y \in T!Reread(drawing.y, tty.DirtyY1, Height) :
          IF x = drawing.x /\ y = drawing.y THEN stale' = stale \ drawing.cells
          ELSE \E there : T!Spoils(drawing.cells \cup there, tty)
    BY DEF T!UpdateTexture
  <2>5. x # drawing.x \/ y # drawing.y => tty.IsDirty
    BY DEF T!Reread
  <2> QED BY <2>2, <2>3, <2>4, <2>5
<1>4. T!Shown'
  BY <1>1, <1>3 DEF T!Shown, T!DirtyCells
<1> QED BY <1>1, <1>2, <1>4 DEF TerminalInv, Fits

\* A terminal begins with all of it dirty.
LEMMA TerminalStarts ==
  ASSUME T!Init
  PROVE  TerminalInv
<1>a. PICK params : params = [i \in 0 .. (ParamCount - 1) |-> 0]
  OBVIOUS
<1>1. params \in [0 .. (ParamCount - 1) -> Nat] /\ 0 \in 0 .. (ParamCount - 1)
  BY <1>a, TerminalAssumption
<1>2. tty = [CursorX |-> 0, CursorY |-> 0, IsCursorHidden |-> FALSE,
             DirtyX1 |-> 0, DirtyY1 |-> 0, DirtyX2 |-> Width - 1, DirtyY2 |-> Height - 1,
             IsDirty |-> TRUE, ScrollWindowTop |-> 0, ScrollWindowBottom |-> Height - 1,
             IsEscape |-> 0, EscapeIndex |-> 0, EscapeParams |-> params]
  BY <1>a DEF T!Init
<1>3. tty \in Terminals
  BY <1>1, <1>2, TerminalAssumption DEF Terminals
<1>4. Fits(tty)
  BY <1>2, TerminalAssumption DEF Fits, T!Rows
<1>5. tty.IsDirty /\ T!DirtyCells(tty) = T!Columns \X T!Rows
  BY <1>2 DEF T!DirtyCells, T!Columns, T!Rows
<1>6. drawing \in Drawings
  BY DEF T!Init, T!NoDrawing, Drawings
<1> QED BY <1>3, <1>4, <1>5, <1>6 DEF TerminalInv, T!Shown, T!Init

\* Every step of the terminal.
LEMMA TerminalSteps ==
  ASSUME TerminalInv, T!Next
  PROVE  TerminalInv'
<1>1. CASE T!ParseEscape
  BY <1>1, ParsedShown, MoveCursorShown, ClearShown, ClearLineShown, SetScrollMarginsShown,
     ScrollWindowShown, ToggleShown DEF T!ParseEscape
<1> QED BY <1>1, PutCharacterShown, DrawShown, UpdateTextureShown DEF T!Next

\* Every cell that looks different from what the texture shows of it is in the dirty
\* rectangle, or in a drawing under way and has not changed since, for a terminal of any size,
\* whatever is written to it and whenever; but for a cursor toggled in the margin and for what
\* a drawing that goes to another place leaves outside the rectangle.
THEOREM CellsAreShown == BSpec => []Shown
<1> DEFINE I == part = "terminal" => TerminalInv
<1>1. BInit => I
  BY TerminalStarts DEF BInit
<1>2. I /\ [BNext]_bvars => I'
  <2> SUFFICES ASSUME I, [BNext]_bvars, part' = "terminal" PROVE TerminalInv'
    OBVIOUS
  <2>1. CASE UNCHANGED <<part, terminal>>
    BY <2>1 DEF terminal, TerminalInv, Fits, T!Shown, T!DirtyCells
  <2>2. CASE OfTerminal /\ T!Next
    BY <2>2, TerminalSteps DEF OfTerminal, Of
  <2>3. BNext => (OfTerminal /\ T!Next) \/ UNCHANGED <<part, terminal>>
    BY DEF BNext, OfDisks, OfTransmission, OfReception, OfTerminal, OfKeyboard, Of
  <2> QED BY <2>1, <2>2, <2>3 DEF bvars
<1>3. I => Shown
  BY DEF Shown, TerminalInv
<1> HIDE DEF I
<1> QED BY <1>1, <1>2, <1>3, PTL DEF BSpec
-----------------------------------------------------------------------------
(* The serial port.                                                        *)

\* A number is what is left of it and a multiple.
LEMMA Divides ==
  ASSUME NEW a \in Int, NEW m \in Int, m > 0, NEW q, q = a \div m, NEW r, r = a % m
  PROVE  r \in 0 .. (m - 1) /\ q \in Int /\ a = m * q + r
<1>1. r \in 0 .. (m - 1)
  OBVIOUS
<1>2. q \in Int
  OBVIOUS
<1>3. a = m * q + r
  OBVIOUS
<1> QED BY <1>1, <1>2, <1>3

\* The remainder is the only number in its range that leaves a multiple.
LEMMA Remainder ==
  ASSUME NEW m \in Nat \ {0}, NEW q \in Int, NEW r \in 0 .. (m - 1), NEW a \in Int, a = m * q + r
  PROVE  a % m = r
<1>a. PICK k : k = a \div m
  OBVIOUS
<1>b. PICK s : s = a % m
  OBVIOUS
<1>1. s \in 0 .. (m - 1) /\ k \in Int /\ a = m * k + s
  <2>1. m \in Int /\ m > 0
    OBVIOUS
  <2> QED BY <2>1, <1>a, <1>b, Divides
<1>c. PICK d : d = q - k
  OBVIOUS
<1>2. d \in Int /\ m * d = s - r
  <2>1. m * (q - k) = m * q - m * k
    BY <1>1
  <2> QED BY <2>1, <1>1, <1>c
<1>3. d <= 0
  <2>1. ASSUME d >= 1 PROVE m * d >= m
    BY <2>1, <1>2
  <2> QED BY <2>1, <1>1, <1>2
<1>4. d >= 0
  <2>1. ASSUME d <= -1 PROVE m * d <= -m
    BY <2>1, <1>2
  <2> QED BY <2>1, <1>1, <1>2
<1>5. d = 0
  BY <1>2, <1>3, <1>4
<1>6. m * d = 0
  BY <1>5
<1>7. s = r
  BY <1>1, <1>2, <1>6
<1> QED BY <1>7, <1>b

\* The remainder of a sum can be taken of a part of it first.
LEMMA SumRemainder ==
  ASSUME NEW m \in Nat \ {0}, NEW a \in Int, NEW b \in Int
  PROVE  ((a % m) + b) % m = (a + b) % m
<1>a. PICK k : k = a \div m
  OBVIOUS
<1>b. PICK s : s = a % m
  OBVIOUS
<1>c. PICK l : l = (a + b) \div m
  OBVIOUS
<1>d. PICK r : r = (a + b) % m
  OBVIOUS
<1>1. s \in 0 .. (m - 1) /\ k \in Int /\ a = m * k + s
  BY <1>a, <1>b, Divides
<1>2. r \in 0 .. (m - 1) /\ l \in Int /\ a + b = m * l + r
  <2>1. a + b \in Int
    OBVIOUS
  <2> QED BY <2>1, <1>c, <1>d, Divides
<1>e. PICK x : x = s + b
  OBVIOUS
<1>f. PICK q : q = l - k
  OBVIOUS
<1>3. x \in Int /\ q \in Int /\ x = m * q + r
  <2>1. m * (l - k) = m * l - m * k
    BY <1>1, <1>2
  <2> QED BY <2>1, <1>1, <1>2, <1>e, <1>f
<1>4. x % m = r
  BY <1>2, <1>3, Remainder
<1> QED BY <1>4, <1>b, <1>d, <1>e

\* Indices that run modulo twice the size give a place modulo the size.
LEMMA HalfRemainder ==
  ASSUME NEW m \in Nat \ {0}, NEW a \in Int
  PROVE  (a % (2 * m)) % m = a % m
<1>a. PICK k : k = a \div (2 * m)
  OBVIOUS
<1>b. PICK s : s = a % (2 * m)
  OBVIOUS
<1>c. PICK r : r = s % m
  OBVIOUS
<1>d. PICK l : l = s \div m
  OBVIOUS
<1>1. s \in Int /\ k \in Int /\ a = (2 * m) * k + s
  <2>1. 2 * m \in Nat \ {0}
    OBVIOUS
  <2> QED BY <2>1, <1>a, <1>b, Divides
<1>2. r \in 0 .. (m - 1) /\ l \in Int /\ s = m * l + r
  BY <1>1, <1>c, <1>d, Divides
<1>e. PICK q : q = 2 * k + l
  OBVIOUS
<1>3. q \in Int /\ a = m * q + r
  <2>1. m * (2 * k + l) = (2 * m) * k + m * l
    BY <1>1, <1>2
  <2> QED BY <2>1, <1>1, <1>2, <1>e
<1>4. a % m = r
  BY <1>2, <1>3, Remainder
<1> QED BY <1>4, <1>b, <1>c

\* What is in the range is its own remainder.
LEMMA OwnRemainder ==
  ASSUME NEW m \in Nat \ {0}, NEW r \in 0 .. (m - 1)
  PROVE  r % m = r
<1>1. r \in Int /\ 0 \in Int /\ r = m * 0 + r
  OBVIOUS
<1> QED BY <1>1, Remainder

\* The port, as far as the characters it transmits: the FIFO is not full while the driver may
\* write.
TransmitInv ==
  /\ TransmitBuffer \in Seq(Int) /\ Len(TransmitBuffer) <= TransmitSize
  /\ SendIndex \in 0 .. Len(TransmitBuffer)
  /\ written \in 0 .. (Characters - 1) /\ shown \in 0 .. (Characters - 1)
  /\ Cost \in Int /\ STimeslice \in Int
  /\ scall = [t \in Threads |-> scall[t]]
  /\ \A t \in Threads :
       "at" \in DOMAIN scall[t] /\ "timeslice" \in DOMAIN scall[t] /\ scall[t].timeslice \in Int
  /\ Len(TransmitBuffer) = TransmitSize => WriteBusy
  /\ driver = "ready" => ~WriteBusy
  /\ S!TransmitOrderKept

\* The first n characters that wait go to the terminal.
LEMMA SentInOrder ==
  ASSUME TransmitInv, NEW n \in 1 .. S!Waiting,
         shown' = S!Successor(TransmitBuffer[SendIndex + n])
  PROVE  /\ shown' \in 0 .. (Characters - 1)
         /\ \A i \in 1 .. (S!Waiting - n) :
              TransmitBuffer[SendIndex + n + i] = (shown' + i - 1) % Characters
         /\ (shown' + (S!Waiting - n)) % Characters = written
<1>a. PICK C : C = Characters
  OBVIOUS
<1>b. PICK W : W = S!Waiting
  OBVIOUS
<1>c. PICK s : s = SendIndex
  OBVIOUS
<1>d. PICK x : x = shown
  OBVIOUS
<1>e. PICK y : y = shown'
  OBVIOUS
<1>1. /\ C \in Nat \ {0} /\ W \in Nat /\ s \in Nat /\ x \in Int /\ n \in Nat /\ 1 <= n /\ n <= W
      /\ 1 \in Int
  <2>1. C \in Nat \ {0} /\ TransmitBuffer \in Seq(Int)
        /\ SendIndex \in 0 .. Len(TransmitBuffer) /\ shown \in 0 .. (Characters - 1)
    BY <1>a, PortAssumption DEF TransmitInv
  <2>2. PICK L : L = Len(TransmitBuffer) /\ L \in Nat
    BY <2>1
  <2>3. s \in 0 .. L /\ W = L - s
    BY <1>b, <1>c, <2>1, <2>2 DEF S!Waiting
  <2>4. n \in 1 .. W
    BY <1>b
  <2>5. x \in Int
    BY <1>a, <1>d, <2>1
  <2> QED BY <2>1, <2>3, <2>4, <2>5
<1>2. /\ \A i \in 1 .. W : TransmitBuffer[s + i] = (x + i - 1) % C
      /\ (x + W) % C = written
  BY <1>a, <1>b, <1>c, <1>d DEF TransmitInv, S!TransmitOrderKept
<1>3. TransmitBuffer[s + n] = (x + n - 1) % C
  BY <1>1, <1>2
<1>4. y = (((x + n - 1) % C) + 1) % C
  BY <1>3, <1>a, <1>c, <1>e DEF S!Successor
<1>5. y = (x + n) % C
  <2>a. PICK z : z = x + n - 1
    OBVIOUS
  <2>1. z \in Int /\ z + 1 = x + n
    BY <1>1, <2>a
  <2>2. ((z % C) + 1) % C = (z + 1) % C
    BY <1>1, <2>1, SumRemainder
  <2> QED BY <1>4, <2>1, <2>2, <2>a
<1>6. y \in 0 .. (C - 1)
  <2>1. C \in Int /\ C > 0 /\ x + n \in Int
    BY <1>1
  <2> QED BY <1>5, <2>1
<1>7. \A b \in Int : (y + b) % C = (x + n + b) % C
  <2>1. x + n \in Int
    BY <1>1
  <2> QED BY <1>1, <1>5, <2>1, SumRemainder
<1>8. ASSUME NEW i \in 1 .. (W - n)
      PROVE  TransmitBuffer[s + n + i] = (y + i - 1) % C
  <2>a. PICK b : b = i - 1
    OBVIOUS
  <2>b. PICK j : j = n + i
    OBVIOUS
  <2>1. /\ b \in Int /\ j \in 1 .. W /\ s + n + i = s + j
        /\ y + i - 1 = y + b /\ x + j - 1 = x + n + b
    BY <1>1, <1>6, <2>a, <2>b
  <2>2. TransmitBuffer[s + j] = (x + j - 1) % C
    BY <1>2, <2>1
  <2> QED BY <1>7, <2>1, <2>2
<1>9. (y + (W - n)) % C = written
  <2>1. W - n \in Int /\ x + n + (W - n) = x + W
    BY <1>1
  <2> QED BY <1>2, <1>7, <2>1
<1> QED BY <1>6, <1>8, <1>9, <1>a, <1>b, <1>c, <1>e

\* A step that moves no character.
LEMMA CharactersStay ==
  ASSUME TransmitInv, UNCHANGED <<TransmitBuffer, SendIndex, written, shown>>,
         WriteBusy' <=> WriteBusy,
         Cost' \in Int, STimeslice' \in Int, scall' = [t \in Threads |-> scall'[t]],
         \A t \in Threads : /\ "at" \in DOMAIN scall'[t] /\ "timeslice" \in DOMAIN scall'[t]
                            /\ scall'[t].timeslice \in Int,
         driver' = "ready" => ~WriteBusy
  PROVE  TransmitInv'
BY DEF TransmitInv, S!TransmitOrderKept, S!Waiting

\* The call of one thread changes, with a timeslice that is a number.
LEMMA CallChanges ==
  ASSUME TransmitInv, NEW t \in Threads, NEW at, NEW timeslice \in Int,
         scall' = [scall EXCEPT ![t] = [at |-> at, timeslice |-> timeslice]]
  PROVE  /\ scall' = [u \in Threads |-> scall'[u]]
         /\ \A u \in Threads : /\ "at" \in DOMAIN scall'[u] /\ "timeslice" \in DOMAIN scall'[u]
                               /\ scall'[u].timeslice \in Int
<1>a. PICK c : c = [at |-> at, timeslice |-> timeslice]
  OBVIOUS
<1>1. "at" \in DOMAIN c /\ "timeslice" \in DOMAIN c /\ c.timeslice \in Int
  BY <1>a
<1>2. scall' = [scall EXCEPT ![t] = c]
  BY <1>a
<1>3. scall' = [u \in Threads |-> IF u = t THEN c ELSE scall[u]]
  BY <1>2 DEF TransmitInv
<1> QED BY <1>1, <1>3 DEF TransmitInv

\* A time is a number.
LEMMA WrapInt ==
  ASSUME NEW n \in Int
  PROVE  S!Wrap(n) \in Int
<1>1. Ints \in Int /\ Ints > 0 /\ Ints \div 2 \in Int
  BY PortAssumption
<1>2. (n + Ints \div 2) % Ints \in Int
  BY <1>1
<1> QED BY <1>1, <1>2 DEF S!Wrap

\* SerialWriteData.
LEMMA WriteDataOrdered ==
  ASSUME TransmitInv, S!WriteData
  PROVE  TransmitInv'
<1>a. PICK C : C = Characters
  OBVIOUS
<1>1. C \in Nat \ {0} /\ C \in Int /\ C > 0 /\ TransmitSize \in Nat \ {0}
  BY <1>a, PortAssumption
<1>2. /\ driver' = "idle" /\ ~WriteBusy /\ written' = (written + 1) % C
      /\ written \in 0 .. (C - 1) /\ shown \in 0 .. (C - 1) /\ 1 \in Int
  BY <1>a DEF S!WriteData, S!Successor, TransmitInv
<1>3. written' \in 0 .. (C - 1)
  BY <1>1, <1>2
<1>4. Len(TransmitBuffer) # TransmitSize
  BY <1>2 DEF TransmitInv
<1>5. CASE S!PutDirectly
  <2>1. /\ TransmitBuffer = <<>> /\ SendIndex = 0 /\ Len(TransmitBuffer) = 0
        /\ TransmitBuffer' = <<>> /\ SendIndex' = 0 /\ Len(TransmitBuffer)' = 0
        /\ WriteBusy' = WriteBusy /\ shown' = written'
        /\ UNCHANGED <<STimeslice, scall>>
    BY <1>2, <1>5, <1>a DEF S!PutDirectly, S!PutsAtOnce, S!scheduling, S!Successor, TransmitInv
  <2>2. Cost' \in Int
    BY <1>5 DEF S!PutDirectly, TransmitInv
  <2>3. S!Waiting' = 0
    BY <2>1 DEF S!Waiting
  <2>4. (shown' + 0) % C = written'
    <3>a. PICK w : w = written'
      OBVIOUS
    <3>0. w \in 0 .. (C - 1)
      BY <1>3, <3>a
    <3>1. w + 0 = w
      <4>1. w \in Int
        BY <1>1, <3>0
      <4> QED BY <4>1
    <3>2. w % C = w
      BY <1>1, <3>0, OwnRemainder
    <3> QED BY <2>1, <3>1, <3>2, <3>a
  <2>5. S!TransmitOrderKept'
    BY <2>3, <2>4, <1>a DEF S!TransmitOrderKept
  <2> QED BY <1>1, <1>2, <1>3, <2>1, <2>2, <2>5, <1>a DEF TransmitInv
<1>6. CASE S!Buffer
  <2>a. PICK W : W = S!Waiting
    OBVIOUS
  <2>b. PICK s : s = SendIndex
    OBVIOUS
  <2>c. PICK n : n = Len(TransmitBuffer)
    OBVIOUS
  <2>1. /\ TransmitBuffer' = Append(TransmitBuffer, written)
        /\ WriteBusy' = (WriteBusy \/ Len(TransmitBuffer)' = TransmitSize)
        /\ UNCHANGED <<SendIndex, Cost, shown, STimeslice, scall>>
    BY <1>6 DEF S!Buffer
  <2>2. /\ TransmitBuffer \in Seq(Int) /\ n \in Nat /\ s \in 0 .. n /\ W = n - s
        /\ W \in Nat /\ n <= TransmitSize /\ n # TransmitSize
    BY <1>4, <2>a, <2>b, <2>c DEF TransmitInv, S!Waiting
  <2>3. /\ TransmitBuffer' \in Seq(Int) /\ Len(TransmitBuffer)' = n + 1
        /\ \A i \in 1 .. n : TransmitBuffer'[i] = TransmitBuffer[i]
        /\ TransmitBuffer'[n + 1] = written
    BY <1>2, <2>1, <2>2, <2>c
  <2>4. S!Waiting' = W + 1
    BY <2>1, <2>2, <2>3, <2>b DEF S!Waiting
  <2>5. /\ \A i \in 1 .. W : TransmitBuffer[s + i] = (shown + i - 1) % C
        /\ (shown + W) % C = written
    BY <1>a, <2>a, <2>b DEF TransmitInv, S!TransmitOrderKept
  <2>6. ASSUME NEW i \in 1 .. (W + 1)
        PROVE  TransmitBuffer'[s + i] = (shown + i - 1) % C
    <3>1. CASE i \in 1 .. W
      <4>1. s + i \in 1 .. n
        BY <2>2, <3>1
      <4> QED BY <2>3, <2>5, <3>1, <4>1
    <3>2. CASE i = W + 1
      <4>1. s + i = n + 1 /\ shown + i - 1 = shown + W
        BY <1>2, <2>2, <3>2
      <4> QED BY <2>3, <2>5, <4>1
    <3> QED BY <2>2, <3>1, <3>2
  <2>7. (shown + (W + 1)) % C = written'
    <3>1. shown + W \in Int /\ shown + W + 1 = shown + (W + 1)
      BY <1>2, <2>2
    <3>2. (((shown + W) % C) + 1) % C = (shown + W + 1) % C
      BY <1>1, <1>2, <3>1, SumRemainder
    <3> QED BY <1>2, <2>5, <3>1, <3>2
  <2>8. S!TransmitOrderKept'
    BY <2>1, <2>4, <2>6, <2>7, <1>a, <2>b DEF S!TransmitOrderKept
  <2>9. Len(TransmitBuffer)' <= TransmitSize /\ SendIndex' \in 0 .. Len(TransmitBuffer)'
    BY <1>1, <2>1, <2>2, <2>3, <2>b
  <2> QED BY <1>2, <1>3, <2>1, <2>3, <2>8, <2>9, <1>a DEF TransmitInv
<1>7. ~S!Drop
  BY <1>4 DEF S!Drop
<1> QED BY <1>5, <1>6, <1>7 DEF S!WriteData

\* SerialSchedule sends the first characters of the FIFO.
LEMMA SendOrdered ==
  ASSUME TransmitInv, NEW t \in Threads, S!Send(t)
  PROVE  TransmitInv'
<1>a. PICK n : n = S!Least({Len(TransmitBuffer) - SendIndex, STimeslice, CharsPerSchedule})
  OBVIOUS
<1>b. PICK W : W = S!Waiting
  OBVIOUS
<1>c. PICK end : end = IF n > 0 THEN SendIndex + n ELSE SendIndex
  OBVIOUS
<1>d. PICK drained : drained = (n > 0 /\ end = Len(TransmitBuffer))
  OBVIOUS
<1>1. /\ W = Len(TransmitBuffer) - SendIndex /\ W \in Nat
      /\ Len(TransmitBuffer) \in Nat /\ SendIndex \in Nat
  BY <1>b DEF TransmitInv, S!Waiting
<1>2. n \in Int /\ n <= W
  <2>1. W \in Int /\ STimeslice \in Int /\ CharsPerSchedule \in Int
    BY <1>1, PortAssumption DEF TransmitInv
  <2>2. \E k \in {W, STimeslice, CharsPerSchedule} :
          \A m \in {W, STimeslice, CharsPerSchedule} : k <= m
    <3>1. CASE W <= STimeslice /\ W <= CharsPerSchedule
      BY <2>1, <3>1
    <3>2. CASE STimeslice <= W /\ STimeslice <= CharsPerSchedule
      BY <2>1, <3>2
    <3>3. CASE CharsPerSchedule <= W /\ CharsPerSchedule <= STimeslice
      BY <2>1, <3>3
    <3> QED BY <2>1, <3>1, <3>2, <3>3
  <2>3. n = CHOOSE k \in {W, STimeslice, CharsPerSchedule} :
              \A m \in {W, STimeslice, CharsPerSchedule} : k <= m
    BY <1>a, <1>1 DEF S!Least
  <2>4. /\ n \in {W, STimeslice, CharsPerSchedule}
        /\ \A m \in {W, STimeslice, CharsPerSchedule} : n <= m
    BY <2>2, <2>3
  <2> QED BY <2>1, <2>4
<1>3. /\ shown' = IF n > 0 THEN S!Successor(TransmitBuffer[end]) ELSE shown
      /\ TransmitBuffer' = IF drained THEN <<>> ELSE TransmitBuffer
      /\ SendIndex' = IF drained THEN 0 ELSE end
      /\ WriteBusy' = (WriteBusy /\ ~drained)
      /\ UNCHANGED <<Cost, STimeslice, driver, written>>
  BY <1>a, <1>c, <1>d DEF S!Send
<1>4. /\ scall' = [u \in Threads |-> scall'[u]]
      /\ \A u \in Threads : /\ "at" \in DOMAIN scall'[u] /\ "timeslice" \in DOMAIN scall'[u]
                            /\ scall'[u].timeslice \in Int
  <2>a. PICK left : left = S!Wrap(scall[t].timeslice - n)
    OBVIOUS
  <2>1. S!Leave(t, left)
    BY <1>a, <2>a DEF S!Send
  <2>2. left \in Int
    <3>1. scall[t].timeslice - n \in Int
      BY <1>2 DEF TransmitInv
    <3> QED BY <3>1, <2>a, WrapInt
  <2>3. scall' = [scall EXCEPT ![t] = [at |-> "left", timeslice |-> left]]
    BY <2>1 DEF S!Leave
  <2> QED BY <2>2, <2>3, CallChanges
<1>5. CASE n <= 0
  <2>1. /\ ~drained /\ end = SendIndex /\ (WriteBusy' <=> WriteBusy)
        /\ UNCHANGED <<TransmitBuffer, SendIndex, written, shown, Cost, STimeslice, driver>>
    <3>1. ~(n > 0)
      BY <1>2, <1>5
    <3>2. ~drained /\ end = SendIndex
      BY <3>1, <1>c, <1>d
    <3> QED BY <1>3, <3>1, <3>2
  <2> QED BY <1>4, <2>1, CharactersStay DEF TransmitInv
<1>6. CASE n > 0
  <2>1. /\ n \in 1 .. W /\ end = SendIndex + n /\ shown' = S!Successor(TransmitBuffer[SendIndex + n])
    BY <1>1, <1>2, <1>3, <1>6, <1>c
  <2>2. /\ shown' \in 0 .. (Characters - 1)
        /\ \A i \in 1 .. (W - n) : TransmitBuffer[end + i] = (shown' + i - 1) % Characters
        /\ (shown' + (W - n)) % Characters = written
    BY <2>1, <1>b, SentInOrder
  <2>3. CASE drained
    <3>1. n = W /\ TransmitBuffer' = <<>> /\ SendIndex' = 0 /\ ~WriteBusy'
      <4>1. SendIndex + n = Len(TransmitBuffer)
        BY <2>1, <2>3, <1>d
      <4>2. n = W
        BY <1>1, <1>2, <4>1
      <4> QED BY <1>3, <2>3, <4>2
    <3>2. TransmitBuffer' \in Seq(Int) /\ Len(TransmitBuffer)' = 0 /\ S!Waiting' = 0
      BY <3>1 DEF S!Waiting
    <3>3. (shown' + 0) % Characters = written'
      <4>1. W - n = 0
        BY <1>1, <1>2, <3>1
      <4> QED BY <1>3, <2>2, <4>1
    <3>4. S!TransmitOrderKept'
      BY <3>2, <3>3 DEF S!TransmitOrderKept
    <3>5. TransmitSize \in Nat /\ 0 <= TransmitSize /\ 0 # TransmitSize
      BY PortAssumption
    <3> QED BY <1>3, <1>4, <2>2, <3>1, <3>2, <3>4, <3>5 DEF TransmitInv
  <2>4. CASE ~drained
    <3>1. TransmitBuffer' = TransmitBuffer /\ SendIndex' = end /\ (WriteBusy' <=> WriteBusy)
      BY <1>3, <2>4
    <3>2. S!Waiting' = W - n /\ SendIndex' \in 0 .. Len(TransmitBuffer)
      BY <1>1, <1>2, <2>1, <3>1 DEF S!Waiting
    <3>3. S!TransmitOrderKept'
      BY <1>3, <2>2, <3>1, <3>2 DEF S!TransmitOrderKept
    <3> QED BY <1>3, <1>4, <2>2, <3>1, <3>2, <3>3 DEF TransmitInv
  <2> QED BY <2>3, <2>4
<1> QED BY <1>2, <1>5, <1>6

\* Every step of the transmission.
LEMMA TransmitOrdered ==
  ASSUME TransmitInv, S!Transmit
  PROVE  TransmitInv'
<1>1. CASE S!ReadCMD
  <2>1. /\ UNCHANGED <<TransmitBuffer, SendIndex, WriteBusy, written, shown, Cost, STimeslice, scall>>
        /\ driver' = "ready" => ~WriteBusy
    BY <1>1 DEF S!ReadCMD, S!fifo, S!scheduling
  <2> QED BY <2>1, CharactersStay DEF TransmitInv
<1>2. ASSUME NEW t \in Threads, S!Enter(t)
      PROVE  TransmitInv'
  <2>1. /\ UNCHANGED <<TransmitBuffer, SendIndex, WriteBusy, written, shown, Cost, STimeslice, driver>>
        /\ scall' = [scall EXCEPT ![t] = [at |-> "entered", timeslice |-> STimeslice]]
    BY <1>2 DEF S!Enter, S!fifo
  <2>2. /\ scall' = [u \in Threads |-> scall'[u]]
        /\ \A u \in Threads : /\ "at" \in DOMAIN scall'[u] /\ "timeslice" \in DOMAIN scall'[u]
                              /\ scall'[u].timeslice \in Int
    BY <2>1, CallChanges DEF TransmitInv
  <2> QED BY <2>1, <2>2, CharactersStay DEF TransmitInv
<1>3. ASSUME NEW t \in Threads, S!Pay(t)
      PROVE  TransmitInv'
  <2>a. PICK left : left = IF Cost < scall[t].timeslice
                           THEN S!Wrap(scall[t].timeslice - Cost) ELSE 0
    OBVIOUS
  <2>1. Cost \in Int /\ scall[t].timeslice \in Int
    BY DEF TransmitInv
  <2>2. /\ S!Wrap(Cost - scall[t].timeslice) \in Int
        /\ S!Wrap(scall[t].timeslice - Cost) \in Int
    <3>1. Cost - scall[t].timeslice \in Int /\ scall[t].timeslice - Cost \in Int
      BY <2>1
    <3> QED BY <3>1, WrapInt
  <2>3. /\ UNCHANGED <<TransmitBuffer, SendIndex, WriteBusy, written, shown, STimeslice, driver>>
        /\ Cost' \in Int /\ S!Leave(t, left)
    BY <1>3, <2>2, <2>a DEF S!Pay
  <2>4. left \in Int
    BY <2>2, <2>a
  <2>5. scall' = [scall EXCEPT ![t] = [at |-> "left", timeslice |-> left]]
    BY <2>3 DEF S!Leave
  <2>6. /\ scall' = [u \in Threads |-> scall'[u]]
        /\ \A u \in Threads : /\ "at" \in DOMAIN scall'[u] /\ "timeslice" \in DOMAIN scall'[u]
                              /\ scall'[u].timeslice \in Int
    BY <2>4, <2>5, CallChanges
  <2> QED BY <2>3, <2>6, CharactersStay DEF TransmitInv
<1>4. ASSUME NEW t \in Threads, S!WriteTimeslice(t)
      PROVE  TransmitInv'
  <2>1. /\ UNCHANGED <<TransmitBuffer, SendIndex, WriteBusy, written, shown, Cost, driver>>
        /\ STimeslice' = scall[t].timeslice
        /\ scall' = [scall EXCEPT ![t] = [at |-> "none", timeslice |-> 0]]
    BY <1>4 DEF S!WriteTimeslice, S!fifo, S!NoCall
  <2>2. /\ scall' = [u \in Threads |-> scall'[u]]
        /\ \A u \in Threads : /\ "at" \in DOMAIN scall'[u] /\ "timeslice" \in DOMAIN scall'[u]
                              /\ scall'[u].timeslice \in Int
    <3>1. 0 \in Int
      OBVIOUS
    <3> QED BY <2>1, <3>1, CallChanges
  <2> QED BY <2>1, <2>2, CharactersStay DEF TransmitInv
<1>5. ASSUME NEW dt \in SerialFrameTimes, S!Frame(dt)
      PROVE  TransmitInv'
  <2>1. /\ UNCHANGED <<TransmitBuffer, SendIndex, WriteBusy, written, shown, Cost, scall, driver>>
        /\ STimeslice' \in Int
    BY <1>5, PortAssumption DEF S!Frame, S!fifo
  <2> QED BY <2>1, CharactersStay DEF TransmitInv
<1> QED BY <1>1, <1>2, <1>3, <1>4, <1>5, WriteDataOrdered, SendOrdered DEF S!Transmit, S!Schedule

\* The transmission begins with nothing written.
LEMMA TransmitStarts ==
  ASSUME S!TransmitInit
  PROVE  TransmitInv
<1>1. /\ TransmitBuffer = <<>> /\ SendIndex = 0 /\ Cost = 0 /\ STimeslice = 0
      /\ driver = "idle" /\ written = 0 /\ shown = 0
      /\ scall = [t \in Threads |-> [at |-> "none", timeslice |-> 0]]
  BY DEF S!TransmitInit, S!NoCall
<1>2. TransmitBuffer \in Seq(Int) /\ Len(TransmitBuffer) = 0 /\ S!Waiting = 0
  BY <1>1 DEF S!Waiting
<1>3. TransmitSize \in Nat \ {0} /\ Characters \in Nat \ {0} /\ 0 \in 0 .. (Characters - 1)
  BY PortAssumption
<1>4. (shown + 0) % Characters = written
  <2>1. 0 % Characters = 0
    BY <1>3, OwnRemainder
  <2> QED BY <1>1, <2>1
<1>5. S!TransmitOrderKept
  BY <1>2, <1>4 DEF S!TransmitOrderKept
<1> QED BY <1>1, <1>2, <1>3, <1>5 DEF TransmitInv

\* What was taken from the host: the indices, modulo twice the size, are as far apart as there
\* is no room.
ReceiveInv ==
  /\ ReceiveBuffer \in [0 .. (ReceiveSize - 1) -> Int]
  /\ ReceiveBufferIndex \in 0 .. (2 * ReceiveSize - 1)
  /\ ReceiveIndex \in 0 .. (2 * ReceiveSize - 1)
  /\ typed \in 0 .. (Characters - 1) /\ read \in 0 .. (Characters - 1)
  /\ ReceiveRemaining \in 0 .. ReceiveSize
  /\ S!Received = ReceiveSize - ReceiveRemaining
  /\ S!ReceiveOrderKept

\* Two places of the FIFO that are less than its size apart are different.
LEMMA PlacesDiffer ==
  ASSUME NEW m \in Nat \ {0}, NEW a \in Int, NEW i \in Int, NEW j \in Int,
         0 <= i, i < j, j < m
  PROVE  (a + i) % m # (a + j) % m
<1>a. PICK x : x = a + i
  OBVIOUS
<1>b. PICK y : y = a + j
  OBVIOUS
<1>c. PICK k : k = x \div m
  OBVIOUS
<1>d. PICK l : l = y \div m
  OBVIOUS
<1>e. PICK r : r = x % m
  OBVIOUS
<1>f. PICK s : s = y % m
  OBVIOUS
<1>1. x \in Int /\ y \in Int /\ y - x = j - i /\ m \in Int /\ m > 0
  BY <1>a, <1>b
<1>2. r \in 0 .. (m - 1) /\ k \in Int /\ x = m * k + r
  BY <1>1, <1>c, <1>e, Divides
<1>3. s \in 0 .. (m - 1) /\ l \in Int /\ y = m * l + s
  BY <1>1, <1>d, <1>f, Divides
<1>4. ASSUME r = s PROVE FALSE
  <2>g. PICK d : d = l - k
    OBVIOUS
  <2>1. d \in Int /\ m * d = j - i
    <3>1. m * (l - k) = m * l - m * k
      BY <1>2, <1>3
    <3> QED BY <3>1, <1>1, <1>2, <1>3, <1>4, <2>g
  <2>2. ASSUME d >= 1 PROVE m * d >= m
    BY <2>1, <2>2
  <2>3. ASSUME d <= 0 PROVE m * d <= 0
    BY <2>1, <2>3
  <2> QED BY <2>1, <2>2, <2>3
<1> QED BY <1>4, <1>a, <1>b, <1>e, <1>f

\* A difference, as SumRemainder.
LEMMA DifferenceRemainder ==
  ASSUME NEW m \in Nat \ {0}, NEW a \in Int, NEW b \in Int,
         NEW s \in Int, s = a % m
  PROVE  (b - s) % m = (b - a) % m
<1>a. PICK k : k = a \div m
  OBVIOUS
<1>c. PICK y : y = b - a
  OBVIOUS
<1>d. PICK l : l = y \div m
  OBVIOUS
<1>e. PICK r : r = y % m
  OBVIOUS
<1>0. m \in Int /\ m > 0 /\ y \in Int
  BY <1>c
<1>1. s \in 0 .. (m - 1) /\ k \in Int /\ a = m * k + s
  BY <1>0, <1>a, Divides
<1>2. r \in 0 .. (m - 1) /\ l \in Int /\ y = m * l + r
  BY <1>0, <1>d, <1>e, Divides
<1>f. PICK x : x = b - s
  OBVIOUS
<1>g. PICK q : q = l + k
  OBVIOUS
<1>3. x \in Int /\ q \in Int /\ x = m * q + r
  <2>1. m * (l + k) = m * l + m * k
    BY <1>1, <1>2
  <2> QED BY <2>1, <1>1, <1>2, <1>c, <1>f, <1>g
<1>4. x % m = r
  BY <1>2, <1>3, Remainder
<1> QED BY <1>4, <1>c, <1>e, <1>f

\* The buffer index is as far from the read index as there are characters.
LEMMA BufferIndexIs ==
  ASSUME ReceiveInv
  PROVE  /\ ReceiveBufferIndex = (ReceiveIndex + S!Received) % (2 * ReceiveSize)
         /\ S!Received \in 0 .. ReceiveSize
<1>a. PICK m : m = 2 * ReceiveSize
  OBVIOUS
<1>b. PICK B : B = ReceiveBufferIndex
  OBVIOUS
<1>c. PICK I : I = ReceiveIndex
  OBVIOUS
<1>d. PICK y : y = B - I
  OBVIOUS
<1>e. PICK n : n = S!Received
  OBVIOUS
<1>1. m \in Nat \ {0} /\ B \in 0 .. (m - 1) /\ I \in 0 .. (m - 1) /\ y \in Int /\ I \in Int
  BY <1>a, <1>b, <1>c, <1>d, PortAssumption DEF ReceiveInv
<1>2. n = y % m
  BY <1>a, <1>b, <1>c, <1>d, <1>e DEF S!Received
<1>3. ((y % m) + I) % m = (y + I) % m
  BY <1>1, SumRemainder
<1>4. y + I = B
  BY <1>1, <1>d
<1>5. B % m = B
  BY <1>1, OwnRemainder
<1>6. n \in 0 .. ReceiveSize
  BY <1>e, PortAssumption DEF ReceiveInv
<1>7. n + I = I + n
  BY <1>1, <1>6, PortAssumption
<1>8. (I + n) % m = B
  BY <1>2, <1>3, <1>4, <1>5, <1>7
<1> QED BY <1>6, <1>8, <1>a, <1>b, <1>c, <1>e

\* SerialInput.
LEMMA InputOrdered ==
  ASSUME ReceiveInv, S!SerialInput
  PROVE  ReceiveInv'
<1>a. PICK m : m = 2 * ReceiveSize
  OBVIOUS
<1>b. PICK B : B = ReceiveBufferIndex
  OBVIOUS
<1>c. PICK I : I = ReceiveIndex
  OBVIOUS
<1>d. PICK y : y = B - I
  OBVIOUS
<1>e. PICK n : n = S!Received
  OBVIOUS
<1>f. PICK R : R = ReceiveSize
  OBVIOUS
<1>g. PICK C : C = Characters
  OBVIOUS
<1>h. PICK x : x = read
  OBVIOUS
<1>i. PICK z : z = typed
  OBVIOUS
<1>1. /\ R \in Nat \ {0} /\ m \in Nat \ {0} /\ m = 2 * R /\ C \in Nat \ {0} /\ 1 \in Int
      /\ B \in 0 .. (m - 1) /\ I \in 0 .. (m - 1) /\ I \in Int /\ B \in Int /\ y \in Int
      /\ x \in 0 .. (C - 1) /\ x \in Int /\ z \in Int
      /\ ReceiveRemaining \in 0 .. R /\ n = R - ReceiveRemaining
  BY <1>a, <1>b, <1>c, <1>d, <1>e, <1>f, <1>g, <1>h, <1>i, PortAssumption DEF ReceiveInv
<1>2. /\ ReceiveRemaining # 0
      /\ ReceiveBuffer' = [ReceiveBuffer EXCEPT ![B % R] = z]
      /\ ReceiveBufferIndex' = (B + 1) % m
      /\ ReceiveRemaining' = ReceiveRemaining - 1
      /\ typed' = (z + 1) % C
      /\ ReceiveIndex' = I /\ read' = x
  BY <1>a, <1>b, <1>c, <1>f, <1>g, <1>h, <1>i DEF S!SerialInput, S!Successor
<1>3. n \in Nat /\ n < R /\ n \in Int /\ ReceiveRemaining' \in 0 .. R /\ n + 1 = R - ReceiveRemaining'
      /\ n + 1 \in 0 .. (m - 1)
  BY <1>1, <1>2
<1>4. B = (I + n) % m /\ n = y % m
  BY BufferIndexIs, <1>a, <1>b, <1>c, <1>d, <1>e DEF S!Received
<1>5. B % R = (I + n) % R
  <2>1. I + n \in Int
    BY <1>1, <1>3
  <2> QED BY <1>1, <1>4, <2>1, HalfRemainder
<1>6. S!Received' = n + 1
  <2>a. PICK p : p = (B + 1) % m
    OBVIOUS
  <2>b. PICK w : w = B + 1
    OBVIOUS
  <2>1. w \in Int /\ w - I = y + 1 /\ -I \in Int /\ w + (-I) = w - I
    BY <1>1, <1>d, <2>b
  <2>2. p \in Int
    BY <1>1, <2>1, <2>a, <2>b
  <2>3. ((w % m) + (-I)) % m = (w + (-I)) % m
    BY <1>1, <2>1, SumRemainder
  <2>4. p + (-I) = p - I
    BY <1>1, <2>2
  <2>5. (p - I) % m = (y + 1) % m
    BY <2>1, <2>3, <2>4, <2>a, <2>b
  <2>6. ((y % m) + 1) % m = (y + 1) % m
    BY <1>1, SumRemainder
  <2>7. (n + 1) % m = n + 1
    BY <1>1, <1>3, OwnRemainder
  <2>8. S!Received' = (p - I) % m
    BY <1>2, <1>a, <2>a DEF S!Received
  <2> QED BY <1>4, <2>5, <2>6, <2>7, <2>8
<1>7. /\ \A i \in 0 .. (n - 1) : ReceiveBuffer[(I + i) % R] = (x + i) % C
      /\ (x + n) % C = z
  BY <1>c, <1>e, <1>f, <1>g, <1>h, <1>i DEF ReceiveInv, S!ReceiveOrderKept
<1>8. ASSUME NEW i \in 0 .. n
      PROVE  ReceiveBuffer'[(I + i) % R] = (x + i) % C
  <2>1. i \in Int /\ 0 <= i /\ i <= n
    BY <1>3
  <2>a. PICK q : q = (I + i) % R
    OBVIOUS
  <2>2. q \in 0 .. (R - 1)
    <3>1. I + i \in Int
      BY <1>1, <2>1
    <3> QED BY <1>1, <3>1, <2>a
  <2>3. ReceiveBuffer'[q] = IF q = B % R THEN z ELSE ReceiveBuffer[q]
    BY <1>2, <1>f, <2>2 DEF ReceiveInv
  <2>4. CASE i = n
    BY <1>5, <1>7, <2>3, <2>4, <2>a
  <2>5. CASE i < n
    <3>1. q # B % R
      BY <1>1, <1>3, <1>5, <2>1, <2>5, <2>a, PlacesDiffer
    <3>2. i \in 0 .. (n - 1)
      BY <1>3, <2>1, <2>5
    <3> QED BY <1>7, <2>3, <2>a, <3>1, <3>2
  <2> QED BY <1>3, <2>1, <2>4, <2>5
<1>9. (x + (n + 1)) % C = typed'
  <2>1. x + n \in Int /\ x + n + 1 = x + (n + 1)
    BY <1>1, <1>3
  <2>2. (((x + n) % C) + 1) % C = (x + n + 1) % C
    BY <1>1, <2>1, SumRemainder
  <2> QED BY <1>2, <1>7, <2>1, <2>2
<1>10. S!ReceiveOrderKept'
  <2>1. ASSUME NEW i \in 0 .. (S!Received' - 1)
        PROVE  ReceiveBuffer'[(ReceiveIndex' + i) % ReceiveSize] = (read' + i) % Characters
    <3>1. i \in 0 .. n
      BY <1>3, <1>6
    <3> QED BY <1>2, <1>8, <3>1, <1>f, <1>g
  <2>2. (read' + S!Received') % Characters = typed'
    BY <1>2, <1>6, <1>9, <1>g
  <2> QED BY <2>1, <2>2 DEF S!ReceiveOrderKept
<1>11. typed' \in 0 .. (C - 1)
  <2>1. C \in Int /\ C > 0 /\ z + 1 \in Int
    BY <1>1
  <2> QED BY <1>2, <2>1
<1>12. ReceiveBufferIndex' \in 0 .. (m - 1)
  <2>1. m \in Int /\ m > 0 /\ B + 1 \in Int
    BY <1>1
  <2> QED BY <1>2, <2>1
<1>13. ReceiveBuffer' \in [0 .. (R - 1) -> Int]
  BY <1>1, <1>2, <1>f DEF ReceiveInv
<1> QED BY <1>1, <1>2, <1>3, <1>6, <1>10, <1>11, <1>12, <1>13, <1>a, <1>c, <1>f, <1>g, <1>h
        DEF ReceiveInv

\* SerialReadData.
LEMMA ReadOrdered ==
  ASSUME ReceiveInv, S!ReadData
  PROVE  ReceiveInv'
<1>a. PICK m : m = 2 * ReceiveSize
  OBVIOUS
<1>b. PICK B : B = ReceiveBufferIndex
  OBVIOUS
<1>c. PICK I : I = ReceiveIndex
  OBVIOUS
<1>d. PICK y : y = B - I
  OBVIOUS
<1>e. PICK n : n = S!Received
  OBVIOUS
<1>f. PICK R : R = ReceiveSize
  OBVIOUS
<1>g. PICK C : C = Characters
  OBVIOUS
<1>h. PICK x : x = read
  OBVIOUS
<1>i. PICK z : z = typed
  OBVIOUS
<1>j. PICK J : J = (I + 1) % m
  OBVIOUS
<1>k. PICK v : v = I + 1
  OBVIOUS
<1>1. /\ R \in Nat \ {0} /\ m \in Nat \ {0} /\ m = 2 * R /\ C \in Nat \ {0} /\ 1 \in Int /\ -1 \in Int
      /\ B \in 0 .. (m - 1) /\ I \in 0 .. (m - 1) /\ I \in Int /\ B \in Int /\ y \in Int
      /\ x \in 0 .. (C - 1) /\ x \in Int /\ z \in Int /\ v \in Int
      /\ ReceiveRemaining \in 0 .. R /\ n = R - ReceiveRemaining
  BY <1>a, <1>b, <1>c, <1>d, <1>e, <1>f, <1>g, <1>h, <1>i, <1>k, PortAssumption DEF ReceiveInv
<1>2. /\ B # I
      /\ read' = (ReceiveBuffer[I % R] + 1) % C
      /\ ReceiveIndex' = J
      /\ ReceiveRemaining' = ReceiveRemaining + 1
      /\ ReceiveBuffer' = ReceiveBuffer /\ ReceiveBufferIndex' = B /\ typed' = z
  BY <1>a, <1>b, <1>c, <1>f, <1>g, <1>i, <1>j DEF S!ReadData, S!Successor
<1>3. B = (I + n) % m /\ n = y % m
  BY BufferIndexIs, <1>a, <1>b, <1>c, <1>d, <1>e DEF S!Received
<1>4. n # 0
  <2>1. ASSUME n = 0 PROVE FALSE
    <3>1. I + n = I
      BY <1>1, <2>1
    <3>2. I % m = I
      BY <1>1, OwnRemainder
    <3> QED BY <1>2, <1>3, <3>1, <3>2
  <2> QED BY <2>1
<1>5. /\ n \in Nat /\ n >= 1 /\ n \in Int /\ ReceiveRemaining' \in 0 .. R
      /\ n - 1 = R - ReceiveRemaining' /\ n - 1 \in 0 .. (m - 1)
  BY <1>1, <1>2, <1>4
<1>6. J \in 0 .. (m - 1) /\ J \in Int
  <2>1. m \in Int /\ m > 0
    BY <1>1
  <2>2. J \in 0 .. (m - 1)
    BY <1>1, <2>1, <1>j, <1>k
  <2> QED BY <2>1, <2>2
<1>7. S!Received' = n - 1
  <2>6. J = v % m
    BY <1>j, <1>k
  <2>1. (B - J) % m = (B - v) % m
    <3>1. m \in Nat \ {0} /\ v \in Int /\ B \in Int /\ J \in Int
      BY <1>1, <1>6
    <3> QED BY <3>1, <2>6, DifferenceRemainder
  <2>2. B - v = y - 1 /\ y + (-1) = y - 1 /\ n + (-1) = n - 1
    BY <1>1, <1>5, <1>d, <1>k
  <2>3. ((y % m) + (-1)) % m = (y + (-1)) % m
    BY <1>1, SumRemainder
  <2>4. (n - 1) % m = n - 1
    BY <1>1, <1>5, OwnRemainder
  <2>5. S!Received' = (B - J) % m
    BY <1>2, <1>a DEF S!Received
  <2>7. S!Received' = (y - 1) % m
    <3>2. (B - v) % m = (y - 1) % m
      BY <2>2
    <3> QED BY <2>1, <2>5, <3>2
  <2>8. (n + (-1)) % m = (y + (-1)) % m
    BY <1>3, <2>3
  <2>9. (n - 1) % m = (y - 1) % m
    BY <2>2, <2>8
  <2> QED BY <2>4, <2>7, <2>9
<1>8. /\ \A i \in 0 .. (n - 1) : ReceiveBuffer[(I + i) % R] = (x + i) % C
      /\ (x + n) % C = z
  BY <1>c, <1>e, <1>f, <1>g, <1>h, <1>i DEF ReceiveInv, S!ReceiveOrderKept
<1>9. read' = (x + 1) % C
  <2>1. 0 \in 0 .. (n - 1) /\ I + 0 = I /\ x + 0 = x
    BY <1>1, <1>5
  <2>2. x % C = x
    BY <1>1, OwnRemainder
  <2> QED BY <1>2, <1>8, <2>1, <2>2
<1>10. \A b \in Int : (read' + b) % C = (x + 1 + b) % C
  <2>1. x + 1 \in Int
    BY <1>1
  <2> QED BY <1>1, <1>9, <2>1, SumRemainder
<1>11. ASSUME NEW i \in 0 .. (n - 1 - 1)
       PROVE  ReceiveBuffer[(J + i) % R] = (read' + i) % C
  <2>a. PICK j : j = i + 1
    OBVIOUS
  <2>1. i \in Int /\ j \in 0 .. (n - 1) /\ v + i = I + j /\ x + 1 + i = x + j
        /\ J + i \in Int /\ v + i \in Int
    BY <1>1, <1>5, <1>6, <1>k, <2>a
  <2>2. ((v % m) + i) % m = (v + i) % m
    BY <1>1, <2>1, SumRemainder
  <2>3. ((J + i) % m) % R = (J + i) % R /\ ((v + i) % m) % R = (v + i) % R
    BY <1>1, <2>1, HalfRemainder
  <2>4. (J + i) % R = (I + j) % R
    BY <2>1, <2>2, <2>3, <1>j, <1>k
  <2> QED BY <1>8, <1>10, <2>1, <2>4
<1>12. (read' + (n - 1)) % C = z
  <2>1. n - 1 \in Int /\ x + 1 + (n - 1) = x + n
    BY <1>1, <1>5
  <2> QED BY <1>8, <1>10, <2>1
<1>13. S!ReceiveOrderKept'
  <2>1. ASSUME NEW i \in 0 .. (S!Received' - 1)
        PROVE  ReceiveBuffer'[(ReceiveIndex' + i) % ReceiveSize] = (read' + i) % Characters
    <3>1. i \in 0 .. (n - 1 - 1)
      BY <1>7
    <3> QED BY <1>2, <1>11, <3>1, <1>f, <1>g
  <2>2. (read' + S!Received') % Characters = typed'
    BY <1>2, <1>7, <1>12, <1>g
  <2> QED BY <2>1, <2>2 DEF S!ReceiveOrderKept
<1>14. read' \in 0 .. (C - 1)
  <2>1. C \in Int /\ C > 0 /\ x + 1 \in Int
    BY <1>1
  <2> QED BY <1>9, <2>1
<1> QED BY <1>1, <1>2, <1>5, <1>6, <1>7, <1>13, <1>14, <1>a, <1>b, <1>f, <1>g, <1>i
        DEF ReceiveInv

\* The reception begins with nothing typed.
LEMMA ReceiveStarts ==
  ASSUME S!ReceiveInit
  PROVE  ReceiveInv
<1>1. /\ ReceiveSize \in Nat \ {0} /\ Characters \in Nat \ {0} /\ 2 * ReceiveSize \in Nat \ {0}
      /\ 0 \in 0 .. (2 * ReceiveSize - 1) /\ 0 \in 0 .. (Characters - 1)
  BY PortAssumption
<1>2. /\ ReceiveBuffer = [i \in 0 .. (ReceiveSize - 1) |-> 0]
      /\ ReceiveBufferIndex = 0 /\ ReceiveIndex = 0 /\ ReceiveRemaining = ReceiveSize
      /\ typed = 0 /\ read = 0
  BY DEF S!ReceiveInit
<1>3. 0 % (2 * ReceiveSize) = 0 /\ 0 % Characters = 0
  BY <1>1, OwnRemainder
<1>4. S!Received = 0
  <2>1. 0 - 0 = 0
    OBVIOUS
  <2> QED BY <1>2, <1>3, <2>1 DEF S!Received
<1>5. (read + S!Received) % Characters = typed
  <2>1. read + S!Received = 0
    BY <1>2, <1>4
  <2> QED BY <1>2, <1>3, <2>1
<1>6. S!ReceiveOrderKept
  <2>1. 0 .. (S!Received - 1) = {}
    BY <1>4
  <2> QED BY <1>5, <2>1 DEF S!ReceiveOrderKept
<1> QED BY <1>1, <1>2, <1>4, <1>6 DEF ReceiveInv

\* What is written while the port is not busy comes to the terminal, and what is typed to the
\* driver, all of it and in order, for FIFOs of any size, whatever the timeslices and however
\* many threads send.
THEOREM CharactersInOrder == BSpec => []OrderKept
<1> DEFINE I == /\ part = "transmission" => TransmitInv
                /\ part = "reception" => ReceiveInv
<1>1. BInit => I
  BY TransmitStarts, ReceiveStarts DEF BInit
<1>2. I /\ [BNext]_bvars => I'
  <2>1. ASSUME I, [BNext]_bvars, part' = "transmission" PROVE TransmitInv'
    <3>1. CASE UNCHANGED <<part, transmission>>
      BY <2>1, <3>1 DEF transmission, TransmitInv, S!TransmitOrderKept, S!Waiting
    <3>2. CASE OfTransmission /\ S!Transmit
      BY <2>1, <3>2, TransmitOrdered DEF OfTransmission, Of
    <3>3. BNext => (OfTransmission /\ S!Transmit) \/ UNCHANGED <<part, transmission>>
      BY DEF BNext, OfDisks, OfTransmission, OfReception, OfTerminal, OfKeyboard, Of
    <3> QED BY <2>1, <3>1, <3>2, <3>3 DEF bvars
  <2>2. ASSUME I, [BNext]_bvars, part' = "reception" PROVE ReceiveInv'
    <3>1. CASE UNCHANGED <<part, reception>>
      BY <2>2, <3>1 DEF reception, ReceiveInv, S!ReceiveOrderKept, S!Received
    <3>2. CASE OfReception /\ S!Receive
      BY <2>2, <3>2, InputOrdered, ReadOrdered DEF OfReception, Of, S!Receive
    <3>3. BNext => (OfReception /\ S!Receive) \/ UNCHANGED <<part, reception>>
      BY DEF BNext, OfDisks, OfTransmission, OfReception, OfTerminal, OfKeyboard, Of
    <3> QED BY <2>2, <3>1, <3>2, <3>3 DEF bvars
  <2> QED BY <2>1, <2>2
<1>3. I => OrderKept
  BY DEF OrderKept, TransmitOrderKept, ReceiveOrderKept, TransmitInv, ReceiveInv
<1> HIDE DEF I
<1> QED BY <1>1, <1>2, <1>3, PTL DEF BSpec
=============================================================================
