------------------------------ MODULE Scheduler ------------------------------
(***************************************************************************)
(* The work scheduler of scheduler.c with its users.  Host threads run     *)
(* schedulables: a processor executes while it has timeslice left, a disk  *)
(* or a serial port spends its own on the operation a processor started.   *)
(* Each frame the main thread hands out timeslice to what is on the next   *)
(* frame list and puts it on the work list.                                *)
(*                                                                         *)
(* The two lists have locks, and an operation on one is a step.  A chain   *)
(* (thread->Next, linked through work->Next) has none: only its thread is  *)
(* meant to touch it.  Every read and write of a chain is a step, and so   *)
(* is every access to Enqueued that another thread could come between.     *)
(*                                                                         *)
(* What a processor executes and what a device transfers is reduced to how *)
(* much timeslice it spends and what it schedules next.                    *)
(***************************************************************************)
EXTENDS Integers, SequencesExt

CONSTANTS
  Threads,   \* XrSchedulingThreadTable
  Cpus,      \* schedulables of processors
  Disks,     \* schedulables of disks
  Ports,     \* schedulables of serial ports
  None,      \* the null pointer
  MaxDt,     \* bound: milliseconds of a frame
  StepMs     \* XR_STEP_MS

Devices == Disks \cup Ports
Work == Cpus \cup Devices

ASSUME WorkAssumption ==
  /\ None \notin Threads \cup Work
  /\ Cpus \cap Devices = {} /\ Disks \cap Ports = {}
  /\ MaxDt \in Nat /\ StepMs \in Nat \ {0}

\* The lock of a device: ControllerMutex, or Mutex of the port's Tty.
LockOf(d) == IF d \in Disks THEN "ControllerMutex" ELSE d
Locks == {LockOf(d) : d \in Devices}

VARIABLES
  XrSchedulerWorkList, XrSchedulerNextFrameList,  \* sequences of schedulables
  XrSchedulerSemaphore,
  ThreadNext,                                     \* [Threads -> Work or None]
  WorkNext, PreferredThread, Enqueued, Timeslice, \* [Work -> ...]
  CyclesThisRound,   \* [Cpus -> BOOLEAN]: part of a millisecond was executed
  Busy,              \* [Devices -> BOOLEAN]: DKSStatus bit; port->Enqueued
  DeviceLock,        \* [Locks -> thread]
  thread,            \* [Threads -> locals of XrSchedulerLoop and Func]
  main               \* locals of XrScheduleAllNextFrameWork

lists == <<XrSchedulerWorkList, XrSchedulerNextFrameList, XrSchedulerSemaphore>>
chains == <<ThreadNext, WorkNext, PreferredThread>>
slices == <<Timeslice, CyclesThisRound>>
devices == <<Busy, DeviceLock>>
vars == <<lists, chains, Enqueued, slices, devices, thread, main>>

\* work, next, timeslice: as in the code.  linking: what XrScheduleWorkForMe is
\* entering in the chain.
IdleThread == [pc |-> "fetch", work |-> None, next |-> None, timeslice |-> 0,
               linking |-> None]
\* frame: what is left of list, for the loop that main is in.

\* XrInitializeProcessors leaves every processor on the next frame list.
Init ==
  /\ XrSchedulerWorkList = <<>>
  /\ XrSchedulerNextFrameList \in SetToSeqs(Cpus)
  /\ XrSchedulerSemaphore = 0
  /\ ThreadNext = [t \in Threads |-> None]
  /\ WorkNext = [w \in Work |-> None]
  /\ PreferredThread = [w \in Work |-> None]
  /\ Enqueued = [w \in Work |-> w \in Cpus]
  /\ Timeslice = [w \in Work |-> 0]
  /\ CyclesThisRound = [c \in Cpus |-> FALSE]
  /\ Busy = [d \in Devices |-> FALSE]
  /\ DeviceLock = [k \in Locks |-> None]
  /\ thread = [t \in Threads |-> IdleThread]
  /\ main = [pc |-> "collect", frame |-> <<>>, todo |-> <<>>, dt |-> 0]
-----------------------------------------------------------------------------
At(t, label) == thread[t].pc = label
Mine(t) == thread[t].work
Goto(t, label) == thread' = [thread EXCEPT ![t].pc = label]

\* The end of Func: on to the next schedulable of the chain that was taken.
Finish(t) ==
  thread' = [thread EXCEPT ![t] =
    [IdleThread EXCEPT !.pc = IF thread[t].next = None THEN "fetch" ELSE "dequeued",
                       !.work = thread[t].next]]

\* XrScheduleWorkForNextFrame.
ForNextFrame(w, front) ==
  IF Enqueued[w] THEN UNCHANGED <<Enqueued, XrSchedulerNextFrameList>>
  ELSE /\ Enqueued' = [Enqueued EXCEPT ![w] = TRUE]
       /\ XrSchedulerNextFrameList' =
            IF front THEN <<w>> \o XrSchedulerNextFrameList
            ELSE Append(XrSchedulerNextFrameList, w)

\* Mutation: the chain that the work is entered in is not kept.
ForMeDropsChain(t, w) ==
  /\ ~Enqueued[w]
  /\ Enqueued' = [Enqueued EXCEPT ![w] = TRUE]
  /\ WorkNext' = [WorkNext EXCEPT ![w] = None]

\* XrScheduleWorkForMe, up to reading the chain it enters w in: that of the thread
\* the running schedulable prefers.  Work already enqueued is left where it is,
\* which no caller ever finds (OnePlace).
ForMe(t, w) ==
  /\ ~Enqueued[w]
  /\ Enqueued' = [Enqueued EXCEPT ![w] = TRUE]
  /\ WorkNext' = [WorkNext EXCEPT ![w] = ThreadNext[PreferredThread[Mine(t)]]]

InsertWork(w) == XrSchedulerWorkList' = Append(XrSchedulerWorkList, w)
\* Mutation: the semaphore is binary.
PostWorkOnce ==
  XrSchedulerSemaphore' = IF XrSchedulerSemaphore = 0 THEN 1 ELSE XrSchedulerSemaphore
PostWork == XrSchedulerSemaphore' = XrSchedulerSemaphore + 1
-----------------------------------------------------------------------------
(* XrSchedulerLoop and XrPopSchedulerWork.                                 *)

\* work = thread->Next.
FetchChain(t) ==
  /\ At(t, "fetch")
  /\ thread' = [thread EXCEPT ![t].pc = "clear", ![t].work = ThreadNext[t]]
  /\ UNCHANGED <<lists, chains, Enqueued, slices, devices, main>>

\* thread->Next = 0.
ClearChain(t) ==
  /\ At(t, "clear")
  /\ ThreadNext' = [ThreadNext EXCEPT ![t] = None]
  /\ Goto(t, IF Mine(t) = None THEN "wait" ELSE "dequeued")
  /\ UNCHANGED <<lists, WorkNext, PreferredThread, Enqueued, slices, devices, main>>

WaitForWork(t) ==
  /\ At(t, "wait")
  /\ XrSchedulerSemaphore > 0
  /\ XrSchedulerSemaphore' = XrSchedulerSemaphore - 1
  /\ Goto(t, "pop")
  /\ UNCHANGED <<XrSchedulerWorkList, XrSchedulerNextFrameList, chains, Enqueued, slices,
                 devices, main>>

\* Mutation: a preferred thread once chosen is kept.
PopWorkKeepsPreference(t) ==
  /\ At(t, "pop")
  /\ XrSchedulerWorkList # <<>>
  /\ XrSchedulerWorkList' = Tail(XrSchedulerWorkList)
  /\ PreferredThread' = [PreferredThread EXCEPT ![Head(XrSchedulerWorkList)] =
                           IF @ = None THEN t ELSE @]
  /\ thread' = [thread EXCEPT ![t].pc = "dequeued", ![t].work = Head(XrSchedulerWorkList)]
  /\ UNCHANGED <<XrSchedulerNextFrameList, XrSchedulerSemaphore, ThreadNext, WorkNext, Enqueued,
                 slices, devices, main>>

PopWork(t) ==
  /\ At(t, "pop")
  /\ IF XrSchedulerWorkList = <<>>
     THEN Goto(t, "wait") /\ UNCHANGED <<XrSchedulerWorkList, PreferredThread>>
     ELSE /\ XrSchedulerWorkList' = Tail(XrSchedulerWorkList)
          /\ PreferredThread' = [PreferredThread EXCEPT ![Head(XrSchedulerWorkList)] = t]
          /\ thread' = [thread EXCEPT ![t].pc = "dequeued",
                                      ![t].work = Head(XrSchedulerWorkList)]
  /\ UNCHANGED <<XrSchedulerNextFrameList, XrSchedulerSemaphore, ThreadNext, WorkNext, Enqueued,
                 slices, devices, main>>

\* work->Enqueued = 0.
Dequeue(t) ==
  /\ At(t, "dequeued")
  /\ Enqueued' = [Enqueued EXCEPT ![Mine(t)] = FALSE]
  /\ Goto(t, "unlink")
  /\ UNCHANGED <<lists, chains, slices, devices, main>>

\* next = work->Next; work->Next = 0.  Func starts by reading the timeslice.
Unlink(t) ==
  /\ At(t, "unlink")
  /\ WorkNext' = [WorkNext EXCEPT ![Mine(t)] = None]
  /\ thread' = [thread EXCEPT ![t].pc = "func", ![t].next = WorkNext[Mine(t)],
                              ![t].timeslice = Timeslice[Mine(t)]]
  /\ UNCHANGED <<lists, ThreadNext, PreferredThread, Enqueued, slices, devices, main>>

\* The end of XrScheduleWorkForMe: the chain begins with the work entered.  A
\* processor goes on, or ends its turn if it entered itself; a device is unlocked.
Link(t) ==
  LET w == thread[t].linking IN
  /\ At(t, "link")
  /\ ThreadNext' = [ThreadNext EXCEPT ![PreferredThread[Mine(t)]] = w]
  /\ IF w \in Devices THEN DeviceLock' = [DeviceLock EXCEPT ![LockOf(w)] = None]
     ELSE UNCHANGED DeviceLock
  /\ IF w = Mine(t) /\ w \in Cpus THEN Finish(t)
     ELSE thread' = [thread EXCEPT ![t].linking = None,
                                   ![t].pc = IF w = Mine(t) THEN "late" ELSE "func"]
  /\ UNCHANGED <<lists, WorkNext, PreferredThread, Enqueued, slices, Busy, main>>
-----------------------------------------------------------------------------
(* XrProcessorSchedule.                                                    *)

\* The processor starts an operation on an idle device (DKSDispatchIO,
\* SerialWriteData), which is scheduled to run after it on its thread.
StartDevice(t, d) ==
  /\ At(t, "func") /\ Mine(t) \in Cpus /\ thread[t].timeslice > 0
  /\ DeviceLock[LockOf(d)] = None
  /\ ~Busy[d]
  /\ DeviceLock' = [DeviceLock EXCEPT ![LockOf(d)] = t]
  /\ Busy' = [Busy EXCEPT ![d] = TRUE]
  /\ ForMe(t, d)
  /\ thread' = [thread EXCEPT ![t].pc = "link", ![t].linking = d]
  /\ UNCHANGED <<lists, ThreadNext, PreferredThread, slices, main>>

\* Mutation: a halted processor is not charged.
ExecuteFree(t, rest) ==
  LET c == Mine(t) IN
  /\ At(t, "func") /\ c \in Cpus
  /\ UNCHANGED CyclesThisRound
  /\ Timeslice' = [Timeslice EXCEPT ![c] = rest]

\* Executing spends milliseconds, or a first part of one; a processor with no
\* timeslice does not execute.
Execute(t, rest) ==
  LET c == Mine(t)   timeslice == thread[t].timeslice IN
  /\ At(t, "func") /\ c \in Cpus
  /\ rest = timeslice /\ rest > 0 => ~CyclesThisRound[c]
  /\ CyclesThisRound' = [CyclesThisRound EXCEPT ![c] = rest = timeslice /\ rest > 0]
  /\ Timeslice' = [Timeslice EXCEPT ![c] = rest]

\* No timeslice is left: the processor waits for the next frame.
CpuFrameDone(t) ==
  /\ Execute(t, 0)
  /\ ForNextFrame(Mine(t), FALSE)
  /\ Finish(t)
  /\ UNCHANGED <<XrSchedulerWorkList, XrSchedulerSemaphore, chains, devices, main>>

\* It halted: it is polled again on this thread.
CpuHalted(t) ==
  /\ \E rest \in 1 .. thread[t].timeslice : Execute(t, rest)
  /\ ForMe(t, Mine(t))
  /\ thread' = [thread EXCEPT ![t].pc = "link", ![t].linking = Mine(t)]
  /\ UNCHANGED <<lists, ThreadNext, PreferredThread, devices, main>>

\* It paused, or polled too often: any thread may continue it.
CpuPaused(t) ==
  /\ \E rest \in 1 .. thread[t].timeslice : Execute(t, rest)
  /\ ~Enqueued[Mine(t)]
  /\ Enqueued' = [Enqueued EXCEPT ![Mine(t)] = TRUE]
  /\ Goto(t, "insert")
  /\ UNCHANGED <<lists, chains, devices, main>>

\* XrScheduleWorkForAny: the list and the semaphore.
InsertPaused(t) ==
  /\ At(t, "insert")
  /\ InsertWork(Mine(t))
  /\ Goto(t, "post")
  /\ UNCHANGED <<XrSchedulerNextFrameList, XrSchedulerSemaphore, chains, Enqueued, slices,
                 devices, main>>

PostPaused(t) ==
  /\ At(t, "post")
  /\ PostWork
  /\ Finish(t)
  /\ UNCHANGED <<XrSchedulerWorkList, XrSchedulerNextFrameList, chains, Enqueued, slices,
                 devices, main>>
-----------------------------------------------------------------------------
(* DKSSchedule and SerialSchedule.                                         *)

\* With its lock free a device in operation looks at its timeslice.
Operating(t) ==
  /\ At(t, "func") /\ Mine(t) \in Devices
  /\ DeviceLock[LockOf(Mine(t))] = None
  /\ Busy[Mine(t)]

\* After the unlock, what is left is yet to be written back.
WriteLate(t, rest) == thread' = [thread EXCEPT ![t].pc = "late", ![t].timeslice = rest]

\* The timeslice is enough, and some may be left: the operation completes.  (A
\* disk without seek times completes inside StartDevice and is never scheduled.)
DeviceDone(t) ==
  /\ Operating(t)
  /\ Busy' = [Busy EXCEPT ![Mine(t)] = FALSE]
  /\ \E rest \in 0 .. Timeslice[Mine(t)] - 1 : WriteLate(t, rest)
  /\ UNCHANGED <<lists, chains, Enqueued, slices, DeviceLock, main>>

\* It is not: the device goes on first thing in the next frame.
DeviceFrameDone(t) ==
  /\ Operating(t)
  /\ ForNextFrame(Mine(t), TRUE)
  /\ WriteLate(t, 0)
  /\ UNCHANGED <<XrSchedulerWorkList, XrSchedulerSemaphore, chains, slices, devices, main>>

\* A port has sent CHARS_PER_SCHEDULE characters, or worked off its cost.
PortContinues(t) ==
  /\ Operating(t) /\ Mine(t) \in Ports
  /\ Timeslice[Mine(t)] > 1
  /\ ForMe(t, Mine(t))
  /\ DeviceLock' = [DeviceLock EXCEPT ![LockOf(Mine(t))] = t]
  /\ \E rest \in 1 .. Timeslice[Mine(t)] - 1 :
       thread' = [thread EXCEPT ![t].pc = "link", ![t].linking = Mine(t),
                                ![t].timeslice = rest]
  /\ UNCHANGED <<lists, ThreadNext, PreferredThread, slices, Busy, main>>

\* schedulable->Timeslice = timeslice, with the lock released.
WriteTimeslice(t) ==
  /\ At(t, "late")
  /\ Timeslice' = [Timeslice EXCEPT ![Mine(t)] = thread[t].timeslice]
  /\ Finish(t)
  /\ UNCHANGED <<lists, chains, Enqueued, CyclesThisRound, devices, main>>
-----------------------------------------------------------------------------
(* XrScheduleAllNextFrameWork.                                             *)

MainAt(label) == main.pc = label

\* The next frame list moves to a list of its own.
Collect ==
  /\ MainAt("collect")
  /\ XrSchedulerNextFrameList # <<>>
  /\ \E dt \in 0 .. MaxDt :
       main' = [pc |-> "start", frame |-> XrSchedulerNextFrameList,
                todo |-> XrSchedulerNextFrameList, dt |-> dt]
  /\ XrSchedulerNextFrameList' = <<>>
  /\ UNCHANGED <<XrSchedulerWorkList, XrSchedulerSemaphore, chains, Enqueued, slices,
                 devices, thread>>

\* XrProcessorStartTimeslice adds to what is left, up to a limit;
\* DKSStartTimeslice and SerialStartTimeslice overwrite it.
StartTimeslice ==
  LET w == Head(main.todo) IN
  /\ MainAt("start")
  /\ IF w \in Cpus
     THEN /\ Timeslice' = [Timeslice EXCEPT ![w] =
                             IF @ + main.dt >= StepMs * 50 THEN StepMs ELSE @ + main.dt]
          /\ CyclesThisRound' = [CyclesThisRound EXCEPT ![w] = FALSE]
     ELSE Timeslice' = [Timeslice EXCEPT ![w] = main.dt] /\ UNCHANGED CyclesThisRound
  /\ main' = IF Len(main.todo) > 1 THEN [main EXCEPT !.todo = Tail(@)]
             ELSE [main EXCEPT !.pc = "enqueue", !.todo = main.frame]
  /\ UNCHANGED <<lists, chains, Enqueued, devices, thread>>

\* On to the rest of the frame.
NextOfFrame ==
  main' = [main EXCEPT !.pc = IF Len(main.todo) > 1 THEN "enqueue" ELSE "collect",
                       !.todo = Tail(@),
                       !.frame = IF Len(main.todo) > 1 THEN @ ELSE <<>>,
                       !.dt = IF Len(main.todo) > 1 THEN @ ELSE 0]

\* work->Enqueued = 0.
ResetEnqueued ==
  /\ MainAt("enqueue")
  /\ Enqueued' = [Enqueued EXCEPT ![Head(main.todo)] = FALSE]
  /\ main' = [main EXCEPT !.pc = "any"]
  /\ UNCHANGED <<lists, chains, slices, devices, thread>>

\* XrScheduleWorkForAny: the test, the list and the semaphore.
TestEnqueued ==
  /\ MainAt("any")
  /\ IF Enqueued[Head(main.todo)] THEN NextOfFrame /\ UNCHANGED Enqueued
     ELSE /\ Enqueued' = [Enqueued EXCEPT ![Head(main.todo)] = TRUE]
          /\ main' = [main EXCEPT !.pc = "insert"]
  /\ UNCHANGED <<lists, chains, slices, devices, thread>>

InsertFrame ==
  /\ MainAt("insert")
  /\ InsertWork(Head(main.todo))
  /\ main' = [main EXCEPT !.pc = "post"]
  /\ UNCHANGED <<XrSchedulerNextFrameList, XrSchedulerSemaphore, chains, Enqueued, slices,
                 devices, thread>>

PostFrame ==
  /\ MainAt("post")
  /\ PostWork
  /\ NextOfFrame
  /\ UNCHANGED <<XrSchedulerWorkList, XrSchedulerNextFrameList, chains, Enqueued, slices,
                 devices, thread>>
-----------------------------------------------------------------------------
Loop(t) ==
  \/ FetchChain(t) \/ ClearChain(t) \/ WaitForWork(t) \/ PopWork(t)
  \/ Dequeue(t) \/ Unlink(t) \/ Link(t)
  \/ CpuFrameDone(t) \/ CpuHalted(t) \/ CpuPaused(t) \/ InsertPaused(t) \/ PostPaused(t)
  \/ \E d \in Devices : StartDevice(t, d)
  \/ DeviceDone(t) \/ DeviceFrameDone(t) \/ PortContinues(t) \/ WriteTimeslice(t)

MainLoop ==
  Collect \/ StartTimeslice \/ ResetEnqueued \/ TestEnqueued \/ InsertFrame \/ PostFrame

Next == MainLoop \/ \E t \in Threads : Loop(t)

Spec == Init /\ [][Next]_vars

\* The main thread and the host threads keep running.
FairSpec == Spec /\ WF_vars(MainLoop) /\ \A t \in Threads : WF_vars(Loop(t))
-----------------------------------------------------------------------------
(* What the scheduler promises.                                            *)

\* What main has yet to put on the work list.
Collected ==
  CASE main.pc \in {"collect", "start"} -> main.frame
    [] main.pc \in {"enqueue", "any", "insert"} -> main.todo
    [] OTHER -> Tail(main.todo)

\* The references through which a schedulable can still be reached: places on
\* lists, links of chains, and threads that have it in hand.
Places(list, w) == {i \in DOMAIN list : list[i] = w}
Holders(w) ==
  ({"work list"} \X Places(XrSchedulerWorkList, w))
    \cup ({"next frame list"} \X Places(XrSchedulerNextFrameList, w))
    \cup ({"main"} \X Places(Collected, w))
    \cup ({"chain"} \X {t \in Threads : ThreadNext[t] = w /\ ~At(t, "clear")})
    \cup ({"link"} \X {v \in Work : /\ WorkNext[v] = w
                                   /\ \A t \in Threads : thread[t].linking # v})
    \cup ({"next"} \X {t \in Threads : thread[t].next = w})
    \cup ({"running"} \X {t \in Threads : /\ w \in {Mine(t), thread[t].linking}
                                         /\ thread[t].pc \notin {"post", "late"}})

\* Whatever is to run is in one place: a processor always, a device from the
\* start of an operation to its end.  A schedulable on two lists would run twice
\* at once and break both lists, whose links are in the schedulable; one on none
\* would never run again, and so would an idle device still marked Enqueued.
OnePlace ==
  /\ \A w \in Work :
       Cardinality(Holders(w)) = IF w \in Cpus \/ Busy[w] THEN 1 ELSE 0
  /\ \A d \in Devices : Enqueued[d] => Busy[d]

\* A chain, which has no lock, is entered by its own thread only.
OwnChain == \A t \in Threads : At(t, "link") => PreferredThread[Mine(t)] = t

\* The semaphore counts the work that no thread was woken for yet: no thread finds
\* the list empty when it is let in, or sleeps while there is work.
WorkIsPosted ==
  Len(XrSchedulerWorkList) =
    XrSchedulerSemaphore + Cardinality({t \in Threads : thread[t].pc \in {"pop", "post"}})
      + IF MainAt("post") THEN 1 ELSE 0

\* "Execute CPU time ... until all timeslices have run down" (scheduler.c:110): no
\* processor is dropped while it has timeslice left.
CpuKept == \A c \in Cpus : Timeslice[c] > 0 => Holders(c) # {}

\* Every processor uses its timeslice up and gets to the next frame, again and
\* again, whatever halts, pauses and device operations the others go through.
FramesEnd == \A c \in Cpus : []<>(\E i \in DOMAIN XrSchedulerNextFrameList :
                                      XrSchedulerNextFrameList[i] = c)
=============================================================================
