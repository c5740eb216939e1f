------------------------------- MODULE Serial -------------------------------
(***************************************************************************)
(* A serial port, serial.c: a driver on the processors writes and reads    *)
(* characters; transmitted ones are put on the terminal at once as long as *)
(* their time has not added up, and wait in a FIFO for the port's          *)
(* schedulable otherwise.  The host's input fills a second FIFO.           *)
(*                                                                         *)
(* Every handler holds the terminal's mutex and is one step, but for the   *)
(* timeslice, which SerialSchedule reads before the lock and writes back   *)
(* after the unlock.  The lists that the schedulable is on are those of    *)
(* Dks.  The interrupts of the port and the files that may stand for its   *)
(* line are left out.                                                      *)
(*                                                                         *)
(* A character is its number in what was written or typed, modulo          *)
(* Characters.                                                             *)
(***************************************************************************)
EXTENDS Integers, Sequences

CONSTANTS
  Threads,             \* scheduler threads
  TransmitSize,        \* TRANSMIT_BUFFER_SIZE
  ReceiveSize,         \* RECEIVE_BUFFER_SIZE
  AccumulatedCost,     \* ACCUMULATED_COST
  CharsPerSchedule,    \* CHARS_PER_SCHEDULE
  SerialAsynchronous,
  FrameTimes,          \* what a frame may take, in milliseconds
  Ints,                \* 2^32: number of values of an int
  Characters           \* bound: more than either FIFO holds

VARIABLES
  TransmitBuffer,      \* its first TransmitBufferIndex characters
  SendIndex, Cost, WriteBusy, Enqueued,
  queue,               \* the schedulable is on "none", "queued" or "next"
  Timeslice,
  call,                \* [Threads -> its call of SerialSchedule]
  driver,              \* "ready": the driver has seen that the port is not busy
  written,             \* history: the next character to write
  shown                \* history: the next character to come to the terminal
VARIABLES
  ReceiveBuffer, ReceiveBufferIndex, ReceiveIndex,  \* the indices modulo twice the size
  ReceiveRemaining,
  typed,               \* history: the next character to be taken from the host
  read                 \* history: the next character to be read

fifo == <<TransmitBuffer, SendIndex, Cost, WriteBusy, Enqueued, shown>>
scheduling == <<queue, Timeslice, call>>

\* Late stores of a timeslice can add up: see Send.
Wrap(time) == ((time + Ints \div 2) % Ints) - Ints \div 2

NoCall == [at |-> "none", timeslice |-> 0]
Successor(c) == (c + 1) % Characters

TransmitInit ==
  /\ TransmitBuffer = <<>> /\ SendIndex = 0 /\ Cost = 0
  /\ WriteBusy = FALSE /\ Enqueued = FALSE
  /\ queue = "none" /\ Timeslice = 0 /\ call = [t \in Threads |-> NoCall]
  /\ driver = "idle" /\ written = 0 /\ shown = 0

ReceiveInit ==
  /\ ReceiveBuffer = [i \in 0 .. (ReceiveSize - 1) |-> 0]
  /\ ReceiveBufferIndex = 0 /\ ReceiveIndex = 0 /\ ReceiveRemaining = ReceiveSize
  /\ typed = 0 /\ read = 0
-----------------------------------------------------------------------------
(* Transmission.                                                           *)

\* SerialReadCMD: the driver polls until the port is not busy.
ReadCMD ==
  /\ driver = "idle"
  /\ driver' = IF WriteBusy THEN "idle" ELSE "ready"
  /\ UNCHANGED <<fifo, scheduling, written>>

\* XrScheduleWorkForMe and XrScheduleWorkForNextFrame: not if it is on a list.
Enqueue(list) == queue' = IF queue = "none" THEN list ELSE queue

\* Mutation: a character may overtake those in the FIFO.
PutsAtOnceUnordered == ~SerialAsynchronous \/ Cost < AccumulatedCost

PutsAtOnce ==
  /\ ~SerialAsynchronous \/ Cost < AccumulatedCost
  /\ TransmitBuffer = <<>>

\* SerialWriteData: the character goes to the terminal,
PutDirectly ==
  /\ PutsAtOnce
  /\ shown' = Successor(written)
  /\ Cost' = IF SerialAsynchronous THEN Cost + 1 ELSE Cost
  /\ UNCHANGED <<TransmitBuffer, SendIndex, WriteBusy, Enqueued, scheduling>>

\* is dropped,
Drop ==
  /\ ~PutsAtOnce
  /\ Len(TransmitBuffer) = TransmitSize
  /\ UNCHANGED <<fifo, scheduling>>

\* or goes to the FIFO, and the port is scheduled.
Buffer ==
  /\ ~PutsAtOnce
  /\ Len(TransmitBuffer) # TransmitSize
  /\ TransmitBuffer' = Append(TransmitBuffer, written)
  /\ WriteBusy' = (WriteBusy \/ Len(TransmitBuffer') = TransmitSize)
  /\ Enqueued' = TRUE
  /\ IF Enqueued THEN UNCHANGED queue ELSE Enqueue("queued")
  /\ UNCHANGED <<SendIndex, Cost, shown, Timeslice, call>>

WriteData ==
  /\ driver = "ready" /\ driver' = "idle"
  /\ written' = Successor(written)
  /\ PutDirectly \/ Drop \/ Buffer

\* The scheduler calls SerialSchedule, which reads the timeslice before the lock.
Enter(t) ==
  /\ call[t] = NoCall
  /\ queue = "queued" /\ queue' = "none"
  /\ call' = [call EXCEPT ![t] = [at |-> "entered", timeslice |-> Timeslice]]
  /\ UNCHANGED <<fifo, Timeslice, driver, written>>

\* Mutation: the port is not scheduled again for what is in the FIFO.
LeaveForgets(t, timeslice) ==
  LET more == Cost' # 0 IN
  /\ IF more THEN Enqueue(IF timeslice = 0 THEN "next" ELSE "queued") ELSE UNCHANGED queue
  /\ Enqueued' = (Enqueued /\ more)
  /\ call' = [call EXCEPT ![t] = [at |-> "left", timeslice |-> timeslice]]

\* The end of SerialSchedule: while there is time to pay or a character to send the port is
\* scheduled again.
Leave(t, timeslice) ==
  LET more == Cost' # 0 \/ Len(TransmitBuffer') # SendIndex' IN
  /\ IF more THEN Enqueue(IF timeslice = 0 THEN "next" ELSE "queued") ELSE UNCHANGED queue
  /\ Enqueued' = (Enqueued /\ more)
  /\ call' = [call EXCEPT ![t] = [at |-> "left", timeslice |-> timeslice]]

\* It pays for what was put directly,
Pay(t) ==
  LET timeslice == call[t].timeslice
      enough == Cost < timeslice
  IN  /\ call[t].at = "entered" /\ Cost # 0
      /\ Cost' = IF enough THEN 0 ELSE Wrap(Cost - timeslice)
      /\ UNCHANGED <<TransmitBuffer, SendIndex, WriteBusy, shown, Timeslice, driver, written>>
      /\ Leave(t, IF enough THEN Wrap(timeslice - Cost) ELSE 0)

Least(S) == CHOOSE n \in S : \A m \in S : n <= m

\* or sends characters, one per millisecond of the timeslice, which it reads again and
\* another thread may have stored meanwhile, so that what is left may be negative.  A FIFO
\* that is drained starts over.
Send(t) ==
  LET pending == Least({Len(TransmitBuffer) - SendIndex, Timeslice, CharsPerSchedule})
      end == IF pending > 0 THEN SendIndex + pending ELSE SendIndex
      drained == pending > 0 /\ end = Len(TransmitBuffer)
  IN  /\ call[t].at = "entered" /\ Cost = 0
      /\ shown' = IF pending > 0 THEN Successor(TransmitBuffer[end]) ELSE shown
      /\ TransmitBuffer' = IF drained THEN <<>> ELSE TransmitBuffer
      /\ SendIndex' = IF drained THEN 0 ELSE end
      /\ WriteBusy' = (WriteBusy /\ ~drained)
      /\ UNCHANGED <<Cost, Timeslice, driver, written>>
      /\ Leave(t, Wrap(call[t].timeslice - pending))

\* After the unlock.
WriteTimeslice(t) ==
  /\ call[t].at = "left"
  /\ Timeslice' = call[t].timeslice
  /\ call' = [call EXCEPT ![t] = NoCall]
  /\ UNCHANGED <<fifo, queue, driver, written>>

\* SerialStartTimeslice, and the work list.
Frame(dt) ==
  /\ queue = "next" /\ queue' = "queued"
  /\ Timeslice' = dt
  /\ UNCHANGED <<fifo, call, driver, written>>

Schedule(t) == Enter(t) \/ Pay(t) \/ Send(t) \/ WriteTimeslice(t)

Transmit ==
  \/ ReadCMD \/ WriteData
  \/ \E t \in Threads : Schedule(t)
  \/ \E dt \in FrameTimes : Frame(dt)
-----------------------------------------------------------------------------
(* Reception.                                                              *)

\* SerialInput of a character for which there is room.
SerialInput ==
  /\ ReceiveRemaining # 0
  /\ ReceiveBuffer' = [ReceiveBuffer EXCEPT ![ReceiveBufferIndex % ReceiveSize] = typed]
  /\ ReceiveBufferIndex' = (ReceiveBufferIndex + 1) % (2 * ReceiveSize)
  /\ ReceiveRemaining' = ReceiveRemaining - 1
  /\ typed' = Successor(typed)
  /\ UNCHANGED <<ReceiveIndex, read>>

\* SerialReadData when there is a character.
ReadData ==
  /\ ReceiveBufferIndex # ReceiveIndex
  /\ read' = Successor(ReceiveBuffer[ReceiveIndex % ReceiveSize])
  /\ ReceiveIndex' = (ReceiveIndex + 1) % (2 * ReceiveSize)
  /\ ReceiveRemaining' = ReceiveRemaining + 1
  /\ UNCHANGED <<ReceiveBuffer, ReceiveBufferIndex, typed>>

Receive == SerialInput \/ ReadData

\* A frame that takes some time comes when no thread holds an old timeslice back.
GoodFrame ==
  /\ \A t \in Threads : call[t] = NoCall
  /\ \E dt \in FrameTimes \ {0} : Frame(dt)
-----------------------------------------------------------------------------
Waiting == Len(TransmitBuffer) - SendIndex
Received == (ReceiveBufferIndex - ReceiveIndex) % (2 * ReceiveSize)

\* What is written while the port is not busy comes to the terminal, all of it and in order,
\* though some of it goes there at once and the rest through the FIFO.
TransmitOrderKept ==
  /\ \A i \in 1 .. Waiting : TransmitBuffer[SendIndex + i] = (shown + i - 1) % Characters
  /\ (shown + Waiting) % Characters = written

\* What was taken from the host is read in order.
ReceiveOrderKept ==
  /\ \A i \in 0 .. (Received - 1) :
       ReceiveBuffer[(ReceiveIndex + i) % ReceiveSize] = (read + i) % Characters
  /\ (read + Received) % Characters = typed

\* A driver that waits for the port to transmit does not wait for ever: the FIFO drains,
\* however much is written meanwhile and whatever the timeslices.
TransmitEnds == []<>(TransmitBuffer = <<>>)
=============================================================================
