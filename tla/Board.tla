-------------------------------- MODULE Board --------------------------------
(***************************************************************************)
(* Devices of the platform board and of the host behind it: a disk         *)
(* controller (Dks), a serial port (Serial), the terminal that its         *)
(* characters go to (Terminal), and the keyboard (Keyboard).  Each has a   *)
(* mutex of its own and changes nothing of another: of the terminal the    *)
(* port needs only that characters come to it in order, and of the         *)
(* scheduler each needs only the lists, which Scheduler has.  A behaviour  *)
(* follows one of them (part), of the port one direction.                  *)
(***************************************************************************)
EXTENDS Dks

CONSTANTS TransmitSize, ReceiveSize, AccumulatedCost, CharsPerSchedule, SerialAsynchronous,
          SerialFrameTimes, Ints, Characters,
          Width, Height, Tab, ParamCount, Numbers, CursorParam, AllParam,
          MaxCode, ReleasedBit, Nothing

VARIABLES part,
          TransmitBuffer, SendIndex, Cost, WriteBusy, Enqueued, squeue, STimeslice, scall,
          driver, written, shown,
          ReceiveBuffer, ReceiveBufferIndex, ReceiveIndex, ReceiveRemaining, typed, read,
          tty, drawing, stale,
          OutstandingPressed, OutstandingReleased, Pressed, PortAValue, popped, down

transmission == <<TransmitBuffer, SendIndex, Cost, WriteBusy, Enqueued, squeue, STimeslice, scall,
                  driver, written, shown>>
reception == <<ReceiveBuffer, ReceiveBufferIndex, ReceiveIndex, ReceiveRemaining, typed, read>>
terminal == <<tty, drawing, stale>>
keyboard == <<OutstandingPressed, OutstandingReleased, Pressed, PortAValue, popped, down>>
bvars == <<part, vars, transmission, reception, terminal, keyboard>>

\* The report of a press is told from that of a release and from none: 0x8000 and 0xFFFF in
\* the code.
ASSUME KeyboardAssumption ==
  /\ MaxCode \in Nat /\ ReleasedBit \in Nat /\ ReleasedBit > MaxCode
  /\ Nothing \in Nat /\ Nothing > MaxCode

\* A time is an int.
ASSUME PortAssumption ==
  /\ TransmitSize \in Nat \ {0} /\ ReceiveSize \in Nat \ {0} /\ Characters \in Nat \ {0}
  /\ CharsPerSchedule \in Nat /\ SerialFrameTimes \subseteq Nat /\ Ints \in Nat \ {0}

ASSUME TerminalAssumption ==
  /\ Width \in Nat \ {0} /\ Height \in Nat \ {0} /\ Tab \in Nat \ {0}
  /\ ParamCount \in Nat /\ ParamCount >= 2 /\ Numbers \subseteq Nat

S == INSTANCE Serial WITH queue <- squeue, Timeslice <- STimeslice, call <- scall,
                          FrameTimes <- SerialFrameTimes
T == INSTANCE Terminal
K == INSTANCE Keyboard

\* A part that is not followed has no state.
NoTransmission ==
  /\ TransmitBuffer = None /\ SendIndex = None /\ Cost = None /\ WriteBusy = None
  /\ Enqueued = None /\ squeue = None /\ STimeslice = None /\ scall = None
  /\ driver = None /\ written = None /\ shown = None
NoReception ==
  /\ ReceiveBuffer = None /\ ReceiveBufferIndex = None /\ ReceiveIndex = None
  /\ ReceiveRemaining = None /\ typed = None /\ read = None
NoTerminal == tty = None /\ drawing = None /\ stale = None
NoKeyboard ==
  /\ OutstandingPressed = None /\ OutstandingReleased = None /\ Pressed = None
  /\ PortAValue = None /\ popped = None /\ down = None

BInit ==
  /\ part \in {"disks", "transmission", "reception", "terminal", "keyboard"}
  /\ Init
  /\ IF part = "transmission" THEN S!TransmitInit ELSE NoTransmission
  /\ IF part = "reception" THEN S!ReceiveInit ELSE NoReception
  /\ IF part = "terminal" THEN T!Init ELSE NoTerminal
  /\ IF part = "keyboard" THEN K!Init ELSE NoKeyboard

\* The actions of one part.
Of(p) == part = p /\ UNCHANGED part
OfDisks ==
  /\ Of("disks")
  /\ UNCHANGED transmission /\ UNCHANGED reception /\ UNCHANGED terminal /\ UNCHANGED keyboard
OfTransmission ==
  /\ Of("transmission")
  /\ UNCHANGED vars /\ UNCHANGED reception /\ UNCHANGED terminal /\ UNCHANGED keyboard
OfReception ==
  /\ Of("reception")
  /\ UNCHANGED vars /\ UNCHANGED transmission /\ UNCHANGED terminal /\ UNCHANGED keyboard
OfTerminal ==
  /\ Of("terminal")
  /\ UNCHANGED vars /\ UNCHANGED transmission /\ UNCHANGED reception /\ UNCHANGED keyboard
OfKeyboard ==
  /\ Of("keyboard")
  /\ UNCHANGED vars /\ UNCHANGED transmission /\ UNCHANGED reception /\ UNCHANGED terminal

BNext ==
  \/ OfDisks /\ Next
  \/ OfTransmission /\ S!Transmit
  \/ OfReception /\ S!Receive
  \/ OfTerminal /\ T!Next
  \/ OfKeyboard /\ K!Next

\* What host thread t goes on with, and the frames that get what waits for them on.
Continue(t) ==
  \/ OfDisks /\ (Schedule(t) \/ FinishTransfer(t))
  \/ OfTransmission /\ S!Schedule(t)
GoodFrameFor(d) ==
  \/ OfDisks /\ GoodFrame(d)
  \/ OfTransmission /\ S!GoodFrame

\* Processors and host threads go on with what they began, and frames keep coming to what
\* waits for them and do not all find a thread held up between the unlock and the store:
\* see FairSpec in Dks.
BSpec ==
  /\ BInit /\ [][BNext]_bvars
  /\ \A p \in Procs : WF_bvars(OfDisks /\ FinishTransfer(p))
  /\ \A t \in Threads : WF_bvars(Continue(t))
  /\ \A d \in Disks : \/ <>[](queue[d] # "next" /\ squeue # "next")
                      \/ []<><<GoodFrameFor(d)>>_bvars

\* Serial: what is written comes to the terminal in order, and what is typed is read in order.
TransmitOrderKept == part = "transmission" => S!TransmitOrderKept
ReceiveOrderKept == part = "reception" => S!ReceiveOrderKept
\* Both directions of the port.
OrderKept == TransmitOrderKept /\ ReceiveOrderKept
\* Serial: the transmit FIFO drains.
TransmitEnds == part = "transmission" => S!TransmitEnds
\* Terminal: every cell that looks different from what is shown of it is to be drawn or on its
\* way to the texture.
Shown == part = "terminal" => T!Shown
\* Keyboard: a key that was released does not stay down for the guest.
NoStuckKey == part = "keyboard" => K!NoStuckKey
=============================================================================
