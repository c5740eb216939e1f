------------------------------ MODULE Keyboard ------------------------------
(***************************************************************************)
(* The keyboard, keybd.c, behind the ports of its bus, amtsu.c: the main   *)
(* thread notes the keys that are pressed and released, and a driver on a  *)
(* processor takes reports of them, one at a time, with a command and a    *)
(* read of port A.  Keys and commands hold the device's mutex and are one  *)
(* step each.                                                              *)
(*                                                                         *)
(* One driver uses the bus, on which the keyboard stays selected.  Several *)
(* host keys may have one code, so that codes are pressed and released in  *)
(* any order.  The interrupt is left out, as is the reset of all devices   *)
(* by the bus, which does not take the keyboard's mutex.                   *)
(***************************************************************************)
EXTENDS Integers

CONSTANTS
  MaxCode,      \* KEYBDMAXCODE
  ReleasedBit,  \* 0x8000
  Nothing       \* 0xFFFF

VARIABLES
  OutstandingPressed, OutstandingReleased, Pressed,  \* codes whose entry is set
  PortAValue,
  popped,  \* the driver has port A to read
  down     \* the keys that are down by what the driver has read

keys == <<OutstandingPressed, OutstandingReleased, Pressed>>
vars == <<keys, PortAValue, popped, down>>

Codes == 0 .. MaxCode
ReleaseOf(code) == code + ReleasedBit

Init ==
  /\ OutstandingPressed = {} /\ OutstandingReleased = {} /\ Pressed = {}
  /\ PortAValue = Nothing
  /\ popped = FALSE /\ down = {}
-----------------------------------------------------------------------------
KeyboardPressed(code) ==
  /\ OutstandingPressed' = OutstandingPressed \cup {code}
  /\ Pressed' = Pressed \cup {code}
  /\ UNCHANGED <<OutstandingReleased, PortAValue, popped, down>>

KeyboardReleased(code) ==
  /\ OutstandingReleased' = OutstandingReleased \cup {code}
  /\ Pressed' = Pressed \ {code}
  /\ UNCHANGED <<OutstandingPressed, PortAValue, popped, down>>

\* Mutation: the press before a release that is reported stays outstanding.
PopReleasedKeepsPressed(code) ==
  /\ PortAValue' = ReleaseOf(code)
  /\ OutstandingReleased' = OutstandingReleased \ {code}
  /\ UNCHANGED <<OutstandingPressed, Pressed>>

PopReleased(code) ==
  /\ PortAValue' = ReleaseOf(code)
  /\ OutstandingReleased' = OutstandingReleased \ {code}
  /\ OutstandingPressed' = OutstandingPressed \ {code}
  /\ UNCHANGED Pressed

PopPressed(code) ==
  /\ PortAValue' = code
  /\ OutstandingPressed' = OutstandingPressed \ {code}
  /\ UNCHANGED <<OutstandingReleased, Pressed>>

Outstanding == OutstandingPressed \cup OutstandingReleased

\* Command 1: the report of the lowest code.
Pop ==
  /\ ~popped /\ popped' = TRUE
  /\ \/ Outstanding = {} /\ PortAValue' = Nothing /\ UNCHANGED keys
     \/ \E code \in Outstanding :
          /\ \A other \in Outstanding : code <= other
          /\ IF code \in OutstandingReleased THEN PopReleased(code) ELSE PopPressed(code)
  /\ UNCHANGED down

\* AmtsuReadPortA: the driver reads the report.
ReadPortA ==
  /\ popped /\ popped' = FALSE
  /\ down' = (down \ {code \in Codes : PortAValue = ReleaseOf(code)})
                  \cup ({PortAValue} \cap Codes)
  /\ UNCHANGED <<keys, PortAValue>>

\* Command 2: the driver then takes all keys to be up.
KeyboardReset ==
  /\ ~popped
  /\ OutstandingPressed' = {} /\ OutstandingReleased' = {} /\ Pressed' = {}
  /\ PortAValue' = Nothing
  /\ down' = {}
  /\ UNCHANGED popped

\* AmtsuWritePortA of a code, and command 3: port A is then whether it is pressed.
Select(code) ==
  /\ ~popped
  /\ PortAValue' = code
  /\ UNCHANGED <<keys, popped, down>>

Check ==
  /\ ~popped
  /\ PortAValue' = IF PortAValue \in Pressed THEN 1 ELSE 0
  /\ UNCHANGED <<keys, popped, down>>

Next ==
  \/ \E code \in Codes : KeyboardPressed(code) \/ KeyboardReleased(code) \/ Select(code)
  \/ Pop \/ ReadPortA \/ KeyboardReset \/ Check

Spec == Init /\ [][Next]_vars
-----------------------------------------------------------------------------
\* A key that was released does not stay down for the guest: its release is yet to be
\* reported, or is in port A, however often it was pressed and released meanwhile.
NoStuckKey ==
  \A code \in down : \/ code \in Pressed \cup OutstandingReleased
                     \/ popped /\ PortAValue = ReleaseOf(code)
=============================================================================
