------------------------------- MODULE Terminal -------------------------------
(***************************************************************************)
(* A host terminal, tty.c: characters that a serial port transmits change  *)
(* the text, the cursor and the scroll window, and make a rectangle of     *)
(* cells dirty, which the main thread draws.  Every handler holds the      *)
(* terminal's mutex and is one step.  A drawing is two: the cells of the   *)
(* rectangle are drawn with the mutex held, and then without it copied to  *)
(* the host's texture, to a place that is read from the rectangle again.   *)
(*                                                                         *)
(* Of the text there is only which cells look different from what the      *)
(* texture shows of them (stale).  Attributes and the keys that select the *)
(* input are left out.                                                     *)
(***************************************************************************)
EXTENDS Integers, FiniteSets

CONSTANTS
  Width, Height,
  Tab,          \* distance of the tab stops, 8 in the code
  ParamCount,   \* TTYPARAMCOUNT
  Numbers,      \* bound: the numbers in an escape sequence
  CursorParam,  \* the parameter that shows and hides the cursor, 25 in the code
  AllParam      \* the one that clears all of the screen or of a line, 2 in the code

VARIABLES
  tty,     \* struct TTY
  drawing, \* what is in PixelBufferTty and not yet in the texture: the place it was drawn
           \* from, its size, and the cells that it is to bring up to date
  stale    \* cells that look different from what the texture shows of them, without those
           \* that are missed; see Spoils

vars == <<tty, drawing, stale>>

Columns == 0 .. (Width - 1)
Rows == 0 .. (Height - 1)
Lesser(a, b) == IF a < b THEN a ELSE b
Greater(a, b) == IF a < b THEN b ELSE a

\* IsEscape 0.  What is left of the last sequence is not read again and is not kept.
EscapeEnds(t) ==
  [t EXCEPT !.IsEscape = 0, !.EscapeIndex = 0, !.EscapeParams = [i \in DOMAIN @ |-> 0]]

NoDrawing == [x |-> 0, y |-> 0, width |-> 0, height |-> 0, cells |-> {}]

Init ==
  /\ tty = [CursorX |-> 0, CursorY |-> 0, IsCursorHidden |-> FALSE,
            DirtyX1 |-> 0, DirtyY1 |-> 0, DirtyX2 |-> Width - 1, DirtyY2 |-> Height - 1,
            IsDirty |-> TRUE, ScrollWindowTop |-> 0, ScrollWindowBottom |-> Height - 1,
            IsEscape |-> 0, EscapeIndex |-> 0, EscapeParams |-> [i \in 0 .. (ParamCount - 1) |-> 0]]
  /\ drawing = NoDrawing
  /\ stale = Columns \X Rows
-----------------------------------------------------------------------------
(* The dirty rectangle.                                                    *)

\* TTYMakeDirty.
MakeDirty(t, x1, y1, x2, y2) ==
  LET left == Lesser(x1, x2)
      top == Lesser(y1, y2)
      right == Lesser(Greater(x1, x2), Width - 1)
      bottom == Lesser(Greater(y1, y2), Height - 1)
  IN  IF t.IsDirty
      THEN [t EXCEPT !.DirtyX1 = Lesser(@, left), !.DirtyY1 = Lesser(@, top),
                     !.DirtyX2 = Greater(@, right), !.DirtyY2 = Greater(@, bottom)]
      ELSE [t EXCEPT !.DirtyX1 = left, !.DirtyY1 = top,
                     !.DirtyX2 = right, !.DirtyY2 = bottom, !.IsDirty = TRUE]

\* The rectangle that TTYDraw draws.
DirtyCells(t) == (t.DirtyX1 .. t.DirtyX2) \X (t.DirtyY1 .. t.DirtyY2)

\* Where TTYDraw draws the cursor: after the last column it is in it.
CursorCell(t) ==
  IF t.IsCursorHidden THEN {} ELSE {<<Lesser(t.CursorX, Width - 1), t.CursorY>>}

\* The cells in which a moved, hidden or shown cursor shows.
CursorChanges(t) ==
  (CursorCell(tty) \cup CursorCell(t)) \ (CursorCell(tty) \cap CursorCell(t))

\* What is under way of a drawing does not bring cells up to date that change now.
Outdates(cells) == drawing' = [drawing EXCEPT !.cells = @ \ cells]

\* A handler leaves the terminal as t, having written to cells.
Becomes(t, cells) ==
  /\ tty' = t
  /\ stale' = stale \cup cells \cup CursorChanges(t)
  /\ Outdates(cells \cup CursorChanges(t))

\* Cells that look different now though nothing is done to have them drawn: those that the
\* rectangle of t does not hold are missed, until they change again.
Spoils(cells, t) == stale' = (stale \ cells) \cup (cells \cap DirtyCells(t))

RowsOf(top, bottom) == Columns \X (top .. bottom)
-----------------------------------------------------------------------------
(* Moving on.                                                              *)

\* TTYScrollUp, TTYScrollDown: what they move is the scroll window.
Window(t) == RowsOf(t.ScrollWindowTop, t.ScrollWindowBottom)
Scroll(t) == MakeDirty(t, 0, t.ScrollWindowTop, Width - 1, t.ScrollWindowBottom)

Scrolls(t) == t.CursorY + 1 > t.ScrollWindowBottom
\* Mutation: the row that the cursor comes to is not made dirty.
NewlineLeavesRow(t) ==
  LET left == MakeDirty([t EXCEPT !.CursorY = @ + 1], t.CursorX, t.CursorY, 0, t.CursorY)
  IN  IF Scrolls(t) THEN Scroll([left EXCEPT !.CursorY = t.ScrollWindowBottom]) ELSE left
\* TTYNewline.
Newline(t) ==
  LET left == MakeDirty([t EXCEPT !.CursorY = @ + 1], t.CursorX, t.CursorY, 0, t.CursorY + 1)
  IN  IF Scrolls(t) THEN Scroll([left EXCEPT !.CursorY = t.ScrollWindowBottom]) ELSE left
\* What it writes to.
NewlineCells(t) == IF Scrolls(t) THEN Window(t) ELSE {}

\* TTYBackspace.
Backspace(t) ==
  LET to == IF t.CursorX > 0 THEN <<t.CursorX - 1, t.CursorY>>
            ELSE IF t.CursorY > 0 THEN <<Width - 1, t.CursorY - 1>> ELSE <<0, 0>>
  IN  MakeDirty([t EXCEPT !.CursorX = to[1], !.CursorY = to[2]],
                t.CursorX, t.CursorY, to[1], to[2])

CarriageReturn(t) ==
  MakeDirty([t EXCEPT !.CursorX = 0], t.CursorX, t.CursorY, 0, t.CursorY)

TabStop(t) ==
  LET x == Lesser(((t.CursorX + Tab) \div Tab) * Tab, Width - 1)
  IN  MakeDirty([t EXCEPT !.CursorX = x], t.CursorX, t.CursorY, x, t.CursorY)

StartEscape(t) == [EscapeEnds(t) EXCEPT !.IsEscape = 1]

\* TTYPutCharacter of a character that is no control character.
Wraps(t) == t.CursorX >= Width
Printable(t) ==
  LET at == IF Wraps(t) THEN Newline([t EXCEPT !.CursorX = 0]) ELSE t
  IN  MakeDirty([at EXCEPT !.CursorX = @ + 1], t.CursorX, t.CursorY, at.CursorX + 1, at.CursorY)
PrintableCells(t) ==
  LET at == IF Wraps(t) THEN Newline([t EXCEPT !.CursorX = 0]) ELSE t
  IN  {<<at.CursorX, at.CursorY>>} \cup (IF Wraps(t) THEN NewlineCells(t) ELSE {})

\* TTYPutCharacter outside an escape sequence.
PutCharacter ==
  /\ tty.IsEscape = 0
  /\ \/ Becomes(Newline(tty), NewlineCells(tty))
     \/ Becomes(Backspace(tty), {})
     \/ Becomes(CarriageReturn(tty), {})
     \/ Becomes(TabStop(tty), {})
     \/ Becomes(StartEscape(tty), {})
     \/ Becomes(Printable(tty), PrintableCells(tty))
-----------------------------------------------------------------------------
(* Escape sequences: TTYParseEscape.                                       *)

Param(i) == tty.EscapeParams[i]

\* The digits of a parameter.
Number(n) ==
  /\ tty.IsEscape # 0
  /\ Param(tty.EscapeIndex) = 0
  /\ Becomes([tty EXCEPT !.EscapeParams[tty.EscapeIndex] = n], {})

\* A semicolon; a bracket does nothing.
Separator ==
  /\ tty.IsEscape = 1
  /\ Becomes([tty EXCEPT !.EscapeIndex = (@ + 1) % ParamCount], {})

\* A character that ends the sequence: t is then the terminal.
Ends(t, cells) == tty.IsEscape = 1 /\ Becomes(EscapeEnds(t), cells)

\* TTYMoveCursor.  Its first comparison is unsigned: what is less than 0 is too large.
Clip(n, size) == IF n \in 0 .. (size - 1) THEN n ELSE size - 1
MoveCursor ==
  LET x == Clip(Param(1) - 1, Width)
      y == Clip(Param(0) - 1, Height)
  IN  Ends(MakeDirty([tty EXCEPT !.CursorX = x, !.CursorY = y],
                     tty.CursorX, tty.CursorY, x, y), {})

\* TTYEscClear.
Clear ==
  IF Param(0) = AllParam
  THEN Ends(MakeDirty([tty EXCEPT !.IsCursorHidden = FALSE, !.ScrollWindowTop = 0,
                                  !.ScrollWindowBottom = Height - 1],
                      0, 0, Width - 1, Height - 1),
            Columns \X Rows)
  ELSE Ends(tty, {})

\* TTYEscClearLine.
ClearLine ==
  LET from == IF Param(0) = 0 THEN tty.CursorX ELSE 0 IN
  IF Param(0) \in {0, AllParam}
  THEN Ends(MakeDirty(tty, from, tty.CursorY, Width - 1, tty.CursorY),
            (from .. (Width - 1)) \X {tty.CursorY})
  ELSE Ends(tty, {})

\* TTYEscSetScrollMargins.
Margin(n, otherwise) ==
  IF n = 0 THEN otherwise ELSE IF n - 1 >= Height THEN 0 ELSE n - 1
SetScrollMargins ==
  LET top == Margin(Param(0), 0)
  IN  Ends([tty EXCEPT !.ScrollWindowTop = top,
                       !.ScrollWindowBottom = Greater(Margin(Param(1), Height - 1), top)], {})

ScrollWindow == Ends(Scroll(tty), Window(tty))

Private == tty.IsEscape = 1 /\ Becomes([tty EXCEPT !.IsEscape = 2], {})

\* Colors, the query of the cursor, which is answered with input of the port, and what is
\* no sequence.
Other == tty.IsEscape # 0 /\ Becomes(EscapeEnds(tty), {})

\* The cursor is shown or hidden.  After the last column nothing becomes dirty, as the
\* rectangle is cut off to the left of the cursor.
Toggle(hidden) ==
  LET after == EscapeEnds([tty EXCEPT !.IsCursorHidden = hidden])
      dirty == MakeDirty(after, tty.CursorX, tty.CursorY, tty.CursorX, tty.CursorY)
  IN  /\ tty.IsEscape = 2 /\ Param(0) = CursorParam
      /\ tty' = IF hidden = tty.IsCursorHidden THEN after ELSE dirty
      /\ Outdates(CursorChanges(tty'))
      /\ IF tty.CursorX < Width
         THEN stale' = stale \cup CursorChanges(tty')
         ELSE Spoils(CursorChanges(tty'), tty')

ParseEscape ==
  \/ \E n \in Numbers : Number(n)
  \/ Separator \/ MoveCursor \/ Clear \/ ClearLine \/ SetScrollMargins \/ ScrollWindow
  \/ Private \/ Other \/ \E hidden \in BOOLEAN : Toggle(hidden)

-----------------------------------------------------------------------------
(* TTYDraw.                                                                *)

\* With the mutex held.
Draw ==
  /\ drawing = NoDrawing /\ tty.IsDirty
  /\ drawing' = [x |-> tty.DirtyX1, y |-> tty.DirtyY1,
                 width |-> tty.DirtyX2 - tty.DirtyX1 + 1,
                 height |-> tty.DirtyY2 - tty.DirtyY1 + 1,
                 cells |-> DirtyCells(tty) \cap stale]
  /\ tty' = [tty EXCEPT !.IsDirty = FALSE]
  /\ UNCHANGED stale

\* What it reads of a corner of the rectangle after the unlock: that of the drawing, or,
\* once another thread has made cells dirty, what TTYMakeDirty has set it to since, of which
\* the last is the least.
Reread(drawn, dirty, size) == {drawn} \cup (IF tty.IsDirty THEN dirty .. size ELSE {})

\* SDL_UpdateTexture, without the mutex.  At the place that was drawn it brings the cells up
\* to date.  At another it does not, and spoils those that are there.
UpdateTexture ==
  /\ drawing # NoDrawing
  /\ drawing' = NoDrawing
  /\ \E x \in Reread(drawing.x, tty.DirtyX1, Width), y \in Reread(drawing.y, tty.DirtyY1, Height) :
       IF x = drawing.x /\ y = drawing.y
       THEN stale' = stale \ drawing.cells
       ELSE LET there == (Columns \X Rows) \cap
                  ((x .. (x + drawing.width - 1)) \X (y .. (y + drawing.height - 1)))
            IN  Spoils(drawing.cells \cup there, tty)
  /\ UNCHANGED tty

Next == PutCharacter \/ ParseEscape \/ Draw \/ UpdateTexture

Spec == Init /\ [][Next]_vars
-----------------------------------------------------------------------------
\* Every cell that looks different from what is shown of it is to be drawn, or is on its way
\* to the texture as it looks now: text that was written, moved or cleared, inside the
\* terminal, and a cursor that left or came; but for what is missed.
Shown ==
  \A cell \in stale : (tty.IsDirty /\ cell \in DirtyCells(tty)) \/ cell \in drawing.cells
=============================================================================
