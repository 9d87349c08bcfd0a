------------------------------- MODULE Terminal -------------------------------
(***************************************************************************)
(* The terminal's cursor (terminal.c): terminal_put_char is called by the  *)
(* kernel's main loop, which prints with interrupts enabled, and by the    *)
(* keyboard handler, which echoes.  The main loop's call is cut at each    *)
(* access to g_row and g_column, in the way the source is compiled: the    *)
(* two are read once, and what was stored last is what the end of the row  *)
(* is compared with.  The handler's call, and a program's (sys_write,      *)
(* sys_clear), run with interrupts disabled and are one step.              *)
(*                                                                         *)
(* Cells, colours and pixels are left out: what is drawn follows the       *)
(* cursor and the cells.                                                   *)
(***************************************************************************)
EXTENDS Integers

CONSTANTS Width, Height,  \* g_width, g_height
          VgaWidth,       \* VGA_WIDTH, the width of the text mode
          Overrun         \* bound: columns past the edge that keys may reach

ASSUME TerminalAssumption ==
  Width \in Nat \ {0} /\ Height \in Nat \ {0} /\ VgaWidth \in Nat \ {0} /\ Overrun \in Nat

VARIABLES row, column,   \* g_row, g_column
          pc,            \* where the main loop's call is; "idle" outside of it
          atRow, atColumn,  \* g_row and g_column as the main loop's call read them
          typed          \* history: the cell of the character just echoed while the
                         \* main loop was not printing, or Nowhere

vars == <<row, column, pc, atRow, atColumn, typed>>

Locations == {"idle", "load", "cell", "wrap", "row", "newlineRow", "newlineColumn",
              "scroll", "scrolling", "eraseColumn", "clearColumn"}
Nowhere == <<-1, -1>>

Init ==
  /\ row = 0 /\ column = 0 /\ pc = "idle"
  /\ atRow = 0 /\ atColumn = 0 /\ typed = Nowhere

(* Mutant of Scrolled: the screen scrolls one row late. *)
ScrolledLate(r) == IF r <= Height THEN r ELSE Height - 1

(* scroll_if_needed: the row after it. *)
Scrolled(r) == IF r < Height THEN r ELSE Height - 1
-----------------------------------------------------------------------------
(* terminal_put_char and terminal_clear in one piece. *)

PutChar ==
  IF column + 1 = Width THEN column' = 0 /\ row' = Scrolled(row + 1)
  ELSE column' = column + 1 /\ UNCHANGED row

PutNewline == column' = 0 /\ row' = Scrolled(row + 1)

PutReturn == column' = 0 /\ UNCHANGED row

(* Mutant of PutBackspace: one place short of the end of the row above. *)
PutBackspaceShort ==
  \/ column > 0 /\ column' = column - 1 /\ UNCHANGED row
  \/ column = 0 /\ row > 0 /\ row' = row - 1 /\ column' = VgaWidth - 2
  \/ column = 0 /\ row = 0 /\ UNCHANGED <<row, column>>

PutBackspace ==
  \/ column > 0 /\ column' = column - 1 /\ UNCHANGED row
  \/ column = 0 /\ row > 0 /\ row' = row - 1 /\ column' = VgaWidth - 1
  \/ column = 0 /\ row = 0 /\ UNCHANGED <<row, column>>

Clear == row' = 0 /\ column' = 0

(* The keyboard's echo, between any two steps.  A character in the last cell
   of the screen moves up with its row. *)
EchoChar ==
  /\ column < Width + Overrun
  /\ PutChar
  /\ typed' = IF pc # "idle" THEN Nowhere
              ELSE IF column + 1 = Width /\ row + 1 = Height THEN <<row - 1, column>>
              ELSE <<row, column>>
  /\ UNCHANGED <<pc, atRow, atColumn>>

EchoBackspace ==
  /\ PutBackspace
  /\ typed' = Nowhere
  /\ UNCHANGED <<pc, atRow, atColumn>>

EchoNewline ==
  /\ PutNewline
  /\ typed' = Nowhere
  /\ UNCHANGED <<pc, atRow, atColumn>>

(* What a program prints; the main loop is not printing then. *)
ProgramPrints ==
  /\ pc = "idle"
  /\ PutChar \/ PutNewline \/ PutReturn \/ PutBackspace \/ Clear
  /\ typed' = Nowhere
  /\ UNCHANGED <<pc, atRow, atColumn>>
-----------------------------------------------------------------------------
(* The main loop prints. *)

Goto(from, to) == pc = from /\ pc' = to

(* A character, newline, carriage return or backspace to print, or the screen
   to clear; the order of a newline's two stores is the compiler's. *)
Begin ==
  /\ typed' = Nowhere
  /\ \/ Goto("idle", "load") /\ atRow' = row /\ UNCHANGED <<row, column>>
     \/ Goto("idle", "newlineRow") /\ column' = 0 /\ UNCHANGED <<row, atRow>>
     \/ Goto("idle", "newlineColumn") /\ row' = row + 1 /\ UNCHANGED <<column, atRow>>
     \/ Goto("idle", "clearColumn") /\ row' = 0 /\ UNCHANGED <<column, atRow>>
     \/ Goto("idle", "idle") /\ PutReturn /\ UNCHANGED atRow
  /\ UNCHANGED atColumn

Load ==
  /\ Goto("load", "cell") /\ atColumn' = column
  /\ UNCHANGED <<row, column, atRow, typed>>

(* The cell at (atRow, atColumn) is written, then the column goes on. *)
Advance ==
  /\ Goto("cell", IF atColumn + 1 = Width THEN "wrap" ELSE "idle")
  /\ column' = atColumn + 1
  /\ UNCHANGED <<row, atRow, atColumn, typed>>

Wrap ==
  /\ Goto("wrap", "row") /\ column' = 0
  /\ UNCHANGED <<row, atRow, atColumn, typed>>

WrapRow ==
  /\ Goto("row", "scroll") /\ row' = atRow + 1
  /\ UNCHANGED <<column, atRow, atColumn, typed>>

NewlineRow ==
  /\ Goto("newlineRow", "scroll") /\ row' = row + 1
  /\ UNCHANGED <<column, atRow, atColumn, typed>>

NewlineColumn ==
  /\ Goto("newlineColumn", "scroll") /\ column' = 0
  /\ UNCHANGED <<row, atRow, atColumn, typed>>

ClearColumn ==
  /\ Goto("clearColumn", "idle") /\ column' = 0
  /\ UNCHANGED <<row, atRow, atColumn, typed>>

(* A backspace in what is printed, such as a file's contents. *)
Erase ==
  /\ \/ atColumn > 0 /\ Goto("cell", "idle") /\ column' = atColumn - 1 /\ UNCHANGED row
     \/ atColumn = 0 /\ atRow > 0 /\ Goto("cell", "eraseColumn")
          /\ row' = atRow - 1 /\ UNCHANGED column
     \/ atColumn = 0 /\ atRow = 0 /\ Goto("cell", "idle") /\ UNCHANGED <<row, column>>
  /\ UNCHANGED <<atRow, atColumn, typed>>

EraseColumn ==
  /\ Goto("eraseColumn", "idle") /\ column' = VgaWidth - 1
  /\ UNCHANGED <<row, atRow, atColumn, typed>>

(* scroll_if_needed looks at the row, moves the cells, and sets the row. *)
ScrollCheck ==
  /\ Goto("scroll", IF Scrolled(row) = row THEN "idle" ELSE "scrolling")
  /\ UNCHANGED <<row, column, atRow, atColumn, typed>>

Scroll ==
  /\ Goto("scrolling", "idle") /\ row' = Height - 1
  /\ UNCHANGED <<column, atRow, atColumn, typed>>

Echo == EchoChar \/ EchoBackspace \/ EchoNewline
Printing == Begin \/ Load \/ Advance \/ Wrap \/ WrapRow \/ ScrollCheck \/ Scroll
Rest == NewlineRow \/ NewlineColumn \/ Erase \/ EraseColumn \/ ClearColumn
Next == Echo \/ ProgramPrints \/ Printing \/ Rest
Spec == Init /\ [][Next]_vars
-----------------------------------------------------------------------------
(* Every variable holds a value of its type.  In the middle of the main loop's
   call the cursor may stand below the last row. *)
TypeOK ==
  /\ row \in 0 .. Height /\ column \in 0 .. Width + Overrun
  /\ pc \in Locations
  /\ atRow \in 0 .. Height - 1 /\ atColumn \in 0 .. Width - 1
  /\ typed \in {Nowhere} \cup ((-1 .. Height) \X (0 .. Width + Overrun))

(* Whatever was echoed in the middle of it, when the main loop's printing is
   over the cursor is on the screen again, where the next character is seen
   and the next comparison with the width can be met. *)
CursorOnScreen == pc = "idle" => row < Height /\ column < Width

(* A backspace right after a character goes back to that character's cell,
   across the end of a row and a scroll too. *)
EraseReturns == [][EchoBackspace /\ typed # Nowhere => <<row', column'>> = typed]_vars
==============================================================================
