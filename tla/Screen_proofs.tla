---------------------------- MODULE Screen_proofs ----------------------------
(***************************************************************************)
(* The terminal's cursor and its screen.                                   *)
(*                                                                         *)
(* The cursor comes back to the screen whenever the main loop's printing   *)
(* is over, on every screen at least as wide as the text mode; and on one  *)
(* of just that width a backspace returns to the character it erases.      *)
(* CursorInv says where in the main loop's call the cursor may be off the  *)
(* screen: past the right edge before the wrap, below the last row before  *)
(* the scroll.                                                             *)
(*                                                                         *)
(* The screen's steps are the cursor's steps with what they draw, so that  *)
(* holds here too; a program that has the framebuffer keeps what it drew;  *)
(* and the terminal's picture is true, whatever keys were echoed.          *)
(* PictureInv is what makes the last one inductive: in the middle of the   *)
(* main loop's printing the underline is where the cursor was, and once a  *)
(* key has been echoed there the cursor's row is open.                     *)
(***************************************************************************)
EXTENDS Screen, TLAPS

(* The cursor. *)
CursorInv ==
  /\ row \in 0 .. Height /\ column \in Nat /\ pc \in Locations
  /\ atRow \in 0 .. Height - 1 /\ atColumn \in 0 .. Width - 1
  /\ row = Height => pc \in {"newlineColumn", "scroll", "scrolling"}
  /\ column >= Width => pc = "wrap"

(* Where the character just echoed stands relative to the cursor. *)
TypedInv ==
  typed # Nowhere =>
    /\ pc = "idle"
    /\ \/ column > 0 /\ typed = <<row, column - 1>>
       \/ column = 0 /\ row > 0 /\ typed = <<row - 1, Width - 1>>
-----------------------------------------------------------------------------
LEMMA InitCursor == Init => CursorInv /\ TypedInv
BY TerminalAssumption DEF Init, CursorInv, TypedInv, Locations

LEMMA NextCursor == VgaWidth <= Width /\ CursorInv /\ [Next]_vars => CursorInv'
<1> SUFFICES ASSUME VgaWidth <= Width, CursorInv, [Next]_vars PROVE CursorInv'
  OBVIOUS
<1> USE TerminalAssumption DEF CursorInv, Locations, Goto
<1>1. CASE Echo
  <2>1. CASE EchoChar BY <2>1 DEF EchoChar, PutChar, Scrolled
  <2>2. CASE EchoBackspace BY <2>2 DEF EchoBackspace, PutBackspace
  <2>3. CASE EchoNewline BY <2>3 DEF EchoNewline, PutNewline, Scrolled
  <2> QED BY <1>1, <2>1, <2>2, <2>3 DEF Echo
<1>2. CASE ProgramPrints
  <2>1. CASE PutChar BY <1>2, <2>1 DEF ProgramPrints, PutChar, Scrolled
  <2>2. CASE PutNewline BY <1>2, <2>2 DEF ProgramPrints, PutNewline, Scrolled
  <2>3. CASE PutReturn \/ Clear BY <1>2, <2>3 DEF ProgramPrints, PutReturn, Clear
  <2>4. CASE PutBackspace BY <1>2, <2>4 DEF ProgramPrints, PutBackspace
  <2> QED BY <1>2, <2>1, <2>2, <2>3, <2>4 DEF ProgramPrints
<1>3. CASE Printing
  <2>1. CASE Begin BY <2>1 DEF Begin, PutReturn
  <2>2. CASE Load BY <2>2 DEF Load
  <2>3. CASE Advance BY <2>3 DEF Advance
  <2>4. CASE Wrap \/ WrapRow BY <2>4 DEF Wrap, WrapRow
  <2>5. CASE ScrollCheck BY <2>5 DEF ScrollCheck, Scrolled
  <2>6. CASE Scroll BY <2>6 DEF Scroll
  <2> QED BY <1>3, <2>1, <2>2, <2>3, <2>4, <2>5, <2>6 DEF Printing
<1>4. CASE Rest
  <2>1. CASE NewlineRow \/ NewlineColumn BY <2>1 DEF NewlineRow, NewlineColumn
  <2>2. CASE Erase BY <2>2 DEF Erase
  <2>3. CASE EraseColumn \/ ClearColumn BY <2>3 DEF EraseColumn, ClearColumn
  <2> QED BY <1>4, <2>1, <2>2, <2>3 DEF Rest
<1>5. CASE UNCHANGED vars
  BY <1>5 DEF vars
<1> QED BY <1>1, <1>2, <1>3, <1>4, <1>5 DEF Next

(* On a screen at least as wide as the text mode, whatever keys are echoed in
   the middle of the main loop's printing, the cursor ends on the screen. *)
THEOREM CursorComesBack == VgaWidth <= Width => (Spec => []CursorOnScreen)
<1> SUFFICES ASSUME VgaWidth <= Width PROVE Spec => []CursorOnScreen
  OBVIOUS
<1>1. Init => CursorInv
  BY InitCursor
<1>2. CursorInv /\ [Next]_vars => CursorInv'
  BY NextCursor
<1>3. CursorInv => CursorOnScreen
  BY TerminalAssumption DEF CursorInv, CursorOnScreen
<1> QED BY <1>1, <1>2, <1>3, PTL DEF Spec
-----------------------------------------------------------------------------
LEMMA NextTyped ==
  VgaWidth = Width /\ Height >= 2 /\ CursorInv /\ TypedInv /\ [Next]_vars => TypedInv'
<1> SUFFICES ASSUME VgaWidth = Width, Height >= 2, CursorInv, TypedInv, [Next]_vars
             PROVE  TypedInv'
  OBVIOUS
<1> USE TerminalAssumption DEF CursorInv, TypedInv, Goto
<1>1. CASE EchoChar
  <2>1. CASE pc # "idle"
    BY <1>1, <2>1 DEF EchoChar
  <2>2. CASE pc = "idle" /\ column + 1 = Width
    <3>1. column' = 0 /\ pc' = "idle" /\ column = Width - 1
      BY <1>1, <2>2 DEF EchoChar, PutChar
    <3>2. row < Height
      BY <2>2
    <3>3. CASE row + 1 = Height
      <4>1. row' = row /\ row > 0
        BY <1>1, <2>2, <3>2, <3>3 DEF EchoChar, PutChar, Scrolled
      <4>2. typed' = <<row - 1, column>>
        BY <1>1, <2>2, <3>3 DEF EchoChar
      <4> QED BY <3>1, <4>1, <4>2
    <3>4. CASE row + 1 # Height
      <4>1. row' = row + 1 /\ row \in Nat
        BY <1>1, <2>2, <3>2, <3>4 DEF EchoChar, PutChar, Scrolled
      <4>2. typed' = <<row, column>>
        BY <1>1, <2>2, <3>4 DEF EchoChar
      <4> QED BY <3>1, <4>1, <4>2
    <3> QED BY <3>3, <3>4
  <2>3. CASE pc = "idle" /\ column + 1 # Width
    <3>1. column' = column + 1 /\ row' = row /\ pc' = "idle" /\ typed' = <<row, column>>
      BY <1>1, <2>3 DEF EchoChar, PutChar
    <3> QED BY <3>1
  <2> QED BY <2>1, <2>2, <2>3
<1>2. CASE EchoBackspace \/ EchoNewline \/ ProgramPrints \/ Begin
  BY <1>2 DEF EchoBackspace, EchoNewline, ProgramPrints, Begin
<1>3. CASE Load \/ Advance \/ Wrap \/ WrapRow \/ ScrollCheck \/ Scroll
  BY <1>3 DEF Load, Advance, Wrap, WrapRow, ScrollCheck, Scroll
<1>4. CASE Rest
  BY <1>4 DEF Rest, NewlineRow, NewlineColumn, Erase, EraseColumn, ClearColumn
<1>5. CASE UNCHANGED vars
  BY <1>5 DEF vars
<1> QED BY <1>1, <1>2, <1>3, <1>4, <1>5 DEF Next, Echo, Printing

(* In the text mode, a backspace after a character returns to its cell. *)
THEOREM BackspaceReturns == VgaWidth = Width /\ Height >= 2 => (Spec => EraseReturns)
<1> SUFFICES ASSUME VgaWidth = Width, Height >= 2 PROVE Spec => EraseReturns
  OBVIOUS
<1> DEFINE Both == CursorInv /\ TypedInv
<1>1. Init => Both
  BY InitCursor
<1>2. Both /\ [Next]_vars => Both'
  BY NextCursor, NextTyped, TerminalAssumption
<1>3. Both /\ EchoBackspace /\ typed # Nowhere => <<row', column'>> = typed
  BY TerminalAssumption DEF CursorInv, TypedInv, EchoBackspace, PutBackspace
<1>4. Both /\ [Next]_vars => [EchoBackspace /\ typed # Nowhere => <<row', column'>> = typed]_vars
  BY <1>3
<1> HIDE DEF Both
<1> QED BY <1>1, <1>2, <1>4, PTL DEF Spec, EraseReturns
-----------------------------------------------------------------------------
(* A program's framebuffer is locked only while the main loop rests, which
   has put the underline where the cursor is; around a call's steps nothing
   else of it is under way. *)
RestInv ==
  /\ locked => pc = "idle" /\ stage = "rest"
  /\ pc # "idle" => stage = "rest"
  /\ ~locked /\ pc = "idle" /\ stage = "rest" => cursor = <<row, column>>

CellsInv == cells \in [Cells -> Chars] /\ shown = [c \in Cells |-> shown[c]]

(* What a cell shows: what it holds, underlined only where the cursor was
   and, once the main loop's step is over, where it is. *)
CellTrue(c) ==
  \/ shown[c] = Open
  \/ shown[c] = Drawing
  \/ shown[c] = <<cells[c], "plain">>
  \/ shown[c] = <<cells[c], "underlined">> /\ (c = cursor \/ (stage = "cursor" /\ c = <<row, column>>))

Marked ==
  cursor \in Cells =>
    shown[cursor] \in {Open, Drawing, <<cells[cursor], "underlined">>}

PrintingHere ==
  /\ pc = "load" => cursor = <<row, column>> /\ atRow = row
  /\ pc = "cell" => cursor = <<row, column>> /\ atRow = row /\ atColumn = column

(* In a torn call the row of the cursor that is kept is open. *)
CursorOpen == \A c \in Cells : c[1] = cursor[1] => shown[c] = Open

PictureInv ==
  ~locked =>
    /\ \A c \in Cells : CellTrue(c)
    /\ AtRest => Marked
    /\ ~AtRest /\ torn => CursorOpen
    /\ ~torn => PrintingHere
-----------------------------------------------------------------------------
(* Every step of the screen is one of the terminal's, or leaves its variables
   alone. *)
LEMMA ScreenStep == [ScreenNext]_screenVars => [Next]_vars
<1> SUFFICES ASSUME ScreenNext \/ UNCHANGED screenVars PROVE Next \/ UNCHANGED vars
  BY DEF screenVars
<1>1. CASE KeyEchoes
  BY <1>1 DEF KeyEchoes, Next, Echo
<1>2. CASE ProgramWrites
  BY <1>2 DEF ProgramWrites, Next
<1>3. CASE Lock \/ Unlock \/ Draws
  BY <1>3 DEF Lock, Unlock, Draws
<1>4. CASE MainLoop
  <2>1. CASE ClearPaints \/ PrintEnds BY <2>1 DEF ClearPaints, PrintEnds
  <2>2. CASE PrintBegins BY <2>2 DEF PrintBegins, Next, Printing
  <2>3. CASE PrintStores BY <2>3 DEF PrintStores, Next, Printing, Rest
  <2>4. CASE PrintCells BY <2>4 DEF PrintCells, Next, Printing, Rest
  <2>5. CASE PrintScrolls BY <2>5 DEF PrintScrolls, Next, Printing
  <2> QED BY <1>4, <2>1, <2>2, <2>3, <2>4, <2>5 DEF MainLoop
<1>5. CASE UNCHANGED screenVars
  BY <1>5 DEF screenVars
<1> QED BY <1>1, <1>2, <1>3, <1>4, <1>5 DEF ScreenNext

(* The screen is a terminal: its cursor moves as Terminal says, whatever is
   drawn (terminal.c, all of whose drawing follows the cursor). *)
THEOREM ScreenIsTerminal == ScreenSpec => Spec
<1>1. ScreenInit => Init BY DEF ScreenInit
<1>2. [ScreenNext]_screenVars => [Next]_vars BY ScreenStep
<1> QED BY <1>1, <1>2, PTL DEF ScreenSpec, Spec
-----------------------------------------------------------------------------
(* The main loop does not print while a program has the framebuffer. *)
LEMMA MainLoopUnlocked ==
  ASSUME RestInv, MainLoop
  PROVE  ~locked
<1> SUFFICES ASSUME locked PROVE FALSE
  OBVIOUS
<1>1. pc = "idle" /\ stage = "rest" BY DEF RestInv
<1>2. ~ ClearPaints /\ ~ PrintBegins /\ ~ PrintEnds
  BY <1>1 DEF ClearPaints, PrintBegins, PrintEnds
<1>3. ~ PrintStores
  BY <1>1 DEF PrintStores, Load, Wrap, WrapRow, ScrollCheck, NewlineRow, NewlineColumn,
              ClearColumn, Goto
<1>4. ~ PrintCells /\ ~ PrintScrolls
  BY <1>1 DEF PrintCells, PrintScrolls, Advance, Erase, EraseColumn, Scroll, Goto
<1> QED BY <1>2, <1>3, <1>4 DEF MainLoop

(* Locked, nothing is drawn. *)
LEMMA LockedDraws ==
  ASSUME locked
  PROVE  /\ \A p, t, c, m : Draw(p, t, c, m) = p
         /\ \A p, t : DrawAll(p, t) = p
BY DEF Draw, DrawAll

LEMMA LockedKeeps ==
  ASSUME locked, RestInv, KeyEchoes \/ ProgramWrites
  PROVE  shown' = shown /\ cursor' = None
<1> USE LockedDraws
<1>1. Seen = shown BY DEF RestInv, Seen, AtRest
<1>2. \A p, t, a : Underline(p, t, a) => shown' = p /\ cursor' = None
  BY DEF Underline
<1>3. ShowReturn => shown' = shown /\ cursor' = None
  BY <1>1, <1>2 DEF ShowReturn
<1>4. \A a, ch, s : ShowPut(a, ch, s) => shown' = shown /\ cursor' = None
  BY <1>1, <1>2 DEF ShowPut
<1>5. ShowChar => shown' = shown /\ cursor' = None
  BY <1>4 DEF ShowChar
<1>6. ShowNewline => shown' = shown /\ cursor' = None
  BY <1>1, <1>2 DEF ShowNewline
<1>7. ShowBackspace => shown' = shown /\ cursor' = None
  BY <1>3, <1>4 DEF ShowBackspace
<1>8. ShowClear => shown' = shown /\ cursor' = None
  BY <1>2 DEF ShowClear, WipedPicture
<1> QED BY <1>3, <1>5, <1>6, <1>7, <1>8 DEF KeyEchoes, ProgramWrites

LEMMA LockedStep ==
  ASSUME RestInv, [ScreenNext]_screenVars, locked, locked', ~Draws
  PROVE  UNCHANGED shown
<1>1. CASE ScreenNext
  <2>1. ~ Lock /\ ~ Unlock BY DEF Lock, Unlock
  <2>2. KeyEchoes \/ ProgramWrites
    BY <1>1, <2>1, MainLoopUnlocked DEF ScreenNext
  <2> QED BY <2>2, LockedKeeps
<1>2. CASE UNCHANGED screenVars
  BY <1>2 DEF screenVars
<1> QED BY <1>1, <1>2
-----------------------------------------------------------------------------
(* Unlocked, each of the calls puts the cursor where Terminal's step does. *)
LEMMA CallsMoveCursor ==
  ASSUME ~locked
  PROVE  /\ ShowChar \/ ShowNewline \/ ShowReturn \/ ShowBackspace => cursor' = <<row', column'>>
         /\ ShowClear /\ Clear => cursor' = <<row', column'>>
<1>1. \A p, t, a : Underline(p, t, a) => cursor' = a
  BY DEF Underline
<1>2. \A a, ch, s : ShowPut(a, ch, s) => cursor' = <<row', column'>>
  BY <1>1 DEF ShowPut
<1>3. ShowReturn => cursor' = <<row', column'>>
  BY <1>1 DEF ShowReturn
<1> QED BY <1>1, <1>2, <1>3 DEF ShowChar, ShowNewline, ShowBackspace, ShowClear, Clear

LEMMA RestStep ==
  ASSUME RestInv, [ScreenNext]_screenVars
  PROVE  RestInv'
<1>1. CASE KeyEchoes
  <2>1. UNCHANGED <<pc, stage, locked>>
    BY <1>1 DEF KeyEchoes, EchoChar, EchoBackspace, EchoNewline
  <2>2. ~locked => cursor' = <<row', column'>>
    BY <1>1, CallsMoveCursor DEF KeyEchoes
  <2> QED BY <2>1, <2>2 DEF RestInv
<1>2. CASE ProgramWrites
  <2>1. UNCHANGED <<pc, stage, locked>>
    BY <1>2 DEF ProgramWrites, ProgramPrints
  <2>2. ~locked => cursor' = <<row', column'>>
    BY <1>2, CallsMoveCursor DEF ProgramWrites
  <2> QED BY <2>1, <2>2 DEF RestInv
<1>3. CASE Lock \/ Unlock \/ Draws
  BY <1>3 DEF Lock, Unlock, Draws, vars, RestInv, AtRest
<1>4. CASE MainLoop
  <2>1. ~locked
    BY <1>4, MainLoopUnlocked
  <2>2. CASE ClearPaints BY <2>1, <2>2 DEF ClearPaints, RestInv, vars, AtRest
  <2>3. CASE PrintBegins BY <2>1, <2>3 DEF PrintBegins, RestInv
  <2>4. CASE PrintStores
    <3>1. pc # "idle"
      BY <2>4 DEF PrintStores, Load, Wrap, WrapRow, ScrollCheck, NewlineRow, NewlineColumn,
                  ClearColumn, Goto
    <3> QED BY <2>1, <2>4, <3>1 DEF PrintStores, Ends, RestInv
  <2>5. CASE PrintCells
    <3>1. pc # "idle"
      BY <2>5 DEF PrintCells, Advance, Erase, EraseColumn, Goto
    <3> QED BY <2>1, <2>5, <3>1 DEF PrintCells, PrintCell, Ends, RestInv
  <2>6. CASE PrintScrolls
    BY <2>1, <2>6 DEF PrintScrolls, Scroll, Goto, Ends, RestInv
  <2>7. CASE PrintEnds BY <2>1, <2>7 DEF PrintEnds, Underline, RestInv, vars
  <2> QED BY <1>4, <2>2, <2>3, <2>4, <2>5, <2>6, <2>7 DEF MainLoop
<1>5. CASE UNCHANGED screenVars
  BY <1>5 DEF screenVars, vars, RestInv
<1> QED BY <1>1, <1>2, <1>3, <1>4, <1>5 DEF ScreenNext

LEMMA InitRest == ScreenInit => RestInv
BY DEF ScreenInit, Init, RestInv

(* Whatever is echoed or printed while a program has the framebuffer, what it
   drew stays (terminal.c's looks at g_framebuffer_locked). *)
THEOREM ProgramKeepsDrawing == ScreenSpec => DrawingIsKept
<1>1. RestInv /\ [ScreenNext]_screenVars
        => [locked /\ locked' /\ ~Draws => UNCHANGED shown]_screenVars
  BY LockedStep
<1> QED BY <1>1, InitRest, RestStep, PTL DEF ScreenSpec, DrawingIsKept
-----------------------------------------------------------------------------
(* What the operators on pictures give. *)
OnCells(p) == p = [c \in Cells |-> p[c]]

(* A cell drawn, or left as it was, or left open; in a torn call, its row is. *)
LEMMA DrawGives ==
  ASSUME NEW p, NEW t, NEW at, NEW m, ~locked, OnCells(p)
  PROVE  /\ OnCells(Draw(p, t, at, m))
         /\ \A c \in Cells :
              \/ Draw(p, t, at, m)[c] = Open
              \/ c # at /\ Draw(p, t, at, m)[c] = p[c]
              \/ c = at /\ Draw(p, t, at, m)[c] = <<t[c], m>>
         /\ \A c \in Cells : p[c] = Open => Draw(p, t, at, m)[c] = Open
         /\ torn' => \A c \in Cells :
                        c[1] \in {at[1], Home(at)[1]} => Draw(p, t, at, m)[c] = Open
<1>1. CASE torn'
  <2>1. Draw(p, t, at, m) = Tear(p, {at[1], Home(at)[1]})
    BY <1>1 DEF Draw
  <2> QED BY <1>1, <2>1 DEF Tear, OnCells
<1>2. CASE ~torn' /\ (at \notin Cells \/ p[at] = Open)
  <2>1. Draw(p, t, at, m) = p
    BY <1>2 DEF Draw
  <2> QED BY <1>2, <2>1
<1>3. CASE ~torn' /\ at \in Cells /\ p[at] # Open
  <2>1. Draw(p, t, at, m) = [p EXCEPT ![at] = <<t[at], m>>]
    BY <1>3 DEF Draw
  <2> QED BY <1>3, <2>1 DEF OnCells
<1> QED BY <1>1, <1>2, <1>3

LEMMA DrawAllGives ==
  ASSUME NEW p, NEW t, ~locked
  PROVE  /\ OnCells(DrawAll(p, t))
         /\ \A c \in Cells : DrawAll(p, t)[c] = IF torn' THEN Open ELSE <<t[c], "plain">>
BY DEF DrawAll, OnCells

LEMMA PutTypes ==
  ASSUME NEW t \in [Cells -> Chars], NEW at, NEW ch \in Chars
  PROVE  /\ Put(t, at, ch) \in [Cells -> Chars]
         /\ \A c \in Cells : Put(t, at, ch)[c] = IF c = Home(at) THEN ch ELSE t[c]
<1> HIDE DEF Home
<1> QED BY DEF Put

(* On the screen a cell is kept in its own row. *)
LEMMA HomeOnScreen ==
  ASSUME NEW r, NEW k \in Int, k < Width
  PROVE  Home(<<r, k>>) = <<r, k>>
<1>1. FramebufferWidth \div FontWidth \in Int
  BY ScreenAssumption DEF FontWidth
<1>2. Width <= MaxColumns
  BY <1>1, ScreenAssumption DEF Fitting
<1> QED BY <1>2, TerminalAssumption, ScreenAssumption DEF Home

LEMMA UpTypes ==
  ASSUME NEW t \in [Cells -> Chars]
  PROVE  Up(t) \in [Cells -> Chars]
<1> SUFFICES ASSUME NEW c \in Cells, c[1] + 1 < Height PROVE <<c[1] + 1, c[2]>> \in Cells
  BY ScreenAssumption DEF Up
<1> QED BY TerminalAssumption DEF Cells

(* A picture that is true but for the two cells Underline draws. *)
Ready(p, t, at) ==
  \A c \in Cells : p[c] \in {Open, Drawing, <<t[c], "plain">>} \/ c = cursor \/ c = at

(* What a call leaves: the underline at `at' alone. *)
Underlined(at) ==
  /\ \A c \in Cells :
       shown'[c] \in {Open, Drawing, <<cells'[c], IF c = at THEN "underlined" ELSE "plain">>}
  /\ torn' => \A c \in Cells : c[1] = at[1] => shown'[c] = Open

LEMMA UnderlineGives ==
  ASSUME NEW p, NEW at, ~locked, OnCells(p),
         Ready(p, cells', at), Underline(p, cells', at)
  PROVE  OnCells(shown)' /\ cursor' = at /\ Underlined(at)
<1> DEFINE q == Draw(p, cells', cursor, "plain")
<1>1. shown' = Draw(q, cells', at, "underlined") /\ cursor' = at
  BY DEF Underline
<1>2. /\ OnCells(q)
      /\ \A c \in Cells : \/ q[c] = Open
                          \/ c # cursor /\ q[c] = p[c]
                          \/ c = cursor /\ q[c] = <<cells'[c], "plain">>
  BY DrawGives
<1> HIDE DEF q
<1>3. /\ OnCells(shown')
      /\ \A c \in Cells : \/ shown'[c] = Open
                          \/ c # at /\ shown'[c] = q[c]
                          \/ c = at /\ shown'[c] = <<cells'[c], "underlined">>
      /\ torn' => \A c \in Cells : c[1] \in {at[1], Home(at)[1]} => shown'[c] = Open
  BY <1>1, <1>2, DrawGives
<1>4. ASSUME NEW c \in Cells
      PROVE  shown'[c] \in {Open, Drawing, <<cells'[c], IF c = at THEN "underlined" ELSE "plain">>}
  BY <1>2, <1>3 DEF Ready
<1> QED BY <1>1, <1>3, <1>4 DEF Underlined, OnCells
-----------------------------------------------------------------------------
(* What a call may start from: a picture that is true but for the cursor's
   cell, which is the one it writes unless the call is torn. *)
Seeable ==
  /\ OnCells(Seen)
  /\ torn' \/ cursor = <<row, column>>
  /\ \A c \in Cells : Seen[c] \in {Open, Drawing, <<cells[c], "plain">>} \/ c = cursor

CallDone == cells' \in [Cells -> Chars] /\ OnCells(shown)' /\ Underlined(<<row', column'>>)

LEMMA ShowPutDone ==
  ASSUME NEW at, NEW ch \in Chars, NEW scrolls \in BOOLEAN,
         ~locked, cells \in [Cells -> Chars], Seeable,
         at = <<row, column>> \/ at = <<row', column'>>, torn' \/ Home(at) = at,
         ShowPut(at, ch, scrolls)
  PROVE  CallDone
<1> DEFINE text == Put(cells, at, ch)
           drawn == Draw(Seen, text, at, "underlined")
<1>1. text \in [Cells -> Chars] /\ \A c \in Cells : text[c] = IF c = Home(at) THEN ch ELSE cells[c]
  BY PutTypes
<1>2. /\ OnCells(drawn)
      /\ \A c \in Cells : \/ drawn[c] = Open
                          \/ c # at /\ drawn[c] = Seen[c]
                          \/ c = at /\ drawn[c] = <<text[c], "underlined">>
      /\ torn' => \A c \in Cells : c[1] \in {at[1], Home(at)[1]} => drawn[c] = Open
  BY DrawGives DEF Seeable
<1>3. /\ cells' = IF scrolls THEN Up(text) ELSE text
      /\ Underline(IF scrolls THEN DrawAll(drawn, cells') ELSE drawn, cells', <<row', column'>>)
  BY DEF ShowPut
<1> HIDE DEF text, drawn
<1>4. CASE scrolls
  <2>1. cells' = Up(text) /\ cells' \in [Cells -> Chars]
    BY <1>1, <1>3, <1>4, UpTypes
  <2>2. OnCells(DrawAll(drawn, cells')) /\ Ready(DrawAll(drawn, cells'), cells', <<row', column'>>)
    BY DrawAllGives DEF Ready
  <2> QED BY <1>3, <1>4, <2>1, <2>2, UnderlineGives DEF CallDone
<1>5. CASE ~scrolls
  <2>1. cells' = text /\ cells' \in [Cells -> Chars]
    BY <1>1, <1>3, <1>5
  <2>2. ASSUME NEW c \in Cells
        PROVE  \/ drawn[c] \in {Open, Drawing, <<cells'[c], "plain">>}
               \/ c = cursor \/ c = <<row', column'>>
    <3>1. CASE torn' /\ (c = at \/ c = Home(at))
      BY <1>2, <3>1
    <3>2. CASE ~torn' /\ c = at
      BY <3>2 DEF Seeable
    <3>3. CASE c # at /\ c # Home(at)
      BY <1>1, <1>2, <2>1, <3>3 DEF Seeable
    <3> QED BY <3>1, <3>2, <3>3
  <2> QED BY <1>2, <1>3, <1>5, <2>1, <2>2, UnderlineGives DEF CallDone, Ready
<1> QED BY <1>4, <1>5

LEMMA ShowReturnDone ==
  ASSUME ~locked, cells \in [Cells -> Chars], Seeable, ShowReturn
  PROVE  CallDone
<1>1. cells' = cells /\ Underline(Seen, cells', <<row', column'>>)
  BY DEF ShowReturn
<1>2. OnCells(Seen) /\ Ready(Seen, cells', <<row', column'>>)
  BY <1>1 DEF Seeable, Ready
<1> QED BY <1>1, <1>2, UnderlineGives DEF CallDone

LEMMA ShowNewlineDone ==
  ASSUME ~locked, cells \in [Cells -> Chars], Seeable, ShowNewline
  PROVE  CallDone
<1>1. CASE LastRow
  <2>1. /\ cells' = Up(cells) /\ cells' \in [Cells -> Chars]
        /\ Underline(DrawAll(Seen, cells'), cells', <<row', column'>>)
    BY <1>1, UpTypes DEF ShowNewline
  <2>2. OnCells(DrawAll(Seen, cells')) /\ Ready(DrawAll(Seen, cells'), cells', <<row', column'>>)
    BY DrawAllGives DEF Ready
  <2> QED BY <2>1, <2>2, UnderlineGives DEF CallDone
<1>2. CASE ~LastRow
  BY <1>2, ShowReturnDone DEF ShowNewline, ShowReturn
<1> QED BY <1>1, <1>2

LEMMA ShowClearDone ==
  ASSUME ~locked, ShowClear, Clear
  PROVE  CallDone
<1>1. /\ cells' = Wiped /\ row' = 0 /\ column' = 0
      /\ Underline(Picture(Wiped, None), cells', <<row', column'>>)
  BY DEF ShowClear, Clear, WipedPicture
<1>2. Wiped \in [Cells -> Chars]
  BY ScreenAssumption DEF Wiped
<1>3. OnCells(Picture(Wiped, None)) /\ \A c \in Cells : Picture(Wiped, None)[c] = <<Wiped[c], "plain">>
  BY DEF Picture, OnCells, None, Cells
<1>4. Ready(Picture(Wiped, None), cells', <<row', column'>>)
  BY <1>1, <1>3 DEF Ready
<1> QED BY <1>1, <1>2, <1>3, <1>4, UnderlineGives DEF CallDone
-----------------------------------------------------------------------------
(* Where a call writes, unless it is torn, is on the screen. *)
CallsInside ==
  torn' \/ /\ Home(<<row, column>>) = <<row, column>>
           /\ Home(<<row', column'>>) = <<row', column'>>

LEMMA ShowsDone ==
  ASSUME ~locked, cells \in [Cells -> Chars], Seeable, CallsInside,
         ShowChar \/ ShowNewline \/ ShowReturn \/ ShowBackspace
  PROVE  CallDone
<1>1. ShowChar => CallDone
  <2> SUFFICES ASSUME NEW ch \in Chars,
                      ShowPut(<<row, column>>, ch, column + 1 = Width /\ LastRow)
               PROVE  CallDone
    BY DEF ShowChar
  <2>1. (column + 1 = Width /\ LastRow) \in BOOLEAN
    OBVIOUS
  <2> QED BY <2>1, ShowPutDone DEF CallsInside
<1>2. ShowBackspace => CallDone
  <2>1. Blank \in Chars /\ FALSE \in BOOLEAN BY ScreenAssumption
  <2> QED BY <2>1, ShowPutDone, ShowReturnDone DEF ShowBackspace, CallsInside
<1> QED BY <1>1, <1>2, ShowNewlineDone, ShowReturnDone

LEMMA RestSeeable ==
  ASSUME RestInv, CellsInv, PictureInv, ~locked, AtRest
  PROVE  Seeable
<1>1. Seen = shown /\ cursor = <<row, column>> /\ OnCells(shown)
  BY DEF RestInv, CellsInv, OnCells, Seen, AtRest
<1>2. ASSUME NEW c \in Cells
      PROVE  shown[c] \in {Open, Drawing, <<cells[c], "plain">>} \/ c = cursor
  <2>1. CellTrue(c) BY DEF PictureInv
  <2> QED BY <1>1, <2>1 DEF CellTrue
<1> QED BY <1>1, <1>2 DEF Seeable

LEMMA TornSeeable ==
  ASSUME PictureInv, ~locked, ~AtRest, torn'
  PROVE  Seeable
<1>1. Seen = Tear(shown, {row, cursor[1]})
  BY DEF Seen
<1>2. ASSUME NEW c \in Cells
      PROVE  Seen[c] \in {Open, Drawing, <<cells[c], "plain">>}
  <2>1. CellTrue(c) BY DEF PictureInv
  <2>2. CASE c[1] \in {row, cursor[1]}
    BY <1>1, <2>2 DEF Tear
  <2>3. CASE c[1] \notin {row, cursor[1]}
    <3>1. c # cursor /\ c # <<row, column>> /\ Seen[c] = shown[c]
      BY <1>1, <2>3 DEF Tear
    <3> QED BY <2>1, <3>1 DEF CellTrue
  <2> QED BY <2>2, <2>3
<1> QED BY <1>1, <1>2 DEF Seeable, OnCells, Tear

LEMMA DoneTrue ==
  ASSUME RestInv', ~locked', CallDone, cursor' = <<row', column'>>, torn' \/ pc' = "idle"
  PROVE  CellsInv' /\ PictureInv'
<1>1. CellsInv'
  BY DEF CallDone, CellsInv, OnCells
<1>2. ~torn' => PrintingHere'
  BY DEF PrintingHere
<1>3. \A c \in Cells :
        shown'[c] \in {Open, Drawing, <<cells'[c], IF c = cursor' THEN "underlined" ELSE "plain">>}
  BY DEF CallDone, Underlined
<1>4. (\A c \in Cells : CellTrue(c))'
  BY <1>3 DEF CellTrue
<1>5. Marked'
  BY <1>3 DEF Marked
<1>6. torn' => CursorOpen'
  BY DEF CallDone, Underlined, CursorOpen
<1> QED BY <1>1, <1>2, <1>4, <1>5, <1>6 DEF PictureInv
-----------------------------------------------------------------------------
(* Each step keeps the picture true. *)
LEMMA EchoTrue ==
  ASSUME VgaWidth <= Width, CursorInv, CursorInv',
         RestInv, RestInv', CellsInv, PictureInv, KeyEchoes, ~locked
  PROVE  CellsInv' /\ PictureInv'
<1>1. UNCHANGED <<pc, stage, locked>> /\ cursor' = <<row', column'>> /\ torn' = ~AtRest
  BY CallsMoveCursor DEF KeyEchoes, EchoChar, EchoBackspace, EchoNewline
<1>2. Seeable
  BY <1>1, RestSeeable, TornSeeable
<1>3. CallsInside
  <2>1. torn' \/ AtRest
    BY <1>1
  <2>2. AtRest => pc = "idle" /\ pc' = "idle"
    BY <1>1 DEF AtRest
  <2>3. AtRest => column \in Int /\ column < Width /\ column' \in Int /\ column' < Width
    BY <2>2, TerminalAssumption DEF CursorInv
  <2> QED BY <2>1, <2>3, HomeOnScreen DEF CallsInside
<1>4. CallDone
  BY <1>2, <1>3, ShowsDone DEF KeyEchoes, CellsInv
<1> QED BY <1>1, <1>4, DoneTrue DEF AtRest

LEMMA WriteTrue ==
  ASSUME VgaWidth <= Width, CursorInv, CursorInv',
         RestInv, RestInv', CellsInv, PictureInv, ProgramWrites, ~locked
  PROVE  CellsInv' /\ PictureInv'
<1>1. /\ AtRest /\ pc' = "idle" /\ ~locked' /\ torn' = FALSE
      /\ cursor' = <<row', column'>>
  BY CallsMoveCursor DEF ProgramWrites, ProgramPrints, AtRest
<1>2. Seeable
  BY <1>1, RestSeeable
<1>3. CallsInside
  <2>1. column \in Int /\ column < Width /\ column' \in Int /\ column' < Width
    BY <1>1, TerminalAssumption DEF CursorInv, AtRest
  <2> QED BY <2>1, HomeOnScreen DEF CallsInside
<1>4. CallDone
  BY <1>2, <1>3, ShowsDone, ShowClearDone DEF ProgramWrites, CellsInv
<1> QED BY <1>1, <1>4, DoneTrue

(* While the framebuffer is locked only the cells have to keep their type. *)
LEMMA LockedCells ==
  ASSUME RestInv, CellsInv, KeyEchoes \/ ProgramWrites, locked
  PROVE  CellsInv' /\ PictureInv'
<1>1. shown' = shown /\ locked' = locked
  BY LockedKeeps DEF KeyEchoes, ProgramWrites
<1> USE DEF CellsInv
<1>2. \A at, s : \A ch \in Chars : ShowPut(at, ch, s) => cells' \in [Cells -> Chars]
  BY PutTypes, UpTypes DEF ShowPut
<1>3. ShowChar => cells' \in [Cells -> Chars]
  BY <1>2 DEF ShowChar
<1>4. ShowReturn => cells' \in [Cells -> Chars]
  BY DEF ShowReturn
<1>5. ShowBackspace => cells' \in [Cells -> Chars]
  BY <1>2, <1>4, ScreenAssumption DEF ShowBackspace
<1>6. ShowNewline => cells' \in [Cells -> Chars]
  BY UpTypes DEF ShowNewline
<1>7. ShowClear => cells' \in [Cells -> Chars]
  BY ScreenAssumption DEF ShowClear, Wiped
<1> QED BY <1>1, <1>3, <1>4, <1>5, <1>6, <1>7 DEF KeyEchoes, ProgramWrites, PictureInv

LEMMA OwnerTrue ==
  ASSUME RestInv, CellsInv, PictureInv, Lock \/ Unlock \/ Draws
  PROVE  CellsInv' /\ PictureInv'
<1>1. CASE Lock
  BY <1>1 DEF Lock, CellsInv, PictureInv
<1>2. CASE Unlock
  <2>1. /\ UNCHANGED <<cells, torn, pc, stage, row, column>> /\ cursor' = <<row, column>>
        /\ shown' = Picture(cells, <<row, column>>) /\ AtRest
    BY <1>2 DEF Unlock, vars, RestInv, AtRest
  <2>2. \A c \in Cells : shown'[c] =
          <<cells[c], IF c = <<row, column>> THEN "underlined" ELSE "plain">>
    BY <2>1 DEF Picture
  <2>3. (\A c \in Cells : CellTrue(c))' /\ Marked'
    BY <2>1, <2>2 DEF CellTrue, Marked
  <2>4. PrintingHere' /\ AtRest' /\ CellsInv'
    BY <2>1 DEF PrintingHere, CellsInv, Picture, AtRest
  <2> QED BY <2>3, <2>4 DEF PictureInv
<1>3. CASE Draws
  <2>1. /\ UNCHANGED <<cells, cursor, locked, torn, stage, pc, row, column, atRow, atColumn>>
        /\ AtRest /\ AtRest'
    BY <1>3 DEF Draws, vars, AtRest
  <2>2. PICK d \in Cells : shown' = [shown EXCEPT ![d] = Drawing]
    BY <1>3 DEF Draws
  <2>3. CellsInv' /\ \A c \in Cells : shown'[c] = IF c = d THEN Drawing ELSE shown[c]
    BY <2>1, <2>2 DEF CellsInv
  <2>4. CASE locked
    BY <2>1, <2>3, <2>4 DEF PictureInv
  <2>5. CASE ~locked
    <3>1. (\A c \in Cells : CellTrue(c))'
      BY <2>1, <2>3, <2>5 DEF PictureInv, CellTrue
    <3>2. Marked'
      BY <2>1, <2>3, <2>5 DEF PictureInv, Marked
    <3>3. ~torn => PrintingHere'
      BY <2>1, <2>5 DEF PictureInv, PrintingHere
    <3> QED BY <2>1, <2>3, <3>1, <3>2, <3>3 DEF PictureInv
  <2> QED BY <2>4, <2>5
<1> QED BY <1>1, <1>2, <1>3

LEMMA PrintStepTrue ==
  ASSUME RestInv, CellsInv, PictureInv, ~locked,
         PrintBegins \/ PrintStores
  PROVE  CellsInv' /\ PictureInv'
<1>1. UNCHANGED <<cells, shown, cursor, locked>>
  BY DEF PrintBegins, PrintStores
<1>2. CellsInv'
  BY <1>1 DEF CellsInv
<1>3. CursorOpen => CursorOpen'
  BY <1>1 DEF CursorOpen
<1>4. \A c \in Cells : CellTrue(c)
  BY DEF PictureInv
<1>5. CASE PrintBegins
  <2>1. pc = "idle" /\ stage # "cursor" /\ ~AtRest' /\ torn' = (torn /\ stage = "clearing")
    BY <1>5 DEF PrintBegins, Begin, Goto, AtRest
  <2>2. (\A c \in Cells : CellTrue(c))'
    BY <1>1, <1>4, <2>1 DEF CellTrue
  <2>3. torn' => CursorOpen'
    BY <1>3, <2>1 DEF PictureInv, AtRest
  <2>4. PrintingHere'
    <3>1. pc' # "cell"
      BY <1>5 DEF PrintBegins, Begin, Goto
    <3>2. pc' = "load" => cursor = <<row, column>> /\ row' = row /\ column' = column /\ atRow' = row
      BY <1>5, <2>1 DEF PrintBegins, Begin, Goto, RestInv
    <3> QED BY <1>1, <3>1, <3>2 DEF PrintingHere
  <2> QED BY <1>2, <2>1, <2>2, <2>3, <2>4 DEF PictureInv
<1>6. CASE PrintStores
  <2>1. pc # "idle" /\ pc' # "load" /\ ~AtRest /\ ~AtRest' /\ torn' = torn
    BY <1>6 DEF PrintStores, Load, Wrap, WrapRow, ScrollCheck, NewlineRow, NewlineColumn,
                ClearColumn, Goto, Ends, AtRest
  <2>2. (\A c \in Cells : CellTrue(c))'
    BY <1>1, <1>4, <2>1 DEF CellTrue, RestInv
  <2>3. torn' => CursorOpen'
    BY <1>3, <2>1 DEF PictureInv
  <2>4. ~torn' => PrintingHere'
    <3>1. ~torn' /\ pc' = "cell"
            => cursor = <<row, column>> /\ UNCHANGED <<row, column, atRow>>
                 /\ atRow = row /\ atColumn' = column
      BY <1>6, <2>1 DEF PrintStores, Load, Wrap, WrapRow, ScrollCheck, NewlineRow,
                        NewlineColumn, ClearColumn, Goto, PrintingHere, PictureInv
    <3> QED BY <1>1, <2>1, <3>1 DEF PrintingHere
  <2> QED BY <1>2, <2>1, <2>2, <2>3, <2>4 DEF PictureInv
<1> QED BY <1>5, <1>6

(* The main loop writes a cell at the cursor, or where its step puts it. *)
LEMMA PrintCellTrue ==
  ASSUME RestInv, CellsInv, PictureInv, ~locked, NEW at, NEW ch \in Chars,
         PrintCell(at, ch), pc # "idle", pc' \notin {"load", "cell"},
         torn \/ (Home(at) = at /\ (at = cursor \/ (at = <<row', column'>> /\ pc' = "idle")))
  PROVE  CellsInv' /\ PictureInv'
<1>1. /\ cells' = Put(cells, at, ch) /\ shown' = Draw(shown, cells', at, "underlined")
      /\ stage' = Ends /\ UNCHANGED <<cursor, locked, torn>> /\ stage = "rest" /\ ~AtRest
  BY DEF PrintCell, RestInv, AtRest
<1>2. /\ cells' \in [Cells -> Chars]
      /\ \A c \in Cells : cells'[c] = IF c = Home(at) THEN ch ELSE cells[c]
  BY <1>1, PutTypes DEF CellsInv
<1>3. /\ OnCells(shown')
      /\ \A c \in Cells : \/ shown'[c] = Open
                          \/ c # at /\ shown'[c] = shown[c]
                          \/ c = at /\ shown'[c] = <<cells'[c], "underlined">>
      /\ \A c \in Cells : shown[c] = Open => shown'[c] = Open
      /\ torn' => \A c \in Cells : c[1] \in {at[1], Home(at)[1]} => shown'[c] = Open
  BY <1>1, DrawGives DEF CellsInv, OnCells
<1>4. CellsInv'
  BY <1>2, <1>3 DEF CellsInv, OnCells
<1>5. ASSUME NEW c \in Cells PROVE CellTrue(c)'
  <2>1. CellTrue(c)
    BY DEF PictureInv
  <2>2. CASE torn /\ (c = at \/ c = Home(at))
    BY <1>1, <1>3, <2>2 DEF CellTrue
  <2>3. CASE ~torn /\ c = at
    <3>1. c = cursor' \/ (stage' = "cursor" /\ c = <<row', column'>>)
      BY <1>1, <2>3 DEF Ends
    <3> QED BY <1>3, <2>3, <3>1 DEF CellTrue
  <2>4. CASE c # at /\ c # Home(at)
    <3>1. cells'[c] = cells[c] /\ (shown'[c] = Open \/ shown'[c] = shown[c])
      BY <1>2, <1>3, <2>4
    <3> QED BY <1>1, <2>1, <3>1 DEF CellTrue
  <2> QED BY <2>2, <2>3, <2>4
<1>6. torn' => CursorOpen'
  BY <1>1, <1>3 DEF PictureInv, CursorOpen
<1>7. ~AtRest' /\ PrintingHere'
  BY <1>1 DEF Ends, PrintingHere, AtRest
<1> QED BY <1>4, <1>5, <1>6, <1>7 DEF PictureInv

LEMMA PrintCellsTrue ==
  ASSUME VgaWidth <= Width, CursorInv, RestInv, CellsInv, PictureInv, ~locked, PrintCells
  PROVE  CellsInv' /\ PictureInv'
<1>1. pc # "idle" /\ pc' \notin {"load", "cell"} /\ ~AtRest
  BY DEF PrintCells, Advance, Erase, EraseColumn, Goto, AtRest
<1>2. pc = "cell" => torn \/ (cursor = <<row, column>> /\ atRow = row /\ atColumn = column)
  BY DEF PictureInv, PrintingHere
<1>3. CASE Advance /\ \E ch \in Chars : PrintCell(<<atRow, atColumn>>, ch)
  <2>1. PICK ch \in Chars : PrintCell(<<atRow, atColumn>>, ch)
    BY <1>3
  <2>2. torn \/ <<atRow, atColumn>> = cursor
    BY <1>2, <1>3 DEF Advance, Goto
  <2>3. Home(<<atRow, atColumn>>) = <<atRow, atColumn>>
    BY HomeOnScreen, TerminalAssumption DEF CursorInv
  <2> QED BY <1>1, <2>1, <2>2, <2>3, PrintCellTrue
<1>4. CASE Erase /\ pc' = "idle" /\ atColumn > 0 /\ PrintCell(<<atRow, atColumn - 1>>, Blank)
  <2>1. torn \/ <<atRow, atColumn - 1>> = <<row', column'>>
    BY <1>2, <1>4 DEF Erase, Goto
  <2>2. Home(<<atRow, atColumn - 1>>) = <<atRow, atColumn - 1>>
    BY HomeOnScreen, TerminalAssumption DEF CursorInv
  <2> QED BY <1>1, <1>4, <2>1, <2>2, PrintCellTrue, ScreenAssumption
<1>5. CASE /\ Erase /\ (pc' # "idle" \/ atColumn = 0) /\ stage' = Ends
           /\ UNCHANGED <<cells, shown, cursor, locked, torn>>
  <2>1. CellsInv'
    BY <1>5 DEF CellsInv
  <2>2. \A c \in Cells : CellTrue(c)
    BY DEF PictureInv
  <2>3. (\A c \in Cells : CellTrue(c))'
    BY <1>1, <1>5, <2>2 DEF CellTrue, RestInv
  <2>4. ~AtRest' /\ PrintingHere'
    BY <1>1, <1>5 DEF Ends, PrintingHere, RestInv, AtRest
  <2>5. torn' => CursorOpen'
    BY <1>1, <1>5 DEF PictureInv, CursorOpen
  <2> QED BY <2>1, <2>3, <2>4, <2>5 DEF PictureInv
<1>6. CASE EraseColumn /\ PrintCell(<<row, column'>>, Blank)
  <2>1. column' = VgaWidth - 1 /\ row' = row /\ pc' = "idle"
    BY <1>6 DEF EraseColumn, Goto
  <2>2. Home(<<row, column'>>) = <<row, column'>>
    BY <2>1, HomeOnScreen, TerminalAssumption
  <2> QED BY <1>1, <1>6, <2>1, <2>2, PrintCellTrue, ScreenAssumption
<1> QED BY <1>3, <1>4, <1>5, <1>6 DEF PrintCells

LEMMA PrintRestTrue ==
  ASSUME RestInv, RestInv', CellsInv, PictureInv, ~locked,
         ClearPaints \/ PrintScrolls \/ PrintEnds
  PROVE  CellsInv' /\ PictureInv'
<1>1. CASE ClearPaints
  <2>1. /\ cells' = Wiped /\ shown' = Picture(Wiped, None) /\ stage' = "clearing" /\ pc = "idle"
        /\ torn' = FALSE /\ UNCHANGED <<pc, cursor, locked>>
    BY <1>1 DEF ClearPaints, WipedPicture, AtRest, vars
  <2>2. \A c \in Cells : shown'[c] = <<cells'[c], "plain">>
    BY <2>1 DEF Picture, Cells, None
  <2>3. CellsInv'
    BY <2>1, ScreenAssumption DEF CellsInv, Wiped, Picture
  <2> QED BY <2>1, <2>2, <2>3 DEF PictureInv, CellTrue, PrintingHere, AtRest
<1>2. CASE PrintScrolls
  <2>1. /\ cells' = Up(cells) /\ shown' = DrawAll(shown, cells') /\ stage' = "cursor"
        /\ pc' = "idle" /\ UNCHANGED <<cursor, locked, torn>>
    BY <1>2 DEF PrintScrolls, Scroll, Goto, Ends
  <2>2. OnCells(shown') /\ \A c \in Cells : shown'[c] =
          IF torn' THEN Open ELSE <<cells'[c], "plain">>
    BY <2>1, DrawAllGives
  <2>3. CellsInv'
    BY <2>1, <2>2, UpTypes DEF CellsInv, OnCells
  <2>4. ~AtRest' /\ PrintingHere'
    BY <2>1 DEF AtRest, PrintingHere
  <2> QED BY <2>2, <2>3, <2>4 DEF PictureInv, CellTrue, CursorOpen
<1>3. CASE PrintEnds
  <2>1. /\ UNCHANGED <<cells, locked, torn, row, column>> /\ pc' = "idle"
        /\ Underline(shown, cells', <<row, column>>)
    BY <1>3 DEF PrintEnds, vars
  <2>2. OnCells(shown) /\ cells' \in [Cells -> Chars]
    BY <2>1 DEF CellsInv, OnCells
  <2>3. ASSUME NEW c \in Cells
        PROVE  \/ shown[c] \in {Open, Drawing, <<cells'[c], "plain">>}
               \/ c = cursor \/ c = <<row, column>>
    <3>1. CellTrue(c) BY DEF PictureInv
    <3> QED BY <2>1, <3>1 DEF CellTrue
  <2>4. OnCells(shown)' /\ cursor' = <<row, column>> /\ Underlined(<<row, column>>)
    BY <2>1, <2>2, <2>3, UnderlineGives DEF Ready
  <2>5. CallDone /\ cursor' = <<row', column'>>
    BY <2>1, <2>2, <2>4 DEF CallDone
  <2> QED BY <2>1, <2>5, DoneTrue
<1> QED BY <1>1, <1>2, <1>3

LEMMA PictureStep ==
  ASSUME VgaWidth <= Width, CursorInv, RestInv, CellsInv, PictureInv, [ScreenNext]_screenVars
  PROVE  CellsInv' /\ PictureInv'
<1>1. RestInv' /\ CursorInv' BY RestStep, ScreenStep, NextCursor
<1>2. CASE KeyEchoes BY <1>1, <1>2, EchoTrue, LockedCells
<1>3. CASE ProgramWrites BY <1>1, <1>3, WriteTrue, LockedCells
<1>4. CASE Lock \/ Unlock \/ Draws BY <1>4, OwnerTrue
<1>5. CASE MainLoop
  BY <1>1, <1>5, MainLoopUnlocked, PrintStepTrue, PrintCellsTrue, PrintRestTrue DEF MainLoop
<1>6. CASE UNCHANGED screenVars
  BY <1>6 DEF screenVars, vars, CellsInv, PictureInv, CellTrue, Marked, CursorOpen, PrintingHere,
              AtRest
<1> QED BY <1>2, <1>3, <1>4, <1>5, <1>6 DEF ScreenNext

LEMMA InitPicture == ScreenInit => CellsInv /\ PictureInv
<1> SUFFICES ASSUME ScreenInit PROVE CellsInv /\ PictureInv
  OBVIOUS
<1>1. CellsInv
  BY ScreenAssumption DEF ScreenInit, CellsInv, Picture
<1>2. \A c \in Cells : shown[c] =
        <<cells[c], IF c = <<0, 0>> THEN "underlined" ELSE "plain">>
  BY DEF ScreenInit, Picture
<1>3. (\A c \in Cells : CellTrue(c)) /\ Marked /\ PrintingHere /\ AtRest
  BY <1>2 DEF ScreenInit, Init, CellTrue, Marked, PrintingHere, AtRest
<1> QED BY <1>1, <1>3 DEF PictureInv

LEMMA PictureHolds ==
  ASSUME RestInv, PictureInv
  PROVE  PictureIsTrue
<1> SUFFICES ASSUME ~locked, AtRest, NEW c \in Cells
             PROVE  shown[c] \in {Open, Drawing, Picture(cells, <<row, column>>)[c]}
  BY DEF PictureIsTrue
<1>1. Picture(cells, <<row, column>>)[c] =
        <<cells[c], IF c = <<row, column>> THEN "underlined" ELSE "plain">>
  BY DEF Picture
<1>2. cursor = <<row, column>> /\ stage = "rest" BY DEF RestInv, AtRest
<1>3. CellTrue(c) /\ Marked BY DEF PictureInv
<1> QED BY <1>1, <1>2, <1>3 DEF CellTrue, Marked

(* Outside a lock, and when nothing is being printed, the framebuffer shows
   what the cells hold with the underline under the cursor alone, but for what
   was drawn over it and for the rows that a key echoed in the middle of a call
   of the main loop left open: on every screen at least as wide as the text
   mode, where no untorn call writes past the edge
   (terminal_draw_framebuffer_cell, terminal_update_cursor,
   scroll_if_needed, terminal_redraw_framebuffer). *)
THEOREM PictureStaysTrue == VgaWidth <= Width => (ScreenSpec => []PictureIsTrue)
<1> SUFFICES ASSUME VgaWidth <= Width PROVE ScreenSpec => []PictureIsTrue
  OBVIOUS
<1> DEFINE All == CursorInv /\ RestInv /\ CellsInv /\ PictureInv
<1>1. ScreenInit => All
  BY InitCursor, InitRest, InitPicture DEF ScreenInit
<1>2. All /\ [ScreenNext]_screenVars => All'
  BY ScreenStep, NextCursor, RestStep, PictureStep
<1>3. All => PictureIsTrue
  BY PictureHolds
<1> HIDE DEF All
<1> QED BY <1>1, <1>2, <1>3, PTL DEF ScreenSpec
-----------------------------------------------------------------------------
(* Types.  With CursorInv, what is left of Terminal's: keys carry the column at
   most Overrun places past the edge. *)
CursorTypes ==
  /\ column \in 0 .. Width + Overrun
  /\ typed \in {Nowhere} \cup ((-1 .. Height) \X (0 .. Width + Overrun))

LEMMA CursorTypesStep ==
  ASSUME VgaWidth <= Width, CursorInv, CursorTypes, [Next]_vars
  PROVE  CursorTypes'
<1> USE TerminalAssumption DEF CursorInv, CursorTypes, Goto
<1>1. CASE EchoChar
  <2>1. column' \in 0 .. Width + Overrun
    BY <1>1 DEF EchoChar, PutChar
  <2>2. typed' \in {Nowhere} \cup ((-1 .. Height) \X (0 .. Width + Overrun))
    <3>1. typed' \in {Nowhere, <<row - 1, column>>, <<row, column>>}
      BY <1>1 DEF EchoChar
    <3>2. row - 1 \in -1 .. Height /\ row \in -1 .. Height /\ column \in 0 .. Width + Overrun
      OBVIOUS
    <3> QED BY <3>1, <3>2
  <2> QED BY <2>1, <2>2
<1>2. CASE EchoBackspace BY <1>2 DEF EchoBackspace, PutBackspace
<1>3. CASE EchoNewline BY <1>3 DEF EchoNewline, PutNewline
<1>4. CASE ProgramPrints
  <2>1. typed' = Nowhere /\ column < Width
    BY <1>4 DEF ProgramPrints
  <2>2. column' \in 0 .. Width
    BY <1>4, <2>1 DEF ProgramPrints, PutChar, PutNewline, PutReturn, PutBackspace, Clear
  <2> QED BY <2>1, <2>2
<1>5. CASE Printing
  <2>1. CASE Begin BY <2>1 DEF Begin, PutReturn
  <2>2. CASE Load \/ Advance BY <2>2 DEF Load, Advance
  <2>3. CASE Wrap \/ WrapRow BY <2>3 DEF Wrap, WrapRow
  <2>4. CASE ScrollCheck \/ Scroll BY <2>4 DEF ScrollCheck, Scroll
  <2> QED BY <1>5, <2>1, <2>2, <2>3, <2>4 DEF Printing
<1>6. CASE Rest
  <2>1. CASE NewlineRow \/ NewlineColumn BY <2>1 DEF NewlineRow, NewlineColumn
  <2>2. CASE Erase BY <2>2 DEF Erase
  <2>3. CASE EraseColumn \/ ClearColumn BY <2>3 DEF EraseColumn, ClearColumn
  <2> QED BY <1>6, <2>1, <2>2, <2>3 DEF Rest
<1>7. CASE UNCHANGED vars
  BY <1>7 DEF vars
<1> QED BY <1>1, <1>2, <1>3, <1>4, <1>5, <1>6, <1>7 DEF Next, Echo

(* What a cell of the framebuffer may show. *)
Looks == {Open, Drawing} \cup (Chars \X {"plain", "underlined"})
Places == {None} \cup ((0 .. Height) \X (0 .. Width + Overrun))

ShownTypes ==
  /\ shown \in [Cells -> Looks] /\ cursor \in Places
  /\ locked \in BOOLEAN /\ torn \in BOOLEAN /\ stage \in {"rest", "clearing", "cursor"}

LEMMA TearTypes ==
  ASSUME NEW p \in [Cells -> Looks], NEW rows
  PROVE  Tear(p, rows) \in [Cells -> Looks]
BY DEF Tear, Looks

LEMMA DrawTypes ==
  ASSUME NEW p \in [Cells -> Looks], NEW t \in [Cells -> Chars], NEW c,
         NEW m \in {"plain", "underlined"}
  PROVE  Draw(p, t, c, m) \in [Cells -> Looks]
<1>1. Tear(p, {c[1], Home(c)[1]}) \in [Cells -> Looks]
  BY TearTypes
<1>2. CASE c \in Cells
  <2>1. t[c] \in Chars
    BY <1>2
  <2>2. <<t[c], m>> \in Looks
    BY <2>1 DEF Looks
  <2> QED BY <1>1, <2>2 DEF Draw
<1>3. CASE c \notin Cells
  BY <1>1, <1>3 DEF Draw
<1> QED BY <1>2, <1>3

LEMMA DrawAllTypes ==
  ASSUME NEW p \in [Cells -> Looks], NEW t \in [Cells -> Chars]
  PROVE  DrawAll(p, t) \in [Cells -> Looks]
<1>1. ASSUME NEW c \in Cells PROVE <<t[c], "plain">> \in Looks /\ Open \in Looks
  BY DEF Looks
<1> QED BY <1>1 DEF DrawAll

LEMMA PictureTypes ==
  ASSUME NEW t \in [Cells -> Chars], NEW at
  PROVE  Picture(t, at) \in [Cells -> Looks]
<1>1. ASSUME NEW c \in Cells
      PROVE  <<t[c], "plain">> \in Looks /\ <<t[c], "underlined">> \in Looks
  BY DEF Looks
<1> QED BY <1>1 DEF Picture

LEMMA UnderlineTypes ==
  ASSUME NEW p \in [Cells -> Looks], NEW t \in [Cells -> Chars], NEW at \in Places,
         Underline(p, t, at)
  PROVE  shown' \in [Cells -> Looks] /\ cursor' \in Places
<1>1. Draw(p, t, cursor, "plain") \in [Cells -> Looks]
  BY DrawTypes
<1>2. shown' \in [Cells -> Looks]
  BY <1>1, DrawTypes DEF Underline
<1> QED BY <1>2 DEF Underline, Places

LEMMA ShowPutTypes ==
  ASSUME cells \in [Cells -> Chars], Seen \in [Cells -> Looks], <<row', column'>> \in Places,
         NEW at, NEW ch \in Chars, NEW scrolls,
         ShowPut(at, ch, scrolls)
  PROVE  shown' \in [Cells -> Looks] /\ cursor' \in Places
<1> DEFINE text == Put(cells, at, ch)
           drawn == Draw(Seen, text, at, "underlined")
<1>1. text \in [Cells -> Chars] /\ drawn \in [Cells -> Looks]
  BY PutTypes, DrawTypes
<1>2. /\ cells' = IF scrolls THEN Up(text) ELSE text
      /\ Underline(IF scrolls THEN DrawAll(drawn, cells') ELSE drawn, cells', <<row', column'>>)
  BY DEF ShowPut
<1> HIDE DEF text, drawn
<1>3. cells' \in [Cells -> Chars]
  BY <1>1, <1>2, UpTypes
<1>4. DrawAll(drawn, cells') \in [Cells -> Looks]
  BY <1>1, <1>3, DrawAllTypes
<1> QED BY <1>1, <1>2, <1>3, <1>4, UnderlineTypes

LEMMA CallTypes ==
  ASSUME cells \in [Cells -> Chars], shown \in [Cells -> Looks], <<row', column'>> \in Places,
         ShowChar \/ ShowNewline \/ ShowReturn \/ ShowBackspace
  PROVE  shown' \in [Cells -> Looks] /\ cursor' \in Places
<1>1. Seen \in [Cells -> Looks]
  BY TearTypes DEF Seen
<1>2. CASE ShowChar
  BY <1>1, <1>2, ShowPutTypes DEF ShowChar
<1>3. CASE ShowReturn
  BY <1>1, <1>3, UnderlineTypes DEF ShowReturn
<1>4. CASE ShowNewline
  <2>1. Up(cells) \in [Cells -> Chars]
    BY UpTypes
  <2>2. DrawAll(Seen, Up(cells)) \in [Cells -> Looks]
    BY <1>1, <2>1, DrawAllTypes
  <2>3. CASE LastRow
    BY <1>4, <2>1, <2>2, <2>3, UnderlineTypes DEF ShowNewline
  <2>4. CASE ~LastRow
    BY <1>1, <1>4, <2>4, UnderlineTypes DEF ShowNewline
  <2> QED BY <2>3, <2>4
<1>5. CASE ShowBackspace
  BY <1>1, <1>3, <1>5, ShowPutTypes, ScreenAssumption DEF ShowBackspace
<1> QED BY <1>2, <1>3, <1>4, <1>5

LEMMA ShownTypesStep ==
  ASSUME ShownTypes, CellsInv, <<row, column>> \in Places, <<row', column'>> \in Places,
         RestInv, [ScreenNext]_screenVars
  PROVE  ShownTypes'
<1> USE DEF ShownTypes, CellsInv
<1>1. CASE KeyEchoes
  <2>1. torn' \in BOOLEAN
    BY <1>1 DEF KeyEchoes, AtRest
  <2> QED BY <1>1, <2>1, CallTypes DEF KeyEchoes
<1>2. CASE ProgramWrites
  <2>1. CASE Clear /\ ShowClear
    <3>1. Wiped \in [Cells -> Chars]
      BY ScreenAssumption DEF Wiped
    <3>2. WipedPicture \in [Cells -> Looks]
      BY <3>1, PictureTypes DEF WipedPicture
    <3>3. <<0, 0>> \in Places
      BY <2>1 DEF Clear
    <3> QED BY <1>2, <2>1, <3>1, <3>2, <3>3, UnderlineTypes DEF ShowClear, ProgramWrites
  <2>2. CASE ~(Clear /\ ShowClear)
    BY <1>2, <2>2, CallTypes DEF ProgramWrites
  <2> QED BY <2>1, <2>2
<1>3. CASE Lock
  BY <1>3 DEF Lock, Places
<1>4. CASE Unlock
  BY <1>4, PictureTypes DEF Unlock
<1>5. CASE Draws
  <2>1. Drawing \in Looks
    BY DEF Looks
  <2> QED BY <1>5, <2>1 DEF Draws
<1>6. CASE ClearPaints
  <2>1. Wiped \in [Cells -> Chars]
    BY ScreenAssumption DEF Wiped
  <2>2. WipedPicture \in [Cells -> Looks]
    BY <2>1, PictureTypes DEF WipedPicture
  <2> QED BY <1>6, <2>2 DEF ClearPaints
<1>7. CASE PrintBegins
  BY <1>7 DEF PrintBegins
<1>8. CASE PrintStores
  BY <1>8 DEF PrintStores, Ends
<1>9. CASE PrintCells
  <2>1. ASSUME NEW at, NEW ch \in Chars, PrintCell(at, ch)
        PROVE  ShownTypes'
    <3>1. Put(cells, at, ch) \in [Cells -> Chars]
      BY PutTypes
    <3>2. shown' \in [Cells -> Looks]
      BY <2>1, <3>1, DrawTypes DEF PrintCell
    <3> QED BY <2>1, <3>2 DEF PrintCell, Ends
  <2>2. CASE Erase /\ stage' = Ends /\ UNCHANGED <<cells, shown, cursor, locked, torn>>
    BY <2>2 DEF Ends
  <2> QED BY <1>9, <2>1, <2>2, ScreenAssumption DEF PrintCells
<1>10. CASE PrintScrolls
  <2>1. Up(cells) \in [Cells -> Chars]
    BY UpTypes
  <2> QED BY <1>10, <2>1, DrawAllTypes DEF PrintScrolls, Ends
<1>11. CASE PrintEnds
  BY <1>11, UnderlineTypes DEF PrintEnds
<1>12. CASE UNCHANGED screenVars
  BY <1>12 DEF screenVars
<1> QED BY <1>1, <1>2, <1>3, <1>4, <1>5, <1>6, <1>7, <1>8, <1>9, <1>10, <1>11, <1>12
        DEF ScreenNext, MainLoop

(* Every variable of the screen and its cursor keeps its type, on every screen
   at least as wide as the text mode: the column never goes further than the
   keys echoed in the middle of one wrap carry it, and what a cell shows is one
   character with or without the underline, or a program's drawing. *)
THEOREM ScreenTyped == VgaWidth <= Width => (ScreenSpec => []ScreenTypeOK)
<1> SUFFICES ASSUME VgaWidth <= Width PROVE ScreenSpec => []ScreenTypeOK
  OBVIOUS
<1> DEFINE All == /\ CursorInv /\ CursorTypes /\ ShownTypes
                  /\ RestInv /\ CellsInv /\ PictureInv
<1>1. ScreenInit => All
  <2> SUFFICES ASSUME ScreenInit PROVE All
    OBVIOUS
  <2>1. CursorInv /\ RestInv /\ CellsInv /\ PictureInv
    BY InitCursor, InitRest, InitPicture DEF ScreenInit
  <2>2. CursorTypes
    BY TerminalAssumption DEF ScreenInit, Init, CursorTypes
  <2>3. ShownTypes
    <3>1. shown \in [Cells -> Looks]
      BY <2>1, PictureTypes DEF ScreenInit, CellsInv
    <3>2. 0 \in 0 .. Height /\ 0 \in 0 .. Width + Overrun
      BY TerminalAssumption
    <3>3. cursor \in Places
      BY <3>2 DEF ScreenInit, Places
    <3>4. locked \in BOOLEAN /\ torn \in BOOLEAN /\ stage \in {"rest", "clearing", "cursor"}
      BY DEF ScreenInit
    <3> QED BY <3>1, <3>3, <3>4 DEF ShownTypes
  <2> QED BY <2>1, <2>2, <2>3
<1>2. CursorInv /\ CursorTypes => <<row, column>> \in Places
  BY DEF CursorInv, CursorTypes, Places
<1>3. All /\ [ScreenNext]_screenVars => All'
  <2> SUFFICES ASSUME All, [ScreenNext]_screenVars PROVE All'
    OBVIOUS
  <2>1. [Next]_vars
    BY ScreenStep
  <2>2. CursorInv' /\ CursorTypes'
    BY <2>1, NextCursor, CursorTypesStep
  <2>3. <<row', column'>> \in Places
    BY <2>2 DEF CursorInv, CursorTypes, Places
  <2>4. ShownTypes'
    BY <1>2, <2>3, ShownTypesStep
  <2> QED BY <2>2, <2>4, RestStep, PictureStep
<1>4. All => ScreenTypeOK
  BY DEF ScreenTypeOK, TypeOK, CursorInv, CursorTypes, ShownTypes, CellsInv, Looks, Places
<1> HIDE DEF All
<1> QED BY <1>1, <1>3, <1>4, PTL DEF ScreenSpec
===============================================================================
