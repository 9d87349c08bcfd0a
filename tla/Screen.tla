-------------------------------- MODULE Screen --------------------------------
(***************************************************************************)
(* The terminal on a framebuffer (terminal.c): the cells it keeps, the     *)
(* picture of them, the underline that shows the cursor, and the lock that *)
(* leaves the picture to a program.  The cursor and the steps of the main  *)
(* loop's printing are Terminal's; a step there has its cells and picture  *)
(* here.                                                                   *)
(*                                                                         *)
(* The handler's echo and a program's calls are one step.  When a key is   *)
(* echoed in the middle of the main loop's printing, what the two draw is  *)
(* mixed, and the cursor that is kept may be one that has passed: what     *)
(* stands in the rows they draw in is left open until it is all drawn      *)
(* again.  Every other row is the picture of its cells.                    *)
(***************************************************************************)
EXTENDS Terminal, FiniteSets

CONSTANTS FramebufferWidth, FramebufferHeight,  \* in pixels
          MaxColumns, MaxRows,                  \* TERMINAL_MAX_COLUMNS, _ROWS
          Chars,    \* what a cell may show
          Blank     \* ' '

FontWidth == 8
FontHeight == 16

(* terminal_initialize: cells that fit, as many as there is room for. *)
Fitting(pixels, font, most) ==
  IF pixels \div font > most THEN most ELSE pixels \div font

ASSUME ScreenAssumption ==
  /\ FramebufferWidth \in Nat /\ FramebufferHeight \in Nat
  /\ MaxColumns \in Nat /\ MaxRows \in Nat
  /\ Width = Fitting(FramebufferWidth, FontWidth, MaxColumns)
  /\ Height = Fitting(FramebufferHeight, FontHeight, MaxRows)
  /\ Blank \in Chars /\ "open" \notin Chars /\ "drawing" \notin Chars

VARIABLES cells,    \* g_cells, the part on the screen
          shown,    \* what the framebuffer shows at each cell, and whether underlined
          cursor,   \* g_cursor_row, g_cursor_column, or None while not g_cursor_visible
          locked,   \* g_framebuffer_locked
          torn,     \* a key was echoed in the middle of the main loop's last call
          stage     \* how far the main loop is around Terminal's steps: "rest",
                    \* "clearing" before them, "cursor" after them

screenVars == <<vars, cells, shown, cursor, locked, torn, stage>>

Cells == (0 .. Height - 1) \X (0 .. Width - 1)
None == <<-1, -1>>
Open == <<"open", "plain">>        \* not known, after a torn call
Drawing == <<"drawing", "plain">>  \* what a program or the rect demo drew

(* What a cell shows when the cursor is at `at'. *)
Picture(text, at) ==
  [c \in Cells |-> <<text[c], IF c = at THEN "underlined" ELSE "plain">>]

ScreenInit ==
  /\ Init
  /\ cells = [c \in Cells |-> Blank]
  /\ shown = Picture(cells, <<0, 0>>)
  /\ cursor = <<0, 0>> /\ locked = FALSE /\ torn = FALSE /\ stage = "rest"
-----------------------------------------------------------------------------
(* Pictures. *)

AtRest == pc = "idle" /\ stage = "rest"

(* Where g_cells keeps a cell: its rows lie one behind the other. *)
Home(c) ==
  IF c[2] < MaxColumns THEN c
  ELSE <<c[1] + c[2] \div MaxColumns, c[2] % MaxColumns>>

Tear(picture, rows) == [c \in Cells |-> IF c[1] \in rows THEN Open ELSE picture[c]]

(* Mutant of Draw: without the look at the lock. *)
DrawLocked(picture, text, c, mark) ==
  IF torn' THEN Tear(picture, {c[1], Home(c)[1]})
  ELSE IF c \notin Cells \/ picture[c] = Open THEN picture
  ELSE [picture EXCEPT ![c] = <<text[c], mark>>]

(* terminal_draw_framebuffer_cell: nothing while locked or off the screen.  In
   a torn call the row is left open, and the one where its cell is kept. *)
Draw(picture, text, c, mark) ==
  IF locked THEN picture
  ELSE IF torn' THEN Tear(picture, {c[1], Home(c)[1]})
  ELSE IF c \notin Cells \/ picture[c] = Open THEN picture
  ELSE [picture EXCEPT ![c] = <<text[c], mark>>]

(* Every cell drawn again, by a scroll. *)
DrawAll(picture, text) ==
  IF locked THEN picture
  ELSE [c \in Cells |-> IF torn' THEN Open ELSE <<text[c], "plain">>]

(* terminal_update_cursor, for the cursor at `at'. *)
Underline(picture, text, at) ==
  /\ shown' = Draw(Draw(picture, text, cursor, "plain"), text, at, "underlined")
  /\ cursor' = IF locked THEN None ELSE at

Put(text, c, ch) == IF Home(c) \in Cells THEN [text EXCEPT ![Home(c)] = ch] ELSE text

Up(text) == [c \in Cells |-> IF c[1] + 1 < Height THEN text[<<c[1] + 1, c[2]>>] ELSE Blank]

(* What a call finds: one in the middle of the main loop's, which may itself be
   drawing at the cursor, tears those rows. *)
Seen == IF AtRest THEN shown ELSE Tear(shown, {row, cursor[1]})

(* A call that writes ch at `at' and, if `scrolls', moves the rows up, then
   puts the cursor where Terminal's step leaves it. *)
ShowPut(at, ch, scrolls) ==
  LET text == Put(cells, at, ch)
      drawn == Draw(Seen, text, at, "underlined")
  IN  /\ cells' = IF scrolls THEN Up(text) ELSE text
      /\ Underline(IF scrolls THEN DrawAll(drawn, cells') ELSE drawn,
                   cells', <<row', column'>>)

LastRow == row + 1 >= Height

ShowChar ==
  \E ch \in Chars : ShowPut(<<row, column>>, ch, column + 1 = Width /\ LastRow)

ShowNewline ==
  /\ cells' = IF LastRow THEN Up(cells) ELSE cells
  /\ Underline(IF LastRow THEN DrawAll(Seen, cells') ELSE Seen, cells', <<row', column'>>)

ShowReturn == cells' = cells /\ Underline(Seen, cells, <<row', column'>>)

ShowBackspace ==
  IF row = 0 /\ column = 0 THEN ShowReturn
  ELSE ShowPut(<<row', column'>>, Blank, FALSE)

Wiped == [c \in Cells |-> Blank]
WipedPicture == IF locked THEN shown ELSE Picture(Wiped, None)

ShowClear == cells' = Wiped /\ Underline(WipedPicture, Wiped, <<0, 0>>)
-----------------------------------------------------------------------------
(* The keyboard's echo, between any two steps. *)
KeyEchoes ==
  /\ torn' = ~AtRest
  /\ \/ EchoChar /\ ShowChar
     \/ EchoBackspace /\ ShowBackspace
     \/ EchoNewline /\ ShowNewline
  /\ UNCHANGED <<locked, stage>>

(* What a program prints, with or without the framebuffer. *)
ProgramWrites ==
  /\ stage = "rest" /\ ProgramPrints
  /\ torn' = FALSE
  /\ \/ PutChar /\ ShowChar
     \/ PutNewline /\ ShowNewline
     \/ PutReturn /\ ShowReturn
     \/ PutBackspace /\ ShowBackspace
     \/ Clear /\ ShowClear
  /\ UNCHANGED <<locked, stage>>

(* terminal_set_framebuffer_lock, for the first descriptor that is opened and
   the last that is closed. *)
Lock ==
  /\ AtRest /\ ~locked
  /\ locked' = TRUE /\ cursor' = None
  /\ UNCHANGED <<vars, cells, shown, torn, stage>>

(* Mutant of Unlock: the cells are not drawn again. *)
UnlockBare ==
  /\ locked /\ locked' = FALSE
  /\ shown' = [shown EXCEPT ![<<row, column>>] = <<cells[<<row, column>>], "underlined">>]
  /\ cursor' = <<row, column>>
  /\ UNCHANGED <<vars, cells, torn, stage>>

Unlock ==
  /\ locked /\ locked' = FALSE
  /\ shown' = Picture(cells, <<row, column>>)
  /\ cursor' = <<row, column>>
  /\ UNCHANGED <<vars, cells, torn, stage>>

(* A program draws on the framebuffer it has locked, or the shell's rect demo
   on one that nobody has. *)
Draws ==
  /\ AtRest
  /\ \E c \in Cells : shown[c] # Open /\ shown' = [shown EXCEPT ![c] = Drawing]
  /\ UNCHANGED <<vars, cells, cursor, locked, torn, stage>>
-----------------------------------------------------------------------------
(* The main loop; it prints while no program runs, and then nothing is locked. *)
Ends == IF pc' = "idle" THEN "cursor" ELSE stage

ClearPaints ==
  /\ AtRest /\ ~locked
  /\ cells' = Wiped /\ shown' = WipedPicture /\ stage' = "clearing" /\ torn' = FALSE
  /\ UNCHANGED <<vars, cursor, locked>>

PrintBegins ==
  /\ ~locked /\ Begin
  /\ stage = IF pc' = "clearColumn" THEN "clearing" ELSE "rest"
  /\ stage' = IF pc' = "idle" THEN "cursor" ELSE "rest"
  /\ torn' = (torn /\ stage = "clearing")
  /\ UNCHANGED <<cells, shown, cursor, locked>>

PrintStores ==
  /\ Load \/ Wrap \/ WrapRow \/ ScrollCheck \/ NewlineRow \/ NewlineColumn \/ ClearColumn
  /\ stage' = Ends
  /\ UNCHANGED <<cells, shown, cursor, locked, torn>>

(* A cell written by the main loop, at the place it has read. *)
PrintCell(at, ch) ==
  /\ UNCHANGED <<cursor, locked, torn>>
  /\ cells' = Put(cells, at, ch) /\ shown' = Draw(shown, cells', at, "underlined")
  /\ stage' = Ends

PrintCells ==
  \/ Advance /\ \E ch \in Chars : PrintCell(<<atRow, atColumn>>, ch)
  \/ Erase /\ pc' = "idle" /\ atColumn > 0 /\ PrintCell(<<atRow, atColumn - 1>>, Blank)
  \/ Erase /\ (pc' # "idle" \/ atColumn = 0) /\ stage' = Ends
       /\ UNCHANGED <<cells, shown, cursor, locked, torn>>
  \/ EraseColumn /\ PrintCell(<<row, column'>>, Blank)

PrintScrolls ==
  /\ Scroll
  /\ UNCHANGED <<cursor, locked, torn>>
  /\ cells' = Up(cells) /\ shown' = DrawAll(shown, cells') /\ stage' = Ends

PrintEnds ==
  /\ pc = "idle" /\ stage = "cursor" /\ stage' = "rest"
  /\ UNCHANGED <<vars, cells, locked, torn>>
  /\ Underline(shown, cells, <<row, column>>)

MainLoop == ClearPaints \/ PrintBegins \/ PrintStores \/ PrintCells \/ PrintScrolls \/ PrintEnds
ScreenNext == KeyEchoes \/ ProgramWrites \/ Lock \/ Unlock \/ Draws \/ MainLoop
ScreenSpec == ScreenInit /\ [][ScreenNext]_screenVars
-----------------------------------------------------------------------------
(* Every variable holds a value of its type, Terminal's with them. *)
ScreenTypeOK ==
  /\ TypeOK
  /\ cells \in [Cells -> Chars]
  /\ shown \in [Cells -> {Open, Drawing} \cup (Chars \X {"plain", "underlined"})]
  /\ cursor \in {None} \cup ((0 .. Height) \X (0 .. Width + Overrun))
  /\ locked \in BOOLEAN /\ torn \in BOOLEAN /\ stage \in {"rest", "clearing", "cursor"}

(* While the terminal has the framebuffer and nothing is being printed, every
   cell shows what it holds and the underline is under the cursor and nowhere
   else: also after a lock, during which cells changed and nothing was drawn.
   Left out are what was drawn over by a program or the rect demo, and, after a
   key echoed in the middle of a call of the main loop, the rows that were drawn
   in from then to the call's end (all rows, if one of the two scrolled); these
   only until all is drawn again by a scroll, a clear or the end of a lock. *)
PictureIsTrue ==
  ~locked /\ AtRest =>
    \A c \in Cells : shown[c] \in {Open, Drawing, Picture(cells, <<row, column>>)[c]}

(* While a program has the framebuffer, nothing that is echoed or printed
   changes what it drew. *)
DrawingIsKept == [][locked /\ locked' /\ ~Draws => UNCHANGED shown]_screenVars
===============================================================================
