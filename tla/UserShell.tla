------------------------------- MODULE UserShell -------------------------------
(***************************************************************************)
(* The user shell (user/sh.c) at the other end of the console's ring.  The *)
(* keyboard handler pushes what is typed into the ring and echoes it       *)
(* (console.c); the shell takes one character per system call, edits its   *)
(* own line, and yields when there is nothing.  The handler runs between   *)
(* any two steps of the shell, so keys are typed ahead of it.              *)
(*                                                                         *)
(* What the user sees and what the shell has are two lines that are edited *)
(* apart, by different code and at different times.  typed and submitted   *)
(* are the user's: every key that was accepted has been echoed, wherever   *)
(* the shell has got to.                                                   *)
(***************************************************************************)
EXTENDS Ring, SequencesExt

CONSTANTS LineSize,           \* SHELL_BUFFER_SIZE of sh.c
          CatSize,            \* SHELL_READ_BUFFER_SIZE
          ReadChunk,          \* SYSCALL_WRITE_CHUNK, the buffer of syscall_read
          Enter, Backspace,   \* the other values are kept in the line
          CatLines            \* the lines that say "cat /dev/console"

Lines == Seq(Values \ {Enter, Backspace})

ASSUME LineAssumption ==
  /\ LineSize \in Nat \ {0} /\ {Enter, Backspace} \subseteq Values /\ Enter # Backspace
  /\ {CatSize, ReadChunk} \subseteq Nat \ {0} /\ 0 .. ReadChunk \subseteq Requests
  /\ Zero \notin Values /\ CatLines \subseteq Lines

VARIABLES
  pc,         \* where the program is; "kernel" while there is none
  line,       \* buffer[0 .. length - 1] of shell_read_line
  typed,      \* history: the line on the screen since the last Enter
  submitted,  \* history: lines that Enter was echoed for and that did not run yet
  mixed       \* history: something other than shell_read_line took some of the
              \* input, and what it has left is out of step with the screen

ringVars == <<slots, head, tail, count, taken>>
screenVars == <<typed, submitted, mixed>>

ShellLocations == {"read", "yield", "edit", "execute", "cat"}

Blank == << >>

ShellInit ==
  /\ Init
  /\ pc = "kernel" /\ line = << >>
  /\ typed = Blank /\ submitted = << >> /\ mixed = FALSE
-----------------------------------------------------------------------------
Erased(text) == IF text = << >> THEN << >> ELSE Front(text)

(* The line of the keys echoed, c the last.  A character for which the shell has
   no place is on the screen and no part of the line; an erase after it takes
   it off the screen, and off the line the last one that has a place. *)
Echoed(c) ==
  CASE c = Backspace -> Erased(typed)
    [] c # Backspace /\ Len(typed) + 1 < LineSize -> Append(typed, c)
    [] OTHER -> typed

Echo(c) ==
  IF mixed THEN UNCHANGED <<typed, submitted>>
  ELSE IF c = Enter THEN typed' = Blank /\ submitted' = Append(submitted, typed)
  ELSE typed' = Echoed(c) /\ UNCHANGED submitted

Least(m, n) == IF m < n THEN m ELSE n

(* What a reader that keeps no line takes of the input, to the last key it
   puts what is left (nothing) and the line to come in step again. *)
TakenBy(got) ==
  /\ mixed' = ((mixed \/ got # 0) /\ got # count)
  /\ IF got = 0 THEN UNCHANGED <<typed, submitted>> ELSE typed' = Blank /\ submitted' = << >>

(* keyboard_handle_irq, while the console's input is a program's. *)
KeyPress(c) ==
  /\ pc # "kernel"
  /\ Push(c) /\ Echo(c)
  /\ UNCHANGED <<pc, line, mixed>>

(* sys_read(0, &c, 1) *)
ShellRead ==
  /\ pc = "read"
  /\ Read(1)
  /\ pc' = IF count = 0 THEN "yield" ELSE "edit"
  /\ UNCHANGED <<line, screenVars>>

(* Nobody else can run; the shell asks again. *)
ShellYield ==
  /\ pc = "yield" /\ pc' = "read"
  /\ UNCHANGED <<ringVars, line, screenVars>>

(* Mutant of Kept: the place for the NUL is used. *)
KeptToTheEnd(c) == IF Len(line) < LineSize THEN Append(line, c) ELSE line

(* A character that would leave no place for the NUL is dropped. *)
Kept(c) == IF Len(line) + 1 < LineSize THEN Append(line, c) ELSE line

(* Mutant of ShellEdit: an empty line is not a line. *)
ShellEditSkipsBlank ==
  /\ pc = "edit"
  /\ LET c == taken[1]
     IN  \/ c = Enter /\ pc' = (IF line = << >> THEN "read" ELSE "execute") /\ UNCHANGED line
         \/ c = Backspace /\ pc' = "read" /\ line' = Erased(line)
         \/ c \notin {Enter, Backspace} /\ pc' = "read" /\ line' = Kept(c)
  /\ UNCHANGED <<ringVars, screenVars>>

(* What the shell does with the character it was given. *)
ShellEdit ==
  /\ pc = "edit"
  /\ LET c == taken[1]
     IN  \/ c = Enter /\ pc' = "execute" /\ UNCHANGED line
         \/ c = Backspace /\ pc' = "read" /\ line' = Erased(line)
         \/ c \notin {Enter, Backspace} /\ pc' = "read" /\ line' = Kept(c)
  /\ UNCHANGED <<ringVars, screenVars>>

(* shell_execute is done with the line.  With an empty queue everything that
   was taken out of turn is gone. *)
Executed ==
  /\ pc = "execute"
  /\ IF line \in CatLines THEN pc' = "cat" ELSE pc' \in {"read", "kernel"}
  /\ submitted' = IF mixed THEN << >> ELSE Tail(submitted)
  /\ mixed' = (mixed /\ count # 0)
  /\ UNCHANGED <<ringVars, typed>>

(* Mutant of ShellExecute: the length is kept for the next line. *)
ShellExecuteKeepsLine == Executed /\ UNCHANGED line

(* shell_execute, which may be "exit" or "cat /dev/console", and back to an
   empty line. *)
ShellExecute == Executed /\ line' = << >>

(* shell_cat of the console's own queue, chunk by chunk until it is empty. *)
ShellCat ==
  /\ pc = "cat"
  /\ Read(Least(CatSize, ReadChunk))
  /\ pc' = IF count = 0 THEN "read" ELSE "cat"
  /\ TakenBy(Least(Least(CatSize, ReadChunk), count))
  /\ UNCHANGED line

(* exec of the shell by the kernel's shell; the console's queue is as the
   program before it has left it. *)
ShellStart ==
  /\ pc = "kernel" /\ pc' = "read"
  /\ UNCHANGED <<ringVars, line, screenVars>>

ShellStep == ShellRead \/ ShellYield \/ ShellEdit \/ ShellExecute \/ ShellCat
ShellNext == ShellStart \/ ShellStep \/ \E c \in Values : KeyPress(c)
shellVars == <<ringVars, pc, line, screenVars>>
-----------------------------------------------------------------------------
(* Every variable holds a value of its type, and the line has a place left for
   the NUL that ends it. *)
ShellTypeOK ==
  /\ TypeOK
  /\ line \in Lines /\ Len(line) < LineSize
  /\ typed \in Lines /\ submitted \in Seq(Lines) /\ mixed \in BOOLEAN

(* The shell runs the lines the user has typed, edited as the screen showed
   them, one by one and in their order, however far ahead of it they were typed
   and which shell they were typed for.  Of a line that was longer than the
   buffer it runs what has a place there; an erase after more than that takes
   one of those, so that the command is shorter than what the screen shows.  Lines
   that another program or the shell's own cat took are not run, and while such
   a reader has left a part of the input nothing is promised of it. *)
CommandIsEchoedLine ==
  pc = "execute" /\ ~ mixed => submitted # << >> /\ line = Head(submitted)

(* While the shell runs, a line that Enter was echoed for is executed, or a cat
   of the console takes all that was typed. *)
EchoedLineRuns ==
  pc \in ShellLocations /\ submitted # << >> ~> pc = "execute" \/ submitted = << >>
==============================================================================
