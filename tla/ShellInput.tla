------------------------------ MODULE ShellInput ------------------------------
(***************************************************************************)
(* The kernel shell's line (shell.c, keyboard.c, kernel.c): the keyboard   *)
(* interrupt edits g_buffer while the main loop takes the line, runs its   *)
(* command and empties it, with no lock between them.  The main loop's     *)
(* steps are cut at each access to a variable the handler also uses; the   *)
(* handler runs with interrupts disabled and is one step.                  *)
(*                                                                         *)
(* A character is the tag of the line it was typed on; NUL is 0.  Which    *)
(* command a line names is a choice: "rect", which waits for Ctrl+C, or    *)
(* any other.  While a program runs the keys are not the shell's (module   *)
(* Kernel); "exec" is any other command here.                              *)
(***************************************************************************)
EXTENDS Naturals, Sequences

CONSTANTS Size,       \* SHELL_BUFFER_SIZE
          LineTags    \* bound: lines are tagged 1 .. LineTags, then 1 again

ASSUME ShellAssumption ==
  Size \in Nat \ {0} /\ LineTags \in Nat \ {0}

VARIABLES
  pc,        \* where the main loop is, see Locations
  buffer, length, ready,   \* g_buffer, g_length, g_command_ready
  rectMode, stop,          \* g_rect_mode, g_rect_exit_requested
  taken,     \* g_length as shell_run_pending_command read it, once
  ctrl,      \* g_ctrl_pressed
  line,      \* history: the tag of the line being typed
  shown,     \* history: the characters on the screen after the last Enter
  entered,   \* history: the line the last Enter ended, its tag and length
  ahead      \* history: whether a key ever came while the prompt was not waiting

lineVars == <<buffer, length, ready>>
rectVars == <<rectMode, stop>>
userVars == <<ctrl, line, shown, entered, ahead>>
vars == <<pc, lineVars, rectVars, taken, userVars>>

Indices == 0 .. Size - 1
Chars == 0 .. LineTags
RectLocations ==
  {"rectBegin", "rectReset", "rectDraw", "rectCheck", "rectHalt", "rectAsleep", "rectEnd"}
Locations ==
  {"check", "halt", "asleep", "take", "terminate", "parse", "finish", "stopped"}
    \cup RectLocations

Init ==
  /\ pc = "check" /\ buffer = [i \in Indices |-> 0] /\ length = 0 /\ ready = FALSE
  /\ rectMode = FALSE /\ stop = FALSE
  /\ taken = 0 /\ ctrl = FALSE
  /\ line = 1 /\ shown = 0 /\ entered = [line |-> 0, length |-> 0]
  /\ ahead = FALSE

Goto(from, to) == pc = from /\ pc' = to
-----------------------------------------------------------------------------
(* The main loop: look for a command, or halt until an interrupt. *)
Check ==
  /\ IF ready THEN Goto("check", "take") ELSE Goto("check", "halt")
  /\ UNCHANGED <<lineVars, rectVars, taken, userVars>>

(* hlt is a step of its own: an interrupt between the check and the hlt has
   been handled by the time the processor goes to sleep. *)
Halt ==
  /\ Goto("halt", "asleep") \/ Goto("rectHalt", "rectAsleep")
  /\ UNCHANGED <<lineVars, rectVars, taken, userVars>>

(* shell_run_pending_command: the length is read before the flag is cleared. *)
Take ==
  /\ Goto("take", "terminate")
  /\ taken' = length /\ ready' = FALSE
  /\ UNCHANGED <<buffer, length, rectVars, userVars>>

(* An empty line goes back to the prompt and leaves g_length as it is. *)
Terminate ==
  /\ buffer' = [buffer EXCEPT ![taken] = 0]
  /\ Goto("terminate", IF taken = 0 THEN "check" ELSE "parse")
  /\ UNCHANGED <<length, ready, rectVars, taken, userVars>>

(* What the scan for the end of the command sees: all before the first NUL. *)
Ends(n) == buffer[n] = 0 /\ \A i \in 0 .. n - 1 : buffer[i] # 0
Command(n) == [i \in 1 .. n |-> buffer[i - 1]]

(* shell_execute picks a command, and may end words of the line with NUL.
   "stopped": reboot, shutdown, panic, or a program that never exits. *)
Parse ==
  /\ \E to \in {"finish", "rectBegin", "stopped"} : Goto("parse", to)
  /\ \E n \in Indices : Ends(n) /\ \/ UNCHANGED buffer
                                   \/ \E i \in 1 .. n - 1 : buffer' = [buffer EXCEPT ![i] = 0]
  /\ UNCHANGED <<length, ready, rectVars, taken, userVars>>

(* Mutant of Finish: the next line is appended to this one. *)
FinishKeepsLength ==
  /\ Goto("finish", "check")
  /\ UNCHANGED <<lineVars, rectVars, taken, userVars>>

Finish ==
  /\ Goto("finish", "check")
  /\ length' = 0
  /\ UNCHANGED <<buffer, ready, rectVars, taken, userVars>>
-----------------------------------------------------------------------------
(* shell_run_rect_demo *)
RectBegin ==
  /\ Goto("rectBegin", "rectReset")
  /\ rectMode' = TRUE
  /\ UNCHANGED <<lineVars, stop, taken, userVars>>

RectReset ==
  /\ Goto("rectReset", "rectDraw")
  /\ stop' = FALSE
  /\ UNCHANGED <<lineVars, rectMode, taken, userVars>>

(* Mutant of RectDraw: the request to stop is cleared after the message. *)
RectDrawResets ==
  /\ Goto("rectDraw", "rectCheck")
  /\ stop' = FALSE
  /\ UNCHANGED <<lineVars, rectMode, taken, userVars>>

(* "press Ctrl+C to stop" is on the screen, then the rectangles. *)
RectDraw ==
  /\ Goto("rectDraw", "rectCheck")
  /\ UNCHANGED <<lineVars, rectVars, taken, userVars>>

RectCheck ==
  /\ IF stop THEN Goto("rectCheck", "rectEnd") ELSE Goto("rectCheck", "rectHalt")
  /\ UNCHANGED <<lineVars, rectVars, taken, userVars>>

RectEnd ==
  /\ Goto("rectEnd", "finish")
  /\ rectMode' = FALSE /\ stop' = FALSE
  /\ UNCHANGED <<lineVars, taken, userVars>>
-----------------------------------------------------------------------------
(* Interrupts.  Each ends a hlt. *)
Wake ==
  pc' = CASE pc = "asleep"     -> "check"
          [] pc = "rectAsleep" -> "rectCheck"
          [] OTHER             -> pc

(* The prompt waits for keys; the last line entered, if any, is over. *)
AtPrompt == pc \in {"check", "halt", "asleep"} /\ ~ ready
Notice == ahead' = (ahead \/ ~ AtPrompt)

(* Mutant of Typed: the last place of the buffer is for a character too. *)
TypedToTheEnd ==
  IF rectMode \/ length >= Size THEN UNCHANGED <<buffer, length, shown>>
  ELSE /\ buffer' = [buffer EXCEPT ![length] = line]
       /\ length' = length + 1
       /\ shown' = shown + 1

(* shell_handle_char: a character, echoed if it is kept. *)
Typed ==
  IF rectMode \/ length + 1 >= Size THEN UNCHANGED <<buffer, length, shown>>
  ELSE /\ buffer' = [buffer EXCEPT ![length] = line]
       /\ length' = length + 1
       /\ shown' = shown + 1

Erased ==
  /\ IF rectMode \/ length = 0 THEN UNCHANGED <<length, shown>>
     ELSE length' = length - 1 /\ shown' = IF shown = 0 THEN 0 ELSE shown - 1
  /\ UNCHANGED buffer

(* A key that is neither Enter nor Ctrl; Tab and keys without a character have
   no more effect than the timer. *)
TypingIrq ==
  /\ Wake
  /\ Notice /\ (Typed \/ Erased)
  /\ UNCHANGED <<ready, rectVars, taken, ctrl, line, entered>>

(* The "c" key with Ctrl held. *)
CtrlCIrq ==
  /\ Wake
  /\ ctrl /\ stop' = TRUE
  /\ UNCHANGED <<lineVars, rectMode, taken, userVars>>

(* Enter is not ignored in the demo, unlike the other keys. *)
EnterIrq ==
  /\ Wake
  /\ Notice
  /\ ready' = TRUE
  /\ entered' = [line |-> line, length |-> shown]
  /\ line' = (line % LineTags) + 1 /\ shown' = 0
  /\ UNCHANGED <<buffer, length, rectVars, taken, ctrl>>

CtrlIrq ==
  /\ Wake
  /\ ctrl' = ~ ctrl
  /\ UNCHANGED <<lineVars, rectVars, taken, line, shown, entered, ahead>>

(* Mutant of PitIrq: the timer is masked, so only a key ends a hlt. *)
PitIrqMasked == FALSE /\ UNCHANGED vars

PitIrq ==
  /\ Wake
  /\ UNCHANGED <<lineVars, rectVars, taken, userVars>>

Run  == Check \/ Halt \/ Take \/ Terminate \/ Parse \/ Finish
Rect == RectBegin \/ RectReset \/ RectDraw \/ RectCheck \/ RectEnd
Irq  == TypingIrq \/ CtrlCIrq \/ EnterIrq \/ CtrlIrq \/ PitIrq

Next == Run \/ Rect \/ Irq
Spec == Init /\ [][Next]_vars

(* The processor executes the main loop, and the timer ticks at 100 Hz. *)
FairSpec == Spec /\ WF_vars(Run \/ Rect) /\ WF_vars(PitIrq)
-----------------------------------------------------------------------------
(* Every variable holds a value of its type; the length leaves room for NUL. *)
TypeOK ==
  /\ pc \in Locations
  /\ buffer \in [Indices -> Chars] /\ length \in Indices /\ ready \in BOOLEAN
  /\ rectMode \in BOOLEAN /\ stop \in BOOLEAN
  /\ taken \in Indices /\ ctrl \in BOOLEAN
  /\ line \in Chars \ {0} /\ shown \in Nat
  /\ entered \in [line : Chars, length : Nat] /\ ahead \in BOOLEAN

(* Whatever is typed and whenever, the scan of the line finds a NUL within
   g_buffer: a key that lands on the NUL the main loop has just written only
   moves the end of the scan, for no key ever reaches the last place. *)
ScanEndsInBuffer == pc = "parse" => \E n \in Indices : buffer[n] = 0

(* The command that runs is the line as it stood on the screen when Enter was
   pressed: no character of it missing, none that was erased, none of another
   line. *)
CommandIsLine ==
  pc = "parse" =>
    \E n \in Indices : /\ Ends(n) /\ n = entered.length
                       /\ Command(n) = [i \in 1 .. n |-> entered.line]

(* So it is for a user who waits for the prompt before typing a line. *)
PoliteCommandIsLine == ~ ahead => CommandIsLine

(* A line that was entered is taken once the main loop looks for one, even if
   the interrupt came between its check and its hlt.  (A line entered during
   the demo waits for Ctrl+C, which may never be pressed.) *)
SubmittedLineRuns == ready /\ pc \in {"check", "halt", "asleep"} ~> pc = "take"

(* Ctrl+C pressed any time after the demo's message has asked for it brings
   the prompt back, also when it comes between the check and the hlt. *)
StopEndsRect ==
  (stop /\ pc \in {"rectDraw", "rectCheck", "rectHalt", "rectAsleep"}) ~> pc = "check"
==============================================================================
