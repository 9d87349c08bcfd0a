-------------------------- MODULE ShellInput_proofs --------------------------
(***************************************************************************)
(* Two facts about the shell's line, for every buffer size and every       *)
(* history of keys.  The scan of the line ends within the buffer, because  *)
(* the last place holds NUL for ever: the handler stores below it, and the *)
(* main loop stores nothing but NUL.  And for a user who waits for the     *)
(* prompt the command is the line that was entered: PoliteInv says, for    *)
(* each place the main loop can be in, which line the buffer then holds.   *)
(***************************************************************************)
EXTENDS ShellInput, Integers, TLAPS

LineInv ==
  /\ pc \in Locations
  /\ buffer \in [Indices -> Chars] /\ buffer[Size - 1] = 0
  /\ length \in Indices /\ taken \in Indices
  /\ ready \in BOOLEAN /\ rectMode \in BOOLEAN /\ stop \in BOOLEAN
  /\ line \in 1 .. LineTags /\ shown \in Nat
  /\ entered \in [line : Chars, length : Nat]

(* Every place below n holds a character of the given line. *)
Holds(n, tag) == \A i \in Indices : i < n => buffer[i] = tag

AtPromptInv ==
  pc \in {"check", "halt", "asleep"} /\ ~ ready => length = shown /\ Holds(length, line)

EnteredInv ==
  ready \/ pc \in {"take", "terminate"} =>
    /\ pc \in {"check", "halt", "asleep", "take", "terminate"}
    /\ shown = 0 /\ length = entered.length
    /\ entered.line # 0 /\ Holds(length, entered.line)

TakenInv ==
  /\ pc = "terminate" => ~ ready /\ taken = length
  /\ pc = "parse" => /\ taken = entered.length /\ entered.line # 0
                     /\ buffer[taken] = 0 /\ Holds(taken, entered.line)
  /\ pc \notin {"check", "halt", "asleep"} => shown = 0

PoliteInv == LineInv /\ AtPromptInv /\ EnteredInv /\ TakenInv
HistoryInv == LineInv /\ ctrl \in BOOLEAN /\ ahead \in BOOLEAN /\ (~ ahead => PoliteInv)
-----------------------------------------------------------------------------
LEMMA InitLine == Init => LineInv
<1> SUFFICES ASSUME Init PROVE LineInv
  OBVIOUS
<1>1. 0 \in Indices /\ Size - 1 \in Indices
  BY ShellAssumption DEF Indices
<1>2. 0 \in Chars /\ 1 \in 1 .. LineTags
  BY ShellAssumption DEF Chars
<1>3. buffer \in [Indices -> Chars] /\ buffer[Size - 1] = 0
  BY <1>1, <1>2 DEF Init
<1> QED BY <1>1, <1>2, <1>3 DEF Init, LineInv, Locations

(* One step of the main loop or of an interrupt keeps the last NUL. *)
LEMMA NextLine == LineInv /\ [Next]_vars => LineInv'
<1> SUFFICES ASSUME LineInv, [Next]_vars PROVE LineInv'
  OBVIOUS
<1> USE ShellAssumption DEF LineInv, Indices, Chars, Locations, RectLocations,
        lineVars, rectVars, userVars, Goto
<1>1. CASE Run
  <2>1. CASE Check BY <2>1 DEF Check
  <2>2. CASE Halt BY <2>2 DEF Halt
  <2>3. CASE Take BY <2>3 DEF Take
  <2>4. CASE Terminate BY <2>4 DEF Terminate
  <2>5. CASE Parse BY <2>5 DEF Parse
  <2>6. CASE Finish BY <2>6 DEF Finish
  <2> QED BY <1>1, <2>1, <2>2, <2>3, <2>4, <2>5, <2>6 DEF Run
<1>2. CASE Rect
  BY <1>2 DEF Rect, RectBegin, RectReset, RectDraw, RectCheck, RectEnd
<1>3. CASE Irq
  <2>1. pc' \in Locations
    BY <1>3 DEF Irq, TypingIrq, CtrlCIrq, EnterIrq, CtrlIrq, PitIrq, Wake
  <2>2. CASE TypingIrq
    <3>1. CASE Typed
      <4>1. CASE rectMode \/ length + 1 >= Size
        BY <2>1, <2>2, <3>1, <4>1 DEF TypingIrq, Typed
      <4>2. CASE ~ (rectMode \/ length + 1 >= Size)
        <5>1. length + 1 \in Indices /\ length # Size - 1
          BY <4>2
        <5>2. /\ buffer' = [buffer EXCEPT ![length] = line]
              /\ length' = length + 1 /\ shown' = shown + 1
          BY <3>1, <4>2 DEF Typed
        <5>3. buffer' \in [Indices -> Chars] /\ buffer'[Size - 1] = 0
          BY <5>1, <5>2
        <5> QED BY <2>1, <2>2, <5>1, <5>2, <5>3 DEF TypingIrq
      <4> QED BY <4>1, <4>2
    <3>2. CASE Erased BY <2>1, <2>2, <3>2 DEF TypingIrq, Erased
    <3> QED BY <2>2, <3>1, <3>2 DEF TypingIrq
  <2>3. CASE EnterIrq BY <2>1, <2>3 DEF EnterIrq
  <2>4. CASE CtrlCIrq \/ CtrlIrq \/ PitIrq
    BY <2>1, <2>4 DEF CtrlCIrq, CtrlIrq, PitIrq
  <2> QED BY <1>3, <2>2, <2>3, <2>4 DEF Irq
<1>4. CASE UNCHANGED vars
  BY <1>4 DEF vars
<1> QED BY <1>1, <1>2, <1>3, <1>4 DEF Next

(* Whatever is typed and whenever, the scan of the line in shell_execute stops
   at a NUL inside g_buffer. *)
THEOREM ScanStaysInBuffer == Spec => []ScanEndsInBuffer
<1>1. LineInv => ScanEndsInBuffer
  BY ShellAssumption DEF LineInv, ScanEndsInBuffer, Indices
<1> QED BY InitLine, NextLine, <1>1, PTL DEF Spec
-----------------------------------------------------------------------------
LEMMA InitPolite == Init => PoliteInv
<1> SUFFICES ASSUME Init PROVE PoliteInv
  OBVIOUS
<1>1. Holds(0, line)
  BY ShellAssumption DEF Holds, Indices
<1> QED BY <1>1, InitLine DEF PoliteInv, Init, AtPromptInv, EnteredInv, TakenInv

LEMMA NextPolite == HistoryInv /\ [Next]_vars => HistoryInv'
<1> SUFFICES ASSUME HistoryInv, [Next]_vars PROVE HistoryInv'
  OBVIOUS
<1>a. ctrl' \in BOOLEAN /\ ahead' \in BOOLEAN /\ (ahead => ahead')
  BY DEF HistoryInv, Next, Run, Rect, Irq, Check, Halt, Take, Terminate, Parse, Finish,
         RectBegin, RectReset, RectDraw, RectCheck, RectEnd, TypingIrq, CtrlCIrq, EnterIrq,
         CtrlIrq, PitIrq, Notice, userVars, vars
<1> SUFFICES ASSUME ~ ahead, ~ ahead' PROVE PoliteInv'
  BY <1>a, NextLine DEF HistoryInv, PoliteInv
<1>b. PoliteInv
  BY DEF HistoryInv
<1>0. LineInv'
  BY <1>b, NextLine DEF PoliteInv
<1> USE <1>0, <1>b, ShellAssumption
    DEF PoliteInv, LineInv, AtPromptInv, EnteredInv, TakenInv, Holds, Indices, Chars,
        lineVars, rectVars, userVars, Goto
<1>1. CASE Run
  <2>1. CASE Check BY <2>1 DEF Check
  <2>2. CASE Halt BY <2>2 DEF Halt
  <2>3. CASE Take BY <2>3 DEF Take
  <2>4. CASE Terminate BY <2>4 DEF Terminate
  <2>5. CASE Parse BY <2>5 DEF Parse
  <2>6. CASE Finish BY <2>6 DEF Finish
  <2> QED BY <1>1, <2>1, <2>2, <2>3, <2>4, <2>5, <2>6 DEF Run
<1>2. CASE Rect
  BY <1>2 DEF Rect, RectBegin, RectReset, RectDraw, RectCheck, RectEnd
<1>3. CASE Irq
  <2>1. CASE TypingIrq
    <3>1. AtPrompt /\ pc' \in {"check", "halt", "asleep"}
      BY <2>1 DEF TypingIrq, Notice, AtPrompt, Wake
    <3>2. CASE Typed
      <4>1. CASE rectMode \/ length + 1 >= Size
        BY <2>1, <3>1, <3>2, <4>1 DEF TypingIrq, Typed, AtPrompt
      <4>2. CASE ~ (rectMode \/ length + 1 >= Size)
        <5>1. /\ buffer' = [buffer EXCEPT ![length] = line]
              /\ length' = length + 1 /\ shown' = shown + 1
          BY <3>2, <4>2 DEF Typed
        <5>2. /\ pc' \in {"check", "halt", "asleep"} /\ ~ ready'
              /\ line' = line /\ length' = shown'
          BY <2>1, <3>1, <5>1 DEF TypingIrq, AtPrompt
        <5>3. \A i \in Indices : i < length + 1 => buffer'[i] = line
          BY <3>1, <5>1 DEF AtPrompt
        <5> QED BY <5>1, <5>2, <5>3
      <4> QED BY <4>1, <4>2
    <3>3. CASE Erased BY <2>1, <3>1, <3>3 DEF TypingIrq, Erased, AtPrompt
    <3> QED BY <2>1, <3>2, <3>3 DEF TypingIrq
  <2>2. CASE EnterIrq
    <3>1. AtPrompt /\ pc' \in {"check", "halt", "asleep"}
      BY <2>2 DEF EnterIrq, Notice, AtPrompt, Wake
    <3> QED BY <2>2, <3>1 DEF EnterIrq, AtPrompt
  <2>3. CASE CtrlCIrq \/ CtrlIrq \/ PitIrq
    BY <2>3 DEF CtrlCIrq, CtrlIrq, PitIrq, Wake
  <2> QED BY <1>3, <2>1, <2>2, <2>3 DEF Irq
<1>4. CASE UNCHANGED vars
  BY <1>4 DEF vars
<1> QED BY <1>1, <1>2, <1>3, <1>4 DEF Next

LEMMA InitHistory == Init => HistoryInv
  BY InitPolite, InitLine DEF HistoryInv, Init

(* The length leaves room for the NUL, whoever types and whenever. *)
THEOREM ShellTypes == Spec => []TypeOK
<1>1. HistoryInv => TypeOK
  BY ShellAssumption DEF HistoryInv, LineInv, TypeOK, Chars
<1> QED BY InitHistory, NextPolite, <1>1, PTL DEF Spec

(* A user who waits for the prompt gets the command on the screen. *)
THEOREM PoliteLineIsCommand == Spec => []PoliteCommandIsLine
<1>1. HistoryInv => PoliteCommandIsLine
  <2> SUFFICES ASSUME HistoryInv, ~ ahead PROVE CommandIsLine
    BY DEF PoliteCommandIsLine
  <2>1. PoliteInv
    BY DEF HistoryInv
  <2> QED BY <2>1, ShellAssumption
      DEF PoliteInv, LineInv, TakenInv, CommandIsLine, Holds, Ends, Command,
          Indices, Chars
<1> QED BY InitHistory, <1>1, NextPolite, PTL DEF Spec
==============================================================================
