------------------------------ MODULE Scheduler ------------------------------
(***************************************************************************)
(* The scheduler's bookkeeping (scheduler.c): the list of the process      *)
(* slots it has seen, an index into it, and the process it thinks is       *)
(* current.  scheduler_yield picks the next runnable process and changes   *)
(* two states; it switches no context, so the program that called it goes  *)
(* on running whatever the scheduler decided.                              *)
(***************************************************************************)
EXTENDS Process, Sequences

VARIABLES list,         \* g_processes[0 .. g_process_count - 1], slots
          index,        \* g_scheduler_index, counted from 0
          scheduled     \* g_scheduler_current, a slot or Null

schedulerVars == <<list, index, scheduled>>

SchedulerTypeOK ==
  /\ list \in Seq(Slots)
  /\ index \in Nat
  /\ scheduled \in Slots \cup {Null}

SchedulerInit == list = << >> /\ index = 0 /\ scheduled = Null

Listed(s) == \E i \in 1 .. Len(list) : list[i] = s

(* scheduler_register *)
Register(s) ==
  IF Listed(s) THEN UNCHANGED schedulerVars
  ELSE /\ list' = IF Len(list) < ProcessMax THEN Append(list, s) ELSE list
       /\ IF scheduled = Null THEN index' = 0 /\ scheduled' = s
          ELSE UNCHANGED <<index, scheduled>>

(* Mutant of SetCurrent: the index is left where it was. *)
SetCurrentKeepsIndex(s) ==
  /\ scheduled' = s
  /\ UNCHANGED <<list, index>>

(* scheduler_set_current *)
SetCurrent(s) ==
  /\ scheduled' = s
  /\ IF Listed(s)
     THEN \E i \in 1 .. Len(list) :
            /\ list[i] = s /\ \A j \in 1 .. i - 1 : list[j] # s
            /\ index' = i - 1
     ELSE UNCHANGED index
  /\ UNCHANGED list

Candidate(step) == list[((index + step) % Len(list)) + 1]
Runnable(table, s) == table[s].state \notin {"UNUSED", "EXITED"}

(* The first step of the scan, from the place after the index and round the
   whole list, that finds a runnable process in the given table. *)
FirstRunnable(table, step) ==
  /\ Runnable(table, Candidate(step))
  /\ \A earlier \in 1 .. step - 1 : ~ Runnable(table, Candidate(earlier))

(* The two state changes: the one scheduled rests, the next one runs. *)
Rested(table, s) == [table EXCEPT ![s].state = IF @ = "RUNNING" THEN "READY" ELSE @]

(* Mutant of Woken: the next process is scheduled and not marked. *)
WokenLeftReady(table, s) == table

Woken(table, s) == [table EXCEPT ![s].state = IF @ = "READY" THEN "RUNNING" ELSE @]

(* scheduler_yield, on the process table its caller leaves. *)
Yield(table) ==
  IF scheduled # Null /\ \E step \in 1 .. Len(list) : Runnable(table, Candidate(step))
  THEN \E step \in 1 .. Len(list) :
         /\ FirstRunnable(table, step)
         /\ procs' = Woken(Rested(table, scheduled), Candidate(step))
         /\ index' = (index + step) % Len(list)
         /\ scheduled' = Candidate(step)
         /\ UNCHANGED list
  ELSE procs' = table /\ UNCHANGED schedulerVars
==============================================================================
