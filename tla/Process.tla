------------------------------- MODULE Process -------------------------------
(***************************************************************************)
(* The process table (process.c, process.h): a fixed array of slots, each  *)
(* with a pid, a state and a table of file descriptors, the pointer to the *)
(* current process, and the counter the next pid comes from.               *)
(*                                                                         *)
(* Left out: the name, the saved registers and the exit code (written and  *)
(* never read back by the kernel), and the user-memory bounds, which are   *)
(* the same for every process because there is one user mapping.           *)
(***************************************************************************)
EXTENDS Naturals

CONSTANTS ProcessMax,   \* PROCESS_MAX slots
          FdMax,        \* PROCESS_FD_MAX descriptors in each
          PidModulus,   \* pids are uint32_t: 2^32 of them, then again from 0
          FileSizes     \* the sizes of the files a program may open

ASSUME ProcessAssumption ==
  /\ ProcessMax \in Nat \ {0}
  /\ FdMax \in Nat /\ FdMax >= 3
  /\ PidModulus \in Nat /\ PidModulus >= 2
  /\ FileSizes \subseteq Nat

VARIABLES procs,     \* g_processes
          current,   \* g_current_process, a slot or Null
          nextPid    \* g_next_pid

processVars == <<procs, current, nextPid>>

Slots == 0 .. ProcessMax - 1
Null  == ProcessMax
Fds   == 0 .. FdMax - 1
Pids  == 0 .. PidModulus - 1

States  == {"UNUSED", "READY", "RUNNING", "EXITED"}
FdTypes == {"NONE", "CONSOLE", "FILE", "NULL", "FRAMEBUFFER", "MOUSE"}

(* in_use and type are always set and cleared together; "NONE" is not in use.
   size and offset are those of a file, and zero for every other type. *)
FdEntry == [type : FdTypes, size : Nat, offset : Nat]
ProcessEntry == [pid : Pids, state : States, fds : [Fds -> FdEntry]]

Unopened == [type |-> "NONE", size |-> 0, offset |-> 0]
Device(type) == [Unopened EXCEPT !.type = type]
File(size) == [type |-> "FILE", size |-> size, offset |-> 0]

NoFds == [fd \in Fds |-> Unopened]

(* process_reset_fds: standard input, output and error are the console. *)
FreshFds == [fd \in Fds |-> IF fd < 3 THEN Device("CONSOLE") ELSE Unopened]

ProcessTypeOK ==
  /\ procs \in [Slots -> ProcessEntry]
  /\ current \in Slots \cup {Null}
  /\ nextPid \in Pids

ProcessInit ==
  /\ procs = [s \in Slots |-> [pid |-> 0, state |-> "UNUSED", fds |-> NoFds]]
  /\ current = Null
  /\ nextPid = 1

Reusable(s) == procs[s].state \in {"UNUSED", "EXITED"}
Live(s) == procs[s].state \in {"READY", "RUNNING"}

(* The slot process_create takes: the first that is unused or exited. *)
FirstReusable(s) == Reusable(s) /\ \A t \in 0 .. s - 1 : ~ Reusable(t)

(* process_create, once it has found slot s. *)
Create(s) ==
  /\ procs' = [procs EXCEPT ![s] = [pid |-> nextPid, state |-> "READY", fds |-> FreshFds]]
  /\ nextPid' = (nextPid + 1) % PidModulus
  /\ UNCHANGED current

(* process_mark_running *)
MarkRunning(s) ==
  /\ procs' = [procs EXCEPT ![s].state = "RUNNING"]
  /\ current' = s
  /\ UNCHANGED nextPid

(* Mutant of Exited: the descriptors stay in the slot. *)
ExitedKeepsFds(s) == [procs EXCEPT ![s].state = "EXITED"]

(* The table after slot s closed every descriptor and was marked exited. *)
Exited(s) == [procs EXCEPT ![s].fds = NoFds, ![s].state = "EXITED"]

(* Mutant of ConsoleActive: a process that has exited is still listened to. *)
ConsoleActiveAfterExit == current # Null

(* console_input_is_active: where the keyboard interrupt sends its keys. *)
ConsoleActive == current # Null /\ procs[current].state = "RUNNING"
==============================================================================
