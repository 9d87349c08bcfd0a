-------------------------------- MODULE Kernel --------------------------------
(***************************************************************************)
(* Running programs (exec.c, usertest.c, syscall.c, keyboard.c): the       *)
(* kernel's one thread of control loads a program, enters it in ring 3 and *)
(* stays there until the program calls sys_exit.  Keyboard and mouse       *)
(* interrupts arrive between any two steps of that thread; an interrupt    *)
(* handler and a system call run with interrupts disabled and are one step *)
(* each.                                                                   *)
(*                                                                         *)
(* exec_run_argv is four steps, cut where the state the keyboard handler   *)
(* reads may change under it: exec_load (whose only effect on that state   *)
(* is to leave the current process, if its slot is reused, as inactive as  *)
(* it was), scheduler_set_current, process_mark_running, and the reset of  *)
(* the descriptors with the jump to ring 3.                                *)
(*                                                                         *)
(* The console and mouse queues are counted here; what is in them is the   *)
(* business of module Ring.  sys_write, sys_list, sys_clear, sys_fb_info   *)
(* and the drawing calls change nothing this module keeps.                 *)
(***************************************************************************)
EXTENDS Scheduler

CONSTANTS ConsoleCapacity, MouseCapacity,
          ReadMax,       \* bound: how much a program asks for in one read
          ShellKeysMax,  \* bound: keys counted for the kernel shell
          FbAvailable    \* syscall_framebuffer_available()

ASSUME KernelAssumption ==
  /\ ConsoleCapacity \in Nat /\ MouseCapacity \in Nat
  /\ ReadMax \in Nat /\ ShellKeysMax \in Nat
  /\ FbAvailable \in BOOLEAN

VARIABLES
  mode,        \* where the thread of control is, see Modes
  execSlot,    \* g_exec_process, a slot or Null
  image,       \* the pid whose program the user mapping holds, or NoImage
  usertested,  \* history: whether usertest_load was ever called
  fbOwner,     \* g_framebuffer_owner_pid
  fbLocked,    \* the terminal's framebuffer lock
  console,     \* g_console_count
  mouse,       \* the mouse's g_queue_count
  shellKeys    \* keys given to the kernel shell since its last command

execVars  == <<mode, execSlot, image, usertested>>
fbVars    == <<fbOwner, fbLocked>>
inputVars == <<console, mouse, shellKeys>>
vars == <<processVars, schedulerVars, execVars, fbVars, inputVars>>

(* "shell": the kernel's main loop, its shell included.  "loaded", "selected"
   and "marked": inside exec_run_argv.  "user": ring 3. *)
Modes == {"shell", "loaded", "selected", "marked", "user"}
NoImage == PidModulus

KernelTypeOK ==
  /\ mode \in Modes
  /\ execSlot \in Slots \cup {Null}
  /\ image \in Pids \cup {NoImage}
  /\ usertested \in BOOLEAN
  /\ fbOwner \in Pids
  /\ fbLocked \in BOOLEAN
  /\ console \in 0 .. ConsoleCapacity
  /\ mouse \in 0 .. MouseCapacity
  /\ shellKeys \in 0 .. ShellKeysMax

(* Every variable holds a value of its type; queues stay within capacity. *)
TypeOK == ProcessTypeOK /\ SchedulerTypeOK /\ KernelTypeOK

Init ==
  /\ ProcessInit /\ SchedulerInit
  /\ mode = "shell" /\ execSlot = Null /\ image = NoImage /\ usertested = FALSE
  /\ fbOwner = 0 /\ fbLocked = FALSE
  /\ console = 0 /\ mouse = 0 /\ shellKeys = 0
-----------------------------------------------------------------------------
(* Loading a program. *)

(* exec_load up to its success: the image is in place, the process exists and
   the scheduler knows it. *)
LoadInto(s) ==
  /\ FirstReusable(s)
  /\ Create(s)
  /\ Register(s)
  /\ execSlot' = s
  /\ image' = nextPid

(* exec_load fails before it touches the user mapping (no such file, not an
   ELF file for this machine), after it has cleared it (a bad segment or entry
   point), or with the image in place and no slot for a process. *)
LoadFails ==
  /\ \/ UNCHANGED <<image, execSlot>>
     \/ image' = NoImage /\ UNCHANGED execSlot
     \/ (\A s \in Slots : ~ Reusable(s)) /\ image' = NoImage /\ execSlot' = Null
  /\ UNCHANGED <<processVars, schedulerVars>>

(* The shell's "exec" command; the line that asked for it is in g_buffer. *)
ExecLoad ==
  /\ mode = "shell" /\ shellKeys > 0
  /\ \E s \in Slots : LoadInto(s)
  /\ mode' = "loaded"
  /\ UNCHANGED <<usertested, fbVars, inputVars>>

(* Mutant of ExecFails: the caller goes on with the process of the last load. *)
ExecIgnoresFailure ==
  /\ mode = "shell" /\ shellKeys > 0 /\ execSlot # Null
  /\ LoadFails
  /\ mode' = "loaded"
  /\ UNCHANGED <<usertested, fbVars, inputVars>>

(* "exec: failed", and shell_execute ends by emptying the line. *)
ExecFails ==
  /\ mode = "shell" /\ shellKeys > 0
  /\ LoadFails
  /\ shellKeys' = 0
  /\ UNCHANGED <<mode, usertested, fbVars, console, mouse>>

(* Any other command of the shell, as far as this module can tell. *)
OtherCommand ==
  /\ mode = "shell" /\ shellKeys > 0
  /\ shellKeys' = 0
  /\ UNCHANGED <<processVars, schedulerVars, execVars, fbVars, console, mouse>>

(* usertest_load, which nothing in the tree calls: exec_load and no more. *)
UsertestLoad ==
  /\ mode = "shell"
  /\ usertested' = TRUE
  /\ \/ \E s \in Slots : LoadInto(s)
     \/ LoadFails
  /\ UNCHANGED <<mode, fbVars, inputVars>>

ExecSelect ==
  /\ mode = "loaded" /\ mode' = "selected"
  /\ SetCurrent(execSlot)
  /\ UNCHANGED <<processVars, execSlot, image, usertested, fbVars, inputVars>>

ExecMark ==
  /\ mode = "selected" /\ mode' = "marked"
  /\ MarkRunning(execSlot)
  /\ UNCHANGED <<schedulerVars, execSlot, image, usertested, fbVars, inputVars>>

(* syscall_reset_process, then gdt_enter_user_mode. *)
ExecEnter ==
  /\ mode = "marked" /\ mode' = "user"
  /\ procs' = [procs EXCEPT ![current].fds = FreshFds]
  /\ UNCHANGED <<current, nextPid, schedulerVars, execSlot, image, usertested, fbVars, inputVars>>
-----------------------------------------------------------------------------
(* System calls, made by the program in ring 3 for the current process. *)

FdOf(fd) == procs[current].fds[fd]
SetFd(fd, entry) == procs' = [procs EXCEPT ![current].fds[fd] = entry]

FbOpen(s) == \E fd \in Fds : procs[s].fds[fd].type = "FRAMEBUFFER"

(* syscall_framebuffer_force_acquire *)
FbAcquire ==
  /\ FbAvailable
  /\ fbOwner \in {0, procs[current].pid}
  /\ fbOwner' = procs[current].pid
  /\ fbLocked' = TRUE

(* syscall_framebuffer_force_release *)
FbForceRelease ==
  IF fbOwner = procs[current].pid THEN fbOwner' = 0 /\ fbLocked' = FALSE
  ELSE UNCHANGED fbVars

(* Mutant of FbReleaseIfUnused: any close gives the framebuffer back. *)
FbReleaseAlways(fd) == FbForceRelease

(* syscall_framebuffer_release_if_unused, after descriptor fd was cleared. *)
FbReleaseIfUnused(fd) ==
  IF \E other \in Fds \ {fd} : FdOf(other).type = "FRAMEBUFFER" THEN UNCHANGED fbVars
  ELSE FbForceRelease

(* The descriptor syscall_open takes: the first free one from 3 up. *)
FirstFreeFd(fd) ==
  /\ fd >= 3 /\ FdOf(fd).type = "NONE"
  /\ \A lower \in 3 .. fd - 1 : FdOf(lower).type # "NONE"

(* A failing sys_open changes nothing: a bad path, a missing file, no free
   descriptor, or a framebuffer that is absent or owned by another. *)
Open ==
  /\ mode = "user"
  /\ \E fd \in Fds :
       /\ FirstFreeFd(fd)
       /\ \/ SetFd(fd, Device("FRAMEBUFFER")) /\ FbAcquire
          \/ /\ \E type \in {"MOUSE", "CONSOLE", "NULL"} : SetFd(fd, Device(type))
             /\ UNCHANGED fbVars
          \/ /\ \E size \in FileSizes : SetFd(fd, File(size))
             /\ UNCHANGED fbVars
  /\ UNCHANGED <<current, nextPid, schedulerVars, execVars, inputVars>>

(* Mutant of ReadFile: the offset moves by what was asked for. *)
ReadFileAsked ==
  /\ mode = "user"
  /\ \E fd \in Fds, asked \in 0 .. ReadMax :
       /\ FdOf(fd).type = "FILE"
       /\ SetFd(fd, [FdOf(fd) EXCEPT !.offset = @ + asked])
  /\ UNCHANGED <<current, nextPid, schedulerVars, execVars, fbVars, inputVars>>

(* sys_read on a file whose buffer is in the program's memory; on one that is
   not, the call fails and the offset stays. *)
ReadFile ==
  /\ mode = "user"
  /\ \E fd \in Fds, asked \in 0 .. ReadMax :
       /\ FdOf(fd).type = "FILE"
       /\ LET remaining == FdOf(fd).size - FdOf(fd).offset
              count == IF asked < remaining THEN asked ELSE remaining
          IN SetFd(fd, [FdOf(fd) EXCEPT !.offset = @ + count])
  /\ UNCHANGED <<current, nextPid, schedulerVars, execVars, fbVars, inputVars>>

(* sys_read on the console: what is taken from the queue is gone whether or
   not it can then be copied to the program's buffer. *)
ReadConsole ==
  /\ mode = "user"
  /\ \E fd \in Fds : FdOf(fd).type = "CONSOLE"
  /\ \E asked \in 0 .. ReadMax : console' = IF asked < console THEN console - asked ELSE 0
  /\ UNCHANGED <<processVars, schedulerVars, execVars, fbVars, mouse, shellKeys>>

(* sys_read on the mouse, in whole events. *)
ReadMouse ==
  /\ mode = "user"
  /\ \E fd \in Fds : FdOf(fd).type = "MOUSE"
  /\ \E asked \in 0 .. ReadMax : mouse' = IF asked < mouse THEN mouse - asked ELSE 0
  /\ UNCHANGED <<processVars, schedulerVars, execVars, fbVars, console, shellKeys>>

Close ==
  /\ mode = "user"
  /\ \E fd \in Fds :
       /\ fd >= 3 /\ FdOf(fd).type # "NONE"
       /\ SetFd(fd, Unopened)
       /\ IF FdOf(fd).type = "FRAMEBUFFER" THEN FbReleaseIfUnused(fd) ELSE UNCHANGED fbVars
  /\ UNCHANGED <<current, nextPid, schedulerVars, execVars, inputVars>>

SysYield ==
  /\ mode = "user"
  /\ Yield(procs)
  /\ UNCHANGED <<current, nextPid, execVars, fbVars, inputVars>>

(* Mutant of Exit: scheduler_yield before the process is marked exited. *)
ExitYieldsFirst ==
  /\ mode = "user" /\ mode' = "shell"
  /\ FbForceRelease
  /\ Yield([procs EXCEPT ![current].fds = NoFds])
  /\ shellKeys' = 0
  /\ UNCHANGED <<current, nextPid, execSlot, image, usertested, console, mouse>>

(* sys_exit returns from gdt_enter_user_mode into shell_execute, which prints
   the exit code and empties the line. *)
Exit ==
  /\ mode = "user" /\ mode' = "shell"
  /\ FbForceRelease
  /\ Yield(Exited(current))
  /\ shellKeys' = 0
  /\ UNCHANGED <<current, nextPid, execSlot, image, usertested, console, mouse>>
-----------------------------------------------------------------------------
(* Interrupts. *)

(* Mutant of KeyIrq: the console takes a key when it is full. *)
KeyIrqUnbounded ==
  /\ IF ConsoleActive
     THEN console' = console + 1 /\ UNCHANGED shellKeys
     ELSE /\ shellKeys' = IF shellKeys >= ShellKeysMax THEN shellKeys ELSE shellKeys + 1
          /\ UNCHANGED console
  /\ UNCHANGED <<processVars, schedulerVars, execVars, fbVars, mouse>>

(* A key press: to the console while its process runs, or else to the kernel
   shell, as a character of the line or as a request to stop. *)
KeyIrq ==
  /\ IF ConsoleActive
     THEN /\ console' = IF console >= ConsoleCapacity THEN console ELSE console + 1
          /\ UNCHANGED shellKeys
     ELSE /\ shellKeys' = IF shellKeys >= ShellKeysMax THEN shellKeys ELSE shellKeys + 1
          /\ UNCHANGED console
  /\ UNCHANGED <<processVars, schedulerVars, execVars, fbVars, mouse>>

(* The third byte of a mouse packet. *)
MouseIrq ==
  /\ mouse' = IF mouse >= MouseCapacity THEN mouse ELSE mouse + 1
  /\ UNCHANGED <<processVars, schedulerVars, execVars, fbVars, console, shellKeys>>

Load    == ExecLoad \/ ExecFails \/ OtherCommand \/ UsertestLoad
Enter   == ExecSelect \/ ExecMark \/ ExecEnter
Syscall == Open \/ ReadFile \/ ReadConsole \/ ReadMouse \/ Close \/ SysYield \/ Exit
Irq     == KeyIrq \/ MouseIrq

Next == Load \/ Enter \/ Syscall \/ Irq

Spec == Init /\ [][Next]_vars
-----------------------------------------------------------------------------
(* The terminal is locked exactly while some descriptor is the framebuffer;
   that descriptor belongs to the program in ring 3 and the owner is its pid;
   and nobody owns an unlocked framebuffer.  Opens, closes of one of several
   descriptors, exits and reused slots and pids must all agree on this, or the
   screen stays dark for good, or two owners draw on it. *)
FramebufferOwnership ==
  /\ fbLocked <=> \E s \in Slots : FbOpen(s)
  /\ \A s \in Slots : FbOpen(s) => mode = "user" /\ s = current /\ fbOwner = procs[s].pid
  /\ ~ fbLocked => fbOwner = 0

(* The scheduler's list names each used slot once, and its index points at
   the process it calls current: register, set_current and yield each update
   the pair by a different rule. *)
SchedulerConsistent ==
  /\ \A i, j \in 1 .. Len(list) : list[i] = list[j] => i = j
  /\ \A s \in Slots : Listed(s) <=> procs[s].state # "UNUSED"
  /\ IF scheduled = Null THEN list = << >>
     ELSE index < Len(list) /\ list[index + 1] = scheduled

(* No descriptor beyond the three standard ones outlives its program or shows
   up in the next one that gets the slot. *)
NoStrayDescriptors ==
  \A s \in Slots : \A fd \in 3 .. FdMax - 1 :
    procs[s].fds[fd].type # "NONE" => mode = "user" /\ s = current

(* A file's offset never passes its size, so size - offset, computed without
   sign, never wraps to a huge remainder. *)
OffsetWithinFile ==
  \A s \in Slots, fd \in Fds : procs[s].fds[fd].offset <= procs[s].fds[fd].size

(* The program in ring 3 runs as the process whose image is in the mapping,
   though every load, failed ones included, writes over that one mapping. *)
RunsOwnImage == mode = "user" => image = procs[current].pid

(* Without usertest_load there is one live process at most: none while the
   shell has the machine, and in ring 3 the process loaded last is the current
   one, the scheduled one and running, however often it yields. *)
OneLiveProcess ==
  ~ usertested =>
  /\ \A s \in Slots : Live(s) <=> mode # "shell" /\ s = execSlot
  /\ mode = "user" => /\ current = execSlot /\ scheduled = execSlot
                      /\ procs[execSlot].state = "RUNNING"

(* While a program runs, which yields whenever it likes, no key reaches the
   kernel shell behind its back.  (With usertest_load this fails: yield puts the
   running process to rest, and its keys go to the shell.) *)
KeysFollowProgram ==
  [][ ~ usertested /\ mode = "user" /\ mode' = "user" => shellKeys' = shellKeys ]_vars

(* While the shell has the machine, after programs that ended and loads that
   failed, no key goes to the console queue, from which only a later program
   could read it. *)
ShellKeepsItsKeys ==
  [][ ~ usertested /\ mode = "shell" => console' = console ]_vars
==============================================================================
