----------------------------- MODULE Kernel_proofs -----------------------------
(***************************************************************************)
(* For every number of slots and descriptors, every pid width, every queue *)
(* capacity, with or without usertest_load.                                *)
(***************************************************************************)
EXTENDS Kernel, Integers, FiniteSetTheorems, TLAPS

USE DEF Slots, Null

(* What the table looks like after one state, or one descriptor, is set. *)
LEMMA SetStateType ==
  ASSUME ProcessAssumption, NEW table \in [Slots -> ProcessEntry],
         NEW s \in Slots, NEW st \in States
  PROVE  LET new == [table EXCEPT ![s].state = st]
         IN  /\ new \in [Slots -> ProcessEntry]
             /\ \A t \in Slots : new[t].fds = table[t].fds /\ new[t].pid = table[t].pid
  BY DEF ProcessEntry

LEMMA SetFdsType ==
  ASSUME ProcessAssumption, NEW table \in [Slots -> ProcessEntry],
         NEW s \in Slots, NEW fds \in [Fds -> FdEntry]
  PROVE  LET new == [table EXCEPT ![s].fds = fds]
         IN  /\ new \in [Slots -> ProcessEntry]
             /\ \A t \in Slots : new[t].pid = table[t].pid /\ new[t].state = table[t].state
             /\ \A t \in Slots : new[t].fds = IF t = s THEN fds ELSE table[t].fds
  BY DEF ProcessEntry

LEMMA SetFdType ==
  ASSUME procs \in [Slots -> ProcessEntry], current \in Slots,
         NEW fd \in Fds, NEW entry \in FdEntry, SetFd(fd, entry)
  PROVE  /\ procs' \in [Slots -> ProcessEntry]
         /\ \A s \in Slots : procs'[s].pid = procs[s].pid
         /\ \A s \in Slots \ {current} : procs'[s].fds = procs[s].fds
         /\ procs'[current].fds = [procs[current].fds EXCEPT ![fd] = entry]
<1> DEFINE new == [procs EXCEPT ![current].fds[fd] = entry]
<1>1. /\ new \in [Slots -> ProcessEntry]
      /\ \A s \in Slots : new[s].pid = procs[s].pid
      /\ \A s \in Slots \ {current} : new[s].fds = procs[s].fds
      /\ new[current].fds = [procs[current].fds EXCEPT ![fd] = entry]
  BY DEF ProcessEntry
<1>2. procs' = new
  BY DEF SetFd
<1> HIDE DEF new
<1> QED BY <1>1, <1>2

LEMMA EntryTypes ==
  ASSUME ProcessAssumption
  PROVE  /\ Unopened \in FdEntry
         /\ \A type \in FdTypes : Device(type) \in FdEntry /\ Device(type).type = type
         /\ \A size \in FileSizes : File(size) \in FdEntry /\ File(size).type = "FILE"
         /\ NoFds \in [Fds -> FdEntry]
         /\ FreshFds \in [Fds -> FdEntry]
  BY DEF ProcessAssumption, Unopened, Device, File, NoFds, FreshFds, FdEntry, FdTypes

(* scheduler_yield changes states and nothing else of the table. *)
LEMMA YieldType ==
  ASSUME ProcessAssumption, NEW table \in [Slots -> ProcessEntry],
         SchedulerTypeOK, Yield(table)
  PROVE  /\ procs' \in [Slots -> ProcessEntry]
         /\ \A s \in Slots : procs'[s].fds = table[s].fds /\ procs'[s].pid = table[s].pid
         /\ SchedulerTypeOK'
<1>1. CASE procs' = table /\ UNCHANGED schedulerVars
  BY <1>1 DEF schedulerVars, SchedulerTypeOK
<1>2. ASSUME scheduled # Null, NEW step \in 1 .. Len(list),
             procs' = Woken(Rested(table, scheduled), Candidate(step)),
             index' = (index + step) % Len(list),
             scheduled' = Candidate(step), UNCHANGED list
      PROVE  /\ procs' \in [Slots -> ProcessEntry]
             /\ \A s \in Slots : procs'[s].fds = table[s].fds /\ procs'[s].pid = table[s].pid
             /\ SchedulerTypeOK'
  <2>1. Len(list) \in Nat \ {0} /\ index + step \in Nat
    BY DEF SchedulerTypeOK
  <2>2. (index + step) % Len(list) \in 0 .. Len(list) - 1
    BY <2>1
  <2>3. Candidate(step) \in Slots
    BY <2>1, <2>2 DEF Candidate, SchedulerTypeOK
  <2>4. /\ Rested(table, scheduled) \in [Slots -> ProcessEntry]
        /\ \A s \in Slots : /\ Rested(table, scheduled)[s].fds = table[s].fds
                            /\ Rested(table, scheduled)[s].pid = table[s].pid
    BY <1>2 DEF Rested, SchedulerTypeOK, ProcessEntry, States
  <2> DEFINE rested == Rested(table, scheduled)
             next == Candidate(step)
  <2> HIDE DEF rested, next
  <2>5. /\ Woken(rested, next) \in [Slots -> ProcessEntry]
        /\ \A s \in Slots : /\ Woken(rested, next)[s].fds = rested[s].fds
                            /\ Woken(rested, next)[s].pid = rested[s].pid
    BY <2>3, <2>4 DEF Woken, ProcessEntry, States, rested, next
  <2>6. SchedulerTypeOK'
    BY <1>2, <2>1, <2>2, <2>3 DEF SchedulerTypeOK
  <2> QED BY <1>2, <2>4, <2>5, <2>6 DEF rested, next
<1> QED BY <1>1, <1>2 DEF Yield
-----------------------------------------------------------------------------
(* The invariant: where a descriptor can be open, and who owns the screen. *)

(* The pointers exec_run_argv passes from step to step are set in time. *)
Entered ==
  /\ mode # "shell" => execSlot \in Slots
  /\ mode \in {"marked", "user"} => current = execSlot

(* Only the program in ring 3 can have the framebuffer among its descriptors. *)
FbOnlyInUser == \A s \in Slots : FbOpen(s) => mode = "user" /\ s = current

FbAccounted ==
  /\ \A s \in Slots : FbOpen(s) => fbLocked /\ fbOwner = procs[s].pid
  /\ fbLocked => \E s \in Slots : FbOpen(s)
  /\ ~ fbLocked => fbOwner = 0

IInv == TypeOK /\ Entered /\ FbOnlyInUser /\ FbAccounted

(* A slot without the framebuffer keeps being without it if its descriptors
   do not change, and so does one whose descriptors are fresh or cleared. *)
LEMMA FbOpenSame ==
  ASSUME NEW s \in Slots, procs'[s].fds = procs[s].fds
  PROVE  FbOpen(s)' <=> FbOpen(s)
  BY DEF FbOpen

LEMMA FreshHasNoFb ==
  ASSUME NEW s \in Slots, procs'[s].fds \in {FreshFds, NoFds}
  PROVE  ~ FbOpen(s)'
  BY DEF FbOpen, FreshFds, NoFds, Device, Unopened

(* A step that keeps the descriptors, the pids, the mode, the current process
   and the framebuffer variables keeps the accounts. *)
LEMMA FbUnchanged ==
  ASSUME IInv, \A s \in Slots : procs'[s].fds = procs[s].fds /\ procs'[s].pid = procs[s].pid,
         UNCHANGED <<mode, current, fbOwner, fbLocked>>
  PROVE  FbOnlyInUser' /\ FbAccounted'
<1>1. \A s \in Slots : FbOpen(s)' <=> FbOpen(s)
  BY FbOpenSame
<1> QED BY <1>1 DEF IInv, FbOnlyInUser, FbAccounted

(* Outside ring 3 nobody has the framebuffer, so it is free; a step from
   there that opens nothing keeps it free. *)
LEMMA FbFree ==
  ASSUME IInv, mode # "user"
  PROVE  ~ fbLocked /\ fbOwner = 0 /\ \A s \in Slots : ~ FbOpen(s)
  BY DEF IInv, FbOnlyInUser, FbAccounted

LEMMA FbStaysFree ==
  ASSUME IInv, mode # "user", UNCHANGED fbVars,
         \A s \in Slots : \/ procs'[s].fds = procs[s].fds
                           \/ procs'[s].fds \in {FreshFds, NoFds}
  PROVE  FbOnlyInUser' /\ FbAccounted'
<1>1. \A s \in Slots : ~ FbOpen(s)'
  BY FbFree, FbOpenSame, FreshHasNoFb
<1>2. ~ fbLocked' /\ fbOwner' = 0
  BY FbFree DEF fbVars
<1> QED BY <1>1, <1>2 DEF FbOnlyInUser, FbAccounted

-----------------------------------------------------------------------------
LEMMA InitIInv == ProcessAssumption /\ KernelAssumption /\ Init => IInv
<1> SUFFICES ASSUME ProcessAssumption, KernelAssumption, Init PROVE IInv
  OBVIOUS
<1>1. ProcessTypeOK
  BY EntryTypes DEF Init, ProcessInit, ProcessTypeOK, ProcessEntry, States, Pids, ProcessAssumption
<1>2. SchedulerTypeOK
  BY DEF Init, SchedulerInit, SchedulerTypeOK
<1>3. KernelTypeOK
  <2>1. fbOwner \in Pids /\ image \in Pids \cup {NoImage}
    BY DEF Init, Pids, ProcessAssumption
  <2>2. console \in 0 .. ConsoleCapacity /\ mouse \in 0 .. MouseCapacity
        /\ shellKeys \in 0 .. ShellKeysMax
    BY DEF Init, KernelAssumption
  <2> QED BY <2>1, <2>2 DEF Init, KernelTypeOK, Modes
<1>4. \A s \in Slots : ~ FbOpen(s)
  BY DEF Init, ProcessInit, FbOpen, NoFds, Unopened
<1> QED BY <1>1, <1>2, <1>3, <1>4 DEF Init, IInv, TypeOK, Entered, FbOnlyInUser, FbAccounted

(* exec_load's success, for the shell and for usertest_load alike. *)
LEMMA LoadIntoType ==
  ASSUME ProcessAssumption, IInv, NEW s \in Slots, LoadInto(s)
  PROVE  /\ ProcessTypeOK' /\ SchedulerTypeOK'
         /\ image' \in Pids \cup {NoImage} /\ execSlot' = s
         /\ \A t \in Slots : procs'[t].fds = procs[t].fds \/ procs'[t].fds \in {FreshFds, NoFds}
<1> DEFINE new == [pid |-> nextPid, state |-> "READY", fds |-> FreshFds]
<1>1. new \in ProcessEntry
  BY EntryTypes DEF IInv, TypeOK, ProcessTypeOK, ProcessEntry, States
<1>2. procs' = [procs EXCEPT ![s] = new] /\ nextPid' = (nextPid + 1) % PidModulus
      /\ current' = current /\ execSlot' = s /\ image' = nextPid
  BY DEF LoadInto, Create
<1>3. (nextPid + 1) % PidModulus \in Pids
  BY DEF IInv, TypeOK, ProcessTypeOK, ProcessAssumption, Pids
<1>4. ProcessTypeOK'
  BY <1>1, <1>2, <1>3 DEF IInv, TypeOK, ProcessTypeOK
<1>5. SchedulerTypeOK'
  <2>1. list' \in Seq(Slots)
    <3>1. list \in Seq(Slots)
      BY DEF IInv, TypeOK, SchedulerTypeOK
    <3>2. Append(list, s) \in Seq(Slots)
      BY <3>1
    <3>3. list' = list \/ list' = Append(list, s)
      BY DEF LoadInto, Register, schedulerVars
    <3> QED BY <3>1, <3>2, <3>3
  <2>2. index' \in Nat /\ scheduled' \in Slots \cup {Null}
    BY DEF LoadInto, Register, IInv, TypeOK, SchedulerTypeOK, schedulerVars
  <2> QED BY <2>1, <2>2 DEF SchedulerTypeOK
<1>6. \A t \in Slots : procs'[t].fds = procs[t].fds \/ procs'[t].fds \in {FreshFds, NoFds}
  BY <1>2 DEF IInv, TypeOK, ProcessTypeOK
<1> QED BY <1>2, <1>4, <1>5, <1>6 DEF IInv, TypeOK, ProcessTypeOK

LEMMA LoadStep ==
  ASSUME ProcessAssumption, KernelAssumption, IInv, Load
  PROVE  IInv'
<1> USE DEF processVars, schedulerVars, execVars, fbVars, inputVars
<1>1. mode = "shell" /\ UNCHANGED fbVars /\ mode' \in {"shell", "loaded"}
      /\ (mode' = "loaded" => execSlot' \in Slots)
  BY LoadIntoType DEF Load, ExecLoad, ExecFails, OtherCommand, UsertestLoad
<1>2. console' = console /\ mouse' = mouse /\ shellKeys' \in {0, shellKeys}
  BY DEF Load, ExecLoad, ExecFails, OtherCommand, UsertestLoad
<1>3. /\ ProcessTypeOK' /\ SchedulerTypeOK'
      /\ image' \in Pids \cup {NoImage} /\ execSlot' \in Slots \cup {Null}
      /\ \A t \in Slots : procs'[t].fds = procs[t].fds \/ procs'[t].fds \in {FreshFds, NoFds}
  <2>1. CASE \E s \in Slots : LoadInto(s)
    BY <2>1, LoadIntoType
  <2>2. CASE LoadFails
    BY <2>2 DEF LoadFails, IInv, TypeOK, ProcessTypeOK, SchedulerTypeOK, KernelTypeOK
  <2>3. CASE OtherCommand
    BY <2>3 DEF OtherCommand, IInv, TypeOK, ProcessTypeOK, SchedulerTypeOK, KernelTypeOK
  <2> QED BY <2>1, <2>2, <2>3 DEF Load, ExecLoad, ExecFails, UsertestLoad
<1>4. FbOnlyInUser' /\ FbAccounted'
  BY <1>1, <1>3, FbStaysFree
<1>5. KernelTypeOK'
  <2>1. usertested' \in BOOLEAN
    BY DEF Load, ExecLoad, ExecFails, OtherCommand, UsertestLoad, execVars, IInv, TypeOK, KernelTypeOK
  <2> QED BY <1>1, <1>2, <1>3, <2>1 DEF IInv, TypeOK, KernelTypeOK, Modes, KernelAssumption
<1>6. Entered'
  BY <1>1 DEF Entered
<1> QED BY <1>3, <1>4, <1>5, <1>6 DEF IInv, TypeOK

LEMMA SelectType ==
  ASSUME SchedulerTypeOK, NEW s \in Slots, SetCurrent(s)
  PROVE  SchedulerTypeOK'
<1>1. list' = list /\ scheduled' = s
  BY DEF SetCurrent
<1>2. index' \in Nat
  <2>1. CASE UNCHANGED index
    BY <2>1 DEF SchedulerTypeOK
  <2>2. ASSUME NEW i \in 1 .. Len(list), index' = i - 1 PROVE index' \in Nat
    BY <2>2 DEF SchedulerTypeOK
  <2> QED BY <2>1, <2>2 DEF SetCurrent
<1> QED BY <1>1, <1>2 DEF SchedulerTypeOK

LEMMA EnterStep ==
  ASSUME ProcessAssumption, IInv, Enter
  PROVE  IInv'
<1> USE DEF processVars, schedulerVars, fbVars, inputVars
<1>1. /\ mode \in {"loaded", "selected", "marked"} /\ mode' \in {"selected", "marked", "user"}
      /\ execSlot' = execSlot /\ image' = image /\ usertested' = usertested
      /\ UNCHANGED <<fbOwner, fbLocked, console, mouse, shellKeys>>
  BY DEF Enter, ExecSelect, ExecMark, ExecEnter
<1>2. execSlot \in Slots
  BY <1>1 DEF IInv, Entered
<1>3. KernelTypeOK'
  BY <1>1 DEF IInv, TypeOK, KernelTypeOK, Modes
<1>4. CASE ExecSelect
  <2>1. SchedulerTypeOK'
    BY <1>2, <1>4, SelectType DEF ExecSelect, IInv, TypeOK
  <2>2. ProcessTypeOK' /\ \A s \in Slots : procs'[s].fds = procs[s].fds
    BY <1>4 DEF ExecSelect, IInv, TypeOK, ProcessTypeOK
  <2>3. FbOnlyInUser' /\ FbAccounted'
    BY <1>1, <2>2, FbStaysFree
  <2>4. Entered'
    BY <1>2, <1>4 DEF ExecSelect, Entered
  <2> QED BY <1>3, <2>1, <2>2, <2>3, <2>4 DEF IInv, TypeOK
<1>5. CASE ExecMark
  <2>1. /\ procs' \in [Slots -> ProcessEntry]
        /\ \A s \in Slots : procs'[s].fds = procs[s].fds
    BY <1>2, <1>5, SetStateType DEF ExecMark, MarkRunning, IInv, TypeOK, ProcessTypeOK, States
  <2>2. ProcessTypeOK' /\ SchedulerTypeOK'
    BY <1>2, <1>5, <2>1
    DEF ExecMark, MarkRunning, IInv, TypeOK, ProcessTypeOK, SchedulerTypeOK
  <2>3. FbOnlyInUser' /\ FbAccounted'
    BY <1>1, <2>1, FbStaysFree
  <2>4. Entered'
    BY <1>2, <1>5 DEF ExecMark, MarkRunning, Entered
  <2> QED BY <1>3, <2>2, <2>3, <2>4 DEF IInv, TypeOK
<1>6. CASE ExecEnter
  <2>1. current = execSlot
    BY <1>6 DEF ExecEnter, IInv, Entered
  <2>2. /\ procs' \in [Slots -> ProcessEntry]
        /\ \A s \in Slots : procs'[s].fds = IF s = current THEN FreshFds ELSE procs[s].fds
    <3> DEFINE new == [procs EXCEPT ![current].fds = FreshFds]
    <3>1. procs \in [Slots -> ProcessEntry] /\ current \in Slots /\ FreshFds \in [Fds -> FdEntry]
      BY <1>2, <2>1, EntryTypes DEF IInv, TypeOK, ProcessTypeOK
    <3>2. /\ new \in [Slots -> ProcessEntry]
          /\ \A s \in Slots : new[s].fds = IF s = current THEN FreshFds ELSE procs[s].fds
      BY <3>1, SetFdsType
    <3>3. procs' = new
      BY <1>6 DEF ExecEnter
    <3> HIDE DEF new
    <3> QED BY <3>2, <3>3
  <2>3. ProcessTypeOK' /\ SchedulerTypeOK'
    BY <1>6, <2>2 DEF ExecEnter, IInv, TypeOK, ProcessTypeOK, SchedulerTypeOK
  <2>4. FbOnlyInUser' /\ FbAccounted'
    BY <1>1, <2>2, FbStaysFree
  <2>5. Entered'
    BY <1>2, <1>6, <2>1 DEF ExecEnter, Entered
  <2> QED BY <1>3, <2>3, <2>4, <2>5 DEF IInv, TypeOK
<1> QED BY <1>4, <1>5, <1>6 DEF Enter

-----------------------------------------------------------------------------
(* In ring 3 the current process is there. *)
LEMMA UserCurrent ==
  ASSUME IInv, mode = "user"
  PROVE  current \in Slots /\ procs[current] \in ProcessEntry
  BY DEF IInv, Entered, TypeOK, ProcessTypeOK

(* A system call that keeps the kernel's other variables in type. *)
LEMMA SyscallFrame ==
  ASSUME IInv, mode = "user", procs' \in [Slots -> ProcessEntry], mode' = "user",
         UNCHANGED <<current, nextPid, execSlot, image, usertested>>,
         fbOwner' \in Pids, fbLocked' \in BOOLEAN,
         console' \in 0 .. ConsoleCapacity, mouse' \in 0 .. MouseCapacity,
         shellKeys' \in 0 .. ShellKeysMax, SchedulerTypeOK'
  PROVE  TypeOK' /\ Entered'
  BY DEF IInv, TypeOK, ProcessTypeOK, KernelTypeOK, Entered, Modes

LEMMA OpenStep ==
  ASSUME ProcessAssumption, IInv, Open
  PROVE  IInv'
<1> USE DEF schedulerVars, execVars, inputVars
<1>1. mode = "user" /\ mode' = "user" /\ current \in Slots /\ procs \in [Slots -> ProcessEntry]
      /\ UNCHANGED <<current, nextPid, list, index, scheduled, execSlot, image, usertested, console, mouse,
                     shellKeys>>
  BY UserCurrent DEF Open, IInv, TypeOK, ProcessTypeOK
<1>2. PICK fd \in Fds : /\ FirstFreeFd(fd)
       /\ \/ SetFd(fd, Device("FRAMEBUFFER")) /\ FbAcquire
          \/ /\ \E type \in {"MOUSE", "CONSOLE", "NULL"} : SetFd(fd, Device(type))
             /\ UNCHANGED fbVars
          \/ /\ \E size \in FileSizes : SetFd(fd, File(size))
             /\ UNCHANGED fbVars
  BY DEF Open
<1>3. ASSUME NEW entry \in FdEntry, SetFd(fd, entry)
      PROVE  /\ procs' \in [Slots -> ProcessEntry]
             /\ \A s \in Slots : procs'[s].pid = procs[s].pid
             /\ \A s \in Slots \ {current} : procs'[s].fds = procs[s].fds
             /\ procs'[current].fds = [procs[current].fds EXCEPT ![fd] = entry]
  BY <1>1, <1>3, SetFdType
<1>4. procs[current].fds \in [Fds -> FdEntry] /\ procs[current].pid \in Pids
      /\ procs[current].fds[fd].type = "NONE"
  BY <1>1, <1>2 DEF ProcessEntry, FirstFreeFd, FdOf
<1>5. CASE SetFd(fd, Device("FRAMEBUFFER")) /\ FbAcquire
  <2>1. Device("FRAMEBUFFER") \in FdEntry /\ Device("FRAMEBUFFER").type = "FRAMEBUFFER"
    BY EntryTypes DEF FdTypes
  <2>2. /\ procs' \in [Slots -> ProcessEntry]
        /\ \A s \in Slots : procs'[s].pid = procs[s].pid
        /\ \A s \in Slots \ {current} : procs'[s].fds = procs[s].fds
        /\ procs'[current].fds = [procs[current].fds EXCEPT ![fd] = Device("FRAMEBUFFER")]
    BY <1>3, <1>5, <2>1
  <2>3. fbOwner' = procs[current].pid /\ fbLocked' = TRUE
    BY <1>5 DEF FbAcquire
  <2>4. TypeOK' /\ Entered'
    BY <1>1, <1>4, <2>2, <2>3, SyscallFrame
    DEF IInv, TypeOK, KernelTypeOK, SchedulerTypeOK
  <2>5. \A s \in Slots \ {current} : ~ FbOpen(s)'
    BY <1>1, <2>2, FbOpenSame DEF IInv, FbOnlyInUser
  <2>6. FbOpen(current)'
    BY <1>1, <1>4, <2>1, <2>2 DEF FbOpen
  <2>7. FbOnlyInUser' /\ FbAccounted'
    BY <1>1, <2>2, <2>3, <2>5, <2>6 DEF FbOnlyInUser, FbAccounted
  <2> QED BY <2>4, <2>7 DEF IInv
<1>6. ASSUME NEW entry \in FdEntry, entry.type # "FRAMEBUFFER", SetFd(fd, entry), UNCHANGED fbVars
      PROVE  IInv'
  <2>1. /\ procs' \in [Slots -> ProcessEntry]
        /\ \A s \in Slots : procs'[s].pid = procs[s].pid
        /\ \A s \in Slots \ {current} : procs'[s].fds = procs[s].fds
        /\ procs'[current].fds = [procs[current].fds EXCEPT ![fd] = entry]
    BY <1>3, <1>6
  <2>2. TypeOK' /\ Entered'
    BY <1>1, <1>6, <2>1, SyscallFrame
    DEF IInv, TypeOK, KernelTypeOK, SchedulerTypeOK, fbVars
  <2>3. \A s \in Slots : s = current => (FbOpen(s)' <=> FbOpen(s))
    BY <1>1, <1>4, <1>6, <2>1 DEF FbOpen
  <2>4. \A s \in Slots : FbOpen(s)' <=> FbOpen(s)
    BY <2>1, <2>3, FbOpenSame
  <2>5. FbOnlyInUser' /\ FbAccounted'
    BY <1>1, <1>6, <2>1, <2>4 DEF IInv, FbOnlyInUser, FbAccounted, fbVars
  <2> QED BY <2>2, <2>5 DEF IInv
<1>7. CASE \E type \in {"MOUSE", "CONSOLE", "NULL"} : SetFd(fd, Device(type)) /\ UNCHANGED fbVars
  BY <1>6, <1>7, EntryTypes DEF FdTypes
<1>8. CASE \E size \in FileSizes : SetFd(fd, File(size)) /\ UNCHANGED fbVars
  BY <1>6, <1>8, EntryTypes
<1> QED BY <1>2, <1>5, <1>7, <1>8

(* A read keeps every descriptor's type. *)
LEMMA ReadFileStep ==
  ASSUME ProcessAssumption, KernelAssumption, IInv, ReadFile
  PROVE  IInv'
<1> USE DEF schedulerVars, execVars, inputVars, fbVars
<1>1. mode = "user" /\ mode' = "user" /\ current \in Slots /\ procs \in [Slots -> ProcessEntry]
      /\ UNCHANGED <<current, nextPid, list, index, scheduled, execSlot, image, usertested, console, mouse,
                     shellKeys, fbOwner, fbLocked>>
  BY UserCurrent DEF ReadFile, IInv, TypeOK, ProcessTypeOK
<1>2. PICK fd \in Fds, asked \in 0 .. ReadMax :
        LET remaining == FdOf(fd).size - FdOf(fd).offset
            count == IF asked < remaining THEN asked ELSE remaining
        IN SetFd(fd, [FdOf(fd) EXCEPT !.offset = @ + count])
  BY DEF ReadFile
<1>3. FdOf(fd) \in FdEntry /\ procs[current].fds \in [Fds -> FdEntry]
  BY <1>1 DEF FdOf, ProcessEntry
<1>4. PICK count \in Int : /\ FdOf(fd).offset + count \in Nat
                           /\ SetFd(fd, [FdOf(fd) EXCEPT !.offset = @ + count])
  <2> DEFINE remaining == FdOf(fd).size - FdOf(fd).offset
             c == IF asked < remaining THEN asked ELSE remaining
  <2>1. c \in Int /\ FdOf(fd).offset + c \in Nat
    BY <1>3, KernelAssumption DEF FdEntry, KernelAssumption
  <2>2. SetFd(fd, [FdOf(fd) EXCEPT !.offset = @ + c])
    BY <1>2
  <2> HIDE DEF c
  <2> QED BY <2>1, <2>2
<1> DEFINE entry == [FdOf(fd) EXCEPT !.offset = @ + count]
<1>5. entry \in FdEntry /\ entry.type = FdOf(fd).type
  BY <1>3, <1>4 DEF FdEntry
<1>6. SetFd(fd, entry)
  BY <1>4
<1> HIDE DEF entry
<1>7. /\ procs' \in [Slots -> ProcessEntry]
      /\ \A s \in Slots : procs'[s].pid = procs[s].pid
      /\ \A s \in Slots \ {current} : procs'[s].fds = procs[s].fds
      /\ procs'[current].fds = [procs[current].fds EXCEPT ![fd] = entry]
  BY <1>1, <1>5, <1>6, SetFdType
<1>8. TypeOK' /\ Entered'
  BY <1>1, <1>7, SyscallFrame DEF IInv, TypeOK, KernelTypeOK, SchedulerTypeOK
<1>9. \A s \in Slots : FbOpen(s)' <=> FbOpen(s)
  <2>1. \A s \in Slots : s = current => (FbOpen(s)' <=> FbOpen(s))
    BY <1>1, <1>3, <1>5, <1>7 DEF FbOpen, FdOf
  <2> QED BY <1>7, <2>1, FbOpenSame
<1>10. FbOnlyInUser' /\ FbAccounted'
  BY <1>1, <1>7, <1>9 DEF IInv, FbOnlyInUser, FbAccounted
<1> QED BY <1>8, <1>10 DEF IInv

(* Reads of the queues and interrupts leave the processes alone. *)
LEMMA QueueStep ==
  ASSUME KernelAssumption, IInv, ReadConsole \/ ReadMouse \/ Irq
  PROVE  IInv'
<1> USE DEF processVars, schedulerVars, execVars, fbVars
<1>1. UNCHANGED <<procs, current, nextPid, list, index, scheduled, mode, execSlot, image, usertested,
                  fbOwner, fbLocked>>
  BY DEF ReadConsole, ReadMouse, Irq, KeyIrq, MouseIrq
<1>2. console \in 0 .. ConsoleCapacity /\ mouse \in 0 .. MouseCapacity
      /\ shellKeys \in 0 .. ShellKeysMax
  BY DEF IInv, TypeOK, KernelTypeOK
<1>3. /\ console' \in 0 .. ConsoleCapacity /\ mouse' \in 0 .. MouseCapacity
      /\ shellKeys' \in 0 .. ShellKeysMax
  <2>1. CASE ReadConsole
    BY <1>2, <2>1, KernelAssumption DEF ReadConsole, KernelAssumption
  <2>2. CASE ReadMouse
    BY <1>2, <2>2, KernelAssumption DEF ReadMouse, KernelAssumption
  <2>3. CASE KeyIrq
    BY <1>2, <2>3, KernelAssumption DEF KeyIrq, KernelAssumption
  <2>4. CASE MouseIrq
    BY <1>2, <2>4, KernelAssumption DEF MouseIrq, KernelAssumption
  <2> QED BY <2>1, <2>2, <2>3, <2>4 DEF Irq
<1>4. TypeOK'
  BY <1>1, <1>3 DEF IInv, TypeOK, ProcessTypeOK, SchedulerTypeOK, KernelTypeOK
<1>5. FbOnlyInUser' /\ FbAccounted'
  BY <1>1, FbUnchanged
<1> QED BY <1>1, <1>4, <1>5 DEF IInv, Entered

LEMMA CloseStep ==
  ASSUME ProcessAssumption, IInv, Close
  PROVE  IInv'
<1> USE DEF schedulerVars, execVars, inputVars
<1>1. mode = "user" /\ mode' = "user" /\ current \in Slots /\ procs \in [Slots -> ProcessEntry]
      /\ UNCHANGED <<current, nextPid, list, index, scheduled, execSlot, image, usertested, console, mouse,
                     shellKeys>>
  BY UserCurrent DEF Close, IInv, TypeOK, ProcessTypeOK
<1>2. PICK fd \in Fds :
        /\ SetFd(fd, Unopened)
        /\ IF FdOf(fd).type = "FRAMEBUFFER" THEN FbReleaseIfUnused(fd) ELSE UNCHANGED fbVars
  BY DEF Close
<1>3. FdOf(fd) \in FdEntry /\ procs[current].fds \in [Fds -> FdEntry]
      /\ Unopened \in FdEntry /\ Unopened.type = "NONE"
  BY <1>1, EntryTypes DEF FdOf, ProcessEntry, Unopened
<1>4. /\ procs' \in [Slots -> ProcessEntry]
      /\ \A s \in Slots : procs'[s].pid = procs[s].pid
      /\ \A s \in Slots \ {current} : procs'[s].fds = procs[s].fds
      /\ procs'[current].fds = [procs[current].fds EXCEPT ![fd] = Unopened]
  BY <1>1, <1>2, <1>3, SetFdType
<1>5. fbOwner' \in Pids /\ fbLocked' \in BOOLEAN
  <2>1. 0 \in Pids /\ fbOwner \in Pids /\ fbLocked \in BOOLEAN
    BY DEF IInv, TypeOK, KernelTypeOK, Pids, ProcessAssumption
  <2>2. \/ UNCHANGED fbVars
        \/ fbOwner' = 0 /\ fbLocked' = FALSE
    BY <1>2 DEF FbReleaseIfUnused, FbForceRelease
  <2> QED BY <2>1, <2>2 DEF fbVars
<1>6. TypeOK' /\ Entered'
  BY <1>1, <1>4, <1>5, SyscallFrame DEF IInv, TypeOK, KernelTypeOK, SchedulerTypeOK
<1>7. \A s \in Slots \ {current} : ~ FbOpen(s) /\ ~ FbOpen(s)'
  BY <1>1, <1>4, FbOpenSame DEF IInv, FbOnlyInUser
<1>8. \A s \in Slots : s = current =>
        (FbOpen(s)' <=> \E other \in Fds \ {fd} : FdOf(other).type = "FRAMEBUFFER")
  BY <1>1, <1>3, <1>4 DEF FbOpen, FdOf
<1>9. CASE FdOf(fd).type # "FRAMEBUFFER"
  <2>1. UNCHANGED fbVars
    BY <1>2, <1>9
  <2>2. FbOpen(current) <=> \E other \in Fds \ {fd} : FdOf(other).type = "FRAMEBUFFER"
    BY <1>9 DEF FbOpen, FdOf
  <2>3. \A s \in Slots : FbOpen(s)' <=> FbOpen(s)
    BY <1>7, <1>8, <2>2
  <2>4. FbOnlyInUser' /\ FbAccounted'
    BY <1>1, <1>4, <2>1, <2>3 DEF IInv, FbOnlyInUser, FbAccounted, fbVars
  <2> QED BY <1>6, <2>4 DEF IInv
<1>10. CASE FdOf(fd).type = "FRAMEBUFFER"
  <2>1. FbOpen(current) /\ fbLocked /\ fbOwner = procs[current].pid
    BY <1>1, <1>10 DEF FbOpen, FdOf, IInv, FbAccounted
  <2>2. CASE \E other \in Fds \ {fd} : FdOf(other).type = "FRAMEBUFFER"
    <3>1. UNCHANGED fbVars
      BY <1>2, <1>10, <2>2 DEF FbReleaseIfUnused
    <3>2. \A s \in Slots : FbOpen(s)' <=> FbOpen(s)
      BY <1>7, <1>8, <2>1, <2>2
    <3>3. FbOnlyInUser' /\ FbAccounted'
      BY <1>1, <1>4, <3>1, <3>2 DEF IInv, FbOnlyInUser, FbAccounted, fbVars
    <3> QED BY <1>6, <3>3 DEF IInv
  <2>3. CASE ~ \E other \in Fds \ {fd} : FdOf(other).type = "FRAMEBUFFER"
    <3>1. fbOwner' = 0 /\ ~ fbLocked'
      BY <1>2, <1>10, <2>1, <2>3 DEF FbReleaseIfUnused, FbForceRelease
    <3>2. \A s \in Slots : ~ FbOpen(s)'
      BY <1>7, <1>8, <2>3
    <3> QED BY <1>6, <3>1, <3>2 DEF IInv, FbOnlyInUser, FbAccounted
  <2> QED BY <2>2, <2>3
<1> QED BY <1>9, <1>10

LEMMA YieldStep ==
  ASSUME ProcessAssumption, IInv, SysYield
  PROVE  IInv'
<1> USE DEF execVars, inputVars, fbVars
<1>1. mode = "user" /\ mode' = "user" /\ procs \in [Slots -> ProcessEntry]
      /\ UNCHANGED <<current, nextPid, execSlot, image, usertested, console, mouse, shellKeys, fbOwner,
                     fbLocked>>
  BY DEF SysYield, IInv, TypeOK, ProcessTypeOK
<1>2. /\ procs' \in [Slots -> ProcessEntry]
      /\ \A s \in Slots : procs'[s].fds = procs[s].fds /\ procs'[s].pid = procs[s].pid
      /\ SchedulerTypeOK'
  BY <1>1, YieldType DEF SysYield, IInv, TypeOK
<1>3. TypeOK' /\ Entered'
  BY <1>1, <1>2, SyscallFrame DEF IInv, TypeOK, KernelTypeOK
<1>4. FbOnlyInUser' /\ FbAccounted'
  BY <1>1, <1>2, FbUnchanged
<1> QED BY <1>3, <1>4 DEF IInv

LEMMA ExitStep ==
  ASSUME ProcessAssumption, KernelAssumption, IInv, Exit
  PROVE  IInv'
<1>1. mode = "user" /\ mode' = "shell" /\ current \in Slots /\ procs \in [Slots -> ProcessEntry]
      /\ UNCHANGED <<current, nextPid, execSlot, image, usertested, console, mouse>> /\ shellKeys' = 0
  BY UserCurrent DEF Exit, IInv, TypeOK, ProcessTypeOK
<1> DEFINE table == Exited(current)
<1>2. /\ table \in [Slots -> ProcessEntry]
      /\ table[current].fds = NoFds
      /\ \A s \in Slots \ {current} : table[s].fds = procs[s].fds
  BY <1>1, EntryTypes DEF Exited, ProcessEntry, States
<1>3. Yield(table)
  BY DEF Exit
<1> HIDE DEF table
<1>4. /\ procs' \in [Slots -> ProcessEntry]
      /\ \A s \in Slots : procs'[s].fds = table[s].fds
      /\ SchedulerTypeOK'
  BY <1>2, <1>3, YieldType DEF IInv, TypeOK
<1>5. \A s \in Slots : ~ FbOpen(s)'
  <2>1. \A s \in Slots \ {current} : ~ FbOpen(s)'
    BY <1>1, <1>2, <1>4, FbOpenSame DEF IInv, FbOnlyInUser
  <2>2. \A s \in Slots : s = current => ~ FbOpen(s)'
    BY <1>1, <1>2, <1>4, FreshHasNoFb
  <2> QED BY <2>1, <2>2
<1>6. fbOwner' = 0 /\ ~ fbLocked' /\ fbLocked' \in BOOLEAN
  <2>1. CASE fbOwner = procs[current].pid
    BY <2>1 DEF Exit, FbForceRelease
  <2>2. CASE fbOwner # procs[current].pid
    <3>1. ~ FbOpen(current)
      BY <1>1, <2>2 DEF IInv, FbAccounted
    <3>2. ~ fbLocked
      BY <1>1, <3>1 DEF IInv, FbOnlyInUser, FbAccounted
    <3> QED BY <2>2, <3>2 DEF Exit, FbForceRelease, fbVars, IInv, FbAccounted, TypeOK, KernelTypeOK
  <2> QED BY <2>1, <2>2
<1>7. TypeOK'
  BY <1>1, <1>4, <1>6, ProcessAssumption, KernelAssumption
  DEF IInv, TypeOK, ProcessTypeOK, KernelTypeOK, Modes, Pids, ProcessAssumption, KernelAssumption
<1>8. Entered'
  BY <1>1 DEF Entered
<1> QED BY <1>5, <1>6, <1>7, <1>8 DEF IInv, FbOnlyInUser, FbAccounted

LEMMA NextIInv ==
  ASSUME ProcessAssumption, KernelAssumption, IInv, [Next]_vars
  PROVE  IInv'
<1>1. CASE Load
  BY <1>1, LoadStep
<1>2. CASE Enter
  BY <1>2, EnterStep
<1>3. CASE Syscall
  BY <1>3, OpenStep, ReadFileStep, QueueStep, CloseStep, YieldStep, ExitStep DEF Syscall
<1>4. CASE Irq
  BY <1>4, QueueStep
<1>5. CASE UNCHANGED vars
  <2>1. UNCHANGED <<procs, current, nextPid, list, index, scheduled, mode, execSlot, image, usertested,
                    fbOwner, fbLocked, console, mouse, shellKeys>>
    BY <1>5 DEF vars, processVars, schedulerVars, execVars, fbVars, inputVars
  <2>2. FbOnlyInUser' /\ FbAccounted'
    BY <2>1, FbUnchanged
  <2> QED BY <2>1, <2>2
          DEF IInv, Entered, TypeOK, ProcessTypeOK, SchedulerTypeOK, KernelTypeOK
<1> QED BY <1>1, <1>2, <1>3, <1>4, <1>5 DEF Next

-----------------------------------------------------------------------------
LEMMA KernelInvariant == Spec => []IInv
<1>1. Init => IInv
  BY InitIInv, ProcessAssumption, KernelAssumption
<1>2. IInv /\ [Next]_vars => IInv'
  BY NextIInv, ProcessAssumption, KernelAssumption
<1> QED BY <1>1, <1>2, PTL DEF Spec

(* Tables, queues and counters keep their types and capacities. *)
THEOREM KernelTypes == Spec => []TypeOK
<1>1. IInv => TypeOK
  BY DEF IInv
<1> QED BY <1>1, KernelInvariant, PTL

(* The terminal's lock, the owner's pid and the open framebuffer descriptors
   agree in every reachable state, for pids of any width: when the counter
   comes round, a process with pid 0, the value that means "no owner", and
   processes that share a pid are covered too. *)
THEOREM FramebufferIsOwned == Spec => []FramebufferOwnership
<1>1. IInv => FramebufferOwnership
  BY DEF IInv, FbOnlyInUser, FbAccounted, FramebufferOwnership
<1> QED BY <1>1, KernelInvariant, PTL

-----------------------------------------------------------------------------
(* Descriptors.  What a step can do to the descriptors of slot t: nothing,
   unless t's program exits; a new table or an empty one; or one descriptor of
   the program in ring 3. *)
FdStep(t) ==
  \/ procs'[t].fds = procs[t].fds /\ (mode = "user" /\ t = current => mode' = "user")
  \/ procs'[t].fds \in {FreshFds, NoFds}
  \/ /\ mode = "user" /\ mode' = "user" /\ t = current
     /\ \E fd \in Fds, entry \in FdEntry :
          /\ entry.offset <= entry.size
          /\ procs'[t].fds = [procs[t].fds EXCEPT ![fd] = entry]

LEMMA SetFdStep ==
  ASSUME IInv, mode = "user", mode' = "user", NEW fd \in Fds, NEW entry \in FdEntry,
         entry.offset <= entry.size, SetFd(fd, entry)
  PROVE  \A t \in Slots : FdStep(t)
<1>1. current \in Slots /\ procs \in [Slots -> ProcessEntry]
  BY UserCurrent DEF IInv, TypeOK, ProcessTypeOK
<1>2. /\ \A s \in Slots \ {current} : procs'[s].fds = procs[s].fds
      /\ procs'[current].fds = [procs[current].fds EXCEPT ![fd] = entry]
  BY <1>1, SetFdType
<1> QED BY <1>2 DEF FdStep

LEMMA FdSteps ==
  ASSUME ProcessAssumption, KernelAssumption, IInv, OffsetWithinFile, [Next]_vars
  PROVE  (\A t \in Slots : FdStep(t)) /\ (mode = "user" => current' = current)
<1> USE DEF processVars, schedulerVars, execVars
<1>1. mode = "user" => current' = current
  BY DEF Next, Load, ExecLoad, ExecFails, OtherCommand, UsertestLoad, Enter, ExecSelect, ExecMark,
         ExecEnter, Syscall, Open, ReadFile, ReadConsole, ReadMouse, Close, SysYield, Exit, Irq,
         KeyIrq, MouseIrq, vars
<1>2. CASE Load
  <2>1. CASE \E s \in Slots : LoadInto(s)
    BY <1>2, <2>1, LoadIntoType DEF FdStep, Load, ExecLoad, ExecFails, OtherCommand, UsertestLoad
  <2>2. CASE UNCHANGED procs
    BY <1>2, <2>2 DEF FdStep, Load, ExecLoad, ExecFails, OtherCommand, UsertestLoad
  <2> QED BY <1>2, <2>1, <2>2 DEF Load, ExecLoad, ExecFails, OtherCommand, UsertestLoad, LoadFails
<1>3. CASE ExecSelect \/ ReadConsole \/ ReadMouse \/ Irq \/ UNCHANGED vars
  <2>1. procs' = procs /\ (mode = "user" => mode' = "user")
    BY <1>3 DEF ExecSelect, ReadConsole, ReadMouse, Irq, KeyIrq, MouseIrq, vars
  <2> QED BY <1>1, <2>1 DEF FdStep
<1>4. CASE ExecMark
  <2>1. execSlot \in Slots /\ procs \in [Slots -> ProcessEntry]
    BY <1>4 DEF ExecMark, IInv, Entered, TypeOK, ProcessTypeOK
  <2>2. \A s \in Slots : procs'[s].fds = procs[s].fds
    BY <1>4, <2>1, SetStateType DEF ExecMark, MarkRunning, States
  <2> QED BY <1>4, <2>2 DEF FdStep, ExecMark
<1>5. CASE ExecEnter
  <2>1. current \in Slots /\ procs \in [Slots -> ProcessEntry] /\ FreshFds \in [Fds -> FdEntry]
    BY <1>5, EntryTypes DEF ExecEnter, IInv, Entered, TypeOK, ProcessTypeOK
  <2>2. \A s \in Slots : procs'[s].fds = IF s = current THEN FreshFds ELSE procs[s].fds
    BY <1>5, <2>1, SetFdsType DEF ExecEnter
  <2> QED BY <1>5, <2>2 DEF FdStep, ExecEnter
<1>6. CASE Open
  <2>1. mode = "user" /\ mode' = "user"
    BY <1>6 DEF Open
  <2>2. PICK fd \in Fds : \/ \E type \in {"FRAMEBUFFER", "MOUSE", "CONSOLE", "NULL"} : SetFd(fd, Device(type))
                          \/ \E size \in FileSizes : SetFd(fd, File(size))
    BY <1>6 DEF Open
  <2>3. /\ \A type \in FdTypes : Device(type) \in FdEntry /\ Device(type).offset <= Device(type).size
        /\ \A size \in FileSizes : File(size) \in FdEntry /\ File(size).offset <= File(size).size
    BY EntryTypes DEF Device, File, Unopened, ProcessAssumption
  <2> QED BY <1>1, <2>1, <2>2, <2>3, SetFdStep DEF FdTypes
<1>7. CASE ReadFile
  <2>1. mode = "user" /\ mode' = "user" /\ current \in Slots /\ procs \in [Slots -> ProcessEntry]
    BY <1>7, UserCurrent DEF ReadFile, IInv, TypeOK, ProcessTypeOK
  <2>2. PICK fd \in Fds, asked \in 0 .. ReadMax :
          LET remaining == FdOf(fd).size - FdOf(fd).offset
              count == IF asked < remaining THEN asked ELSE remaining
          IN SetFd(fd, [FdOf(fd) EXCEPT !.offset = @ + count])
    BY <1>7 DEF ReadFile
  <2>3. FdOf(fd) \in FdEntry /\ FdOf(fd).offset <= FdOf(fd).size
    BY <2>1 DEF FdOf, ProcessEntry, OffsetWithinFile
  <2> DEFINE remaining == FdOf(fd).size - FdOf(fd).offset
             c == IF asked < remaining THEN asked ELSE remaining
             entry == [FdOf(fd) EXCEPT !.offset = @ + c]
  <2>4. c \in Nat /\ FdOf(fd).offset + c <= FdOf(fd).size
    BY <2>3, KernelAssumption DEF FdEntry, KernelAssumption
  <2>5. SetFd(fd, entry)
    BY <2>2
  <2> HIDE DEF c
  <2>6. entry \in FdEntry /\ entry.offset <= entry.size
    BY <2>3, <2>4 DEF FdEntry
  <2> QED BY <1>1, <2>1, <2>5, <2>6, SetFdStep
<1>8. CASE Close
  <2>1. mode = "user" /\ mode' = "user" /\ \E fd \in Fds : SetFd(fd, Unopened)
    BY <1>8 DEF Close
  <2>2. Unopened \in FdEntry /\ Unopened.offset <= Unopened.size
    BY EntryTypes DEF Unopened
  <2> QED BY <1>1, <2>1, <2>2, SetFdStep
<1>9. CASE SysYield
  <2>1. \A s \in Slots : procs'[s].fds = procs[s].fds
    BY <1>9, YieldType DEF SysYield, IInv, TypeOK, ProcessTypeOK
  <2> QED BY <1>9, <2>1 DEF FdStep, SysYield
<1>10. CASE Exit
  <2> DEFINE table == Exited(current)
  <2>1. current \in Slots /\ procs \in [Slots -> ProcessEntry]
    BY <1>10, UserCurrent DEF Exit, IInv, TypeOK, ProcessTypeOK
  <2>2. /\ table \in [Slots -> ProcessEntry]
        /\ \A s \in Slots : table[s].fds = IF s = current THEN NoFds ELSE procs[s].fds
    BY <2>1, EntryTypes DEF Exited, ProcessEntry, States
  <2>3. Yield(table)
    BY <1>10 DEF Exit
  <2> HIDE DEF table
  <2>4. \A s \in Slots : procs'[s].fds = table[s].fds
    BY <2>2, <2>3, YieldType DEF IInv, TypeOK
  <2> QED BY <1>1, <2>2, <2>4 DEF FdStep
<1> QED BY <1>1, <1>2, <1>3, <1>4, <1>5, <1>6, <1>7, <1>8, <1>9, <1>10
    DEF Next, Enter, Syscall

LEMMA NextDescriptors ==
  ASSUME ProcessAssumption, KernelAssumption, IInv, OffsetWithinFile, NoStrayDescriptors, [Next]_vars
  PROVE  OffsetWithinFile' /\ NoStrayDescriptors'
<1>1. procs \in [Slots -> ProcessEntry] /\ \A s \in Slots : procs[s].fds \in [Fds -> FdEntry]
  BY DEF IInv, TypeOK, ProcessTypeOK, ProcessEntry
<1>2. (\A t \in Slots : FdStep(t)) /\ (mode = "user" => current' = current)
  BY FdSteps
<1>3. \A fds \in {FreshFds, NoFds} : \A fd \in Fds :
        /\ fds[fd].offset <= fds[fd].size
        /\ fd \in 3 .. FdMax - 1 => fds[fd].type = "NONE"
  BY DEF FreshFds, NoFds, Device, Unopened, Fds
<1>4. OffsetWithinFile'
  <2> SUFFICES ASSUME NEW t \in Slots, NEW fd \in Fds
              PROVE  procs'[t].fds[fd].offset <= procs'[t].fds[fd].size
    BY DEF OffsetWithinFile
  <2>1. FdStep(t)
    BY <1>2
  <2> QED BY <1>1, <1>3, <2>1 DEF FdStep, OffsetWithinFile
<1>5. NoStrayDescriptors'
  <2> SUFFICES ASSUME NEW t \in Slots, NEW fd \in 3 .. FdMax - 1, procs'[t].fds[fd].type # "NONE"
              PROVE  mode' = "user" /\ t = current'
    BY DEF NoStrayDescriptors
  <2>1. FdStep(t) /\ fd \in Fds
    BY <1>2, ProcessAssumption DEF Fds, ProcessAssumption
  <2> QED BY <1>2, <1>3, <2>1 DEF FdStep, NoStrayDescriptors
<1> QED BY <1>4, <1>5

LEMMA DescriptorInvariant == Spec => [](OffsetWithinFile /\ NoStrayDescriptors)
<1>1. Init => OffsetWithinFile /\ NoStrayDescriptors
  BY ProcessAssumption
  DEF Init, ProcessInit, OffsetWithinFile, NoStrayDescriptors, NoFds, Unopened, Fds, ProcessAssumption
<1>2. IInv /\ OffsetWithinFile /\ NoStrayDescriptors /\ [Next]_vars
        => (OffsetWithinFile /\ NoStrayDescriptors)'
  BY NextDescriptors, ProcessAssumption, KernelAssumption
<1> QED BY <1>1, <1>2, KernelInvariant, PTL DEF Spec

(* However opens, reads, failed copies and closes follow each other, a file's
   offset never passes its size (syscall.c), so what is left of the file,
   computed without sign, is never a huge number. *)
THEOREM OffsetsStayWithin == Spec => []OffsetWithinFile
BY DescriptorInvariant, PTL

(* A descriptor a program opened is gone when the program is: the exit clears
   the slot, creation and the entry into ring 3 fill it anew (process.c,
   syscall.c), whatever slot and pid the next program gets. *)
THEOREM DescriptorsDieWithProgram == Spec => []NoStrayDescriptors
BY DescriptorInvariant, PTL

-----------------------------------------------------------------------------
(* The scheduler's list. *)

(* Slots are used for good: created ready, then running, resting or exited. *)
Used(table, s) == table[s].state # "UNUSED"

(* From the load to the exit the process being run has a slot. *)
ExecUsed == mode # "shell" => Used(procs, execSlot)

LEMMA ConsistentSame ==
  ASSUME SchedulerConsistent, UNCHANGED schedulerVars,
         \A s \in Slots : Used(procs', s) <=> Used(procs, s)
  PROVE  SchedulerConsistent'
BY DEF SchedulerConsistent, schedulerVars, Used, Listed

(* A list that names each slot once and not s has room for s. *)
LEMMA ListHasRoom ==
  ASSUME ProcessAssumption, list \in Seq(Slots), NEW s \in Slots, ~ Listed(s),
         \A i, j \in 1 .. Len(list) : list[i] = list[j] => i = j
  PROVE  Len(list) < ProcessMax
<1>1. Len(list) \in Nat /\ list \in [1 .. Len(list) -> Slots]
  OBVIOUS
<1>2. IsFiniteSet(Slots) /\ Cardinality(Slots) = ProcessMax
  BY FS_Interval, ProcessAssumption DEF ProcessAssumption
<1> DEFINE n == Len(list)
           A == Slots
<1>3. IsFiniteSet(A \ {s}) /\ Cardinality(A \ {s}) = ProcessMax - 1
  <2>1. IsFiniteSet(A) /\ s \in A /\ Cardinality(A) = ProcessMax
    BY <1>2
  <2> HIDE DEF A
  <2> QED BY <2>1, FS_RemoveElement
<1>4. IsFiniteSet(1 .. n) /\ Cardinality(1 .. n) = n
  <2>1. n \in Nat /\ n \in Int /\ 1 \in Int
    BY <1>1
  <2> HIDE DEF n
  <2>2. IsFiniteSet(1 .. n) /\ Cardinality(1 .. n) = IF 1 > n THEN 0 ELSE n - 1 + 1
    BY <2>1, FS_Interval, Zenon
  <2> QED BY <2>1, <2>2
<1>5. list \in [1 .. Len(list) -> Slots \ {s}]
  BY <1>1 DEF Listed
<1> DEFINE S == 1 .. Len(list)
           T == Slots \ {s}
<1>6. ASSUME Cardinality(T) < Cardinality(S) PROVE FALSE
  <2>1. IsFiniteSet(S) /\ IsFiniteSet(T) /\ list \in [S -> T]
    BY <1>3, <1>4, <1>5
  <2> HIDE DEF S, T
  <2>2. \E x, y \in S : x # y /\ list[x] = list[y]
    BY <1>6, <2>1, FS_PigeonHole
  <2> QED BY <2>2 DEF S
<1> QED BY <1>1, <1>3, <1>4, <1>6, ProcessAssumption DEF ProcessAssumption

(* scheduler_register of a slot that process_create has just filled. *)
LEMMA RegisterConsistent ==
  ASSUME ProcessAssumption, SchedulerTypeOK, SchedulerConsistent, NEW s \in Slots, Register(s),
         \A t \in Slots : Used(procs', t) <=> Used(procs, t) \/ t = s
  PROVE  SchedulerConsistent'
<1>1. CASE Listed(s)
  <2>1. UNCHANGED schedulerVars /\ Used(procs, s)
    BY <1>1 DEF Register, SchedulerConsistent, Used
  <2> QED BY <2>1, ConsistentSame
<1>2. CASE ~ Listed(s)
  <2> DEFINE n == Len(list)
  <2>1. n \in Nat /\ list \in [1 .. n -> Slots]
    BY DEF SchedulerTypeOK
  <2>2. list' = Append(list, s)
    BY <1>2, ListHasRoom DEF Register, SchedulerTypeOK, SchedulerConsistent
  <2>3. /\ Len(list') = n + 1 /\ list'[n + 1] = s
        /\ \A i \in 1 .. n : list'[i] = list[i] /\ list[i] # s
    BY <1>2, <2>1, <2>2 DEF SchedulerTypeOK, Listed
  <2> HIDE DEF n
  <2>4. \A i, j \in 1 .. Len(list') : list'[i] = list'[j] => i = j
    BY <2>1, <2>3 DEF SchedulerConsistent, n
  <2>5. \A t \in Slots : Listed(t)' <=> Listed(t) \/ t = s
    BY <2>1, <2>3 DEF Listed, n
  <2>6. \A t \in Slots : Listed(t)' <=> Used(procs', t)
    BY <2>5 DEF SchedulerConsistent, Used
  <2>7. CASE scheduled = Null
    <3>1. n = 0 /\ index' = 0 /\ scheduled' = s
      BY <1>2, <2>7 DEF Register, SchedulerConsistent, n
    <3> QED BY <2>3, <2>4, <2>6, <3>1 DEF SchedulerConsistent, Used
  <2>8. CASE scheduled # Null
    <3>1. UNCHANGED <<index, scheduled>> /\ index < n /\ list[index + 1] = scheduled
      BY <1>2, <2>8 DEF Register, SchedulerConsistent, n
    <3>2. index \in Nat
      BY DEF SchedulerTypeOK
    <3>3. index' < Len(list') /\ list'[index' + 1] = scheduled'
      BY <2>1, <2>3, <3>1, <3>2
    <3> QED BY <2>4, <2>6, <2>8, <3>1, <3>3 DEF SchedulerConsistent, Used
  <2> QED BY <2>7, <2>8
<1> QED BY <1>1, <1>2

LEMMA SelectConsistent ==
  ASSUME SchedulerTypeOK, SchedulerConsistent, NEW s \in Slots, Used(procs, s), SetCurrent(s),
         UNCHANGED procs
  PROVE  SchedulerConsistent'
<1>1. list' = list /\ scheduled' = s /\ Listed(s)
  BY DEF SetCurrent, SchedulerConsistent, Used
<1>2. PICK i \in 1 .. Len(list) : list[i] = s /\ index' = i - 1
  BY <1>1 DEF SetCurrent
<1>3. index' < Len(list') /\ list'[index' + 1] = scheduled' /\ scheduled' # Null
  BY <1>1, <1>2 DEF SchedulerTypeOK
<1> QED BY <1>1, <1>3 DEF SchedulerConsistent, Listed

(* scheduler_yield finds nothing and changes nothing, or finds the slot at the
   place it then remembers. *)
LEMMA YieldConsistent ==
  ASSUME ProcessAssumption, NEW table \in [Slots -> ProcessEntry],
         SchedulerTypeOK, SchedulerConsistent, Yield(table),
         \A s \in Slots : Used(table, s) <=> Used(procs, s)
  PROVE  SchedulerConsistent' /\ \A s \in Slots : Used(procs', s) <=> Used(procs, s)
<1>1. CASE procs' = table /\ UNCHANGED schedulerVars
  BY <1>1, ConsistentSame
<1>2. ASSUME scheduled # Null, NEW step \in 1 .. Len(list),
             procs' = Woken(Rested(table, scheduled), Candidate(step)),
             index' = (index + step) % Len(list),
             scheduled' = Candidate(step), UNCHANGED list
      PROVE  SchedulerConsistent' /\ \A s \in Slots : Used(procs', s) <=> Used(procs, s)
  <2>1. Len(list) \in Nat \ {0} /\ index + step \in Nat
    BY DEF SchedulerTypeOK
  <2>2. (index + step) % Len(list) \in 0 .. Len(list) - 1
    BY <2>1
  <2>3. Candidate(step) \in Slots
    BY <2>1, <2>2 DEF Candidate, SchedulerTypeOK
  <2> DEFINE rested == Rested(table, scheduled)
             next == Candidate(step)
  <2>4. /\ rested \in [Slots -> ProcessEntry]
        /\ \A s \in Slots : Used(rested, s) <=> Used(table, s)
    BY <1>2 DEF Rested, SchedulerTypeOK, ProcessEntry, States, Used
  <2> HIDE DEF rested, next
  <2>5. \A s \in Slots : Used(Woken(rested, next), s) <=> Used(rested, s)
    BY <2>3, <2>4 DEF Woken, ProcessEntry, States, Used, next
  <2>6. \A s \in Slots : Used(procs', s) <=> Used(procs, s)
    BY <1>2, <2>4, <2>5 DEF rested, next
  <2>7. index' < Len(list') /\ list'[index' + 1] = scheduled' /\ scheduled' # Null
    BY <1>2, <2>2, <2>3, ProcessAssumption DEF Candidate, ProcessAssumption
  <2>8. \A s \in Slots : Listed(s)' <=> Listed(s)
    BY <1>2 DEF Listed
  <2>9. \A i, j \in 1 .. Len(list') : list'[i] = list'[j] => i = j
    BY <1>2 DEF SchedulerConsistent
  <2>10. \A s \in Slots : Listed(s)' <=> procs'[s].state # "UNUSED"
    BY <2>6, <2>8 DEF SchedulerConsistent, Used
  <2> QED BY <2>6, <2>7, <2>9, <2>10 DEF SchedulerConsistent
<1> QED BY <1>1, <1>2 DEF Yield

(* A system call that opens, reads or closes changes no state. *)
LEMMA SetFdStates ==
  ASSUME IInv, mode = "user", NEW fd \in Fds, NEW entry, SetFd(fd, entry)
  PROVE  \A s \in Slots : procs'[s].state = procs[s].state /\ procs'[s].pid = procs[s].pid
<1>1. current \in Slots /\ procs \in [Slots -> ProcessEntry]
  BY UserCurrent DEF IInv, TypeOK, ProcessTypeOK
<1> QED BY <1>1 DEF SetFd, ProcessEntry

(* The calls and interrupts that leave the states and the scheduler alone. *)
Quiet == Open \/ ReadFile \/ ReadConsole \/ ReadMouse \/ Close \/ Irq \/ UNCHANGED vars

LEMMA QuietStates ==
  ASSUME IInv, Quiet
  PROVE  /\ \A s \in Slots : procs'[s].state = procs[s].state /\ procs'[s].pid = procs[s].pid
         /\ UNCHANGED <<current, nextPid, schedulerVars, execVars>>
<1> USE DEF processVars, schedulerVars, execVars
<1>1. CASE Open
  <2>1. mode = "user" /\ \E fd \in Fds : \E entry : SetFd(fd, entry)
    BY <1>1 DEF Open
  <2> QED BY <1>1, <2>1, SetFdStates DEF Open
<1>2. CASE ReadFile
  <2>1. mode = "user" /\ \E fd \in Fds : \E entry : SetFd(fd, entry)
    BY <1>2 DEF ReadFile
  <2> QED BY <1>2, <2>1, SetFdStates DEF ReadFile
<1>3. CASE Close
  <2>1. mode = "user" /\ \E fd \in Fds : \E entry : SetFd(fd, entry)
    BY <1>3 DEF Close
  <2> QED BY <1>3, <2>1, SetFdStates DEF Close
<1>4. CASE ReadConsole \/ ReadMouse \/ Irq \/ UNCHANGED vars
  BY <1>4 DEF ReadConsole, ReadMouse, Irq, KeyIrq, MouseIrq, vars
<1> QED BY <1>1, <1>2, <1>3, <1>4 DEF Quiet

(* The process that is being run is the one the image was loaded for. *)
ImageRight == mode # "shell" => image = procs[execSlot].pid

SchedInv == SchedulerConsistent /\ ExecUsed /\ ImageRight

(* What exec_load leaves when it succeeds. *)
LEMMA LoadedSlot ==
  ASSUME IInv, NEW s \in Slots, LoadInto(s)
  PROVE  /\ procs'[s].state = "READY" /\ procs'[s].pid = nextPid /\ image' = nextPid
         /\ \A t \in Slots \ {s} : procs'[t] = procs[t]
         /\ execSlot' = s /\ Register(s) /\ Reusable(s)
<1>1. procs \in [Slots -> ProcessEntry]
  BY DEF IInv, TypeOK, ProcessTypeOK
<1> QED BY <1>1 DEF LoadInto, Create, FirstReusable

LEMMA NextScheduler ==
  ASSUME ProcessAssumption, KernelAssumption, IInv, SchedInv, [Next]_vars
  PROVE  SchedInv'
<1> USE DEF processVars, schedulerVars, execVars
<1>1. /\ procs \in [Slots -> ProcessEntry] /\ SchedulerTypeOK
      /\ SchedulerConsistent /\ ExecUsed /\ ImageRight
      /\ mode # "shell" => execSlot \in Slots
      /\ mode = "user" => current = execSlot
  BY DEF IInv, TypeOK, ProcessTypeOK, Entered, SchedInv
<1>2. ASSUME mode = "shell", NEW s \in Slots, LoadInto(s) PROVE SchedInv'
  <2>1. \A t \in Slots : Used(procs', t) <=> Used(procs, t) \/ t = s
    BY <1>1, <1>2, LoadedSlot DEF Used
  <2>2. SchedulerConsistent'
    BY <1>1, <1>2, <2>1, LoadedSlot, RegisterConsistent
  <2> QED BY <1>2, <2>2, LoadedSlot DEF SchedInv, ExecUsed, ImageRight, Used
<1>3. CASE Load
  <2>1. CASE \E s \in Slots : LoadInto(s)
    BY <1>2, <1>3, <2>1 DEF Load, ExecLoad, ExecFails, OtherCommand, UsertestLoad
  <2>2. CASE UNCHANGED <<processVars, schedulerVars>> /\ mode' = "shell"
    BY <1>1, <2>2, ConsistentSame DEF SchedInv, ExecUsed, ImageRight
  <2> QED BY <1>3, <2>1, <2>2 DEF Load, ExecLoad, ExecFails, OtherCommand, UsertestLoad, LoadFails
<1>4. CASE ExecSelect
  <2>1. /\ mode # "shell" /\ SetCurrent(execSlot) /\ UNCHANGED <<procs, execSlot, image>>
    BY <1>4 DEF ExecSelect
  <2>2. SchedulerConsistent'
    BY <1>1, <2>1, SelectConsistent DEF ExecUsed
  <2> QED BY <1>1, <2>1, <2>2 DEF SchedInv, ExecUsed, ImageRight
<1>5. CASE ExecMark
  <2>1. /\ mode # "shell" /\ UNCHANGED <<schedulerVars, execSlot, image>>
        /\ procs' = [procs EXCEPT ![execSlot].state = "RUNNING"]
    BY <1>5 DEF ExecMark, MarkRunning
  <2>2. /\ \A s \in Slots : procs'[s].pid = procs[s].pid
        /\ \A s \in Slots : Used(procs', s) <=> Used(procs, s)
    BY <1>1, <2>1 DEF ProcessEntry, Used, ExecUsed
  <2>3. SchedulerConsistent'
    BY <1>1, <2>1, <2>2, ConsistentSame
  <2> QED BY <1>1, <2>1, <2>2, <2>3 DEF SchedInv, ExecUsed, ImageRight
<1>6. CASE ExecEnter
  <2>1. /\ mode = "marked" /\ UNCHANGED <<schedulerVars, execSlot, image>>
        /\ procs' = [procs EXCEPT ![current].fds = FreshFds]
    BY <1>6 DEF ExecEnter
  <2>2. /\ \A s \in Slots : procs'[s].pid = procs[s].pid
        /\ \A s \in Slots : Used(procs', s) <=> Used(procs, s)
    BY <1>1, <2>1 DEF ProcessEntry, Used
  <2>3. SchedulerConsistent'
    BY <1>1, <2>1, <2>2, ConsistentSame
  <2> QED BY <1>1, <2>1, <2>2, <2>3 DEF SchedInv, ExecUsed, ImageRight
<1>7. CASE Quiet
  <2>1. /\ \A s \in Slots : procs'[s].pid = procs[s].pid
        /\ \A s \in Slots : Used(procs', s) <=> Used(procs, s)
        /\ UNCHANGED <<schedulerVars, execVars>>
    BY <1>7, QuietStates DEF Used
  <2>2. SchedulerConsistent'
    BY <1>1, <2>1, ConsistentSame
  <2> QED BY <1>1, <2>1, <2>2 DEF SchedInv, ExecUsed, ImageRight
<1>8. CASE SysYield
  <2>1. Yield(procs) /\ UNCHANGED execVars
    BY <1>8 DEF SysYield
  <2>2. SchedulerConsistent' /\ \A s \in Slots : Used(procs', s) <=> Used(procs, s)
    BY <1>1, <2>1, YieldConsistent
  <2>3. \A s \in Slots : procs'[s].pid = procs[s].pid
    BY <1>1, <2>1, YieldType
  <2> QED BY <1>1, <2>1, <2>2, <2>3 DEF SchedInv, ExecUsed, ImageRight
<1>9. CASE Exit
  <2> DEFINE table == Exited(current)
  <2>1. current \in Slots /\ Used(procs, current) /\ mode' = "shell" /\ Yield(table)
    BY <1>1, <1>9 DEF Exit, ExecUsed
  <2>2. table \in [Slots -> ProcessEntry] /\ \A s \in Slots : Used(table, s) <=> Used(procs, s)
    BY <1>1, <2>1, EntryTypes DEF Exited, ProcessEntry, States, Used
  <2> HIDE DEF table
  <2>3. SchedulerConsistent'
    BY <1>1, <2>1, <2>2, YieldConsistent
  <2> QED BY <2>1, <2>3 DEF SchedInv, ExecUsed, ImageRight
<1> QED BY <1>3, <1>4, <1>5, <1>6, <1>7, <1>8, <1>9 DEF Next, Enter, Syscall, Quiet

LEMMA SchedulerInvariant == Spec => []SchedInv
<1>1. Init => SchedInv
  <2> SUFFICES ASSUME Init PROVE SchedInv
    OBVIOUS
  <2>1. list = << >> /\ scheduled = Null /\ mode = "shell" /\ Len(list) = 0
        /\ \A s \in Slots : procs[s].state = "UNUSED"
    BY DEF Init, SchedulerInit, ProcessInit
  <2> QED BY <2>1 DEF SchedInv, SchedulerConsistent, ExecUsed, ImageRight, Listed
<1>2. IInv /\ SchedInv /\ [Next]_vars => SchedInv'
  BY NextScheduler, ProcessAssumption, KernelAssumption
<1> QED BY <1>1, <1>2, KernelInvariant, PTL DEF Spec

(* register, set_current and yield (scheduler.c) keep the list a list of the
   used slots, each once, which therefore always has room for the next, and
   the index on the process that is called current, however many loads,
   yields and exits follow each other. *)
THEOREM SchedulerStaysConsistent == Spec => []SchedulerConsistent
<1>1. SchedInv => SchedulerConsistent
  BY DEF SchedInv
<1> QED BY <1>1, SchedulerInvariant, PTL

(* The program in ring 3 runs as the process its image was loaded for
   (exec.c), though there is one mapping for all of them and failed loads and
   usertest_load write over it too. *)
THEOREM ProgramRunsOwnImage == Spec => []RunsOwnImage
<1>1. IInv /\ SchedInv => RunsOwnImage
  BY DEF IInv, Entered, SchedInv, ImageRight, RunsOwnImage
<1> QED BY <1>1, KernelInvariant, SchedulerInvariant, PTL
-----------------------------------------------------------------------------
(* One live process. *)

(* While programs come through exec only: where the processor is tells which
   slots live, and each step of exec_run_argv brings one of the two notions of
   the current process to the slot it loaded. *)
OneLive ==
  ~ usertested =>
  /\ \A s \in Slots : Live(s) <=> mode # "shell" /\ s = execSlot
  /\ mode \in {"selected", "marked", "user"} => scheduled = execSlot
  /\ mode \in {"marked", "user"} => procs[execSlot].state = "RUNNING"

(* The only process a yield can find is the one that called it. *)
LEMMA YieldToSelf ==
  ASSUME ProcessAssumption, SchedulerTypeOK, NEW table \in [Slots -> ProcessEntry],
         NEW self \in Slots, scheduled = self, table[self].state = "RUNNING",
         \A s \in Slots : Runnable(table, s) => s = self, Yield(table)
  PROVE  scheduled' = self /\ \A s \in Slots : procs'[s].state = table[s].state
<1>1. CASE procs' = table /\ UNCHANGED schedulerVars
  BY <1>1 DEF schedulerVars
<1>2. ASSUME NEW step \in 1 .. Len(list), FirstRunnable(table, step),
             procs' = Woken(Rested(table, scheduled), Candidate(step)),
             scheduled' = Candidate(step)
      PROVE  scheduled' = self /\ \A s \in Slots : procs'[s].state = table[s].state
  <2>1. Len(list) \in Nat \ {0} /\ index + step \in Nat
    BY DEF SchedulerTypeOK
  <2>2. Candidate(step) \in Slots
    BY <2>1 DEF Candidate, SchedulerTypeOK
  <2>3. Candidate(step) = self
    BY <1>2, <2>2 DEF FirstRunnable
  <2>4. procs' = Woken(Rested(table, self), self) /\ scheduled' = self
    BY <1>2, <2>3
  <2> QED BY <2>4 DEF Woken, Rested, ProcessEntry
<1> QED BY <1>1, <1>2 DEF Yield

LEMMA YieldToNobody ==
  ASSUME ProcessAssumption, SchedulerTypeOK, NEW table,
         \A s \in Slots : ~ Runnable(table, s), Yield(table)
  PROVE  procs' = table
<1> SUFFICES ASSUME NEW step \in 1 .. Len(list), Runnable(table, Candidate(step)) PROVE FALSE
  BY DEF Yield
<1>1. Len(list) \in Nat \ {0} /\ index + step \in Nat
  BY DEF SchedulerTypeOK
<1>2. (index + step) % Len(list) \in 0 .. Len(list) - 1
  BY <1>1
<1>3. Candidate(step) \in Slots
  BY <1>1, <1>2 DEF Candidate, SchedulerTypeOK
<1> QED BY <1>3

LEMMA NextOneLive ==
  ASSUME ProcessAssumption, KernelAssumption, IInv, SchedInv, OneLive, [Next]_vars
  PROVE  OneLive'
<1> USE DEF processVars, schedulerVars, execVars
<1>1. /\ procs \in [Slots -> ProcessEntry] /\ SchedulerTypeOK
      /\ mode # "shell" => execSlot \in Slots
      /\ mode \in {"marked", "user"} => current = execSlot
  BY DEF IInv, TypeOK, ProcessTypeOK, Entered
<1>2. usertested => usertested'
  BY DEF Next, Load, ExecLoad, ExecFails, OtherCommand, UsertestLoad, Enter, ExecSelect, ExecMark,
         ExecEnter, Syscall, Open, ReadFile, ReadConsole, ReadMouse, Close, SysYield, Exit, Irq,
         KeyIrq, MouseIrq, vars
<1> SUFFICES ASSUME ~ usertested, ~ usertested' PROVE OneLive'
  BY <1>2 DEF OneLive
<1>3. /\ \A s \in Slots : Live(s) <=> mode # "shell" /\ s = execSlot
      /\ mode \in {"selected", "marked", "user"} => scheduled = execSlot
      /\ mode \in {"marked", "user"} => procs[execSlot].state = "RUNNING"
  BY DEF OneLive
<1>4. CASE ExecLoad
  <2>1. PICK s \in Slots : LoadInto(s)
    BY <1>4 DEF ExecLoad
  <2>2. mode = "shell" /\ mode' = "loaded"
    BY <1>4 DEF ExecLoad
  <2>3. \A t \in Slots : Live(t)' <=> t = s
    BY <1>3, <2>1, <2>2, LoadedSlot DEF Live
  <2> QED BY <2>1, <2>2, <2>3, LoadedSlot DEF OneLive
<1>5. CASE ExecFails \/ OtherCommand
  <2>1. mode = "shell" /\ mode' = "shell" /\ procs' = procs
    BY <1>5 DEF ExecFails, LoadFails, OtherCommand
  <2> QED BY <1>3, <2>1 DEF OneLive, Live
<1>6. CASE ExecSelect
  <2>1. mode = "loaded" /\ mode' = "selected" /\ scheduled' = execSlot /\ UNCHANGED <<procs, execSlot>>
    BY <1>6 DEF ExecSelect, SetCurrent
  <2> QED BY <1>3, <2>1 DEF OneLive, Live
<1>7. CASE ExecMark
  <2>1. /\ mode = "selected" /\ mode' = "marked" /\ UNCHANGED <<scheduled, execSlot>>
        /\ procs' = [procs EXCEPT ![execSlot].state = "RUNNING"]
    BY <1>7 DEF ExecMark, MarkRunning
  <2>2. /\ procs'[execSlot].state = "RUNNING"
        /\ \A s \in Slots : Live(s)' <=> Live(s) \/ s = execSlot
    BY <1>1, <2>1 DEF ProcessEntry, Live
  <2> QED BY <1>3, <2>1, <2>2 DEF OneLive
<1>8. CASE ExecEnter
  <2>1. /\ mode = "marked" /\ mode' = "user" /\ UNCHANGED <<scheduled, execSlot>>
        /\ procs' = [procs EXCEPT ![current].fds = FreshFds]
    BY <1>8 DEF ExecEnter
  <2>2. \A s \in Slots : procs'[s].state = procs[s].state
    BY <1>1, <2>1 DEF ProcessEntry
  <2> QED BY <1>1, <1>3, <2>1, <2>2 DEF OneLive, Live
<1>9. CASE Quiet
  <2>1. /\ \A s \in Slots : procs'[s].state = procs[s].state
        /\ UNCHANGED <<scheduled, mode, execSlot>>
    BY <1>9, QuietStates
  <2> QED BY <1>1, <1>3, <2>1 DEF OneLive, Live
<1>10. CASE SysYield
  <2>1. mode = "user" /\ mode' = "user" /\ execSlot' = execSlot /\ Yield(procs)
    BY <1>10 DEF SysYield
  <2>2. \A s \in Slots : Runnable(procs, s) => s = execSlot
    BY <1>1, <1>3 DEF Runnable, Live, ProcessEntry, States
  <2>3. scheduled' = execSlot /\ \A s \in Slots : procs'[s].state = procs[s].state
    BY <1>1, <1>3, <2>1, <2>2, YieldToSelf
  <2> QED BY <1>1, <1>3, <2>1, <2>3 DEF OneLive, Live
<1>11. CASE Exit
  <2> DEFINE table == Exited(current)
  <2>1. mode = "user" /\ mode' = "shell" /\ current \in Slots /\ current = execSlot /\ Yield(table)
    BY <1>1, <1>11 DEF Exit
  <2>2. \A s \in Slots : table[s].state \in {"UNUSED", "EXITED"}
    BY <1>1, <1>3, <2>1 DEF Exited, ProcessEntry, States, Live
  <2> HIDE DEF table
  <2>3. \A s \in Slots : ~ Runnable(table, s)
    BY <2>2 DEF Runnable
  <2>4. procs' = table
    BY <1>1, <2>1, <2>3, ProcessAssumption, YieldToNobody
  <2> QED BY <2>1, <2>2, <2>4 DEF OneLive, Live
<1> QED BY <1>4, <1>5, <1>6, <1>7, <1>8, <1>9, <1>10, <1>11
    DEF Next, Load, UsertestLoad, Enter, Syscall, Quiet

LEMMA OneLiveInvariant == Spec => []OneLive
<1>1. Init => OneLive
  BY DEF Init, ProcessInit, OneLive, Live
<1>2. IInv /\ SchedInv /\ OneLive /\ [Next]_vars => OneLive'
  BY NextOneLive, ProcessAssumption, KernelAssumption
<1> QED BY <1>1, <1>2, KernelInvariant, SchedulerInvariant, PTL DEF Spec

(* As long as nothing calls usertest_load, one process at most is ready or
   running: none while the shell has the machine, and in ring 3 the one loaded
   last, which both process.c and scheduler.c call current, and which runs
   although it may yield at any time. *)
THEOREM OneProcessLives == Spec => []OneLiveProcess
<1>1. IInv /\ OneLive => OneLiveProcess
  BY DEF IInv, Entered, OneLive, OneLiveProcess
<1> QED BY <1>1, KernelInvariant, OneLiveInvariant, PTL

(* As long as nothing calls usertest_load, the keyboard handler's choice
   (keyboard.c, console.c) follows the program: no key typed at one reaches
   the kernel shell, and none typed at the shell waits for a later program. *)
THEOREM KeysFollow == Spec => KeysFollowProgram /\ ShellKeepsItsKeys
<1> DEFINE Follows ==
      ~ usertested =>
      /\ mode = "user" /\ mode' = "user" => shellKeys' = shellKeys
      /\ mode = "shell" => console' = console
<1>1. ASSUME IInv, OneLive, [Next]_vars PROVE Follows
  <2> SUFFICES ASSUME ~ usertested PROVE Follows
    OBVIOUS
  <2>1. CASE KeyIrq
    <3>1. mode = "user" => ConsoleActive
      BY <1>1, ProcessAssumption DEF IInv, Entered, OneLive, ConsoleActive, Slots, Null
    <3>2. mode = "shell" => ~ ConsoleActive
      BY <1>1 DEF IInv, TypeOK, ProcessTypeOK, OneLive, ConsoleActive, Live
    <3> QED BY <2>1, <3>1, <3>2 DEF KeyIrq
  <2>2. CASE Load \/ Enter \/ Syscall \/ MouseIrq \/ UNCHANGED vars
    BY <2>2 DEF Load, ExecLoad, ExecFails, OtherCommand, UsertestLoad, Enter, ExecSelect, ExecMark,
                ExecEnter, Syscall, Open, ReadFile, ReadConsole, ReadMouse, Close, SysYield, Exit,
                MouseIrq, vars, inputVars
  <2> QED BY <1>1, <2>1, <2>2 DEF Next, Irq
<1>2. IInv /\ OneLive /\ [Next]_vars => [Follows]_vars
  BY <1>1
<1>3. Spec => [][Follows]_vars
  BY <1>2, KernelInvariant, OneLiveInvariant, PTL DEF Spec
<1>4. [Follows]_vars =>
        /\ [~ usertested /\ mode = "user" /\ mode' = "user" => shellKeys' = shellKeys]_vars
        /\ [~ usertested /\ mode = "shell" => console' = console]_vars
  OBVIOUS
<1> QED BY <1>3, <1>4, PTL DEF KeysFollowProgram, ShellKeepsItsKeys
==============================================================================
