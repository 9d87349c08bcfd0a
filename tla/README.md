# BucketOS in TLA+

BucketOS is a small 32-bit x86 kernel in C: one address space, one thread of
control in the kernel, one program at a time in ring 3, and interrupt handlers
for the timer, the keyboard and the mouse.  This directory holds TLA+ models of
the parts of it that keep state, the TLC configurations that check them on small
instances, and proofs, checked by TLAPS, of the most important properties for
every size.  `src/` below is the repository; kernel files are in
`src/src/kernel/`, programs in `src/src/user/`.

## Inventory

| Component | State | Operations | Talks to |
|---|---|---|---|
| Console and mouse queues (`console.c`, `mouse.c`) | ring, head, tail, count | push (interrupt), read (system call) | keyboard, syscalls |
| PS/2 controller's driver (`mouse.c`, `keyboard.c`, `interrupts.c`) | bytes of a packet; the controller's one-byte output buffer, the PICs' requests | initialise by polling, read a byte in either handler, end the interrupt | queues, shell |
| Processes (`process.c`) | table of 4, current, next pid | create, mark_running, mark_exited, reset_fds, check and copy user memory | exec, syscalls, keyboard |
| Scheduler (`scheduler.c`) | list of processes, index, current | register, set_current, yield | exec, syscalls |
| Program loading (`exec.c`, `usertest.c`) | entry, process to enter, the one user image, the argument stack | load, run_argv | shell, VFS, scheduler |
| System calls (`syscall.c`) | framebuffer owner | open, read, write, close, yield, exit, list, drawing | processes, queues, terminal |
| Ring changes (`gdt.c`, `isr_stubs.s`, `user/crt0.s`) | kernel stack, `esp0`, exit code | enter ring 3, interrupt, `iret`, return from the exit | exec, syscalls, programs |
| Kernel shell and keyboard (`shell.c`, `keyboard.c`) | line buffer, its length, ready flag, Ctrl and rect flags | edit (interrupt), take and execute (main loop) | main loop, terminal, queues |
| Main loop, timer (`kernel.c`, `pit.c`) | where it is; ticks | check for a command, halt | shell |
| User programs (`user/sh.c`, `lib.c`) | the user shell's line | read, echo, edit, execute, yield | console queue, system calls |
| Terminal (`terminal.c`) | row, column, cells, underline, framebuffer lock | put_char, clear, lock, redraw | everyone who prints |
| Ram file system, VFS, devfs (`ramfs.c`, `vfs.c`, `devfs.c`) | linked nodes | mkdir, touch, write, read, list, unpack a tar | shell, exec, syscalls |
| Memory and paging (`memory.c`, `paging.c`) | heap pointer, page table | kmalloc, kmalloc_aligned, map | ramfs, boot, exec |
| Descriptor tables, framebuffer address, hypervisor, serial, print, string, ports, panic | none that changes after boot | output | |

What is hard.  There are no locks.  The main loop, with commands included, runs
with interrupts enabled and shares the line buffer and the cursor with the
keyboard handler; every handler and every system call runs with interrupts
disabled, because all gates are interrupt gates.  There are two notions of the
current process, `process_current` and the scheduler's, set by different
functions.  A program's end reuses everything: its slot, its descriptors, its
image, the screen.  Two devices share one output buffer, of which one handler
does not ask whose byte it is.  A line typed ahead is edited twice, on the screen
when it is typed and by the program when it is read, unless something else,
the shell's own `cat /dev/console` for one, reads it first.  Addresses that programs
pass are words that wrap.  Nothing is persistent, so there is no crash recovery.
Memory is never freed, and the addresses of the user image lie within those of
the heap.

What makes each part correct:

* queues: nothing is lost, duplicated or reordered but what arrives at a full queue;
* PS/2: a key comes once, an event is one packet, a lost byte does no lasting
  harm, and the output buffer never stays full;
* processes and programs: one live process, the right image, no descriptor that
  outlives its program, framebuffer locked for its owner and nobody else;
* system calls: whatever addresses and sizes are passed, only the program's own
  memory and only the buffer is touched, and the answer is what was moved;
* arguments and exit: `main` gets the words of the command; what runs in ring 0
  after an exit is what entered ring 3;
* input: a key goes to whoever has the machine; the command that runs is the line
  that was entered, in the kernel's shell and in the user's; an entered line is not
  forgotten; Ctrl+C ends the demo;
* terminal: the cursor is on the screen when the printing is done, a backspace
  takes back the character before it, the framebuffer shows the cells and one
  underline, and a program keeps what it drew;
* files: the links form a tree, and every entry is found under its own path;
* memory: no kernel data lies in a frame that a program can reach, and the kernel's
  data stays.  Both hold for blocks outside the addresses of the user image and
  stack only.

## Modules

| Module | Models | Correspondence |
|---|---|---|
| `BoundedFifo` | abstract: a bounded queue that drops what it has no room for | |
| `Ring` | `console.c`, the queue of `mouse.c` | `buffer`, `head`, `tail`, `count` are the C fields; `Push` is `console_push_input`/`mouse_queue_push`, `Read` `console_read`/`mouse_read_events` |
| `UserShell` (extends `Ring`) | `user/sh.c` behind the console's ring | `pc` is where the program is between two system calls; `line` is its buffer; `typed` and `submitted` are what the user saw; `ShellCat` is its own reading of `/dev/console` (`CatLines` are the commands that ask for it); `mixed` is set from when a reader that keeps no line has taken a part of the input until the queue is empty |
| `UserMemory` | the address checks of `process.c` and the loops around them in `syscall.c` | an address is a word modulo `Space`; `ValidRange`, `StringBytes`, `CopiedChunks`, `BlitPieces` say which bytes a copy touches |
| `UserPrograms` (extends both) | every data-moving system call of any program, beside the shell | `call` records what the last call read, wrote and answered |
| `UserStart` | `exec_prepare_stack`, `crt0.s`, the stacks under `gdt.c` and `isr_stubs.s` | byte addresses on the user stack, named words on the kernel's; `at` is the code that runs next |
| `Ps2` | `mouse.c`, the port read of `keyboard.c`, `pic_send_eoi` | `packet` is `g_packet`; the controller and the PICs are modelled as the driver uses them; a handler is two steps, entry and reading, since the devices do not wait |
| `Process` | `process.c` | table, creation in the first reusable slot, descriptors, pids that wrap (`PidModulus` for 2^32) |
| `Scheduler` (extends `Process`) | `scheduler.c` | list, index, current; `Yield` is the whole scan |
| `Kernel` (extends `Scheduler`) | `exec.c`, `usertest.c`, `syscall.c`, what `keyboard.c` and `mouse.c` do with an event | `mode` is where the one thread of control is; `exec_run_argv` is four steps, a system call and an interrupt are one |
| `ShellInput` | `shell.c`, `keyboard.c`, the loop in `kernel.c` | `pc` cuts the main loop at each access to a variable the handler uses; `hlt` is a step of its own; the history `ahead` says whether a key ever came while a command was waiting or running |
| `Terminal` | cursor of `terminal.c` | `pc` cuts `terminal_put_char` in the main loop at each access to `g_row`/`g_column`, with the values the compiled code keeps in registers (`atRow`, `atColumn`); the handler's call is one step |
| `Screen` (extends `Terminal`) | cells, framebuffer, underline and lock of `terminal.c` | each step of `Terminal` with what it writes and draws; `stage` is the drawing before and after its steps; `torn` says that a key was echoed in the middle of the main loop's last call |
| `FileTree` | abstract: a tree of paths | |
| `Ramfs` | `ramfs.c`, `vfs.c` | `fs.nodes` are the nodes in the order of their allocation with `parent`, `first` child and `next` sibling; `fs.room` what is left of the heap |
| `Memory` | `memory.c`, `paging.c`, the writes of `exec.c` | `current` is `heap_current`, `table` the page table, `memory` whose data each unit holds |
| `Ring_proofs`, `UserPrograms_proofs`, `Kernel_proofs`, `ShellInput_proofs`, `Screen_proofs` (with `Terminal`'s), `Memory_proofs`, `Ps2_proofs`, `Ramfs_proofs` | theorems | |
| `MC*` | constants for TLC | |

Composition.  `Kernel` composes processes, scheduler, loading, system calls and
input by extension, since they share one process table.  `UserPrograms` composes
programs with the console's ring and the keyboard that fills it; `Screen` composes
the framebuffer with the cursor.  The other modules meet at one place each:
`Kernel` counts what is in a queue, `Ring` says what is in it and `UserShell` what
becomes of it; `Kernel` chooses whether a copy succeeds, and `UserPrograms` says
when; `Kernel` says who holds the framebuffer lock and `Screen` what the lock
keeps; `Kernel` takes the return from ring 3 as the code means it, and `UserStart`
shows the frame that the compiler makes of it; `Ps2` ends with a byte in a
handler's hands, which is where `Kernel` and `ShellInput` begin; `Ramfs` has a
heap that ends and `Memory` says where its blocks are.

`typed` is edited by the rule of the shell's buffer: `sh.c` drops a character that
leaves no place for the NUL (`Kept`), and so does `Echoed`, although the character is
seen.  An erase after it takes it off the screen, and takes the last character that
has a place off the line.  Up to the buffer's size `typed` is the line on the
screen; past it, it is what is left of that for the command.
Lines that `ProgramCall` or `ShellCat` take are not commands.

In `Screen`, a key that is echoed in the middle of a call of the main loop tears
that call.  What the two draw is then mixed, cell by cell, and the position that
`terminal_update_cursor` keeps may be one that has passed, or a row of the one with
a column of the other.  Every such position is in a row where the cursor was or
where the call still draws; those rows are left open (`Open`), and all of them when
one of the two scrolls.  Nothing is claimed of an open row until a scroll outside
of a torn call, a clear or the end of a lock draws all cells again; the other rows
keep their picture.  A character written past the end of a row goes to the first
cell of the next one in `g_cells` (`Home`) when the screen has all of
`TERMINAL_MAX_COLUMNS`, as the 1024 pixels that `boot.s` asks for give, and is not
drawn there; that row is left open too.

`Ps2!Poll` gives up when no byte is on its way.  The code gives up after 200000 reads
of the status port (`mouse.c:53-59`), which is the same as long as the controller
and the mouse answer within that time; a machine that is slower is not modelled.

Definitions whose comment begins with "Mutant of" belong to no specification: each is the
next definition with a plausible mistake in it (a wrap one place late, a reset
forgotten), and shows that a property would notice.

## Runs

| Run | Bounds | Shows |
|---|---|---|
| `programs` | ring of 3, three keys, a line of 4, a `cat` in pieces of 2 and at any line of one character; 16 addresses with 4 of image and 3 of stack, chunks of 2, a 3 x 2 framebuffer | the ring implements `BoundedFifo` under programs; the user shell runs each echoed line that nothing else has read, also past the end of its buffer and after a `cat` of the console; calls stay in the program's memory and buffer and answer with the truth |
| `ps2` | 1 key and 5 mouse bytes waiting | keys once, events of one packet, resynchronisation, the buffer is always read again |
| `kernel` | 3 slots, 2 free descriptors, 3 pids, queues of 2 and 1, 2 keys for the kernel's shell | framebuffer ownership, scheduler's list and index, descriptors, offsets, image; and while programs come through exec only, one live process, its keys kept from the kernel's shell, and the shell's from the queue |
| `shell` | buffer of 4, 2 line tags | with keys at any time the scan ends inside the buffer, a line that waits is taken and Ctrl+C ends the demo; while keys came at the prompt only, the command is the line |
| `shell_typeahead_line` (violated) | buffer of 4, 3 line tags | with keys at any time the command can differ from the line entered |
| `screen` | 2 x 2 cells, as many columns as there is room for, on a framebuffer of 20 x 39 pixels, 2 columns of overrun | the cursor comes back, a backspace returns to its character, the picture is that of the cells in every row that is not open, a program's drawing stays |
| `terminal_wide` (violated) | 4 x 2 cells, text mode 3 wide | on a screen wider than 80 columns a backspace across a row's end goes astray |
| `ramfs` | names `dev`, `a` and the empty one, paths of 1-3 parts, a heap for 4 more nodes | tree, paths, refinement of `FileTree` steps, out of memory anywhere |
| `memory` | 7 pages of heap, one page of image, one of stack | no block outside the windows has a part in a frame that programs reach, and no two user pages share one; blocks outside the windows are kept |
| `memory_windows` (violated) | the same heap, with the image's page at its second page | a block filled before the windows are mapped is lost under the image's page |
| `main_args` (violated) | 1 or 2 words of 2 or 5 bytes | `main`'s `argv` is one word off |
| `user_exit` (violated) | the same | in the compiled layout the exit does not come back |

The bounds are as small as lets every boundary occur: a ring that wraps in every
phase, pids that come round to 0 within one run, one slot more than a yield
alternates between, a key for the kernel's shell more than the command that starts a
program needs, a row that wraps at every second character and a screen that
scrolls at every second row, pixels left over on both sides of the cells, a heap
that ends half way to an archive entry or between a file and its data, blocks
below, in, between and above the windows, ranges that end before, at and behind
each part of the program's memory and wrap round, a line longer than the shell
keeps and two lines typed ahead, each byte of a packet met by a key, by a
left-over interrupt and by the packet before.  Beyond them only more of the same
happens: for every safety property of a passing run a theorem says so.

Bounds that exist in the models only: `ReadMax` and `ShellKeysMax` (Kernel),
`LineTags` (ShellInput), `Overrun` (Terminal), `Depth` and `Heap` (Ramfs), `Sizes`
(Memory), `KeysMax` and `AuxMax` (Ps2), `Addresses`, `Lengths`, `Structs`,
`Coordinates`, `Sources`, `Strides`, `FileSizes` and `Listings` (UserPrograms),
and the guard `Untouched` there: calls that do not use the queue are made while
the ring is in its first state, because the two have no state in common.

Deadlock is not checked where the system may stop: `memory` and `memory_windows`
(a kernel that could not get its user pages has panicked), `ps2` (a controller
that was told to switch its devices off delivers nothing more), `main_args` and
`user_exit` (the processor is at an address that is no code).

The runs marked as violated show what the code does against what it says:

* `shell_typeahead_line`: a key between Enter and the scan of the line joins it;
  one typed while the command runs is echoed and forgotten.
* `terminal_wide`: `terminal.c:376` uses the text mode's width on every screen.
* `memory_windows`: the heap's 32 MiB from 1 MiB up contain 0x400000-0x500000 and
  0x7E0000-0x800000.  A block that was filled there before the user pages are mapped
  reads as their cleared frames from then on; one given out later lies in them, and
  so in the program's memory.  `ProgramMemoryIsOwn` and `BlocksOutsideWindowsKept`
  are about every block outside of the two ranges.
* `main_args`: `crt0.s:13` passes the address of the word that holds the array's
  address instead of that word.
* `user_exit`: `gdt.c:150` takes the return address to be one word below the stack
  pointer it reads.  gcc, with the flags of the Makefile, pushes the call's two
  arguments there.  Both placements of the arguments are in the model; with the
  other one the return is sound as far as that word goes.

## Fairness

* `ShellInput!FairSpec`: weak fairness of the main loop, which the processor
  executes, and of the timer's interrupt, which the PIT raises at 100 Hz.  None is
  assumed of the keyboard.  The timer matters: an Enter between the check and the
  `hlt` is only noticed after the next interrupt.
* `Ps2!FairSpec`: weak fairness of the controller (a byte that waits is passed on
  when the buffer is empty), of the initialisation and of the handlers, which the
  processor executes.  None is assumed of keys and mouse.
* `UserPrograms!FairSpec`: weak fairness of the user shell's own steps, since it has
  the processor.  None is assumed of the keyboard, so a full ring and an empty one
  both last as long as they like.

The other specifications state safety only.

## Proofs

All theorems are about the specifications as the runs use them, with constants
that satisfy the named assumptions of each module and nothing else.  Every safety
and action property of a passing run is one of them.

| Module | Theorems | Inductive invariant |
|---|---|---|
| `Ring_proofs` | `RingIndicesAgree`, `RingImplementsFifo` | `Inv`: the indices agree and stay in range |
| `UserPrograms_proofs` | `ProgramsUseRing`, `ProgramsReadFifo`, `CallsStayOwn`, `CallsStayGiven`, `CallsTellTheTruth`, `EchoedLinesAreRun`, `ProgramsTyped` | `InputTyped`, `ShellTypes`, `Follows`, `Honest` |
| `Kernel_proofs` | `KernelTypes`, `FramebufferIsOwned`, `OffsetsStayWithin`, `DescriptorsDieWithProgram`, `SchedulerStaysConsistent`, `ProgramRunsOwnImage`, `OneProcessLives`, `KeysFollow` | `IInv`, `SchedInv`, `OneLive` |
| `ShellInput_proofs` | `ShellTypes`, `ScanStaysInBuffer`, `PoliteLineIsCommand` | `LineInv`, `PoliteInv`, `HistoryInv` |
| `Screen_proofs` | `CursorComesBack`, `BackspaceReturns`, `ScreenIsTerminal`, `ProgramKeepsDrawing`, `PictureStaysTrue`, `ScreenTyped` | `CursorInv`, `RestInv`, `CellsInv`, `PictureInv`, `CursorTypes` |
| `Memory_proofs` | `ProgramMemoryPrivate`, `MemoryTyped`, `BlocksKeptOutside` | `HeapInv`, `MemInv` |
| `Ps2_proofs` | `Ps2Typed`, `PlainPacketsResync`, `KeysAreReadOnce`, `MouseEventsArePackets` | `TypeInv`, `PlainFits`, `Booted`, `Clean` |
| `Ramfs_proofs` | `TreeStaysWellFormed`, `PathsKeepResolving`, `CallsAreTreeSteps` | `SoundFs` |

* `Ring_proofs`: each step maps to a step of `BoundedFifo` or a stutter under the
  mapping that reads `count` values from `head`.
* `UserPrograms_proofs`: every step of a program is a step of the ring or leaves
  it alone (`ProgramsUseRing`), so the ring's theorems hold under any program.
  `CallsStayOwn` and `CallsStayGiven` follow call by call from one lemma,
  that the bytes of a range that passed the check are those of the image or of the
  stack, also when the address wraps between two of them.  `CallsTellTheTruth`
  needs that the pieces into which a copy is cut meet without overlap and end where
  the whole ends.  `CommandIsEchoedLine` speaks of one moment; what holds
  always is that the screen is ahead of the shell by just the characters it has
  not edited yet.  `Follows` says it with a witness: one view of the screen for each
  character that is pending, from what the shell holds to what the user sees, each
  the one before with that character echoed.  A key adds a view at the end, an edit
  drops the first, and a command drops the first line of all of them.  Another reader,
  `ShellCat` included, drops as many views as it takes and the lines with them; what
  it leaves is followed again once all of it has been read (`TakenFollows`,
  `ResyncFollows`).  That a
  listing leaves room for its NUL is the computation of a fold, which is out of
  the prover's reach: `ListingAssumption` states it of the listings considered, and
  TLC evaluates it for those of the run.
* `Kernel_proofs`: `IInv == TypeOK /\ Entered /\ FbOnlyInUser /\ FbAccounted`.
  `FramebufferOwnership` is not inductive as it stands: it says nothing of the
  program in ring 3 having a slot (`Entered`), nor why an exec begins without an
  open framebuffer (`FbOnlyInUser`).  Pids may coincide, since they wrap; no
  theorem needs them to differ.  `SchedulerConsistent` is inductive with
  `ExecUsed` (the slot of a load has been taken) since a list without
  repetitions that lacks a used slot is shorter than the table (`ListHasRoom`, the
  pigeonhole argument), so that register never meets a full list.
  `RunsOwnImage` is `ImageRight` in ring 3, which holds from the load on.  `OneLive`
  says at each place of `exec_run_argv` which slots live and which of the two
  notions of the current process has got to the slot; under it a yield scans the
  list and comes back to the process it left.
* `ShellInput_proofs`: `LineInv` says that the last place of the buffer holds NUL
  for ever; `PoliteInv` says which line the buffer holds at each place of the main
  loop; `HistoryInv` says that it does as long as `ahead` is false, and
  `shell_typeahead_line` shows that this must be asked.
* `Screen_proofs`: `CursorInv` says where in `put_char` the cursor may be off the
  screen.  `CursorComesBack` and `ScreenTyped` assume a screen at least `VGA_WIDTH`
  wide, `BackspaceReturns` one of exactly that width, and `terminal_wide` shows that
  it must.  `ScreenIsTerminal` carries the cursor's theorems over to the screen.
  `RestInv` says that a lock is held only while the main loop rests and that the
  underline is then where the cursor is; `CellsInv` types the picture; `PictureInv`
  says what each cell shows at every place of the main loop's printing, and that in a
  torn call the row of the cursor that is kept is open: so no cell that is not open
  keeps an underline that has passed.  From them `DrawingIsKept` and `PictureIsTrue`,
  the second on a screen at least `VGA_WIDTH` wide, where no call that is not torn
  writes past a row's end.
* `Memory_proofs`: `HeapInv` says that every block and every frame given to a
  program ends at or below `heap_current`; the next one begins there or above.
  `ProgramMemoryIsOwn` speaks of where the page table puts a block (`Physical`), so it
  needs `Mapping` too, by which an address outside the windows is its own frame's.
  `BlocksOutsideWindowsKept` needs in addition that outside of the windows every
  address maps to itself, once the table is there (`Mapping`), that no two blocks
  overlap (`Apart`), and what the units of such a block hold, by their physical
  address (`OutsideKept`).
* `Ps2_proofs`: the properties say "a machine nobody touches while it boots", and
  the invariant says what that leaves behind: while it boots, at most the answers
  the initialisation waits for (`Booted`); afterwards a full buffer has its
  interrupt latched or in service, and what is in `g_packet`, in the buffer and in
  the mouse is, in this order, a sequence of whole packets (`Clean`).  An interrupt
  whose byte the polling has read may be left over from booting; the handler finds the
  buffer empty and takes nothing.  `PlainPacketsResync` needs neither.
* `Ramfs_proofs`: `TreeWellFormed` walks along lists, which a proof of one step
  cannot follow.  `Linked` says the same of single nodes: a node's `next` is the
  latest of its parent's children that is older, a parent's `first` the latest of
  all.  From it every walk goes down and ends, finds each child once and, as names
  differ (`NamesDiffer`), finds the one that has a name.  For the refinement
  `TreeOf` is the tree that the nodes' paths name: adding a node adds one path below
  a directory (`NewEntry`), and the loop that makes the way to an entry adds
  prefixes of its path down to some depth (`WayAdded`), the directories among them
  that were there already being passed.

Induction over data is done without the library's induction theorems, whose
operator parameter no installed prover can instantiate: a set of natural numbers
that holds a number whenever it holds the smaller ones holds all of them
(`AllOf`, from `WFMin` and the well-foundedness of the order).  That way the
recursive functions of `Ramfs` are shown to exist and to be what they are defined to
be.  `FileTree` spells its functions out instead of using `:>` and `@@`, which the
provers cannot expand.

Only model-checked: liveness (`SubmittedLineRuns`, `StopEndsRect`, `EchoedLineRuns`,
`BufferIsRead`), which is out of the provers' reach; what the fold in
`Listed` computes; and the runs that show a violation, whose properties do not
hold.  `CallsAreTreeSteps` is about steps: `ramfs.c` starts with `/dev` made, one
step after `FileTree`'s initial state.

## Not modelled

* Glyphs, colours, formatting, serial output: data without control.  The VGA text
  mode, which is `Screen` with neither lock nor redraw.  Pixels that belong to no
  cell.  What the main loop or a key writes below the last row while the cursor is off
  the screen: nothing reads it there; on a screen of all `TERMINAL_MAX_ROWS` rows it is
  beside the array.
* How a tar or ELF header is read: whether an entry or a program is well-formed is
  a choice in `Ramfs` and `Kernel`, and a name is a member of a small set.
* What device files read as, and `/dev` under other spellings beyond the choice in
  `Ramfs`: devfs keeps no state.
* Movement and buttons of a mouse event: data of the packet.
* The descriptor tables and the remapping of the PICs: constants written once.
* `lib.c` and `usertest.s`: they load registers and call.
* `kmalloc` with a size that overflows an address, which no caller passes; the pool
  of page tables; the framebuffer's mapping; the loader's memory map; where the
  loader puts the initrd.
* Panic, which stops the machine, and the hypervisor's name, read once.

## Plan

1. Done: queues; processes, scheduler and system calls; shell input; terminal and
   its framebuffer; ram file system; memory; the PS/2 devices; the user shell and
   the memory of system calls; arguments and the ring change.
2. Done: theorems for every safety and action property of the passing runs.
3. Left: what is listed as not modelled, above all the reading of tar and ELF
   headers, and the framebuffer's addresses; a refinement between `Kernel`, which
   counts the console's keys, and `UserPrograms`, which holds them.
