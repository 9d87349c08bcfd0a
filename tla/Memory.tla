-------------------------------- MODULE Memory --------------------------------
(***************************************************************************)
(* The kernel's heap (memory.c), its one page table (paging.c), and who    *)
(* writes to memory through it: the kernel into the blocks kmalloc gave    *)
(* out, exec into the user image and stack, the program into the pages it  *)
(* can reach.                                                              *)
(*                                                                         *)
(* A unit of memory is what kmalloc aligns to; a block that ends within a  *)
(* unit is given the whole of it.  Sizes are those of nodes and files,     *)
(* start + size does not overflow.  Page directory and tables are read as  *)
(* one function; the pool of tables is larger than any identity map of the *)
(* heap and a framebuffer needs.                                           *)
(***************************************************************************)
EXTENDS Integers

CONSTANTS PageSize,                \* units of a page
          HeapStart, HeapSize,     \* behind the kernel, in units
          MinIdentity,             \* MIN_IDENTITY_MAP_BYTES
          ImageBase, ImageSize,    \* USER_IMAGE_BASE, USER_IMAGE_PAGES
          StackTop, StackSize,     \* USER_STACK_TOP, USER_STACK_PAGES
          Sizes                    \* what kmalloc is asked for

HeapEnd == HeapStart + HeapSize
IdentityEnd == IF HeapEnd < MinIdentity THEN MinIdentity ELSE HeapEnd
StackBottom == StackTop - StackSize
Image == ImageBase .. ImageBase + ImageSize - 1
Stack == StackBottom .. StackTop - 1
Windows == Image \cup Stack

Page(a) == a \div PageSize
AlignUp(a) == ((a + PageSize - 1) \div PageSize) * PageSize

ASSUME MemoryAssumption ==
  /\ PageSize \in Nat \ {0} /\ HeapStart \in Nat \ {0} /\ Sizes \subseteq Nat \ {0}
  /\ {HeapSize, MinIdentity, ImageBase, ImageSize, StackTop, StackSize} \subseteq Nat
  /\ StackSize <= StackTop
  /\ \A a \in {HeapStart, ImageBase, ImageSize, StackTop, StackSize} : a % PageSize = 0
  /\ Image \cap Stack = {} /\ Windows \subseteq 0 .. IdentityEnd - 1

VARIABLES phase,    \* of the boot sequence
          current,  \* heap_current
          blocks,   \* what kmalloc gave out: the units [from, to)
          table,    \* from the pages mapped to a frame and whether programs reach it
          memory    \* what each unit holds: the block whose data it is, or a tag

vars == <<phase, current, blocks, table, memory>>

Phases == {"initrd", "user", "ready", "panic"}
Zero == 0
Program == -1   \* what exec or a program put there

Block(start, size) == [from |-> start, to |-> start + size]
Units(b) == b.from .. b.to - 1

(* memory_initialize.  Paging is off while no page is mapped. *)
Init ==
  /\ phase = "initrd" /\ current = HeapStart
  /\ blocks = {} /\ table = << >>
  /\ memory = [a \in 0 .. IdentityEnd - 1 |-> Zero]

(* Where an access to address a goes, under page table t. *)
Physical(t, a) ==
  IF DOMAIN t = {} THEN a ELSE (t[Page(a)].frame * PageSize) + (a % PageSize)

(* The memory after value has been written to the addresses A. *)
Written(t, A, value) ==
  [u \in DOMAIN memory |-> IF \E a \in A : Physical(t, a) = u THEN value ELSE memory[u]]

UserPages == {p \in DOMAIN table : table[p].user}
-----------------------------------------------------------------------------
(* Mutant of Kmalloc: it looks at where the block starts. *)
KmallocStartsInside(size) ==
  /\ phase \in {"initrd", "ready"}
  /\ current < HeapEnd
  /\ current' = current + size
  /\ blocks' = blocks \cup {Block(current, size)}
  /\ memory' = Written(table, Units(Block(current, size)), current)
  /\ UNCHANGED <<phase, table>>

(* kmalloc for a node or a file's data, which the caller then fills in; the
   initrd is unpacked before paging is on, the shell's commands come later. *)
Kmalloc(size) ==
  /\ phase \in {"initrd", "ready"}
  /\ current + size <= HeapEnd
  /\ current' = current + size
  /\ blocks' = blocks \cup {Block(current, size)}
  /\ memory' = Written(table, Units(Block(current, size)), current)
  /\ UNCHANGED <<phase, table>>

(* paging_initialize: the identity map of the low memory. *)
PagingInitialize ==
  /\ phase = "initrd" /\ phase' = "user"
  /\ table' = [p \in 0 .. Page(IdentityEnd - 1) |-> [frame |-> p, user |-> FALSE]]
  /\ UNCHANGED <<current, blocks, memory>>

(* paging_map_initial_user_space takes the pages of the image and then those
   of the stack, from below. *)
NextWindowPage ==
  LET todo(W) == {Page(a) : a \in W} \ UserPages
      from == IF todo(Image) # {} THEN todo(Image) ELSE todo(Stack)
  IN  CHOOSE p \in from : \A q \in from : p <= q

WindowsMapped == {Page(a) : a \in Windows} \subseteq UserPages

(* Mutant of MapUserPage: kmalloc instead of kmalloc_aligned. *)
MapUserPageUnaligned ==
  /\ phase = "user" /\ ~ WindowsMapped
  /\ LET start == current
     IN  /\ start + PageSize <= HeapEnd
         /\ current' = start + PageSize
         /\ memory' = Written(table, Units(Block(start, PageSize)), Zero)
         /\ table' = [table EXCEPT ![NextWindowPage] = [frame |-> Page(start), user |-> TRUE]]
  /\ UNCHANGED <<phase, blocks>>

(* The new page is cleared under its address in the heap, then mapped. *)
MapUserPage ==
  /\ phase = "user" /\ ~ WindowsMapped
  /\ LET start == AlignUp(current)
     IN  /\ start + PageSize <= HeapEnd
         /\ current' = start + PageSize
         /\ memory' = Written(table, Units(Block(start, PageSize)), Zero)
         /\ table' = [table EXCEPT ![NextWindowPage] = [frame |-> Page(start), user |-> TRUE]]
  /\ UNCHANGED <<phase, blocks>>

Panic ==
  /\ phase = "user" /\ ~ WindowsMapped /\ AlignUp(current) + PageSize > HeapEnd
  /\ phase' = "panic"
  /\ UNCHANGED <<current, blocks, table, memory>>

Booted ==
  /\ phase = "user" /\ WindowsMapped
  /\ phase' = "ready"
  /\ UNCHANGED <<current, blocks, table, memory>>

(* Mutant of ExecLoad: the image is cleared one unit too far. *)
ExecLoadTooFar ==
  /\ phase = "ready"
  /\ memory' = Written(table, Image \cup {ImageBase + ImageSize}, Program)
  /\ UNCHANGED <<phase, current, blocks, table>>

(* exec_load clears the image and copies the segments to it. *)
ExecLoad ==
  /\ phase = "ready"
  /\ memory' = Written(table, Image, Program)
  /\ UNCHANGED <<phase, current, blocks, table>>

(* exec_prepare_stack puts the arguments at the top, before anything else is
   known of the program. *)
ExecPrepareStack ==
  /\ phase = "ready"
  /\ \E from \in Stack : memory' = Written(table, from .. StackTop - 1, Program)
  /\ UNCHANGED <<phase, current, blocks, table>>

(* A program in ring 3 stores to any page it can reach, and a system call to
   either window for it. *)
ProgramWrites ==
  /\ phase = "ready"
  /\ \E a \in {b \in DOMAIN memory : Page(b) \in UserPages} :
       memory' = Written(table, {a}, Program)
  /\ UNCHANGED <<phase, current, blocks, table>>

Boot == PagingInitialize \/ MapUserPage \/ Panic \/ Booted
Exec == ExecLoad \/ ExecPrepareStack \/ ProgramWrites
Next == Boot \/ Exec \/ \E size \in Sizes : Kmalloc(size)
Spec == Init /\ [][Next]_vars
-----------------------------------------------------------------------------
(* Every variable holds a value of its type; the heap stays within its end and
   inside the identity map. *)
TypeOK ==
  /\ phase \in Phases /\ current \in HeapStart .. HeapEnd
  /\ blocks \subseteq [from : HeapStart .. HeapEnd, to : HeapStart .. HeapEnd]
  /\ DOMAIN table \in {{}, 0 .. Page(IdentityEnd - 1)}
  /\ \A p \in DOMAIN table : table[p].frame \in DOMAIN table /\ table[p].user \in BOOLEAN
  /\ memory \in [0 .. IdentityEnd - 1 -> {Zero, Program} \cup (HeapStart .. HeapEnd)]

(* Programs' pages are backed by different frames, and in none of these frames
   lies what the kernel keeps at another address than a window's: no write of a
   program reaches it there, nor a read.  A part of a block at the address of a
   window page is in the page's own frame, and so in the program's hands
   (BlocksKept, below, is what that breaks). *)
ProgramMemoryIsOwn ==
  /\ \A p, q \in UserPages : table[p].frame = table[q].frame => p = q
  /\ \A p \in UserPages, b \in blocks : \A a \in Units(b) \ Windows :
       Page(Physical(table, a)) # table[p].frame

(* A block reads as it was filled in. *)
Keeps(b) == \A a \in Units(b) : memory[Physical(table, a)] = b.from

(* A block that no part of lies at an address of the user image or stack keeps
   what was put into it, whatever exec and the programs write. *)
BlocksOutsideWindowsKept == \A b \in blocks : Units(b) \cap Windows = {} => Keeps(b)

(* The heap "large enough to hold initrd file blobs, the initial user image
   and stack pages, misc kernel allocations" (memory.c:54) holds them: every
   block it gave out keeps what was put into it. *)
BlocksKept == \A b \in blocks : Keeps(b)
===============================================================================
