----------------------------- MODULE UserPrograms -----------------------------
(***************************************************************************)
(* Programs in ring 3, one at a time: the user shell (UserShell), and any  *)
(* other program, which makes every system call that moves data between    *)
(* its memory and the kernel, with whatever addresses and sizes it likes.  *)
(* A system call runs with interrupts off and is one step.  Descriptors    *)
(* and the owner of the framebuffer are in module Kernel; a call here has  *)
(* a descriptor of the type it needs.                                      *)
(***************************************************************************)
EXTENDS UserShell, UserMemory

CONSTANTS ListChunk,            \* SYSCALL_LIST_CHUNK
          EventSize,            \* sizeof(mouse_event_t)
          StructSize,           \* of the structures passed to the drawing calls
          Addresses, Lengths,   \* bound: the words that programs pass
          Structs, Coordinates, Sources, Strides,
          FileSizes,            \* what is left of a file after its offset
          Listings              \* the entries of a directory, each by its line's length

ASSUME ProgramsAssumption ==
  /\ Addresses \cup Lengths \cup Structs \cup Coordinates \cup Sources \cup Strides \subseteq Words
  /\ FileSizes \subseteq Nat
  /\ {ListChunk, EventSize, StructSize} \subseteq Nat \ {0}

(* syscall_list_collect: a line that does not fit is left out, and so that one
   only; a shorter one may come after it. *)
Collected(used, total) == IF used + total + 1 > ListChunk THEN used ELSE used + total
Listed(lines) == FoldLeft(Collected, 0, lines)

(* What is listed of a directory leaves a place for the NUL. *)
ASSUME ListingAssumption == \A lines \in Listings : Listed(lines) \in 0 .. ListChunk - 1

VARIABLE call   \* history: what the last system call of the other program did

allVars == <<shellVars, call>>

(* given is the memory the call was told to fill, saw and wrote what it read
   and wrote of memory, ok whether it answered with something else than -1,
   told the amount that this answer tells and moved the amount there was. *)
NoCall == [given |-> {}, saw |-> {}, wrote |-> {}, ok |-> FALSE, told |-> 0, moved |-> 0]

ProgramsInit == ShellInit /\ call = NoCall

ProgramStart ==
  /\ pc = "kernel" /\ pc' = "other"
  /\ UNCHANGED <<ringVars, line, screenVars, call>>

ProgramExit ==
  /\ pc = "other" /\ pc' = "kernel"
  /\ UNCHANGED <<ringVars, line, screenVars, call>>

(* Between two calls the program does something of its own. *)
Resume ==
  /\ pc = "called" /\ pc' = "other" /\ call' = NoCall
  /\ UNCHANGED <<ringVars, line, screenVars>>

Calls(c) == pc' = "called" /\ call' = c /\ UNCHANGED line

(* A call that fills the n bytes at a with the count it has got. *)
Fill(a, n, got) ==
  IF a = 0 \/ (got # 0 /\ ~ ValidRange(a, got)) THEN NoCall
  ELSE [NoCall EXCEPT !.given = Bytes(a, n), !.wrote = Bytes(a, got),
                      !.ok = TRUE, !.told = got, !.moved = Cardinality(Bytes(a, got))]

(* syscall_read of the console: what was taken from the queue is gone, also
   when the copy fails.  Without a buffer it fails at once, like ReadFile. *)
ReadConsole(a, n) ==
  LET chunk == Least(n, ReadChunk)
      got   == Least(chunk, count)
  IN  /\ a # 0
      /\ Read(chunk)
      /\ Calls(Fill(a, n, got))
      /\ TakenBy(got)

QuietCall(c) == Calls(c) /\ UNCHANGED <<ringVars, screenVars>>

ReadFile(a, n, rest) == QuietCall(Fill(a, n, Least(n, rest)))

(* Eight events at most; how many there are is the mouse's business. *)
ReadMouse(a, n, events) ==
  /\ events <= Least(n \div EventSize, 8)
  /\ QuietCall(Fill(a, n, events * EventSize))

(* Mutant of Write: every chunk is taken from the start of the text. *)
WriteFirstChunk(a, n, type) ==
  LET good == CopiedChunks(a, n, WriteChunk)
      saw  == IF good = {} THEN {} ELSE Bytes(a, ChunkLength(n, WriteChunk, 0))
  IN  QuietCall([NoCall EXCEPT !.saw = saw, !.ok = (a # 0 /\ good = Chunks(n, WriteChunk)),
                               !.told = n, !.moved = Cardinality(saw)])

(* syscall_write prints chunk after chunk; at one it cannot copy it fails, with
   the others already on the screen.  A file refuses the first. *)
Write(a, n, type) ==
  LET good  == IF a = 0 THEN {} ELSE CopiedChunks(a, n, WriteChunk)
      done  == IF type = "file" THEN good \cap {0} ELSE good
      saw   == UNION {Bytes(ChunkAt(a, WriteChunk, k), ChunkLength(n, WriteChunk, k)) : k \in done}
  IN  QuietCall([NoCall EXCEPT !.saw = saw,
                               !.ok = (n = 0 \/ (a # 0 /\ type # "file" /\ good = Chunks(n, WriteChunk))),
                               !.told = n, !.moved = Cardinality(saw)])

(* syscall_open, as far as its path is copied. *)
Open(a, nul) ==
  QuietCall([NoCall EXCEPT !.saw = StringBytes(a, nul), !.ok = StringCopied(a, nul)])

(* Mutant of List: the NUL after the listing is forgotten. *)
ListForgetsNul(path, nul, a, n, lines) ==
  LET used == Listed(lines)
  IN  QuietCall(IF 0 \in {path, a, n} \/ ~ StringCopied(path, nul) \/ used > n THEN NoCall
                ELSE [Fill(a, n, used + 1) EXCEPT !.saw = StringBytes(path, nul),
                                                  !.told = used, !.moved = Cardinality(Bytes(a, used))])

(* syscall_list: the listing and its NUL have to fit. *)
List(path, nul, a, n, lines) ==
  LET used == Listed(lines)
  IN  QuietCall(IF 0 \in {path, a, n} \/ ~ StringCopied(path, nul) \/ used + 1 > n THEN NoCall
                ELSE [Fill(a, n, used + 1) EXCEPT !.saw = StringBytes(path, nul),
                                                  !.told = used, !.moved = Cardinality(Bytes(a, used))])

(* The drawing calls are given a structure first. *)
Given(a) == a # 0 /\ ValidRange(a, StructSize)

FbInfo(a) == QuietCall(Fill(a, StructSize, StructSize))

PutPixel(x, y) ==
  QuietCall([NoCall EXCEPT !.ok = (x < Width /\ y < Height), !.told = 1,
                           !.moved = Cardinality(Pixels(x, y, 1, 1))])

FillRect(a, x, y, w, h) ==
  LET drawn == IF RectValid(x, y, w, h) THEN Pixels(x, y, w, h) ELSE {}
  IN  QuietCall(IF ~ Given(a) THEN NoCall
                ELSE [NoCall EXCEPT !.saw = Bytes(a, StructSize), !.ok = RectValid(x, y, w, h),
                                    !.told = w * h, !.moved = Cardinality(drawn)])

Blit(a, x, y, w, h, source, stride) ==
  LET sound == RectValid(x, y, w, h) /\ source # 0 /\ stride >= w * PixelSize
      pixels == Bytes(a, StructSize) \cup BlitBytes(w, h, source, stride)
  IN  QuietCall(IF ~ Given(a) THEN NoCall
                ELSE IF ~ sound THEN [NoCall EXCEPT !.saw = Bytes(a, StructSize)]
                ELSE [NoCall EXCEPT
                        !.saw = pixels, !.ok = (BlitPieces(w, h, source, stride) = Pieces(w, h)),
                        !.told = w * h, !.moved = Cardinality(BlitPixels(x, y, w, h, source, stride))])

(* Bound: the calls that have nothing to do with the queue are made on a
   machine whose keyboard was not touched yet. *)
Untouched == \A i \in Indices : slots[i] = Zero

QuietCalls ==
  \/ \E a \in Addresses, n \in Lengths :
       \/ \E rest \in FileSizes : ReadFile(a, n, rest)
       \/ \E events \in 0 .. 8 : ReadMouse(a, n, events)
       \/ \E type \in {"console", "null", "file"} : Write(a, n, type)
       \/ \E path \in Structs, nul \in 0 .. PathMax, lines \in Listings : List(path, nul, a, n, lines)
  \/ \E a \in Addresses, nul \in 0 .. PathMax : Open(a, nul)
  \/ \E a \in Addresses : FbInfo(a)
  \/ \E x, y \in Coordinates : PutPixel(x, y)
  \/ \E a \in Structs, x, y, w, h \in Coordinates :
       \/ FillRect(a, x, y, w, h)
       \/ \E source \in Sources, stride \in Strides : Blit(a, x, y, w, h, source, stride)

ProgramCall ==
  /\ pc = "other"
  /\ \/ \E a \in Addresses, n \in Lengths : ReadConsole(a, n)
     \/ Untouched /\ QuietCalls

ProgramsNext ==
  \/ ShellNext /\ UNCHANGED call
  \/ ProgramStart \/ ProgramExit \/ Resume \/ ProgramCall

ProgramsSpec == ProgramsInit /\ [][ProgramsNext]_allVars

(* Whatever the keyboard does, the program that has the processor goes on. *)
FairSpec == ProgramsSpec /\ WF_allVars(ShellStep /\ UNCHANGED call)
-----------------------------------------------------------------------------
(* Every variable holds a value of its type. *)
ProgramsTypeOK ==
  /\ ShellTypeOK
  /\ pc \in ShellLocations \cup {"kernel", "other", "called"}
  /\ {call.given, call.saw, call.wrote} \subseteq SUBSET Words
  /\ call.ok \in BOOLEAN /\ call.told \in Nat /\ call.moved \in Nat

(* Whatever addresses and sizes a program passes, and however they wrap round,
   a call reads and writes memory of the program's image and stack only. *)
OwnMemoryOnly == call.saw \cup call.wrote \subseteq OwnMemory

(* A call writes to no more than the buffer it was given, the NUL after a
   listing included. *)
WritesStayGiven == call.wrote \subseteq call.given

(* A call that answers with a size or with success has moved that much: each
   byte of a write or read, each pixel of a rectangle, none of them twice and
   none off the screen. *)
AnswersAreTrue == call.ok => call.moved = call.told
==============================================================================
