-------------------------- MODULE UserPrograms_proofs --------------------------
(***************************************************************************)
(* For every size of the address space, every place of the image and the   *)
(* stack, every chunk size and whatever addresses and sizes programs pass: *)
(* the console's ring under the user shell and the other programs is still *)
(* the bounded queue of module BoundedFifo, a system call touches the      *)
(* program's own memory and the buffer it was given only, and it answers   *)
(* with what it did.                                                       *)
(*                                                                         *)
(* The line the user shell runs is the line its user saw: the screen is    *)
(* ahead of the shell by the characters it has not edited yet, and there   *)
(* is a way through them, one view of the screen for each, from what the   *)
(* shell holds to what the user sees (Follows).                            *)
(***************************************************************************)
EXTENDS UserPrograms, Ring_proofs, FiniteSetTheorems

(* A call that is quiet leaves the console and the shell alone. *)
LEMMA QuietCallsCall ==
  QuietCalls => pc' = "called" /\ UNCHANGED <<ringVars, screenVars, line>>
<1> DEFINE Called == pc' = "called" /\ UNCHANGED <<ringVars, screenVars, line>>
<1> SUFFICES ASSUME QuietCalls PROVE Called
  OBVIOUS
<1> USE DEF QuietCall, Calls
<1>1. ASSUME NEW a, NEW n, NEW rest, ReadFile(a, n, rest) PROVE Called
  BY <1>1, Zenon DEF ReadFile
<1>2. ASSUME NEW a, NEW n, NEW events, ReadMouse(a, n, events) PROVE Called
  BY <1>2, Zenon DEF ReadMouse
<1>3. ASSUME NEW a, NEW n, NEW type, Write(a, n, type) PROVE Called
  BY <1>3, Zenon DEF Write
<1>4. ASSUME NEW path, NEW nul, NEW a, NEW n, NEW lines, List(path, nul, a, n, lines)
      PROVE  Called
  BY <1>4, Zenon DEF List
<1>5. ASSUME NEW a, NEW nul, Open(a, nul) PROVE Called
  BY <1>5, Zenon DEF Open
<1>6. ASSUME NEW a, FbInfo(a) PROVE Called
  BY <1>6, Zenon DEF FbInfo
<1>7. ASSUME NEW x, NEW y, PutPixel(x, y) PROVE Called
  BY <1>7, Zenon DEF PutPixel
<1>8. ASSUME NEW a, NEW x, NEW y, NEW w, NEW h, FillRect(a, x, y, w, h) PROVE Called
  BY <1>8, Zenon DEF FillRect
<1>9. ASSUME NEW a, NEW x, NEW y, NEW w, NEW h, NEW source, NEW stride,
             Blit(a, x, y, w, h, source, stride)
      PROVE  Called
  BY <1>9, Zenon DEF Blit
<1> QED BY <1>1, <1>2, <1>3, <1>4, <1>5, <1>6, <1>7, <1>8, <1>9, Zenon DEF QuietCalls

LEMMA QuietCallsAreQuiet == QuietCalls => UNCHANGED ringVars
BY QuietCallsCall

LEMMA CatChunk ==
  LET chunk == Least(CatSize, ReadChunk) IN chunk \in Requests /\ chunk \in Nat \ {0}
BY LineAssumption DEF Least

(* Keys and reads are the only steps that change the ring. *)
LEMMA ProgramsStepIsRingStep == [ProgramsNext]_allVars => [Next]_vars
<1> USE DEF vars, ringVars
<1> SUFFICES ASSUME [ProgramsNext]_allVars PROVE [Next]_vars
  OBVIOUS
<1>1. CASE \E c \in Values : KeyPress(c)
  BY <1>1 DEF KeyPress, Next
<1>2. CASE ShellRead
  BY <1>2, LineAssumption DEF ShellRead, Next
<1>3. CASE ShellStart \/ ShellYield \/ ShellEdit \/ ShellExecute
  BY <1>3 DEF ShellStart, ShellYield, ShellEdit, ShellExecute, Executed
<1>8. CASE ShellCat
  BY <1>8, CatChunk DEF ShellCat, Next
<1>4. CASE ProgramStart \/ ProgramExit \/ Resume
  BY <1>4 DEF ProgramStart, ProgramExit, Resume
<1>5. CASE \E a \in Addresses, n \in Lengths : ReadConsole(a, n)
  <2>1. PICK a \in Addresses, n \in Lengths : ReadConsole(a, n)
    BY <1>5
  <2>2. Least(n, ReadChunk) \in Requests
    BY UserMemoryAssumption, ProgramsAssumption, LineAssumption DEF Least, Words
  <2> QED BY <2>1, <2>2 DEF ReadConsole, Next
<1>6. CASE QuietCalls
  <2>1. UNCHANGED ringVars
    BY <1>6, QuietCallsAreQuiet
  <2> QED BY <2>1
<1>7. CASE UNCHANGED allVars
  BY <1>7 DEF allVars, shellVars
<1> QED BY <1>1, <1>2, <1>3, <1>4, <1>5, <1>6, <1>7, <1>8
        DEF ProgramsNext, ShellNext, ShellStep, ProgramCall

(* The programs and the keyboard handler use the ring as module Ring has it;
   so its theorems hold under them. *)
THEOREM ProgramsUseRing == ProgramsSpec => Spec
<1>1. ProgramsInit => Init
  BY DEF ProgramsInit, ShellInit
<1> QED BY <1>1, ProgramsStepIsRingStep, PTL DEF ProgramsSpec, Spec

(* Between the keyboard and whatever programs read it, the console's input is
   a bounded first-in first-out queue. *)
THEOREM ProgramsReadFifo == ProgramsSpec => FifoSpec
<1> QED BY ProgramsUseRing, RingImplementsFifo

(* The ring's indices agree whoever reads it. *)
THEOREM ProgramsIndicesAgree == ProgramsSpec => []IndicesAgree
<1> QED BY ProgramsUseRing, RingIndicesAgree
-----------------------------------------------------------------------------
(* Wrapped round or not, a word is a word. *)
LEMMA WordIsWord ==
  ASSUME NEW x \in Int
  PROVE  x % Space \in Words
<1>1. Space \in Nat \ {0}
  BY UserMemoryAssumption
<1> HIDE DEF Words
<1>2. x % Space \in 0 .. Space - 1
  BY <1>1
<1> QED BY <1>2 DEF Words

(* A range that passes process_validate_user_range does not wrap, and all of
   it is the program's. *)
LEMMA ValidBytesAreOwn ==
  ASSUME NEW a \in Words, NEW n \in Int, ValidRange(a, n)
  PROVE  Bytes(a, n) \subseteq OwnMemory
<1> SUFFICES ASSUME NEW i \in 0 .. n - 1 PROVE (a + i) % Space \in OwnMemory
  BY DEF Bytes
<1>1. /\ Space \in Nat \ {0}
      /\ ImageBase \in Nat /\ ImageSize \in Nat /\ StackBottom \in Nat /\ StackTop \in Nat
  BY UserMemoryAssumption
<1>2. a \in Nat /\ a + i \in 0 .. Space - 1
  BY <1>1 DEF ValidRange, Words
<1>3. (a + i) % Space = a + i
  <2> DEFINE x == a + i
  <2>1. x \in 0 .. 2 * Space - 1 /\ x < Space
    BY <1>1, <1>2
  <2> HIDE DEF x
  <2>2. x % Space = IF x < Space THEN x ELSE x - Space
    BY <1>1, <2>1, ModOnce
  <2> QED BY <2>1, <2>2 DEF x
<1>4. a + i \in OwnMemory
  BY <1>1, <1>2 DEF ValidRange, OwnMemory, Image, Stack
<1> QED BY <1>3, <1>4

(* A path is copied byte by byte, each one after it was looked at. *)
LEMMA StringIsOwn ==
  ASSUME NEW a \in Words, NEW nul
  PROVE  StringBytes(a, nul) \subseteq OwnMemory
<1> SUFFICES ASSUME NEW i \in 0 .. PathMax, InString(a, nul, i)
             PROVE  (a + i) % Space \in OwnMemory
  BY DEF StringBytes
<1> DEFINE x == (a + i) % Space
<1>1. a + i \in Int
  BY UserMemoryAssumption DEF Words
<1>2. x \in Words
  BY <1>1, WordIsWord
<1>3. i \in 0 .. i
  BY UserMemoryAssumption
<1>4. ValidRange(x, 1)
  BY <1>3 DEF InString
<1> HIDE DEF x
<1>5. x \in OwnMemory
  BY <1>2, <1>4, UserMemoryAssumption DEF ValidRange, OwnMemory, Image, Stack, Words
<1> QED BY <1>5 DEF x

(* So is the text of a write, chunk by chunk up to the first bad one. *)
LEMMA ChunkIsOwn ==
  ASSUME NEW a \in Words, NEW n \in Words, NEW k \in CopiedChunks(a, n, WriteChunk)
  PROVE  Bytes(ChunkAt(a, WriteChunk, k), ChunkLength(n, WriteChunk, k)) \subseteq OwnMemory
<1>1. WriteChunk \in Nat \ {0} /\ Space \in Nat \ {0} /\ a \in Nat /\ n \in Nat
  BY UserMemoryAssumption DEF Words
<1>2. k \in Nat /\ ValidRange(ChunkAt(a, WriteChunk, k), ChunkLength(n, WriteChunk, k))
  <2>1. k \in Chunks(n, WriteChunk)
    BY DEF CopiedChunks
  <2>2. k \in Nat
    BY <2>1, <1>1 DEF Chunks
  <2>3. k \in 0 .. k
    BY <2>2
  <2> QED BY <2>2, <2>3 DEF CopiedChunks
<1>3. ChunkAt(a, WriteChunk, k) \in Words
  <2>1. a + (k * WriteChunk) \in Int
    BY <1>1, <1>2
  <2> QED BY <2>1, WordIsWord DEF ChunkAt
<1>4. ChunkLength(n, WriteChunk, k) \in Int
  BY <1>1, <1>2 DEF ChunkLength
<1> QED BY <1>2, <1>3, <1>4, ValidBytesAreOwn

(* And the pixels of a blit, piece by piece, whatever the stride. *)
LEMMA BlitIsOwn ==
  ASSUME NEW w \in Words, NEW h \in Words, NEW source \in Words, NEW stride \in Words
  PROVE  BlitBytes(w, h, source, stride) \subseteq OwnMemory
<1> SUFFICES ASSUME NEW p \in BlitPieces(w, h, source, stride)
             PROVE  Bytes(PieceAt(source, stride, p), PieceBytes(w, p)) \subseteq OwnMemory
  BY DEF BlitBytes
<1>1. /\ BlitChunk \in Nat \ {0} /\ PixelSize \in Nat \ {0} /\ Space \in Nat \ {0}
      /\ w \in Nat /\ h \in Nat /\ source \in Nat /\ stride \in Nat
  BY UserMemoryAssumption DEF Words
<1>2. p \in Pieces(w, h)
  BY DEF BlitPieces
<1>3. p[1] \in Nat /\ p[2] \in Nat
  BY <1>1, <1>2 DEF Pieces, Chunks
<1>4. ValidRange(PieceAt(source, stride, p), PieceBytes(w, p))
  <2>1. NotAfter(p, p)
    BY <1>3 DEF NotAfter
  <2> QED BY <1>2, <2>1 DEF BlitPieces
<1>5. PieceAt(source, stride, p) \in Words
  <2>1. p[1] * stride \in Int /\ p[2] * BlitChunk \in Int
    BY <1>1, <1>3
  <2>2. p[2] * BlitChunk * PixelSize \in Int
    BY <1>1, <2>1
  <2>3. source + (p[1] * stride) + (p[2] * BlitChunk * PixelSize) \in Int
    BY <1>1, <2>1, <2>2
  <2> QED BY <2>3, WordIsWord DEF PieceAt
<1>6. PieceBytes(w, p) \in Int
  <2>1. ChunkLength(w, BlitChunk, p[2]) \in Int
    BY <1>1, <1>3 DEF ChunkLength
  <2> QED BY <1>1, <2>1 DEF PieceBytes
<1> QED BY <1>4, <1>5, <1>6, ValidBytesAreOwn

(* A call that fills a buffer writes where it may. *)
LEMMA FillIsOwn ==
  ASSUME NEW a \in Words, NEW n, NEW got \in Nat
  PROVE  Fill(a, n, got).saw = {} /\ Fill(a, n, got).wrote \subseteq OwnMemory
<1>1. CASE a = 0 \/ (got # 0 /\ ~ ValidRange(a, got))
  BY <1>1 DEF Fill, NoCall
<1>2. CASE ~ (a = 0 \/ (got # 0 /\ ~ ValidRange(a, got)))
  <2>1. Fill(a, n, got).saw = {} /\ Fill(a, n, got).wrote = Bytes(a, got)
    BY <1>2 DEF Fill, NoCall
  <2>2. Bytes(a, got) \subseteq OwnMemory
    <3>1. CASE got = 0
      BY <3>1 DEF Bytes
    <3>2. CASE got # 0
      BY <1>2, <3>2, ValidBytesAreOwn
    <3> QED BY <3>1, <3>2
  <2> QED BY <2>1, <2>2
<1> QED BY <1>1, <1>2

LEMMA FillIsCall ==
  ASSUME NEW a, NEW n, NEW got
  PROVE  DOMAIN Fill(a, n, got) = {"given", "saw", "wrote", "ok", "told", "moved"}
<1>1. DOMAIN NoCall = {"given", "saw", "wrote", "ok", "told", "moved"}
  BY DEF NoCall
<1> QED BY <1>1 DEF Fill

LEMMA StructIsOwn ==
  ASSUME NEW a \in Structs, Given(a)
  PROVE  Bytes(a, StructSize) \subseteq OwnMemory
<1>1. a \in Words /\ StructSize \in Int
  BY ProgramsAssumption
<1> QED BY <1>1, ValidBytesAreOwn DEF Given

LEMMA QuietCallsStayOwn == QuietCalls => OwnMemoryOnly'
<1> SUFFICES ASSUME QuietCalls PROVE OwnMemoryOnly'
  OBVIOUS
<1> USE DEF QuietCall, Calls
<1>0. /\ Addresses \subseteq Words /\ Lengths \subseteq Words /\ Structs \subseteq Words
      /\ Coordinates \subseteq Words /\ Sources \subseteq Words /\ Strides \subseteq Words
      /\ FileSizes \subseteq Nat /\ EventSize \in Nat /\ StructSize \in Nat /\ Words \subseteq Nat
  BY ProgramsAssumption, UserMemoryAssumption DEF Words
<1>1. ASSUME NEW a \in Addresses, NEW n \in Lengths, NEW rest \in FileSizes, ReadFile(a, n, rest)
      PROVE  OwnMemoryOnly'
  <2>1. Least(n, rest) \in Nat
    BY <1>0 DEF Least
  <2>2. call' = Fill(a, n, Least(n, rest))
    BY <1>1 DEF ReadFile
  <2> QED BY <1>0, <2>1, <2>2, FillIsOwn DEF OwnMemoryOnly
<1>2. ASSUME NEW a \in Addresses, NEW n \in Lengths, NEW events \in 0 .. 8, ReadMouse(a, n, events)
      PROVE  OwnMemoryOnly'
  <2>1. events * EventSize \in Nat
    BY <1>0
  <2>2. call' = Fill(a, n, events * EventSize)
    BY <1>2 DEF ReadMouse
  <2> QED BY <1>0, <2>1, <2>2, FillIsOwn DEF OwnMemoryOnly
<1>3. ASSUME NEW a \in Addresses, NEW n \in Lengths, NEW type, Write(a, n, type)
      PROVE  OwnMemoryOnly'
  <2> DEFINE good == IF a = 0 THEN {} ELSE CopiedChunks(a, n, WriteChunk)
             done == IF type = "file" THEN good \cap {0} ELSE good
             saw  == UNION {Bytes(ChunkAt(a, WriteChunk, k), ChunkLength(n, WriteChunk, k)) : k \in done}
  <2>1. call'.saw = saw /\ call'.wrote = {}
    BY <1>3 DEF Write, NoCall
  <2>2. done \subseteq CopiedChunks(a, n, WriteChunk)
    OBVIOUS
  <2> HIDE DEF done
  <2>3. saw \subseteq OwnMemory
    BY <1>0, <2>2, ChunkIsOwn
  <2> QED BY <2>1, <2>3 DEF OwnMemoryOnly
<1>4. ASSUME NEW path \in Structs, NEW nul, NEW a \in Addresses, NEW n \in Lengths,
             NEW lines \in Listings, List(path, nul, a, n, lines)
      PROVE  OwnMemoryOnly'
  <2> DEFINE used == Listed(lines)
             fill == Fill(a, n, used + 1)
  <2>1. used + 1 \in Nat
    BY ListingAssumption, ProgramsAssumption
  <2>2. \/ call' = NoCall
        \/ call' = [fill EXCEPT !.saw = StringBytes(path, nul), !.told = used,
                                 !.moved = Cardinality(Bytes(a, used))]
    BY <1>4 DEF List
  <2>3. fill.wrote \subseteq OwnMemory
    BY <1>0, <2>1, FillIsOwn
  <2>4. StringBytes(path, nul) \subseteq OwnMemory
    BY <1>0, StringIsOwn
  <2>5. call'.wrote \in {{}, fill.wrote} /\ call'.saw \in {{}, StringBytes(path, nul)}
    <3> HIDE DEF fill, used
    <3>1. CASE call' = NoCall
      BY <3>1 DEF NoCall
    <3>2. CASE call' # NoCall
      <4>1. PICK told, moved, saw :
              call' = [fill EXCEPT !.saw = saw, !.told = told, !.moved = moved]
              /\ saw = StringBytes(path, nul)
        BY <2>2, <3>2
      <4>2. /\ DOMAIN fill = {"given", "saw", "wrote", "ok", "told", "moved"}
        BY FillIsCall DEF fill
      <4> QED BY <4>1, <4>2
    <3> QED BY <3>1, <3>2
  <2> QED BY <2>3, <2>4, <2>5 DEF OwnMemoryOnly
<1>5. ASSUME NEW a \in Addresses, NEW nul, Open(a, nul) PROVE OwnMemoryOnly'
  <2>1. call'.saw = StringBytes(a, nul) /\ call'.wrote = {}
    BY <1>5 DEF Open, NoCall
  <2> QED BY <1>0, <2>1, StringIsOwn DEF OwnMemoryOnly
<1>6. ASSUME NEW a \in Addresses, FbInfo(a) PROVE OwnMemoryOnly'
  <2>1. call' = Fill(a, StructSize, StructSize)
    BY <1>6 DEF FbInfo
  <2> QED BY <1>0, <2>1, FillIsOwn DEF OwnMemoryOnly
<1>7. ASSUME NEW x, NEW y, PutPixel(x, y) PROVE OwnMemoryOnly'
  BY <1>7 DEF PutPixel, NoCall, OwnMemoryOnly
<1>8. ASSUME NEW a \in Structs, NEW x, NEW y, NEW w, NEW h, FillRect(a, x, y, w, h)
      PROVE  OwnMemoryOnly'
  <2>1. call'.wrote = {} /\ call'.saw \in {{}, Bytes(a, StructSize)}
    BY <1>8 DEF FillRect, NoCall
  <2>2. call'.saw = {} \/ Given(a)
    BY <1>8 DEF FillRect, NoCall
  <2> QED BY <2>1, <2>2, StructIsOwn DEF OwnMemoryOnly
<1>9. ASSUME NEW a \in Structs, NEW x \in Coordinates, NEW y \in Coordinates, NEW w \in Coordinates,
             NEW h \in Coordinates, NEW source \in Sources, NEW stride \in Strides,
             Blit(a, x, y, w, h, source, stride)
      PROVE  OwnMemoryOnly'
  <2>1. call'.wrote = {} /\ call'.saw \in {{}, Bytes(a, StructSize),
                       Bytes(a, StructSize) \cup BlitBytes(w, h, source, stride)}
    BY <1>9 DEF Blit, NoCall
  <2>2. call'.saw = {} \/ Given(a)
    BY <1>9 DEF Blit, NoCall
  <2>3. BlitBytes(w, h, source, stride) \subseteq OwnMemory
    BY <1>0, BlitIsOwn
  <2> QED BY <2>1, <2>2, <2>3, StructIsOwn DEF OwnMemoryOnly
<1> QED BY <1>1, <1>2, <1>3, <1>4, <1>5, <1>6, <1>7, <1>8, <1>9, Zenon DEF QuietCalls

(* Whatever addresses and sizes programs pass to the kernel, it reads and
   writes memory of the calling program only. *)
THEOREM CallsStayOwn == ProgramsSpec => []OwnMemoryOnly
<1>1. ProgramsInit => OwnMemoryOnly
  BY DEF ProgramsInit, NoCall, OwnMemoryOnly
<1>2. Inv /\ OwnMemoryOnly /\ [ProgramsNext]_allVars => OwnMemoryOnly'
  <2> SUFFICES ASSUME Inv, OwnMemoryOnly, [ProgramsNext]_allVars PROVE OwnMemoryOnly'
    OBVIOUS
  <2>1. CASE UNCHANGED call
    BY <2>1 DEF OwnMemoryOnly
  <2>2. CASE Resume
    BY <2>2 DEF Resume, NoCall, OwnMemoryOnly
  <2>3. CASE \E a \in Addresses, n \in Lengths : ReadConsole(a, n)
    <3>1. PICK a \in Addresses, n \in Lengths : ReadConsole(a, n)
      BY <2>3
    <3> DEFINE got == Least(Least(n, ReadChunk), count)
    <3>2. a \in Words /\ got \in Nat
      BY ProgramsAssumption, UserMemoryAssumption, LineAssumption, CapacityAssumption
         DEF Least, Words, Inv, TypeOK
    <3>3. call' = Fill(a, n, got)
      BY <3>1 DEF ReadConsole, Calls
    <3> HIDE DEF got
    <3> QED BY <3>2, <3>3, FillIsOwn DEF OwnMemoryOnly
  <2>4. CASE QuietCalls
    BY <2>4, QuietCallsStayOwn
  <2> QED BY <2>1, <2>2, <2>3, <2>4
          DEF ProgramsNext, ProgramStart, ProgramExit, ProgramCall, allVars
<1>3. ProgramsSpec => []Inv
  BY ProgramsUseRing, RingInvariant
<1> QED BY <1>1, <1>2, <1>3, PTL DEF ProgramsSpec
-----------------------------------------------------------------------------
(* The events that fit a buffer take no more than the buffer. *)
LEMMA EventsFit ==
  ASSUME NEW n \in Nat, NEW size \in Nat \ {0}, NEW events \in Nat, events <= n \div size
  PROVE  events * size <= n
<1> DEFINE q == n \div size
           r == n % size
<1>1. q \in Int /\ r \in 0 .. size - 1 /\ n = (size * q) + r
  OBVIOUS
<1> HIDE DEF q, r
<1>2. PICK d \in Nat : q = events + d
  <2>1. q - events \in Nat /\ q = events + (q - events)
    BY <1>1 DEF q
  <2> QED BY <2>1
<1>3. size * q = (events * size) + (d * size)
  BY <1>2
<1>4. d * size >= 0
  BY <1>2
<1> QED BY <1>1, <1>3, <1>4

(* A call that has no more than fits writes to the buffer it was given. *)
LEMMA FillStaysGiven ==
  ASSUME NEW a \in Words, NEW n \in Nat, NEW got \in Nat, got <= n
  PROVE  Fill(a, n, got).wrote \subseteq Fill(a, n, got).given
<1>1. Bytes(a, got) \subseteq Bytes(a, n)
  BY DEF Bytes
<1>2. Fill(a, n, got) = NoCall \/
        (Fill(a, n, got).wrote = Bytes(a, got) /\ Fill(a, n, got).given = Bytes(a, n))
  BY DEF Fill, NoCall
<1> QED BY <1>1, <1>2 DEF NoCall

LEMMA QuietCallsStayGiven == QuietCalls => WritesStayGiven'
<1> SUFFICES ASSUME QuietCalls PROVE WritesStayGiven'
  OBVIOUS
<1> USE DEF QuietCall, Calls
<1>0. /\ Addresses \subseteq Words /\ Lengths \subseteq Words /\ Words \subseteq Nat
      /\ FileSizes \subseteq Nat /\ EventSize \in Nat \ {0} /\ StructSize \in Nat
  BY ProgramsAssumption, UserMemoryAssumption DEF Words
<1>1. ASSUME NEW a \in Addresses, NEW n \in Lengths, NEW rest \in FileSizes, ReadFile(a, n, rest)
      PROVE  WritesStayGiven'
  <2>1. Least(n, rest) \in Nat /\ Least(n, rest) <= n
    BY <1>0 DEF Least
  <2>2. call' = Fill(a, n, Least(n, rest))
    BY <1>1 DEF ReadFile
  <2> QED BY <1>0, <2>1, <2>2, FillStaysGiven DEF WritesStayGiven
<1>2. ASSUME NEW a \in Addresses, NEW n \in Lengths, NEW events \in 0 .. 8, ReadMouse(a, n, events)
      PROVE  WritesStayGiven'
  <2>1. events <= n \div EventSize
    BY <1>0, <1>2 DEF ReadMouse, Least
  <2>2. events * EventSize \in Nat /\ events * EventSize <= n
    BY <1>0, <2>1, EventsFit
  <2>3. call' = Fill(a, n, events * EventSize)
    BY <1>2 DEF ReadMouse
  <2> QED BY <1>0, <2>2, <2>3, FillStaysGiven DEF WritesStayGiven
<1>3. ASSUME NEW a, NEW n, NEW type, Write(a, n, type) PROVE WritesStayGiven'
  <2>1. call'.wrote = {}
    BY <1>3 DEF Write, NoCall
  <2> QED BY <2>1 DEF WritesStayGiven
<1>4. ASSUME NEW path, NEW nul, NEW a \in Addresses, NEW n \in Lengths,
             NEW lines \in Listings, List(path, nul, a, n, lines)
      PROVE  WritesStayGiven'
  <2> DEFINE used == Listed(lines)
             fill == Fill(a, n, used + 1)
  <2>1. used + 1 \in Nat
    BY ListingAssumption, ProgramsAssumption
  <2>2. \/ call' = NoCall
        \/ /\ used + 1 <= n
           /\ call' = [fill EXCEPT !.saw = StringBytes(path, nul), !.told = used,
                                   !.moved = Cardinality(Bytes(a, used))]
    BY <1>0, <1>4, <2>1 DEF List
  <2>3. CASE call' = NoCall
    BY <2>3 DEF NoCall, WritesStayGiven
  <2>4. CASE call' # NoCall
    <3>1. fill.wrote \subseteq fill.given
      BY <1>0, <2>1, <2>2, <2>4, FillStaysGiven
    <3>2. DOMAIN fill = {"given", "saw", "wrote", "ok", "told", "moved"}
      BY FillIsCall
    <3> HIDE DEF fill, used
    <3>3. PICK told, moved, saw :
            call' = [fill EXCEPT !.saw = saw, !.told = told, !.moved = moved]
      BY <2>2, <2>4
    <3>4. call'.wrote = fill.wrote /\ call'.given = fill.given
      BY <3>2, <3>3
    <3> QED BY <3>1, <3>4 DEF WritesStayGiven
  <2> QED BY <2>3, <2>4
<1>5. ASSUME NEW a, NEW nul, Open(a, nul) PROVE WritesStayGiven'
  BY <1>5 DEF Open, NoCall, WritesStayGiven
<1>6. ASSUME NEW a \in Addresses, FbInfo(a) PROVE WritesStayGiven'
  <2>1. call' = Fill(a, StructSize, StructSize)
    BY <1>6 DEF FbInfo
  <2> QED BY <1>0, <2>1, FillStaysGiven DEF WritesStayGiven
<1>7. ASSUME NEW x, NEW y, PutPixel(x, y) PROVE WritesStayGiven'
  BY <1>7 DEF PutPixel, NoCall, WritesStayGiven
<1>8. ASSUME NEW a, NEW x, NEW y, NEW w, NEW h, FillRect(a, x, y, w, h) PROVE WritesStayGiven'
  <2>1. call'.wrote = {}
    BY <1>8 DEF FillRect, NoCall
  <2> QED BY <2>1 DEF WritesStayGiven
<1>9. ASSUME NEW a, NEW x, NEW y, NEW w, NEW h, NEW source, NEW stride,
             Blit(a, x, y, w, h, source, stride)
      PROVE  WritesStayGiven'
  <2>1. call'.wrote = {}
    BY <1>9 DEF Blit, NoCall
  <2> QED BY <2>1 DEF WritesStayGiven
<1> QED BY <1>1, <1>2, <1>3, <1>4, <1>5, <1>6, <1>7, <1>8, <1>9, Zenon DEF QuietCalls

(* No call writes past the end of the buffer that it was given, by as little
   as the NUL after a listing. *)
THEOREM CallsStayGiven == ProgramsSpec => []WritesStayGiven
<1>1. ProgramsInit => WritesStayGiven
  BY DEF ProgramsInit, NoCall, WritesStayGiven
<1>2. Inv /\ WritesStayGiven /\ [ProgramsNext]_allVars => WritesStayGiven'
  <2> SUFFICES ASSUME Inv, WritesStayGiven, [ProgramsNext]_allVars PROVE WritesStayGiven'
    OBVIOUS
  <2>1. CASE UNCHANGED call
    BY <2>1 DEF WritesStayGiven
  <2>2. CASE Resume
    BY <2>2 DEF Resume, NoCall, WritesStayGiven
  <2>3. CASE \E a \in Addresses, n \in Lengths : ReadConsole(a, n)
    <3>1. PICK a \in Addresses, n \in Lengths : ReadConsole(a, n)
      BY <2>3
    <3> DEFINE got == Least(Least(n, ReadChunk), count)
    <3>2. a \in Words /\ n \in Nat /\ got \in Nat /\ got <= n
      <4>1. a \in Words /\ n \in Nat /\ ReadChunk \in Nat
        BY ProgramsAssumption, UserMemoryAssumption, LineAssumption DEF Words
      <4>2. count \in Nat
        BY CapacityAssumption DEF Inv, TypeOK
      <4> QED BY <4>1, <4>2 DEF Least
    <3>3. call' = Fill(a, n, got)
      BY <3>1 DEF ReadConsole, Calls
    <3> HIDE DEF got
    <3> QED BY <3>2, <3>3, FillStaysGiven DEF WritesStayGiven
  <2>4. CASE QuietCalls
    BY <2>4, QuietCallsStayGiven
  <2> QED BY <2>1, <2>2, <2>3, <2>4
          DEF ProgramsNext, ProgramStart, ProgramExit, ProgramCall, allVars
<1>3. ProgramsSpec => []Inv
  BY ProgramsUseRing, RingInvariant
<1> QED BY <1>1, <1>2, <1>3, PTL DEF ProgramsSpec
-----------------------------------------------------------------------------
(* The line on the screen and the shell's line are edited apart.  What joins
   them is the input the shell is still to edit: the state of the screen after
   each character of it, from the one the shell is at to the one the user sees.
   A view is such a state, the line on the screen and the lines entered. *)
Views == Lines \X Seq(Lines)

EchoedOn(l, c) ==
  CASE c = Backspace -> Erased(l)
    [] c # Backspace /\ Len(l) + 1 < LineSize -> Append(l, c)
    [] OTHER -> l

After(v, c) == IF c = Enter THEN <<Blank, Append(v[2], v[1])>> ELSE <<EchoedOn(v[1], c), v[2]>>

Starts(s, t) == Len(s) <= Len(t) /\ \A k \in 1 .. Len(s) : t[k] = s[k]

(* h is how the screen got through the n characters of p. *)
Passes(h, p, n) ==
  /\ h \in [0 .. n -> Views]
  /\ \A i \in 1 .. n : h[i] = After(h[i - 1], p[i])
  /\ \A i, j \in 0 .. n : i <= j => Starts(h[i][2], h[j][2])

LEMMA ErasedType ==
  ASSUME NEW S, NEW s \in Seq(S)
  PROVE  Erased(s) \in Seq(S) /\ Len(Erased(s)) <= Len(s)
<1>1. CASE s = << >>
  BY <1>1 DEF Erased
<1>2. CASE s # << >>
  <2> DEFINE n == Len(s)
  <2>1. n \in Nat \ {0} /\ \A i \in 1 .. n : s[i] \in S
    BY <1>2, EmptySeq, ElementOfSeq
  <2>2. Erased(s) = SubSeq(s, 1, n - 1)
    BY <1>2 DEF Erased, Front
  <2> HIDE DEF n
  <2>3. 1 \in Int /\ n - 1 \in Int /\ \A i \in 1 .. n - 1 : s[i] \in S
    BY <2>1
  <2>4. Erased(s) \in Seq(S) /\ Len(Erased(s)) = IF 1 <= n - 1 THEN n - 1 - 1 + 1 ELSE 0
    BY <2>2, <2>3, SubSeqProperties
  <2>5. Len(Erased(s)) <= n
    BY <2>1, <2>4
  <2> QED BY <2>4, <2>5 DEF n
<1> QED BY <1>1, <1>2

LEMMA EchoedOnType ==
  ASSUME NEW l \in Lines, NEW c \in Values, c # Enter
  PROVE  EchoedOn(l, c) \in Lines
<1> DEFINE S == Values \ {Enter, Backspace}
<1>1. l \in Seq(S)
  BY DEF Lines
<1>2. Erased(l) \in Seq(S)
  BY <1>1, ErasedType
<1>3. c # Backspace => Append(l, c) \in Seq(S)
  BY <1>1
<1> HIDE DEF S
<1>4. EchoedOn(l, c) \in Seq(S)
  BY <1>1, <1>2, <1>3 DEF EchoedOn
<1> QED BY <1>4 DEF Lines, S

LEMMA BlankType == Blank \in Lines
BY EmptySeq DEF Blank, Lines

LEMMA StartsFacts ==
  /\ \A s \in Seq(Lines) : Starts(s, s)
  /\ \A s, t, u \in Seq(Lines) : Starts(s, t) /\ Starts(t, u) => Starts(s, u)
  /\ \A s \in Seq(Lines), l \in Lines : Starts(s, Append(s, l))
<1>1. ASSUME NEW s \in Seq(Lines) PROVE Starts(s, s)
  BY LenProperties DEF Starts
<1>2. ASSUME NEW s \in Seq(Lines), NEW t \in Seq(Lines), NEW u \in Seq(Lines),
             Starts(s, t), Starts(t, u)
      PROVE  Starts(s, u)
  <2>1. Len(s) \in Nat /\ Len(t) \in Nat /\ Len(u) \in Nat
    BY LenProperties
  <2> QED BY <1>2, <2>1 DEF Starts
<1>3. ASSUME NEW s \in Seq(Lines), NEW l \in Lines PROVE Starts(s, Append(s, l))
  <2>1. Len(s) \in Nat /\ Len(Append(s, l)) = Len(s) + 1
        /\ \A i \in 1 .. Len(s) : Append(s, l)[i] = s[i]
    BY LenProperties, AppendProperties
  <2> QED BY <2>1 DEF Starts
<1> QED BY <1>1, <1>2, <1>3

LEMMA AfterType ==
  ASSUME NEW v \in Views, NEW c \in Values
  PROVE  After(v, c) \in Views /\ Starts(v[2], After(v, c)[2])
<1>1. v[1] \in Lines /\ v[2] \in Seq(Lines)
  BY DEF Views
<1>0. \A l \in Lines, d \in Seq(Lines) : <<l, d>> \in Views
  BY DEF Views
<1>2. CASE c = Enter
  <2>1. Append(v[2], v[1]) \in Seq(Lines)
    BY <1>1, AppendProperties
  <2>2. After(v, c)[2] = Append(v[2], v[1]) /\ After(v, c) = <<Blank, Append(v[2], v[1])>>
    BY <1>2 DEF After
  <2>3. After(v, c) \in Views
    BY <1>0, <2>1, <2>2, BlankType
  <2>4. Starts(v[2], Append(v[2], v[1]))
    BY <1>1, StartsFacts
  <2> QED BY <2>2, <2>3, <2>4
<1>3. CASE c # Enter
  <2>1. EchoedOn(v[1], c) \in Lines
    BY <1>1, <1>3, EchoedOnType
  <2>2. After(v, c)[2] = v[2] /\ After(v, c) = <<EchoedOn(v[1], c), v[2]>>
    BY <1>3 DEF After
  <2>3. After(v, c) \in Views
    BY <1>0, <1>1, <2>1, <2>2
  <2>4. Starts(v[2], v[2])
    BY <1>1, StartsFacts
  <2> QED BY <2>2, <2>3, <2>4
<1> QED BY <1>2, <1>3

(* One more key: the screen passes on. *)
LEMMA PassesGrows ==
  ASSUME NEW n \in Nat, NEW p, NEW q, NEW h, Passes(h, p, n), NEW c \in Values,
         \A i \in 1 .. n : q[i] = p[i], q[n + 1] = c
  PROVE  \E g : Passes(g, q, n + 1) /\ g[0] = h[0] /\ g[n + 1] = After(h[n], c)
<1> DEFINE last == After(h[n], c)
           g == [i \in 0 .. n + 1 |-> IF i <= n THEN h[i] ELSE last]
<1>1. h \in [0 .. n -> Views] /\ \A i \in 0 .. n : h[i] \in Views
  BY DEF Passes
<1>2. last \in Views /\ Starts(h[n][2], last[2])
  BY <1>1, AfterType
<1>3. \A i \in 0 .. n : h[i][2] \in Seq(Lines)
  BY <1>1 DEF Views
<1>4. last[2] \in Seq(Lines)
  BY <1>2 DEF Views
<1>5. \A i \in 0 .. n : Starts(h[i][2], last[2])
  BY <1>2, <1>3, <1>4, StartsFacts DEF Passes
<1>6. last = After(h[n], c)
  OBVIOUS
<1> HIDE DEF last
<1>7. g \in [0 .. n + 1 -> Views]
  BY <1>1, <1>2
<1>8. (\A i \in 0 .. n : g[i] = h[i]) /\ g[n + 1] = last
  OBVIOUS
<1>9. \A i \in 1 .. n + 1 : g[i] = After(g[i - 1], q[i])
  <2> TAKE i \in 1 .. n + 1
  <2>1. CASE i \in 1 .. n
    BY <2>1, <1>8 DEF Passes
  <2>2. CASE i = n + 1
    BY <2>2, <1>6, <1>8
  <2> QED BY <2>1, <2>2
<1>10. \A i, j \in 0 .. n + 1 : i <= j => Starts(g[i][2], g[j][2])
  <2> SUFFICES ASSUME NEW i \in 0 .. n + 1, NEW j \in 0 .. n + 1, i <= j
               PROVE  Starts(g[i][2], g[j][2])
    OBVIOUS
  <2>1. CASE j \in 0 .. n
    <3>1. i \in 0 .. n
      BY <2>1
    <3> QED BY <2>1, <3>1, <1>8 DEF Passes
  <2>2. CASE j = n + 1 /\ i \in 0 .. n
    BY <2>2, <1>5, <1>8
  <2>3. CASE j = n + 1 /\ i = n + 1
    BY <2>3, <1>4, <1>8, StartsFacts
  <2> QED BY <2>1, <2>2, <2>3
<1> HIDE DEF g
<1>11. Passes(g, q, n + 1)
  BY <1>7, <1>9, <1>10 DEF Passes
<1>12. g[0] = h[0]
  BY <1>8
<1> QED BY <1>6, <1>8, <1>11, <1>12

Shift(h, n) == [i \in 0 .. n |-> h[i + 1]]
Drop(h, n) == [i \in 0 .. n |-> <<h[i][1], Tail(h[i][2])>>]

(* The shell edits one character: it is at the next view. *)
LEMMA PassesShifts ==
  ASSUME NEW n \in Nat, NEW p, NEW q, NEW h, Passes(h, p, n + 1),
         \A i \in 1 .. n : q[i] = p[i + 1]
  PROVE  /\ Passes(Shift(h, n), q, n)
         /\ Shift(h, n)[0] = After(h[0], p[1]) /\ Shift(h, n)[n] = h[n + 1]
<1> DEFINE g == Shift(h, n)
<1>1. h \in [0 .. n + 1 -> Views]
  BY DEF Passes
<1>2. g \in [0 .. n -> Views]
  BY <1>1 DEF Shift
<1>3. \A i \in 0 .. n : g[i] = h[i + 1]
  BY DEF Shift
<1>4. \A i \in 1 .. n + 1 : h[i] = After(h[i - 1], p[i])
  BY DEF Passes
<1> HIDE DEF g
<1>5. \A i \in 1 .. n : g[i] = After(g[i - 1], q[i])
  <2> TAKE i \in 1 .. n
  <2>1. g[i] = h[i + 1] /\ g[i - 1] = h[i] /\ q[i] = p[i + 1]
    BY <1>3
  <2>2. h[i + 1] = After(h[i], p[i + 1])
    <3>1. i + 1 \in 1 .. n + 1 /\ (i + 1) - 1 = i
      OBVIOUS
    <3> QED BY <3>1, <1>4
  <2> QED BY <2>1, <2>2
<1>6. \A i, j \in 0 .. n : i <= j => Starts(g[i][2], g[j][2])
  <2> SUFFICES ASSUME NEW i \in 0 .. n, NEW j \in 0 .. n, i <= j PROVE Starts(g[i][2], g[j][2])
    OBVIOUS
  <2>1. g[i] = h[i + 1] /\ g[j] = h[j + 1]
    BY <1>3
  <2>2. i + 1 \in 0 .. n + 1 /\ j + 1 \in 0 .. n + 1 /\ i + 1 <= j + 1
    OBVIOUS
  <2>3. \A x, y \in 0 .. n + 1 : x <= y => Starts(h[x][2], h[y][2])
    BY DEF Passes
  <2>4. Starts(h[i + 1][2], h[j + 1][2])
    BY <2>2, <2>3
  <2> QED BY <2>1, <2>4
<1>7. Passes(g, q, n)
  BY <1>2, <1>5, <1>6 DEF Passes
<1>8. g[0] = After(h[0], p[1])
  <2>1. 1 \in 1 .. n + 1 /\ 1 - 1 = 0 /\ 0 + 1 = 1 /\ 0 \in 0 .. n
    OBVIOUS
  <2> QED BY <2>1, <1>3, <1>4
<1>9. g[n] = h[n + 1]
  BY <1>3
<1> QED BY <1>7, <1>8, <1>9 DEF g

LEMMA StartsTail ==
  ASSUME NEW s \in Seq(Lines), NEW t \in Seq(Lines), s # << >>, Starts(s, t)
  PROVE  t # << >> /\ Starts(Tail(s), Tail(t)) /\ Head(t) = Head(s)
<1> DEFINE m == Len(s)
           k == Len(t)
<1>1. m \in Nat \ {0} /\ k \in Nat /\ m <= k /\ \A i \in 1 .. m : t[i] = s[i]
  BY EmptySeq, LenProperties DEF Starts
<1>2. t # << >>
  <2>1. k # 0
    BY <1>1
  <2> QED BY <2>1
<1>3. /\ Len(Tail(s)) = m - 1 /\ \A i \in 1 .. Len(Tail(s)) : Tail(s)[i] = s[i + 1]
      /\ Len(Tail(t)) = k - 1 /\ \A i \in 1 .. Len(Tail(t)) : Tail(t)[i] = t[i + 1]
  BY <1>2, HeadTailProperties
<1> HIDE DEF m, k
<1>4. Starts(Tail(s), Tail(t))
  BY <1>1, <1>3 DEF Starts
<1>5. Head(t) = t[1] /\ Head(s) = s[1]
  OBVIOUS
<1> QED BY <1>1, <1>2, <1>4, <1>5

(* A line is executed, and is off every list it was on. *)
LEMMA PassesDrops ==
  ASSUME NEW n \in Nat, NEW p, NEW h, Passes(h, p, n), h[0][2] # << >>
  PROVE  Passes(Drop(h, n), p, n)
<1> DEFINE g == Drop(h, n)
<1>1. \A i \in 0 .. n : h[i] \in Views
  BY DEF Passes
<1>2. \A i \in 0 .. n : h[i][1] \in Lines /\ h[i][2] \in Seq(Lines)
  BY <1>1 DEF Views
<1>3. \A i \in 0 .. n : h[i][2] # << >>
  <2> TAKE i \in 0 .. n
  <2>1. Starts(h[0][2], h[i][2])
    BY DEF Passes
  <2>2. 0 \in 0 .. n
    OBVIOUS
  <2> QED BY <1>2, <2>1, <2>2, StartsTail
<1>4. \A i \in 0 .. n : Tail(h[i][2]) \in Seq(Lines)
  BY <1>2, <1>3, HeadTailProperties
<1>5. \A i \in 0 .. n : g[i] = <<h[i][1], Tail(h[i][2])>>
  BY DEF Drop
<1>6. g \in [0 .. n -> Views]
  BY <1>2, <1>4 DEF Views, Drop
<1> HIDE DEF g
<1>7. \A i \in 1 .. n : g[i] = After(g[i - 1], p[i])
  <2> TAKE i \in 1 .. n
  <2> DEFINE v == h[i - 1]
             c == p[i]
  <2>1. i \in 0 .. n /\ i - 1 \in 0 .. n
    OBVIOUS
  <2>2. h[i] = After(v, c)
    BY DEF Passes
  <2>3. v[1] \in Lines /\ v[2] \in Seq(Lines) /\ v[2] # << >>
    BY <1>2, <1>3, <2>1
  <2>4. g[i] = <<After(v, c)[1], Tail(After(v, c)[2])>> /\ g[i - 1] = <<v[1], Tail(v[2])>>
    BY <1>5, <2>1, <2>2
  <2> HIDE DEF v, c
  <2>5. CASE c = Enter
    <3>1. Tail(Append(v[2], v[1])) = Append(Tail(v[2]), v[1])
      BY <2>3, HeadTailAppend
    <3> QED BY <2>4, <2>5, <3>1 DEF After, c
  <2>6. CASE c # Enter
    BY <2>4, <2>6 DEF After, c
  <2> QED BY <2>5, <2>6
<1>8. \A i, j \in 0 .. n : i <= j => Starts(g[i][2], g[j][2])
  <2> SUFFICES ASSUME NEW i \in 0 .. n, NEW j \in 0 .. n, i <= j PROVE Starts(g[i][2], g[j][2])
    OBVIOUS
  <2>1. Starts(h[i][2], h[j][2])
    BY DEF Passes
  <2>2. Starts(Tail(h[i][2]), Tail(h[j][2]))
    BY <1>2, <1>3, <2>1, StartsTail
  <2> QED BY <1>5, <2>2
<1>9. Passes(g, p, n)
  BY <1>6, <1>7, <1>8 DEF Passes
<1> QED BY <1>9 DEF g
-----------------------------------------------------------------------------
(* What is in the queue and in the shell's hand was typed: a slot that was
   never pushed to is never read. *)
InputTyped ==
  /\ \A i \in 1 .. count : Queue[i] \in Values
  /\ \A i \in 1 .. Len(taken) : taken[i] \in Values
  /\ pc = "edit" => Len(taken) = 1

Pending == IF pc = "edit" THEN taken \o Queue ELSE Queue

(* The view that the shell has got to. *)
AtShell(v) ==
  IF pc = "execute" THEN v[1] = Blank /\ Len(v[2]) = 1 /\ v[2][1] = line
  ELSE v = <<line, << >> >>

(* The user sees what the shell will have got to with the input it is still to
   edit. *)
Follows ==
  \E n, h :
    /\ n \in Nat /\ n = Len(Pending) /\ Passes(h, Pending, n)
    /\ AtShell(h[0]) /\ h[n] = <<typed, submitted>>

(* Nobody but the line's reader is in the middle of a line, and the screen's
   line is forgotten as soon as a part of it is taken. *)
InStep ==
  /\ pc \in {"cat", "kernel", "other", "called"} => line = << >>
  /\ mixed => typed = Blank /\ submitted = << >>

ShellTypes ==
  /\ pc \in ShellLocations \cup {"kernel", "other", "called"}
  /\ line \in Seq(Values \ {Enter, Backspace}) /\ Len(line) < LineSize
  /\ typed \in Lines /\ submitted \in Seq(Lines) /\ mixed \in BOOLEAN

(* What a push and a read do to the queue. *)
LEMMA PushQueue ==
  ASSUME Inv, NEW c \in Values, Push(c)
  PROVE  Queue' = Append(Queue, c) /\ taken' = taken /\ count' = count + 1
BY PushAccepts DEF Fifo!Accept, Queue, Push

LEMMA ReadQueue ==
  ASSUME Inv, NEW n \in Requests, Read(n)
  PROVE  \E k \in Nat :
           /\ k = (IF n < count THEN n ELSE count) /\ k <= count
           /\ taken' = SubSeq(Queue, 1, k) /\ Queue' = SubSeq(Queue, k + 1, count)
           /\ count' = count - k
<1>1. count \in Nat /\ n \in Nat /\ Len(Queue) = count
  BY QueueType, RequestsAssumption, CapacityAssumption DEF Inv, TypeOK
<1> DEFINE k == IF n < count THEN n ELSE count
<1>2. taken' = SubSeq(Queue, 1, k) /\ Queue' = SubSeq(Queue, k + 1, count)
  BY <1>1, ReadReads DEF Fifo!Read, Queue
<1>3. k \in Nat /\ k <= count /\ count' = count - k
  BY <1>1 DEF Read
<1> HIDE DEF k
<1>4. k = IF n < count THEN n ELSE count
  BY DEF k
<1> QED BY <1>2, <1>3, <1>4

LEMMA InputTypedStep == Inv /\ InputTyped /\ [ProgramsNext]_allVars => InputTyped'
<1> SUFFICES ASSUME Inv, InputTyped, [ProgramsNext]_allVars PROVE InputTyped'
  OBVIOUS
<1>0. /\ count \in Nat /\ Len(Queue) = count /\ Queue \in Seq(Values \cup {Zero})
      /\ taken \in Seq(Values \cup {Zero})
  BY QueueType, CapacityAssumption DEF Inv, TypeOK
<1>1. ASSUME NEW n \in Requests, Read(n), pc' = "edit" => n = 1 /\ count # 0
      PROVE  InputTyped'
  <2>1. PICK k \in Nat :
           /\ k = (IF n < count THEN n ELSE count) /\ k <= count
           /\ taken' = SubSeq(Queue, 1, k) /\ Queue' = SubSeq(Queue, k + 1, count)
           /\ count' = count - k
    BY <1>1, ReadQueue
  <2>2. \A i \in 1 .. count : Queue[i] \in Values
    BY DEF InputTyped
  <2>3. /\ Len(taken') = IF 1 <= k THEN k - 1 + 1 ELSE 0
        /\ \A i \in 1 .. k - 1 + 1 : taken'[i] = Queue[1 + i - 1]
    <3>1. 1 \in Int /\ k \in Int /\ \A i \in 1 .. k : Queue[i] \in Values
      BY <1>0, <2>1, <2>2
    <3> QED BY <2>1, <3>1, SubSeqProperties
  <2>4. \A i \in 1 .. count - (k + 1) + 1 : Queue'[i] = Queue[k + 1 + i - 1]
    <3>1. k + 1 \in Int /\ count \in Int /\ \A i \in k + 1 .. count : Queue[i] \in Values
      BY <1>0, <2>1, <2>2
    <3> QED BY <2>1, <3>1, SubSeqProperties
  <2>5. \A i \in 1 .. Len(taken') : taken'[i] \in Values
    <3> TAKE i \in 1 .. Len(taken')
    <3>1. i \in 1 .. k /\ 1 + i - 1 = i /\ i \in 1 .. count
      BY <1>0, <2>1, <2>3
    <3> QED BY <2>2, <2>3, <3>1
  <2>6. \A i \in 1 .. count' : Queue'[i] \in Values
    <3> TAKE i \in 1 .. count'
    <3>1. i \in 1 .. count - (k + 1) + 1 /\ k + 1 + i - 1 \in 1 .. count
      BY <1>0, <2>1
    <3> QED BY <2>2, <2>4, <3>1
  <2>7. pc' = "edit" => Len(taken') = 1
    BY <1>0, <1>1, <2>1, <2>3
  <2> QED BY <2>5, <2>6, <2>7 DEF InputTyped
<1>2. ASSUME UNCHANGED ringVars, pc' # "edit" \/ pc' = pc PROVE InputTyped'
  BY <1>2 DEF InputTyped, ringVars, Queue, Slot
<1>3. ASSUME NEW c \in Values, KeyPress(c) PROVE InputTyped'
  <2>1. Queue' = Append(Queue, c) /\ taken' = taken /\ count' = count + 1 /\ pc' = pc
    BY <1>3, PushQueue DEF KeyPress
  <2>2. /\ Append(Queue, c)[Len(Queue) + 1] = c
        /\ \A i \in 1 .. Len(Queue) : Append(Queue, c)[i] = Queue[i]
    BY <1>0, AppendProperties
  <2>3. \A i \in 1 .. count' : Queue'[i] \in Values
    BY <1>0, <2>1, <2>2 DEF InputTyped
  <2> QED BY <2>1, <2>3 DEF InputTyped
<1>4. CASE ShellRead
  BY <1>1, <1>4, LineAssumption DEF ShellRead
<1>5. CASE ShellStart \/ ShellYield \/ ShellEdit \/ ShellExecute
  BY <1>2, <1>5 DEF ShellStart, ShellYield, ShellEdit, ShellExecute, Executed
<1>10. CASE ShellCat
  BY <1>1, <1>10, CatChunk DEF ShellCat
<1>6. CASE ProgramStart \/ ProgramExit \/ Resume
  BY <1>2, <1>6 DEF ProgramStart, ProgramExit, Resume
<1>7. CASE \E a \in Addresses, n \in Lengths : ReadConsole(a, n)
  <2>1. PICK a \in Addresses, n \in Lengths : ReadConsole(a, n)
    BY <1>7
  <2>2. Least(n, ReadChunk) \in Requests
    BY UserMemoryAssumption, ProgramsAssumption, LineAssumption DEF Least, Words
  <2>3. Read(Least(n, ReadChunk)) /\ pc' = "called"
    BY <2>1 DEF ReadConsole, Calls
  <2> QED BY <1>1, <2>2, <2>3
<1>8. CASE QuietCalls
  <2>1. UNCHANGED ringVars /\ pc' = "called"
    BY <1>8, QuietCallsAreQuiet, QuietCallsCall
  <2> QED BY <1>2, <2>1
<1>9. CASE UNCHANGED allVars
  BY <1>2, <1>9 DEF allVars, shellVars
<1> QED BY <1>3, <1>4, <1>5, <1>6, <1>7, <1>8, <1>9, <1>10
        DEF ProgramsNext, ShellNext, ShellStep, ProgramCall

LEMMA PendingType ==
  ASSUME Inv
  PROVE  Pending \in Seq(Values \cup {Zero}) /\ Len(Pending) \in Nat
<1>1. Queue \in Seq(Values \cup {Zero}) /\ taken \in Seq(Values \cup {Zero})
  BY QueueType DEF Inv, TypeOK
<1>2. taken \o Queue \in Seq(Values \cup {Zero})
  BY <1>1, ConcatProperties
<1>3. Pending \in Seq(Values \cup {Zero})
  BY <1>1, <1>2 DEF Pending
<1> QED BY <1>3, LenProperties

(* A step that the pending input and the screen take no notice of. *)
LEMMA FollowsStays ==
  ASSUME Follows, Pending' = Pending, typed' = typed, submitted' = submitted,
         \A v : AtShell(v) => AtShell(v)'
  PROVE  Follows'
<1>1. PICK n, h :
        /\ n \in Nat /\ n = Len(Pending) /\ Passes(h, Pending, n)
        /\ AtShell(h[0]) /\ h[n] = <<typed, submitted>>
  BY DEF Follows
<1>2. n = Len(Pending') /\ Passes(h, Pending', n) /\ h[n] = <<typed', submitted'>>
  BY <1>1
<1> DEFINE v == h[0]
<1>3. AtShell(v)'
  BY <1>1
<1> QED BY <1>2, <1>3 DEF Follows

LEMMA ClearPasses ==
  ASSUME NEW p
  PROVE  \E h : Passes(h, p, 0) /\ h[0] = <<Blank, << >> >>
<1> DEFINE h == [i \in 0 .. 0 |-> <<Blank, << >> >>]
<1>1. <<Blank, << >> >> \in Views
  BY BlankType, EmptySeq DEF Views
<1>2. h \in [0 .. 0 -> Views] /\ h[0] = <<Blank, << >> >>
  BY <1>1
<1>3. \A i, j \in 0 .. 0 : Starts(h[i][2], h[j][2])
  <2>1. Starts(<< >>, << >>)
    BY EmptySeq, StartsFacts
  <2>2. \A i \in 0 .. 0 : i = 0
    OBVIOUS
  <2> QED BY <1>2, <2>1, <2>2
<1> HIDE DEF h
<1>4. Passes(h, p, 0)
  BY <1>2, <1>3 DEF Passes
<1> QED BY <1>2, <1>4

(* Nothing is pending, and neither the shell nor the screen has anything of a
   line. *)
LEMMA ClearFollows ==
  ASSUME Len(Pending') = 0, typed' = Blank, submitted' = << >>, line' = << >>, pc' # "execute"
  PROVE  Follows'
<1>1. PICK h : Passes(h, Pending', 0) /\ h[0] = <<Blank, << >> >>
  BY ClearPasses
<1>2. h[0] = <<typed', submitted'>> /\ h[0] = <<line', << >> >>
  BY <1>1 DEF Blank
<1>3. AtShell(h[0])'
  BY <1>2 DEF AtShell
<1>4. 0 \in Nat /\ 0 = Len(Pending')
  OBVIOUS
<1> QED BY <1>1, <1>2, <1>3, <1>4, Zenon DEF Follows

(* A read takes what it takes from the front of the pending input. *)
LEMMA ReadPending ==
  ASSUME Inv, pc # "edit", NEW n \in Requests, Read(n),
         \/ count = 0 /\ pc' # "edit"
         \/ n = 0 /\ pc' # "edit"
         \/ n = 1 /\ count # 0 /\ pc' = "edit"
  PROVE  Pending' = Pending
<1> DEFINE V == Values \cup {Zero}
<1>1. Queue \in Seq(V) /\ Len(Queue) = count /\ count \in Nat
  BY QueueType, CapacityAssumption DEF Inv, TypeOK
<1>2. PICK k \in Nat :
         /\ k = (IF n < count THEN n ELSE count) /\ k <= count
         /\ taken' = SubSeq(Queue, 1, k) /\ Queue' = SubSeq(Queue, k + 1, count)
         /\ count' = count - k
  BY ReadQueue
<1>3. n \in Nat
  BY RequestsAssumption
<1> HIDE DEF V
<1>4. CASE pc' # "edit"
  <2>1. k = 0
    BY <1>1, <1>2, <1>3, <1>4
  <2>2. Queue' = Queue
    BY <1>1, <1>2, <2>1, SubSeqFull
  <2> QED BY <1>4, <2>2 DEF Pending
<1>5. CASE pc' = "edit"
  <2>1. k = 1 /\ count \in Nat \ {0}
    BY <1>1, <1>2, <1>3, <1>5
  <2>2. 1 \in 1 .. Len(Queue) + 1 /\ k \in 1 - 1 .. Len(Queue) /\ count \in k .. Len(Queue)
    BY <1>1, <2>1
  <2>3. SubSeq(Queue, 1, k) \o SubSeq(Queue, k + 1, count) = SubSeq(Queue, 1, count)
    BY <1>1, <2>2, ConcatAdjacentSubSeq
  <2>4. SubSeq(Queue, 1, count) = Queue
    BY <1>1, SubSeqFull
  <2> QED BY <1>2, <1>5, <2>3, <2>4 DEF Pending
<1> QED BY <1>4, <1>5

(* What a reader that keeps no line has taken: nothing, or a part that puts the
   rest out of step, or all there was. *)
LEMMA TakenFollows ==
  ASSUME Inv, InStep, ~ mixed => Follows, NEW n \in Requests, Read(n), TakenBy(Least(n, count)),
         line = << >>, line' = line, pc \notin {"edit", "execute"}, pc' \notin {"edit", "execute"},
         ~ mixed'
  PROVE  Follows'
<1>1. /\ count \in Nat /\ n \in Nat /\ Len(Queue) = count /\ Queue \in Seq(Values \cup {Zero})
  BY QueueType, RequestsAssumption, CapacityAssumption DEF Inv, TypeOK
<1> DEFINE got == Least(n, count)
<1>2. /\ got \in Nat /\ got = (IF n < count THEN n ELSE count)
  BY <1>1 DEF Least
<1>3. /\ ~ ((mixed \/ got # 0) /\ got # count)
      /\ IF got = 0 THEN typed' = typed /\ submitted' = submitted
         ELSE typed' = Blank /\ submitted' = << >>
  BY DEF TakenBy
<1> HIDE DEF got
<1>4. CASE got = 0 /\ ~ mixed
  <2>1. Pending' = Pending
    BY <1>1, <1>2, <1>4, ReadPending
  <2>2. \A v : AtShell(v) => AtShell(v)'
    BY DEF AtShell
  <2> QED BY <1>3, <1>4, <2>1, <2>2, FollowsStays
<1>5. CASE got = count /\ (mixed \/ got # 0)
  <2>1. Queue' = SubSeq(Queue, count + 1, count)
    BY <1>1, <1>2, <1>5, ReadQueue
  <2>2. Queue' = << >>
    BY <1>1, <2>1, SubSeqEmpty
  <2>3. Pending' = << >> /\ Len(Pending') = 0
    BY <2>2, EmptySeq DEF Pending
  <2>4. typed' = Blank /\ submitted' = << >>
    BY <1>3, <1>5 DEF InStep
  <2> QED BY <2>3, <2>4, ClearFollows
<1> QED BY <1>3, <1>4, <1>5

(* A key goes to the end of the pending input and is echoed. *)
LEMMA KeyFollows ==
  ASSUME Inv, NEW c \in Values, KeyPress(c), ~ mixed, Follows
  PROVE  Follows'
<1> DEFINE V == Values \cup {Zero}
<1>1. PICK n, h :
        /\ n \in Nat /\ n = Len(Pending) /\ Passes(h, Pending, n)
        /\ AtShell(h[0]) /\ h[n] = <<typed, submitted>>
  BY DEF Follows
<1>2. Queue' = Append(Queue, c) /\ taken' = taken /\ pc' = pc /\ line' = line
  BY PushQueue DEF KeyPress
<1>3. Queue \in Seq(V) /\ taken \in Seq(V) /\ c \in V
  BY QueueType DEF Inv, TypeOK
<1>4. Pending \in Seq(V)
  BY PendingType
<1> HIDE DEF V
<1>5. Pending' = Append(Pending, c)
  <2>1. taken \o Append(Queue, c) = Append(taken \o Queue, c)
    <3>1. Append(Queue, c) = Queue \o <<c>> /\ <<c>> \in Seq(V)
      BY <1>3, AppendIsConcat
    <3>2. taken \o Queue \in Seq(V)
      BY <1>3, ConcatProperties
    <3>3. Append(taken \o Queue, c) = (taken \o Queue) \o <<c>>
      BY <1>3, <3>2, AppendIsConcat
    <3>4. (taken \o Queue) \o <<c>> = taken \o (Queue \o <<c>>)
      BY <1>3, <3>1, ConcatAssociative
    <3> QED BY <3>1, <3>3, <3>4
  <2> QED BY <1>2, <2>1 DEF Pending
<1>6. /\ Len(Pending') = n + 1 /\ Pending'[n + 1] = c
      /\ \A i \in 1 .. n : Pending'[i] = Pending[i]
  BY <1>1, <1>3, <1>4, <1>5, AppendProperties
<1>7. PICK g : Passes(g, Pending', n + 1) /\ g[0] = h[0] /\ g[n + 1] = After(h[n], c)
  <2>1. PICK p, q : p = Pending /\ q = Pending'
    OBVIOUS
  <2>2. n \in Nat /\ Passes(h, p, n) /\ q[n + 1] = c /\ \A i \in 1 .. n : q[i] = p[i]
    BY <1>1, <1>6, <2>1
  <2>3. \E g : Passes(g, q, n + 1) /\ g[0] = h[0] /\ g[n + 1] = After(h[n], c)
    BY <2>2, PassesGrows
  <2> QED BY <2>1, <2>3
<1>8. After(h[n], c) = <<typed', submitted'>>
  <2>1. CASE c = Enter
    BY <1>1, <2>1 DEF KeyPress, Echo, After
  <2>2. CASE c # Enter
    <3>1. typed' = Echoed(c) /\ submitted' = submitted
      BY <2>2 DEF KeyPress, Echo
    <3>2. Echoed(c) = EchoedOn(typed, c)
      BY DEF Echoed, EchoedOn
    <3> QED BY <1>1, <2>2, <3>1, <3>2 DEF After
  <2> QED BY <2>1, <2>2
<1>9. AtShell(g[0])'
  <2>1. \A v : AtShell(v) => AtShell(v)'
    BY <1>2 DEF AtShell
  <2> DEFINE v == h[0]
  <2>2. AtShell(v)'
    BY <1>1, <2>1
  <2> QED BY <1>7, <2>2
<1>10. n + 1 \in Nat
  BY <1>1
<1> QED BY <1>6, <1>7, <1>8, <1>9, <1>10 DEF Follows

(* The shell edits its line as the screen's was edited. *)
LEMMA LineEdit ==
  ASSUME NEW c \in Values, c # Enter
  PROVE  EchoedOn(line, c) = IF c = Backspace THEN Erased(line) ELSE Kept(c)
BY DEF EchoedOn, Kept

LEMMA EditFollows ==
  ASSUME Inv, InputTyped, ShellEdit, Follows
  PROVE  Follows'
<1> DEFINE V == Values \cup {Zero}
<1>1. PICK n, h :
        /\ n \in Nat /\ n = Len(Pending) /\ Passes(h, Pending, n)
        /\ AtShell(h[0]) /\ h[n] = <<typed, submitted>>
  BY DEF Follows
<1>2. Queue \in Seq(V) /\ taken \in Seq(V) /\ Len(Queue) = count /\ count \in Nat
  BY QueueType, CapacityAssumption DEF Inv, TypeOK
<1>3. Len(taken) = 1 /\ pc = "edit"
  BY DEF InputTyped, ShellEdit
<1> PICK c \in Values : c = taken[1]
  BY <1>3 DEF InputTyped
<1> HIDE DEF V
<1>4. /\ Len(Pending) = 1 + count
      /\ \A i \in 1 .. 1 + count : Pending[i] = IF i <= 1 THEN taken[i] ELSE Queue[i - 1]
  <2>1. /\ Len(taken \o Queue) = Len(taken) + Len(Queue)
        /\ \A i \in 1 .. Len(taken) + Len(Queue) :
             (taken \o Queue)[i] = IF i <= Len(taken) THEN taken[i] ELSE Queue[i - Len(taken)]
    BY <1>2, ConcatProperties
  <2>2. Pending = taken \o Queue
    BY <1>3 DEF Pending
  <2> QED BY <1>2, <1>3, <2>1, <2>2
<1>5. Queue' = Queue /\ pc' # "edit" /\ typed' = typed /\ submitted' = submitted
  BY DEF ShellEdit, ringVars, screenVars, Queue, Slot
<1>6. Pending' = Queue
  BY <1>5 DEF Pending
<1>7. n = count + 1 /\ Pending[1] = c /\ \A i \in 1 .. count : Queue[i] = Pending[i + 1]
  BY <1>1, <1>2, <1>4
<1>8. PICK g : Passes(g, Queue, count) /\ g[0] = After(h[0], c) /\ g[count] = h[count + 1]
  <2> PICK m \in Nat : m = count
    BY <1>2
  <2>1. PICK p, q : p = Pending /\ q = Queue
    OBVIOUS
  <2>2. Passes(h, p, m + 1) /\ p[1] = c /\ \A i \in 1 .. m : q[i] = p[i + 1]
    BY <1>1, <1>7, <2>1
  <2>3. Passes(Shift(h, m), q, m) /\ Shift(h, m)[0] = After(h[0], p[1])
        /\ Shift(h, m)[m] = h[m + 1]
    BY <2>2, PassesShifts
  <2> QED BY <2>1, <2>2, <2>3
<1>9. h[0] = <<line, << >> >>
  BY <1>1, <1>3 DEF AtShell
<1>10. AtShell(After(h[0], c))'
  <2>1. CASE c = Enter
    <3>1. pc' = "execute" /\ line' = line
      BY <2>1, LineAssumption DEF ShellEdit
    <3>2. PICK d : d = Append(<< >>, line)
      OBVIOUS
    <3>3. Len(d) = 1 /\ d[1] = line
      BY <3>2
    <3>4. PICK w : w = After(h[0], c)
      OBVIOUS
    <3>5. w = <<Blank, d>>
      BY <1>9, <2>1, <3>2, <3>4 DEF After
    <3>6. w[1] = Blank /\ w[2] = d
      BY <3>5
    <3>7. AtShell(w)'
      BY <3>1, <3>3, <3>6 DEF AtShell
    <3> QED BY <3>4, <3>7
  <2>2. CASE c # Enter
    <3>1. pc' = "read" /\ line' = IF c = Backspace THEN Erased(line) ELSE Kept(c)
      BY <2>2, LineAssumption DEF ShellEdit
    <3>2. line' = EchoedOn(line, c)
      BY <2>2, <3>1, LineEdit
    <3>3. PICK w : w = After(h[0], c)
      OBVIOUS
    <3>4. w = <<line', << >> >>
      BY <1>9, <2>2, <3>2, <3>3 DEF After
    <3>5. AtShell(w)'
      BY <3>1, <3>4 DEF AtShell
    <3> QED BY <3>3, <3>5
  <2> QED BY <2>1, <2>2
<1>11. PICK m \in Nat : m = count
  BY <1>2
<1>12. m = Len(Pending') /\ Passes(g, Pending', m) /\ g[m] = <<typed', submitted'>>
  BY <1>1, <1>2, <1>5, <1>6, <1>7, <1>8, <1>11
<1>13. AtShell(g[0])'
  BY <1>8, <1>10
<1> QED BY <1>12, <1>13 DEF Follows

LEMMA SingleTail ==
  ASSUME NEW S, NEW s \in Seq(S), Len(s) = 1
  PROVE  s # << >> /\ Len(Tail(s)) = 0 /\ Tail(s) \in Seq(S)
<1>1. s # << >>
  BY EmptySeq
<1> QED BY <1>1, HeadTailProperties

LEMMA ExecuteFollows ==
  ASSUME ShellExecute, ~ mixed, Follows
  PROVE  Follows'
<1>1. PICK n, h :
        /\ n \in Nat /\ n = Len(Pending) /\ Passes(h, Pending, n)
        /\ AtShell(h[0]) /\ h[n] = <<typed, submitted>>
  BY DEF Follows
<1>2. /\ pc = "execute" /\ pc' \in {"read", "kernel", "cat"} /\ line' = << >>
      /\ submitted' = Tail(submitted) /\ typed' = typed /\ Queue' = Queue
  BY DEF ShellExecute, Executed, ringVars, Queue, Slot
<1>3. Pending' = Pending
  BY <1>2 DEF Pending
<1>4. h[0] \in Views /\ h[0][1] = Blank /\ h[0][2] \in Seq(Lines) /\ Len(h[0][2]) = 1
  BY <1>1, <1>2 DEF Passes, Views, AtShell
<1>5. h[0][2] # << >> /\ Len(Tail(h[0][2])) = 0 /\ Tail(h[0][2]) \in Seq(Lines)
  <2>1. PICK s \in Seq(Lines) : s = h[0][2] /\ Len(s) = 1
    BY <1>4, Zenon
  <2>2. s # << >> /\ Len(Tail(s)) = 0 /\ Tail(s) \in Seq(Lines)
    BY <2>1, SingleTail, Zenon
  <2> QED BY <2>1, <2>2, Zenon
<1>6. PICK g : Passes(g, Pending, n) /\ \A i \in 0 .. n : g[i] = <<h[i][1], Tail(h[i][2])>>
  <2>1. PICK p : p = Pending
    OBVIOUS
  <2>2. n \in Nat /\ Passes(h, p, n) /\ h[0][2] # << >>
    BY <1>1, <1>5, <2>1
  <2>3. Passes(Drop(h, n), p, n)
    BY <2>2, PassesDrops
  <2>4. \A i \in 0 .. n : Drop(h, n)[i] = <<h[i][1], Tail(h[i][2])>>
    BY DEF Drop
  <2> QED BY <2>1, <2>3, <2>4, Zenon
<1>7. g[0] = <<Blank, << >> >>
  <2>1. Tail(h[0][2]) = << >>
    BY <1>5, EmptySeq
  <2>2. 0 \in 0 .. n
    BY <1>1
  <2> QED BY <1>4, <1>6, <2>1, <2>2
<1>8. g[n] = <<typed', submitted'>>
  <2>1. n \in 0 .. n /\ h[n][1] = typed /\ h[n][2] = submitted
    BY <1>1
  <2> QED BY <1>2, <1>6, <2>1
<1>9. AtShell(g[0])'
  BY <1>2, <1>7 DEF AtShell, Blank
<1> QED BY <1>1, <1>3, <1>6, <1>8, <1>9 DEF Follows

(* When all the input is gone that was taken out of turn, the shell is in step
   again with its next line. *)
LEMMA ResyncFollows ==
  ASSUME Inv, InStep, ShellExecute, mixed, ~ mixed'
  PROVE  Follows'
<1>1. /\ count = 0 /\ pc' # "edit" /\ pc' # "execute" /\ line' = << >> /\ Queue' = Queue
      /\ typed' = typed /\ submitted' = << >>
  BY DEF ShellExecute, Executed, ringVars, Queue, Slot
<1>2. Len(Queue) = 0
  BY <1>1, QueueType
<1>3. Len(Pending') = 0
  BY <1>1, <1>2 DEF Pending
<1>4. typed' = Blank
  BY <1>1 DEF InStep
<1> QED BY <1>1, <1>3, <1>4, ClearFollows

LEMMA InStepStep == InStep /\ [ProgramsNext]_allVars => InStep'
<1> SUFFICES ASSUME InStep, [ProgramsNext]_allVars PROVE InStep'
  OBVIOUS
<1> USE DEF InStep
<1>1. ASSUME NEW got, TakenBy(got), line = << >>, line' = line PROVE InStep'
  BY <1>1 DEF TakenBy
<1>2. ASSUME NEW c \in Values, KeyPress(c) PROVE InStep'
  BY <1>2 DEF KeyPress, Echo
<1>3. CASE ShellStart \/ ShellRead \/ ShellYield
  BY <1>3 DEF ShellStart, ShellRead, ShellYield, screenVars
<1>4. CASE ShellEdit
  <2>1. pc' \in {"read", "execute"} /\ UNCHANGED screenVars
    BY <1>4 DEF ShellEdit
  <2> QED BY <2>1 DEF screenVars
<1>5. CASE ShellExecute
  BY <1>5 DEF ShellExecute, Executed
<1>6. CASE ShellCat
  BY <1>1, <1>6 DEF ShellCat
<1>7. CASE ProgramStart \/ ProgramExit \/ Resume
  BY <1>7 DEF ProgramStart, ProgramExit, Resume, screenVars
<1>8. CASE pc = "other" /\ \E a \in Addresses, n \in Lengths : ReadConsole(a, n)
  BY <1>1, <1>8 DEF ReadConsole, Calls
<1>9. CASE pc = "other" /\ QuietCalls
  BY <1>9, QuietCallsCall DEF screenVars
<1>10. CASE UNCHANGED allVars
  BY <1>10 DEF allVars, shellVars, screenVars
<1> QED BY <1>2, <1>3, <1>4, <1>5, <1>6, <1>7, <1>8, <1>9, <1>10
        DEF ProgramsNext, ShellNext, ShellStep, ProgramCall

LEMMA FollowsStep ==
  Inv /\ InputTyped /\ InStep /\ (~ mixed => Follows) /\ [ProgramsNext]_allVars
    => (~ mixed' => Follows')
<1> SUFFICES ASSUME Inv, InputTyped, InStep, ~ mixed => Follows, [ProgramsNext]_allVars, ~ mixed'
             PROVE  Follows'
  OBVIOUS
<1>1. ASSUME UNCHANGED <<ringVars, line, screenVars>>,
             {pc, pc'} \cap {"edit", "execute"} = {} \/ pc' = pc
      PROVE  Follows'
  <2>1. /\ Queue' = Queue /\ taken' = taken /\ line' = line
        /\ typed' = typed /\ submitted' = submitted /\ mixed' = mixed
    BY <1>1 DEF ringVars, screenVars, Queue, Slot
  <2>2. Pending' = Pending
    BY <1>1, <2>1 DEF Pending
  <2>3. \A v : AtShell(v) => AtShell(v)'
    BY <1>1, <2>1 DEF AtShell
  <2> QED BY <2>1, <2>2, <2>3, FollowsStays
<1>2. ASSUME NEW c \in Values, KeyPress(c) PROVE Follows'
  BY <1>2, KeyFollows DEF KeyPress
<1>3. CASE ShellRead
  <2>1. /\ pc = "read" /\ Read(1) /\ pc' = IF count = 0 THEN "yield" ELSE "edit"
        /\ line' = line /\ typed' = typed /\ submitted' = submitted /\ mixed' = mixed
    BY <1>3 DEF ShellRead, screenVars
  <2>2. Pending' = Pending
    BY <2>1, ReadPending, LineAssumption
  <2>3. \A v : AtShell(v) => AtShell(v)'
    BY <2>1 DEF AtShell
  <2> QED BY <2>1, <2>2, <2>3, FollowsStays
<1>4. CASE ShellStart \/ ShellYield
  BY <1>1, <1>4 DEF ShellStart, ShellYield
<1>5. CASE ShellEdit
  BY <1>5, EditFollows DEF ShellEdit, screenVars
<1>6. CASE ShellExecute
  BY <1>6, ExecuteFollows, ResyncFollows
<1>11. CASE ShellCat
  BY <1>11, TakenFollows, CatChunk DEF ShellCat, InStep
<1>7. CASE ProgramStart \/ ProgramExit \/ Resume
  BY <1>1, <1>7 DEF ProgramStart, ProgramExit, Resume
<1>8. CASE pc = "other" /\ \E a \in Addresses, n \in Lengths : ReadConsole(a, n)
  <2>1. PICK a \in Addresses, n \in Lengths : ReadConsole(a, n)
    BY <1>8
  <2>2. Least(n, ReadChunk) \in Requests
    BY UserMemoryAssumption, ProgramsAssumption, LineAssumption DEF Least, Words
  <2> QED BY <1>8, <2>1, <2>2, TakenFollows DEF ReadConsole, Calls, InStep
<1>9. CASE pc = "other" /\ QuietCalls
  BY <1>1, <1>9, QuietCallsCall
<1>10. CASE UNCHANGED allVars
  BY <1>1, <1>10 DEF allVars, shellVars
<1> QED BY <1>2, <1>3, <1>4, <1>5, <1>6, <1>7, <1>8, <1>9, <1>10, <1>11
        DEF ProgramsNext, ShellNext, ShellStep, ProgramCall

LEMMA EchoInit == ProgramsInit => InputTyped /\ InStep /\ Follows
<1> SUFFICES ASSUME ProgramsInit PROVE InputTyped /\ InStep /\ Follows
  OBVIOUS
<1> USE DEF ProgramsInit, ShellInit, Init
<1>1. Len(taken) = 0 /\ Queue = << >> /\ Len(Queue) = 0 /\ pc = "kernel" /\ count = 0
  <2>1. Inv
    BY InitInv
  <2>2. Len(Queue) = 0 /\ Queue \in Seq(Values \cup {Zero})
    BY <2>1, QueueType
  <2> QED BY <2>2, EmptySeq
<1>2. InputTyped
  BY <1>1 DEF InputTyped
<1>3. PICK h : Passes(h, Pending, 0) /\ h[0] = <<Blank, << >> >>
  BY ClearPasses
<1>4. AtShell(h[0]) /\ h[0] = <<typed, submitted>>
  BY <1>1, <1>3 DEF AtShell, Blank
<1>5. Len(Pending) = 0
  BY <1>1 DEF Pending
<1>6. Follows
  <2>1. 0 \in Nat /\ 0 = Len(Pending)
    BY <1>5
  <2> QED BY <1>3, <1>4, <2>1, Zenon DEF Follows
<1> QED BY <1>2, <1>6 DEF InStep

LEMMA FollowsMeans ==
  ASSUME Inv, ~ mixed => Follows
  PROVE  CommandIsEchoedLine
<1> SUFFICES ASSUME pc = "execute", ~ mixed
             PROVE  submitted # << >> /\ line = Head(submitted)
  BY DEF CommandIsEchoedLine
<1>1. PICK n, h :
        /\ n \in Nat /\ n = Len(Pending) /\ Passes(h, Pending, n)
        /\ AtShell(h[0]) /\ h[n] = <<typed, submitted>>
  BY DEF Follows
<1>2. 0 \in 0 .. n /\ n \in 0 .. n /\ 0 <= n
  BY <1>1
<1>3. h[0][2] \in Seq(Lines) /\ h[n][2] \in Seq(Lines) /\ Starts(h[0][2], h[n][2])
  BY <1>1, <1>2 DEF Passes, Views
<1>4. Len(h[0][2]) = 1 /\ h[0][2][1] = line
  BY <1>1 DEF AtShell
<1>5. h[0][2] # << >>
  BY <1>3, <1>4, EmptySeq
<1>6. h[n][2] # << >> /\ Head(h[n][2]) = Head(h[0][2])
  BY <1>3, <1>5, StartsTail
<1>7. Head(h[0][2]) = h[0][2][1] /\ h[n][2] = submitted
  BY <1>1
<1> QED BY <1>4, <1>6, <1>7

(* Whatever the size of the ring and of the line, however far ahead of the
   shell its lines were typed, and even for a shell that is not started yet:
   the shell runs the lines the user has seen echoed, in their order. *)
THEOREM EchoedLinesAreRun == ProgramsSpec => []CommandIsEchoedLine
<1>1. ProgramsSpec => []Inv
  BY ProgramsUseRing, RingInvariant
<1>2. ProgramsInit => InputTyped /\ InStep /\ (~ mixed => Follows)
  BY EchoInit
<1>3. Inv /\ InputTyped /\ InStep /\ (~ mixed => Follows) /\ [ProgramsNext]_allVars
        => InputTyped' /\ InStep' /\ (~ mixed => Follows)'
  BY InputTypedStep, InStepStep, FollowsStep
<1>4. Inv /\ (~ mixed => Follows) => CommandIsEchoedLine
  BY FollowsMeans
<1> QED BY <1>1, <1>2, <1>3, <1>4, PTL DEF ProgramsSpec
-----------------------------------------------------------------------------
(* Going round once more makes no difference to where one ends. *)
LEMMA ModRound ==
  ASSUME NEW m \in Nat \ {0}, NEW y \in Int, NEW q \in Int
  PROVE  (y + (m * q)) % m = y % m
<1> DEFINE z == y + (m * q)
           r1 == y % m
           q1 == y \div m
           r2 == z % m
           q2 == z \div m
<1>1. q1 \in Int /\ r1 \in 0 .. m - 1 /\ y = (m * q1) + r1
  OBVIOUS
<1>2. z \in Int
  OBVIOUS
<1>3. z = y + (m * q)
  OBVIOUS
<1> HIDE DEF z
<1>4. q2 \in Int /\ r2 \in 0 .. m - 1 /\ z = (m * q2) + r2
  BY <1>2
<1> HIDE DEF r1, q1, r2, q2
<1>5. (m * (q1 + q - q2)) = r2 - r1
  BY <1>1, <1>3, <1>4
<1> DEFINE d == q1 + q - q2
<1>6. d \in Int /\ m * d = r2 - r1
  BY <1>1, <1>4, <1>5
<1> HIDE DEF d
<1>7. ~ (d >= 1)
  <2> SUFFICES ASSUME d >= 1 PROVE FALSE
    OBVIOUS
  <2>1. PICK k \in Nat : d = k + 1
    <3>1. d - 1 \in Nat /\ d = (d - 1) + 1
      BY <1>6
    <3> QED BY <3>1
  <2>2. m * d = (m * k) + m /\ m * k >= 0
    BY <2>1
  <2> QED BY <1>1, <1>4, <1>6, <2>2
<1>8. ~ (d <= -1)
  <2> SUFFICES ASSUME d <= -1 PROVE FALSE
    OBVIOUS
  <2>1. PICK k \in Nat : d = -1 - k
    <3>1. -1 - d \in Nat /\ d = -1 - (-1 - d)
      BY <1>6
    <3> QED BY <3>1
  <2>2. m * d = -(m * k) - m /\ m * k >= 0
    BY <2>1
  <2> QED BY <1>1, <1>4, <1>6, <2>2
<1>9. d = 0
  BY <1>6, <1>7, <1>8
<1>10. r1 = r2
  BY <1>1, <1>4, <1>6, <1>9
<1> QED BY <1>10 DEF r1, r2, z

LEMMA ModMove ==
  ASSUME NEW m \in Nat \ {0}, NEW x \in Int, NEW i \in Int
  PROVE  ((x % m) + i) % m = (x + i) % m
<1> DEFINE r == x % m
           q == x \div m
<1>1. q \in Int /\ r \in 0 .. m - 1 /\ x = (m * q) + r
  OBVIOUS
<1> HIDE DEF r, q
<1>2. r + i \in Int /\ x + i = (r + i) + (m * q)
  BY <1>1
<1>3. ((r + i) + (m * q)) % m = (r + i) % m
  BY <1>1, <1>2, ModRound
<1>4. (r + i) % m = (x + i) % m
  BY <1>2, <1>3
<1> QED BY <1>4 DEF r

(* As long as it is no longer than the address space, a range has as many
   bytes as its length says, also when it wraps round. *)
LEMMA BytesCount ==
  ASSUME NEW a \in Words, NEW n \in 0 .. Space
  PROVE  IsFiniteSet(Bytes(a, n)) /\ Cardinality(Bytes(a, n)) = n
<1> DEFINE I == 0 .. n - 1
           f == [i \in I |-> (a + i) % Space]
<1>1. Space \in Nat \ {0} /\ a \in 0 .. Space - 1 /\ n \in Nat /\ n <= Space
  BY UserMemoryAssumption DEF Words
<1>2. \A i \in I : (a + i) % Space = IF a + i < Space THEN a + i ELSE a + i - Space
  <2> SUFFICES ASSUME NEW i \in I
               PROVE  (a + i) % Space = IF a + i < Space THEN a + i ELSE a + i - Space
    OBVIOUS
  <2>1. PICK x \in 0 .. 2 * Space - 1 : x = a + i
    <3>1. a + i \in 0 .. 2 * Space - 1
      BY <1>1
    <3> QED BY <3>1
  <2>2. x % Space = IF x < Space THEN x ELSE x - Space
    BY <1>1, ModOnce
  <2> QED BY <1>1, <2>1, <2>2
<1>3. \A i, j \in I : (a + i) % Space = (a + j) % Space => i = j
  <2> SUFFICES ASSUME NEW i \in I, NEW j \in I, (a + i) % Space = (a + j) % Space PROVE i = j
    OBVIOUS
  <2>1. (IF a + i < Space THEN a + i ELSE a + i - Space)
          = (IF a + j < Space THEN a + j ELSE a + j - Space)
    BY <1>2
  <2>2. i \in 0 .. Space - 1 /\ j \in 0 .. Space - 1
    BY <1>1
  <2> QED BY <1>1, <2>1, <2>2
<1>4. IsFiniteSet(I) /\ Cardinality(I) = n
  <2>1. 0 \in Int /\ n - 1 \in Int
    BY <1>1
  <2> DEFINE b == n - 1
  <2>2. b \in Int
    BY <1>1
  <2>3. b = n - 1
    OBVIOUS
  <2> HIDE DEF b
  <2>4. IsFiniteSet(0 .. b) /\ Cardinality(0 .. b) = IF 0 > b THEN 0 ELSE b - 0 + 1
    BY <2>2, FS_Interval
  <2>5. Cardinality(0 .. b) = n
    BY <1>1, <2>3, <2>4
  <2> QED BY <2>3, <2>4, <2>5
<1>5. f \in Bijection(I, Bytes(a, n))
  <2>1. f \in [I -> Bytes(a, n)] /\ \A y \in Bytes(a, n) : \E i \in I : f[i] = y
    BY DEF Bytes
  <2>2. \A i, j \in I : f[i] = f[j] => i = j
    BY <1>3
  <2> HIDE DEF f, I
  <2> QED BY <2>1, <2>2 DEF Bijection, Injection, Surjection, IsInjective
<1> HIDE DEF f, I
<1>6. ExistsBijection(I, Bytes(a, n))
  BY <1>5 DEF ExistsBijection
<1> QED BY <1>4, <1>6, FS_Bijection

LEMMA ValidCount ==
  ASSUME NEW a \in Words, NEW n \in Nat, n = 0 \/ ValidRange(a, n)
  PROVE  IsFiniteSet(Bytes(a, n)) /\ Cardinality(Bytes(a, n)) = n
<1>1. n \in 0 .. Space
  BY UserMemoryAssumption DEF ValidRange, Words
<1> QED BY <1>1, BytesCount

(* The chunks of n are its parts: each place is in the chunk that its quotient
   names, and what is in a chunk is a place. *)
LEMMA ChunksCover ==
  ASSUME NEW c \in Nat \ {0}, NEW n \in Nat, NEW j \in 0 .. n - 1
  PROVE  \E k \in Chunks(n, c) : \E i \in 0 .. ChunkLength(n, c, k) - 1 :
           k \in Nat /\ j = (k * c) + i
<1> DEFINE q == j \div c
           r == j % c
           m == n - 1
           Q == m \div c
           R == m % c
<1>1. q \in Int /\ r \in 0 .. c - 1 /\ j = (c * q) + r
  OBVIOUS
<1>2. m \in Nat /\ j <= m /\ n # 0 /\ m = n - 1
  OBVIOUS
<1> HIDE DEF m
<1>3. Q \in Int /\ R \in 0 .. c - 1 /\ m = (c * Q) + R
  BY <1>2
<1>4. Chunks(n, c) = 0 .. Q
  BY <1>2 DEF Chunks, m
<1> HIDE DEF q, r, Q, R
<1>5. ~ (q <= -1)
  <2> SUFFICES ASSUME q <= -1 PROVE FALSE
    OBVIOUS
  <2>1. PICK k \in Nat : q = -1 - k
    <3>1. -1 - q \in Nat /\ q = -1 - (-1 - q)
      BY <1>1
    <3> QED BY <3>1
  <2>2. c * q = -(c * k) - c /\ c * k >= 0
    BY <2>1
  <2> QED BY <1>1, <2>2
<1>6. ~ (q >= Q + 1)
  <2> SUFFICES ASSUME q >= Q + 1 PROVE FALSE
    OBVIOUS
  <2>1. PICK k \in Nat : q = Q + 1 + k
    <3>1. q - Q - 1 \in Nat /\ q = Q + 1 + (q - Q - 1)
      BY <1>1, <1>3
    <3> QED BY <3>1
  <2>2. c * q = (c * Q) + c + (c * k) /\ c * k >= 0
    BY <1>3, <2>1
  <2>3. c * Q \in Int /\ c * k \in Int
    BY <1>3, <2>1
  <2> QED BY <1>1, <1>2, <1>3, <2>2, <2>3
<1>7. q \in Nat /\ q \in Chunks(n, c)
  BY <1>1, <1>3, <1>4, <1>5, <1>6
<1>8. r \in 0 .. ChunkLength(n, c, q) - 1
  <2>1. q * c = c * q /\ q * c \in Int
    BY <1>1
  <2> QED BY <1>1, <2>1 DEF ChunkLength
<1>9. j = (q * c) + r
  BY <1>1
<1> QED BY <1>7, <1>8, <1>9

LEMMA ChunksWithin ==
  ASSUME NEW c \in Nat \ {0}, NEW n \in Nat, NEW k \in Chunks(n, c)
  PROVE  /\ k \in Nat /\ k * c \in Nat /\ ChunkLength(n, c, k) \in Int
         /\ ChunkLength(n, c, k) <= n - (k * c)
<1>1. k \in Nat
  BY DEF Chunks
<1>2. k * c \in Nat
  BY <1>1
<1> QED BY <1>1, <1>2 DEF ChunkLength

(* All the chunks of a range are the range. *)
LEMMA WholeBytes ==
  ASSUME NEW a \in Words, NEW n \in Words, NEW c \in Nat \ {0}
  PROVE  UNION {Bytes(ChunkAt(a, c, k), ChunkLength(n, c, k)) : k \in Chunks(n, c)} = Bytes(a, n)
<1>1. Space \in Nat \ {0} /\ a \in Nat /\ n \in Nat
  BY UserMemoryAssumption DEF Words
<1>2. \A k \in Nat, i \in Int : (ChunkAt(a, c, k) + i) % Space = (a + ((k * c) + i)) % Space
  <2> SUFFICES ASSUME NEW k \in Nat, NEW i \in Int
               PROVE  (ChunkAt(a, c, k) + i) % Space = (a + ((k * c) + i)) % Space
    OBVIOUS
  <2>1. PICK x \in Int : x = a + (k * c)
    <3>1. a + (k * c) \in Int
      BY <1>1
    <3> QED BY <3>1
  <2>2. ((x % Space) + i) % Space = (x + i) % Space
    BY <1>1, ModMove
  <2>3. x + i = a + ((k * c) + i)
    <3>1. k * c \in Int
      OBVIOUS
    <3> QED BY <1>1, <2>1, <3>1
  <2> QED BY <2>1, <2>2, <2>3 DEF ChunkAt
<1>3. ASSUME NEW k \in Chunks(n, c), NEW i \in 0 .. ChunkLength(n, c, k) - 1
      PROVE  (ChunkAt(a, c, k) + i) % Space \in Bytes(a, n)
  <2>1. /\ k \in Nat /\ k * c \in Nat /\ ChunkLength(n, c, k) \in Int
        /\ ChunkLength(n, c, k) <= n - (k * c)
    BY <1>1, ChunksWithin
  <2>2. (k * c) + i \in 0 .. n - 1
    BY <1>1, <2>1
  <2>3. (ChunkAt(a, c, k) + i) % Space = (a + ((k * c) + i)) % Space
    BY <1>2, <2>1
  <2> QED BY <2>2, <2>3 DEF Bytes
<1>4. ASSUME NEW j \in 0 .. n - 1
      PROVE  \E k \in Chunks(n, c) :
               (a + j) % Space \in Bytes(ChunkAt(a, c, k), ChunkLength(n, c, k))
  <2> PICK k \in Chunks(n, c) : \E i \in 0 .. ChunkLength(n, c, k) - 1 :
                                    k \in Nat /\ j = (k * c) + i
    BY <1>1, ChunksCover
  <2>1. PICK i \in 0 .. ChunkLength(n, c, k) - 1 : k \in Nat /\ j = (k * c) + i
    OBVIOUS
  <2>2. (ChunkAt(a, c, k) + i) % Space = (a + j) % Space
    <3>1. (ChunkAt(a, c, k) + i) % Space = (a + ((k * c) + i)) % Space
      BY <1>2, <2>1
    <3> QED BY <2>1, <3>1, Zenon
  <2>3. (ChunkAt(a, c, k) + i) % Space \in Bytes(ChunkAt(a, c, k), ChunkLength(n, c, k))
    BY DEF Bytes
  <2> QED BY <2>2, <2>3
<1>5. \A k \in Chunks(n, c) : Bytes(ChunkAt(a, c, k), ChunkLength(n, c, k)) \subseteq Bytes(a, n)
  <2> SUFFICES ASSUME NEW k \in Chunks(n, c), NEW y \in Bytes(ChunkAt(a, c, k), ChunkLength(n, c, k))
               PROVE  y \in Bytes(a, n)
    OBVIOUS
  <2>1. PICK i \in 0 .. ChunkLength(n, c, k) - 1 : y = (ChunkAt(a, c, k) + i) % Space
    BY DEF Bytes
  <2> QED BY <1>3, <2>1
<1>6. \A y \in Bytes(a, n) : \E k \in Chunks(n, c) :
           y \in Bytes(ChunkAt(a, c, k), ChunkLength(n, c, k))
  <2> SUFFICES ASSUME NEW y \in Bytes(a, n)
               PROVE  \E k \in Chunks(n, c) :
                         y \in Bytes(ChunkAt(a, c, k), ChunkLength(n, c, k))
    OBVIOUS
  <2>1. PICK j \in 0 .. n - 1 : y = (a + j) % Space
    BY DEF Bytes
  <2> QED BY <1>4, <2>1
<1> QED BY <1>5, <1>6

(* A rectangle on the screen is all of its pixels. *)
LEMMA PixelsAre ==
  ASSUME NEW x \in Nat, NEW y \in Nat, NEW w \in Nat, NEW h \in Nat,
         x + w < Space, y + h < Space, x + w <= Width, y + h <= Height
  PROVE  Pixels(x, y, w, h) = (x .. x + w - 1) \X (y .. y + h - 1)
<1>1. Space \in Nat \ {0} /\ Width \in Nat /\ Height \in Nat
  BY UserMemoryAssumption
<1>2. \A i \in 0 .. w - 1 : (x + i) % Space = x + i
  <2> TAKE i \in 0 .. w - 1
  <2>1. PICK z \in 0 .. 2 * Space - 1 : z = x + i /\ z < Space
    <3>1. x + i \in 0 .. 2 * Space - 1 /\ x + i < Space
      BY <1>1
    <3> QED BY <3>1
  <2>2. z % Space = IF z < Space THEN z ELSE z - Space
    BY <1>1, ModOnce
  <2> QED BY <2>1, <2>2
<1>3. \A j \in 0 .. h - 1 : (y + j) % Space = y + j
  <2> TAKE j \in 0 .. h - 1
  <2>1. PICK z \in 0 .. 2 * Space - 1 : z = y + j /\ z < Space
    <3>1. y + j \in 0 .. 2 * Space - 1 /\ y + j < Space
      BY <1>1
    <3> QED BY <3>1
  <2>2. z % Space = IF z < Space THEN z ELSE z - Space
    BY <1>1, ModOnce
  <2> QED BY <2>1, <2>2
<1>4. \A i \in 0 .. w - 1, j \in 0 .. h - 1 :
         <<(x + i) % Space, (y + j) % Space>> = <<x + i, y + j>>
  BY <1>2, <1>3
<1>5. \A p \in Pixels(x, y, w, h) : p \in (x .. x + w - 1) \X (y .. y + h - 1)
  <2> SUFFICES ASSUME NEW p \in Pixels(x, y, w, h)
               PROVE  p \in (x .. x + w - 1) \X (y .. y + h - 1)
    OBVIOUS
  <2>1. PICK i \in 0 .. w - 1, j \in 0 .. h - 1 : p = <<(x + i) % Space, (y + j) % Space>>
    BY DEF Pixels
  <2>2. p = <<x + i, y + j>>
    BY <1>4, <2>1
  <2>3. x + i \in x .. x + w - 1 /\ y + j \in y .. y + h - 1
    OBVIOUS
  <2> QED BY <2>2, <2>3
<1>6. \A p \in (x .. x + w - 1) \X (y .. y + h - 1) : p \in Pixels(x, y, w, h)
  <2> SUFFICES ASSUME NEW u \in x .. x + w - 1, NEW v \in y .. y + h - 1
               PROVE  <<u, v>> \in Pixels(x, y, w, h)
    OBVIOUS
  <2>1. PICK i \in 0 .. w - 1, j \in 0 .. h - 1 : u = x + i /\ v = y + j
    <3>1. u - x \in 0 .. w - 1 /\ u = x + (u - x) /\ v - y \in 0 .. h - 1 /\ v = y + (v - y)
      OBVIOUS
    <3> QED BY <3>1
  <2>2. <<u, v>> = <<(x + i) % Space, (y + j) % Space>>
    BY <1>4, <2>1
  <2>3. u \in 0 .. Width - 1 /\ v \in 0 .. Height - 1
    BY <1>1
  <2>4. <<u, v>> \in Screen
    BY <2>3 DEF Screen
  <2> DEFINE e(i0, j0) == <<(x + i0) % Space, (y + j0) % Space>>
  <2>5. Pixels(x, y, w, h) = {e(i0, j0) : i0 \in 0 .. w - 1, j0 \in 0 .. h - 1} \cap Screen
    BY DEF Pixels
  <2>6. <<u, v>> = e(i, j)
    BY <2>2
  <2> HIDE DEF e
  <2>7. e(i, j) \in {e(i0, j0) : i0 \in 0 .. w - 1, j0 \in 0 .. h - 1}
    OBVIOUS
  <2> QED BY <2>4, <2>5, <2>6, <2>7
<1> QED BY <1>5, <1>6, Zenon

LEMMA PixelsCount ==
  ASSUME NEW x \in Nat, NEW y \in Nat, NEW w \in Nat, NEW h \in Nat,
         x + w < Space, y + h < Space, x + w <= Width, y + h <= Height
  PROVE  IsFiniteSet(Pixels(x, y, w, h)) /\ Cardinality(Pixels(x, y, w, h)) = w * h
<1>1. PICK X, Y : X = x .. x + w - 1 /\ Y = y .. y + h - 1
  OBVIOUS
<1>2. IsFiniteSet(X) /\ Cardinality(X) = w
  <2>1. PICK b \in Int : b = x + w - 1
    OBVIOUS
  <2>2. IsFiniteSet(x .. b) /\ Cardinality(x .. b) = IF x > b THEN 0 ELSE b - x + 1
    BY FS_Interval
  <2>3. Cardinality(x .. b) = w
    BY <2>1, <2>2
  <2> QED BY <1>1, <2>1, <2>2, <2>3
<1>3. IsFiniteSet(Y) /\ Cardinality(Y) = h
  <2>1. PICK b \in Int : b = y + h - 1
    OBVIOUS
  <2>2. IsFiniteSet(y .. b) /\ Cardinality(y .. b) = IF y > b THEN 0 ELSE b - y + 1
    BY FS_Interval
  <2>3. Cardinality(y .. b) = h
    BY <2>1, <2>2
  <2> QED BY <1>1, <2>1, <2>2, <2>3
<1>4. IsFiniteSet(X \X Y) /\ Cardinality(X \X Y) = w * h
  BY <1>2, <1>3, FS_Product
<1>5. Pixels(x, y, w, h) = X \X Y
  BY <1>1, PixelsAre
<1> QED BY <1>4, <1>5

(* All the pieces of a blit are its rectangle. *)
LEMMA WholeBlit ==
  ASSUME NEW x \in Nat, NEW y \in Nat, NEW w \in Nat, NEW h \in Nat,
         x + w < Space, y + h < Space, x + w <= Width, y + h <= Height
  PROVE  UNION {Pixels(x + (p[2] * BlitChunk), y + p[1], ChunkLength(w, BlitChunk, p[2]), 1) :
                  p \in Pieces(w, h)} = Pixels(x, y, w, h)
<1>1. /\ Space \in Nat \ {0} /\ Width \in Nat /\ Height \in Nat /\ BlitChunk \in Nat \ {0}
  BY UserMemoryAssumption
<1> DEFINE piece(p) == Pixels(x + (p[2] * BlitChunk), y + p[1], ChunkLength(w, BlitChunk, p[2]), 1)
<1>2. Pixels(x, y, w, h) = (x .. x + w - 1) \X (y .. y + h - 1)
  BY PixelsAre
<1>3. ASSUME NEW j \in 0 .. h - 1, NEW k \in Chunks(w, BlitChunk), NEW m \in Nat, m = k * BlitChunk,
             NEW l \in Nat, l = ChunkLength(w, BlitChunk, k)
      PROVE  /\ l <= w - m
             /\ Pixels(x + m, y + j, l, 1) = (x + m .. x + m + l - 1) \X (y + j .. y + j)
  <2>1. l <= w - m
    BY <1>1, <1>3, ChunksWithin
  <2>2. /\ x + m \in Nat /\ y + j \in Nat /\ 1 \in Nat /\ (y + j) + 1 - 1 = y + j
        /\ (x + m) + l < Space /\ (y + j) + 1 < Space
        /\ (x + m) + l <= Width /\ (y + j) + 1 <= Height
    BY <1>1, <2>1
  <2>3. PICK u \in Nat, v \in Nat : u = x + m /\ v = y + j
    BY <2>2
  <2>4. PICK g \in Nat : /\ g = 1 /\ v + g - 1 = v
                         /\ u + l < Space /\ v + g < Space /\ u + l <= Width /\ v + g <= Height
    BY <2>2, <2>3
  <2>5. Pixels(u, v, l, g) = (u .. u + l - 1) \X (v .. v + g - 1)
    <3>1. u \in Nat /\ v \in Nat /\ l \in Nat /\ g \in Nat
      BY <1>3, <2>3, <2>4
    <3>2. u + l < Space /\ v + g < Space /\ u + l <= Width /\ v + g <= Height
      BY <2>4
    <3> QED BY <3>1, <3>2, PixelsAre
  <2> QED BY <2>1, <2>3, <2>4, <2>5
<1>4. ASSUME NEW p \in Pieces(w, h) PROVE piece(p) \subseteq Pixels(x, y, w, h)
  <2>1. PICK j \in 0 .. h - 1, k \in Chunks(w, BlitChunk) : p = <<j, k>>
    BY DEF Pieces
  <2>2. k \in Nat /\ k * BlitChunk \in Nat /\ ChunkLength(w, BlitChunk, k) \in Int
    BY <1>1, ChunksWithin
  <2>3. PICK m \in Nat : m = k * BlitChunk
    BY <2>2
  <2>4. PICK l \in Int : l = ChunkLength(w, BlitChunk, k)
    BY <2>2
  <2>5. piece(p) = Pixels(x + m, y + j, l, 1)
    BY <2>1, <2>3, <2>4
  <2>6. CASE l \in Nat
    <3>1. l <= w - m /\ piece(p) = (x + m .. x + m + l - 1) \X (y + j .. y + j)
      BY <1>3, <2>3, <2>4, <2>5, <2>6
    <3>2. (x + m .. x + m + l - 1) \subseteq (x .. x + w - 1)
          /\ (y + j .. y + j) \subseteq (y .. y + h - 1)
      BY <2>6, <3>1
    <3> QED BY <1>2, <3>1, <3>2
  <2>7. CASE l \notin Nat
    <3>1. 0 .. l - 1 = {}
      BY <2>7
    <3>2. ASSUME NEW X, NEW Y, NEW e \in Pixels(X, Y, l, 1) PROVE FALSE
      <4>1. PICK i \in 0 .. l - 1, f \in 0 .. 1 - 1 : e = <<(X + i) % Space, (Y + f) % Space>>
        BY DEF Pixels
      <4> QED BY <3>1
    <3> QED BY <2>5, <3>2
  <2> QED BY <2>6, <2>7
<1>5. ASSUME NEW u \in x .. x + w - 1, NEW v \in y .. y + h - 1
      PROVE  \E p \in Pieces(w, h) : <<u, v>> \in piece(p)
  <2>1. PICK j \in 0 .. h - 1, d \in 0 .. w - 1 : v = y + j /\ u = x + d
    <3>1. u - x \in 0 .. w - 1 /\ u = x + (u - x) /\ v - y \in 0 .. h - 1 /\ v = y + (v - y)
      OBVIOUS
    <3> QED BY <3>1
  <2> PICK k \in Chunks(w, BlitChunk) : \E i \in 0 .. ChunkLength(w, BlitChunk, k) - 1 :
                                            k \in Nat /\ d = (k * BlitChunk) + i
    BY <1>1, ChunksCover
  <2>2. PICK i \in 0 .. ChunkLength(w, BlitChunk, k) - 1 : k \in Nat /\ d = (k * BlitChunk) + i
    OBVIOUS
  <2>3. k \in Nat /\ k * BlitChunk \in Nat /\ ChunkLength(w, BlitChunk, k) \in Int
    BY <1>1, ChunksWithin
  <2>4. PICK m \in Nat : m = k * BlitChunk
    BY <2>3
  <2>5. PICK l \in Nat : l = ChunkLength(w, BlitChunk, k) /\ i < l
    BY <2>2, <2>3
  <2>6. Pixels(x + m, y + j, l, 1) = (x + m .. x + m + l - 1) \X (y + j .. y + j)
    BY <1>3, <2>4, <2>5
  <2>7. u \in x + m .. x + m + l - 1 /\ v \in y + j .. y + j
    BY <2>1, <2>2, <2>4, <2>5
  <2>8. PICK p : p = <<j, k>>
    OBVIOUS
  <2>9. p \in Pieces(w, h) /\ p[1] = j /\ p[2] = k
    BY <2>8 DEF Pieces
  <2>10. piece(p) = Pixels(x + m, y + j, l, 1)
    BY <2>4, <2>5, <2>9
  <2>11. <<u, v>> \in piece(p)
    BY <2>6, <2>7, <2>10
  <2> QED BY <2>9, <2>11
<1>6. UNION {piece(p) : p \in Pieces(w, h)} \subseteq Pixels(x, y, w, h)
  BY <1>4
<1> HIDE DEF piece
<1>7. Pixels(x, y, w, h) \subseteq UNION {piece(p) : p \in Pieces(w, h)}
  <2> SUFFICES ASSUME NEW u \in x .. x + w - 1, NEW v \in y .. y + h - 1
               PROVE  <<u, v>> \in UNION {piece(p) : p \in Pieces(w, h)}
    BY <1>2
  <2>1. PICK p \in Pieces(w, h) : <<u, v>> \in piece(p)
    BY <1>5
  <2> QED BY <2>1
<1>8. UNION {piece(p) : p \in Pieces(w, h)} = Pixels(x, y, w, h)
  BY <1>6, <1>7
<1> QED BY <1>8 DEF piece
-----------------------------------------------------------------------------
(* What each call leaves behind is a record of a call, and true. *)
Honest(c) ==
  /\ c.given \subseteq Words /\ c.saw \subseteq Words /\ c.wrote \subseteq Words
  /\ c.ok \in BOOLEAN /\ c.told \in Nat /\ c.moved \in Nat
  /\ c.ok => c.moved = c.told

LEMMA OwnAreWords == OwnMemory \subseteq Words
BY UserMemoryAssumption DEF OwnMemory, Image, Stack, Words

LEMMA BytesAreWords ==
  ASSUME NEW a \in Words, NEW n
  PROVE  Bytes(a, n) \subseteq Words
<1> SUFFICES ASSUME NEW i \in 0 .. n - 1 PROVE (a + i) % Space \in Words
  BY DEF Bytes
<1>1. a + i \in Int
  BY UserMemoryAssumption DEF Words
<1> QED BY <1>1, WordIsWord

LEMMA WordsFinite ==
  ASSUME NEW S, S \subseteq Words
  PROVE  IsFiniteSet(S) /\ Cardinality(S) \in Nat
<1>1. PICK b \in Int : b = Space - 1
  BY UserMemoryAssumption
<1>2. IsFiniteSet(0 .. b)
  BY FS_Interval
<1>3. IsFiniteSet(S)
  BY <1>1, <1>2, FS_Subset DEF Words
<1> QED BY <1>3, FS_CardinalityType

LEMMA ScreenFinite ==
  ASSUME NEW S, S \subseteq Screen
  PROVE  Cardinality(S) \in Nat
<1>1. PICK w \in Int, h \in Int : w = Width - 1 /\ h = Height - 1
  BY UserMemoryAssumption
<1>2. IsFiniteSet(0 .. w) /\ IsFiniteSet(0 .. h)
  BY FS_Interval
<1>3. IsFiniteSet(Screen)
  BY <1>1, <1>2, FS_Product DEF Screen
<1>4. IsFiniteSet(S)
  BY <1>3, FS_Subset
<1> QED BY <1>4, FS_CardinalityType

LEMMA NoCallHonest == Honest(NoCall)
BY DEF Honest, NoCall

LEMMA QuietHonest ==
  ASSUME NEW saw, saw \subseteq Words, NEW ok \in BOOLEAN, NEW told \in Nat, NEW moved \in Nat,
         ok => moved = told
  PROVE  Honest([NoCall EXCEPT !.saw = saw, !.ok = ok, !.told = told, !.moved = moved])
<1> DEFINE c == [NoCall EXCEPT !.saw = saw, !.ok = ok, !.told = told, !.moved = moved]
<1>1. /\ c.given = {} /\ c.wrote = {} /\ c.saw = saw
      /\ c.ok = ok /\ c.told = told /\ c.moved = moved
  BY DEF NoCall
<1> HIDE DEF c
<1>2. Honest(c)
  BY <1>1 DEF Honest
<1> QED BY <1>2 DEF c

LEMMA FillHonest ==
  ASSUME NEW a \in Words, NEW n, NEW got \in Nat
  PROVE  Honest(Fill(a, n, got))
<1>1. CASE a = 0 \/ (got # 0 /\ ~ ValidRange(a, got))
  BY <1>1, NoCallHonest DEF Fill
<1>2. CASE ~ (a = 0 \/ (got # 0 /\ ~ ValidRange(a, got)))
  <2>1. Cardinality(Bytes(a, got)) = got
    BY <1>2, ValidCount
  <2>2. PICK c : c = Fill(a, n, got)
    OBVIOUS
  <2>3. /\ c.given = Bytes(a, n) /\ c.wrote = Bytes(a, got) /\ c.saw = {}
        /\ c.ok = TRUE /\ c.told = got /\ c.moved = got
    BY <1>2, <2>1, <2>2 DEF Fill, NoCall
  <2>4. Bytes(a, n) \subseteq Words /\ Bytes(a, got) \subseteq Words
    BY BytesAreWords
  <2>5. Honest(c)
    BY <2>3, <2>4 DEF Honest
  <2> QED BY <2>2, <2>5
<1> QED BY <1>1, <1>2

LEMMA WriteHonest ==
  ASSUME NEW a \in Words, NEW n \in Words, NEW type, Write(a, n, type)
  PROVE  Honest(call')
<1> DEFINE good == IF a = 0 THEN {} ELSE CopiedChunks(a, n, WriteChunk)
           done == IF type = "file" THEN good \cap {0} ELSE good
           saw  == UNION {Bytes(ChunkAt(a, WriteChunk, k), ChunkLength(n, WriteChunk, k)) : k \in done}
           ok   == n = 0 \/ (a # 0 /\ type # "file" /\ good = Chunks(n, WriteChunk))
<1>1. call' = [NoCall EXCEPT !.saw = saw, !.ok = ok, !.told = n, !.moved = Cardinality(saw)]
  BY DEF Write, QuietCall, Calls
<1>2. WriteChunk \in Nat \ {0} /\ n \in Nat /\ n \in 0 .. Space
  BY UserMemoryAssumption DEF Words
<1>3. done \subseteq CopiedChunks(a, n, WriteChunk)
  OBVIOUS
<1>4. ok => saw = IF n = 0 THEN {} ELSE Bytes(a, n)
  <2>1. CASE n = 0
    <3>1. CopiedChunks(a, n, WriteChunk) = {}
      BY <2>1 DEF CopiedChunks, Chunks
    <3>2. done = {}
      BY <1>3, <3>1
    <3> HIDE DEF done
    <3> QED BY <2>1, <3>2
  <2>2. CASE n # 0 /\ ok
    <3>1. done = Chunks(n, WriteChunk)
      BY <2>2
    <3> HIDE DEF done
    <3>2. saw = Bytes(a, n)
      BY <1>2, <3>1, WholeBytes
    <3> QED BY <2>2, <3>2
  <2>3. CASE ~ ok
    BY <2>3
  <2> QED BY <2>1, <2>2, <2>3
<1>5. saw \subseteq Words
  <2> HIDE DEF done
  <2>1. \A k \in done : Bytes(ChunkAt(a, WriteChunk, k), ChunkLength(n, WriteChunk, k)) \subseteq OwnMemory
    BY <1>3, ChunkIsOwn
  <2> QED BY <2>1, OwnAreWords
<1>6. ok \in BOOLEAN
  OBVIOUS
<1> HIDE DEF saw, ok, done, good
<1>7. Cardinality(saw) \in Nat
  BY <1>5, WordsFinite
<1>8. ok => Cardinality(saw) = n
  <2>1. CASE n = 0
    BY <1>4, <2>1, FS_EmptySet
  <2>2. CASE n # 0
    BY <1>2, <1>4, <2>2, BytesCount
  <2> QED BY <2>1, <2>2
<1> QED BY <1>1, <1>2, <1>5, <1>6, <1>7, <1>8, QuietHonest

LEMMA ListHonest ==
  ASSUME NEW path \in Words, NEW nul, NEW a \in Words, NEW n, NEW lines \in Listings,
         List(path, nul, a, n, lines)
  PROVE  Honest(call')
<1> DEFINE used == Listed(lines)
           got == used + 1
           fill == Fill(a, n, got)
           saw == StringBytes(path, nul)
           moved == Cardinality(Bytes(a, used))
<1>1. \/ call' = NoCall
      \/ call' = [fill EXCEPT !.saw = saw, !.told = used, !.moved = moved]
  BY DEF List, QuietCall, Calls
<1>2. used \in Nat /\ got \in Nat /\ got # 0
  BY ListingAssumption, ProgramsAssumption
<1>3. saw \subseteq Words
  BY StringIsOwn, OwnAreWords
<1>4. Bytes(a, used) \subseteq Words /\ moved \in Nat
  BY BytesAreWords, WordsFinite
<1>5. Honest(fill)
  BY <1>2, FillHonest
<1>6. fill.ok => moved = used
  <2>1. SUFFICES ASSUME fill.ok PROVE moved = used
    OBVIOUS
  <2>2. ValidRange(a, got)
    BY <1>2, <2>1 DEF Fill, NoCall
  <2>3. used \in 0 .. Space
    BY <1>2, <2>2, UserMemoryAssumption DEF ValidRange, Words
  <2> QED BY <2>3, BytesCount
<1>7. CASE call' = NoCall
  BY <1>7, NoCallHonest
<1>8. CASE call' = [fill EXCEPT !.saw = saw, !.told = used, !.moved = moved]
  <2>1. DOMAIN fill = {"given", "saw", "wrote", "ok", "told", "moved"}
    BY FillIsCall
  <2> HIDE DEF fill, saw, used, moved
  <2>2. PICK c : c = call'
    OBVIOUS
  <2>3. /\ c.given = fill.given /\ c.wrote = fill.wrote /\ c.ok = fill.ok
        /\ c.saw = saw /\ c.told = used /\ c.moved = moved
    BY <1>8, <2>1, <2>2
  <2>4. Honest(c)
    BY <1>2, <1>3, <1>4, <1>5, <1>6, <2>3 DEF Honest
  <2> QED BY <2>2, <2>4
<1> QED BY <1>1, <1>7, <1>8

LEMMA PixelHonest ==
  ASSUME NEW x \in Words, NEW y \in Words, PutPixel(x, y)
  PROVE  Honest(call')
<1> DEFINE ok == x < Width /\ y < Height
           moved == Cardinality(Pixels(x, y, 1, 1))
<1>1. call' = [NoCall EXCEPT !.ok = ok, !.told = 1, !.moved = moved]
  BY DEF PutPixel, QuietCall, Calls
<1>2. moved \in Nat
  <2>1. Pixels(x, y, 1, 1) \subseteq Screen
    BY DEF Pixels
  <2> QED BY <2>1, ScreenFinite
<1>3. ok => moved = 1
  <2> SUFFICES ASSUME ok PROVE moved = 1
    OBVIOUS
  <2>1. PICK w \in Nat : w = 1
    OBVIOUS
  <2>2. x \in Nat /\ y \in Nat /\ x + w <= Width /\ y + w <= Height
    BY <2>1, UserMemoryAssumption DEF Words
  <2>3. CASE x + w < Space /\ y + w < Space
    <3>1. Cardinality(Pixels(x, y, w, w)) = w * w
      BY <2>2, <2>3, PixelsCount
    <3> QED BY <2>1, <3>1
  <2>4. CASE ~ (x + w < Space /\ y + w < Space)
    \* the last word, which the screen may have as a coordinate
    <3>1. /\ Space \in Nat \ {0} /\ Width \in Nat /\ Height \in Nat
          /\ x \in 0 .. Space - 1 /\ y \in 0 .. Space - 1
      BY UserMemoryAssumption DEF Words
    <3>2. (x + 0) % Space = x /\ (y + 0) % Space = y
      <4>1. x \in 0 .. 2 * Space - 1 /\ y \in 0 .. 2 * Space - 1
        BY <3>1
      <4>2. x % Space = x /\ y % Space = y
        <5>1. x % Space = IF x < Space THEN x ELSE x - Space
          BY <3>1, <4>1, ModOnce
        <5>2. y % Space = IF y < Space THEN y ELSE y - Space
          BY <3>1, <4>1, ModOnce
        <5> QED BY <3>1, <5>1, <5>2
      <4>3. x + 0 = x /\ y + 0 = y
        BY <3>1
      <4> QED BY <4>2, <4>3
    <3>3. <<x, y>> \in Screen
      BY <3>1 DEF Screen
    <3>4. \A i \in 0 .. 1 - 1 : i = 0
      OBVIOUS
    <3>5. \A e \in Pixels(x, y, 1, 1) : e = <<x, y>>
      BY <3>2, <3>4 DEF Pixels
    <3>6. <<x, y>> \in Pixels(x, y, 1, 1)
      <4> DEFINE e(i, j) == <<(x + i) % Space, (y + j) % Space>>
      <4>1. Pixels(x, y, 1, 1) = {e(i, j) : i \in 0 .. 1 - 1, j \in 0 .. 1 - 1} \cap Screen
        BY DEF Pixels
      <4>2. e(0, 0) = <<x, y>> /\ 0 \in 0 .. 1 - 1
        BY <3>2
      <4> HIDE DEF e
      <4> QED BY <3>3, <4>1, <4>2
    <3>7. Pixels(x, y, 1, 1) = {<<x, y>>}
      BY <3>5, <3>6
    <3> QED BY <3>7, FS_Singleton
  <2> QED BY <2>3, <2>4
<1>4. ok \in BOOLEAN
  OBVIOUS
<1> HIDE DEF ok, moved
<1>5. PICK c : c = call'
  OBVIOUS
<1>6. /\ c.given = {} /\ c.wrote = {} /\ c.saw = {}
      /\ c.ok = ok /\ c.told = 1 /\ c.moved = moved
  BY <1>1, <1>5 DEF NoCall
<1>7. Honest(c)
  BY <1>2, <1>3, <1>4, <1>6 DEF Honest
<1> QED BY <1>5, <1>7

LEMMA RectHonest ==
  ASSUME NEW a \in Structs, NEW x \in Words, NEW y \in Words, NEW w \in Words, NEW h \in Words,
         FillRect(a, x, y, w, h)
  PROVE  Honest(call')
<1> DEFINE ok == RectValid(x, y, w, h)
           drawn == IF ok THEN Pixels(x, y, w, h) ELSE {}
           saw == Bytes(a, StructSize)
           moved == Cardinality(drawn)
           told == w * h
<1>1. \/ call' = NoCall
      \/ call' = [NoCall EXCEPT !.saw = saw, !.ok = ok, !.told = told, !.moved = moved]
  BY DEF FillRect, QuietCall, Calls
<1>2. saw \subseteq Words
  <2>1. a \in Words
    BY ProgramsAssumption
  <2> QED BY <2>1, BytesAreWords
<1>3. moved \in Nat
  <2>1. drawn \subseteq Screen
    BY DEF Pixels
  <2> QED BY <2>1, ScreenFinite
<1>4. x \in Nat /\ y \in Nat /\ w \in Nat /\ h \in Nat
  BY UserMemoryAssumption DEF Words
<1>5. told \in Nat
  BY <1>4
<1>6. ok => moved = told
  BY <1>4, PixelsCount DEF RectValid
<1>7. ok \in BOOLEAN
  BY DEF RectValid
<1>8. CASE call' = NoCall
  BY <1>8, NoCallHonest
<1> HIDE DEF ok, drawn, saw, moved, told
<1>9. CASE call' = [NoCall EXCEPT !.saw = saw, !.ok = ok, !.told = told, !.moved = moved]
  BY <1>2, <1>3, <1>5, <1>6, <1>7, <1>9, QuietHonest
<1> QED BY <1>1, <1>8, <1>9

LEMMA BlitHonest ==
  ASSUME NEW a \in Structs, NEW x \in Words, NEW y \in Words, NEW w \in Words, NEW h \in Words,
         NEW source \in Words, NEW stride \in Words, Blit(a, x, y, w, h, source, stride)
  PROVE  Honest(call')
<1> DEFINE sound == RectValid(x, y, w, h) /\ source # 0 /\ stride >= w * PixelSize
           pixels == Bytes(a, StructSize) \cup BlitBytes(w, h, source, stride)
           ok == BlitPieces(w, h, source, stride) = Pieces(w, h)
           drawn == BlitPixels(x, y, w, h, source, stride)
           moved == Cardinality(drawn)
           told == w * h
<1>1. \/ call' = NoCall
      \/ call' = [NoCall EXCEPT !.saw = Bytes(a, StructSize)]
      \/ sound /\ call' = [NoCall EXCEPT !.saw = pixels, !.ok = ok, !.told = told, !.moved = moved]
  BY DEF Blit, QuietCall, Calls
<1>2. Bytes(a, StructSize) \subseteq Words /\ pixels \subseteq Words
  <2>1. a \in Words
    BY ProgramsAssumption
  <2>2. Bytes(a, StructSize) \subseteq Words
    BY <2>1, BytesAreWords
  <2> QED BY <2>2, BlitIsOwn, OwnAreWords
<1>3. moved \in Nat
  <2>1. drawn \subseteq Screen
    BY DEF BlitPixels, Pixels
  <2> QED BY <2>1, ScreenFinite
<1>4. x \in Nat /\ y \in Nat /\ w \in Nat /\ h \in Nat
  BY UserMemoryAssumption DEF Words
<1>5. told \in Nat
  BY <1>4
<1>6. sound /\ ok => moved = told
  <2> SUFFICES ASSUME sound, ok PROVE moved = told
    OBVIOUS
  <2>1. x + w < Space /\ y + h < Space /\ x + w <= Width /\ y + h <= Height
    BY DEF RectValid
  <2>2. drawn = UNION {Pixels(x + (p[2] * BlitChunk), y + p[1], ChunkLength(w, BlitChunk, p[2]), 1) :
                        p \in Pieces(w, h)}
    BY DEF BlitPixels
  <2> HIDE DEF drawn
  <2>3. drawn = Pixels(x, y, w, h)
    BY <1>4, <2>1, <2>2, WholeBlit
  <2> QED BY <1>4, <2>1, <2>3, PixelsCount
<1>7. ok \in BOOLEAN
  OBVIOUS
<1>8. CASE call' = NoCall
  BY <1>8, NoCallHonest
<1>9. CASE call' = [NoCall EXCEPT !.saw = Bytes(a, StructSize)]
  <2>1. PICK saw : saw = Bytes(a, StructSize)
    OBVIOUS
  <2>2. PICK c : c = call'
    OBVIOUS
  <2>3. /\ c.given = {} /\ c.wrote = {} /\ c.saw = saw
        /\ c.ok = FALSE /\ c.told = 0 /\ c.moved = 0
    BY <1>9, <2>1, <2>2 DEF NoCall
  <2>4. saw \subseteq Words
    BY <1>2, <2>1
  <2>5. Honest(c)
    <3>1. 0 \in Nat /\ FALSE \in BOOLEAN /\ {} \subseteq Words
      OBVIOUS
    <3> QED BY <2>3, <2>4, <3>1, Zenon DEF Honest
  <2> QED BY <2>2, <2>5
<1> HIDE DEF sound, pixels, ok, drawn, moved, told
<1>10. CASE sound /\ call' = [NoCall EXCEPT !.saw = pixels, !.ok = ok, !.told = told, !.moved = moved]
  BY <1>2, <1>3, <1>5, <1>6, <1>7, <1>10, QuietHonest
<1> QED BY <1>1, <1>8, <1>9, <1>10

LEMMA QuietCallsHonest == QuietCalls => Honest(call')
<1> SUFFICES ASSUME QuietCalls PROVE Honest(call')
  OBVIOUS
<1> USE DEF QuietCall, Calls
<1>0. /\ Addresses \subseteq Words /\ Lengths \subseteq Words /\ Structs \subseteq Words
      /\ Coordinates \subseteq Words /\ Sources \subseteq Words /\ Strides \subseteq Words
      /\ FileSizes \subseteq Nat /\ EventSize \in Nat /\ StructSize \in Nat /\ Words \subseteq Nat
  BY ProgramsAssumption, UserMemoryAssumption DEF Words
<1>1. ASSUME NEW a \in Addresses, NEW n \in Lengths, NEW rest \in FileSizes, ReadFile(a, n, rest)
      PROVE  Honest(call')
  <2>1. Least(n, rest) \in Nat
    BY <1>0 DEF Least
  <2>2. call' = Fill(a, n, Least(n, rest))
    BY <1>1 DEF ReadFile
  <2> QED BY <1>0, <2>1, <2>2, FillHonest
<1>2. ASSUME NEW a \in Addresses, NEW n \in Lengths, NEW events \in 0 .. 8, ReadMouse(a, n, events)
      PROVE  Honest(call')
  <2>1. events * EventSize \in Nat
    BY <1>0
  <2>2. call' = Fill(a, n, events * EventSize)
    BY <1>2 DEF ReadMouse
  <2> QED BY <1>0, <2>1, <2>2, FillHonest
<1>3. ASSUME NEW a \in Addresses, NEW n \in Lengths, NEW type, Write(a, n, type)
      PROVE  Honest(call')
  BY <1>0, <1>3, WriteHonest
<1>4. ASSUME NEW path \in Structs, NEW nul, NEW a \in Addresses, NEW n \in Lengths,
             NEW lines \in Listings, List(path, nul, a, n, lines)
      PROVE  Honest(call')
  BY <1>0, <1>4, ListHonest
<1>5. ASSUME NEW a \in Addresses, NEW nul, Open(a, nul) PROVE Honest(call')
  <2> DEFINE ok == StringCopied(a, nul)
  <2>1. call' = [NoCall EXCEPT !.saw = StringBytes(a, nul), !.ok = ok]
    BY <1>5 DEF Open
  <2>2. StringBytes(a, nul) \subseteq Words
    BY <1>0, StringIsOwn, OwnAreWords
  <2>3. ok \in BOOLEAN
    BY DEF StringCopied
  <2> HIDE DEF ok
  <2>4. PICK c : c = call'
    OBVIOUS
  <2>5. /\ c.given = {} /\ c.wrote = {} /\ c.saw = StringBytes(a, nul)
        /\ c.ok = ok /\ c.told = 0 /\ c.moved = 0
    BY <2>1, <2>4 DEF NoCall
  <2>6. Honest(c)
    BY <2>2, <2>3, <2>5 DEF Honest
  <2> QED BY <2>4, <2>6
<1>6. ASSUME NEW a \in Addresses, FbInfo(a) PROVE Honest(call')
  <2>1. call' = Fill(a, StructSize, StructSize)
    BY <1>6 DEF FbInfo
  <2> QED BY <1>0, <2>1, FillHonest
<1>7. ASSUME NEW x \in Coordinates, NEW y \in Coordinates, PutPixel(x, y) PROVE Honest(call')
  BY <1>0, <1>7, PixelHonest
<1>8. ASSUME NEW a \in Structs, NEW x \in Coordinates, NEW y \in Coordinates, NEW w \in Coordinates,
             NEW h \in Coordinates, FillRect(a, x, y, w, h)
      PROVE  Honest(call')
  BY <1>0, <1>8, RectHonest
<1>9. ASSUME NEW a \in Structs, NEW x \in Coordinates, NEW y \in Coordinates, NEW w \in Coordinates,
             NEW h \in Coordinates, NEW source \in Sources, NEW stride \in Strides,
             Blit(a, x, y, w, h, source, stride)
      PROVE  Honest(call')
  BY <1>0, <1>9, BlitHonest
<1> QED BY <1>1, <1>2, <1>3, <1>4, <1>5, <1>6, <1>7, <1>8, <1>9, Zenon DEF QuietCalls

LEMMA CallsHonest == ProgramsSpec => []Honest(call)
<1>1. ProgramsInit => Honest(call)
  BY NoCallHonest DEF ProgramsInit
<1>2. Inv /\ Honest(call) /\ [ProgramsNext]_allVars => Honest(call)'
  <2> SUFFICES ASSUME Inv, Honest(call), [ProgramsNext]_allVars PROVE Honest(call')
    OBVIOUS
  <2>1. CASE UNCHANGED call
    BY <2>1
  <2>2. CASE Resume
    BY <2>2, NoCallHonest DEF Resume
  <2>3. CASE \E a \in Addresses, n \in Lengths : ReadConsole(a, n)
    <3>1. PICK a \in Addresses, n \in Lengths : ReadConsole(a, n)
      BY <2>3
    <3> DEFINE got == Least(Least(n, ReadChunk), count)
    <3>2. a \in Words /\ got \in Nat
      BY ProgramsAssumption, UserMemoryAssumption, LineAssumption, CapacityAssumption
         DEF Least, Words, Inv, TypeOK
    <3>3. call' = Fill(a, n, got)
      BY <3>1 DEF ReadConsole, Calls
    <3> HIDE DEF got
    <3> QED BY <3>2, <3>3, FillHonest
  <2>4. CASE QuietCalls
    BY <2>4, QuietCallsHonest
  <2> QED BY <2>1, <2>2, <2>3, <2>4
          DEF ProgramsNext, ProgramStart, ProgramExit, ProgramCall, allVars
<1>3. ProgramsSpec => []Inv
  BY ProgramsUseRing, RingInvariant
<1> QED BY <1>1, <1>2, <1>3, PTL DEF ProgramsSpec

(* A call that does not fail has moved what it says it has, byte for byte and
   pixel for pixel, whatever the sizes of the chunks it is copied in and of the
   space that addresses wrap round in. *)
THEOREM CallsTellTheTruth == ProgramsSpec => []AnswersAreTrue
<1>1. Honest(call) => AnswersAreTrue
  BY DEF Honest, AnswersAreTrue
<1> QED BY <1>1, CallsHonest, PTL
-----------------------------------------------------------------------------
LEMMA EchoType ==
  ASSUME ShellTypes, NEW c \in Values, Echo(c)
  PROVE  typed' \in Lines /\ submitted' \in Seq(Lines)
<1>1. CASE mixed
  BY <1>1 DEF Echo, ShellTypes
<1>2. CASE ~ mixed /\ c = Enter
  BY <1>2, BlankType, AppendProperties DEF Echo, ShellTypes
<1>3. CASE ~ mixed /\ c # Enter
  <2>1. Echoed(c) = EchoedOn(typed, c)
    BY DEF Echoed, EchoedOn
  <2> QED BY <1>3, <2>1, EchoedOnType DEF Echo, ShellTypes
<1> QED BY <1>1, <1>2, <1>3

LEMMA EditType ==
  ASSUME ShellTypes, InputTyped, ShellEdit
  PROVE  line' \in Seq(Values \ {Enter, Backspace}) /\ Len(line') < LineSize
<1> DEFINE S == Values \ {Enter, Backspace}
<1>1. PICK c \in Values : c = taken[1]
  BY DEF InputTyped, ShellEdit
<1>2. line \in Seq(S) /\ Len(line) < LineSize /\ Len(line) \in Nat /\ LineSize \in Nat
  BY LenProperties, LineAssumption DEF ShellTypes
<1>3. line' \in {line, Erased(line), Kept(c)} /\ (line' = Kept(c) => c \in S \/ line' = line)
  <2>1. CASE c = Enter
    BY <1>1, <2>1, LineAssumption DEF ShellEdit
  <2>2. CASE c = Backspace
    <3>1. line' = Erased(line)
      BY <1>1, <2>2, LineAssumption DEF ShellEdit
    <3>2. Erased(line) \in Seq(S)
      BY <1>2, ErasedType
    <3>3. CASE line' = Kept(c)
      <4>1. line' = line \/ (line' = Append(line, c) /\ Len(line') = Len(line) + 1)
        BY <1>2, <3>3 DEF Kept
      <4>2. Len(line') <= Len(line)
        BY <1>2, <3>1, ErasedType
      <4> QED BY <1>2, <3>1, <4>1, <4>2
    <3> QED BY <3>1, <3>3
  <2>3. CASE c \in S
    BY <1>1, <2>3 DEF ShellEdit
  <2> QED BY <2>1, <2>2, <2>3
<1>4. Erased(line) \in Seq(S) /\ Len(Erased(line)) \in Nat /\ Len(Erased(line)) <= Len(line)
  BY <1>2, ErasedType, LenProperties
<1>5. c \in S => Kept(c) \in Seq(S) /\ Len(Kept(c)) < LineSize
  <2> SUFFICES ASSUME c \in S PROVE Kept(c) \in Seq(S) /\ Len(Kept(c)) < LineSize
    OBVIOUS
  <2>1. Append(line, c) \in Seq(S) /\ Len(Append(line, c)) = Len(line) + 1
    BY <1>2, AppendProperties
  <2> HIDE DEF S
  <2>2. CASE Len(line) + 1 < LineSize
    BY <2>1, <2>2 DEF Kept
  <2>3. CASE ~ (Len(line) + 1 < LineSize)
    BY <1>2, <2>3 DEF Kept
  <2> QED BY <2>2, <2>3
<1> HIDE DEF S
<1>6. line' \in Seq(S) /\ Len(line') < LineSize
  <2>1. CASE line' = line
    BY <1>2, <2>1
  <2>2. CASE line' = Erased(line)
    BY <1>2, <1>4, <2>2
  <2>3. CASE line' = Kept(c) /\ c \in S
    BY <1>5, <2>3
  <2> QED BY <1>3, <2>1, <2>2, <2>3
<1> QED BY <1>6 DEF S

LEMMA ShellTypesStep ==
  ShellTypes /\ InputTyped /\ CommandIsEchoedLine /\ [ProgramsNext]_allVars => ShellTypes'
<1> SUFFICES ASSUME ShellTypes, InputTyped, CommandIsEchoedLine, [ProgramsNext]_allVars
             PROVE  ShellTypes'
  OBVIOUS
<1> DEFINE S == Values \ {Enter, Backspace}
<1>0. << >> \in Seq(S) /\ << >> \in Seq(Lines) /\ Len(<< >>) = 0 /\ 0 < LineSize
  BY EmptySeq, LineAssumption
<1>1. ASSUME UNCHANGED <<line, screenVars>>,
             pc' \in ShellLocations \cup {"kernel", "other", "called"}
      PROVE  ShellTypes'
  BY <1>1 DEF ShellTypes, screenVars
<1>2. ASSUME NEW c \in Values, KeyPress(c) PROVE ShellTypes'
  <2>1. typed' \in Lines /\ submitted' \in Seq(Lines)
    BY <1>2, EchoType DEF KeyPress
  <2> QED BY <1>2, <2>1 DEF KeyPress, ShellTypes
<1>3. CASE ShellRead
  BY <1>1, <1>3 DEF ShellRead, ShellLocations
<1>4. CASE ShellStart \/ ShellYield
  BY <1>1, <1>4 DEF ShellStart, ShellYield, ShellLocations
<1>5. CASE ShellEdit
  <2>1. pc' \in ShellLocations /\ UNCHANGED screenVars
    BY <1>5 DEF ShellEdit, ShellLocations
  <2>2. line' \in Seq(Values \ {Enter, Backspace}) /\ Len(line') < LineSize
    BY <1>5, EditType
  <2> QED BY <2>1, <2>2 DEF ShellTypes, screenVars
<1>6. CASE ShellExecute
  <2>1. /\ pc' \in {"read", "kernel", "cat"} /\ line' = << >> /\ typed' = typed
        /\ mixed' \in BOOLEAN /\ submitted' = IF mixed THEN << >> ELSE Tail(submitted)
    BY <1>6 DEF ShellExecute, Executed
  <2>2. ~ mixed => submitted # << >>
    BY <1>6 DEF ShellExecute, Executed, CommandIsEchoedLine
  <2>3. submitted' \in Seq(Lines)
    <3>1. CASE mixed
      BY <1>0, <2>1, <3>1
    <3>2. CASE ~ mixed
      BY <2>1, <2>2, <3>2, HeadTailProperties DEF ShellTypes
    <3> QED BY <3>1, <3>2
  <2> QED BY <1>0, <2>1, <2>3 DEF ShellTypes, ShellLocations
<1>7. CASE ProgramStart \/ ProgramExit \/ Resume
  BY <1>1, <1>7 DEF ProgramStart, ProgramExit, Resume
<1>11. ASSUME NEW got, TakenBy(got), line' = line, pc' \in {"read", "cat", "called"} PROVE ShellTypes'
  <2>1. mixed' \in BOOLEAN
    BY <1>11 DEF TakenBy
  <2>2. typed' \in Lines /\ submitted' \in Seq(Lines)
    BY <1>0, <1>11, BlankType DEF TakenBy, ShellTypes
  <2> QED BY <1>11, <2>1, <2>2 DEF ShellTypes, ShellLocations
<1>12. CASE ShellCat
  BY <1>11, <1>12 DEF ShellCat
<1>8. CASE \E a \in Addresses, n \in Lengths : ReadConsole(a, n)
  BY <1>8, <1>11 DEF ReadConsole, Calls
<1>9. CASE QuietCalls
  BY <1>1, <1>9, QuietCallsCall
<1>10. CASE UNCHANGED allVars
  BY <1>10 DEF allVars, shellVars, screenVars, ShellTypes
<1> QED BY <1>2, <1>3, <1>4, <1>5, <1>6, <1>7, <1>8, <1>9, <1>10, <1>12
        DEF ProgramsNext, ShellNext, ShellStep, ProgramCall

(* The shell's line keeps a place for its NUL, whatever is typed; and every
   other variable of the shell, the ring and the calls has its type. *)
THEOREM ProgramsTyped == ProgramsSpec => []ProgramsTypeOK
<1>1. ProgramsInit => ShellTypes
  <2>1. << >> \in Seq(Values \ {Enter, Backspace}) /\ << >> \in Seq(Lines)
        /\ Len(<< >>) < LineSize /\ Blank \in Lines
    BY EmptySeq, BlankType, LineAssumption
  <2> QED BY <2>1 DEF ProgramsInit, ShellInit, ShellTypes
<1>2. ProgramsInit => InputTyped
  BY EchoInit
<1>3. ProgramsSpec => []Inv
  BY ProgramsUseRing, RingInvariant
<1>4. ShellTypes /\ Inv /\ Honest(call) => ProgramsTypeOK
  BY DEF ShellTypes, Inv, Honest, ProgramsTypeOK, ShellTypeOK, Lines
<1> QED BY <1>1, <1>2, <1>3, <1>4, ShellTypesStep, InputTypedStep, EchoedLinesAreRun, CallsHonest,
           PTL DEF ProgramsSpec
==============================================================================
