------------------------------ MODULE UserMemory ------------------------------
(***************************************************************************)
(* The addresses and sizes a program hands to the kernel, and which memory *)
(* the kernel then reads and writes for it (process.c, the loops around it *)
(* in syscall.c).  Addresses and sizes are words and wrap round.           *)
(***************************************************************************)
EXTENDS Integers, FiniteSets

CONSTANTS Space,                    \* number of words: 2^32
          ImageBase, ImageSize,     \* where the process has its image
          StackBottom, StackTop,    \* and its stack
          PathMax,                  \* SYSCALL_PATH_MAX
          WriteChunk,               \* SYSCALL_WRITE_CHUNK
          Width, Height,            \* of the framebuffer
          PixelSize,                \* sizeof(uint32_t)
          BlitChunk                 \* SYSCALL_BLIT_CHUNK_PIXELS

ASSUME UserMemoryAssumption ==
  /\ {Space, PathMax, WriteChunk, PixelSize, BlitChunk} \subseteq Nat \ {0}
  /\ {ImageBase, ImageSize, StackBottom, StackTop, Width, Height} \subseteq Nat
  /\ ImageBase + ImageSize < Space /\ StackTop < Space /\ StackBottom <= StackTop

Words == 0 .. Space - 1
Image == ImageBase .. ImageBase + ImageSize - 1
Stack == StackBottom .. StackTop - 1
OwnMemory == Image \cup Stack

(* The n bytes at a, as memcpy goes through them. *)
Bytes(a, n) == {(a + i) % Space : i \in 0 .. n - 1}

(* Mutant of ValidRange: the sum is not looked at for an overflow. *)
ValidRangeWraps(a, n) ==
  LET end == (a + n) % Space
  IN  \/ a >= ImageBase /\ end <= ImageBase + ImageSize
      \/ a >= StackBottom /\ end <= StackTop

(* process_validate_user_range *)
ValidRange(a, n) ==
  /\ a + n < Space
  /\ \/ a >= ImageBase /\ a + n <= ImageBase + ImageSize
     \/ a >= StackBottom /\ a + n <= StackTop

(* process_copy_user_string of a string whose NUL is nul bytes after a: the
   bytes are looked at one by one, as long as they are the program's. *)
InString(a, nul, i) ==
  i <= nul /\ i + 1 < PathMax /\ \A j \in 0 .. i : ValidRange((a + j) % Space, 1)

StringBytes(a, nul) == {(a + i) % Space : i \in {j \in 0 .. PathMax : InString(a, nul, j)}}
StringCopied(a, nul) == a # 0 /\ InString(a, nul, nul)

(* A copy in chunks: the k-th begins k * chunk bytes after a. *)
ChunkAt(a, chunk, k) == (a + (k * chunk)) % Space
ChunkLength(n, chunk, k) == IF n - (k * chunk) < chunk THEN n - (k * chunk) ELSE chunk
Chunks(n, chunk) == IF n = 0 THEN {} ELSE 0 .. (n - 1) \div chunk

(* The chunks copied before one that is not the program's stops the loop. *)
CopiedChunks(a, n, chunk) ==
  {k \in Chunks(n, chunk) :
     \A j \in 0 .. k : ValidRange(ChunkAt(a, chunk, j), ChunkLength(n, chunk, j))}

CopiedBytes(a, n, chunk) ==
  UNION {Bytes(ChunkAt(a, chunk, k), ChunkLength(n, chunk, k)) : k \in CopiedChunks(a, n, chunk)}
-----------------------------------------------------------------------------
Screen == (0 .. Width - 1) \X (0 .. Height - 1)

(* Mutant of RectValid: the sums are not looked at for an overflow. *)
RectValidWraps(x, y, w, h) ==
  w # 0 /\ h # 0 /\ (x + w) % Space <= Width /\ (y + h) % Space <= Height

(* syscall_framebuffer_rect_valid *)
RectValid(x, y, w, h) ==
  /\ w # 0 /\ h # 0
  /\ x + w < Space /\ y + h < Space
  /\ x + w <= Width /\ y + h <= Height

(* framebuffer_draw_rect, whose put_pixel leaves out what is off the screen. *)
Pixels(x, y, w, h) ==
  {<<(x + i) % Space, (y + j) % Space>> : i \in 0 .. w - 1, j \in 0 .. h - 1} \cap Screen

(* syscall_fb_blit goes through the pieces of each row, and the rows one after
   the other; each piece is copied from the program and then drawn. *)
Pieces(w, h) == (0 .. h - 1) \X Chunks(w, BlitChunk)
NotAfter(p, q) == p[1] < q[1] \/ (p[1] = q[1] /\ p[2] <= q[2])
PieceBytes(w, p) == ChunkLength(w, BlitChunk, p[2]) * PixelSize
PieceAt(source, stride, p) == (source + (p[1] * stride) + (p[2] * BlitChunk * PixelSize)) % Space

BlitPieces(w, h, source, stride) ==
  {p \in Pieces(w, h) : \A q \in Pieces(w, h) :
     NotAfter(q, p) => ValidRange(PieceAt(source, stride, q), PieceBytes(w, q))}

BlitBytes(w, h, source, stride) ==
  UNION {Bytes(PieceAt(source, stride, p), PieceBytes(w, p)) : p \in BlitPieces(w, h, source, stride)}

BlitPixels(x, y, w, h, source, stride) ==
  UNION {Pixels(x + (p[2] * BlitChunk), y + p[1], ChunkLength(w, BlitChunk, p[2]), 1) :
           p \in BlitPieces(w, h, source, stride)}
==============================================================================
