---------------------------- MODULE Memory_proofs ----------------------------
(***************************************************************************)
(* The kernel's data at addresses that are not a window's is out of the    *)
(* programs' reach, for every size of the heap and of the pages and        *)
(* wherever the windows are. The argument is that the heap only grows:     *)
(* everything given out so far, a block or a page for a program, ends at   *)
(* or below current, and the next begins there or above.  So a block is    *)
(* never cut from the frame of a page (FramesApart); and out of the        *)
(* windows, where every address maps to itself, it also lies where it was  *)
(* cut.                                                                    *)
(*                                                                         *)
(* A block outside of the windows keeps what it holds: there every address *)
(* still maps to itself (Mapping), no two blocks overlap (Apart), and what *)
(* is written through the windows goes to frames of the programs', in      *)
(* which no block has a part.                                              *)
(***************************************************************************)
EXTENDS Memory, WellFoundedInduction, TLAPS

(* The frame ends at or below current. *)
Behind(frame) == (frame + 1) * PageSize <= current

(* No two pages of programs share a frame, and none is where kmalloc cut a
   block. *)
FramesApart ==
  /\ \A p, q \in UserPages : table[p].frame = table[q].frame => p = q
  /\ \A p \in UserPages, b \in blocks : \A a \in Units(b) : Page(a) # table[p].frame

HeapInv ==
  /\ current \in Nat
  /\ \A b \in blocks : b.from \in Nat /\ b.to \in Nat /\ b.to <= current
  /\ \A p \in DOMAIN table : table[p].frame \in Nat
  /\ \A p \in UserPages : Behind(table[p].frame)
  /\ FramesApart
-----------------------------------------------------------------------------
LEMMA PageMonotone ==
  ASSUME NEW a \in Nat, NEW frame \in Nat, (frame + 1) * PageSize <= a
  PROVE  Page(a) > frame
<1> USE MemoryAssumption
<1>1. a = PageSize * (a \div PageSize) + (a % PageSize) /\ a % PageSize < PageSize
      /\ a \div PageSize \in Int
  OBVIOUS
<1> SUFFICES ASSUME a \div PageSize <= frame PROVE FALSE
  BY <1>1 DEF Page
<1>2. PageSize * (a \div PageSize) <= PageSize * frame
  BY <1>1
<1>3. (frame + 1) * PageSize = PageSize * frame + PageSize
  OBVIOUS
<1> QED BY <1>1, <1>2, <1>3

LEMMA PageBefore ==
  ASSUME NEW a \in Nat, NEW q \in Nat, a < q * PageSize
  PROVE  Page(a) < q
<1> USE MemoryAssumption
<1>1. a = PageSize * (a \div PageSize) + (a % PageSize) /\ a % PageSize >= 0
      /\ a \div PageSize \in Int
  OBVIOUS
<1> SUFFICES ASSUME a \div PageSize >= q PROVE FALSE
  BY <1>1 DEF Page
<1>2. PageSize * (a \div PageSize) >= PageSize * q
  BY <1>1
<1> QED BY <1>1, <1>2

LEMMA AlignUpFacts ==
  ASSUME NEW a \in Nat
  PROVE  /\ AlignUp(a) \in Nat /\ AlignUp(a) >= a
         /\ Page(AlignUp(a)) \in Nat /\ Page(AlignUp(a)) * PageSize = AlignUp(a)
<1> USE MemoryAssumption
<1> DEFINE n == a + PageSize - 1
           q == n \div PageSize
<1>1. n \in Nat /\ q \in Nat /\ n = PageSize * q + (n % PageSize) /\ n % PageSize <= PageSize - 1
      /\ n % PageSize \in Nat
  OBVIOUS
<1>2. AlignUp(a) = q * PageSize
  BY DEF AlignUp
<1>3. q * PageSize \in Nat /\ q * PageSize >= a
  BY <1>1
<1>4. (q * PageSize) \div PageSize = q
  BY <1>1
<1> QED BY <1>1, <1>2, <1>3, <1>4 DEF Page

-----------------------------------------------------------------------------
LEMMA InitHeap == Init => HeapInv
BY MemoryAssumption DEF Init, HeapInv, UserPages, FramesApart

(* Nothing given out changes: so what is true of it stays true. *)
LEMMA HeapSame ==
  ASSUME HeapInv, UNCHANGED <<current, blocks, table>>
  PROVE  HeapInv'
BY DEF HeapInv, UserPages, FramesApart, Behind

LEMMA KmallocHeap ==
  ASSUME HeapInv, NEW size \in Sizes, Kmalloc(size)
  PROVE  HeapInv'
<1> USE MemoryAssumption
<1> DEFINE new == Block(current, size)
<1>1. /\ current \in Nat /\ size \in Nat \ {0} /\ current' = current + size
      /\ blocks' = blocks \cup {new} /\ UNCHANGED table
  BY DEF HeapInv, Kmalloc
<1>2. UserPages' = UserPages
  BY <1>1 DEF UserPages
<1>3. \A p \in UserPages : table[p].frame \in Nat
  BY DEF HeapInv, UserPages
<1>4. \A p \in UserPages : Behind(table[p].frame)'
  <2> SUFFICES ASSUME NEW p \in UserPages
              PROVE  (table[p].frame + 1) * PageSize <= current + size
    BY <1>1 DEF Behind
  <2>1. (table[p].frame + 1) * PageSize \in Nat
    BY <1>3
  <2>2. (table[p].frame + 1) * PageSize <= current
    BY DEF HeapInv, Behind
  <2> QED BY <1>1, <2>1, <2>2
<1>5. \A p \in UserPages : \A a \in Units(new) : Page(a) # table[p].frame
  <2> SUFFICES ASSUME NEW p \in UserPages, NEW a \in Units(new)
              PROVE  Page(a) # table[p].frame
    OBVIOUS
  <2>1. a \in Nat /\ a >= current
    BY <1>1 DEF Units, Block
  <2>2. (table[p].frame + 1) * PageSize \in Nat /\ (table[p].frame + 1) * PageSize <= current
    BY <1>3 DEF HeapInv, Behind
  <2>3. Page(a) > table[p].frame
    BY <1>1, <1>3, <2>1, <2>2, PageMonotone
  <2> QED BY <1>3, <2>1, <2>3 DEF Page
<1>6. new.from \in Nat /\ new.to \in Nat /\ new.to <= current'
  BY <1>1 DEF Block
<1>7. \A b \in blocks : b.to <= current'
  BY <1>1 DEF HeapInv
<1>8. FramesApart'
  BY <1>1, <1>2, <1>5 DEF FramesApart, HeapInv
<1> QED BY <1>1, <1>2, <1>4, <1>6, <1>7, <1>8 DEF HeapInv

LEMMA MapUserPageHeap ==
  ASSUME HeapInv, MapUserPage
  PROVE  HeapInv'
<1> USE MemoryAssumption
<1> DEFINE start == AlignUp(current)
           frame == Page(start)
           page  == NextWindowPage
<1>1. /\ current \in Nat /\ current' = start + PageSize /\ UNCHANGED blocks
      /\ table' = [table EXCEPT ![page] = [frame |-> frame, user |-> TRUE]]
  BY DEF HeapInv, MapUserPage
<1>2. start \in Nat /\ start >= current /\ frame \in Nat /\ frame * PageSize = start
  BY <1>1, AlignUpFacts
<1> HIDE DEF start, frame, page
<1>3. \A p \in DOMAIN table' :
        \/ p = page /\ table'[p] = [frame |-> frame, user |-> TRUE]
        \/ p # page /\ p \in DOMAIN table /\ table'[p] = table[p]
  BY <1>1
<1>4. \A p \in UserPages' : p # page => p \in UserPages
  BY <1>3 DEF UserPages
<1>5. \A p \in UserPages : /\ table[p].frame \in Nat
                          /\ (table[p].frame + 1) * PageSize \in Nat
                          /\ (table[p].frame + 1) * PageSize <= current
  BY DEF HeapInv, UserPages, Behind
<1>6. \A p \in UserPages : table[p].frame < frame
  <2> SUFFICES ASSUME NEW p \in UserPages PROVE table[p].frame < frame
    OBVIOUS
  <2>1. (table[p].frame + 1) * PageSize <= start
    BY <1>1, <1>2, <1>5
  <2> QED BY <1>2, <1>5, <2>1, PageMonotone DEF frame
<1>7. (frame + 1) * PageSize = current'
  BY <1>1, <1>2
<1>8. \A p \in UserPages' : Behind(table[p].frame)'
  <2> SUFFICES ASSUME NEW p \in UserPages'
              PROVE  (table'[p].frame + 1) * PageSize <= current'
    BY DEF Behind
  <2>1. CASE p = page
    BY <2>1, <1>1, <1>2, <1>3, <1>7 DEF UserPages
  <2>2. CASE p # page
    BY <2>2, <1>1, <1>2, <1>3, <1>4, <1>5 DEF UserPages
  <2> QED BY <2>1, <2>2
<1>9. \A b \in blocks : \A a \in Units(b) : Page(a) < frame
  <2> SUFFICES ASSUME NEW b \in blocks, NEW a \in Units(b) PROVE Page(a) < frame
    OBVIOUS
  <2>1. a \in Nat /\ a < frame * PageSize
    BY <1>1, <1>2 DEF Units, HeapInv
  <2> QED BY <1>2, <2>1, PageBefore
<1>10. FramesApart'
  <2>1. ASSUME NEW p \in UserPages', NEW q \in UserPages', table'[p].frame = table'[q].frame
        PROVE  p = q
    <3>1. CASE p = page /\ q # page
      BY <3>1, <2>1, <1>2, <1>3, <1>4, <1>5, <1>6 DEF UserPages
    <3>2. CASE p # page /\ q = page
      BY <3>2, <2>1, <1>2, <1>3, <1>4, <1>5, <1>6 DEF UserPages
    <3>3. CASE p # page /\ q # page
      BY <3>3, <2>1, <1>3, <1>4 DEF HeapInv, FramesApart, UserPages
    <3> QED BY <3>1, <3>2, <3>3
  <2>2. ASSUME NEW p \in UserPages', NEW b \in blocks, NEW a \in Units(b)
        PROVE  Page(a) # table'[p].frame
    <3>1. CASE p = page
      <4>1. table'[p].frame = frame
        BY <3>1, <1>3 DEF UserPages
      <4> QED BY <4>1, <1>2, <1>9
    <3>2. CASE p # page
      BY <3>2, <1>3, <1>4 DEF HeapInv, FramesApart, UserPages
    <3> QED BY <3>1, <3>2
  <2> QED BY <2>1, <2>2, <1>1 DEF FramesApart
<1>11. /\ current' \in Nat
       /\ \A b \in blocks' : b.from \in Nat /\ b.to \in Nat /\ b.to <= current'
  BY <1>1, <1>2 DEF HeapInv
<1>12. \A p \in DOMAIN table' : table'[p].frame \in Nat
  <2> SUFFICES ASSUME NEW p \in DOMAIN table'
              PROVE  table'[p].frame \in Nat
    OBVIOUS
  <2>1. CASE p = page
    BY <2>1, <1>2, <1>3
  <2>2. CASE p # page
    BY <2>2, <1>3 DEF HeapInv
  <2> QED BY <2>1, <2>2
<1> QED BY <1>8, <1>10, <1>11, <1>12 DEF HeapInv

LEMMA NextHeap ==
  ASSUME HeapInv, [Next]_vars
  PROVE  HeapInv'
<1>1. CASE PagingInitialize
  <2>1. UserPages' = {} /\ UNCHANGED <<current, blocks>>
    BY <1>1 DEF PagingInitialize, UserPages
  <2>2. Page(IdentityEnd - 1) \in Int
    BY MemoryAssumption DEF IdentityEnd, HeapEnd, Page
  <2>3. \A p \in DOMAIN table' : table'[p] = [frame |-> p, user |-> FALSE] /\ p \in Nat
    BY <1>1, <2>2 DEF PagingInitialize
  <2> QED BY <2>1, <2>3 DEF HeapInv, FramesApart
<1>2. CASE MapUserPage
  BY <1>2, MapUserPageHeap
<1>3. CASE Panic \/ Booted
  BY <1>3, HeapSame DEF Panic, Booted
<1>4. CASE Exec
  BY <1>4, HeapSame DEF Exec, ExecLoad, ExecPrepareStack, ProgramWrites
<1>5. ASSUME NEW size \in Sizes, Kmalloc(size) PROVE HeapInv'
  BY <1>5, KmallocHeap
<1>6. CASE UNCHANGED vars
  BY <1>6, HeapSame DEF vars
<1> QED BY <1>1, <1>2, <1>3, <1>4, <1>5, <1>6 DEF Next, Boot
-----------------------------------------------------------------------------
(* Where the units of a block are read and written. *)

LEMMA PageParts ==
  ASSUME NEW a \in Nat
  PROVE  /\ Page(a) \in Nat /\ a % PageSize \in 0 .. PageSize - 1
         /\ a = Page(a) * PageSize + (a % PageSize)
         /\ a < (Page(a) + 1) * PageSize /\ Page(a) * PageSize <= a
<1> USE MemoryAssumption
<1>1. a = PageSize * (a \div PageSize) + (a % PageSize) /\ a % PageSize \in 0 .. PageSize - 1
      /\ a \div PageSize \in Nat
  OBVIOUS
<1>2. (Page(a) + 1) * PageSize = PageSize * Page(a) + PageSize
  BY <1>1 DEF Page
<1>3. Page(a) * PageSize = PageSize * Page(a)
  BY <1>1 DEF Page
<1> QED BY <1>1, <1>2, <1>3 DEF Page

LEMMA PageNotBelow ==
  ASSUME NEW a \in Nat, NEW q \in Nat, q * PageSize <= a
  PROVE  q <= Page(a)
<1>1. CASE q = 0
  BY <1>1, PageParts
<1>2. CASE q # 0
  <2>1. q - 1 \in Nat /\ ((q - 1) + 1) * PageSize <= a
    BY <1>2
  <2>2. Page(a) > q - 1 /\ Page(a) \in Nat
    BY <2>1, PageMonotone, PageParts
  <2> QED BY <2>2
<1> QED BY <1>1, <1>2

LEMMA PageOrder ==
  ASSUME NEW a \in Nat, NEW b \in Nat, a <= b
  PROVE  Page(a) <= Page(b)
<1>1. Page(a) \in Nat /\ Page(a) * PageSize <= a
  BY PageParts
<1>2. PageSize \in Nat
  BY MemoryAssumption
<1>3. Page(a) * PageSize \in Nat
  BY <1>1, <1>2
<1>4. Page(a) * PageSize <= b
  BY <1>1, <1>3
<1> QED BY <1>1, <1>4, PageNotBelow

(* A region of whole pages has all of a page or nothing of it. *)
LEMMA WholePages ==
  ASSUME NEW k \in Nat, NEW m \in Nat, NEW w \in Nat, NEW a \in Nat,
         k * PageSize <= w, w < m * PageSize, Page(a) = Page(w)
  PROVE  k * PageSize <= a /\ a < m * PageSize
<1> USE MemoryAssumption
<1>1. k <= Page(w) /\ Page(w) < m
  BY PageNotBelow, PageBefore
<1>2. Page(a) \in Nat /\ Page(a) * PageSize <= a /\ a < (Page(a) + 1) * PageSize
  BY PageParts
<1>3. k * PageSize <= Page(a) * PageSize
  BY <1>1, <1>2
<1>4. (Page(a) + 1) * PageSize <= m * PageSize
  BY <1>1, <1>2
<1> QED BY <1>2, <1>3, <1>4

LEMMA Multiple ==
  ASSUME NEW a \in Nat, a % PageSize = 0
  PROVE  Page(a) \in Nat /\ a = Page(a) * PageSize
<1>1. Page(a) \in Nat /\ a = Page(a) * PageSize + (a % PageSize)
  BY PageParts
<1>2. PageSize \in Nat
  BY MemoryAssumption
<1>3. Page(a) * PageSize \in Nat
  BY <1>1, <1>2
<1> QED BY <1>1, <1>3

(* The windows are made of whole pages. *)
LEMMA WindowPages ==
  ASSUME NEW w \in Windows, NEW a \in Nat, Page(a) = Page(w)
  PROVE  a \in Windows
<1> USE MemoryAssumption
<1>1. /\ ImageBase \in Nat /\ ImageSize \in Nat /\ StackTop \in Nat /\ StackSize \in Nat
      /\ StackSize <= StackTop
  OBVIOUS
<1>2. CASE w \in Image
  <2> DEFINE k == Page(ImageBase)
             n == Page(ImageSize)
  <2>1. k \in Nat /\ n \in Nat /\ ImageBase = k * PageSize /\ ImageSize = n * PageSize
    BY <1>1, Multiple
  <2> HIDE DEF k, n
  <2>2. ImageBase + ImageSize = (k + n) * PageSize
    BY <2>1
  <2>3. w \in Nat /\ ImageBase <= w /\ w < ImageBase + ImageSize
    BY <1>1, <1>2 DEF Image
  <2>4. k * PageSize <= a /\ a < (k + n) * PageSize
    <3>1. k + n \in Nat /\ k * PageSize <= w /\ w < (k + n) * PageSize
      BY <2>1, <2>2, <2>3
    <3> QED BY <2>1, <2>3, <3>1, WholePages
  <2> QED BY <1>1, <2>1, <2>2, <2>4 DEF Windows, Image
<1>3. CASE w \in Stack
  <2> DEFINE k == Page(StackTop)
             n == Page(StackSize)
  <2>1. k \in Nat /\ n \in Nat /\ StackTop = k * PageSize /\ StackSize = n * PageSize
    BY <1>1, Multiple
  <2> HIDE DEF k, n
  <2>2. n <= k
    <3> SUFFICES ASSUME k + 1 <= n PROVE FALSE
      BY <2>1
    <3>1. (k + 1) * PageSize <= n * PageSize
      BY <2>1
    <3>2. (k + 1) * PageSize = k * PageSize + PageSize
      BY <2>1
    <3> QED BY <1>1, <2>1, <3>1, <3>2
  <2>3. k - n \in Nat /\ StackBottom = (k - n) * PageSize
    BY <1>1, <2>1, <2>2 DEF StackBottom
  <2>4. w \in Nat /\ StackBottom <= w /\ w < StackTop
    BY <1>1, <1>3 DEF Stack, StackBottom
  <2>5. (k - n) * PageSize <= a /\ a < k * PageSize
    <3>1. (k - n) * PageSize <= w /\ w < k * PageSize
      BY <2>1, <2>3, <2>4
    <3> QED BY <2>1, <2>3, <2>4, <3>1, WholePages
  <2> QED BY <1>1, <2>1, <2>3, <2>5 DEF Windows, Stack, StackBottom
<1> QED BY <1>2, <1>3 DEF Windows
-----------------------------------------------------------------------------
(* The invariant of the mapping and of what is written through it: a page is
   mapped to itself, or belongs to a window and to programs; blocks do not
   overlap; and one outside the windows, which is therefore where its address
   says, is as it was filled in. *)

Top == Page(IdentityEnd - 1)

Mapping ==
  /\ phase = "user" => DOMAIN table = 0 .. Top
  /\ \A p \in DOMAIN table : p \notin UserPages => table[p].frame = p
  /\ UserPages \subseteq {Page(w) : w \in Windows}

Apart == \A b, c \in blocks : b = c \/ b.to <= c.from \/ c.to <= b.from

OutsideKept ==
  \A b \in blocks : Units(b) \cap Windows = {} => \A a \in Units(b) : memory[a] = b.from

MemInv == HeapInv /\ TypeOK /\ Mapping /\ Apart /\ OutsideKept

LEMMA SizesOfMemory ==
  /\ HeapStart \in Nat /\ HeapEnd \in Nat /\ HeapEnd <= IdentityEnd
  /\ HeapStart <= HeapEnd /\ IdentityEnd \in Nat \ {0} /\ Top \in Nat
<1>1. /\ HeapStart \in Nat \ {0} /\ HeapSize \in Nat /\ MinIdentity \in Nat
  BY MemoryAssumption
<1>2. HeapEnd \in Nat /\ HeapStart <= HeapEnd /\ HeapEnd # 0
  BY <1>1 DEF HeapEnd
<1>3. IdentityEnd \in Nat \ {0} /\ HeapEnd <= IdentityEnd
  BY <1>1, <1>2 DEF IdentityEnd
<1>4. Top \in Nat
  BY <1>3, PageParts DEF Top
<1> QED BY <1>1, <1>2, <1>3, <1>4

LEMMA PagesInMap ==
  ASSUME NEW a \in 0 .. IdentityEnd - 1
  PROVE  Page(a) \in 0 .. Top
<1>1. a \in Nat /\ IdentityEnd - 1 \in Nat /\ a <= IdentityEnd - 1
  BY SizesOfMemory
<1> QED BY <1>1, PageOrder, PageParts DEF Top

(* An address of a page that is mapped to itself is that of the memory. *)
LEMMA Identity ==
  ASSUME MemInv, NEW a \in 0 .. IdentityEnd - 1, Page(a) \notin UserPages
  PROVE  Physical(table, a) = a
<1>1. a \in Nat /\ a = Page(a) * PageSize + (a % PageSize)
  BY PageParts
<1>2. CASE DOMAIN table = {}
  BY <1>2 DEF Physical
<1>3. CASE DOMAIN table # {}
  <2>1. Page(a) \in DOMAIN table
    BY <1>3, PagesInMap DEF MemInv, TypeOK, Top
  <2>2. table[Page(a)].frame = Page(a)
    BY <2>1 DEF MemInv, Mapping
  <2> QED BY <1>1, <1>3, <2>2 DEF Physical
<1> QED BY <1>2, <1>3

(* The unit an address of a program's page leads to is in the page's frame. *)
LEMMA InFrame ==
  ASSUME MemInv, NEW a \in Nat, Page(a) \in UserPages
  PROVE  Physical(table, a) \in Nat /\ Page(Physical(table, a)) = table[Page(a)].frame
<1> DEFINE frame == table[Page(a)].frame
           r == a % PageSize
           u == frame * PageSize + r
<1>1. frame \in Nat /\ DOMAIN table # {}
  BY DEF MemInv, HeapInv, UserPages
<1>2. PageSize \in Nat \ {0} /\ r \in 0 .. PageSize - 1
  BY MemoryAssumption, PageParts
<1>3. Physical(table, a) = u
  BY <1>1 DEF Physical
<1> HIDE DEF frame, r
<1>4. frame * PageSize \in Nat
  BY <1>1, <1>2
<1>5. (frame + 1) * PageSize = frame * PageSize + PageSize
  BY <1>1, <1>2
<1>6. u \in Nat /\ frame * PageSize <= u /\ u < (frame + 1) * PageSize
  BY <1>2, <1>4, <1>5
<1>7. frame <= Page(u) /\ Page(u) < frame + 1 /\ Page(u) \in Nat
  <2> HIDE DEF u
  <2> QED BY <1>1, <1>6, PageNotBelow, PageBefore, PageParts
<1>8. Page(u) = frame
  BY <1>1, <1>7
<1> QED BY <1>3, <1>6, <1>8 DEF frame

LEMMA BlockUnits ==
  ASSUME TypeOK, NEW b \in blocks, NEW a \in Units(b)
  PROVE  a \in Nat /\ a \in 0 .. IdentityEnd - 1 /\ a < b.to /\ b.from <= a
BY SizesOfMemory DEF TypeOK, Units

(* The only address that leads to a unit of a block is the unit's own. *)
LEMMA OnlyItsAddress ==
  ASSUME MemInv, NEW b \in blocks, NEW a \in Units(b),
         NEW x \in 0 .. IdentityEnd - 1, Physical(table, x) = a
  PROVE  x = a /\ Page(x) \notin UserPages
<1>1. CASE Page(x) \in UserPages
  <2>1. x \in Nat
    OBVIOUS
  <2>2. Page(a) = table[Page(x)].frame
    BY <1>1, <2>1, InFrame
  <2> QED BY <1>1, <2>2 DEF MemInv, HeapInv, FramesApart
<1>2. CASE Page(x) \notin UserPages
  BY <1>2, Identity
<1> QED BY <1>1, <1>2

(* So a write to other addresses leaves the block alone. *)
LEMMA WriteElsewhere ==
  ASSUME MemInv, NEW A \in SUBSET (0 .. IdentityEnd - 1), NEW value, NEW b \in blocks,
         NEW a \in Units(b), a \notin A \/ Page(a) \in UserPages
  PROVE  Written(table, A, value)[a] = memory[a]
<1>1. a \in DOMAIN memory
  BY BlockUnits DEF MemInv, TypeOK
<1>2. \A x \in A : Physical(table, x) # a
  BY OnlyItsAddress
<1> QED BY <1>1, <1>2 DEF Written

(* A write has its type. *)
LEMMA WrittenType ==
  ASSUME TypeOK, NEW A, NEW value \in {Zero, Program} \cup (HeapStart .. HeapEnd)
  PROVE  Written(table, A, value) \in
           [0 .. IdentityEnd - 1 -> {Zero, Program} \cup (HeapStart .. HeapEnd)]
BY DEF Written, TypeOK

(* A block outside of the windows reads as it lies in memory. *)
LEMMA ReadsAsItLies == MemInv => BlocksOutsideWindowsKept
<1> SUFFICES ASSUME MemInv, NEW b \in blocks, Units(b) \cap Windows = {}, NEW a \in Units(b)
            PROVE  memory[Physical(table, a)] = b.from
  BY DEF BlocksOutsideWindowsKept, Keeps
<1>1. a \in Nat /\ a \in 0 .. IdentityEnd - 1 /\ a \notin Windows
  BY BlockUnits DEF MemInv
<1>2. Page(a) \notin UserPages
  BY <1>1, WindowPages DEF MemInv, Mapping
<1>3. Physical(table, a) = a
  BY <1>1, <1>2, Identity
<1> QED BY <1>3 DEF MemInv, OutsideKept

(* And it lies in no frame of a program's. *)
LEMMA OwnAsItLies == MemInv => ProgramMemoryIsOwn
<1> SUFFICES ASSUME MemInv PROVE ProgramMemoryIsOwn
  OBVIOUS
<1>1. ASSUME NEW p \in UserPages, NEW b \in blocks, NEW a \in Units(b) \ Windows
      PROVE  Page(Physical(table, a)) # table[p].frame
  <2>1. a \in Nat /\ a \in 0 .. IdentityEnd - 1 /\ a \notin Windows
    BY BlockUnits DEF MemInv
  <2>2. Page(a) \notin UserPages
    BY <2>1, WindowPages DEF MemInv, Mapping
  <2>3. Physical(table, a) = a
    BY <2>1, <2>2, Identity
  <2>4. Page(a) # table[p].frame
    BY DEF MemInv, HeapInv, FramesApart
  <2> QED BY <2>3, <2>4
<1>2. \A p, q \in UserPages : table[p].frame = table[q].frame => p = q
  BY DEF MemInv, HeapInv, FramesApart
<1> QED BY <1>1, <1>2 DEF ProgramMemoryIsOwn
-----------------------------------------------------------------------------
LEMMA InitMem == Init => MemInv
<1> SUFFICES ASSUME Init PROVE MemInv
  OBVIOUS
<1>1. table = << >> /\ blocks = {} /\ phase = "initrd" /\ current = HeapStart
      /\ memory = [a \in 0 .. IdentityEnd - 1 |-> Zero]
  BY DEF Init
<1>2. DOMAIN table = {}
  BY <1>1
<1>3. TypeOK
  BY <1>1, <1>2, SizesOfMemory DEF TypeOK, Phases
<1>4. Mapping /\ Apart /\ OutsideKept
  BY <1>1, <1>2 DEF Mapping, UserPages, Apart, OutsideKept
<1> QED BY <1>3, <1>4, InitHeap DEF MemInv

(* exec and the programs write to the windows. *)
LEMMA ExecMem ==
  ASSUME MemInv, HeapInv', NEW A \in SUBSET (0 .. IdentityEnd - 1),
         \/ A \subseteq Windows
         \/ \A a \in A : Page(a) \in UserPages,
         memory' = Written(table, A, Program), UNCHANGED <<phase, current, blocks, table>>
  PROVE  MemInv'
<1>1. TypeOK'
  BY WrittenType DEF MemInv, TypeOK
<1>2. Mapping' /\ Apart'
  BY DEF MemInv, Mapping, Apart, UserPages
<1>3. ASSUME NEW b \in blocks, Units(b) \cap Windows = {}, NEW a \in Units(b)
      PROVE  memory'[a] = b.from
  <2>1. memory[a] = b.from
    BY <1>3 DEF MemInv, OutsideKept
  <2>2. a \notin A \/ Page(a) \in UserPages
    BY <1>3
  <2> QED BY <2>1, <2>2, WriteElsewhere
<1>4. OutsideKept'
  BY <1>3 DEF OutsideKept
<1> QED BY <1>1, <1>2, <1>4 DEF MemInv

LEMMA KmallocMem ==
  ASSUME MemInv, HeapInv', NEW size \in Sizes, Kmalloc(size)
  PROVE  MemInv'
<1> DEFINE new == Block(current, size)
<1>1. /\ current \in HeapStart .. HeapEnd /\ size \in Nat \ {0} /\ current + size <= HeapEnd
      /\ current' = current + size /\ blocks' = blocks \cup {new}
      /\ memory' = Written(table, Units(new), current) /\ UNCHANGED <<phase, table>>
  BY MemoryAssumption DEF MemInv, TypeOK, Kmalloc
<1>2. new.from = current /\ new.to = current + size
  BY DEF Block
<1>3. Units(new) \in SUBSET (0 .. IdentityEnd - 1)
  BY <1>1, <1>2, SizesOfMemory DEF Units
<1>4. \A b \in blocks : b.from \in Nat /\ b.to \in Nat /\ b.to <= current
  BY DEF MemInv, HeapInv
<1>5. TypeOK'
  <2>1. new \in [from : HeapStart .. HeapEnd, to : HeapStart .. HeapEnd]
    BY <1>1, SizesOfMemory DEF Block
  <2>2. current' \in HeapStart .. HeapEnd
    BY <1>1, SizesOfMemory
  <2>3. memory' \in [0 .. IdentityEnd - 1 -> {Zero, Program} \cup (HeapStart .. HeapEnd)]
    BY <1>1, WrittenType DEF MemInv
  <2> QED BY <1>1, <2>1, <2>2, <2>3 DEF MemInv, TypeOK
<1>6. Mapping'
  BY <1>1 DEF MemInv, Mapping, UserPages
<1>7. Apart'
  <2> SUFFICES ASSUME NEW b \in blocks', NEW c \in blocks', b # c
              PROVE  b.to <= c.from \/ c.to <= b.from
    BY DEF Apart
  <2>1. CASE b \in blocks /\ c \in blocks
    BY <2>1 DEF MemInv, Apart
  <2>2. CASE b = new \/ c = new
    BY <1>1, <1>2, <1>4, <2>2
  <2> QED BY <1>1, <2>1, <2>2
<1>8. ASSUME NEW b \in blocks, Units(b) \cap Windows = {}, NEW a \in Units(b)
      PROVE  memory'[a] = b.from
  <2>1. a \notin Units(new)
    BY <1>1, <1>2, <1>4 DEF Units
  <2>2. memory[a] = b.from
    BY <1>8 DEF MemInv, OutsideKept
  <2> QED BY <1>1, <1>3, <2>1, <2>2, WriteElsewhere
<1>9. ASSUME Units(new) \cap Windows = {}, NEW a \in Units(new) PROVE memory'[a] = new.from
  <2>1. a \in Nat /\ a \in 0 .. IdentityEnd - 1 /\ a \notin Windows
    BY <1>3, <1>9
  <2>2. Page(a) \notin UserPages
    BY <2>1, WindowPages DEF MemInv, Mapping
  <2>3. Physical(table, a) = a
    BY <2>1, <2>2, Identity
  <2>4. a \in DOMAIN memory
    BY <2>1 DEF MemInv, TypeOK
  <2> QED BY <1>1, <1>2, <2>3, <2>4 DEF Written
<1> HIDE DEF new
<1>10. OutsideKept'
  BY <1>1, <1>8, <1>9 DEF OutsideKept
<1> QED BY <1>5, <1>6, <1>7, <1>10 DEF MemInv

LEMMA PagingInitializeMem ==
  ASSUME MemInv, HeapInv', PagingInitialize
  PROVE  MemInv'
<1>1. /\ phase' = "user" /\ UNCHANGED <<current, blocks, memory>>
      /\ table' = [p \in 0 .. Top |-> [frame |-> p, user |-> FALSE]]
  BY DEF PagingInitialize, Top
<1>2. /\ DOMAIN table' = 0 .. Top
      /\ \A p \in 0 .. Top : table'[p].frame = p /\ table'[p].user = FALSE
  BY <1>1
<1>3. TypeOK'
  BY <1>1, <1>2 DEF MemInv, TypeOK, Phases, Top
<1>4. Mapping'
  BY <1>2 DEF Mapping, UserPages
<1>5. Apart' /\ OutsideKept'
  BY <1>1 DEF MemInv, Apart, OutsideKept
<1> QED BY <1>3, <1>4, <1>5 DEF MemInv

LEMMA SmallestOf ==
  ASSUME NEW S \in SUBSET Nat, S # {}
  PROVE  \E p \in S : \A q \in S : p <= q
<1> DEFINE R == {ss \in Nat \X Nat : ss[1] < ss[2]}
<1>1. IsWellFoundedOn(R, Nat)
  BY NatLessThanWellFounded DEF OpToRel
<1> HIDE DEF R
<1>2. PICK p \in S : \A q \in S : ~ (<<q, p>> \in R)
  BY <1>1, WFMin
<1>3. ASSUME NEW q \in S PROVE p <= q
  <2>1. ~ (<<q, p>> \in R)
    BY <1>2
  <2>2. p \in Nat /\ q \in Nat
    OBVIOUS
  <2>3. ~ (q < p)
    BY <2>1, <2>2 DEF R
  <2> QED BY <2>2, <2>3
<1> QED BY <1>3

(* The page that is mapped next is one of a window. *)
LEMMA NextIsWindowPage ==
  ASSUME ~ WindowsMapped
  PROVE  NextWindowPage \in {Page(w) : w \in Windows}
<1> DEFINE todo(W) == {Page(a) : a \in W} \ UserPages
           from == IF todo(Image) # {} THEN todo(Image) ELSE todo(Stack)
<1>1. todo(Image) # {} \/ todo(Stack) # {}
  BY DEF WindowsMapped, Windows
<1>2. from # {} /\ from \subseteq {Page(w) : w \in Windows}
  BY <1>1 DEF Windows
<1>3. \A w \in Windows : w \in Nat
  BY MemoryAssumption, SizesOfMemory
<1>4. \A w \in Windows : Page(w) \in Nat
  BY <1>3, PageParts
<1>5. from \in SUBSET Nat
  BY <1>2, <1>4
<1>6. NextWindowPage = CHOOSE p \in from : \A q \in from : p <= q
  BY DEF NextWindowPage
<1> HIDE DEF from
<1>7. \E p \in from : \A q \in from : p <= q
  BY <1>2, <1>5, SmallestOf
<1>8. NextWindowPage \in from
  BY <1>6, <1>7
<1> QED BY <1>2, <1>8

LEMMA MapUserPageMem ==
  ASSUME MemInv, HeapInv', MapUserPage
  PROVE  MemInv'
<1> DEFINE start == AlignUp(current)
           page == NextWindowPage
           new == Block(start, PageSize)
<1>1. /\ phase = "user" /\ ~ WindowsMapped /\ current' = start + PageSize
      /\ start + PageSize <= HeapEnd /\ UNCHANGED <<phase, blocks>>
      /\ memory' = Written(table, Units(new), Zero)
      /\ table' = [table EXCEPT ![page] = [frame |-> Page(start), user |-> TRUE]]
  BY DEF MapUserPage
<1>2. current \in HeapStart .. HeapEnd /\ PageSize \in Nat \ {0}
  BY MemoryAssumption DEF MemInv, TypeOK
<1>3. start \in Nat /\ start >= current
  BY <1>2, SizesOfMemory, AlignUpFacts
<1>4. page \in {Page(w) : w \in Windows}
  BY <1>1, NextIsWindowPage
<1>5. \A b \in blocks : b.from \in Nat /\ b.to \in Nat /\ b.to <= current
  BY DEF MemInv, HeapInv
<1>6. DOMAIN table = 0 .. Top
  BY <1>1 DEF MemInv, Mapping
<1> HIDE DEF start, page
<1>7. Units(new) \in SUBSET (0 .. IdentityEnd - 1)
  BY <1>1, <1>2, <1>3, SizesOfMemory DEF Units, Block
<1>8. Page(start) \in 0 .. Top
  BY <1>1, <1>2, <1>3, SizesOfMemory, PagesInMap
<1>9. \A p \in DOMAIN table' :
        \/ p = page /\ table'[p] = [frame |-> Page(start), user |-> TRUE]
        \/ p # page /\ p \in DOMAIN table /\ table'[p] = table[p]
  BY <1>1
<1>10. TypeOK'
  <2>1. current' \in HeapStart .. HeapEnd
    BY <1>1, <1>2, <1>3, SizesOfMemory
  <2>2. memory' \in [0 .. IdentityEnd - 1 -> {Zero, Program} \cup (HeapStart .. HeapEnd)]
    BY <1>1, WrittenType DEF MemInv
  <2>3. DOMAIN table' = DOMAIN table
    BY <1>1
  <2>4. \A p \in DOMAIN table : table[p].frame \in DOMAIN table /\ table[p].user \in BOOLEAN
    BY DEF MemInv, TypeOK
  <2>5. \A p \in DOMAIN table' : table'[p].frame \in DOMAIN table' /\ table'[p].user \in BOOLEAN
    <3> SUFFICES ASSUME NEW p \in DOMAIN table'
                PROVE  table'[p].frame \in DOMAIN table /\ table'[p].user \in BOOLEAN
      BY <2>3
    <3>1. CASE p = page /\ table'[p] = [frame |-> Page(start), user |-> TRUE]
      <4>1. table'[p].frame = Page(start) /\ table'[p].user = TRUE
        BY <3>1
      <4> QED BY <4>1, <1>6, <1>8
    <3>2. CASE p # page /\ p \in DOMAIN table /\ table'[p] = table[p]
      BY <3>2, <2>4
    <3> QED BY <1>9, <3>1, <3>2
  <2> QED BY <1>1, <1>6, <2>1, <2>2, <2>3, <2>5 DEF MemInv, TypeOK, Top
<1>11. Mapping'
  <2>1. DOMAIN table' = 0 .. Top
    BY <1>1, <1>6
  <2>2. \A p \in DOMAIN table' : p \notin UserPages' => table'[p].frame = p
    BY <1>9 DEF MemInv, Mapping, UserPages
  <2>3. UserPages' \subseteq {Page(w) : w \in Windows}
    BY <1>4, <1>9 DEF MemInv, Mapping, UserPages
  <2> QED BY <2>1, <2>2, <2>3 DEF Mapping
<1>12. ASSUME NEW b \in blocks, Units(b) \cap Windows = {}, NEW a \in Units(b)
       PROVE  memory'[a] = b.from
  <2>1. a \notin Units(new)
    BY <1>2, <1>3, <1>5 DEF Units, Block
  <2>2. memory[a] = b.from
    BY <1>12 DEF MemInv, OutsideKept
  <2> QED BY <1>1, <1>7, <2>1, <2>2, WriteElsewhere
<1>13. Apart' /\ OutsideKept'
  BY <1>1, <1>12 DEF MemInv, Apart, OutsideKept
<1> QED BY <1>10, <1>11, <1>13 DEF MemInv

LEMMA NextMem ==
  ASSUME MemInv, [Next]_vars
  PROVE  MemInv'
<1>1. HeapInv'
  BY NextHeap DEF MemInv
<1>2. Windows \in SUBSET (0 .. IdentityEnd - 1) /\ Image \subseteq Windows /\ Stack \subseteq Windows
  BY MemoryAssumption DEF Windows
<1>3. CASE PagingInitialize
  BY <1>1, <1>3, PagingInitializeMem
<1>4. CASE MapUserPage
  BY <1>1, <1>4, MapUserPageMem
<1>5. CASE Panic \/ Booted \/ UNCHANGED vars
  <2>1. phase' \in Phases /\ UNCHANGED <<current, blocks, table, memory>>
        /\ (phase' = "user" => phase = "user")
    BY <1>5 DEF Panic, Booted, vars, Phases, MemInv, TypeOK
  <2> QED BY <1>1, <2>1 DEF MemInv, TypeOK, Mapping, Apart, OutsideKept, UserPages
<1>6. CASE ExecLoad
  <2>1. memory' = Written(table, Image, Program) /\ UNCHANGED <<phase, current, blocks, table>>
    BY <1>6 DEF ExecLoad
  <2> QED BY <1>1, <1>2, <2>1, ExecMem
<1>7. CASE ExecPrepareStack
  <2>1. PICK from \in Stack : memory' = Written(table, from .. StackTop - 1, Program)
    BY <1>7 DEF ExecPrepareStack
  <2>2. UNCHANGED <<phase, current, blocks, table>>
    BY <1>7 DEF ExecPrepareStack
  <2>3. from .. StackTop - 1 \subseteq Stack
    BY MemoryAssumption DEF Stack, StackBottom
  <2>4. from .. StackTop - 1 \in SUBSET (0 .. IdentityEnd - 1) /\ from .. StackTop - 1 \subseteq Windows
    BY <1>2, <2>3
  <2> QED BY <1>1, <2>1, <2>2, <2>4, ExecMem
<1>8. CASE ProgramWrites
  <2>1. PICK a \in {b \in DOMAIN memory : Page(b) \in UserPages} :
          memory' = Written(table, {a}, Program)
    BY <1>8 DEF ProgramWrites
  <2>2. UNCHANGED <<phase, current, blocks, table>>
    BY <1>8 DEF ProgramWrites
  <2>3. {a} \in SUBSET (0 .. IdentityEnd - 1)
    BY <2>1 DEF MemInv, TypeOK
  <2>4. \A x \in {a} : Page(x) \in UserPages
    BY <2>1
  <2> QED BY <1>1, <2>1, <2>2, <2>3, <2>4, ExecMem
<1>9. ASSUME NEW size \in Sizes, Kmalloc(size) PROVE MemInv'
  BY <1>1, <1>9, KmallocMem
<1> QED BY <1>3, <1>4, <1>5, <1>6, <1>7, <1>8, <1>9 DEF Next, Boot, Exec

LEMMA MemInvariant == Spec => []MemInv
BY InitMem, NextMem, PTL DEF Spec

(* The heap ends where memory_initialize said, within the memory that is
   mapped, and every page leads to a frame of it (memory.c, paging.c). *)
THEOREM MemoryTyped == Spec => []TypeOK
<1>1. MemInv => TypeOK
  BY DEF MemInv
<1> QED BY <1>1, MemInvariant, PTL

(* A program's pages are its own (memory.c, paging.c): they have different
   frames, and no part of a node or a file that lies at another address than
   theirs is in one of them, where the page table says that it lies; for every
   size and place of heap, image and stack. *)
THEOREM ProgramMemoryPrivate == Spec => []ProgramMemoryIsOwn
BY OwnAsItLies, MemInvariant, PTL

(* Whatever exec and programs write, a node or a file's data that lies at no
   address of the user image or stack reads as it was filled in (memory.c,
   paging.c, exec.c), for every size and place of heap, image and stack. *)
THEOREM BlocksKeptOutside == Spec => []BlocksOutsideWindowsKept
BY ReadsAsItLies, MemInvariant, PTL
===============================================================================
