--------------------------------- MODULE Ring ---------------------------------
(***************************************************************************)
(* The ring buffer written twice in the kernel: console.c keeps typed      *)
(* characters in one, mouse.c keeps mouse events in another.  An interrupt *)
(* handler pushes, a system call reads; both run with interrupts disabled  *)
(* (every gate in the IDT is an interrupt gate), so each is one step.      *)
(***************************************************************************)
EXTENDS Naturals, Sequences

CONSTANTS Capacity,   \* CONSOLE_INPUT_CAPACITY, MOUSE_QUEUE_CAPACITY
          Values,     \* the characters or events pushed
          Zero,       \* what a slot of static storage holds before its first push
          Requests    \* how many values a reader may ask for

ASSUME CapacityAssumption == Capacity \in Nat \ {0}
ASSUME RequestsAssumption == Requests \subseteq Nat

VARIABLES slots, head, tail, count,
          taken       \* what the last read handed to its caller

vars == <<slots, head, tail, count, taken>>

Indices == 0 .. Capacity - 1

TypeOK ==
  /\ slots \in [Indices -> Values \cup {Zero}]
  /\ head \in Indices
  /\ tail \in Indices
  /\ count \in 0 .. Capacity
  /\ taken \in Seq(Values \cup {Zero})

Init ==
  /\ slots = [i \in Indices |-> Zero]
  /\ head = 0 /\ tail = 0 /\ count = 0
  /\ taken = << >>

(* Mutant of Push: overwrite the newest value instead of dropping when full. *)
PushOverwriting(v) ==
  /\ slots' = [slots EXCEPT ![tail] = v]
  /\ tail' = (tail + 1) % Capacity
  /\ count' = IF count = Capacity THEN count ELSE count + 1
  /\ UNCHANGED <<head, taken>>

(* Mutant of Push: the index runs off the end before it wraps. *)
PushLateWrap(v) ==
  /\ count < Capacity
  /\ slots' = [slots EXCEPT ![tail] = v]
  /\ tail' = IF tail = Capacity THEN 0 ELSE tail + 1
  /\ count' = count + 1
  /\ UNCHANGED <<head, taken>>

(* A push into a full ring returns at once and changes nothing. *)
Push(v) ==
  /\ count < Capacity
  /\ slots' = [slots EXCEPT ![tail] = v]
  /\ tail' = (tail + 1) % Capacity
  /\ count' = count + 1
  /\ UNCHANGED <<head, taken>>

(* The i-th oldest value, counted from zero. *)
Slot(i) == slots[(head + i) % Capacity]

(* The loop copies one value at a time until n are read or the ring is empty. *)
Read(n) ==
  LET k == IF n < count THEN n ELSE count
  IN  /\ taken' = [i \in 1 .. k |-> Slot(i - 1)]
      /\ head' = (head + k) % Capacity
      /\ count' = count - k
      /\ UNCHANGED <<slots, tail>>

Next == (\E v \in Values : Push(v)) \/ (\E n \in Requests : Read(n))

Spec == Init /\ [][Next]_vars
-----------------------------------------------------------------------------
(* The three counters agree: the free slot is count places after the oldest
   value.  Nothing in the code compares them; a slip in any of the index
   updates would silently hand out stale or overwritten input. *)
IndicesAgree == tail = (head + count) % Capacity

Inv == TypeOK /\ IndicesAgree

(* The ring is a first-in first-out queue that drops what does not fit. *)
Fifo == INSTANCE BoundedFifo WITH
          queue <- [i \in 1 .. count |-> Slot(i - 1)]
FifoSpec == Fifo!Spec
=============================================================================
