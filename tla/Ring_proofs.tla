----------------------------- MODULE Ring_proofs -----------------------------
(***************************************************************************)
(* For every capacity, every set of values and every read size: the ring   *)
(* keeps its indices consistent and implements the bounded queue.          *)
(***************************************************************************)
EXTENDS Ring, Integers, SequenceTheorems, TLAPS

(* An index that ran past the end at most once is brought back by one
   subtraction: the form in which the code's "% CAPACITY" is used below. *)
LEMMA ModOnce ==
  ASSUME NEW c \in Nat \ {0}, NEW x \in 0 .. 2 * c - 1
  PROVE  x % c = IF x < c THEN x ELSE x - c
<1> DEFINE q == x \div c
<1> DEFINE r == x % c
<1>1. q \in Int /\ r \in 0 .. c - 1
  OBVIOUS
<1>2. x = (c * q) + r
  OBVIOUS
<1> HIDE DEF q, r
<1>3. ~(q >= 2)
  <2> SUFFICES ASSUME q >= 2 PROVE FALSE
    OBVIOUS
  <2>1. PICK k \in Nat : q = k + 2
    <3>1. q - 2 \in Nat /\ q = (q - 2) + 2
      BY <1>1
    <3> QED BY <3>1
  <2>2. c * q = (c * k) + (2 * c)
    BY <2>1
  <2>3. c * k >= 0
    BY <2>1
  <2> QED BY <2>2, <2>3, <1>2, <1>1
<1>4. ~(q <= -1)
  <2> SUFFICES ASSUME q <= -1 PROVE FALSE
    OBVIOUS
  <2>1. PICK k \in Nat : q = -1 - k
    <3>1. -1 - q \in Nat /\ q = -1 - (-1 - q)
      BY <1>1
    <3> QED BY <3>1
  <2>2. c * q = -(c * k) - c
    BY <2>1
  <2>3. c * k >= 0
    BY <2>1
  <2> QED BY <2>2, <2>3, <1>2, <1>1
<1>5. q = 0 \/ q = 1
  BY <1>1, <1>3, <1>4
<1>6. r = IF x < c THEN x ELSE x - c
  BY <1>1, <1>2, <1>5
<1> QED BY <1>6 DEF r

LEMMA ModSum ==
  ASSUME NEW c \in Nat \ {0}, NEW h \in 0 .. c - 1, NEW k \in 0 .. c
  PROVE  (h + k) % c = IF h + k < c THEN h + k ELSE h + k - c
<1> DEFINE x == h + k
<1>1. x \in 0 .. 2 * c - 1
  OBVIOUS
<1> HIDE DEF x
<1>2. x % c = IF x < c THEN x ELSE x - c
  BY <1>1, ModOnce
<1> QED BY <1>2 DEF x

(* Moving on by k and then by i is moving on by k + i. *)
LEMMA ModShift ==
  ASSUME NEW c \in Nat \ {0}, NEW h \in 0 .. c - 1, NEW k \in 0 .. c, NEW i \in 0 .. c - k
  PROVE  (((h + k) % c) + i) % c = (h + (k + i)) % c
<1> DEFINE r == (h + k) % c
<1>1. k + i \in 0 .. c
  OBVIOUS
<1>2. r = IF h + k < c THEN h + k ELSE h + k - c
  BY ModSum
<1>3. (h + (k + i)) % c = IF h + (k + i) < c THEN h + (k + i) ELSE h + (k + i) - c
  BY <1>1, ModSum
<1> HIDE DEF r
<1>4. r \in 0 .. c - 1 /\ i \in 0 .. c
  BY <1>2
<1>5. (r + i) % c = IF r + i < c THEN r + i ELSE r + i - c
  BY <1>4, ModSum
<1>6. (r + i) % c = (h + (k + i)) % c
  BY <1>2, <1>3, <1>5
<1> QED BY <1>6 DEF r

(* The place of the i-th oldest value, without the modulus. *)
LEMMA SlotIndex ==
  ASSUME Inv, NEW i \in 0 .. Capacity
  PROVE  /\ (head + i) % Capacity = IF head + i < Capacity THEN head + i ELSE head + i - Capacity
         /\ (head + i) % Capacity \in Indices
<1>1. head \in 0 .. Capacity - 1
  BY DEF Inv, TypeOK, Indices
<1>2. (head + i) % Capacity = IF head + i < Capacity THEN head + i ELSE head + i - Capacity
  BY <1>1, ModSum, CapacityAssumption
<1> QED BY <1>1, <1>2, CapacityAssumption DEF Indices

-----------------------------------------------------------------------------
LEMMA InitInv == Init => Inv
<1> SUFFICES ASSUME Init PROVE Inv
  OBVIOUS
<1>1. (head + count) % Capacity = 0
  BY ModOnce, CapacityAssumption DEF Init
<1>2. taken \in Seq(Values \cup {Zero})
  BY DEF Init
<1> QED BY <1>1, <1>2, CapacityAssumption DEF Init, Inv, TypeOK, IndicesAgree, Indices

LEMMA PushInv ==
  ASSUME Inv, NEW v \in Values, Push(v)
  PROVE  Inv'
<1>1. /\ head \in 0 .. Capacity - 1 /\ tail \in 0 .. Capacity - 1
      /\ count \in 0 .. Capacity /\ count + 1 \in 0 .. Capacity /\ 1 \in 0 .. Capacity
  BY CapacityAssumption DEF Inv, TypeOK, Indices, Push
<1>2. (tail + 1) % Capacity = IF tail + 1 < Capacity THEN tail + 1 ELSE tail + 1 - Capacity
  BY <1>1, ModSum, CapacityAssumption
<1>3. TypeOK'
  <2>1. (tail + 1) % Capacity \in Indices
    BY <1>1, <1>2, CapacityAssumption DEF Indices
  <2> QED BY <1>1, <2>1 DEF Inv, TypeOK, Push
<1>4. IndicesAgree'
  <2>1. tail = IF head + count < Capacity THEN head + count ELSE head + count - Capacity
    <3>1. (head + count) % Capacity = IF head + count < Capacity THEN head + count
                                       ELSE head + count - Capacity
      BY <1>1, ModSum, CapacityAssumption
    <3> QED BY <3>1 DEF Inv, IndicesAgree
  <2>2. (head + (count + 1)) % Capacity
          = IF head + (count + 1) < Capacity THEN head + (count + 1)
            ELSE head + (count + 1) - Capacity
    BY <1>1, ModSum, CapacityAssumption
  <2>3. (tail + 1) % Capacity = (head + (count + 1)) % Capacity
    BY <1>1, <1>2, <2>1, <2>2, CapacityAssumption
  <2> QED BY <2>3 DEF IndicesAgree, Push
<1> QED BY <1>3, <1>4 DEF Inv

LEMMA ReadInv ==
  ASSUME Inv, NEW n \in Requests, Read(n)
  PROVE  Inv'
<1> DEFINE k == IF n < count THEN n ELSE count
<1>1. k \in 0 .. count
  BY RequestsAssumption DEF Inv, TypeOK
<1>2. head' = (head + k) % Capacity /\ count' = count - k /\ slots' = slots /\ tail' = tail
      /\ taken' = [i \in 1 .. k |-> Slot(i - 1)]
  BY DEF Read
<1> HIDE DEF k
<1>3. k \in 0 .. Capacity
  BY <1>1, CapacityAssumption DEF Inv, TypeOK
<1>4. taken' \in Seq(Values \cup {Zero})
  <2>1. \A i \in 1 .. k : Slot(i - 1) \in Values \cup {Zero}
    <3> TAKE i \in 1 .. k
    <3>1. i - 1 \in 0 .. Capacity
      BY <1>3, CapacityAssumption
    <3>2. (head + (i - 1)) % Capacity \in Indices
      BY <3>1, SlotIndex
    <3> QED BY <3>2 DEF Slot, Inv, TypeOK
  <2>2. k \in Nat
    BY <1>3, CapacityAssumption
  <2> QED BY <1>2, <2>1, <2>2
<1>5. TypeOK'
  <2>1. head' \in Indices
    BY <1>2, <1>3, SlotIndex
  <2>2. count' \in 0 .. Capacity
    BY <1>1, <1>2, CapacityAssumption DEF Inv, TypeOK
  <2> QED BY <1>2, <1>4, <2>1, <2>2 DEF Inv, TypeOK
<1>6. IndicesAgree'
  <2>1. head \in 0 .. Capacity - 1 /\ count - k \in 0 .. Capacity - k
    BY <1>1, <1>3, CapacityAssumption DEF Inv, TypeOK, Indices
  <2>2. (((head + k) % Capacity) + (count - k)) % Capacity = (head + (k + (count - k))) % Capacity
    BY <1>3, <2>1, ModShift, CapacityAssumption
  <2>3. k + (count - k) = count
    BY <1>1 DEF Inv, TypeOK
  <2>4. tail = (((head + k) % Capacity) + (count - k)) % Capacity
    BY <2>2, <2>3 DEF Inv, IndicesAgree
  <2> QED BY <1>2, <2>4 DEF IndicesAgree
<1> QED BY <1>5, <1>6 DEF Inv

LEMMA NextInv == Inv /\ [Next]_vars => Inv'
<1> SUFFICES ASSUME Inv, [Next]_vars PROVE Inv'
  OBVIOUS
<1>1. CASE \E v \in Values : Push(v)
  BY <1>1, PushInv
<1>2. CASE \E n \in Requests : Read(n)
  BY <1>2, ReadInv
<1>3. CASE UNCHANGED vars
  BY <1>3 DEF vars, Inv, TypeOK, IndicesAgree
<1> QED BY <1>1, <1>2, <1>3 DEF Next

(* The counters of console.c's and mouse.c's rings always agree. *)
THEOREM RingInvariant == Spec => []Inv
<1> QED BY InitInv, NextInv, PTL DEF Spec

(* ... and in particular the write index is count places past the read index. *)
THEOREM RingIndicesAgree == Spec => []IndicesAgree
<1>1. Inv => IndicesAgree
  BY DEF Inv
<1> QED BY RingInvariant, <1>1, PTL
-----------------------------------------------------------------------------
(* The queue the ring stands for, as the refinement mapping of Ring builds it. *)
Queue == [i \in 1 .. count |-> Slot(i - 1)]

LEMMA QueueType ==
  ASSUME Inv
  PROVE  /\ Queue \in Seq(Values \cup {Zero})
         /\ Len(Queue) = count
         /\ DOMAIN Queue = 1 .. count
<1>1. \A i \in 1 .. count : Slot(i - 1) \in Values \cup {Zero}
  <2> TAKE i \in 1 .. count
  <2>1. i - 1 \in 0 .. Capacity
    BY CapacityAssumption DEF Inv, TypeOK
  <2>2. (head + (i - 1)) % Capacity \in Indices
    BY <2>1, SlotIndex
  <2> QED BY <2>2 DEF Slot, Inv, TypeOK
<1>2. count \in Nat
  BY CapacityAssumption DEF Inv, TypeOK
<1> QED BY <1>1, <1>2 DEF Queue

(* A push fills a slot no queued value is in, so it appends to the queue. *)
LEMMA PushAccepts ==
  ASSUME Inv, NEW v \in Values, Push(v)
  PROVE  Fifo!Accept(v)
<1>1. Inv' /\ count' = count + 1 /\ head' = head /\ slots' = [slots EXCEPT ![tail] = v]
      /\ taken' = taken /\ count < Capacity
  BY PushInv DEF Push
<1>2. \A i \in 1 .. count : slots'[(head' + (i - 1)) % Capacity] = Slot(i - 1)
  <2> TAKE i \in 1 .. count
  <2>1. i - 1 \in 0 .. Capacity /\ count \in 0 .. Capacity
    BY CapacityAssumption DEF Inv, TypeOK
  <2>2. /\ (head + (i - 1)) % Capacity \in Indices
        /\ (head + (i - 1)) % Capacity
             = IF head + (i - 1) < Capacity THEN head + (i - 1) ELSE head + (i - 1) - Capacity
    BY <2>1, SlotIndex
  <2>3. tail = IF head + count < Capacity THEN head + count ELSE head + count - Capacity
    BY <2>1, SlotIndex DEF Inv, IndicesAgree
  <2>4. head \in 0 .. Capacity - 1 /\ count \in Nat /\ count < Capacity
    BY <1>1, <2>1, CapacityAssumption DEF Inv, TypeOK, Indices
  <2>5. (head + (i - 1)) % Capacity # tail
    BY <2>2, <2>3, <2>4, CapacityAssumption
  <2> QED BY <1>1, <2>2, <2>5 DEF Slot, Inv, TypeOK
<1>3. slots'[(head' + count) % Capacity] = v
  BY <1>1 DEF Inv, IndicesAgree, TypeOK
<1>4. Queue' = [i \in 1 .. count' |-> slots'[(head' + (i - 1)) % Capacity]]
  BY DEF Queue, Slot
<1>5. Len(Queue) = count /\ DOMAIN Queue = 1 .. count /\ count \in Nat
  BY QueueType, CapacityAssumption DEF Inv, TypeOK
<1>6. Queue \in Seq(Values \cup {Zero}) /\ v \in Values \cup {Zero}
  BY QueueType
<1>7. Queue' = Append(Queue, v)
  <2> DEFINE S == Values \cup {Zero}
             new == Append(Queue, v)
  <2>1. /\ new \in Seq(S)
        /\ Len(new) = count + 1
        /\ \A i \in 1 .. count : new[i] = Queue[i]
        /\ new[count + 1] = v
    BY <1>5, <1>6, AppendProperties
  <2>2. \A i \in 1 .. count + 1 : slots'[(head' + (i - 1)) % Capacity] = new[i]
    <3> TAKE i \in 1 .. count + 1
    <3>1. CASE i \in 1 .. count
      BY <1>2, <2>1, <3>1 DEF Queue
    <3>2. CASE i = count + 1
      BY <1>3, <1>5, <2>1, <3>2
    <3> QED BY <1>5, <3>1, <3>2
  <2>3. \A i \in 1 .. count + 1 : new[i] \in S
    BY <1>5, <2>1
  <2>4. Queue' \in Seq(S) /\ Len(Queue') = count + 1
    <3> DEFINE e(i) == slots'[(head' + (i - 1)) % Capacity]
    <3>1. \A i \in 1 .. count + 1 : e(i) \in S
      BY <2>2, <2>3
    <3>2. Queue' = [i \in 1 .. count + 1 |-> e(i)] /\ count + 1 \in Nat
      BY <1>1, <1>4, <1>5
    <3> HIDE DEF e, new, S
    <3> QED BY <3>1, <3>2
  <2>5. \A i \in 1 .. Len(Queue') : Queue'[i] = new[i]
    <3> HIDE DEF new
    <3> QED BY <1>1, <1>4, <2>2, <2>4
  <2> HIDE DEF new, S
  <2>6. Queue' = new
    BY <2>1, <2>4, <2>5, SeqEqual
  <2> QED BY <2>6 DEF new
<1> QED BY <1>1, <1>5, <1>7 DEF Fifo!Accept, Queue

(* A read hands out the oldest values and leaves the others in their order. *)
LEMMA ReadReads ==
  ASSUME Inv, NEW n \in Requests, Read(n)
  PROVE  Fifo!Read(n)
<1> DEFINE k == IF n < count THEN n ELSE count
<1>1. k \in 0 .. count
  BY RequestsAssumption DEF Inv, TypeOK
<1>2. head' = (head + k) % Capacity /\ count' = count - k /\ slots' = slots
      /\ taken' = [i \in 1 .. k |-> Slot(i - 1)]
  BY DEF Read
<1>3. Len(Queue) = count /\ count \in 0 .. Capacity /\ Queue \in Seq(Values \cup {Zero})
  BY QueueType DEF Inv, TypeOK
<1>4. k = IF n < Len(Queue) THEN n ELSE Len(Queue)
  BY <1>3
<1> HIDE DEF k
<1>5. taken' = SubSeq(Queue, 1, k)
  <2>1. SubSeq(Queue, 1, k) = [i \in 1 .. k |-> Queue[i]]
    BY <1>1, <1>3
  <2>2. \A i \in 1 .. k : Queue[i] = Slot(i - 1)
    BY <1>1, <1>3 DEF Queue
  <2> QED BY <1>2, <2>1, <2>2
<1>6. Queue' = SubSeq(Queue, k + 1, Len(Queue))
  <2>1. Queue' = [i \in 1 .. count - k |-> slots[(head' + (i - 1)) % Capacity]]
    BY <1>2 DEF Queue, Slot
  <2>2. SubSeq(Queue, k + 1, count) = [i \in 1 .. count - k |-> Queue[i + k]]
    BY <1>1, <1>3
  <2>3. \A i \in 1 .. count - k : slots[(head' + (i - 1)) % Capacity] = Queue[i + k]
    <3> TAKE i \in 1 .. count - k
    <3>1. Queue[i + k] = slots[(head + (i + k - 1)) % Capacity]
      BY <1>1, <1>3 DEF Queue, Slot
    <3>2. k \in 0 .. Capacity /\ i - 1 \in 0 .. Capacity - k /\ head \in 0 .. Capacity - 1
      BY <1>1, <1>3, CapacityAssumption DEF Inv, TypeOK, Indices
    <3>3. (((head + k) % Capacity) + (i - 1)) % Capacity = (head + (k + (i - 1))) % Capacity
      BY <3>2, ModShift, CapacityAssumption
    <3>4. k + (i - 1) = i + k - 1
      BY <3>2, CapacityAssumption
    <3> QED BY <1>2, <3>1, <3>3, <3>4
  <2> QED BY <1>3, <2>1, <2>2, <2>3
<1> QED BY <1>4, <1>5, <1>6 DEF Fifo!Read, Queue

(* Every behaviour of the ring is one of the bounded first-in first-out
   queue: nothing queued is lost, repeated, reordered or overwritten. *)
THEOREM RingImplementsFifo == Spec => FifoSpec
<1>1. Init => Fifo!Init
  BY DEF Init, Fifo!Init
<1>2. Inv /\ [Next]_vars => [Fifo!Next]_(Fifo!vars)
  <2> SUFFICES ASSUME Inv, [Next]_vars PROVE [Fifo!Next]_(Fifo!vars)
    OBVIOUS
  <2>1. CASE \E v \in Values : Push(v)
    BY <2>1, PushAccepts DEF Fifo!Next
  <2>2. CASE \E n \in Requests : Read(n)
    BY <2>2, ReadReads DEF Fifo!Next
  <2>3. CASE UNCHANGED vars
    BY <2>3 DEF vars, Fifo!vars, Slot
  <2> QED BY <2>1, <2>2, <2>3 DEF Next
<1> QED BY <1>1, <1>2, RingInvariant, PTL DEF Spec, FifoSpec, Fifo!Spec
==============================================================================
