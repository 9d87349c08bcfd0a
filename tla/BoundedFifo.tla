----------------------------- MODULE BoundedFifo -----------------------------
(***************************************************************************)
(* What a kernel input queue promises its reader: the values that were     *)
(* accepted come out once each and in the order they went in; a value that *)
(* arrives when the queue is full is dropped, and nothing queued before it *)
(* is disturbed.  The console's character buffer and the mouse's event     *)
(* queue are both implementations (module Ring).                           *)
(***************************************************************************)
EXTENDS Naturals, Sequences

CONSTANTS Capacity, Values, Requests

VARIABLES queue,   \* the values accepted and not yet read, oldest first
          taken    \* what the last read returned

vars == <<queue, taken>>

Init == queue = << >> /\ taken = << >>

Accept(v) == Len(queue) < Capacity /\ queue' = Append(queue, v) /\ UNCHANGED taken

(* A read for at most n values returns the n oldest, or all there are. *)
Read(n) ==
  LET k == IF n < Len(queue) THEN n ELSE Len(queue)
  IN  /\ taken' = SubSeq(queue, 1, k)
      /\ queue' = SubSeq(queue, k + 1, Len(queue))

Next == (\E v \in Values : Accept(v)) \/ (\E n \in Requests : Read(n))

Spec == Init /\ [][Next]_vars
==============================================================================
