------------------------------- MODULE MCScreen -------------------------------
(* A framebuffer with room for two rows of two cells and some pixels more; a
   row has all the columns that are kept, so that one past its end is the next
   row's first. *)
EXTENDS Screen
===============================================================================
