------------------------------- MODULE MCMemory -------------------------------
(* A heap of seven pages of two units, the image at its fourth page and the  *)
(* stack at its sixth: blocks come to lie below, in, between and above the   *)
(* windows, and end anywhere in a page, before and after the two user pages. *)
EXTENDS Memory
===============================================================================
