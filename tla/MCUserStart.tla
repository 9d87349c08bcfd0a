------------------------------ MODULE MCUserStart ------------------------------
(* One or two words of two sizes, so that the texts end at every distance from *)
(* a word's boundary.                                                          *)
EXTENDS UserStart
==============================================================================
