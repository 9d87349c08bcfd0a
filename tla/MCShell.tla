------------------------------- MODULE MCShell -------------------------------
(* Lines of up to three characters, so that a line can be partly typed when  *)
(* it is taken, full when one more key comes, and erased to any length; tags *)
(* tell a line from the two before it.                                       *)
EXTENDS ShellInput

MCSize == 4
==============================================================================
