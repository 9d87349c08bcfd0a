------------------------------- MODULE MCRamfs -------------------------------
(* Paths of one to three parts over two names and the empty one, and room    *)
(* for four nodes besides "/" and "/dev", or fewer with data: a file where a *)
(* directory is wanted, a heap that is full half way to an entry or between  *)
(* a file and its data, doubled and trailing slashes, and files below "/dev" *)
(* from the archive all occur.                                               *)
EXTENDS Ramfs, TLC

SizesDef == "x" :> 1 @@ "y" :> 2
==============================================================================
