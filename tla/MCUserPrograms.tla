---------------------------- MODULE MCUserPrograms ----------------------------
(* A ring of three places, three keys and a shell that keeps three characters: *)
(* every phase of the indices, a full and an empty ring, lines that are too  *)
(* long and erased again, backspaces at the start of a line, two lines typed *)
(* ahead, and a cat of the console that finds one, a part of one or more.    *)
(* Sixteen addresses with four for the image and three for the stack, chunks *)
(* of two: ranges end before, at and after each window and wrap round.       *)
EXTENDS UserPrograms

MCRequests == 0 .. 2
MCCatLines == {<<c>> : c \in Values \ {Enter, Backspace}}
MCWords == {0, 1, 2, 3, 15}
MCAddresses == {0, 3, 4, 6, 10, 12, 15}
MCListings == {<< >>, <<2>>, <<2, 3>>, <<4, 3, 1>>}
===============================================================================
