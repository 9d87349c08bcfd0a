------------------------------ MODULE MCTerminal ------------------------------
(* Two rows of four cells, on a framebuffer wider than the text mode's three: *)
(* every character is near the end of a row and every second row scrolls.    *)
(* Keys may carry the column two places past the edge while the main loop    *)
(* stands between two steps.                                                 *)
EXTENDS Terminal
==============================================================================
