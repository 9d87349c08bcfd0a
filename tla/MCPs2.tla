--------------------------------- MODULE MCPs2 ---------------------------------
(* A key and up to a packet and two acknowledgements wait; that is           *)
(* enough for every byte of a packet to be met by a key, by a left-over      *)
(* interrupt and by a byte of the packet before it.                          *)
EXTENDS Ps2
==============================================================================
