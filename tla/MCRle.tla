------------------------------- MODULE MCRle -------------------------------
(* The codec with bytes of two bits, so that runs longer than a count can   *)
(* hold are short.                                                         *)
EXTENDS Rle

=============================================================================
