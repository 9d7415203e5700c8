-------------------------- MODULE MCScrollbackRing --------------------------
(* A ring of three bytes and writes of one to three, past several wraps.     *)
EXTENDS ScrollbackRing

CONSTANTS a, b
=============================================================================
