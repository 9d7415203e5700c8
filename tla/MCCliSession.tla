---------------------------- MODULE MCCliSession ----------------------------
(* Every command, with every text of a few bytes cut into reads in every way. *)
EXTENDS CliSession

CONSTANTS x
=============================================================================
