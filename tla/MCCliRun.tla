------------------------------ MODULE MCCliRun ------------------------------
(* Every command, with every text of a few bytes cut into reads in every way; *)
(* the detached create also with the repository and the branch it asks for.   *)
EXTENDS CliRun

CONSTANTS x, r1, r2, r3, r4, r5, dev, fix
=============================================================================
