----------------------------- MODULE MCTerminal -----------------------------
(* Small instances of TerminalTunnel.                                      *)
EXTENDS TerminalTunnel

CONSTANT c1
=============================================================================
