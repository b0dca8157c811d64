--------------------------- MODULE MCTerminalControl ---------------------------
(* Small instances of the terminal's control channel for TLC. *)
EXTENDS TerminalControl

CONSTANTS cascade, gemini, ready1, ready2

MCTasks == {ready1, ready2}
===============================================================================
