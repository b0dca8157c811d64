----------------------------- MODULE MCQuicksilver -----------------------------
(* A small instance of a Quicksilver session for TLC. *)
EXTENDS QuicksilverTurns
===============================================================================
