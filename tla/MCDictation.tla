------------------------------ MODULE MCDictation ------------------------------
(* Dictation for TLC: two chunks of speech in each of any number of recordings. *)
EXTENDS Dictation
===============================================================================
