--------------------------- MODULE MCKassetteClient ---------------------------
(* Two entries of the voice surface for TLC. *)
EXTENDS KassetteClient

CONSTANTS c1, c2
===============================================================================
