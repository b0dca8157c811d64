--------------------------- MODULE MCSessionRegistry ---------------------------
(* Small instance of the session registry for TLC. *)
EXTENDS SessionRegistry, TLC

CONSTANTS a, b, gpt, gemini

MCSessionIds == {a, b}
MCProviderIds == {gpt, gemini}

\* Neither the session ids nor the provider ids are ordered by anything.
Symmetry == Permutations(MCSessionIds) \cup Permutations(MCProviderIds)
===============================================================================
