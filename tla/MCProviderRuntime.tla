-------------------------- MODULE MCProviderRuntime --------------------------
(* Small instances of the provider runtime for TLC. *)
EXTENDS ProviderRuntime, TLC

CONSTANTS gpt, gemini

MCSessionIds == {sid}
MCProviderIds == {gpt, gemini}

\* Providers are interchangeable.
Symmetry == Permutations(MCProviderIds)
===============================================================================
