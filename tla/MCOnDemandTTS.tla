---------------------------- MODULE MCOnDemandTTS ----------------------------
(* Small instances of on-demand speech for TLC. *)
EXTENDS OnDemandTTS, TLC

CONSTANTS r1, r2, r3, r4, hello, bye

MCRequests == {r1, r2, r3, r4}
MCKeys == {hello, bye}

\* Requests are interchangeable, and so are messages.
Symmetry == Permutations(MCRequests) \cup Permutations(MCKeys)
===============================================================================
