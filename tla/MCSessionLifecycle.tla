-------------------------- MODULE MCSessionLifecycle --------------------------
(* Small instances of the connection life cycle for TLC. *)
EXTENDS SessionLifecycle, TLC

CONSTANTS w1, w2, t1, s1, s2, gpt

MCSessionIds == BrowserIds \cup Terminal

\* Connections of one kind, and browser session ids, are interchangeable.
Symmetry == Permutations(Webrtc) \cup Permutations(Terminal) \cup Permutations(BrowserIds)
===============================================================================
