--------------------------- MODULE DelegationLedger ---------------------------
(***************************************************************************)
(* What client delegation promises, whatever the order in which speech,    *)
(* delegations and answers arrive: a request is answered at most once, its *)
(* answer is given to the provider at most once unless the write failed,   *)
(* at most one answer owns the provider's output at a time, and nothing    *)
(* that was requested before an interruption is spoken after it.           *)
(***************************************************************************)
CONSTANT Ids  \* delegation ids

VARIABLE fate \* what became of each delegation

Fate == {"none", "requested", "answered", "armed", "done", "dropped"}

Init == fate = [id \in Ids |-> "none"]

Request(new) ==
  /\ \A id \in new : fate[id] = "none"
  /\ fate' = [id \in Ids |-> IF id \in new THEN "requested" ELSE fate[id]]

Answer(id) ==
  /\ fate[id] = "requested"
  /\ fate' = [fate EXCEPT ![id] = "answered"]

\* The answer is given to the provider and owns its output from here on;
\* another that did is over.
Speaks(id, f) ==
  fate' = [other \in Ids |-> IF other = id THEN "armed"
                             ELSE IF f[other] = "armed" THEN "done" ELSE f[other]]

Speak(id) == fate[id] \in {"requested", "answered"} /\ Speaks(id, fate)

\* An answer comes in and lets an earlier one be spoken first.
AnswerSpeaks(id, earlier) ==
  /\ fate[id] = "requested" /\ fate[earlier] = "answered"
  /\ Speaks(earlier, [fate EXCEPT ![id] = "answered"])

Spoken(id) ==
  /\ fate[id] = "armed"
  /\ fate' = [fate EXCEPT ![id] = "done"]

\* The write failed: a later one may try again.
Withdraw(id) ==
  /\ fate[id] = "armed"
  /\ fate' = [fate EXCEPT ![id] = "answered"]

Interrupt ==
  fate' = [id \in Ids |-> IF fate[id] \in {"requested", "answered", "armed"}
                          THEN "dropped" ELSE fate[id]]

Next ==
  \/ \E new \in SUBSET Ids : Request(new)
  \/ \E id \in Ids : Answer(id) \/ Speak(id) \/ Spoken(id) \/ Withdraw(id)
  \/ \E id, earlier \in Ids : AnswerSpeaks(id, earlier)
  \/ Interrupt

Spec == Init /\ [][Next]_fate
===============================================================================
