------------------------------ MODULE AudioLease ------------------------------
(***************************************************************************)
(* What the session registry promises about the audio device: a lease is   *)
(* granted to a live session incarnation, is never taken from its holder   *)
(* by a different session, and is gone as soon as its holder ends.  A      *)
(* newer incarnation of the same session may inherit it, but only when     *)
(* leases are scoped to the session.                                       *)
(***************************************************************************)
EXTENDS Naturals

CONSTANTS Scopes,    \* the devices a lease can be taken on
          NoHandle   \* the holder of a free lease

VARIABLES policy,    \* "process" or "session": who shares one device
          live,      \* incarnations that have not ended
          holder     \* holder[sc] is the incarnation that leases device sc

vars == <<policy, live, holder>>

Init == /\ policy \in {"process", "session"}
        /\ live = {}
        /\ holder = [sc \in Scopes |-> NoHandle]

\* An incarnation starts without a lease.  The older incarnation of the same
\* session stops being live, but its lease stays until it is released.
Open(h) ==
  /\ h \notin live
  /\ \A sc \in Scopes : holder[sc] # h
  /\ live' = {k \in live : k.id # h.id} \cup {h}
  /\ UNCHANGED <<policy, holder>>

\* A live incarnation takes a free lease, or inherits its predecessor's.
Grant(h, sc) ==
  /\ h \in live
  /\ \/ holder[sc] = NoHandle
     \/ /\ policy = "session"
        /\ holder[sc].id = h.id
        /\ holder[sc].generation < h.generation
  /\ holder' = [holder EXCEPT ![sc] = h]
  /\ UNCHANGED <<policy, live>>

\* A lease is handed back.
Release(sc) ==
  /\ holder' = [holder EXCEPT ![sc] = NoHandle]
  /\ UNCHANGED <<policy, live>>

\* An incarnation ends: it is no longer live and holds nothing afterwards.
End(h) ==
  /\ h \in live
  /\ live' = live \ {h}
  /\ holder' = [sc \in Scopes |-> IF holder[sc] = h THEN NoHandle ELSE holder[sc]]
  /\ UNCHANGED policy

\* Incarnations are pairs of a session and a generation number.  The starting
\* one is the only member of live' that is not in live.
Next ==
  \/ \E h \in live' : Open(h)
  \/ \E h \in live : End(h) \/ \E sc \in Scopes : Grant(h, sc)
  \/ \E sc \in Scopes : Release(sc)

Spec == Init /\ [][Next]_vars
===============================================================================
