------------------------- MODULE SessionLifecycleProofs -------------------------
(***************************************************************************)
(* Theorems about the life of voice connections, for any number of browser *)
(* and terminal connections, session ids and incarnations.                 *)
(*                                                                         *)
(* The properties speak of runs and leases; what makes them hold is that   *)
(* only the entry in place of a scope runs or holds its lease, and that    *)
(* whoever replaces the entry holds the scope's lock until the run and the *)
(* close it waits for have ended.                                          *)
(***************************************************************************)
EXTENDS SessionLifecycle, SessionRegistryProofs, SequenceTheorems

\* Where the owner of a connection holds the replacement lock for a replacement.
HasTurn == {"stopping_previous", "cancelled_stopping", "closing_previous"}

\* Where it is in the lock's queue, as the owner or as a waiter.
Queued == {"replacing", "run_active"} \cup HasTurn

\* Where its entry may be the active one.
Installed == {"run_active", "running", "finalizing"}

Live(c) == run_task[c] \in {"starting", "up", "stopping"}

LifecycleTypes ==
  /\ pc \in [Conns -> OwnerStep]
  /\ handle \in [Conns -> SessionHandle \cup {NoHandle}]
  /\ previous \in [Conns -> Entry \cup {NoEntry}]
  /\ run_task \in [Conns -> RunStep]
  /\ closer \in [Conns -> CloserStep]
  /\ active \in [Scopes -> Entry \cup {NoEntry}]
  /\ lock_queue \in [Scopes -> Seq(Conns)]
  /\ shutdown \in {"up", "closing", "down"}
  /\ captured \subseteq Entry

\* A handle names one connection, and an id the connection may ask for.
HandlesOK ==
  \A c \in Conns :
    /\ pc[c] = "idle" <=> handle[c] = NoHandle
    /\ handle[c].generation <= next_generation
    /\ pc[c] # "idle" =>
         /\ Id(c) \in RequestableIds(c)
         /\ \A d \in Conns : handle[d].generation = handle[c].generation => d = c

In(x, q) == \E i \in 1..Len(q) : q[i] = x
Distinct(q) == \A i, j \in 1..Len(q) : q[i] = q[j] => i = j

\* Exactly the connections that wait are in the queue of their scope, once each,
\* and one that is replacing another is at its head.
QueueOK ==
  /\ \A sc \in Scopes : Distinct(lock_queue[sc])
  /\ \A sc \in Scopes, c \in Conns :
       In(c, lock_queue[sc]) <=> pc[c] \in Queued /\ scope(c) = sc
  /\ \A c \in Conns : pc[c] \in HasTurn => HoldsLock(c)

\* What is known of an entry, from when it is installed for good.
EntryOK(e) ==
  /\ pc[e.conn] \in Installed \cup {"done"}
  /\ e.started => run_task[e.conn] # "none"

ActiveOK ==
  \A sc \in Scopes : active[sc] # NoEntry =>
    /\ EntryOK(active[sc])
    /\ pc[active[sc].conn] # "done"
    /\ scope(active[sc].conn) = sc
    /\ ~active[sc].started => run_task[active[sc].conn] = "none"

\* The replaced entry stays in place, or is cleared by its own connection,
\* until the replacement is installed; by then its run has ended.
PreviousOK ==
  \A c \in Conns :
    /\ pc[c] \in HasTurn <=> previous[c] # NoEntry
    /\ pc[c] \in HasTurn => /\ EntryOK(previous[c])
                            /\ active[scope(c)] \in {previous[c], NoEntry}
    /\ pc[c] \in {"stopping_previous", "cancelled_stopping"} => previous[c].started
    /\ pc[c] = "closing_previous" /\ previous[c].started =>
         run_task[previous[c].conn] \in EndedRun

\* A run belongs to an owner that awaits it, whose entry is the active one.
RunsOK ==
  \A c \in Conns :
    /\ run_task[c] # "none" => pc[c] \in {"running", "finalizing", "done"}
    /\ Live(c) => pc[c] = "running" /\ active[scope(c)] = [conn |-> c, started |-> TRUE]

CapturedOK == \A e \in captured : EntryOK(e)

ClosersOK ==
  \A c \in Conns : closer[c] # "none" =>
    /\ pc[c] \notin {"idle", "building", "gone"}
    /\ c \in Terminal => pc[c] \in Installed \cup {"done"}

\* A lease is held by the active connection of its scope, and not past its close.
LeasesOK ==
  /\ \A sc \in Scopes : audio_owners[sc] # NoHandle =>
       \E c \in Conns : pc[c] # "idle" /\ handle[c] = audio_owners[sc]
  /\ \A sc \in Scopes, c \in Conns : pc[c] # "idle" /\ audio_owners[sc] = handle[c] =>
       /\ active[sc] = [conn |-> c, started |-> TRUE]
       /\ run_task[c] # "starting" /\ closer[c] # "done"
       /\ c \in Terminal => IsCurrent(c)

\* The record of a connection, while it is not a newer one's.
RecordsOK ==
  /\ \A id \in SessionIds : Present(id) =>
       \E c \in Conns : pc[c] # "idle" /\ handle[c] = HandleOf(id)
  /\ \A c \in Conns : pc[c] # "idle" /\ IsCurrent(c) =>
       /\ pc[c] # "done"
       /\ run_task[c] \in {"none", "starting"} /\ closer[c] # "done" =>
            sessions[Id(c)].state = "created"
       /\ closer[c] = "done" => sessions[Id(c)].state \in TERMINAL_SESSION_STATES

TurnsInv == LifecycleTypes /\ HandlesOK /\ QueueOK
EntriesInv == ActiveOK /\ PreviousOK /\ RunsOK /\ CapturedOK /\ ClosersOK
LifecycleInv == IInv /\ TurnsInv /\ EntriesInv /\ LeasesOK /\ RecordsOK
-------------------------------------------------------------------------------
(* Connections, their scopes, and the queues of the replacement lock.       *)

\* A connection that has entered carries the handle of a session, in the scope of the
\* lock and of the lease it uses.
LEMMA ConnectionFacts ==
  ASSUME LifecycleInv, NEW c \in Conns, pc[c] # "idle"
  PROVE  /\ handle[c] \in SessionHandle /\ handle[c] # NoHandle
         /\ Id(c) \in SessionIds /\ Generation(c) \in 1..MaxGeneration
         /\ scope(c) = lease_scope(Id(c)) /\ scope(c) \in Scopes
<1>1. handle[c] \in SessionHandle /\ handle[c] # NoHandle
  BY DEF LifecycleInv, TurnsInv, LifecycleTypes, HandlesOK
<1>. QED
  BY <1>1, ScopeType DEF SessionHandle, Id, Generation, scope, lease_scope

\* The scope, the session and the generation of a connection follow its handle.
LEMMA ScopesStay ==
  ASSUME UNCHANGED lease_policy, NEW c \in Conns, handle'[c] = handle[c]
  PROVE  scope(c)' = scope(c) /\ Id(c)' = Id(c) /\ Generation(c)' = Generation(c)
BY DEF scope, Id, Generation

\* What removing the i-th element leaves of a sequence.
LEMMA RemovalFacts ==
  ASSUME NEW S, NEW q \in Seq(S), NEW i \in 1..Len(q)
  PROVE  \E r \in Seq(S) :
           /\ r = SubSeq(q, 1, i - 1) \o SubSeq(q, i + 1, Len(q))
           /\ Len(r) = Len(q) - 1
           /\ \A j \in 1..Len(r) : r[j] = IF j < i THEN q[j] ELSE q[j + 1]
<1>. DEFINE a == SubSeq(q, 1, i - 1)
            b == SubSeq(q, i + 1, Len(q))
<1>1. Len(q) \in Nat /\ \A j \in 1..Len(q) : q[j] \in S
  OBVIOUS
<1>2. a \in Seq(S) /\ Len(a) = i - 1 /\ \A j \in 1..(i - 1) : a[j] = q[j]
  <2>1. \A k \in 1..(i - 1) : q[k] \in S
    BY <1>1
  <2>2. /\ SubSeq(q, 1, i - 1) \in Seq(S)
        /\ Len(SubSeq(q, 1, i - 1)) = IF 1 <= i - 1 THEN i - 1 - 1 + 1 ELSE 0
        /\ \A k \in 1..(i - 1 - 1 + 1) : SubSeq(q, 1, i - 1)[k] = q[1 + k - 1]
    BY <2>1, SubSeqProperties, SMTT(30)
  <2>. QED BY <2>2
<1>3. b \in Seq(S) /\ Len(b) = Len(q) - i /\ \A j \in 1..(Len(q) - i) : b[j] = q[i + j]
  <2>1. \A k \in (i + 1)..Len(q) : q[k] \in S
    BY <1>1
  <2>2. /\ b \in Seq(S)
        /\ Len(b) = IF i + 1 <= Len(q) THEN Len(q) - (i + 1) + 1 ELSE 0
        /\ \A k \in 1..(Len(q) - (i + 1) + 1) : b[k] = q[(i + 1) + k - 1]
    BY <1>1, <2>1, SubSeqProperties, SMTT(30)
  <2>. HIDE DEF b
  <2>. QED BY <1>1, <2>2
<1>. HIDE DEF a, b
<1>4. /\ a \o b \in Seq(S) /\ Len(a \o b) = Len(q) - 1
      /\ \A j \in 1..(Len(q) - 1) : (a \o b)[j] = IF j < i THEN q[j] ELSE q[j + 1]
  <2>1. /\ a \o b \in Seq(S) /\ Len(a \o b) = Len(a) + Len(b)
        /\ \A j \in 1..(Len(a) + Len(b)) :
             (a \o b)[j] = IF j <= Len(a) THEN a[j] ELSE b[j - Len(a)]
    BY <1>2, <1>3, ConcatProperties
  <2>2. Len(a) + Len(b) = Len(q) - 1
    BY <1>1, <1>2, <1>3
  <2>3. ASSUME NEW j \in 1..(Len(q) - 1)
        PROVE  (a \o b)[j] = IF j < i THEN q[j] ELSE q[j + 1]
    <3>1. (a \o b)[j] = IF j <= i - 1 THEN a[j] ELSE b[j - (i - 1)]
      BY <1>2, <2>1, <2>2
    <3>2. CASE j < i
      BY <1>1, <1>2, <3>1, <3>2
    <3>3. CASE ~(j < i)
      <4>1. j - (i - 1) \in 1..(Len(q) - i) /\ i + (j - (i - 1)) = j + 1
        BY <1>1, <3>3
      <4>. QED BY <1>1, <1>3, <3>1, <3>3, <4>1
    <3>. QED BY <3>2, <3>3
  <2>. QED BY <2>1, <2>2, <2>3
<1>. QED BY <1>4, Zenon DEF a, b

\* The queue of the lock, for those who take their place, leave it, or leave it first.
LEMMA RemovalFromQueue ==
  ASSUME NEW S, NEW q \in Seq(S), Distinct(q), NEW i \in 1..Len(q),
         NEW r \in Seq(S), Len(r) = Len(q) - 1,
         \A j \in 1..Len(r) : r[j] = IF j < i THEN q[j] ELSE q[j + 1]
  PROVE  /\ Distinct(r)
         /\ \A x : In(x, r) <=> In(x, q) /\ x # q[i]
         /\ Head(q) # q[i] => r # <<>> /\ Head(r) = Head(q)
<1>1. /\ r \in Seq(S) /\ Len(r) = Len(q) - 1
      /\ \A j \in 1..Len(r) : r[j] = IF j < i THEN q[j] ELSE q[j + 1]
  OBVIOUS
<1>2. Len(q) \in Nat /\ Len(r) \in Nat
  BY <1>1
<1>3. Distinct(r)
  <2>. SUFFICES ASSUME NEW j \in 1..Len(r), NEW k \in 1..Len(r), r[j] = r[k]
                PROVE  j = k
    BY DEF Distinct
  <2>. DEFINE at(n) == IF n < i THEN n ELSE n + 1
  <2>1. at(j) \in 1..Len(q) /\ at(k) \in 1..Len(q) /\ r[j] = q[at(j)] /\ r[k] = q[at(k)]
    BY <1>1, <1>2
  <2>2. at(j) = at(k) => j = k
    BY <1>2
  <2>. QED BY <2>1, <2>2 DEF Distinct
<1>4. ASSUME NEW j \in 1..Len(r) PROVE In(r[j], q) /\ r[j] # q[i]
  <2>1. CASE j < i
    BY <1>1, <1>2, <2>1 DEF In, Distinct
  <2>2. CASE ~(j < i)
    <3>1. j + 1 \in 1..Len(q) /\ j + 1 # i /\ r[j] = q[j + 1]
      BY <1>1, <1>2, <2>2
    <3>. QED BY <3>1 DEF In, Distinct
  <2>. QED BY <2>1, <2>2
<1>5. ASSUME NEW k \in 1..Len(q), q[k] # q[i] PROVE In(q[k], r)
  <2>1. CASE k < i
    <3>1. k \in 1..Len(r) /\ r[k] = q[k]
      BY <1>1, <1>2, <2>1
    <3>. QED BY <3>1 DEF In
  <2>2. CASE ~(k < i)
    <3>1. k - 1 \in 1..Len(r) /\ r[k - 1] = q[(k - 1) + 1] /\ (k - 1) + 1 = k
      BY <1>1, <1>2, <1>5, <2>2
    <3>. QED BY <3>1 DEF In
  <2>. QED BY <2>1, <2>2
<1>6. Head(q) # q[i] => r # <<>> /\ Head(r) = Head(q)
  <2>. SUFFICES ASSUME Head(q) # q[i] PROVE r # <<>> /\ Head(r) = Head(q)
    OBVIOUS
  <2>1. q # <<>> /\ Head(q) = q[1]
    OBVIOUS
  <2>2. 1 < i
    BY <2>1
  <2>3. 1 \in 1..Len(r) /\ r[1] = q[1]
    BY <1>1, <1>2, <2>2
  <2>. QED BY <1>1, <2>1, <2>3
<1>. QED BY <1>1, <1>3, <1>4, <1>5, <1>6 DEF In

\* A connection that joins the queue of a lock goes to its end and is the holder only
\* if the queue was empty.
LEMMA AppendToQueue ==
  ASSUME NEW S, NEW q \in Seq(S), Distinct(q), NEW x \in S, ~In(x, q)
  PROVE  /\ Append(q, x) \in Seq(S) /\ Distinct(Append(q, x)) /\ Append(q, x) # <<>>
         /\ \A y : In(y, Append(q, x)) <=> In(y, q) \/ y = x
         /\ Head(Append(q, x)) = IF q = <<>> THEN x ELSE Head(q)
<1>. DEFINE r == Append(q, x)
<1>1. /\ r \in Seq(S) /\ Len(r) = Len(q) + 1 /\ Len(q) \in Nat
      /\ \A j \in 1..Len(q) : r[j] = q[j]
      /\ r[Len(q) + 1] = x
  BY AppendProperties
<1>. HIDE DEF r
<1>2. \A j \in 1..Len(r) : j \in 1..Len(q) \/ j = Len(q) + 1
  BY <1>1
<1>3. Distinct(r)
  BY <1>1, <1>2 DEF Distinct, In
<1>4. \A y : In(y, r) <=> In(y, q) \/ y = x
  <2>1. 1..Len(q) \subseteq 1..Len(r) /\ Len(q) + 1 \in 1..Len(r)
    BY <1>1
  <2>. QED BY <1>1, <1>2, <2>1 DEF In
<1>5. r # <<>> /\ Head(r) = IF q = <<>> THEN x ELSE Head(q)
  BY <1>1
<1>. QED BY <1>1, <1>3, <1>4, <1>5 DEF r

\* The holder that leaves takes nobody else out of the queue.
LEMMA TailOfQueue ==
  ASSUME NEW S, NEW q \in Seq(S), Distinct(q), q # <<>>
  PROVE  /\ Tail(q) \in Seq(S) /\ Distinct(Tail(q))
         /\ \A y : In(y, Tail(q)) <=> In(y, q) /\ y # Head(q)
<1>. DEFINE r == Tail(q)
<1>1. /\ r \in Seq(S) /\ Len(r) = Len(q) - 1 /\ Len(q) \in Nat \ {0}
      /\ \A j \in 1..Len(r) : r[j] = q[j + 1]
      /\ Head(q) = q[1]
  BY HeadTailProperties
<1>. HIDE DEF r
<1>2. Distinct(r)
  BY <1>1 DEF Distinct
<1>3. ASSUME NEW y PROVE In(y, r) <=> In(y, q) /\ y # Head(q)
  <2>1. ASSUME NEW j \in 1..Len(r), r[j] = y PROVE In(y, q) /\ y # Head(q)
    <3>1. j + 1 \in 1..Len(q) /\ 1 \in 1..Len(q) /\ j + 1 # 1
      BY <1>1
    <3>. QED BY <1>1, <2>1, <3>1 DEF In, Distinct
  <2>2. ASSUME NEW k \in 1..Len(q), q[k] = y, y # Head(q) PROVE In(y, r)
    <3>1. k - 1 \in 1..Len(r) /\ (k - 1) + 1 = k
      BY <1>1, <2>2
    <3>. QED BY <1>1, <2>2, <3>1 DEF In
  <2>. QED BY <2>1, <2>2 DEF In
<1>. QED BY <1>1, <1>2, <1>3 DEF r

\* A step that moves nobody into or out of a queue.
LEMMA QueueStays ==
  ASSUME LifecycleInv, UNCHANGED <<lease_policy, lock_queue>>,
         \A d \in Conns : /\ pc[d] # "idle" => handle'[d] = handle[d]
                          /\ pc'[d] \in Queued <=> pc[d] \in Queued
                          /\ pc'[d] \in HasTurn => HoldsLock(d)
  PROVE  QueueOK'
<1>1. \A d \in Conns : pc[d] \in Queued => scope(d)' = scope(d)
  BY ScopesStay DEF Queued, HasTurn
<1>2. \A d \in Conns : pc'[d] \in HasTurn => HoldsLock(d)'
  BY <1>1 DEF HoldsLock, Queued
<1>. QED BY <1>1, <1>2 DEF LifecycleInv, TurnsInv, QueueOK

\* A step of one connection that changes the queue of its scope.
LEMMA QueueChanges ==
  ASSUME LifecycleInv, NEW c \in Conns, pc[c] # "idle", NEW q \in Seq(Conns), Distinct(q),
         lock_queue' = [lock_queue EXCEPT ![scope(c)] = q],
         UNCHANGED <<lease_policy, handle>>, pc'[c] \notin HasTurn,
         \A d \in Conns : d # c => pc'[d] = pc[d],
         \A d \in Conns : In(d, q) <=> IF d = c THEN pc'[c] \in Queued
                                                ELSE In(d, lock_queue[scope(c)]),
         \A d \in Conns : d # c /\ pc[d] \in HasTurn /\ scope(d) = scope(c) =>
                            q # <<>> /\ Head(q) = d
  PROVE  QueueOK' /\ lock_queue' \in [Scopes -> Seq(Conns)]
<1>1. scope(c) \in Scopes /\ lock_queue \in [Scopes -> Seq(Conns)]
  BY ConnectionFacts DEF LifecycleInv, TurnsInv, LifecycleTypes
<1>2. lock_queue' \in [Scopes -> Seq(Conns)]
  BY <1>1
<1>3. \A sc \in Scopes : lock_queue'[sc] = IF sc = scope(c) THEN q ELSE lock_queue[sc]
  BY <1>1
<1>4. \A d \in Conns : scope(d)' = scope(d)
  BY ScopesStay
<1>5. QueueOK
  BY DEF LifecycleInv, TurnsInv
<1>6. \A sc \in Scopes : Distinct(lock_queue'[sc])
  BY <1>3, <1>5 DEF QueueOK
<1>7. ASSUME NEW sc \in Scopes, NEW d \in Conns
      PROVE  In(d, lock_queue'[sc]) <=> pc'[d] \in Queued /\ scope(d) = sc
  <2>1. CASE sc = scope(c)
    BY <1>3, <1>5, <2>1 DEF QueueOK
  <2>2. CASE sc # scope(c)
    BY <1>3, <1>5, <2>2 DEF QueueOK
  <2>. QED BY <2>1, <2>2
<1>8. ASSUME NEW d \in Conns, pc'[d] \in HasTurn PROVE HoldsLock(d)'
  <2>1. d # c /\ pc[d] \in HasTurn /\ HoldsLock(d) /\ scope(d) \in Scopes
    BY <1>5, <1>8, ConnectionFacts DEF QueueOK, HasTurn
  <2>. QED BY <1>3, <1>4, <2>1 DEF HoldsLock
<1>9. QueueOK'
  BY <1>4, <1>6, <1>7, <1>8 DEF QueueOK
<1>. QED BY <1>2, <1>9

\* Who stands in the queue of a connection's scope, and that a connection with its
\* turn is the head.
LEMMA QueueFacts ==
  ASSUME LifecycleInv, NEW c \in Conns, pc[c] # "idle"
  PROVE  /\ lock_queue[scope(c)] \in Seq(Conns) /\ Distinct(lock_queue[scope(c)])
         /\ In(c, lock_queue[scope(c)]) <=> pc[c] \in Queued
         /\ \A d \in Conns : pc[d] \in HasTurn /\ scope(d) = scope(c) =>
              lock_queue[scope(c)] # <<>> /\ Head(lock_queue[scope(c)]) = d
BY ConnectionFacts
DEF LifecycleInv, TurnsInv, LifecycleTypes, QueueOK, HoldsLock

\* Leaving the queue, as its head or from the middle when a waiter is cancelled, keeps
\* the order and the turns of the others.
LEMMA QueueLeft ==
  ASSUME LifecycleInv, NEW c \in Conns, pc[c] \in Queued, LeaveQueue(c),
         UNCHANGED <<lease_policy, handle>>, pc'[c] \notin Queued,
         \A d \in Conns : d # c => pc'[d] = pc[d]
  PROVE  QueueOK' /\ lock_queue' \in [Scopes -> Seq(Conns)]
<1>. DEFINE q == lock_queue[scope(c)]
<1>1. pc[c] # "idle" /\ pc'[c] \notin HasTurn
  BY DEF Queued, HasTurn
<1>2. q \in Seq(Conns) /\ Distinct(q) /\ In(c, q)
      /\ \A d \in Conns : pc[d] \in HasTurn /\ scope(d) = scope(c) => q # <<>> /\ Head(q) = d
  BY <1>1, QueueFacts
<1>3. PICK i \in 1..Len(q) :
        /\ q[i] = c
        /\ lock_queue' = [lock_queue EXCEPT ![scope(c)] =
                            SubSeq(q, 1, i - 1) \o SubSeq(q, i + 1, Len(q))]
  BY <1>2, LenProperties DEF LeaveQueue
<1>4. PICK r \in Seq(Conns) :
        /\ r = SubSeq(q, 1, i - 1) \o SubSeq(q, i + 1, Len(q))
        /\ Len(r) = Len(q) - 1
        /\ \A j \in 1..Len(r) : r[j] = IF j < i THEN q[j] ELSE q[j + 1]
  <2>. HIDE DEF q
  <2>. QED BY <1>2, RemovalFacts, Zenon
<1>5. lock_queue' = [lock_queue EXCEPT ![scope(c)] = r]
  BY <1>3, <1>4, Zenon
<1>6. /\ q[i] = c /\ Len(r) = Len(q) - 1
      /\ \A j \in 1..Len(r) : r[j] = IF j < i THEN q[j] ELSE q[j + 1]
  BY <1>3, <1>4, Zenon
<1>7. /\ Distinct(r)
      /\ \A x : In(x, r) <=> In(x, q) /\ x # c
      /\ Head(q) # c => r # <<>> /\ Head(r) = Head(q)
  <2>. HIDE DEF q
  <2>1. /\ Distinct(r)
        /\ \A x : In(x, r) <=> In(x, q) /\ x # q[i]
        /\ Head(q) # q[i] => r # <<>> /\ Head(r) = Head(q)
    BY <1>2, <1>6, RemovalFromQueue, Zenon
  <2>. QED BY <1>6, <2>1, Zenon
<1>8. \A d \in Conns : In(d, r) <=> IF d = c THEN pc'[c] \in Queued ELSE In(d, q)
  BY <1>7
<1>9. \A d \in Conns : d # c /\ pc[d] \in HasTurn /\ scope(d) = scope(c) =>
                       r # <<>> /\ Head(r) = d
  BY <1>2, <1>7
<1>. QED BY <1>1, <1>5, <1>7, <1>8, <1>9, QueueChanges

\* The holder of the lock goes, and asks for it again or does not.
LEMMA QueueHeadLeaves ==
  ASSUME LifecycleInv, NEW c \in Conns, pc[c] \in Queued, HoldsLock(c),
         UNCHANGED <<lease_policy, handle>>, pc'[c] \notin HasTurn,
         \A d \in Conns : d # c => pc'[d] = pc[d],
         \/ /\ pc'[c] \in Queued
            /\ lock_queue' = [lock_queue EXCEPT ![scope(c)] = QueueAfterInstall(c)]
         \/ pc'[c] \notin Queued /\ lock_queue' = [lock_queue EXCEPT ![scope(c)] = Tail(@)]
  PROVE  QueueOK' /\ lock_queue' \in [Scopes -> Seq(Conns)]
<1>. DEFINE q == lock_queue[scope(c)]
<1>1. pc[c] # "idle" /\ q # <<>> /\ Head(q) = c
  BY DEF Queued, HasTurn, HoldsLock
<1>2. q \in Seq(Conns) /\ Distinct(q)
      /\ \A d \in Conns : pc[d] \in HasTurn /\ scope(d) = scope(c) => d = c
  BY <1>1, QueueFacts
<1>3. /\ Tail(q) \in Seq(Conns) /\ Distinct(Tail(q))
      /\ \A x : In(x, Tail(q)) <=> In(x, q) /\ x # c
  BY <1>1, <1>2, TailOfQueue
<1>4. CASE /\ pc'[c] \in Queued
           /\ lock_queue' = [lock_queue EXCEPT ![scope(c)] = Append(Tail(q), c)]
  <2>. DEFINE r == Append(Tail(q), c)
  <2>1. /\ r \in Seq(Conns) /\ Distinct(r)
        /\ \A x : In(x, r) <=> In(x, Tail(q)) \/ x = c
    <3>1. PICK t \in Seq(Conns) : t = Tail(q)
      BY <1>3
    <3>2. Distinct(t) /\ ~In(c, t)
      BY <1>3, <3>1
    <3>3. /\ Append(t, c) \in Seq(Conns) /\ Distinct(Append(t, c))
          /\ \A x : In(x, Append(t, c)) <=> In(x, t) \/ x = c
      BY <3>2, AppendToQueue
    <3>. QED BY <3>1, <3>3
  <2>2. lock_queue' = [lock_queue EXCEPT ![scope(c)] = r]
    BY <1>4, Zenon
  <2>3. \A d \in Conns : In(d, r) <=> IF d = c THEN pc'[c] \in Queued ELSE In(d, q)
    <3>. HIDE DEF r, q
    <3>. QED BY <1>3, <1>4, <2>1
  <2>. HIDE DEF r
  <2>. QED BY <1>1, <1>2, <2>1, <2>2, <2>3, QueueChanges
<1>5. CASE pc'[c] \notin Queued /\ lock_queue' = [lock_queue EXCEPT ![scope(c)] = Tail(q)]
  BY <1>1, <1>2, <1>3, <1>5, QueueChanges
<1>. QED BY <1>4, <1>5 DEF QueueAfterInstall

\* Asking for the lock of the scope keeps the turns of those already there.
LEMMA QueueEntered ==
  ASSUME LifecycleInv, NEW c \in Conns, pc[c] = "building", pc'[c] = "replacing",
         lock_queue' = [lock_queue EXCEPT ![scope(c)] = Append(@, c)],
         UNCHANGED <<lease_policy, handle>>,
         \A d \in Conns : d # c => pc'[d] = pc[d]
  PROVE  QueueOK' /\ lock_queue' \in [Scopes -> Seq(Conns)]
<1>. DEFINE q == lock_queue[scope(c)]
<1>1. q \in Seq(Conns) /\ Distinct(q) /\ ~In(c, q)
      /\ \A d \in Conns : pc[d] \in HasTurn /\ scope(d) = scope(c) => q # <<>> /\ Head(q) = d
  BY QueueFacts DEF Queued, HasTurn
<1>2. /\ Append(q, c) \in Seq(Conns) /\ Distinct(Append(q, c)) /\ Append(q, c) # <<>>
      /\ \A y : In(y, Append(q, c)) <=> In(y, q) \/ y = c
      /\ Head(Append(q, c)) = IF q = <<>> THEN c ELSE Head(q)
  BY <1>1, AppendToQueue
<1>. QED BY <1>1, <1>2, QueueChanges DEF Queued, HasTurn
-------------------------------------------------------------------------------
(* What the steps do to the registry: besides Create and the start of a run *)
(* they only end sessions.                                                   *)

\* The step ends at most the sessions of these connections.
Ending(cs) ==
  /\ IInv' /\ UNCHANGED <<lease_policy, next_generation>>
  /\ \A sc \in Scopes : audio_owners'[sc] \in {audio_owners[sc], NoHandle}
  /\ \A sc \in Scopes, c \in cs : audio_owners'[sc] # handle[c]
  /\ \A sc \in Scopes, c \in Conns \ cs :
       pc[c] # "idle" /\ audio_owners[sc] = handle[c] => audio_owners'[sc] = handle[c]
  /\ \A id \in SessionIds : Present(id)' => Present(id) /\ HandleOf(id)' = HandleOf(id)
  /\ \A c \in Conns \ cs : pc[c] # "idle" /\ IsCurrent(c) =>
       sessions'[Id(c)] = sessions[Id(c)]
  /\ \A c \in cs : IsCurrent(c)' => sessions'[Id(c)].state \in TERMINAL_SESSION_STATES

\* Leaving the registry alone ends nobody's session.
LEMMA NothingEnds ==
  ASSUME LifecycleInv, UNCHANGED registry_vars
  PROVE  Ending({})
<1>1. IInv'
  BY StepInvariant DEF LifecycleInv
<1>. QED BY <1>1 DEF Ending, registry_vars, Present, HandleOf

\* A release by a connection gives back exactly what its own handle holds.
LEMMA ReleaseIsOwn ==
  ASSUME LifecycleInv, NEW c \in Conns, pc[c] # "idle"
  PROVE  /\ LeasesAfterRelease(Id(c), Generation(c)) \in [Scopes -> SessionHandle \cup {NoHandle}]
         /\ \A sc \in Scopes : LeasesAfterRelease(Id(c), Generation(c))[sc] =
              IF audio_owners[sc] = handle[c] THEN NoHandle ELSE audio_owners[sc]
         /\ IsCurrent(c) => LeasesWithout(Id(c)) = LeasesAfterRelease(Id(c), Generation(c))
<1>. DEFINE s == lease_scope(Id(c))
<1>1. /\ handle[c] \in SessionHandle /\ Generation(c) \in 1..MaxGeneration
      /\ s \in Scopes /\ Id(c) \in SessionIds
  BY ConnectionFacts
<1>2. audio_owners \in [Scopes -> SessionHandle \cup {NoHandle}]
  BY DEF LifecycleInv, IInv, RegistryTypeOK
<1>3. \A sc \in Scopes : audio_owners[sc] = handle[c] => sc = s
  BY <1>1 DEF LifecycleInv, IInv, LeasesInScope, Id
<1>4. audio_owners[s].id = Id(c) /\ Generation(c) \in {Unfenced, audio_owners[s].generation}
        <=> audio_owners[s] = handle[c]
  BY <1>1, <1>2, RegistryAssumption DEF SessionHandle, NoHandle, Id, Generation, Unfenced
<1>5. LeasesAfterRelease(Id(c), Generation(c)) =
        IF audio_owners[s] = handle[c] THEN [audio_owners EXCEPT ![s] = NoHandle]
                                       ELSE audio_owners
  BY <1>4 DEF LeasesAfterRelease
<1>6. IsCurrent(c) => LeasesWithout(Id(c)) = LeasesAfterRelease(Id(c), Generation(c))
  BY <1>5 DEF LeasesWithout, IsCurrent
<1>. QED BY <1>1, <1>2, <1>3, <1>5, <1>6

\* The end of one session: its lease is back, its record has ended or is gone.
LEMMA OneSessionEnds ==
  ASSUME LifecycleInv, NEW c \in Conns, pc[c] # "idle", IInv',
         UNCHANGED <<lease_policy, next_generation, handle>>,
         \A sc \in Scopes :
           audio_owners'[sc] =
             IF audio_owners[sc] = handle[c] THEN NoHandle ELSE audio_owners[sc],
         \A id \in SessionIds : id # Id(c) \/ ~IsCurrent(c) => sessions'[id] = sessions[id],
         IsCurrent(c) =>
           \/ sessions'[Id(c)] = NoSession
           \/ /\ sessions'[Id(c)].generation = sessions[Id(c)].generation
              /\ sessions'[Id(c)].state \in TERMINAL_SESSION_STATES
  PROVE  Ending({c})
<1>1. /\ handle[c] \in SessionHandle /\ handle[c] # NoHandle /\ Id(c) \in SessionIds
      /\ Id(c)' = Id(c)
  BY ConnectionFacts DEF Id
<1>2. \A sc \in Scopes : /\ audio_owners'[sc] \in {audio_owners[sc], NoHandle}
                         /\ audio_owners'[sc] # handle[c]
  BY <1>1
<1>3. ASSUME NEW d \in Conns \ {c}, pc[d] # "idle" PROVE handle[d] # handle[c]
  BY <1>3 DEF LifecycleInv, TurnsInv, HandlesOK
<1>4. \A id \in SessionIds : Present(id)' => Present(id) /\ HandleOf(id)' = HandleOf(id)
  BY <1>1 DEF Present, HandleOf, NoSession, IsCurrent
<1>5. ASSUME NEW d \in Conns \ {c}, pc[d] # "idle", IsCurrent(d)
      PROVE  sessions'[Id(d)] = sessions[Id(d)]
  <2>1. Id(d) \in SessionIds
    BY <1>5, ConnectionFacts
  <2>2. Id(d) = Id(c) => ~IsCurrent(c)
    BY <1>3, <1>5 DEF IsCurrent
  <2>. QED BY <2>1, <2>2
<1>6. IsCurrent(c)' => sessions'[Id(c)].state \in TERMINAL_SESSION_STATES
  BY <1>1, <1>4 DEF IsCurrent, Present, NoSession
<1>. QED BY <1>1, <1>2, <1>3, <1>4, <1>5, <1>6 DEF Ending

\* Closing the lease of a terminal ends no session but its own, and the handle is
\* no longer current (or its record is gone).
LEMMA CloseTerminalLeaseEnds ==
  ASSUME LifecycleInv, NEW c \in Terminal, pc[c] # "idle", UNCHANGED handle,
         CloseTerminalLease(c)
  PROVE  Ending({c}) /\ ~IsCurrent(c)'
<1>. c \in Conns
  BY DEF Conns
<1>1. Id(c) \in SessionIds /\ Id(c)' = Id(c)
  BY ConnectionFacts DEF Id
<1>2. CASE IsCurrent(c)
  <2>1. /\ sessions' = [sessions EXCEPT ![Id(c)] = NoSession]
        /\ audio_owners' = LeasesAfterRelease(Id(c), Generation(c))
        /\ UNCHANGED <<lease_policy, next_generation>>
    BY <1>2 DEF CloseTerminalLease
  <2>2. \A id \in SessionIds : sessions'[id] = IF id = Id(c) THEN NoSession ELSE sessions[id]
    BY <2>1 DEF LifecycleInv, IInv, RegistryTypeOK
  <2>3. \A sc \in Scopes :
          audio_owners'[sc] = IF audio_owners[sc] = handle[c] THEN NoHandle ELSE audio_owners[sc]
    BY <2>1, ReleaseIsOwn
  <2>4. IInv'
    BY <1>1, <2>1, <2>3, ReleaseIsOwn, RemovalKeepsInvariant DEF LifecycleInv
  <2>5. Ending({c})
    BY <1>1, <1>2, <2>1, <2>2, <2>3, <2>4, OneSessionEnds
  <2>. QED BY <1>1, <2>2, <2>5 DEF IsCurrent, Present, NoSession
<1>3. CASE ~IsCurrent(c)
  <2>1. UNCHANGED registry_vars
    BY <1>3 DEF CloseTerminalLease
  <2>2. IInv'
    BY <2>1, StepInvariant DEF LifecycleInv
  <2>3. \A sc \in Scopes : audio_owners[sc] # handle[c]
    BY <1>3 DEF LifecycleInv, LeasesOK
  <2>4. ~IsCurrent(c)'
    BY <1>1, <1>3, <2>1 DEF IsCurrent, Present, HandleOf, registry_vars
  <2>5. Ending({c})
    BY <1>1, <1>3, <2>1, <2>2, <2>3, OneSessionEnds DEF registry_vars
  <2>. QED BY <2>4, <2>5
<1>. QED BY <1>2, <1>3

\* close() of either kind of connection ends no session but the one it belongs to.
LEMMA CloseStateEnds ==
  ASSUME LifecycleInv, NEW c \in Conns, pc[c] # "idle", UNCHANGED handle, CloseState(c)
  PROVE  Ending({c})
<1>1. CASE c \in Terminal
  BY <1>1, CloseTerminalLeaseEnds, LifecycleAssumption DEF CloseState
<1>2. CASE c \notin Terminal
  <2>1. /\ sessions' = SessionsAfterCloseState(c)
        /\ audio_owners' = LeasesAfterRelease(Id(c), Generation(c))
        /\ UNCHANGED <<lease_policy, next_generation>>
    BY <1>2 DEF CloseState, CloseSessionState, Conns
  <2>2. Id(c) \in SessionIds
    BY ConnectionFacts
  <2>3. \A sc \in Scopes :
          audio_owners'[sc] = IF audio_owners[sc] = handle[c] THEN NoHandle ELSE audio_owners[sc]
    BY <2>1, ReleaseIsOwn
  <2>4. CASE IsCurrent(c) /\ sessions[Id(c)].state \notin TERMINAL_SESSION_STATES
    <3>1. sessions' = [sessions EXCEPT ![Id(c)].state = "closed"]
      BY <2>1, <2>4 DEF SessionsAfterCloseState
    <3>2. "closed" \in SessionState /\ "closed" \in TERMINAL_SESSION_STATES
      BY DEF SessionState, TERMINAL_SESSION_STATES
    <3>3. audio_owners' = LeasesWithout(Id(c)) /\ Present(Id(c))
      BY <2>1, <2>4, ReleaseIsOwn DEF IsCurrent
    <3>4. IInv'
      BY <2>1, <2>2, <3>1, <3>2, <3>3, StateChangeKeepsInvariant DEF LifecycleInv
    <3>5. sessions[Id(c)] \in VoiceSessionSnapshot
      BY <2>2, <3>3, RecordTypes DEF LifecycleInv, IInv
    <3>6. /\ \A id \in SessionIds : id # Id(c) => sessions'[id] = sessions[id]
          /\ sessions'[Id(c)].generation = sessions[Id(c)].generation
          /\ sessions'[Id(c)].state = "closed"
      BY <2>2, <3>1, <3>5 DEF LifecycleInv, IInv, RegistryTypeOK, VoiceSessionSnapshot
    <3>. QED BY <2>1, <2>3, <2>4, <3>2, <3>4, <3>6, OneSessionEnds
  <2>5. CASE ~(IsCurrent(c) /\ sessions[Id(c)].state \notin TERMINAL_SESSION_STATES)
    <3>1. sessions' = sessions
      BY <2>1, <2>5 DEF SessionsAfterCloseState
    <3>2. IInv'
      BY <2>1, <2>2, <3>1, LeaseCallKeepsInvariant DEF LifecycleInv, ReleaseAudio
    <3>. QED BY <2>1, <2>3, <2>5, <3>1, <3>2, OneSessionEnds
  <2>. QED BY <2>4, <2>5
<1>. QED BY <1>1, <1>2

\* A failure ends the session of the connection that reports it.
LEMMA FailEnds ==
  ASSUME LifecycleInv, NEW c \in Conns, pc[c] # "idle", UNCHANGED handle,
         Transition(Id(c), "failed", Generation(c), Unfenced)
  PROVE  Ending({c}) /\ IsCurrent(c)
<1>1. Id(c) \in SessionIds /\ Generation(c) \in 1..MaxGeneration /\ handle[c] \in SessionHandle
  BY ConnectionFacts
<1>2. "failed" \in SessionState /\ "failed" \in TERMINAL_SESSION_STATES
  BY DEF SessionState, TERMINAL_SESSION_STATES
<1>3. Present(Id(c)) /\ Generation(c) = sessions[Id(c)].generation
  BY <1>1 DEF Transition, CanTransition, require, Unfenced
<1>4. IsCurrent(c)
  BY <1>1, <1>3 DEF IsCurrent, HandleOf, Id, Generation, SessionHandle
<1>5. IInv'
  BY <1>1, <1>2, TransitionKeepsInvariant DEF LifecycleInv
<1>6. sessions[Id(c)] \in VoiceSessionSnapshot
  BY <1>1, <1>3, RecordTypes DEF LifecycleInv, IInv
<1>7. /\ \A id \in SessionIds : id # Id(c) => sessions'[id] = sessions[id]
      /\ sessions'[Id(c)].generation = sessions[Id(c)].generation
      /\ sessions'[Id(c)].state = "failed"
  BY <1>1, <1>6 DEF Transition, LifecycleInv, IInv, RegistryTypeOK, VoiceSessionSnapshot
<1>8. \A sc \in Scopes :
        audio_owners'[sc] = IF audio_owners[sc] = handle[c] THEN NoHandle ELSE audio_owners[sc]
  BY <1>2, <1>4, ReleaseIsOwn DEF Transition
<1>. QED BY <1>2, <1>4, <1>5, <1>7, <1>8, OneSessionEnds DEF Transition

\* A browser connection that has been closed leaves no record behind.
LEMMA FinalReapEnds ==
  ASSUME LifecycleInv, NEW c \in Conns, pc[c] # "idle", closer[c] = "done", UNCHANGED handle,
         IF CanReap(Id(c), Generation(c))
         THEN Reap(Id(c), Generation(c)) ELSE UNCHANGED registry_vars
  PROVE  Ending({c}) /\ ~IsCurrent(c)'
<1>1. /\ Id(c) \in SessionIds /\ Generation(c) \in 1..MaxGeneration
      /\ handle[c] \in SessionHandle /\ Id(c)' = Id(c)
  BY ConnectionFacts DEF Id
<1>2. CanReap(Id(c), Generation(c)) <=> IsCurrent(c)
  <2>1. IsCurrent(c) <=> require(Id(c), Generation(c), Unfenced)
    BY <1>1 DEF IsCurrent, HandleOf, require, Unfenced, Id, Generation, SessionHandle
  <2>2. IsCurrent(c) => sessions[Id(c)].state \in TERMINAL_SESSION_STATES
    BY DEF LifecycleInv, RecordsOK
  <2>. QED BY <2>1, <2>2 DEF CanReap
<1>3. \A sc \in Scopes : audio_owners[sc] # handle[c]
  BY DEF LifecycleInv, LeasesOK
<1>4. CASE IsCurrent(c)
  <2>1. Reap(Id(c), Generation(c))
    BY <1>2, <1>4
  <2>2. IInv'
    BY <1>1, <2>1, ReapKeepsInvariant DEF LifecycleInv
  <2>3. \A id \in SessionIds : sessions'[id] = IF id = Id(c) THEN NoSession ELSE sessions[id]
    BY <2>1 DEF Reap, LifecycleInv, IInv, RegistryTypeOK
  <2>4. \A sc \in Scopes :
          audio_owners'[sc] = IF audio_owners[sc] = handle[c] THEN NoHandle ELSE audio_owners[sc]
    BY <1>4, <2>1, ReleaseIsOwn DEF Reap
  <2>5. Ending({c})
    BY <1>1, <1>4, <2>1, <2>2, <2>3, <2>4, OneSessionEnds DEF Reap
  <2>. QED BY <1>1, <2>3, <2>5 DEF IsCurrent, Present, NoSession
<1>5. CASE ~IsCurrent(c)
  <2>1. UNCHANGED registry_vars
    BY <1>2, <1>5
  <2>2. IInv'
    BY <2>1, StepInvariant DEF LifecycleInv
  <2>3. ~IsCurrent(c)'
    BY <1>1, <1>5, <2>1 DEF IsCurrent, Present, HandleOf, registry_vars
  <2>4. Ending({c})
    BY <1>1, <1>3, <1>5, <2>1, <2>2, OneSessionEnds DEF registry_vars
  <2>. QED BY <2>3, <2>4
<1>. QED BY <1>4, <1>5
-------------------------------------------------------------------------------
(* What the parts of the invariant need of a step.                          *)

\* A step that ends these sessions keeps handles, leases and records in order if it
\* finishes no connection with a record, starts no run again, and installs no entry
\* over a connection that keeps its lease.
LEMMA RegistryFollows ==
  ASSUME LifecycleInv, NEW cs \in SUBSET Conns, Ending(cs), UNCHANGED handle,
         \A d \in Conns : pc'[d] = "idle" <=> pc[d] = "idle",
         \A d \in Conns : pc'[d] = "done" => pc[d] = "done" \/ ~IsCurrent(d)',
         \A d \in Conns : run_task'[d] \in {"none", "starting"} =>
                            run_task[d] \in {"none", "starting"},
         \A d \in Conns \ cs : closer'[d] = "done" <=> closer[d] = "done",
         \A d \in cs : run_task'[d] \in {"none", "starting"} =>
                         closer'[d] = "done" \/ ~IsCurrent(d)',
         \A sc \in Scopes, d \in Conns \ cs :
           pc[d] # "idle" /\ audio_owners[sc] = handle[d] => active'[sc] = active[sc]
  PROVE  IInv' /\ HandlesOK' /\ LeasesOK' /\ RecordsOK'
<1>1. IInv'
  BY DEF Ending
<1>2. HandlesOK'
  BY DEF LifecycleInv, TurnsInv, HandlesOK, Ending, Id, RequestableIds
<1>3. \A d \in Conns : pc[d] # "idle" =>
        /\ handle[d] # NoHandle /\ Id(d)' = Id(d) /\ Id(d) \in SessionIds
        /\ IsCurrent(d)' => IsCurrent(d)
  <2>. SUFFICES ASSUME NEW d \in Conns, pc[d] # "idle"
                PROVE  /\ handle[d] # NoHandle /\ Id(d)' = Id(d) /\ Id(d) \in SessionIds
                       /\ IsCurrent(d)' => IsCurrent(d)
    OBVIOUS
  <2>1. handle[d] # NoHandle /\ Id(d) \in SessionIds /\ Id(d)' = Id(d)
    BY ConnectionFacts DEF Id
  <2>2. IsCurrent(d)' => IsCurrent(d)
    BY <2>1 DEF IsCurrent, Ending
  <2>. QED BY <2>1, <2>2
<1>4. ASSUME NEW sc \in Scopes, audio_owners'[sc] # NoHandle
      PROVE  \E d \in Conns : pc'[d] # "idle" /\ handle'[d] = audio_owners'[sc]
  BY <1>4 DEF LifecycleInv, LeasesOK, Ending
<1>5. ASSUME NEW sc \in Scopes, NEW d \in Conns, pc[d] # "idle", audio_owners'[sc] = handle[d]
      PROVE  /\ active'[sc] = [conn |-> d, started |-> TRUE]
             /\ run_task'[d] # "starting" /\ closer'[d] # "done"
             /\ d \in Terminal => IsCurrent(d)'
  <2>1. d \notin cs /\ audio_owners[sc] = handle[d]
    BY <1>3, <1>5 DEF Ending
  <2>2. /\ active[sc] = [conn |-> d, started |-> TRUE]
        /\ run_task[d] # "starting" /\ closer[d] # "done"
        /\ d \in Terminal => IsCurrent(d)
    BY <1>5, <2>1 DEF LifecycleInv, LeasesOK
  <2>3. run_task[d] # "none"
    BY <2>2, LifecycleAssumption DEF LifecycleInv, EntriesInv, ActiveOK, EntryOK, NoEntry
  <2>4. IsCurrent(d) => IsCurrent(d)'
    BY <1>3, <1>5, <2>1 DEF Ending, IsCurrent, Present, HandleOf
  <2>. QED BY <1>5, <2>1, <2>2, <2>3, <2>4
<1>6. ASSUME NEW id \in SessionIds, Present(id)'
      PROVE  \E d \in Conns : pc'[d] # "idle" /\ handle'[d] = HandleOf(id)'
  <2>1. Present(id) /\ HandleOf(id)' = HandleOf(id)
    BY <1>6 DEF Ending
  <2>. QED BY <2>1 DEF LifecycleInv, RecordsOK
<1>7. ASSUME NEW d \in Conns, pc[d] # "idle", IsCurrent(d)'
      PROVE  /\ pc'[d] # "done"
             /\ run_task'[d] \in {"none", "starting"} /\ closer'[d] # "done" =>
                  sessions'[Id(d)].state = "created"
             /\ closer'[d] = "done" => sessions'[Id(d)].state \in TERMINAL_SESSION_STATES
  <2>1. /\ pc[d] # "done"
        /\ run_task[d] \in {"none", "starting"} /\ closer[d] # "done" =>
             sessions[Id(d)].state = "created"
        /\ closer[d] = "done" => sessions[Id(d)].state \in TERMINAL_SESSION_STATES
    BY <1>3, <1>7 DEF LifecycleInv, RecordsOK
  <2>2. CASE d \in cs
    BY <1>7, <2>1, <2>2 DEF Ending
  <2>3. CASE d \notin cs
    <3>1. sessions'[Id(d)] = sessions[Id(d)]
      BY <1>3, <1>7, <2>3 DEF Ending
    <3>. QED BY <1>7, <2>1, <2>3, <3>1
  <2>. QED BY <2>2, <2>3
<1>8. LeasesOK'
  BY <1>4, <1>5 DEF LeasesOK
<1>9. RecordsOK'
  BY <1>3, <1>6, <1>7 DEF RecordsOK
<1>. QED BY <1>1, <1>2, <1>8, <1>9

\* An entry stays well-founded while owners only go on and runs are not forgotten.
LEMMA EntryStays ==
  ASSUME NEW e \in Entry, EntryOK(e),
         pc[e.conn] \in Installed \cup {"done"} => pc'[e.conn] \in Installed \cup {"done"},
         run_task'[e.conn] = "none" => run_task[e.conn] = "none"
  PROVE  EntryOK(e)'
BY DEF EntryOK

\* The entries stay in order in a step that puts none in place and takes none away.
LEMMA EntriesStay ==
  ASSUME LifecycleInv, ClosersOK',
         UNCHANGED <<lease_policy, active, previous, captured>>,
         \A d \in Conns : pc[d] # "idle" => handle'[d] = handle[d],
         \A d \in Conns : pc'[d] \in HasTurn <=> pc[d] \in HasTurn,
         \A d \in Conns : pc[d] \in Installed => pc'[d] \in Installed,
         \A d \in Conns : pc[d] \in {"running", "finalizing"} =>
                            pc'[d] \in {"running", "finalizing"},
         \A d \in Conns : pc[d] = "done" => pc'[d] = "done",
         \A d \in Conns : run_task'[d] = "none" <=> run_task[d] = "none",
         \A d \in Conns : run_task[d] \in EndedRun => run_task'[d] \in EndedRun,
         \A d \in Conns : Live(d)' => Live(d) /\ pc'[d] = pc[d],
         \A d \in Conns : pc'[d] \in {"stopping_previous", "cancelled_stopping"} =>
                            previous[d].started,
         \A d \in Conns : pc'[d] = "closing_previous" /\ previous[d].started =>
                            run_task'[previous[d].conn] \in EndedRun
  PROVE  EntriesInv'
<1>. USE DEF LifecycleInv, EntriesInv, TurnsInv
<1>1. ASSUME NEW e \in Entry, EntryOK(e) PROVE EntryOK(e)'
  <2>1. e.conn \in Conns
    BY DEF Entry
  <2>. QED BY <1>1, <2>1, EntryStays
<1>2. \A d \in Conns : pc[d] # "idle" => scope(d)' = scope(d) /\ scope(d) \in Scopes
  BY ConnectionFacts, ScopesStay
<1>3. ActiveOK'
  <2>. SUFFICES ASSUME NEW sc \in Scopes, active[sc] # NoEntry
                PROVE  /\ EntryOK(active[sc])'
                       /\ pc'[active[sc].conn] # "done"
                       /\ scope(active[sc].conn)' = sc
                       /\ ~active[sc].started => run_task'[active[sc].conn] = "none"
    BY DEF ActiveOK, EntryOK
  <2>1. active[sc] \in Entry /\ active[sc].conn \in Conns
    BY DEF LifecycleTypes, Entry
  <2>2. /\ EntryOK(active[sc])
        /\ pc[active[sc].conn] # "done"
        /\ scope(active[sc].conn) = sc
        /\ ~active[sc].started => run_task[active[sc].conn] = "none"
    BY DEF ActiveOK
  <2>3. pc[active[sc].conn] \in Installed /\ pc[active[sc].conn] # "idle"
    BY <2>2 DEF EntryOK, Installed
  <2>4. EntryOK(active[sc])'
    <3>1. PICK e \in Entry : e = active[sc]
      BY <2>1
    <3>. QED BY <1>1, <2>2, <3>1 DEF EntryOK
  <2>. QED BY <1>2, <2>1, <2>2, <2>3, <2>4 DEF Installed
<1>4. PreviousOK'
  <2>1. ASSUME NEW d \in Conns, pc[d] \in HasTurn
        PROVE  EntryOK(previous[d])' /\ active[scope(d)'] \in {previous[d], NoEntry}
    <3>1. previous[d] \in Entry /\ EntryOK(previous[d])
      BY <2>1 DEF LifecycleTypes, PreviousOK
    <3>2. EntryOK(previous[d])'
      <4>1. PICK e \in Entry : e = previous[d]
        BY <3>1
      <4>. QED BY <1>1, <3>1, <4>1 DEF EntryOK
    <3>. QED BY <1>2, <2>1, <3>2 DEF PreviousOK, HasTurn
  <2>. QED BY <2>1 DEF PreviousOK, EntryOK
<1>5. RunsOK'
  <2>1. ASSUME NEW d \in Conns, run_task'[d] # "none"
        PROVE  pc'[d] \in {"running", "finalizing", "done"}
    BY <2>1 DEF RunsOK
  <2>2. ASSUME NEW d \in Conns, Live(d)'
        PROVE  pc'[d] = "running" /\ active'[scope(d)'] = [conn |-> d, started |-> TRUE]
    BY <1>2, <2>2 DEF RunsOK
  <2>. QED BY <2>1, <2>2 DEF RunsOK
<1>6. CapturedOK'
  BY <1>1 DEF CapturedOK, LifecycleTypes, EntryOK
<1>. QED BY <1>3, <1>4, <1>5, <1>6 DEF EntriesInv
-------------------------------------------------------------------------------
(* The steps that leave the entries and the queues as they are.             *)

\* Owners stay on their side of the lock, of their run and of their end.
OwnersKeepPlace ==
  \A d \in Conns :
    /\ pc'[d] \in Queued <=> pc[d] \in Queued
    /\ pc'[d] \in HasTurn <=> pc[d] \in HasTurn
    /\ pc[d] = "run_active" => pc'[d] = "run_active"
    /\ pc[d] \in {"running", "finalizing"} => pc'[d] \in {"running", "finalizing"}
    /\ pc'[d] = "idle" <=> pc[d] = "idle"
    /\ pc'[d] = "done" <=> pc[d] = "done"
    /\ Live(d)' => pc'[d] = pc[d]

\* No run begins, and none is taken back.
RunsOnlyEnd ==
  \A d \in Conns :
    /\ run_task'[d] = "none" <=> run_task[d] = "none"
    /\ run_task[d] \in EndedRun => run_task'[d] \in EndedRun
    /\ run_task'[d] = "starting" => run_task[d] = "starting"
    /\ Live(d)' => Live(d)

\* A step that ends sessions of cs and leaves the entries, the handles and the queues
\* alone keeps the invariant, whatever tasks it cancels.
LEMMA QuietStepKeepsInvariant ==
  ASSUME LifecycleInv, NEW cs \in SUBSET Conns, Ending(cs), LifecycleTypes', ClosersOK',
         UNCHANGED <<handle, active, previous, captured, lock_queue>>,
         OwnersKeepPlace, RunsOnlyEnd,
         \A d \in Conns : pc'[d] \in {"stopping_previous", "cancelled_stopping"} =>
                            pc[d] \in {"stopping_previous", "cancelled_stopping"},
         \A d \in Conns : pc'[d] = "closing_previous" /\ pc[d] # "closing_previous" =>
                            run_task[previous[d].conn] \in EndedRun,
         \A d \in Conns \ cs : closer'[d] = "done" <=> closer[d] = "done",
         \A d \in cs : run_task'[d] \in {"none", "starting"} =>
                         closer'[d] = "done" \/ ~IsCurrent(d)'
  PROVE  LifecycleInv'
<1>1. UNCHANGED lease_policy
  BY DEF Ending
<1>2. IInv' /\ HandlesOK' /\ LeasesOK' /\ RecordsOK'
  BY RegistryFollows DEF OwnersKeepPlace, RunsOnlyEnd
<1>3. QueueOK'
  <2>1. \A d \in Conns : pc[d] \in HasTurn => HoldsLock(d)
    BY DEF LifecycleInv, TurnsInv, QueueOK
  <2>. QED BY <1>1, <2>1, QueueStays DEF OwnersKeepPlace
<1>4. EntriesInv'
  <2>1. \A d \in Conns : /\ pc[d] \in Installed => pc'[d] \in Installed
                         /\ run_task'[d] = "none" <=> run_task[d] = "none"
                         /\ run_task[d] \in EndedRun => run_task'[d] \in EndedRun
                         /\ Live(d)' => Live(d) /\ pc'[d] = pc[d]
    BY DEF OwnersKeepPlace, RunsOnlyEnd, Installed
  <2>2. \A d \in Conns :
          /\ pc'[d] \in {"stopping_previous", "cancelled_stopping"} => previous[d].started
          /\ pc[d] = "closing_previous" /\ previous[d].started =>
               run_task[previous[d].conn] \in EndedRun /\ previous[d].conn \in Conns
    BY DEF LifecycleInv, EntriesInv, PreviousOK, TurnsInv, LifecycleTypes, Entry, HasTurn, NoEntry
  <2>3. \A d \in Conns : pc'[d] = "closing_previous" => previous[d].conn \in Conns
    BY DEF OwnersKeepPlace, LifecycleInv, EntriesInv, PreviousOK, TurnsInv, LifecycleTypes,
           Entry, HasTurn, NoEntry
  <2>. QED BY <1>1, <2>1, <2>2, <2>3, EntriesStay DEF OwnersKeepPlace
<1>. QED BY <1>2, <1>3, <1>4 DEF LifecycleInv, TurnsInv

\* Calling closers touches nobody's entry, run or record.
LEMMA StartClosersFacts ==
  ASSUME LifecycleInv, NEW cs, StartClosers(cs)
  PROVE  /\ closer' \in [Conns -> CloserStep]
         /\ \A d \in Conns : /\ closer'[d] = "done" <=> closer[d] = "done"
                             /\ closer'[d] # "none" <=> closer[d] # "none" \/ d \in cs
BY DEF StartClosers, LifecycleInv, TurnsInv, LifecycleTypes, CloserStep

\* Cancelling run tasks leaves each of them live until it has actually ended.
LEMMA CancelRunsFacts ==
  ASSUME LifecycleInv, NEW cs, CancelRuns(cs)
  PROVE  run_task' \in [Conns -> RunStep] /\ RunsOnlyEnd /\ \A d \in Conns : Live(d)' <=> Live(d)
BY DEF CancelRuns, LifecycleInv, TurnsInv, LifecycleTypes, RunStep, EndedRun, RunsOnlyEnd, Live

\* A build that comes to nothing.
LEMMA AbortBuildKeepsInvariant ==
  ASSUME LifecycleInv, NEW c \in Conns, AbortBuild(c)
  PROVE  LifecycleInv'
<1>1. Ending({})
  BY NothingEnds DEF AbortBuild
<1>2. LifecycleTypes'
  BY DEF LifecycleInv, TurnsInv, LifecycleTypes, AbortBuild, Goto, OwnerStep
<1>3. \A d \in Conns : pc'[d] = IF d = c THEN "gone" ELSE pc[d]
  BY DEF LifecycleInv, TurnsInv, LifecycleTypes, AbortBuild, Goto
<1>4. ClosersOK'
  BY <1>3 DEF LifecycleInv, EntriesInv, ClosersOK, AbortBuild
<1>5. OwnersKeepPlace /\ RunsOnlyEnd
  <2>1. ~Live(c)'
    BY DEF AbortBuild, LifecycleInv, EntriesInv, RunsOK, Live
  <2>. QED BY <1>3, <2>1 DEF OwnersKeepPlace, RunsOnlyEnd, AbortBuild, Queued, HasTurn, Live
<1>. QED
  BY <1>1, <1>2, <1>3, <1>4, <1>5, QuietStepKeepsInvariant DEF AbortBuild

\* The previous run has ended, and the close of its connection is called.
LEMMA PreviousStoppedKeepsInvariant ==
  ASSUME LifecycleInv, NEW c \in Conns, PreviousStopped(c)
  PROVE  LifecycleInv'
<1>1. Ending({})
  BY NothingEnds DEF PreviousStopped
<1>2. previous[c] \in Entry /\ EntryOK(previous[c])
  BY DEF PreviousStopped, LifecycleInv, EntriesInv, PreviousOK, TurnsInv, LifecycleTypes, HasTurn
<1>3. /\ closer' \in [Conns -> CloserStep]
      /\ \A d \in Conns : /\ closer'[d] = "done" <=> closer[d] = "done"
                          /\ closer'[d] # "none" <=> closer[d] # "none" \/ d = previous[c].conn
  BY StartClosersFacts DEF PreviousStopped
<1>4. LifecycleTypes'
  BY <1>3 DEF LifecycleInv, TurnsInv, LifecycleTypes, PreviousStopped, Goto, OwnerStep
<1>5. \A d \in Conns : pc'[d] = IF d = c THEN "closing_previous" ELSE pc[d]
  BY DEF LifecycleInv, TurnsInv, LifecycleTypes, PreviousStopped, Goto
<1>6. ClosersOK'
  BY <1>2, <1>3, <1>5
     DEF LifecycleInv, EntriesInv, ClosersOK, PreviousStopped, EntryOK, Installed, Entry
<1>7. OwnersKeepPlace /\ RunsOnlyEnd
  <2>1. ~Live(c)'
    BY DEF PreviousStopped, LifecycleInv, EntriesInv, RunsOK, Live
  <2>. QED BY <1>5, <2>1 DEF OwnersKeepPlace, RunsOnlyEnd, PreviousStopped, Queued, HasTurn, Live
<1>8. \A d \in Conns : pc'[d] = "closing_previous" /\ pc[d] # "closing_previous" =>
                         run_task[previous[d].conn] \in EndedRun
  BY <1>5 DEF PreviousStopped, RunTaskEnded
<1>. QED
  BY <1>1, <1>3, <1>4, <1>5, <1>6, <1>7, <1>8, QuietStepKeepsInvariant DEF PreviousStopped

\* The cancellation of an owner that awaits the previous run is noted.
LEMMA CancelStoppingKeepsInvariant ==
  ASSUME LifecycleInv, NEW c \in Conns, CancelStopping(c)
  PROVE  LifecycleInv'
<1>1. Ending({})
  BY NothingEnds DEF CancelStopping
<1>2. LifecycleTypes'
  BY DEF LifecycleInv, TurnsInv, LifecycleTypes, CancelStopping, Goto, OwnerStep
<1>3. \A d \in Conns : pc'[d] = IF d = c THEN "cancelled_stopping" ELSE pc[d]
  BY DEF LifecycleInv, TurnsInv, LifecycleTypes, CancelStopping, Goto
<1>4. ClosersOK'
  BY <1>3 DEF LifecycleInv, EntriesInv, ClosersOK, CancelStopping, Installed
<1>5. OwnersKeepPlace /\ RunsOnlyEnd
  <2>1. ~Live(c)'
    BY DEF CancelStopping, LifecycleInv, EntriesInv, RunsOK, Live
  <2>. QED BY <1>3, <2>1 DEF OwnersKeepPlace, RunsOnlyEnd, CancelStopping, Queued, HasTurn, Live
<1>. QED
  BY <1>1, <1>2, <1>3, <1>4, <1>5, QuietStepKeepsInvariant DEF CancelStopping

\* A run that is refused or ends, one that is cut short, and the end of its pipeline.
LEMMA RunEndsKeepsInvariant ==
  ASSUME LifecycleInv, NEW c \in Conns,
         RefuseRun(c) \/ RunEnds(c) \/ RunCutShort(c) \/ PipelineEnds(c)
  PROVE  LifecycleInv'
<1>1. PICK step \in EndedRun :
        /\ run_task' = [run_task EXCEPT ![c] = step]
        /\ run_task[c] \notin {"none", "done"}
        /\ UNCHANGED <<registry_vars, pc, handle, previous, closer, active, lock_queue,
                       shutdown, captured>>
  BY DEF RefuseRun, RunEnds, RunCutShort, PipelineEnds, Running, LeftBehind, EndedRun
<1>2. LifecycleTypes'
  BY <1>1 DEF LifecycleInv, TurnsInv, LifecycleTypes, RunStep, EndedRun
<1>3. \A d \in Conns : run_task'[d] = IF d = c THEN step ELSE run_task[d]
  BY <1>1 DEF LifecycleInv, TurnsInv, LifecycleTypes
<1>4. ClosersOK' /\ OwnersKeepPlace
  BY <1>1 DEF LifecycleInv, EntriesInv, ClosersOK, OwnersKeepPlace
<1>5. RunsOnlyEnd
  BY <1>1, <1>3 DEF RunsOnlyEnd, Live, EndedRun
<1>. QED
  BY <1>1, <1>2, <1>4, <1>5, NothingEnds, QuietStepKeepsInvariant

\* The owner's task is cancelled while its session runs.
LEMMA CancelRunningKeepsInvariant ==
  ASSUME LifecycleInv, NEW c \in Conns, CancelRunning(c)
  PROVE  LifecycleInv'
<1>1. run_task' \in [Conns -> RunStep] /\ RunsOnlyEnd
  BY CancelRunsFacts DEF CancelRunning
<1>2. LifecycleTypes' /\ ClosersOK' /\ OwnersKeepPlace
  BY <1>1 DEF LifecycleInv, TurnsInv, LifecycleTypes, EntriesInv, ClosersOK, OwnersKeepPlace,
              CancelRunning
<1>. QED
  BY <1>1, <1>2, NothingEnds, QuietStepKeepsInvariant DEF CancelRunning

\* run_active returns in the owner, and the finalizer begins.
LEMMA OwnerResumesKeepsInvariant ==
  ASSUME LifecycleInv, NEW c \in Conns, OwnerResumes(c)
  PROVE  LifecycleInv'
<1>1. /\ closer' \in [Conns -> CloserStep]
      /\ \A d \in Conns : /\ closer'[d] = "done" <=> closer[d] = "done"
                          /\ closer'[d] # "none" => closer[d] # "none" \/ d = c
  BY StartClosersFacts DEF OwnerResumes, BeginFinalizer
<1>2. LifecycleTypes'
  BY <1>1
  DEF LifecycleInv, TurnsInv, LifecycleTypes, OwnerResumes, BeginFinalizer, Goto, OwnerStep
<1>3. \A d \in Conns : pc'[d] = IF d = c THEN "finalizing" ELSE pc[d]
  BY DEF LifecycleInv, TurnsInv, LifecycleTypes, OwnerResumes, BeginFinalizer, Goto
<1>4. ClosersOK'
  BY <1>1, <1>3 DEF LifecycleInv, EntriesInv, ClosersOK, Installed
<1>5. OwnersKeepPlace /\ RunsOnlyEnd
  BY <1>3 DEF OwnersKeepPlace, RunsOnlyEnd, OwnerResumes, RunTaskEnded, EndedRun, Queued,
                HasTurn, Live
<1>. QED
  BY <1>1, <1>2, <1>3, <1>4, <1>5, NothingEnds, QuietStepKeepsInvariant DEF OwnerResumes

\* A browser's disconnect, and the close of an entry captured at shutdown.
LEMMA CloserCallsKeepInvariant ==
  ASSUME LifecycleInv, NEW c \in Conns, pc[c] \notin {"idle", "building", "gone"},
         c \in Terminal => pc[c] \in Installed \cup {"done"},
         StartClosers({c}),
         UNCHANGED <<registry_vars, pc, handle, previous, run_task, active, lock_queue,
                     shutdown, captured>>
  PROVE  LifecycleInv'
<1>1. /\ closer' \in [Conns -> CloserStep]
      /\ \A d \in Conns : /\ closer'[d] = "done" <=> closer[d] = "done"
                          /\ closer'[d] # "none" => closer[d] # "none" \/ d = c
  BY StartClosersFacts
<1>2. LifecycleTypes' /\ ClosersOK'
  BY <1>1 DEF LifecycleInv, TurnsInv, LifecycleTypes, EntriesInv, ClosersOK
<1>3. OwnersKeepPlace /\ RunsOnlyEnd
  BY DEF OwnersKeepPlace, RunsOnlyEnd, Live
<1>. QED BY <1>1, <1>2, <1>3, NothingEnds, QuietStepKeepsInvariant

\* The browser goes away: the run is cancelled, nothing is released yet.
LEMMA DisconnectKeepsInvariant ==
  ASSUME LifecycleInv, NEW c \in Conns, Disconnect(c)
  PROVE  LifecycleInv'
<1>1. c \notin Terminal /\ pc[c] \notin {"idle", "building", "gone"}
  BY LifecycleAssumption DEF Disconnect, Connected
<1>. QED BY <1>1, CloserCallsKeepInvariant DEF Disconnect

\* The shutdown closes an entry it had captured.
LEMMA CapturedStoppedKeepsInvariant ==
  ASSUME LifecycleInv, NEW e, CapturedStopped(e)
  PROVE  LifecycleInv'
<1>1. e.conn \in Conns /\ EntryOK(e)
  BY DEF CapturedStopped, LifecycleInv, EntriesInv, CapturedOK, TurnsInv, LifecycleTypes, Entry
<1>. QED BY <1>1, CloserCallsKeepInvariant DEF CapturedStopped, EntryOK, Installed

\* The provider runtime fails the session of a run.
LEMMA FailKeepsInvariant ==
  ASSUME LifecycleInv, NEW c \in Conns, Fail(c)
  PROVE  LifecycleInv'
<1>1. UNCHANGED <<pc, handle, previous, run_task, closer, active, lock_queue, shutdown, captured>>
  BY DEF Fail, lifecycle_vars
<1>2. pc[c] # "idle" /\ run_task[c] \notin {"none", "starting"}
  BY DEF Fail, PipelineRuns, Running, LeftBehind, LifecycleInv, EntriesInv, RunsOK
<1>3. Ending({c})
  BY <1>1, <1>2, FailEnds DEF Fail
<1>4. LifecycleTypes' /\ ClosersOK' /\ OwnersKeepPlace /\ RunsOnlyEnd
  BY <1>1 DEF LifecycleInv, TurnsInv, LifecycleTypes, EntriesInv, ClosersOK, OwnersKeepPlace,
              RunsOnlyEnd, Live
<1>. QED BY <1>1, <1>2, <1>3, <1>4, QuietStepKeepsInvariant

\* The closer goes on to close the state, however cancelling the worker went.
LEMMA CloserEndsKeepsInvariant ==
  ASSUME LifecycleInv, NEW c \in Conns, NEW ok, CloserEnds(c, ok)
  PROVE  LifecycleInv'
<1>1. /\ closer' = [closer EXCEPT ![c] = "done"] /\ closer[c] = "cancel_worker"
      /\ UNCHANGED <<pc, handle, previous, run_task, active, lock_queue, shutdown, captured>>
      /\ CloseState(c)
  BY DEF CloserEnds, ClosesState
<1>2. pc[c] # "idle"
  BY <1>1 DEF LifecycleInv, EntriesInv, ClosersOK
<1>3. Ending({c})
  BY <1>1, <1>2, CloseStateEnds
<1>4. LifecycleTypes'
  BY <1>1 DEF LifecycleInv, TurnsInv, LifecycleTypes, CloserStep
<1>5. \A d \in Conns : closer'[d] = IF d = c THEN "done" ELSE closer[d]
  BY <1>1 DEF LifecycleInv, TurnsInv, LifecycleTypes
<1>6. ClosersOK' /\ OwnersKeepPlace /\ RunsOnlyEnd
  BY <1>1, <1>5 DEF LifecycleInv, EntriesInv, ClosersOK, OwnersKeepPlace, RunsOnlyEnd, Live
<1>. QED BY <1>1, <1>3, <1>4, <1>5, <1>6, QuietStepKeepsInvariant
-------------------------------------------------------------------------------
(* The steps of the replacement lock and of the entries.                    *)

\* Facts of an entry in place: its connection is not idle and is in its scope.
LEMMA ActiveFacts ==
  ASSUME LifecycleInv, NEW sc \in Scopes, active[sc] # NoEntry
  PROVE  /\ active[sc] \in Entry /\ active[sc].conn \in Conns
         /\ EntryOK(active[sc]) /\ pc[active[sc].conn] \in Installed
         /\ scope(active[sc].conn) = sc
         /\ ~active[sc].started => run_task[active[sc].conn] = "none"
BY DEF LifecycleInv, TurnsInv, LifecycleTypes, EntriesInv, ActiveOK, EntryOK, Entry

\* The entries are sound when each new entry belongs to an installed connection of its
\* scope and says whether that connection has been started.
LEMMA ActiveFollows ==
  ASSUME active' \in [Scopes -> Entry \cup {NoEntry}],
         \A sc \in Scopes, e \in Entry : active'[sc] = e =>
           /\ pc'[e.conn] \in Installed /\ scope(e.conn)' = sc
           /\ e.started <=> run_task'[e.conn] # "none"
  PROVE  ActiveOK'
<1>. SUFFICES ASSUME NEW sc \in Scopes, active'[sc] # NoEntry
              PROVE  /\ EntryOK(active[sc])'
                     /\ pc'[active'[sc].conn] # "done"
                     /\ scope(active[sc].conn)' = sc
                     /\ ~active'[sc].started => run_task'[active'[sc].conn] = "none"
  BY DEF ActiveOK, EntryOK
<1>1. PICK e \in Entry : e = active'[sc]
  OBVIOUS
<1>2. /\ pc'[e.conn] \in Installed /\ scope(e.conn)' = sc
      /\ e.started <=> run_task'[e.conn] # "none"
  BY <1>1
<1>. QED BY <1>1, <1>2 DEF EntryOK, Installed, scope

\* At most one connection of a scope is where only the lock's holder may be.
LEMMA OneHolder ==
  ASSUME LifecycleInv, NEW c \in Conns, NEW d \in Conns, HoldsLock(c), pc[d] \in HasTurn,
         scope(d) = scope(c)
  PROVE  d = c
BY DEF LifecycleInv, TurnsInv, QueueOK, HoldsLock

\* A built connection asks for the lock of its scope.
LEMMA EnterReplaceKeepsInvariant ==
  ASSUME LifecycleInv, NEW c \in Conns, EnterReplace(c)
  PROVE  LifecycleInv'
<1>1. \A d \in Conns : pc'[d] = IF d = c THEN "replacing" ELSE pc[d]
  BY DEF LifecycleInv, TurnsInv, LifecycleTypes, EnterReplace, Goto
<1>2. /\ pc[c] = "building"
      /\ UNCHANGED <<lease_policy, sessions, next_generation, audio_owners, handle, previous,
                     run_task, closer, active, shutdown, captured>>
  BY DEF EnterReplace, registry_vars
<1>3. QueueOK' /\ lock_queue' \in [Scopes -> Seq(Conns)]
  BY <1>1, <1>2, QueueEntered DEF EnterReplace
<1>4. LifecycleTypes'
  BY <1>2, <1>3 DEF LifecycleInv, TurnsInv, LifecycleTypes, EnterReplace, Goto, OwnerStep
<1>5. ClosersOK' /\ ~Live(c)
  BY <1>1, <1>2 DEF LifecycleInv, EntriesInv, ClosersOK, RunsOK, Live
<1>6. EntriesInv'
  <2>1. \A d \in Conns :
          /\ pc[d] \in {"stopping_previous", "cancelled_stopping"} => previous[d].started
          /\ pc[d] = "closing_previous" /\ previous[d].started =>
               run_task[previous[d].conn] \in EndedRun
    BY DEF LifecycleInv, EntriesInv, PreviousOK
  <2>. QED BY <1>1, <1>2, <1>5, <2>1, EntriesStay DEF HasTurn, Installed, Live
<1>7. IInv' /\ HandlesOK' /\ LeasesOK' /\ RecordsOK'
  BY <1>1, <1>2, NothingEnds, RegistryFollows DEF registry_vars
<1>. QED BY <1>3, <1>4, <1>6, <1>7 DEF LifecycleInv, TurnsInv

\* The replacement is put in place, over an entry whose run and close have ended.
LEMMA InstallKeepsInvariant ==
  ASSUME LifecycleInv, NEW c \in Conns, pc[c] \in {"replacing", "closing_previous"},
         HoldsLock(c), Install(c),
         UNCHANGED <<registry_vars, handle, run_task, closer, shutdown, captured>>,
         active[scope(c)] # NoEntry =>
           closer[active[scope(c)].conn] = "done" /\ ~Live(active[scope(c)].conn)
  PROVE  LifecycleInv'
<1>. DEFINE s == scope(c)
            new == [conn |-> c, started |-> FALSE]
<1>1. /\ UNCHANGED <<lease_policy, sessions, next_generation, audio_owners, handle, run_task,
                     closer, shutdown, captured>>
      /\ pc[c] \in Queued /\ pc[c] # "idle" /\ s \in Scopes
      /\ \A d \in Conns : scope(d)' = scope(d)
  BY ConnectionFacts, ScopesStay DEF registry_vars, Queued, HasTurn
<1>2. /\ \A d \in Conns : pc'[d] = IF d = c THEN "run_active" ELSE pc[d]
      /\ \A sc \in Scopes : active'[sc] = IF sc = s THEN new ELSE active[sc]
      /\ \A d \in Conns : previous'[d] = IF d = c THEN NoEntry ELSE previous[d]
  BY <1>1 DEF LifecycleInv, TurnsInv, LifecycleTypes, Install, Goto
<1>3. QueueOK' /\ lock_queue' \in [Scopes -> Seq(Conns)]
  BY <1>1, <1>2, QueueHeadLeaves DEF Install, Queued, HasTurn
<1>4. LifecycleTypes'
  BY <1>1, <1>3 DEF LifecycleInv, TurnsInv, LifecycleTypes, Install, Goto, OwnerStep, Entry
<1>5. run_task[c] = "none" /\ \A e \in Entry : EntryOK(e) => e.conn # c
  BY <1>1 DEF LifecycleInv, EntriesInv, RunsOK, EntryOK, Installed
<1>6. \A e \in Entry : EntryOK(e) => EntryOK(e)'
  BY <1>1, <1>2, <1>5 DEF EntryOK, Entry
<1>7. ActiveOK'
  <2>1. ASSUME NEW sc \in Scopes, NEW e \in Entry, active'[sc] = e
        PROVE  /\ pc'[e.conn] \in Installed /\ scope(e.conn)' = sc
               /\ e.started <=> run_task'[e.conn] # "none"
    <3>1. CASE sc = s
      <4>1. e.conn = c /\ ~e.started /\ scope(c)' = sc
        BY <1>1, <1>2, <2>1, <3>1
      <4>2. scope(e.conn)' = sc
        BY <4>1
      <4>. QED BY <1>1, <1>2, <1>5, <4>1, <4>2 DEF Installed
    <3>2. CASE sc # s
      <4>1. active[sc] = e /\ active[sc] # NoEntry
        BY <1>2, <2>1, <3>2, LifecycleAssumption DEF Entry, NoEntry
      <4>2. /\ e.conn \in Conns /\ EntryOK(e) /\ pc[e.conn] \in Installed
            /\ scope(e.conn) = sc
            /\ ~e.started => run_task[e.conn] = "none"
        BY <4>1, ActiveFacts
      <4>3. e.conn # c /\ scope(e.conn)' = sc
        BY <1>1, <1>5, <4>2
      <4>. QED BY <1>1, <1>2, <4>2, <4>3 DEF EntryOK
    <3>. QED BY <3>1, <3>2
  <2>. QED BY <1>4, <2>1, ActiveFollows DEF LifecycleTypes
<1>8. PreviousOK'
  <2>1. ASSUME NEW d \in Conns, d # c
        PROVE  /\ pc[d] \in HasTurn <=> previous[d] # NoEntry
               /\ pc[d] \in HasTurn => /\ EntryOK(previous[d])'
                                       /\ active'[scope(d)] \in {previous[d], NoEntry}
               /\ pc[d] \in {"stopping_previous", "cancelled_stopping"} => previous[d].started
               /\ pc[d] = "closing_previous" /\ previous[d].started =>
                    run_task[previous[d].conn] \in EndedRun
    <3>1. pc[d] \in HasTurn => scope(d) # s /\ scope(d) \in Scopes
      BY <2>1, OneHolder, ConnectionFacts DEF HasTurn
    <3>2. pc[d] \in HasTurn => EntryOK(previous[d])'
      <4>1. CASE pc[d] \in HasTurn
        <5>1. PICK e \in Entry : e = previous[d] /\ EntryOK(e)
          BY <4>1 DEF LifecycleInv, EntriesInv, PreviousOK, TurnsInv, LifecycleTypes
        <5>2. EntryOK(e)'
          BY <1>6, <5>1
        <5>. QED BY <1>2, <2>1, <5>1, <5>2 DEF EntryOK
      <4>. QED BY <4>1
    <3>. QED BY <1>2, <3>1, <3>2 DEF LifecycleInv, EntriesInv, PreviousOK
  <2>2. pc'[c] \notin HasTurn /\ previous'[c] = NoEntry
    BY <1>2 DEF HasTurn
  <2>. QED BY <1>1, <1>2, <2>1, <2>2 DEF PreviousOK, EntryOK, HasTurn
<1>9. RunsOK'
  <2>1. ASSUME NEW d \in Conns, Live(d)
        PROVE  d # c /\ active'[scope(d)] = [conn |-> d, started |-> TRUE]
    <3>1. /\ d # c /\ pc[d] # "idle" /\ active[scope(d)] = [conn |-> d, started |-> TRUE]
      BY <1>5, <2>1 DEF LifecycleInv, EntriesInv, RunsOK, Live
    <3>2. scope(d) \in Scopes
      BY <3>1, ConnectionFacts
    <3>3. scope(d) # s
      BY <2>1, <3>1, LifecycleAssumption DEF NoEntry
    <3>. QED BY <1>2, <3>1, <3>2, <3>3
  <2>2. ASSUME NEW d \in Conns, Live(d)'
        PROVE  pc'[d] = "running" /\ active'[scope(d)'] = [conn |-> d, started |-> TRUE]
    <3>1. Live(d)
      BY <1>1, <2>2 DEF Live
    <3>. QED BY <1>1, <1>2, <2>1, <3>1 DEF LifecycleInv, EntriesInv, RunsOK
  <2>3. \A d \in Conns : run_task'[d] # "none" => pc'[d] \in {"running", "finalizing", "done"}
    BY <1>1, <1>2, <1>5 DEF LifecycleInv, EntriesInv, RunsOK
  <2>. QED BY <2>2, <2>3 DEF RunsOK
<1>10. CapturedOK' /\ ClosersOK'
  <2>1. CapturedOK'
    BY <1>1, <1>6 DEF LifecycleInv, EntriesInv, CapturedOK, TurnsInv, LifecycleTypes
  <2>2. ClosersOK'
    BY <1>1, <1>2 DEF LifecycleInv, EntriesInv, ClosersOK, Installed
  <2>. QED BY <2>1, <2>2
<1>11. IInv' /\ HandlesOK' /\ LeasesOK' /\ RecordsOK'
  <2>1. ASSUME NEW sc \in Scopes, NEW d \in Conns, pc[d] # "idle", audio_owners[sc] = handle[d]
        PROVE  active'[sc] = active[sc]
    <3>1. active[sc] = [conn |-> d, started |-> TRUE] /\ closer[d] # "done"
      BY <2>1 DEF LifecycleInv, LeasesOK
    <3>. QED BY <1>2, <3>1, LifecycleAssumption DEF NoEntry
  <2>. QED BY <1>1, <1>2, <2>1, NothingEnds, RegistryFollows DEF registry_vars
<1>. QED
  BY <1>3, <1>4, <1>7, <1>8, <1>9, <1>10, <1>11 DEF LifecycleInv, TurnsInv, EntriesInv

\* The scope is empty: the connection is installed at once.
LEMMA ReplaceNothingKeepsInvariant ==
  ASSUME LifecycleInv, NEW c \in Conns, ReplaceNothing(c)
  PROVE  LifecycleInv'
BY InstallKeepsInvariant DEF ReplaceNothing

\* The predecessor is closed: the connection takes its entry over.
LEMMA PreviousClosedKeepsInvariant ==
  ASSUME LifecycleInv, NEW c \in Conns, PreviousClosed(c)
  PROVE  LifecycleInv'
<1>1. /\ pc[c] = "closing_previous" /\ closer[previous[c].conn] = "done" /\ Install(c)
      /\ UNCHANGED <<registry_vars, handle, run_task, closer, shutdown, captured>>
  BY DEF PreviousClosed
<1>2. HoldsLock(c) /\ scope(c) \in Scopes
  BY <1>1, ConnectionFacts DEF LifecycleInv, TurnsInv, QueueOK, HasTurn
<1>3. /\ active[scope(c)] \in {previous[c], NoEntry}
      /\ previous[c].started => run_task[previous[c].conn] \in EndedRun
  BY <1>1 DEF LifecycleInv, EntriesInv, PreviousOK, HasTurn
<1>4. active[scope(c)] # NoEntry =>
        closer[active[scope(c)].conn] = "done" /\ ~Live(active[scope(c)].conn)
  BY <1>1, <1>2, <1>3, ActiveFacts DEF Live, EndedRun
<1>. QED BY <1>1, <1>2, <1>4, InstallKeepsInvariant

\* The close of the entry in place begins.
LEMMA ReplacePreviousKeepsInvariant ==
  ASSUME LifecycleInv, NEW c \in Conns, ReplacePrevious(c)
  PROVE  LifecycleInv'
<1>. DEFINE s == scope(c)
            entry == active[s]
<1>1. /\ pc[c] = "replacing" /\ HoldsLock(c) /\ entry # NoEntry
      /\ UNCHANGED <<lease_policy, sessions, next_generation, audio_owners, handle, active,
                     lock_queue, shutdown, captured>>
      /\ s \in Scopes /\ \A d \in Conns : scope(d)' = scope(d)
  BY ConnectionFacts, ScopesStay DEF ReplacePrevious, registry_vars
<1>2. /\ entry \in Entry /\ entry.conn \in Conns /\ EntryOK(entry)
      /\ pc[entry.conn] \in Installed /\ entry.conn # c
      /\ run_task[c] = "none"
  BY <1>1, ActiveFacts DEF Installed, LifecycleInv, EntriesInv, RunsOK
<1>3. /\ pc' \in [Conns -> OwnerStep] /\ pc'[c] \in {"stopping_previous", "closing_previous"}
      /\ pc'[c] = "stopping_previous" <=> entry.started
      /\ \A d \in Conns : d # c => pc'[d] = pc[d]
      /\ previous' \in [Conns -> Entry \cup {NoEntry}]
      /\ \A d \in Conns : previous'[d] = IF d = c THEN entry ELSE previous[d]
  BY <1>2 DEF LifecycleInv, TurnsInv, LifecycleTypes, ReplacePrevious, Goto, OwnerStep
<1>4. /\ run_task' \in [Conns -> RunStep] /\ RunsOnlyEnd
      /\ \A d \in Conns : Live(d)' <=> Live(d)
  <2>1. CASE entry.started
    BY <2>1, CancelRunsFacts DEF ReplacePrevious
  <2>2. CASE ~entry.started
    BY <2>2 DEF ReplacePrevious, RunsOnlyEnd, Live, LifecycleInv, TurnsInv, LifecycleTypes
  <2>. QED BY <2>1, <2>2
<1>5. /\ closer' \in [Conns -> CloserStep]
      /\ \A d \in Conns : /\ closer'[d] = "done" <=> closer[d] = "done"
                          /\ closer'[d] # "none" => closer[d] # "none" \/ d = entry.conn
  <2>1. CASE entry.started
    BY <2>1 DEF ReplacePrevious, LifecycleInv, TurnsInv, LifecycleTypes
  <2>2. CASE ~entry.started
    BY <2>2, StartClosersFacts DEF ReplacePrevious
  <2>. QED BY <2>1, <2>2
<1>6. LifecycleTypes'
  BY <1>1, <1>3, <1>4, <1>5 DEF LifecycleInv, TurnsInv, LifecycleTypes
<1>7. QueueOK'
  <2>1. \A d \in Conns : pc[d] \in HasTurn => HoldsLock(d)
    BY DEF LifecycleInv, TurnsInv, QueueOK
  <2>. QED BY <1>1, <1>3, <2>1, QueueStays DEF Queued, HasTurn
<1>8. \A e \in Entry : EntryOK(e) => EntryOK(e)'
  BY <1>1, <1>3, <1>4 DEF EntryOK, Entry, Installed, RunsOnlyEnd
<1>9. ActiveOK'
  <2>1. ASSUME NEW sc \in Scopes, active[sc] # NoEntry
        PROVE  /\ pc'[active[sc].conn] \in Installed
               /\ active[sc].started => run_task'[active[sc].conn] # "none"
               /\ scope(active[sc].conn)' = sc
               /\ ~active[sc].started => run_task'[active[sc].conn] = "none"
    BY <1>1, <1>3, <1>4, <2>1, ActiveFacts DEF Installed, EntryOK, RunsOnlyEnd
  <2>. QED BY <1>1, <2>1 DEF ActiveOK, EntryOK, Installed
<1>10. PreviousOK'
  <2>1. ASSUME NEW d \in Conns, d # c
        PROVE  /\ pc[d] \in HasTurn <=> previous[d] # NoEntry
               /\ pc[d] \in HasTurn => /\ EntryOK(previous[d])'
                                       /\ active[scope(d)] \in {previous[d], NoEntry}
               /\ pc[d] \in {"stopping_previous", "cancelled_stopping"} => previous[d].started
               /\ pc[d] = "closing_previous" /\ previous[d].started =>
                    run_task'[previous[d].conn] \in EndedRun
    <3>1. pc[d] \in HasTurn => previous[d] \in Entry /\ EntryOK(previous[d])
      BY DEF LifecycleInv, EntriesInv, PreviousOK, TurnsInv, LifecycleTypes
    <3>2. pc[d] \in HasTurn => EntryOK(previous[d])'
      <4>1. CASE pc[d] \in HasTurn
        <5>1. PICK e \in Entry : e = previous[d] /\ EntryOK(e)
          BY <3>1, <4>1
        <5>2. EntryOK(e)'
          BY <1>8, <5>1
        <5>. QED BY <1>3, <2>1, <5>1, <5>2 DEF EntryOK
      <4>. QED BY <4>1
    <3>. QED
      BY <1>4, <3>1, <3>2 DEF LifecycleInv, EntriesInv, PreviousOK, HasTurn, RunsOnlyEnd, Entry
  <2>2. EntryOK(entry)'
    <3>1. PICK e \in Entry : e = entry
      BY <1>2
    <3>2. EntryOK(e)'
      BY <1>2, <1>8, <3>1
    <3>. QED BY <1>1, <3>1, <3>2 DEF EntryOK
  <2>. QED BY <1>1, <1>2, <1>3, <2>1, <2>2 DEF PreviousOK, EntryOK, HasTurn
<1>11. RunsOK'
  BY <1>1, <1>2, <1>3, <1>4 DEF LifecycleInv, EntriesInv, RunsOK, RunsOnlyEnd
<1>12. CapturedOK' /\ ClosersOK'
  <2>1. CapturedOK'
    BY <1>1, <1>8 DEF LifecycleInv, EntriesInv, CapturedOK, TurnsInv, LifecycleTypes
  <2>2. ClosersOK'
    BY <1>1, <1>2, <1>3, <1>5 DEF LifecycleInv, EntriesInv, ClosersOK, Installed
  <2>. QED BY <2>1, <2>2
<1>13. IInv' /\ HandlesOK' /\ LeasesOK' /\ RecordsOK'
  BY <1>1, <1>3, <1>4, <1>5, NothingEnds, RegistryFollows DEF registry_vars, RunsOnlyEnd
<1>. QED
  BY <1>6, <1>7, <1>9, <1>10, <1>11, <1>12, <1>13 DEF LifecycleInv, TurnsInv, EntriesInv

\* Its turn has come: the connection runs, or finds itself superseded.
LEMMA RunActiveKeepsInvariant ==
  ASSUME LifecycleInv, NEW c \in Conns, RunActive(c)
  PROVE  LifecycleInv'
<1>. DEFINE s == scope(c)
<1>1. /\ pc[c] = "run_active" /\ HoldsLock(c)
      /\ UNCHANGED <<lease_policy, sessions, next_generation, audio_owners, handle, previous,
                     shutdown, captured>>
      /\ lock_queue' = [lock_queue EXCEPT ![s] = Tail(@)]
      /\ s \in Scopes
      /\ \A d \in Conns : scope(d)' = scope(d)
      /\ run_task[c] = "none"
  <2>1. pc[c] = "run_active" /\ run_task[c] = "none"
    BY DEF RunActive, LifecycleInv, EntriesInv, RunsOK
  <2>. QED BY <2>1, ConnectionFacts, ScopesStay DEF RunActive, registry_vars
<1>2. /\ pc' \in [Conns -> OwnerStep] /\ pc'[c] \in {"running", "finalizing"}
      /\ \A d \in Conns : d # c => pc'[d] = pc[d]
  BY DEF LifecycleInv, TurnsInv, LifecycleTypes, RunActive, BeginFinalizer, Goto, OwnerStep
<1>3. QueueOK' /\ lock_queue' \in [Scopes -> Seq(Conns)]
  BY <1>1, <1>2, QueueHeadLeaves DEF Queued, HasTurn
<1>4. /\ closer' \in [Conns -> CloserStep]
      /\ \A d \in Conns : /\ closer'[d] = "done" <=> closer[d] = "done"
                          /\ closer'[d] # "none" => closer[d] # "none" \/ d = c
  <2>1. CASE MayStart(c)
    BY <2>1 DEF RunActive, LifecycleInv, TurnsInv, LifecycleTypes
  <2>2. CASE ~MayStart(c)
    BY <2>2, StartClosersFacts DEF RunActive, BeginFinalizer
  <2>. QED BY <2>1, <2>2
<1>5. ClosersOK'
  BY <1>1, <1>2, <1>4 DEF LifecycleInv, EntriesInv, ClosersOK, Installed
<1>6. CASE MayStart(c)
  <2>. DEFINE new == [conn |-> c, started |-> TRUE]
  <2>1. /\ active[s].conn = c /\ active[s] # NoEntry /\ pc'[c] = "running"
        /\ run_task' \in [Conns -> RunStep]
        /\ \A d \in Conns : run_task'[d] = IF d = c THEN "starting" ELSE run_task[d]
        /\ active' \in [Scopes -> Entry \cup {NoEntry}]
        /\ \A sc \in Scopes : active'[sc] = IF sc = s THEN new ELSE active[sc]
    <3>1. /\ run_task' = [run_task EXCEPT ![c] = "starting"]
          /\ active' = [active EXCEPT ![s] = new]
          /\ Goto(c, "running")
      BY <1>6 DEF RunActive
    <3>2. active[s].conn = c /\ active[s] # NoEntry /\ new \in Entry
      BY <1>6, LifecycleAssumption DEF MayStart, IsActive, NoEntry, Entry
    <3>3. /\ run_task \in [Conns -> RunStep] /\ "starting" \in RunStep
          /\ active \in [Scopes -> Entry \cup {NoEntry}]
          /\ pc \in [Conns -> OwnerStep]
      BY DEF LifecycleInv, TurnsInv, LifecycleTypes, RunStep
    <3>. HIDE DEF new
    <3>. QED BY <1>1, <3>1, <3>2, <3>3 DEF Goto
  <2>2. LifecycleTypes'
    BY <1>1, <1>2, <1>3, <1>4, <2>1 DEF LifecycleInv, TurnsInv, LifecycleTypes
  <2>3. \A e \in Entry : EntryOK(e) => EntryOK(e)'
    BY <1>2, <2>1 DEF EntryOK, Entry, Installed
  <2>4. ActiveOK'
    <3>1. ASSUME NEW sc \in Scopes, NEW e \in Entry, active'[sc] = e
          PROVE  /\ pc'[e.conn] \in Installed /\ scope(e.conn)' = sc
                 /\ e.started <=> run_task'[e.conn] # "none"
      <4>1. CASE sc = s
        <5>1. e.conn = c /\ e.started
          BY <2>1, <3>1, <4>1
        <5>. QED BY <1>1, <1>2, <2>1, <4>1, <5>1 DEF Installed
      <4>2. CASE sc # s
        <5>1. active[sc] = e /\ active[sc] # NoEntry
          BY <2>1, <3>1, <4>2, LifecycleAssumption DEF Entry, NoEntry
        <5>2. /\ e.conn \in Conns /\ EntryOK(e) /\ pc[e.conn] \in Installed
              /\ scope(e.conn) = sc
              /\ ~e.started => run_task[e.conn] = "none"
          BY <5>1, ActiveFacts
        <5>3. e.conn # c
          BY <4>2, <5>2
        <5>4. scope(e.conn)' = sc
          BY <1>1, <5>2
        <5>. QED BY <1>2, <2>1, <5>2, <5>3, <5>4 DEF EntryOK
      <4>. QED BY <4>1, <4>2
    <3>. QED BY <2>1, <3>1, ActiveFollows
  <2>5. PreviousOK'
    <3>1. ASSUME NEW d \in Conns
          PROVE  /\ pc'[d] \in HasTurn <=> pc[d] \in HasTurn
                 /\ pc'[d] \in HasTurn => pc'[d] = pc[d] /\ scope(d) # s
      BY <1>1, <1>2, OneHolder DEF HasTurn
    <3>2. ASSUME NEW d \in Conns, pc[d] \in HasTurn
          PROVE  /\ EntryOK(previous[d])'
                 /\ active'[scope(d)] \in {previous[d], NoEntry}
                 /\ pc[d] = "closing_previous" /\ previous[d].started =>
                      run_task'[previous[d].conn] \in EndedRun
      <4>1. PICK e \in Entry : e = previous[d] /\ EntryOK(e)
        BY <3>2 DEF LifecycleInv, EntriesInv, PreviousOK, TurnsInv, LifecycleTypes
      <4>2. EntryOK(e)'
        BY <2>3, <4>1
      <4>3. EntryOK(previous[d])'
        BY <1>1, <4>1, <4>2 DEF EntryOK
      <4>4. active'[scope(d)] \in {previous[d], NoEntry}
        <5>1. active[scope(d)] \in {previous[d], NoEntry} /\ scope(d) \in Scopes
          BY <3>2, ConnectionFacts DEF LifecycleInv, EntriesInv, PreviousOK, HasTurn
        <5>2. pc'[d] \in HasTurn
          BY <3>1, <3>2
        <5>3. scope(d) # s
          BY <3>1, <5>2
        <5>. QED BY <2>1, <5>1, <5>3
      <4>5. previous[d].started /\ pc[d] = "closing_previous" =>
              run_task'[previous[d].conn] \in EndedRun
        <5>1. previous[d].started /\ pc[d] = "closing_previous" =>
                run_task[previous[d].conn] \in EndedRun
          BY DEF LifecycleInv, EntriesInv, PreviousOK
        <5>2. previous[d].conn \in Conns
          BY <4>1 DEF Entry
        <5>. QED BY <1>1, <2>1, <5>1, <5>2 DEF EndedRun
      <4>. QED BY <4>3, <4>4, <4>5
    <3>. QED
      BY <1>1, <3>1, <3>2 DEF LifecycleInv, EntriesInv, PreviousOK, EntryOK, HasTurn
  <2>6. RunsOK'
    <3>1. ASSUME NEW d \in Conns, Live(d)'
          PROVE  pc'[d] = "running" /\ active'[scope(d)'] = [conn |-> d, started |-> TRUE]
      <4>1. CASE d = c
        BY <1>1, <2>1, <4>1
      <4>2. CASE d # c
        <5>1. /\ pc[d] = "running"
              /\ active[scope(d)] = [conn |-> d, started |-> TRUE]
          BY <2>1, <3>1, <4>2 DEF Live, LifecycleInv, EntriesInv, RunsOK
        <5>2. scope(d) \in Scopes
          BY <5>1, ConnectionFacts
        <5>3. scope(d) # s
          BY <2>1, <4>2, <5>1
        <5>. QED BY <1>1, <1>2, <2>1, <4>2, <5>1, <5>2, <5>3
      <4>. QED BY <4>1, <4>2
    <3>2. ASSUME NEW d \in Conns, run_task'[d] # "none"
          PROVE  pc'[d] \in {"running", "finalizing", "done"}
      BY <1>1, <1>2, <2>1, <3>2 DEF LifecycleInv, EntriesInv, RunsOK
    <3>. QED BY <3>1, <3>2 DEF RunsOK
  <2>7. CapturedOK'
    BY <1>1, <2>3 DEF LifecycleInv, EntriesInv, CapturedOK, TurnsInv, LifecycleTypes
  <2>8. IInv' /\ HandlesOK' /\ LeasesOK' /\ RecordsOK'
    <3>1. ASSUME NEW sc \in Scopes, NEW d \in Conns, pc[d] # "idle",
                 audio_owners[sc] = handle[d]
          PROVE  active'[sc] = active[sc]
      <4>1. active[sc] = [conn |-> d, started |-> TRUE]
        BY <3>1 DEF LifecycleInv, LeasesOK
      <4>2. active[sc] # NoEntry
        BY <4>1, LifecycleAssumption DEF NoEntry
      <4>3. run_task[d] # "none"
        BY <4>1, <4>2, ActiveFacts DEF EntryOK
      <4>4. sc # s
        BY <1>1, <2>1, <4>1, <4>3
      <4>. QED BY <2>1, <4>4
    <3>. QED
      BY <1>1, <1>2, <1>4, <2>1, <3>1, NothingEnds, RegistryFollows DEF registry_vars
  <2>. QED
    BY <1>3, <1>5, <2>2, <2>4, <2>5, <2>6, <2>7, <2>8 DEF LifecycleInv, TurnsInv, EntriesInv
<1>7. CASE ~MayStart(c)
  <2>1. UNCHANGED <<run_task, active>> /\ pc'[c] = "finalizing"
    BY <1>7 DEF RunActive, BeginFinalizer, Goto, LifecycleInv, TurnsInv, LifecycleTypes
  <2>2. LifecycleTypes'
    BY <1>1, <1>2, <1>3, <1>4, <2>1 DEF LifecycleInv, TurnsInv, LifecycleTypes
  <2>3. EntriesInv'
    <3>1. \A d \in Conns :
            /\ pc[d] \in {"stopping_previous", "cancelled_stopping"} => previous[d].started
            /\ pc[d] = "closing_previous" /\ previous[d].started =>
                 run_task[previous[d].conn] \in EndedRun
      BY DEF LifecycleInv, EntriesInv, PreviousOK
    <3>2. \A d \in Conns : Live(d)' => Live(d) /\ d # c
      BY <1>1, <2>1 DEF Live
    <3>. QED
      BY <1>1, <1>2, <1>5, <2>1, <3>1, <3>2, EntriesStay DEF HasTurn, Installed
  <2>4. IInv' /\ HandlesOK' /\ LeasesOK' /\ RecordsOK'
    BY <1>1, <1>2, <1>4, <2>1, NothingEnds, RegistryFollows DEF registry_vars
  <2>. QED BY <1>3, <2>2, <2>3, <2>4 DEF LifecycleInv, TurnsInv
<1>. QED BY <1>6, <1>7

\* An owner that gives up leaves the queue, and whatever it was replacing in place.
LEMMA GiveUpKeepsInvariant ==
  ASSUME LifecycleInv, NEW c \in Conns, pc[c] \in Queued, GiveUp(c),
         UNCHANGED <<handle, run_task, active, shutdown, captured>>,
         NEW cs \in SUBSET Conns, Ending(cs), \A d \in cs : ~IsCurrent(d)',
         \A d \in cs : closer[d] # "done" => closer'[d] # "done"
  PROVE  LifecycleInv'
<1>1. /\ UNCHANGED lease_policy
      /\ pc[c] \in {"replacing", "run_active"} \cup HasTurn
      /\ \A d \in Conns : scope(d)' = scope(d)
      /\ run_task[c] = "none"
  BY ScopesStay DEF Ending, Queued, HasTurn, LifecycleInv, EntriesInv, RunsOK
<1>2. /\ closer' \in [Conns -> CloserStep]
      /\ \A d \in Conns : /\ closer'[d] = "done" <=> closer[d] = "done"
                          /\ closer'[d] # "none" =>
                               \/ closer[d] # "none"
                               \/ d = c /\ pc'[c] = "finalizing"
      /\ pc' \in [Conns -> OwnerStep] /\ pc'[c] \in {"gone", "finalizing"}
      /\ \A d \in Conns : d # c => pc'[d] = pc[d]
      /\ pc'[c] = "gone" => c \in Terminal /\ pc[c] # "run_active"
  <2>1. CASE c \in Terminal /\ pc[c] # "run_active"
    BY <2>1 DEF GiveUp, Goto, LifecycleInv, TurnsInv, LifecycleTypes, OwnerStep
  <2>2. CASE ~(c \in Terminal /\ pc[c] # "run_active")
    <3>1. BeginFinalizer(c)
      BY <2>2 DEF GiveUp
    <3>2. /\ closer' \in [Conns -> CloserStep]
          /\ \A d \in Conns : /\ closer'[d] = "done" <=> closer[d] = "done"
                              /\ closer'[d] # "none" =>
                                   closer[d] # "none" \/ d \in {c} \cap Webrtc
      BY <3>1, StartClosersFacts DEF BeginFinalizer
    <3>3. /\ pc' \in [Conns -> OwnerStep] /\ pc'[c] = "finalizing"
          /\ \A d \in Conns : d # c => pc'[d] = pc[d]
      BY <3>1 DEF BeginFinalizer, Goto, LifecycleInv, TurnsInv, LifecycleTypes, OwnerStep
    <3>. QED BY <3>2, <3>3
  <2>. QED BY <2>1, <2>2
<1>3. /\ previous' \in [Conns -> Entry \cup {NoEntry}]
      /\ \A d \in Conns : previous'[d] = IF d = c THEN NoEntry ELSE previous[d]
  BY DEF GiveUp, LifecycleInv, TurnsInv, LifecycleTypes
<1>4. pc'[c] \notin Queued /\ pc'[c] \notin HasTurn /\ pc'[c] # "idle" /\ pc'[c] # "done"
  BY <1>2 DEF Queued, HasTurn
<1>5. QueueOK' /\ lock_queue' \in [Scopes -> Seq(Conns)]
  BY <1>1, <1>2, <1>4, QueueLeft DEF GiveUp
<1>6. LifecycleTypes'
  BY <1>2, <1>3, <1>5 DEF LifecycleInv, TurnsInv, LifecycleTypes
<1>7. ASSUME NEW e \in Entry, EntryOK(e)
      PROVE  /\ EntryOK(e)'
             /\ e.conn = c => pc'[c] = "finalizing"
  <2>1. e.conn = c => pc[c] = "run_active"
    BY <1>1, <1>7 DEF EntryOK, HasTurn, Installed
  <2>2. e.conn = c => pc'[c] = "finalizing"
    BY <1>2, <2>1
  <2>. QED BY <1>2, <1>7, <2>2 DEF EntryOK, Entry, Installed
<1>8. ActiveOK'
  <2>1. ASSUME NEW sc \in Scopes, NEW e \in Entry, active'[sc] = e
        PROVE  /\ pc'[e.conn] \in Installed /\ scope(e.conn)' = sc
               /\ e.started <=> run_task'[e.conn] # "none"
    <3>1. active[sc] = e /\ active[sc] # NoEntry
      BY <2>1, LifecycleAssumption DEF Entry, NoEntry
    <3>2. /\ e.conn \in Conns /\ EntryOK(e) /\ pc[e.conn] \in Installed
          /\ scope(e.conn) = sc
          /\ ~e.started => run_task[e.conn] = "none"
      BY <3>1, ActiveFacts
    <3>3. scope(e.conn)' = sc
      BY <1>1, <3>2
    <3>4. pc'[e.conn] \in Installed
      BY <1>2, <1>7, <3>2 DEF Installed
    <3>. QED BY <3>2, <3>3, <3>4 DEF EntryOK
  <2>. QED BY <1>6, <2>1, ActiveFollows DEF LifecycleTypes
<1>9. PreviousOK'
  <2>1. ASSUME NEW d \in Conns, d # c
        PROVE  /\ pc[d] \in HasTurn <=> previous[d] # NoEntry
               /\ pc[d] \in HasTurn => /\ EntryOK(previous[d])'
                                       /\ active[scope(d)] \in {previous[d], NoEntry}
               /\ pc[d] \in {"stopping_previous", "cancelled_stopping"} => previous[d].started
               /\ pc[d] = "closing_previous" /\ previous[d].started =>
                    run_task[previous[d].conn] \in EndedRun
    <3>1. pc[d] \in HasTurn => EntryOK(previous[d])'
      <4>1. CASE pc[d] \in HasTurn
        <5>1. PICK e \in Entry : e = previous[d] /\ EntryOK(e)
          BY <4>1 DEF LifecycleInv, EntriesInv, PreviousOK, TurnsInv, LifecycleTypes
        <5>2. EntryOK(e)'
          BY <1>7, <5>1
        <5>. QED BY <1>3, <2>1, <5>1, <5>2 DEF EntryOK
      <4>. QED BY <4>1
    <3>. QED BY <3>1 DEF LifecycleInv, EntriesInv, PreviousOK
  <2>. QED BY <1>1, <1>2, <1>3, <1>4, <2>1 DEF PreviousOK, EntryOK, HasTurn
<1>10. RunsOK'
  <2>1. ASSUME NEW d \in Conns, Live(d)'
        PROVE  pc'[d] = "running" /\ active'[scope(d)'] = [conn |-> d, started |-> TRUE]
    <3>1. Live(d) /\ d # c
      BY <1>1, <2>1 DEF Live
    <3>. QED BY <1>1, <1>2, <3>1 DEF LifecycleInv, EntriesInv, RunsOK
  <2>2. \A d \in Conns : run_task'[d] # "none" => pc'[d] \in {"running", "finalizing", "done"}
    BY <1>1, <1>2 DEF LifecycleInv, EntriesInv, RunsOK
  <2>. QED BY <2>1, <2>2 DEF RunsOK
<1>11. CapturedOK' /\ ClosersOK'
  <2>1. CapturedOK'
    BY <1>7 DEF LifecycleInv, EntriesInv, CapturedOK, TurnsInv, LifecycleTypes
  <2>2. ClosersOK'
    BY <1>1, <1>2 DEF LifecycleInv, EntriesInv, ClosersOK, Installed, HasTurn
  <2>. QED BY <2>1, <2>2
<1>12. IInv' /\ HandlesOK' /\ LeasesOK' /\ RecordsOK'
  <2>1. \A d \in Conns : /\ pc'[d] = "idle" <=> pc[d] = "idle"
                         /\ pc'[d] = "done" => pc[d] = "done"
    BY <1>1, <1>2, <1>4 DEF HasTurn
  <2>. QED BY <1>2, <2>1, RegistryFollows
<1>. QED
  BY <1>5, <1>6, <1>8, <1>9, <1>10, <1>11, <1>12 DEF LifecycleInv, TurnsInv, EntriesInv

\* Given up while it waits, or once the previous run has ended.
LEMMA CancelWaitingKeepsInvariant ==
  ASSUME LifecycleInv, NEW c \in Conns, CancelWaiting(c) \/ CancelledStopping(c)
  PROVE  LifecycleInv'
<1>1. pc[c] \in Queued /\ GiveUp(c)
      /\ UNCHANGED <<registry_vars, handle, run_task, active, shutdown, captured>>
  BY DEF CancelWaiting, CancelledStopping, Queued, HasTurn
<1>. QED BY <1>1, NothingEnds, GiveUpKeepsInvariant

\* Given up in the close of the previous connection, which a terminal completes first.
LEMMA CancelClosingKeepsInvariant ==
  ASSUME LifecycleInv, NEW c \in Conns, CancelClosing(c)
  PROVE  LifecycleInv'
<1>1. /\ pc[c] \in Queued /\ pc[c] \in HasTurn /\ GiveUp(c)
      /\ UNCHANGED <<handle, run_task, active, shutdown, captured>>
  BY DEF CancelClosing, Queued, HasTurn
<1>2. CASE previous[c].conn \in Terminal
  <2>1. PICK p \in Terminal : p = previous[c].conn
    BY <1>2
  <2>2. p \in Conns /\ pc[p] \in Installed \cup {"done"} /\ CloseTerminalLease(p)
    BY <1>1, <2>1 DEF CancelClosing, LifecycleInv, EntriesInv, PreviousOK, EntryOK, Conns
  <2>3. Ending({p}) /\ ~IsCurrent(p)'
    BY <1>1, <2>2, CloseTerminalLeaseEnds DEF Installed
  <2>4. closer[p] # "done" => closer'[p] # "done"
    BY <1>1, <2>2, StartClosersFacts DEF GiveUp, BeginFinalizer
  <2>. QED BY <1>1, <2>2, <2>3, <2>4, GiveUpKeepsInvariant
<1>3. CASE previous[c].conn \notin Terminal
  <2>1. UNCHANGED registry_vars
    BY <1>3 DEF CancelClosing
  <2>. QED BY <1>1, <2>1, NothingEnds, GiveUpKeepsInvariant
<1>. QED BY <1>2, <1>3

\* A connection takes its entry away, if it is still its own, and is done.
LEMMA FinalizeKeepsInvariant ==
  ASSUME LifecycleInv, NEW c \in Conns, pc[c] = "finalizing", active' = ActiveAfterClear(c),
         Goto(c, "done"), Ending({c}), ~IsCurrent(c)',
         UNCHANGED <<handle, previous, run_task, closer, lock_queue, shutdown, captured>>
  PROVE  LifecycleInv'
<1>. DEFINE s == scope(c)
<1>1. /\ UNCHANGED lease_policy /\ s \in Scopes
      /\ \A d \in Conns : scope(d)' = scope(d)
      /\ ~Live(c)
  BY ConnectionFacts, ScopesStay DEF Ending, LifecycleInv, EntriesInv, RunsOK
<1>2. /\ pc' \in [Conns -> OwnerStep]
      /\ \A d \in Conns : pc'[d] = IF d = c THEN "done" ELSE pc[d]
      /\ active' \in [Scopes -> Entry \cup {NoEntry}]
      /\ \A sc \in Scopes : active'[sc] = IF sc = s /\ active[s].conn = c
                                          THEN NoEntry ELSE active[sc]
  BY <1>1 DEF LifecycleInv, TurnsInv, LifecycleTypes, Goto, OwnerStep, ActiveAfterClear, IsActive
<1>3. LifecycleTypes'
  BY <1>2 DEF LifecycleInv, TurnsInv, LifecycleTypes
<1>4. QueueOK'
  <2>1. \A d \in Conns : pc[d] \in HasTurn => HoldsLock(d)
    BY DEF LifecycleInv, TurnsInv, QueueOK
  <2>. QED BY <1>1, <1>2, <2>1, QueueStays DEF Queued, HasTurn
<1>5. \A e \in Entry : EntryOK(e) => EntryOK(e)'
  BY <1>2 DEF EntryOK, Entry, Installed
<1>6. ActiveOK'
  <2>1. ASSUME NEW sc \in Scopes, NEW e \in Entry, active'[sc] = e
        PROVE  /\ pc'[e.conn] \in Installed /\ scope(e.conn)' = sc
               /\ e.started <=> run_task'[e.conn] # "none"
    <3>1. active[sc] = e /\ active[sc] # NoEntry /\ ~(sc = s /\ e.conn = c)
      BY <1>2, <2>1, LifecycleAssumption DEF Entry, NoEntry
    <3>2. /\ e.conn \in Conns /\ EntryOK(e) /\ pc[e.conn] \in Installed
          /\ scope(e.conn) = sc
          /\ ~e.started => run_task[e.conn] = "none"
      BY <3>1, ActiveFacts
    <3>3. scope(e.conn)' = sc /\ e.conn # c
      BY <1>1, <3>1, <3>2
    <3>. QED BY <1>2, <3>2, <3>3 DEF EntryOK
  <2>. QED BY <1>2, <2>1, ActiveFollows
<1>7. PreviousOK'
  <2>1. ASSUME NEW d \in Conns, pc[d] \in HasTurn
        PROVE  /\ EntryOK(previous[d])'
               /\ active'[scope(d)] \in {previous[d], NoEntry}
    <3>1. PICK e \in Entry : e = previous[d] /\ EntryOK(e)
      BY <2>1 DEF LifecycleInv, EntriesInv, PreviousOK, TurnsInv, LifecycleTypes
    <3>2. EntryOK(e)'
      BY <1>5, <3>1
    <3>3. EntryOK(previous[d])'
      BY <3>1, <3>2 DEF EntryOK
    <3>4. active[scope(d)] \in {previous[d], NoEntry} /\ scope(d) \in Scopes
      BY <2>1, ConnectionFacts DEF LifecycleInv, EntriesInv, PreviousOK, HasTurn
    <3>. QED BY <1>2, <3>3, <3>4
  <2>2. \A d \in Conns : pc'[d] \in HasTurn \/ pc[d] \in HasTurn => pc'[d] = pc[d]
    BY <1>2 DEF HasTurn
  <2>. QED
    BY <1>1, <1>2, <2>1, <2>2 DEF LifecycleInv, EntriesInv, PreviousOK, EntryOK, HasTurn
<1>8. RunsOK'
  <2>1. ASSUME NEW d \in Conns, Live(d)'
        PROVE  pc'[d] = "running" /\ active'[scope(d)'] = [conn |-> d, started |-> TRUE]
    <3>1. Live(d) /\ d # c
      BY <1>1, <2>1 DEF Live
    <3>2. pc[d] = "running" /\ active[scope(d)] = [conn |-> d, started |-> TRUE]
      BY <3>1 DEF LifecycleInv, EntriesInv, RunsOK
    <3>3. scope(d) \in Scopes
      BY <3>2, ConnectionFacts
    <3>. QED BY <1>1, <1>2, <3>1, <3>2, <3>3
  <2>2. \A d \in Conns : run_task'[d] # "none" => pc'[d] \in {"running", "finalizing", "done"}
    BY <1>2 DEF LifecycleInv, EntriesInv, RunsOK
  <2>. QED BY <2>1, <2>2 DEF RunsOK
<1>9. CapturedOK' /\ ClosersOK'
  <2>1. CapturedOK'
    BY <1>5 DEF LifecycleInv, EntriesInv, CapturedOK, TurnsInv, LifecycleTypes
  <2>2. ClosersOK'
    BY <1>2 DEF LifecycleInv, EntriesInv, ClosersOK
  <2>. QED BY <2>1, <2>2
<1>10. IInv' /\ HandlesOK' /\ LeasesOK' /\ RecordsOK'
  <2>1. ASSUME NEW sc \in Scopes, NEW d \in Conns \ {c}, pc[d] # "idle",
               audio_owners[sc] = handle[d]
        PROVE  active'[sc] = active[sc]
    <3>1. active[sc] = [conn |-> d, started |-> TRUE]
      BY <2>1 DEF LifecycleInv, LeasesOK
    <3>2. active[sc].conn # c
      BY <3>1
    <3>. QED BY <1>2, <3>2
  <2>. QED BY <1>2, <2>1, RegistryFollows
<1>. QED
  BY <1>3, <1>4, <1>6, <1>7, <1>8, <1>9, <1>10 DEF LifecycleInv, TurnsInv, EntriesInv

\* The finalizer of either kind of connection closes the session and removes its entry
\* only if it still is its own.
LEMMA FinalizersKeepInvariant ==
  ASSUME LifecycleInv, NEW c \in Conns, FinalizeWebrtc(c) \/ FinalizeTerminal(c)
  PROVE  LifecycleInv'
<1>1. CASE FinalizeWebrtc(c)
  <2>1. Ending({c}) /\ ~IsCurrent(c)'
    BY <1>1, FinalReapEnds DEF FinalizeWebrtc
  <2>. QED BY <1>1, <2>1, FinalizeKeepsInvariant DEF FinalizeWebrtc
<1>2. CASE FinalizeTerminal(c)
  <2>1. Ending({c}) /\ ~IsCurrent(c)'
    BY <1>2, CloseTerminalLeaseEnds DEF FinalizeTerminal
  <2>. QED BY <1>2, <2>1, FinalizeKeepsInvariant DEF FinalizeTerminal
<1>. QED BY <1>1, <1>2
-------------------------------------------------------------------------------
(* Shutdown: the entries are captured and closed, and dropped if still there. *)

\* The shutdown captures the entries of all scopes and cancels their runs.
LEMMA BeginShutdownKeepsInvariant ==
  ASSUME LifecycleInv, BeginShutdown
  PROVE  LifecycleInv'
<1>1. PICK entries : /\ entries = {active[sc] : sc \in Scopes} \ {NoEntry}
                     /\ captured' = entries
                     /\ StartClosers({e.conn : e \in {x \in entries : ~x.started}})
                     /\ CancelRuns({e.conn : e \in {x \in entries : x.started}})
  BY DEF BeginShutdown
<1>2. /\ UNCHANGED <<lease_policy, sessions, next_generation, audio_owners, pc, handle,
                     previous, active, lock_queue>>
      /\ shutdown' = "closing"
      /\ \A d \in Conns : scope(d)' = scope(d)
  BY ScopesStay DEF BeginShutdown, registry_vars
<1>3. ASSUME NEW e \in entries
      PROVE  e \in Entry /\ EntryOK(e) /\ pc[e.conn] \in Installed /\ e.conn \in Conns
  BY <1>1, ActiveFacts
<1>4. /\ run_task' \in [Conns -> RunStep] /\ RunsOnlyEnd
      /\ \A d \in Conns : Live(d)' <=> Live(d)
  BY <1>1, CancelRunsFacts
<1>5. /\ closer' \in [Conns -> CloserStep]
      /\ \A d \in Conns :
           /\ closer'[d] = "done" <=> closer[d] = "done"
           /\ closer'[d] # "none" => closer[d] # "none" \/ \E e \in entries : d = e.conn
  BY <1>1, StartClosersFacts
<1>6. LifecycleTypes'
  BY <1>1, <1>2, <1>3, <1>4, <1>5 DEF LifecycleInv, TurnsInv, LifecycleTypes
<1>7. ClosersOK'
  BY <1>2, <1>3, <1>5 DEF LifecycleInv, EntriesInv, ClosersOK, Installed
<1>8. \A e \in Entry : EntryOK(e) => EntryOK(e)'
  BY <1>2, <1>4 DEF EntryOK, Entry, RunsOnlyEnd
<1>9. QueueOK'
  <2>1. \A d \in Conns : pc[d] \in HasTurn => HoldsLock(d)
    BY DEF LifecycleInv, TurnsInv, QueueOK
  <2>. QED BY <1>2, <2>1, QueueStays
<1>10. ActiveOK'
  <2>1. ASSUME NEW sc \in Scopes, NEW e \in Entry, active'[sc] = e
        PROVE  /\ pc'[e.conn] \in Installed /\ scope(e.conn)' = sc
               /\ e.started <=> run_task'[e.conn] # "none"
    <3>1. active[sc] = e /\ active[sc] # NoEntry
      BY <1>2, <2>1, LifecycleAssumption DEF Entry, NoEntry
    <3>2. /\ e.conn \in Conns /\ EntryOK(e) /\ pc[e.conn] \in Installed
          /\ scope(e.conn) = sc
          /\ ~e.started => run_task[e.conn] = "none"
      BY <3>1, ActiveFacts
    <3>3. scope(e.conn)' = sc
      BY <1>2, <3>2
    <3>. QED BY <1>2, <1>4, <3>2, <3>3 DEF EntryOK, RunsOnlyEnd
  <2>. QED BY <1>6, <2>1, ActiveFollows DEF LifecycleTypes
<1>11. PreviousOK'
  <2>1. ASSUME NEW d \in Conns, pc[d] \in HasTurn
        PROVE  /\ EntryOK(previous[d])'
               /\ active[scope(d)] \in {previous[d], NoEntry}
    <3>1. PICK e \in Entry : e = previous[d] /\ EntryOK(e)
      BY <2>1 DEF LifecycleInv, EntriesInv, PreviousOK, TurnsInv, LifecycleTypes
    <3>2. EntryOK(e)'
      BY <1>8, <3>1
    <3>3. EntryOK(previous[d])'
      BY <1>2, <3>1, <3>2 DEF EntryOK
    <3>. QED BY <2>1, <3>3 DEF LifecycleInv, EntriesInv, PreviousOK
  <2>2. \A d \in Conns : pc[d] = "closing_previous" /\ previous[d].started =>
                           run_task'[previous[d].conn] \in EndedRun
    BY <1>4 DEF LifecycleInv, EntriesInv, PreviousOK, HasTurn, RunsOnlyEnd, TurnsInv,
                LifecycleTypes, Entry
  <2>. QED
    BY <1>2, <2>1, <2>2 DEF LifecycleInv, EntriesInv, PreviousOK, EntryOK
<1>12. RunsOK'
  <2>1. ASSUME NEW d \in Conns, Live(d)'
        PROVE  pc'[d] = "running" /\ active'[scope(d)'] = [conn |-> d, started |-> TRUE]
    BY <1>2, <1>4, <2>1 DEF LifecycleInv, EntriesInv, RunsOK
  <2>2. \A d \in Conns : run_task'[d] # "none" => pc'[d] \in {"running", "finalizing", "done"}
    BY <1>2, <1>4 DEF LifecycleInv, EntriesInv, RunsOK, RunsOnlyEnd
  <2>. QED BY <2>1, <2>2 DEF RunsOK
<1>13. CapturedOK'
  BY <1>1, <1>3, <1>8 DEF CapturedOK, EntryOK
<1>14. IInv' /\ HandlesOK' /\ LeasesOK' /\ RecordsOK'
  BY <1>2, <1>4, <1>5, NothingEnds, RegistryFollows DEF registry_vars, RunsOnlyEnd
<1>. QED
  BY <1>6, <1>7, <1>9, <1>10, <1>11, <1>12, <1>13, <1>14
     DEF LifecycleInv, TurnsInv, EntriesInv

\* The shutdown has closed every entry it had captured.
LEMMA EndShutdownKeepsInvariant ==
  ASSUME LifecycleInv, EndShutdown
  PROVE  LifecycleInv'
<1>1. /\ UNCHANGED <<lease_policy, sessions, next_generation, audio_owners, pc, handle,
                     previous, run_task, closer, lock_queue>>
      /\ shutdown' = "down" /\ captured' = {}
      /\ active' \in [Scopes -> Entry \cup {NoEntry}]
      /\ \A sc \in Scopes : active'[sc] = IF active[sc] \in captured THEN NoEntry ELSE active[sc]
      /\ \A d \in Conns : scope(d)' = scope(d)
  BY ScopesStay DEF EndShutdown, ActiveAfterShutdown, registry_vars,
               LifecycleInv, TurnsInv, LifecycleTypes
<1>2. \A e \in captured : /\ e.started => run_task[e.conn] \in EndedRun
                          /\ closer[e.conn] = "done"
  BY DEF EndShutdown, RunTaskEnded
<1>3. LifecycleTypes' /\ ClosersOK' /\ CapturedOK'
  BY <1>1 DEF LifecycleInv, TurnsInv, LifecycleTypes, EntriesInv, ClosersOK, CapturedOK
<1>4. QueueOK'
  <2>1. \A d \in Conns : pc[d] \in HasTurn => HoldsLock(d)
    BY DEF LifecycleInv, TurnsInv, QueueOK
  <2>. QED BY <1>1, <2>1, QueueStays
<1>5. ActiveOK'
  <2>1. ASSUME NEW sc \in Scopes, NEW e \in Entry, active'[sc] = e
        PROVE  /\ pc'[e.conn] \in Installed /\ scope(e.conn)' = sc
               /\ e.started <=> run_task'[e.conn] # "none"
    <3>1. active[sc] = e /\ active[sc] # NoEntry
      BY <1>1, <2>1, LifecycleAssumption DEF Entry, NoEntry
    <3>2. /\ e.conn \in Conns /\ EntryOK(e) /\ pc[e.conn] \in Installed
          /\ scope(e.conn) = sc
          /\ ~e.started => run_task[e.conn] = "none"
      BY <3>1, ActiveFacts
    <3>3. scope(e.conn)' = sc
      BY <1>1, <3>2
    <3>. QED BY <1>1, <3>2, <3>3 DEF EntryOK
  <2>. QED BY <1>1, <2>1, ActiveFollows
<1>6. PreviousOK'
  <2>1. ASSUME NEW d \in Conns, pc[d] \in HasTurn
        PROVE  active'[scope(d)] \in {previous[d], NoEntry} /\ EntryOK(previous[d])
    <3>1. active[scope(d)] \in {previous[d], NoEntry} /\ scope(d) \in Scopes
      BY <2>1, ConnectionFacts DEF LifecycleInv, EntriesInv, PreviousOK, HasTurn
    <3>. QED BY <1>1, <2>1, <3>1 DEF LifecycleInv, EntriesInv, PreviousOK
  <2>. QED BY <1>1, <2>1 DEF LifecycleInv, EntriesInv, PreviousOK, EntryOK
<1>7. RunsOK'
  <2>1. ASSUME NEW d \in Conns, Live(d)'
        PROVE  pc'[d] = "running" /\ active'[scope(d)'] = [conn |-> d, started |-> TRUE]
    <3>1. Live(d) /\ run_task[d] \notin EndedRun
      BY <1>1, <2>1 DEF Live, EndedRun
    <3>2. pc[d] = "running" /\ active[scope(d)] = [conn |-> d, started |-> TRUE]
      BY <3>1 DEF LifecycleInv, EntriesInv, RunsOK
    <3>3. scope(d) \in Scopes
      BY <3>2, ConnectionFacts
    <3>4. active[scope(d)] \notin captured
      BY <1>2, <3>1, <3>2
    <3>. QED BY <1>1, <3>2, <3>3, <3>4
  <2>2. \A d \in Conns : run_task'[d] # "none" => pc'[d] \in {"running", "finalizing", "done"}
    BY <1>1 DEF LifecycleInv, EntriesInv, RunsOK
  <2>. QED BY <2>1, <2>2 DEF RunsOK
<1>8. IInv' /\ HandlesOK' /\ LeasesOK' /\ RecordsOK'
  <2>1. ASSUME NEW sc \in Scopes, NEW d \in Conns, pc[d] # "idle", audio_owners[sc] = handle[d]
        PROVE  active'[sc] = active[sc]
    <3>1. active[sc] = [conn |-> d, started |-> TRUE] /\ closer[d] # "done"
      BY <2>1 DEF LifecycleInv, LeasesOK
    <3>2. active[sc] \notin captured
      BY <1>2, <3>1
    <3>. QED BY <1>1, <3>2
  <2>. QED BY <1>1, <2>1, NothingEnds, RegistryFollows DEF registry_vars
<1>. QED
  BY <1>3, <1>4, <1>5, <1>6, <1>7, <1>8 DEF LifecycleInv, TurnsInv, EntriesInv
-------------------------------------------------------------------------------
(* Arrivals and starts: the two steps that give a connection something.     *)

\* A connection enters: it creates a record, or takes a waiting one over.
LEMMA ConnectKeepsInvariant ==
  ASSUME LifecycleInv, NEW c \in Conns, Connect(c)
  PROVE  LifecycleInv'
<1>1. PICK id \in RequestableIds(c), p \in ProviderIds :
        /\ Create(id, p, ReplacesExisting(c))
        /\ handle' = [handle EXCEPT ![c] = [id |-> id, generation |-> next_generation']]
  BY DEF Connect
<1>2. /\ pc[c] = "idle"
      /\ UNCHANGED <<lease_policy, audio_owners, previous, run_task, closer, active, lock_queue,
                     shutdown, captured>>
      /\ next_generation' = next_generation + 1 /\ next_generation < MaxGeneration
      /\ id \in SessionIds
  BY <1>1, LifecycleAssumption DEF Connect, Create, CanCreate, RequestableIds, Conns
<1>3. /\ next_generation \in 0..MaxGeneration
      /\ \A d \in Conns : handle[d].generation <= next_generation
      /\ \A d \in Conns : handle[d].generation \in 0..MaxGeneration
      /\ \A sc \in Scopes : /\ audio_owners[sc].generation \in 0..MaxGeneration
                            /\ audio_owners[sc].generation <= next_generation
  <2>1. \A h \in SessionHandle \cup {NoHandle} : h.generation \in 0..MaxGeneration
    BY RegistryAssumption DEF SessionHandle, NoHandle
  <2>2. /\ \A d \in Conns : handle[d] \in SessionHandle \cup {NoHandle}
        /\ \A sc \in Scopes : audio_owners[sc] \in SessionHandle \cup {NoHandle}
    BY DEF LifecycleInv, IInv, RegistryTypeOK, TurnsInv, LifecycleTypes
  <2>. QED
    BY <2>1, <2>2
    DEF LifecycleInv, IInv, RegistryTypeOK, GenerationsHandedOut, TurnsInv, HandlesOK
<1>4. /\ \A d \in Conns : pc'[d] = IF d = c THEN "building" ELSE pc[d]
      /\ \A d \in Conns : handle'[d] = IF d = c THEN [id |-> id, generation |-> next_generation']
                                       ELSE handle[d]
      /\ \A i \in SessionIds : sessions'[i] = IF i = id THEN NewSnapshot(p) ELSE sessions[i]
  BY <1>1 DEF LifecycleInv, TurnsInv, LifecycleTypes, Connect, Goto, Create, IInv, RegistryTypeOK
<1>5. IInv'
  BY <1>1, <1>2, CreateKeepsInvariant DEF LifecycleInv
<1>6. [id |-> id, generation |-> next_generation'] \in SessionHandle
  BY <1>2, <1>3, RegistryAssumption DEF SessionHandle
<1>7. LifecycleTypes'
  BY <1>1, <1>2, <1>6 DEF LifecycleInv, TurnsInv, LifecycleTypes, Connect, Goto, OwnerStep
<1>8. HandlesOK'
  <2>1. handle'[c] # NoHandle
    BY <1>2, <1>4, RegistryAssumption DEF NoHandle
  <2>2. \A d \in Conns : handle'[d].generation <= next_generation'
    BY <1>2, <1>3, <1>4
  <2>3. \A d \in Conns : d # c => handle[d].generation # next_generation'
    BY <1>2, <1>3
  <2>. QED
    BY <1>1, <1>2, <1>4, <2>1, <2>2, <2>3
    DEF LifecycleInv, TurnsInv, HandlesOK, Id, RequestableIds
<1>9. run_task[c] = "none" /\ closer[c] = "none"
  BY <1>2 DEF LifecycleInv, EntriesInv, RunsOK, ClosersOK
<1>10. QueueOK'
  <2>1. \A d \in Conns : pc[d] \in HasTurn => HoldsLock(d)
    BY DEF LifecycleInv, TurnsInv, QueueOK
  <2>. QED BY <1>2, <1>4, <2>1, QueueStays DEF Queued, HasTurn
<1>11. EntriesInv'
  <2>1. \A d \in Conns :
          /\ pc[d] \in {"stopping_previous", "cancelled_stopping"} => previous[d].started
          /\ pc[d] = "closing_previous" /\ previous[d].started =>
               run_task[previous[d].conn] \in EndedRun
    BY DEF LifecycleInv, EntriesInv, PreviousOK
  <2>2. ClosersOK'
    BY <1>2, <1>4, <1>9 DEF LifecycleInv, EntriesInv, ClosersOK
  <2>3. \A d \in Conns : Live(d)' => Live(d) /\ d # c
    BY <1>2, <1>9 DEF Live
  <2>. QED
    BY <1>2, <1>4, <2>1, <2>2, <2>3, EntriesStay DEF HasTurn, Installed
<1>12. \A d \in Conns : d # c /\ pc[d] # "idle" =>
         /\ Id(d)' = Id(d) /\ Id(d) \in SessionIds
         /\ IsCurrent(d)' => IsCurrent(d) /\ Id(d) # id
  <2>. SUFFICES ASSUME NEW d \in Conns, d # c, pc[d] # "idle"
                PROVE  /\ Id(d)' = Id(d) /\ Id(d) \in SessionIds
                       /\ IsCurrent(d)' => IsCurrent(d) /\ Id(d) # id
    OBVIOUS
  <2>1. Id(d) \in SessionIds /\ Id(d)' = Id(d) /\ handle'[d] = handle[d]
    BY <1>4, ConnectionFacts DEF Id
  <2>2. Id(d) = id => ~IsCurrent(d)'
    <3>1. sessions'[id].generation = next_generation + 1
      BY <1>2, <1>4 DEF NewSnapshot
    <3>2. handle[d].generation # next_generation + 1
      BY <1>3
    <3>. QED BY <2>1, <3>1, <3>2 DEF IsCurrent, HandleOf
  <2>3. Id(d) # id => (IsCurrent(d)' => IsCurrent(d))
    BY <1>4, <2>1 DEF IsCurrent, HandleOf, Present
  <2>. QED BY <2>1, <2>2, <2>3
<1>13. LeasesOK'
  <2>1. ASSUME NEW sc \in Scopes, audio_owners[sc] # NoHandle
        PROVE  \E d \in Conns : pc'[d] # "idle" /\ handle'[d] = audio_owners[sc]
    <3>1. PICK d \in Conns : pc[d] # "idle" /\ handle[d] = audio_owners[sc]
      BY <2>1 DEF LifecycleInv, LeasesOK
    <3>. QED BY <1>2, <1>4, <3>1
  <2>2. ASSUME NEW sc \in Scopes, NEW d \in Conns, pc'[d] # "idle", audio_owners[sc] = handle'[d]
        PROVE  /\ active[sc] = [conn |-> d, started |-> TRUE]
               /\ run_task[d] # "starting" /\ closer[d] # "done"
               /\ d \in Terminal => IsCurrent(d)'
    <3>1. d # c
      BY <1>2, <1>3, <1>4, <2>2
    <3>2. pc[d] # "idle" /\ audio_owners[sc] = handle[d]
      BY <1>4, <2>2, <3>1
    <3>3. /\ active[sc] = [conn |-> d, started |-> TRUE]
          /\ run_task[d] # "starting" /\ closer[d] # "done"
          /\ d \in Terminal => IsCurrent(d)
      BY <3>2 DEF LifecycleInv, LeasesOK
    <3>4. d \in Terminal => IsCurrent(d)'
      <4>1. CASE d \in Terminal
        <5>1. Id(d) = d /\ Id(d) # id /\ Id(d) \in SessionIds /\ handle'[d] = handle[d]
          BY <1>1, <1>4, <1>12, <3>1, <3>2, <4>1, LifecycleAssumption
             DEF LifecycleInv, TurnsInv, HandlesOK, RequestableIds, Conns
        <5>2. sessions'[Id(d)] = sessions[Id(d)] /\ Id(d)' = Id(d)
          BY <1>4, <5>1 DEF Id
        <5>. QED BY <3>3, <4>1, <5>1, <5>2 DEF IsCurrent, HandleOf, Present
      <4>. QED BY <4>1
    <3>. QED BY <3>3, <3>4
  <2>. QED BY <1>2, <2>1, <2>2 DEF LeasesOK
<1>14. RecordsOK'
  <2>1. ASSUME NEW i \in SessionIds, Present(i)'
        PROVE  \E d \in Conns : pc'[d] # "idle" /\ handle'[d] = HandleOf(i)'
    <3>1. CASE i = id
      <4>1. handle'[c] = HandleOf(i)' /\ pc'[c] # "idle"
        BY <1>2, <1>4, <3>1 DEF HandleOf, NewSnapshot
      <4>. QED BY <4>1
    <3>2. CASE i # id
      <4>1. Present(i) /\ HandleOf(i)' = HandleOf(i)
        BY <1>4, <2>1, <3>2 DEF Present, HandleOf
      <4>2. PICK d \in Conns : pc[d] # "idle" /\ handle[d] = HandleOf(i)
        BY <4>1 DEF LifecycleInv, RecordsOK
      <4>. QED BY <1>2, <1>4, <4>1, <4>2
    <3>. QED BY <3>1, <3>2
  <2>2. ASSUME NEW d \in Conns, pc'[d] # "idle", IsCurrent(d)'
        PROVE  /\ pc'[d] # "done"
               /\ run_task[d] \in {"none", "starting"} /\ closer[d] # "done" =>
                    sessions'[Id(d)'].state = "created"
               /\ closer[d] = "done" => sessions'[Id(d)'].state \in TERMINAL_SESSION_STATES
    <3>1. CASE d = c
      <4>1. Id(c)' = id
        BY <1>4 DEF Id
      <4>2. sessions'[id].state = "created"
        BY <1>2, <1>4 DEF NewSnapshot
      <4>. QED BY <1>4, <1>9, <3>1, <4>1, <4>2
    <3>2. CASE d # c
      <4>1. pc[d] # "idle" /\ pc'[d] = pc[d]
        BY <1>4, <2>2, <3>2
      <4>2. IsCurrent(d) /\ sessions'[Id(d)] = sessions[Id(d)] /\ Id(d)' = Id(d)
        BY <1>4, <1>12, <2>2, <3>2, <4>1
      <4>. QED BY <4>1, <4>2 DEF LifecycleInv, RecordsOK
    <3>. QED BY <3>1, <3>2
  <2>. QED BY <1>2, <2>1, <2>2 DEF RecordsOK
<1>. QED
  BY <1>5, <1>7, <1>8, <1>10, <1>11, <1>13, <1>14 DEF LifecycleInv, TurnsInv

\* The run acquires the audio lease, or is refused and ends.
LEMMA StartRunKeepsInvariant ==
  ASSUME LifecycleInv, NEW c \in Conns, StartRun(c)
  PROVE  LifecycleInv'
<1>. DEFINE s == lease_scope(Id(c))
<1>1. /\ run_task[c] = "starting" /\ Live(c) /\ pc[c] = "running"
      /\ active[scope(c)] = [conn |-> c, started |-> TRUE]
      /\ handle[c] \in SessionHandle /\ handle[c] # NoHandle
      /\ Id(c) \in SessionIds /\ Generation(c) \in 1..MaxGeneration
      /\ scope(c) = s /\ s \in Scopes
      /\ UNCHANGED <<lease_policy, next_generation, pc, handle, previous, closer, active,
                     lock_queue, shutdown, captured>>
  <2>1. /\ run_task[c] = "starting" /\ Live(c) /\ pc[c] = "running"
        /\ active[scope(c)] = [conn |-> c, started |-> TRUE]
    BY DEF StartRun, Live, LifecycleInv, EntriesInv, RunsOK
  <2>. QED BY <2>1, ConnectionFacts DEF StartRun
<1>2. /\ Present(Id(c)) /\ HandleOf(Id(c)) = handle[c] /\ IsCurrent(c)
      /\ sessions[Id(c)].state \notin TERMINAL_SESSION_STATES
      /\ closer[c] # "done"
      /\ sessions[Id(c)] \in VoiceSessionSnapshot
  <2>1. Present(Id(c)) /\ Generation(c) = sessions[Id(c)].generation
        /\ sessions[Id(c)].state \notin TERMINAL_SESSION_STATES
    BY <1>1 DEF StartRun, CanAcquireAudio, require, Unfenced
  <2>2. HandleOf(Id(c)) = handle[c]
    BY <1>1, <2>1 DEF HandleOf, Id, Generation, SessionHandle
  <2>3. sessions[Id(c)] \in VoiceSessionSnapshot
    BY <1>1, <2>1, RecordTypes DEF LifecycleInv, IInv
  <2>4. closer[c] # "done"
    BY <1>1, <2>1, <2>2 DEF IsCurrent, LifecycleInv, RecordsOK
  <2>. QED BY <2>1, <2>2, <2>3, <2>4 DEF IsCurrent
<1>. DEFINE r == [sessions[Id(c)] EXCEPT !.state = "connecting"]
<1>3. /\ \A sc \in Scopes : audio_owners'[sc] = IF sc = s THEN handle[c] ELSE audio_owners[sc]
      /\ audio_owners' \in [Scopes -> SessionHandle \cup {NoHandle}]
      /\ \A id \in SessionIds : sessions'[id] = IF id = Id(c) THEN r ELSE sessions[id]
      /\ sessions' = [sessions EXCEPT ![Id(c)] = r]
  BY <1>1 DEF StartRun, LifecycleInv, IInv, RegistryTypeOK
<1>4. /\ r \in VoiceSessionSnapshot /\ r.generation = sessions[Id(c)].generation
      /\ r.state = "connecting"
  BY <1>2 DEF VoiceSessionSnapshot, SessionState
<1>. HIDE DEF r
<1>5. \A id \in SessionIds : /\ Present(id)' <=> Present(id)
                             /\ HandleOf(id)' = HandleOf(id)
                             /\ sessions'[id].generation = sessions[id].generation
  BY <1>2, <1>3, <1>4 DEF Present, HandleOf
<1>6. IInv'
  <2>1. RegistryTypeOK'
    BY <1>1, <1>3, <1>4 DEF LifecycleInv, IInv, RegistryTypeOK
  <2>2. GenerationsHandedOut'
    <3>1. handle[c].id = Id(c) /\ handle[c].generation = sessions[Id(c)].generation
      BY <1>2 DEF HandleOf, Id
    <3>2. sessions[Id(c)].generation <= next_generation
          /\ sessions[Id(c)].generation \in 1..MaxGeneration
      BY <1>1, <1>2 DEF LifecycleInv, IInv, GenerationsHandedOut, VoiceSessionSnapshot
    <3>. QED
      BY <1>1, <1>3, <1>5, <3>1, <3>2 DEF LifecycleInv, IInv, GenerationsHandedOut
  <2>3. LeasesInScope'
    BY <1>1, <1>3 DEF LifecycleInv, IInv, LeasesInScope, lease_scope, Id
  <2>4. LeaseHeldByLiveSession'
    <3>1. "connecting" \notin TERMINAL_SESSION_STATES
      BY DEF TERMINAL_SESSION_STATES
    <3>2. ASSUME NEW sc \in Scopes, NEW id \in SessionIds, Present(id),
                 audio_owners'[sc] = HandleOf(id)
          PROVE  sessions'[id].state \notin TERMINAL_SESSION_STATES
      <4>1. CASE id = Id(c)
        BY <1>3, <1>4, <3>1, <4>1
      <4>2. CASE id # Id(c)
        <5>1. sc # s
          BY <1>2, <1>3, <3>2, <4>2 DEF HandleOf
        <5>. QED BY <1>3, <3>2, <4>2, <5>1 DEF LifecycleInv, IInv, LeaseHeldByLiveSession
      <4>. QED BY <4>1, <4>2
    <3>. QED BY <1>5, <3>2 DEF LeaseHeldByLiveSession
  <2>. QED BY <2>1, <2>2, <2>3, <2>4 DEF IInv
<1>7. \A d \in Conns : run_task'[d] = IF d = c THEN "up" ELSE run_task[d]
  BY DEF StartRun, LifecycleInv, TurnsInv, LifecycleTypes
<1>8. LifecycleTypes' /\ HandlesOK'
  <2>1. run_task' \in [Conns -> RunStep]
    BY DEF StartRun, LifecycleInv, TurnsInv, LifecycleTypes, RunStep
  <2>2. LifecycleTypes'
    BY <1>1, <2>1 DEF LifecycleInv, TurnsInv, LifecycleTypes
  <2>3. HandlesOK'
    BY <1>1 DEF LifecycleInv, TurnsInv, HandlesOK, Id, RequestableIds
  <2>. QED BY <2>2, <2>3
<1>9. QueueOK'
  <2>1. \A d \in Conns : pc[d] \in HasTurn => HoldsLock(d)
    BY DEF LifecycleInv, TurnsInv, QueueOK
  <2>. QED BY <1>1, <2>1, QueueStays
<1>10. EntriesInv'
  <2>1. \A d \in Conns :
          /\ pc[d] \in {"stopping_previous", "cancelled_stopping"} => previous[d].started
          /\ pc[d] = "closing_previous" /\ previous[d].started =>
               run_task[previous[d].conn] \in EndedRun
    BY DEF LifecycleInv, EntriesInv, PreviousOK
  <2>2. ClosersOK'
    BY <1>1 DEF LifecycleInv, EntriesInv, ClosersOK
  <2>3. \A d \in Conns : /\ Live(d)' => Live(d)
                         /\ run_task'[d] = "none" <=> run_task[d] = "none"
                         /\ run_task[d] \in EndedRun => run_task'[d] \in EndedRun
    BY <1>1, <1>7 DEF Live, EndedRun
  <2>4. \A d \in Conns : pc[d] = "closing_previous" /\ previous[d].started =>
                           run_task'[previous[d].conn] \in EndedRun
    BY <2>1, <2>3
    DEF LifecycleInv, EntriesInv, PreviousOK, TurnsInv, LifecycleTypes, HasTurn, Entry
  <2>. QED BY <1>1, <2>1, <2>2, <2>3, <2>4, EntriesStay
<1>11. \A d \in Conns : pc[d] # "idle" =>
         /\ Id(d) \in SessionIds /\ Id(d)' = Id(d)
         /\ IsCurrent(d)' <=> IsCurrent(d)
         /\ d # c /\ IsCurrent(d) => Id(d) # Id(c)
  <2>. SUFFICES ASSUME NEW d \in Conns, pc[d] # "idle"
                PROVE  /\ Id(d) \in SessionIds /\ Id(d)' = Id(d)
                       /\ IsCurrent(d)' <=> IsCurrent(d)
                       /\ d # c /\ IsCurrent(d) => Id(d) # Id(c)
    OBVIOUS
  <2>1. Id(d) \in SessionIds /\ Id(d)' = Id(d)
    BY <1>1, ConnectionFacts DEF Id
  <2>2. IsCurrent(d)' <=> IsCurrent(d)
    BY <1>1, <1>5, <2>1 DEF IsCurrent
  <2>3. d # c => handle[d] # handle[c]
    BY DEF LifecycleInv, TurnsInv, HandlesOK
  <2>. QED BY <1>2, <2>1, <2>2, <2>3 DEF IsCurrent
<1>12. LeasesOK'
  <2>1. ASSUME NEW sc \in Scopes, audio_owners'[sc] # NoHandle
        PROVE  \E d \in Conns : pc'[d] # "idle" /\ handle'[d] = audio_owners'[sc]
    BY <1>1, <1>3, <2>1 DEF LifecycleInv, LeasesOK
  <2>2. ASSUME NEW sc \in Scopes, NEW d \in Conns, pc'[d] # "idle", audio_owners'[sc] = handle'[d]
        PROVE  /\ active[sc] = [conn |-> d, started |-> TRUE]
               /\ run_task'[d] # "starting" /\ closer[d] # "done"
               /\ d \in Terminal => IsCurrent(d)'
    <3>1. CASE sc = s
      <4>1. handle[d] = handle[c]
        BY <1>1, <1>3, <2>2, <3>1
      <4>2. d = c
        BY <1>1, <2>2, <4>1 DEF LifecycleInv, TurnsInv, HandlesOK
      <4>3. IsCurrent(c)'
        BY <1>1, <1>2, <1>11
      <4>. QED BY <1>1, <1>2, <1>7, <3>1, <4>2, <4>3
    <3>2. CASE sc # s
      <4>1. audio_owners[sc] = handle[d] /\ pc[d] # "idle"
        BY <1>1, <1>3, <2>2, <3>2
      <4>2. /\ active[sc] = [conn |-> d, started |-> TRUE]
            /\ run_task[d] # "starting" /\ closer[d] # "done"
            /\ d \in Terminal => IsCurrent(d)
        BY <4>1 DEF LifecycleInv, LeasesOK
      <4>. QED BY <1>1, <1>7, <1>11, <4>1, <4>2
    <3>. QED BY <3>1, <3>2
  <2>. QED BY <1>1, <2>1, <2>2 DEF LeasesOK
<1>13. RecordsOK'
  <2>1. ASSUME NEW id \in SessionIds, Present(id)'
        PROVE  \E d \in Conns : pc'[d] # "idle" /\ handle'[d] = HandleOf(id)'
    BY <1>1, <1>5, <2>1 DEF LifecycleInv, RecordsOK
  <2>2. ASSUME NEW d \in Conns, pc[d] # "idle", IsCurrent(d)'
        PROVE  /\ pc'[d] # "done"
               /\ run_task'[d] \in {"none", "starting"} /\ closer'[d] # "done" =>
                    sessions'[Id(d)].state = "created"
               /\ closer'[d] = "done" => sessions'[Id(d)].state \in TERMINAL_SESSION_STATES
    <3>1. CASE d = c
      BY <1>1, <1>2, <1>7, <3>1
    <3>2. CASE d # c
      <4>1. IsCurrent(d) /\ sessions'[Id(d)] = sessions[Id(d)]
        BY <1>3, <1>11, <2>2, <3>2
      <4>. QED BY <1>1, <1>7, <2>2, <3>2, <4>1 DEF LifecycleInv, RecordsOK
    <3>. QED BY <3>1, <3>2
  <2>. QED BY <1>1, <1>11, <2>1, <2>2 DEF RecordsOK
<1>. QED
  BY <1>6, <1>8, <1>9, <1>10, <1>12, <1>13 DEF LifecycleInv, TurnsInv
-------------------------------------------------------------------------------
\* A process starts in the invariant: nobody has arrived.
LEMMA LifecycleInitEstablishesInvariant == LifecycleInit => LifecycleInv
<1>. SUFFICES ASSUME LifecycleInit PROVE LifecycleInv
  OBVIOUS
<1>1. IInv
  BY InitInvariant DEF LifecycleInit
<1>2. LifecycleTypes
  BY DEF LifecycleInit, LifecycleTypes, OwnerStep, RunStep, CloserStep
<1>3. HandlesOK
  BY RegistryAssumption DEF LifecycleInit, RegistryInit, HandlesOK, NoHandle
<1>4. QueueOK
  BY DEF LifecycleInit, QueueOK, Distinct, In, Queued, HasTurn
<1>5. EntriesInv
  BY DEF LifecycleInit, EntriesInv, ActiveOK, PreviousOK, RunsOK, CapturedOK, ClosersOK, HasTurn,
         Live
<1>6. LeasesOK
  BY DEF LifecycleInit, RegistryInit, LeasesOK
<1>7. RecordsOK
  BY DEF LifecycleInit, RegistryInit, RecordsOK, Present, NoSession
<1>. QED BY <1>1, <1>2, <1>3, <1>4, <1>5, <1>6, <1>7 DEF LifecycleInv, TurnsInv

\* A step of nobody.
LEMMA StutterKeepsLifecycleInvariant ==
  ASSUME LifecycleInv, UNCHANGED vars
  PROVE  LifecycleInv'
<1>1. /\ UNCHANGED registry_vars
      /\ UNCHANGED <<pc, handle, previous, run_task, closer, active, lock_queue, shutdown,
                     captured>>
  BY DEF vars, lifecycle_vars
<1>2. LifecycleTypes' /\ ClosersOK' /\ OwnersKeepPlace /\ RunsOnlyEnd
  BY <1>1 DEF LifecycleInv, TurnsInv, LifecycleTypes, EntriesInv, ClosersOK, OwnersKeepPlace,
              RunsOnlyEnd, Live
<1>. QED BY <1>1, <1>2, NothingEnds, QuietStepKeepsInvariant

\* Every step of Next keeps the inductive invariant.
LEMMA NextKeepsLifecycleInvariant == LifecycleInv /\ [Next]_vars => LifecycleInv'
<1>. SUFFICES ASSUME LifecycleInv, [Next]_vars PROVE LifecycleInv'
  OBVIOUS
<1>1. CASE UNCHANGED vars
  BY <1>1, StutterKeepsLifecycleInvariant
<1>2. ASSUME NEW c \in Conns, OwnerProgress(c) PROVE LifecycleInv'
  BY <1>2, EnterReplaceKeepsInvariant, ReplaceNothingKeepsInvariant,
     ReplacePreviousKeepsInvariant, PreviousStoppedKeepsInvariant, PreviousClosedKeepsInvariant,
     CancelWaitingKeepsInvariant, RunActiveKeepsInvariant, OwnerResumesKeepsInvariant,
     FinalizersKeepInvariant
     DEF OwnerProgress
<1>3. ASSUME NEW c \in Conns, RunProgress(c) PROVE LifecycleInv'
  BY <1>3, StartRunKeepsInvariant, RunEndsKeepsInvariant DEF RunProgress
<1>4. ASSUME NEW c \in Conns, CloserProgress(c) PROVE LifecycleInv'
  BY <1>4, CloserEndsKeepsInvariant DEF CloserProgress
<1>5. ASSUME NEW c \in Conns, Environment(c) PROVE LifecycleInv'
  BY <1>5, ConnectKeepsInvariant, AbortBuildKeepsInvariant, DisconnectKeepsInvariant,
     CancelWaitingKeepsInvariant, CancelClosingKeepsInvariant, CancelStoppingKeepsInvariant,
     CancelRunningKeepsInvariant, FailKeepsInvariant, RunEndsKeepsInvariant
     DEF Environment
<1>6. CASE BeginShutdown \/ ShutdownProgress
  BY <1>6, BeginShutdownKeepsInvariant, EndShutdownKeepsInvariant, CapturedStoppedKeepsInvariant
     DEF ShutdownProgress
<1>. QED BY <1>1, <1>2, <1>3, <1>4, <1>5, <1>6 DEF Next

\* The inductive invariant holds throughout, for any connections and policy.
THEOREM LifecycleInvariant == Spec => []LifecycleInv
<1>1. LifecycleInit => LifecycleInv
  BY LifecycleInitEstablishesInvariant
<1>2. LifecycleInv /\ [Next]_vars => LifecycleInv'
  BY NextKeepsLifecycleInvariant
<1>. QED BY <1>1, <1>2, PTL DEF Spec

\* Type correctness: in particular nobody is twice in the queue of the lock.
THEOREM LifecycleTypesCorrect == Spec => []LifecycleTypeOK
<1>1. LifecycleInv => LifecycleTypeOK
  <2>. SUFFICES ASSUME LifecycleInv PROVE LifecycleTypeOK
    OBVIOUS
  <2>1. \A sc \in Scopes :
          /\ lock_queue[sc] \in Seq(Conns)
          /\ \A i, j \in DOMAIN lock_queue[sc] : lock_queue[sc][i] = lock_queue[sc][j] => i = j
    <3>. SUFFICES ASSUME NEW sc \in Scopes
                  PROVE  /\ lock_queue[sc] \in Seq(Conns)
                         /\ \A i, j \in DOMAIN lock_queue[sc] :
                              lock_queue[sc][i] = lock_queue[sc][j] => i = j
      OBVIOUS
    <3>1. lock_queue[sc] \in Seq(Conns) /\ Distinct(lock_queue[sc])
      BY DEF LifecycleInv, TurnsInv, LifecycleTypes, QueueOK
    <3>. QED BY <3>1, LenProperties DEF Distinct
  <2>. QED BY <2>1 DEF LifecycleInv, IInv, TurnsInv, LifecycleTypes, LifecycleTypeOK
<1>. QED BY <1>1, LifecycleInvariant, PTL

\* Only a terminal's run() leaves its pipeline behind.
LeftBehindOK == \A c \in Conns : LeftBehind(c) => c \in Terminal

\* No other step makes a pipeline one that is left behind.
LEMMA NextKeepsLeftBehind ==
  ASSUME LifecycleInv, LeftBehindOK, [Next]_vars
  PROVE  LeftBehindOK'
<1>. DEFINE Kept == \A c \in Conns : run_task'[c] = "left_behind" =>
                      run_task[c] = "left_behind" \/ c \in Terminal
<1>. SUFFICES Kept
  BY DEF LeftBehindOK, LeftBehind
<1>1. run_task \in [Conns -> RunStep]
  BY DEF LifecycleInv, TurnsInv, LifecycleTypes
<1>2. ASSUME UNCHANGED run_task PROVE Kept
  BY <1>2
<1>3. ASSUME NEW cs, CancelRuns(cs) PROVE Kept
  BY <1>3 DEF CancelRuns
<1>4. ASSUME NEW d \in Conns, OwnerProgress(d) PROVE Kept
  <2>1. CASE ReplacePrevious(d)
    BY <1>2, <1>3, <2>1 DEF ReplacePrevious
  <2>2. CASE RunActive(d)
    BY <1>1, <1>2, <2>2 DEF RunActive
  <2>3. CASE EnterReplace(d) \/ ReplaceNothing(d) \/ PreviousStopped(d)
               \/ PreviousClosed(d) \/ CancelledStopping(d)
    BY <1>2, <2>3 DEF EnterReplace, ReplaceNothing, PreviousStopped, PreviousClosed,
                      CancelledStopping
  <2>4. CASE OwnerResumes(d) \/ FinalizeWebrtc(d) \/ FinalizeTerminal(d)
    BY <1>2, <2>4 DEF OwnerResumes, FinalizeWebrtc, FinalizeTerminal
  <2>. QED BY <1>4, <2>1, <2>2, <2>3, <2>4 DEF OwnerProgress
<1>5. ASSUME NEW d \in Conns, RunProgress(d) \/ CloserProgress(d) PROVE Kept
  <2>1. CASE StartRun(d) \/ RefuseRun(d) \/ RunEnds(d)
    BY <1>1, <2>1 DEF StartRun, RefuseRun, RunEnds
  <2>2. CASE CloserProgress(d)
    BY <1>2, <2>2 DEF CloserProgress, CloserEnds
  <2>. QED BY <1>5, <2>1, <2>2 DEF RunProgress
<1>6. ASSUME NEW d \in Conns, Environment(d) PROVE Kept
  <2>1. CASE CancelRunning(d)
    BY <1>3, <2>1 DEF CancelRunning
  <2>2. CASE RunEnds(d) \/ RunCutShort(d) \/ PipelineEnds(d)
    BY <1>1, <2>2 DEF RunEnds, RunCutShort, PipelineEnds
  <2>3. CASE Connect(d) \/ AbortBuild(d) \/ Disconnect(d) \/ CancelWaiting(d)
               \/ CancelClosing(d) \/ CancelStopping(d) \/ Fail(d)
    BY <1>2, <2>3 DEF Connect, AbortBuild, Disconnect, CancelWaiting, CancelClosing,
                      CancelStopping, Fail, lifecycle_vars
  <2>. QED BY <1>6, <2>1, <2>2, <2>3 DEF Environment
<1>7. ASSUME BeginShutdown \/ ShutdownProgress PROVE Kept
  <2>1. CASE BeginShutdown
    BY <1>3, <2>1 DEF BeginShutdown
  <2>2. CASE ShutdownProgress
    BY <1>2, <2>2 DEF ShutdownProgress, EndShutdown, CapturedStopped
  <2>. QED BY <1>7, <2>1, <2>2
<1>8. CASE UNCHANGED vars
  BY <1>2, <1>8 DEF vars, lifecycle_vars
<1>. HIDE DEF Kept
<1>. QED BY <1>4, <1>5, <1>6, <1>7, <1>8 DEF Next

\* The pipelines of two connections of one scope overlap only where one was left
\* behind: two runs that are not over would both be the one entry of the scope.  Under
\* the hosted policy a terminal's scope is its own id, so that none overlap.
THEOREM RunsDoNotOverlap == Spec => []NoOverlappingRuns
<1>1. ASSUME LifecycleInv, LeftBehindOK PROVE NoOverlappingRuns
  <2>. SUFFICES ASSUME NEW c \in Conns, NEW d \in Conns, c # d, PipelineRuns(c),
                       PipelineRuns(d), scope(c) = scope(d)
                PROVE  lease_policy = "process" /\ (LeftBehind(c) \/ LeftBehind(d))
    BY DEF NoOverlappingRuns
  <2>1. ASSUME NEW e \in Conns, Running(e)
        PROVE  active[scope(e)] = [conn |-> e, started |-> TRUE]
    BY <1>1, <2>1 DEF LifecycleInv, EntriesInv, RunsOK, Running, Live
  <2>2. LeftBehind(c) \/ LeftBehind(d)
    <3>. SUFFICES ASSUME ~LeftBehind(c), ~LeftBehind(d) PROVE FALSE
      OBVIOUS
    <3>1. /\ active[scope(c)] = [conn |-> c, started |-> TRUE]
          /\ active[scope(c)] = [conn |-> d, started |-> TRUE]
      BY <2>1 DEF PipelineRuns
    <3>. QED BY <3>1
  <2>3. ASSUME NEW e \in Conns, PipelineRuns(e)
        PROVE  Id(e) \in RequestableIds(e)
    <3>1. pc[e] # "idle"
      BY <1>1, <2>3 DEF PipelineRuns, Running, LeftBehind, LifecycleInv, EntriesInv, RunsOK
    <3>. QED BY <1>1, <3>1 DEF LifecycleInv, TurnsInv, HandlesOK
  <2>4. ASSUME NEW e \in Conns, NEW f \in Conns, e # f, LeftBehind(e),
               Id(e) \in RequestableIds(e), Id(f) \in RequestableIds(f)
        PROVE  Id(e) # Id(f)
    BY <1>1, <2>4, LifecycleAssumption DEF LeftBehindOK, RequestableIds, Conns
  <2>5. Id(c) # Id(d)
    BY <2>2, <2>3, <2>4
  <2>. QED BY <2>2, <2>5 DEF scope, Id
<1>2. LifecycleInit => LeftBehindOK
  BY DEF LifecycleInit, LeftBehindOK, LeftBehind
<1>3. LifecycleInv /\ LeftBehindOK /\ [Next]_vars => LeftBehindOK'
  BY NextKeepsLeftBehind
<1>. QED BY <1>1, <1>2, <1>3, LifecycleInvariant, PTL DEF Spec

\* A connection about to start finds its lease free: whoever held it would be the
\* entry of the scope, which is the connection itself, and it has not started.
THEOREM LeaseIsFreeAtTheStart == Spec => []StartFindsLeaseFree
<1>1. ASSUME LifecycleInv, NEW c \in Conns, run_task[c] = "starting", IsCurrent(c),
             sessions[Id(c)].state \notin TERMINAL_SESSION_STATES
      PROVE  CanAcquireAudio(Id(c), Generation(c))
  <2>1. /\ pc[c] = "running" /\ pc[c] # "idle"
        /\ active[scope(c)] = [conn |-> c, started |-> TRUE]
    BY <1>1 DEF LifecycleInv, EntriesInv, RunsOK, Live
  <2>2. /\ lease_scope(Id(c)) \in Scopes /\ scope(c) = lease_scope(Id(c))
        /\ handle[c] \in SessionHandle
    BY <1>1, <2>1, ConnectionFacts
  <2>3. audio_owners[lease_scope(Id(c))] = NoHandle
    <3>1. SUFFICES ASSUME NEW d \in Conns, pc[d] # "idle",
                          handle[d] = audio_owners[lease_scope(Id(c))]
                   PROVE  FALSE
      BY <1>1, <2>2 DEF LifecycleInv, LeasesOK
    <3>2. active[scope(c)] = [conn |-> d, started |-> TRUE] /\ run_task[d] # "starting"
      BY <1>1, <2>2, <3>1 DEF LifecycleInv, LeasesOK
    <3>. QED BY <1>1, <2>1, <3>2
  <2>4. require(Id(c), Generation(c), Unfenced)
    BY <1>1, <2>2 DEF IsCurrent, HandleOf, require, Id, Generation, SessionHandle
  <2>. QED BY <1>1, <2>3, <2>4 DEF CanAcquireAudio, LeaseAvailable
<1>2. LifecycleInv => StartFindsLeaseFree
  BY <1>1 DEF StartFindsLeaseFree
<1>. QED BY <1>2, LifecycleInvariant, PTL

\* When every connection is over, no lease, entry or place in a queue is left, and
\* no record but those of connections that never got as far as the coordinator.
THEOREM QuiescenceIsClean == Spec => []QuiescentIsClean
<1>1. LifecycleInv => QuiescentIsClean
  <2>. SUFFICES ASSUME LifecycleInv,
                       \A c \in Conns : /\ pc[c] \in {"idle", "done", "gone"}
                                        /\ closer[c] # "cancel_worker"
                PROVE  /\ \A sc \in Scopes : /\ audio_owners[sc] = NoHandle
                                             /\ active[sc] = NoEntry
                                             /\ lock_queue[sc] = <<>>
                       /\ \A id \in SessionIds : sessions[id].state \in {"absent", "created"}
    BY DEF QuiescentIsClean
  <2>1. ASSUME NEW sc \in Scopes PROVE active[sc] = NoEntry
    BY ActiveFacts DEF Installed
  <2>2. ASSUME NEW sc \in Scopes PROVE audio_owners[sc] = NoHandle
    <3>1. SUFFICES ASSUME NEW c \in Conns, pc[c] # "idle", audio_owners[sc] = handle[c]
                   PROVE  FALSE
      BY DEF LifecycleInv, LeasesOK
    <3>2. active[sc] = [conn |-> c, started |-> TRUE]
      BY <3>1 DEF LifecycleInv, LeasesOK
    <3>3. active[sc].started = TRUE /\ active[sc].started = FALSE
      BY <2>1, <3>2 DEF NoEntry
    <3>. QED BY <3>3
  <2>3. ASSUME NEW sc \in Scopes PROVE lock_queue[sc] = <<>>
    <3>1. lock_queue[sc] \in Seq(Conns)
      BY DEF LifecycleInv, TurnsInv, LifecycleTypes
    <3>2. \A c \in Conns : ~In(c, lock_queue[sc])
      BY DEF LifecycleInv, TurnsInv, QueueOK, Queued, HasTurn
    <3>3. PICK q \in Seq(Conns) : q = lock_queue[sc]
      BY <3>1
    <3>4. q # <<>> => q[1] \in Conns /\ 1 \in 1..Len(q)
      OBVIOUS
    <3>. QED BY <3>2, <3>3, <3>4 DEF In
  <2>4. ASSUME NEW id \in SessionIds PROVE sessions[id].state \in {"absent", "created"}
    <3>1. CASE ~Present(id)
      BY <3>1 DEF Present
    <3>2. CASE Present(id)
      <4>1. PICK c \in Conns : pc[c] # "idle" /\ handle[c] = HandleOf(id)
        BY <3>2 DEF LifecycleInv, RecordsOK
      <4>2. Id(c) = id /\ IsCurrent(c)
        BY <3>2, <4>1 DEF Id, IsCurrent, HandleOf
      <4>3. pc[c] = "gone"
        BY <4>1, <4>2 DEF LifecycleInv, RecordsOK
      <4>4. run_task[c] = "none" /\ closer[c] = "none"
        BY <4>3 DEF LifecycleInv, EntriesInv, RunsOK, ClosersOK
      <4>. QED BY <4>1, <4>2, <4>4 DEF LifecycleInv, RecordsOK
    <3>. QED BY <3>1, <3>2
  <2>. QED BY <2>1, <2>2, <2>3, <2>4
<1>. QED BY <1>1, LifecycleInvariant, PTL
-------------------------------------------------------------------------------
(* Who may take a session, its lease or its place away.                     *)

\* A step that ends sessions is owned when each of them is ended by its own tasks
\* or by its replacement.
LEMMA EndingIsOwned ==
  ASSUME LifecycleInv, NEW cs \in SUBSET Conns, Ending(cs), NEW c \in Conns, pc[c] # "idle",
         c \in cs => Own(c) \/ Closing(c)
  PROVE  RegistryIsOwned(c)
BY DEF Ending, RegistryIsOwned

\* Entries that do not change are nobody's loss.
LEMMA EntriesUnchanged ==
  ASSUME NEW c \in Conns, UNCHANGED active
  PROVE  EntryIsOwned(c)
<1>. SUFFICES ASSUME active[scope(c)].conn = c, active[scope(c)] = NoEntry PROVE FALSE
  BY DEF EntryIsOwned, IsActive
<1>. QED BY LifecycleAssumption DEF NoEntry

\* Nor is a step of the replacement that puts another entry in place.
LEMMA InstallIsOwned ==
  ASSUME LifecycleInv, NEW c \in Conns, pc[c] # "idle", NEW d \in Conns, NEW b \in BOOLEAN,
         pc[d] # "idle", active' = [active EXCEPT ![scope(d)] = [conn |-> d, started |-> b]]
  PROVE  EntryIsOwned(c)
<1>1. scope(c) \in Scopes /\ scope(d) \in Scopes
  BY ConnectionFacts
<1>2. active'[scope(c)] = IF scope(c) = scope(d) THEN [conn |-> d, started |-> b]
                                                 ELSE active[scope(c)]
  BY <1>1 DEF LifecycleInv, TurnsInv, LifecycleTypes
<1>3. [conn |-> d, started |-> b] # NoEntry
  <2>1. [conn |-> d, started |-> b].conn # NoEntry.conn
    BY LifecycleAssumption DEF NoEntry
  <2>. QED BY <2>1
<1>. SUFFICES ASSUME active[scope(c)].conn = c, active[scope(c)] = NoEntry PROVE FALSE
  BY <1>2, <1>3 DEF EntryIsOwned, IsActive
<1>. QED BY LifecycleAssumption DEF NoEntry

\* Steps of an owner in the replacement lock, and of its run.
LEMMA OwnerProgressIsOwned ==
  ASSUME LifecycleInv, NEW d \in Conns, OwnerProgress(d), NEW c \in Conns, pc[c] # "idle"
  PROVE  RegistryIsOwned(c) /\ EntryIsOwned(c)
<1>1. ASSUME UNCHANGED registry_vars PROVE RegistryIsOwned(c)
  BY <1>1, NothingEnds, EndingIsOwned
<1>2. CASE EnterReplace(d) \/ ReplacePrevious(d) \/ PreviousStopped(d) \/ CancelledStopping(d)
             \/ OwnerResumes(d)
  <2>1. UNCHANGED registry_vars /\ UNCHANGED active
    BY <1>2 DEF EnterReplace, ReplacePrevious, PreviousStopped, CancelledStopping, OwnerResumes
  <2>. QED BY <1>1, <2>1, EntriesUnchanged
<1>3. CASE ReplaceNothing(d) \/ PreviousClosed(d)
  <2>1. /\ UNCHANGED registry_vars /\ pc[d] # "idle"
        /\ active' = [active EXCEPT ![scope(d)] = [conn |-> d, started |-> FALSE]]
    BY <1>3 DEF ReplaceNothing, PreviousClosed, Install
  <2>. QED BY <1>1, <2>1, InstallIsOwned
<1>4. CASE RunActive(d)
  <2>1. UNCHANGED registry_vars /\ pc[d] # "idle"
    BY <1>4 DEF RunActive
  <2>2. \/ active' = [active EXCEPT ![scope(d)] = [conn |-> d, started |-> TRUE]]
        \/ UNCHANGED active
    BY <1>4 DEF RunActive
  <2>. QED BY <1>1, <2>1, <2>2, InstallIsOwned, EntriesUnchanged
<1>5. CASE FinalizeWebrtc(d) \/ FinalizeTerminal(d)
  <2>1. /\ pc[d] = "finalizing" /\ Goto(d, "done") /\ active' = ActiveAfterClear(d)
        /\ UNCHANGED handle
    BY <1>5 DEF FinalizeWebrtc, FinalizeTerminal
  <2>2. Moved(d)
    <3>1. pc'[d] = "done"
      BY <2>1 DEF Goto, LifecycleInv, TurnsInv, LifecycleTypes
    <3>. QED BY <2>1, <3>1 DEF Moved
  <2>3. Ending({d})
    BY <1>5, <2>1, FinalReapEnds, CloseTerminalLeaseEnds DEF FinalizeWebrtc, FinalizeTerminal
  <2>4. RegistryIsOwned(c)
    BY <2>2, <2>3, EndingIsOwned DEF Own
  <2>5. ASSUME IsActive(c), active'[scope(c)] = NoEntry PROVE c = d
    <3>1. active[scope(c)] # NoEntry
      BY <2>5, LifecycleAssumption DEF IsActive, NoEntry
    <3>2. IsActive(d) /\ scope(c) = scope(d)
      BY <2>1, <2>5, <3>1 DEF ActiveAfterClear
    <3>. QED BY <2>5, <3>2 DEF IsActive
  <2>. QED BY <2>2, <2>4, <2>5 DEF EntryIsOwned
<1>. QED BY <1>2, <1>3, <1>4, <1>5 DEF OwnerProgress

\* A run takes a lease that nobody holds.
LEMMA StartRunIsOwned ==
  ASSUME LifecycleInv, NEW d \in Conns, StartRun(d), NEW c \in Conns, pc[c] # "idle"
  PROVE  RegistryIsOwned(c) /\ EntryIsOwned(c)
<1>1. /\ run_task[d] = "starting" /\ CanAcquireAudio(Id(d), Generation(d))
      /\ audio_owners' = [audio_owners EXCEPT ![lease_scope(Id(d))] = handle[d]]
      /\ sessions' = [sessions EXCEPT ![Id(d)].state = "connecting"]
      /\ run_task' = [run_task EXCEPT ![d] = "up"]
      /\ UNCHANGED active
  BY DEF StartRun
<1>2. pc[d] = "running" /\ active[scope(d)] = [conn |-> d, started |-> TRUE]
  BY <1>1 DEF LifecycleInv, EntriesInv, RunsOK, Live
<1>3. /\ lease_scope(Id(d)) \in Scopes /\ scope(d) = lease_scope(Id(d))
      /\ handle[d] \in SessionHandle /\ Id(d) \in SessionIds
  BY <1>2, ConnectionFacts
<1>4. Moved(d)
  <2>1. run_task'[d] = "up"
    BY <1>1 DEF LifecycleInv, TurnsInv, LifecycleTypes
  <2>. QED BY <1>1, <2>1 DEF Moved
<1>5. ASSUME c # d PROVE handle[c] # handle[d]
  BY <1>2, <1>5 DEF LifecycleInv, TurnsInv, HandlesOK
<1>6. ASSUME c # d, IsCurrent(c) PROVE sessions'[Id(c)] = sessions[Id(c)]
  <2>1. Id(c) \in SessionIds /\ Present(Id(d)) /\ Generation(d) = sessions[Id(d)].generation
    <3>1. Generation(d) \in 1..MaxGeneration
      BY <1>2, ConnectionFacts
    <3>2. Present(Id(d)) /\ Generation(d) \in {Unfenced, sessions[Id(d)].generation}
      BY <1>1 DEF CanAcquireAudio, require
    <3>3. Generation(d) # Unfenced
      BY <3>1, RegistryAssumption DEF Unfenced
    <3>. QED BY <3>2, <3>3, ConnectionFacts
  <2>2. HandleOf(Id(d)) = handle[d]
    BY <1>3, <2>1 DEF HandleOf, Id, Generation, SessionHandle
  <2>3. Id(c) # Id(d)
    BY <1>5, <1>6, <2>2 DEF IsCurrent
  <2>. QED BY <1>1, <1>3, <2>1, <2>3 DEF LifecycleInv, IInv, RegistryTypeOK
<1>7. ASSUME c # d, NEW sc \in Scopes, audio_owners[sc] = handle[c]
      PROVE  audio_owners'[sc] = handle[c]
  <2>1. active[sc] = [conn |-> c, started |-> TRUE]
    BY <1>7 DEF LifecycleInv, LeasesOK
  <2>2. sc # lease_scope(Id(d))
    BY <1>2, <1>3, <1>7, <2>1
  <2>. QED BY <1>1, <1>7, <2>2 DEF LifecycleInv, IInv, RegistryTypeOK
<1>. QED BY <1>1, <1>4, <1>6, <1>7, EntriesUnchanged DEF RegistryIsOwned, Own

\* Steps of a run and of a closer.
LEMMA RunAndCloserAreOwned ==
  ASSUME LifecycleInv, NEW d \in Conns, NEW c \in Conns, pc[c] # "idle",
         \/ RefuseRun(d) \/ RunEnds(d) \/ RunCutShort(d) \/ PipelineEnds(d)
         \/ Fail(d) \/ CloserProgress(d)
  PROVE  RegistryIsOwned(c) /\ EntryIsOwned(c)
<1>1. UNCHANGED active
  BY DEF RefuseRun, RunEnds, RunCutShort, PipelineEnds, Fail, CloserProgress, CloserEnds,
         lifecycle_vars
<1>2. CASE RefuseRun(d) \/ RunEnds(d) \/ RunCutShort(d) \/ PipelineEnds(d)
  <2>1. UNCHANGED registry_vars
    BY <1>2 DEF RefuseRun, RunEnds, RunCutShort, PipelineEnds
  <2>. QED BY <1>1, <2>1, EntriesUnchanged, NothingEnds, EndingIsOwned
<1>3. CASE Fail(d)
  <2>1. UNCHANGED <<pc, run_task, closer, handle>>
    BY <1>3 DEF Fail, lifecycle_vars
  <2>2. pc[d] # "idle"
    BY <1>3 DEF Fail, PipelineRuns, Running, LeftBehind, LifecycleInv, EntriesInv, RunsOK
  <2>3. Ending({d})
    BY <1>3, <2>1, <2>2, FailEnds DEF Fail
  <2>4. Own(d)
    BY <1>3, <2>1 DEF Fail, Own, Moved
  <2>. QED BY <1>1, <2>3, <2>4, EntriesUnchanged, EndingIsOwned
<1>4. CASE CloserProgress(d)
  <2>1. /\ closer[d] = "cancel_worker" /\ closer' = [closer EXCEPT ![d] = "done"]
        /\ UNCHANGED handle /\ CloseState(d)
    BY <1>4 DEF CloserProgress, CloserEnds, ClosesState
  <2>2. pc[d] # "idle"
    BY <2>1 DEF LifecycleInv, EntriesInv, ClosersOK
  <2>3. Ending({d})
    BY <2>1, <2>2, CloseStateEnds
  <2>4. closer'[d] = "done"
    BY <2>1 DEF LifecycleInv, TurnsInv, LifecycleTypes
  <2>5. Own(d)
    BY <2>1, <2>4 DEF Own, Moved
  <2>. QED BY <1>1, <2>3, <2>5, EntriesUnchanged, EndingIsOwned
<1>. QED BY <1>2, <1>3, <1>4

\* What clients and the network do; a new incarnation takes a record over, and one
\* that is cancelled in the close of a terminal completes that first.
LEMMA EnvironmentIsOwned ==
  ASSUME LifecycleInv, NEW d \in Conns, Environment(d), NEW c \in Conns, pc[c] # "idle"
  PROVE  RegistryIsOwned(c) /\ EntryIsOwned(c)
<1>1. CASE AbortBuild(d) \/ Disconnect(d) \/ CancelWaiting(d) \/ CancelStopping(d)
             \/ CancelRunning(d)
  <2>1. UNCHANGED registry_vars /\ UNCHANGED active
    BY <1>1 DEF AbortBuild, Disconnect, CancelWaiting, CancelStopping, CancelRunning
  <2>. QED BY <2>1, EntriesUnchanged, NothingEnds, EndingIsOwned
<1>2. CASE Fail(d) \/ RunEnds(d) \/ RunCutShort(d) \/ PipelineEnds(d)
  BY <1>2, RunAndCloserAreOwned
<1>3. CASE Connect(d)
  <2>1. PICK id \in RequestableIds(d), p \in ProviderIds :
          /\ Create(id, p, ReplacesExisting(d))
          /\ handle' = [handle EXCEPT ![d] = [id |-> id, generation |-> next_generation']]
    BY <1>3 DEF Connect
  <2>2. /\ sessions' = [sessions EXCEPT ![id] = NewSnapshot(p)]
        /\ UNCHANGED audio_owners /\ c # d /\ handle'[c] = handle[c] /\ UNCHANGED active
    BY <1>3, <2>1 DEF Connect, Create, LifecycleInv, TurnsInv, LifecycleTypes
  <2>3. ASSUME IsCurrent(c), sessions'[Id(c)] # sessions[Id(c)] PROVE Superseded(c)
    <3>1. Id(c) \in SessionIds
      BY ConnectionFacts
    <3>2. Id(c) = id /\ sessions'[Id(c)] = NewSnapshot(p)
      BY <2>2, <2>3, <3>1 DEF LifecycleInv, IInv, RegistryTypeOK
    <3>3. /\ next_generation \in 0..MaxGeneration /\ Generation(c) <= next_generation
          /\ Generation(c) \in 1..MaxGeneration
      BY ConnectionFacts DEF LifecycleInv, IInv, RegistryTypeOK, TurnsInv, HandlesOK, Generation
    <3>4. NewSnapshot(p).generation = next_generation + 1
      BY DEF NewSnapshot
    <3>5. NewSnapshot(p) # NoSession
      BY <3>3, <3>4, RegistryAssumption DEF NoSession
    <3>6. Id(c)' = Id(c)
      BY <2>2 DEF Id
    <3>7. Present(Id(c))'
      BY <3>2, <3>6 DEF Present, NewSnapshot
    <3>8. sessions'[Id(c)].generation = next_generation + 1
      BY <3>2, <3>4
    <3>9. next_generation + 1 > Generation(c)
      BY <3>3, RegistryAssumption
    <3>. QED BY <3>7, <3>8, <3>9 DEF Superseded
  <2>. QED BY <2>2, <2>3, EntriesUnchanged DEF RegistryIsOwned
<1>4. CASE CancelClosing(d)
  <2>1. /\ pc[d] = "closing_previous" /\ GiveUp(d) /\ UNCHANGED <<handle, active>>
        /\ IF previous[d].conn \in Terminal THEN CloseTerminalLease(previous[d].conn)
                                            ELSE UNCHANGED registry_vars
    BY <1>4 DEF CancelClosing
  <2>2. CASE previous[d].conn \in Terminal
    <3>1. PICK p \in Terminal : p = previous[d].conn
      BY <2>2
    <3>2. p \in Conns /\ pc[p] \in Installed \cup {"done"} /\ CloseTerminalLease(p)
      BY <2>1, <3>1 DEF LifecycleInv, EntriesInv, PreviousOK, EntryOK, Conns, HasTurn
    <3>3. Ending({p})
      BY <2>1, <3>2, CloseTerminalLeaseEnds DEF Installed
    <3>4. Moved(d)
      <4>1. pc'[d] \in {"gone", "finalizing"}
        BY <2>1 DEF GiveUp, BeginFinalizer, Goto, LifecycleInv, TurnsInv, LifecycleTypes
      <4>. QED BY <2>1, <4>1 DEF Moved
    <3>5. c = p => Closing(c)
      BY <3>1, <3>4 DEF Closing
    <3>. QED BY <2>1, <3>2, <3>3, <3>5, EntriesUnchanged, EndingIsOwned
  <2>3. CASE previous[d].conn \notin Terminal
    BY <2>1, <2>3, EntriesUnchanged, NothingEnds, EndingIsOwned
  <2>. QED BY <2>2, <2>3
<1>. QED BY <1>1, <1>2, <1>3, <1>4 DEF Environment

\* A session incarnation, its lease and its entry are taken away only by its own
\* tasks, by whoever closes it, by its session's next incarnation or, the entry, by
\* the shutdown that had captured and closed it.
THEOREM OnlyOwnersEndSessions == Spec => OnlyOwnersEndASession
<1>1. ASSUME LifecycleInv, [Next]_vars, NEW c \in Conns, pc[c] # "idle"
      PROVE  RegistryIsOwned(c) /\ EntryIsOwned(c)
  <2>1. ASSUME UNCHANGED registry_vars PROVE RegistryIsOwned(c)
    BY <1>1, <2>1, NothingEnds, EndingIsOwned
  <2>2. CASE \E d \in Conns : \/ OwnerProgress(d) \/ RunProgress(d) \/ CloserProgress(d)
                              \/ Environment(d)
    BY <1>1, <2>2, OwnerProgressIsOwned, StartRunIsOwned, RunAndCloserAreOwned,
       EnvironmentIsOwned DEF RunProgress
  <2>3. CASE BeginShutdown
    BY <1>1, <2>1, <2>3, EntriesUnchanged DEF BeginShutdown
  <2>4. CASE ShutdownProgress
    <3>1. UNCHANGED registry_vars
      BY <2>4 DEF ShutdownProgress, EndShutdown, CapturedStopped
    <3>2. CASE UNCHANGED active
      BY <1>1, <2>1, <3>1, <3>2, EntriesUnchanged
    <3>3. CASE EndShutdown
      <4>1. IsActive(c) => active[scope(c)] # NoEntry
        BY LifecycleAssumption DEF IsActive, NoEntry
      <4>2. IsActive(c) /\ active[scope(c)] \notin captured => active'[scope(c)] # NoEntry
        BY <1>1, <3>3, <4>1, ConnectionFacts DEF EndShutdown, ActiveAfterShutdown
      <4>. QED BY <2>1, <3>1, <4>2 DEF EntryIsOwned
    <3>. QED BY <2>4, <3>2, <3>3 DEF ShutdownProgress, CapturedStopped
  <2>5. CASE UNCHANGED vars
    BY <1>1, <2>1, <2>5, EntriesUnchanged DEF vars, lifecycle_vars
  <2>. QED BY <1>1, <2>2, <2>3, <2>4, <2>5 DEF Next
<1>2. LifecycleInv /\ [Next]_vars =>
        [\A c \in Conns : pc[c] # "idle" => RegistryIsOwned(c) /\ EntryIsOwned(c)]_vars
  BY <1>1
<1>. QED BY <1>2, LifecycleInvariant, PTL DEF Spec, OnlyOwnersEndASession
================================================================================
