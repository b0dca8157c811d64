--------------------------- MODULE OnDemandTTSProofs ---------------------------
(***************************************************************************)
(* The speech service, for any requests, messages and cache size: an entry *)
(* of the table of locks goes with the request that made it, and the cache *)
(* keeps its bound.                                                        *)
(***************************************************************************)
EXTENDS OnDemandTTS, SequenceTheorems, TLAPS

\* The part of the types the table of locks depends on.
TableTypes ==
  /\ pc \in [Requests -> RequestStep]
  /\ key \in [Requests -> Keys \cup {None}]
  /\ locks \in [Keys -> Requests \cup {None}]

\* The inductive invariant.
IInv == TableTypes /\ LocksAreTransient
-------------------------------------------------------------------------------
\* A request that leaves forgets the lock of its key, the only one that can be
\* named after it.
LEMMA LeavingKeepsTable ==
  ASSUME IInv, NEW r \in Requests, NEW step \in {"answered", "failed"},
         InFlight(r), Leave(r, step)
  PROVE  IInv'
<1>1. pc' = [pc EXCEPT ![r] = step] /\ key' = key
      /\ locks' = [locks EXCEPT ![key[r]] = None]
  BY DEF Leave, Goto, LocksAfter
<1>2. TableTypes'
  BY <1>1 DEF IInv, TableTypes, RequestStep
<1>3. ASSUME NEW k \in Keys, locks'[k] # None
      PROVE  InFlight(locks[k])' /\ key'[locks'[k]] = k
  <2>1. k # key[r] /\ locks'[k] = locks[k]
    BY <1>1, <1>3 DEF IInv, TableTypes
  <2>2. InFlight(locks[k]) /\ key[locks[k]] = k
    BY <1>3, <2>1 DEF IInv, LocksAreTransient
  <2>3. locks[k] # r
    BY <2>1, <2>2
  <2> QED
    BY <1>1, <1>3, <2>1, <2>2, <2>3 DEF InFlight, IInv, TableTypes
<1> QED
  BY <1>2, <1>3 DEF IInv, LocksAreTransient, InFlight

\* A request that arrives makes a lock only where there is none, and is itself
\* in flight from then on.
LEMMA ArrivalKeepsTable ==
  ASSUME IInv, NEW r \in Requests, NEW k \in Keys, Miss(r, k)
  PROVE  IInv'
<1> DEFINE l == IF locks[k] = None THEN r ELSE locks[k]
<1>1. PICK step \in {"waiting", "synthesizing"} : pc' = [pc EXCEPT ![r] = step]
  BY DEF Miss, Goto
<1>2. key' = [key EXCEPT ![r] = k] /\ locks' = [locks EXCEPT ![k] = l] /\ pc[r] = "idle"
  BY DEF Miss
<1>3. l \in Requests
  BY DEF IInv, TableTypes
<1>4. TableTypes'
  BY <1>1, <1>2, <1>3 DEF IInv, TableTypes, RequestStep
<1>5. ASSUME NEW j \in Keys, locks'[j] # None
      PROVE  InFlight(locks[j])' /\ key'[locks'[j]] = j
  <2>1. CASE locks'[j] = r /\ j = k
    BY <1>1, <1>2, <2>1 DEF InFlight, IInv, TableTypes
  <2>2. CASE locks'[j] # r \/ j # k
    <3>1. locks'[j] = locks[j] /\ locks[j] # None
      BY <1>2, <1>5, <2>2 DEF IInv, TableTypes
    <3>2. InFlight(locks[j]) /\ key[locks[j]] = j
      BY <3>1 DEF IInv, LocksAreTransient
    <3>3. locks[j] # r
      BY <1>2, <3>2 DEF InFlight
    <3> QED
      BY <1>1, <1>2, <3>1, <3>2, <3>3 DEF InFlight, IInv, TableTypes
  <2> QED
    BY <2>1, <2>2
<1> QED
  BY <1>4, <1>5 DEF IInv, LocksAreTransient, InFlight
-------------------------------------------------------------------------------
\* The table is empty at first.
LEMMA InitEstablishes == Init => IInv
  BY DEF Init, IInv, TableTypes, LocksAreTransient, RequestStep

\* Every step of a request keeps the table.
LEMMA StepPreserves == IInv /\ [Next]_vars => IInv'
<1> SUFFICES ASSUME IInv, [Next]_vars PROVE IInv'
  OBVIOUS
<1>1. ASSUME NEW r \in Requests, NEW k \in Keys, Hit(r, k) PROVE IInv'
  <2>1. /\ pc[r] = "idle" /\ pc' = [pc EXCEPT ![r] = "answered"]
        /\ key' = [key EXCEPT ![r] = k] /\ locks' = locks
    BY <1>1 DEF Hit, Goto
  <2>2. TableTypes'
    BY <2>1 DEF IInv, TableTypes, RequestStep
  <2>3. \A j \in Keys : locks[j] # None => locks[j] # r /\ locks[j] \in Requests
    BY <2>1 DEF IInv, TableTypes, LocksAreTransient, InFlight
  <2> QED
    BY <2>1, <2>2, <2>3 DEF IInv, TableTypes, LocksAreTransient, InFlight
<1>2. ASSUME NEW r \in Requests, NEW k \in Keys, Miss(r, k) PROVE IInv'
  BY <1>2, ArrivalKeepsTable
<1>3. ASSUME NEW r \in Requests, WakeToHit(r) PROVE IInv'
  <2>1. InFlight(r) /\ Leave(r, "answered")
    BY <1>3 DEF WakeToHit, MyTurn, InFlight
  <2> QED
    BY <2>1, LeavingKeepsTable
<1>4. ASSUME NEW r \in Requests, WakeToMiss(r) PROVE IInv'
  <2>1. pc[r] = "waiting" /\ pc' = [pc EXCEPT ![r] = "synthesizing"]
        /\ key' = key /\ locks' = locks
    BY <1>4 DEF WakeToMiss, MyTurn, Goto
  <2> QED
    BY <2>1 DEF IInv, TableTypes, RequestStep, LocksAreTransient, InFlight
<1>5. ASSUME NEW r \in Requests, Synthesized(r) PROVE IInv'
  <2>1. InFlight(r) /\ Leave(r, "answered")
    BY <1>5 DEF Synthesized, InFlight
  <2> QED
    BY <2>1, LeavingKeepsTable
<1>6. ASSUME NEW r \in Requests, SynthesisFails(r) \/ CancelWaiting(r) PROVE IInv'
  <2>1. InFlight(r) /\ Leave(r, "failed")
    BY <1>6 DEF SynthesisFails, CancelWaiting, InFlight
  <2> QED
    BY <2>1, LeavingKeepsTable
<1>7. CASE UNCHANGED vars
  BY <1>7 DEF vars, IInv, TableTypes, LocksAreTransient, InFlight
<1> QED
  BY <1>1, <1>2, <1>3, <1>4, <1>5, <1>6, <1>7 DEF Next, Progress

\* The table of locks holds an entry only while the request that made it is in
\* flight, so it never outgrows the requests being served.
THEOREM LockTableIsTransient == Spec => []LocksAreTransient
<1>1. IInv => LocksAreTransient
  BY DEF IInv
<1> QED
  BY <1>1, InitEstablishes, StepPreserves, PTL DEF Spec
-------------------------------------------------------------------------------
(* The sequences of the service: the cache and the queues of the locks.     *)

\* A sequence without its element x, if it has it once.
LEMMA RemoveFirstFacts ==
  ASSUME NEW S, NEW s \in Seq(S), IsInjective(s), NEW x
  PROVE  /\ RemoveFirst(s, x) \in Seq(S) /\ IsInjective(RemoveFirst(s, x))
         /\ Len(RemoveFirst(s, x)) = IF Contains(s, x) THEN Len(s) - 1 ELSE Len(s)
         /\ \A j \in 1..Len(RemoveFirst(s, x)) :
              /\ RemoveFirst(s, x)[j] # x
              /\ \E i \in 1..Len(s) : RemoveFirst(s, x)[j] = s[i]
<1>1. Len(s) \in Nat /\ DOMAIN s = 1..Len(s) /\ \A j \in 1..Len(s) : s[j] \in S
  BY LenProperties
<1>2. CASE ~Contains(s, x)
  <2>1. RemoveFirst(s, x) = s
    BY <1>2 DEF RemoveFirst, Contains
  <2>2. \A j \in 1..Len(s) : s[j] # x
    BY <1>2 DEF Contains
  <2>. QED BY <1>1, <1>2, <2>1, <2>2
<1>3. CASE Contains(s, x)
  <2>1. PICK i \in 1..Len(s) : s[i] = x
    BY <1>3 DEF Contains
  <2>0. Len(s) \in Int /\ i \in Int /\ 1 <= i /\ i <= Len(s)
    BY <1>1, <2>1
  <2>2. \A j \in 1..Len(s) : s[j] = x => j = i
    BY <1>1, <2>1 DEF IsInjective
  <2>3. RemoveFirst(s, x) = RemoveAt(s, i)
    <3>1. {j \in 1..Len(s) : s[j] = x} = {i}
      BY <2>1, <2>2
    <3>2. Min({i}) = i
      BY <1>1 DEF Min
    <3>3. SelectInSeq(s, LAMBDA v : v = x) = i
      BY <3>1, <3>2 DEF SelectInSeq
    <3>. QED BY <2>1, <3>3 DEF RemoveFirst
  <2>4. PICK a \in Seq(S) :
          /\ a = SubSeq(s, 1, i - 1) /\ Len(a) = i - 1
          /\ \A j \in 1..(i - 1) : a[j] = s[j]
    <3>1. \A k \in 1..(i - 1) : s[k] \in S
      BY <1>1
    <3>2. /\ SubSeq(s, 1, i - 1) \in Seq(S)
          /\ Len(SubSeq(s, 1, i - 1)) = IF 1 <= i - 1 THEN i - 1 - 1 + 1 ELSE 0
          /\ \A k \in 1..(i - 1 - 1 + 1) : SubSeq(s, 1, i - 1)[k] = s[1 + k - 1]
      BY <1>1, <3>1, SubSeqProperties, SMTT(30)
    <3>3. PICK a \in Seq(S) :
            /\ a = SubSeq(s, 1, i - 1)
            /\ Len(a) = IF 1 <= i - 1 THEN i - 1 - 1 + 1 ELSE 0
            /\ \A k \in 1..(i - 1 - 1 + 1) : a[k] = s[1 + k - 1]
      BY <3>2, Zenon
    <3>4. Len(a) = IF 1 <= i - 1 THEN i - 1 - 1 + 1 ELSE 0
      BY <3>3, Zenon
    <3>5. Len(a) = i - 1
      BY <1>1, <2>1, <3>4
    <3>6. ASSUME NEW j \in 1..(i - 1) PROVE a[j] = s[j]
      <4>1. j \in 1..(i - 1 - 1 + 1) /\ 1 + j - 1 = j
        BY <1>1, <2>1
      <4>2. a[j] = s[1 + j - 1]
        BY <3>3, <4>1, Zenon
      <4>. QED BY <4>1, <4>2
    <3>. QED BY <3>3, <3>5, <3>6, Zenon
  <2>5. PICK b \in Seq(S) :
          /\ b = SubSeq(s, i + 1, Len(s)) /\ Len(b) = Len(s) - i
          /\ \A j \in 1..(Len(s) - i) : b[j] = s[i + j]
    <3>1. \A k \in (i + 1)..Len(s) : s[k] \in S
      BY <1>1
    <3>2. /\ SubSeq(s, i + 1, Len(s)) \in Seq(S)
          /\ Len(SubSeq(s, i + 1, Len(s)))
               = IF i + 1 <= Len(s) THEN Len(s) - (i + 1) + 1 ELSE 0
          /\ \A k \in 1..(Len(s) - (i + 1) + 1) :
               SubSeq(s, i + 1, Len(s))[k] = s[(i + 1) + k - 1]
      BY <1>1, <3>1, SubSeqProperties, SMTT(30)
    <3>3. PICK b \in Seq(S) :
            /\ b = SubSeq(s, i + 1, Len(s))
            /\ Len(b) = IF i + 1 <= Len(s) THEN Len(s) - (i + 1) + 1 ELSE 0
            /\ \A k \in 1..(Len(s) - (i + 1) + 1) : b[k] = s[(i + 1) + k - 1]
      BY <3>2, Zenon
    <3>6. Len(b) = IF i + 1 <= Len(s) THEN Len(s) - (i + 1) + 1 ELSE 0
      BY <3>3, Zenon
    <3>4. Len(b) = Len(s) - i
      BY <2>0, <3>6
    <3>5. ASSUME NEW j \in 1..(Len(s) - i) PROVE b[j] = s[i + j]
      <4>1. j \in 1..(Len(s) - (i + 1) + 1) /\ (i + 1) + j - 1 = i + j
        BY <1>1
      <4>2. b[j] = s[(i + 1) + j - 1]
        BY <3>3, <4>1, Zenon
      <4>. QED BY <4>1, <4>2
    <3>. QED BY <3>3, <3>4, <3>5, Zenon
  <2>6. RemoveFirst(s, x) = a \o b
    BY <2>3, <2>4, <2>5, Zenon DEF RemoveAt
  <2>7. PICK t \in Seq(S) : t = a \o b /\ Len(t) = Len(s) - 1 /\ DOMAIN t = 1..Len(t)
          /\ \A j \in 1..Len(t) : t[j] = IF j < i THEN s[j] ELSE s[j + 1]
    <3>1. /\ a \o b \in Seq(S) /\ Len(a \o b) = Len(a) + Len(b)
          /\ \A j \in 1..(Len(a) + Len(b)) :
               (a \o b)[j] = IF j <= Len(a) THEN a[j] ELSE b[j - Len(a)]
      BY <2>4, <2>5, ConcatProperties
    <3>2. PICK t \in Seq(S) : t = a \o b /\ Len(t) = Len(a) + Len(b)
            /\ \A j \in 1..(Len(a) + Len(b)) :
                 t[j] = IF j <= Len(a) THEN a[j] ELSE b[j - Len(a)]
      BY <3>1, Zenon
    <3>6. Len(a) = i - 1 /\ Len(b) = Len(s) - i /\ Len(t) = Len(a) + Len(b)
      BY <2>4, <2>5, <3>2, Zenon
    <3>3. Len(t) = Len(s) - 1 /\ Len(a) + Len(b) = Len(s) - 1
      BY <1>1, <2>1, <3>6
    <3>4. ASSUME NEW j \in 1..Len(t) PROVE t[j] = IF j < i THEN s[j] ELSE s[j + 1]
      <4>1. t[j] = IF j <= Len(a) THEN a[j] ELSE b[j - Len(a)]
        BY <3>2, <3>3
      <4>2. CASE j < i
        <5>1. j <= Len(a) /\ j \in 1..(i - 1)
          BY <1>1, <2>1, <3>3, <3>6, <4>2
        <5>. QED BY <2>4, <4>1, <4>2, <5>1, Zenon
      <4>3. CASE ~(j < i)
        <5>1. j - Len(a) \in 1..(Len(s) - i) /\ i + (j - Len(a)) = j + 1
          BY <1>1, <2>1, <3>3, <3>6, <4>3
        <5>2. b[j - Len(a)] = s[i + (j - Len(a))]
          BY <2>5, <5>1
        <5>3. ~(j <= Len(a))
          BY <1>1, <2>1, <3>3, <3>6, <4>3
        <5>. QED BY <4>1, <4>3, <5>1, <5>2, <5>3, Zenon
      <4>. QED BY <4>2, <4>3
    <3>5. DOMAIN t = 1..Len(t)
      BY LenProperties
    <3>. QED BY <3>2, <3>3, <3>4, <3>5
  <2>8. ASSUME NEW j \in 1..Len(t)
        PROVE  \E m \in 1..Len(s) : m # i /\ t[j] = s[m] /\ m = IF j < i THEN j ELSE j + 1
    <3>. DEFINE m == IF j < i THEN j ELSE j + 1
    <3>0. Len(t) = Len(s) - 1
      BY <2>7, Zenon
    <3>1. m \in 1..Len(s) /\ m # i
      BY <2>0, <3>0
    <3>2. t[j] = s[m]
      BY <2>7
    <3>. QED BY <3>1, <3>2, Zenon
  <2>9. \A j \in 1..Len(t) : t[j] # x
    BY <2>2, <2>8
  <2>10. IsInjective(t)
    <3>. SUFFICES ASSUME NEW j \in 1..Len(t), NEW k \in 1..Len(t), t[j] = t[k] PROVE j = k
      BY <2>7 DEF IsInjective
    <3>1. PICK m \in 1..Len(s) : t[j] = s[m] /\ m = IF j < i THEN j ELSE j + 1
      BY <2>8
    <3>2. PICK n \in 1..Len(s) : t[k] = s[n] /\ n = IF k < i THEN k ELSE k + 1
      BY <2>8
    <3>3. m = n
      BY <1>1, <3>1, <3>2 DEF IsInjective
    <3>. QED BY <1>1, <3>1, <3>2, <3>3
  <2>11. RemoveFirst(s, x) = t
    BY <2>6, <2>7
  <2>. QED BY <1>3, <2>7, <2>8, <2>9, <2>10, <2>11
<1>. QED BY <1>2, <1>3

\* An element that a sequence does not have is added.
LEMMA AppendFacts ==
  ASSUME NEW S, NEW s \in Seq(S), IsInjective(s), NEW x \in S, ~Contains(s, x)
  PROVE  /\ Append(s, x) \in Seq(S) /\ IsInjective(Append(s, x))
         /\ Len(Append(s, x)) = Len(s) + 1
         /\ \A j \in 1..Len(Append(s, x)) :
              Append(s, x)[j] = x \/ \E i \in 1..Len(s) : Append(s, x)[j] = s[i]
<1>1. Len(s) \in Nat /\ DOMAIN s = 1..Len(s) /\ \A j \in 1..Len(s) : s[j] # x
  BY LenProperties DEF Contains
<1>2. PICK t \in Seq(S) : t = Append(s, x) /\ Len(t) = Len(s) + 1 /\ DOMAIN t = 1..Len(t)
        /\ \A j \in 1..Len(t) : t[j] = IF j <= Len(s) THEN s[j] ELSE x
  <2>1. PICK t \in Seq(S) : t = Append(s, x)
    BY AppendProperties
  <2>2. /\ Len(t) = Len(s) + 1 /\ t[Len(s) + 1] = x
        /\ \A j \in 1..Len(s) : t[j] = s[j]
    BY <2>1, AppendProperties
  <2>3. \A j \in 1..Len(t) : t[j] = IF j <= Len(s) THEN s[j] ELSE x
    BY <1>1, <2>2
  <2>. QED BY <2>1, <2>2, <2>3, LenProperties
<1>3. IsInjective(t)
  BY <1>1, <1>2 DEF IsInjective
<1>4. \A j \in 1..Len(t) : t[j] = x \/ \E i \in 1..Len(s) : t[j] = s[i]
  BY <1>1, <1>2
<1>. QED BY <1>2, <1>3, <1>4

\* The oldest of a sequence is dropped.
LEMMA TailFacts ==
  ASSUME NEW S, NEW s \in Seq(S), IsInjective(s), s # <<>>
  PROVE  Tail(s) \in Seq(S) /\ IsInjective(Tail(s)) /\ Len(Tail(s)) = Len(s) - 1
<1>1. Len(s) \in Nat /\ DOMAIN s = 1..Len(s)
  BY LenProperties
<1>2. PICK t \in Seq(S) : t = Tail(s) /\ Len(t) = Len(s) - 1 /\ DOMAIN t = 1..Len(t)
        /\ \A j \in 1..Len(t) : t[j] = s[j + 1]
  <2>1. PICK t \in Seq(S) : t = Tail(s) /\ Len(t) = Len(s) - 1
          /\ \A j \in 1..Len(t) : t[j] = s[j + 1]
    BY HeadTailProperties
  <2>. QED BY <2>1, LenProperties
<1>3. IsInjective(t)
  <2>. SUFFICES ASSUME NEW j \in 1..Len(t), NEW k \in 1..Len(t), t[j] = t[k] PROVE j = k
    BY <1>2 DEF IsInjective
  <2>1. j + 1 \in 1..Len(s) /\ k + 1 \in 1..Len(s) /\ s[j + 1] = s[k + 1]
    BY <1>1, <1>2
  <2>. QED BY <1>1, <2>1 DEF IsInjective
<1>. QED BY <1>2, <1>3
-------------------------------------------------------------------------------
(* Type correctness: the cache keeps its bound, a lock's queue its requests. *)

RequestsOK ==
  /\ pc \in [Requests -> RequestStep]
  /\ key \in [Requests -> Keys \cup {None}]
  /\ lock \in [Requests -> Requests \cup {None}]
  /\ locks \in [Keys -> Requests \cup {None}]
  /\ \A r \in Requests : InFlight(r) => key[r] \in Keys /\ lock[r] \in Requests

CacheOK == cache \in Seq(Keys) /\ IsInjective(cache) /\ Len(cache) <= MaxEntries

\* A lock's queue holds requests in flight that use this very lock.
Queued(l) ==
  \A j \in 1..Len(queue[l]) : InFlight(queue[l][j]) /\ lock[queue[l][j]] = l

QueuesOK ==
  /\ queue \in [Requests -> Seq(Requests)]
  /\ \A l \in Requests : IsInjective(queue[l]) /\ Queued(l)

\* The inductive invariant.
ServiceInv == RequestsOK /\ CacheOK /\ QueuesOK

\* A key that is used moves to the end of the cache, or is added there.
LEMMA MovedToEndFacts ==
  ASSUME CacheOK, NEW k \in Keys
  PROVE  /\ MovedToEnd(k) \in Seq(Keys) /\ IsInjective(MovedToEnd(k))
         /\ Len(MovedToEnd(k)) = IF Cached(k) THEN Len(cache) ELSE Len(cache) + 1
<1>1. PICK c \in Seq(Keys) :
        /\ c = RemoveFirst(cache, k) /\ IsInjective(c)
        /\ Len(c) = IF Cached(k) THEN Len(cache) - 1 ELSE Len(cache)
        /\ \A j \in 1..Len(c) : c[j] # k
  <2>1. cache \in Seq(Keys) /\ IsInjective(cache)
    BY DEF CacheOK
  <2>2. /\ RemoveFirst(cache, k) \in Seq(Keys) /\ IsInjective(RemoveFirst(cache, k))
        /\ Len(RemoveFirst(cache, k))
             = IF Contains(cache, k) THEN Len(cache) - 1 ELSE Len(cache)
        /\ \A j \in 1..Len(RemoveFirst(cache, k)) : RemoveFirst(cache, k)[j] # k
    BY <2>1, RemoveFirstFacts
  <2>. QED BY <2>2, Zenon DEF Cached
<1>2. ~Contains(c, k)
  BY <1>1 DEF Contains
<1>3. /\ Append(c, k) \in Seq(Keys) /\ IsInjective(Append(c, k))
      /\ Len(Append(c, k)) = Len(c) + 1
  BY <1>1, <1>2, AppendFacts, Zenon
<1>4. MovedToEnd(k) = Append(c, k)
  BY <1>1, Zenon DEF MovedToEnd
<1>5. Len(MovedToEnd(k)) = Len(c) + 1
  BY <1>3, <1>4, Zenon
<1>6. Len(MovedToEnd(k)) = IF Cached(k) THEN Len(cache) ELSE Len(cache) + 1
  <2>1. Len(cache) \in Nat
    BY LenProperties DEF CacheOK
  <2>. QED BY <1>1, <1>5, <2>1
<1>. QED BY <1>3, <1>4, <1>6, Zenon

\* A hit reorders the cache.
LEMMA HitKeepsCache ==
  ASSUME CacheOK, NEW k \in Keys, Cached(k), cache' = MovedToEnd(k)
  PROVE  CacheOK'
<1>1. MovedToEnd(k) \in Seq(Keys) /\ IsInjective(MovedToEnd(k))
      /\ Len(MovedToEnd(k)) = Len(cache)
  BY MovedToEndFacts, Zenon
<1>2. cache' \in Seq(Keys) /\ IsInjective(cache') /\ Len(cache') = Len(cache)
  BY <1>1, Zenon
<1>. QED BY <1>2, Zenon DEF CacheOK

\* New audio is added and the oldest dropped when the bound is passed.
LEMMA StoreKeepsCache ==
  ASSUME CacheOK, NEW k \in Keys, cache' = Stored(k)
  PROVE  CacheOK'
<1>1. PICK c \in Seq(Keys) :
        /\ c = MovedToEnd(k) /\ IsInjective(c)
        /\ Len(c) = IF Cached(k) THEN Len(cache) ELSE Len(cache) + 1
  BY MovedToEndFacts, Zenon
<1>2. cache' = IF Len(c) > MaxEntries THEN Tail(c) ELSE c
  BY <1>1, Zenon DEF Stored
<1>3. Len(cache) \in Nat /\ Len(cache) <= MaxEntries /\ MaxEntries \in Nat \ {0}
  BY LenProperties, TTSAssumption DEF CacheOK
<1>4. CASE Len(c) > MaxEntries
  <2>1. Len(c) = MaxEntries + 1
    BY <1>1, <1>3, <1>4
  <2>2. c # <<>>
    BY <1>3, <2>1
  <2>3. Tail(c) \in Seq(Keys) /\ IsInjective(Tail(c)) /\ Len(Tail(c)) = Len(c) - 1
    BY <1>1, <2>2, TailFacts, Zenon
  <2>4. cache' \in Seq(Keys) /\ IsInjective(cache') /\ Len(cache') = Len(c) - 1
    BY <1>2, <1>4, <2>3, Zenon
  <2>5. Len(cache') <= MaxEntries
    BY <1>3, <2>1, <2>4
  <2>. QED BY <2>4, <2>5, Zenon DEF CacheOK
<1>5. CASE ~(Len(c) > MaxEntries)
  <2>1. cache' = c
    BY <1>2, <1>5, Zenon
  <2>2. Len(c) <= MaxEntries
    BY <1>1, <1>3, <1>5
  <2>. QED BY <1>1, <2>1, <2>2, Zenon DEF CacheOK
<1>. QED BY <1>4, <1>5

\* A request that leaves is in the queue of its lock and in no other.
LEMMA LeavingKeepsQueues ==
  ASSUME RequestsOK, QueuesOK, NEW r \in Requests, InFlight(r),
         NEW step \in {"answered", "failed"}, Leave(r, step)
  PROVE  RequestsOK' /\ QueuesOK'
<1>1. /\ pc' = [pc EXCEPT ![r] = step] /\ key' = key /\ lock' = lock
      /\ locks' = [locks EXCEPT ![key[r]] = None]
  BY DEF Leave, Goto, LocksAfter
<1>2. RequestsOK'
  <2>1. \A q \in Requests : InFlight(q)' => InFlight(q)
    BY <1>1 DEF InFlight, RequestsOK
  <2>. QED BY <1>1, <2>1 DEF RequestsOK, RequestStep
<1>3. lock[r] \in Requests
  BY DEF RequestsOK
<1>4. PICK u \in Seq(Requests) :
        /\ u = RemoveFirst(queue[lock[r]], r) /\ IsInjective(u)
        /\ \A j \in 1..Len(u) :
             /\ u[j] # r
             /\ \E i \in 1..Len(queue[lock[r]]) : u[j] = queue[lock[r]][i]
  <2>1. queue[lock[r]] \in Seq(Requests) /\ IsInjective(queue[lock[r]])
    BY <1>3 DEF QueuesOK
  <2>. QED BY <2>1, RemoveFirstFacts
<1>5. queue' = [queue EXCEPT ![lock[r]] = u]
  BY <1>4 DEF Leave, QueueWithout
<1>6. queue' \in [Requests -> Seq(Requests)]
  BY <1>3, <1>4, <1>5 DEF QueuesOK
<1>7. ASSUME NEW q \in Requests, q # r, InFlight(q)
      PROVE  InFlight(q)' /\ lock'[q] = lock[q]
  BY <1>1, <1>7 DEF InFlight, RequestsOK
<1>8. ASSUME NEW l \in Requests PROVE IsInjective(queue'[l]) /\ Queued(l)'
  <2>1. CASE l = lock[r]
    <3>1. queue'[l] = u
      BY <1>3, <1>5, <2>1 DEF QueuesOK
    <3>2. ASSUME NEW j \in 1..Len(u) PROVE InFlight(u[j])' /\ lock'[u[j]] = l
      <4>1. PICK i \in 1..Len(queue[l]) : u[j] = queue[l][i]
        BY <1>4, <2>1
      <4>2. InFlight(u[j]) /\ lock[u[j]] = l
        BY <4>1 DEF QueuesOK, Queued
      <4>3. u[j] \in Requests /\ u[j] # r
        BY <1>4, LenProperties
      <4>. QED BY <1>7, <4>2, <4>3
    <3>. QED BY <1>4, <3>1, <3>2, Zenon DEF Queued, InFlight
  <2>2. CASE l # lock[r]
    <3>1. PICK v \in Seq(Requests) : v = queue[l] /\ v = queue'[l] /\ IsInjective(v)
      BY <1>5, <2>2 DEF QueuesOK
    <3>2. ASSUME NEW j \in 1..Len(v) PROVE InFlight(v[j])' /\ lock'[v[j]] = l
      <4>1. InFlight(v[j]) /\ lock[v[j]] = l
        BY <3>1 DEF QueuesOK, Queued
      <4>2. v[j] \in Requests /\ v[j] # r
        BY <2>2, <4>1, ElementOfSeq
      <4>. QED BY <1>7, <4>1, <4>2
    <3>. QED BY <3>1, <3>2, Zenon DEF Queued, InFlight
  <2>. QED BY <2>1, <2>2
<1>. QED BY <1>2, <1>6, <1>8 DEF QueuesOK

\* A request that arrives is in no queue, and enters that of the key's lock.
LEMMA ArrivalKeepsQueues ==
  ASSUME RequestsOK, QueuesOK, NEW r \in Requests, NEW k \in Keys, Miss(r, k)
  PROVE  RequestsOK' /\ QueuesOK'
<1>1. PICK l \in Requests, step \in {"waiting", "synthesizing"} :
        /\ pc[r] = "idle" /\ pc' = [pc EXCEPT ![r] = step]
        /\ key' = [key EXCEPT ![r] = k] /\ lock' = [lock EXCEPT ![r] = l]
        /\ locks' = [locks EXCEPT ![k] = l]
        /\ queue' = [queue EXCEPT ![l] = Append(queue[l], r)]
  <2>1. (IF locks[k] = None THEN r ELSE locks[k]) \in Requests
    BY DEF RequestsOK
  <2>. QED BY <2>1 DEF Miss, Goto
<1>2. RequestsOK'
  BY <1>1 DEF RequestsOK, RequestStep, InFlight
<1>3. ASSUME NEW q \in Requests, InFlight(q)
      PROVE  q # r /\ InFlight(q)' /\ lock'[q] = lock[q]
  BY <1>1, <1>3 DEF InFlight, RequestsOK
<1>4. queue[l] \in Seq(Requests) /\ IsInjective(queue[l]) /\ ~Contains(queue[l], r)
  <2>1. queue[l] \in Seq(Requests) /\ IsInjective(queue[l]) /\ Queued(l)
    BY DEF QueuesOK
  <2>2. \A j \in 1..Len(queue[l]) : queue[l][j] # r
    BY <2>1, <1>1 DEF Queued, InFlight
  <2>. QED BY <2>1, <2>2 DEF Contains
<1>5. PICK u \in Seq(Requests) :
        /\ u = Append(queue[l], r) /\ IsInjective(u)
        /\ \A j \in 1..Len(u) : u[j] = r \/ \E i \in 1..Len(queue[l]) : u[j] = queue[l][i]
  <2>1. PICK v \in Seq(Requests) : v = queue[l] /\ IsInjective(v) /\ ~Contains(v, r)
    BY <1>4
  <2>2. /\ Append(v, r) \in Seq(Requests) /\ IsInjective(Append(v, r))
        /\ \A j \in 1..Len(Append(v, r)) :
             Append(v, r)[j] = r \/ \E i \in 1..Len(v) : Append(v, r)[j] = v[i]
    BY <2>1, AppendFacts
  <2>. QED BY <2>1, <2>2, Zenon
<1>6. queue' = [queue EXCEPT ![l] = u]
  BY <1>1, <1>5, Zenon
<1>7. queue' \in [Requests -> Seq(Requests)]
  BY <1>5, <1>6 DEF QueuesOK
<1>8. ASSUME NEW m \in Requests PROVE IsInjective(queue'[m]) /\ Queued(m)'
  <2>0. PICK v \in Seq(Requests) : v = queue[m] /\ IsInjective(v)
    BY DEF QueuesOK
  <2>1. ASSUME NEW j \in 1..Len(v) PROVE InFlight(v[j])' /\ lock'[v[j]] = m
    <3>1. InFlight(v[j]) /\ lock[v[j]] = m
      BY <2>0 DEF QueuesOK, Queued
    <3>2. v[j] \in Requests
      BY ElementOfSeq
    <3>. QED BY <1>3, <3>1, <3>2
  <2>2. CASE m = l
    <3>1. queue'[m] = u
      BY <1>6, <2>2 DEF QueuesOK
    <3>2. InFlight(r)' /\ lock'[r] = l
      BY <1>1 DEF InFlight, RequestsOK
    <3>3. ASSUME NEW j \in 1..Len(u) PROVE InFlight(u[j])' /\ lock'[u[j]] = m
      <4>1. CASE u[j] = r
        BY <2>2, <3>2, <4>1
      <4>2. ASSUME NEW i \in 1..Len(v), u[j] = v[i]
            PROVE  InFlight(u[j])' /\ lock'[u[j]] = m
        BY <2>1, <4>2, Zenon
      <4>. QED BY <1>5, <2>0, <2>2, <4>1, <4>2, Zenon
    <3>. QED BY <1>5, <3>1, <3>3, Zenon DEF Queued, InFlight
  <2>3. CASE m # l
    <3>1. queue'[m] = v
      BY <1>6, <2>0, <2>3 DEF QueuesOK
    <3>. QED BY <2>0, <2>1, <3>1, Zenon DEF Queued, InFlight
  <2>. QED BY <2>2, <2>3
<1>. QED BY <1>2, <1>7, <1>8 DEF QueuesOK

\* The service starts with an empty cache and free locks.
LEMMA ServiceStarts == Init => ServiceInv
<1>. SUFFICES ASSUME Init PROVE ServiceInv
  OBVIOUS
<1>1. RequestsOK
  BY DEF Init, RequestsOK, RequestStep, InFlight
<1>2. <<>> \in Seq(Keys) /\ <<>> \in Seq(Requests) /\ Len(<<>>) = 0 /\ IsInjective(<<>>)
  BY DEF IsInjective
<1>3. CacheOK
  BY <1>2, TTSAssumption DEF Init, CacheOK
<1>4. QueuesOK
  <2>1. queue \in [Requests -> Seq(Requests)] /\ \A l \in Requests : queue[l] = <<>>
    BY <1>2 DEF Init
  <2>2. \A l \in Requests : IsInjective(queue[l]) /\ Len(queue[l]) = 0
    BY <1>2, <2>1, Zenon
  <2>. QED BY <2>1, <2>2 DEF QueuesOK, Queued
<1>. QED BY <1>1, <1>3, <1>4 DEF ServiceInv

\* Every step of a request keeps the invariant.
LEMMA ServiceSteps == ServiceInv /\ [Next]_vars => ServiceInv'
<1>. SUFFICES ASSUME ServiceInv, [Next]_vars PROVE ServiceInv'
  OBVIOUS
<1>. USE DEF ServiceInv
<1>0. ASSUME queue' = queue, lock' = lock, NEW r \in Requests,
             NEW step \in {"synthesizing", "answered"}, pc' = [pc EXCEPT ![r] = step],
             pc[r] = "idle" \/ (pc[r] = "waiting" /\ step = "synthesizing")
      PROVE  QueuesOK'
  <2>1. \A q \in Requests : InFlight(q) => InFlight(q)'
    BY <1>0 DEF InFlight, RequestsOK
  <2>2. ASSUME NEW l \in Requests PROVE Queued(l)'
    <3>1. PICK v \in Seq(Requests) : v = queue[l]
      BY DEF QueuesOK
    <3>2. ASSUME NEW j \in 1..Len(v) PROVE InFlight(v[j])' /\ lock[v[j]] = l
      <4>1. v[j] \in Requests
        BY ElementOfSeq
      <4>2. InFlight(v[j]) /\ lock[v[j]] = l
        BY <3>1 DEF QueuesOK, Queued
      <4>. QED BY <2>1, <4>1, <4>2
    <3>. QED BY <1>0, <3>1, <3>2, Zenon DEF Queued, InFlight
  <2>. QED BY <1>0, <2>2, Zenon DEF QueuesOK
<1>1. ASSUME NEW r \in Requests, NEW k \in Keys, Hit(r, k) PROVE ServiceInv'
  <2>1. CacheOK'
    BY <1>1, HitKeepsCache DEF Hit
  <2>2. /\ pc[r] = "idle" /\ pc' = [pc EXCEPT ![r] = "answered"]
        /\ key' = [key EXCEPT ![r] = k] /\ UNCHANGED <<lock, locks, queue>>
    BY <1>1 DEF Hit, Goto
  <2>3. RequestsOK'
    BY <2>2 DEF RequestsOK, RequestStep, InFlight
  <2>. QED BY <1>0, <2>1, <2>2, <2>3
<1>2. ASSUME NEW r \in Requests, NEW k \in Keys, Miss(r, k) PROVE ServiceInv'
  <2>1. CacheOK'
    BY <1>2 DEF Miss, CacheOK
  <2>. QED BY <1>2, <2>1, ArrivalKeepsQueues
<1>3. ASSUME NEW r \in Requests, WakeToHit(r) PROVE ServiceInv'
  <2>1. InFlight(r) /\ Leave(r, "answered") /\ Cached(key[r])
        /\ cache' = MovedToEnd(key[r])
    BY <1>3 DEF WakeToHit, MyTurn, InFlight
  <2>2. key[r] \in Keys
    BY <2>1 DEF RequestsOK
  <2>. QED BY <2>1, <2>2, LeavingKeepsQueues, HitKeepsCache
<1>4. ASSUME NEW r \in Requests, WakeToMiss(r) PROVE ServiceInv'
  <2>1. /\ pc[r] = "waiting" /\ pc' = [pc EXCEPT ![r] = "synthesizing"]
        /\ UNCHANGED <<key, lock, cache, locks, queue>>
    BY <1>4 DEF WakeToMiss, MyTurn, Goto
  <2>2. RequestsOK'
    BY <2>1 DEF RequestsOK, RequestStep, InFlight
  <2>3. CacheOK'
    BY <2>1 DEF CacheOK
  <2>. QED BY <1>0, <2>1, <2>2, <2>3
<1>5. ASSUME NEW r \in Requests, Synthesized(r) PROVE ServiceInv'
  <2>1. InFlight(r) /\ Leave(r, "answered") /\ cache' = Stored(key[r])
    BY <1>5 DEF Synthesized, InFlight
  <2>2. key[r] \in Keys
    BY <2>1 DEF RequestsOK
  <2>. QED BY <2>1, <2>2, LeavingKeepsQueues, StoreKeepsCache
<1>6. ASSUME NEW r \in Requests, SynthesisFails(r) \/ CancelWaiting(r) PROVE ServiceInv'
  <2>1. InFlight(r) /\ Leave(r, "failed") /\ cache' = cache
    BY <1>6 DEF SynthesisFails, CancelWaiting, InFlight
  <2>2. CacheOK'
    BY <2>1 DEF CacheOK
  <2>. QED BY <2>1, <2>2, LeavingKeepsQueues
<1>7. CASE UNCHANGED vars
  BY <1>7 DEF vars, RequestsOK, CacheOK, QueuesOK, Queued, InFlight
<1>. QED
  BY <1>1, <1>2, <1>3, <1>4, <1>5, <1>6, <1>7 DEF Next, Progress

\* The cache never outgrows max_entries and never has a key twice, and no lock
\* is owned or waited for twice by one request.
THEOREM TTSTypesCorrect == Spec => []TTSTypeOK
<1>1. ServiceInv => TTSTypeOK
  BY DEF ServiceInv, TTSTypeOK, RequestsOK, CacheOK, QueuesOK
<1>. QED
  BY <1>1, ServiceStarts, ServiceSteps, PTL DEF Spec
===============================================================================
