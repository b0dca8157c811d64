------------------------------ MODULE OnDemandTTS ------------------------------
(***************************************************************************)
(* OnDemandTTSService.generate of tts_api.py: concurrent requests for the  *)
(* speech of a message, a bounded cache of finished audio, and one lock    *)
(* per cache key that is to keep them from synthesizing the same message   *)
(* twice.  One action stands for the code between two awaits.              *)
(***************************************************************************)
EXTENDS Naturals, SequencesExt

CONSTANTS Requests,    \* calls of generate
          Keys,        \* cache keys: model, voice and normalized text
          None,        \* Python's None
          MaxEntries   \* max_entries

ASSUME TTSAssumption ==
  /\ None \notin Requests \cup Keys
  /\ MaxEntries \in Nat \ {0}

VARIABLES pc,      \* where a request is
          key,     \* its cache key
          lock,    \* the lock it uses; a lock is named by the request that made it
          cache,   \* _cache, the least recently used key first
          locks,   \* _locks: key -> lock, or None
          queue    \* lock -> its owner, then those who wait for it

vars == <<pc, key, lock, cache, locks, queue>>
-------------------------------------------------------------------------------
RequestStep == {"idle", "waiting", "synthesizing", "answered", "failed"}
InFlight(r) == pc[r] \in {"waiting", "synthesizing"}

Cached(k) == Contains(cache, k)

Init ==
  /\ pc = [r \in Requests |-> "idle"]
  /\ key = [r \in Requests |-> None]
  /\ lock = [r \in Requests |-> None]
  /\ cache = <<>>
  /\ locks = [k \in Keys |-> None]
  /\ queue = [r \in Requests |-> <<>>]

Goto(r, step) == pc' = [pc EXCEPT ![r] = step]

MovedToEnd(k) == Append(RemoveFirst(cache, k), k)

\* Mutant: the oldest entry goes only when the bound was passed before.
StoredEvictingLate(k) ==
  IF Len(MovedToEnd(k)) > MaxEntries + 1 THEN Tail(MovedToEnd(k)) ELSE MovedToEnd(k)

\* The new entry is the most recent one; the oldest are dropped.
Stored(k) ==
  LET c == MovedToEnd(k) IN IF Len(c) > MaxEntries THEN Tail(c) ELSE c

\* Mutant: a request that is cancelled leaves its waiter behind.
QueueKeeping(r) == queue

QueueWithout(r) == [queue EXCEPT ![lock[r]] = RemoveFirst(@, r)]

\* Mutant: the table is only cleaned up when the audio was made.
LocksAfterSuccess(r, answered) ==
  IF answered THEN [locks EXCEPT ![key[r]] = None] ELSE locks

\* The finally drops the key's lock, whichever lock that is by now.
LocksAfter(r, answered) == [locks EXCEPT ![key[r]] = None]

\* The request leaves: `async with` releases its lock, the finally forgets it.
Leave(r, step) ==
  /\ Goto(r, step)
  /\ queue' = QueueWithout(r)
  /\ locks' = LocksAfter(r, step = "answered")
  /\ UNCHANGED <<key, lock>>

\* Answered from the cache.
Hit(r, k) ==
  /\ pc[r] = "idle" /\ Cached(k)
  /\ key' = [key EXCEPT ![r] = k]
  /\ cache' = MovedToEnd(k)
  /\ Goto(r, "answered")
  /\ UNCHANGED <<lock, locks, queue>>

\* A free lock is taken at once and the cache, unchanged, read again.
Miss(r, k) ==
  LET l == IF locks[k] = None THEN r ELSE locks[k]
  IN  /\ pc[r] = "idle" /\ ~Cached(k)
      /\ key' = [key EXCEPT ![r] = k]
      /\ lock' = [lock EXCEPT ![r] = l]
      /\ locks' = [locks EXCEPT ![k] = l]
      /\ queue' = [queue EXCEPT ![l] = Append(@, r)]
      /\ Goto(r, IF queue[l] = <<>> THEN "synthesizing" ELSE "waiting")
      /\ UNCHANGED cache

MyTurn(r) == pc[r] = "waiting" /\ Head(queue[lock[r]]) = r

\* The lock has been handed over; the cache may have the audio by now.
WakeToHit(r) ==
  /\ MyTurn(r) /\ Cached(key[r])
  /\ cache' = MovedToEnd(key[r])
  /\ Leave(r, "answered")

WakeToMiss(r) ==
  /\ MyTurn(r) /\ ~Cached(key[r])
  /\ Goto(r, "synthesizing")
  /\ UNCHANGED <<key, lock, cache, locks, queue>>

Synthesized(r) ==
  /\ pc[r] = "synthesizing"
  /\ cache' = Stored(key[r])
  /\ Leave(r, "answered")

\* The synthesizer raises or times out, or the request is cancelled.
SynthesisFails(r) ==
  /\ pc[r] = "synthesizing"
  /\ Leave(r, "failed")
  /\ UNCHANGED cache

\* The client goes away while its request waits for the lock.
CancelWaiting(r) ==
  /\ pc[r] = "waiting"
  /\ Leave(r, "failed")
  /\ UNCHANGED cache

Progress(r) ==
  WakeToHit(r) \/ WakeToMiss(r) \/ Synthesized(r) \/ SynthesisFails(r)

Next ==
  \E r \in Requests :
    \/ \E k \in Keys : Hit(r, k) \/ Miss(r, k)
    \/ Progress(r)
    \/ CancelWaiting(r)

\* A synthesis ends, with audio or with its deadline, and a woken task runs.
Fairness == \A r \in Requests : WF_vars(Progress(r))

Spec == Init /\ [][Next]_vars /\ Fairness
-------------------------------------------------------------------------------
\* Type correctness; the cache keeps its bound and has every key once.
TTSTypeOK ==
  /\ pc \in [Requests -> RequestStep]
  /\ key \in [Requests -> Keys \cup {None}]
  /\ lock \in [Requests -> Requests \cup {None}]
  /\ cache \in Seq(Keys) /\ IsInjective(cache) /\ Len(cache) <= MaxEntries
  /\ locks \in [Keys -> Requests \cup {None}]
  /\ queue \in [Requests -> Seq(Requests)] /\ \A r \in Requests : IsInjective(queue[r])

\* The table of locks does not grow with the messages ever spoken: an entry is
\* there only while the request that made it is, whatever order the requests
\* of its key end in and however they end.
LocksAreTransient ==
  \A k \in Keys : locks[k] # None => InFlight(locks[k]) /\ key[locks[k]] = k

\* Every request that waits is answered or fails; in particular one that fails
\* or is cancelled passes its lock on.
EveryRequestEnds ==
  \A r \in Requests : pc[r] = "waiting" ~> pc[r] \in {"answered", "failed"}

\* Concurrent requests for one message are deduplicated: it is synthesized for
\* one of them at a time.
OneSynthesisPerKey ==
  \A r, s \in Requests :
    r # s /\ pc[r] = "synthesizing" /\ pc[s] = "synthesizing" => key[r] # key[s]
===============================================================================
