--------------------------- MODULE QuicksilverProofs ---------------------------
(***************************************************************************)
(* Theorems about client delegation, for any number of turns, delegations  *)
(* and texts and any bounds of the service's memory.                       *)
(*                                                                         *)
(* The ids of requests are used once: a turn's own id is taken when the    *)
(* turn ends, and one of the provider's when its delegation is handled, so *)
(* what has an id, is deferred under it or bound to it is told apart by    *)
(* what became of the id.  On this rests that no two turns share a request *)
(* and, as long as no write outlasts the next answer, that the service     *)
(* keeps the promises of DelegationLedger.                                 *)
(***************************************************************************)
EXTENDS QuicksilverTurns, SequenceTheorems, FiniteSetTheorems, WellFoundedInduction,
        TLAPS

States == {"connecting", "listening", "thinking", "speaking", "failed"}

\* The session as it is shown, and what the client owes the provider.
SessionOK ==
  /\ state \in States /\ speaking \in BOOLEAN /\ closed \in BOOLEAN
  /\ in_turn \in BOOLEAN /\ finalizing \in BOOLEAN
  /\ turn \in 0..MaxTurn /\ delegations \in 0..MaxDelegation /\ said \in [Turns -> Text]
  /\ in_turn \/ finalizing => turn \in Turns
  /\ state = "speaking" => speaking \/ closed
  /\ state = "failed" => closed
  /\ finalizing => state # "connecting"
  /\ PendingBlocksSwitch

\* An id has a fate from the moment it is used, and is used once.
IdsOK ==
  /\ fate \in [Ids -> Ledger!Fate]
  /\ pending = {id \in Ids : fate[id] = "requested"}
  /\ \A t \in Turns : fate[SyntheticId(t)] # "none" =>
       t <= turn /\ (t = turn => ~in_turn /\ ~finalizing)
  /\ \A d \in Delegations : fate[ProviderId(d)] # "none" => d <= delegations

\* What is bound to a turn, or is to be bound to the next, is bound to no other.
BoundOK ==
  /\ active_delegation \in Ids \cup {None} /\ bound \in [Turns -> Ids \cup {None}]
  /\ TurnsDoNotShareRequests
  /\ active_delegation # None =>
       /\ fate[active_delegation] # "none"
       /\ \A t \in Turns : bound[t] # active_delegation

\* A delegation that waits for the end of its turn has not been handled, and waits
\* in one place.
Fresh(n) == n \in Delegations /\ n <= delegations /\ fate[ProviderId(n)] = "none"

DeferredOK ==
  /\ deferred \in Seq(Deferred) /\ Len(deferred) <= MaxDeferred
  /\ \A i \in 1..Len(deferred) : Fresh(deferred[i].n)
  /\ \A i, j \in 1..Len(deferred) : deferred[i].n = deferred[j].n => i = j

TodoOK ==
  /\ todo \in Seq([own : BOOLEAN, of : Deferred])
  /\ todo # <<>> => finalizing
  /\ finalizing => deferred = <<>>
  /\ \A i \in 1..Len(todo) : Fresh(todo[i].of.n)
  /\ \A i, j \in 1..Len(todo) : todo[i].of.n = todo[j].of.n => i = j

\* The answer that comes next will take the output when it begins, or silence between
\* two outputs has taken it for the answer.
ComesNext(o, sp) == o.owner # None /\ (o.awaiting \/ (o.authorized /\ sp = "none"))

Speech == {"none", "ack", "direct", "answer", "late"}
Due == {"no", "next", "overtaken"}

OutputOK ==
  /\ out \in Output /\ due \in Due /\ speech \in Speech
  /\ out.awaiting => out.owner # None /\ ~out.authorized
  /\ due = "next" => ComesNext(out, speech)
  /\ AnswerIsHeard

\* One record to a turn, made when the turn's id was taken, and answered when the
\* client no longer owes the answer.
Settled(syn, f) == \A r \in syn : f[SyntheticId(r.turn)] = "requested" <=> ~r.answered

RecordsOK ==
  /\ synthetic \subseteq Synthetic /\ writes \subseteq Write
  /\ \A r, q \in synthetic : r.turn = q.turn => r = q
  /\ \A r \in synthetic : fate[SyntheticId(r.turn)] # "none"
  /\ Settled(synthetic, fate)

\* The records of spoken answers are pruned before the next answer is spoken,
\* unless the reader of the provider's events is gone.
Spoken(syn) == {r \in syn : r.spoken}

PruningOK ==
  /\ IsFiniteSet(synthetic)
  /\ Cardinality(Spoken(synthetic)) <= MaxTombstones + 1
  /\ \/ Cardinality(Spoken(synthetic)) <= MaxTombstones
     \/ reader \notin {"none", "reading"}
     \/ \E w \in writes : w.by = "events" /\ w.prunes

\* The reader of the sideband starts once, when open() is through.
ReaderOK ==
  opening \in {"idle", "credentials", "signaling", "peer", "sideband"} => reader = "none"

TurnsInv ==
  /\ TransportTypeOK /\ ReaderOK /\ SessionOK /\ IdsOK /\ BoundOK /\ DeferredOK /\ TodoOK
  /\ OutputOK /\ RecordsOK /\ PruningOK

\* Where no write outlasts the next answer: the answer that is armed owns the output,
\* and an answer that was not sent is on its way or free to be sent.
Carries(w, r) == w.kind = "speech" /\ w.id = SyntheticId(r.turn)

Accounted(r, f, ws) ==
  /\ r.answered => r.resolved
  /\ r.sent => f[SyntheticId(r.turn)] \in {"armed", "done"}
  /\ r.answered /\ ~r.sent =>
       \/ f[SyntheticId(r.turn)] = "answered"
       \/ f[SyntheticId(r.turn)] = "armed" /\ \E w \in ws : Carries(w, r)
  /\ (\E w \in ws : Carries(w, r)) =>
       r.answered /\ ~r.sent /\ f[SyntheticId(r.turn)] = "armed"

Accounts(syn, f, o, ws) ==
  /\ \A w, v \in ws : w = v
  /\ {id \in Ids : f[id] = "armed"} = {o.owner} \ {None}
  /\ \A w \in ws : f[w.id] # "none" /\ (w.kind = "speech" => o.owner \in {None, w.id})
  /\ \A r \in syn : Accounted(r, f, ws)

LedgerInv == Accounts(synthetic, fate, out, writes)
-------------------------------------------------------------------------------
(* Ids, records and the memory of spoken answers.                           *)

\* The id of a turn is no other turn's and no delegation's.
LEMMA IdFacts ==
  /\ \A t \in Turns : SyntheticId(t) \in Ids
  /\ \A d \in Delegations : ProviderId(d) \in Ids
  /\ \A id \in Ids : \/ \E t \in Turns : id = SyntheticId(t)
                     \/ \E d \in Delegations : id = ProviderId(d)
  /\ \A t, u : SyntheticId(t) = SyntheticId(u) => t = u
  /\ \A d, e : ProviderId(d) = ProviderId(e) => d = e
  /\ \A t, d : SyntheticId(t) # ProviderId(d)
  /\ None \notin Ids
BY NoneIsNoId DEF Ids, SyntheticId, ProviderId

\* The bounds are naturals.
LEMMA BoundFacts ==
  /\ MaxTurn \in Nat /\ MaxDelegation \in Nat /\ MaxDeferred \in Nat /\ MaxTombstones \in Nat
  /\ Turns \subseteq Nat /\ NoText \notin Texts
BY TurnsAssumption DEF Turns

\* A set of numbers has a least one.
LEMMA LeastExists ==
  ASSUME NEW S \in SUBSET Nat, S # {}
  PROVE  \E m \in S : \A n \in S : m <= n
<1>1. PICK k \in S : TRUE
  OBVIOUS
<1>. DEFINE T == {0..m : m \in {n \in S : n <= k}}
<1>2. IsFiniteSet(0..k) /\ T \subseteq SUBSET (0..k) /\ T # {}
  <2>1. IsFiniteSet(0..k)
    BY FS_Interval
  <2>2. k \in {n \in S : n <= k}
    OBVIOUS
  <2>. QED BY <2>1, <2>2
<1>3. PICK x \in T : \A y \in T : ~(<<y, x>> \in StrictSubsetOrdering(0..k))
  <2>. HIDE DEF T
  <2>1. IsWellFoundedOn(StrictSubsetOrdering(0..k), SUBSET (0..k))
    BY <1>2, FS_StrictSubsetOrderingWellFounded, FS_FiniteSubsetsOfFinite
  <2>. QED BY <1>2, <2>1, WFMin
<1>4. PICK m \in S : m <= k /\ x = 0..m
  OBVIOUS
<1>5. ASSUME NEW n \in S, n < m PROVE FALSE
  <2>1. 0..n \in T /\ 0..n \subseteq 0..m
    BY <1>4, <1>5
  <2>2. m \in 0..m /\ m \notin 0..n
    BY <1>5
  <2>3. <<0..n, 0..m>> \in StrictSubsetOrdering(0..k)
    <3>1. 0..n \in SUBSET (0..k) /\ 0..m \in SUBSET (0..k)
      BY <1>4, <1>5
    <3>2. 0..n # 0..m
      BY <2>2
    <3>. QED BY <2>1, <3>1, <3>2 DEF StrictSubsetOrdering
  <2>. QED BY <1>3, <1>4, <2>1, <2>3
<1>. QED BY <1>5

\* Of a set of records there is an oldest one.
LEMMA FirstFacts ==
  ASSUME NEW syn \in SUBSET Synthetic, syn # {}
  PROVE  First(syn) \in syn /\ \A q \in syn : First(syn).turn <= q.turn
<1>1. PICK m \in {r.turn : r \in syn} : \A n \in {r.turn : r \in syn} : m <= n
  <2>1. {r.turn : r \in syn} \in SUBSET Nat /\ {r.turn : r \in syn} # {}
    BY BoundFacts DEF Synthetic
  <2>. QED BY <2>1, LeastExists
<1>2. \E r \in syn : \A q \in syn : r.turn <= q.turn
  BY <1>1
<1>. QED BY <1>2 DEF First

\* Pruning takes records away, and adds none.
LEMMA PrunedIsSubset ==
  ASSUME NEW syn, NEW s \in Pruned(syn)
  PROVE  s \subseteq syn
BY DEF Pruned

\* Of the spoken records only the newest stay.
LEMMA PrunedCount ==
  ASSUME NEW syn \in SUBSET Synthetic, IsFiniteSet(syn), NEW s \in Pruned(syn),
         \A r, q \in syn : r.turn = q.turn => r = q
  PROVE  IsFiniteSet(s) /\ Cardinality(Spoken(s)) <= MaxTombstones
<1>1. PICK fresh \in SUBSET Spoken(syn) :
        s = (syn \ Spoken(syn))
            \cup {r \in fresh : Cardinality({q \in fresh : q.turn > r.turn}) < MaxTombstones}
  BY DEF Pruned, Spoken
<1>. DEFINE Newer(r) == {q \in fresh : q.turn > r.turn}
            kept == {r \in fresh : Cardinality(Newer(r)) < MaxTombstones}
<1>2. Spoken(s) = kept /\ s \subseteq syn
  BY <1>1 DEF Spoken
<1>3. IsFiniteSet(fresh) /\ IsFiniteSet(s) /\ IsFiniteSet(kept)
  <2>1. fresh \in SUBSET syn /\ s \in SUBSET syn /\ kept \in SUBSET syn
    BY <1>2 DEF Spoken
  <2>. HIDE DEF kept
  <2>. QED BY <2>1, FS_Subset
<1>4. CASE kept = {}
  <2>1. Spoken(s) = {}
    BY <1>2, <1>4
  <2>2. Cardinality(Spoken(s)) = 0
    BY <2>1, FS_EmptySet
  <2>. QED BY <1>3, <2>2, BoundFacts
<1>5. CASE kept # {}
  <2>1. kept \in SUBSET Synthetic
    BY DEF Spoken
  <2>2. PICK r \in kept : \A q \in kept : r.turn <= q.turn
    BY <1>5, <2>1, FirstFacts
  <2>3. kept \ {r} \subseteq Newer(r)
    <3>. SUFFICES ASSUME NEW q \in kept, q # r PROVE q.turn > r.turn
      OBVIOUS
    <3>1. q \in syn /\ r \in syn /\ q.turn \in Nat /\ r.turn \in Nat
      BY <2>1, BoundFacts DEF Spoken, Synthetic
    <3>2. q.turn # r.turn
      BY <3>1
    <3>. QED BY <2>2, <3>1, <3>2
  <2>4. IsFiniteSet(Newer(r)) /\ Cardinality(Newer(r)) \in Nat
    <3>1. Newer(r) \in SUBSET fresh
      OBVIOUS
    <3>. QED BY <1>3, <3>1, FS_Subset, FS_CardinalityType
  <2>5. Cardinality(kept \ {r}) <= Cardinality(Newer(r))
    BY <2>3, <2>4, FS_Subset
  <2>6. Cardinality(kept \ {r}) = Cardinality(kept) - 1 /\ Cardinality(kept) \in Nat
    BY <1>3, FS_RemoveElement, FS_CardinalityType
  <2>7. Cardinality(Newer(r)) < MaxTombstones
    OBVIOUS
  <2>. HIDE DEF kept, Newer
  <2>. QED BY <1>2, <1>3, <2>4, <2>5, <2>6, <2>7, BoundFacts
<1>. QED BY <1>4, <1>5
-------------------------------------------------------------------------------
(* What a step leaves alone.                                                *)

\* The reader starts once.
ReaderSteps ==
  /\ TransportTypeOK' /\ ReaderOK'
  /\ reader' = reader \/ (reader' # "none" /\ (reader' = "reading" => reader = "none"))

\* Whatever happens to the connection.
LEMMA TransportMoves ==
  ASSUME TransportTypeOK, ReaderOK,
         \/ OpenBegins \/ CredentialsLoaded \/ DescriptionsSet \/ PeerConnects
         \/ SidebandConnects \/ OpenFails \/ OpenRaises
         \/ CloseProgress \/ LinkLost \/ ReaderEnds \/ TrackEnds \/ PeerLost \/ HandlerRaises
         \/ CallsClose /\ UNCHANGED <<opening, parts, link, reader, rtp, reported>>
         \/ /\ reader = "reading" /\ reader' = "waiting"
            /\ UNCHANGED <<opening, closing, parts, connected, link, rtp, reported>>
         \/ UNCHANGED transport_vars
  PROVE  ReaderSteps
<1>1. CASE \/ OpenBegins \/ CredentialsLoaded \/ DescriptionsSet \/ PeerConnects
           \/ SidebandConnects
  BY <1>1 DEF OpenBegins, CredentialsLoaded, DescriptionsSet, PeerConnects, SidebandConnects,
     ReaderSteps, TransportTypeOK, ReaderOK, InProgress, Part, TaskStep
<1>2. CASE OpenFails \/ OpenRaises \/ LinkLost \/ HandlerRaises
  BY <1>2 DEF OpenFails, OpenRaises, LinkLost, HandlerRaises, CallsClose, Closed,
     ReaderSteps, TransportTypeOK, ReaderOK, InProgress, TaskStep
<1>3. CASE ReaderEnds \/ TrackEnds \/ PeerLost
  BY <1>3 DEF ReaderEnds, TrackEnds, PeerLost, AfterReport, Reports,
     ReaderSteps, TransportTypeOK, ReaderOK, InProgress, TaskStep
<1>4. CASE CloseProgress
  <2>1. CASE SidebandCloses
    BY <2>1 DEF SidebandCloses, ReaderSteps, TransportTypeOK, ReaderOK, InProgress
  <2>2. CASE ReaderCloses
    BY <2>2 DEF ReaderCloses, ReaderCancelled, ReaderSteps, TransportTypeOK, ReaderOK,
       InProgress, TaskStep
  <2>3. CASE TracksClose
    BY <2>3 DEF TracksClose, ReaderSteps, TransportTypeOK, ReaderOK, InProgress, TaskStep
  <2>4. CASE PeerCloses \/ HttpCloses
    BY <2>4 DEF PeerCloses, HttpCloses, ReaderSteps, TransportTypeOK, ReaderOK, InProgress
  <2>. QED BY <1>4, <2>1, <2>2, <2>3, <2>4 DEF CloseProgress
<1>5. CASE CallsClose /\ UNCHANGED <<opening, parts, link, reader, rtp, reported>>
  BY <1>5 DEF CallsClose, Closed, ReaderSteps, TransportTypeOK, ReaderOK, InProgress
<1>6. CASE /\ reader = "reading" /\ reader' = "waiting"
           /\ UNCHANGED <<opening, closing, parts, connected, link, rtp, reported>>
  BY <1>6 DEF ReaderSteps, TransportTypeOK, ReaderOK, InProgress, TaskStep
<1>7. CASE UNCHANGED transport_vars
  BY <1>7 DEF transport_vars, ReaderSteps, TransportTypeOK, ReaderOK
<1>. QED BY <1>1, <1>2, <1>3, <1>4, <1>5, <1>6, <1>7

\* No id is used or freed; what is pending changes with what became of the ids.
FateMoves ==
  /\ fate' \in [Ids -> Ledger!Fate]
  /\ pending' = {id \in Ids : fate'[id] = "requested"}
  /\ \A id \in Ids : fate'[id] = "none" <=> fate[id] = "none"

\* The handler of a turn goes on, or is given up.
HandlerSteps ==
  \/ UNCHANGED <<finalizing, todo>>
  \/ finalizing' = FALSE /\ todo' = <<>>

\* A step that leaves the turn's variables alone keeps the facts about ids.
LEMMA IdsKept ==
  ASSUME TurnsInv, FateMoves, HandlerSteps,
         UNCHANGED <<turn, in_turn, deferred, active_delegation, bound, provider_vars>>
  PROVE  IdsOK' /\ BoundOK' /\ DeferredOK' /\ TodoOK'
<1>. USE DEF provider_vars
<1>1. IdsOK'
  BY IdFacts DEF TurnsInv, IdsOK, FateMoves, HandlerSteps
<1>2. BoundOK'
  <2>1. \A id \in Ids : fate[id] # "none" => fate'[id] # "none"
    BY DEF FateMoves
  <2>. QED BY <2>1 DEF TurnsInv, BoundOK, TurnsDoNotShareRequests
<1>3. \A n : Fresh(n) => Fresh(n)'
  BY IdFacts DEF Fresh, FateMoves
<1>4. DeferredOK'
  BY <1>3 DEF TurnsInv, DeferredOK
<1>5. TodoOK'
  <2>1. CASE UNCHANGED <<finalizing, todo>>
    BY <1>3, <2>1 DEF TurnsInv, TodoOK
  <2>2. CASE finalizing' = FALSE /\ todo' = <<>>
    BY <2>2, EmptySeq DEF TodoOK
  <2>. QED BY <2>1, <2>2 DEF HandlerSteps
<1>. QED BY <1>1, <1>2, <1>4, <1>5

\* A set of records of some of the turns of another; and one with no more of them
\* spoken.
Unique(syn) == \A r, q \in syn : r.turn = q.turn => r = q

Relabels(new, old) ==
  /\ new \in SUBSET Synthetic /\ IsFiniteSet(new) /\ Unique(new)
  /\ \A r \in new : \E q \in old : q.turn = r.turn

NoMoreSpoken(new, old) == Cardinality(Spoken(new)) <= Cardinality(Spoken(old))

Records(syn) == syn \in SUBSET Synthetic /\ IsFiniteSet(syn) /\ Unique(syn)

\* Of finitely many records, finitely many were spoken.
LEMMA SpokenFacts ==
  ASSUME NEW syn, IsFiniteSet(syn)
  PROVE  IsFiniteSet(Spoken(syn)) /\ Cardinality(Spoken(syn)) \in Nat
<1>1. Spoken(syn) \in SUBSET syn
  BY DEF Spoken
<1>. QED BY <1>1, FS_Subset, FS_CardinalityType

\* Dropping records relabels them.
LEMMA SubsetRelabels ==
  ASSUME NEW syn, Records(syn), NEW s, s \subseteq syn
  PROVE  Relabels(s, syn) /\ NoMoreSpoken(s, syn)
<1>1. IsFiniteSet(s)
  BY FS_Subset DEF Records
<1>2. Spoken(s) \in SUBSET Spoken(syn) /\ IsFiniteSet(Spoken(syn))
  BY SpokenFacts DEF Records, Spoken
<1>3. Cardinality(Spoken(s)) <= Cardinality(Spoken(syn))
  BY <1>2, FS_Subset
<1>. QED BY <1>1, <1>3 DEF Records, Relabels, Unique, NoMoreSpoken

\* A record is replaced by one of the same turn that is as spoken as it was.
LEMMA UpdatedRelabels ==
  ASSUME NEW syn, Records(syn), NEW r \in syn, NEW new \in Synthetic,
         new.turn = r.turn, new.spoken = r.spoken
  PROVE  Relabels(Updated(syn, r, new), syn) /\ NoMoreSpoken(Updated(syn, r, new), syn)
<1>1. IsFiniteSet(syn \ {r}) /\ IsFiniteSet(Updated(syn, r, new))
  BY FS_RemoveElement, FS_AddElement DEF Records, Updated
<1>2. Unique(Updated(syn, r, new)) /\ Updated(syn, r, new) \in SUBSET Synthetic
  BY DEF Records, Unique, Updated
<1>3. Cardinality(Spoken(Updated(syn, r, new))) <= Cardinality(Spoken(syn))
  <2>1. IsFiniteSet(Spoken(syn)) /\ Cardinality(Spoken(syn)) \in Nat
    BY SpokenFacts DEF Records
  <2>2. CASE ~r.spoken
    <3>1. Spoken(Updated(syn, r, new)) \in SUBSET Spoken(syn)
      BY <2>2 DEF Spoken, Updated
    <3>. QED BY <2>1, <3>1, FS_Subset
  <2>3. CASE r.spoken
    <3>1. Spoken(Updated(syn, r, new)) = (Spoken(syn) \ {r}) \cup {new} /\ r \in Spoken(syn)
      BY <2>3 DEF Spoken, Updated
    <3>2. /\ IsFiniteSet(Spoken(syn) \ {r})
          /\ Cardinality(Spoken(syn) \ {r}) = Cardinality(Spoken(syn)) - 1
      BY <2>1, <3>1, FS_RemoveElement
    <3>3. Cardinality((Spoken(syn) \ {r}) \cup {new}) \in
            {Cardinality(Spoken(syn)) - 1, Cardinality(Spoken(syn)) - 1 + 1}
      BY <3>2, FS_AddElement
    <3>. QED BY <2>1, <3>1, <3>3
  <2>. QED BY <2>2, <2>3
<1>4. \A q \in Updated(syn, r, new) : \E p \in syn : p.turn = q.turn
  BY DEF Updated
<1>. QED BY <1>1, <1>2, <1>3, <1>4 DEF Relabels, NoMoreSpoken

\* Two relabellings in a row are one.
LEMMA RelabelsTwice ==
  ASSUME NEW a, IsFiniteSet(a), NEW b, NEW c, Relabels(b, a), Relabels(c, b)
  PROVE  /\ Relabels(c, a)
         /\ NoMoreSpoken(b, a) /\ NoMoreSpoken(c, b) => NoMoreSpoken(c, a)
<1>1. /\ Cardinality(Spoken(a)) \in Nat /\ Cardinality(Spoken(b)) \in Nat
      /\ Cardinality(Spoken(c)) \in Nat
  BY SpokenFacts DEF Relabels
<1>. QED BY <1>1 DEF Relabels, NoMoreSpoken

\* The records that the service keeps are such a set.
LEMMA RecordsKept ==
  ASSUME TurnsInv, ReaderSteps, Relabels(synthetic', synthetic), writes' \subseteq Write,
         \A id \in Ids : fate[id] # "none" => fate'[id] # "none", Settled(synthetic', fate'),
         \/ /\ NoMoreSpoken(synthetic', synthetic)
            /\ \/ Cardinality(Spoken(synthetic')) <= MaxTombstones
               \/ \A w \in writes : w.by = "events" /\ w.prunes => w \in writes'
               \/ reader' \notin {"reading", "none"}
         \/ /\ Cardinality(Spoken(synthetic')) <= MaxTombstones + 1
            /\ \/ Cardinality(Spoken(synthetic')) <= MaxTombstones
               \/ \E w \in writes' : w.by = "events" /\ w.prunes
  PROVE  RecordsOK' /\ PruningOK'
<1>1. RecordsOK'
  <2>1. \A r \in synthetic' : fate'[SyntheticId(r.turn)] # "none"
    <3>. SUFFICES ASSUME NEW r \in synthetic' PROVE fate'[SyntheticId(r.turn)] # "none"
      OBVIOUS
    <3>1. PICK q \in synthetic : q.turn = r.turn
      BY DEF Relabels
    <3>2. fate[SyntheticId(r.turn)] # "none" /\ r.turn \in Turns
      BY <3>1 DEF TurnsInv, RecordsOK, Synthetic
    <3>. QED BY <3>2, IdFacts
  <2>. QED BY <2>1 DEF Relabels, Unique, RecordsOK, Settled
<1>2. PruningOK'
  <2>1. IsFiniteSet(synthetic) /\ IsFiniteSet(synthetic')
    BY DEF TurnsInv, PruningOK, Relabels
  <2>2. Cardinality(Spoken(synthetic)) \in Nat /\ Cardinality(Spoken(synthetic')) \in Nat
    BY <2>1, SpokenFacts
  <2>4. CASE /\ Cardinality(Spoken(synthetic')) <= MaxTombstones + 1
             /\ \/ Cardinality(Spoken(synthetic')) <= MaxTombstones
                \/ \E w \in writes' : w.by = "events" /\ w.prunes
    BY <2>1, <2>4 DEF PruningOK, Spoken
  <2>5. CASE /\ NoMoreSpoken(synthetic', synthetic)
             /\ \/ Cardinality(Spoken(synthetic')) <= MaxTombstones
                \/ \A w \in writes : w.by = "events" /\ w.prunes => w \in writes'
                \/ reader' \notin {"reading", "none"}
    <3>1. Cardinality(Spoken(synthetic')) <= MaxTombstones + 1
      BY <2>2, <2>5, BoundFacts DEF TurnsInv, PruningOK, NoMoreSpoken
    <3>2. \/ Cardinality(Spoken(synthetic')) <= MaxTombstones
          \/ reader' \notin {"none", "reading"}
          \/ \E w \in writes' : w.by = "events" /\ w.prunes
      <4>1. CASE Cardinality(Spoken(synthetic)) <= MaxTombstones
        BY <2>2, <2>5, <4>1, BoundFacts DEF NoMoreSpoken
      <4>2. CASE reader \notin {"none", "reading"}
        BY <4>2 DEF ReaderSteps
      <4>3. CASE \E w \in writes : w.by = "events" /\ w.prunes
        BY <2>5, <4>3
      <4>. QED BY <4>1, <4>2, <4>3 DEF TurnsInv, PruningOK
    <3>. QED BY <2>1, <3>1, <3>2 DEF PruningOK, Spoken
  <2>. QED BY <2>4, <2>5
<1>. QED BY <1>1, <1>2

\* Nothing of the service changes.
LEMMA QuietKeeps ==
  ASSUME TurnsInv, ReaderSteps, UNCHANGED service_vars
  PROVE  TurnsInv'
<1>. USE DEF service_vars, session_vars, turn_vars, delegation_vars, output_vars,
             provider_vars
<1>1. SessionOK' /\ OutputOK'
  BY DEF TurnsInv, SessionOK, PendingBlocksSwitch, OutputOK, AnswerIsHeard
<1>2. IdsOK' /\ BoundOK' /\ DeferredOK' /\ TodoOK'
  BY IdsKept DEF FateMoves, HandlerSteps, TurnsInv, IdsOK
<1>3. Relabels(synthetic', synthetic) /\ NoMoreSpoken(synthetic', synthetic)
  BY SubsetRelabels DEF TurnsInv, RecordsOK, PruningOK, Records, Unique
<1>4. RecordsOK' /\ PruningOK'
  BY <1>3, RecordsKept DEF TurnsInv, RecordsOK
<1>. QED BY <1>1, <1>2, <1>4 DEF TurnsInv, ReaderSteps

\* What was pending is dropped: the session ends, or was interrupted.
LEMMA ClearKeeps ==
  ASSUME TurnsInv, ReaderSteps, Clear, speaking' = FALSE,
         \/ /\ closed' = TRUE /\ state' \in {state, "failed"} /\ speech' = "none"
            /\ bound' = [t \in Turns |-> None]
         \/ /\ state # "connecting" /\ state' = "listening" /\ speech' = CutOff(speech)
            /\ UNCHANGED <<closed, bound>>
  PROVE  TurnsInv'
<1>1. /\ pending' = {} /\ synthetic' = {} /\ deferred' = <<>> /\ active_delegation' = None
      /\ in_turn' = FALSE /\ out' = Silent /\ due' = "no"
      /\ fate' = [id \in Ids |-> IF fate[id] \in {"requested", "answered", "armed"}
                                 THEN "dropped" ELSE fate[id]]
      /\ UNCHANGED <<turn, writes, finalizing, todo, said, delegations>>
  BY DEF Clear, SyntheticCleared, provider_vars
<1>2. SessionOK'
  BY <1>1 DEF TurnsInv, SessionOK, States, PendingBlocksSwitch
<1>3. /\ fate' \in [Ids -> Ledger!Fate]
      /\ \A id \in Ids : fate'[id] = "none" <=> fate[id] = "none"
      /\ \A id \in Ids : fate'[id] # "requested"
  BY <1>1 DEF TurnsInv, IdsOK, Ledger!Fate
<1>4. IdsOK'
  BY <1>1, <1>3, IdFacts DEF TurnsInv, IdsOK
<1>5. BoundOK'
  BY <1>1, <1>3 DEF TurnsInv, BoundOK, TurnsDoNotShareRequests
<1>6. DeferredOK'
  <2>1. deferred' \in Seq(Deferred) /\ Len(deferred') = 0
    BY <1>1, EmptySeq
  <2>. QED BY <2>1, BoundFacts DEF DeferredOK
<1>7. TodoOK'
  <2>1. \A n : Fresh(n) => Fresh(n)'
    BY <1>1, <1>3, IdFacts DEF Fresh
  <2>. QED BY <1>1, <2>1 DEF TurnsInv, TodoOK
<1>8. OutputOK'
  BY <1>1, IdFacts DEF TurnsInv, OutputOK, AnswerIsHeard, Silent, Output, CutOff, Speech, Due
<1>9. RecordsOK'
  BY <1>1 DEF TurnsInv, RecordsOK, Settled
<1>10. PruningOK'
  <2>1. IsFiniteSet(synthetic') /\ Spoken(synthetic') = {} /\ Cardinality(Spoken(synthetic')) = 0
    BY <1>1, FS_EmptySet DEF Spoken
  <2>. QED BY <1>1, <2>1, BoundFacts DEF PruningOK, Spoken
<1>. QED BY <1>2, <1>4, <1>5, <1>6, <1>7, <1>8, <1>9, <1>10 DEF TurnsInv, ReaderSteps

\* A handler is given up with its write.
LEMMA RaisedKeeps ==
  ASSUME TurnsInv, ReaderSteps, NEW w \in writes, Raised(w),
         w.by = "events" => reader' \notin {"reading", "none"}
  PROVE  TurnsInv'
<1>1. w \in Write /\ w.id \in Ids
  BY DEF TurnsInv, RecordsOK, Write
<1>2. /\ writes' = writes \ {w}
      /\ UNCHANGED <<session_vars, turn, in_turn, deferred, active_delegation, bound,
                     delegation_vars, provider_vars>>
      /\ HandlerSteps
  BY DEF Raised, HandlerSteps
<1>3. FateMoves
  <2>1. fate' = fate \/ fate' = FateFailed(w.id)
    BY DEF Raised
  <2>. QED BY <1>1, <1>2, <2>1
       DEF FateMoves, FateFailed, TurnsInv, IdsOK, Ledger!Fate, delegation_vars
<1>4. SessionOK'
  <2>. USE DEF TurnsInv, SessionOK, PendingBlocksSwitch, session_vars, delegation_vars,
               provider_vars
  <2>1. CASE UNCHANGED finalizing
    BY <1>2, <2>1
  <2>2. CASE finalizing' = FALSE
    BY <1>2, <2>2
  <2>. QED BY <1>2, <2>1, <2>2 DEF HandlerSteps
<1>5. IdsOK' /\ BoundOK' /\ DeferredOK' /\ TodoOK'
  BY <1>2, <1>3, IdsKept
<1>6. OutputOK'
  BY DEF Raised, GivenUp, CutOff, TurnsInv, OutputOK, ComesNext, AnswerIsHeard, Output, Speech,
         Due
<1>7. Relabels(synthetic', synthetic) /\ NoMoreSpoken(synthetic', synthetic)
  BY <1>2, SubsetRelabels
  DEF TurnsInv, RecordsOK, PruningOK, Records, Unique, delegation_vars
<1>8. Settled(synthetic', fate')
  <2>1. \A id \in Ids : fate'[id] = "requested" <=> fate[id] = "requested"
    BY <1>2, <1>3 DEF FateMoves, TurnsInv, IdsOK, delegation_vars
  <2>2. \A r \in synthetic : SyntheticId(r.turn) \in Ids
    BY IdFacts DEF TurnsInv, RecordsOK, Synthetic
  <2>. QED BY <1>2, <2>1, <2>2 DEF TurnsInv, RecordsOK, Settled, delegation_vars
<1>9. RecordsOK' /\ PruningOK'
  BY <1>2, <1>3, <1>7, <1>8, RecordsKept DEF FateMoves, TurnsInv, RecordsOK
<1>. QED BY <1>4, <1>5, <1>6, <1>9 DEF TurnsInv, ReaderSteps
-------------------------------------------------------------------------------
(* Giving an answer to the provider.                                        *)

\* OutputOK, of the values an action passes on.
OutputIs(o, sp, d) ==
  /\ o \in Output /\ d \in Due /\ sp \in Speech
  /\ o.awaiting => o.owner # None /\ ~o.authorized
  /\ d = "next" => ComesNext(o, sp)
  /\ sp = "answer" => o.authorized

\* An answer that is sent has the output, and a commentary changes nothing of it.
LEMMA SendsOutput ==
  ASSUME NEW w \in Write, NEW o, NEW f, NEW sp, OutputIs(o, sp, due), Sends(w, o, f, sp)
  PROVE  OutputOK' /\ writes' = writes \cup {w}
<1>1. w.id \in Ids /\ w.id # None
  BY IdFacts DEF Write
<1>2. CASE w.kind = "speech"
  <2>1. out' = Armed(o, w.id) /\ speech' = CutOff(sp) /\ due' = "next"
    BY <1>2 DEF Sends
  <2>2. /\ out' \in Output /\ out'.owner = w.id /\ out'.awaiting /\ ~out'.authorized
    BY <1>1, <2>1 DEF Armed, Output, OutputIs
  <2>3. speech' \in {"none", "ack", "direct"}
    BY <2>1 DEF CutOff, OutputIs, Speech
  <2>. QED BY <1>1, <2>1, <2>2, <2>3 DEF OutputOK, AnswerIsHeard, ComesNext, Speech, Due, Sends
<1>3. CASE w.kind # "speech"
  BY <1>3 DEF Sends, OutputOK, AnswerIsHeard, OutputIs
<1>. QED BY <1>2, <1>3

\* What became of the ids, of the values an action passes on.
FateIs(f) ==
  /\ f \in [Ids -> Ledger!Fate]
  /\ pending' = {id \in Ids : f[id] = "requested"}
  /\ \A id \in Ids : f[id] = "none" <=> fate[id] = "none"

\* Only what was requested, and is no longer owed, is armed.
LEMMA ArmedFate ==
  ASSUME NEW f, FateIs(f), NEW id \in Ids, f[id] \notin {"none", "requested"}
  PROVE  /\ FateArmed(f, id) \in [Ids -> Ledger!Fate]
         /\ \A x \in Ids : /\ FateArmed(f, id)[x] = "none" <=> f[x] = "none"
                           /\ FateArmed(f, id)[x] = "requested" <=> f[x] = "requested"
BY DEF FateIs, FateArmed, Ledger!Fate

\* The records an action passes on.
RecordsAre(syn, f) == Relabels(syn, synthetic) /\ Settled(syn, f)

\* What every record an action passes on satisfies.
LEMMA RecordFacts ==
  ASSUME TurnsInv, NEW syn, NEW f, RecordsAre(syn, f), FateIs(f)
  PROVE  /\ Records(syn)
         /\ \A r \in syn : /\ r \in Synthetic /\ r.turn \in Turns
                           /\ SyntheticId(r.turn) \in Ids /\ f[SyntheticId(r.turn)] # "none"
<1>1. Records(syn)
  BY DEF RecordsAre, Relabels, Records
<1>2. ASSUME NEW r \in syn PROVE /\ r \in Synthetic /\ r.turn \in Turns
                                 /\ SyntheticId(r.turn) \in Ids
                                 /\ f[SyntheticId(r.turn)] # "none"
  <2>1. r \in Synthetic /\ r.turn \in Turns
    BY DEF RecordsAre, Relabels, Synthetic
  <2>2. PICK q \in synthetic : q.turn = r.turn
    BY DEF RecordsAre, Relabels
  <2>3. fate[SyntheticId(r.turn)] # "none"
    BY <2>2 DEF TurnsInv, RecordsOK
  <2>. QED BY <2>1, <2>3, IdFacts DEF FateIs
<1>. QED BY <1>1, <1>2

\* A flush sends the answer of a record that is answered, or nothing.
FlushSends(by, syn, o, f, sp, prunes, r) ==
  /\ r \in syn /\ r.answered /\ ~r.sent /\ r.resolved /\ o.owner = None
  /\ Sends([by |-> by, id |-> SyntheticId(r.turn), kind |-> "speech", prunes |-> prunes],
           o, f, sp)
  /\ synthetic' = syn

\* A flush sends one record's answer, or prunes at most.
LEMMA FlushCases ==
  ASSUME NEW by, NEW syn \in SUBSET Synthetic, NEW o, NEW f, NEW sp, NEW d, NEW prunes,
         Flush(by, syn, o, f, sp, d, prunes)
  PROVE  \/ \E r \in syn : FlushSends(by, syn, o, f, sp, prunes, r)
         \/ /\ SendsNothing(o, f, sp, d)
            /\ synthetic' \in IF prunes THEN Pruned(syn) ELSE {syn}
<1>. DEFINE ready == Flushable(syn, o)
<1>1. ready \in SUBSET {r \in syn : r.answered /\ ~r.sent}
      /\ (ready # {} => o.owner = None)
  BY DEF Flushable
<1>2. CASE ready # {} /\ First(ready).resolved
  <2>1. First(ready) \in ready
    BY <1>1, <1>2, FirstFacts
  <2>2. FlushSends(by, syn, o, f, sp, prunes, First(ready))
    BY <1>1, <1>2, <2>1 DEF Flush, FlushSends
  <2>. QED BY <1>1, <2>1, <2>2
<1>3. CASE ~(ready # {} /\ First(ready).resolved)
  BY <1>3 DEF Flush
<1>. QED BY <1>2, <1>3

\* What a flush keeps, whatever it was given.
LEMMA FlushKeeps ==
  ASSUME TurnsInv, ReaderSteps, NEW by \in {"events", "client"}, NEW syn, NEW o, NEW f, NEW sp,
         NEW d, NEW prunes \in BOOLEAN, Flush(by, syn, o, f, sp, d, prunes),
         OutputIs(o, sp, d), FateIs(f), RecordsAre(syn, f),
         \/ NoMoreSpoken(syn, synthetic)
         \/ prunes = TRUE /\ by = "events" /\ Cardinality(Spoken(syn)) <= MaxTombstones + 1
  PROVE  OutputOK' /\ FateMoves /\ RecordsOK' /\ PruningOK'
<1>1. syn \in SUBSET Synthetic
  BY DEF RecordsAre, Relabels
<1>2. \A id \in Ids : f[id] # "none" <=> fate[id] # "none"
  BY DEF FateIs
<1>3. CASE \E r \in syn : FlushSends(by, syn, o, f, sp, prunes, r)
  <2>1. PICK r \in syn : FlushSends(by, syn, o, f, sp, prunes, r)
    BY <1>3
  <2>. DEFINE w == [by |-> by, id |-> SyntheticId(r.turn), kind |-> "speech",
                    prunes |-> prunes]
  <2>2. SyntheticId(r.turn) \in Ids /\ f[SyntheticId(r.turn)] \notin {"none", "requested"}
    BY <2>1, RecordFacts DEF FlushSends, RecordsAre, Settled
  <2>3. w \in Write /\ w.kind = "speech" /\ w.id = SyntheticId(r.turn)
    BY <2>2 DEF Write
  <2>4. Sends(w, o, f, sp) /\ synthetic' = syn
    BY <2>1 DEF FlushSends
  <2>. HIDE DEF w
  <2>5. out' = Armed(o, w.id) /\ fate' = FateArmed(f, w.id) /\ speech' = CutOff(sp)
        /\ due' = "next" /\ writes' = writes \cup {w}
    BY <2>3, <2>4 DEF Sends
  <2>6. OutputOK'
    <3>1. out' \in Output /\ out'.owner = w.id /\ out'.awaiting /\ ~out'.authorized
      BY <2>2, <2>3, <2>5 DEF Armed, Output, OutputIs
    <3>2. speech' \in {"none", "ack", "direct"}
      BY <2>5 DEF CutOff, OutputIs, Speech
    <3>. QED BY <2>2, <2>3, <2>5, <3>1, <3>2, IdFacts
             DEF OutputOK, AnswerIsHeard, ComesNext, Speech, Due
  <2>7. FateMoves /\ Settled(synthetic', fate')
    <3>1. /\ fate' \in [Ids -> Ledger!Fate]
          /\ \A x \in Ids : /\ fate'[x] = "none" <=> f[x] = "none"
                            /\ fate'[x] = "requested" <=> f[x] = "requested"
      BY <2>2, <2>3, <2>5, ArmedFate
    <3>2. FateMoves
      BY <3>1 DEF FateMoves, FateIs
    <3>3. \A q \in syn : SyntheticId(q.turn) \in Ids
      BY RecordFacts
    <3>. QED BY <2>4, <3>1, <3>2, <3>3 DEF Settled, RecordsAre
  <2>8. RecordsOK' /\ PruningOK'
    <3>1. writes' \subseteq Write /\ Relabels(synthetic', synthetic)
      BY <2>3, <2>4, <2>5 DEF TurnsInv, RecordsOK, RecordsAre
    <3>2. \A v \in writes : v \in writes'
      BY <2>5
    <3>3. CASE NoMoreSpoken(syn, synthetic)
      BY <2>4, <2>7, <3>1, <3>2, <3>3, RecordsKept DEF FateMoves
    <3>4. CASE /\ prunes = TRUE /\ by = "events"
               /\ Cardinality(Spoken(syn)) <= MaxTombstones + 1
      <4>1. w \in writes' /\ w.by = "events" /\ w.prunes
        BY <2>5, <3>4 DEF w
      <4>. QED BY <2>4, <2>7, <3>1, <3>4, <4>1, RecordsKept DEF FateMoves
    <3>. QED BY <3>3, <3>4
  <2>. QED BY <2>6, <2>7, <2>8
<1>4. CASE /\ SendsNothing(o, f, sp, d)
           /\ synthetic' \in IF prunes THEN Pruned(syn) ELSE {syn}
  <2>1. out' = o /\ fate' = f /\ speech' = sp /\ due' = d /\ writes' = writes
    BY <1>4 DEF SendsNothing
  <2>2. synthetic' \subseteq syn
    BY <1>4, PrunedIsSubset
  <2>3. /\ Relabels(synthetic', synthetic)
        /\ NoMoreSpoken(syn, synthetic) => NoMoreSpoken(synthetic', synthetic)
    <3>1. Relabels(synthetic', syn) /\ NoMoreSpoken(synthetic', syn)
      BY <2>2, RecordFacts, SubsetRelabels
    <3>2. IsFiniteSet(synthetic) /\ Relabels(syn, synthetic)
      BY DEF TurnsInv, PruningOK, RecordsAre
    <3>. QED BY <3>1, <3>2, RelabelsTwice
  <2>4. Settled(synthetic', fate')
    BY <2>1, <2>2 DEF Settled, RecordsAre
  <2>5. OutputOK' /\ FateMoves
    BY <2>1 DEF OutputOK, AnswerIsHeard, OutputIs, FateMoves, FateIs
  <2>6. RecordsOK' /\ PruningOK'
    <3>1. CASE NoMoreSpoken(syn, synthetic)
      BY <1>2, <2>1, <2>3, <2>4, <3>1, RecordsKept DEF TurnsInv, RecordsOK
    <3>2. CASE prunes = TRUE
      <4>1. synthetic' \in Pruned(syn)
        BY <1>4, <3>2
      <4>2. Cardinality(Spoken(synthetic')) <= MaxTombstones
        BY <4>1, RecordFacts, PrunedCount DEF Records, Unique
      <4>3. Cardinality(Spoken(synthetic')) <= MaxTombstones + 1
        BY <2>3, <4>2, SpokenFacts, BoundFacts DEF Relabels
      <4>. QED BY <1>2, <2>1, <2>3, <2>4, <4>2, <4>3, RecordsKept DEF TurnsInv, RecordsOK
    <3>. QED BY <3>1, <3>2
  <2>. QED BY <2>5, <2>6
<1>. QED BY <1>1, <1>3, <1>4, FlushCases
-------------------------------------------------------------------------------
(* Writes and answers.                                                      *)

\* The record whose answer was written is marked; no other changes.
LEMMA MarkedFacts ==
  ASSUME TurnsInv, NEW w \in writes, WriteEnds(w)
  PROVE  \E marked : /\ RecordsAre(marked, fate) /\ NoMoreSpoken(marked, synthetic)
                     /\ IF w.prunes THEN synthetic' \in Pruned(marked)
                                    ELSE synthetic' \subseteq marked
                     /\ \/ /\ marked = synthetic
                           /\ \A r \in synthetic :
                                ~(w.kind = "speech" /\ SyntheticId(r.turn) = w.id)
                        \/ \E r \in synthetic :
                             /\ w.kind = "speech" /\ SyntheticId(r.turn) = w.id
                             /\ marked = Updated(synthetic, r, [r EXCEPT !.sent = TRUE])
<1>. DEFINE Mine(r) == SyntheticId(r.turn) = w.id
            Marked(r) == IF Mine(r) /\ w.kind = "speech" THEN [r EXCEPT !.sent = TRUE] ELSE r
            marked == {Marked(r) : r \in synthetic}
<1>1. IF w.prunes THEN synthetic' \in Pruned(marked) ELSE synthetic' \subseteq marked
  BY DEF WriteEnds
<1>2. Records(synthetic) /\ Settled(synthetic, fate)
  BY DEF TurnsInv, RecordsOK, PruningOK, Records, Unique
<1>3. CASE \A r \in synthetic : ~(Mine(r) /\ w.kind = "speech")
  <2>1. marked = synthetic
    BY <1>3
  <2>2. RecordsAre(synthetic, fate) /\ NoMoreSpoken(synthetic, synthetic)
    BY <1>2, SubsetRelabels DEF RecordsAre
  <2>. HIDE DEF marked
  <2>. QED BY <1>1, <1>3, <2>1, <2>2
<1>4. ASSUME NEW r \in synthetic, Mine(r), w.kind = "speech" PROVE
        /\ marked = Updated(synthetic, r, [r EXCEPT !.sent = TRUE])
        /\ RecordsAre(marked, fate) /\ NoMoreSpoken(marked, synthetic)
  <2>1. \A q \in synthetic : q # r => ~Mine(q)
    BY <1>2, <1>4, IdFacts DEF Records, Unique
  <2>2. marked = Updated(synthetic, r, [r EXCEPT !.sent = TRUE])
    <3>1. \A q \in synthetic : Marked(q) = IF q = r THEN [r EXCEPT !.sent = TRUE] ELSE q
      BY <1>4, <2>1
    <3>2. marked = (synthetic \ {r}) \cup {[r EXCEPT !.sent = TRUE]}
      <4>. HIDE DEF Marked
      <4>. QED BY <3>1
    <3>. QED BY <3>2 DEF Updated
  <2>3. /\ [r EXCEPT !.sent = TRUE] \in Synthetic
        /\ [r EXCEPT !.sent = TRUE].turn = r.turn
        /\ [r EXCEPT !.sent = TRUE].spoken = r.spoken
        /\ [r EXCEPT !.sent = TRUE].answered = r.answered
    BY DEF TurnsInv, RecordsOK, Synthetic
  <2>. HIDE DEF marked
  <2>4. Relabels(marked, synthetic) /\ NoMoreSpoken(marked, synthetic)
    BY <1>2, <2>2, <2>3, UpdatedRelabels
  <2>5. Settled(marked, fate)
    BY <1>2, <2>2, <2>3 DEF Settled, Updated
  <2>. QED BY <2>2, <2>4, <2>5 DEF RecordsAre
<1>5. CASE \E r \in synthetic : Mine(r) /\ w.kind = "speech"
  <2>1. PICK r \in synthetic : Mine(r) /\ w.kind = "speech"
    BY <1>5
  <2>2. /\ marked = Updated(synthetic, r, [r EXCEPT !.sent = TRUE])
        /\ RecordsAre(marked, fate) /\ NoMoreSpoken(marked, synthetic)
    BY <1>4, <2>1
  <2>. HIDE DEF marked
  <2>. QED BY <1>1, <2>1, <2>2
<1>. QED BY <1>3, <1>5

\* The end of a write marks its record and may prune.
LEMMA WriteEndsKeeps ==
  ASSUME TurnsInv, NEW w \in writes, WriteEnds(w)
  PROVE  TurnsInv'
<1>1. /\ writes' = writes \ {w}
      /\ UNCHANGED <<transport_vars, session_vars, turn_vars, pending, out, speech, due,
                     fate, provider_vars>>
  BY DEF WriteEnds
<1>2. ReaderSteps
  BY <1>1, TransportMoves DEF TurnsInv
<1>3. PICK marked : /\ RecordsAre(marked, fate) /\ NoMoreSpoken(marked, synthetic)
                    /\ IF w.prunes THEN synthetic' \in Pruned(marked)
                                   ELSE synthetic' \subseteq marked
  BY MarkedFacts
<1>4. FateIs(fate) /\ FateMoves
  BY <1>1 DEF FateIs, FateMoves, TurnsInv, IdsOK
<1>5. Records(marked)
  BY <1>3, <1>4, RecordFacts
<1>6. synthetic' \subseteq marked /\ Settled(synthetic', fate')
  BY <1>1, <1>3, PrunedIsSubset DEF RecordsAre, Settled
<1>7. Relabels(synthetic', synthetic) /\ NoMoreSpoken(synthetic', synthetic)
  <2>1. Relabels(synthetic', marked) /\ NoMoreSpoken(synthetic', marked)
    BY <1>5, <1>6, SubsetRelabels
  <2>2. IsFiniteSet(synthetic) /\ Relabels(marked, synthetic)
    BY <1>3 DEF TurnsInv, PruningOK, RecordsAre
  <2>. QED BY <1>3, <2>1, <2>2, RelabelsTwice
<1>8. w.prunes => Cardinality(Spoken(synthetic')) <= MaxTombstones
  BY <1>3, <1>5, PrunedCount DEF Records, Unique
<1>9. RecordsOK' /\ PruningOK'
  BY <1>1, <1>2, <1>6, <1>7, <1>8, RecordsKept DEF TurnsInv, RecordsOK
<1>10. IdsOK' /\ BoundOK' /\ DeferredOK' /\ TodoOK'
  BY <1>1, <1>4, IdsKept DEF HandlerSteps, turn_vars
<1>11. SessionOK' /\ OutputOK'
  BY <1>1 DEF TurnsInv, SessionOK, PendingBlocksSwitch, OutputOK, AnswerIsHeard, session_vars,
     turn_vars, provider_vars
<1>. QED BY <1>2, <1>9, <1>10, <1>11 DEF TurnsInv, ReaderSteps

\* What delegation.complete passes on when the request is the service's own.
LEMMA CompletedFacts ==
  ASSUME TurnsInv, NEW id \in pending, pending' = pending \ {id},
         NEW r \in RecordOf(id, synthetic)
  PROVE  LET new == [r EXCEPT !.answered = TRUE, !.resolved = TRUE]
             f == [fate EXCEPT ![id] = "answered"]
         IN  /\ r \in synthetic /\ SyntheticId(r.turn) = id
             /\ new \in Synthetic /\ new.turn = r.turn /\ new.answered = TRUE
             /\ FateIs(f)
             /\ RecordsAre(Updated(synthetic, r, new), f)
             /\ NoMoreSpoken(Updated(synthetic, r, new), synthetic)
             /\ OutputIs(Completed(out), speech, due) /\ Completed(out).owner = out.owner
<1>. DEFINE new == [r EXCEPT !.answered = TRUE, !.resolved = TRUE]
            f == [fate EXCEPT ![id] = "answered"]
            syn == Updated(synthetic, r, new)
<1>1. r \in synthetic /\ SyntheticId(r.turn) = id /\ id \in Ids
  BY DEF RecordOf, TurnsInv, IdsOK
<1>2. /\ new \in Synthetic /\ new.turn = r.turn /\ new.spoken = r.spoken
      /\ new.answered = TRUE
  BY <1>1 DEF TurnsInv, RecordsOK, Synthetic
<1>3. FateIs(f)
  BY <1>1 DEF FateIs, TurnsInv, IdsOK, Ledger!Fate
<1>4. Records(synthetic)
  BY DEF TurnsInv, RecordsOK, PruningOK, Records, Unique
<1>5. \A q \in synthetic : SyntheticId(q.turn) \in Ids
  BY IdFacts DEF TurnsInv, RecordsOK, Synthetic
<1>6. \A q \in synthetic : q # r => SyntheticId(q.turn) # id
  BY <1>1, IdFacts DEF TurnsInv, RecordsOK
<1>7. f \in [Ids -> Ledger!Fate] /\ \A x \in Ids : f[x] = IF x = id THEN "answered" ELSE fate[x]
  BY <1>3 DEF FateIs, TurnsInv, IdsOK
<1>. HIDE DEF new, f
<1>8. RecordsAre(syn, f) /\ NoMoreSpoken(syn, synthetic)
  <2>1. Relabels(syn, synthetic) /\ NoMoreSpoken(syn, synthetic)
    BY <1>1, <1>2, <1>4, UpdatedRelabels
  <2>2. Settled(syn, f)
    BY <1>1, <1>2, <1>5, <1>6, <1>7 DEF Settled, Updated, TurnsInv, RecordsOK
  <2>. QED BY <2>1, <2>2 DEF RecordsAre
<1>9. OutputIs(Completed(out), speech, due) /\ Completed(out).owner = out.owner
  BY DEF TurnsInv, OutputOK, AnswerIsHeard, OutputIs, ComesNext, Completed, Output
<1>. QED BY <1>1, <1>2, <1>3, <1>8, <1>9 DEF new, f

\* The terminal's answer to a request that is pending.
LEMMA ClientCompletesKeeps ==
  ASSUME TurnsInv, NEW id \in Ids, ClientCompletes(id)
  PROVE  TurnsInv'
<1>1. /\ id \in pending /\ pending' = pending \ {id}
      /\ UNCHANGED <<transport_vars, session_vars, turn_vars, provider_vars>>
  BY DEF ClientCompletes
<1>2. ReaderSteps
  BY <1>1, TransportMoves DEF TurnsInv
<1>3. OutputOK' /\ FateMoves /\ RecordsOK' /\ PruningOK'
  <2>1. CASE RecordOf(id, synthetic) # {}
    <3>1. PICK r \in RecordOf(id, synthetic) :
            Flush("client",
                  Updated(synthetic, r, [r EXCEPT !.answered = TRUE, !.resolved = TRUE]),
                  Completed(out), [fate EXCEPT ![id] = "answered"], speech, due, FALSE)
      BY <2>1 DEF ClientCompletes
    <3>. DEFINE syn == Updated(synthetic, r, [r EXCEPT !.answered = TRUE, !.resolved = TRUE])
                f == [fate EXCEPT ![id] = "answered"]
    <3>2. /\ FateIs(f) /\ RecordsAre(syn, f) /\ NoMoreSpoken(syn, synthetic)
          /\ OutputIs(Completed(out), speech, due)
      BY <1>1, CompletedFacts
    <3>3. Flush("client", syn, Completed(out), f, speech, due, FALSE)
      BY <3>1
    <3>. HIDE DEF syn, f
    <3>. QED BY <1>2, <3>2, <3>3, FlushKeeps
  <2>2. CASE RecordOf(id, synthetic) = {}
    <3>. DEFINE w == [by |-> "client", id |-> id, kind |-> "speech", prunes |-> FALSE]
                o == [out EXCEPT !.ack = FALSE]
    <3>1. w \in Write /\ OutputIs(o, speech, due) /\ w.kind = "speech" /\ w.id = id
      BY DEF Write, OutputIs, ComesNext, TurnsInv, OutputOK, AnswerIsHeard, Output
    <3>2. Sends(w, o, fate, speech) /\ UNCHANGED synthetic
      BY <2>2 DEF ClientCompletes
    <3>. HIDE DEF w, o
    <3>3. OutputOK' /\ writes' = writes \cup {w}
      BY <3>1, <3>2, SendsOutput
    <3>4. fate' = FateArmed(fate, id) /\ fate[id] = "requested"
      BY <1>1, <3>1, <3>2 DEF Sends, TurnsInv, IdsOK
    <3>5. FateMoves
      BY <1>1, <3>4 DEF FateMoves, FateArmed, TurnsInv, IdsOK, Ledger!Fate
    <3>6. \A r \in synthetic : SyntheticId(r.turn) \in Ids /\ SyntheticId(r.turn) # id
      BY <2>2, IdFacts DEF RecordOf, TurnsInv, RecordsOK, Synthetic
    <3>7. Settled(synthetic', fate')
      BY <3>2, <3>4, <3>6 DEF Settled, FateArmed, TurnsInv, RecordsOK, IdsOK
    <3>8. Relabels(synthetic', synthetic) /\ NoMoreSpoken(synthetic', synthetic)
      BY <3>2, SubsetRelabels DEF TurnsInv, RecordsOK, PruningOK, Records, Unique
    <3>. QED BY <1>2, <3>1, <3>3, <3>5, <3>7, <3>8, RecordsKept
             DEF TurnsInv, RecordsOK, FateMoves
  <2>. QED BY <2>1, <2>2
<1>4. IdsOK' /\ BoundOK' /\ DeferredOK' /\ TodoOK'
  BY <1>1, <1>3, IdsKept DEF HandlerSteps, turn_vars
<1>5. SessionOK'
  BY <1>1 DEF TurnsInv, SessionOK, PendingBlocksSwitch, session_vars, turn_vars,
     provider_vars
<1>. QED BY <1>2, <1>3, <1>4, <1>5 DEF TurnsInv, ReaderSteps
-------------------------------------------------------------------------------
(* A delegation of the provider.                                            *)

\* It is answered with a record, or it is a request of its own.
Requests(n) ==
  /\ active_delegation' \in {active_delegation, ProviderId(n)}
  /\ pending' = pending \cup {ProviderId(n)}
  /\ state' = Moved("thinking")
  /\ fate' = [fate EXCEPT ![ProviderId(n)] = "requested"]
  /\ synthetic' \subseteq synthetic
  /\ out' = [out EXCEPT !.ack = FALSE] /\ UNCHANGED <<speech, due, writes>>

\* The record is told that its delegation has come, and its answer is sent, repeated
\* as a commentary, or still awaited.
Matches(syn, r) ==
  LET known == Updated(syn, r, [r EXCEPT !.matched = TRUE, !.resolved = TRUE])
      o == [out EXCEPT !.ack = FALSE]
  IN  /\ syn \subseteq synthetic /\ r \in syn
      /\ IF r.answered /\ r.sent
         THEN /\ Sends([by |-> "events", id |-> SyntheticId(r.turn),
                        kind |-> "commentary", prunes |-> FALSE], o, fate, speech)
              /\ synthetic' = known
         ELSE Flush("events", known, o, fate, speech, due, FALSE)
      /\ UNCHANGED <<active_delegation, pending, state>>

\* A delegation is matched with a synthetic record, or asked of the terminal.
LEMMA HandleCases ==
  ASSUME TurnsInv, NEW n, NEW text, NEW bind \in BOOLEAN, NEW match \in BOOLEAN,
         Handle(n, text, bind, match)
  PROVE  \/ \E syn, r : Matches(syn, r)
         \/ Requests(n)
<1>1. PICK syn \in IF match THEN Pruned(synthetic) ELSE {synthetic} :
        LET matching == IF match THEN Matching(text, syn) ELSE {}
            r == First(matching)
            o == [out EXCEPT !.ack = FALSE]
            known == Updated(syn, r, [r EXCEPT !.matched = TRUE, !.resolved = TRUE])
        IN IF matching # {}
           THEN /\ IF r.answered /\ r.sent
                   THEN /\ Sends([by |-> "events", id |-> SyntheticId(r.turn),
                                  kind |-> "commentary", prunes |-> FALSE], o, fate, speech)
                        /\ synthetic' = known
                   ELSE Flush("events", known, o, fate, speech, due, FALSE)
                /\ UNCHANGED <<active_delegation, pending, state>>
           ELSE /\ active_delegation' = IF bind THEN ProviderId(n) ELSE active_delegation
                /\ pending' = pending \cup {ProviderId(n)}
                /\ state' = Moved("thinking")
                /\ synthetic' = syn
                /\ SendsNothing(o, [fate EXCEPT ![ProviderId(n)] = "requested"], speech, due)
  BY DEF Handle
<1>. DEFINE matching == IF match THEN Matching(text, syn) ELSE {}
<1>2. syn \subseteq synthetic
  BY PrunedIsSubset
<1>3. CASE matching # {}
  <2>1. matching \in SUBSET syn
    BY DEF Matching
  <2>2. syn \in SUBSET Synthetic
    BY <1>2 DEF TurnsInv, RecordsOK
  <2>3. First(matching) \in syn
    <3>. HIDE DEF matching
    <3>. QED BY <1>3, <2>1, <2>2, FirstFacts
  <2>4. Matches(syn, First(matching))
    BY <1>1, <1>2, <1>3, <2>3 DEF Matches
  <2>. QED BY <2>4
<1>4. CASE matching = {}
  BY <1>1, <1>2, <1>4 DEF Requests, SendsNothing
<1>. QED BY <1>3, <1>4

\* What matching a record passes on.
LEMMA MatchedFacts ==
  ASSUME TurnsInv, NEW syn, NEW r, Matches(syn, r)
  PROVE  LET new == [r EXCEPT !.matched = TRUE, !.resolved = TRUE]
             known == Updated(syn, r, new)
         IN  /\ r \in synthetic
             /\ new \in Synthetic /\ new.turn = r.turn /\ new.answered = r.answered
             /\ new.sent = r.sent /\ new.resolved = TRUE
             /\ FateIs(fate) /\ RecordsAre(known, fate) /\ NoMoreSpoken(known, synthetic)
             /\ OutputIs([out EXCEPT !.ack = FALSE], speech, due)
<1>. DEFINE new == [r EXCEPT !.matched = TRUE, !.resolved = TRUE]
            known == Updated(syn, r, new)
<1>1. r \in syn /\ syn \subseteq synthetic /\ UNCHANGED pending /\ r \in Synthetic
  BY DEF Matches, TurnsInv, RecordsOK
<1>2. /\ new \in Synthetic /\ new.turn = r.turn /\ new.spoken = r.spoken
      /\ new.answered = r.answered /\ new.sent = r.sent /\ new.resolved = TRUE
  BY <1>1 DEF Synthetic
<1>3. FateIs(fate)
  BY <1>1 DEF FateIs, TurnsInv, IdsOK
<1>4. Records(synthetic)
  BY DEF TurnsInv, RecordsOK, PruningOK, Records, Unique
<1>5. Relabels(syn, synthetic) /\ NoMoreSpoken(syn, synthetic) /\ Records(syn)
  BY <1>1, <1>4, SubsetRelabels DEF Records, Relabels
<1>. HIDE DEF new
<1>6. Relabels(known, syn) /\ NoMoreSpoken(known, syn)
  BY <1>1, <1>2, <1>5, UpdatedRelabels
<1>7. Relabels(known, synthetic) /\ NoMoreSpoken(known, synthetic)
  <2>1. IsFiniteSet(synthetic)
    BY <1>4 DEF Records
  <2>. HIDE DEF known
  <2>. QED BY <1>5, <1>6, <2>1, RelabelsTwice
<1>8. Settled(known, fate)
  BY <1>1, <1>2 DEF Settled, Updated, TurnsInv, RecordsOK
<1>9. OutputIs([out EXCEPT !.ack = FALSE], speech, due)
  BY DEF TurnsInv, OutputOK, AnswerIsHeard, OutputIs, ComesNext, Output
<1>. QED BY <1>1, <1>2, <1>3, <1>7, <1>8, <1>9 DEF RecordsAre, new

\* Whoever handles a delegation whose id was not used: nothing else uses the id.
LEMMA HandleKeeps ==
  ASSUME TurnsInv, ReaderSteps, NEW n \in Delegations, fate[ProviderId(n)] = "none",
         delegations' \in 0..MaxDelegation, delegations <= delegations', n <= delegations',
         NEW text, NEW bind \in BOOLEAN, NEW match \in BOOLEAN, Handle(n, text, bind, match),
         state # "connecting",
         UNCHANGED <<speaking, closed, turn, in_turn, finalizing, bound, said>>
  PROVE  /\ SessionOK' /\ IdsOK' /\ BoundOK' /\ OutputOK' /\ RecordsOK' /\ PruningOK'
         /\ \A m : Fresh(m) /\ m # n => Fresh(m)'
<1>1. delegations \in Nat /\ MaxDelegation \in Nat /\ delegations' \in Nat /\ n \in Nat
  BY BoundFacts DEF TurnsInv, SessionOK, Delegations
<1>2. ASSUME NEW syn, NEW r, Matches(syn, r)
      PROVE  /\ SessionOK' /\ IdsOK' /\ BoundOK' /\ OutputOK' /\ RecordsOK' /\ PruningOK'
             /\ \A m : Fresh(m) /\ m # n => Fresh(m)'
  <2>. DEFINE new == [r EXCEPT !.matched = TRUE, !.resolved = TRUE]
              known == Updated(syn, r, new)
              o == [out EXCEPT !.ack = FALSE]
              w == [by |-> "events", id |-> SyntheticId(r.turn), kind |-> "commentary",
                    prunes |-> FALSE]
  <2>1. /\ r \in synthetic
        /\ FateIs(fate) /\ RecordsAre(known, fate) /\ NoMoreSpoken(known, synthetic)
        /\ OutputIs(o, speech, due)
    BY <1>2, MatchedFacts
  <2>2. UNCHANGED <<active_delegation, pending, state>>
    BY <1>2 DEF Matches
  <2>3. OutputOK' /\ FateMoves /\ RecordsOK' /\ PruningOK'
    <3>1. CASE r.answered /\ r.sent
      <4>1. Sends(w, o, fate, speech) /\ synthetic' = known
        BY <1>2, <3>1 DEF Matches
      <4>2. w \in Write /\ w.kind = "commentary"
        BY <2>1, IdFacts DEF Write, TurnsInv, RecordsOK, Synthetic
      <4>. HIDE DEF w, o, known
      <4>3. OutputOK' /\ writes' = writes \cup {w}
        BY <2>1, <4>1, <4>2, SendsOutput
      <4>4. fate' = fate
        BY <4>1, <4>2 DEF Sends
      <4>5. FateMoves
        BY <2>2, <4>4 DEF FateMoves, TurnsInv, IdsOK
      <4>6. RecordsOK' /\ PruningOK'
        BY <2>1, <4>1, <4>2, <4>3, <4>4, RecordsKept DEF RecordsAre, TurnsInv, RecordsOK
      <4>. QED BY <4>3, <4>5, <4>6
    <3>2. CASE ~(r.answered /\ r.sent)
      <4>1. Flush("events", known, o, fate, speech, due, FALSE)
        BY <1>2, <3>2 DEF Matches
      <4>. HIDE DEF known, o
      <4>. QED BY <2>1, <4>1, FlushKeeps
    <3>. QED BY <3>1, <3>2
  <2>4. SessionOK'
    BY <2>2 DEF TurnsInv, SessionOK, PendingBlocksSwitch
  <2>5. IdsOK'
    BY <1>1, <2>3, IdFacts DEF TurnsInv, IdsOK, FateMoves, Delegations
  <2>6. BoundOK'
    <3>1. \A id \in Ids : fate[id] # "none" => fate'[id] # "none"
      BY <2>3 DEF FateMoves
    <3>. QED BY <2>2, <3>1 DEF TurnsInv, BoundOK, TurnsDoNotShareRequests
  <2>7. \A m : Fresh(m) => Fresh(m)'
    BY <1>1, <2>3, IdFacts DEF Fresh, FateMoves, Delegations
  <2>. QED BY <2>3, <2>4, <2>5, <2>6, <2>7
<1>3. CASE Requests(n)
  <2>1. /\ ProviderId(n) \in Ids /\ fate \in [Ids -> Ledger!Fate]
        /\ fate' = [fate EXCEPT ![ProviderId(n)] = "requested"]
    BY <1>3, IdFacts DEF Requests, TurnsInv, IdsOK
  <2>2. /\ fate' \in [Ids -> Ledger!Fate]
        /\ \A id \in Ids : fate'[id] = IF id = ProviderId(n) THEN "requested" ELSE fate[id]
    BY <2>1 DEF Ledger!Fate
  <2>3. SessionOK'
    <3>1. state' = Moved("thinking") /\ state \in States
      BY <1>3 DEF Requests, TurnsInv, SessionOK
    <3>2. state' = IF state = "failed" THEN "failed" ELSE "thinking"
      BY <3>1 DEF Moved, States
    <3>. QED BY <1>1, <3>2 DEF TurnsInv, SessionOK, PendingBlocksSwitch, States
  <2>4. IdsOK'
    <3>1. pending' = {id \in Ids : fate'[id] = "requested"}
      BY <1>3, <2>1, <2>2 DEF Requests, TurnsInv, IdsOK
    <3>2. \A t \in Turns : fate'[SyntheticId(t)] = fate[SyntheticId(t)]
      BY <2>2, IdFacts
    <3>3. \A d \in Delegations : fate'[ProviderId(d)] # "none" => d <= delegations'
      BY <1>1, <2>2, IdFacts DEF TurnsInv, IdsOK, Delegations
    <3>. QED BY <2>2, <3>1, <3>2, <3>3 DEF TurnsInv, IdsOK
  <2>5. BoundOK'
    <3>1. active_delegation' \in {active_delegation, ProviderId(n)}
      BY <1>3 DEF Requests
    <3>2. \A t \in Turns : bound[t] # ProviderId(n)
      BY <2>1, IdFacts DEF TurnsInv, BoundOK, TurnsDoNotShareRequests
    <3>3. \A id \in Ids : fate[id] # "none" => fate'[id] # "none"
      BY <2>2
    <3>4. fate'[ProviderId(n)] # "none"
      BY <2>1, <2>2
    <3>. QED BY <2>1, <3>1, <3>2, <3>3, <3>4 DEF TurnsInv, BoundOK, TurnsDoNotShareRequests
  <2>6. OutputOK'
    BY <1>3 DEF Requests, TurnsInv, OutputOK, AnswerIsHeard, ComesNext, Output
  <2>7. RecordsOK' /\ PruningOK'
    <3>1. synthetic' \subseteq synthetic /\ writes' = writes
      BY <1>3 DEF Requests
    <3>2. Relabels(synthetic', synthetic) /\ NoMoreSpoken(synthetic', synthetic)
      BY <3>1, SubsetRelabels DEF TurnsInv, RecordsOK, PruningOK, Records, Unique
    <3>3. \A r \in synthetic : SyntheticId(r.turn) \in Ids /\ SyntheticId(r.turn) # ProviderId(n)
      BY IdFacts DEF TurnsInv, RecordsOK, Synthetic
    <3>4. Settled(synthetic', fate')
      BY <2>2, <3>1, <3>3 DEF Settled, TurnsInv, RecordsOK
    <3>. QED BY <2>2, <3>1, <3>2, <3>4, RecordsKept DEF TurnsInv, RecordsOK
  <2>8. \A m : Fresh(m) /\ m # n => Fresh(m)'
    BY <1>1, <2>2, IdFacts DEF Fresh, Delegations
  <2>. QED BY <2>3, <2>4, <2>5, <2>6, <2>7, <2>8
<1>. QED BY <1>2, <1>3, HandleCases

\* The provider creates a delegation.
LEMMA DelegationCreatedKeeps ==
  ASSUME TurnsInv, NEW text \in Text, DelegationCreated(text)
  PROVE  TurnsInv'
<1>0. PICK n : n = delegations + 1
  OBVIOUS
<1>1. /\ ~closed /\ state # "connecting" /\ reader = "reading" /\ ~finalizing
      /\ n \in Delegations /\ delegations' = n
      /\ UNCHANGED <<transport_vars, said>>
  BY <1>0 DEF DelegationCreated, Delivering, LockFree
<1>2. ReaderSteps
  BY <1>1, TransportMoves DEF TurnsInv
<1>3. /\ delegations \in Nat /\ n \in Nat /\ delegations < n /\ n \in 0..MaxDelegation
      /\ delegations <= n
  BY <1>0, <1>1, BoundFacts DEF TurnsInv, SessionOK, Delegations
<1>4. fate[ProviderId(n)] = "none"
  BY <1>1, <1>3 DEF TurnsInv, IdsOK
<1>5. \A m : Fresh(m) => m # n
  BY <1>3 DEF Fresh, Delegations
<1>6. todo = <<>>
  BY <1>1 DEF TurnsInv, TodoOK
<1>7. CASE ~in_turn
  <2>1. /\ Handle(n, text, TRUE, TRUE)
        /\ UNCHANGED <<turn, in_turn, deferred, finalizing, todo, bound, speaking, closed>>
    BY <1>0, <1>7 DEF DelegationCreated
  <2>2. /\ SessionOK' /\ IdsOK' /\ BoundOK' /\ OutputOK' /\ RecordsOK' /\ PruningOK'
        /\ \A m : Fresh(m) /\ m # n => Fresh(m)'
    <3>1. /\ delegations' \in 0..MaxDelegation /\ delegations <= delegations'
          /\ n <= delegations'
      BY <1>1, <1>3
    <3>2. UNCHANGED <<speaking, closed, turn, in_turn, finalizing, bound, said>>
      BY <1>1, <2>1
    <3>3. Handle(n, text, TRUE, TRUE) /\ n \in Delegations /\ state # "connecting"
      BY <1>1, <2>1
    <3>. QED BY <1>2, <1>4, <3>1, <3>2, <3>3, HandleKeeps
  <2>3. DeferredOK' /\ TodoOK'
    BY <1>5, <2>1, <2>2 DEF TurnsInv, DeferredOK, TodoOK
  <2>. QED BY <1>2, <2>2, <2>3 DEF TurnsInv, ReaderSteps
<1>8. CASE in_turn
  <2>1. /\ Len(deferred) < MaxDeferred
        /\ deferred' = Append(deferred, [n |-> n, text |-> text])
        /\ UNCHANGED <<turn, in_turn, active_delegation, finalizing, todo, bound,
                       session_vars, delegation_vars, output_vars>>
    BY <1>0, <1>8 DEF DelegationCreated
  <2>. USE DEF session_vars, delegation_vars, output_vars
  <2>2. SessionOK' /\ OutputOK'
    BY <1>1, <1>3, <2>1 DEF TurnsInv, SessionOK, PendingBlocksSwitch, OutputOK, AnswerIsHeard
  <2>3. IdsOK' /\ BoundOK'
    BY <1>1, <1>3, <2>1
    DEF TurnsInv, IdsOK, BoundOK, TurnsDoNotShareRequests, Delegations
  <2>4. (\A m : Fresh(m) => Fresh(m)') /\ Fresh(n)'
    <3>1. fate' = fate /\ delegations' = n /\ n \in Delegations
      BY <1>1, <2>1
    <3>. QED BY <1>3, <1>4, <3>1, BoundFacts DEF Fresh, Delegations
  <2>5. DeferredOK'
    <3>. DEFINE e == [n |-> n, text |-> text]
    <3>1. e \in Deferred /\ e.n = n
      BY <1>1 DEF Deferred
    <3>2. deferred' = Append(deferred, e) /\ deferred \in Seq(Deferred)
      BY <2>1 DEF TurnsInv, DeferredOK
    <3>. HIDE DEF e
    <3>3. /\ deferred' \in Seq(Deferred) /\ Len(deferred') = Len(deferred) + 1
          /\ Len(deferred) \in Nat
          /\ \A i \in 1..Len(deferred') :
               deferred'[i] = IF i <= Len(deferred) THEN deferred[i] ELSE e
      BY <3>1, <3>2
    <3>4. \A i \in 1..Len(deferred') : i \in 1..Len(deferred) \/ i = Len(deferred) + 1
      BY <3>3
    <3>5. \A i \in 1..Len(deferred) : Fresh(deferred[i].n) /\ deferred[i].n # n
      BY <1>5 DEF TurnsInv, DeferredOK
    <3>6. \A i \in 1..Len(deferred') : Fresh(deferred[i].n)'
      <4>. SUFFICES ASSUME NEW i \in 1..Len(deferred') PROVE Fresh(deferred[i].n)'
        OBVIOUS
      <4>1. deferred'[i].n = n \/ Fresh(deferred'[i].n)
        BY <3>1, <3>3, <3>4, <3>5
      <4>. QED BY <2>4, <4>1
    <3>7. \A i, j \in 1..Len(deferred') : deferred'[i].n = deferred'[j].n => i = j
      BY <3>1, <3>3, <3>4, <3>5 DEF TurnsInv, DeferredOK
    <3>8. Len(deferred') <= MaxDeferred
      <4>1. Len(deferred) < MaxDeferred
        BY <2>1
      <4>. QED BY <3>3, <4>1, BoundFacts
    <3>9. deferred' \in Seq(Deferred)
      BY <3>3
    <3>. QED BY <3>6, <3>7, <3>8, <3>9 DEF DeferredOK
  <2>6. TodoOK'
    BY <1>1, <1>6, <2>1, <2>4 DEF TurnsInv, TodoOK
  <2>7. Relabels(synthetic', synthetic) /\ NoMoreSpoken(synthetic', synthetic)
    BY <2>1, SubsetRelabels DEF TurnsInv, RecordsOK, PruningOK, Records, Unique
  <2>8. RecordsOK' /\ PruningOK'
    BY <1>2, <2>1, <2>7, RecordsKept DEF TurnsInv, RecordsOK
  <2>. QED BY <1>2, <2>2, <2>3, <2>5, <2>6, <2>8 DEF TurnsInv, ReaderSteps
<1>. QED BY <1>7, <1>8 DEF TurnsInv, SessionOK
-------------------------------------------------------------------------------
(* The user's turns.                                                        *)

\* The user begins a turn.
LEMMA UserSpeaksKeeps ==
  ASSUME TurnsInv, UserSpeaks
  PROVE  TurnsInv'
<1>1. /\ ~finalizing /\ ~in_turn /\ turn < MaxTurn /\ turn' = turn + 1 /\ in_turn' = TRUE
      /\ UNCHANGED <<transport_vars, session_vars, deferred, active_delegation, finalizing,
                     todo, bound, delegation_vars, writes, fate, provider_vars>>
  BY DEF UserSpeaks, Delivering, LockFree
<1>. USE DEF session_vars, delegation_vars, provider_vars
<1>2. ReaderSteps
  BY <1>1, TransportMoves DEF TurnsInv
<1>3. turn \in Nat /\ turn' \in Nat /\ turn < turn' /\ turn' \in Turns /\ turn' \in 0..MaxTurn
  BY <1>1, BoundFacts DEF TurnsInv, SessionOK, Turns
<1>4. SessionOK'
  BY <1>1, <1>3 DEF TurnsInv, SessionOK, PendingBlocksSwitch
<1>5. IdsOK' /\ BoundOK'
  BY <1>1, <1>3, BoundFacts DEF TurnsInv, IdsOK, BoundOK, TurnsDoNotShareRequests, Turns
<1>6. \A m : Fresh(m) => Fresh(m)'
  BY <1>1 DEF Fresh
<1>7. DeferredOK' /\ TodoOK'
  BY <1>1, <1>6 DEF TurnsInv, DeferredOK, TodoOK
<1>8. OutputOK'
  <2>1. CASE active_delegation = None
    <3>1. /\ out' = [out EXCEPT !.authorized = FALSE]
          /\ speech' = CutOff(speech)
          /\ due' = IF out.awaiting THEN due ELSE "no"
      BY <2>1 DEF UserSpeaks
    <3>. QED BY <3>1 DEF TurnsInv, OutputOK, ComesNext, AnswerIsHeard, Output, CutOff, Speech, Due
  <2>2. CASE active_delegation # None
    BY <2>2 DEF UserSpeaks, TurnsInv, OutputOK, AnswerIsHeard
  <2>. QED BY <2>1, <2>2
<1>9. Relabels(synthetic', synthetic) /\ NoMoreSpoken(synthetic', synthetic)
  BY <1>1, SubsetRelabels DEF TurnsInv, RecordsOK, PruningOK, Records, Unique
<1>10. RecordsOK' /\ PruningOK'
  BY <1>1, <1>2, <1>9, RecordsKept DEF TurnsInv, RecordsOK
<1>. QED BY <1>2, <1>4, <1>5, <1>7, <1>8, <1>10 DEF TurnsInv, ReaderSteps

\* What is left of a sequence without one place, or without place 0.
LEMMA RemainingFacts ==
  ASSUME NEW S, NEW q \in Seq(S), NEW i \in 0..Len(q)
  PROVE  \E r \in Seq(S) :
           /\ r = RemoveAt(q, i)
           /\ Len(r) = IF i = 0 THEN Len(q) ELSE Len(q) - 1
           /\ \A j \in 1..Len(r) : r[j] = IF j < i \/ i = 0 THEN q[j] ELSE q[j + 1]
<1>1. Len(q) \in Nat /\ \A j \in 1..Len(q) : q[j] \in S
  OBVIOUS
<1>2. CASE i = 0
  <2>1. SubSeq(q, 1, 0 - 1) = <<>>
    BY <1>1, SubSeqEmpty
  <2>2. SubSeq(q, 0 + 1, Len(q)) = q
    BY <1>1, SubSeqFull
  <2>3. <<>> \o q = q
    BY ConcatEmptySeq
  <2>. QED BY <1>1, <1>2, <2>1, <2>2, <2>3 DEF RemoveAt
<1>3. CASE i # 0
  <2>. DEFINE a == SubSeq(q, 1, i - 1)
              b == SubSeq(q, i + 1, Len(q))
  <2>1. a \in Seq(S) /\ Len(a) = i - 1 /\ \A j \in 1..(i - 1) : a[j] = q[j]
    <3>1. \A k \in 1..(i - 1) : q[k] \in S
      BY <1>1
    <3>2. /\ SubSeq(q, 1, i - 1) \in Seq(S)
          /\ Len(SubSeq(q, 1, i - 1)) = IF 1 <= i - 1 THEN i - 1 - 1 + 1 ELSE 0
          /\ \A k \in 1..(i - 1 - 1 + 1) : SubSeq(q, 1, i - 1)[k] = q[1 + k - 1]
      BY <1>1, <1>3, <3>1, SubSeqProperties, SMTT(30)
    <3>. QED BY <1>1, <1>3, <3>2
  <2>2. b \in Seq(S) /\ Len(b) = Len(q) - i /\ \A j \in 1..(Len(q) - i) : b[j] = q[i + j]
    <3>1. \A k \in (i + 1)..Len(q) : q[k] \in S
      BY <1>1
    <3>2. /\ b \in Seq(S)
          /\ Len(b) = IF i + 1 <= Len(q) THEN Len(q) - (i + 1) + 1 ELSE 0
          /\ \A k \in 1..(Len(q) - (i + 1) + 1) : b[k] = q[(i + 1) + k - 1]
      BY <1>1, <3>1, SubSeqProperties, SMTT(30)
    <3>. HIDE DEF b
    <3>. QED BY <1>1, <3>2
  <2>. HIDE DEF a, b
  <2>3. /\ a \o b \in Seq(S) /\ Len(a \o b) = Len(q) - 1
        /\ \A j \in 1..(Len(q) - 1) : (a \o b)[j] = IF j < i THEN q[j] ELSE q[j + 1]
    <3>1. /\ a \o b \in Seq(S) /\ Len(a \o b) = Len(a) + Len(b)
          /\ \A j \in 1..(Len(a) + Len(b)) :
               (a \o b)[j] = IF j <= Len(a) THEN a[j] ELSE b[j - Len(a)]
      BY <2>1, <2>2, ConcatProperties
    <3>2. Len(a) + Len(b) = Len(q) - 1
      BY <1>1, <2>1, <2>2
    <3>3. ASSUME NEW j \in 1..(Len(q) - 1)
          PROVE  (a \o b)[j] = IF j < i THEN q[j] ELSE q[j + 1]
      <4>1. (a \o b)[j] = IF j <= Len(a) THEN a[j] ELSE b[j - Len(a)]
        BY <3>1, <3>2
      <4>2. CASE j < i
        BY <1>1, <2>1, <4>1, <4>2
      <4>3. CASE ~(j < i)
        <5>1. j - Len(a) \in 1..(Len(q) - i) /\ i + (j - Len(a)) = j + 1
          BY <1>1, <1>3, <2>1, <4>3
        <5>2. b[j - Len(a)] = q[i + (j - Len(a))]
          BY <2>2, <5>1
        <5>. QED BY <1>1, <2>1, <4>1, <4>3, <5>1, <5>2
      <4>. QED BY <4>2, <4>3
    <3>. QED BY <3>1, <3>2, <3>3
  <2>4. a \o b = RemoveAt(q, i)
    BY DEF RemoveAt, a, b
  <2>5. PICK r : r = a \o b
    OBVIOUS
  <2>6. r \in Seq(S) /\ Len(r) = Len(q) - 1
        /\ \A j \in 1..(Len(q) - 1) : r[j] = IF j < i THEN q[j] ELSE q[j + 1]
    BY <2>3, <2>5, Zenon
  <2>7. r = RemoveAt(q, i)
    BY <2>4, <2>5
  <2>. QED BY <1>3, <2>6, <2>7
<1>. QED BY <1>2, <1>3

\* Where the deferred delegations go that the end of a turn has to handle: the turn's
\* own first, then the others in their order.
Place(i, k) == IF i = 0 THEN k ELSE IF k = 1 THEN i ELSE IF k - 1 < i THEN k - 1 ELSE k

\* The list of deferred delegations to handle: own first, then the others as
\* Place orders them.
LEMMA TodoFacts ==
  ASSUME NEW D, NEW q \in Seq(D), NEW i \in 0..Len(q)
  PROVE  \E td \in Seq([own : BOOLEAN, of : D]) :
           /\ td = (IF i = 0 THEN <<>> ELSE <<[own |-> TRUE, of |-> q[i]]>>)
                   \o [j \in 1..Len(RemoveAt(q, i)) |->
                         [own |-> FALSE, of |-> RemoveAt(q, i)[j]]]
           /\ \A k \in 1..Len(td) : Place(i, k) \in 1..Len(q) /\ td[k].of = q[Place(i, k)]
           /\ \A k, m \in 1..Len(td) : Place(i, k) = Place(i, m) => k = m
<1>0. PICK T : T = [own : BOOLEAN, of : D]
  OBVIOUS
<1>1. PICK r \in Seq(D) :
        /\ r = RemoveAt(q, i)
        /\ Len(r) = IF i = 0 THEN Len(q) ELSE Len(q) - 1
        /\ \A j \in 1..Len(r) : r[j] = IF j < i \/ i = 0 THEN q[j] ELSE q[j + 1]
  BY RemainingFacts
<1>2. Len(q) \in Nat /\ Len(r) \in Nat
  OBVIOUS
<1>3. PICK a : /\ a = IF i = 0 THEN <<>> ELSE <<[own |-> TRUE, of |-> q[i]]>>
               /\ a \in Seq(T) /\ Len(a) = IF i = 0 THEN 0 ELSE 1
               /\ i # 0 => a[1].of = q[i]
  <2>1. CASE i = 0
    <3>1. PICK s : s = <<>> /\ s \in Seq(T) /\ Len(s) = 0
      BY EmptySeq
    <3>2. s = IF i = 0 THEN <<>> ELSE <<[own |-> TRUE, of |-> q[i]]>>
      BY <2>1, <3>1, Zenon
    <3>3. Len(s) = (IF i = 0 THEN 0 ELSE 1) /\ s \in Seq(T)
      BY <2>1, <3>1
    <3>. QED BY <2>1, <3>2, <3>3, Zenon
  <2>2. CASE i # 0
    <3>1. q[i] \in D
      BY <1>2, <2>2
    <3>2. PICK e \in T : e = [own |-> TRUE, of |-> q[i]] /\ e.of = q[i]
      <4>1. [own |-> TRUE, of |-> q[i]] \in T
        BY <1>0, <3>1
      <4>. QED BY <4>1
    <3>3. <<e>> \in Seq(T) /\ Len(<<e>>) = 1 /\ <<e>>[1] = e
      OBVIOUS
    <3>4. <<e>> = IF i = 0 THEN <<>> ELSE <<[own |-> TRUE, of |-> q[i]]>>
      BY <2>2, <3>2, Zenon
    <3>5. <<e>>[1].of = q[i]
      BY <3>2, <3>3
    <3>. QED BY <2>2, <3>3, <3>4, <3>5, Zenon
  <2>. QED BY <2>1, <2>2
<1>4. PICK b \in Seq(T) : /\ b = [j \in 1..Len(r) |-> [own |-> FALSE, of |-> r[j]]]
                         /\ Len(b) = Len(r) /\ \A j \in 1..Len(r) : b[j].of = r[j]
  <2>1. PICK b : b = [j \in 1..Len(r) |-> [own |-> FALSE, of |-> r[j]]]
    OBVIOUS
  <2>2. b \in [1..Len(r) -> T] /\ \A j \in 1..Len(r) : b[j].of = r[j]
    <3>1. \A j \in 1..Len(r) : r[j] \in D
      BY <1>2
    <3>. QED BY <1>0, <2>1, <3>1
  <2>3. b \in Seq(T)
    BY <1>2, <2>2, SeqDef
  <2>4. Len(b) = Len(r)
    BY <1>2, <2>2, <2>3, LenProperties
  <2>. QED BY <2>1, <2>2, <2>3, <2>4
<1>5. PICK td \in Seq(T) :
        /\ td = a \o b /\ Len(td) = Len(a) + Len(b)
        /\ \A k \in 1..(Len(a) + Len(b)) : td[k] = IF k <= Len(a) THEN a[k] ELSE b[k - Len(a)]
  <2>1. a \in Seq(T) /\ b \in Seq(T)
    BY <1>3, <1>4
  <2>2. /\ a \o b \in Seq(T) /\ Len(a \o b) = Len(a) + Len(b)
        /\ \A k \in 1..(Len(a) + Len(b)) :
             (a \o b)[k] = IF k <= Len(a) THEN a[k] ELSE b[k - Len(a)]
    BY <2>1, ConcatProperties
  <2>. QED BY <2>2, Zenon
<1>6. td = (IF i = 0 THEN <<>> ELSE <<[own |-> TRUE, of |-> q[i]]>>)
           \o [j \in 1..Len(RemoveAt(q, i)) |-> [own |-> FALSE, of |-> RemoveAt(q, i)[j]]]
  BY <1>1, <1>3, <1>4, <1>5, Zenon
<1>7. /\ Len(td) = Len(q) /\ Len(a) \in Nat
      /\ \A k \in 1..Len(q) : td[k] = IF k <= Len(a) THEN a[k] ELSE b[k - Len(a)]
  <2>1. Len(a) = (IF i = 0 THEN 0 ELSE 1) /\ Len(b) = Len(r)
    BY <1>3, <1>4
  <2>2. Len(a) + Len(b) = Len(q)
    BY <1>1, <1>2, <2>1
  <2>. QED BY <1>5, <2>1, <2>2
<1>8. ASSUME NEW k \in 1..Len(td)
      PROVE  Place(i, k) \in 1..Len(q) /\ td[k].of = q[Place(i, k)]
  <2>0. k \in 1..Len(q) /\ k \in Nat
    BY <1>2, <1>7
  <2>1. CASE i = 0
    <3>1. Len(a) = 0 /\ Len(r) = Len(q)
      BY <1>1, <1>3, <2>1
    <3>2. td[k] = b[k] /\ k \in 1..Len(r)
      BY <1>2, <1>7, <2>0, <3>1
    <3>3. td[k].of = q[k]
      BY <1>1, <1>4, <2>1, <3>2
    <3>. QED BY <2>0, <2>1, <3>3 DEF Place
  <2>2. CASE i # 0 /\ k = 1
    <3>1. Len(a) = 1
      BY <1>3, <2>2
    <3>2. td[k] = a[k] /\ a[k] = a[1]
      <4>1. k <= Len(a)
        BY <2>2, <3>1
      <4>. QED BY <1>7, <2>0, <2>2, <4>1, Zenon
    <3>3. td[k].of = q[i] /\ i \in 1..Len(q)
      BY <1>2, <1>3, <2>2, <3>2
    <3>. QED BY <2>2, <3>3 DEF Place
  <2>3. CASE i # 0 /\ k # 1
    <3>1. Len(a) = 1 /\ Len(r) = Len(q) - 1
      BY <1>1, <1>3, <2>3
    <3>2. td[k] = b[k - 1] /\ k - 1 \in 1..Len(r)
      BY <1>2, <1>7, <2>0, <2>3, <3>1
    <3>3. b[k - 1].of = r[k - 1]
      BY <1>4, <3>2
    <3>4. r[k - 1] = IF k - 1 < i THEN q[k - 1] ELSE q[k - 1 + 1]
      BY <1>1, <2>3, <3>2
    <3>5. Place(i, k) = IF k - 1 < i THEN k - 1 ELSE k
      BY <2>3 DEF Place
    <3>6. k - 1 + 1 = k /\ k - 1 \in 1..Len(q)
      BY <1>2, <2>0, <2>3
    <3>. QED BY <2>0, <3>2, <3>3, <3>4, <3>5, <3>6
  <2>. QED BY <2>1, <2>2, <2>3
<1>9. \A k, m \in 1..Len(td) : Place(i, k) = Place(i, m) => k = m
  BY <1>2, <1>7 DEF Place
<1>. QED BY <1>0, <1>6, <1>8, <1>9

\* The deferred delegation of the turn's own text, if there is one.
LEMMA CurrentFacts ==
  ASSUME TurnsInv, NEW text
  PROVE  Current(text) \in 0..Len(deferred)
<1>. DEFINE same == {i \in DOMAIN deferred : deferred[i].text = text}
<1>1. DOMAIN deferred = 1..Len(deferred) /\ Len(deferred) \in Nat
  BY LenProperties DEF TurnsInv, DeferredOK
<1>2. same \subseteq 1..Len(deferred)
  BY <1>1
<1>3. CASE same # {}
  <2>1. \E m \in same : \A n \in same : m <= n
    <3>1. same \in SUBSET Nat
      BY <1>1, <1>2
    <3>. HIDE DEF same
    <3>. QED BY <1>3, <3>1, LeastExists
  <2>2. Current(text) \in same
    BY <1>3, <2>1 DEF Current
  <2>. QED BY <1>1, <1>2, <2>2
<1>4. CASE same = {}
  BY <1>1, <1>4 DEF Current
<1>. QED BY <1>3, <1>4

\* The user's turn is done: the deferred delegations become the list to handle.
LEMMA UserTurnDoneKeeps ==
  ASSUME TurnsInv, UserTurnDone
  PROVE  TurnsInv'
<1>1. /\ ~finalizing /\ ~closed /\ state # "connecting" /\ in_turn' = TRUE
      /\ in_turn \/ turn < MaxTurn
      /\ turn' = IF in_turn THEN turn ELSE turn + 1
      /\ deferred' = <<>> /\ finalizing' = TRUE /\ out' = [out EXCEPT !.ack = TRUE]
      /\ UNCHANGED <<transport_vars, session_vars, active_delegation, bound, delegation_vars,
                     writes, speech, due, fate, provider_vars>>
  BY DEF UserTurnDone, Delivering, LockFree
<1>. USE DEF session_vars, delegation_vars, provider_vars
<1>2. ReaderSteps
  BY <1>1, TransportMoves DEF TurnsInv
<1>3. /\ turn' \in Turns /\ turn' \in 0..MaxTurn /\ turn \in Nat /\ turn' \in Nat
      /\ turn <= turn' /\ (~in_turn => turn < turn')
  <2>1. CASE in_turn
    BY <1>1, <2>1, BoundFacts DEF TurnsInv, SessionOK, Turns
  <2>2. CASE ~in_turn
    BY <1>1, <2>2, BoundFacts DEF TurnsInv, SessionOK, Turns
  <2>. QED BY <2>1, <2>2
<1>4. SessionOK'
  BY <1>1, <1>3 DEF TurnsInv, SessionOK, PendingBlocksSwitch
<1>5. IdsOK'
  <2>1. \A t \in Turns : fate[SyntheticId(t)] # "none" => t < turn'
    <3>. SUFFICES ASSUME NEW t \in Turns, fate[SyntheticId(t)] # "none" PROVE t < turn'
      OBVIOUS
    <3>1. t <= turn /\ (t = turn => ~in_turn) /\ t \in Nat
      BY BoundFacts DEF TurnsInv, IdsOK
    <3>. QED BY <1>1, <1>3, <3>1
  <2>2. \A t \in Turns : fate'[SyntheticId(t)] # "none" => t <= turn' /\ t # turn'
    BY <1>1, <1>3, <2>1, BoundFacts
  <2>. QED BY <1>1, <2>2 DEF TurnsInv, IdsOK
<1>6. BoundOK' /\ OutputOK'
  BY <1>1 DEF TurnsInv, BoundOK, TurnsDoNotShareRequests, OutputOK, AnswerIsHeard,
               ComesNext, Output
<1>7. DeferredOK'
  <2>1. deferred' \in Seq(Deferred) /\ Len(deferred') = 0
    BY <1>1, EmptySeq
  <2>. QED BY <2>1, BoundFacts DEF DeferredOK
<1>8. TodoOK'
  <2>1. PICK i \in 0..Len(deferred) :
          todo' = (IF i = 0 THEN <<>> ELSE <<[own |-> TRUE, of |-> deferred[i]]>>)
                  \o [j \in 1..Len(RemoveAt(deferred, i)) |->
                        [own |-> FALSE, of |-> RemoveAt(deferred, i)[j]]]
    BY CurrentFacts DEF UserTurnDone
  <2>2. /\ deferred \in Seq(Deferred) /\ \A j \in 1..Len(deferred) : Fresh(deferred[j].n)
        /\ \A j, k \in 1..Len(deferred) : deferred[j].n = deferred[k].n => j = k
    BY DEF TurnsInv, DeferredOK
  <2>3. PICK td \in Seq([own : BOOLEAN, of : Deferred]) :
          /\ td = (IF i = 0 THEN <<>> ELSE <<[own |-> TRUE, of |-> deferred[i]]>>)
                  \o [j \in 1..Len(RemoveAt(deferred, i)) |->
                        [own |-> FALSE, of |-> RemoveAt(deferred, i)[j]]]
          /\ \A k \in 1..Len(td) :
               Place(i, k) \in 1..Len(deferred) /\ td[k].of = deferred[Place(i, k)]
          /\ \A k, m \in 1..Len(td) : Place(i, k) = Place(i, m) => k = m
    BY <2>2, TodoFacts
  <2>4. td = todo'
    BY <2>1, <2>3, Zenon
  <2>5. \A m : Fresh(m) => Fresh(m)'
    BY <1>1 DEF Fresh
  <2>6. \A k \in 1..Len(td) : Fresh(td[k].of.n)
    BY <2>2, <2>3
  <2>7. \A k, m \in 1..Len(td) : td[k].of.n = td[m].of.n => k = m
    <3>. SUFFICES ASSUME NEW k \in 1..Len(td), NEW m \in 1..Len(td), td[k].of.n = td[m].of.n
                  PROVE  k = m
      OBVIOUS
    <3>1. Place(i, k) = Place(i, m)
      BY <2>2, <2>3
    <3>. QED BY <2>3, <3>1
  <2>8. \A k \in 1..Len(todo') : Fresh(todo[k].of.n)'
    BY <2>4, <2>5, <2>6
  <2>9. todo' \in Seq([own : BOOLEAN, of : Deferred])
    BY <2>3, <2>4
  <2>10. \A k, m \in 1..Len(todo') : todo'[k].of.n = todo'[m].of.n => k = m
    BY <2>4, <2>7
  <2>. QED BY <1>1, <2>8, <2>9, <2>10 DEF TodoOK
<1>9. Relabels(synthetic', synthetic) /\ NoMoreSpoken(synthetic', synthetic)
  BY <1>1, SubsetRelabels DEF TurnsInv, RecordsOK, PruningOK, Records, Unique
<1>10. RecordsOK' /\ PruningOK'
  BY <1>1, <1>2, <1>9, RecordsKept DEF TurnsInv, RecordsOK
<1>. QED BY <1>2, <1>4, <1>5, <1>6, <1>7, <1>8, <1>10 DEF TurnsInv, ReaderSteps

\* The first of a sequence is its head, and the others are its tail.
LEMMA FirstOfMany ==
  ASSUME NEW S, NEW s \in Seq(S), s # <<>>
  PROVE  /\ Len(s) \in Nat /\ 1 <= Len(s) /\ Head(s) \in S /\ Head(s) = s[1]
         /\ Tail(s) \in Seq(S) /\ Len(Tail(s)) = Len(s) - 1
         /\ \A k \in 1..Len(Tail(s)) : k + 1 \in 1..Len(s) /\ Tail(s)[k] = s[k + 1]
<1>1. Len(s) \in Nat /\ 1 <= Len(s)
  BY EmptySeq
<1>2. /\ Head(s) \in S /\ Tail(s) \in Seq(S) /\ Len(Tail(s)) = Len(s) - 1
      /\ \A k \in 1..Len(Tail(s)) : Tail(s)[k] = s[k + 1]
  BY HeadTailProperties
<1>3. Head(s) = s[1]
  OBVIOUS
<1>4. \A k \in 1..(Len(s) - 1) : k + 1 \in 1..Len(s)
  BY <1>1
<1>. QED BY <1>1, <1>2, <1>3, <1>4

\* The next deferred delegation is handled, and the others wait.
LEMMA ResolveNextKeeps ==
  ASSUME TurnsInv, ResolveNext
  PROVE  TurnsInv'
<1>1. /\ finalizing /\ todo # <<>> /\ todo' = Tail(todo)
      /\ UNCHANGED <<transport_vars, speaking, closed, turn, in_turn, deferred, finalizing,
                     bound, provider_vars>>
  BY DEF ResolveNext
<1>2. ReaderSteps
  BY <1>1, TransportMoves DEF TurnsInv
<1>3. PICK next : next = Head(todo)
  OBVIOUS
<1>4. Handle(next.of.n, next.of.text, next.own, ~next.own)
  BY <1>3 DEF ResolveNext
<1>5. todo \in Seq([own : BOOLEAN, of : Deferred])
  BY DEF TurnsInv, TodoOK
<1>6. PICK rest \in Seq([own : BOOLEAN, of : Deferred]) :
        /\ rest = todo' /\ Len(todo) \in Nat /\ Len(rest) = Len(todo) - 1 /\ 1 <= Len(todo)
        /\ \A k \in 1..Len(rest) : k + 1 \in 1..Len(todo) /\ rest[k] = todo[k + 1]
        /\ next = todo[1] /\ next \in [own : BOOLEAN, of : Deferred]
  <2>1. PICK T : T = [own : BOOLEAN, of : Deferred]
    OBVIOUS
  <2>2. PICK s \in Seq(T) : s = todo /\ s # <<>>
    BY <1>1, <1>5, <2>1
  <2>3. /\ Len(s) \in Nat /\ 1 <= Len(s) /\ Head(s) \in T /\ Head(s) = s[1]
        /\ Tail(s) \in Seq(T) /\ Len(Tail(s)) = Len(s) - 1
        /\ \A k \in 1..Len(Tail(s)) : k + 1 \in 1..Len(s) /\ Tail(s)[k] = s[k + 1]
    BY <2>2, FirstOfMany
  <2>4. PICK t : t = Tail(s)
    OBVIOUS
  <2>5. t = todo' /\ next = Head(s)
    BY <1>1, <1>3, <2>2, <2>4
  <2>6. /\ t \in Seq(T) /\ Len(t) = Len(s) - 1 /\ next = s[1] /\ next \in T
        /\ \A k \in 1..Len(t) : k + 1 \in 1..Len(s) /\ t[k] = s[k + 1]
    BY <2>3, <2>4, <2>5, Zenon
  <2>. QED BY <2>1, <2>2, <2>3, <2>5, <2>6
<1>7. /\ next.of.n \in Delegations /\ next.own \in BOOLEAN /\ (~next.own) \in BOOLEAN
      /\ Fresh(next.of.n)
  <2>1. 1 \in 1..Len(todo) /\ todo[1] = next
    BY <1>6
  <2>2. Fresh(todo[1].of.n)
    BY <2>1 DEF TurnsInv, TodoOK
  <2>3. next.own \in BOOLEAN
    BY <1>6
  <2>4. Fresh(next.of.n)
    BY <2>1, <2>2
  <2>5. next.of.n \in Delegations
    BY <2>4 DEF Fresh
  <2>. QED BY <2>3, <2>4, <2>5
<1>8. /\ SessionOK' /\ IdsOK' /\ BoundOK' /\ OutputOK' /\ RecordsOK' /\ PruningOK'
      /\ \A m : Fresh(m) /\ m # next.of.n => Fresh(m)'
  <2>1. PICK n, text, own, match :
          n = next.of.n /\ text = next.of.text /\ own = next.own /\ match = ~next.own
    OBVIOUS
  <2>2. /\ n \in Delegations /\ own \in BOOLEAN /\ match \in BOOLEAN /\ Fresh(n)
        /\ Handle(n, text, own, match)
    BY <1>4, <1>7, <2>1, Zenon
  <2>3. /\ fate[ProviderId(n)] = "none" /\ n <= delegations' /\ delegations <= delegations'
        /\ delegations' \in 0..MaxDelegation /\ state # "connecting"
    BY <1>1, <2>2, BoundFacts DEF Fresh, provider_vars, TurnsInv, SessionOK
  <2>4. UNCHANGED <<speaking, closed, turn, in_turn, finalizing, bound, said>>
    BY <1>1 DEF provider_vars
  <2>. QED BY <1>2, <2>1, <2>2, <2>3, <2>4, HandleKeeps
<1>9. DeferredOK'
  <2>1. deferred' \in Seq(Deferred) /\ Len(deferred') = 0
    BY <1>1, EmptySeq DEF TurnsInv, TodoOK
  <2>. QED BY <2>1, BoundFacts DEF DeferredOK
<1>10. TodoOK'
  <2>1. \A i, j \in 1..Len(todo) : todo[i].of.n = todo[j].of.n => i = j
    BY DEF TurnsInv, TodoOK
  <2>2. \A k \in 1..Len(rest) : Fresh(rest[k].of.n) /\ rest[k].of.n # next.of.n
    <3>. SUFFICES ASSUME NEW k \in 1..Len(rest)
                  PROVE  Fresh(rest[k].of.n) /\ rest[k].of.n # next.of.n
      OBVIOUS
    <3>1. /\ k + 1 \in 1..Len(todo) /\ 1 \in 1..Len(todo) /\ k + 1 # 1
          /\ rest[k] = todo[k + 1] /\ next = todo[1]
      BY <1>6
    <3>2. Fresh(todo[k + 1].of.n)
      BY <3>1 DEF TurnsInv, TodoOK
    <3>. QED BY <2>1, <3>1, <3>2
  <2>3. \A i, j \in 1..Len(rest) : rest[i].of.n = rest[j].of.n => i = j
    <3>. SUFFICES ASSUME NEW i \in 1..Len(rest), NEW j \in 1..Len(rest),
                         rest[i].of.n = rest[j].of.n
                  PROVE  i = j
      OBVIOUS
    <3>1. i + 1 = j + 1
      BY <1>6, <2>1
    <3>. QED BY <3>1
  <2>4. \A k \in 1..Len(todo') : Fresh(todo[k].of.n)'
    BY <1>6, <1>8, <2>2
  <2>5. /\ todo' \in Seq([own : BOOLEAN, of : Deferred])
        /\ \A i, j \in 1..Len(todo') : todo'[i].of.n = todo'[j].of.n => i = j
    BY <1>6, <2>3
  <2>6. finalizing' = TRUE /\ deferred' = <<>>
    BY <1>1 DEF TurnsInv, TodoOK, SessionOK
  <2>. QED BY <2>4, <2>5, <2>6 DEF TodoOK
<1>. QED BY <1>2, <1>8, <1>9, <1>10 DEF TurnsInv, ReaderSteps

\* A turn that ends takes its own id, if it needs one.
LEMMA UserTurnEndsKeeps ==
  ASSUME TurnsInv, UserTurnEnds
  PROVE  TurnsInv'
<1>1. /\ finalizing /\ todo = <<>> /\ finalizing' = FALSE /\ in_turn' = FALSE
      /\ active_delegation' = None
      /\ UNCHANGED <<transport_vars, speaking, closed, turn, deferred, todo, out, writes,
                     speech, due, provider_vars>>
  BY DEF UserTurnEnds, DelegationAfterTurn
<1>. USE DEF provider_vars
<1>2. ReaderSteps
  BY <1>1, TransportMoves DEF TurnsInv
<1>3. turn \in Turns /\ turn \in Nat /\ SyntheticId(turn) \in Ids
      /\ fate[SyntheticId(turn)] = "none" /\ deferred = <<>> /\ state # "connecting"
  BY <1>1, IdFacts, BoundFacts DEF TurnsInv, SessionOK, IdsOK, TodoOK
<1>4. CASE said[turn] # NoText /\ active_delegation = None
  <2>1. PICK syn \in Pruned(synthetic) : synthetic' = syn \cup {NewSynthetic(turn)}
    BY <1>4 DEF UserTurnEnds
  <2>2. /\ pending' = pending \cup {SyntheticId(turn)} /\ state' = Moved("thinking")
        /\ fate' = [fate EXCEPT ![SyntheticId(turn)] = "requested"]
        /\ bound' = [bound EXCEPT ![turn] = SyntheticId(turn)]
    BY <1>4 DEF UserTurnEnds
  <2>3. /\ fate' \in [Ids -> Ledger!Fate]
        /\ \A id \in Ids : fate'[id] = IF id = SyntheticId(turn) THEN "requested" ELSE fate[id]
    BY <1>3, <2>2 DEF TurnsInv, IdsOK, Ledger!Fate
  <2>4. SessionOK'
    <3>1. state' = IF state = "failed" THEN "failed" ELSE "thinking"
      BY <1>3, <2>2 DEF Moved, TurnsInv, SessionOK, States
    <3>. QED BY <1>1, <3>1 DEF TurnsInv, SessionOK, PendingBlocksSwitch, States
  <2>5. IdsOK'
    <3>1. pending' = {id \in Ids : fate'[id] = "requested"}
      BY <1>3, <2>2, <2>3 DEF TurnsInv, IdsOK
    <3>2. \A t \in Turns : fate'[SyntheticId(t)] # "none" => t <= turn
      BY <1>3, <2>3, IdFacts DEF TurnsInv, IdsOK
    <3>3. \A d \in Delegations : fate'[ProviderId(d)] = fate[ProviderId(d)]
      BY <2>3, IdFacts
    <3>. QED BY <1>1, <2>3, <3>1, <3>2, <3>3 DEF TurnsInv, IdsOK
  <2>6. BoundOK'
    <3>1. \A t \in Turns : bound[t] # SyntheticId(turn)
      BY <1>3, IdFacts DEF TurnsInv, BoundOK, TurnsDoNotShareRequests
    <3>2. \A id \in Ids : fate[id] # "none" => fate'[id] # "none"
      BY <2>3
    <3>3. fate'[SyntheticId(turn)] # "none"
      BY <1>3, <2>3
    <3>. QED BY <1>1, <1>3, <2>2, <3>1, <3>2, <3>3
             DEF TurnsInv, BoundOK, TurnsDoNotShareRequests
  <2>7. RecordsOK'
    <3>1. syn \subseteq synthetic
      BY <2>1, PrunedIsSubset
    <3>2. /\ NewSynthetic(turn) \in Synthetic /\ NewSynthetic(turn).turn = turn
          /\ NewSynthetic(turn).answered = FALSE
      BY <1>3 DEF NewSynthetic, Synthetic
    <3>3. \A r \in syn : /\ r.turn # turn /\ SyntheticId(r.turn) \in Ids
                         /\ SyntheticId(r.turn) # SyntheticId(turn)
      <4>. SUFFICES ASSUME NEW r \in syn
                    PROVE  /\ r.turn # turn /\ SyntheticId(r.turn) \in Ids
                           /\ SyntheticId(r.turn) # SyntheticId(turn)
        OBVIOUS
      <4>1. r.turn \in Turns /\ fate[SyntheticId(r.turn)] # "none"
        BY <3>1 DEF TurnsInv, RecordsOK, Synthetic
      <4>2. r.turn # turn
        BY <1>3, <4>1
      <4>. QED BY <4>1, <4>2, IdFacts
    <3>4. synthetic' \subseteq Synthetic /\ writes' \subseteq Write
      BY <1>1, <2>1, <3>1, <3>2 DEF TurnsInv, RecordsOK
    <3>5. \A r, q \in synthetic' : r.turn = q.turn => r = q
      BY <2>1, <3>1, <3>2, <3>3 DEF TurnsInv, RecordsOK
    <3>6. \A r \in synthetic' : fate'[SyntheticId(r.turn)] # "none"
      BY <1>3, <2>1, <2>3, <3>1, <3>2, <3>3 DEF TurnsInv, RecordsOK
    <3>7. Settled(synthetic', fate')
      BY <1>3, <2>1, <2>3, <3>1, <3>2, <3>3 DEF TurnsInv, RecordsOK, Settled
    <3>. QED BY <3>4, <3>5, <3>6, <3>7 DEF RecordsOK
  <2>8. PruningOK'
    <3>1. IsFiniteSet(syn) /\ Cardinality(Spoken(syn)) <= MaxTombstones
      BY <2>1, PrunedCount DEF TurnsInv, RecordsOK, PruningOK
    <3>2. IsFiniteSet(synthetic') /\ Spoken(synthetic') = Spoken(syn)
      <4>1. IsFiniteSet(synthetic')
        BY <2>1, <3>1, FS_AddElement
      <4>2. NewSynthetic(turn).spoken = FALSE
        BY DEF NewSynthetic
      <4>3. Spoken(synthetic') = Spoken(syn)
        BY <2>1, <4>2 DEF Spoken
      <4>. QED BY <4>1, <4>3
    <3>3. Cardinality(Spoken(synthetic')) <= MaxTombstones
      BY <3>1, <3>2
    <3>4. Cardinality(Spoken(synthetic')) <= MaxTombstones + 1
      BY <3>2, <3>3, SpokenFacts, BoundFacts
    <3>. QED BY <3>2, <3>3, <3>4 DEF PruningOK, Spoken
  <2>9. \A m : Fresh(m) => Fresh(m)'
    BY <1>1, <2>3, IdFacts DEF Fresh
  <2>10. DeferredOK' /\ TodoOK' /\ OutputOK'
    BY <1>1, <2>9 DEF TurnsInv, DeferredOK, TodoOK, OutputOK, AnswerIsHeard
  <2>. QED BY <1>2, <2>4, <2>5, <2>6, <2>7, <2>8, <2>10 DEF TurnsInv, ReaderSteps
<1>5. CASE ~(said[turn] # NoText /\ active_delegation = None)
  <2>1. bound' = [bound EXCEPT ![turn] = active_delegation]
        /\ UNCHANGED <<pending, synthetic, state, fate>>
    BY <1>5 DEF UserTurnEnds
  <2>2. SessionOK' /\ OutputOK'
    BY <1>1, <2>1 DEF TurnsInv, SessionOK, PendingBlocksSwitch, OutputOK, AnswerIsHeard
  <2>3. IdsOK'
    BY <1>1, <2>1 DEF TurnsInv, IdsOK
  <2>4. BoundOK'
    BY <1>1, <1>3, <2>1 DEF TurnsInv, BoundOK, TurnsDoNotShareRequests
  <2>5. \A m : Fresh(m) => Fresh(m)'
    BY <1>1, <2>1 DEF Fresh
  <2>6. DeferredOK' /\ TodoOK'
    BY <1>1, <2>5 DEF TurnsInv, DeferredOK, TodoOK
  <2>7. Relabels(synthetic', synthetic) /\ NoMoreSpoken(synthetic', synthetic)
    BY <2>1, SubsetRelabels DEF TurnsInv, RecordsOK, PruningOK, Records, Unique
  <2>8. RecordsOK' /\ PruningOK'
    BY <1>1, <1>2, <2>1, <2>7, RecordsKept DEF TurnsInv, RecordsOK
  <2>. QED BY <1>2, <2>2, <2>3, <2>4, <2>6, <2>8 DEF TurnsInv, ReaderSteps
<1>. QED BY <1>4, <1>5
-------------------------------------------------------------------------------
(* The provider's speech.                                                   *)

\* A step that concerns nothing but the output and how the session is shown.
LEMMA OutputChangeKeeps ==
  ASSUME TurnsInv, OutputOK', SessionOK',
         UNCHANGED <<transport_vars, turn_vars, delegation_vars, writes, fate, provider_vars>>
  PROVE  TurnsInv'
<1>1. ReaderSteps
  BY TransportMoves DEF TurnsInv
<1>2. UNCHANGED <<turn, in_turn, deferred, active_delegation, finalizing, todo, bound,
                  pending, synthetic, said, delegations>>
  BY DEF turn_vars, delegation_vars, provider_vars
<1>3. IdsOK' /\ BoundOK' /\ DeferredOK' /\ TodoOK'
  BY <1>2, IdsKept DEF FateMoves, HandlerSteps, TurnsInv, IdsOK, provider_vars
<1>4. Relabels(synthetic', synthetic) /\ NoMoreSpoken(synthetic', synthetic)
  BY <1>2, SubsetRelabels DEF TurnsInv, RecordsOK, PruningOK, Records, Unique
<1>5. RecordsOK' /\ PruningOK'
  BY <1>1, <1>2, <1>4, RecordsKept DEF TurnsInv, RecordsOK
<1>. QED BY <1>1, <1>3, <1>5 DEF TurnsInv, ReaderSteps

\* The first output after an answer was given is let through, and is that answer.
LEMMA BeginsFacts ==
  ASSUME TurnsInv, Begins
  PROVE  /\ OutputIs(Authorized(out), speech', due') /\ Authorized(out).owner = out.owner
         /\ ~Authorized(out).authorized =>
              OutputIs([out EXCEPT !.unauthorized = TRUE], speech', due')
         /\ speech' # "none"
<1>1. /\ out \in Output /\ due \in Due /\ speech \in Speech
      /\ out.awaiting => out.owner # None
      /\ due = "next" => out.owner # None /\ (out.awaiting \/ out.authorized)
      /\ speech = "answer" => out.authorized
      /\ out.awaiting => ~out.authorized
  BY DEF TurnsInv, OutputOK, ComesNext, AnswerIsHeard
<1>2. /\ due' \in Due \ {"next"} /\ speech' \in Speech \ {"none"}
      /\ speech' = "answer" => speech = "answer" \/ due = "next"
  BY <1>1 DEF Begins, Overtaken, Speech, Due
<1>3. /\ Authorized(out) \in Output /\ Authorized(out).owner = out.owner
      /\ Authorized(out).awaiting => out.awaiting /\ ~Authorized(out).authorized
      /\ out.authorized => Authorized(out).authorized
      /\ out.awaiting => Authorized(out).authorized
      /\ ~Authorized(out).authorized => Authorized(out) = out
  BY <1>1 DEF Authorized, Output
<1>4. OutputIs(Authorized(out), speech', due')
  <2>1. PICK o : o = Authorized(out)
    OBVIOUS
  <2>2. speech' = "answer" => o.authorized
    BY <1>1, <1>2, <1>3, <2>1
  <2>3. OutputIs(o, speech', due')
    BY <1>1, <1>2, <1>3, <2>1, <2>2 DEF OutputIs
  <2>. QED BY <2>1, <2>3
<1>5. /\ [out EXCEPT !.unauthorized = TRUE] \in Output
      /\ [out EXCEPT !.unauthorized = TRUE].owner = out.owner
      /\ [out EXCEPT !.unauthorized = TRUE].awaiting = out.awaiting
      /\ [out EXCEPT !.unauthorized = TRUE].authorized = out.authorized
  BY <1>1 DEF Output
<1>6. ~Authorized(out).authorized => OutputIs([out EXCEPT !.unauthorized = TRUE], speech', due')
  BY <1>1, <1>2, <1>3, <1>5 DEF OutputIs
<1>. QED BY <1>1, <1>2, <1>3, <1>4, <1>6

\* The provider begins to speak.
LEMMA OutputBeginsKeeps ==
  ASSUME TurnsInv, OutputText \/ OutputAudio
  PROVE  TurnsInv'
<1>1. Begins /\ UNCHANGED <<transport_vars, turn_vars, delegation_vars, writes, fate,
                            provider_vars, closed>>
  BY DEF OutputText, OutputAudio, session_vars
<1>2. OutputOK'
  <2>1. \/ out' = Authorized(out)
        \/ out' = [out EXCEPT !.unauthorized = TRUE] /\ ~Authorized(out).authorized
    BY DEF OutputText, OutputAudio, LetsThrough
  <2>. QED BY <1>1, <2>1, BeginsFacts DEF OutputOK, AnswerIsHeard, OutputIs
<1>3. SessionOK'
  <2>. USE DEF turn_vars, delegation_vars, provider_vars
  <2>1. CASE UNCHANGED <<state, speaking>>
    BY <1>1, <2>1 DEF TurnsInv, SessionOK, PendingBlocksSwitch
  <2>2. CASE speaking' = TRUE /\ state' = IF speaking THEN state ELSE Moved("speaking")
    <3>1. state \in States /\ speaking \in BOOLEAN
      BY DEF TurnsInv, SessionOK
    <3>2. \/ state' = state
          \/ state' = "speaking" /\ state \in {"listening", "thinking"}
      BY <2>2, <3>1 DEF Moved
    <3>. QED BY <1>1, <2>2, <3>1, <3>2 DEF TurnsInv, SessionOK, PendingBlocksSwitch, States
  <2>. QED BY <2>1, <2>2 DEF OutputText, OutputAudio, session_vars
<1>. QED BY <1>1, <1>2, <1>3, OutputChangeKeeps

\* Audio that carries nothing only authorizes.
LEMMA SilentAudioKeeps ==
  ASSUME TurnsInv, SilentAudio
  PROVE  TurnsInv'
<1>1. /\ out' = Authorized(out)
      /\ due' = IF speech = "none" THEN due ELSE Overtaken(due)
      /\ UNCHANGED <<transport_vars, session_vars, turn_vars, delegation_vars, writes,
                     speech, fate, provider_vars>>
  BY DEF SilentAudio
<1>2. OutputOK'
  <2>1. /\ due' \in Due
        /\ due' = "next" => due = "next" /\ speech = "none"
    BY <1>1 DEF TurnsInv, OutputOK, Overtaken, Due
  <2>. QED BY <1>1, <2>1 DEF TurnsInv, OutputOK, ComesNext, AnswerIsHeard, Authorized, Output
<1>3. SessionOK'
  BY <1>1 DEF TurnsInv, SessionOK, PendingBlocksSwitch, session_vars, turn_vars,
     delegation_vars, provider_vars
<1>. QED BY <1>1, <1>2, <1>3, OutputChangeKeeps

\* The end of a turn that is not the output's.
LEMMA ForeignTurnDoneKeeps ==
  ASSUME TurnsInv, ForeignTurnDone
  PROVE  TurnsInv'
<1>1. /\ out' = [out EXCEPT !.unauthorized = FALSE] /\ speech' = "none"
      /\ UNCHANGED <<transport_vars, session_vars, turn_vars, delegation_vars, writes, due,
                     fate, provider_vars>>
  BY DEF ForeignTurnDone
<1>2. OutputOK'
  BY <1>1 DEF TurnsInv, OutputOK, ComesNext, AnswerIsHeard, Output, Speech
<1>3. SessionOK'
  BY <1>1 DEF TurnsInv, SessionOK, PendingBlocksSwitch, session_vars, turn_vars,
     delegation_vars, provider_vars
<1>. QED BY <1>1, <1>2, <1>3, OutputChangeKeeps

\* The record whose answer was spoken, or whose delegation is no longer awaited.
Concludes(r, new) ==
  \/ /\ SyntheticId(r.turn) = out.owner /\ LetsThrough(out)
     /\ new = [r EXCEPT !.spoken = TRUE]
  \/ /\ out.owner = None /\ ~r.resolved /\ ~r.sent
     /\ new = [r EXCEPT !.resolved = TRUE]

\* The end of an output concludes one record at most.
LEMMA ConcludedFacts ==
  ASSUME TurnsInv
  PROVE  \/ Concluded = synthetic
         \/ \E r \in synthetic, new \in Synthetic :
              Concludes(r, new) /\ Concluded = Updated(synthetic, r, new)
<1>. DEFINE spoken == {r \in RecordOf(out.owner, synthetic) : LetsThrough(out)}
            waiting == {r \in Unresolved(synthetic) : out.owner = None}
<1>1. synthetic \in SUBSET Synthetic
  BY DEF TurnsInv, RecordsOK
<1>2. spoken \in SUBSET synthetic /\ waiting \in SUBSET synthetic
  BY DEF RecordOf, Unresolved
<1>3. CASE spoken # {}
  <2>1. PICK r : r = First(spoken)
    OBVIOUS
  <2>2. r \in spoken
    <3>. HIDE DEF spoken
    <3>. QED BY <1>1, <1>2, <1>3, <2>1, FirstFacts
  <2>3. PICK new : new = [r EXCEPT !.spoken = TRUE]
    OBVIOUS
  <2>4. Concluded = Updated(synthetic, r, new)
    BY <1>3, <2>1, <2>3 DEF Concluded
  <2>5. r \in synthetic /\ new \in Synthetic
    BY <1>1, <1>2, <2>2, <2>3 DEF Synthetic
  <2>6. Concludes(r, new)
    BY <2>2, <2>3 DEF Concludes, RecordOf
  <2>. QED BY <2>4, <2>5, <2>6
<1>4. CASE spoken = {} /\ waiting # {}
  <2>1. PICK r : r = First(waiting)
    OBVIOUS
  <2>2. r \in waiting
    <3>. HIDE DEF waiting
    <3>. QED BY <1>1, <1>2, <1>4, <2>1, FirstFacts
  <2>3. PICK new : new = [r EXCEPT !.resolved = TRUE]
    OBVIOUS
  <2>4. Concluded = Updated(synthetic, r, new)
    BY <1>4, <2>1, <2>3 DEF Concluded
  <2>5. r \in synthetic /\ new \in Synthetic
    BY <1>1, <1>2, <2>2, <2>3 DEF Synthetic
  <2>6. Concludes(r, new)
    BY <2>2, <2>3 DEF Concludes, Unresolved
  <2>. QED BY <2>4, <2>5, <2>6
<1>5. CASE spoken = {} /\ waiting = {}
  BY <1>5 DEF Concluded
<1>. QED BY <1>3, <1>4, <1>5

\* One record more is spoken, at most.
LEMMA ConcludedCount ==
  ASSUME TurnsInv
  PROVE  /\ RecordsAre(Concluded, fate)
         /\ Cardinality(Spoken(Concluded)) <= Cardinality(Spoken(synthetic)) + 1
<1>1. Records(synthetic) /\ Settled(synthetic, fate)
  BY DEF TurnsInv, RecordsOK, PruningOK, Records, Unique
<1>2. IsFiniteSet(Spoken(synthetic)) /\ Cardinality(Spoken(synthetic)) \in Nat
  BY <1>1, SpokenFacts DEF Records
<1>3. CASE Concluded = synthetic
  <2>1. Relabels(synthetic, synthetic)
    BY <1>1, SubsetRelabels
  <2>. QED BY <1>1, <1>2, <1>3, <2>1 DEF RecordsAre
<1>4. ASSUME NEW r \in synthetic, NEW new \in Synthetic, Concludes(r, new)
      PROVE  /\ RecordsAre(Updated(synthetic, r, new), fate)
             /\ Cardinality(Spoken(Updated(synthetic, r, new)))
                  <= Cardinality(Spoken(synthetic)) + 1
  <2>. DEFINE syn == Updated(synthetic, r, new)
  <2>1. new.turn = r.turn /\ new.answered = r.answered
    BY <1>1, <1>4 DEF Concludes, Records, Synthetic
  <2>2. IsFiniteSet(syn)
    BY <1>1, FS_RemoveElement, FS_AddElement DEF Records, Updated
  <2>3. /\ Unique(syn) /\ syn \in SUBSET Synthetic
        /\ \A q \in syn : \E p \in synthetic : p.turn = q.turn
    BY <1>1, <2>1 DEF Records, Unique, Updated
  <2>4. Settled(syn, fate)
    BY <1>1, <2>1 DEF Settled, Updated
  <2>5. /\ Spoken(syn) \in SUBSET (Spoken(synthetic) \cup {new})
        /\ IsFiniteSet(Spoken(synthetic) \cup {new})
        /\ Cardinality(Spoken(synthetic) \cup {new}) \in
             {Cardinality(Spoken(synthetic)), Cardinality(Spoken(synthetic)) + 1}
    <3>1. Spoken(syn) \in SUBSET (Spoken(synthetic) \cup {new})
      BY DEF Spoken, Updated
    <3>2. /\ IsFiniteSet(Spoken(synthetic) \cup {new})
          /\ Cardinality(Spoken(synthetic) \cup {new}) \in
               {Cardinality(Spoken(synthetic)), Cardinality(Spoken(synthetic)) + 1}
      BY <1>2, FS_AddElement
    <3>. QED BY <3>1, <3>2
  <2>6. Cardinality(Spoken(syn)) <= Cardinality(Spoken(synthetic) \cup {new})
        /\ Cardinality(Spoken(syn)) \in Nat
    <3>1. Cardinality(Spoken(syn)) \in Nat
      BY <2>2, SpokenFacts
    <3>2. Cardinality(Spoken(syn)) <= Cardinality(Spoken(synthetic) \cup {new})
      BY <2>5, FS_Subset
    <3>. QED BY <3>1, <3>2
  <2>. HIDE DEF syn
  <2>7. Cardinality(Spoken(syn)) <= Cardinality(Spoken(synthetic)) + 1
    BY <1>2, <2>5, <2>6
  <2>8. RecordsAre(syn, fate)
    BY <2>2, <2>3, <2>4 DEF RecordsAre, Relabels
  <2>. QED BY <2>7, <2>8 DEF syn
<1>. QED BY <1>3, <1>4, ConcludedFacts

\* The output is done: its record is concluded and the next one is flushed.
LEMMA OutputDoneKeeps ==
  ASSUME TurnsInv, OutputDone
  PROVE  TurnsInv'
<1>. DEFINE f == [id \in Ids |-> IF fate[id] = "armed" THEN "done" ELSE fate[id]]
<1>1. /\ ~closed /\ state # "connecting" /\ reader = "reading" /\ ~EventInFlight
      /\ speaking' = FALSE /\ state' = IF speaking THEN Moved(RestingState) ELSE state
      /\ Flush("events", Concluded, Released(out), f, "none", due, TRUE)
      /\ UNCHANGED <<transport_vars, closed, turn_vars, pending, provider_vars>>
  BY DEF OutputDone, Delivering, LockFree
<1>2. ReaderSteps
  BY <1>1, TransportMoves DEF TurnsInv
<1>3. FateIs(f)
  <2>1. /\ f \in [Ids -> Ledger!Fate]
        /\ \A id \in Ids : /\ f[id] = "requested" <=> fate[id] = "requested"
                           /\ f[id] = "none" <=> fate[id] = "none"
    BY DEF TurnsInv, IdsOK, Ledger!Fate
  <2>. HIDE DEF f
  <2>. QED BY <1>1, <2>1 DEF FateIs, TurnsInv, IdsOK
<1>4. OutputIs(Released(out), "none", due)
  <2>1. out \in Output /\ out.ack \in BOOLEAN /\ due \in Due
    BY DEF TurnsInv, OutputOK, Output
  <2>2. due # "next"
    BY DEF OutputDone, IsStillAwaiting, TurnsInv, OutputOK, ComesNext
  <2>. QED BY <2>1, <2>2, IdFacts DEF OutputIs, Released, Silent, Output, Speech
<1>5. RecordsAre(Concluded, f)
  <2>1. RecordsAre(Concluded, fate)
    BY ConcludedCount
  <2>2. \A id \in Ids : f[id] = "requested" <=> fate[id] = "requested"
    OBVIOUS
  <2>3. \A r \in Concluded : SyntheticId(r.turn) \in Ids
    BY <2>1, IdFacts DEF RecordsAre, Relabels, Synthetic
  <2>. HIDE DEF f
  <2>. QED BY <2>1, <2>2, <2>3 DEF RecordsAre, Settled
<1>6. Cardinality(Spoken(Concluded)) <= MaxTombstones + 1
  <2>1. Cardinality(Spoken(synthetic)) <= MaxTombstones
    BY <1>1 DEF TurnsInv, PruningOK, EventInFlight
  <2>2. Cardinality(Spoken(synthetic)) \in Nat
    BY SpokenFacts DEF TurnsInv, PruningOK
  <2>3. Cardinality(Spoken(Concluded)) \in Nat
    BY ConcludedCount, SpokenFacts DEF RecordsAre, Relabels
  <2>. QED BY <2>1, <2>2, <2>3, ConcludedCount, BoundFacts
<1>7. OutputOK' /\ FateMoves /\ RecordsOK' /\ PruningOK'
  <2>1. PICK syn, o : syn = Concluded /\ o = Released(out)
    OBVIOUS
  <2>2. /\ Flush("events", syn, o, f, "none", due, TRUE) /\ OutputIs(o, "none", due)
        /\ RecordsAre(syn, f) /\ Cardinality(Spoken(syn)) <= MaxTombstones + 1
    BY <1>1, <1>4, <1>5, <1>6, <2>1
  <2>. HIDE DEF f
  <2>. QED BY <1>2, <1>3, <2>2, FlushKeeps
<1>8. IdsOK' /\ BoundOK' /\ DeferredOK' /\ TodoOK'
  BY <1>1, <1>7, IdsKept DEF HandlerSteps, turn_vars
<1>9. SessionOK'
  <2>. USE DEF turn_vars, provider_vars
  <2>1. CASE ~speaking
    BY <1>1, <2>1 DEF TurnsInv, SessionOK, PendingBlocksSwitch
  <2>2. CASE speaking
    <3>1. state' = Moved(RestingState) /\ state \in States
      BY <1>1, <2>2 DEF TurnsInv, SessionOK
    <3>2. CASE pending = {}
      <4>1. state' \in {state, "listening"} /\ (state = "speaking" => state' = "listening")
        BY <3>1, <3>2 DEF RestingState, Moved
      <4>. QED BY <1>1, <3>2, <4>1 DEF TurnsInv, SessionOK, PendingBlocksSwitch, States
    <3>3. CASE pending # {}
      <4>1. state \in {"thinking", "speaking"}
        BY <1>1, <3>3 DEF TurnsInv, SessionOK, PendingBlocksSwitch
      <4>2. state' = "thinking"
        BY <3>1, <3>3, <4>1 DEF RestingState, Moved
      <4>. QED BY <1>1, <4>2 DEF TurnsInv, SessionOK, PendingBlocksSwitch, States
    <3>. QED BY <3>2, <3>3
  <2>. QED BY <2>1, <2>2 DEF TurnsInv, SessionOK
<1>. QED BY <1>2, <1>7, <1>8, <1>9 DEF TurnsInv, ReaderSteps
-------------------------------------------------------------------------------
(* The session and its connection.                                          *)

\* The provider has started the session.
LEMMA SessionStartedKeeps ==
  ASSUME TurnsInv, SessionStarted
  PROVE  TurnsInv'
<1>1. /\ state = "connecting" /\ ~closed /\ state' = "listening"
      /\ UNCHANGED <<transport_vars, speaking, closed, turn_vars, delegation_vars,
                     output_vars, provider_vars>>
  BY DEF SessionStarted
<1>2. OutputOK'
  BY <1>1 DEF TurnsInv, OutputOK, AnswerIsHeard, output_vars
<1>3. SessionOK'
  BY <1>1 DEF TurnsInv, SessionOK, PendingBlocksSwitch, States, turn_vars, delegation_vars,
     provider_vars
<1>. QED BY <1>1, <1>2, <1>3, OutputChangeKeeps DEF output_vars

\* The service closes, fails or is interrupted.
LEMMA EndingKeeps ==
  ASSUME TurnsInv,
         \/ ServiceCloses \/ ProviderError \/ TooManyDeferred \/ Disconnect \/ OpenEnds
         \/ Interrupt
  PROVE  TurnsInv'
<1>0. TransportTypeOK /\ ReaderOK
  BY DEF TurnsInv
<1>1. ASSUME Fail, ReaderSteps PROVE TurnsInv'
  BY <1>1, ClearKeeps DEF Fail, ClearAndClose
<1>2. CASE ServiceCloses
  <2>1. ReaderSteps
    BY <1>0, <1>2, TransportMoves DEF ServiceCloses
  <2>. QED BY <1>2, <2>1, ClearKeeps DEF ServiceCloses, ClearAndClose
<1>3. CASE ProviderError
  <2>1. \/ /\ reader = "reading" /\ reader' = "waiting"
           /\ UNCHANGED <<opening, closing, parts, connected, link, rtp, reported>>
        \/ UNCHANGED transport_vars
    BY <1>3 DEF ProviderError, transport_vars
  <2>. QED BY <1>0, <1>1, <1>3, <2>1, TransportMoves DEF ProviderError
<1>4. CASE TooManyDeferred
  <2>1. ReaderSteps
    BY <1>0, <1>4, TransportMoves DEF TooManyDeferred, Delivering
  <2>. QED BY <1>1, <1>4, <2>1 DEF TooManyDeferred
<1>5. CASE Disconnect
  <2>1. ReaderSteps
    BY <1>0, <1>5, TransportMoves DEF Disconnect
  <2>. QED BY <1>1, <1>5, <2>1, QuietKeeps DEF Disconnect
<1>6. CASE OpenEnds
  <2>1. ReaderSteps
    BY <1>0, <1>6, TransportMoves DEF OpenEnds
  <2>. QED BY <1>1, <1>6, <2>1, QuietKeeps DEF OpenEnds
<1>7. CASE Interrupt
  <2>1. ReaderSteps
    BY <1>0, <1>7, TransportMoves DEF Interrupt
  <2>. QED BY <1>7, <2>1, ClearKeeps DEF Interrupt
<1>. QED BY <1>2, <1>3, <1>4, <1>5, <1>6, <1>7

\* The connection opens, is lost, or closes, with a handler of its events or without.
LEMMA ConnectionKeeps ==
  ASSUME TurnsInv, TransportOpens \/ LosesLink \/ TransportCloses \/ CleanupRuns
  PROVE  TurnsInv'
<1>0. TransportTypeOK /\ ReaderOK
  BY DEF TurnsInv
<1>1. CASE TransportOpens \/ LosesLink \/ CleanupRuns
  <2>1. ReaderSteps
    BY <1>0, <1>1, TransportMoves DEF TransportOpens, LosesLink, CleanupRuns
  <2>. QED BY <1>1, <2>1, QuietKeeps DEF TransportOpens, LosesLink, CleanupRuns
<1>2. CASE TransportCloses
  <2>1. CloseProgress /\ ReaderSteps
    BY <1>0, <1>2, TransportMoves DEF TransportCloses
  <2>2. CASE UNCHANGED service_vars
    BY <2>1, <2>2, QuietKeeps
  <2>3. ASSUME closing = "reader", reader = "reading",
               NEW w \in writes, w.by = "events", Raised(w)
        PROVE  TurnsInv'
    <3>1. reader' \notin {"none", "reading"}
      BY <2>1, <2>3 DEF CloseProgress, SidebandCloses, ReaderCloses, ReaderCancelled,
         TracksClose, PeerCloses, HttpCloses
    <3>. QED BY <2>1, <2>3, <3>1, RaisedKeeps
  <2>. QED BY <1>2, <2>2, <2>3 DEF TransportCloses
<1>. QED BY <1>1, <1>2

\* A write raises; in the events' task so does the handler.
LEMMA WriteFailsKeeps ==
  ASSUME TurnsInv, NEW w \in writes, WriteFails(w)
  PROVE  TurnsInv'
<1>1. ReaderSteps
  <2>1. HandlerRaises \/ UNCHANGED transport_vars
    BY DEF WriteFails
  <2>. QED BY <2>1, TransportMoves DEF TurnsInv
<1>2. w.by = "events" => reader' \notin {"none", "reading"}
  BY DEF WriteFails, HandlerRaises
<1>. QED BY <1>1, <1>2, RaisedKeeps DEF WriteFails
-------------------------------------------------------------------------------
(* Theorems.                                                                *)

\* The service starts with the invariant.
LEMMA TurnsStart ==
  ASSUME Init
  PROVE  TurnsInv
<1>1. TransportTypeOK /\ ReaderOK
  BY DEF Init, TransportInit, TransportTypeOK, ReaderOK, InProgress, TaskStep
<1>2. SessionOK
  <2>1. /\ state = "connecting" /\ speaking = FALSE /\ closed = FALSE /\ pending = {}
        /\ in_turn = FALSE /\ finalizing = FALSE /\ turn = 0 /\ delegations = 0
        /\ said \in [Turns -> Text]
    BY DEF Init
  <2>2. 0 \in 0..MaxTurn /\ 0 \in 0..MaxDelegation
    BY BoundFacts
  <2>. QED BY <2>1, <2>2 DEF SessionOK, States, PendingBlocksSwitch
<1>3. IdsOK /\ BoundOK
  BY IdFacts DEF Init, IdsOK, BoundOK, TurnsDoNotShareRequests, Ledger!Fate
<1>4. DeferredOK /\ TodoOK
  <2>1. deferred = <<>> /\ todo = <<>> /\ finalizing = FALSE
    BY DEF Init
  <2>2. /\ deferred \in Seq(Deferred) /\ Len(deferred) = 0
        /\ todo \in Seq([own : BOOLEAN, of : Deferred]) /\ Len(todo) = 0
    BY <2>1, EmptySeq
  <2>. QED BY <2>1, <2>2, BoundFacts DEF DeferredOK, TodoOK
<1>5. OutputOK
  BY DEF Init, OutputOK, AnswerIsHeard, Silent, Output, Speech, Due
<1>6. RecordsOK /\ PruningOK
  <2>1. synthetic = {} /\ writes = {}
    BY DEF Init
  <2>2. IsFiniteSet(synthetic) /\ Spoken(synthetic) = {} /\ Cardinality(Spoken(synthetic)) = 0
    BY <2>1, FS_EmptySet DEF Spoken
  <2>. QED BY <2>1, <2>2, BoundFacts DEF RecordsOK, Settled, PruningOK, Spoken
<1>. QED BY <1>1, <1>2, <1>3, <1>4, <1>5, <1>6 DEF TurnsInv

\* Every step of service, provider, terminal and transport keeps it.
LEMMA TurnsStep ==
  ASSUME TurnsInv, [Next]_vars
  PROVE  TurnsInv'
<1>1. CASE UNCHANGED vars
  <2>1. ReaderSteps /\ UNCHANGED service_vars
    BY <1>1, TransportMoves DEF TurnsInv, vars
  <2>. QED BY <2>1, QuietKeeps
<1>2. CASE HandlerGoesOn
  BY <1>2, ResolveNextKeeps, UserTurnEndsKeeps DEF HandlerGoesOn
<1>3. CASE TransportOpens \/ LosesLink \/ TransportCloses \/ CleanupRuns
  BY <1>3, ConnectionKeeps
<1>4. CASE \/ ServiceCloses \/ ProviderError \/ TooManyDeferred \/ Disconnect \/ OpenEnds
           \/ Interrupt
  BY <1>4, EndingKeeps
<1>5. CASE SessionStarted \/ UserSpeaks \/ UserTurnDone
  BY <1>5, SessionStartedKeeps, UserSpeaksKeeps, UserTurnDoneKeeps
<1>6. CASE \E text \in Text : DelegationCreated(text)
  BY <1>6, DelegationCreatedKeeps
<1>7. CASE OutputText \/ OutputAudio \/ SilentAudio \/ OutputEnds
  BY <1>7, OutputBeginsKeeps, SilentAudioKeeps, ForeignTurnDoneKeeps, OutputDoneKeeps
     DEF OutputEnds
<1>8. CASE \E id \in Ids : ClientCompletes(id)
  BY <1>8, ClientCompletesKeeps
<1>9. CASE WriteReturns
  BY <1>9, WriteEndsKeeps, WriteFailsKeeps DEF WriteReturns
<1>. QED BY <1>1, <1>2, <1>3, <1>4, <1>5, <1>6, <1>7, <1>8, <1>9 DEF Next

\* What a request, a delegation and a record have to do with the turns holds in every
\* reachable state: _user_turn_number, _deferred_provider_delegations,
\* _synthetic_delegations and _pending_delegations of GPTLiveService agree.
THEOREM TurnsInvariant == Spec => []TurnsInv
<1>1. Init => TurnsInv
  BY TurnsStart
<1>2. TurnsInv /\ [Next]_vars => TurnsInv'
  BY TurnsStep
<1>. QED BY <1>1, <1>2, PTL DEF Spec

\* A session with a request that the client has not answered is never shown as
\* listening, so that switch_provider() does not throw the request away unforced.
THEOREM RequestsBlockSwitches == Spec => []PendingBlocksSwitch
<1>1. TurnsInv => PendingBlocksSwitch
  BY DEF TurnsInv, SessionOK
<1>. QED BY <1>1, TurnsInvariant, PTL

\* An answer that the provider was given and that it speaks next is heard from its
\* first frame: nothing that the service does in between takes its authority back.
THEOREM AnswersAreHeard == Spec => []AnswerIsHeard
<1>1. TurnsInv => AnswerIsHeard
  BY DEF TurnsInv, OutputOK
<1>. QED BY <1>1, TurnsInvariant, PTL

\* No two turns of the user are served by one request, however the provider's
\* delegations are delayed and deferred.
THEOREM RequestsServeOneTurn == Spec => []TurnsDoNotShareRequests
<1>1. TurnsInv => TurnsDoNotShareRequests
  BY DEF TurnsInv, BoundOK
<1>. QED BY <1>1, TurnsInvariant, PTL
-------------------------------------------------------------------------------
(* The promises of DelegationLedger, where no write outlasts the next answer. *)

\* What becomes of the ids is a step of the ledger, or nothing becomes of them.
LedgerStep == Ledger!Next \/ UNCHANGED fate

\* An answer that is given to the provider is its owner's, and is carried to it.
LEMMA FlushAccounts ==
  ASSUME TurnsInv, WritesOverlap = FALSE,
         NEW by \in {"events", "client"}, NEW syn, NEW o, NEW f, NEW sp, NEW d,
         NEW prunes \in BOOLEAN, Flush(by, syn, o, f, sp, d, prunes),
         FateIs(f), RecordsAre(syn, f), Accounts(syn, f, o, writes)
  PROVE  /\ LedgerInv'
         /\ \/ fate' = f
            \/ \E id \in Ids : f[id] = "answered" /\ fate' = FateArmed(f, id)
<1>1. syn \in SUBSET Synthetic
  BY DEF RecordsAre, Relabels
<1>2. \A q \in syn : SyntheticId(q.turn) \in Ids
  BY RecordFacts
<1>3. ASSUME NEW r \in syn, FlushSends(by, syn, o, f, sp, prunes, r)
      PROVE  /\ LedgerInv'
             /\ \E id \in Ids : f[id] = "answered" /\ fate' = FateArmed(f, id)
  <2>. DEFINE w == [by |-> by, id |-> SyntheticId(r.turn), kind |-> "speech",
                    prunes |-> prunes]
  <2>1. PICK id \in Ids : id = SyntheticId(r.turn)
    BY <1>2
  <2>2. w.kind = "speech" /\ w.id = id
    BY <2>1
  <2>3. Sends(w, o, f, sp) /\ synthetic' = syn /\ o.owner = None /\ r.answered /\ ~r.sent
    BY <1>3 DEF FlushSends
  <2>. HIDE DEF w
  <2>4. /\ writes = {} /\ writes' = {w} /\ out' = Armed(o, id) /\ fate' = FateArmed(f, id)
    BY <2>2, <2>3 DEF Sends
  <2>5. f[id] = "answered"
    BY <2>1, <2>3, <2>4 DEF Accounts, Accounted
  <2>6. /\ fate' \in [Ids -> Ledger!Fate]
        /\ \A x \in Ids : f[x] # "armed" /\ fate'[x] = IF x = id THEN "armed" ELSE f[x]
    <3>1. \A x \in Ids : f[x] # "armed"
      BY <2>3 DEF Accounts
    <3>. QED BY <2>4, <3>1 DEF FateIs, FateArmed, Ledger!Fate
  <2>7. out'.owner = id /\ id # None
    BY <2>1, <2>4, IdFacts DEF Armed
  <2>8. ASSUME NEW q \in syn PROVE Accounted(q, fate', writes')
    <3>1. /\ SyntheticId(q.turn) \in Ids
          /\ Accounted(q, f, writes)
      BY <1>2 DEF Accounts
    <3>2. CASE q = r
      BY <2>1, <2>2, <2>3, <2>4, <2>6, <3>1, <3>2 DEF Accounted, Carries
    <3>3. CASE q # r
      <4>1. SyntheticId(q.turn) # id
        BY <2>1, <3>3, IdFacts DEF RecordsAre, Relabels, Unique
      <4>. QED BY <2>2, <2>4, <2>6, <3>1, <4>1 DEF Accounted, Carries
    <3>. QED BY <3>2, <3>3
  <2>9. {x \in Ids : fate'[x] = "armed"} = {out'.owner} \ {None}
    BY <2>6, <2>7
  <2>10. LedgerInv'
    BY <2>2, <2>3, <2>4, <2>6, <2>7, <2>8, <2>9 DEF LedgerInv, Accounts
  <2>. QED BY <2>4, <2>5, <2>10
<1>4. CASE /\ SendsNothing(o, f, sp, d)
           /\ synthetic' \in IF prunes THEN Pruned(syn) ELSE {syn}
  <2>1. synthetic' \subseteq syn
    BY <1>4, PrunedIsSubset
  <2>. QED BY <1>4, <2>1 DEF SendsNothing, LedgerInv, Accounts
<1>. QED BY <1>1, <1>3, <1>4, FlushCases

\* Records of which nothing changed but what the answers do not depend on.
LEMMA RestatedAccounts ==
  ASSUME NEW syn, NEW r \in syn, NEW new, NEW f, NEW o, NEW ws, Accounts(syn, f, o, ws),
         new.turn = r.turn, new.answered = r.answered, new.sent = r.sent,
         r.resolved => new.resolved
  PROVE  Accounts(Updated(syn, r, new), f, o, ws)
<1>1. Accounted(r, f, ws)
  BY DEF Accounts
<1>2. Accounted(new, f, ws)
  BY <1>1 DEF Accounted, Carries
<1>. QED BY <1>2 DEF Accounts, Updated

\* A step that gives no answer and takes none.
LEMMA QuietAccounts ==
  ASSUME LedgerInv, UNCHANGED <<fate, writes>>, synthetic' \subseteq synthetic,
         out'.owner = out.owner
  PROVE  LedgerInv' /\ LedgerStep
BY DEF LedgerInv, Accounts, LedgerStep

\* A write that ends marks its record as the ledger does.
LEMMA WriteEndsAccounts ==
  ASSUME TurnsInv, LedgerInv, NEW w \in writes, WriteEnds(w)
  PROVE  LedgerInv' /\ LedgerStep
<1>1. writes' = {} /\ UNCHANGED <<out, fate>>
  BY DEF WriteEnds, LedgerInv, Accounts
<1>2. PICK marked :
        /\ synthetic' \subseteq marked
        /\ \/ /\ marked = synthetic
              /\ \A r \in synthetic : ~Carries(w, r)
           \/ \E r \in synthetic :
                Carries(w, r) /\ marked = Updated(synthetic, r, [r EXCEPT !.sent = TRUE])
  BY MarkedFacts, PrunedIsSubset DEF Carries
<1>3. \A r \in synthetic : Accounted(r, fate, writes)
  BY DEF LedgerInv, Accounts
<1>4. \A v \in writes : v = w
  BY DEF LedgerInv, Accounts
<1>5. ASSUME NEW q \in synthetic, ~Carries(w, q) PROVE Accounted(q, fate, {})
  BY <1>3, <1>4, <1>5 DEF Accounted
<1>6. ASSUME NEW r \in synthetic, Carries(w, r) PROVE
        \A q \in Updated(synthetic, r, [r EXCEPT !.sent = TRUE]) : Accounted(q, fate, {})
  <2>1. \A q \in synthetic : q # r => ~Carries(w, q)
    BY <1>6, IdFacts DEF Carries, TurnsInv, RecordsOK
  <2>2. PICK new : new = [r EXCEPT !.sent = TRUE]
    OBVIOUS
  <2>3. /\ new.turn = r.turn /\ new.answered = r.answered /\ new.sent = TRUE
        /\ new.resolved = r.resolved
    BY <2>2 DEF TurnsInv, RecordsOK, Synthetic
  <2>4. r.answered /\ fate[SyntheticId(r.turn)] = "armed" /\ (r.answered => r.resolved)
    BY <1>3, <1>6 DEF Accounted
  <2>5. Accounted(new, fate, {})
    BY <2>3, <2>4 DEF Accounted
  <2>. QED BY <1>5, <2>1, <2>2, <2>5 DEF Updated
<1>7. \A q \in synthetic' : Accounted(q, fate, {})
  BY <1>2, <1>5, <1>6
<1>. QED BY <1>1, <1>7 DEF LedgerInv, Accounts, LedgerStep

\* A failed write gives the answer back, or up.
LEMMA RaisedAccounts ==
  ASSUME TurnsInv, LedgerInv, NEW w \in writes, Raised(w)
  PROVE  LedgerInv' /\ LedgerStep
<1>1. /\ writes' = {} /\ synthetic' = synthetic /\ w.id \in Ids
      /\ \A v \in writes : v = w
  BY DEF Raised, LedgerInv, Accounts, delegation_vars, TurnsInv, RecordsOK, Write
<1>2. \A r \in synthetic : Accounted(r, fate, writes) /\ SyntheticId(r.turn) \in Ids
  BY IdFacts DEF LedgerInv, Accounts, TurnsInv, RecordsOK, Synthetic
<1>3. CASE w.kind # "speech"
  <2>1. UNCHANGED <<out, fate>>
    BY <1>3 DEF Raised
  <2>2. \A r \in synthetic : Accounted(r, fate, {})
    BY <1>1, <1>2, <1>3 DEF Accounted, Carries
  <2>. QED BY <1>1, <2>1, <2>2 DEF LedgerInv, Accounts, LedgerStep
<1>4. CASE w.kind = "speech"
  <2>1. /\ out'.owner = None /\ fate' = FateFailed(w.id) /\ fate \in [Ids -> Ledger!Fate]
    BY <1>4 DEF Raised, GivenUp, TurnsInv, OutputOK, IdsOK, Output
  <2>2. \A x \in Ids : x # w.id => fate[x] # "armed"
    BY <1>4 DEF LedgerInv, Accounts
  <2>3. \A x \in Ids : fate'[x] = IF x = w.id /\ fate[x] = "armed"
                                  THEN IF RecordOf(w.id, synthetic) # {} THEN "answered"
                                                                         ELSE "done"
                                  ELSE fate[x]
    BY <1>1, <2>1 DEF FateFailed
  <2>4. \A x \in Ids : fate'[x] # "armed"
    BY <2>2, <2>3
  <2>5. ASSUME NEW r \in synthetic PROVE Accounted(r, fate', {})
    <3>1. CASE SyntheticId(r.turn) = w.id
      <4>1. r \in RecordOf(w.id, synthetic)
        BY <3>1 DEF RecordOf
      <4>2. r.answered /\ ~r.sent /\ fate[w.id] = "armed"
        BY <1>2, <1>4, <3>1 DEF Accounted, Carries
      <4>3. fate'[w.id] = "answered"
        BY <1>1, <2>3, <4>1, <4>2
      <4>. QED BY <1>2, <3>1, <4>2, <4>3 DEF Accounted
    <3>2. CASE SyntheticId(r.turn) # w.id
      BY <1>1, <1>2, <2>2, <2>3, <3>2 DEF Accounted, Carries
    <3>. QED BY <3>1, <3>2
  <2>6. LedgerInv'
    BY <1>1, <2>1, <2>4, <2>5 DEF LedgerInv, Accounts
  <2>7. LedgerStep
    <3>1. CASE fate[w.id] # "armed"
      <4>1. fate' = fate
        BY <2>1, <3>1 DEF FateFailed
      <4>. QED BY <4>1 DEF LedgerStep
    <3>2. CASE fate[w.id] = "armed" /\ RecordOf(w.id, synthetic) # {}
      <4>1. Ledger!Withdraw(w.id)
        BY <2>1, <3>2 DEF FateFailed, Ledger!Withdraw
      <4>. QED BY <1>1, <4>1 DEF LedgerStep, Ledger!Next
    <3>3. CASE fate[w.id] = "armed" /\ RecordOf(w.id, synthetic) = {}
      <4>1. Ledger!Spoken(w.id)
        BY <2>1, <3>3 DEF FateFailed, Ledger!Spoken
      <4>. QED BY <1>1, <4>1 DEF LedgerStep, Ledger!Next
    <3>. QED BY <3>1, <3>2, <3>3
  <2>. QED BY <2>6, <2>7
<1>. QED BY <1>3, <1>4

\* The client answers a request: the answer is kept or spoken, or an earlier one is.
LEMMA ClientCompletesAccounts ==
  ASSUME TurnsInv, LedgerInv, WritesOverlap = FALSE, NEW id \in Ids, ClientCompletes(id)
  PROVE  LedgerInv' /\ LedgerStep
<1>1. /\ id \in pending /\ pending' = pending \ {id} /\ fate[id] = "requested"
      /\ fate \in [Ids -> Ledger!Fate]
  BY DEF ClientCompletes, TurnsInv, IdsOK
<1>2. \A r \in synthetic : Accounted(r, fate, writes) /\ SyntheticId(r.turn) \in Ids
  BY IdFacts DEF LedgerInv, Accounts, TurnsInv, RecordsOK, Synthetic
<1>3. CASE RecordOf(id, synthetic) # {}
  <2>1. PICK r \in RecordOf(id, synthetic) :
          Flush("client",
                Updated(synthetic, r, [r EXCEPT !.answered = TRUE, !.resolved = TRUE]),
                Completed(out), [fate EXCEPT ![id] = "answered"], speech, due, FALSE)
    BY <1>3 DEF ClientCompletes
  <2>2. PICK new, f, o : /\ new = [r EXCEPT !.answered = TRUE, !.resolved = TRUE]
                         /\ f = [fate EXCEPT ![id] = "answered"] /\ o = Completed(out)
    OBVIOUS
  <2>3. /\ r \in synthetic /\ SyntheticId(r.turn) = id /\ new.turn = r.turn
        /\ FateIs(f) /\ RecordsAre(Updated(synthetic, r, new), f) /\ o.owner = out.owner
    BY <1>1, <2>2, CompletedFacts
  <2>4. /\ new.answered = TRUE /\ new.resolved = TRUE /\ new.sent = r.sent
    BY <2>2, <2>3 DEF TurnsInv, RecordsOK, Synthetic
  <2>5. \A x \in Ids : f[x] = IF x = id THEN "answered" ELSE fate[x]
    BY <1>1, <2>2
  <2>6. /\ ~r.answered /\ ~r.sent /\ \A w \in writes : ~Carries(w, r)
    BY <1>1, <1>2, <2>3 DEF Accounted, TurnsInv, RecordsOK, Settled
  <2>7. Accounted(new, f, writes)
    BY <1>1, <2>3, <2>4, <2>5, <2>6 DEF Accounted, Carries
  <2>8. \A q \in synthetic : q # r => SyntheticId(q.turn) # id
    BY <2>3, IdFacts DEF TurnsInv, RecordsOK
  <2>9. \A q \in Updated(synthetic, r, new) : Accounted(q, f, writes)
    BY <1>2, <2>5, <2>7, <2>8 DEF Accounted, Updated
  <2>10. /\ \A w, v \in writes : w = v
         /\ {x \in Ids : f[x] = "armed"} = {o.owner} \ {None}
         /\ \A w \in writes : f[w.id] # "none" /\ (w.kind = "speech" => o.owner \in {None, w.id})
    <3>1. \A w \in writes : w.id \in Ids
      BY DEF TurnsInv, RecordsOK, Write
    <3>2. {x \in Ids : f[x] = "armed"} = {x \in Ids : fate[x] = "armed"}
      BY <1>1, <2>5
    <3>3. /\ \A w, v \in writes : w = v
          /\ {x \in Ids : fate[x] = "armed"} = {out.owner} \ {None}
          /\ \A w \in writes :
               fate[w.id] # "none" /\ (w.kind = "speech" => out.owner \in {None, w.id})
      BY DEF LedgerInv, Accounts
    <3>4. \A w \in writes : f[w.id] # "none"
      BY <2>5, <3>1, <3>3
    <3>. QED BY <2>3, <3>2, <3>3, <3>4
  <2>11. Accounts(Updated(synthetic, r, new), f, o, writes)
    BY <2>9, <2>10 DEF Accounts
  <2>12. /\ LedgerInv'
         /\ \/ fate' = f
            \/ \E x \in Ids : f[x] = "answered" /\ fate' = FateArmed(f, x)
    <3>1. Flush("client", Updated(synthetic, r, new), o, f, speech, due, FALSE)
      BY <2>1, <2>2
    <3>2. PICK syn : syn = Updated(synthetic, r, new)
      OBVIOUS
    <3>. QED BY <2>3, <2>11, <3>1, <3>2, FlushAccounts
  <2>13. CASE fate' = f
    <3>1. Ledger!Answer(id)
      BY <1>1, <2>2, <2>13 DEF Ledger!Answer
    <3>. QED BY <2>12, <3>1 DEF LedgerStep, Ledger!Next
  <2>14. ASSUME NEW x \in Ids, f[x] = "answered", fate' = FateArmed(f, x) PROVE LedgerStep
    <3>1. CASE x = id
      <4>1. fate' = [y \in Ids |-> IF y = id THEN "armed"
                                   ELSE IF fate[y] = "armed" THEN "done" ELSE fate[y]]
        BY <2>5, <2>14, <3>1 DEF FateArmed
      <4>2. Ledger!Speak(id)
        BY <1>1, <4>1 DEF Ledger!Speak, Ledger!Speaks
      <4>. QED BY <4>2 DEF LedgerStep, Ledger!Next
    <3>2. CASE x # id
      <4>1. Ledger!AnswerSpeaks(id, x)
        BY <1>1, <2>2, <2>5, <2>14, <3>2 DEF Ledger!AnswerSpeaks, Ledger!Speaks, FateArmed
      <4>. QED BY <4>1 DEF LedgerStep, Ledger!Next
    <3>. QED BY <3>1, <3>2
  <2>. QED BY <2>12, <2>13, <2>14
<1>4. CASE RecordOf(id, synthetic) = {}
  <2>. DEFINE w == [by |-> "client", id |-> id, kind |-> "speech", prunes |-> FALSE]
              o == [out EXCEPT !.ack = FALSE]
  <2>1. w.kind = "speech" /\ w.id = id
    OBVIOUS
  <2>2. Sends(w, o, fate, speech) /\ UNCHANGED synthetic
    BY <1>4 DEF ClientCompletes
  <2>3. out \in Output
    BY DEF TurnsInv, OutputOK
  <2>4. /\ writes = {} /\ writes' = {w} /\ fate' = FateArmed(fate, id) /\ out'.owner = id
    BY <2>1, <2>2, <2>3 DEF Sends, Armed, Output
  <2>. HIDE DEF w, o
  <2>5. id # None /\ \A x \in Ids :
          fate'[x] = IF x = id THEN "armed" ELSE IF fate[x] = "armed" THEN "done" ELSE fate[x]
    BY <2>4, IdFacts DEF FateArmed
  <2>6. ASSUME NEW r \in synthetic PROVE Accounted(r, fate', writes')
    <3>1. SyntheticId(r.turn) # id
      BY <1>4 DEF RecordOf
    <3>. QED BY <1>2, <2>1, <2>4, <2>5, <3>1 DEF Accounted, Carries
  <2>7. {x \in Ids : fate'[x] = "armed"} = {out'.owner} \ {None}
    BY <2>4, <2>5
  <2>8. LedgerInv'
    BY <2>1, <2>2, <2>4, <2>5, <2>6, <2>7 DEF LedgerInv, Accounts
  <2>9. Ledger!Speak(id)
    BY <1>1, <2>4 DEF Ledger!Speak, Ledger!Speaks, FateArmed
  <2>. QED BY <2>8, <2>9 DEF LedgerStep, Ledger!Next
<1>. QED BY <1>3, <1>4

\* An earlier answer is spoken.
LEMMA SpeakSteps ==
  ASSUME NEW id \in Ids, fate[id] = "answered", fate' = FateArmed(fate, id)
  PROVE  LedgerStep
<1>1. Ledger!Speak(id)
  BY DEF Ledger!Speak, Ledger!Speaks, FateArmed
<1>. QED BY <1>1 DEF LedgerStep, Ledger!Next

\* A delegation is a request of its own, or finds the answer that it is about.
LEMMA HandleAccounts ==
  ASSUME TurnsInv, LedgerInv, WritesOverlap = FALSE, NEW n \in Delegations,
         fate[ProviderId(n)] = "none",
         NEW text, NEW bind \in BOOLEAN, NEW match \in BOOLEAN, Handle(n, text, bind, match)
  PROVE  LedgerInv' /\ LedgerStep
<1>1. \A r \in synthetic : Accounted(r, fate, writes) /\ SyntheticId(r.turn) \in Ids
  BY IdFacts DEF LedgerInv, Accounts, TurnsInv, RecordsOK, Synthetic
<1>2. ASSUME NEW syn, NEW r, Matches(syn, r) PROVE LedgerInv' /\ LedgerStep
  <2>1. PICK new, known, o : /\ new = [r EXCEPT !.matched = TRUE, !.resolved = TRUE]
                             /\ known = Updated(syn, r, new) /\ o = [out EXCEPT !.ack = FALSE]
    OBVIOUS
  <2>2. /\ r \in syn /\ syn \subseteq synthetic
        /\ new.turn = r.turn /\ new.answered = r.answered /\ new.sent = r.sent
        /\ new.resolved = TRUE /\ FateIs(fate) /\ RecordsAre(known, fate)
    BY <1>2, <2>1, MatchedFacts DEF Matches
  <2>3. o.owner = out.owner
    BY <2>1 DEF TurnsInv, OutputOK, Output
  <2>4. Accounts(known, fate, o, writes)
    <3>1. Accounts(syn, fate, o, writes)
      BY <2>2, <2>3 DEF LedgerInv, Accounts
    <3>. QED BY <2>1, <2>2, <3>1, RestatedAccounts
  <2>5. CASE r.answered /\ r.sent
    <3>1. PICK w : w = [by |-> "events", id |-> SyntheticId(r.turn), kind |-> "commentary",
                        prunes |-> FALSE]
      OBVIOUS
    <3>2. Sends(w, o, fate, speech) /\ synthetic' = known
      BY <1>2, <2>1, <2>5, <3>1 DEF Matches
    <3>3. writes = {} /\ writes' = {w} /\ out' = o /\ fate' = fate
      BY <3>1, <3>2 DEF Sends
    <3>4. fate[w.id] # "none" /\ w.kind = "commentary"
      BY <2>2, <3>1 DEF TurnsInv, RecordsOK
    <3>5. \A q \in known : Accounted(q, fate, {w})
      BY <2>4, <3>3, <3>4 DEF Accounts, Accounted, Carries
    <3>6. LedgerInv'
      BY <2>4, <3>2, <3>3, <3>4, <3>5 DEF LedgerInv, Accounts
    <3>. QED BY <3>3, <3>6 DEF LedgerStep
  <2>6. CASE ~(r.answered /\ r.sent)
    <3>1. Flush("events", known, o, fate, speech, due, FALSE)
      BY <1>2, <2>1, <2>6 DEF Matches
    <3>2. /\ LedgerInv'
          /\ \/ fate' = fate
             \/ \E x \in Ids : fate[x] = "answered" /\ fate' = FateArmed(fate, x)
      BY <2>2, <2>4, <3>1, FlushAccounts
    <3>. QED BY <3>2, SpeakSteps DEF LedgerStep
  <2>. QED BY <2>5, <2>6
<1>3. CASE Requests(n)
  <2>1. /\ fate' = [fate EXCEPT ![ProviderId(n)] = "requested"] /\ ProviderId(n) \in Ids
        /\ synthetic' \subseteq synthetic /\ writes' = writes /\ out'.owner = out.owner
        /\ fate \in [Ids -> Ledger!Fate]
    BY <1>3, IdFacts DEF Requests, TurnsInv, OutputOK, IdsOK, Output
  <2>2. \A x \in Ids : fate'[x] = IF x = ProviderId(n) THEN "requested" ELSE fate[x]
    BY <2>1
  <2>3. \A r \in synthetic : Accounted(r, fate', writes)
    <3>1. \A r \in synthetic : fate'[SyntheticId(r.turn)] = fate[SyntheticId(r.turn)]
      BY <1>1, <2>2, IdFacts
    <3>. QED BY <1>1, <3>1 DEF Accounted
  <2>4. {x \in Ids : fate'[x] = "armed"} = {x \in Ids : fate[x] = "armed"}
    BY <2>2
  <2>5. \A w \in writes : fate'[w.id] # "none"
    BY <2>2 DEF LedgerInv, Accounts, TurnsInv, RecordsOK, Write
  <2>6. LedgerInv'
    BY <2>1, <2>3, <2>4, <2>5 DEF LedgerInv, Accounts
  <2>7. Ledger!Request({ProviderId(n)})
    BY <2>1 DEF Ledger!Request
  <2>8. {ProviderId(n)} \in SUBSET Ids
    BY <2>1
  <2>. QED BY <2>6, <2>7, <2>8 DEF LedgerStep, Ledger!Next
<1>. QED BY <1>2, <1>3, HandleCases

\* The end of the user's turn adds a record and may prune others.
LEMMA UserTurnEndsAccounts ==
  ASSUME TurnsInv, LedgerInv, UserTurnEnds
  PROVE  LedgerInv' /\ LedgerStep
<1>1. UNCHANGED <<out, writes>>
  BY DEF UserTurnEnds
<1>2. CASE said[turn] # NoText /\ active_delegation = None
  <2>1. PICK syn \in Pruned(synthetic) : synthetic' = syn \cup {NewSynthetic(turn)}
    BY <1>2 DEF UserTurnEnds
  <2>2. /\ SyntheticId(turn) \in Ids /\ fate[SyntheticId(turn)] = "none"
        /\ fate' = [fate EXCEPT ![SyntheticId(turn)] = "requested"]
        /\ fate \in [Ids -> Ledger!Fate]
    BY <1>2, IdFacts DEF UserTurnEnds, TurnsInv, SessionOK, IdsOK
  <2>3. \A x \in Ids : fate'[x] = IF x = SyntheticId(turn) THEN "requested" ELSE fate[x]
    BY <2>2
  <2>4. \A w \in writes : w.id \in Ids /\ fate[w.id] # "none"
    BY DEF LedgerInv, Accounts, TurnsInv, RecordsOK, Write
  <2>5. ASSUME NEW r \in synthetic PROVE Accounted(r, fate', writes)
    <3>1. /\ Accounted(r, fate, writes) /\ SyntheticId(r.turn) \in Ids
          /\ fate[SyntheticId(r.turn)] # "none"
      BY IdFacts DEF LedgerInv, Accounts, TurnsInv, RecordsOK, Synthetic
    <3>2. fate'[SyntheticId(r.turn)] = fate[SyntheticId(r.turn)]
      BY <2>2, <2>3, <3>1
    <3>. QED BY <3>1, <3>2 DEF Accounted
  <2>6. Accounted(NewSynthetic(turn), fate', writes)
    <3>1. PICK r : r = NewSynthetic(turn)
      OBVIOUS
    <3>2. r.turn = turn /\ r.answered = FALSE /\ r.sent = FALSE
      BY <3>1 DEF NewSynthetic
    <3>3. \A w \in writes : ~Carries(w, r)
      BY <2>2, <2>4, <3>2 DEF Carries
    <3>4. Accounted(r, fate', writes)
      BY <3>2, <3>3 DEF Accounted
    <3>. QED BY <3>1, <3>4
  <2>7. \A r \in synthetic' : Accounted(r, fate', writes)
    BY <2>1, <2>5, <2>6, PrunedIsSubset
  <2>8. {x \in Ids : fate'[x] = "armed"} = {x \in Ids : fate[x] = "armed"}
    BY <2>2, <2>3
  <2>9. \A w \in writes : fate'[w.id] # "none"
    BY <2>3, <2>4
  <2>10. LedgerInv'
    BY <1>1, <2>7, <2>8, <2>9 DEF LedgerInv, Accounts
  <2>11. Ledger!Request({SyntheticId(turn)})
    BY <2>2 DEF Ledger!Request
  <2>12. {SyntheticId(turn)} \in SUBSET Ids
    BY <2>2
  <2>. QED BY <2>10, <2>11, <2>12 DEF LedgerStep, Ledger!Next
<1>3. CASE ~(said[turn] # NoText /\ active_delegation = None)
  BY <1>1, <1>3, QuietAccounts DEF UserTurnEnds
<1>. QED BY <1>2, <1>3

\* The end of the output: its answer was spoken, and the next may be.
LEMMA OutputDoneAccounts ==
  ASSUME TurnsInv, LedgerInv, WritesOverlap = FALSE, OutputDone
  PROVE  LedgerInv' /\ LedgerStep
<1>1. PICK f, o, d : /\ f = [id \in Ids |-> IF fate[id] = "armed" THEN "done" ELSE fate[id]]
                     /\ o = Released(out) /\ d = due
  OBVIOUS
<1>2. Flush("events", Concluded, o, f, "none", d, TRUE) /\ UNCHANGED pending
  BY <1>1 DEF OutputDone
<1>3. /\ o.owner = None /\ ~o.unauthorized
  BY <1>1 DEF Released, Silent
<1>4. /\ f \in [Ids -> Ledger!Fate] /\ FateIs(f)
      /\ \A id \in Ids : f[id] = IF fate[id] = "armed" THEN "done" ELSE fate[id]
  BY <1>1, <1>2 DEF FateIs, TurnsInv, IdsOK, Ledger!Fate
<1>5. /\ Concluded \in SUBSET Synthetic /\ RecordsAre(Concluded, f)
      /\ \A r \in Concluded : SyntheticId(r.turn) \in Ids
  <2>1. RecordsAre(Concluded, fate)
    BY ConcludedCount
  <2>2. \A r \in Concluded : SyntheticId(r.turn) \in Ids /\ r \in Synthetic
    BY <2>1, IdFacts DEF RecordsAre, Relabels, Synthetic
  <2>. QED BY <1>4, <2>1, <2>2 DEF RecordsAre, Settled
<1>6. /\ \A w, v \in writes : w = v
      /\ {id \in Ids : fate[id] = "armed"} = {out.owner} \ {None}
      /\ \A w \in writes : fate[w.id] # "none"
      /\ \A r \in Concluded : Accounted(r, fate, writes)
  <2>1. Accounts(Concluded, fate, out, writes)
    <3>1. CASE Concluded = synthetic
      BY <3>1 DEF LedgerInv
    <3>2. ASSUME NEW r \in synthetic, NEW new \in Synthetic, Concludes(r, new),
                 Concluded = Updated(synthetic, r, new)
          PROVE  Accounts(Concluded, fate, out, writes)
      <4>1. /\ new.turn = r.turn /\ new.answered = r.answered /\ new.sent = r.sent
            /\ r.resolved => new.resolved
        BY <3>2 DEF Concludes, TurnsInv, RecordsOK, Synthetic
      <4>2. Accounts(synthetic, fate, out, writes)
        BY DEF LedgerInv
      <4>3. Accounts(Updated(synthetic, r, new), fate, out, writes)
        BY <4>1, <4>2, RestatedAccounts
      <4>. QED BY <3>2, <4>3
    <3>. QED BY <3>1, <3>2, ConcludedFacts
  <2>. QED BY <2>1 DEF Accounts
<1>7. \A r \in Concluded, w \in writes : ~Carries(w, r)
  <2>. SUFFICES ASSUME NEW r \in Concluded, NEW w \in writes, Carries(w, r) PROVE FALSE
    OBVIOUS
  <2>1. r.answered /\ ~r.sent
    BY <1>6 DEF Accounted
  <2>2. PICK ready : ready = Flushable(Concluded, o) /\ r \in ready
                     /\ ready = {q \in Concluded : q.answered /\ ~q.sent}
    BY <1>3, <2>1 DEF Flushable
  <2>3. First(ready) \in ready
    BY <1>5, <2>2, FirstFacts
  <2>4. First(ready).resolved
    BY <1>6, <2>2, <2>3 DEF Accounted
  <2>5. writes = {}
    BY <1>2, <2>2, <2>4 DEF Flush, Sends
  <2>. QED BY <2>5
<1>8. Accounts(Concluded, f, o, writes)
  <2>1. \A w \in writes : w.id \in Ids
    BY DEF TurnsInv, RecordsOK, Write
  <2>2. {id \in Ids : f[id] = "armed"} = {o.owner} \ {None}
    BY <1>3, <1>4
  <2>3. \A w \in writes : f[w.id] # "none" /\ o.owner \in {None, w.id}
    BY <1>3, <1>4, <1>6, <2>1
  <2>4. ASSUME NEW r \in Concluded PROVE Accounted(r, f, writes)
    <3>1. Accounted(r, fate, writes) /\ SyntheticId(r.turn) \in Ids
      BY <1>5, <1>6
    <3>2. \A w \in writes : ~Carries(w, r)
      BY <1>7
    <3>. QED BY <1>4, <3>1, <3>2 DEF Accounted
  <2>. QED BY <1>6, <2>2, <2>3, <2>4 DEF Accounts
<1>9. /\ LedgerInv'
      /\ \/ fate' = f
         \/ \E id \in Ids : f[id] = "answered" /\ fate' = FateArmed(f, id)
  <2>1. PICK syn : syn = Concluded
    OBVIOUS
  <2>2. /\ Flush("events", syn, o, f, "none", d, TRUE) /\ RecordsAre(syn, f)
        /\ Accounts(syn, f, o, writes)
    BY <1>2, <1>5, <1>8, <2>1
  <2>. QED BY <1>4, <2>2, FlushAccounts
<1>10. CASE fate' = f
  <2>1. CASE out.owner = None
    <3>1. \A id \in Ids : f[id] = fate[id]
      BY <1>4, <1>6, <2>1
    <3>2. fate' = fate
      BY <1>4, <1>10, <3>1 DEF TurnsInv, IdsOK
    <3>. QED BY <1>9, <3>2 DEF LedgerStep
  <2>2. CASE out.owner # None
    <3>1. PICK id \in Ids : id = out.owner /\ fate[id] = "armed"
      BY <1>6, <2>2
    <3>2. \A x \in Ids : f[x] = IF x = id THEN "done" ELSE fate[x]
      BY <1>4, <1>6, <3>1
    <3>3. fate' = [fate EXCEPT ![id] = "done"]
      BY <1>4, <1>10, <3>2 DEF TurnsInv, IdsOK
    <3>4. Ledger!Spoken(id)
      BY <3>1, <3>3 DEF Ledger!Spoken
    <3>. QED BY <1>9, <3>4 DEF LedgerStep, Ledger!Next
  <2>. QED BY <2>1, <2>2
<1>11. ASSUME NEW id \in Ids, f[id] = "answered", fate' = FateArmed(f, id) PROVE LedgerStep
  <2>1. fate[id] = "answered"
    BY <1>4, <1>11
  <2>2. fate' = FateArmed(fate, id)
    BY <1>4, <1>11 DEF FateArmed
  <2>. QED BY <2>1, <2>2, SpeakSteps
<1>. QED BY <1>9, <1>10, <1>11

\* An interruption drops what is outstanding in both.
LEMMA ClearAccounts ==
  ASSUME TurnsInv, LedgerInv, Clear
  PROVE  LedgerInv' /\ LedgerStep
<1>1. /\ synthetic' = {} /\ out' = Silent /\ writes' = writes
      /\ fate' = [id \in Ids |-> IF fate[id] \in {"requested", "answered", "armed"}
                                 THEN "dropped" ELSE fate[id]]
  BY DEF Clear, SyntheticCleared
<1>2. out'.owner = None
  BY <1>1 DEF Silent
<1>3. \A id \in Ids : fate'[id] # "armed" /\ (fate[id] # "none" => fate'[id] # "none")
  BY <1>1
<1>4. \A w \in writes : fate'[w.id] # "none"
  BY <1>3 DEF LedgerInv, Accounts, TurnsInv, RecordsOK, Write
<1>5. LedgerInv'
  BY <1>1, <1>2, <1>3, <1>4 DEF LedgerInv, Accounts
<1>6. Ledger!Interrupt
  BY <1>1 DEF Ledger!Interrupt
<1>. QED BY <1>5, <1>6 DEF LedgerStep, Ledger!Next

\* What ends the session drops what is outstanding, as an interruption does.
LEMMA EndingAccounts ==
  ASSUME TurnsInv, LedgerInv,
         \/ ServiceCloses \/ ProviderError \/ TooManyDeferred \/ Disconnect \/ OpenEnds
         \/ Interrupt
  PROVE  LedgerInv' /\ LedgerStep
<1>1. CASE Clear
  BY <1>1, ClearAccounts
<1>2. CASE UNCHANGED service_vars
  BY <1>2, QuietAccounts DEF service_vars, delegation_vars, output_vars
<1>. QED BY <1>1, <1>2
         DEF ServiceCloses, ProviderError, TooManyDeferred, Disconnect, OpenEnds, Interrupt,
             Fail, ClearAndClose

\* The connection's own steps make a write raise, or leave the accounts alone.
LEMMA ConnectionAccounts ==
  ASSUME TurnsInv, LedgerInv, TransportOpens \/ LosesLink \/ TransportCloses \/ CleanupRuns
  PROVE  LedgerInv' /\ LedgerStep
<1>1. CASE UNCHANGED service_vars
  BY <1>1, QuietAccounts DEF service_vars, delegation_vars, output_vars
<1>2. CASE \E w \in writes : Raised(w)
  BY <1>2, RaisedAccounts
<1>. QED BY <1>1, <1>2 DEF TransportOpens, LosesLink, TransportCloses, CleanupRuns

\* The provider's speech changes nothing of who owns it, until it ends.
LEMMA SpeechAccounts ==
  ASSUME TurnsInv, LedgerInv,
         \/ SessionStarted \/ UserSpeaks \/ UserTurnDone
         \/ OutputText \/ OutputAudio \/ SilentAudio \/ ForeignTurnDone
  PROVE  LedgerInv' /\ LedgerStep
<1>1. out \in Output
  BY DEF TurnsInv, OutputOK
<1>. USE DEF delegation_vars, output_vars
<1>2. CASE SessionStarted \/ UserSpeaks \/ UserTurnDone
  <2>1. out'.owner = out.owner
    BY <1>1, <1>2 DEF SessionStarted, UserSpeaks, UserTurnDone, Output
  <2>. QED BY <1>2, <2>1, QuietAccounts DEF SessionStarted, UserSpeaks, UserTurnDone
<1>3. CASE OutputText \/ OutputAudio \/ SilentAudio \/ ForeignTurnDone
  <2>1. out'.owner = out.owner
    BY <1>1, <1>3
       DEF OutputText, OutputAudio, SilentAudio, ForeignTurnDone, Authorized, Output
  <2>. QED BY <1>3, <2>1, QuietAccounts
           DEF OutputText, OutputAudio, SilentAudio, ForeignTurnDone
<1>. QED BY <1>2, <1>3

\* A delegation is deferred, or handled at once or after its turn.
LEMMA DelegationAccounts ==
  ASSUME TurnsInv, LedgerInv, WritesOverlap = FALSE,
         ResolveNext \/ \E text \in Text : DelegationCreated(text)
  PROVE  LedgerInv' /\ LedgerStep
<1>1. CASE ResolveNext
  <2>1. PICK n, text, own, match :
          /\ Handle(n, text, own, match)
          /\ n = Head(todo).of.n /\ own = Head(todo).own /\ match = ~Head(todo).own
    BY <1>1 DEF ResolveNext
  <2>2. todo # <<>> /\ todo \in Seq([own : BOOLEAN, of : Deferred])
    BY <1>1 DEF ResolveNext, TurnsInv, TodoOK
  <2>3. /\ 1 \in 1..Len(todo) /\ Head(todo) = todo[1]
        /\ Head(todo) \in [own : BOOLEAN, of : Deferred]
    <3>1. PICK T, s : T = [own : BOOLEAN, of : Deferred] /\ s = todo
      OBVIOUS
    <3>2. s \in Seq(T) /\ s # <<>>
      BY <2>2, <3>1
    <3>3. Len(s) \in Nat /\ 1 <= Len(s) /\ Head(s) \in T /\ Head(s) = s[1]
      BY <3>2, FirstOfMany
    <3>4. 1 \in 1..Len(s)
      BY <3>3
    <3>. QED BY <3>1, <3>3, <3>4, Zenon
  <2>4. Fresh(n)
    BY <2>1, <2>3 DEF TurnsInv, TodoOK
  <2>5. own \in BOOLEAN /\ match \in BOOLEAN
    BY <2>1, <2>3
  <2>. QED BY <2>1, <2>4, <2>5, HandleAccounts DEF Fresh
<1>2. ASSUME NEW text \in Text, DelegationCreated(text) PROVE LedgerInv' /\ LedgerStep
  <2>1. PICK n : n = delegations + 1
    OBVIOUS
  <2>2. CASE in_turn
    <3>1. UNCHANGED <<delegation_vars, output_vars>>
      BY <1>2, <2>2 DEF DelegationCreated
    <3>. QED BY <3>1, QuietAccounts DEF delegation_vars, output_vars
  <2>3. CASE ~in_turn
    <3>1. n \in Delegations /\ Handle(n, text, TRUE, TRUE)
      BY <1>2, <2>1, <2>3 DEF DelegationCreated
    <3>2. fate[ProviderId(n)] = "none"
      BY <2>1, <3>1, BoundFacts DEF TurnsInv, SessionOK, IdsOK, Delegations
    <3>. QED BY <3>1, <3>2, HandleAccounts
  <2>. QED BY <2>2, <2>3
<1>. QED BY <1>1, <1>2

\* Both start empty.
LEMMA LedgerStarts ==
  ASSUME Init
  PROVE  LedgerInv /\ Ledger!Init
BY IdFacts DEF Init, LedgerInv, Accounts, Ledger!Init, Silent

\* Every step of the service is one of the ledger or a stutter.
LEMMA LedgerSteps ==
  ASSUME TurnsInv, LedgerInv, WritesOverlap = FALSE, [Next]_vars
  PROVE  LedgerInv' /\ LedgerStep
<1>1. CASE UNCHANGED vars
  BY <1>1, QuietAccounts DEF vars, service_vars, delegation_vars, output_vars
<1>2. CASE HandlerGoesOn
  BY <1>2, DelegationAccounts, UserTurnEndsAccounts DEF HandlerGoesOn
<1>3. CASE TransportOpens \/ LosesLink \/ TransportCloses \/ CleanupRuns
  BY <1>3, ConnectionAccounts
<1>4. CASE \/ ServiceCloses \/ ProviderError \/ TooManyDeferred \/ Disconnect \/ OpenEnds
           \/ Interrupt
  BY <1>4, EndingAccounts
<1>5. CASE \/ SessionStarted \/ UserSpeaks \/ UserTurnDone
           \/ OutputText \/ OutputAudio \/ SilentAudio
  BY <1>5, SpeechAccounts
<1>6. CASE \E text \in Text : DelegationCreated(text)
  BY <1>6, DelegationAccounts
<1>7. CASE OutputEnds
  BY <1>7, SpeechAccounts, OutputDoneAccounts DEF OutputEnds
<1>8. CASE \E id \in Ids : ClientCompletes(id)
  BY <1>8, ClientCompletesAccounts
<1>9. CASE WriteReturns
  BY <1>9, WriteEndsAccounts, RaisedAccounts DEF WriteReturns, WriteFails
<1>. QED BY <1>1, <1>2, <1>3, <1>4, <1>5, <1>6, <1>7, <1>8, <1>9 DEF Next

\* As long as no write outlasts the client's next answer, the one answer that is armed
\* owns the provider's output, and every answer that was not sent is free to be sent or
\* on its way.
THEOREM LedgerInvariant ==
  ASSUME WritesOverlap = FALSE
  PROVE  Spec => [](TurnsInv /\ LedgerInv)
<1>1. Init => TurnsInv /\ LedgerInv
  BY TurnsStart, LedgerStarts
<1>2. TurnsInv /\ LedgerInv /\ [Next]_vars => TurnsInv' /\ LedgerInv'
  BY TurnsStep, LedgerSteps
<1>. QED BY <1>1, <1>2, PTL DEF Spec

\* Types; and what is pending is what the client still owes, the owner of the output is
\* the one answer that is armed, and nothing is awaited without an owner.
THEOREM QuicksilverTypesCorrect ==
  ASSUME WritesOverlap = FALSE
  PROVE  Spec => []QuicksilverTypeOK
<1>1. TurnsInv /\ LedgerInv => QuicksilverTypeOK
  <2>. SUFFICES ASSUME TurnsInv, LedgerInv PROVE QuicksilverTypeOK
    OBVIOUS
  <2>1. Cardinality({r \in synthetic : r.spoken}) <= MaxTombstones + 1
    BY DEF TurnsInv, PruningOK, Spoken
  <2>2. /\ deferred \in Seq(Deferred) /\ Len(deferred) <= MaxDeferred
        /\ todo \in Seq([own : BOOLEAN, of : Deferred])
    BY DEF TurnsInv, DeferredOK, TodoOK
  <2>3. /\ pending = {id \in Ids : fate[id] = "requested"}
        /\ {id \in Ids : fate[id] = "armed"} = {out.owner} \ {None}
    BY DEF TurnsInv, IdsOK, LedgerInv, Accounts
  <2>4. /\ state \in {"connecting", "listening", "thinking", "speaking", "failed"}
        /\ speaking \in BOOLEAN /\ closed \in BOOLEAN /\ in_turn \in BOOLEAN
        /\ finalizing \in BOOLEAN /\ due \in {"no", "next", "overtaken"}
        /\ state = "speaking" => speaking \/ closed
        /\ turn \in 0..MaxTurn /\ delegations \in 0..MaxDelegation
        /\ said \in [Turns -> Text]
    BY DEF TurnsInv, SessionOK, OutputOK, States, Due
  <2>5. /\ synthetic \subseteq Synthetic /\ writes \subseteq Write
        /\ active_delegation \in Ids \cup {None} /\ bound \in [Turns -> Ids \cup {None}]
        /\ speech \in {"none", "ack", "direct", "answer", "late"} /\ out \in Output
        /\ out.awaiting => out.owner # None
        /\ TransportTypeOK
    BY DEF TurnsInv, RecordsOK, BoundOK, OutputOK, Speech
  <2>6. fate \in [Ids -> {"none", "requested", "answered", "armed", "done", "dropped"}]
    BY DEF TurnsInv, IdsOK, Ledger!Fate
  <2>. QED BY <2>1, <2>2, <2>3, <2>4, <2>5, <2>6 DEF QuicksilverTypeOK
<1>. QED BY <1>1, LedgerInvariant, PTL

\* The service keeps what DelegationLedger promises the client: a request is answered
\* once, its answer is given to the provider once unless the write failed, one answer
\* owns the output at a time, and nothing comes back after an interruption.
THEOREM ServiceImplementsLedger ==
  ASSUME WritesOverlap = FALSE
  PROVE  Spec => ImplementsLedger
<1>1. Init => Ledger!Init
  BY LedgerStarts
<1>2. TurnsInv /\ LedgerInv /\ [Next]_vars => [Ledger!Next]_fate
  BY LedgerSteps DEF LedgerStep
<1>. QED BY <1>1, <1>2, LedgerInvariant, PTL DEF Spec, ImplementsLedger, Ledger!Spec
================================================================================
