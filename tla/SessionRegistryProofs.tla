------------------------- MODULE SessionRegistryProofs -------------------------
(***************************************************************************)
(* Theorems about the session registry, for any sets of sessions and       *)
(* providers, any policy and any bounds: its invariants, its action        *)
(* properties, and that it implements the lease of module AudioLease.      *)
(***************************************************************************)
EXTENDS SessionRegistry, TLAPS

\* Generations are handed out once: no record and no lease carries one that
\* the counter has not reached, and a lease is never newer than the record.
GenerationsHandedOut ==
  /\ \A id \in SessionIds : sessions[id].generation <= next_generation
  /\ \A sc \in Scopes : audio_owners[sc].generation <= next_generation
  /\ \A sc \in Scopes, id \in SessionIds :
       Present(id) /\ audio_owners[sc].id = id =>
         audio_owners[sc].generation <= sessions[id].generation

\* A lease is filed under the scope of the session that holds it.
LeasesInScope ==
  \A sc \in Scopes, id \in SessionIds :
    audio_owners[sc].id = id => sc = lease_scope(id)

\* The inductive invariant.
IInv ==
  /\ RegistryTypeOK
  /\ GenerationsHandedOut
  /\ LeasesInScope
  /\ LeaseHeldByLiveSession
-------------------------------------------------------------------------------
\* What the type invariant says of one record of the table.
LEMMA RecordTypes ==
  ASSUME RegistryTypeOK, NEW id \in SessionIds
  PROVE  /\ sessions[id] \in VoiceSessionSnapshot \/ sessions[id] = NoSession
         /\ Present(id) <=> sessions[id] \in VoiceSessionSnapshot
         /\ sessions[id].generation \in 0..MaxGeneration
         /\ sessions[id].provider_generation \in 0..MaxProviderGeneration
         /\ Present(id) => /\ sessions[id].generation \in 1..MaxGeneration
                           /\ sessions[id].state \in SessionState
                           /\ HandleOf(id) \in SessionHandle
         /\ ~Present(id) => sessions[id].generation = 0
  BY RegistryAssumption
     DEF RegistryTypeOK, VoiceSessionSnapshot, NoSession, Present, SessionState,
         HandleOf, SessionHandle

\* The scope of a session is one of the registry's lease scopes.
LEMMA ScopeType ==
  ASSUME NEW id \in SessionIds
  PROVE  lease_scope(id) \in Scopes
  BY DEF lease_scope, Scopes

\* The state machine never leaves the states of the enumeration, and leaves a
\* terminal state for no other.
LEMMA TransitionTargets ==
  ASSUME NEW st \in SessionState
  PROVE  /\ ALLOWED_TRANSITIONS(st) \subseteq SessionState
         /\ st \in TERMINAL_SESSION_STATES => ALLOWED_TRANSITIONS(st) = {}
  BY DEF ALLOWED_TRANSITIONS, SessionState, TERMINAL_SESSION_STATES

\* Giving a lease back keeps every other lease and adds no holder.
LEMMA LeasesWithoutType ==
  ASSUME RegistryTypeOK, NEW id \in SessionIds
  PROVE  /\ LeasesWithout(id) \in [Scopes -> SessionHandle \cup {NoHandle}]
         /\ \A sc \in Scopes : LeasesWithout(id)[sc] \in {audio_owners[sc], NoHandle}
  BY ScopeType DEF RegistryTypeOK, LeasesWithout
-------------------------------------------------------------------------------
\* The shape of the calls that rewrite one record and touch nothing else: the
\* record stays that of the same live incarnation, which does not end.
RewritesRecord(id, r) ==
  /\ Present(id)
  /\ sessions[id].state \notin TERMINAL_SESSION_STATES
  /\ r \in VoiceSessionSnapshot
  /\ r.generation = sessions[id].generation
  /\ r.state \notin TERMINAL_SESSION_STATES
  /\ sessions' = [sessions EXCEPT ![id] = r]
  /\ UNCHANGED <<lease_policy, next_generation, audio_owners>>

\* Beginning, restarting and activating a switch are such calls.
LEMMA SwitchRewritesRecord ==
  ASSUME RegistryTypeOK, NEW id \in SessionIds, NEW p \in ProviderIds,
         NEW eg, NEW epg,
         \/ BeginProviderSwitch(id, p, eg, epg)
         \/ RestartProviderSwitch(id, p, eg, epg)
         \/ ActivateProvider(id, p, eg, epg)
  PROVE  \E r : RewritesRecord(id, r)
<1>. DEFINE Switched == SwitchingTo(id, p)
            Activated == [sessions[id] EXCEPT !.state = "connecting", !.active_provider = p]
<1>1. /\ sessions[id] \in VoiceSessionSnapshot /\ Present(id)
      /\ sessions[id].state \notin TERMINAL_SESSION_STATES
  BY RecordTypes
     DEF BeginProviderSwitch, RestartProviderSwitch, CanRestartProviderSwitch,
         ActivateProvider, CanActivateProvider, require, TERMINAL_SESSION_STATES
<1>2. ASSUME sessions[id].provider_generation < MaxProviderGeneration
      PROVE  /\ Switched \in VoiceSessionSnapshot
             /\ Switched.generation = sessions[id].generation
             /\ Switched.state \notin TERMINAL_SESSION_STATES
  <2>1. sessions[id].provider_generation + 1 \in 0..MaxProviderGeneration
    BY <1>1, <1>2, RegistryAssumption DEF VoiceSessionSnapshot
  <2>. DEFINE pg == sessions[id].provider_generation + 1
  <2>2. Switched = [sessions[id] EXCEPT !.state = "switching",
                                        !.provider_generation = pg,
                                        !.desired_provider = p]
    BY DEF SwitchingTo
  <2>. HIDE DEF pg, Switched
  <2>3. pg \in 0..MaxProviderGeneration
    BY <2>1 DEF pg
  <2>. QED
    BY <1>1, <2>2, <2>3 DEF VoiceSessionSnapshot, SessionState, TERMINAL_SESSION_STATES
<1>3. /\ Activated \in VoiceSessionSnapshot
      /\ Activated.generation = sessions[id].generation
      /\ Activated.state \notin TERMINAL_SESSION_STATES
  BY <1>1 DEF VoiceSessionSnapshot, SessionState, TERMINAL_SESSION_STATES
<1>4. CASE BeginProviderSwitch(id, p, eg, epg)
  <2>1. RewritesRecord(id, Switched)
    BY <1>1, <1>2, <1>4 DEF BeginProviderSwitch, RewritesRecord
  <2>. QED BY <2>1
<1>5. CASE RestartProviderSwitch(id, p, eg, epg)
  <2>1. RewritesRecord(id, Switched)
    BY <1>1, <1>2, <1>5 DEF RestartProviderSwitch, RewritesRecord
  <2>. QED BY <2>1
<1>6. CASE ActivateProvider(id, p, eg, epg)
  <2>1. sessions' = [sessions EXCEPT ![id] = Activated]
    BY <1>6, <1>1 DEF ActivateProvider, RegistryTypeOK
  <2>2. RewritesRecord(id, Activated)
    BY <1>1, <1>3, <1>6, <2>1 DEF ActivateProvider, RewritesRecord
  <2>. QED BY <2>2
<1>. QED BY <1>4, <1>5, <1>6

\* A rewritten record keeps the invariant.
LEMMA RewriteKeepsInvariant ==
  ASSUME IInv, NEW id \in SessionIds, NEW r, RewritesRecord(id, r)
  PROVE  IInv'
<1>1. RegistryTypeOK'
  BY DEF IInv, RegistryTypeOK, RewritesRecord
<1>2. \A i \in SessionIds : /\ Present(i)' <=> Present(i)
                            /\ sessions'[i].generation = sessions[i].generation
                            /\ HandleOf(i)' = HandleOf(i)
  BY RegistryAssumption DEF IInv, RegistryTypeOK, RewritesRecord, Present, HandleOf, VoiceSessionSnapshot,
         SessionState
<1>3. GenerationsHandedOut'
  BY <1>2 DEF IInv, GenerationsHandedOut, RewritesRecord
<1>4. LeasesInScope'
  BY DEF IInv, LeasesInScope, RewritesRecord, lease_scope
<1>5. LeaseHeldByLiveSession'
  BY <1>2 DEF IInv, LeaseHeldByLiveSession, RewritesRecord, RegistryTypeOK
<1>. QED BY <1>1, <1>3, <1>4, <1>5 DEF IInv
-------------------------------------------------------------------------------
\* Handing out a generation keeps the invariant.
LEMMA CreateKeepsInvariant ==
  ASSUME IInv, NEW id \in SessionIds, NEW p \in ProviderIds \cup {None},
         NEW replace_existing, Create(id, p, replace_existing)
  PROVE  IInv'
<1>. USE RegistryAssumption
<1>1. /\ NewSnapshot(p) \in VoiceSessionSnapshot
      /\ NewSnapshot(p).generation = next_generation + 1
      /\ NewSnapshot(p).state = "created"
  BY DEF IInv, RegistryTypeOK, Create, CanCreate, NewSnapshot, VoiceSessionSnapshot,
         SessionState
<1>2. RegistryTypeOK'
  BY <1>1 DEF IInv, RegistryTypeOK, Create, CanCreate
<1>3. /\ \A i \in SessionIds : sessions[i].generation \in Nat
      /\ \A sc \in Scopes : audio_owners[sc].generation \in Nat
      /\ next_generation \in Nat
  BY RecordTypes DEF IInv, RegistryTypeOK, SessionHandle, NoHandle
<1>4. GenerationsHandedOut'
  BY <1>1, <1>3 DEF IInv, GenerationsHandedOut, Create, Present, RegistryTypeOK
<1>5. LeasesInScope'
  BY DEF IInv, LeasesInScope, Create, lease_scope
<1>6. LeaseHeldByLiveSession'
  BY <1>1, <1>3 DEF IInv, LeaseHeldByLiveSession, Create, Present, HandleOf, RegistryTypeOK,
     GenerationsHandedOut, TERMINAL_SESSION_STATES
<1>. QED BY <1>2, <1>4, <1>5, <1>6 DEF IInv
-------------------------------------------------------------------------------
\* The only lease a session can hold is the one of its own scope, so giving
\* that one back leaves it with none.
LEMMA LeasesWithoutDropsAll ==
  ASSUME IInv, NEW id \in SessionIds, Present(id), NEW sc \in Scopes
  PROVE  LeasesWithout(id)[sc] =
           IF audio_owners[sc] = HandleOf(id) THEN NoHandle ELSE audio_owners[sc]
<1>1. audio_owners[sc] = HandleOf(id) => sc = lease_scope(id)
  BY DEF IInv, LeasesInScope, HandleOf
<1>. QED BY <1>1, ScopeType DEF LeasesWithout, IInv, RegistryTypeOK

\* Changing a record's state, together with its lease when that is an end,
\* keeps the invariant.
LEMMA StateChangeKeepsInvariant ==
  ASSUME IInv, NEW id \in SessionIds, NEW st \in SessionState, Present(id),
         sessions' = [sessions EXCEPT ![id].state = st],
         audio_owners' = IF st \in TERMINAL_SESSION_STATES
                         THEN LeasesWithout(id) ELSE audio_owners,
         UNCHANGED <<lease_policy, next_generation>>
  PROVE  IInv'
<1>1. sessions[id] \in VoiceSessionSnapshot
  BY RecordTypes DEF IInv
<1>2. [sessions[id] EXCEPT !.state = st] \in VoiceSessionSnapshot
  BY <1>1 DEF VoiceSessionSnapshot
<1>3. sessions' = [sessions EXCEPT ![id] = [sessions[id] EXCEPT !.state = st]]
  OBVIOUS
<1>4. audio_owners' \in [Scopes -> SessionHandle \cup {NoHandle}]
      /\ \A sc \in Scopes : audio_owners'[sc] \in {audio_owners[sc], NoHandle}
  BY LeasesWithoutType DEF IInv, RegistryTypeOK
<1>5. RegistryTypeOK'
  BY <1>2, <1>3, <1>4 DEF IInv, RegistryTypeOK
<1>6. \A i \in SessionIds : /\ Present(i)' <=> Present(i)
                            /\ sessions'[i].generation = sessions[i].generation
                            /\ HandleOf(i)' = HandleOf(i)
                            /\ i # id => sessions'[i] = sessions[i]
  BY <1>1, <1>2, <1>3
     DEF IInv, RegistryTypeOK, Present, HandleOf, VoiceSessionSnapshot, SessionState
<1>7. GenerationsHandedOut'
  BY <1>4, <1>6, RegistryAssumption, RecordTypes
     DEF IInv, RegistryTypeOK, GenerationsHandedOut, NoHandle
<1>8. LeasesInScope'
  BY <1>4, RegistryAssumption DEF IInv, LeasesInScope, lease_scope, NoHandle
<1>9. LeaseHeldByLiveSession'
  <2>1. SUFFICES ASSUME NEW sc \in Scopes, NEW i \in SessionIds,
                        Present(i), audio_owners'[sc] = HandleOf(i)
                 PROVE  sessions'[i].state \notin TERMINAL_SESSION_STATES
    BY <1>6 DEF LeaseHeldByLiveSession
  <2>2. audio_owners[sc] = HandleOf(i)
    BY <1>4, <2>1, RegistryAssumption DEF NoHandle, HandleOf
  <2>3. CASE i # id
    BY <1>6, <2>1, <2>2, <2>3 DEF IInv, LeaseHeldByLiveSession
  <2>4. CASE i = id
    <3>1. st \notin TERMINAL_SESSION_STATES
      BY <2>1, <2>2, <2>4, <1>1, LeasesWithoutDropsAll, RegistryAssumption
         DEF NoHandle, HandleOf
    <3>2. sessions'[id].state = st
      BY <1>1, <1>3 DEF IInv, RegistryTypeOK, VoiceSessionSnapshot
    <3>. QED BY <3>1, <3>2, <2>4
  <2>. QED BY <2>3, <2>4
<1>. QED BY <1>5, <1>7, <1>8, <1>9 DEF IInv

\* A transition is such a change.
LEMMA TransitionKeepsInvariant ==
  ASSUME IInv, NEW id \in SessionIds, NEW st \in SessionState, NEW eg, NEW epg,
         Transition(id, st, eg, epg)
  PROVE  IInv'
BY StateChangeKeepsInvariant DEF Transition, CanTransition, require

\* A lease call keeps the invariant: it hands a lease to the caller's own
\* live incarnation, or takes one away.
LEMMA LeaseCallKeepsInvariant ==
  ASSUME IInv, NEW id \in SessionIds, NEW eg,
         AcquireAudio(id, eg) \/ ReleaseAudio(id, eg)
  PROVE  IInv'
<1>1. CASE AcquireAudio(id, eg)
  <2>1. /\ Present(id)
        /\ HandleOf(id) \in SessionHandle
        /\ sessions[id].state \notin TERMINAL_SESSION_STATES
        /\ lease_scope(id) \in Scopes
    BY <1>1, RecordTypes, ScopeType DEF IInv, AcquireAudio, CanAcquireAudio, require
  <2>2. RegistryTypeOK'
    BY <1>1, <2>1 DEF IInv, RegistryTypeOK, AcquireAudio
  <2>3. GenerationsHandedOut'
    BY <1>1, <2>1, RecordTypes, RegistryAssumption
       DEF IInv, RegistryTypeOK, GenerationsHandedOut, AcquireAudio, HandleOf, Present
  <2>4. LeasesInScope'
    BY <1>1, <2>1 DEF IInv, RegistryTypeOK, LeasesInScope, AcquireAudio, HandleOf, lease_scope
  <2>5. LeaseHeldByLiveSession'
    BY <1>1, <2>1
       DEF IInv, RegistryTypeOK, LeaseHeldByLiveSession, AcquireAudio, HandleOf, Present
  <2>. QED BY <2>2, <2>3, <2>4, <2>5 DEF IInv
<1>2. CASE ReleaseAudio(id, eg)
  <2>1. /\ audio_owners' \in [Scopes -> SessionHandle \cup {NoHandle}]
        /\ \A sc \in Scopes : audio_owners'[sc] \in {audio_owners[sc], NoHandle}
    BY <1>2, ScopeType DEF IInv, RegistryTypeOK, ReleaseAudio, LeasesAfterRelease
  <2>2. RegistryTypeOK'
    BY <1>2, <2>1 DEF IInv, RegistryTypeOK, ReleaseAudio
  <2>3. GenerationsHandedOut'
    BY <1>2, <2>1, RegistryAssumption
       DEF IInv, RegistryTypeOK, GenerationsHandedOut, ReleaseAudio, NoHandle, Present
  <2>4. LeasesInScope'
    BY <1>2, <2>1, RegistryAssumption
       DEF IInv, LeasesInScope, ReleaseAudio, lease_scope, NoHandle
  <2>5. LeaseHeldByLiveSession'
    BY <1>2, <2>1, RegistryAssumption
       DEF IInv, LeaseHeldByLiveSession, ReleaseAudio, HandleOf, Present, NoHandle
  <2>. QED BY <2>2, <2>3, <2>4, <2>5 DEF IInv
<1>. QED BY <1>1, <1>2

\* Removing a record takes nothing from the others.
LEMMA RemovalKeepsInvariant ==
  ASSUME IInv, NEW id \in SessionIds,
         sessions' = [sessions EXCEPT ![id] = NoSession],
         audio_owners' \in [Scopes -> SessionHandle \cup {NoHandle}],
         \A sc \in Scopes : audio_owners'[sc] \in {audio_owners[sc], NoHandle},
         UNCHANGED <<lease_policy, next_generation>>
  PROVE  IInv'
<1>1. RegistryTypeOK'
  BY DEF IInv, RegistryTypeOK
<1>2. \A i \in SessionIds : sessions'[i] = IF i = id THEN NoSession ELSE sessions[i]
  BY DEF IInv, RegistryTypeOK
<1>3. GenerationsHandedOut'
  BY <1>2, RegistryAssumption
     DEF IInv, RegistryTypeOK, GenerationsHandedOut, NoHandle, Present, NoSession
<1>4. LeasesInScope'
  BY RegistryAssumption DEF IInv, LeasesInScope, lease_scope, NoHandle
<1>5. LeaseHeldByLiveSession'
  BY <1>2, RegistryAssumption
     DEF IInv, LeaseHeldByLiveSession, HandleOf, Present, NoSession, NoHandle
<1>. QED BY <1>1, <1>3, <1>4, <1>5 DEF IInv

\* Reaping keeps the invariant.
LEMMA ReapKeepsInvariant ==
  ASSUME IInv, NEW id \in SessionIds, NEW eg, Reap(id, eg)
  PROVE  IInv'
BY LeasesWithoutType, RemovalKeepsInvariant DEF IInv, Reap
-------------------------------------------------------------------------------
\* The registry starts in the invariant: no record, no lease.
LEMMA InitInvariant == RegistryInit => IInv
<1>. SUFFICES ASSUME RegistryInit PROVE IInv
  OBVIOUS
<1>1. RegistryTypeOK
  BY RegistryAssumption DEF RegistryInit, RegistryTypeOK
<1>2. GenerationsHandedOut /\ LeasesInScope /\ LeaseHeldByLiveSession
  BY RegistryAssumption
     DEF RegistryInit, GenerationsHandedOut, LeasesInScope, LeaseHeldByLiveSession,
         NoSession, NoHandle, Present
<1>. QED BY <1>1, <1>2 DEF IInv

\* Every call of the registry, and every step that leaves it alone, keeps the
\* invariant.
LEMMA StepInvariant == IInv /\ [RegistryNext]_registry_vars => IInv'
<1>. SUFFICES ASSUME IInv, [RegistryNext]_registry_vars PROVE IInv'
  OBVIOUS
<1>1. CASE UNCHANGED registry_vars
  BY <1>1 DEF registry_vars, IInv, RegistryTypeOK, GenerationsHandedOut, LeasesInScope,
              LeaseHeldByLiveSession, Present, HandleOf, lease_scope
<1>2. CASE RegistryNext
  <2>1. PICK id \in SessionIds :
          \/ \E p \in ProviderIds \cup {None}, r \in BOOLEAN : Create(id, p, r)
          \/ \E eg \in ExpectedGenerations :
               \/ SessionCall(id, eg)
               \/ \E epg \in ExpectedProviderGenerations : ProviderCall(id, eg, epg)
    BY <1>2 DEF RegistryNext
  <2>2. CASE \E p \in ProviderIds \cup {None}, r \in BOOLEAN : Create(id, p, r)
    BY <2>2, CreateKeepsInvariant
  <2>3. ASSUME NEW eg, SessionCall(id, eg) PROVE IInv'
    BY <2>3, LeaseCallKeepsInvariant, ReapKeepsInvariant DEF SessionCall
  <2>4. ASSUME NEW eg, NEW epg, ProviderCall(id, eg, epg) PROVE IInv'
    <3>1. CASE \E st \in SessionState : Transition(id, st, eg, epg)
      BY <3>1, TransitionKeepsInvariant
    <3>2. ASSUME NEW p \in ProviderIds,
                 \/ BeginProviderSwitch(id, p, eg, epg)
                 \/ RestartProviderSwitch(id, p, eg, epg)
                 \/ ActivateProvider(id, p, eg, epg)
          PROVE  IInv'
      <4>1. PICK r : RewritesRecord(id, r)
        BY <3>2, SwitchRewritesRecord DEF IInv
      <4>. QED BY <4>1, RewriteKeepsInvariant
    <3>. QED BY <2>4, <3>1, <3>2 DEF ProviderCall
  <2>. QED BY <2>1, <2>2, <2>3, <2>4
<1>. QED BY <1>1, <1>2

\* The inductive invariant holds throughout.
THEOREM RegistryInvariant == RegistrySpec => []IInv
  BY InitInvariant, StepInvariant, PTL DEF RegistrySpec

\* Type correctness, whatever order the calls come in.
THEOREM TypeCorrect == RegistrySpec => []RegistryTypeOK
<1>1. IInv => RegistryTypeOK
  BY DEF IInv
<1>. QED BY <1>1, RegistryInvariant, PTL

\* A registered session that has ended holds no audio lease.
THEOREM EndedSessionHoldsNoLease == RegistrySpec => []LeaseHeldByLiveSession
<1>1. IInv => LeaseHeldByLiveSession
  BY DEF IInv
<1>. QED BY <1>1, RegistryInvariant, PTL
-------------------------------------------------------------------------------
\* What a step may do to one session: nothing, register a newer incarnation,
\* reap an ended one, move its state along the state machine, or take one of
\* the three steps of a provider switch.
RecordStep(id) ==
  \/ sessions'[id] = sessions[id]
  \/ sessions'[id].generation > sessions[id].generation
  \/ sessions[id].state \in TERMINAL_SESSION_STATES /\ sessions'[id] = NoSession
  \/ \E st \in SessionState :
       /\ sessions[id].state \in TERMINAL_SESSION_STATES => st = sessions[id].state
       /\ sessions'[id] = [sessions[id] EXCEPT !.state = st]
  \/ \E p \in ProviderIds :
       /\ sessions[id].state \notin TERMINAL_SESSION_STATES
       /\ sessions'[id] = SwitchingTo(id, p)
  \/ /\ sessions[id].state = "switching"
     /\ sessions'[id] = [sessions[id] EXCEPT !.state = "connecting",
                                             !.active_provider = sessions[id].desired_provider]

\* Every step of the registry is such a step for every session.
LEMMA EveryStepIsARecordStep ==
  ASSUME IInv, [RegistryNext]_registry_vars, NEW i \in SessionIds
  PROVE  RecordStep(i)
<1>. USE DEF RecordStep
<1>0. sessions \in [SessionIds -> VoiceSessionSnapshot \cup {NoSession}]
  BY DEF IInv, RegistryTypeOK
<1>1. CASE UNCHANGED registry_vars
  BY <1>1 DEF registry_vars
<1>2. ASSUME NEW id \in SessionIds, NEW p, NEW r, Create(id, p, r)
      PROVE  RecordStep(i)
  <2>1. CASE i = id
    <3>1. sessions'[i].generation = next_generation + 1
      BY <1>0, <1>2, <2>1 DEF Create, NewSnapshot
    <3>2. sessions[i].generation \in Nat /\ next_generation \in Nat
          /\ sessions[i].generation <= next_generation
      BY RecordTypes, RegistryAssumption DEF IInv, RegistryTypeOK, GenerationsHandedOut
    <3>. QED BY <3>1, <3>2
  <2>2. CASE i # id
    BY <1>0, <1>2, <2>2 DEF Create
  <2>. QED BY <2>1, <2>2
<1>3. ASSUME NEW id \in SessionIds, NEW eg, SessionCall(id, eg)
      PROVE  RecordStep(i)
  BY <1>0, <1>3 DEF SessionCall, AcquireAudio, ReleaseAudio, Reap, CanReap
<1>4. ASSUME NEW id \in SessionIds, NEW eg, NEW epg, NEW st \in SessionState,
             Transition(id, st, eg, epg)
      PROVE  RecordStep(i)
  <2>1. CASE i = id
    <3>1. sessions[id].state \in SessionState
      BY <1>4, RecordTypes DEF IInv, Transition, CanTransition, require
    <3>2. sessions[id].state \in TERMINAL_SESSION_STATES => st = sessions[id].state
      BY <1>4, <3>1, TransitionTargets DEF Transition, CanTransition
    <3>3. sessions'[id] = [sessions[id] EXCEPT !.state = st]
      BY <1>0, <1>4 DEF Transition
    <3>. QED BY <2>1, <3>2, <3>3
  <2>2. CASE i # id
    BY <1>0, <1>4, <2>2 DEF Transition
  <2>. QED BY <2>1, <2>2
<1>5. ASSUME NEW id \in SessionIds, NEW eg, NEW epg, NEW p \in ProviderIds,
             \/ BeginProviderSwitch(id, p, eg, epg)
             \/ RestartProviderSwitch(id, p, eg, epg)
             \/ ActivateProvider(id, p, eg, epg)
      PROVE  RecordStep(i)
  <2>1. CASE i # id
    BY <1>0, <1>5, <2>1
       DEF BeginProviderSwitch, RestartProviderSwitch, ActivateProvider
  <2>2. CASE i = id /\ ActivateProvider(id, p, eg, epg)
    <3>1. /\ sessions[id].state = "switching"
          /\ sessions[id].desired_provider = p
      BY <2>2 DEF ActivateProvider, CanActivateProvider
    <3>2. sessions'[id] = [sessions[id] EXCEPT !.state = "connecting", !.active_provider = p]
      BY <1>0, <2>2 DEF ActivateProvider
    <3>. QED BY <2>2, <3>1, <3>2
  <2>3. CASE i = id /\ ~ActivateProvider(id, p, eg, epg)
    <3>1. sessions'[id] = SwitchingTo(id, p)
      BY <1>0, <1>5, <2>3 DEF BeginProviderSwitch, RestartProviderSwitch
    <3>2. sessions[id].state \notin TERMINAL_SESSION_STATES
      BY <1>5, <2>3 DEF BeginProviderSwitch, RestartProviderSwitch,
                        CanRestartProviderSwitch, TERMINAL_SESSION_STATES
    <3>. QED BY <2>3, <3>1, <3>2
  <2>. QED BY <2>1, <2>2, <2>3
<1>. HIDE DEF RecordStep
<1>. QED BY <1>1, <1>2, <1>3, <1>4, <1>5 DEF RegistryNext, ProviderCall

\* Nothing but reaping or a newer incarnation changes a record that has ended.
THEOREM EndIsFinal == RegistrySpec => TerminalIsFinal
<1>1. ASSUME IInv, [RegistryNext]_registry_vars, NEW id \in SessionIds,
             sessions[id].state \in TERMINAL_SESSION_STATES
      PROVE  \/ sessions'[id] \in {sessions[id], NoSession}
             \/ sessions'[id].generation > sessions[id].generation
  <2>1. RecordStep(id)
    BY <1>1, EveryStepIsARecordStep
  <2>2. sessions[id] \in VoiceSessionSnapshot
    BY <1>1, RecordTypes
       DEF IInv, NoSession, TERMINAL_SESSION_STATES, Present
  <2>3. ASSUME NEW st \in SessionState, st = sessions[id].state
        PROVE  [sessions[id] EXCEPT !.state = st] = sessions[id]
    BY <2>2, <2>3 DEF VoiceSessionSnapshot
  <2>. QED BY <1>1, <2>1, <2>3 DEF RecordStep, TERMINAL_SESSION_STATES
<1>2. IInv /\ [RegistryNext]_registry_vars =>
        [\A id \in SessionIds :
           sessions[id].state \in TERMINAL_SESSION_STATES =>
             \/ sessions'[id] \in {sessions[id], NoSession}
             \/ sessions'[id].generation > sessions[id].generation]_registry_vars
  BY <1>1
<1>. QED BY <1>2, RegistryInvariant, PTL DEF RegistrySpec, TerminalIsFinal

\* Within one incarnation the active provider only ever becomes the provider
\* of the switch in progress, and provider generations never go back.
THEOREM SwitchesAreFenced == RegistrySpec => SwitchIsFenced
<1>1. ASSUME IInv, [RegistryNext]_registry_vars, NEW id \in SessionIds,
             sessions'[id].generation = sessions[id].generation
      PROVE  /\ sessions'[id].provider_generation >= sessions[id].provider_generation
             /\ sessions'[id].active_provider # sessions[id].active_provider =>
                  /\ sessions[id].state = "switching"
                  /\ sessions'[id].active_provider = sessions[id].desired_provider
                  /\ sessions'[id].provider_generation = sessions[id].provider_generation
  <2>1. RecordStep(id)
    BY <1>1, EveryStepIsARecordStep
  <2>2. /\ sessions[id].generation \in Nat
        /\ sessions[id].provider_generation \in Nat
        /\ sessions[id] \in VoiceSessionSnapshot \/ sessions[id] = NoSession
    BY <1>1, RecordTypes, RegistryAssumption DEF IInv
  <2>3. CASE sessions'[id] = sessions[id]
    BY <2>2, <2>3
  <2>4. CASE sessions[id].state \in TERMINAL_SESSION_STATES /\ sessions'[id] = NoSession
    <3>1. sessions[id].generation \in 1..MaxGeneration
      BY <1>1, <2>4, RecordTypes DEF IInv, Present, TERMINAL_SESSION_STATES
    <3>. QED BY <1>1, <2>4, <3>1, RegistryAssumption DEF NoSession
  <2>5. CASE \E st \in SessionState : sessions'[id] = [sessions[id] EXCEPT !.state = st]
    BY <2>2, <2>5 DEF VoiceSessionSnapshot, NoSession
  <2>6. ASSUME NEW p \in ProviderIds, sessions'[id] = SwitchingTo(id, p)
        PROVE  /\ sessions'[id].active_provider = sessions[id].active_provider
               /\ sessions'[id].provider_generation = sessions[id].provider_generation + 1
    BY <2>2, <2>6 DEF SwitchingTo, VoiceSessionSnapshot, NoSession
  <2>7. CASE /\ sessions[id].state = "switching"
             /\ sessions'[id] =
                  [sessions[id] EXCEPT !.state = "connecting",
                                       !.active_provider = sessions[id].desired_provider]
    BY <2>2, <2>7 DEF VoiceSessionSnapshot, NoSession
  <2>8. ~(sessions'[id].generation > sessions[id].generation)
    BY <1>1, <2>2
  <2>9. CASE \E p \in ProviderIds : sessions'[id] = SwitchingTo(id, p)
    <3>1. PICK p \in ProviderIds : sessions'[id] = SwitchingTo(id, p)
      BY <2>9
    <3>2. /\ sessions'[id].active_provider = sessions[id].active_provider
          /\ sessions'[id].provider_generation = sessions[id].provider_generation + 1
      BY <3>1, <2>6
    <3>. QED BY <2>2, <3>2
  <2>. QED BY <2>1, <2>3, <2>4, <2>5, <2>7, <2>8, <2>9 DEF RecordStep
<1>2. IInv /\ [RegistryNext]_registry_vars =>
        [\A id \in SessionIds :
           sessions'[id].generation = sessions[id].generation =>
             /\ sessions'[id].provider_generation >= sessions[id].provider_generation
             /\ sessions'[id].active_provider # sessions[id].active_provider =>
                  /\ sessions[id].state = "switching"
                  /\ sessions'[id].active_provider = sessions[id].desired_provider
                  /\ sessions'[id].provider_generation = sessions[id].provider_generation
        ]_registry_vars
  BY <1>1
<1>. QED BY <1>2, RegistryInvariant, PTL DEF RegistrySpec, SwitchIsFenced
-------------------------------------------------------------------------------
(* The registry implements module AudioLease.                               *)

Alive(id) == Present(id) /\ sessions[id].state \notin TERMINAL_SESSION_STATES

\* The handles of the live incarnations, seen one by one.
LEMMA LiveHandlesAre ==
  ASSUME NEW h
  PROVE  h \in LiveHandles <=> \E id \in SessionIds : Alive(id) /\ h = HandleOf(id)
  BY DEF LiveHandles, Alive

\* A step that neither ends nor starts an incarnation, and leaves the leases
\* alone, is invisible to the lease.
LEMMA SameLiveStutters ==
  ASSUME UNCHANGED <<lease_policy, audio_owners>>,
         \A i \in SessionIds : /\ Alive(i)' <=> Alive(i)
                               /\ Alive(i) => HandleOf(i)' = HandleOf(i)
  PROVE  UNCHANGED Lease!vars
<1>1. LiveHandles' = LiveHandles
  BY DEF LiveHandles, Alive
<1>. QED BY <1>1 DEF Lease!vars

\* A new incarnation opens; its predecessor is no longer live.
LEMMA CreateOpens ==
  ASSUME IInv, NEW id \in SessionIds, NEW p \in ProviderIds \cup {None},
         NEW replace_existing, Create(id, p, replace_existing)
  PROVE  Lease!Next
<1>. DEFINE h == [id |-> id, generation |-> next_generation + 1]
<1>1. /\ sessions'[id] = NewSnapshot(p)
      /\ \A i \in SessionIds : i # id => sessions'[i] = sessions[i]
  BY DEF IInv, RegistryTypeOK, Create
<1>2. /\ Alive(id)' /\ HandleOf(id)' = h
      /\ \A i \in SessionIds : i # id => /\ Alive(i)' <=> Alive(i)
                                         /\ HandleOf(i)' = HandleOf(i)
  BY <1>1 DEF Alive, Present, HandleOf, NewSnapshot, TERMINAL_SESSION_STATES
<1>3. /\ next_generation \in Nat
      /\ \A i \in SessionIds : sessions[i].generation \in Nat
                               /\ sessions[i].generation <= next_generation
      /\ \A sc \in Scopes : audio_owners[sc].generation \in Nat
                            /\ audio_owners[sc].generation <= next_generation
  BY RecordTypes, RegistryAssumption
     DEF IInv, RegistryTypeOK, GenerationsHandedOut, SessionHandle, NoHandle
<1>4. h \notin LiveHandles /\ \A sc \in Scopes : audio_owners[sc] # h
  BY <1>3, LiveHandlesAre DEF HandleOf
<1>5. LiveHandles' = {k \in LiveHandles : k.id # h.id} \cup {h}
  <2>1. ASSUME NEW k PROVE k \in LiveHandles' <=>
                             k = h \/ (k \in LiveHandles /\ k.id # id)
    <3>1. k \in LiveHandles' <=> \E i \in SessionIds : Alive(i)' /\ k = HandleOf(i)'
      BY DEF LiveHandles, Alive
    <3>2. \A i \in SessionIds : HandleOf(i).id = i
      BY DEF HandleOf
    <3>. HIDE DEF h
    <3>. QED BY <3>1, <3>2, <1>2, LiveHandlesAre
  <2>. QED BY <2>1
<1>6. Lease!Open(h)
  BY <1>4, <1>5 DEF Lease!Open, Create
<1>. QED BY <1>5, <1>6 DEF Lease!Next

\* Taking the audio is a grant to a live incarnation, or no change at all when
\* it already has it.
LEMMA AcquireGrants ==
  ASSUME IInv, NEW id \in SessionIds, NEW eg, AcquireAudio(id, eg)
  PROVE  Lease!Next \/ UNCHANGED Lease!vars
<1>. DEFINE h  == HandleOf(id)
            sc == lease_scope(id)
<1>1. h \in LiveHandles /\ sc \in Scopes
  BY ScopeType, LiveHandlesAre DEF AcquireAudio, CanAcquireAudio, require, Alive
<1>2. LiveHandles' = LiveHandles
  BY DEF AcquireAudio, LiveHandles, Present, HandleOf
<1>3. CASE audio_owners[sc] = h
  <2>1. audio_owners' = audio_owners
    BY <1>3, <1>1 DEF AcquireAudio, IInv, RegistryTypeOK
  <2>. QED BY <2>1, <1>2 DEF Lease!vars, AcquireAudio
<1>4. CASE audio_owners[sc] # h
  <2>1. audio_owners[sc] = NoHandle \/ (lease_policy = "session" /\ audio_owners[sc].id = id)
    BY <1>4 DEF AcquireAudio, CanAcquireAudio, LeaseAvailable
  <2>2. ASSUME audio_owners[sc] # NoHandle, audio_owners[sc].id = id
        PROVE  audio_owners[sc].generation < h.generation
    <3>1. audio_owners[sc] \in SessionHandle /\ Present(id)
      BY <1>1, <2>2 DEF IInv, RegistryTypeOK, AcquireAudio, CanAcquireAudio, require
    <3>2. audio_owners[sc].generation <= sessions[id].generation
      BY <1>1, <2>2, <3>1 DEF IInv, GenerationsHandedOut
    <3>3. audio_owners[sc].generation # sessions[id].generation
      BY <1>4, <2>2, <3>1 DEF HandleOf, SessionHandle
    <3>4. sessions[id].generation \in Nat /\ audio_owners[sc].generation \in Nat
      BY <3>1, RecordTypes, RegistryAssumption DEF IInv, SessionHandle
    <3>. QED BY <3>2, <3>3, <3>4 DEF HandleOf
  <2>3. Lease!Grant(h, sc)
    BY <1>1, <1>2, <2>1, <2>2 DEF Lease!Grant, AcquireAudio, HandleOf
  <2>. QED BY <2>3, <1>1 DEF Lease!Next
<1>. QED BY <1>3, <1>4

\* Ending a session ends its incarnation and frees what it holds; any other
\* transition is invisible.
LEMMA TransitionEnds ==
  ASSUME IInv, NEW id \in SessionIds, NEW st \in SessionState, NEW eg, NEW epg,
         Transition(id, st, eg, epg)
  PROVE  Lease!Next \/ UNCHANGED Lease!vars
<1>1. Present(id) /\ sessions[id] \in VoiceSessionSnapshot
  BY RecordTypes DEF IInv, Transition, CanTransition, require
<1>2. sessions'[id].state = st
  BY <1>1 DEF IInv, RegistryTypeOK, VoiceSessionSnapshot, Transition
<1>3. \A i \in SessionIds : /\ HandleOf(i)' = HandleOf(i)
                            /\ Present(i)' <=> Present(i)
                            /\ i # id => (Alive(i)' <=> Alive(i))
  BY <1>1 DEF IInv, RegistryTypeOK, VoiceSessionSnapshot, SessionState, Transition,
              HandleOf, Present, Alive
<1>4. CASE st \notin TERMINAL_SESSION_STATES
  <2>1. sessions[id].state \notin TERMINAL_SESSION_STATES
    BY <1>1, <1>4, TransitionTargets DEF Transition, CanTransition, VoiceSessionSnapshot
  <2>2. UNCHANGED <<lease_policy, audio_owners>>
    BY <1>4 DEF Transition
  <2>. QED BY <1>1, <1>2, <1>3, <1>4, <2>1, <2>2, SameLiveStutters DEF Alive
<1>5. CASE st \in TERMINAL_SESSION_STATES /\ sessions[id].state \in TERMINAL_SESSION_STATES
  <2>1. audio_owners' = audio_owners
    BY <1>1, <1>5, ScopeType
       DEF IInv, LeaseHeldByLiveSession, Transition, LeasesWithout
  <2>2. lease_policy' = lease_policy
    BY DEF Transition
  <2>. QED BY <1>2, <1>3, <1>5, <2>1, <2>2, SameLiveStutters DEF Alive
<1>6. CASE st \in TERMINAL_SESSION_STATES /\ sessions[id].state \notin TERMINAL_SESSION_STATES
  <2>. DEFINE h == HandleOf(id)
  <2>1. h \in LiveHandles
    BY <1>1, <1>6, LiveHandlesAre DEF Alive
  <2>2. LiveHandles' = LiveHandles \ {h}
    <3>1. ASSUME NEW k
          PROVE  k \in LiveHandles' <=> k \in LiveHandles /\ k # h
      <4>1. k \in LiveHandles' <=> \E i \in SessionIds : Alive(i)' /\ k = HandleOf(i)'
        BY DEF LiveHandles, Alive
      <4>2. ~Alive(id)'
        BY <1>2, <1>6 DEF Alive
      <4>3. \A i \in SessionIds : HandleOf(i) = HandleOf(id) => i = id
        BY DEF HandleOf
      <4>. QED BY <4>1, <4>2, <4>3, <1>3, LiveHandlesAre
    <3>. QED BY <3>1
  <2>3. audio_owners' =
          [sc \in Scopes |-> IF audio_owners[sc] = h THEN NoHandle ELSE audio_owners[sc]]
    <3>1. audio_owners' = LeasesWithout(id) /\ audio_owners' \in [Scopes -> SessionHandle \cup {NoHandle}]
      BY <1>6, LeasesWithoutType DEF Transition, IInv
    <3>. QED BY <3>1, <1>1, LeasesWithoutDropsAll
  <2>4. Lease!End(h)
    BY <2>1, <2>2, <2>3 DEF Lease!End, Transition
  <2>. QED BY <2>1, <2>4 DEF Lease!Next
<1>. QED BY <1>4, <1>5, <1>6

\* Handing the audio back is a release, or nothing.
LEMMA ReleaseReleases ==
  ASSUME IInv, NEW id \in SessionIds, NEW eg, ReleaseAudio(id, eg)
  PROVE  Lease!Next \/ UNCHANGED Lease!vars
<1>1. LiveHandles' = LiveHandles
  BY DEF ReleaseAudio, LiveHandles, Present, HandleOf
<1>2. CASE audio_owners' = audio_owners
  BY <1>1, <1>2 DEF Lease!vars, ReleaseAudio
<1>3. CASE audio_owners' # audio_owners
  <2>1. Lease!Release(lease_scope(id))
    BY <1>1, <1>3 DEF Lease!Release, ReleaseAudio, LeasesAfterRelease
  <2>. QED BY <2>1, ScopeType DEF Lease!Next
<1>. QED BY <1>2, <1>3

\* Reaping drops the record of an incarnation that has ended and holds nothing.
LEMMA ReapStutters ==
  ASSUME IInv, NEW id \in SessionIds, NEW eg, Reap(id, eg)
  PROVE  UNCHANGED Lease!vars
<1>1. Present(id) /\ sessions[id].state \in TERMINAL_SESSION_STATES
  BY DEF Reap, CanReap, require
<1>2. audio_owners' = audio_owners
  BY <1>1, ScopeType DEF IInv, LeaseHeldByLiveSession, Reap, LeasesWithout
<1>3. \A i \in SessionIds : sessions'[i] = IF i = id THEN NoSession ELSE sessions[i]
  BY DEF IInv, RegistryTypeOK, Reap
<1>4. lease_policy' = lease_policy
  BY DEF Reap
<1>. QED BY <1>1, <1>2, <1>3, <1>4, SameLiveStutters
       DEF Alive, Present, HandleOf, NoSession

\* The registry keeps every promise of the lease specification.
THEOREM RegistryImplementsAudioLease == RegistrySpec => ImplementsAudioLease
<1>1. RegistryInit => Lease!Init
  BY DEF RegistryInit, Lease!Init, LiveHandles, Present, NoSession, AudioLeasePolicy
<1>2. ASSUME IInv, [RegistryNext]_registry_vars
      PROVE  [Lease!Next]_(Lease!vars)
  <2>1. CASE UNCHANGED registry_vars
    BY <2>1 DEF registry_vars, Lease!vars, LiveHandles, Present, HandleOf
  <2>2. ASSUME NEW id \in SessionIds, NEW p \in ProviderIds \cup {None},
               NEW r \in BOOLEAN, Create(id, p, r)
        PROVE  Lease!Next
    BY <1>2, <2>2, CreateOpens
  <2>3. ASSUME NEW id \in SessionIds, NEW eg, SessionCall(id, eg)
        PROVE  Lease!Next \/ UNCHANGED Lease!vars
    BY <1>2, <2>3, AcquireGrants, ReleaseReleases, ReapStutters DEF SessionCall
  <2>4. ASSUME NEW id \in SessionIds, NEW eg, NEW epg, ProviderCall(id, eg, epg)
        PROVE  Lease!Next \/ UNCHANGED Lease!vars
    <3>1. CASE \E st \in SessionState : Transition(id, st, eg, epg)
      BY <1>2, <3>1, TransitionEnds
    <3>2. ASSUME NEW p \in ProviderIds,
                 \/ BeginProviderSwitch(id, p, eg, epg)
                 \/ RestartProviderSwitch(id, p, eg, epg)
                 \/ ActivateProvider(id, p, eg, epg)
          PROVE  UNCHANGED Lease!vars
      <4>1. PICK r : RewritesRecord(id, r)
        BY <1>2, <3>2, SwitchRewritesRecord DEF IInv
      <4>. QED
        BY <1>2, <4>1, SameLiveStutters, RegistryAssumption
           DEF RewritesRecord, IInv, RegistryTypeOK, Alive, Present, HandleOf,
               VoiceSessionSnapshot, SessionState
    <3>. QED BY <2>4, <3>1, <3>2 DEF ProviderCall
  <2>. QED BY <1>2, <2>1, <2>2, <2>3, <2>4 DEF RegistryNext
<1>3. IInv /\ [RegistryNext]_registry_vars => [Lease!Next]_(Lease!vars)
  BY <1>2
<1>. QED
  BY <1>1, <1>3, RegistryInvariant, PTL DEF RegistrySpec, ImplementsAudioLease, Lease!Spec
===============================================================================
