------------------------- MODULE ProviderRuntimeProofs -------------------------
(***************************************************************************)
(* Theorems about the provider runtime, for any session, any providers,    *)
(* any number of provider generations and any of the ways in which         *)
(* disposing of a failed adapter may raise.                                *)
(*                                                                         *)
(* The properties speak of adapters; what makes them hold is where the     *)
(* holder of the switch lock is.  The inductive invariant says for each    *)
(* point which adapter is in place, which one the holder has in hand, and  *)
(* which ones may be open or still be built.                               *)
(***************************************************************************)
EXTENDS ProviderRuntime, SessionRegistryProofs, FiniteSetTheorems

\* The points of the code at which the holder of the lock awaits something.
ControlPoint ==
  \/ phase \in {"free", "frame"} /\ step = "idle"
  \/ phase = "initial" /\ step \in {"building", "setup", "starting", "closing_failed"}
  \/ phase = "switch" /\ step \in {"requested", "interrupting", "announcing",
                                   "closing_previous", "building", "setup",
                                   "activated", "starting"}
  \/ phase = "recovery" /\ step = "closing_failed"
  \/ phase = "rollback" /\ step \in {"failed", "building", "setup", "activated",
                                     "starting", "closing_failed"}
  \/ phase = "close" /\ step \in {"closing_adapter", "draining"}

\* The session's record: its incarnation never changes, it always has a
\* provider, and it is never seen before CONNECTING or in CLOSING.
SessionOK ==
  /\ sessions[sid].generation = SessionGeneration
  /\ State \in {"connecting", "switching", "closed", "failed"} \cup EmittedStates
  /\ Pg >= 1
  /\ sessions[sid].active_provider \in ProviderIds

RuntimeTypes ==
  /\ adapter \in 0..MaxProviderGeneration
  /\ built \in [ProviderGenerations -> AdapterStatus]
  /\ provider_id \in ProviderIds
  /\ started \in BOOLEAN /\ closed \in BOOLEAN /\ provisional \in BOOLEAN
  /\ closing \in {"no", "waiting", "closing", "done", "failed"}
  /\ op \in Locals
  /\ ready_generation \in 0..MaxProviderGeneration
  /\ ready \in {"none", "waiting", "listening", "error"}
  /\ (ready_generation # 0) <=> (step = "starting")

\* The providers a switch has in hand are real ones from where they are used.
LocalsOK ==
  /\ phase = "switch" => op.target \in ProviderIds
  /\ (\/ phase \in {"recovery", "rollback"}
      \/ phase = "switch" /\ step \notin {"requested", "interrupting"})
       => op.previous \in ProviderIds

\* Which adapter is in place, and which one the holder would dispose of.
PlaceOK ==
  /\ step \in {"building", "failed", "closing_previous"} \/ phase = "close" => adapter = 0
  /\ step = "setup" => adapter = IF phase = "initial" THEN Pg ELSE 0
  /\ step \in {"activated", "starting"} => adapter = Pg
  /\ step \in {"interrupting", "announcing"} => adapter # 0
  /\ step = "announcing" => op.disposing = adapter
  /\ step \in {"setup", "activated", "starting"} => op.disposing = Pg
  /\ step \in {"closing_previous", "closing_failed", "closing_adapter"} => op.disposing # 0
  /\ phase = "switch" /\ step = "building" => op.disposing # 0
  /\ step = "closing_failed" /\ adapter # 0 => adapter = op.disposing
  /\ adapter <= Pg /\ op.disposing <= Pg
  /\ step \in {"announcing", "closing_previous"} => op.disposing # Pg

\* The adapter the holder works on; nobody else's is open.
InHand ==
  IF step \in {"closing_previous", "setup", "closing_failed", "closing_adapter"}
  THEN op.disposing ELSE adapter

OpenIsInHand ==
  \A g \in ProviderGenerations :
    built[g] = "open" => g = InHand /\ step \notin {"building", "failed", "draining"}

\* A generation is fresh until its adapter is built.
GenerationsFresh ==
  /\ \A g \in ProviderGenerations : g > Pg => built[g] = "none"
  /\ step \in {"announcing", "closing_previous", "building"} => built[Pg] = "none"
  /\ step = "setup" => built[Pg] = "open"

\* What a failed rollback dropped is left behind by a session that has ended.
OrphansEnded == \A g \in ProviderGenerations : built[g] = "orphaned" => Ended

\* The close comes last: after it only a request to switch is ever looked at.
ClosingOK ==
  /\ closed <=> closing # "no"
  /\ phase = "close" <=> closing = "closing"
  /\ closing \in {"done", "failed"} =>
       adapter = 0 /\ (phase = "free" \/ (phase = "switch" /\ step = "requested"))
  /\ closing = "done" => \A g \in ProviderGenerations : built[g] # "abandoned"

\* Before the StartFrame there is no adapter, and nothing to hold the lock for.
UnstartedOK ==
  ~started =>
    /\ adapter = 0 /\ \A g \in ProviderGenerations : built[g] = "none"
    /\ phase = "free" \/ step \in {"requested", "draining"}

RegistryInv == IInv /\ SessionOK /\ LeaseFollowsSession

HolderInv == ControlPoint /\ RuntimeTypes /\ LocalsOK /\ PlaceOK

AdapterInv == OpenIsInHand /\ GenerationsFresh /\ OrphansEnded

LifeInv == ClosingOK /\ UnstartedOK

RuntimeInv == RegistryInv /\ HolderInv /\ AdapterInv /\ LifeInv

\* What AdaptersAreDisposable says of one step.
Disposable ==
  \A g \in ProviderGenerations :
    built[g] \in {"closed", "abandoned", "orphaned"} =>
      /\ built'[g] \notin {"none", "open"}
      /\ adapter' = g => adapter = g

\* What else IdleIsSettled needs, where disposing of an adapter raises in
\* recovery only.
ProviderAgreed ==
  /\ sessions[sid].active_provider = provider_id
  /\ sessions[sid].desired_provider = provider_id

SettledInv ==
  /\ ready = "listening" => step = "starting" /\ State \notin {"connecting", "switching"}
  /\ ~started \/ phase = "initial" \/ step \in {"activated", "starting"} => ProviderAgreed
  /\ step \in {"activated", "starting"} => built[Pg] = "open"
  /\ started /\ ~closed /\ ~Ended
       /\ (phase \in {"free", "frame"} \/ step \in {"requested", "interrupting"})
     => /\ State \notin {"connecting", "switching"}
        /\ adapter = Pg /\ built[adapter] = "open" /\ ProviderAgreed
-------------------------------------------------------------------------------
(* What each call does to the session's record.                             *)

SameProvider ==
  /\ Pg' = Pg
  /\ sessions'[sid].active_provider = sessions[sid].active_provider
  /\ sessions'[sid].desired_provider = sessions[sid].desired_provider

\* The runtime's session stays registered, under a provider generation it was given.
LEMMA SessionFacts ==
  ASSUME RegistryInv
  PROVE  /\ sid \in SessionIds /\ Present(sid)
         /\ sessions[sid] \in VoiceSessionSnapshot
         /\ Pg \in ProviderGenerations /\ lease_scope(sid) \in Scopes
<1>1. sid \in SessionIds
  BY RuntimeAssumption
<1>2. Present(sid)
  BY DEF RegistryInv, SessionOK, Present, State, EmittedStates
<1>. QED
  BY <1>1, <1>2, RecordTypes, ScopeType
     DEF RegistryInv, IInv, SessionOK, Pg, ProviderGenerations, VoiceSessionSnapshot

\* A step that leaves the registry alone leaves the session and its lease alone.
LEMMA NothingChanges ==
  ASSUME RegistryInv, UNCHANGED registry_vars
  PROVE  RegistryInv' /\ State' = State /\ SameProvider
BY DEF RegistryInv, registry_vars, IInv, RegistryTypeOK, GenerationsHandedOut, LeasesInScope,
       LeaseHeldByLiveSession, lease_scope, Present, HandleOf, SessionOK, State, Pg,
       LeaseFollowsSession, Ended, SameProvider

\* A change of state, the session's end among them, keeps its provider and gives
\* the lease back exactly when it is an end.
LEMMA StateChanges ==
  ASSUME RegistryInv, NEW st \in {"closed", "failed"} \cup EmittedStates,
         sessions' = [sessions EXCEPT ![sid].state = st],
         audio_owners' = IF st \in TERMINAL_SESSION_STATES
                         THEN LeasesWithout(sid) ELSE audio_owners,
         UNCHANGED <<lease_policy, next_generation>>,
         Ended => st = State
  PROVE  RegistryInv' /\ State' = st /\ SameProvider
<1>. USE SessionFacts
<1>1. st \in SessionState
  BY DEF SessionState, EmittedStates
<1>2. IInv'
  BY <1>1, StateChangeKeepsInvariant DEF RegistryInv
<1>3. State' = st /\ SameProvider /\ sessions'[sid].generation = sessions[sid].generation
  BY DEF RegistryInv, IInv, RegistryTypeOK, VoiceSessionSnapshot, State, Pg, SameProvider
<1>4. SessionOK'
  BY <1>3 DEF RegistryInv, SessionOK, SameProvider
<1>5. lease_scope(sid)' = lease_scope(sid) /\ HandleOf(sid)' = HandleOf(sid)
  BY <1>3 DEF lease_scope, HandleOf
<1>6. LeaseFollowsSession'
  <2>1. CASE st \in TERMINAL_SESSION_STATES
    <3>1. audio_owners'[lease_scope(sid)] = NoHandle
      BY <2>1 DEF LeasesWithout, RegistryInv, LeaseFollowsSession, IInv, RegistryTypeOK
    <3>. QED
      BY <2>1, <3>1, <1>3, <1>5 DEF LeaseFollowsSession, Ended
  <2>2. CASE st \notin TERMINAL_SESSION_STATES
    BY <2>2, <1>3, <1>5 DEF LeaseFollowsSession, Ended, RegistryInv
  <2>. QED BY <2>1, <2>2
<1>. QED BY <1>2, <1>3, <1>4, <1>6 DEF RegistryInv

\* A transition of the session ends it or not, and changes no provider.
LEMMA TransitionEffect ==
  ASSUME RegistryInv, NEW st \in {"failed"} \cup EmittedStates, NEW g,
         Transition(sid, st, SessionGeneration, g)
  PROVE  /\ RegistryInv' /\ State' = st /\ SameProvider
         /\ Ended => State' = State
<1>1. Ended => st = State
  <2>1. State \in SessionState
    BY SessionFacts DEF State, VoiceSessionSnapshot
  <2>. QED
    BY <2>1, TransitionTargets DEF Transition, CanTransition, State, Ended
<1>2. /\ sessions' = [sessions EXCEPT ![sid].state = st]
      /\ audio_owners' = IF st \in TERMINAL_SESSION_STATES
                         THEN LeasesWithout(sid) ELSE audio_owners
      /\ UNCHANGED <<lease_policy, next_generation>>
  BY DEF Transition
<1>. QED BY <1>1, <1>2, StateChanges

\* Failing the session ends it, if it had not ended, and changes no provider.
LEMMA FailSessionEffect ==
  ASSUME RegistryInv, FailSession
  PROVE  RegistryInv' /\ Ended' /\ SameProvider
<1>1. CASE Ended
  BY <1>1, NothingChanges DEF FailSession, Ended
<1>2. CASE ~Ended
  BY <1>2, TransitionEffect DEF FailSession, Ended, TERMINAL_SESSION_STATES
<1>. QED BY <1>1, <1>2

\* Closing the session ends it, if it had not ended, and changes no provider.
LEMMA CloseSessionEffect ==
  ASSUME RegistryInv, CloseSession
  PROVE  RegistryInv' /\ Ended' /\ SameProvider
BY StateChanges DEF CloseSession, Ended, TERMINAL_SESSION_STATES

\* A switch, or the rollback of one, goes on under the next provider generation.
LEMMA SwitchEffect ==
  ASSUME RegistryInv, NEW p \in ProviderIds, NEW g,
         \/ BeginProviderSwitch(sid, p, SessionGeneration, g)
         \/ RestartProviderSwitch(sid, p, SessionGeneration, g)
  PROVE  /\ RegistryInv' /\ ~Ended /\ State' = "switching"
         /\ Pg' = Pg + 1 /\ Pg' \in ProviderGenerations
         /\ sessions'[sid].active_provider = sessions[sid].active_provider
         /\ sessions'[sid].desired_provider = p
<1>. USE SessionFacts
<1>1. IInv'
  BY SwitchRewritesRecord, RewriteKeepsInvariant DEF RegistryInv, IInv
<1>2. /\ sessions[sid].state \notin TERMINAL_SESSION_STATES
      /\ sessions[sid].provider_generation < MaxProviderGeneration
      /\ sessions' = [sessions EXCEPT ![sid] = SwitchingTo(sid, p)]
      /\ UNCHANGED <<lease_policy, next_generation, audio_owners>>
  BY DEF BeginProviderSwitch, RestartProviderSwitch, CanRestartProviderSwitch,
         TERMINAL_SESSION_STATES
<1>3. sessions'[sid] = SwitchingTo(sid, p)
  BY <1>2 DEF RegistryInv, IInv, RegistryTypeOK
<1>4. /\ SwitchingTo(sid, p).state = "switching"
      /\ SwitchingTo(sid, p).generation = sessions[sid].generation
      /\ SwitchingTo(sid, p).provider_generation = sessions[sid].provider_generation + 1
      /\ SwitchingTo(sid, p).active_provider = sessions[sid].active_provider
      /\ SwitchingTo(sid, p).desired_provider = p
  BY DEF SwitchingTo, VoiceSessionSnapshot
<1>5. Pg + 1 \in ProviderGenerations
  BY <1>2, RegistryAssumption DEF Pg, ProviderGenerations
<1>6. /\ State' = "switching" /\ Pg' = Pg + 1 /\ ~Ended /\ ~Ended'
      /\ sessions'[sid].generation = sessions[sid].generation
      /\ sessions'[sid].active_provider = sessions[sid].active_provider
  BY <1>2, <1>3, <1>4 DEF State, Pg, Ended, TERMINAL_SESSION_STATES
<1>7. SessionOK'
  BY <1>5, <1>6 DEF RegistryInv, SessionOK, ProviderGenerations
<1>8. LeaseFollowsSession'
  BY <1>2, <1>6 DEF RegistryInv, LeaseFollowsSession, lease_scope, HandleOf
<1>. QED BY <1>1, <1>3, <1>4, <1>5, <1>6, <1>7, <1>8 DEF RegistryInv

\* Activation makes the desired provider the active one, if the switch is still on.
LEMMA ActivateEffect ==
  ASSUME RegistryInv, NEW p \in ProviderIds, NEW g,
         ActivateProvider(sid, p, SessionGeneration, g)
  PROVE  /\ RegistryInv' /\ ~Ended /\ State' = "connecting" /\ Pg' = Pg
         /\ sessions'[sid].active_provider = p
         /\ sessions'[sid].desired_provider = p
<1>. USE SessionFacts
<1>1. IInv'
  BY SwitchRewritesRecord, RewriteKeepsInvariant DEF RegistryInv, IInv
<1>2. /\ State = "switching" /\ sessions[sid].desired_provider = p
      /\ sessions' = [sessions EXCEPT ![sid].state = "connecting", ![sid].active_provider = p]
      /\ UNCHANGED <<lease_policy, next_generation, audio_owners>>
  BY DEF ActivateProvider, CanActivateProvider, State
<1>3. /\ State' = "connecting" /\ Pg' = Pg /\ ~Ended /\ ~Ended'
      /\ sessions'[sid].generation = sessions[sid].generation
      /\ sessions'[sid].active_provider = p
      /\ sessions'[sid].desired_provider = p
  BY <1>2 DEF RegistryInv, IInv, RegistryTypeOK, VoiceSessionSnapshot, State, Pg, Ended,
              TERMINAL_SESSION_STATES
<1>4. SessionOK'
  BY <1>3 DEF RegistryInv, SessionOK
<1>5. LeaseFollowsSession'
  BY <1>2, <1>3 DEF RegistryInv, LeaseFollowsSession, lease_scope, HandleOf
<1>. QED BY <1>1, <1>3, <1>4, <1>5 DEF RegistryInv
-------------------------------------------------------------------------------
(* Building and starting an adapter.                                        *)

\* A holder that lets go of the lock keeps nothing in hand.
LEMMA NoLocalsType == NoLocals \in Locals
BY RegistryAssumption DEF NoLocals, Locals

\* The except branch: whatever the await had built so far, what was open is in
\* the hand of whoever disposes of it next, or is dropped with a failed session.
LEMMA FailedKeepsInvariant ==
  ASSUME RuntimeInv, NEW b \in [ProviderGenerations -> AdapterStatus], Failed(b),
         step \in {"closing_previous", "building", "setup", "starting"},
         \A g \in ProviderGenerations :
           /\ b[g] = "open" => built[g] = "open"
           /\ b[g] \in {"none", "orphaned"} => b[g] = built[g]
           /\ g > Pg => b[g] = "none",
         UNCHANGED <<adapter, provider_id, started, closed, closing, provisional>>,
         ready_generation' = 0, ready' \in {"none", ready}
  PROVE  RuntimeInv' /\ Disposable
<1>. USE SessionFacts DEF RuntimeInv
<1>1. CASE phase = "switch"
  <2>1. /\ phase' = "recovery" /\ step' = "closing_failed" /\ built' = b
        /\ UNCHANGED <<registry_vars, op>>
    BY <1>1 DEF Failed, SwitchFailed, Goto, InitialFailed, RollbackFailed
  <2>2. RegistryInv' /\ State' = State /\ SameProvider
    BY <2>1, NothingChanges
  <2>3. HolderInv'
    <3>1. ControlPoint' /\ LocalsOK'
      BY <1>1, <2>1 DEF HolderInv, ControlPoint, LocalsOK
    <3>2. RuntimeTypes'
      BY <2>1, RegistryAssumption DEF HolderInv, RuntimeTypes
    <3>3. PlaceOK'
      BY <1>1, <2>1, <2>2 DEF HolderInv, PlaceOK, SameProvider, ProviderGenerations
    <3>. QED BY <3>1, <3>2, <3>3 DEF HolderInv
  <2>4. AdapterInv'
    BY <1>1, <2>1, <2>2
    DEF HolderInv, PlaceOK, AdapterInv, OpenIsInHand, InHand, GenerationsFresh, OrphansEnded,
        SameProvider, Ended
  <2>5. LifeInv'
    BY <1>1, <2>1 DEF LifeInv, ClosingOK, UnstartedOK
  <2>6. Disposable
    BY <2>1 DEF Disposable, AdapterStatus
  <2>. QED BY <2>2, <2>3, <2>4, <2>5, <2>6
<1>2. CASE phase \in {"initial", "rollback"} /\ adapter # 0
  <2>1. /\ phase' = phase /\ step' = "closing_failed" /\ built' = b
        /\ op' = [op EXCEPT !.disposing = adapter] /\ UNCHANGED registry_vars
    BY <1>2 DEF Failed, Goto, InitialFailed, RollbackFailed, FailsWith
  <2>2. RegistryInv' /\ State' = State /\ SameProvider
    BY <2>1, NothingChanges
  <2>3. HolderInv'
    <3>1. ControlPoint' /\ LocalsOK'
      BY <1>2, <2>1 DEF HolderInv, ControlPoint, LocalsOK, RuntimeTypes, Locals
    <3>2. RuntimeTypes'
      BY <2>1, RegistryAssumption DEF HolderInv, RuntimeTypes, Locals
    <3>3. PlaceOK'
      BY <1>2, <2>1, <2>2
      DEF HolderInv, PlaceOK, RuntimeTypes, Locals, SameProvider, ProviderGenerations
    <3>. QED BY <3>1, <3>2, <3>3 DEF HolderInv
  <2>4. AdapterInv'
    BY <1>2, <2>1, <2>2
    DEF HolderInv, RuntimeTypes, Locals, PlaceOK, AdapterInv, OpenIsInHand, InHand,
        GenerationsFresh,
        OrphansEnded, SameProvider, Ended
  <2>5. LifeInv'
    BY <1>2, <2>1 DEF LifeInv, ClosingOK, UnstartedOK
  <2>6. Disposable
    BY <2>1 DEF Disposable, AdapterStatus
  <2>. QED BY <2>2, <2>3, <2>4, <2>5, <2>6
<1>3. CASE phase \in {"initial", "rollback"} /\ adapter = 0
  <2>1. /\ FailSession /\ phase' = "free" /\ step' = "idle" /\ op' = NoLocals
        /\ built' = [b EXCEPT ![Pg] = IF @ = "open" THEN "orphaned" ELSE @]
    BY <1>3 DEF Failed, Goto, InitialFailed, RollbackFailed, FailsWith, Unlock
  <2>2. RegistryInv' /\ Ended' /\ SameProvider
    BY <2>1, FailSessionEffect
  <2>3. built' \in [ProviderGenerations -> AdapterStatus]
    BY <2>1 DEF AdapterStatus
  <2>4. HolderInv'
    <3>1. ControlPoint' /\ LocalsOK'
      BY <2>1 DEF ControlPoint, LocalsOK
    <3>2. RuntimeTypes'
      BY <2>1, <2>3, NoLocalsType, RegistryAssumption DEF HolderInv, RuntimeTypes
    <3>3. PlaceOK'
      BY <1>3, <2>1, <2>2 DEF PlaceOK, SameProvider, NoLocals, ProviderGenerations
    <3>. QED BY <3>1, <3>2, <3>3 DEF HolderInv
  <2>5. AdapterInv'
    BY <1>3, <2>1, <2>2
    DEF HolderInv, ControlPoint, PlaceOK, AdapterInv, OpenIsInHand, InHand, GenerationsFresh,
        OrphansEnded,
        SameProvider, ProviderGenerations
  <2>6. LifeInv'
    BY <1>3, <2>1 DEF LifeInv, ClosingOK, UnstartedOK
  <2>7. Disposable
    BY <2>1, <2>3 DEF Disposable, AdapterStatus
  <2>. QED BY <2>2, <2>4, <2>5, <2>6, <2>7
<1>. QED BY <1>1, <1>2, <1>3 DEF Failed, InitialFailed, RollbackFailed
\* Letting go of the lock: nothing is open then but the adapter in place.
LEMMA UnlockKeepsInvariant ==
  ASSUME RuntimeInv, Unlock, phase # "free",
         RegistryInv', Pg' = Pg, Ended => Ended',
         adapter' \in {0, adapter}, built' \in [ProviderGenerations -> AdapterStatus],
         \A g \in ProviderGenerations :
           /\ built'[g] = "open" => g = adapter'
           /\ built'[g] = "orphaned" => built[g] = "orphaned"
           /\ g > Pg => built'[g] = "none"
           /\ closing' = "done" => built'[g] # "abandoned",
         ~started => built' = built,
         \/ phase # "close" /\ closing' = closing
         \/ phase = "close" /\ closing' \in {"done", "failed"} /\ adapter' = 0,
         UNCHANGED <<started, closed, provider_id>>, provisional' \in BOOLEAN,
         ready_generation' = 0, ready' \in {"none", ready}
  PROVE  RuntimeInv'
<1>. USE DEF RuntimeInv
<1>1. phase' = "free" /\ step' = "idle" /\ op' = NoLocals
  BY DEF Unlock, Goto
<1>2. HolderInv'
  <2>1. ControlPoint' /\ LocalsOK'
    BY <1>1 DEF ControlPoint, LocalsOK
  <2>2. RuntimeTypes'
    BY <1>1, NoLocalsType, RegistryAssumption DEF HolderInv, RuntimeTypes
  <2>3. PlaceOK'
    BY <1>1, SessionFacts DEF HolderInv, PlaceOK, NoLocals, ProviderGenerations
  <2>. QED BY <2>1, <2>2, <2>3 DEF HolderInv
<1>3. AdapterInv'
  BY <1>1 DEF AdapterInv, OpenIsInHand, InHand, GenerationsFresh, OrphansEnded
<1>4. LifeInv'
  BY <1>1 DEF LifeInv, ClosingOK, UnstartedOK
<1>. QED BY <1>2, <1>3, <1>4

\* Disposing of an adapter closes it and touches no other.
LEMMA DisposedType ==
  ASSUME RuntimeInv, NEW d
  PROVE  /\ Disposed(d) \in [ProviderGenerations -> AdapterStatus]
         /\ \A g \in ProviderGenerations :
              Disposed(d)[g] = IF g = d THEN "closed" ELSE built[g]
BY DEF RuntimeInv, HolderInv, RuntimeTypes, Disposed, AdapterStatus

\* Building the adapter keeps the invariant, whether or not the switch is still wanted.
LEMMA BuildSucceedsKeepsInvariant ==
  ASSUME RuntimeInv, BuildSucceeds
  PROVE  RuntimeInv' /\ Disposable
<1>. USE SessionFacts DEF RuntimeInv
<1>1. step = "building" /\ adapter = 0 /\ built[Pg] = "none" /\ ready_generation = 0
      /\ \A g \in ProviderGenerations : built[g] # "open"
      /\ phase \in {"initial", "switch", "rollback"} /\ started
      /\ UNCHANGED <<provider_id, started, closed, closing, ready_generation, ready,
                     provisional>>
  BY DEF BuildSucceeds, HolderInv, ControlPoint, RuntimeTypes, PlaceOK, AdapterInv,
         OpenIsInHand, GenerationsFresh, LifeInv, UnstartedOK
<1>2. CASE DiscardsInitial
  <2>1. /\ built' = Disposed(Pg) /\ UNCHANGED adapter /\ Unlock
        /\ UNCHANGED registry_vars \/ FailSession
    BY <1>2 DEF BuildSucceeds
  <2>2. RegistryInv' /\ Pg' = Pg /\ (Ended => Ended')
    BY <2>1, NothingChanges, FailSessionEffect DEF SameProvider, Ended
  <2>3. /\ built' \in [ProviderGenerations -> AdapterStatus]
        /\ \A g \in ProviderGenerations : built'[g] = IF g = Pg THEN "closed" ELSE built[g]
    BY <2>1, DisposedType
  <2>4. \A g \in ProviderGenerations :
          /\ built'[g] # "open"
          /\ built'[g] = "orphaned" => built[g] = "orphaned"
          /\ g > Pg => built'[g] = "none"
          /\ closing' # "done"
    BY <1>1, <2>3 DEF AdapterInv, GenerationsFresh, LifeInv, ClosingOK, ProviderGenerations
  <2>5. provisional' \in BOOLEAN /\ phase # "free" /\ phase # "close"
    BY <1>1 DEF HolderInv, RuntimeTypes
  <2>6. RuntimeInv'
    BY <1>1, <2>1, <2>2, <2>3, <2>4, <2>5, UnlockKeepsInvariant
  <2>. QED BY <1>1, <2>1, <2>3, <2>6 DEF Disposable
<1>3. CASE ~DiscardsInitial
  <2>1. /\ built' = [built EXCEPT ![Pg] = "open"]
        /\ op' = [op EXCEPT !.disposing = Pg]
        /\ adapter' = IF phase = "initial" THEN Pg ELSE adapter
        /\ phase' = phase /\ step' = "setup" /\ UNCHANGED registry_vars
    BY <1>3 DEF BuildSucceeds, Goto
  <2>2. RegistryInv' /\ State' = State /\ SameProvider
    BY <2>1, NothingChanges
  <2>3. built' \in [ProviderGenerations -> AdapterStatus]
        /\ \A g \in ProviderGenerations : built'[g] = IF g = Pg THEN "open" ELSE built[g]
    BY <2>1 DEF HolderInv, RuntimeTypes, AdapterStatus
  <2>4. HolderInv'
    <3>1. ControlPoint' /\ LocalsOK'
      BY <1>1, <2>1 DEF HolderInv, ControlPoint, LocalsOK, RuntimeTypes, Locals
    <3>2. RuntimeTypes'
      BY <1>1, <2>1, <2>3, RegistryAssumption
      DEF HolderInv, RuntimeTypes, Locals, ProviderGenerations
    <3>3. PlaceOK'
      BY <1>1, <2>1, <2>2
      DEF PlaceOK, SameProvider, HolderInv, RuntimeTypes, Locals, ProviderGenerations
    <3>. QED BY <3>1, <3>2, <3>3 DEF HolderInv
  <2>5. AdapterInv'
    BY <1>1, <2>1, <2>2, <2>3
    DEF AdapterInv, OpenIsInHand, InHand, GenerationsFresh, OrphansEnded, SameProvider, Ended,
        HolderInv, RuntimeTypes, Locals, ProviderGenerations
  <2>6. LifeInv'
    BY <1>1, <2>1, <2>3 DEF LifeInv, ClosingOK, UnstartedOK
  <2>. QED BY <1>1, <2>1, <2>2, <2>3, <2>4, <2>5, <2>6 DEF Disposable
<1>. QED BY <1>2, <1>3

\* A failed build keeps the invariant: the session fails, or the switch rolls back.
LEMMA BuildFailsKeepsInvariant ==
  ASSUME RuntimeInv, BuildFails
  PROVE  RuntimeInv' /\ Disposable
<1>. USE DEF RuntimeInv
<1>1. PICK status \in {"none", "abandoned"} : Failed([built EXCEPT ![Pg] = status])
  BY DEF BuildFails
<1>2. PICK b \in [ProviderGenerations -> AdapterStatus] :
        /\ Failed(b)
        /\ \A g \in ProviderGenerations : b[g] = IF g = Pg THEN status ELSE built[g]
  <2>. DEFINE b == [built EXCEPT ![Pg] = status]
  <2>1. /\ b \in [ProviderGenerations -> AdapterStatus]
        /\ \A g \in ProviderGenerations : b[g] = IF g = Pg THEN status ELSE built[g]
    BY SessionFacts DEF HolderInv, RuntimeTypes, AdapterStatus
  <2>2. Failed(b)
    BY <1>1
  <2>. QED BY <2>1, <2>2
<1>3. /\ step = "building" /\ built[Pg] = "none" /\ ready_generation = 0
      /\ \A g \in ProviderGenerations : g > Pg => built[g] = "none"
      /\ UNCHANGED <<adapter, provider_id, started, closed, closing, ready_generation,
                     ready, provisional>>
  BY DEF BuildFails, HolderInv, RuntimeTypes, AdapterInv, GenerationsFresh
<1>4. \A g \in ProviderGenerations :
        /\ b[g] = "open" => built[g] = "open"
        /\ b[g] \in {"none", "orphaned"} => b[g] = built[g]
        /\ g > Pg => b[g] = "none"
  BY <1>2, <1>3, SessionFacts DEF ProviderGenerations
<1>. QED BY <1>2, <1>3, <1>4, FailedKeepsInvariant

\* The failures of setup() and start() keep the invariant.
LEMMA StartFailuresKeepInvariant ==
  ASSUME RuntimeInv, SetupFails \/ StartFails
  PROVE  RuntimeInv' /\ Disposable
<1>. USE DEF RuntimeInv
<1>1. built \in [ProviderGenerations -> AdapterStatus]
      /\ \A g \in ProviderGenerations : g > Pg => built[g] = "none"
  BY DEF HolderInv, RuntimeTypes, AdapterInv, GenerationsFresh
<1>2. CASE SetupFails
  <2>1. ready_generation = 0
    BY <1>2 DEF SetupFails, HolderInv, RuntimeTypes
  <2>. QED BY <1>1, <1>2, <2>1, FailedKeepsInvariant DEF SetupFails
<1>3. CASE StartFails
  BY <1>1, <1>3, FailedKeepsInvariant DEF StartFails, ReadyCleared, ReadyWith
<1>. QED BY <1>2, <1>3

\* A successful setup() keeps the invariant: the adapter goes on to start().
LEMMA SetupSucceedsKeepsInvariant ==
  ASSUME RuntimeInv, SetupSucceeds
  PROVE  RuntimeInv' /\ Disposable
<1>. USE DEF RuntimeInv
<1>1. /\ step = "setup" /\ phase \in {"initial", "switch", "rollback"} /\ started
      /\ op.disposing = Pg /\ built[Pg] = "open" /\ ready_generation = 0
      /\ adapter = IF phase = "initial" THEN Pg ELSE 0
      /\ UNCHANGED <<started, closed, closing, provisional>>
  BY DEF SetupSucceeds, HolderInv, ControlPoint, RuntimeTypes, PlaceOK, AdapterInv,
         GenerationsFresh, LifeInv, UnstartedOK
<1>2. /\ built \in [ProviderGenerations -> AdapterStatus]
      /\ \A g \in ProviderGenerations : g > Pg => built[g] = "none"
      /\ \A g \in ProviderGenerations : built[g] = "open" => g = Pg
  BY <1>1 DEF HolderInv, RuntimeTypes, AdapterInv, GenerationsFresh, OpenIsInHand, InHand
<1>3. CASE phase = "initial" /\ closed
  <2>1. /\ Unlock /\ ready_generation' = 0 /\ ready' = ready
        /\ UNCHANGED <<registry_vars, adapter, built, provider_id>>
    BY <1>1, <1>3 DEF SetupSucceeds
  <2>2. RegistryInv' /\ Pg' = Pg /\ (Ended => Ended')
    BY <2>1, NothingChanges DEF SameProvider, Ended
  <2>3. closing' # "done" /\ provisional' \in BOOLEAN
    BY <1>1 DEF LifeInv, ClosingOK, HolderInv, RuntimeTypes
  <2>4. RuntimeInv'
    BY <1>1, <1>2, <1>3, <2>1, <2>2, <2>3, UnlockKeepsInvariant
  <2>. QED BY <2>1, <2>4 DEF Disposable, AdapterStatus
<1>4. CASE phase = "initial" /\ ~closed
  <2>1. /\ phase' = phase /\ step' = "starting" /\ ready_generation' = Pg /\ ready' = "waiting"
        /\ UNCHANGED <<registry_vars, adapter, built, provider_id, op>>
    BY <1>4 DEF SetupSucceeds, Goto, ReadyWith
  <2>2. RegistryInv' /\ State' = State /\ SameProvider
    BY <2>1, NothingChanges
  <2>3. HolderInv'
    <3>1. ControlPoint' /\ LocalsOK'
      BY <1>1, <1>4, <2>1 DEF ControlPoint, LocalsOK
    <3>2. RuntimeTypes'
      BY <1>1, <2>1, SessionFacts DEF HolderInv, RuntimeTypes, ProviderGenerations
    <3>3. PlaceOK'
      BY <1>1, <1>4, <2>1, <2>2, SessionFacts
      DEF HolderInv, PlaceOK, SameProvider, ProviderGenerations
    <3>. QED BY <3>1, <3>2, <3>3 DEF HolderInv
  <2>4. AdapterInv'
    BY <1>1, <1>2, <1>4, <2>1, <2>2
    DEF AdapterInv, OpenIsInHand, InHand, GenerationsFresh, OrphansEnded, SameProvider, Ended
  <2>5. LifeInv'
    BY <1>1, <1>4, <2>1 DEF LifeInv, ClosingOK, UnstartedOK
  <2>. QED BY <2>1, <2>2, <2>3, <2>4, <2>5 DEF Disposable, AdapterStatus
<1>5. CASE phase # "initial" /\ ActivateProvider(sid, Provider, SessionGeneration, Pg)
           /\ adapter' = Pg /\ provider_id' = Provider /\ Goto(phase, "activated")
           /\ UNCHANGED <<built, op, ready_generation, ready>>
  <2>1. Provider \in ProviderIds
    BY <1>1, <1>5 DEF Provider, HolderInv, LocalsOK
  <2>2. RegistryInv' /\ ~Ended /\ Pg' = Pg
    BY <1>5, <2>1, ActivateEffect
  <2>3. HolderInv'
    <3>1. ControlPoint' /\ LocalsOK'
      BY <1>1, <1>5 DEF ControlPoint, LocalsOK, Goto, HolderInv
    <3>2. RuntimeTypes'
      BY <1>1, <1>5, <2>1, SessionFacts
      DEF HolderInv, RuntimeTypes, ProviderGenerations, Goto
    <3>3. PlaceOK'
      BY <1>1, <1>5, <2>2, SessionFacts DEF HolderInv, PlaceOK, Goto, ProviderGenerations
    <3>. QED BY <3>1, <3>2, <3>3 DEF HolderInv
  <2>4. \A g \in ProviderGenerations : built[g] # "orphaned"
    BY <2>2 DEF AdapterInv, OrphansEnded
  <2>5. AdapterInv'
    BY <1>1, <1>2, <1>5, <2>2, <2>4
    DEF AdapterInv, OpenIsInHand, InHand, GenerationsFresh, OrphansEnded, Goto
  <2>6. LifeInv'
    BY <1>1, <1>5 DEF LifeInv, ClosingOK, UnstartedOK, Goto
  <2>7. Disposable
    BY <1>1, <1>5 DEF Disposable, AdapterStatus
  <2>. QED BY <2>2, <2>3, <2>5, <2>6, <2>7
<1>6. CASE phase # "initial" /\ Failed(built)
           /\ UNCHANGED <<adapter, provider_id, ready_generation, ready>>
  BY <1>1, <1>2, <1>6, FailedKeepsInvariant
<1>. QED BY <1>1, <1>3, <1>4, <1>5, <1>6 DEF SetupSucceeds

\* A holder that is done, or refuses, lets go of the lock and changes nothing.
LEMMA ReleaseKeepsInvariant ==
  ASSUME RuntimeInv, StartSucceeds \/ FrameRouted \/ RefuseSwitch
  PROVE  RuntimeInv' /\ Disposable
<1>. USE DEF RuntimeInv
<1>1. /\ Unlock
      /\ UNCHANGED <<registry_vars, adapter, built, provider_id, started, closed, closing,
                     provisional>>
      /\ step \in {"idle", "starting", "requested", "interrupting"}
      /\ phase \in {"frame", "initial", "switch", "rollback"}
      /\ ready_generation' = 0 /\ ready' \in {"none", ready}
  BY DEF StartSucceeds, FrameRouted, RefuseSwitch, ReadyCleared, ReadyWith, HolderInv,
         ControlPoint, RuntimeTypes
<1>2. RegistryInv' /\ Pg' = Pg /\ (Ended => Ended')
  BY <1>1, NothingChanges DEF SameProvider, Ended
<1>3. /\ built' \in [ProviderGenerations -> AdapterStatus]
      /\ provisional' \in BOOLEAN
      /\ \A g \in ProviderGenerations :
           /\ built'[g] = "open" => g = adapter'
           /\ g > Pg => built'[g] = "none"
           /\ closing' = "done" => built'[g] # "abandoned"
  BY <1>1
     DEF HolderInv, RuntimeTypes, AdapterInv, OpenIsInHand, InHand, GenerationsFresh, LifeInv,
         ClosingOK
<1>4. RuntimeInv'
  BY <1>1, <1>2, <1>3, UnlockKeepsInvariant
<1>. QED BY <1>1, <1>3, <1>4 DEF Disposable, AdapterStatus
-------------------------------------------------------------------------------
(* Where the holder of the lock moves on and neither the session's record nor *)
(* any adapter changes.                                                      *)

\* The first start of the session's provider keeps the invariant.
LEMMA ReceiveStartKeepsInvariant ==
  ASSUME RuntimeInv, ReceiveStart
  PROVE  RuntimeInv' /\ Disposable
<1>. USE DEF RuntimeInv
<1>1. /\ phase = "free" /\ closing # "waiting" /\ ~started /\ started'
      /\ IF closed THEN UNCHANGED <<phase, step>>
                   ELSE phase' = "initial" /\ step' = "building"
      /\ UNCHANGED <<registry_vars, adapter, built, provider_id, closed, closing, op,
                     ready_generation, ready, provisional>>
  BY DEF ReceiveStart, LockFree, Goto
<1>2. RegistryInv' /\ State' = State /\ SameProvider
  BY <1>1, NothingChanges
<1>3. HolderInv'
  <2>1. ControlPoint' /\ LocalsOK'
    BY <1>1 DEF HolderInv, ControlPoint, LocalsOK
  <2>2. RuntimeTypes'
    BY <1>1, SessionFacts, RegistryAssumption
    DEF HolderInv, ControlPoint, RuntimeTypes
  <2>3. PlaceOK'
    BY <1>1, <1>2 DEF HolderInv, PlaceOK, SameProvider, LifeInv, UnstartedOK
  <2>. QED BY <2>1, <2>2, <2>3 DEF HolderInv
<1>4. AdapterInv'
  BY <1>1, <1>2, SessionFacts
  DEF AdapterInv, OpenIsInHand, GenerationsFresh, OrphansEnded, SameProvider, LifeInv,
      UnstartedOK
<1>5. LifeInv'
  BY <1>1 DEF LifeInv, ClosingOK, UnstartedOK
<1>. QED BY <1>1, <1>2, <1>3, <1>4, <1>5 DEF Disposable, AdapterStatus

\* Routing a frame to the adapter in place keeps the invariant.
LEMMA RouteFrameKeepsInvariant ==
  ASSUME RuntimeInv, RouteFrame
  PROVE  RuntimeInv' /\ Disposable
<1>. USE DEF RuntimeInv
<1>1. /\ phase = "free" /\ closing # "waiting" /\ adapter # 0
      /\ phase' = "frame" /\ step' = "idle"
      /\ UNCHANGED <<registry_vars, adapter, built, provider_id, started, closed, closing,
                     op, ready_generation, ready, provisional>>
  BY DEF RouteFrame, LockFree, Goto
<1>2. RegistryInv' /\ State' = State /\ SameProvider
  BY <1>1, NothingChanges
<1>3. HolderInv'
  <2>1. ControlPoint' /\ LocalsOK'
    BY <1>1 DEF ControlPoint, LocalsOK
  <2>2. RuntimeTypes'
    BY <1>1, SessionFacts, RegistryAssumption
    DEF HolderInv, ControlPoint, RuntimeTypes
  <2>3. PlaceOK'
    BY <1>1, <1>2 DEF HolderInv, PlaceOK, SameProvider
  <2>. QED BY <2>1, <2>2, <2>3 DEF HolderInv
<1>4. AdapterInv'
  BY <1>1, <1>2
  DEF HolderInv, ControlPoint, AdapterInv, OpenIsInHand, InHand, GenerationsFresh, OrphansEnded,
      SameProvider, Ended
<1>5. LifeInv'
  BY <1>1 DEF LifeInv, ClosingOK, UnstartedOK
<1>. QED BY <1>1, <1>2, <1>3, <1>4, <1>5 DEF Disposable, AdapterStatus

\* A request to switch keeps the invariant: it takes the lock, or is refused.
LEMMA RequestSwitchKeepsInvariant ==
  ASSUME RuntimeInv, NEW p \in ProviderIds, NEW force \in BOOLEAN, RequestSwitch(p, force)
  PROVE  RuntimeInv' /\ Disposable
<1>. USE DEF RuntimeInv
<1>1. /\ phase = "free" /\ closing # "waiting"
      /\ phase' = "switch" /\ step' = "requested"
      /\ op' = [NoLocals EXCEPT !.target = p, !.force = force, !.seen = State]
      /\ UNCHANGED <<registry_vars, adapter, built, provider_id, started, closed, closing,
                     ready_generation, ready, provisional>>
  BY DEF RequestSwitch, LockFree, Goto
<1>2. RegistryInv' /\ State' = State /\ SameProvider
  BY <1>1, NothingChanges
<1>3. HolderInv'
  <2>1. ControlPoint' /\ LocalsOK'
    BY <1>1 DEF ControlPoint, LocalsOK
  <2>2. RuntimeTypes'
    BY <1>1, SessionFacts, RegistryAssumption
    DEF HolderInv, ControlPoint, RuntimeTypes, Locals, NoLocals, ProviderGenerations,
        SessionState, State, VoiceSessionSnapshot
  <2>3. PlaceOK'
    BY <1>1, <1>2, SessionFacts
       DEF HolderInv, PlaceOK, NoLocals, SameProvider, ProviderGenerations
  <2>. QED BY <2>1, <2>2, <2>3 DEF HolderInv
<1>4. AdapterInv'
  BY <1>1, <1>2
  DEF HolderInv, ControlPoint, AdapterInv, OpenIsInHand, InHand, GenerationsFresh, OrphansEnded,
      SameProvider, Ended
<1>5. LifeInv'
  BY <1>1 DEF LifeInv, ClosingOK, UnstartedOK
<1>. QED BY <1>1, <1>2, <1>3, <1>4, <1>5 DEF Disposable, AdapterStatus

\* Interrupting the provider before a switch keeps the invariant.
LEMMA InterruptKeepsInvariant ==
  ASSUME RuntimeInv, Interrupt
  PROVE  RuntimeInv' /\ Disposable
<1>. USE DEF RuntimeInv
<1>1. /\ phase = "switch" /\ step = "requested" /\ started /\ adapter # 0 /\ ~closed
      /\ phase' = "switch" /\ step' = "interrupting"
      /\ UNCHANGED <<registry_vars, adapter, built, provider_id, started, closed, closing,
                     op, ready_generation, ready, provisional>>
  BY DEF Interrupt, Eligible, At, Goto
<1>2. RegistryInv' /\ State' = State /\ SameProvider
  BY <1>1, NothingChanges
<1>3. HolderInv'
  <2>1. ControlPoint' /\ LocalsOK'
    BY <1>1 DEF HolderInv, ControlPoint, LocalsOK
  <2>2. RuntimeTypes'
    BY <1>1, SessionFacts, RegistryAssumption
    DEF HolderInv, RuntimeTypes
  <2>3. PlaceOK'
    BY <1>1, <1>2 DEF HolderInv, PlaceOK, SameProvider
  <2>. QED BY <2>1, <2>2, <2>3 DEF HolderInv
<1>4. AdapterInv'
  BY <1>1, <1>2
  DEF AdapterInv, OpenIsInHand, InHand, GenerationsFresh, OrphansEnded, SameProvider, Ended
<1>5. LifeInv'
  BY <1>1 DEF LifeInv, ClosingOK, UnstartedOK
<1>. QED BY <1>1, <1>2, <1>3, <1>4, <1>5 DEF Disposable, AdapterStatus

\* Activation of the new provider keeps the invariant.
LEMMA ActivatedKeepsInvariant ==
  ASSUME RuntimeInv, Activated
  PROVE  RuntimeInv' /\ Disposable
<1>. USE DEF RuntimeInv
<1>1. /\ step = "activated" /\ step' = "starting" /\ phase' = phase
      /\ ready_generation' = Pg /\ ready' = "waiting"
      /\ UNCHANGED <<registry_vars, adapter, built, provider_id, started, closed, closing,
                     op, provisional>>
  BY DEF Activated, ReadyWith, Goto
<1>2. RegistryInv' /\ State' = State /\ SameProvider
  BY <1>1, NothingChanges
<1>3. HolderInv'
  <2>1. ControlPoint' /\ LocalsOK'
    BY <1>1 DEF HolderInv, ControlPoint, LocalsOK
  <2>2. RuntimeTypes'
    BY <1>1, SessionFacts, RegistryAssumption
    DEF HolderInv, RuntimeTypes, ProviderGenerations
  <2>3. PlaceOK'
    BY <1>1, <1>2 DEF HolderInv, PlaceOK, SameProvider
  <2>. QED BY <2>1, <2>2, <2>3 DEF HolderInv
<1>4. AdapterInv'
  BY <1>1, <1>2
  DEF AdapterInv, OpenIsInHand, InHand, GenerationsFresh, OrphansEnded, SameProvider, Ended
<1>5. LifeInv'
  BY <1>1 DEF LifeInv, ClosingOK, UnstartedOK
<1>. QED BY <1>1, <1>2, <1>3, <1>4, <1>5 DEF Disposable, AdapterStatus

\* Announcing the switch keeps the invariant.
LEMMA AnnouncedKeepsInvariant ==
  ASSUME RuntimeInv, Announced
  PROVE  RuntimeInv' /\ Disposable
<1>. USE DEF RuntimeInv
<1>1. /\ phase = "switch" /\ step = "announcing" /\ adapter' = 0
      /\ phase' = "switch" /\ step' = "closing_previous"
      /\ UNCHANGED <<registry_vars, built, provider_id, started, closed, closing, op,
                     ready_generation, ready, provisional>>
  BY DEF Announced, At, Goto
<1>2. RegistryInv' /\ State' = State /\ SameProvider
  BY <1>1, NothingChanges
<1>3. HolderInv'
  <2>1. ControlPoint' /\ LocalsOK'
    BY <1>1 DEF HolderInv, ControlPoint, LocalsOK
  <2>2. RuntimeTypes'
    BY <1>1, SessionFacts, RegistryAssumption
    DEF HolderInv, RuntimeTypes
  <2>3. PlaceOK'
    BY <1>1, <1>2, SessionFacts DEF HolderInv, PlaceOK, SameProvider, ProviderGenerations
  <2>. QED BY <2>1, <2>2, <2>3 DEF HolderInv
<1>4. AdapterInv'
  BY <1>1, <1>2
  DEF HolderInv, PlaceOK, AdapterInv, OpenIsInHand, InHand, GenerationsFresh, OrphansEnded,
      SameProvider, Ended
<1>5. LifeInv'
  BY <1>1 DEF LifeInv, ClosingOK, UnstartedOK
<1>. QED BY <1>1, <1>2, <1>3, <1>4, <1>5 DEF Disposable, AdapterStatus, ProviderGenerations

\* Asking the runtime to close keeps the invariant.
LEMMA BeginCloseKeepsInvariant ==
  ASSUME RuntimeInv, BeginClose
  PROVE  RuntimeInv' /\ Disposable
<1>. USE DEF RuntimeInv
<1>1. /\ closing = "no" /\ closed' /\ closed' = TRUE /\ closing' = "waiting"
      /\ UNCHANGED <<registry_vars, adapter, built, provider_id, started, phase, step, op,
                     ready_generation, ready, provisional>>
  BY DEF BeginClose
<1>2. RegistryInv' /\ State' = State /\ SameProvider
  BY <1>1, NothingChanges
<1>3. HolderInv'
  <2>1. ControlPoint' /\ LocalsOK'
    BY <1>1 DEF HolderInv, ControlPoint, LocalsOK
  <2>2. RuntimeTypes'
    BY <1>1, SessionFacts, RegistryAssumption
    DEF HolderInv, RuntimeTypes
  <2>3. PlaceOK'
    BY <1>1, <1>2 DEF HolderInv, PlaceOK, SameProvider
  <2>. QED BY <2>1, <2>2, <2>3 DEF HolderInv
<1>4. AdapterInv'
  BY <1>1, <1>2
  DEF AdapterInv, OpenIsInHand, InHand, GenerationsFresh, OrphansEnded, SameProvider, Ended
<1>5. LifeInv'
  BY <1>1 DEF LifeInv, ClosingOK, UnstartedOK
<1>. QED BY <1>1, <1>2, <1>3, <1>4, <1>5 DEF Disposable, AdapterStatus

\* The closer's turn at the lock keeps the invariant.
LEMMA CloseTakesLockKeepsInvariant ==
  ASSUME RuntimeInv, CloseTakesLock
  PROVE  RuntimeInv' /\ Disposable
<1>. USE DEF RuntimeInv
<1>1. /\ closing = "waiting" /\ phase = "free" /\ closing' = "closing"
      /\ op' = [op EXCEPT !.disposing = adapter] /\ adapter' = 0
      /\ phase' = "close"
      /\ step' = IF adapter = 0 THEN "draining" ELSE "closing_adapter"
      /\ UNCHANGED <<registry_vars, built, provider_id, started, closed, ready_generation,
                     ready, provisional>>
  BY DEF CloseTakesLock, Goto
<1>2. RegistryInv' /\ State' = State /\ SameProvider
  BY <1>1, NothingChanges
<1>3. HolderInv'
  <2>1. ControlPoint' /\ LocalsOK'
    BY <1>1 DEF ControlPoint, LocalsOK
  <2>2. RuntimeTypes'
    BY <1>1, SessionFacts, RegistryAssumption
    DEF HolderInv, ControlPoint, RuntimeTypes, Locals
  <2>3. PlaceOK'
    BY <1>1, <1>2, SessionFacts DEF HolderInv, PlaceOK, SameProvider, ProviderGenerations
  <2>. QED BY <2>1, <2>2, <2>3 DEF HolderInv
<1>4. AdapterInv'
  BY <1>1, <1>2
  DEF HolderInv, ControlPoint, ProviderGenerations, AdapterInv, OpenIsInHand, InHand,
      GenerationsFresh, OrphansEnded, SameProvider, Ended
<1>5. LifeInv'
  BY <1>1 DEF LifeInv, ClosingOK, UnstartedOK
<1>. QED BY <1>1, <1>2, <1>3, <1>4, <1>5 DEF Disposable, AdapterStatus, ProviderGenerations
-------------------------------------------------------------------------------
(* A switch begins, recovery, and the close.                                 *)

\* A switch begins under a generation that is fresh, and nothing is built for.
LEMMA BeginKeepsInvariant ==
  ASSUME RuntimeInv, BeginAtOnce \/ BeginAfterInterruption
  PROVE  RuntimeInv' /\ Disposable
<1>. USE DEF RuntimeInv
<1>1. PICK seen : Begin(seen)
  BY DEF BeginAtOnce, BeginAfterInterruption
<1>2. /\ phase = "switch" /\ step \in {"requested", "interrupting"}
      /\ step = "requested" => started /\ adapter # 0 /\ ~closed
      /\ provisional' \in BOOLEAN
      /\ UNCHANGED <<adapter, built, provider_id, started, closed, closing,
                     ready_generation, ready>>
  BY <1>1 DEF BeginAtOnce, BeginAfterInterruption, Eligible, At, Begin
<1>3. /\ adapter \in ProviderGenerations /\ started /\ ready_generation = 0
      /\ built \in [ProviderGenerations -> AdapterStatus]
      /\ closing # "done" /\ op.target \in ProviderIds
      /\ \A g \in ProviderGenerations : built[g] = "open" => g = adapter
      /\ \A g \in ProviderGenerations : g > Pg => built[g] = "none"
  BY <1>2 DEF HolderInv, RuntimeTypes, LocalsOK, PlaceOK, AdapterInv, OpenIsInHand, InHand,
              GenerationsFresh, LifeInv, ClosingOK, UnstartedOK, ProviderGenerations
<1>4. CASE Unlock /\ UNCHANGED registry_vars
  <2>1. RegistryInv' /\ Pg' = Pg /\ (Ended => Ended')
    BY <1>4, NothingChanges DEF SameProvider, Ended
  <2>2. RuntimeInv'
    BY <1>2, <1>3, <1>4, <2>1, UnlockKeepsInvariant
  <2>. QED BY <1>2, <2>2 DEF Disposable, AdapterStatus
<1>5. CASE /\ BeginProviderSwitch(sid, op.target, SessionGeneration, Pg)
           /\ op' = [op EXCEPT !.previous = sessions[sid].active_provider,
                               !.disposing = adapter]
           /\ Goto("switch", "announcing")
  <2>1. /\ RegistryInv' /\ ~Ended /\ Pg' = Pg + 1 /\ Pg' \in ProviderGenerations
        /\ Pg \in ProviderGenerations /\ sessions[sid].active_provider \in ProviderIds
    BY <1>3, <1>5, SwitchEffect, SessionFacts DEF RegistryInv, SessionOK
  <2>2. /\ op' \in Locals /\ op'.disposing = adapter
        /\ op'.target = op.target /\ op'.previous = sessions[sid].active_provider
    BY <1>3, <1>5, <2>1 DEF HolderInv, RuntimeTypes, Locals, ProviderGenerations
  <2>3. HolderInv'
    <3>1. ControlPoint' /\ LocalsOK'
      BY <1>3, <1>5, <2>1, <2>2 DEF ControlPoint, LocalsOK, Goto
    <3>2. RuntimeTypes'
      BY <1>2, <1>3, <1>5, <2>2 DEF HolderInv, RuntimeTypes, Goto
    <3>3. PlaceOK'
      BY <1>2, <1>3, <1>5, <2>1, <2>2 DEF HolderInv, PlaceOK, Goto, ProviderGenerations
    <3>. QED BY <3>1, <3>2, <3>3 DEF HolderInv
  <2>4. \A g \in ProviderGenerations : built[g] # "orphaned"
    BY <2>1 DEF AdapterInv, OrphansEnded
  <2>5. built[Pg'] = "none" /\ \A g \in ProviderGenerations : g > Pg' => g > Pg
    BY <1>3, <2>1 DEF ProviderGenerations
  <2>6. AdapterInv'
    BY <1>2, <1>3, <1>5, <2>4, <2>5
    DEF AdapterInv, OpenIsInHand, InHand, GenerationsFresh, OrphansEnded, Goto
  <2>7. LifeInv'
    BY <1>2, <1>3, <1>5 DEF LifeInv, ClosingOK, UnstartedOK, Goto
  <2>8. Disposable
    BY <1>2 DEF Disposable, AdapterStatus
  <2>. QED BY <2>1, <2>3, <2>6, <2>7, <2>8
<1>. QED BY <1>1, <1>4, <1>5 DEF Begin

\* The end of the previous adapter's disposal keeps the invariant.
LEMMA PreviousClosesKeepsInvariant ==
  ASSUME RuntimeInv, PreviousCloses
  PROVE  RuntimeInv' /\ Disposable
<1>. USE DEF RuntimeInv
<1>. DEFINE d == op.disposing
<1>1. /\ phase = "switch" /\ step = "closing_previous" /\ adapter = 0 /\ started
      /\ d \in ProviderGenerations /\ built[Pg] = "none" /\ ready_generation = 0
      /\ UNCHANGED <<adapter, provider_id, started, closed, closing, ready_generation,
                     ready, provisional>>
  BY DEF PreviousCloses, At, HolderInv, RuntimeTypes, Locals, PlaceOK, AdapterInv,
         GenerationsFresh, LifeInv, UnstartedOK, ProviderGenerations
<1>2. /\ \A g \in ProviderGenerations : built[g] = "open" => g = d
      /\ \A g \in ProviderGenerations : g > Pg => built[g] = "none"
  BY <1>1 DEF AdapterInv, OpenIsInHand, InHand, GenerationsFresh
<1>3. PICK b \in [ProviderGenerations -> AdapterStatus] :
        /\ b = Disposed(d)
        /\ \A g \in ProviderGenerations : b[g] = IF g = d THEN "closed" ELSE built[g]
  BY DisposedType
<1>4. CASE Failed(b)
  <2>1. \A g \in ProviderGenerations :
          /\ b[g] = "open" => built[g] = "open"
          /\ b[g] \in {"none", "orphaned"} => b[g] = built[g]
          /\ g > Pg => b[g] = "none"
    BY <1>1, <1>2, <1>3, SessionFacts DEF HolderInv, PlaceOK, ProviderGenerations
  <2>. QED BY <1>1, <1>3, <1>4, <2>1, FailedKeepsInvariant
<1>5. CASE /\ built' = b /\ phase' = "switch" /\ step' = "building"
           /\ UNCHANGED <<registry_vars, op>>
  <2>1. RegistryInv' /\ State' = State /\ SameProvider
    BY <1>5, NothingChanges
  <2>2. HolderInv'
    <3>1. ControlPoint' /\ LocalsOK'
      BY <1>1, <1>5 DEF ControlPoint, LocalsOK, HolderInv
    <3>2. RuntimeTypes'
      BY <1>1, <1>5 DEF HolderInv, RuntimeTypes
    <3>3. PlaceOK'
      BY <1>1, <1>5, <2>1, SessionFacts
      DEF HolderInv, PlaceOK, SameProvider, ProviderGenerations
    <3>. QED BY <3>1, <3>2, <3>3 DEF HolderInv
  <2>3. AdapterInv'
    BY <1>1, <1>2, <1>3, <1>5, <2>1, SessionFacts
    DEF AdapterInv, OpenIsInHand, InHand, GenerationsFresh, OrphansEnded, SameProvider, Ended,
        HolderInv, PlaceOK, ProviderGenerations
  <2>4. LifeInv'
    BY <1>1, <1>3, <1>5 DEF LifeInv, ClosingOK, UnstartedOK
  <2>. QED BY <1>1, <1>3, <1>5, <2>1, <2>2, <2>3, <2>4 DEF Disposable, AdapterStatus
<1>. QED BY <1>3, <1>4, <1>5 DEF PreviousCloses, Goto

\* The end of a failed adapter's disposal keeps the invariant, raising or not.
LEMMA FailedAdapterClosesKeepsInvariant ==
  ASSUME RuntimeInv, FailedAdapterCloses \/ FailedAdapterCloseRaises
  PROVE  RuntimeInv' /\ Disposable
<1>. USE DEF RuntimeInv
<1>. DEFINE d == op.disposing
<1>1. /\ step = "closing_failed" /\ phase \in {"initial", "recovery", "rollback"} /\ started
      /\ built' = Disposed(d) /\ d \in ProviderGenerations
      /\ adapter' \in {0, adapter} /\ adapter \in {0, d} /\ ready_generation = 0
      /\ UNCHANGED <<provider_id, started, closed, closing, ready_generation, ready,
                     provisional>>
  BY DEF FailedAdapterCloses, FailedAdapterCloseRaises, HolderInv, ControlPoint, RuntimeTypes,
         Locals, PlaceOK, LifeInv, UnstartedOK, ProviderGenerations
<1>2. /\ built' \in [ProviderGenerations -> AdapterStatus]
      /\ \A g \in ProviderGenerations : built'[g] = IF g = d THEN "closed" ELSE built[g]
  BY <1>1, DisposedType
<1>3. /\ closing # "done" /\ provisional' \in BOOLEAN
      /\ ~(d > Pg) /\ \A g \in ProviderGenerations : built[g] = "open" => g = d
      /\ \A g \in ProviderGenerations : g > Pg => built[g] = "none"
  BY <1>1, SessionFacts
  DEF HolderInv, RuntimeTypes, PlaceOK, AdapterInv, OpenIsInHand, InHand, GenerationsFresh,
      LifeInv, ClosingOK, ProviderGenerations
<1>4. Disposable
  BY <1>1, <1>2 DEF Disposable, AdapterStatus, ProviderGenerations
<1>5. CASE Unlock /\ (FailSession \/ UNCHANGED registry_vars)
  <2>1. RegistryInv' /\ Pg' = Pg /\ (Ended => Ended')
    BY <1>5, NothingChanges, FailSessionEffect DEF SameProvider, Ended
  <2>2. \A g \in ProviderGenerations :
          /\ built'[g] = "open" => g = adapter'
          /\ built'[g] = "orphaned" => built[g] = "orphaned"
          /\ g > Pg => built'[g] = "none"
    BY <1>2, <1>3
  <2>3. RuntimeInv'
    BY <1>1, <1>2, <1>3, <1>5, <2>1, <2>2, UnlockKeepsInvariant
  <2>. QED BY <1>4, <2>3
<1>6. CASE /\ phase = "recovery" /\ adapter' = 0 /\ phase' = "rollback" /\ step' = "failed"
           /\ UNCHANGED <<registry_vars, op>>
  <2>1. RegistryInv' /\ State' = State /\ SameProvider
    BY <1>6, NothingChanges
  <2>2. HolderInv'
    <3>1. ControlPoint' /\ LocalsOK'
      BY <1>1, <1>6 DEF ControlPoint, LocalsOK, HolderInv
    <3>2. RuntimeTypes'
      BY <1>1, <1>2, <1>6, RegistryAssumption DEF HolderInv, RuntimeTypes
    <3>3. PlaceOK'
      BY <1>1, <1>6, <2>1, SessionFacts
      DEF PlaceOK, HolderInv, SameProvider, ProviderGenerations
    <3>. QED BY <3>1, <3>2, <3>3 DEF HolderInv
  <2>3. AdapterInv'
    BY <1>2, <1>3, <1>6, <2>1
    DEF AdapterInv, OpenIsInHand, InHand, GenerationsFresh, OrphansEnded, SameProvider, Ended
  <2>4. LifeInv'
    BY <1>1, <1>2, <1>3, <1>6 DEF LifeInv, ClosingOK, UnstartedOK
  <2>. QED BY <1>4, <2>1, <2>2, <2>3, <2>4
<1>. QED BY <1>1, <1>5, <1>6 DEF FailedAdapterCloses, FailedAdapterCloseRaises, Goto

\* The rollback begins under a generation of its own, if it begins at all.
LEMMA RollbackBeginsKeepsInvariant ==
  ASSUME RuntimeInv, RollbackBegins
  PROVE  RuntimeInv' /\ Disposable
<1>. USE DEF RuntimeInv
<1>1. /\ phase = "rollback" /\ step = "failed" /\ adapter = 0 /\ started
      /\ ready_generation = 0
      /\ UNCHANGED <<adapter, built, provider_id, started, closed, closing,
                     ready_generation, ready, provisional>>
  BY DEF RollbackBegins, At, HolderInv, RuntimeTypes, PlaceOK, LifeInv, UnstartedOK
<1>2. /\ built \in [ProviderGenerations -> AdapterStatus] /\ provisional \in BOOLEAN
      /\ closing # "done" /\ op.previous \in ProviderIds
      /\ \A g \in ProviderGenerations : built[g] # "open"
      /\ \A g \in ProviderGenerations : g > Pg => built[g] = "none"
  BY <1>1 DEF HolderInv, RuntimeTypes, LocalsOK, AdapterInv, OpenIsInHand, GenerationsFresh,
              LifeInv, ClosingOK
<1>3. Disposable
  BY <1>1 DEF Disposable, AdapterStatus
<1>4. CASE Unlock /\ (FailSession \/ UNCHANGED registry_vars)
  <2>1. RegistryInv' /\ Pg' = Pg /\ (Ended => Ended')
    BY <1>4, NothingChanges, FailSessionEffect DEF SameProvider, Ended
  <2>2. RuntimeInv'
    BY <1>1, <1>2, <1>4, <2>1, UnlockKeepsInvariant
  <2>. QED BY <1>3, <2>2
<1>5. CASE Restart /\ phase' = "rollback" /\ step' = "building" /\ UNCHANGED op
  <2>1. RegistryInv' /\ ~Ended /\ Pg' = Pg + 1 /\ Pg' \in ProviderGenerations
        /\ Pg \in ProviderGenerations
    BY <1>2, <1>5, SwitchEffect, SessionFacts DEF Restart
  <2>2. HolderInv'
    <3>1. ControlPoint' /\ LocalsOK'
      BY <1>2, <1>5 DEF ControlPoint, LocalsOK
    <3>2. RuntimeTypes'
      BY <1>1, <1>5 DEF HolderInv, RuntimeTypes
    <3>3. PlaceOK'
      BY <1>1, <1>5, <2>1 DEF HolderInv, RuntimeTypes, Locals, PlaceOK, ProviderGenerations
    <3>. QED BY <3>1, <3>2, <3>3 DEF HolderInv
  <2>3. \A g \in ProviderGenerations : built[g] # "orphaned"
    BY <2>1 DEF AdapterInv, OrphansEnded
  <2>4. built[Pg'] = "none" /\ \A g \in ProviderGenerations : g > Pg' => g > Pg
    BY <1>2, <2>1 DEF ProviderGenerations
  <2>5. AdapterInv'
    BY <1>1, <1>2, <1>5, <2>3, <2>4
    DEF AdapterInv, OpenIsInHand, InHand, GenerationsFresh, OrphansEnded
  <2>6. LifeInv'
    BY <1>1, <1>5 DEF LifeInv, ClosingOK, UnstartedOK
  <2>. QED BY <1>3, <2>1, <2>2, <2>5, <2>6
<1>. QED BY <1>4, <1>5 DEF RollbackBegins, Goto

\* The end of any disposal keeps the invariant.
LEMMA AdapterClosesKeepsInvariant ==
  ASSUME RuntimeInv, AdapterCloses
  PROVE  RuntimeInv' /\ Disposable
<1>. USE DEF RuntimeInv
<1>. DEFINE d == op.disposing
<1>1. /\ phase = "close" /\ step = "closing_adapter" /\ adapter = 0 /\ started /\ closed
      /\ closing = "closing" /\ built' = Disposed(d) /\ ready_generation = 0
      /\ d \in ProviderGenerations /\ ~(d > Pg)
      /\ UNCHANGED <<registry_vars, adapter, provider_id, started, closed,
                     ready_generation, ready, provisional>>
  BY SessionFacts
  DEF AdapterCloses, At, HolderInv, RuntimeTypes, Locals, PlaceOK, LifeInv, ClosingOK,
      UnstartedOK, ProviderGenerations
<1>2. /\ built' \in [ProviderGenerations -> AdapterStatus]
      /\ \A g \in ProviderGenerations : built'[g] = IF g = d THEN "closed" ELSE built[g]
  BY <1>1, DisposedType
<1>3. /\ \A g \in ProviderGenerations : built[g] = "open" => g = d
      /\ \A g \in ProviderGenerations : g > Pg => built[g] = "none"
      /\ provisional \in BOOLEAN
  BY <1>1 DEF HolderInv, RuntimeTypes, AdapterInv, OpenIsInHand, InHand, GenerationsFresh
<1>4. RegistryInv' /\ State' = State /\ SameProvider
  BY <1>1, NothingChanges
<1>5. Disposable
  BY <1>1, <1>2 DEF Disposable, AdapterStatus
<1>6. CASE phase' = "close" /\ step' = "draining" /\ UNCHANGED <<op, closing>>
  <2>1. HolderInv'
    <3>1. ControlPoint' /\ LocalsOK'
      BY <1>6 DEF ControlPoint, LocalsOK
    <3>2. RuntimeTypes'
      BY <1>1, <1>2, <1>6 DEF HolderInv, RuntimeTypes
    <3>3. PlaceOK'
      BY <1>1, <1>4, <1>6, SessionFacts
      DEF HolderInv, PlaceOK, SameProvider, ProviderGenerations
    <3>. QED BY <3>1, <3>2, <3>3 DEF HolderInv
  <2>2. AdapterInv'
    BY <1>1, <1>2, <1>3, <1>4, <1>6
    DEF AdapterInv, OpenIsInHand, InHand, GenerationsFresh, OrphansEnded, SameProvider, Ended
  <2>3. LifeInv'
    BY <1>1, <1>6 DEF LifeInv, ClosingOK, UnstartedOK
  <2>. QED BY <1>4, <1>5, <2>1, <2>2, <2>3
<1>7. CASE Unlock /\ closing' = "failed"
  <2>1. Pg' = Pg /\ (Ended => Ended') /\ phase # "free"
    BY <1>1, <1>4 DEF SameProvider, Ended
  <2>2. \A g \in ProviderGenerations :
          /\ built'[g] = "open" => g = adapter'
          /\ built'[g] = "orphaned" => built[g] = "orphaned"
          /\ g > Pg => built'[g] = "none"
    BY <1>1, <1>2, <1>3
  <2>3. RuntimeInv'
    BY <1>1, <1>2, <1>3, <1>4, <1>7, <2>1, <2>2, UnlockKeepsInvariant
  <2>. QED BY <1>5, <2>3
<1>. QED BY <1>6, <1>7 DEF AdapterCloses, Goto

\* The close ends once no construction that was given up is left.
LEMMA CloseEndsKeepsInvariant ==
  ASSUME RuntimeInv, CloseEnds
  PROVE  RuntimeInv' /\ Disposable
<1>. USE DEF RuntimeInv
<1>1. /\ phase = "close" /\ step = "draining" /\ adapter = 0 /\ ready_generation = 0
      /\ Unlock /\ closing' = "done" /\ Drained
      /\ UNCHANGED <<registry_vars, adapter, built, provider_id, started, closed,
                     ready_generation, ready, provisional>>
  BY DEF CloseEnds, At, HolderInv, RuntimeTypes, PlaceOK
<1>2. RegistryInv' /\ Pg' = Pg /\ (Ended => Ended')
  BY <1>1, NothingChanges DEF SameProvider, Ended
<1>3. /\ built' \in [ProviderGenerations -> AdapterStatus]
      /\ provisional' \in BOOLEAN
      /\ \A g \in ProviderGenerations :
           /\ built'[g] = "open" => g = adapter'
           /\ g > Pg => built'[g] = "none"
           /\ built'[g] # "abandoned"
  BY <1>1 DEF HolderInv, RuntimeTypes, AdapterInv, OpenIsInHand, GenerationsFresh, Drained
<1>4. RuntimeInv'
  BY <1>1, <1>2, <1>3, UnlockKeepsInvariant
<1>. QED BY <1>1, <1>3, <1>4 DEF Disposable, AdapterStatus

\* A construction that ends by itself was given up, and is nobody's adapter.
LEMMA AbandonedBuildEndsKeepsInvariant ==
  ASSUME RuntimeInv, NEW n \in ProviderGenerations, AbandonedBuildEnds(n)
  PROVE  RuntimeInv' /\ Disposable
<1>. USE DEF RuntimeInv
<1>1. /\ built[n] = "abandoned" /\ built' = Disposed(n)
      /\ UNCHANGED <<registry_vars, adapter, provider_id, started, closed, closing, phase,
                     step, op, ready_generation, ready, provisional>>
  BY DEF AbandonedBuildEnds
<1>2. /\ built' \in [ProviderGenerations -> AdapterStatus]
      /\ \A g \in ProviderGenerations : built'[g] = IF g = n THEN "closed" ELSE built[g]
  BY <1>1, DisposedType
<1>3. RegistryInv' /\ State' = State /\ SameProvider
  BY <1>1, NothingChanges
<1>4. HolderInv'
  BY <1>1, <1>2, <1>3
  DEF HolderInv, ControlPoint, RuntimeTypes, LocalsOK, PlaceOK, SameProvider
<1>5. AdapterInv'
  BY <1>1, <1>2, <1>3, SessionFacts
  DEF AdapterInv, OpenIsInHand, InHand, GenerationsFresh, OrphansEnded, SameProvider, Ended
<1>6. LifeInv'
  BY <1>1, <1>2 DEF LifeInv, ClosingOK, UnstartedOK
<1>. QED BY <1>1, <1>2, <1>3, <1>4, <1>5, <1>6 DEF Disposable, AdapterStatus
-------------------------------------------------------------------------------
(* What an adapter reports, and the end of the session, leave the holder of  *)
(* the lock and the adapters where they are.                                 *)

\* An event that changes the session's state or the readiness keeps the invariant.
LEMMA EventKeepsInvariant ==
  ASSUME RuntimeInv, RegistryInv', Pg' = Pg, Ended => Ended',
         UNCHANGED <<adapter, built, provider_id, started, closed, closing, phase, step, op,
                     ready_generation>>,
         ready' \in {"none", "waiting", "listening", "error"}, provisional' \in BOOLEAN
  PROVE  RuntimeInv' /\ Disposable
<1>. USE DEF RuntimeInv
<1>1. HolderInv'
  BY DEF HolderInv, ControlPoint, RuntimeTypes, LocalsOK, PlaceOK
<1>2. AdapterInv'
  BY DEF AdapterInv, OpenIsInHand, InHand, GenerationsFresh, OrphansEnded
<1>3. LifeInv'
  BY DEF LifeInv, ClosingOK, UnstartedOK
<1>. QED BY <1>1, <1>2, <1>3 DEF Disposable, AdapterStatus

\* So does each kind of adapter event.
LEMMA AdapterEventKeepsInvariant ==
  ASSUME RuntimeInv, NEW g \in ProviderGenerations, AdapterEvent(g)
  PROVE  RuntimeInv' /\ Disposable
<1>1. RegistryInv /\ ready \in {"none", "waiting", "listening", "error"}
      /\ provisional \in BOOLEAN
  BY DEF RuntimeInv, HolderInv, RuntimeTypes
<1>2. ASSUME NEW st \in EmittedStates, StateEvent(g, st)
      PROVE  RuntimeInv' /\ Disposable
  <2>1. RegistryInv' /\ Pg' = Pg /\ (Ended => Ended')
    BY <1>1, <1>2, TransitionEffect DEF StateEvent, SameProvider, Ended
  <2>. QED BY <1>1, <1>2, <2>1, EventKeepsInvariant DEF StateEvent
<1>3. CASE ErrorEvent(g)
  <2>1. RegistryInv' /\ Pg' = Pg /\ (Ended => Ended')
    BY <1>1, <1>3, TransitionEffect, NothingChanges DEF ErrorEvent, SameProvider, Ended
  <2>. QED BY <1>1, <1>3, <2>1, EventKeepsInvariant DEF ErrorEvent
<1>4. ASSUME NEW delta \in BOOLEAN, TranscriptEvent(g, delta)
      PROVE  RuntimeInv' /\ Disposable
  <2>1. RegistryInv' /\ Pg' = Pg /\ (Ended => Ended')
    BY <1>1, <1>4, NothingChanges DEF TranscriptEvent, SameProvider, Ended
  <2>. QED BY <1>1, <1>4, <2>1, EventKeepsInvariant DEF TranscriptEvent
<1>. QED BY <1>2, <1>3, <1>4 DEF AdapterEvent

\* A close of the session from outside the runtime keeps the invariant.
LEMMA CloseSessionKeepsInvariant ==
  ASSUME RuntimeInv, CloseSession \/ UNCHANGED vars
  PROVE  RuntimeInv' /\ Disposable
<1>1. RegistryInv /\ ready \in {"none", "waiting", "listening", "error"}
      /\ provisional \in BOOLEAN
  BY DEF RuntimeInv, HolderInv, RuntimeTypes
<1>2. RegistryInv' /\ Pg' = Pg /\ (Ended => Ended')
  BY <1>1, CloseSessionEffect, NothingChanges DEF vars, SameProvider, Ended
<1>3. UNCHANGED runtime_vars
  BY DEF CloseSession, vars
<1>. QED BY <1>1, <1>2, <1>3, EventKeepsInvariant DEF runtime_vars
-------------------------------------------------------------------------------
\* The runtime starts in the invariant: a created session and no adapter.
LEMMA RuntimeInitEstablishesInvariant == RuntimeInit => RuntimeInv
<1>. SUFFICES ASSUME RuntimeInit PROVE RuntimeInv
  OBVIOUS
<1>. DEFINE record == [state |-> "connecting", generation |-> 1, provider_generation |-> 1,
                       active_provider |-> provider_id, desired_provider |-> provider_id]
            handle == [id |-> sid, generation |-> 1]
<1>1. /\ sid \in SessionIds /\ provider_id \in ProviderIds /\ lease_policy \in AudioLeasePolicy
      /\ sessions = [id \in SessionIds |-> IF id = sid THEN record ELSE NoSession]
      /\ next_generation = 1
      /\ None \notin SessionIds /\ 1 \in 1..MaxGeneration
      /\ 1 \in ProviderGenerations /\ 1 \in 0..MaxProviderGeneration
  BY RuntimeAssumption, RegistryAssumption
  DEF RuntimeInit, SessionGeneration, ProviderGenerations
<1>2. /\ sessions[sid] = record
      /\ \A id \in SessionIds : id # sid => sessions[id] = NoSession
      /\ \A id \in SessionIds : Present(id) <=> id = sid
  BY <1>1 DEF Present, NoSession
<1>3. State = "connecting" /\ Pg = 1 /\ ~Ended
  BY <1>2 DEF State, Pg, Ended, TERMINAL_SESSION_STATES
<1>4. lease_scope(sid) \in Scopes /\ HandleOf(sid) = handle
  BY <1>1, <1>2, ScopeType DEF HandleOf
<1>5. audio_owners = [sc \in Scopes |-> IF sc = lease_scope(sid) THEN handle ELSE NoHandle]
  BY <1>4 DEF RuntimeInit
<1>6. RegistryTypeOK
  <2>1. record \in VoiceSessionSnapshot
    BY <1>1 DEF VoiceSessionSnapshot, SessionState, ProviderGenerations
  <2>2. handle \in SessionHandle
    BY <1>1 DEF SessionHandle
  <2>3. next_generation \in 0..MaxGeneration
    BY <1>1, RegistryAssumption
  <2>. HIDE DEF record, handle
  <2>. QED BY <1>1, <1>5, <2>1, <2>2, <2>3 DEF RegistryTypeOK
<1>7. GenerationsHandedOut
  BY <1>1, <1>2, <1>5 DEF GenerationsHandedOut, NoHandle, NoSession
<1>8. LeasesInScope /\ LeaseHeldByLiveSession /\ LeaseFollowsSession
  <2>1. \A sc \in Scopes, id \in SessionIds :
          audio_owners[sc].id = id => sc = lease_scope(sid) /\ id = sid
    BY <1>1, <1>5 DEF NoHandle
  <2>2. LeasesInScope
    BY <2>1 DEF LeasesInScope
  <2>3. LeaseHeldByLiveSession
    BY <1>2, <1>3 DEF LeaseHeldByLiveSession, State, Ended
  <2>4. LeaseFollowsSession
    BY <1>3, <1>4, <1>5 DEF LeaseFollowsSession
  <2>. QED BY <2>2, <2>3, <2>4
<1>9. SessionOK
  BY <1>1, <1>2, <1>3 DEF SessionOK, SessionGeneration
<1>10. HolderInv
  <2>1. RuntimeTypes
    <3>1. 0 \in 0..MaxProviderGeneration
      BY RegistryAssumption
    <3>2. built \in [ProviderGenerations -> AdapterStatus]
      BY DEF RuntimeInit, AdapterStatus
    <3>. QED BY <1>1, <3>1, <3>2, NoLocalsType DEF RuntimeInit, RuntimeTypes
  <2>2. ControlPoint /\ LocalsOK /\ PlaceOK
    BY <1>3 DEF RuntimeInit, ControlPoint, LocalsOK, PlaceOK, NoLocals
  <2>. QED BY <2>1, <2>2 DEF HolderInv
<1>11. AdapterInv /\ LifeInv
  BY <1>3 DEF RuntimeInit, AdapterInv, OpenIsInHand, GenerationsFresh, OrphansEnded, LifeInv,
              ClosingOK, UnstartedOK
<1>. QED BY <1>6, <1>7, <1>8, <1>9, <1>10, <1>11 DEF RuntimeInv, RegistryInv, IInv

\* Every step keeps the invariant, and closes adapters for good.
LEMMA NextKeepsRuntimeInvariant ==
  RuntimeInv /\ [Next]_vars => RuntimeInv' /\ Disposable
<1>. SUFFICES ASSUME RuntimeInv, [Next]_vars
              PROVE  RuntimeInv' /\ Disposable
  OBVIOUS
<1>1. CASE HolderProgress
  <2>1. CASE BuildSucceeds
    BY <2>1, BuildSucceedsKeepsInvariant
  <2>2. CASE BuildFails
    BY <2>2, BuildFailsKeepsInvariant
  <2>3. CASE SetupSucceeds
    BY <2>3, SetupSucceedsKeepsInvariant
  <2>4. CASE SetupFails \/ StartFails
    BY <2>4, StartFailuresKeepInvariant
  <2>5. CASE Activated
    BY <2>5, ActivatedKeepsInvariant
  <2>6. CASE StartSucceeds \/ FrameRouted \/ RefuseSwitch
    BY <2>6, ReleaseKeepsInvariant
  <2>7. CASE Interrupt
    BY <2>7, InterruptKeepsInvariant
  <2>8. CASE BeginAtOnce \/ BeginAfterInterruption
    BY <2>8, BeginKeepsInvariant
  <2>9. CASE Announced
    BY <2>9, AnnouncedKeepsInvariant
  <2>10. CASE PreviousCloses
    BY <2>10, PreviousClosesKeepsInvariant
  <2>11. CASE FailedAdapterCloses \/ FailedAdapterCloseRaises
    BY <2>11, FailedAdapterClosesKeepsInvariant
  <2>12. CASE RollbackBegins
    BY <2>12, RollbackBeginsKeepsInvariant
  <2>13. CASE AdapterCloses
    BY <2>13, AdapterClosesKeepsInvariant
  <2>14. CASE CloseEnds
    BY <2>14, CloseEndsKeepsInvariant
  <2>. QED
    BY <1>1, <2>1, <2>2, <2>3, <2>4, <2>5, <2>6, <2>7, <2>8, <2>9, <2>10, <2>11, <2>12,
       <2>13, <2>14 DEF HolderProgress
<1>2. CASE ReceiveStart
  BY <1>2, ReceiveStartKeepsInvariant
<1>3. CASE RouteFrame
  BY <1>3, RouteFrameKeepsInvariant
<1>4. CASE \E p \in ProviderIds, force \in BOOLEAN : RequestSwitch(p, force)
  BY <1>4, RequestSwitchKeepsInvariant
<1>5. CASE BeginClose
  BY <1>5, BeginCloseKeepsInvariant
<1>6. CASE CloseTakesLock
  BY <1>6, CloseTakesLockKeepsInvariant
<1>7. CASE CloseSession \/ UNCHANGED vars
  BY <1>7, CloseSessionKeepsInvariant
<1>8. ASSUME NEW g \in ProviderGenerations, AbandonedBuildEnds(g)
      PROVE  RuntimeInv' /\ Disposable
  BY <1>8, AbandonedBuildEndsKeepsInvariant
<1>9. ASSUME NEW g \in ProviderGenerations, AdapterEvent(g)
      PROVE  RuntimeInv' /\ Disposable
  BY <1>9, AdapterEventKeepsInvariant
<1>. QED
  BY <1>1, <1>2, <1>3, <1>4, <1>5, <1>6, <1>7, <1>8, <1>9 DEF Next

\* The inductive invariant of the provider runtime holds throughout.
THEOREM RuntimeInvariant == Spec => []RuntimeInv
<1>1. RuntimeInit => RuntimeInv
  BY RuntimeInitEstablishesInvariant
<1>2. RuntimeInv /\ [Next]_vars => RuntimeInv'
  BY NextKeepsRuntimeInvariant
<1>. QED BY <1>1, <1>2, PTL DEF Spec

\* Type correctness, for any providers and any number of switches.
THEOREM RuntimeTypesCorrect == Spec => []RuntimeTypeOK
<1>1. RuntimeInv => RuntimeTypeOK
  BY DEF RuntimeInv, RegistryInv, IInv, HolderInv, ControlPoint, RuntimeTypes, RuntimeTypeOK,
         Phase, Step
<1>. QED BY <1>1, RuntimeInvariant, PTL

\* At most one provider adapter is open at a time and none once the close has
\* ended, and the session has ended before a rollback drops one without closing it.
THEOREM AtMostOneOpenAdapter == Spec => []OneOpenAdapter
<1>1. ASSUME RuntimeInv PROVE OneOpenAdapter
  <2>. DEFINE Open == {g \in ProviderGenerations : built[g] = "open"}
  <2>1. Open \subseteq {InHand}
    BY <1>1 DEF RuntimeInv, AdapterInv, OpenIsInHand
  <2>2. IsFiniteSet({InHand}) /\ Cardinality({InHand}) = 1
    BY FS_Singleton
  <2>3. Cardinality(Open) <= 1
    BY <2>1, <2>2, FS_Subset
  <2>4. closing = "done" => /\ adapter = 0
                            /\ \A g \in ProviderGenerations :
                                 built[g] \notin {"open", "abandoned"}
    BY <1>1 DEF RuntimeInv, HolderInv, ControlPoint, AdapterInv, OpenIsInHand, InHand, LifeInv,
                ClosingOK, ProviderGenerations
  <2>5. (\E g \in ProviderGenerations : built[g] = "orphaned") => Ended
    BY <1>1 DEF RuntimeInv, AdapterInv, OrphansEnded
  <2>. QED BY <2>3, <2>4, <2>5 DEF OneOpenAdapter
<1>. QED BY <1>1, RuntimeInvariant, PTL

\* The audio lease belongs to the session until it ends, whatever the switches,
\* failures and rollbacks in between.
THEOREM LeaseFollowsTheSession == Spec => []LeaseFollowsSession
<1>1. RuntimeInv => LeaseFollowsSession
  BY DEF RuntimeInv, RegistryInv
<1>. QED BY <1>1, RuntimeInvariant, PTL

\* An adapter that was disposed of is never opened again.
THEOREM ClosedAdaptersStayClosed == Spec => AdaptersAreDisposable
<1>1. RuntimeInv /\ [Next]_vars => [Disposable]_vars
  BY NextKeepsRuntimeInvariant
<1>. QED BY <1>1, RuntimeInvariant, PTL DEF Spec, AdaptersAreDisposable, Disposable
-------------------------------------------------------------------------------
(* A session nobody works on is settled, where only the disposal in recovery *)
(* raises: the two other disposals of a failed adapter let the error out and *)
(* leave the session as it is.                                               *)

\* A step that leaves the registry alone leaves the session's record as it was.
LEMMA SameRecord ==
  ASSUME RuntimeInv, UNCHANGED registry_vars
  PROVE  /\ State' = State /\ Pg' = Pg /\ Ended' = Ended
         /\ UNCHANGED provider_id => ProviderAgreed' = ProviderAgreed
BY NothingChanges DEF RuntimeInv, SameProvider, Ended, ProviderAgreed

\* A session that has ended is settled whatever the adapters do.
LEMMA EndedIsSettled ==
  ASSUME RuntimeInv, SettledInv, SameProvider, Ended',
         UNCHANGED <<provider_id, started>>, phase' \in {phase, "free"},
         \/ step' \notin {"activated", "starting"} /\ ready' # "listening"
         \/ UNCHANGED <<built, step>> /\ ready' \in {ready, "error"}
  PROVE  SettledInv'
<1>1. Pg' = Pg /\ ProviderAgreed' = ProviderAgreed /\ State' \notin {"connecting", "switching"}
  BY DEF SameProvider, ProviderAgreed, Ended, TERMINAL_SESSION_STATES
<1>. QED BY <1>1 DEF SettledInv

\* A failure of an adapter keeps the session settled: it failed, or goes on to recover.
LEMMA FailedKeepsSettled ==
  ASSUME RuntimeInv, SettledInv, NEW b, Failed(b),
         step \in {"closing_previous", "building", "setup", "starting"},
         UNCHANGED <<adapter, provider_id, started>>, ready' # "listening"
  PROVE  SettledInv'
<1>1. CASE FailSession /\ Unlock
  <2>1. SameProvider /\ Ended'
    BY <1>1, FailSessionEffect DEF RuntimeInv
  <2>. QED BY <1>1, <2>1, EndedIsSettled DEF Unlock, Goto
<1>2. CASE phase' = "recovery" /\ step' = "closing_failed" /\ UNCHANGED registry_vars
  <2>1. started
    BY DEF RuntimeInv, LifeInv, UnstartedOK, HolderInv, ControlPoint
  <2>. QED BY <1>2, <2>1 DEF SettledInv
<1>3. CASE phase' = phase /\ step' = "closing_failed" /\ phase \in {"initial", "rollback"}
           /\ UNCHANGED registry_vars
  BY <1>3, SameRecord DEF SettledInv
<1>. QED
  BY <1>1, <1>2, <1>3 DEF Failed, SwitchFailed, InitialFailed, RollbackFailed, FailsWith, Goto

\* What the holder of the lock does on the way to a new adapter.
LEMMA StartKeepsSettled ==
  ASSUME RuntimeInv, SettledInv,
         \/ BuildSucceeds \/ BuildFails \/ SetupSucceeds \/ SetupFails \/ Activated
         \/ StartSucceeds \/ StartFails
  PROVE  SettledInv'
<1>1. started /\ step \in {"building", "setup", "activated", "starting"}
      /\ phase \in {"initial", "switch", "rollback"} /\ UNCHANGED started
  BY DEF BuildSucceeds, BuildFails, SetupSucceeds, SetupFails, Activated, StartSucceeds,
         StartFails, RuntimeInv, LifeInv, UnstartedOK, HolderInv, ControlPoint
<1>2. CASE BuildSucceeds
  <2>1. ready' # "listening" /\ UNCHANGED <<provider_id, closed>>
    BY <1>2 DEF BuildSucceeds, SettledInv
  <2>2. CASE Unlock /\ FailSession
    <3>1. SameProvider /\ Ended'
      BY <2>2, FailSessionEffect DEF RuntimeInv
    <3>. QED BY <1>1, <2>1, <2>2, <3>1, EndedIsSettled DEF Unlock, Goto
  <2>3. CASE Unlock /\ closed /\ UNCHANGED registry_vars
    BY <1>1, <2>1, <2>3 DEF SettledInv, Unlock, Goto
  <2>4. CASE Goto(phase, "setup") /\ UNCHANGED registry_vars
    BY <1>1, <2>1, <2>4, SameRecord DEF SettledInv, Goto
  <2>. QED BY <1>2, <2>2, <2>3, <2>4 DEF BuildSucceeds, DiscardsInitial
<1>3. CASE BuildFails \/ SetupFails \/ StartFails
  <2>1. ready' # "listening"
    BY <1>3 DEF BuildFails, SetupFails, StartFails, ReadyCleared, ReadyWith, SettledInv
  <2>. QED BY <1>1, <1>3, <2>1, FailedKeepsSettled DEF BuildFails, SetupFails, StartFails
<1>4. CASE SetupSucceeds
  <2>1. ready # "listening" /\ built[Pg] = "open" /\ UNCHANGED closed
    BY <1>4 DEF SetupSucceeds, SettledInv, RuntimeInv, AdapterInv, GenerationsFresh
  <2>2. CASE phase = "initial" /\ UNCHANGED <<registry_vars, built, provider_id>>
    BY <1>1, <1>4, <2>1, <2>2, SameRecord
    DEF SetupSucceeds, SettledInv, Unlock, Goto, ReadyWith
  <2>3. CASE /\ phase # "initial" /\ ActivateProvider(sid, Provider, SessionGeneration, Pg)
             /\ provider_id' = Provider /\ Goto(phase, "activated")
             /\ UNCHANGED <<built, op, ready_generation, ready>>
    <3>1. Provider \in ProviderIds
      BY <1>1, <1>4, <2>3 DEF SetupSucceeds, Provider, RuntimeInv, HolderInv, LocalsOK
    <3>2. Pg' = Pg /\ ProviderAgreed'
      BY <2>3, <3>1, ActivateEffect DEF RuntimeInv, ProviderAgreed
    <3>. QED BY <1>1, <2>1, <2>3, <3>2 DEF SettledInv, Goto
  <2>4. CASE Failed(built) /\ UNCHANGED <<adapter, provider_id, ready_generation, ready>>
    BY <1>1, <1>4, <2>1, <2>4, FailedKeepsSettled DEF SetupSucceeds
  <2>. QED BY <1>4, <2>2, <2>3, <2>4 DEF SetupSucceeds
<1>5. CASE Activated
  BY <1>1, <1>5, SameRecord DEF Activated, ReadyWith, Goto, SettledInv
<1>6. CASE StartSucceeds
  BY <1>1, <1>6, SameRecord
  DEF StartSucceeds, StartedInTime, ReadyCleared, ReadyWith, Unlock, Goto, SettledInv,
      RuntimeInv, HolderInv, PlaceOK
<1>. QED BY <1>2, <1>3, <1>4, <1>5, <1>6

\* Frames, requests to switch, and a switch as far as the previous adapter's close.
LEMMA RequestKeepsSettled ==
  ASSUME RuntimeInv, SettledInv,
         \/ ReceiveStart \/ RouteFrame \/ FrameRouted \/ RefuseSwitch \/ Interrupt
         \/ \E p \in ProviderIds, force \in BOOLEAN : RequestSwitch(p, force)
         \/ BeginAtOnce \/ BeginAfterInterruption \/ Announced \/ PreviousCloses
  PROVE  SettledInv'
<1>1. ready' # "listening"
  BY DEF ReceiveStart, RouteFrame, FrameRouted, RefuseSwitch, Interrupt, RequestSwitch,
         BeginAtOnce, BeginAfterInterruption, Begin, Announced, PreviousCloses, LockFree, At,
         SettledInv, RuntimeInv, HolderInv, ControlPoint
<1>2. CASE ReceiveStart
  BY <1>1, <1>2, SameRecord
  DEF ReceiveStart, LockFree, Goto, SettledInv, RuntimeInv, HolderInv, ControlPoint
<1>3. CASE \/ RouteFrame \/ FrameRouted \/ RefuseSwitch \/ Interrupt
           \/ \E p \in ProviderIds, force \in BOOLEAN : RequestSwitch(p, force)
  <2>1. /\ UNCHANGED <<registry_vars, adapter, built, provider_id, started, closed>>
        /\ phase \in {"free", "frame"} \/ step \in {"requested", "interrupting"}
        /\ phase' \in {"free", "frame", "switch"}
        /\ step' \in {"idle", "requested", "interrupting"}
    BY <1>3 DEF RouteFrame, FrameRouted, RefuseSwitch, Interrupt, RequestSwitch, Unlock, Goto,
                LockFree, At
  <2>. QED BY <1>1, <2>1, SameRecord DEF SettledInv
<1>4. CASE BeginAtOnce \/ BeginAfterInterruption
  <2>1. PICK seen : Begin(seen)
    BY <1>4 DEF BeginAtOnce, BeginAfterInterruption
  <2>2. /\ phase = "switch" /\ step \in {"requested", "interrupting"} /\ started
        /\ UNCHANGED <<adapter, built, provider_id, started, closed>>
    BY <1>4 DEF BeginAtOnce, BeginAfterInterruption, Begin, At, Eligible, RuntimeInv, LifeInv,
                UnstartedOK
  <2>3. CASE Unlock /\ UNCHANGED registry_vars
    BY <1>1, <2>2, <2>3, SameRecord DEF SettledInv, Unlock, Goto
  <2>4. CASE Goto("switch", "announcing")
    BY <1>1, <2>2, <2>4 DEF SettledInv, Goto
  <2>. QED BY <2>1, <2>3, <2>4 DEF Begin
<1>5. CASE Announced \/ PreviousCloses
  <2>1. started /\ UNCHANGED started /\ step \in {"announcing", "closing_previous"}
    BY <1>5 DEF Announced, PreviousCloses, At, RuntimeInv, LifeInv, UnstartedOK
  <2>2. CASE phase' = "switch" /\ step' \in {"closing_previous", "building"}
    BY <1>1, <2>1, <2>2 DEF SettledInv
  <2>3. CASE PreviousCloses /\ Failed(Disposed(op.disposing))
    BY <1>1, <2>1, <2>3, FailedKeepsSettled DEF PreviousCloses, At
  <2>. QED BY <1>5, <2>2, <2>3 DEF Announced, PreviousCloses, Goto
<1>. QED BY <1>2, <1>3, <1>4, <1>5

\* Recovery and the close.
LEMMA DisposalKeepsSettled ==
  ASSUME RuntimeInv, SettledInv, CloseMayRaise \subseteq {"recovery"},
         \/ FailedAdapterCloses \/ FailedAdapterCloseRaises \/ RollbackBegins
         \/ BeginClose \/ CloseTakesLock \/ AdapterCloses \/ CloseEnds
         \/ \E g \in ProviderGenerations : AbandonedBuildEnds(g)
  PROVE  SettledInv'
<1>1. CASE FailedAdapterCloses \/ FailedAdapterCloseRaises \/ RollbackBegins
  <2>1. /\ ready' # "listening" /\ started /\ UNCHANGED <<provider_id, started>>
        /\ step \in {"closing_failed", "failed"}
    BY <1>1 DEF FailedAdapterCloses, FailedAdapterCloseRaises, RollbackBegins, At, SettledInv,
                RuntimeInv, LifeInv, UnstartedOK, HolderInv, ControlPoint
  <2>2. CASE Unlock /\ FailSession
    <3>1. SameProvider /\ Ended'
      BY <2>2, FailSessionEffect DEF RuntimeInv
    <3>. QED BY <2>1, <2>2, <3>1, EndedIsSettled DEF Unlock, Goto
  <2>3. CASE phase' = "rollback" /\ step' \in {"failed", "building"}
    BY <2>1, <2>3 DEF SettledInv
  <2>4. CASE Unlock /\ UNCHANGED registry_vars
             /\ ~CanRestartProviderSwitch(sid, SessionGeneration, Pg)
    <3>1. Ended
      BY <2>4, SessionFacts
      DEF RuntimeInv, RegistryInv, SessionOK, CanRestartProviderSwitch, require, Pg, State,
          Ended, EmittedStates, TERMINAL_SESSION_STATES
    <3>2. SameProvider /\ Ended'
      BY <2>4, <3>1, NothingChanges, SameRecord DEF RuntimeInv
    <3>. QED BY <2>1, <2>4, <3>2, EndedIsSettled DEF Unlock, Goto
  <2>. QED
    BY <1>1, <2>2, <2>3, <2>4
    DEF FailedAdapterCloses, FailedAdapterCloseRaises, RollbackBegins, Goto
<1>2. CASE BeginClose \/ CloseTakesLock \/ AdapterCloses \/ CloseEnds
  <2>1. /\ closed' /\ UNCHANGED <<registry_vars, provider_id, started, ready>>
        /\ \/ UNCHANGED <<phase, step, built>>
           \/ phase' \in {"close", "free"} /\ step' \in {"idle", "draining", "closing_adapter"}
              /\ step # "starting"
    BY <1>2 DEF BeginClose, CloseTakesLock, AdapterCloses, CloseEnds, At, Unlock, Goto,
                RuntimeInv, LifeInv, ClosingOK, HolderInv, ControlPoint
  <2>. QED BY <2>1, SameRecord DEF SettledInv
<1>3. ASSUME NEW n \in ProviderGenerations, AbandonedBuildEnds(n)
      PROVE  SettledInv'
  <2>1. /\ built[n] = "abandoned"
        /\ \A g \in ProviderGenerations : g # n => built'[g] = built[g]
        /\ UNCHANGED <<registry_vars, adapter, provider_id, started, closed, phase, step, ready>>
    BY <1>3, DisposedType DEF AbandonedBuildEnds
  <2>. QED BY <2>1, SameRecord, SessionFacts DEF SettledInv, RuntimeInv
<1>. QED BY <1>1, <1>2, <1>3

\* A change of the session's state or the readiness by an event keeps it settled.
LEMMA EventKeepsSettled ==
  ASSUME RuntimeInv, SettledInv,
         UNCHANGED <<adapter, built, provider_id, started, closed, phase, step>>,
         \/ UNCHANGED <<registry_vars>> /\ ready' \in {ready, "error"}
         \/ SameProvider /\ Ended' /\ ready' \in {ready, "error"}
         \/ SameProvider /\ State' \in EmittedStates /\ (Ended => Ended')
            /\ (ready' = "listening" => step = "starting")
  PROVE  SettledInv'
<1>1. CASE UNCHANGED <<registry_vars>> /\ ready' \in {ready, "error"}
  BY <1>1, SameRecord DEF SettledInv
<1>2. CASE SameProvider /\ Ended' /\ ready' \in {ready, "error"}
  BY <1>2, EndedIsSettled
<1>3. CASE /\ SameProvider /\ State' \in EmittedStates /\ (Ended => Ended')
           /\ (ready' = "listening" => step = "starting")
  <2>1. Pg' = Pg /\ ProviderAgreed' = ProviderAgreed
        /\ State' \notin {"connecting", "switching"}
    BY <1>3 DEF SameProvider, ProviderAgreed, EmittedStates
  <2>. QED BY <1>3, <2>1 DEF SettledInv
<1>. QED BY <1>1, <1>2, <1>3

\* The end of the session, or any event of an adapter, keeps the session settled.
LEMMA ReportKeepsSettled ==
  ASSUME RuntimeInv, SettledInv,
         \/ CloseSession \/ UNCHANGED vars
         \/ \E g \in ProviderGenerations : AdapterEvent(g)
  PROVE  SettledInv'
<1>1. RegistryInv /\ RuntimeTypes
  BY DEF RuntimeInv, HolderInv
<1>2. CASE CloseSession
  BY <1>1, <1>2, CloseSessionEffect, EventKeepsSettled DEF CloseSession, runtime_vars
<1>3. CASE UNCHANGED vars
  BY <1>3, EventKeepsSettled DEF vars, runtime_vars
<1>4. ASSUME NEW g \in ProviderGenerations, NEW st \in EmittedStates, StateEvent(g, st)
      PROVE  SettledInv'
  <2>1. SameProvider /\ State' = st /\ (Ended => Ended')
    BY <1>1, <1>4, TransitionEffect DEF StateEvent, Ended
  <2>2. ready' = "listening" => step = "starting"
    BY <1>1, <1>4 DEF StateEvent, RuntimeTypes, SettledInv, ProviderGenerations
  <2>. QED BY <1>4, <2>1, <2>2, EventKeepsSettled DEF StateEvent
<1>5. ASSUME NEW g \in ProviderGenerations, ErrorEvent(g)
      PROVE  SettledInv'
  <2>1. CASE UNCHANGED registry_vars /\ ready' = "error"
    BY <1>5, <2>1, EventKeepsSettled DEF ErrorEvent
  <2>2. CASE Transition(sid, "failed", SessionGeneration, g) /\ UNCHANGED ready
    <3>1. SameProvider /\ Ended'
      BY <1>1, <2>2, TransitionEffect DEF Ended, TERMINAL_SESSION_STATES
    <3>. QED BY <1>5, <2>2, <3>1, EventKeepsSettled DEF ErrorEvent
  <2>. QED BY <1>5, <2>1, <2>2 DEF ErrorEvent
<1>6. ASSUME NEW g \in ProviderGenerations, NEW delta \in BOOLEAN, TranscriptEvent(g, delta)
      PROVE  SettledInv'
  BY <1>6, EventKeepsSettled DEF TranscriptEvent
<1>. QED BY <1>2, <1>3, <1>4, <1>5, <1>6 DEF AdapterEvent

\* A started, live session whose lock is free is settled: its adapter is open and is
\* the one of the registry's provider and generation.  The hypothesis is needed: the
\* two disposals other than recovery's let their error out half-way through a switch.
THEOREM IdleSessionIsSettled ==
  ASSUME CloseMayRaise \subseteq {"recovery"}
  PROVE  Spec => []IdleIsSettled
<1>1. RuntimeInit => SettledInv
  <2>. SUFFICES ASSUME RuntimeInit PROVE SettledInv
    OBVIOUS
  <2>1. ProviderAgreed
    BY RuntimeAssumption DEF RuntimeInit, ProviderAgreed
  <2>. QED BY <2>1 DEF RuntimeInit, SettledInv
<1>2. RuntimeInv /\ SettledInv /\ [Next]_vars => SettledInv'
  BY StartKeepsSettled, RequestKeepsSettled, DisposalKeepsSettled, ReportKeepsSettled
  DEF Next, HolderProgress
<1>3. SettledInv => IdleIsSettled
  BY DEF SettledInv, IdleIsSettled, LockFree, ProviderAgreed
<1>. QED BY <1>1, <1>2, <1>3, RuntimeInvariant, PTL DEF Spec

\* The other run's question: a rollback that does not start the previous provider
\* again ends the session, unless disposing of the rollback's adapter raises.
THEOREM RollbackFailureEndsSession ==
  ASSUME "rollback" \notin CloseMayRaise
  PROVE  Spec => FailedRollbackFailsSession
<1>. DEFINE FailsSession ==
       phase = "rollback" /\ phase' = "free" /\ ~StartedInTime =>
         sessions'[sid].state \in TERMINAL_SESSION_STATES
<1>1. ASSUME RuntimeInv, Next, phase = "rollback", phase' = "free", ~StartedInTime
      PROVE  Ended'
  <2>1. CASE FailSession
    BY <1>1, <2>1, FailSessionEffect DEF RuntimeInv
  <2>2. CASE UNCHANGED registry_vars
             /\ ~CanRestartProviderSwitch(sid, SessionGeneration, Pg)
    <3>1. Ended
      BY <1>1, <2>2, SessionFacts
      DEF RuntimeInv, RegistryInv, SessionOK, CanRestartProviderSwitch, require, Pg, State,
          Ended, EmittedStates, TERMINAL_SESSION_STATES
    <3>. QED BY <1>1, <2>2, <3>1, SameRecord
  <2>3. FailSession \/ (UNCHANGED registry_vars
                        /\ ~CanRestartProviderSwitch(sid, SessionGeneration, Pg))
    BY <1>1
    DEF Next, HolderProgress, AdapterEvent, vars, runtime_vars, BuildSucceeds, BuildFails,
        SetupSucceeds, SetupFails, Activated, StartSucceeds, StartFails, FrameRouted,
        RefuseSwitch, Interrupt, BeginAtOnce, BeginAfterInterruption, Announced,
        PreviousCloses, FailedAdapterCloses, FailedAdapterCloseRaises, RollbackBegins,
        AdapterCloses, CloseEnds, ReceiveStart, RouteFrame, RequestSwitch, BeginClose,
        CloseTakesLock, CloseSession, AbandonedBuildEnds, StateEvent, ErrorEvent,
        TranscriptEvent, Failed, InitialFailed, RollbackFailed, SwitchFailed, FailsWith,
        Goto, Unlock, At, LockFree, DiscardsInitial
  <2>. QED BY <2>1, <2>2, <2>3
<1>2. RuntimeInv /\ [Next]_vars => [FailsSession]_vars
  BY <1>1 DEF Ended, State
<1>. QED BY <1>2, RuntimeInvariant, PTL DEF Spec, FailedRollbackFailsSession, FailsSession
===============================================================================
