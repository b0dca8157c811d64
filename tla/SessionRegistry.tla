---------------------------- MODULE SessionRegistry ----------------------------
(***************************************************************************)
(* SessionRegistry of sessions.py: the table of voice sessions, their      *)
(* state machine, the provider switch and the audio leases.  Every method  *)
(* runs under one lock that is never held across a suspension point, so    *)
(* each method is one atomic action.  A call the code refuses (it raises   *)
(* or returns early) leaves the state alone and is no step here.           *)
(***************************************************************************)
EXTENDS Integers

CONSTANTS SessionIds,             \* session identifiers
          ProviderIds,            \* voice provider identifiers
          None,                   \* Python's None, for providers and owners
          MaxGeneration,          \* bound on session generations
          MaxProviderGeneration   \* bound on provider generations of a session

ASSUME RegistryAssumption ==
  /\ None \notin SessionIds
  /\ None \notin ProviderIds
  /\ MaxGeneration \in Nat
  /\ MaxProviderGeneration \in Nat \ {0}

VARIABLES lease_policy,      \* AudioLeasePolicy the registry was built with
          sessions,          \* session id -> VoiceSessionSnapshot or NoSession
          next_generation,   \* the last session generation handed out
          audio_owners       \* lease scope -> SessionHandle or NoHandle

registry_vars == <<lease_policy, sessions, next_generation, audio_owners>>
-------------------------------------------------------------------------------
SessionState ==
  {"created", "connecting", "listening", "thinking", "speaking",
   "interrupting", "switching", "closing", "closed", "failed"}

TERMINAL_SESSION_STATES == {"closed", "failed"}

AudioLeasePolicy == {"process", "session"}

VoiceSessionSnapshot ==
  [state : SessionState,
   generation : 1..MaxGeneration,
   provider_generation : 0..MaxProviderGeneration,
   active_provider : ProviderIds \cup {None},
   desired_provider : ProviderIds \cup {None}]

\* Stands for an id that is not a key of the table.
NoSession ==
  [state |-> "absent", generation |-> 0, provider_generation |-> 0,
   active_provider |-> None, desired_provider |-> None]

SessionHandle == [id : SessionIds, generation : 1..MaxGeneration]
NoHandle == [id |-> None, generation |-> 0]

\* The two keys a lease can have: the process-wide one, or the session's id.
PROCESS_LEASE == "__process__"
Scopes == SessionIds \cup {PROCESS_LEASE}
lease_scope(id) == IF lease_policy = "process" THEN PROCESS_LEASE ELSE id

Present(id) == sessions[id].state # "absent"
HandleOf(id) == [id |-> id, generation |-> sessions[id].generation]

\* What _require, _require_generation and _require_provider_generation demand
\* of a call that expects generation eg and provider generation epg.
Unfenced == -1
require(id, eg, epg) ==
  /\ Present(id)
  /\ eg \in {Unfenced, sessions[id].generation}
  /\ epg \in {Unfenced, sessions[id].provider_generation}

\* Mutant: a closed session may still be marked failed by a late error.
AllowedAfterClose(st) ==
  IF st \in TERMINAL_SESSION_STATES THEN {"failed"} ELSE SessionState \ {"created"}

ALLOWED_TRANSITIONS(st) ==
  CASE st = "created"      -> {"connecting", "closing", "failed"}
    [] st = "connecting"   -> {"listening", "switching", "closing", "failed"}
    [] st = "listening"    -> {"thinking", "speaking", "interrupting", "switching",
                               "closing", "failed"}
    [] st = "thinking"     -> {"speaking", "interrupting", "closing", "failed"}
    [] st = "speaking"     -> {"listening", "thinking", "interrupting", "closing",
                               "failed"}
    [] st = "interrupting" -> {"listening", "closing", "failed"}
    [] st = "switching"    -> {"connecting", "closing", "failed"}
    [] st = "closing"      -> {"closed", "failed"}
    [] OTHER               -> {}

\* The leases once the session with this id gives back its own.
LeasesWithout(id) ==
  IF audio_owners[lease_scope(id)] = HandleOf(id)
  THEN [audio_owners EXCEPT ![lease_scope(id)] = NoHandle]
  ELSE audio_owners
-------------------------------------------------------------------------------
RegistryInit ==
  /\ lease_policy \in AudioLeasePolicy
  /\ sessions = [id \in SessionIds |-> NoSession]
  /\ next_generation = 0
  /\ audio_owners = [sc \in Scopes |-> NoHandle]

\* Mutant: the snapshot takes the generation before the counter is advanced.
GenerationBeforeIncrement(p) ==
  [state |-> "created",
   generation |-> next_generation,
   provider_generation |-> IF p = None THEN 0 ELSE 1,
   active_provider |-> p,
   desired_provider |-> p]

NewSnapshot(p) ==
  [state |-> "created",
   generation |-> next_generation + 1,
   provider_generation |-> IF p = None THEN 0 ELSE 1,
   active_provider |-> p,
   desired_provider |-> p]

CanCreate(id, replace_existing) ==
  /\ Present(id) => replace_existing
  /\ next_generation < MaxGeneration

Create(id, p, replace_existing) ==
  /\ CanCreate(id, replace_existing)
  /\ next_generation' = next_generation + 1
  /\ sessions' = [sessions EXCEPT ![id] = NewSnapshot(p)]
  /\ UNCHANGED <<lease_policy, audio_owners>>

\* The snapshot of a session that starts to switch to provider p.
SwitchingTo(id, p) ==
  [sessions[id] EXCEPT !.state = "switching",
                       !.provider_generation = @ + 1,
                       !.desired_provider = p]

BeginProviderSwitch(id, p, eg, epg) ==
  /\ require(id, eg, epg)
  /\ sessions[id].state = "listening"
  /\ sessions[id].provider_generation < MaxProviderGeneration
  /\ sessions' = [sessions EXCEPT ![id] = SwitchingTo(id, p)]
  /\ UNCHANGED <<lease_policy, next_generation, audio_owners>>

CanRestartProviderSwitch(id, eg, epg) ==
  /\ require(id, eg, epg)
  /\ sessions[id].state \notin TERMINAL_SESSION_STATES \cup {"closing"}

RestartProviderSwitch(id, p, eg, epg) ==
  /\ CanRestartProviderSwitch(id, eg, epg)
  /\ sessions[id].provider_generation < MaxProviderGeneration
  /\ sessions' = [sessions EXCEPT ![id] = SwitchingTo(id, p)]
  /\ UNCHANGED <<lease_policy, next_generation, audio_owners>>

\* Mutant: activation forgets to check which provider the switch is for.
CanActivateAnyProvider(id, p, eg, epg) ==
  /\ require(id, eg, epg)
  /\ sessions[id].state = "switching"

CanActivateProvider(id, p, eg, epg) ==
  /\ require(id, eg, epg)
  /\ sessions[id].state = "switching"
  /\ sessions[id].desired_provider = p

ActivateProvider(id, p, eg, epg) ==
  /\ CanActivateProvider(id, p, eg, epg)
  /\ sessions' = [sessions EXCEPT ![id].state = "connecting",
                                  ![id].active_provider = p]
  /\ UNCHANGED <<lease_policy, next_generation, audio_owners>>

CanTransition(id, st, eg, epg) ==
  /\ require(id, eg, epg)
  /\ st \in ALLOWED_TRANSITIONS(sessions[id].state) \cup {sessions[id].state}

\* Mutant: only a clean close gives the lease back, a failure keeps it.
TransitionKeepingLeaseOnFailure(id, st, eg, epg) ==
  /\ CanTransition(id, st, eg, epg)
  /\ sessions' = [sessions EXCEPT ![id].state = st]
  /\ audio_owners' = IF st = "closed" THEN LeasesWithout(id) ELSE audio_owners
  /\ UNCHANGED <<lease_policy, next_generation>>

\* A transition to the present state returns early; a terminal session gives
\* its own lease back in the same step.
Transition(id, st, eg, epg) ==
  /\ CanTransition(id, st, eg, epg)
  /\ sessions' = [sessions EXCEPT ![id].state = st]
  /\ audio_owners' = IF st \in TERMINAL_SESSION_STATES
                     THEN LeasesWithout(id) ELSE audio_owners
  /\ UNCHANGED <<lease_policy, next_generation>>

\* Mutant: a reconnect of the same id takes the lease whatever the policy.
SameIdMayTakeLease(id) ==
  LET owner == audio_owners[lease_scope(id)]
  IN  owner = NoHandle \/ owner = HandleOf(id) \/ owner.id = id

LeaseAvailable(id) ==
  LET owner == audio_owners[lease_scope(id)]
  IN  \/ owner \in {NoHandle, HandleOf(id)}
      \/ lease_policy = "session" /\ owner.id = id

CanAcquireAudio(id, eg) ==
  /\ require(id, eg, Unfenced)
  /\ sessions[id].state \notin TERMINAL_SESSION_STATES
  /\ LeaseAvailable(id)

AcquireAudio(id, eg) ==
  /\ CanAcquireAudio(id, eg)
  /\ audio_owners' = [audio_owners EXCEPT ![lease_scope(id)] = HandleOf(id)]
  /\ UNCHANGED <<lease_policy, sessions, next_generation>>

\* The leases after release_audio, which ignores a scope that the named
\* incarnation does not hold and never looks at the session's record.
LeasesAfterRelease(id, eg) ==
  LET owner == audio_owners[lease_scope(id)]
  IN  IF owner.id = id /\ eg \in {Unfenced, owner.generation}
      THEN [audio_owners EXCEPT ![lease_scope(id)] = NoHandle]
      ELSE audio_owners

ReleaseAudio(id, eg) ==
  /\ audio_owners' = LeasesAfterRelease(id, eg)
  /\ UNCHANGED <<lease_policy, sessions, next_generation>>

CanReap(id, eg) ==
  /\ require(id, eg, Unfenced)
  /\ sessions[id].state \in TERMINAL_SESSION_STATES

Reap(id, eg) ==
  /\ CanReap(id, eg)
  /\ sessions' = [sessions EXCEPT ![id] = NoSession]
  /\ audio_owners' = LeasesWithout(id)
  /\ UNCHANGED <<lease_policy, next_generation>>

\* Callers pass the generation they were created with, or none at all.
ExpectedGenerations == {Unfenced} \cup 1..MaxGeneration
ExpectedProviderGenerations == {Unfenced} \cup 0..MaxProviderGeneration

SessionCall(id, eg) ==
  \/ AcquireAudio(id, eg)
  \/ ReleaseAudio(id, eg)
  \/ Reap(id, eg)

ProviderCall(id, eg, epg) ==
  \/ \E st \in SessionState : Transition(id, st, eg, epg)
  \/ \E p \in ProviderIds : \/ BeginProviderSwitch(id, p, eg, epg)
                            \/ RestartProviderSwitch(id, p, eg, epg)
                            \/ ActivateProvider(id, p, eg, epg)

RegistryNext ==
  \E id \in SessionIds :
    \/ \E p \in ProviderIds \cup {None}, r \in BOOLEAN : Create(id, p, r)
    \/ \E eg \in ExpectedGenerations :
         \/ SessionCall(id, eg)
         \/ \E epg \in ExpectedProviderGenerations : ProviderCall(id, eg, epg)

RegistrySpec == RegistryInit /\ [][RegistryNext]_registry_vars
-------------------------------------------------------------------------------
\* Type correctness.  Every registered session carries a generation that was
\* handed out (1 or more), so no record can be mistaken for an unused slot.
RegistryTypeOK ==
  /\ lease_policy \in AudioLeasePolicy
  /\ sessions \in [SessionIds -> VoiceSessionSnapshot \cup {NoSession}]
  /\ next_generation \in 0..MaxGeneration
  /\ audio_owners \in [Scopes -> SessionHandle \cup {NoHandle}]

\* A lease is never held by an incarnation that has reached CLOSED or FAILED
\* while its record is still there: ending a session and giving its audio
\* back are one step, whichever way the session ends.
LeaseHeldByLiveSession ==
  \A sc \in Scopes, id \in SessionIds :
    /\ Present(id)
    /\ audio_owners[sc] = HandleOf(id)
    => sessions[id].state \notin TERMINAL_SESSION_STATES

\* The end of a session is final: until its record is reaped, or replaced by
\* a newer incarnation, no late event or call moves it out of CLOSED or FAILED.
TerminalIsFinal ==
  [][\A id \in SessionIds :
       sessions[id].state \in TERMINAL_SESSION_STATES =>
         \/ sessions'[id] \in {sessions[id], NoSession}
         \/ sessions'[id].generation > sessions[id].generation]_registry_vars

\* Within one incarnation provider generations only grow, and the active
\* provider changes only when the switch in progress reaches the provider it
\* was begun for, under that switch's own provider generation.
SwitchIsFenced ==
  [][\A id \in SessionIds :
       sessions'[id].generation = sessions[id].generation =>
         /\ sessions'[id].provider_generation >= sessions[id].provider_generation
         /\ sessions'[id].active_provider # sessions[id].active_provider =>
              /\ sessions[id].state = "switching"
              /\ sessions'[id].active_provider = sessions[id].desired_provider
              /\ sessions'[id].provider_generation = sessions[id].provider_generation
    ]_registry_vars

\* The incarnations that have not ended.
LiveHandles ==
  {HandleOf(id) : id \in {i \in SessionIds :
     Present(i) /\ sessions[i].state \notin TERMINAL_SESSION_STATES}}

Lease == INSTANCE AudioLease
           WITH policy <- lease_policy, live <- LiveHandles, holder <- audio_owners

\* The registry implements the lease it promises (module AudioLease).
ImplementsAudioLease == Lease!Spec
===============================================================================
