---------------------------- MODULE ProviderRuntime ----------------------------
(***************************************************************************)
(* VoiceProviderRuntime of providers/runtime.py: one voice session whose   *)
(* provider adapter is replaced while the session and its audio lease      *)
(* stay.  One switch lock serialises the initial start, a switch with its  *)
(* recovery, the routing of frames and the final close; provider events    *)
(* arrive at any time, whoever holds the lock.                             *)
(*                                                                         *)
(* An adapter is named by the provider generation it is built for.  One    *)
(* action stands for the code between two awaits on an adapter or a sink.  *)
(* Cancelling a switch makes its await raise, so it is one of the ways in  *)
(* which an awaited step fails.                                            *)
(***************************************************************************)
EXTENDS SessionRegistry, FiniteSets

CONSTANTS sid,            \* the session
          CloseMayRaise   \* phases in which disposing of a failed adapter may raise

ASSUME RuntimeAssumption ==
  /\ sid \in SessionIds
  /\ MaxGeneration >= 1
  /\ CloseMayRaise \subseteq {"initial", "recovery", "rollback"}

VARIABLES adapter,           \* _adapter: its provider generation, 0 for None
          built,             \* provider generation -> status of its adapter
          provider_id,       \* _provider_id
          started,           \* the StartFrame has arrived (_start_frame)
          closed,            \* _closed
          closing,           \* where _close_active_adapter is
          phase,             \* what the holder of the switch lock is doing...
          step,              \* ...and the await it is at
          op,                \* the locals of the holder
          ready_generation,  \* _ready_generation, 0 for None
          ready,             \* _ready_event and _ready_error
          provisional        \* _provisional_user_transcript

runtime_vars == <<adapter, built, provider_id, started, closed, closing, phase, step,
                  op, ready_generation, ready, provisional>>
vars == <<registry_vars, runtime_vars>>
-------------------------------------------------------------------------------
ProviderGenerations == 1..MaxProviderGeneration

\* "abandoned": its construction was given up but has not ended.  "orphaned":
\* a rollback dropped it, set up, without closing it.
AdapterStatus == {"none", "open", "closed", "abandoned", "orphaned"}

Phase == {"free", "frame", "initial", "switch", "recovery", "rollback", "close"}
Step == {"idle", "requested", "interrupting", "announcing", "closing_previous",
         "building", "setup", "activated", "starting", "closing_failed", "failed",
         "closing_adapter", "draining"}

Locals == [target : ProviderIds \cup {None}, previous : ProviderIds \cup {None},
           force : BOOLEAN, seen : SessionState \cup {"absent"},
           disposing : 0..MaxProviderGeneration]
NoLocals == [target |-> None, previous |-> None, force |-> FALSE, seen |-> "absent",
             disposing |-> 0]

SessionGeneration == 1
State == sessions[sid].state
Pg == sessions[sid].provider_generation
Ended == State \in TERMINAL_SESSION_STATES

\* The session as the runtime finds it: it has the lease and is CONNECTING.
RuntimeInit ==
  /\ lease_policy \in AudioLeasePolicy
  /\ provider_id \in ProviderIds
  /\ sessions = [id \in SessionIds |->
                   IF id = sid
                   THEN [state |-> "connecting", generation |-> SessionGeneration,
                         provider_generation |-> 1, active_provider |-> provider_id,
                         desired_provider |-> provider_id]
                   ELSE NoSession]
  /\ next_generation = SessionGeneration
  /\ audio_owners = [sc \in Scopes |-> IF sc = lease_scope(sid)
                                       THEN HandleOf(sid) ELSE NoHandle]
  /\ adapter = 0
  /\ built = [g \in ProviderGenerations |-> "none"]
  /\ started = FALSE /\ closed = FALSE /\ closing = "no"
  /\ phase = "free" /\ step = "idle" /\ op = NoLocals
  /\ ready_generation = 0 /\ ready = "none"
  /\ provisional = FALSE

\* The lock is fair: no one takes it ahead of a close that waits for it, and
\* those who asked before the close find _closed set and change nothing.
LockFree == phase = "free" /\ closing # "waiting"

At(ph, st) == phase = ph /\ step = st
Goto(ph, st) == phase' = ph /\ step' = st
Unlock == Goto("free", "idle") /\ op' = NoLocals

Disposed(g) == [built EXCEPT ![g] = "closed"]

\* Mutant: the failed session keeps its lease.
FailSessionKeepingLease ==
  /\ sessions' = IF Ended THEN sessions ELSE [sessions EXCEPT ![sid].state = "failed"]
  /\ UNCHANGED <<lease_policy, next_generation, audio_owners>>

\* _fail_session: a session that has ended already stays as it is.
FailSession ==
  IF Ended THEN UNCHANGED registry_vars
           ELSE Transition(sid, "failed", SessionGeneration, Pg)
-------------------------------------------------------------------------------
(* Building and starting an adapter, for any of the three who do it.        *)

ReadyWith(g, r) == ready_generation' = g /\ ready' = r

\* Mutant: the wait for readiness is not taken back when it ends.
ReadyKept == ReadyWith(ready_generation, ready)

ReadyCleared == ReadyWith(0, "none")

\* Mutant: recovery goes straight on without disposing of what failed.
SwitchFailedWithoutDisposal == Goto("rollback", "failed")

\* The failed switch first disposes of the adapter that failed it.
SwitchFailed == Goto("recovery", "closing_failed")

\* The adapter in place is disposed of, and then the session fails; without one
\* it fails at once, and what was built and not yet put in place is dropped.
FailsWith(b) ==
  \/ /\ adapter # 0
     /\ Goto(phase, "closing_failed")
     /\ op' = [op EXCEPT !.disposing = adapter]
     /\ built' = b
     /\ UNCHANGED registry_vars
  \/ /\ adapter = 0
     /\ FailSession
     /\ Unlock
     /\ built' = [b EXCEPT ![Pg] = IF @ = "open" THEN "orphaned" ELSE @]

InitialFailed(b) == phase = "initial" /\ FailsWith(b)

RollbackFailed(b) == phase = "rollback" /\ FailsWith(b)

\* The except branch around a failed await; b is what has been built by then.
Failed(b) ==
  \/ /\ phase = "switch"
     /\ SwitchFailed
     /\ built' = b
     /\ UNCHANGED <<registry_vars, op>>
  \/ InitialFailed(b) \/ RollbackFailed(b)

\* The initial start was overtaken by the close while it built.
DiscardsInitial == phase = "initial" /\ closed

BuildSucceeds ==
  /\ step = "building"
  /\ \/ /\ DiscardsInitial
        /\ built' = Disposed(Pg)
        /\ UNCHANGED registry_vars \/ FailSession
        /\ Unlock
        /\ UNCHANGED adapter
     \/ /\ ~DiscardsInitial
        /\ built' = [built EXCEPT ![Pg] = "open"]
        /\ op' = [op EXCEPT !.disposing = Pg]
        /\ adapter' = IF phase = "initial" THEN Pg ELSE adapter
        /\ Goto(phase, "setup")
        /\ UNCHANGED registry_vars
  /\ UNCHANGED <<provider_id, started, closed, closing, ready_generation, ready, provisional>>

\* The factory raises (or the credentials are missing); or it is given up at
\* the deadline and goes on by itself.
BuildFails ==
  /\ step = "building"
  /\ \E status \in {"none", "abandoned"} : Failed([built EXCEPT ![Pg] = status])
  /\ UNCHANGED <<adapter, provider_id, started, closed, closing, ready_generation,
                 ready, provisional>>

\* A construction that was given up ends; what it made is closed.
AbandonedBuildEnds(g) ==
  /\ built[g] = "abandoned"
  /\ built' = Disposed(g)
  /\ UNCHANGED <<registry_vars, adapter, provider_id, started, closed, closing, phase,
                 step, op, ready_generation, ready, provisional>>

Provider == IF phase = "switch" THEN op.target ELSE op.previous

SetupSucceeds ==
  /\ step = "setup"
  /\ \/ /\ phase = "initial"
        /\ IF closed THEN Unlock /\ UNCHANGED <<ready_generation, ready>>
                     ELSE Goto(phase, "starting") /\ ReadyWith(Pg, "waiting") /\ UNCHANGED op
        /\ UNCHANGED <<registry_vars, adapter, built, provider_id>>
     \/ /\ phase # "initial"
        /\ ActivateProvider(sid, Provider, SessionGeneration, Pg)
        /\ adapter' = Pg
        /\ provider_id' = Provider
        /\ Goto(phase, "activated")
        /\ UNCHANGED <<built, op, ready_generation, ready>>
     \/ /\ phase # "initial"
        /\ ~CanActivateProvider(sid, Provider, SessionGeneration, Pg)
        /\ Failed(built)
        /\ UNCHANGED <<adapter, provider_id, ready_generation, ready>>
  /\ UNCHANGED <<started, closed, closing, provisional>>

SetupFails ==
  /\ step = "setup"
  /\ Failed(built)
  /\ UNCHANGED <<adapter, provider_id, started, closed, closing, ready_generation,
                 ready, provisional>>

\* The new state has been published; the adapter is started.
Activated ==
  /\ step = "activated"
  /\ ReadyWith(Pg, "waiting")
  /\ Goto(phase, "starting")
  /\ UNCHANGED <<registry_vars, adapter, built, provider_id, started, closed, closing,
                 op, provisional>>

\* Mutant: an adapter counts as started before it has reported LISTENING.
StartedEarly == ready # "error"

\* Started, and LISTENING reported in time without an error.
StartedInTime == ready = "listening"

StartSucceeds ==
  /\ step = "starting"
  /\ StartedInTime
  /\ ReadyCleared
  /\ Unlock
  /\ UNCHANGED <<registry_vars, adapter, built, provider_id, started, closed, closing,
                 provisional>>

\* Mutant: without a deadline only a reported error ends the wait.
StartFailsOnError == ready = "error"

\* start() raises, the provider reports an error, or the deadline passes: that
\* may be at any time, even just after LISTENING was reported.
StartMayFail == TRUE

StartFails ==
  /\ step = "starting"
  /\ StartMayFail
  /\ ReadyCleared
  /\ Failed(built)
  /\ UNCHANGED <<adapter, provider_id, started, closed, closing, provisional>>
-------------------------------------------------------------------------------
(* The initial start, a frame, and the request to switch.                   *)

ReceiveStart ==
  /\ LockFree /\ ~started
  /\ started' = TRUE
  /\ IF closed THEN UNCHANGED <<phase, step>> ELSE Goto("initial", "building")
  /\ UNCHANGED <<registry_vars, adapter, built, provider_id, closed, closing, op,
                 ready_generation, ready, provisional>>

\* A frame or a client's control message goes through the active adapter.
RouteFrame ==
  /\ LockFree /\ adapter # 0
  /\ Goto("frame", "idle")
  /\ UNCHANGED <<registry_vars, adapter, built, provider_id, started, closed, closing,
                 op, ready_generation, ready, provisional>>

FrameRouted ==
  /\ phase = "frame"
  /\ Unlock
  /\ UNCHANGED <<registry_vars, adapter, built, provider_id, started, closed, closing,
                 ready_generation, ready, provisional>>

\* A client's control message that is a well-formed provider.switch: the session
\* is read, and then the request announced; what was read is used after the
\* announcement.
RequestSwitch(p, force) ==
  /\ LockFree
  /\ Goto("switch", "requested")
  /\ op' = [NoLocals EXCEPT !.target = p, !.force = force, !.seen = State]
  /\ UNCHANGED <<registry_vars, adapter, built, provider_id, started, closed, closing,
                 ready_generation, ready, provisional>>

\* Refused or unchanged: the provider is unknown, cannot be switched to, has no
\* credentials or is active already; the client's generation is stale; speech
\* is not to be interrupted, or interrupting it failed.
RefuseSwitch ==
  /\ phase = "switch" /\ step \in {"requested", "interrupting"}
  /\ Unlock
  /\ UNCHANGED <<registry_vars, adapter, built, provider_id, started, closed, closing,
                 ready_generation, ready, provisional>>

Eligible ==
  /\ op.target # sessions[sid].active_provider
  /\ started /\ adapter # 0 /\ ~closed

Interrupt ==
  /\ At("switch", "requested") /\ Eligible
  /\ op.seen = "speaking" /\ op.force
  /\ Goto("switch", "interrupting")
  /\ UNCHANGED <<registry_vars, adapter, built, provider_id, started, closed, closing,
                 op, ready_generation, ready, provisional>>

\* Every switch leaves room for the generation its rollback may need.
RoomToSwitch == Pg + 2 <= MaxProviderGeneration

\* Begins the switch; a state seen that is not LISTENING is a refusal, one that
\* is no longer LISTENING makes the registry raise.
Begin(seen) ==
  /\ provisional => op.force
  /\ provisional' = FALSE
  /\ IF seen = "listening" /\ State = "listening"
     THEN /\ RoomToSwitch
          /\ BeginProviderSwitch(sid, op.target, SessionGeneration, Pg)
          /\ op' = [op EXCEPT !.previous = sessions[sid].active_provider,
                              !.disposing = adapter]
          /\ Goto("switch", "announcing")
     ELSE Unlock /\ UNCHANGED registry_vars
  /\ UNCHANGED <<adapter, built, provider_id, started, closed, closing,
                 ready_generation, ready>>

BeginAtOnce ==
  /\ At("switch", "requested") /\ Eligible
  /\ op.seen # "speaking"
  /\ Begin(op.seen)

BeginAfterInterruption ==
  /\ At("switch", "interrupting")
  /\ Begin(State)

\* Announced; the previous adapter is taken out and its close begins.
Announced ==
  /\ At("switch", "announcing")
  /\ adapter' = 0
  /\ Goto("switch", "closing_previous")
  /\ UNCHANGED <<registry_vars, built, provider_id, started, closed, closing, op,
                 ready_generation, ready, provisional>>

PreviousCloses ==
  /\ At("switch", "closing_previous")
  /\ \/ /\ built' = Disposed(op.disposing)
        /\ Goto("switch", "building")
        /\ UNCHANGED <<registry_vars, op>>
     \/ Failed(Disposed(op.disposing))
  /\ UNCHANGED <<adapter, provider_id, started, closed, closing, ready_generation,
                 ready, provisional>>
-------------------------------------------------------------------------------
(* Recovery from a failed switch, and the end of a failed start.            *)

\* An adapter is closed once: closing it again returns at once.
FailedAdapterCloses ==
  /\ step = "closing_failed"
  /\ built' = Disposed(op.disposing)
  /\ adapter' = 0
  /\ IF phase = "recovery"
     THEN Goto("rollback", "failed") /\ UNCHANGED <<registry_vars, op>>
     ELSE FailSession /\ Unlock
  /\ UNCHANGED <<provider_id, started, closed, closing, ready_generation, ready, provisional>>

\* Recovery then gives up and fails the session.  The other two let the error
\* out: the adapter stays in place and the session as it is.
FailedAdapterCloseRaises ==
  /\ step = "closing_failed" /\ phase \in CloseMayRaise
  /\ built[op.disposing] = "open"
  /\ built' = Disposed(op.disposing)
  /\ IF phase = "recovery"
     THEN adapter' = 0 /\ FailSession
     ELSE UNCHANGED <<registry_vars, adapter>>
  /\ Unlock
  /\ UNCHANGED <<provider_id, started, closed, closing, ready_generation, ready, provisional>>

\* Mutant: the rollback builds under the generation of the switch that failed.
RestartUnderSameGeneration ==
  /\ CanRestartProviderSwitch(sid, SessionGeneration, Pg)
  /\ sessions' = [sessions EXCEPT ![sid].state = "switching",
                                  ![sid].desired_provider = op.previous]
  /\ UNCHANGED <<lease_policy, next_generation, audio_owners>>

Restart == RestartProviderSwitch(sid, op.previous, SessionGeneration, Pg)

\* The failure has been announced.  A session that has ended makes the registry
\* raise; a runtime that is closing fails the session instead.
RollbackBegins ==
  /\ At("rollback", "failed")
  /\ \/ closed /\ FailSession /\ Unlock
     \/ ~closed /\ Restart /\ Goto("rollback", "building") /\ UNCHANGED op
     \/ /\ ~closed /\ ~CanRestartProviderSwitch(sid, SessionGeneration, Pg)
        /\ Unlock
        /\ UNCHANGED registry_vars
  /\ UNCHANGED <<adapter, built, provider_id, started, closed, closing, ready_generation,
                 ready, provisional>>
-------------------------------------------------------------------------------
(* _close_active_adapter, for an EndFrame, a CancelFrame or cleanup().      *)

BeginClose ==
  /\ closing = "no"
  /\ closed' = TRUE
  /\ closing' = "waiting"
  /\ UNCHANGED <<registry_vars, adapter, built, provider_id, started, phase, step, op,
                 ready_generation, ready, provisional>>

CloseTakesLock ==
  /\ closing = "waiting" /\ phase = "free"
  /\ closing' = "closing"
  /\ op' = [op EXCEPT !.disposing = adapter]
  /\ adapter' = 0
  /\ Goto("close", IF adapter = 0 THEN "draining" ELSE "closing_adapter")
  /\ UNCHANGED <<registry_vars, built, provider_id, started, closed, ready_generation,
                 ready, provisional>>

\* A close that raises skips the pending constructions.
AdapterCloses ==
  /\ At("close", "closing_adapter")
  /\ built' = Disposed(op.disposing)
  /\ \/ Goto("close", "draining") /\ UNCHANGED <<op, closing>>
     \/ Unlock /\ closing' = "failed"
  /\ UNCHANGED <<registry_vars, adapter, provider_id, started, closed, ready_generation,
                 ready, provisional>>

\* Mutant: the close does not wait for constructions that were given up.
DrainedAtOnce == TRUE

Drained == \A g \in ProviderGenerations : built[g] # "abandoned"

CloseEnds ==
  /\ At("close", "draining") /\ Drained
  /\ Unlock
  /\ closing' = "done"
  /\ UNCHANGED <<registry_vars, adapter, built, provider_id, started, closed,
                 ready_generation, ready, provisional>>
-------------------------------------------------------------------------------
(* Events from the adapters, late ones included, and the end of the session. *)

EmittedStates == {"listening", "thinking", "speaking", "interrupting"}

\* Adapters call back as long as they like; only the current one is heard.
Heard(g) ==
  /\ built[g] \in {"open", "closed", "orphaned"}
  /\ Pg = g
  /\ State \notin TERMINAL_SESSION_STATES \cup {"closing"}

StateEvent(g, st) ==
  /\ Heard(g)
  /\ Transition(sid, st, SessionGeneration, g)
  /\ ready' = IF ready_generation = g /\ ready = "waiting" /\ st = "listening"
              THEN "listening" ELSE ready
  /\ UNCHANGED <<adapter, built, provider_id, started, closed, closing, phase, step, op,
                 ready_generation, provisional>>

\* An error during the start fails the start, any other one the session.
ErrorEvent(g) ==
  /\ Heard(g)
  /\ IF ready_generation = g
     THEN ready' = "error" /\ UNCHANGED registry_vars
     ELSE Transition(sid, "failed", SessionGeneration, g) /\ UNCHANGED ready
  /\ UNCHANGED <<adapter, built, provider_id, started, closed, closing, phase, step, op,
                 ready_generation, provisional>>

\* A user's words arrive provisionally, and then for good.
TranscriptEvent(g, delta) ==
  /\ Heard(g)
  /\ provisional' = delta
  /\ UNCHANGED <<registry_vars, adapter, built, provider_id, started, closed, closing,
                 phase, step, op, ready_generation, ready>>

\* The owner of the connection closes the session (module SessionLifecycle).
CloseSession ==
  /\ ~Ended
  /\ sessions' = [sessions EXCEPT ![sid].state = "closed"]
  /\ audio_owners' = LeasesWithout(sid)
  /\ UNCHANGED <<lease_policy, next_generation, runtime_vars>>
-------------------------------------------------------------------------------
\* What the holder of the lock does next: every await of it returns.
HolderProgress ==
  \/ BuildSucceeds \/ BuildFails \/ SetupSucceeds \/ SetupFails \/ Activated
  \/ StartSucceeds \/ StartFails \/ FrameRouted \/ RefuseSwitch \/ Interrupt
  \/ BeginAtOnce \/ BeginAfterInterruption \/ Announced \/ PreviousCloses
  \/ FailedAdapterCloses \/ FailedAdapterCloseRaises \/ RollbackBegins
  \/ AdapterCloses \/ CloseEnds

AdapterEvent(g) ==
  \/ \E st \in EmittedStates : StateEvent(g, st)
  \/ ErrorEvent(g)
  \/ \E delta \in BOOLEAN : TranscriptEvent(g, delta)

Next ==
  \/ HolderProgress
  \/ ReceiveStart \/ RouteFrame
  \/ \E p \in ProviderIds, force \in BOOLEAN : RequestSwitch(p, force)
  \/ BeginClose \/ CloseTakesLock \/ CloseSession
  \/ \E g \in ProviderGenerations : AbandonedBuildEnds(g) \/ AdapterEvent(g)

Fairness ==
  /\ WF_vars(HolderProgress)
  /\ WF_vars(CloseTakesLock)
  /\ \A g \in ProviderGenerations : WF_vars(AbandonedBuildEnds(g))

Spec == RuntimeInit /\ [][Next]_vars /\ Fairness
-------------------------------------------------------------------------------
\* Type correctness, and readiness is awaited exactly during a start.
RuntimeTypeOK ==
  /\ RegistryTypeOK
  /\ adapter \in 0..MaxProviderGeneration
  /\ built \in [ProviderGenerations -> AdapterStatus]
  /\ provider_id \in ProviderIds
  /\ started \in BOOLEAN /\ closed \in BOOLEAN /\ provisional \in BOOLEAN
  /\ closing \in {"no", "waiting", "closing", "done", "failed"}
  /\ phase \in Phase /\ step \in Step
  /\ op \in Locals
  /\ ready_generation \in 0..MaxProviderGeneration
  /\ ready \in {"none", "waiting", "listening", "error"}
  /\ (ready_generation # 0) <=> (step = "starting")

\* At most one adapter is open, so two providers never hear the same user or
\* speak at the same time, whichever step of a switch or rollback fails; and
\* none is open or still being built once the close has ended.  Only what a
\* failed rollback dropped is left then, and the session has ended too.
OneOpenAdapter ==
  /\ Cardinality({g \in ProviderGenerations : built[g] = "open"}) <= 1
  /\ closing = "done" => /\ adapter = 0
                         /\ \A g \in ProviderGenerations : built[g] \notin {"open", "abandoned"}
  /\ (\E g \in ProviderGenerations : built[g] = "orphaned") => Ended

\* Whenever nobody holds the lock, a live session is settled: it is not stuck
\* in CONNECTING or SWITCHING, and the adapter in place is open, is the one of
\* the registry's provider generation and the one of its active provider.
IdleIsSettled ==
  LockFree /\ started /\ ~closed /\ ~Ended =>
    /\ State \notin {"connecting", "switching"}
    /\ adapter = Pg /\ built[adapter] = "open"
    /\ sessions[sid].active_provider = provider_id
    /\ sessions[sid].desired_provider = provider_id

\* The session keeps its audio lease through every switch and rollback, and
\* gives it up exactly when it ends.
LeaseFollowsSession ==
  audio_owners[lease_scope(sid)] = (IF Ended THEN NoHandle ELSE HandleOf(sid))

\* A provider generation stands for one adapter only.  One that was closed or
\* given up never comes back under its generation, neither late from its own
\* construction nor as the rollback's adapter, whose callbacks its own late
\* ones could then be taken for.
AdaptersAreDisposable ==
  [][\A g \in ProviderGenerations :
       built[g] \in {"closed", "abandoned", "orphaned"} =>
         /\ built'[g] \notin {"none", "open"}
         /\ adapter' = g => adapter = g]_vars

\* If every await on an adapter returns, a switch ends by itself and a close
\* is not starved by it.
SwitchEnds ==
  /\ phase \in {"switch", "recovery", "rollback"} ~> phase = "free"
  /\ closing = "waiting" ~> closing \in {"done", "failed"}

\* A switch that has failed, and whose rollback fails, leaves the session
\* FAILED with its lease given back.
FailedRollbackFailsSession ==
  [][phase = "rollback" /\ phase' = "free" /\ ~StartedInTime =>
       sessions'[sid].state \in TERMINAL_SESSION_STATES]_vars
===============================================================================
