--------------------------- MODULE SessionLifecycle ---------------------------
(***************************************************************************)
(* The life of voice connections in one kassette process: the owner task   *)
(* of each connection (run_switchable_session of bot.py for a browser,     *)
(* run_terminal_voice_session of terminal_runtime.py for a terminal), the  *)
(* run task it starts, the closer that ends it, and the                    *)
(* LiveSessionCoordinator that replaces one connection by the next, over   *)
(* the registry of module SessionRegistry.                                 *)
(*                                                                         *)
(* One action stands for the code between two suspension points of one     *)
(* task.  The coordinator's and the registry's own locks are never held    *)
(* across a suspension, so they do not appear; the replacement lock is.    *)
(***************************************************************************)
EXTENDS SessionRegistry, Sequences

CONSTANTS Webrtc,      \* browser connections
          Terminal,    \* terminal connections; each one's session id is fresh
          BrowserIds,  \* session ids a browser may ask for
          ShutsDown    \* whether the server is shut down during the behaviour

Conns == Webrtc \cup Terminal

ASSUME LifecycleAssumption ==
  /\ Webrtc \cap Terminal = {}
  /\ SessionIds = BrowserIds \cup Terminal
  /\ BrowserIds \cap Terminal = {}
  /\ None \notin Conns
  /\ ShutsDown \in BOOLEAN

VARIABLES pc,           \* where the owner task of a connection is
          handle,       \* its SessionHandle, once created
          previous,     \* the entry its replace() is closing
          run_task,     \* the task started by run_active, and its pipeline
          closer,       \* the close of the connection: _SessionCloser's task
          active,       \* coordinator scope -> _ActiveSession or NoEntry
          lock_queue,   \* replacement lock: the owner first, then the waiters
          shutdown,     \* close_all(): "up", "closing" or "down"
          captured      \* the entries close_all() is closing

lifecycle_vars == <<pc, handle, previous, run_task, closer, active, lock_queue,
                    shutdown, captured>>
vars == <<registry_vars, lifecycle_vars>>
-------------------------------------------------------------------------------
OwnerStep == {"idle", "building", "replacing", "stopping_previous",
              "cancelled_stopping", "closing_previous", "run_active", "running",
              "finalizing", "done", "gone"}

\* "left_behind": the task has ended, and has not waited for its pipeline.
RunStep == {"none", "starting", "up", "stopping", "left_behind", "done"}
EndedRun == {"left_behind", "done"}
CloserStep == {"none", "cancel_worker", "done"}

\* An _ActiveSession: whose it is, and whether its close callable is the plain
\* one or the one that first stops the run task (close_started_session).
Entry == [conn : Conns, started : BOOLEAN]
NoEntry == [conn |-> None, started |-> FALSE]

\* The coordinator is scoped like the leases: both policies follow runtime_mode.
scope(c) == IF lease_policy = "process" THEN PROCESS_LEASE ELSE handle[c].id

Id(c) == handle[c].id
Generation(c) == handle[c].generation
IsCurrent(c) == Present(Id(c)) /\ HandleOf(Id(c)) = handle[c]

HoldsLock(c) == lock_queue[scope(c)] # <<>> /\ Head(lock_queue[scope(c)]) = c
IsActive(c) == active[scope(c)].conn = c

Running(c) == run_task[c] \in {"up", "stopping"}
LeftBehind(c) == run_task[c] = "left_behind"
PipelineRuns(c) == Running(c) \/ LeftBehind(c)

LifecycleInit ==
  /\ RegistryInit
  /\ pc = [c \in Conns |-> "idle"]
  /\ handle = [c \in Conns |-> NoHandle]
  /\ previous = [c \in Conns |-> NoEntry]
  /\ run_task = [c \in Conns |-> "none"]
  /\ closer = [c \in Conns |-> "none"]
  /\ active = [sc \in Scopes |-> NoEntry]
  /\ lock_queue = [sc \in Scopes |-> <<>>]
  /\ shutdown = "up"
  /\ captured = {}

Goto(c, step) == pc' = [pc EXCEPT ![c] = step]

\* Calling a closer: the first call starts it, later calls join it.
StartClosers(cs) ==
  closer' = [c \in Conns |-> IF c \in cs /\ closer[c] = "none"
                             THEN "cancel_worker" ELSE closer[c]]

\* Task.cancel() on the run tasks of these connections.
CancelRuns(cs) ==
  run_task' = [c \in Conns |-> IF c \in cs /\ run_task[c] \in {"starting", "up"}
                               THEN "stopping" ELSE run_task[c]]

\* Mutant: cleanup closes whatever session has the id, without the fence.
SessionsAfterUnfencedClose(c) ==
  IF Present(Id(c)) THEN [sessions EXCEPT ![Id(c)].state = "closed"] ELSE sessions

\* What close_state() leaves: only the record of its own generation is closed,
\* and only its own lease is released.
SessionsAfterCloseState(c) ==
  IF IsCurrent(c) /\ sessions[Id(c)].state \notin TERMINAL_SESSION_STATES
  THEN [sessions EXCEPT ![Id(c)].state = "closed"]
  ELSE sessions

CloseSessionState(c) ==
  /\ sessions' = SessionsAfterCloseState(c)
  /\ audio_owners' = LeasesAfterRelease(Id(c), Generation(c))
  /\ UNCHANGED <<lease_policy, next_generation>>

\* TerminalAudioLease.close(): close, release and reap its own incarnation.
CloseTerminalLease(c) ==
  IF IsCurrent(c)
  THEN /\ sessions' = [sessions EXCEPT ![Id(c)] = NoSession]
       /\ audio_owners' = LeasesAfterRelease(Id(c), Generation(c))
       /\ UNCHANGED <<lease_policy, next_generation>>
  ELSE UNCHANGED registry_vars

CloseState(c) == IF c \in Webrtc THEN CloseSessionState(c) ELSE CloseTerminalLease(c)

\* Mutant: the session state is closed only if cancelling the worker worked.
ClosesStateOnlyAfterWorker(worker_cancelled) == worker_cancelled

\* Both closers go on to close the state when cancelling the worker raised.
ClosesState(worker_cancelled) == TRUE
-------------------------------------------------------------------------------
(* Arrival: the session is registered before anything is built around it.   *)

RequestableIds(c) == IF c \in Webrtc THEN BrowserIds ELSE {c}

ReplacesExisting(c) == c \in Webrtc /\ lease_policy = "session"

Connect(c) ==
  /\ pc[c] = "idle"
  /\ \E id \in RequestableIds(c), p \in ProviderIds :
       /\ Create(id, p, ReplacesExisting(c))
       /\ handle' = [handle EXCEPT ![c] = [id |-> id, generation |-> next_generation']]
  /\ Goto(c, "building")
  /\ UNCHANGED <<previous, run_task, closer, active, lock_queue, shutdown, captured>>

\* Building the pipeline raises, or the owner is cancelled while it builds:
\* no cleanup covers this part, so the record stays in the registry.
AbortBuild(c) ==
  /\ pc[c] = "building"
  /\ Goto(c, "gone")
  /\ UNCHANGED <<registry_vars, handle, previous, run_task, closer, active,
                 lock_queue, shutdown, captured>>

\* The pipeline is built; replace() asks for the replacement lock.
EnterReplace(c) ==
  /\ pc[c] = "building"
  /\ Goto(c, "replacing")
  /\ lock_queue' = [lock_queue EXCEPT ![scope(c)] = Append(@, c)]
  /\ UNCHANGED <<registry_vars, handle, previous, run_task, closer, active,
                 shutdown, captured>>
-------------------------------------------------------------------------------
(* LiveSessionCoordinator.replace, under the replacement lock.              *)

\* Mutant: the lock is still held when run_active asks for it.
QueueKeepingLock(c) == Append(lock_queue[scope(c)], c)

\* The lock is released, and asked for again behind everyone who waits for it.
QueueAfterInstall(c) == Append(Tail(lock_queue[scope(c)]), c)

\* The new entry is installed, and run_active begins.
Install(c) ==
  /\ active' = [active EXCEPT ![scope(c)] = [conn |-> c, started |-> FALSE]]
  /\ lock_queue' = [lock_queue EXCEPT ![scope(c)] = QueueAfterInstall(c)]
  /\ previous' = [previous EXCEPT ![c] = NoEntry]
  /\ Goto(c, "run_active")

ReplaceNothing(c) ==
  /\ pc[c] = "replacing" /\ HoldsLock(c)
  /\ active[scope(c)] = NoEntry
  /\ Install(c)
  /\ UNCHANGED <<registry_vars, handle, run_task, closer, shutdown, captured>>

\* The previous entry's close begins: a started one has its run task cancelled
\* and awaited first, another goes straight to its closer.
ReplacePrevious(c) ==
  LET entry == active[scope(c)]
  IN  /\ pc[c] = "replacing" /\ HoldsLock(c)
      /\ entry # NoEntry
      /\ previous' = [previous EXCEPT ![c] = entry]
      /\ IF entry.started
         THEN CancelRuns({entry.conn}) /\ UNCHANGED closer /\ Goto(c, "stopping_previous")
         ELSE StartClosers({entry.conn}) /\ UNCHANGED run_task /\ Goto(c, "closing_previous")
      /\ UNCHANGED <<registry_vars, handle, active, lock_queue, shutdown, captured>>

\* Mutant: replacement does not wait for the run task it cancelled.
RunTaskCancelled(c) == run_task[c] \in EndedRun \cup {"stopping"}

RunTaskEnded(c) == run_task[c] \in EndedRun

PreviousStopped(c) ==
  /\ pc[c] \in {"stopping_previous", "cancelled_stopping"}
  /\ RunTaskEnded(previous[c].conn)
  /\ StartClosers({previous[c].conn})
  /\ Goto(c, "closing_previous")
  /\ UNCHANGED <<registry_vars, handle, previous, run_task, active, lock_queue,
                 shutdown, captured>>

\* The close has ended, with or without an error.
PreviousClosed(c) ==
  /\ pc[c] = "closing_previous"
  /\ closer[previous[c].conn] = "done"
  /\ Install(c)
  /\ UNCHANGED <<registry_vars, handle, run_task, closer, shutdown, captured>>
-------------------------------------------------------------------------------
(* LiveSessionCoordinator.run_active and the run task.                      *)

\* Mutant: a superseded connection starts all the same.
MayStartSuperseded(c) == active[scope(c)] # NoEntry

MayStart(c) == IsActive(c)

\* _await_finalizer runs a browser's finalizer in a task of its own and, however
\* often the owner is cancelled, waits for its end.  The finalizer first calls
\* the closer; a terminal's cleanup has nothing to wait for.
BeginFinalizer(c) ==
  /\ Goto(c, "finalizing")
  /\ StartClosers({c} \cap Webrtc)

RunActive(c) ==
  /\ pc[c] = "run_active" /\ HoldsLock(c)
  /\ lock_queue' = [lock_queue EXCEPT ![scope(c)] = Tail(@)]
  /\ IF MayStart(c)
     THEN /\ run_task' = [run_task EXCEPT ![c] = "starting"]
          /\ active' = [active EXCEPT ![scope(c)] = [conn |-> c, started |-> TRUE]]
          /\ Goto(c, "running")
          /\ UNCHANGED closer
     ELSE BeginFinalizer(c) /\ UNCHANGED <<run_task, active>>
  /\ UNCHANGED <<registry_vars, handle, previous, shutdown, captured>>

\* start_and_run, or the terminal's run: lease, CONNECTING, then the pipeline.
StartRun(c) ==
  /\ run_task[c] = "starting"
  /\ CanAcquireAudio(Id(c), Generation(c))
  /\ audio_owners' = [audio_owners EXCEPT ![lease_scope(Id(c))] = handle[c]]
  /\ sessions' = [sessions EXCEPT ![Id(c)].state = "connecting"]
  /\ run_task' = [run_task EXCEPT ![c] = "up"]
  /\ UNCHANGED <<lease_policy, next_generation, pc, handle, previous, closer, active,
                 lock_queue, shutdown, captured>>

\* The lease is refused: superseded or closed meanwhile, or the device is busy.
RefuseRun(c) ==
  /\ run_task[c] = "starting"
  /\ ~CanAcquireAudio(Id(c), Generation(c))
  /\ run_task' = [run_task EXCEPT ![c] = "done"]
  /\ UNCHANGED <<registry_vars, pc, handle, previous, closer, active, lock_queue,
                 shutdown, captured>>

\* The provider runtime fails the session, fenced by its own generation.  Its
\* other moves, among the live states, make no difference to any step here and
\* are module ProviderRuntime's subject.
Fail(c) ==
  /\ PipelineRuns(c)
  /\ sessions[Id(c)].state # "failed"
  /\ Transition(Id(c), "failed", Generation(c), Unfenced)
  /\ UNCHANGED lifecycle_vars

\* The pipeline ends by itself (its audio fails), or because it was stopped, and
\* the task with it; a run task cancelled before its first step ends without
\* having run.
RunEnds(c) ==
  /\ Running(c)
  /\ run_task' = [run_task EXCEPT ![c] = "done"]
  /\ UNCHANGED <<registry_vars, pc, handle, previous, closer, active, lock_queue,
                 shutdown, captured>>

\* A terminal's pipeline is a task of its own, which run() awaits last.  It is not
\* awaited when cancelling the worker raises, when the pump's task has raised, or
\* when a second cancellation arrives while the worker is being cancelled.
RunCutShort(c) ==
  /\ c \in Terminal /\ Running(c)
  /\ run_task' = [run_task EXCEPT ![c] = "left_behind"]
  /\ UNCHANGED <<registry_vars, pc, handle, previous, closer, active, lock_queue,
                 shutdown, captured>>

\* Nobody waits for such a pipeline; it may end, if its worker was cancelled.
PipelineEnds(c) ==
  /\ LeftBehind(c)
  /\ run_task' = [run_task EXCEPT ![c] = "done"]
  /\ UNCHANGED <<registry_vars, pc, handle, previous, closer, active, lock_queue,
                 shutdown, captured>>

MustStop(c) == run_task[c] = "stopping" \/ closer[c] # "none"

\* run_active returns or raises in the owner.
OwnerResumes(c) ==
  /\ pc[c] = "running" /\ RunTaskEnded(c)
  /\ BeginFinalizer(c)
  /\ UNCHANGED <<registry_vars, handle, previous, run_task, active, lock_queue,
                 shutdown, captured>>
-------------------------------------------------------------------------------
(* The closer, the client's disconnect and the owner's cancellation.        *)

CloserEnds(c, worker_cancelled) ==
  /\ closer[c] = "cancel_worker"
  /\ closer' = [closer EXCEPT ![c] = "done"]
  /\ IF ClosesState(worker_cancelled) THEN CloseState(c) ELSE UNCHANGED registry_vars
  /\ UNCHANGED <<pc, handle, previous, run_task, active, lock_queue, shutdown, captured>>

Connected(c) == pc[c] \notin {"idle", "building", "done", "gone"}

\* on_client_disconnected of a browser calls the closer.
Disconnect(c) ==
  /\ c \in Webrtc
  /\ Connected(c) /\ closer[c] = "none"
  /\ StartClosers({c})
  /\ UNCHANGED <<registry_vars, pc, handle, previous, run_task, active, lock_queue,
                 shutdown, captured>>

\* Mutant: a connection that gives up keeps its place in the lock's queue.
StayQueued(c) == UNCHANGED lock_queue

LeaveQueue(c) ==
  \E i \in DOMAIN lock_queue[scope(c)] :
    /\ lock_queue[scope(c)][i] = c
    /\ lock_queue' = [lock_queue EXCEPT ![scope(c)] =
                        SubSeq(@, 1, i - 1) \o SubSeq(@, i + 1, Len(@))]

\* The owner stops waiting.  A terminal's replace() is outside its try, so a
\* terminal that stops there cleans nothing up.
GiveUp(c) ==
  /\ LeaveQueue(c)
  /\ previous' = [previous EXCEPT ![c] = NoEntry]
  /\ IF c \in Terminal /\ pc[c] # "run_active"
     THEN Goto(c, "gone") /\ UNCHANGED closer
     ELSE BeginFinalizer(c)

CancelWaiting(c) ==
  /\ pc[c] \in {"replacing", "run_active"}
  /\ GiveUp(c)
  /\ UNCHANGED <<registry_vars, handle, run_task, active, shutdown, captured>>

\* The cancellation lands in the close of the previous connection.  A browser's
\* closer is a task of its own and goes on; a terminal's close runs in this
\* task, and its finally closes the lease before the cancellation goes on.
CancelClosing(c) ==
  LET p == previous[c].conn
  IN  /\ pc[c] = "closing_previous"
      /\ GiveUp(c)
      /\ IF p \in Terminal THEN CloseTerminalLease(p) ELSE UNCHANGED registry_vars
      /\ UNCHANGED <<handle, run_task, active, shutdown, captured>>

\* While it awaits the previous run task, the owner only notices when that ends.
CancelStopping(c) ==
  /\ pc[c] = "stopping_previous"
  /\ Goto(c, "cancelled_stopping")
  /\ UNCHANGED <<registry_vars, handle, previous, run_task, closer, active, lock_queue,
                 shutdown, captured>>

CancelledStopping(c) ==
  /\ pc[c] = "cancelled_stopping"
  /\ RunTaskEnded(previous[c].conn)
  /\ GiveUp(c)
  /\ UNCHANGED <<registry_vars, handle, run_task, active, shutdown, captured>>

\* Cancelling an owner that awaits its run task cancels the run task.  What a second
\* cancellation can do to the task is RunCutShort.
CancelRunning(c) ==
  /\ pc[c] = "running" /\ run_task[c] \in {"starting", "up"}
  /\ CancelRuns({c})
  /\ UNCHANGED <<registry_vars, pc, handle, previous, closer, active, lock_queue,
                 shutdown, captured>>

\* Mutant: the entry is cleared without looking whose it is.
ActiveAfterUnfencedClear(c) == [active EXCEPT ![scope(c)] = NoEntry]

ActiveAfterClear(c) ==
  IF IsActive(c) THEN [active EXCEPT ![scope(c)] = NoEntry] ELSE active

\* clear() and then reap, which is refused for another incarnation's record.
FinalizeWebrtc(c) ==
  /\ pc[c] = "finalizing" /\ c \in Webrtc
  /\ closer[c] = "done"
  /\ active' = ActiveAfterClear(c)
  /\ IF CanReap(Id(c), Generation(c))
     THEN Reap(Id(c), Generation(c)) ELSE UNCHANGED registry_vars
  /\ Goto(c, "done")
  /\ UNCHANGED <<handle, previous, run_task, closer, lock_queue, shutdown, captured>>

FinalizeTerminal(c) ==
  /\ pc[c] = "finalizing" /\ c \in Terminal
  /\ active' = ActiveAfterClear(c)
  /\ CloseTerminalLease(c)
  /\ Goto(c, "done")
  /\ UNCHANGED <<handle, previous, run_task, closer, lock_queue, shutdown, captured>>
-------------------------------------------------------------------------------
(* LiveSessionCoordinator.close_all, at the shutdown of a hosted server.    *)

BeginShutdown ==
  /\ ShutsDown /\ shutdown = "up" /\ lease_policy = "session"
  /\ LET entries == {active[sc] : sc \in Scopes} \ {NoEntry}
     IN  /\ captured' = entries
         /\ StartClosers({e.conn : e \in {x \in entries : ~x.started}})
         /\ CancelRuns({e.conn : e \in {x \in entries : x.started}})
  /\ shutdown' = "closing"
  /\ UNCHANGED <<registry_vars, pc, handle, previous, active, lock_queue>>

CapturedStopped(e) ==
  /\ shutdown = "closing" /\ e \in captured /\ e.started
  /\ RunTaskEnded(e.conn) /\ closer[e.conn] = "none"
  /\ StartClosers({e.conn})
  /\ UNCHANGED <<registry_vars, pc, handle, previous, run_task, active, lock_queue,
                 shutdown, captured>>

\* Mutant: the shutdown drops whatever is active by the time it ends.
ActiveAfterUnfencedShutdown == [sc \in Scopes |-> NoEntry]

ActiveAfterShutdown ==
  [sc \in Scopes |-> IF active[sc] \in captured THEN NoEntry ELSE active[sc]]

\* Only entries that are still the captured ones are dropped.
EndShutdown ==
  /\ shutdown = "closing"
  /\ \A e \in captured : /\ e.started => RunTaskEnded(e.conn)
                         /\ closer[e.conn] = "done"
  /\ active' = ActiveAfterShutdown
  /\ shutdown' = "down"
  /\ captured' = {}
  /\ UNCHANGED <<registry_vars, pc, handle, previous, run_task, closer, lock_queue>>
-------------------------------------------------------------------------------
\* Steps the event loop is bound to take once they are possible.
OwnerProgress(c) ==
  \/ EnterReplace(c) \/ ReplaceNothing(c) \/ ReplacePrevious(c)
  \/ PreviousStopped(c) \/ PreviousClosed(c) \/ CancelledStopping(c)
  \/ RunActive(c) \/ OwnerResumes(c) \/ FinalizeWebrtc(c) \/ FinalizeTerminal(c)

RunProgress(c) == StartRun(c) \/ RefuseRun(c) \/ (MustStop(c) /\ RunEnds(c))

CloserProgress(c) == \E ok \in BOOLEAN : CloserEnds(c, ok)

ShutdownProgress == EndShutdown \/ \E e \in captured : CapturedStopped(e)

\* What clients, the network and the server do at any time, or never.
Environment(c) ==
  \/ Connect(c) \/ AbortBuild(c) \/ Disconnect(c)
  \/ CancelWaiting(c) \/ CancelClosing(c) \/ CancelStopping(c) \/ CancelRunning(c)
  \/ Fail(c) \/ RunEnds(c) \/ RunCutShort(c) \/ PipelineEnds(c)

Next ==
  \/ \E c \in Conns : \/ OwnerProgress(c) \/ RunProgress(c) \/ CloserProgress(c)
                      \/ Environment(c)
  \/ BeginShutdown \/ ShutdownProgress

Fairness ==
  /\ \A c \in Conns : /\ WF_vars(OwnerProgress(c))
                      /\ WF_vars(RunProgress(c))
                      /\ WF_vars(CloserProgress(c))
  /\ WF_vars(ShutdownProgress)

Spec == LifecycleInit /\ [][Next]_vars /\ Fairness
-------------------------------------------------------------------------------
\* Type correctness.
LifecycleTypeOK ==
  /\ RegistryTypeOK
  /\ pc \in [Conns -> OwnerStep]
  /\ handle \in [Conns -> SessionHandle \cup {NoHandle}]
  /\ previous \in [Conns -> Entry \cup {NoEntry}]
  /\ run_task \in [Conns -> RunStep]
  /\ closer \in [Conns -> CloserStep]
  /\ active \in [Scopes -> Entry \cup {NoEntry}]
  /\ \A sc \in Scopes : /\ lock_queue[sc] \in Seq(Conns)
                        /\ \A i, j \in DOMAIN lock_queue[sc] :
                             lock_queue[sc][i] = lock_queue[sc][j] => i = j
  /\ shutdown \in {"up", "closing", "down"}
  /\ captured \subseteq Entry

\* The pipelines of two connections of one replacement scope (the process, or the
\* session id) run at the same time only if a terminal's run task was cut short and
\* left one of them behind, which is where close_terminal_session does not do what it
\* says (terminal_runtime.py 48): replace() waits until the run it cancels has ended,
\* and a superseded connection never starts.  A scope that is one session id never
\* has two, as a terminal's id is nobody else's.
NoOverlappingRuns ==
  \A c, d \in Conns :
    c # d /\ PipelineRuns(c) /\ PipelineRuns(d) /\ scope(c) = scope(d) =>
      lease_policy = "process" /\ (LeftBehind(c) \/ LeftBehind(d))

\* A connection that is about to start and has not been closed finds the audio
\* lease free: whatever its predecessors did (fail to cancel their worker, be
\* cancelled, disconnect), their leases are back before the successor starts.
StartFindsLeaseFree ==
  \A c \in Conns :
    /\ run_task[c] = "starting"
    /\ IsCurrent(c)
    /\ sessions[Id(c)].state \notin TERMINAL_SESSION_STATES
    => CanAcquireAudio(Id(c), Generation(c))

\* The step is one of the connection's own tasks, ...
Moved(c) == <<pc[c], run_task[c], closer[c]>> # <<pc'[c], run_task'[c], closer'[c]>>

\* ... or of its runtime while nothing else moves, ...
Own(c) == Moved(c) \/ (PipelineRuns(c) /\ \A d \in Conns : ~Moved(d))

\* ... or of a connection that closes it as the previous one, ...
Closing(c) == \E d \in Conns : Moved(d) /\ previous[d].conn = c

\* ... or a newer incarnation takes its session's record.
Superseded(c) == Present(Id(c))' /\ sessions'[Id(c)].generation > Generation(c)

RegistryIsOwned(c) ==
  /\ IsCurrent(c) /\ sessions'[Id(c)] # sessions[Id(c)] =>
       Own(c) \/ Closing(c) \/ Superseded(c)
  /\ (\E sc \in Scopes : audio_owners[sc] = handle[c] /\ audio_owners'[sc] # handle[c])
       => Own(c) \/ Closing(c)

EntryIsOwned(c) ==
  IsActive(c) /\ active'[scope(c)] = NoEntry => Moved(c) \/ active[scope(c)] \in captured

\* A session incarnation, its lease and its place as the active session are
\* taken away only by its own tasks, by whoever closes it as the previous or
\* captured entry, or by a newer incarnation of the same session: stale cleanup
\* never touches a replacement, and a shutdown drops no entry it did not close.
OnlyOwnersEndASession ==
  [][\A c \in Conns : pc[c] # "idle" => RegistryIsOwned(c) /\ EntryIsOwned(c)]_vars

\* When every connection is over nothing holds the device or the scope, and
\* the only records left are those of connections that never got as far as
\* the coordinator.
QuiescentIsClean ==
  (\A c \in Conns : pc[c] \in {"idle", "done", "gone"} /\ closer[c] # "cancel_worker") =>
    /\ \A sc \in Scopes : audio_owners[sc] = NoHandle /\ active[sc] = NoEntry
                          /\ lock_queue[sc] = <<>>
    /\ \A id \in SessionIds : sessions[id].state \in {"absent", "created"}

\* A connection that asked for its turn eventually runs or ends, and one that
\* was asked to close (disconnect, replacement, shutdown) eventually ends.
EveryConnectionIsServed ==
  \A c \in Conns : /\ pc[c] = "replacing" ~> pc[c] \in {"running", "done", "gone"}
                   /\ closer[c] # "none" ~> pc[c] \in {"done", "gone"}
===============================================================================
