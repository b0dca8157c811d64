---------------------------- MODULE TerminalControl ----------------------------
(***************************************************************************)
(* The control channel of one terminal session: the socket handler and its *)
(* two bounded queues (terminal_api.py), and the pump, the run and the     *)
(* TerminalInputControl that serve it (terminal_runtime.py).  The user's   *)
(* wish to pause the microphone is stored at once, and the microphone's    *)
(* gate follows when the provider's adapter has acknowledged it: on the    *)
(* request, or as soon as an adapter reports LISTENING.                    *)
(*                                                                         *)
(* One action stands for the code between two awaits of one task.          *)
(***************************************************************************)
EXTENDS Naturals, SequencesExt

CONSTANTS Providers,   \* voice providers
          Pausable,    \* those whose adapter acknowledges input.pause
          Tasks,       \* names for the tasks that run adapter_ready
          Pump,        \* the task that runs pump_messages
          MaxIncoming, MaxOutgoing   \* _TERMINAL_QUEUE_SIZE, of either queue

ASSUME ControlAssumption ==
  /\ Pausable \subseteq Providers
  /\ Pump \notin Tasks
  /\ {"unstarted", "switching", "none"} \cap Providers = {}
  /\ MaxIncoming \in Nat \ {0} /\ MaxOutgoing \in Nat \ {0}

VARIABLES socket,      \* the socket handler
          closed,      \* session.closed
          incoming,    \* session._incoming
          outgoing,    \* the length of session._outgoing
          run,         \* run(), with what comes before it in its runner task
          pump,        \* pump_messages
          pause_tasks, \* tasks that run adapter_ready
          lock_queue,  \* the input control's lock: its holder, then the waiters
          applying,    \* the state the holder is asking the adapter for
          desired,     \* desired_paused
          applied,     \* applied_paused
          paused,      \* the microphone's gate: input_processor.paused
          adapter,     \* the runtime's adapter, "switching" while its lock is held
          listened     \* the adapter being started has reported LISTENING

channel_vars == <<socket, closed, incoming, outgoing>>
control_vars == <<lock_queue, applying, desired, applied, paused>>
vars == <<channel_vars, control_vars, run, pump, pause_tasks, adapter, listened>>
-------------------------------------------------------------------------------
Message == {"input.pause", "input.resume", "other"}
Wish == {"unset", "pause", "resume"}

Init ==
  /\ socket = "open" /\ closed = FALSE
  /\ incoming = <<>> /\ outgoing = 0
  /\ run = "attaching" /\ pump = "none" /\ pause_tasks = {}
  /\ lock_queue = <<>> /\ applying = "unset"
  /\ desired = "unset" /\ applied = "unset" /\ paused = FALSE
  /\ adapter = "unstarted" /\ listened = FALSE

\* What session.send leaves: nothing changes once closed, and a full queue
\* closes the session and makes the call raise.
Sent ==
  IF closed THEN [closed |-> TRUE, outgoing |-> outgoing, raised |-> FALSE]
  ELSE IF outgoing < MaxOutgoing
  THEN [closed |-> FALSE, outgoing |-> outgoing + 1, raised |-> FALSE]
  ELSE [closed |-> TRUE, outgoing |-> outgoing, raised |-> TRUE]

NotSent == [closed |-> closed, outgoing |-> outgoing, raised |-> FALSE]
-------------------------------------------------------------------------------
(* The socket handler and its sender.                                       *)

\* Mutant: the bound is checked after the message was queued.
HasRoomLate == Len(incoming) <= MaxIncoming

HasRoom == Len(incoming) < MaxIncoming

\* The client leaves, breaks the protocol or outruns the control queue.
BeginTeardown ==
  /\ socket' = "closing"
  /\ closed' = TRUE

ClientSends(m) ==
  /\ socket = "open"
  /\ IF closed THEN UNCHANGED <<socket, closed, incoming>>
     ELSE IF HasRoom
     THEN incoming' = Append(incoming, m) /\ UNCHANGED <<socket, closed>>
     ELSE BeginTeardown /\ UNCHANGED incoming
  /\ UNCHANGED <<control_vars, outgoing, run, pump, pause_tasks, adapter, listened>>

ClientLeaves ==
  /\ socket = "open"
  /\ BeginTeardown
  /\ UNCHANGED <<control_vars, incoming, outgoing, run, pump, pause_tasks,
                 adapter, listened>>

\* The handler has awaited the runner and the sender it cancelled.
TeardownEnds ==
  /\ socket = "closing" /\ run = "ended"
  /\ socket' = "gone"
  /\ UNCHANGED <<control_vars, closed, incoming, outgoing, run, pump, pause_tasks,
                 adapter, listened>>

\* _send_events takes an event; one that the socket is slow to take, or a task
\* that died with the socket, takes none for a while or for ever.
SendEvent ==
  /\ socket # "gone" /\ outgoing > 0
  /\ outgoing' = outgoing - 1
  /\ UNCHANGED <<control_vars, socket, closed, incoming, run, pump, pause_tasks,
                 adapter, listened>>
-------------------------------------------------------------------------------
(* TerminalInputControl.                                                    *)

Holder == Head(lock_queue)

\* adapter_ready has something to apply.
OutOfDate == desired # "unset" /\ applied # desired

\* Mutant: a task that finds nothing to do returns with the lock.
LockKept == lock_queue

\* Leaving the async with wakes the next waiter, also when there was nothing to do.
LockReleased == Tail(lock_queue)

\* pump_messages goes round: the loop ends once the session is closed.
PumpLoops == pump' = IF closed' THEN "none" ELSE "receiving"

\* A task leaves the input control, having raised or not.  The pump has nobody
\* to notice that it failed; a failed adapter_ready closes the session.
PumpLeaves(raised) ==
  IF raised THEN pump' = "failed" ELSE PumpLoops

TaskLeaves(t) == pause_tasks' = pause_tasks \ {t}

\* request(): the wish is stored before the lock is asked for.
Request(wish) ==
  /\ desired' = wish
  /\ lock_queue' = Append(lock_queue, Pump)
  /\ pump' = "controlling"
  /\ applying' = IF lock_queue = <<>> THEN wish ELSE applying
  /\ UNCHANGED <<applied, paused>>

\* adapter_ready takes its first step; a free lock is taken at once.
ReadyStarts(t) ==
  /\ t \in pause_tasks /\ ~Contains(lock_queue, t)
  /\ IF lock_queue = <<>> /\ ~OutOfDate
     THEN TaskLeaves(t) /\ UNCHANGED <<lock_queue, applying>>
     ELSE /\ lock_queue' = Append(lock_queue, t)
          /\ applying' = IF lock_queue = <<>> THEN desired ELSE applying
          /\ UNCHANGED pause_tasks
  /\ UNCHANGED <<channel_vars, desired, applied, paused, run, pump, adapter, listened>>

\* The lock has been handed over; adapter_ready reads the wish only now.
Acquires ==
  /\ lock_queue # <<>> /\ applying = "unset"
  /\ IF Holder = Pump \/ OutOfDate
     THEN applying' = desired /\ UNCHANGED <<lock_queue, pause_tasks>>
     ELSE /\ TaskLeaves(Holder)
          /\ lock_queue' = LockReleased
          /\ UNCHANGED applying
  /\ UNCHANGED <<channel_vars, desired, applied, paused, run, pump, adapter, listened>>

\* What the adapter in place says; without one the runtime refuses.
Answers == IF adapter \in Pausable THEN {"acknowledged", "raised"} ELSE {"refused"}

\* Mutant: what was asked for counts as applied although it was refused.
AppliedThough(answer) == applying

AppliedAfter(answer) == IF answer = "acknowledged" THEN applying ELSE applied

\* The call waits while the adapter is being switched.  An acknowledged state
\* reaches the gate, and then the client, before the lock is released.
ApplyEnds ==
  /\ applying # "unset" /\ adapter # "switching"
  /\ \E answer \in Answers :
     \E sent \in IF answer = "acknowledged" THEN {NotSent, Sent} ELSE {NotSent} :
       LET raised == answer = "raised" \/ sent.raised
       IN  /\ applied' = AppliedAfter(answer)
           /\ paused' = IF answer = "acknowledged" THEN applying = "pause" ELSE paused
           /\ outgoing' = sent.outgoing
           /\ closed' = (sent.closed \/ (raised /\ Holder # Pump))
           /\ IF Holder = Pump THEN PumpLeaves(raised) /\ UNCHANGED pause_tasks
                               ELSE TaskLeaves(Holder) /\ UNCHANGED pump
  /\ applying' = "unset"
  /\ lock_queue' = Tail(lock_queue)
  /\ UNCHANGED <<socket, incoming, desired, run, adapter, listened>>
-------------------------------------------------------------------------------
(* pump_messages, and the runtime it routes messages to.                    *)

Receive ==
  /\ pump = "receiving" /\ incoming # <<>>
  /\ incoming' = Tail(incoming)
  /\ CASE Head(incoming) = "input.pause" -> Request("pause")
       [] Head(incoming) = "input.resume" -> Request("resume")
       [] OTHER -> pump' = "routing" /\ UNCHANGED control_vars
  /\ UNCHANGED <<socket, closed, outgoing, run, pause_tasks, adapter, listened>>

\* Handled, refused or failed.
RouteEnds ==
  /\ pump = "routing" /\ adapter # "switching"
  /\ \E sent \in {NotSent, Sent}, failed \in BOOLEAN :
       /\ outgoing' = sent.outgoing /\ closed' = sent.closed
       /\ PumpLeaves(failed \/ sent.raised)
  /\ UNCHANGED <<control_vars, socket, incoming, run, pause_tasks, adapter, listened>>

\* A provider.switch takes the adapter in place out.
SwitchBegins ==
  /\ pump = "routing" /\ adapter \in Providers
  /\ pump' = "switching"
  /\ adapter' = "switching" /\ listened' = FALSE
  /\ UNCHANGED <<channel_vars, control_vars, run, pause_tasks>>

InitialStart ==
  /\ run = "running" /\ adapter = "unstarted"
  /\ adapter' = "switching" /\ listened' = FALSE
  /\ UNCHANGED <<channel_vars, control_vars, run, pump, pause_tasks>>

\* The start, or its rollback, has brought an adapter to LISTENING in time; or
\* there is no adapter any more.  A switch returns, or raises, in the pump.
AdapterSettles(p) ==
  /\ adapter = "switching"
  /\ p \in Providers => listened
  /\ adapter' = p
  /\ UNCHANGED <<channel_vars, control_vars, run, pause_tasks, listened>>
  /\ IF pump = "switching" THEN \E raised \in BOOLEAN : PumpLeaves(raised)
                           ELSE UNCHANGED pump

\* The new adapter was heard but failed: the rollback's has to be heard anew.
RollsBack ==
  /\ adapter = "switching" /\ pump = "switching" /\ listened
  /\ listened' = FALSE
  /\ UNCHANGED <<channel_vars, control_vars, run, pump, pause_tasks, adapter>>

\* The event sink: LISTENING is reported and, unless that fails, a task started.
Listening ==
  /\ adapter \in Providers \cup {"switching"}
  /\ listened' = TRUE
  /\ closed' = Sent.closed /\ outgoing' = Sent.outgoing
  /\ IF Sent.raised THEN UNCHANGED pause_tasks
     ELSE \E t \in Tasks \ pause_tasks : pause_tasks' = pause_tasks \cup {t}
  /\ UNCHANGED <<control_vars, socket, incoming, run, pump, adapter>>

\* Levels, transcripts and other events.
PipelineSends ==
  /\ run \in {"running", "stopping"}
  /\ closed' = Sent.closed /\ outgoing' = Sent.outgoing
  /\ UNCHANGED <<control_vars, socket, incoming, run, pump, pause_tasks,
                 adapter, listened>>
-------------------------------------------------------------------------------
(* The runner.                                                              *)

\* The connection's turn has come (module SessionLifecycle), or never will.
RunBegins ==
  /\ run = "attaching"
  /\ run' = "running" /\ pump' = "receiving"
  /\ UNCHANGED <<channel_vars, control_vars, pause_tasks, adapter, listened>>

AttachFails ==
  /\ run = "attaching"
  /\ run' = "ended"
  /\ closed' = Sent.closed /\ outgoing' = Sent.outgoing
  /\ UNCHANGED <<control_vars, socket, incoming, pump, pause_tasks, adapter,
                 listened>>

\* Mutant: the handler forgets to cancel the runner.
ForgetsRunner == FALSE

RunnerCancelled == socket = "closing"

AttachCancelled ==
  /\ run = "attaching" /\ RunnerCancelled
  /\ run' = "ended"
  /\ UNCHANGED <<channel_vars, control_vars, pump, pause_tasks, adapter, listened>>

\* Mutant: run() waits for its pipeline and its own cancellation only.
IgnoresClosed == RunnerCancelled

StopRequested == RunnerCancelled \/ closed

RunStops ==
  /\ run = "running" /\ StopRequested
  /\ run' = "stopping"
  /\ UNCHANGED <<channel_vars, control_vars, pump, pause_tasks, adapter, listened>>

\* The pipeline ends by itself, with an error perhaps, or the connection is
\* replaced.
RunInterrupted ==
  /\ run = "running"
  /\ run' = "stopping"
  /\ \E sent \in {NotSent, Sent} : closed' = sent.closed /\ outgoing' = sent.outgoing
  /\ UNCHANGED <<control_vars, socket, incoming, pump, pause_tasks, adapter,
                 listened>>

\* The worker is cancelled, then the tasks of the control channel.
RunTornDown ==
  /\ run = "stopping"
  /\ run' = "ended"
  /\ pump' = "none" /\ pause_tasks' = {} /\ lock_queue' = <<>> /\ applying' = "unset"
  /\ adapter' = "none"
  /\ UNCHANGED <<channel_vars, desired, applied, paused, listened>>

\* A cancellation while the worker is being cancelled skips the rest.
RunCutShort ==
  /\ run = "stopping"
  /\ run' = "ended"
  /\ UNCHANGED <<channel_vars, control_vars, pump, pause_tasks, adapter, listened>>
-------------------------------------------------------------------------------
ControlProgress == (\E t \in Tasks : ReadyStarts(t)) \/ Acquires \/ ApplyEnds
PumpProgress == Receive \/ RouteEnds
AdapterProgress == \E p \in Providers \cup {"none"} : AdapterSettles(p)
RunProgress == AttachCancelled \/ RunStops \/ RunTornDown

Next ==
  \/ (\E m \in Message : ClientSends(m)) \/ ClientLeaves
  \/ SendEvent \/ TeardownEnds \/ ControlProgress \/ PumpProgress
  \/ AdapterProgress \/ RunProgress
  \/ SwitchBegins \/ InitialStart \/ RollsBack \/ Listening \/ PipelineSends
  \/ RunBegins \/ AttachFails \/ RunInterrupted \/ RunCutShort

\* Ready tasks run, and an adapter settles by its deadline.
Fairness ==
  /\ WF_vars(TeardownEnds) /\ WF_vars(ControlProgress)
  /\ WF_vars(PumpProgress) /\ WF_vars(AdapterProgress) /\ WF_vars(RunProgress)

Spec == Init /\ [][Next]_vars /\ Fairness
-------------------------------------------------------------------------------
\* Type correctness; the queues keep their bounds, and whoever is at the input
\* control's lock is there once and is doing just that.
ControlTypeOK ==
  /\ socket \in {"open", "closing", "gone"}
  /\ closed \in BOOLEAN /\ paused \in BOOLEAN /\ listened \in BOOLEAN
  /\ incoming \in Seq(Message) /\ Len(incoming) <= MaxIncoming
  /\ outgoing \in 0..MaxOutgoing
  /\ run \in {"attaching", "running", "stopping", "ended"}
  /\ pump \in {"none", "receiving", "controlling", "routing", "switching", "failed"}
  /\ pause_tasks \subseteq Tasks
  /\ {desired, applied, applying} \subseteq Wish
  /\ adapter \in Providers \cup {"unstarted", "switching", "none"}
  /\ lock_queue \in Seq(Tasks \cup {Pump}) /\ IsInjective(lock_queue)
  /\ \A t \in Tasks : Contains(lock_queue, t) => t \in pause_tasks
  /\ Contains(lock_queue, Pump) <=> pump = "controlling"
  /\ applying # "unset" => lock_queue # <<>>

\* The microphone's gate is what the user last asked for, in every running
\* session whose messages are all dealt with and whose adapter knows pauses:
\* a wish that came before the adapter, during a switch, while an earlier one
\* was being applied, or while a provider that knows no pauses was active, is
\* neither lost nor overtaken.
WishIsApplied ==
  /\ run = "running" /\ ~closed /\ adapter \in Pausable
  /\ pump = "receiving" /\ incoming = <<>> /\ pause_tasks = {} /\ desired # "unset"
  => paused = (desired = "pause")

\* A session that is closed, by an overflow or a failed task, ends its run and
\* so gives the audio device back, whether or not the client is still there;
\* and a client that is gone takes its session with it.  It is the run's task that
\* ends: where it is cut short its pipeline may go on (SessionLifecycle).
CloseEndsRun ==
  /\ closed ~> run = "ended"
  /\ socket = "closing" ~> socket = "gone"

\* A pause or resume gets through however many adapters report LISTENING and
\* contend for the input control with it.
RequestGetsItsTurn == pump = "controlling" ~> pump # "controlling"
===============================================================================
