# Kassette in TLA+

Kassette is a voice front end: a browser or a terminal opens a *voice session*, a
pipeline carries its audio to a *voice provider* (a cascade of speech-to-text and
text-to-speech services, Quicksilver, or Gemini Live), and the provider may be
switched while the session, and the audio device it holds, stay.  This directory
models the parts of the service, and of the terminal client that ships with it, whose
correctness depends on the order in which tasks run, fail and are cancelled, checks
them with TLC, and proves what they promise with TLAPS.

Paths are relative to the repository; `sessions.py`, `bot.py` and so on are under
`src/kassette/`.

## 1. The system

| Component | State it keeps | Operations | What makes it hard |
|---|---|---|---|
| Session registry (`sessions.py` 231-484, `domain.py`) | id → snapshot (state, generation, provider generation, active and desired provider), the lease table, the generation counter | `create`, `transition`, `begin/restart/activate_provider_switch`, `acquire_audio`, `release_audio`, `reap` | calls of several tasks, late and with stale fences; ids are reused by reconnects |
| Session coordinator (`sessions.py` 47-177) | scope → active entry, one replacement lock per scope | `replace`, `run_active`, `clear`, `close_all` | awaits the close of the previous connection under a lock; cancellation at each await |
| Browser owner (`bot.py` 54-157, 397-515) | handle, pipeline worker, closer, run task | connect, run, disconnect, finalize | the closer is shared by three callers; its cleanup may come after a reconnect |
| Terminal owner (`terminal_runtime.py`) | the same, with a lease object and an input control | connect, run, cancel | the connection task is cancelled by the socket handler |
| Provider runtime (`providers/runtime.py`) | the adapter in place, switch lock, readiness, provisional transcript, `_closed` | start, `switch_provider`, recovery, rollback, frames, events, close | every step awaits a provider that may fail, hang, or call back after it was replaced |
| Terminal control (`terminal_api.py`, `terminal_protocol.py`, `terminal_audio.py`) | capabilities, an event queue and an input queue, the wanted and the applied input state | claim, send, pause/resume, submit, teardown | bounded queues, a socket and a session that end in either order, an adapter switched under a paused microphone |
| Quicksilver service (`providers/quicksilver/service.py`) | the current turn, pending, deferred and synthetic delegations, output authorization | user transcripts, delegations, answers, interruption | provider events are matched to turns by order and content, and a write may fail or last |
| Quicksilver transport (`.../transport.py`, `protocol.py`) | peer connection, sideband socket, tasks | open, send, dispatch, close | close runs while open is still creating parts |
| Gemini Live (`providers/gemini_live/service.py`) | pending tool calls, session resumption | as Quicksilver | delegation through tool calls of the model |
| Cascade and its events (`providers/cascade.py`, `builtin.py`, `aws_transcribe.py`) | speaking flags, turn ids, paused stream | frames of the pipeline | barge-in by counting speech; reconnecting stream |
| Dictation (`dictation.py`, `dictate_cli.py`) | idle/recording/transcribing, a recording's tasks, the clipboard | toggle, finish, paste, close | hotkey thread and event loop; shutdown during a toggle |
| On-demand TTS (`tts_api.py`) | LRU cache, one lock per key | `generate` | concurrent requests for one message; clients that go away |
| Pi extension (`packages/pi-kassette/src`) | active, the client in use and its generation, the wish for the microphone, pending delegation, draft | enter, exit, connect, retry, reconnect, pause, delegate, settle | an agent run, a voice session and a user who act independently; what an await comes back to |
| Hosted runtime (`hosted.py`, `settings.py`) | authentication, policies | startup, bounded shutdown | the same code under two lease policies |
| Transcription and grooming (`transcription_api.py`, `transcript_grooming*.py`, `filler_filter.py`) | two slots | transcribe | none beyond the semaphore |
| Diagnostics (`diagnostics.py`) | a bounded table of sequence numbers | record | eviction of the oldest id |
| Command line and operating system (`cli.py`, `voice_cli.py`, `macos.py`, `hotkey.py`, `*credentials.py`) | none | — | I/O |

**How they interact.** A connection owner creates a record in the registry, builds
the pipeline, and asks the coordinator to *replace* the scope's previous
connection: this cancels its run task, waits for it to end, and calls its close
function.  The owner then asks to *run*: its run task acquires the audio lease, moves
the session to CONNECTING and runs the pipeline worker.  Inside the pipeline the
provider runtime starts an adapter and, on a client's message, replaces it by
another; the adapter's callbacks drive the session's state through the registry.
On the way out the owner closes the session, releases its lease, clears the scope
and reaps the record.  A server shutdown closes all active entries.  The registry,
coordinator, owners and runtime share state only through calls on the registry and
the coordinator, whose own locks are never held across an await.

**What makes each correct.**

* Registry: a session that has ended stays ended and holds no lease; a lease is never
  taken from a living holder; an activation belongs to the switch in progress.
* Coordinator and owners: two connections of one scope do not run together, unless the run
  of a terminal leaves its pipeline behind; a successor finds the device free; late cleanup never hits a replacement; nobody waits for ever;
  when all is over nothing is held.
* Provider runtime: at most one adapter is open; whenever nobody is switching, the
  adapter in place is the registry's; the lease follows the session through every
  switch; closing leaves nothing behind; every switch ends.
* On-demand TTS: a message is synthesized by one request at a time, the cache and the
  lock table stay small, every request is answered or fails.
* Terminal control: the last wish of the user is what the adapter in place applies;
  teardown ends both the socket and the session; capabilities are used once.
* Quicksilver: an answer is given to the provider at most once and heard from its first
  frame, no two turns share a request, an answer that came too early is not forgotten.
* Transport: nothing that open created survives close; a disconnect is reported once.
* Dictation: nothing records when it is shown as idle or over; what was said before the
  stop is delivered; the clipboard comes back.
* Pi extension: a client that was left has no connection and gets none; a session shown as
  connected was told the user's wish; an answer goes to the delegation that caused the run.

`PROJECT.json` lists every component, modelled or not, and under `hazards` the places
where this code is hard to test, each with the properties that cover it or the module
planned for it.

## 2. The modules

```
AudioLease           what the registry promises of the audio device
    ^ implements (run `registry`, theorem RegistryImplementsAudioLease)
SessionRegistry      the table, its state machine, switches and leases
    ^ extended by
    |-- SessionLifecycle        owners, closers, run tasks, the coordinator, shutdown
    '-- ProviderRuntime         one session's adapters: start, switch, recovery, rollback
OnDemandTTS          requests, cache and locks of the speech service
TerminalControl      a terminal's control channel: queues, pump, input control, teardown
DelegationLedger     what client delegation promises
    ^ implements (run `quicksilver`, theorem ServiceImplementsLedger)
QuicksilverTurns     turns, delegations, answers and what is heard of the speech
    '-- extends QuicksilverTransport   the connection, opened and closed part by part
Dictation            hotkey, controller, one recording, paste and clipboard
KassetteClient       the terminal extension: enter and leave, connect, retry, reconnect

<module>Proofs       theorems about SessionRegistry, SessionLifecycle, ProviderRuntime,
                     OnDemandTTS, TerminalControl, Dictation and KassetteClient;
                     QuicksilverProofs is about QuicksilverTurns
MC<module>           constants and symmetry of the instances TLC checks
```

`SessionLifecycle` and `ProviderRuntime` extend `SessionRegistry` and call its actions
as the code calls its methods, so what is proved of the registry is about the same
definitions that the two compositions use; `SessionLifecycleProofs` and
`ProviderRuntimeProofs` extend `SessionRegistryProofs` and use its lemmas.

**Granularity.** Everything runs on one event loop.  One action is the code of one
task between two suspension points; an await that cannot suspend (an uncontended
`asyncio.Lock`) is no boundary.  An await that may fail or be cancelled has one
action for its return and one for its exception.

### SessionRegistry

`sessions`, `audio_owners`, `next_generation` and `lease_policy` are the fields of the
class.  Each method is an action with the same guards in the same order; `Unfenced`
stands for an `expected_*` argument that is left out.  A refused call raises or returns
without a change, so it is no step.  `AcquireAudio` under the session policy also
inherits the lease of an older incarnation of the same session.

### AudioLease

Four actions: an incarnation opens, ends, is granted a device, and a device is
released.  The refinement maps the records that are not CLOSED or FAILED to the live
incarnations and the lease table to the holders.  It says that a lease is granted only
to a live incarnation and only when free (or inherited from an older incarnation of the
session under the session policy), and that the end of an incarnation releases
everything it held *in the same step*.

### SessionLifecycle

| Action | Code |
|---|---|
| `Connect` | `create` at `bot.py` 411-416, `terminal_runtime.py` 201-204 |
| `AbortBuild` | a failure or cancellation while the pipeline is built, before the try (`bot.py` 417-458, `terminal_runtime.py` 205-286); the record stays behind |
| `EnterReplace` | the pipeline is built (`terminal_runtime.py` 204-283) and `replace` is called |
| `ReplaceNothing`, `ReplacePrevious`, `PreviousStopped`, `PreviousClosed`, `Install` | `LiveSessionCoordinator.replace` and `close_started_session` |
| `RunActive`, `MayStart` | `run_active` |
| `StartRun`, `RefuseRun`, `Fail`, `RunEnds` | the run task: `start_and_run` of `bot.py`, `TerminalAudioLease.open` and `run` of `terminal_runtime.py` |
| `RunCutShort`, `PipelineEnds` | the finally of `run` (`terminal_runtime.py` 333-344) ends without having awaited the pipeline's task; that pipeline may end later, or never |
| `OwnerResumes`, `BeginFinalizer`, `FinalizeWebrtc`, `FinalizeTerminal` | the owners' finally clauses; `_await_finalizer` (`bot.py` 102-124) carries one through a cancellation |
| `StartClosers`, `CloserEnds` | `_SessionCloser` and `close_terminal_session`; cancelling the worker may raise |
| `Disconnect` | `on_client_disconnected` |
| `CancelWaiting`, `CancelClosing`, `CancelStopping`, `CancelledStopping`, `CancelRunning` | cancellation of the owner at each of its awaits (`terminal_api.py` 179-186) |
| `BeginShutdown`, `CapturedStopped`, `EndShutdown` | `close_all`, called from the hosted shutdown hook |

`lock_queue` is the replacement lock with its waiters, first come first served.  The
pipecat worker and runner are external: a run ends by itself, when its task is
cancelled, or after its worker was told to stop.  A terminal's pipeline is a task apart
from its run (`terminal_runtime.py` 316); `run_task` says "left_behind" of a run that has
ended while its pipeline goes on, which a replacement does not notice and a lease does not
wait for.

### ProviderRuntime

One session; an adapter is named by the provider generation it is built for.  `phase`
says which operation holds the switch lock, `step` which await it is at and `op` holds
its local variables.  The initial start, a switch, its recovery and its rollback share
the actions for building, setting up and starting an adapter (`BuildSucceeds` ...
`StartFails`), as they share `_build_adapter` and `_start_adapter`.  The deadline for
readiness is the outcome "`StartFails` without an error", possible at any time.  A
construction given up at its deadline goes on by itself (`abandoned`) and is closed
when it ends.  Adapters report states, errors and transcripts at any time, also after
they were replaced.  Cancelling a switch makes the await it is at raise, so it is one
of the ways in which a step fails; its recovery is shielded.

### OnDemandTTS

One action per stretch between awaits of `generate`: answered from the cache, the lock
taken or waited for, woken with or without audio in the cache, audio made, synthesis
failed, cancelled while waiting.  A lock is named by the request that created it;
`queue` is its owner and waiters.  The key (model, voice and normalized text) is a model
value; the content of the audio is left out.

### TerminalControl

One terminal session, seen from its control channel.

| State | Code |
|---|---|
| `socket`, `closed`, `incoming`, `outgoing` | the handler of `terminal_api.py` and the session's two queues; of the outgoing one only the length matters |
| `run` | the runner task: attaching (all that `SessionLifecycle` models), then `run` of `terminal_runtime.py` |
| `pump` | `pump_messages`; "failed" is a pump that raised and that nobody awaits until the run ends |
| `pause_tasks`, `lock_queue`, `applying`, `desired`, `applied` | `TerminalInputControl` and the tasks that run `adapter_ready` |
| `paused` | the gate of `TerminalInputProcessor` |
| `adapter`, `listened` | the provider runtime's adapter, "switching" while its lock is held, and whether the one being started reported LISTENING |

| Action | Code |
|---|---|
| `ClientSends`, `ClientLeaves`, `SendEvent`, `TeardownEnds` | receive loop, sender and finally of the handler |
| `Receive`, `RouteEnds`, `SwitchBegins` | one round of the pump |
| `Request`, `ReadyStarts`, `Acquires`, `ApplyEnds` | `request`, `adapter_ready` and `_apply` under the lock |
| `InitialStart`, `AdapterSettles`, `RollsBack`, `Listening` | `ProviderRuntime`, reduced to what a control call and the event sink see of it |
| `PipelineSends` | levels and events of the pipeline |
| `RunBegins`, `AttachFails`, `AttachCancelled`, `RunStops`, `RunInterrupted`, `RunTornDown`, `RunCutShort` | the runner and the finally of `run`, which an exception or a second cancellation cuts short; what then becomes of the pipeline is `SessionLifecycle`'s subject |

Left out: mute and barge-in gating of the output, capabilities and their claim, and
whether a new adapter of another provider is told that the input is paused.  `Pausable`
is the set of providers whose adapter acknowledges `input.pause`: the cascade and
Quicksilver do, Gemini Live does not.

### QuicksilverTransport

`parts` are the parts of the connection that exist (peer, HTTP client, sideband),
`opening` and `closing` the await at which `open()` and the task of `_close()` are,
`reader` and `rtp` the tasks that read the sideband and the remote audio.  A reader is
*waiting* when it has reported the loss of the connection and its handler awaits the
close, which has to end the reader in turn; it has *raised* when a handler's write
failed.  `CloseReleasesConnection` excepts the latter: awaiting such a reader raises out
of `_close()` (`transport.py` 235), and the peer and the HTTP client stay.

### QuicksilverTurns

Quicksilver with client delegation, as a terminal session uses it.  It extends the
transport's module and says what each of its steps means to the service.

| State | Code |
|---|---|
| `state`, `speaking`, `closed` | the session's state as it is reported, `_speaking`, `_closed` |
| `turn`, `in_turn`, `active_delegation`, `deferred` | the user's turn, its delegation, and delegations that came during it |
| `pending`, `synthetic` | what is with the client; the records of requests that the service made itself |
| `out` | `_active_response_delegation_id`, `_awaiting_client_output_start`, `_client_output_authorized`, `_unauthorized_output_active`, `_acknowledgment_allowed` |
| `writes` | the handlers that are in `transport.send`, the only await that suspends |
| `finalizing`, `todo` | the handler of a user's `turn.done`, which handles the deferred one by one |
| `said`, `delegations`, `speech` | the environment: what is said, what the provider delegates and what it is speaking |
| `due`, `fate`, `bound` | history: whether the provider still has to speak the answer it was given, and whether it has said something else first; what became of each delegation; which request stands for each turn |

| Action | Code |
|---|---|
| `UserSpeaks`, `UserTurnDone`, `ResolveNext`, `UserTurnEnds` | transcripts and `turn.done` of the user, the deferred delegations, the synthetic request |
| `DelegationCreated`, `TooManyDeferred`, `Handle` | `delegation.created`, matched by text, by order or not at all |
| `ClientCompletes`, `Flush`, `WriteEnds`, `WriteFails` | `delegation.complete` and the flush of answered requests |
| `OutputText`, `OutputAudio`, `SilentAudio`, `ForeignTurnDone`, `OutputDone` | the provider's speech and its end |
| `Interrupt`, `ProviderError`, `Disconnect`, `OpenEnds`, `CleanupRuns`, `ServiceCloses` | interruption, failure and close |

What is assumed of the provider: it speaks and takes turns only once the session has
started, names each delegation once, and delivers the frames of one output in order.
Left out: direct mode, the life cycle that `ProviderRuntime` manages, the queue of input
audio, the data channel (which repeats the first events of the sideband), and a session
whose record was replaced in the registry (`_is_current`).  `WritesOverlap` is FALSE in the
run: a write ends before the client's next answer comes.  With TRUE an answer may be
written twice (section 3, divergences).

### DelegationLedger

Requests are made, answered, given to the provider and over; a failed write may take one
back, an interruption drops all that are not over.  At most one answer owns the output.

### Dictation

| State | Code |
|---|---|
| `main`, `pending` | `run_dictation` and `asyncio.run` around it; presses handed over with `call_soon_threadsafe` |
| `state`, `stop_requested`, `queued`, `stage`, `cancelled` | `DictationController` and the await its task is at |
| `mic`, `captured`, `ready`, `audio` | microphone, audio thread, callbacks waiting in the event loop, the queue |
| `sender`, `receiver`, `sent`, `finals`, `partial`, `broken` | the recording's tasks and what AWS was sent and has answered |
| `raw`, `clipboard`, `saved`, `changed`, `left` | the transcript and the clipboard |

A chunk stands for some speech and a transcript is the number of chunks it covers.
Grooming is one await.  `Closes`, the recording's close, is part of every path out.

### KassetteClient

One action is one event of the JavaScript loop with the promises it settles.  Each entry
of the voice surface makes a client of its own; `client` is the variable of `index.ts`
that `enter`, `exit` and the handlers share, and `leaving` holds the clients whose `close()`
waits for a reconnect, with the `exit()` that waits for it.

| Action | Code |
|---|---|
| `Enter`, `Exit`, `Left`, `ToggleInput` | `index.ts`: `enter`, `exit` up to its await and after it, `toggleInput` |
| `SessionCreated`, `RequestFails`, `ServiceRefuses`, `SocketOpens`, `HandshakeFails`, `SocketClosed` | `open` |
| `OpenRaises`, `TriesAgain`, `Slept`, `GivesUp`, `ServiceStarts` | `connect`, `retryUntilReady`, `OwnedService.start` |
| `ConnectionLost`, `Hello`, `BadMessage` | `scheduleReconnect`, `terminal.hello`, a message that cannot be handled |
| `Close`, `ServiceStopped` | `KassetteClient.close`, `OwnedService.stop` |

A deadline passes after `MaxTries` attempts or earlier.  The library `ws` never opens a
socket that was closed.  Left out: agent runs and delegations, drafts, speech chunks and
what the surface shows besides the connection.

## 3. What is checked

| Run | Instance | Distinct states | What it shows |
|---|---|---|---|
| `registry` | 2 ids, 2 providers, 3 session generations, 2 provider generations, both policies, symmetry | 137 000 | `RegistryTypeOK`, `LeaseHeldByLiveSession`, `TerminalIsFinal`, `SwitchIsFenced`, `ImplementsAudioLease`; no deadlock |
| `lifecycle` | 2 browsers over 2 ids, 1 terminal, both policies, symmetry | 353 000 | `LifecycleTypeOK`, `NoOverlappingRuns`, `StartFindsLeaseFree`, `QuiescentIsClean` |
| `lifecycle_shutdown` | 2 browsers over 2 ids, a shutdown, both policies | 81 000 | `EveryConnectionIsServed`, `OnlyOwnersEndASession` |
| `provider_runtime` | 2 providers, 5 provider generations, a close in the recovery may raise | 126 000 | `RuntimeTypeOK`, `OneOpenAdapter`, `IdleIsSettled`, `LeaseFollowsSession`, `AdaptersAreDisposable`, `SwitchEnds` |
| `failed_rollback` | as above, but the close in the rollback may raise | — | `FailedRollbackFailsSession` is violated (finding 1) |
| `tts` | 4 requests, 2 keys, a cache of 1 | 25 000 | `TTSTypeOK`, `LocksAreTransient`, `EveryRequestEnds` |
| `duplicate_synthesis` | the same | — | `OneSynthesisPerKey` is violated (finding 2) |
| `terminal_control` | one provider that acknowledges pauses and one that does not, queues of 1, 2 concurrent `adapter_ready` tasks | 200 000 | `ControlTypeOK`, `WishIsApplied`, `CloseEndsRun`, `RequestGetsItsTurn` |
| `quicksilver` | 2 turns, 1 delegation of the provider, one text, room for one deferred and one spoken record | 167 000 | `QuicksilverTypeOK`, `PendingBlocksSwitch`, `AnswerIsHeard`, `TurnsDoNotShareRequests`, `ImplementsLedger`, `AnswerGetsOut`, `CloseReleasesConnection` |
| `dictation` | 2 chunks in a recording, 2 presses on their way | 314 000 | `DictationTypeOK`, `DeliveredIsComplete`, `ClipboardPreserved`, `RecordingReleased`, `StopsWhenAsked` |
| `kassette_client` | 2 entries, 2 lost connections in each, 2 attempts before a deadline | 358 000 | `ClientTypeOK`, `ClosedLeavesNothing`, `ConnectedIsTrue`, `ReconnectsEnd` |
| `leaving_session` | the same | — | `LeavingEndsSession` is violated (finding 3) |

Every property of a passing run has a *mutant* in `PROJECT.json`: a change of one
modelled definition, written next to it in its module, of the kind a programming error
would make, under which TLC finds the property violated.

**Bounds.** `MaxGeneration` and `MaxProviderGeneration` only stop the counters.  Three
session generations allow an incarnation, its successor under the same id, and a
stranger; a third incarnation of one id meets the same tables as the second.  Two
provider generations in `registry` are a switch and its restart; the five of
`provider_runtime` are two switches that may both be rolled back.  In `lifecycle` every
connection connects once; a reconnect is the second browser asking for the id of the
first, and the terminal meets both under the process policy.  In `lifecycle_shutdown`
the browsers may ask for one id, so that a reconnect supersedes the first, or for two, and
the server shuts down at any point: late cleanup, and the entries that `close_all` captured,
meet newer connections.  The same with a terminal as a third (1.2 million states for one
browser id, 4.3 million for two) was explored once and agrees.  Three contenders for one
replacement lock are its holder, the next, and one whose turn comes when the next was
cancelled.  `tts` needs three requests for the lock (holder, waiter, newcomer) and the
fourth to evict the key or to come second to the newcomer's lock.  In `terminal_control`
the queues of 1 stand for the 128 entries of the code (`terminal_api.py` 27): one message in the pump's hands and
one behind it are enough for a wish to be overtaken, and a queue of 1 fills and empties
often.  Two tasks of `adapter_ready` and the pump are the holder of the input control's
lock, a waiter, and one that comes after both.  In `quicksilver` two turns are enough for a
delegation that comes in the wrong one, for an answer that meets another's speech, and for
a record that is pruned under the limits of 1 (64 in the code); the provider's one
delegation may match the first turn's request, the second's, or none.  Larger instances of
its invariants (two delegations; two texts) were explored once, with up to 2.2 million
states, and agree.  In `dictation` two chunks are one that AWS has answered and one still
on its way when the stop comes, and two presses are the stop and the one after it.  In
`kassette_client` the second entry is the one that meets what the first left behind; a
third meets the same.

**Symmetry** is used in the runs `registry` and `lifecycle`, which check invariants and
action properties only, and never with liveness.

**Deadlock** is checked for the registry, where some call is always possible.  Elsewhere
connections, sessions and requests finish and generations are bounded: a final state is
where the system does stop, and `CHECK_DEADLOCK FALSE` says so.  That nobody stops
*earlier* is what the liveness properties are for.

**Fairness.** The event loop runs every task that is ready, hence weak fairness on the
steps an owner, a run task, a closer, the shutdown, or a woken lock waiter can take.  A
cancelled worker ends its run (pipecat); nothing is assumed of a pipeline that a run left
behind.  In `ProviderRuntime` every await on an adapter
returns; building and starting have a deadline of their own (15 s), while `close`,
`setup` and `interrupt` have none, and for those this is an assumption: an adapter whose
`close` hangs blocks the switch lock.  A construction that was given up ends; a
synthesis ends by its deadline of 45 s.  In `TerminalControl` an adapter that is being
started or switched settles by the deadlines above; the sender, which may block on a slow
socket, and the attaching of a connection, which may wait for another's end, get no
fairness: a cancellation ends both.  In `QuicksilverTurns` the handlers, the opening, which
has deadlines, and the close go on, and a write ends or fails; the provider begins to speak
an answer that it was given and ends what it began, for the next answer waits for that, and
a lost connection is noticed.
In `Dictation` every await of the task but the one for the stop has a deadline, and
`asyncio.run` ends.  In `KassetteClient` requests, handshakes and sleeps end; the code gives
the requests no deadline, so for a service that accepts a connection and never answers this
is an assumption.  Nothing is assumed of clients, connections,
errors or cancellations: they happen at any time or never.

### Findings

1. **A failed rollback may leave the session alive.**
   `docs/adr/0004-switch-providers-behind-a-stable-session.md:38` promises FAILED and a
   released lease; if disposing of the rollback's adapter raises
   (`providers/runtime.py:774`), `_fail_session` is skipped.  The run
   `provider_runtime` excludes this raise (`CloseMayRaise`), so that its properties
   say what holds apart from the flaw.
2. **Concurrent requests may synthesize one message twice.**  `tts_api.py:111` promises
   to deduplicate; the finally at 157 forgets the key's lock also while another request
   holds it.
3. **Leaving may leave a session open.**  `docs/plans/pi-kassette.md:11` says that leaving
   ends the voice session.  `exit()` of `packages/pi-kassette/src/index.ts` clears `active`,
   then awaits `client.close()`, which waits for a reconnect in progress.  A user who enters
   again meanwhile gets a second client in the same variable; when the first exit goes on
   (222-225) it forgets that client and takes its surface away, and the next exit has
   nothing to close.  The session stays open, and the device with it, until Pi ends.
### Divergences without a run

Met while modelling; the models contain the behaviour and no run states the promise.

* **Two terminals of a hosted process share the audio hardware.**  `README.md:94` and
  `docs/adr/0008-separate-hosted-runtime-auth-and-session-leases.md:23` say that local and
  terminal audio keep the process-wide lease; the policy follows `runtime_mode` alone
  (`settings.py:185`) and terminals get the session policy in hosted mode.
* **A pause leaves the microphone open with a provider that does not acknowledge it.**
  `docs/adr/0006-delegate-quicksilver-turns-to-pi.md:28` calls the pause an outer gate of
  the terminal runtime, and `README.md:192` says that `Space` toggles the microphone;
  `terminal_runtime.py:95` moves the gate only when the adapter handled `input.pause`, and
  that of Gemini Live does not (`providers/gemini_live/service.py:118`).  `WishIsApplied`
  speaks of adapters that do.
* **An answer may be muted after other output was heard in its place.**  Decision 8 of
  `docs/adr/0007-reconcile-quicksilver-turns-on-the-sideband-stream.md:28` keeps the direct
  answer that was in progress when the client completed blocked to its end, and its line 43
  promises that the first frame of the delegated answer is authorized.  But the first frame
  of *any* output after the answer was armed, a silent one included, authorizes
  (`providers/quicksilver/service.py` 399-401, 699-707), and the call that should stop the
  direct answer does nothing (`transport.py` 213-214): the direct output is let through, its
  `turn.done` takes the authority back (502-505), and the answer that follows is blocked.
  In the model this is a state with `speech = "late"` and neither `authorized` nor `ack`;
  the shortest way there has 12 states.  `AnswerIsHeard` says what does hold: an answer that
  is the next thing the provider says is heard from its first frame.
* **A terminal's pipeline may outlast its replacement.**  `close_terminal_session` says of
  itself (`terminal_runtime.py:48`) that it stops the pipeline before a replacement starts.
  It cancels the worker; what the replacement waits for is the run task, and that awaits
  its pipeline's task last (343-344): when the worker's cancel or the pump has raised, or
  at a second cancellation, it ends without.  The lease is back all the same, so the
  successor starts beside a pipeline that may still be going (14 states in the model).
  `NoOverlappingRuns` says that this is the only way two pipelines of one scope meet.
* **A turn may go without a request.**  A delegation that matches nothing between two turns
  becomes the active one (`service.py` 607), and the next final turn then makes no request of
  its own (452).
* **A reader that died keeps the connection open.**  A write that fails in a handler ends
  the sideband's reader; `_close()` then raises at its await (`transport.py` 235) and skips
  the peer and the HTTP client.  `AnswerGetsOut` and `CloseReleasesConnection` except it.
* **A write that outlasts the next answer** (`WritesOverlap`) may send one answer twice, and
  its failure takes the output from the newer owner.
* **THINKING may stay.**  THINKING to LISTENING is no transition of the registry, so a
  session whose last request ends without speech stays THINKING.
* **A changed request text is not matched.**  Decision 5 of `docs/adr/0007` falls back to the
  single unresolved request when the delegation *omitted or changed* its text; the code (`service.py` 659) does so only when it was omitted.
* **A failed resume is reported as resumed.**  `resume_input` of `aws_transcribe.py` returns
  without a connection and leaves `_input_paused` set; `set_input_paused` (`builtin.py`
  250-255) publishes `paused: false` all the same.
* **A service that nobody stops.**  `docs/plans/pi-kassette.md:57` says that the extension
  kills the process it started.  A client that is left during its first attempt stops
  nothing, and when that attempt fails afterwards `connect()` starts `kassette serve`
  (`client.ts` 87).  `ClosedLeavesNothing` excepts it.
* **A stream that AWS closes early** ends like one that was asked to: the last partial result
  is dropped (`dictation.py` 487-488).  `DeliveredIsComplete` excepts a broken stream.

## 4. What is proved

TLC shows every property of the passing runs on a small instance.  The theorems below say
the same, but for liveness, for every value of the constants: any sets of sessions,
connections, providers, requests, tasks or texts, any length of a queue, any bound.  They
rest on the assumptions the modules declare of their constants, which every run evaluates,
and on nothing else unless a hypothesis is named.  Each invariant is a strengthening that
is inductive; its parts were checked with TLC before they were proved.

| Module | Theorem | Property |
|---|---|---|
| `SessionRegistryProofs` | `RegistryInvariant` | `IInv`, the inductive invariant |
| | `TypeCorrect` | `RegistryTypeOK` |
| | `EndedSessionHoldsNoLease` | `LeaseHeldByLiveSession` |
| | `EndIsFinal` | `TerminalIsFinal` (action property) |
| | `SwitchesAreFenced` | `SwitchIsFenced` (action property) |
| | `RegistryImplementsAudioLease` | `ImplementsAudioLease` (refinement) |
| `SessionLifecycleProofs` | `LifecycleInvariant` | `LifecycleInv`, the inductive invariant |
| | `LifecycleTypesCorrect` | `LifecycleTypeOK` |
| | `RunsDoNotOverlap` | `NoOverlappingRuns` |
| | `LeaseIsFreeAtTheStart` | `StartFindsLeaseFree` |
| | `QuiescenceIsClean` | `QuiescentIsClean` |
| | `OnlyOwnersEndSessions` | `OnlyOwnersEndASession` (action property) |
| `ProviderRuntimeProofs` | `RuntimeInvariant` | `RuntimeInv`, the inductive invariant |
| | `RuntimeTypesCorrect` | `RuntimeTypeOK` |
| | `AtMostOneOpenAdapter` | `OneOpenAdapter` |
| | `LeaseFollowsTheSession` | `LeaseFollowsSession` |
| | `ClosedAdaptersStayClosed` | `AdaptersAreDisposable` (action property) |
| | `IdleSessionIsSettled` | `IdleIsSettled`, if only recovery's disposal raises |
| | `RollbackFailureEndsSession` | `FailedRollbackFailsSession`, if rollback's disposal does not raise |
| `TerminalControlProofs` | `ControlInvariant` | `ControlInv`, the inductive invariant |
| | `ControlTypesCorrect` | `ControlTypeOK` |
| | `WishesAreApplied` | `WishIsApplied` |
| `QuicksilverProofs` | `TurnsInvariant` | `TurnsInv`, the inductive invariant |
| | `RequestsBlockSwitches` | `PendingBlocksSwitch` |
| | `AnswersAreHeard` | `AnswerIsHeard` |
| | `RequestsServeOneTurn` | `TurnsDoNotShareRequests` |
| | `LedgerInvariant` | `TurnsInv` and `LedgerInv`, if no writes overlap |
| | `QuicksilverTypesCorrect` | `QuicksilverTypeOK`, if no writes overlap |
| | `ServiceImplementsLedger` | `ImplementsLedger` (refinement), if no writes overlap |
| `DictationProofs` | `DictationInvariant` | `DictationInv`, the inductive invariant |
| | `DictationTypesCorrect` | `DictationTypeOK` |
| | `TranscriptsAreComplete` | `DeliveredIsComplete` |
| | `ClipboardIsTheUsers` | `ClipboardPreserved` |
| | `RecordingsAreReleased` | `RecordingReleased` |
| `OnDemandTTSProofs` | `LockTableIsTransient` | `LocksAreTransient` |
| | `TTSTypesCorrect` | `TTSTypeOK` |
| `KassetteClientProofs` | `ClientInvariant` | `ClientInv`, the inductive invariant |
| | `ClientTypeCorrect` | `ClientTypeOK` |
| | `ClosedClientHoldsNothing` | `ClosedLeavesNothing` |
| | `ShownConnectionIsTrue` | `ConnectedIsTrue` |

**The hypotheses.**  Three are more than an assumption on constants, and each is where the
code breaks a promise:

* `IdleSessionIsSettled` assumes `CloseMayRaise \subseteq {"recovery"}`.  The disposals of a
  failed adapter at the first start and in the rollback let their error out half-way through
  the operation; the run `provider_runtime` has the same instance.
* `RollbackFailureEndsSession` assumes `"rollback" \notin CloseMayRaise`.  Its property is
  the one that `failed_rollback` refutes: the theorem says that this one call is all that
  breaks the promise of finding 1.
* The ledger's three theorems assume `WritesOverlap = FALSE`, for a write that outlasts the
  client's next answer may send an answer twice (section 3, divergences).  `TurnsInv`, and
  the three safety properties that follow from it, hold with and without.

**The registry.**  `LeaseHeldByLiveSession` is not inductive by itself.  `transition`
drops the lease it finds under *the session's* scope, which is the right one only if a
lease is always filed there (`LeasesInScope`).  And `create` reuses ids: the new
incarnation must not inherit the lease of its predecessor by accident of its number,
hence `GenerationsHandedOut`: no record or lease carries a generation the counter has not
reached, and a lease is never newer than the record of its session.  `IInv` is their
conjunction with the type invariant.  The same facts give the refinement: a created
handle is fresh, and an inherited lease is a predecessor's.  The calls fall into three
shapes, and the proof follows them: calls that rewrite one living record
(`RewritesRecord`), calls that change the table of records, and calls that change the
lease table.

**The lifecycle.**  The properties speak of runs and leases, which many tasks touch; the
invariant says who may touch them.  Only the active entry of a scope runs (`RunsOK`) or
holds its lease, and not past its close (`LeasesOK`).  The entry changes only in the hands
of the connection at the head of the replacement lock (`QueueOK`), which keeps the entry it
replaces until that one's run has ended (`PreviousOK`); an entry that was installed stays
what it was, also in the hands of a shutdown (`ActiveOK`, `EntryOK`, `CapturedOK`).  A
handle names one connection, for ids are reused and generations are not (`HandlesOK`), so a
late closer (`ClosersOK`) meets either its own record or a newer one that its fence keeps
it from (`RecordsOK`).  A pipeline that was left behind is a terminal's (`LeftBehindOK`), whose
id is no other connection's: under the session policy it meets nobody.  `NoOverlappingRuns`
then is `RunsOK` and `LeftBehindOK`, and `StartFindsLeaseFree` is `LeasesOK` at the head of
the lock.  `OnlyOwnersEndASession` is proved of every step from
the same invariant, with the registry's lemmas for the calls a step makes.

**The provider runtime.**  What is open depends on where the holder of the switch lock is,
and a switch, its recovery, its rollback and the first start share most of their steps.
`ControlPoint` lists the awaits the code has, `PlaceOK` says at each which adapter is in
place and which one would be disposed of, and `OpenIsInHand` that no adapter is open but the
one in hand (`InHand`).  Two facts keep old generations out: one above the registry's is
unused, and the one being built is fresh (`GenerationsFresh`); without them a construction
that was given up could be mistaken for the next.  `OrphansEnded`, `ClosingOK` and
`UnstartedOK` bound the life of the runtime: a rollback drops an adapter unclosed only when
the session has ended, after the close only a request is looked at, before the StartFrame
there is nothing.  `SettledInv` is the rest that `IdleIsSettled` needs: registry and runtime
agree on the provider at every point from which a session goes on.

**Terminal control.**  `WishIsApplied` speaks of a moment at which nothing is in flight; the
invariant has to say who brings that moment about.  While the wish differs from what was
acknowledged and there is an adapter to ask, a task started by LISTENING is on its way
(`WishPending`), or the pump is at the request.  Whoever holds the lock asks for the last
wish unless the request that made it is still behind (`HolderAsks`), each waiter is in the
queue once and doing just that (`QueueOK`), and the gate is where the last acknowledgement
put it (`GateFollows`).

**Quicksilver.**  Everything rests on ids that are used once: a turn's own id when the turn
ends, a delegation's when it is handled (`IdsOK`), so what is deferred or still to be
handled is fresh (`DeferredOK`, `TodoOK`) and what is active is bound to no earlier turn
(`BoundOK`).  A turn that takes its request from any of these three can share it with no
other.  `RecordsOK` ties each record of a request the service made itself to what became of
its id, and `PruningOK` bounds the memory of spoken answers: one more than the limit is
there only while the write that prunes it is going on, or when the reader is gone.  As long as the
provider has said nothing since it was given an answer, the output is kept for that answer, or
a silent frame between two outputs has taken it in the answer's place (`OutputOK`): hence
`AnswerIsHeard`.
`LedgerInv` adds an account of every answer: it is free to be sent, or armed and in exactly
one write, or sent and over (`Accounted`), there is one write at a time, and the armed answer
is the output's owner.  The refinement follows step by step, under the mapping of the ledger's
`fate` to the history variable of that name.

**Dictation.**  A transcript is complete because the end marker follows the last chunk
through both queues: it is not made yet, behind the event loop's puts, at the end of the
queue, or through (`FlowOK`), and a stream that did not break ends with all that was sent in
its finals (`StreamOK`); `RawOK` carries that into the transcript.  A recording's parts exist
only at the stages its task closes them from, and `asyncio.run` lets no later task get that
far (`PartsOK`, `ControllerOK`).  `ClipboardOK` says of the clipboard during a paste what the
paste's finally would leave if it ran now, which is what makes a copy, a failure and a
cancellation at any moment the same case.

**On-demand TTS.**  `LocksAreTransient` is inductive together with the types of `pc`, `key`
and `locks` (`IInv`), because a request that leaves clears the entry of its own key, the only
one that can carry its name.  The bound of the cache and that nobody is twice at a lock are
`ServiceInv`: a lock's queue holds just requests in flight that use this very lock
(`QueuesOK`), and the key that is used is moved, never repeated (`CacheOK`).

**The Pi extension.**  The properties lean on each other and on four facts more.  A service's
answer makes a socket, so it must not find one that is open already (`OpenIsSettled`).  Leaving
must find a client that is not closed yet (`ActiveIsOpen`), which rests on entering always
making a client that nothing has happened to (`Fresh`).  And the generation passes that of the
attempt only by what a bad message and `close()` add (`Bounded`), which bounds its type.
All of them are about one client at a time: `Sound(c)` is their conjunction.  Every way an
attempt can fail is one shape of step (`Retries`), with one lemma for all of them;
`OthersStaySound` says once what a client keeps through the steps of the others.

The proof of each invariant has a step per action, or per group of actions that change the
state in one way.

**Only model-checked** are the liveness properties `EveryConnectionIsServed`, `SwitchEnds`,
`EveryRequestEnds`, `CloseEndsRun`, `RequestGetsItsTurn`, `AnswerGetsOut`,
`CloseReleasesConnection`, `StopsWhenAsked` and `ReconnectsEnd`: they rest on fairness, and
fairness and ENABLED are outside the prover's reach.  Every invariant and action property of
a passing run, and both refinements, are proved.  No theorem rests on a recursive definition,
and no module declares one.

## 5. What is not modelled, and the plan

Within the modelled components: `run_session` and `run_cascaded_session` of `bot.py`
(the shape of `run_switchable_session`; no entry point of the service calls them); the construction of
the pipeline, which is one step that succeeds or fails; in `ProviderRuntime` a second
cancellation of a switch that is recovering, a cancellation that lands in the
announcement before the try (429-443), a closer cancelled while it waits for the lock,
the record being reaped under a running runtime; in `Dictation` a microphone whose
stop fails, a second Ctrl-C, and copies between two calls of one synchronous stretch; what
section 2 lists as left out of `QuicksilverTurns` and `KassetteClient`; text of errors, logging, and the wording of events.

What would come next, in the order of importance:

1. Proofs: abstract specifications of the lifecycle and of the provider runtime (a scope
   is one device that is handed from connection to connection; a session has one provider
   that changes while nobody speaks), with their refinement proved from the invariants that
   are there; that a write which overlaps the next answer breaks no more of the ledger than
   section 3 says.
2. The agent runs of the Pi extension and the delegation each one answers
   (`index.ts` 343-353).
3. `ProviderRuntime` extended by the cases listed above, and `TerminalControl` by
   capabilities, output gating, and a pump that failed and leaves the session deaf
   (`terminal_runtime.py:319`).
4. The AWS stream's pause and resume, and the cascade's accounting of speech.  The latter
   counts frames that pipecat's processors queue, drop and reorder on an interruption: it
   needs a model of those queues, which are not this repository's.
5. Gemini Live's delegations, most of whose state is pipecat's.

Out of scope: argument parsing, macOS and hotkey glue, reading credential files,
authentication headers and configuration parsing (pure functions or I/O), the wire
formats of the providers, and the helpers under `scripts/`.

## 6. Running

```
tlasany SessionRegistry.tla
tlc -config MCSessionRegistry.cfg MCSessionRegistry
tlapm SessionRegistryProofs.tla
tlapm SessionLifecycleProofs.tla
tlapm ProviderRuntimeProofs.tla
tlapm TerminalControlProofs.tla
tlapm QuicksilverProofs.tla
tlapm DictationProofs.tla
tlapm OnDemandTTSProofs.tla
tlapm KassetteClientProofs.tla
```

Each row of the table in section 3 is one `.cfg`; `PROJECT.json` gives its module.  The
proof of the lifecycle and that of Quicksilver take the longest, some minutes each.
