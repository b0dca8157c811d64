------------------------------ MODULE Dictation ------------------------------
(***************************************************************************)
(* Toggle dictation: dictation.py under asyncio.run.  Hotkey presses come  *)
(* from a thread of their own and toggle a controller, whose task runs one *)
(* recording at a time: microphone and audio thread, a sender and a        *)
(* receiver of an AWS Transcribe stream, the end of the stream, grooming,  *)
(* and a paste that borrows the user's clipboard.  Ctrl-C ends all of it.  *)
(*                                                                         *)
(* One action is the code between two awaits.  A captured chunk stands for *)
(* some speech; a transcript is how many chunks it covers.                 *)
(***************************************************************************)
EXTENDS Naturals, SequencesExt

CONSTANTS MaxChunks, \* chunks the microphone captures in one recording
          MaxPending \* presses that the event loop has not handled yet

ASSUME BoundsAssumption == {MaxChunks, MaxPending} \subseteq Nat

VARIABLES
  main,      \* run_dictation, and what asyncio.run does after it
  pending,   \* toggles scheduled with call_soon_threadsafe
  state, stop_requested, queued, \* DictationController
  stage, cancelled,    \* its task: the await it is at, and whether it was cancelled
  mic, captured,       \* the microphone, and the chunks it has captured
  ready, audio,        \* puts waiting in the event loop, and the queue _audio
  sender, receiver,    \* the tasks of the stream
  sent, finals, partial, \* chunks AWS was sent, _finals, and what _partial covers
  broken,    \* the stream ended otherwise than by its end marker
  raw,       \* the transcript that finish() returned, and whether it was in time
  clipboard, saved, changed, left

controller_vars == <<state, stop_requested, queued>>
stream_vars == <<ready, audio, sender, receiver, sent, finals, partial, broken>>
recording_vars == <<mic, captured, stream_vars>>
\* changed: the change count is no longer the one write_text() returned.
\* left: a transcript that could not be pasted stays on the clipboard.
paste_vars == <<clipboard, saved, changed, left>>
vars == <<main, pending, controller_vars, stage, cancelled, recording_vars, raw, paste_vars>>

Item == {"chunk", "end"}
Awaiting == {"starting", "waiting", "finishing", "grooming", "pasting"}
NoText == [covers |-> 0, by |-> "none"]

Init ==
  /\ main = "running" /\ pending = 0
  /\ state = "idle" /\ stop_requested = FALSE /\ queued = FALSE
  /\ stage = "none" /\ cancelled = FALSE
  /\ mic = FALSE /\ captured = 0 /\ ready = <<>> /\ audio = <<>>
  /\ sender = "none" /\ receiver = "none"
  /\ sent = 0 /\ finals = 0 /\ partial = 0 /\ broken = FALSE
  /\ raw = NoText
  /\ clipboard = "latest" /\ saved = "none" /\ changed = FALSE /\ left = FALSE
-------------------------------------------------------------------------------
(* The hotkey and the controller.                                           *)

\* The listener's thread hands a press to the event loop.
Press ==
  /\ main = "running" /\ pending < MaxPending
  /\ pending' = pending + 1
  /\ UNCHANGED <<main, controller_vars, stage, cancelled, recording_vars, raw, paste_vars>>

\* _begin(): a task with a recording of its own.
Begin ==
  /\ state' = "recording" /\ stop_requested' = FALSE
  /\ stage' = "created" /\ cancelled' = FALSE

\* Mutant: a stop changes the state but does not wake the task.
StopForgotten == FALSE

StopSet == TRUE

\* toggle()
Toggle ==
  /\ main # "over" /\ pending > 0
  /\ pending' = pending - 1
  /\ \/ state = "idle" /\ Begin /\ UNCHANGED queued
     \/ /\ state = "recording"
        /\ state' = "finalizing" /\ stop_requested' = StopSet
        /\ UNCHANGED <<queued, stage, cancelled>>
     \/ /\ state = "finalizing"
        /\ queued' = ~queued
        /\ UNCHANGED <<state, stop_requested, stage, cancelled>>
  /\ UNCHANGED <<main, recording_vars, raw, paste_vars>>
-------------------------------------------------------------------------------
(* The recording.                                                           *)

Goes(from, to) == stage = from /\ ~cancelled /\ stage' = to

\* Mutant: closing a recording leaves its microphone on.
LeavesMicrophone == mic

MicrophoneAfterClose == FALSE

\* _run() reaches its finally: recording.close() stops the microphone, cancels
\* the stream's tasks and awaits them.
Closes == stage' = "closing" /\ mic' = MicrophoneAfterClose

TaskStarts ==
  /\ Goes("created", "starting")
  /\ captured' = 0 /\ ready' = <<>> /\ audio' = <<>>
  /\ sent' = 0 /\ finals' = 0 /\ partial' = 0 /\ broken' = FALSE
  /\ raw' = NoText
  /\ UNCHANGED <<main, pending, controller_vars, cancelled, mic, sender, receiver,
                 paste_vars>>

\* AWS accepts the stream, and the microphone starts or fails to.  While
\* asyncio.run tears down, nothing arrives from the network any more.
StreamOpens ==
  /\ stage = "starting" /\ ~cancelled /\ main \in {"running", "closing"}
  /\ sender' = "running" /\ receiver' = "running"
  /\ \/ stage' = "waiting" /\ mic' = TRUE
     \/ Closes
  /\ UNCHANGED <<main, pending, controller_vars, cancelled, captured, ready, audio, sent,
                 finals, partial, broken, raw, paste_vars>>

\* Credentials, AWS or the deadline of ten seconds refuse it.
StartFails ==
  /\ stage = "starting" /\ ~cancelled
  /\ Closes
  /\ UNCHANGED <<main, pending, controller_vars, cancelled, captured, stream_vars, raw,
                 paste_vars>>

\* The audio thread.
Captures ==
  /\ mic /\ captured < MaxChunks
  /\ captured' = captured + 1
  /\ ready' = Append(ready, "chunk")
  /\ UNCHANGED <<main, pending, controller_vars, stage, cancelled, mic, audio, sender,
                 receiver, sent, finals, partial, broken, raw, paste_vars>>

\* The event loop runs a put that was scheduled.
Puts ==
  /\ main # "over" /\ ready # <<>>
  /\ audio' = Append(audio, Head(ready)) /\ ready' = Tail(ready)
  /\ UNCHANGED <<main, pending, controller_vars, stage, cancelled, mic, captured, sender,
                 receiver, sent, finals, partial, broken, raw, paste_vars>>

\* _send(): the next chunk, or the end of the stream.
Sends ==
  /\ sender = "running" /\ audio # <<>>
  /\ audio' = Tail(audio)
  /\ IF Head(audio) = "chunk"
     THEN sent' = sent + 1 /\ UNCHANGED sender
     ELSE sender' = "ended" /\ UNCHANGED sent
  /\ UNCHANGED <<main, pending, controller_vars, stage, cancelled, mic, captured, ready,
                 receiver, finals, partial, broken, raw, paste_vars>>

\* _receive(): a partial result, or a final one.
Receives ==
  /\ receiver = "running" /\ sent > finals
  /\ \/ partial' = sent /\ partial # sent /\ UNCHANGED finals
     \/ finals' = sent /\ partial' = 0
  /\ UNCHANGED <<main, pending, controller_vars, stage, cancelled, mic, captured, ready,
                 audio, sender, receiver, sent, broken, raw, paste_vars>>

\* AWS answers the end of the stream with the remaining finals, then closes.
StreamEnds ==
  /\ receiver = "running" /\ sender = "ended" /\ finals = sent
  /\ receiver' = "ended"
  /\ UNCHANGED <<main, pending, controller_vars, stage, cancelled, mic, captured, ready,
                 audio, sender, sent, finals, partial, broken, raw, paste_vars>>

\* The connection breaks, or AWS closes the stream early.
StreamBreaks ==
  /\ broken' = TRUE
  /\ \/ sender = "running" /\ sender' = "failed" /\ UNCHANGED receiver
     \/ /\ receiver = "running" /\ receiver' \in {"failed", "ended"}
        /\ UNCHANGED sender
  /\ UNCHANGED <<main, pending, controller_vars, stage, cancelled, mic, captured, ready,
                 audio, sent, finals, partial, raw, paste_vars>>
-------------------------------------------------------------------------------
(* From the stop to the paste.                                              *)

Done(task) == task \in {"ended", "failed"}

\* Mutant: the end marker overtakes the chunks that wait in the event loop.
MarkedAtOnce ==
  audio' = Append(audio, "end") /\ ready' = ready

\* The marker is scheduled behind the puts of what was captured.
Marked ==
  ready' = Append(ready, "end") /\ audio' = audio

\* Mutant: a stream that breaks off leaves the controller recording.
StillRecording == state

StateAfterStop == "finalizing"

\* interrupted(): the stream ends before it was asked to.
Interrupted == Done(sender) \/ Done(receiver)

\* _wait_stop_or_interruption() and the beginning of finish(): the microphone
\* stops, which joins its callbacks.
StopsRecording ==
  /\ stop_requested \/ Interrupted
  /\ Goes("waiting", "finishing")
  /\ state' = StateAfterStop
  /\ mic' = FALSE /\ Marked
  /\ UNCHANGED <<main, pending, stop_requested, queued, cancelled, captured, sender,
                 receiver, sent, finals, partial, broken, raw, paste_vars>>

\* transcript(): the finals, and the partial unless the stream is finalized.
\* The partial covers what came after the finals.
Transcript(finalized) == IF ~finalized /\ partial > 0 THEN partial ELSE finals

\* finish() has waited for both tasks, or for three seconds.
Finishes(by) ==
  /\ stage = "finishing" /\ ~cancelled
  /\ by = "end" => Done(sender) /\ Done(receiver)
  /\ LET failed == "failed" \in {sender, receiver}
         text == Transcript(Done(receiver) /\ ~failed)
     IN /\ raw' = [covers |-> text, by |-> by]
        /\ IF text > 0 THEN stage' = "grooming" /\ UNCHANGED mic ELSE Closes
  /\ UNCHANGED <<main, pending, controller_vars, cancelled, captured, stream_vars,
                 paste_vars>>

\* groom_transcript() fails open within its deadline; then paste_text() up to
\* the wait after Cmd-V, unless the keystroke cannot be sent.
Pastes ==
  /\ stage = "grooming" /\ ~cancelled
  /\ saved' = clipboard /\ clipboard' = "transcript" /\ changed' = FALSE
  /\ \/ stage' = "pasting" /\ UNCHANGED <<mic, left>>
     \/ Closes /\ left' = TRUE
  /\ UNCHANGED <<main, pending, controller_vars, cancelled, captured, stream_vars, raw>>

\* Mutant: the clipboard is restored over a newer copy.
RestoredAlways == saved

Restored == IF changed THEN clipboard ELSE saved

\* The finally of paste_text().
RestoresClipboard ==
  clipboard' = Restored /\ UNCHANGED <<saved, changed, left>>

Pasted ==
  /\ stage = "pasting" /\ ~cancelled
  /\ RestoresClipboard /\ Closes
  /\ UNCHANGED <<main, pending, controller_vars, cancelled, captured, stream_vars, raw>>

\* A cancellation is raised at whatever the task awaits.
Cancelled ==
  /\ stage \in Awaiting /\ cancelled
  /\ Closes
  /\ IF stage = "pasting" THEN RestoresClipboard ELSE UNCHANGED paste_vars
  /\ UNCHANGED <<main, pending, controller_vars, cancelled, captured, stream_vars, raw>>

\* close() returns once the task it awaits is over.
CloseReturns == main' = IF main = "closing" THEN "draining" ELSE main

\* The rest of the finally, after recording.close(), which swallows a
\* cancellation.
TaskEnds ==
  /\ stage = "closing"
  /\ sender' = "none" /\ receiver' = "none"
  /\ queued' = FALSE
  /\ IF queued THEN Begin
     ELSE /\ state' = "idle" /\ stage' = "none" /\ cancelled' = FALSE
          /\ UNCHANGED stop_requested
  /\ CloseReturns
  /\ UNCHANGED <<pending, mic, captured, ready, audio, sent, finals, partial, broken, raw,
                 paste_vars>>

\* A task that is cancelled before its first step does nothing at all.
TaskNeverRuns ==
  /\ stage = "created" /\ cancelled
  /\ stage' = "none" /\ cancelled' = FALSE
  /\ CloseReturns
  /\ UNCHANGED <<pending, controller_vars, recording_vars, raw, paste_vars>>

\* The user copies something: what clipboard and saved held is no longer the
\* latest.
Copies ==
  /\ clipboard' = "latest" /\ changed' = TRUE /\ left' = FALSE
  /\ saved' = IF saved = "latest" THEN "stale" ELSE saved
  /\ UNCHANGED <<main, pending, controller_vars, stage, cancelled, recording_vars, raw>>
-------------------------------------------------------------------------------
(* The end of the program.                                                  *)

\* Mutant: close() awaits the task without cancelling it.
CloseOnlyAwaits == cancelled

CancelledByClose == stage # "none"

\* Ctrl-C cancels run_dictation: the listener stops, and close() cancels and
\* awaits the task.
Quits ==
  /\ main = "running"
  /\ main' = IF stage = "none" THEN "draining" ELSE "closing"
  /\ queued' = FALSE
  /\ cancelled' = CancelledByClose
  /\ UNCHANGED <<pending, state, stop_requested, stage, recording_vars, raw, paste_vars>>

\* asyncio.run cancels what a late press began.
CancelsAll ==
  /\ main = "draining"
  /\ main' = "cancelling"
  /\ cancelled' = (stage # "none")
  /\ UNCHANGED <<pending, controller_vars, stage, recording_vars, raw, paste_vars>>

\* A task begun after that is dropped with the loop.
Exits ==
  /\ main = "cancelling" /\ ~cancelled
  /\ main' = "over"
  /\ UNCHANGED <<pending, controller_vars, stage, cancelled, recording_vars, raw, paste_vars>>

TaskStep ==
  /\ main # "over"
  /\ \/ TaskStarts \/ StreamOpens \/ StartFails \/ StopsRecording
     \/ Finishes("end") \/ Finishes("timeout") \/ Pastes \/ Pasted
     \/ Cancelled \/ TaskEnds \/ TaskNeverRuns

StreamStep == main # "over" /\ (Sends \/ Receives \/ StreamEnds \/ StreamBreaks)

Next ==
  \/ Press \/ Toggle \/ Copies \/ TaskStep \/ StreamStep
  \/ Captures \/ Puts \/ Quits \/ CancelsAll \/ Exits

\* What is ready runs, and every await of the task but the one for the stop
\* has a deadline.
Spec ==
  /\ Init /\ [][Next]_vars
  /\ WF_vars(TaskStep) /\ WF_vars(CancelsAll) /\ WF_vars(Exits)
-------------------------------------------------------------------------------
\* Type correctness; and the controller's state tells what its task is doing:
\* idle without one, recording until it was asked to stop.
DictationTypeOK ==
  /\ main \in {"running", "closing", "draining", "cancelling", "over"}
  /\ pending \in 0..MaxPending
  /\ state \in {"idle", "recording", "finalizing"}
  /\ {stop_requested, queued, cancelled, mic, broken, changed, left} \subseteq BOOLEAN
  /\ stage \in Awaiting \cup {"none", "created", "closing"}
  /\ captured \in 0..MaxChunks
  /\ ready \in Seq(Item) /\ audio \in Seq(Item) /\ Len(ready) + Len(audio) <= MaxChunks + 1
  /\ {sender, receiver} \subseteq {"none", "running", "ended", "failed"}
  /\ finals <= sent /\ partial <= sent /\ sent <= captured
  /\ raw \in [covers : 0..MaxChunks, by : {"none", "end", "timeout"}]
  /\ clipboard \in {"latest", "stale", "transcript"}
  /\ saved \in {"latest", "stale", "transcript", "none"}
  /\ state = "idle" => stage = "none" /\ ~queued
  /\ stage \in {"finishing", "grooming", "pasting"} => state = "finalizing"
  /\ queued => state = "finalizing"

\* Everything that was captured until the stop is in the transcript, also what
\* was still on its way from the audio thread, unless the stream broke or
\* AWS did not answer within three seconds.
DeliveredIsComplete ==
  raw.by = "end" => raw.covers = captured \/ broken

\* When no paste is going on the clipboard holds what the user copied last:
\* also after a copy during the paste and a paste that was interrupted.  Only a
\* transcript that could not be pasted stays, until the next copy.
ClipboardPreserved ==
  stage # "pasting" => clipboard = "latest" \/ (left /\ clipboard = "transcript")

\* The microphone is off and no stream is left whenever dictation is shown as
\* idle and when the program is over, whichever presses and failures come in
\* between; also presses that begin a recording after close().
RecordingReleased ==
  state = "idle" \/ stage = "none" \/ main = "over" =>
    ~mic /\ "running" \notin {sender, receiver}

\* A recording that was asked to stop is finished, pasted or given up; and once
\* the user quits the program ends, with presses still on their way.
StopsWhenAsked ==
  /\ state = "finalizing" ~> state # "finalizing" \/ main = "over"
  /\ main = "closing" ~> main = "over"
===============================================================================
