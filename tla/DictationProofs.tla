---------------------------- MODULE DictationProofs ----------------------------
(***************************************************************************)
(* Theorems about toggle dictation, for any number of captured chunks and  *)
(* of presses on their way.                                                *)
(*                                                                         *)
(* A transcript is complete because the end marker follows the last chunk  *)
(* through both queues, and the two tasks of the stream end only when the  *)
(* marker and the finals are through.  Nothing of a recording survives it  *)
(* because its parts exist only at the stages its task closes them from,   *)
(* and asyncio.run lets no later task get that far.                        *)
(***************************************************************************)
EXTENDS Dictation, SequenceTheorems, TLAPS

\* Where the task has its stream, or may have it still.
WithStream == {"waiting", "finishing", "grooming", "pasting", "closing"}

ScalarsOK ==
  /\ main \in {"running", "closing", "draining", "cancelling", "over"}
  /\ pending \in 0..MaxPending
  /\ state \in {"idle", "recording", "finalizing"}
  /\ stop_requested \in BOOLEAN /\ queued \in BOOLEAN /\ cancelled \in BOOLEAN
  /\ stage \in Awaiting \cup {"none", "created", "closing"}

\* What the controller shows is what its task is doing.
ControllerOK ==
  /\ state = "idle" => stage = "none" /\ ~queued
  /\ stage \in {"finishing", "grooming", "pasting"} => state = "finalizing"
  /\ queued => state = "finalizing"

\* The microphone is on only while the task waits for the stop, and a stream is
\* open only from there to the close; a task that asyncio.run finds has neither.
PartsOK ==
  /\ mic \in BOOLEAN
  /\ {sender, receiver} \subseteq {"none", "running", "ended", "failed"}
  /\ mic <=> stage = "waiting"
  /\ stage \notin WithStream => sender = "none" /\ receiver = "none"
  /\ main \in {"draining", "cancelling", "over"} =>
       /\ stage \in {"none", "created", "starting", "closing"}
       /\ sender = "none" /\ receiver = "none"

Chunks(q) == \A i \in 1..Len(q) : q[i] = "chunk"
Marker(q) ==
  Len(q) >= 1 /\ q[Len(q)] = "end" /\ \A i \in 1..Len(q) : i # Len(q) => q[i] = "chunk"

\* Where the end marker is: not yet made, behind the puts of the event loop, at the
\* end of the queue, or through.
Unmarked ==
  /\ Chunks(audio) /\ Chunks(ready) /\ sender # "ended"
  /\ sent + Len(audio) + Len(ready) = captured
Behind ==
  /\ Chunks(audio) /\ Marker(ready) /\ sender # "ended" /\ ~mic
  /\ sent + Len(audio) + Len(ready) = captured + 1
AtEnd ==
  /\ Marker(audio) /\ ready = <<>> /\ sender # "ended" /\ ~mic
  /\ sent + Len(audio) = captured + 1
Through == audio = <<>> /\ ready = <<>> /\ sent = captured /\ ~mic

FlowOK ==
  /\ ready \in Seq(Item) /\ audio \in Seq(Item)
  /\ captured \in 0..MaxChunks /\ sent \in 0..MaxChunks
  /\ Unmarked \/ Behind \/ AtEnd \/ Through
  /\ stage = "starting" => ready = <<>> /\ audio = <<>> /\ sent = captured

\* A stream that did not break ends with everything that was sent in its finals.
StreamOK ==
  /\ broken \in BOOLEAN
  /\ finals \in 0..sent /\ partial \in 0..sent
  /\ "failed" \in {sender, receiver} => broken
  /\ receiver = "ended" => broken \/ (sender = "ended" /\ finals = sent)

\* A transcript that came in time is of a stream at its end.
RawOK ==
  /\ raw \in [covers : 0..MaxChunks, by : {"none", "end", "timeout"}]
  /\ stage \in {"starting", "waiting", "finishing"} => raw.by = "none"
  /\ raw.by = "end" => raw.covers = captured \/ broken

\* What the finally of the paste leaves, or would leave now, is the user's.
ClipboardOK ==
  /\ clipboard \in {"latest", "stale", "transcript"}
  /\ saved \in {"latest", "stale", "transcript", "none"}
  /\ changed \in BOOLEAN /\ left \in BOOLEAN
  /\ stage = "pasting" => Restored = "latest" \/ (left /\ Restored = "transcript")
  /\ stage # "pasting" => clipboard = "latest" \/ (left /\ clipboard = "transcript")

DictationInv ==
  ScalarsOK /\ ControllerOK /\ PartsOK /\ FlowOK /\ StreamOK /\ RawOK /\ ClipboardOK
-------------------------------------------------------------------------------
(* Queues of chunks.                                                        *)

\* A chunk that comes in joins chunks, and the marker closes them.
LEMMA ItemComesIn ==
  ASSUME NEW q \in Seq(Item), NEW x \in Item, Chunks(q)
  PROVE  /\ Append(q, x) \in Seq(Item) /\ Len(Append(q, x)) = Len(q) + 1
         /\ x = "chunk" => Chunks(Append(q, x))
         /\ x = "end" => Marker(Append(q, x))
<1>. DEFINE r == Append(q, x)
<1>1. /\ r \in Seq(Item) /\ Len(r) = Len(q) + 1 /\ Len(q) \in Nat
      /\ \A i \in 1..Len(q) : r[i] = q[i]
      /\ r[Len(q) + 1] = x
  BY AppendProperties
<1>. HIDE DEF r
<1>2. \A j \in 1..Len(r) : j \in 1..Len(q) \/ j = Len(r)
  BY <1>1
<1>3. \A j \in 1..Len(r) : j # Len(r) => r[j] = "chunk"
  BY <1>1, <1>2 DEF Chunks
<1>4. x = "chunk" => Chunks(r)
  BY <1>1, <1>3 DEF Chunks
<1>5. x = "end" => Marker(r)
  BY <1>1, <1>3 DEF Marker
<1>. QED BY <1>1, <1>4, <1>5 DEF r

\* What goes out is a chunk, unless the marker is all there is.
LEMMA ItemGoesOut ==
  ASSUME NEW q \in Seq(Item), q # <<>>
  PROVE  /\ Tail(q) \in Seq(Item) /\ Len(Tail(q)) = Len(q) - 1 /\ Len(q) \in Nat \ {0}
         /\ Head(q) \in Item
         /\ Chunks(q) => Head(q) = "chunk" /\ Chunks(Tail(q))
         /\ Marker(q) => \/ Head(q) = "end" /\ Tail(q) = <<>> /\ Len(q) = 1
                         \/ Head(q) = "chunk" /\ Marker(Tail(q)) /\ Len(q) > 1
<1>. DEFINE r == Tail(q)
<1>1. /\ r \in Seq(Item) /\ Len(r) = Len(q) - 1 /\ Len(q) \in Nat \ {0}
      /\ \A j \in 1..Len(r) : r[j] = q[j + 1]
      /\ Head(q) = q[1] /\ Head(q) \in Item
  BY HeadTailProperties
<1>. HIDE DEF r
<1>2. 1 \in 1..Len(q) /\ \A j \in 1..Len(r) : j + 1 \in 1..Len(q)
  BY <1>1
<1>3. Chunks(q) => Head(q) = "chunk" /\ Chunks(r)
  BY <1>1, <1>2 DEF Chunks
<1>4. ASSUME Marker(q), Len(q) = 1 PROVE Head(q) = "end" /\ r = <<>>
  <2>1. r # <<>> => Len(r) \in Nat \ {0}
    BY <1>1, EmptySeq, Zenon
  <2>. QED BY <1>1, <1>4, <2>1 DEF Marker
<1>5. ASSUME Marker(q), Len(q) # 1 PROVE Head(q) = "chunk" /\ Marker(r) /\ Len(q) > 1
  <2>1. Head(q) = "chunk" /\ Len(q) > 1 /\ Len(r) \in Nat \ {0}
    BY <1>1, <1>2, <1>5 DEF Marker
  <2>2. r[Len(r)] = "end"
    <3>1. Len(r) \in 1..Len(r) /\ Len(r) + 1 = Len(q)
      BY <1>1, <2>1
    <3>. QED BY <1>1, <1>5, <3>1 DEF Marker
  <2>3. \A j \in 1..Len(r) : j # Len(r) => r[j] = "chunk"
    BY <1>1, <1>2, <1>5 DEF Marker
  <2>. QED BY <2>1, <2>2, <2>3 DEF Marker
<1>. QED BY <1>1, <1>3, <1>4, <1>5 DEF r
-------------------------------------------------------------------------------
(* The flow of chunks.                                                      *)

\* Steps that leave both queues and what was captured and sent alone.
LEMMA FlowStays ==
  ASSUME DictationInv, UNCHANGED <<ready, audio, captured, sent>>,
         mic' => mic \/ stage = "starting", sender' = "ended" => sender = "ended",
         stage = "starting" => sender' # "ended",
         stage' = "starting" => stage = "starting"
  PROVE  FlowOK'
<1>1. CASE stage = "starting"
  <2>1. ready = <<>> /\ audio = <<>> /\ sent = captured /\ Len(<<>>) = 0 /\ sent \in Nat
    BY <1>1 DEF DictationInv, FlowOK
  <2>2. Chunks(<<>>)
    BY DEF Chunks
  <2>3. Unmarked'
    BY <1>1, <2>1, <2>2 DEF Unmarked
  <2>. QED BY <2>1, <2>3 DEF DictationInv, FlowOK
<1>2. CASE stage # "starting"
  BY <1>2 DEF DictationInv, FlowOK, Unmarked, Behind, AtEnd, Through
<1>. QED BY <1>1, <1>2

\* The audio thread captures a chunk.
LEMMA CapturesKeepsFlow ==
  ASSUME DictationInv, Captures
  PROVE  FlowOK'
<1>1. /\ mic /\ captured < MaxChunks /\ captured' = captured + 1
      /\ ready' = Append(ready, "chunk")
      /\ UNCHANGED <<stage, audio, sender, sent>>
  BY DEF Captures
<1>2. Unmarked /\ stage # "starting" /\ ready \in Seq(Item) /\ audio \in Seq(Item)
  BY <1>1 DEF DictationInv, FlowOK, PartsOK, Behind, AtEnd, Through
<1>3. ready' \in Seq(Item) /\ Len(ready') = Len(ready) + 1 /\ Chunks(ready')
  BY <1>1, <1>2, ItemComesIn DEF Unmarked, Item
<1>4. /\ Len(ready) \in Nat /\ Len(audio) \in Nat
      /\ captured \in 0..MaxChunks /\ sent \in 0..MaxChunks /\ MaxChunks \in Nat
  BY <1>2, LenProperties, BoundsAssumption DEF DictationInv, FlowOK
<1>5. captured' \in 0..MaxChunks /\ sent' + Len(audio') + Len(ready') = captured'
  BY <1>1, <1>2, <1>3, <1>4 DEF Unmarked
<1>. QED BY <1>1, <1>2, <1>3, <1>4, <1>5 DEF FlowOK, Unmarked

\* A put that was scheduled moves the next item, or at last the marker, on.
LEMMA PutsKeepsFlow ==
  ASSUME DictationInv, Puts
  PROVE  FlowOK'
<1>1. /\ ready # <<>> /\ audio' = Append(audio, Head(ready)) /\ ready' = Tail(ready)
      /\ UNCHANGED <<stage, mic, captured, sender, sent>>
  BY DEF Puts
<1>2. /\ ready \in Seq(Item) /\ audio \in Seq(Item) /\ stage # "starting"
      /\ captured \in 0..MaxChunks /\ sent \in 0..MaxChunks /\ Len(audio) \in Nat
      /\ MaxChunks \in Nat
      /\ Unmarked \/ Behind
  BY <1>1, LenProperties, BoundsAssumption DEF DictationInv, FlowOK, AtEnd, Through
<1>3. Chunks(audio)
  BY <1>2 DEF Unmarked, Behind
<1>4. /\ ready' \in Seq(Item) /\ Len(ready') = Len(ready) - 1 /\ Len(ready) \in Nat \ {0}
      /\ Head(ready) \in Item
      /\ Chunks(ready) => Head(ready) = "chunk" /\ Chunks(ready')
      /\ Marker(ready) => \/ Head(ready) = "end" /\ ready' = <<>> /\ Len(ready) = 1
                          \/ Head(ready) = "chunk" /\ Marker(ready') /\ Len(ready) > 1
  BY <1>1, <1>2, ItemGoesOut
<1>5. /\ audio' \in Seq(Item) /\ Len(audio') = Len(audio) + 1
      /\ Head(ready) = "chunk" => Chunks(audio')
      /\ Head(ready) = "end" => Marker(audio')
  BY <1>1, <1>2, <1>3, <1>4, ItemComesIn
<1>6. CASE Unmarked
  <2>1. Chunks(audio') /\ Chunks(ready')
    BY <1>4, <1>5, <1>6, Zenon DEF Unmarked
  <2>2. sent + Len(audio') + Len(ready') = captured
    BY <1>2, <1>4, <1>5, <1>6 DEF Unmarked
  <2>3. Unmarked'
    BY <1>1, <1>6, <2>1, <2>2 DEF Unmarked
  <2>. QED BY <1>1, <1>2, <1>4, <1>5, <2>3 DEF FlowOK
<1>7. CASE Behind
  <2>1. CASE Head(ready) = "end" /\ ready' = <<>> /\ Len(ready) = 1
    <3>1. Marker(audio') /\ sent + Len(audio') = captured + 1
      BY <1>2, <1>4, <1>5, <1>7, <2>1 DEF Behind
    <3>2. AtEnd'
      BY <1>1, <1>7, <2>1, <3>1 DEF Behind, AtEnd
    <3>. QED BY <1>1, <1>2, <1>4, <1>5, <3>2 DEF FlowOK
  <2>2. CASE Head(ready) = "chunk" /\ Marker(ready')
    <3>1. Chunks(audio') /\ sent + Len(audio') + Len(ready') = captured + 1
      BY <1>2, <1>4, <1>5, <1>7, <2>2 DEF Behind
    <3>2. Behind'
      BY <1>1, <1>7, <2>2, <3>1 DEF Behind
    <3>. QED BY <1>1, <1>2, <1>4, <1>5, <3>2 DEF FlowOK
  <2>. QED BY <1>4, <1>7, <2>1, <2>2, Zenon DEF Behind
<1>. QED BY <1>2, <1>6, <1>7

\* The sender takes a chunk, or the marker once every chunk is sent.
LEMMA SendsKeepsFlow ==
  ASSUME DictationInv, Sends
  PROVE  FlowOK' /\ sent' \in {sent, sent + 1}
<1>1. /\ audio # <<>> /\ audio' = Tail(audio) /\ sender = "running"
      /\ Head(audio) = "chunk" => sent' = sent + 1 /\ sender' = sender
      /\ Head(audio) # "chunk" => sender' = "ended" /\ sent' = sent
      /\ UNCHANGED <<stage, mic, captured, ready>>
  BY DEF Sends
<1>2. /\ ready \in Seq(Item) /\ audio \in Seq(Item) /\ stage # "starting"
      /\ captured \in 0..MaxChunks /\ sent \in 0..MaxChunks
      /\ Len(ready) \in Nat /\ MaxChunks \in Nat
      /\ Unmarked \/ Behind \/ AtEnd
  BY <1>1, LenProperties, BoundsAssumption DEF DictationInv, FlowOK, Through
<1>3. /\ audio' \in Seq(Item) /\ Len(audio') = Len(audio) - 1 /\ Len(audio) \in Nat \ {0}
      /\ Chunks(audio) => Head(audio) = "chunk" /\ Chunks(audio')
      /\ Marker(audio) => \/ Head(audio) = "end" /\ audio' = <<>> /\ Len(audio) = 1
                          \/ Head(audio) = "chunk" /\ Marker(audio') /\ Len(audio) > 1
  BY <1>1, <1>2, ItemGoesOut
<1>4. CASE Unmarked
  <2>1. Unmarked' /\ sent' \in 0..MaxChunks
    BY <1>1, <1>2, <1>3, <1>4 DEF Unmarked
  <2>. QED BY <1>1, <1>2, <1>3, <1>4, <2>1 DEF FlowOK, Unmarked
<1>5. CASE Behind
  <2>1. Len(ready) >= 1 /\ Head(audio) = "chunk"
    BY <1>3, <1>5 DEF Behind, Marker
  <2>2. Behind' /\ sent' \in 0..MaxChunks
    BY <1>1, <1>2, <1>3, <1>5, <2>1 DEF Behind
  <2>. QED BY <1>1, <1>2, <1>3, <2>1, <2>2 DEF FlowOK
<1>6. CASE AtEnd
  <2>1. CASE Head(audio) = "chunk"
    <3>1. AtEnd' /\ sent' \in 0..MaxChunks
      BY <1>1, <1>2, <1>3, <1>6, <2>1 DEF AtEnd
    <3>. QED BY <1>1, <1>2, <1>3, <2>1, <3>1 DEF FlowOK
  <2>2. CASE Head(audio) # "chunk"
    <3>1. Through'
      BY <1>1, <1>2, <1>3, <1>6, <2>2 DEF AtEnd, Through
    <3>. QED BY <1>1, <1>2, <1>3, <2>2, <3>1 DEF FlowOK
  <2>. QED BY <2>1, <2>2
<1>. QED BY <1>2, <1>4, <1>5, <1>6

\* The stop puts the marker behind the chunks that still wait in the event loop.
LEMMA StopsRecordingKeepsFlow ==
  ASSUME DictationInv, StopsRecording
  PROVE  FlowOK'
<1>1. /\ stage = "waiting" /\ stage' = "finishing" /\ mic' = FALSE
      /\ ready' = Append(ready, "end") /\ audio' = audio
      /\ UNCHANGED <<captured, sender, sent>>
  BY DEF StopsRecording, Goes, Marked
<1>2. Unmarked /\ ready \in Seq(Item) /\ audio \in Seq(Item)
  BY <1>1 DEF DictationInv, FlowOK, PartsOK, Behind, AtEnd, Through
<1>3. ready' \in Seq(Item) /\ Len(ready') = Len(ready) + 1 /\ Marker(ready')
  BY <1>1, <1>2, ItemComesIn DEF Unmarked, Item
<1>4. /\ Len(ready) \in Nat /\ Len(audio) \in Nat
      /\ captured \in 0..MaxChunks /\ sent \in 0..MaxChunks /\ MaxChunks \in Nat
  BY <1>2, LenProperties, BoundsAssumption DEF DictationInv, FlowOK
<1>5. Behind'
  BY <1>1, <1>2, <1>3, <1>4 DEF Behind, Unmarked
<1>. QED BY <1>1, <1>2, <1>3, <1>4, <1>5 DEF FlowOK

\* A new recording starts with queues of its own.
LEMMA TaskStartsKeepsFlow ==
  ASSUME DictationInv, TaskStarts
  PROVE  FlowOK'
<1>1. /\ captured' = 0 /\ ready' = <<>> /\ audio' = <<>> /\ sent' = 0
      /\ stage = "created" /\ mic' = mic /\ <<>> \in Seq(Item)
  BY DEF TaskStarts, Goes
<1>2. Through'
  BY <1>1 DEF DictationInv, PartsOK, Through
<1>. QED BY <1>1, <1>2, BoundsAssumption DEF FlowOK
-------------------------------------------------------------------------------
(* The controller and its task.                                             *)

\* Steps of the controller's owner, of the user and of the program's end keep the
\* controller's state true to its task.
LEMMA ControllerKept ==
  ASSUME DictationInv, Next
  PROVE  ScalarsOK' /\ ControllerOK'
<1>. USE DEF DictationInv, ScalarsOK, ControllerOK
<1>1. CASE Press
  BY <1>1, BoundsAssumption DEF Press, controller_vars
<1>2. CASE Toggle
  <2>1. pending' \in 0..MaxPending /\ main' = main
    BY <1>2, BoundsAssumption DEF Toggle
  <2>2. CASE state = "idle" /\ Begin /\ UNCHANGED queued
    BY <2>1, <2>2 DEF Begin, Awaiting
  <2>3. CASE /\ state = "recording"
             /\ state' = "finalizing" /\ stop_requested' = StopSet
             /\ UNCHANGED <<queued, stage, cancelled>>
    BY <2>1, <2>3 DEF StopSet
  <2>4. CASE /\ state = "finalizing"
             /\ queued' = ~queued
             /\ UNCHANGED <<state, stop_requested, stage, cancelled>>
    BY <2>1, <2>4
  <2>. QED BY <1>2, <2>2, <2>3, <2>4 DEF Toggle
<1>3. CASE Copies \/ StreamStep \/ Captures \/ Puts
  BY <1>3 DEF Copies, StreamStep, Sends, Receives, StreamEnds, StreamBreaks, Captures, Puts,
              controller_vars
<1>4. CASE TaskStarts \/ StreamOpens \/ StartFails
  BY <1>4 DEF TaskStarts, StreamOpens, StartFails, Goes, Closes, controller_vars, Awaiting
<1>5. CASE StopsRecording
  BY <1>5 DEF StopsRecording, Goes, StateAfterStop, Awaiting
<1>6. CASE Finishes("end") \/ Finishes("timeout")
  BY <1>6 DEF Finishes, Closes, controller_vars, Awaiting
<1>7. CASE Pastes \/ Pasted \/ Cancelled
  BY <1>7 DEF Pastes, Pasted, Cancelled, Closes, controller_vars, Awaiting
<1>8. CASE TaskEnds
  <2>1. /\ main' \in {"running", "closing", "draining", "cancelling", "over"}
        /\ pending' = pending /\ queued' = FALSE
    BY <1>8 DEF TaskEnds, CloseReturns
  <2>2. CASE Begin
    BY <2>1, <2>2 DEF Begin
  <2>3. CASE state' = "idle" /\ stage' = "none" /\ cancelled' = FALSE /\ UNCHANGED stop_requested
    BY <2>1, <2>3
  <2>. QED BY <1>8, <2>2, <2>3 DEF TaskEnds
<1>9. CASE TaskNeverRuns
  BY <1>9 DEF TaskNeverRuns, CloseReturns, controller_vars
<1>10. CASE Quits
  BY <1>10 DEF Quits, CancelledByClose
<1>11. CASE CancelsAll
  BY <1>11 DEF CancelsAll, controller_vars
<1>12. CASE Exits
  BY <1>12 DEF Exits, controller_vars
<1>. QED BY <1>1, <1>2, <1>3, <1>4, <1>5, <1>6, <1>7, <1>8, <1>9, <1>10, <1>11,
         <1>12 DEF Next, TaskStep

\* The microphone and the stream live and die with the stages of the task.
LEMMA PartsKept ==
  ASSUME DictationInv, Next
  PROVE  PartsOK'
<1>. USE DEF DictationInv, PartsOK, WithStream
<1>1. CASE Press \/ Copies \/ Captures \/ Puts
  BY <1>1 DEF Press, Copies, Captures, Puts, recording_vars, stream_vars
<1>2. CASE Toggle
  BY <1>2 DEF Toggle, Begin, recording_vars, stream_vars, ControllerOK
<1>3. CASE StreamStep
  BY <1>3 DEF StreamStep, Sends, Receives, StreamEnds, StreamBreaks
<1>4. CASE TaskStarts
  BY <1>4 DEF TaskStarts, Goes
<1>5. CASE StreamOpens
  BY <1>5 DEF StreamOpens, Closes, MicrophoneAfterClose
<1>6. CASE StartFails
  BY <1>6 DEF StartFails, Closes, MicrophoneAfterClose, stream_vars
<1>7. CASE StopsRecording
  BY <1>7 DEF StopsRecording, Goes
<1>8. CASE Finishes("end") \/ Finishes("timeout")
  BY <1>8 DEF Finishes, Closes, MicrophoneAfterClose, stream_vars
<1>9. CASE Pastes \/ Pasted
  <2>1. /\ stage \in {"grooming", "pasting"} /\ UNCHANGED <<main, sender, receiver>>
        /\ stage' \in {"pasting", "closing"} /\ mic' \in {mic, FALSE}
    BY <1>9 DEF Pastes, Pasted, Closes, MicrophoneAfterClose, stream_vars
  <2>2. mic = FALSE
    BY <2>1
  <2>3. mic' = FALSE
    BY <2>1, <2>2
  <2>. QED BY <2>1, <2>3
<1>10. CASE Cancelled
  BY <1>10 DEF Cancelled, Closes, MicrophoneAfterClose, stream_vars, Awaiting
<1>11. CASE TaskEnds
  BY <1>11 DEF TaskEnds, Begin, CloseReturns
<1>12. CASE TaskNeverRuns
  BY <1>12 DEF TaskNeverRuns, CloseReturns, recording_vars, stream_vars
<1>13. CASE Quits \/ CancelsAll \/ Exits
  BY <1>13 DEF Quits, CancelsAll, Exits, recording_vars, stream_vars
<1>. QED BY <1>1, <1>2, <1>3, <1>4, <1>5, <1>6, <1>7, <1>8, <1>9, <1>10, <1>11, <1>12, <1>13
         DEF Next, TaskStep

\* Chunks and marker flow in order through every step.
LEMMA FlowKept ==
  ASSUME DictationInv, Next
  PROVE  FlowOK'
<1>. USE DEF DictationInv, PartsOK
<1>1. CASE Press \/ Copies \/ Toggle \/ Quits \/ CancelsAll \/ Exits \/ TaskNeverRuns
  <2>1. UNCHANGED <<ready, audio, captured, sent, mic, sender>>
    BY <1>1 DEF Press, Copies, Toggle, Quits, CancelsAll, Exits, TaskNeverRuns, recording_vars,
                stream_vars
  <2>2. stage' = stage \/ stage' \in {"created", "none"}
    BY <1>1 DEF Press, Copies, Toggle, Begin, Quits, CancelsAll, Exits, TaskNeverRuns
  <2>. QED BY <2>1, <2>2, FlowStays DEF WithStream
<1>2. CASE Captures
  BY <1>2, CapturesKeepsFlow
<1>3. CASE Puts
  BY <1>3, PutsKeepsFlow
<1>4. CASE Sends
  BY <1>4, SendsKeepsFlow
<1>5. CASE Receives \/ StreamEnds \/ StreamBreaks
  BY <1>5, FlowStays DEF Receives, StreamEnds, StreamBreaks, WithStream
<1>6. CASE TaskStarts
  BY <1>6, TaskStartsKeepsFlow
<1>7. CASE StreamOpens
  BY <1>7, FlowStays DEF StreamOpens, Closes, MicrophoneAfterClose, WithStream
<1>8. CASE StopsRecording
  BY <1>8, StopsRecordingKeepsFlow
<1>9. CASE StartFails \/ Finishes("end") \/ Finishes("timeout")
  BY <1>9, FlowStays DEF StartFails, Finishes, Closes, MicrophoneAfterClose, stream_vars,
                         WithStream
<1>10. CASE Pastes \/ Pasted \/ Cancelled
  BY <1>10, FlowStays DEF Pastes, Pasted, Cancelled, Closes, MicrophoneAfterClose, stream_vars,
                          WithStream
<1>11. CASE TaskEnds
  BY <1>11, FlowStays DEF TaskEnds, Begin
<1>. QED BY <1>1, <1>2, <1>3, <1>4, <1>5, <1>6, <1>7, <1>8, <1>9, <1>10, <1>11
         DEF Next, TaskStep, StreamStep

\* The stream's tasks end with everything in the finals, or the stream is broken.
LEMMA StreamKept ==
  ASSUME DictationInv, Next
  PROVE  StreamOK'
<1>. USE DEF DictationInv, PartsOK, StreamOK
<1>0. sent \in Nat /\ finals \in Nat /\ partial \in Nat
  BY DEF FlowOK
<1>1. CASE UNCHANGED <<sender, receiver, sent, finals, partial, broken>>
  BY <1>1
<1>2. CASE Press \/ Copies \/ Toggle \/ Captures \/ Puts
  BY <1>1, <1>2 DEF Press, Copies, Toggle, Captures, Puts, recording_vars, stream_vars
<1>3. CASE Quits \/ CancelsAll \/ Exits \/ TaskNeverRuns
  BY <1>1, <1>3 DEF Quits, CancelsAll, Exits, TaskNeverRuns, recording_vars, stream_vars
<1>4. CASE Sends
  <2>1. /\ UNCHANGED <<receiver, finals, partial, broken>> /\ sender = "running"
        /\ sender' \in {"running", "ended"}
    BY <1>4 DEF Sends
  <2>2. sent' \in {sent, sent + 1}
    BY <1>4, SendsKeepsFlow
  <2>. QED BY <1>0, <2>1, <2>2
<1>5. CASE Receives
  BY <1>0, <1>5 DEF Receives
<1>6. CASE StreamEnds
  BY <1>0, <1>6 DEF StreamEnds
<1>7. CASE StreamBreaks
  BY <1>7 DEF StreamBreaks
<1>8. CASE TaskStarts
  <2>1. /\ sent' = 0 /\ finals' = 0 /\ partial' = 0 /\ broken' = FALSE
        /\ sender' = "none" /\ receiver' = "none"
    BY <1>8 DEF TaskStarts, Goes, WithStream
  <2>2. finals' \in 0..sent' /\ partial' \in 0..sent'
    BY <2>1
  <2>3. ~("failed" \in {sender', receiver'})
    BY <2>1
  <2>. QED BY <2>1, <2>2, <2>3
<1>9. CASE StreamOpens
  BY <1>9 DEF StreamOpens
<1>10. CASE StartFails \/ StopsRecording \/ Finishes("end") \/ Finishes("timeout")
  BY <1>1, <1>10 DEF StartFails, StopsRecording, Finishes, stream_vars
<1>11. CASE Pastes \/ Pasted \/ Cancelled
  BY <1>1, <1>11 DEF Pastes, Pasted, Cancelled, stream_vars
<1>12. CASE TaskEnds
  BY <1>12 DEF TaskEnds
<1>. QED BY <1>2, <1>3, <1>4, <1>5, <1>6, <1>7, <1>8, <1>9, <1>10, <1>11, <1>12
         DEF Next, TaskStep, StreamStep

\* finish() in time has everything that was captured, unless the stream broke.
LEMMA FinishesKeepsRaw ==
  ASSUME DictationInv, NEW by \in {"end", "timeout"}, Finishes(by)
  PROVE  RawOK'
<1>. DEFINE text == Transcript(Done(receiver) /\ ~("failed" \in {sender, receiver}))
<1>1. /\ raw' = [covers |-> text, by |-> by]
      /\ stage = "finishing" /\ stage' \in {"grooming", "closing"}
      /\ UNCHANGED <<captured, sender, receiver, sent, finals, partial, broken>>
      /\ by = "end" => Done(sender) /\ Done(receiver)
  BY DEF Finishes, Closes, stream_vars
<1>2. text \in 0..MaxChunks
  BY BoundsAssumption DEF DictationInv, FlowOK, StreamOK, Transcript
<1>3. ASSUME by = "end", ~broken PROVE text = captured
  <2>1. sender = "ended" /\ receiver = "ended" /\ finals = sent
    BY <1>1, <1>3 DEF DictationInv, StreamOK, Done
  <2>2. Through
    BY <2>1 DEF DictationInv, FlowOK, Unmarked, Behind, AtEnd
  <2>. QED BY <2>1, <2>2 DEF Through, Transcript, Done
<1>. QED BY <1>1, <1>2, <1>3 DEF RawOK

\* A transcript stays what it was until the next recording.
LEMMA RawKept ==
  ASSUME DictationInv, Next
  PROVE  RawOK'
<1>. USE DEF DictationInv, RawOK
<1>1. ASSUME UNCHANGED <<raw, captured>>, broken => broken',
             stage' \in {"starting", "waiting", "finishing"} =>
               stage \in {"starting", "waiting", "finishing"}
      PROVE  RawOK'
  BY <1>1
<1>2. CASE Press \/ Copies \/ Toggle \/ Puts \/ StreamStep
  BY <1>1, <1>2 DEF Press, Copies, Toggle, Begin, Puts, StreamStep, Sends, Receives, StreamEnds,
                    StreamBreaks, recording_vars, stream_vars
<1>3. CASE Captures
  BY <1>3 DEF Captures, PartsOK
<1>4. CASE Quits \/ CancelsAll \/ Exits \/ TaskNeverRuns
  BY <1>1, <1>4 DEF Quits, CancelsAll, Exits, TaskNeverRuns, recording_vars, stream_vars
<1>5. CASE TaskStarts
  BY <1>5, BoundsAssumption DEF TaskStarts, NoText
<1>6. CASE StreamOpens
  BY <1>6 DEF StreamOpens, Closes
<1>7. CASE StartFails \/ StopsRecording
  BY <1>1, <1>7 DEF StartFails, StopsRecording, Goes, Closes, stream_vars
<1>8. CASE Finishes("end") \/ Finishes("timeout")
  BY <1>8, FinishesKeepsRaw
<1>9. CASE Pastes \/ Pasted \/ Cancelled
  BY <1>1, <1>9 DEF Pastes, Pasted, Cancelled, Closes, stream_vars
<1>10. CASE TaskEnds
  BY <1>1, <1>10 DEF TaskEnds, Begin
<1>. QED BY <1>2, <1>3, <1>4, <1>5, <1>6, <1>7, <1>8, <1>9, <1>10 DEF Next, TaskStep

\* The clipboard is given back whichever way the paste ends.
LEMMA ClipboardKept ==
  ASSUME DictationInv, Next
  PROVE  ClipboardOK'
<1>. USE DEF DictationInv, ClipboardOK, Restored
<1>1. ASSUME UNCHANGED paste_vars, stage' = "pasting" <=> stage = "pasting"
      PROVE  ClipboardOK'
  BY <1>1 DEF paste_vars
<1>2. CASE Press \/ Captures \/ Puts \/ StreamStep
  BY <1>1, <1>2 DEF Press, Captures, Puts, StreamStep, Sends, Receives, StreamEnds, StreamBreaks
<1>3. CASE Toggle
  BY <1>1, <1>3 DEF Toggle, Begin, ControllerOK
<1>4. CASE Copies
  BY <1>4 DEF Copies
<1>5. CASE Quits \/ CancelsAll \/ Exits \/ TaskNeverRuns
  BY <1>1, <1>5 DEF Quits, CancelsAll, Exits, TaskNeverRuns
<1>6. CASE TaskStarts \/ StreamOpens \/ StartFails \/ StopsRecording
  BY <1>1, <1>6 DEF TaskStarts, StreamOpens, StartFails, StopsRecording, Goes, Closes
<1>7. CASE Finishes("end") \/ Finishes("timeout")
  BY <1>1, <1>7 DEF Finishes, Closes
<1>8. CASE Pastes
  <2>1. /\ clipboard = "latest" \/ (left /\ clipboard = "transcript")
        /\ saved' = clipboard /\ clipboard' = "transcript" /\ changed' = FALSE
    BY <1>8 DEF Pastes
  <2>2. CASE stage' = "pasting" /\ left' = left
    BY <2>1, <2>2
  <2>3. CASE stage' = "closing" /\ left' = TRUE
    BY <2>1, <2>3
  <2>. QED BY <1>8, <2>2, <2>3 DEF Pastes, Closes
<1>9. CASE Pasted
  BY <1>9 DEF Pasted, RestoresClipboard, Closes
<1>10. CASE Cancelled
  BY <1>1, <1>10 DEF Cancelled, RestoresClipboard, Closes
<1>11. CASE TaskEnds
  BY <1>1, <1>11 DEF TaskEnds, Begin
<1>. QED BY <1>2, <1>3, <1>4, <1>5, <1>6, <1>7, <1>8, <1>9, <1>10, <1>11 DEF Next, TaskStep
-------------------------------------------------------------------------------
(* The theorems.                                                            *)

\* The inductive invariant holds in every reachable state.
THEOREM DictationInvariant == Spec => []DictationInv
<1>1. Init => DictationInv
  <2>. SUFFICES ASSUME Init PROVE DictationInv
    OBVIOUS
  <2>0. 0 \in 0..MaxPending /\ 0 \in 0..MaxChunks
    BY BoundsAssumption
  <2>1. ScalarsOK /\ ControllerOK
    BY <2>0 DEF Init, ScalarsOK, ControllerOK
  <2>2. PartsOK
    BY DEF Init, PartsOK, WithStream
  <2>3. FlowOK
    BY BoundsAssumption DEF Init, FlowOK, Through
  <2>4. StreamOK /\ RawOK
    <3>1. finals \in 0..sent /\ partial \in 0..sent
      BY DEF Init
    <3>2. StreamOK
      BY <3>1 DEF Init, StreamOK
    <3>. QED BY <2>0, <3>2 DEF Init, RawOK, NoText
  <2>5. ClipboardOK
    BY DEF Init, ClipboardOK
  <2>. QED BY <2>1, <2>2, <2>3, <2>4, <2>5 DEF DictationInv
<1>2. DictationInv /\ [Next]_vars => DictationInv'
  <2>1. ASSUME DictationInv, Next PROVE DictationInv'
    BY <2>1, ControllerKept, PartsKept, FlowKept, StreamKept, RawKept, ClipboardKept
    DEF DictationInv
  <2>2. ASSUME DictationInv, UNCHANGED vars PROVE DictationInv'
    <3>1. UNCHANGED <<main, pending, stage, cancelled, raw, controller_vars, recording_vars,
                      paste_vars>>
      BY <2>2 DEF vars
    <3>2. ScalarsOK' /\ ControllerOK' /\ PartsOK'
      BY <2>2, <3>1 DEF DictationInv, ScalarsOK, ControllerOK, PartsOK, controller_vars,
                        recording_vars, stream_vars
    <3>3. FlowOK'
      BY <2>2, <3>1, FlowStays DEF recording_vars, stream_vars, DictationInv, PartsOK, WithStream
    <3>4. StreamOK' /\ RawOK' /\ ClipboardOK'
      BY <2>2, <3>1 DEF DictationInv, StreamOK, RawOK, ClipboardOK, Restored, recording_vars,
                        stream_vars, paste_vars
    <3>. QED BY <3>2, <3>3, <3>4 DEF DictationInv
  <2>. QED BY <2>1, <2>2
<1>. QED BY <1>1, <1>2, PTL DEF Spec

\* Type correctness: no more than the captured chunks and one marker are queued, and
\* the controller's state is what its task is doing.
THEOREM DictationTypesCorrect == Spec => []DictationTypeOK
<1>1. DictationInv => DictationTypeOK
  <2>. SUFFICES ASSUME DictationInv PROVE DictationTypeOK
    OBVIOUS
  <2>1. /\ ready \in Seq(Item) /\ audio \in Seq(Item)
        /\ Len(ready) \in Nat /\ Len(audio) \in Nat /\ MaxChunks \in Nat
        /\ captured \in 0..MaxChunks /\ sent \in 0..MaxChunks
    BY LenProperties, BoundsAssumption DEF DictationInv, FlowOK
  <2>2. Len(<<>>) = 0
    OBVIOUS
  <2>3. Len(ready) + Len(audio) <= MaxChunks + 1 /\ sent <= captured
    <3>1. CASE Unmarked
      BY <2>1, <3>1 DEF Unmarked
    <3>2. CASE Behind
      <4>1. Len(ready) >= 1
        BY <3>2 DEF Behind, Marker
      <4>. QED BY <2>1, <3>2, <4>1 DEF Behind
    <3>3. CASE AtEnd
      <4>1. Len(audio) >= 1 /\ Len(ready) = 0
        BY <2>2, <3>3 DEF AtEnd, Marker
      <4>. QED BY <2>1, <3>3, <4>1 DEF AtEnd
    <3>4. CASE Through
      BY <2>1, <2>2, <3>4 DEF Through
    <3>. QED BY <3>1, <3>2, <3>3, <3>4 DEF DictationInv, FlowOK
  <2>4. finals <= sent /\ partial <= sent
    BY <2>1 DEF DictationInv, StreamOK
  <2>. QED BY <2>1, <2>3, <2>4
           DEF DictationInv, ScalarsOK, ControllerOK, PartsOK, StreamOK, RawOK, ClipboardOK,
               DictationTypeOK
<1>. QED BY <1>1, DictationInvariant, PTL

\* Whatever was captured until the stop is in a transcript that came in time, unless
\* the stream broke.
THEOREM TranscriptsAreComplete == Spec => []DeliveredIsComplete
<1>1. DictationInv => DeliveredIsComplete
  BY DEF DictationInv, RawOK, DeliveredIsComplete
<1>. QED BY <1>1, DictationInvariant, PTL

\* But for a transcript that could not be pasted, the clipboard holds what the user
\* copied last whenever no paste is going on.
THEOREM ClipboardIsTheUsers == Spec => []ClipboardPreserved
<1>1. DictationInv => ClipboardPreserved
  BY DEF DictationInv, ClipboardOK, ClipboardPreserved
<1>. QED BY <1>1, DictationInvariant, PTL

\* No microphone and no stream is left when dictation is idle or the program over.
THEOREM RecordingsAreReleased == Spec => []RecordingReleased
<1>1. DictationInv => RecordingReleased
  BY DEF DictationInv, ControllerOK, PartsOK, WithStream, RecordingReleased
<1>. QED BY <1>1, DictationInvariant, PTL
===============================================================================
