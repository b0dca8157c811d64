------------------------- MODULE TerminalControlProofs -------------------------
(***************************************************************************)
(* Theorems about the control channel of a terminal session, for any       *)
(* providers, any number of adapter_ready tasks and any queue sizes.       *)
(*                                                                         *)
(* That no wish is lost rests on who still has to look at it: while the    *)
(* wish differs from what the adapter acknowledged, either the pump is     *)
(* still at its request or a task started by LISTENING is, and whoever     *)
(* holds the lock without a request behind it asks for the last wish.      *)
(***************************************************************************)
EXTENDS TerminalControl, SequenceTheorems, TLAPS

\* Who may stand in the input control's queue.
Waiter == Tasks \cup {Pump}

ScalarsOK ==
  /\ socket \in {"open", "closing", "gone"}
  /\ closed \in BOOLEAN /\ paused \in BOOLEAN /\ listened \in BOOLEAN
  /\ outgoing \in 0..MaxOutgoing
  /\ run \in {"attaching", "running", "stopping", "ended"}
  /\ pump \in {"none", "receiving", "controlling", "routing", "switching", "failed"}
  /\ desired \in Wish /\ applied \in Wish /\ applying \in Wish
  /\ adapter \in Providers \cup {"unstarted", "switching", "none"}

IncomingOK == incoming \in Seq(Message) /\ Len(incoming) <= MaxIncoming

\* Whoever is at the lock is there once, and is doing just that.
QueueOK ==
  /\ lock_queue \in Seq(Waiter) /\ IsInjective(lock_queue)
  /\ pause_tasks \subseteq Tasks
  /\ \A t \in Tasks : Contains(lock_queue, t) => t \in pause_tasks
  /\ Contains(lock_queue, Pump) <=> pump = "controlling"
  /\ applying # "unset" => lock_queue # <<>>

\* The gate is where the last acknowledged request put it.
GateFollows == applied # "unset" => paused = (applied = "pause")

\* The lock's holder asks for the last wish, unless the request that made it is
\* still behind the holder.
HolderAsks ==
  applying # "unset" /\ (pump = "controlling" => Holder = Pump) => applying = desired

\* A wish that differs from what was acknowledged has somebody to look after it,
\* once an adapter that can be asked has been heard.
WishPending ==
  /\ ~closed /\ pump \notin {"controlling", "failed"} /\ OutOfDate
  /\ adapter \in Pausable \/ (adapter = "switching" /\ listened)
  => pause_tasks # {}

\* Nothing is pumped before the run begins.
Attaching == run = "attaching" => pump = "none"

ControlInv ==
  /\ ScalarsOK /\ IncomingOK /\ QueueOK
  /\ GateFollows /\ HolderAsks /\ WishPending /\ Attaching
-------------------------------------------------------------------------------
(* Queues.                                                                  *)

\* A task that joins the queue goes to its end, and holds the lock only if nobody
\* did.
LEMMA AppendToQueue ==
  ASSUME NEW S, NEW q \in Seq(S), IsInjective(q), NEW x \in S, ~Contains(q, x)
  PROVE  /\ Append(q, x) \in Seq(S) /\ IsInjective(Append(q, x)) /\ Append(q, x) # <<>>
         /\ \A y : Contains(Append(q, x), y) <=> Contains(q, y) \/ y = x
         /\ Head(Append(q, x)) = IF q = <<>> THEN x ELSE Head(q)
<1>. DEFINE r == Append(q, x)
<1>1. /\ r \in Seq(S) /\ Len(r) = Len(q) + 1 /\ Len(q) \in Nat
      /\ \A i \in 1..Len(q) : r[i] = q[i]
      /\ r[Len(q) + 1] = x
      /\ DOMAIN r = 1..Len(r) /\ DOMAIN q = 1..Len(q)
      /\ q # <<>> => Len(q) >= 1 /\ Head(q) = q[1]
      /\ q = <<>> => Len(q) = 0
      /\ r # <<>> /\ Head(r) = r[1]
  BY AppendProperties
<1>. HIDE DEF r
<1>2. \A j \in 1..Len(r) : j \in 1..Len(q) \/ j = Len(q) + 1
  BY <1>1
<1>3. IsInjective(r)
  BY <1>1, <1>2 DEF IsInjective, Contains
<1>4. \A y : Contains(r, y) <=> Contains(q, y) \/ y = x
  <2>1. 1..Len(q) \subseteq 1..Len(r) /\ Len(q) + 1 \in 1..Len(r)
    BY <1>1
  <2>. QED BY <1>1, <1>2, <2>1 DEF Contains
<1>5. Head(r) = IF q = <<>> THEN x ELSE Head(q)
  BY <1>1
<1>. QED BY <1>1, <1>3, <1>4, <1>5 DEF r

\* The holder that leaves takes nobody else out of the queue.
LEMMA TailOfQueue ==
  ASSUME NEW S, NEW q \in Seq(S), IsInjective(q), q # <<>>
  PROVE  /\ Tail(q) \in Seq(S) /\ IsInjective(Tail(q)) /\ Head(q) \in S
         /\ \A y : Contains(Tail(q), y) <=> Contains(q, y) /\ y # Head(q)
         /\ Contains(q, Head(q))
<1>. DEFINE r == Tail(q)
<1>1. /\ r \in Seq(S) /\ Len(r) = Len(q) - 1 /\ Len(q) \in Nat \ {0}
      /\ \A j \in 1..Len(r) : r[j] = q[j + 1]
      /\ Head(q) = q[1] /\ Head(q) \in S
      /\ DOMAIN r = 1..Len(r) /\ DOMAIN q = 1..Len(q)
  BY HeadTailProperties
<1>. HIDE DEF r
<1>2. IsInjective(r)
  <2>1. \A j \in 1..Len(r) : j + 1 \in 1..Len(q)
    BY <1>1
  <2>. QED BY <1>1, <2>1 DEF IsInjective
<1>3. ASSUME NEW y PROVE Contains(r, y) <=> Contains(q, y) /\ y # Head(q)
  <2>1. ASSUME NEW j \in 1..Len(r), r[j] = y PROVE Contains(q, y) /\ y # Head(q)
    <3>1. j + 1 \in 1..Len(q) /\ 1 \in 1..Len(q) /\ j + 1 # 1
      BY <1>1
    <3>. QED BY <1>1, <2>1, <3>1 DEF Contains, IsInjective
  <2>2. ASSUME NEW k \in 1..Len(q), q[k] = y, y # Head(q) PROVE Contains(r, y)
    <3>1. k - 1 \in 1..Len(r) /\ (k - 1) + 1 = k
      BY <1>1, <2>2
    <3>. QED BY <1>1, <2>2, <3>1 DEF Contains
  <2>. QED BY <2>1, <2>2 DEF Contains
<1>4. Contains(q, Head(q))
  <2>1. 1 \in 1..Len(q)
    BY <1>1
  <2>. QED BY <1>1, <2>1 DEF Contains
<1>. QED BY <1>1, <1>2, <1>3, <1>4 DEF r

\* Nobody is in the empty queue.
LEMMA EmptyQueue == <<>> \in Seq(Waiter) /\ IsInjective(<<>>) /\ \A y : ~Contains(<<>>, y)
BY DEF IsInjective, Contains

\* A task joins the queue.
LEMMA TaskQueues ==
  ASSUME QueueOK, NEW t \in Waiter, ~Contains(lock_queue, t),
         lock_queue' = Append(lock_queue, t),
         pause_tasks' = pause_tasks, t = Pump \/ t \in pause_tasks,
         pump' = IF t = Pump THEN "controlling" ELSE pump
  PROVE  /\ QueueOK'
         /\ Holder' = IF lock_queue = <<>> THEN t ELSE Holder
<1>. DEFINE q == lock_queue
<1>1. /\ Append(q, t) \in Seq(Waiter) /\ IsInjective(Append(q, t)) /\ Append(q, t) # <<>>
      /\ \A y : Contains(Append(q, t), y) <=> Contains(q, y) \/ y = t
      /\ Head(Append(q, t)) = IF q = <<>> THEN t ELSE Head(q)
  BY AppendToQueue, Zenon DEF QueueOK
<1>. QED BY <1>1, ControlAssumption DEF QueueOK, Holder, Waiter

\* The holder leaves the queue.
LEMMA HolderLeaves ==
  ASSUME QueueOK, lock_queue # <<>>, lock_queue' = Tail(lock_queue), applying' = "unset",
         IF Holder = Pump THEN pause_tasks' = pause_tasks /\ pump' # "controlling"
                          ELSE pause_tasks' = pause_tasks \ {Holder} /\ pump' = pump
  PROVE  QueueOK'
<1>. DEFINE q == lock_queue
<1>1. /\ Tail(q) \in Seq(Waiter) /\ IsInjective(Tail(q)) /\ Head(q) \in Waiter
      /\ \A y : Contains(Tail(q), y) <=> Contains(q, y) /\ y # Head(q)
  BY TailOfQueue, Zenon DEF QueueOK
<1>. QED BY <1>1, ControlAssumption DEF QueueOK, Holder, Waiter

\* A step outside the input control that leaves the pump where it is, as far as the
\* lock is concerned.
LEMMA QueueStays ==
  ASSUME QueueOK, UNCHANGED lock_queue, pause_tasks \subseteq pause_tasks',
         pause_tasks' \subseteq Tasks, UNCHANGED applying,
         pump' = "controlling" <=> pump = "controlling"
  PROVE  QueueOK'
BY DEF QueueOK
-------------------------------------------------------------------------------
(* Messages.                                                                *)

\* What a call of session.send may leave.
SendResult ==
  {r \in [closed : BOOLEAN, outgoing : 0..MaxOutgoing, raised : BOOLEAN] :
     /\ closed => r.closed
     /\ r.raised => r.closed}

\* What a send leaves, and what stays when nothing is sent, are both among them.
LEMMA SendFacts ==
  ASSUME ScalarsOK
  PROVE  Sent \in SendResult /\ NotSent \in SendResult /\ ~NotSent.raised
<1>1. Sent \in SendResult
  BY ControlAssumption DEF ScalarsOK, Sent, SendResult
<1>2. NotSent \in SendResult /\ ~NotSent.raised
  BY DEF ScalarsOK, NotSent, SendResult
<1>. QED BY <1>1, <1>2
-------------------------------------------------------------------------------
(* Steps outside the input control.                                         *)

\* A step that leaves the input control alone keeps the invariant if an adapter that
\* it makes ready to be asked has a task, started by LISTENING, that will ask it.
LEMMA OutsideStepKeepsInvariant ==
  ASSUME ControlInv, ScalarsOK', IncomingOK', UNCHANGED control_vars,
         pause_tasks \subseteq pause_tasks', pause_tasks' \subseteq Tasks,
         closed => closed', Attaching',
         pump' = "controlling" <=> pump = "controlling", pump = "failed" => pump' = "failed",
         \/ adapter \in Pausable
         \/ adapter = "switching" /\ listened
         \/ adapter' \notin Pausable /\ ~(adapter' = "switching" /\ listened')
         \/ pause_tasks' # {} \/ closed'
  PROVE  ControlInv'
<1>1. QueueOK'
  BY QueueStays DEF ControlInv, control_vars
<1>2. GateFollows' /\ HolderAsks'
  BY DEF ControlInv, control_vars, GateFollows, HolderAsks, Holder
<1>3. WishPending'
  <2>. SUFFICES ASSUME ~closed', pump' \notin {"controlling", "failed"}, OutOfDate',
                       adapter' \in Pausable \/ (adapter' = "switching" /\ listened'),
                       pause_tasks' = {}
                PROVE  FALSE
    BY DEF WishPending
  <2>1. ~closed /\ pump \notin {"controlling", "failed"} /\ OutOfDate /\ pause_tasks = {}
    BY DEF control_vars, OutOfDate
  <2>. QED BY <2>1 DEF ControlInv, WishPending
<1>. QED BY <1>1, <1>2, <1>3 DEF ControlInv

\* A client sends, leaves or breaks the protocol, and its socket is closed down.
LEMMA ClientKeepsInvariant ==
  ASSUME ControlInv,
         (\E m \in Message : ClientSends(m)) \/ ClientLeaves \/ TeardownEnds \/ SendEvent
  PROVE  ControlInv'
<1>1. UNCHANGED <<control_vars, run, pump, pause_tasks, adapter, listened>>
  BY DEF ClientSends, ClientLeaves, TeardownEnds, SendEvent
<1>2. /\ socket' \in {socket, "closing", "gone"}
      /\ UNCHANGED closed \/ closed' = TRUE
      /\ outgoing' = outgoing \/ (outgoing > 0 /\ outgoing' = outgoing - 1)
  BY DEF ClientSends, ClientLeaves, BeginTeardown, TeardownEnds, SendEvent
<1>3. ScalarsOK' /\ (closed => closed')
  <2>1. outgoing' \in 0..MaxOutgoing
    BY <1>2, ControlAssumption DEF ControlInv, ScalarsOK
  <2>2. closed' \in BOOLEAN /\ (closed => closed')
    <3>1. CASE UNCHANGED closed
      BY <3>1 DEF ControlInv, ScalarsOK
    <3>2. CASE closed' = TRUE
      BY <3>2
    <3>. QED BY <1>2, <3>1, <3>2
  <2>3. socket' \in {"open", "closing", "gone"}
    BY <1>2 DEF ControlInv, ScalarsOK
  <2>. QED BY <1>1, <2>1, <2>2, <2>3 DEF ControlInv, ScalarsOK, control_vars
<1>4. IncomingOK'
  <2>1. CASE UNCHANGED incoming
    BY <2>1 DEF ControlInv, IncomingOK
  <2>2. CASE \E m \in Message : HasRoom /\ incoming' = Append(incoming, m)
    BY <2>2, ControlAssumption DEF ControlInv, IncomingOK, HasRoom
  <2>. QED BY <2>1, <2>2 DEF ClientSends, ClientLeaves, TeardownEnds, SendEvent
<1>5. Attaching' /\ pause_tasks' \subseteq Tasks
  BY <1>1 DEF ControlInv, Attaching, QueueOK
<1>. QED BY <1>1, <1>3, <1>4, <1>5, OutsideStepKeepsInvariant

\* The pump has handled a message that is no request for the microphone.
LEMMA RouteEndsKeepsInvariant ==
  ASSUME ControlInv, RouteEnds
  PROVE  ControlInv'
<1>1. PICK sent \in {NotSent, Sent}, failed \in BOOLEAN :
        /\ outgoing' = sent.outgoing /\ closed' = sent.closed
        /\ PumpLeaves(failed \/ sent.raised)
  BY DEF RouteEnds
<1>2. sent \in SendResult
  BY SendFacts DEF ControlInv
<1>3. /\ UNCHANGED <<control_vars, socket, incoming, run, pause_tasks, adapter, listened>>
      /\ pump = "routing" /\ pump' \in {"failed", "none", "receiving"}
  BY <1>1 DEF RouteEnds, PumpLeaves, PumpLoops
<1>4. ScalarsOK' /\ IncomingOK' /\ (closed => closed')
  BY <1>1, <1>2, <1>3 DEF ControlInv, ScalarsOK, IncomingOK, SendResult, control_vars
<1>5. Attaching' /\ pause_tasks' \subseteq Tasks
  BY <1>3 DEF ControlInv, Attaching, QueueOK
<1>. QED BY <1>3, <1>4, <1>5, OutsideStepKeepsInvariant

\* A switch or the initial start takes the adapter out of service.
LEMMA AdapterGoesKeepsInvariant ==
  ASSUME ControlInv, SwitchBegins \/ InitialStart \/ RollsBack
  PROVE  ControlInv'
<1>1. /\ UNCHANGED <<channel_vars, control_vars, run, pause_tasks>>
      /\ adapter' = "switching" /\ listened' = FALSE
      /\ pump' = pump \/ (pump = "routing" /\ pump' = "switching")
      /\ run = "attaching" => pump' = pump \/ pump # "none"
  BY DEF SwitchBegins, InitialStart, RollsBack, channel_vars
<1>2. ScalarsOK' /\ IncomingOK' /\ closed' = closed
  BY <1>1 DEF ControlInv, ScalarsOK, IncomingOK, channel_vars, control_vars
<1>3. Attaching' /\ pause_tasks' \subseteq Tasks /\ "switching" \notin Pausable
  BY <1>1, ControlAssumption DEF ControlInv, Attaching, QueueOK
<1>. QED BY <1>1, <1>2, <1>3, OutsideStepKeepsInvariant

\* An adapter settles only once it has been heard, and so has a task to tell it the
\* wish.
LEMMA AdapterSettlesKeepsInvariant ==
  ASSUME ControlInv, NEW p \in Providers \cup {"none"}, AdapterSettles(p)
  PROVE  ControlInv'
<1>1. /\ UNCHANGED <<channel_vars, control_vars, run, pause_tasks, listened>>
      /\ adapter = "switching" /\ adapter' = p
      /\ p \in Providers => listened
      /\ \/ pump' = pump
         \/ pump = "switching" /\ pump' \in {"failed", "none", "receiving"}
  BY DEF AdapterSettles, PumpLeaves, PumpLoops, channel_vars
<1>2. ScalarsOK' /\ IncomingOK' /\ closed' = closed
  BY <1>1 DEF ControlInv, ScalarsOK, IncomingOK, channel_vars, control_vars
<1>3. Attaching' /\ pause_tasks' \subseteq Tasks
  BY <1>1 DEF ControlInv, Attaching, QueueOK
<1>4. \/ adapter = "switching" /\ listened
      \/ adapter' \notin Pausable /\ adapter' # "switching"
  BY <1>1, ControlAssumption
<1>. QED BY <1>1, <1>2, <1>3, <1>4, OutsideStepKeepsInvariant

\* LISTENING starts a task, or closes the session.
LEMMA ListeningKeepsInvariant ==
  ASSUME ControlInv, Listening
  PROVE  ControlInv'
<1>1. Sent \in SendResult
  BY SendFacts DEF ControlInv
<1>2. /\ UNCHANGED <<control_vars, socket, incoming, run, pump, adapter>>
      /\ listened' = TRUE /\ closed' = Sent.closed /\ outgoing' = Sent.outgoing
      /\ \/ Sent.raised /\ pause_tasks' = pause_tasks
         \/ \E t \in Tasks \ pause_tasks : pause_tasks' = pause_tasks \cup {t}
  BY DEF Listening
<1>3. ScalarsOK' /\ IncomingOK' /\ (closed => closed')
  BY <1>1, <1>2 DEF ControlInv, ScalarsOK, IncomingOK, SendResult, control_vars
<1>4. /\ pause_tasks \subseteq pause_tasks' /\ pause_tasks' \subseteq Tasks
      /\ pause_tasks' # {} \/ closed'
  BY <1>1, <1>2 DEF ControlInv, QueueOK, SendResult
<1>5. Attaching'
  BY <1>2 DEF ControlInv, Attaching
<1>. QED BY <1>2, <1>3, <1>4, <1>5, OutsideStepKeepsInvariant

\* The runner begins, is refused, is stopped or ends, without tearing its tasks down.
LEMMA RunnerKeepsInvariant ==
  ASSUME ControlInv,
         RunBegins \/ AttachFails \/ AttachCancelled \/ RunStops \/ RunInterrupted
           \/ RunCutShort \/ PipelineSends
  PROVE  ControlInv'
<1>1. UNCHANGED <<control_vars, socket, incoming, pause_tasks, adapter, listened>>
  BY DEF RunBegins, AttachFails, AttachCancelled, RunStops, RunInterrupted, RunCutShort,
         PipelineSends, channel_vars
<1>2. /\ pump' = pump \/ (run = "attaching" /\ pump' = "receiving" /\ run' = "running")
      /\ run' \in {"running", "stopping", "ended"} \/ (run' = run /\ pump' = pump)
  BY DEF RunBegins, AttachFails, AttachCancelled, RunStops, RunInterrupted, RunCutShort,
         PipelineSends
<1>3. \/ UNCHANGED <<closed, outgoing>>
      \/ \E sent \in {NotSent, Sent} : closed' = sent.closed /\ outgoing' = sent.outgoing
  BY DEF RunBegins, AttachFails, AttachCancelled, RunStops, RunInterrupted, RunCutShort,
         PipelineSends, channel_vars
<1>4. closed' \in BOOLEAN /\ outgoing' \in 0..MaxOutgoing /\ (closed => closed')
  BY <1>3, SendFacts DEF ControlInv, ScalarsOK, SendResult
<1>5. ScalarsOK' /\ IncomingOK'
  BY <1>1, <1>2, <1>4 DEF ControlInv, ScalarsOK, IncomingOK, control_vars
<1>6. Attaching' /\ pause_tasks' \subseteq Tasks /\ (pump' # pump => pump = "none")
  BY <1>1, <1>2 DEF ControlInv, Attaching, QueueOK
<1>. QED BY <1>1, <1>2, <1>4, <1>5, <1>6, OutsideStepKeepsInvariant
-------------------------------------------------------------------------------
(* Steps of the input control.                                              *)

\* The pump takes a message; a request stores the wish before it asks for the lock.
LEMMA ReceiveKeepsInvariant ==
  ASSUME ControlInv, Receive
  PROVE  ControlInv'
<1>1. /\ pump = "receiving" /\ incoming # <<>> /\ incoming' = Tail(incoming)
      /\ UNCHANGED <<socket, closed, outgoing, run, pause_tasks, adapter, listened>>
  BY DEF Receive
<1>2. IncomingOK'
  BY <1>1, HeadTailProperties, ControlAssumption DEF ControlInv, IncomingOK
<1>3. ASSUME NEW wish \in {"pause", "resume"}, Request(wish) PROVE ControlInv'
  <2>1. /\ desired' = wish /\ pump' = "controlling" /\ UNCHANGED <<applied, paused>>
        /\ lock_queue' = Append(lock_queue, Pump)
        /\ applying' = IF lock_queue = <<>> THEN wish ELSE applying
    BY <1>3 DEF Request
  <2>2. ~Contains(lock_queue, Pump)
    BY <1>1 DEF ControlInv, QueueOK
  <2>3. QueueOK' /\ Holder' = IF lock_queue = <<>> THEN Pump ELSE Holder
    BY <1>1, <2>1, <2>2, TaskQueues DEF ControlInv, Waiter
  <2>4. lock_queue # <<>> => Holder # Pump
    BY <2>2, TailOfQueue, Zenon DEF ControlInv, QueueOK, Holder
  <2>5. ScalarsOK'
    BY <1>1, <2>1 DEF ControlInv, ScalarsOK, Wish
  <2>6. HolderAsks'
    BY <2>1, <2>3, <2>4 DEF HolderAsks
  <2>7. GateFollows' /\ WishPending' /\ Attaching'
    BY <1>1, <2>1 DEF ControlInv, GateFollows, WishPending, Attaching
  <2>. QED BY <1>2, <2>3, <2>5, <2>6, <2>7 DEF ControlInv
<1>4. CASE pump' = "routing" /\ UNCHANGED control_vars
  <2>1. ScalarsOK' /\ Attaching' /\ pause_tasks' \subseteq Tasks
    BY <1>1, <1>4 DEF ControlInv, ScalarsOK, Attaching, QueueOK, control_vars
  <2>. QED BY <1>1, <1>2, <1>4, <2>1, OutsideStepKeepsInvariant
<1>5. Request("pause") \/ Request("resume") \/ (pump' = "routing" /\ UNCHANGED control_vars)
  BY DEF Receive
<1>. QED BY <1>3, <1>4, <1>5

\* A task of adapter_ready takes its first step.
LEMMA ReadyStartsKeepsInvariant ==
  ASSUME ControlInv, NEW t \in Tasks, ReadyStarts(t)
  PROVE  ControlInv'
<1>1. /\ UNCHANGED <<channel_vars, desired, applied, paused, run, pump, adapter, listened>>
      /\ t \in pause_tasks /\ ~Contains(lock_queue, t) /\ t # Pump /\ t \in Waiter
  BY ControlAssumption DEF ReadyStarts, Waiter
<1>2. IncomingOK' /\ GateFollows' /\ Attaching'
  BY <1>1 DEF ControlInv, IncomingOK, GateFollows, Attaching, channel_vars
<1>3. CASE ~OutOfDate /\ TaskLeaves(t) /\ UNCHANGED <<lock_queue, applying>>
  <2>1. QueueOK'
    BY <1>1, <1>3 DEF ControlInv, QueueOK, TaskLeaves
  <2>2. ScalarsOK' /\ HolderAsks' /\ WishPending'
    BY <1>1, <1>3 DEF ControlInv, ScalarsOK, HolderAsks, Holder, WishPending, OutOfDate,
                      channel_vars
  <2>. QED BY <1>2, <2>1, <2>2 DEF ControlInv
<1>4. CASE /\ lock_queue' = Append(lock_queue, t)
           /\ applying' = IF lock_queue = <<>> THEN desired ELSE applying
           /\ UNCHANGED pause_tasks
  <2>1. QueueOK' /\ Holder' = IF lock_queue = <<>> THEN t ELSE Holder
    BY <1>1, <1>4, TaskQueues DEF ControlInv
  <2>2. ScalarsOK'
    BY <1>1, <1>4 DEF ControlInv, ScalarsOK, channel_vars
  <2>3. HolderAsks' /\ WishPending'
    BY <1>1, <1>4, <2>1 DEF ControlInv, HolderAsks, WishPending, OutOfDate, channel_vars
  <2>. QED BY <1>2, <2>1, <2>2, <2>3 DEF ControlInv
<1>. QED BY <1>3, <1>4 DEF ReadyStarts

\* The lock has been handed over: the new holder reads the wish only now, and a task
\* that finds it applied leaves.
LEMMA AcquiresKeepsInvariant ==
  ASSUME ControlInv, Acquires
  PROVE  ControlInv'
<1>1. /\ UNCHANGED <<channel_vars, desired, applied, paused, run, pump, adapter, listened>>
      /\ lock_queue # <<>> /\ applying = "unset"
  BY DEF Acquires
<1>2. IncomingOK' /\ GateFollows' /\ Attaching'
  BY <1>1 DEF ControlInv, IncomingOK, GateFollows, Attaching, channel_vars
<1>3. CASE applying' = desired /\ UNCHANGED <<lock_queue, pause_tasks>>
  BY <1>1, <1>2, <1>3 DEF ControlInv, ScalarsOK, QueueOK, HolderAsks, WishPending, OutOfDate,
                          channel_vars
<1>4. CASE /\ Holder # Pump /\ ~OutOfDate
           /\ TaskLeaves(Holder) /\ lock_queue' = Tail(lock_queue) /\ UNCHANGED applying
  <2>1. QueueOK'
    BY <1>1, <1>4, HolderLeaves DEF ControlInv, TaskLeaves
  <2>2. ScalarsOK' /\ HolderAsks' /\ WishPending'
    BY <1>1, <1>4 DEF ControlInv, ScalarsOK, HolderAsks, WishPending, OutOfDate, channel_vars
  <2>. QED BY <1>2, <2>1, <2>2 DEF ControlInv
<1>. QED BY <1>3, <1>4 DEF Acquires, LockReleased

\* The adapter answers the holder.
LEMMA ApplyEndsKeepsInvariant ==
  ASSUME ControlInv, ApplyEnds
  PROVE  ControlInv'
<1>1. /\ UNCHANGED <<socket, incoming, desired, run, adapter, listened>>
      /\ applying # "unset" /\ adapter # "switching"
      /\ applying' = "unset" /\ lock_queue' = Tail(lock_queue)
  BY DEF ApplyEnds
<1>2. PICK answer \in Answers, sent \in {NotSent, Sent} :
        /\ answer # "acknowledged" => sent = NotSent
        /\ applied' = AppliedAfter(answer)
        /\ paused' = IF answer = "acknowledged" THEN applying = "pause" ELSE paused
        /\ outgoing' = sent.outgoing
        /\ closed' = (sent.closed \/ ((answer = "raised" \/ sent.raised) /\ Holder # Pump))
        /\ IF Holder = Pump
           THEN PumpLeaves(answer = "raised" \/ sent.raised) /\ UNCHANGED pause_tasks
           ELSE TaskLeaves(Holder) /\ UNCHANGED pump
  BY Zenon DEF ApplyEnds
<1>3. sent \in SendResult
  BY SendFacts DEF ControlInv
<1>4. lock_queue # <<>> /\ (Holder = Pump => pump = "controlling")
  BY <1>1, TailOfQueue, Zenon DEF ControlInv, QueueOK, Holder
<1>5. /\ Holder = Pump => pump' \in {"failed", "none", "receiving"}
      /\ Holder # Pump => pump' = pump
  BY <1>2 DEF PumpLeaves, PumpLoops
<1>6. QueueOK'
  BY <1>1, <1>2, <1>4, <1>5, HolderLeaves DEF ControlInv, TaskLeaves
<1>7. ScalarsOK'
  <2>1. closed' \in BOOLEAN /\ outgoing' \in 0..MaxOutgoing
    BY <1>2, <1>3 DEF SendResult
  <2>2. applied' \in Wish /\ paused' \in BOOLEAN /\ applying' \in Wish
    BY <1>1, <1>2 DEF ControlInv, ScalarsOK, AppliedAfter, Wish
  <2>. QED BY <1>1, <1>5, <2>1, <2>2 DEF ControlInv, ScalarsOK
<1>8. GateFollows'
  BY <1>2 DEF ControlInv, GateFollows, AppliedAfter
<1>9. WishPending'
  <2>. SUFFICES ASSUME ~closed', pump' \notin {"controlling", "failed"}, adapter \in Pausable
                PROVE  applied' = desired
    BY <1>1 DEF WishPending, OutOfDate
  <2>1. ~sent.raised /\ answer # "raised"
    BY <1>2, <1>3 DEF SendResult, PumpLeaves
  <2>2. answer = "acknowledged"
    BY <1>2, <2>1 DEF Answers
  <2>3. pump = "controlling" => Holder = Pump
    BY <1>5
  <2>. QED BY <1>1, <1>2, <2>2, <2>3 DEF ControlInv, HolderAsks, AppliedAfter
<1>10. HolderAsks' /\ IncomingOK' /\ Attaching'
  BY <1>1, <1>4, <1>5 DEF ControlInv, HolderAsks, IncomingOK, Attaching
<1>. QED BY <1>6, <1>7, <1>8, <1>9, <1>10 DEF ControlInv

\* The run cancels the tasks of the control channel, holder of the lock or not.
LEMMA RunTornDownKeepsInvariant ==
  ASSUME ControlInv, RunTornDown
  PROVE  ControlInv'
<1>1. /\ UNCHANGED <<channel_vars, desired, applied, paused, listened>>
      /\ run' = "ended" /\ pump' = "none" /\ pause_tasks' = {} /\ lock_queue' = <<>>
      /\ applying' = "unset" /\ adapter' = "none" /\ "none" \notin Pausable
  BY ControlAssumption DEF RunTornDown
<1>2. QueueOK'
  BY <1>1, EmptyQueue DEF QueueOK
<1>. QED BY <1>1, <1>2 DEF ControlInv, ScalarsOK, IncomingOK, GateFollows, HolderAsks,
                           WishPending, Attaching, channel_vars, Wish
-------------------------------------------------------------------------------
(* The theorems.                                                            *)

\* The invariant holds when the session is attached.
LEMMA InitMakesInvariant == Init => ControlInv
<1>. SUFFICES ASSUME Init PROVE ControlInv
  OBVIOUS
<1>1. QueueOK
  BY EmptyQueue DEF Init, QueueOK
<1>2. IncomingOK
  BY ControlAssumption DEF Init, IncomingOK
<1>3. ScalarsOK
  <2>1. outgoing \in 0..MaxOutgoing
    BY ControlAssumption DEF Init
  <2>. QED BY <2>1 DEF Init, ScalarsOK, Wish
<1>. QED BY <1>1, <1>2, <1>3, ControlAssumption
         DEF Init, ControlInv, GateFollows, HolderAsks, WishPending, Attaching, OutOfDate

\* Every step of Next keeps it.
LEMMA NextKeepsInvariant == ControlInv /\ [Next]_vars => ControlInv'
<1>. SUFFICES ASSUME ControlInv, [Next]_vars PROVE ControlInv'
  OBVIOUS
<1>1. CASE (\E m \in Message : ClientSends(m)) \/ ClientLeaves \/ TeardownEnds \/ SendEvent
  BY <1>1, ClientKeepsInvariant
<1>2. CASE ControlProgress
  BY <1>2, ReadyStartsKeepsInvariant, AcquiresKeepsInvariant, ApplyEndsKeepsInvariant
  DEF ControlProgress
<1>3. CASE PumpProgress
  BY <1>3, ReceiveKeepsInvariant, RouteEndsKeepsInvariant DEF PumpProgress
<1>4. CASE AdapterProgress
  BY <1>4, AdapterSettlesKeepsInvariant DEF AdapterProgress
<1>5. CASE SwitchBegins \/ InitialStart \/ RollsBack
  BY <1>5, AdapterGoesKeepsInvariant
<1>6. CASE Listening
  BY <1>6, ListeningKeepsInvariant
<1>7. CASE RunTornDown
  BY <1>7, RunTornDownKeepsInvariant
<1>8. CASE \/ RunBegins \/ AttachFails \/ AttachCancelled \/ RunStops \/ RunInterrupted
           \/ RunCutShort \/ PipelineSends
  BY <1>8, RunnerKeepsInvariant
<1>9. CASE UNCHANGED vars
  <2>1. UNCHANGED <<channel_vars, control_vars, run, pump, pause_tasks, adapter, listened>>
    BY <1>9 DEF vars
  <2>2. ScalarsOK' /\ IncomingOK' /\ Attaching' /\ pause_tasks' \subseteq Tasks
    BY <2>1 DEF ControlInv, ScalarsOK, IncomingOK, Attaching, QueueOK, channel_vars,
                control_vars
  <2>. QED BY <2>1, <2>2, OutsideStepKeepsInvariant DEF channel_vars
<1>. QED BY <1>1, <1>2, <1>3, <1>4, <1>5, <1>6, <1>7, <1>8, <1>9 DEF Next, RunProgress

\* The inductive invariant holds in every reachable state.
THEOREM ControlInvariant == Spec => []ControlInv
BY InitMakesInvariant, NextKeepsInvariant, PTL DEF Spec

\* Type correctness: both queues keep their bounds, and whoever is at the input
\* control's lock is there once and is doing just that.
THEOREM ControlTypesCorrect == Spec => []ControlTypeOK
<1>1. ControlInv => ControlTypeOK
  BY DEF ControlInv, ScalarsOK, IncomingOK, QueueOK, Waiter, ControlTypeOK
<1>. QED BY <1>1, ControlInvariant, PTL

\* The user's last wish reaches the microphone's gate: whatever else was in flight,
\* once nothing is, the gate is where the wish put it.
THEOREM WishesAreApplied == Spec => []WishIsApplied
<1>1. ControlInv => WishIsApplied
  <2>. SUFFICES ASSUME ControlInv, ~closed, adapter \in Pausable, pump = "receiving",
                       pause_tasks = {}, desired # "unset"
                PROVE  paused = (desired = "pause")
    BY DEF WishIsApplied
  <2>1. applied = desired
    BY DEF ControlInv, WishPending, OutOfDate
  <2>. QED BY <2>1 DEF ControlInv, GateFollows
<1>. QED BY <1>1, ControlInvariant, PTL
===============================================================================
