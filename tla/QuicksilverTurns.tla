--------------------------- MODULE QuicksilverTurns ---------------------------
(***************************************************************************)
(* Client delegation over one Quicksilver session: GPTLiveService of       *)
(* providers/quicksilver/service.py over its transport.  The provider      *)
(* transcribes the user, may delegate a turn before, during or after it,   *)
(* and speaks: an acknowledgment, an answer of its own that must not be    *)
(* heard, or the answer the client gave.  The service pairs turns,         *)
(* delegations and answers, and decides what of the speech is heard.       *)
(*                                                                         *)
(* One action is the code between two suspensions.  The only await that    *)
(* suspends is a write to the sideband; events wait for a handler that is  *)
(* in one (_event_dispatch_lock), clients and interruptions do not.        *)
(***************************************************************************)
EXTENDS QuicksilverTransport, FiniteSets

CONSTANTS MaxTurn,       \* user turns
          MaxDelegation, \* delegations the provider creates
          Texts,         \* what a turn says, up to _normalize_turn_text
          NoText, None,
          MaxDeferred, MaxTombstones, \* 64 and 64 in the code
          WritesOverlap  \* whether a write may last until another answer is due

ASSUME TurnsAssumption ==
  /\ {MaxTurn, MaxDelegation, MaxDeferred, MaxTombstones} \subseteq Nat
  /\ NoText \notin Texts
  /\ WritesOverlap \in BOOLEAN

Turns == 1..MaxTurn
Delegations == 1..MaxDelegation
Text == Texts \cup {NoText}
SyntheticId(t) == <<"kassette", t>>
ProviderId(d) == <<"provider", d>>
Ids == {SyntheticId(t) : t \in Turns} \cup {ProviderId(d) : d \in Delegations}

ASSUME NoneIsNoId == None \notin Ids

VARIABLES
  state, speaking, closed, \* the session as it is reported, _speaking, _closed
  turn, in_turn,           \* _user_turn_number, and whether that turn is active
  pending,                 \* _pending_delegations
  synthetic,               \* _synthetic_delegations, in the order of their turns
  deferred,                \* _deferred_provider_delegations
  active_delegation,       \* _active_delegation_id
  out,                     \* who owns the provider's output, and what is let through
  writes,                  \* the handlers that are awaiting transport.send
  finalizing, todo,        \* the handler of a user's turn.done: the deferred to do
  said,                    \* what the user says in each turn
  delegations,             \* how many delegations the provider has created
  speech,                  \* the output the provider is giving
  due,                     \* history: the answer it was given and has not begun to speak
  fate,                    \* what became of each delegation (DelegationLedger)
  bound                    \* the request that stands for each finalized turn

session_vars == <<state, speaking, closed>>
turn_vars == <<turn, in_turn, deferred, active_delegation, finalizing, todo, bound>>
delegation_vars == <<pending, synthetic>>
output_vars == <<out, writes, speech, due, fate>>
provider_vars == <<said, delegations>>
service_vars == <<session_vars, turn_vars, delegation_vars, output_vars, provider_vars>>
vars == <<transport_vars, service_vars>>
-------------------------------------------------------------------------------
\* _SyntheticDelegation; spoken stands for completed_at as well.
Synthetic == [turn : Turns, answered : BOOLEAN, matched : BOOLEAN,
              resolved : BOOLEAN, sent : BOOLEAN, spoken : BOOLEAN]
NewSynthetic(t) == [turn |-> t, answered |-> FALSE, matched |-> FALSE,
                    resolved |-> FALSE, sent |-> FALSE, spoken |-> FALSE]

Deferred == [n : Delegations, text : Text]

\* owner is _active_response_delegation_id, ack _acknowledgment_allowed.
Output == [owner : Ids \cup {None}, awaiting : BOOLEAN, authorized : BOOLEAN,
           unauthorized : BOOLEAN, ack : BOOLEAN]
Silent == [owner |-> None, awaiting |-> FALSE, authorized |-> FALSE,
           unauthorized |-> FALSE, ack |-> FALSE]

\* An answer or a commentary on its way; prunes: what turn.done does after it.
Write == [by : {"events", "client"}, id : Ids, kind : {"speech", "commentary"},
          prunes : BOOLEAN]

Init ==
  /\ TransportInit
  /\ state = "connecting" /\ speaking = FALSE /\ closed = FALSE
  /\ turn = 0 /\ in_turn = FALSE /\ pending = {} /\ synthetic = {}
  /\ deferred = <<>> /\ active_delegation = None /\ out = Silent /\ writes = {}
  /\ finalizing = FALSE /\ todo = <<>>
  /\ said \in [Turns -> Text] /\ delegations = 0
  /\ speech = "none" /\ due = "no"
  /\ fate = [id \in Ids |-> "none"]
  /\ bound = [t \in Turns |-> None]

\* _transition(): the state is reported, and the runtime moves the registry to it
\* unless that is not allowed.
Moved(to) ==
  IF <<state, to>> \in {<<"connecting", "listening">>, <<"listening", "thinking">>,
                        <<"listening", "speaking">>, <<"thinking", "speaking">>,
                        <<"speaking", "listening">>, <<"speaking", "thinking">>}
  THEN to ELSE state

EventInFlight == \E w \in writes : w.by = "events"
LockFree == ~finalizing /\ ~EventInFlight
\* Nothing else runs while a handler is between two suspensions.
LoopFree == finalizing => EventInFlight

\* The reader hands an event to the service.
Delivering == ~closed /\ state # "connecting" /\ reader = "reading" /\ LockFree

RecordOf(id, syn) == {r \in syn : SyntheticId(r.turn) = id}
Updated(syn, old, new) == (syn \ {old}) \cup {new}
First(syn) == CHOOSE r \in syn : \A q \in syn : r.turn <= q.turn

\* _prune_synthetic_delegations(): any spoken record may be 30 s old, and of
\* the others the newest stay.
Pruned(syn) ==
  LET spoken == {r \in syn : r.spoken}
      Kept(fresh) == {r \in fresh :
        Cardinality({q \in fresh : q.turn > r.turn}) < MaxTombstones}
  IN {(syn \ spoken) \cup Kept(fresh) : fresh \in SUBSET spoken}
-------------------------------------------------------------------------------
(* Giving an answer to the provider.                                        *)

\* Mutant: the answer owns the output, but does not wait for its start.
ArmedWithoutWaiting(o, id) == [o EXCEPT !.owner = id, !.authorized = FALSE]

Armed(o, id) == [o EXCEPT !.owner = id, !.awaiting = TRUE, !.authorized = FALSE]

FateArmed(f, id) ==
  [x \in Ids |-> IF x = id THEN "armed" ELSE IF f[x] = "armed" THEN "done" ELSE f[x]]

\* An answer that is cut off is no longer the one the user is waiting for.
CutOff(sp) == IF sp \in {"answer", "late"} THEN "direct" ELSE sp

\* The provider says something else first; its answer will be a late one.
Overtaken(d) == IF d = "next" THEN "overtaken" ELSE d

\* transport.send is called: the output is the answer's from before the write.
Sends(w, o, f, sp) ==
  /\ WritesOverlap \/ writes = {}
  /\ writes' = writes \cup {w}
  /\ IF w.kind = "speech"
     THEN /\ out' = Armed(o, w.id) /\ fate' = FateArmed(f, w.id)
          /\ speech' = CutOff(sp) /\ due' = "next"
     ELSE out' = o /\ fate' = f /\ speech' = sp /\ UNCHANGED due

SendsNothing(o, f, sp, d) ==
  out' = o /\ fate' = f /\ speech' = sp /\ due' = d /\ UNCHANGED writes

\* Mutant: an answer that was sent is sent again.
FlushableAgain(syn, o) ==
  IF o.owner # None \/ o.unauthorized THEN {} ELSE {r \in syn : r.answered}

\* _flush_synthetic_response(): the answered requests it may send, oldest first.
Flushable(syn, o) ==
  IF o.owner # None \/ o.unauthorized THEN {}
  ELSE {r \in syn : r.answered /\ ~r.sent}

Flush(by, syn, o, f, sp, d, prunes) ==
  LET ready == Flushable(syn, o) IN
  IF ready # {} /\ First(ready).resolved
  THEN /\ Sends([by |-> by, id |-> SyntheticId(First(ready).turn), kind |-> "speech",
                 prunes |-> prunes], o, f, sp)
       /\ synthetic' = syn
  ELSE /\ SendsNothing(o, f, sp, d)
       /\ synthetic' \in IF prunes THEN Pruned(syn) ELSE {syn}

\* The write is through.
WriteEnds(w) ==
  /\ writes' = writes \ {w}
  /\ LET Mine(r) == SyntheticId(r.turn) = w.id
         Marked(r) == IF Mine(r) /\ w.kind = "speech" THEN [r EXCEPT !.sent = TRUE] ELSE r
         marked == {Marked(r) : r \in synthetic}
         over == {r \in marked : Mine(r) /\ w.kind = "commentary" /\ r.spoken}
     IN synthetic' \in IF w.prunes THEN Pruned(marked) ELSE {marked \ over}
  /\ UNCHANGED <<transport_vars, session_vars, turn_vars, pending, out, speech, due,
                 fate, provider_vars>>

\* Mutant: a failed write leaves the output waiting for its answer.
GivenUpHalf(o) == [o EXCEPT !.owner = None]

GivenUp(o) == [o EXCEPT !.owner = None, !.awaiting = FALSE]

\* Only a synthetic answer can be tried again.
FateFailed(id) ==
  [fate EXCEPT ![id] = IF @ # "armed" THEN @
                       ELSE IF RecordOf(id, synthetic) # {} THEN "answered" ELSE "done"]

\* transport.send raises in a handler.
Raised(w) ==
  /\ writes' = writes \ {w}
  /\ IF w.kind = "speech"
     THEN /\ out' = GivenUp(out) /\ fate' = FateFailed(w.id)
          /\ speech' = CutOff(speech) /\ due' = "no"
     ELSE UNCHANGED <<out, fate, speech, due>>
  /\ IF w.by = "events"
     THEN finalizing' = FALSE /\ todo' = <<>>
     ELSE UNCHANGED <<finalizing, todo>>
  /\ UNCHANGED <<session_vars, turn, in_turn, deferred, active_delegation, bound,
                 delegation_vars, provider_vars>>

WriteFails(w) ==
  /\ link = "lost"
  /\ Raised(w)
  /\ IF w.by = "events" THEN HandlerRaises ELSE UNCHANGED transport_vars
-------------------------------------------------------------------------------
(* The client.                                                              *)

\* Completing a synthetic request that meets unauthorized output "interrupts"
\* it (a call that does nothing) and forgets it.
Completed(o) ==
  [o EXCEPT !.ack = FALSE, !.unauthorized = @ /\ o.owner # None]

\* delegation.complete for a pending id.
ClientCompletes(id) ==
  /\ id \in pending
  /\ pending' = pending \ {id}
  /\ IF RecordOf(id, synthetic) # {}
     THEN \E r \in RecordOf(id, synthetic) :
            Flush("client", Updated(synthetic, r, [r EXCEPT !.answered = TRUE, !.resolved = TRUE]),
                  Completed(out), [fate EXCEPT ![id] = "answered"],
                  speech, due, FALSE)
     ELSE /\ Sends([by |-> "client", id |-> id, kind |-> "speech", prunes |-> FALSE],
                   [out EXCEPT !.ack = FALSE], fate, speech)
          /\ UNCHANGED synthetic
  /\ UNCHANGED <<transport_vars, session_vars, turn_vars, provider_vars>>

\* Mutant: an interruption forgets the ids, but not the synthetic records.
SyntheticKept == synthetic

SyntheticCleared == {}

\* _clear_delegations()
Clear ==
  /\ pending' = {} /\ synthetic' = SyntheticCleared /\ deferred' = <<>>
  /\ active_delegation' = None /\ in_turn' = FALSE
  /\ out' = Silent /\ due' = "no"
  /\ fate' = [id \in Ids |-> IF fate[id] \in {"requested", "answered", "armed"}
                             THEN "dropped" ELSE fate[id]]
  /\ UNCHANGED <<turn, writes, finalizing, todo, provider_vars>>

\* The session is over: nothing reads again what was said and bound in it.
ClearAndClose ==
  /\ Clear /\ closed' = TRUE
  /\ speaking' = FALSE /\ speech' = "none" /\ bound' = [t \in Turns |-> None]

\* _interrupt(): by way of INTERRUPTING back to LISTENING.
Interrupt ==
  /\ ~closed /\ state \in {"listening", "thinking", "speaking"}
  /\ Clear /\ state' = "listening" /\ speaking' = FALSE
  /\ speech' = CutOff(speech)
  /\ UNCHANGED <<transport_vars, closed, bound>>
-------------------------------------------------------------------------------
(* A delegation of the provider.                                            *)

\* _match_synthetic_delegation() among the records that have no delegation yet.
Matching(text, syn) ==
  LET unresolved == {r \in syn : ~r.matched}
      active == {r \in unresolved : ~r.sent}
      Same(rs) == {r \in rs : said[r.turn] = text}
  IN IF text = NoText THEN active
     ELSE IF Same(active) # {} THEN Same(active) ELSE Same(unresolved)

\* _handle_client_provider_delegation()
Handle(n, text, bind, match) ==
  LET o == [out EXCEPT !.ack = FALSE] IN
  \E syn \in IF match THEN Pruned(synthetic) ELSE {synthetic} :
    LET matching == IF match THEN Matching(text, syn) ELSE {}
        r == First(matching)
        known == Updated(syn, r, [r EXCEPT !.matched = TRUE, !.resolved = TRUE])
    IN IF matching # {}
       THEN /\ IF r.answered /\ r.sent
               THEN /\ Sends([by |-> "events", id |-> SyntheticId(r.turn),
                              kind |-> "commentary", prunes |-> FALSE], o, fate, speech)
                    /\ synthetic' = known
               ELSE Flush("events", known, o, fate, speech, due, FALSE)
            /\ UNCHANGED <<active_delegation, pending, state>>
       ELSE /\ active_delegation' = IF bind THEN ProviderId(n) ELSE active_delegation
            /\ pending' = pending \cup {ProviderId(n)}
            /\ state' = Moved("thinking")
            /\ synthetic' = syn
            /\ SendsNothing(o, [fate EXCEPT ![ProviderId(n)] = "requested"], speech, due)

\* The session fails: everything pending is cleared, and whoever found out
\* waits for the cleanup, which another task carries out.
Fail == ClearAndClose /\ state' = "failed"

DelegationCreated(text) ==
  LET n == delegations + 1 IN
  /\ Delivering /\ n \in Delegations
  /\ delegations' = n
  /\ IF ~in_turn
     THEN /\ Handle(n, text, TRUE, TRUE)
          /\ UNCHANGED <<turn, in_turn, deferred, finalizing, todo, bound, speaking,
                         closed>>
     ELSE /\ Len(deferred) < MaxDeferred
          /\ deferred' = Append(deferred, [n |-> n, text |-> text])
          /\ UNCHANGED <<turn, in_turn, active_delegation, finalizing, todo, bound,
                         session_vars, delegation_vars, output_vars>>
  /\ UNCHANGED <<transport_vars, said>>

\* More delegations in one turn than the service defers.
TooManyDeferred ==
  /\ Delivering /\ in_turn /\ Len(deferred) >= MaxDeferred
  /\ Fail
  /\ reader' = "waiting"
  /\ UNCHANGED <<opening, closing, parts, connected, link, rtp, reported>>
-------------------------------------------------------------------------------
(* The user's turns.                                                        *)

\* The first words of a turn.  Later ones only lengthen the transcript.
UserSpeaks ==
  /\ Delivering /\ ~in_turn /\ turn < MaxTurn
  /\ turn' = turn + 1 /\ in_turn' = TRUE
  /\ IF active_delegation = None
     THEN /\ out' = [out EXCEPT !.authorized = FALSE]
          /\ speech' = CutOff(speech)
          /\ due' = IF out.awaiting THEN due ELSE "no"
     ELSE UNCHANGED <<out, speech, due>>
  /\ UNCHANGED <<transport_vars, session_vars, deferred, active_delegation, finalizing,
                 todo, bound, delegation_vars, writes, fate, provider_vars>>

\* The deferred delegation that is the turn's own: the first with its words,
\* or the only one if it came without words.
Current(text) ==
  LET same == {i \in DOMAIN deferred : deferred[i].text = text} IN
  IF same # {} THEN CHOOSE i \in same : \A j \in same : i <= j
  ELSE IF Len(deferred) = 1 /\ deferred[1].text = NoText THEN 1 ELSE 0

\* turn.done of the user: the transcript is final.
UserTurnDone ==
  /\ Delivering /\ (in_turn \/ turn < MaxTurn)
  /\ turn' = IF in_turn THEN turn ELSE turn + 1
  /\ in_turn' = TRUE
  /\ out' = [out EXCEPT !.ack = TRUE]
  /\ LET i == Current(said[turn']) IN
     todo' = (IF i = 0 THEN <<>> ELSE <<[own |-> TRUE, of |-> deferred[i]]>>)
             \o [j \in 1..Len(RemoveAt(deferred, i)) |->
                   [own |-> FALSE, of |-> RemoveAt(deferred, i)[j]]]
  /\ deferred' = <<>> /\ finalizing' = TRUE
  /\ UNCHANGED <<transport_vars, session_vars, active_delegation, bound, delegation_vars,
                 writes, speech, due, fate, provider_vars>>

\* The deferred delegations are handled one after the other.
ResolveNext ==
  /\ finalizing /\ ~EventInFlight /\ todo # <<>>
  /\ todo' = Tail(todo)
  /\ LET next == Head(todo) IN Handle(next.of.n, next.of.text, next.own, ~next.own)
  /\ UNCHANGED <<transport_vars, speaking, closed, turn, in_turn, deferred, finalizing,
                 bound, provider_vars>>

\* Mutant: the next turn finds the delegation of this one.
DelegationKept == active_delegation

DelegationAfterTurn == None

\* A turn without a delegation gets a synthetic one, and the turn is over.
UserTurnEnds ==
  /\ finalizing /\ ~EventInFlight /\ todo = <<>>
  /\ finalizing' = FALSE /\ in_turn' = FALSE
  /\ active_delegation' = DelegationAfterTurn
  /\ IF said[turn] # NoText /\ active_delegation = None
     THEN /\ pending' = pending \cup {SyntheticId(turn)}
          /\ \E syn \in Pruned(synthetic) : synthetic' = syn \cup {NewSynthetic(turn)}
          /\ state' = Moved("thinking")
          /\ fate' = [fate EXCEPT ![SyntheticId(turn)] = "requested"]
          /\ bound' = [bound EXCEPT ![turn] = SyntheticId(turn)]
     ELSE /\ bound' = [bound EXCEPT ![turn] = active_delegation]
          /\ UNCHANGED <<pending, synthetic, state, fate>>
  /\ UNCHANGED <<transport_vars, speaking, closed, turn, deferred, todo, out, writes,
                 speech, due, provider_vars>>
-------------------------------------------------------------------------------
(* The provider's speech.                                                   *)

\* Mutant: the first output after an answer authorizes nothing.
NotAuthorized(o) == o

\* _authorize_client_output_start(): whatever comes first is the answer's.
Authorized(o) ==
  IF o.owner # None /\ o.awaiting
  THEN [o EXCEPT !.awaiting = FALSE, !.unauthorized = FALSE, !.authorized = TRUE]
  ELSE o

\* An output goes on, or one begins: the answer that is due, or something of the
\* provider's own.
Begins ==
  \/ speech # "none" /\ UNCHANGED speech /\ due' = Overtaken(due)
  \/ /\ speech = "none" /\ due # "no"
     /\ speech' = (IF due = "next" THEN "answer" ELSE "late") /\ due' = "no"
  \/ /\ speech = "none"
     /\ speech' = (IF out.ack THEN "ack" ELSE "direct") /\ due' = Overtaken(due)

\* A transcript of the output comes over the sideband.
OutputText ==
  /\ Delivering
  /\ Begins
  /\ out' = IF Authorized(out).authorized THEN Authorized(out)
            ELSE [out EXCEPT !.unauthorized = TRUE]
  /\ UNCHANGED <<transport_vars, session_vars, turn_vars, delegation_vars, writes, fate,
                 provider_vars>>

\* Audio comes from the track, or over the sideband while there is no track;
\* both go through the dispatcher as an event first.
AudioArrives ==
  ~closed /\ state # "connecting" /\ LockFree /\ (rtp = "reading" \/ reader = "reading")

LetsThrough(o) == o.authorized \/ o.ack

OutputAudio ==
  /\ AudioArrives
  /\ Begins
  /\ IF LetsThrough(Authorized(out))
     THEN /\ out' = Authorized(out)
          /\ speaking' = TRUE
          /\ state' = IF speaking THEN state ELSE Moved("speaking")
     ELSE /\ out' = [out EXCEPT !.unauthorized = TRUE]
          /\ UNCHANGED <<speaking, state>>
  /\ UNCHANGED <<transport_vars, closed, turn_vars, delegation_vars, writes, fate,
                 provider_vars>>

\* A frame of silence is dropped, but not before it was dispatched.  Between two
\* outputs it overtakes nothing.
SilentAudio ==
  /\ AudioArrives
  /\ out' = Authorized(out) /\ out' # out
  /\ due' = IF speech = "none" THEN due ELSE Overtaken(due)
  /\ UNCHANGED <<transport_vars, session_vars, turn_vars, delegation_vars, writes,
                 speech, fate, provider_vars>>

\* Mutant: the end of any output lets the session rest.
AlwaysListening == "listening"

RestingState == IF pending # {} THEN "thinking" ELSE "listening"

\* The end of an output that began before the answer was armed.
IsStillAwaiting == out.owner # None /\ out.awaiting /\ ~out.authorized

ForeignTurnDone ==
  /\ Delivering /\ speech # "none" /\ IsStillAwaiting
  /\ out' = [out EXCEPT !.unauthorized = FALSE]
  /\ speech' = "none"
  /\ UNCHANGED <<transport_vars, session_vars, turn_vars, delegation_vars, writes, due,
                 fate, provider_vars>>

\* Mutant: the end of an output leaves it with its owner.
StillOwned(o) == [o EXCEPT !.awaiting = FALSE, !.authorized = FALSE, !.unauthorized = FALSE]

Released(o) == [Silent EXCEPT !.ack = o.ack]

\* _next_provider_unresolved_synthetic() is the oldest of these.
Unresolved(syn) == {r \in syn : ~r.resolved /\ ~r.sent}

\* The record whose answer was spoken; with no answer armed, the oldest that
\* waits for the provider stops waiting.
Concluded ==
  LET spoken == {r \in RecordOf(out.owner, synthetic) : LetsThrough(out)}
      waiting == {r \in Unresolved(synthetic) : out.owner = None}
  IN IF spoken # {}
     THEN Updated(synthetic, First(spoken), [First(spoken) EXCEPT !.spoken = TRUE])
     ELSE IF waiting # {}
     THEN Updated(synthetic, First(waiting), [First(waiting) EXCEPT !.resolved = TRUE])
     ELSE synthetic

\* turn.done of the assistant: the output is nobody's, and the next answer is due.
OutputDone ==
  /\ Delivering /\ speech # "none" /\ ~IsStillAwaiting
  /\ speaking' = FALSE
  /\ state' = IF speaking THEN Moved(RestingState) ELSE state
  /\ Flush("events", Concluded, Released(out),
           [id \in Ids |-> IF fate[id] = "armed" THEN "done" ELSE fate[id]],
           "none", due, TRUE)
  /\ UNCHANGED <<transport_vars, closed, turn_vars, pending, provider_vars>>
-------------------------------------------------------------------------------
(* The session and its connection.                                          *)

SessionStarted ==
  /\ state = "connecting" /\ ~closed
  /\ opening \in {"peer", "sideband"} \/ reader = "reading"
  /\ state' = "listening"
  /\ UNCHANGED <<transport_vars, speaking, closed, turn_vars, delegation_vars,
                 output_vars, provider_vars>>

\* An error event: over the sideband, or before there is one over the data
\* channel, whose handler is a task of its own.
ProviderError ==
  /\ ~closed /\ LockFree
  /\ \/ reader = "reading" /\ reader' = "waiting"
     \/ "peer" \in parts /\ opening \in {"peer", "sideband"} /\ UNCHANGED reader
  /\ Fail
  /\ UNCHANGED <<opening, closing, parts, connected, link, rtp, reported>>

\* A disconnect, reported by whoever notices it.  The reader has handled what
\* came before.
Disconnect ==
  /\ (ReaderEnds /\ LockFree) \/ TrackEnds \/ PeerLost
  /\ IF Reports /\ ~closed THEN Fail ELSE UNCHANGED service_vars

OpenEnds ==
  /\ OpenRaises
  /\ IF closed THEN UNCHANGED service_vars ELSE Fail

\* The task that Fail or _close() started reaches transport.close().
CleanupRuns ==
  /\ closed /\ ~Closed
  /\ CallsClose
  /\ UNCHANGED <<opening, parts, link, reader, rtp, reported, service_vars>>

\* An EndFrame or CancelFrame.  Frames are handled in their order, so the
\* StartFrame, and with it open(), is over.
ServiceCloses ==
  /\ opening = "open" /\ ~closed
  /\ ClearAndClose
  /\ UNCHANGED <<transport_vars, state>>

\* A handler that is cancelled with the reader gives up like one whose write
\* failed.
TransportCloses ==
  /\ CloseProgress
  /\ \/ /\ closing = "reader" /\ reader = "reading"
        /\ \E w \in writes : w.by = "events" /\ Raised(w)
     \/ /\ ~(closing = "reader" /\ reader = "reading" /\ EventInFlight)
        /\ UNCHANGED service_vars

TransportOpens ==
  /\ OpenBegins \/ CredentialsLoaded \/ DescriptionsSet \/ PeerConnects
     \/ SidebandConnects \/ OpenFails
  /\ UNCHANGED service_vars

LosesLink == LinkLost /\ UNCHANGED service_vars

WriteReturns == \E w \in writes : WriteEnds(w) \/ WriteFails(w)
HandlerGoesOn == ResolveNext \/ UserTurnEnds
OutputEnds == ForeignTurnDone \/ OutputDone

Next ==
  \/ HandlerGoesOn
  \/ /\ LoopFree
     /\ \/ TransportOpens \/ LosesLink \/ TransportCloses \/ Disconnect \/ OpenEnds
        \/ CleanupRuns \/ ServiceCloses \/ SessionStarted \/ ProviderError
        \/ UserSpeaks \/ UserTurnDone
        \/ (\E text \in Text : DelegationCreated(text)) \/ TooManyDeferred
        \/ OutputText \/ OutputAudio \/ SilentAudio \/ OutputEnds
        \/ (\E id \in Ids : ClientCompletes(id)) \/ WriteReturns \/ Interrupt

\* Tasks that are ready run, writes return, and every await of open() has a
\* deadline.  The provider speaks what it was given and ends what it began to
\* speak, and a lost link is noticed.
AnswerBegins == speech = "none" /\ out.owner # None /\ (OutputText \/ OutputAudio)

Fairness ==
  /\ WF_vars(TransportOpens) /\ WF_vars(TransportCloses) /\ WF_vars(OpenEnds)
  /\ WF_vars(CleanupRuns) /\ WF_vars(HandlerGoesOn) /\ WF_vars(WriteReturns)
  /\ WF_vars(AnswerBegins) /\ WF_vars(OutputEnds) /\ WF_vars(ReaderEnds /\ Disconnect)

Spec == Init /\ [][Next]_vars /\ Fairness
-------------------------------------------------------------------------------
\* Type correctness; and what is pending is what the client still owes, the
\* owner of the output is the one answer that is armed, and nothing is awaited
\* without an owner.
QuicksilverTypeOK ==
  /\ TransportTypeOK
  /\ state \in {"connecting", "listening", "thinking", "speaking", "failed"}
  /\ {speaking, closed, in_turn, finalizing} \subseteq BOOLEAN
  /\ state = "speaking" => speaking \/ closed
  /\ turn \in 0..MaxTurn /\ delegations \in 0..MaxDelegation
  /\ said \in [Turns -> Text]
  /\ synthetic \subseteq Synthetic
  /\ Cardinality({r \in synthetic : r.spoken}) <= MaxTombstones + 1
  /\ deferred \in Seq(Deferred) /\ Len(deferred) <= MaxDeferred
  /\ todo \in Seq([own : BOOLEAN, of : Deferred])
  /\ active_delegation \in Ids \cup {None}
  /\ bound \in [Turns -> Ids \cup {None}]
  /\ speech \in {"none", "ack", "direct", "answer", "late"}
  /\ due \in {"no", "next", "overtaken"}
  /\ writes \subseteq Write
  /\ fate \in [Ids -> {"none", "requested", "answered", "armed", "done", "dropped"}]
  /\ out \in Output
  /\ pending = {id \in Ids : fate[id] = "requested"}
  /\ {id \in Ids : fate[id] = "armed"} = {out.owner} \ {None}
  /\ out.awaiting => out.owner # None

\* A request that is with the client keeps the session from being shown as
\* listening, which is the state in which a switch of providers would throw the
\* request away without being forced to (runtime.py, switch_provider).
PendingBlocksSwitch ==
  pending # {} /\ ~closed => state \in {"thinking", "speaking"}

\* When the first thing the provider says after it was given an answer is that
\* answer (silence between two outputs does not count, nor the turn.done of an
\* output of which nothing more was heard), the user hears it from its first frame:
\* nothing that the service does in between takes the authority back, unless the user
\* speaks up, interrupts, or another answer is given.  A "late" answer, before which
\* anything else came, is excepted because the code mutes it, against decision 8 of
\* docs/adr/0007 (README, divergences).
AnswerIsHeard == speech = "answer" => out.authorized

\* No delegation stands for two turns: a request that was bound to a turn does
\* not swallow the next one, however delegations are delayed and deferred.
TurnsDoNotShareRequests ==
  /\ \A t1, t2 \in Turns : bound[t1] = bound[t2] /\ t1 # t2 => bound[t1] = None
  /\ \A t \in Turns : bound[t] # None => fate[bound[t]] # "none"

\* What the client is promised (module DelegationLedger).
Ledger == INSTANCE DelegationLedger
ImplementsLedger == Ledger!Spec

\* A request that the client completed before its delegation was settled is
\* given to the provider, unless it was interrupted, the session closed, or a
\* handler died of a write that failed and took the reader with it.
AnswerGetsOut ==
  \A t \in Turns :
    fate[SyntheticId(t)] = "answered" ~>
      fate[SyntheticId(t)] # "answered" \/ closed \/ reader = "raised"

\* Closing the session ends with nothing of the connection left, also while it
\* is still being opened and when the reader itself asked for it; except that
\* the exception of a reader that died stops the close half way.
CloseReleasesConnection == closed ~> NothingLeft \/ reader = "raised"
===============================================================================
