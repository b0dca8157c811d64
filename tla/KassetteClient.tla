---------------------------- MODULE KassetteClient ----------------------------
(***************************************************************************)
(* The terminal extension's side of a voice session: KassetteClient of     *)
(* client.ts, which connects, retries, reconnects and starts the service   *)
(* when it has to, and the owner that enters and leaves the voice surface  *)
(* in index.ts.  Every entry makes a client of its own; leaving waits for  *)
(* the client's reconnect, and the user may enter again meanwhile.         *)
(*                                                                         *)
(* One action is what one event of the JavaScript event loop runs, with    *)
(* the promises it settles.                                                *)
(***************************************************************************)
EXTENDS Naturals

CONSTANTS Clients,       \* the KassetteClient made by each entry
          None,          \* JavaScript's undefined
          MaxGeneration, \* bounds the connections lost in one entry
          MaxTries       \* attempts that fit before the deadline of a retry

ASSUME ClientAssumption ==
  /\ None \notin Clients
  /\ MaxGeneration \in Nat \ {0} /\ MaxTries \in Nat \ {0}

VARIABLES
  active, surface, \* index.ts: between enter and exit; the surface is shown
  client,          \* index.ts: the client in use
  wish,            \* index.ts: desiredInputPaused
  leaving,         \* clients whose close() waits for a reconnect, and exit() for it
  closed, generation, \* fields of each client
  socket,          \* its newest socket: it is this.socket while connecting or open
  attempt,         \* its retryUntilReady, or the connect() before it
  shown,           \* what it last told the user
  told,            \* the last pause or resume sent on its socket
  service          \* its OwnedService

owner_vars == <<active, surface, client, wish, leaving>>
client_vars == <<closed, generation, socket, attempt, shown, told, service>>
vars == <<owner_vars, client_vars>>
-------------------------------------------------------------------------------
Init ==
  /\ active = FALSE /\ surface = FALSE /\ client = None
  /\ wish = "pause" /\ leaving = {}
  /\ closed = [c \in Clients |-> FALSE]
  /\ generation = [c \in Clients |-> 0]
  /\ socket = [c \in Clients |-> "none"]
  /\ attempt = [c \in Clients |->
                 [at |-> "none", by |-> "connect", generation |-> 0, tries |-> 0]]
  /\ shown = [c \in Clients |-> "nothing"]
  /\ told = [c \in Clients |-> "nothing"]
  /\ service = [c \in Clients |-> "none"]

Current(c, g) == ~closed[c] /\ generation[c] = g

\* The generation that c's attempt, or its socket, was begun under is current.
AttemptIsCurrent(c) == Current(c, attempt[c].generation)

Shows(c, status) == shown' = [shown EXCEPT ![c] = status]

\* client.send: only an open socket takes a command.
Sends(command) ==
  told' = IF client # None /\ socket[client] = "open"
          THEN [told EXCEPT ![client] = command] ELSE told

\* What exit() does after its client has closed, to whatever client it finds.
Left ==
  /\ client' = None /\ surface' = FALSE /\ wish' = "pause"
  /\ UNCHANGED active

\* An attempt is over: connect() returns or raises, or the reconnect task is
\* cleared, and an exit() that waits for it goes on.
AttemptEnds(c) ==
  /\ attempt' = [attempt EXCEPT ![c].at = "none"]
  /\ leaving' = leaving \ {c}
  /\ IF c \in leaving THEN Left ELSE UNCHANGED <<active, surface, client, wish>>

Requests(c, by, g, tries) ==
  attempt' = [attempt EXCEPT ![c] = [at |-> "requesting", by |-> by, generation |-> g,
                                     tries |-> tries]]
-------------------------------------------------------------------------------
(* connect(), the retries, and reconnecting.                                *)

\* Mutant: nobody hears that the deadline has passed.
GivesUpSilently(c) == AttemptEnds(c) /\ UNCHANGED shown

GivesUp(c) == AttemptEnds(c) /\ Shows(c, "failed")

\* The top of the loop of retryUntilReady; the deadline passes after MaxTries
\* attempts, or earlier.
TriesAgain(c, by) ==
  \/ /\ AttemptIsCurrent(c) /\ attempt[c].tries < MaxTries
     /\ Requests(c, by, attempt[c].generation, attempt[c].tries + 1)
     /\ UNCHANGED <<shown, owner_vars>>
  \/ AttemptIsCurrent(c) /\ GivesUp(c)
  \/ /\ ~AttemptIsCurrent(c)
     /\ AttemptEnds(c) /\ UNCHANGED shown

\* OwnedService.start
ServiceStarts(c) ==
  service' = IF service[c] = "none" THEN [service EXCEPT ![c] = "running"] ELSE service

\* open() raises something other than a KassetteServiceError.
OpenRaises(c) ==
  IF attempt[c].by = "connect"
  THEN ServiceStarts(c) /\ TriesAgain(c, "retry")
  ELSE /\ attempt' = [attempt EXCEPT ![c].at = "sleeping"]
       /\ UNCHANGED <<service, shown, owner_vars>>

Slept(c) ==
  /\ attempt[c].at = "sleeping"
  /\ TriesAgain(c, attempt[c].by)
  /\ UNCHANGED <<closed, generation, socket, told, service>>

\* No service answers.
RequestFails(c) ==
  /\ attempt[c].at = "requesting"
  /\ OpenRaises(c)
  /\ UNCHANGED <<closed, generation, socket, told>>

\* The service refuses a session: nothing is retried.  connect() raises into
\* enter(), which reports it for whichever session is shown by then.
ServiceRefuses(c) ==
  /\ attempt[c].at = "requesting"
  /\ AttemptEnds(c)
  /\ IF attempt[c].by = "reconnect" /\ ~AttemptIsCurrent(c)
     THEN UNCHANGED shown ELSE Shows(c, "failed")
  /\ UNCHANGED <<closed, generation, socket, told, service>>

\* Mutant: the answer to the request is used whatever happened meanwhile.
UsesStaleAnswer(c) == TRUE

AnswerIsUsed(c) == AttemptIsCurrent(c)

SessionCreated(c) ==
  /\ attempt[c].at = "requesting"
  /\ IF AnswerIsUsed(c)
     THEN /\ socket' = [socket EXCEPT ![c] = "connecting"]
          /\ told' = [told EXCEPT ![c] = "nothing"]
          /\ attempt' = [attempt EXCEPT ![c].at = "handshake"]
          /\ UNCHANGED <<shown, service, owner_vars>>
     ELSE OpenRaises(c) /\ UNCHANGED <<socket, told>>
  /\ UNCHANGED <<closed, generation>>

\* ws opens no socket that has been closed, so the attempt is current.
SocketOpens(c) ==
  /\ socket[c] = "connecting" /\ AttemptIsCurrent(c)
  /\ socket' = [socket EXCEPT ![c] = "open"]
  /\ AttemptEnds(c)
  /\ UNCHANGED <<closed, generation, shown, told, service>>

HandshakeFails(c) ==
  /\ socket[c] = "connecting"
  /\ socket' = [socket EXCEPT ![c] = "none"]
  /\ OpenRaises(c)
  /\ UNCHANGED <<closed, generation, told>>

\* A socket that the client closed is gone: the handshake it was in fails, or
\* its generation is over.
SocketClosed(c) ==
  /\ socket[c] = "closing"
  /\ socket' = [socket EXCEPT ![c] = "none"]
  /\ IF attempt[c].at = "handshake" THEN OpenRaises(c)
     ELSE UNCHANGED <<attempt, shown, service, owner_vars>>
  /\ UNCHANGED <<closed, generation, told>>

\* Mutant: a lost connection is retried and nobody is told.
ReconnectsSilently(c) == UNCHANGED shown

TellsReconnecting(c) == Shows(c, "reconnecting")

\* The socket of the current generation closes by itself: scheduleReconnect.
ConnectionLost(c) ==
  /\ socket[c] = "open" /\ AttemptIsCurrent(c)
  /\ generation[c] < MaxGeneration
  /\ socket' = [socket EXCEPT ![c] = "none"]
  /\ generation' = [generation EXCEPT ![c] = @ + 1]
  /\ TellsReconnecting(c)
  /\ Requests(c, "reconnect", generation[c] + 1, 1)
  /\ UNCHANGED <<owner_vars, closed, told, service>>

\* Mutant: the service is told of the wish only when it changes.
GreetsSilently == UNCHANGED told

Greets == Sends(wish)

\* terminal.hello: the wish is sent, then the connection is shown.
Hello(c) ==
  /\ socket[c] = "open" /\ AttemptIsCurrent(c) /\ shown[c] # "connected"
  /\ Greets
  /\ Shows(c, "connected")
  /\ UNCHANGED <<owner_vars, closed, generation, socket, attempt, service>>

\* A message that cannot be parsed or handled ends the connection for good.
BadMessage(c) ==
  /\ socket[c] = "open" /\ AttemptIsCurrent(c)
  /\ generation' = [generation EXCEPT ![c] = @ + 1]
  /\ socket' = [socket EXCEPT ![c] = "closing"]
  /\ Shows(c, "failed")
  /\ UNCHANGED <<owner_vars, closed, attempt, told, service>>
-------------------------------------------------------------------------------
(* The owner.                                                               *)

Enter(c) ==
  /\ ~active /\ generation[c] = 0
  /\ active' = TRUE /\ surface' = TRUE /\ client' = c
  /\ generation' = [generation EXCEPT ![c] = 1]
  /\ Requests(c, "connect", 1, 0)
  /\ UNCHANGED <<wish, leaving, closed, socket, shown, told, service>>

\* Mutant: leaving leaves the service running.
KeepsService(c) == service

ServiceStopped(c) ==
  IF service[c] = "running" THEN [service EXCEPT ![c] = "stopped"] ELSE service

\* KassetteClient.close, up to its await.
Close(c) ==
  /\ closed' = [closed EXCEPT ![c] = TRUE]
  /\ generation' = [generation EXCEPT ![c] = @ + 1]
  /\ socket' = IF socket[c] \in {"connecting", "open"}
               THEN [socket EXCEPT ![c] = "closing"] ELSE socket
  /\ service' = ServiceStopped(c)

\* Mutant: leaving waits for any attempt.
AnyAttempt(c) == attempt[c].at # "none"

Reconnecting(c) == attempt[c].at # "none" /\ attempt[c].by = "reconnect"

Exit ==
  /\ active
  /\ IF client = None
     THEN /\ surface' = FALSE /\ wish' = "pause"
          /\ UNCHANGED <<client, leaving, closed, generation, socket, service>>
     ELSE /\ Close(client)
          /\ IF Reconnecting(client)
             THEN leaving' = leaving \cup {client} /\ UNCHANGED <<surface, client, wish>>
             ELSE client' = None /\ surface' = FALSE /\ wish' = "pause" /\ UNCHANGED leaving
  /\ active' = FALSE
  /\ UNCHANGED <<attempt, shown, told>>

\* Space: the wish is turned or, while the service speaks, set to listening.
ToggleInput(new) ==
  /\ surface /\ wish' = new
  /\ Sends(new)
  /\ UNCHANGED <<active, surface, client, leaving, closed, generation, socket, attempt,
                 shown, service>>

AttemptStep(c) ==
  \/ Slept(c) \/ RequestFails(c) \/ ServiceRefuses(c) \/ SessionCreated(c)
  \/ SocketOpens(c) \/ HandshakeFails(c) \/ SocketClosed(c)

Next ==
  \/ \E c \in Clients : Enter(c) \/ AttemptStep(c) \/ ConnectionLost(c) \/ Hello(c) \/ BadMessage(c)
  \/ Exit
  \/ \E new \in {"pause", "resume"} : ToggleInput(new)

\* Requests and handshakes on the loopback end, and so do the sleeps.
Spec == Init /\ [][Next]_vars /\ \A c \in Clients : WF_vars(AttemptStep(c))
-------------------------------------------------------------------------------
\* Type correctness; a socket in its handshake is the attempt's, and an exit
\* waits only for a reconnect of a client that it has closed.
ClientTypeOK ==
  /\ {active, surface} \subseteq BOOLEAN /\ wish \in {"pause", "resume"}
  /\ client \in Clients \cup {None} /\ leaving \subseteq Clients
  /\ closed \in [Clients -> BOOLEAN]
  /\ generation \in [Clients -> 0..(MaxGeneration + 2)]
  /\ socket \in [Clients -> {"none", "connecting", "open", "closing"}]
  /\ attempt \in [Clients -> [at : {"none", "requesting", "handshake", "sleeping"},
                              by : {"connect", "retry", "reconnect"},
                              generation : 0..MaxGeneration, tries : 0..MaxTries]]
  /\ shown \in [Clients -> {"nothing", "connected", "reconnecting", "failed"}]
  /\ told \in [Clients -> {"nothing", "pause", "resume"}]
  /\ service \in [Clients -> {"none", "running", "stopped"}]
  /\ \A c \in Clients : /\ socket[c] = "connecting" => attempt[c].at = "handshake"
                        /\ attempt[c].at = "handshake" => socket[c] \in {"connecting", "closing"}
                        /\ c \in leaving <=> closed[c] /\ attempt[c].at # "none"
                                                       /\ attempt[c].by = "reconnect"

\* A client that was left has no connection and gets none, at whatever point
\* of connecting, retrying or reconnecting that was; and the service it has
\* started is stopped.  The one exception is a client left during its first
\* attempt: if that attempt fails then, it starts a service that nobody stops.
ClosedLeavesNothing ==
  \A c \in Clients : closed[c] =>
    /\ socket[c] \in {"none", "closing"}
    /\ service[c] = "running" => attempt[c].by = "connect"

\* A session that is shown as connected is: the socket is open, and the
\* service was told the user's wish for the microphone, also one made while
\* the connection was lost, being retried, or open and not greeted yet.
ConnectedIsTrue ==
  \A c \in Clients : shown[c] = "connected" /\ ~closed[c] =>
    /\ socket[c] = "open"
    /\ client = c => told[c] = wish

\* A lost connection is restored, given up with a message, or left; and leaving
\* does not wait for ever for the reconnect it interrupts.
ReconnectsEnd ==
  \A c \in Clients :
    /\ shown[c] = "reconnecting" ~> socket[c] = "open" \/ shown[c] = "failed" \/ closed[c]
    /\ c \in leaving ~> c \notin leaving

\* docs/plans/pi-kassette.md: "Leaving ends the voice session".  Once the user
\* has left, and nothing of an earlier exit is under way, no client has a
\* session that the user sees no more of.
LeavingEndsSession ==
  ~active /\ leaving = {} => \A c \in Clients : socket[c] # "open"
===============================================================================
