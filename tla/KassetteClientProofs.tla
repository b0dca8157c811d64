------------------------- MODULE KassetteClientProofs -------------------------
(***************************************************************************)
(* Proofs about KassetteClient, for any number of entries and any bounds:  *)
(* its types, that a client that was left keeps nothing, and that what is  *)
(* shown as connected is.                                                  *)
(*                                                                         *)
(* The invariants are not inductive alone.  A new entry must find a client *)
(* that nothing has happened to (Fresh), leaving must find one that is not *)
(* closed yet (ActiveIsOpen), an answer must not find an open socket       *)
(* (OpenIsSettled), and the generation cannot run away from the attempt's  *)
(* (Bounded).                                                              *)
(***************************************************************************)
EXTENDS KassetteClient, TLAPS

\* What ClientTypeOK says of each variable alone.
Typed ==
  /\ active \in BOOLEAN /\ surface \in BOOLEAN /\ wish \in {"pause", "resume"}
  /\ client \in Clients \cup {None} /\ leaving \subseteq Clients
  /\ closed \in [Clients -> BOOLEAN]
  /\ generation \in [Clients -> Nat]
  /\ socket \in [Clients -> {"none", "connecting", "open", "closing"}]
  /\ attempt \in [Clients -> [at : {"none", "requesting", "handshake", "sleeping"},
                              by : {"connect", "retry", "reconnect"},
                              generation : 0..MaxGeneration, tries : 0..MaxTries]]
  /\ shown \in [Clients -> {"nothing", "connected", "reconnecting", "failed"}]
  /\ told \in [Clients -> {"nothing", "pause", "resume"}]
  /\ service \in [Clients -> {"none", "running", "stopped"}]

\* A client that was never entered is as it was made.
Fresh(c) ==
  generation[c] = 0 =>
    /\ attempt[c].at = "none" /\ attempt[c].generation = 0
    /\ socket[c] = "none" /\ shown[c] = "nothing" /\ service[c] = "none"
    /\ ~closed[c] /\ client # c

\* Once past its attempt's, the generation moves no further, but for close().
Bounded(c) ==
  generation[c] <= attempt[c].generation + (IF closed[c] THEN 2 ELSE 1)

ActiveIsOpen(c) == active /\ client = c => ~closed[c]

OpenIsSettled(c) == socket[c] = "open" => attempt[c].at = "none"

HandshakeOK(c) ==
  /\ socket[c] = "connecting" => attempt[c].at = "handshake"
  /\ attempt[c].at = "handshake" => socket[c] \in {"connecting", "closing"}

LeavingOK(c) ==
  c \in leaving <=> closed[c] /\ attempt[c].at # "none" /\ attempt[c].by = "reconnect"

LeftNothing(c) ==
  closed[c] => /\ socket[c] \in {"none", "closing"}
               /\ service[c] = "running" => attempt[c].by = "connect"

ShownIsTrue(c) ==
  shown[c] = "connected" /\ ~closed[c] =>
    /\ socket[c] = "open"
    /\ client = c => told[c] = wish

Sound(c) ==
  /\ Fresh(c) /\ Bounded(c) /\ ActiveIsOpen(c) /\ OpenIsSettled(c)
  /\ HandshakeOK(c) /\ LeavingOK(c) /\ LeftNothing(c) /\ ShownIsTrue(c)

ClientInv == Typed /\ \A c \in Clients : Sound(c)
-------------------------------------------------------------------------------
\* An attempt that fails, at whatever point: it is begun again while it is
\* current, it sleeps, or it ends, with a message or without.
Retries(c) ==
  /\ \/ /\ AttemptIsCurrent(c)
        /\ \E by \in {"connect", "retry", "reconnect"}, tries \in 0..MaxTries :
             Requests(c, by, attempt[c].generation, tries)
        /\ UNCHANGED <<shown, owner_vars>>
     \/ /\ attempt' = [attempt EXCEPT ![c].at = "sleeping"]
        /\ UNCHANGED <<shown, owner_vars>>
     \/ AttemptEnds(c) /\ (UNCHANGED shown \/ Shows(c, "failed"))
  /\ (service' = service \/ (attempt[c].by = "connect" /\ ServiceStarts(c)))

\* Trying again is one of the ways an attempt fails.
LEMMA TriesAgainRetries ==
  ASSUME ClientInv, NEW c \in Clients, NEW by \in {"connect", "retry", "reconnect"},
         TriesAgain(c, by),
         service' = service \/ (attempt[c].by = "connect" /\ ServiceStarts(c))
  PROVE  Retries(c)
<1>1. attempt[c].tries \in 0..MaxTries
  BY DEF ClientInv, Typed
<1>2. CASE AttemptIsCurrent(c) /\ attempt[c].tries < MaxTries
           /\ Requests(c, by, attempt[c].generation, attempt[c].tries + 1)
           /\ UNCHANGED <<shown, owner_vars>>
  <2>1. attempt[c].tries + 1 \in 0..MaxTries
    BY <1>1, <1>2, ClientAssumption
  <2> QED
    BY <1>2, <2>1 DEF Retries
<1>3. CASE GivesUp(c)
  BY <1>3 DEF Retries, GivesUp
<1>4. CASE AttemptEnds(c) /\ UNCHANGED shown
  BY <1>4 DEF Retries
<1> QED
  BY <1>2, <1>3, <1>4 DEF TriesAgain

\* Opening the connection raises: the attempt fails in one of those ways.
LEMMA OpenRaisesRetries ==
  ASSUME ClientInv, NEW c \in Clients, OpenRaises(c)
  PROVE  Retries(c)
<1>1. CASE attempt[c].by = "connect"
  BY <1>1, TriesAgainRetries DEF OpenRaises
<1>2. CASE attempt[c].by # "connect"
  BY <1>2 DEF OpenRaises, Retries
<1> QED
  BY <1>1, <1>2

\* A client keeps what holds of it through the steps of the others, also
\* through those that change the owner's state.
LEMMA OthersStaySound ==
  ASSUME ClientInv, NEW d \in Clients,
         closed'[d] = closed[d], generation'[d] = generation[d], socket'[d] = socket[d],
         attempt'[d] = attempt[d], shown'[d] = shown[d], told'[d] = told[d],
         service'[d] = service[d], d \in leaving' <=> d \in leaving,
         client' = d => client = d /\ wish' = wish /\ (active' => active)
  PROVE  Sound(d)'
<1>1. Sound(d)
  BY DEF ClientInv
<1> QED
  BY <1>1 DEF Sound, Fresh, Bounded, ActiveIsOpen, OpenIsSettled, HandshakeOK, LeavingOK,
              LeftNothing, ShownIsTrue

\* What the end of an attempt does to the owner's state.
LEMMA AttemptEndsOwner ==
  ASSUME ClientInv, NEW c \in Clients, AttemptEnds(c)
  PROVE  /\ active' = active /\ surface' \in BOOLEAN /\ wish' \in {"pause", "resume"}
         /\ client' \in {client, None} /\ leaving' = leaving \ {c}
         /\ wish' # wish => client' = None
         /\ attempt' = [attempt EXCEPT ![c].at = "none"]
  BY DEF AttemptEnds, Left, ClientInv, Typed

\* A failing attempt leaves no socket but one the client has closed.
LEMMA RetriesKeepSound ==
  ASSUME ClientInv, NEW c \in Clients, Retries(c), attempt[c].at # "none",
         NEW s \in {"none", "closing"}, socket' = [socket EXCEPT ![c] = s],
         UNCHANGED <<closed, generation, told>>
  PROVE  ClientInv'
<1> USE DEF ClientInv
<1>1. Sound(c) /\ None \notin Clients
  BY ClientAssumption
<1>2. service' \in [Clients -> {"none", "running", "stopped"}]
      /\ \A d \in Clients \ {c} : service'[d] = service[d]
  BY DEF Retries, ServiceStarts, Typed
<1>3. socket' \in [Clients -> {"none", "connecting", "open", "closing"}]
      /\ socket'[c] = s /\ \A d \in Clients \ {c} : socket'[d] = socket[d]
  BY DEF Typed
<1>4. generation[c] # 0 /\ socket[c] # "open"
  BY <1>1 DEF Sound, Fresh, OpenIsSettled
<1>5. CASE AttemptIsCurrent(c) /\ UNCHANGED <<shown, owner_vars>>
           /\ \E by \in {"connect", "retry", "reconnect"}, tries \in 0..MaxTries :
                Requests(c, by, attempt[c].generation, tries)
  <2>1. PICK by \in {"connect", "retry", "reconnect"}, tries \in 0..MaxTries :
          attempt' = [attempt EXCEPT ![c] = [at |-> "requesting", by |-> by,
                        generation |-> attempt[c].generation, tries |-> tries]]
    BY <1>5 DEF Requests
  <2>2. Typed'
    BY <1>2, <1>3, <1>5, <2>1 DEF Typed, owner_vars
  <2>3. Sound(c)'
    BY <1>1, <1>3, <1>4, <1>5, <2>1
    DEF Typed, owner_vars, AttemptIsCurrent, Current, Sound, Fresh, Bounded, ActiveIsOpen,
        OpenIsSettled, HandshakeOK, LeavingOK, LeftNothing, ShownIsTrue
  <2>4. ASSUME NEW d \in Clients \ {c} PROVE Sound(d)'
    BY <1>2, <1>3, <1>5, <2>1, OthersStaySound DEF Typed, owner_vars
  <2> QED
    BY <2>2, <2>3, <2>4
<1>6. CASE attempt' = [attempt EXCEPT ![c].at = "sleeping"] /\ UNCHANGED <<shown, owner_vars>>
  <2>1. Typed'
    BY <1>2, <1>3, <1>6 DEF Typed, owner_vars
  <2>2. service'[c] = "running" => service[c] = "running" \/ attempt[c].by = "connect"
    BY DEF Retries, ServiceStarts, Typed
  <2>3. Sound(c)'
    BY <1>1, <1>3, <1>4, <1>6, <2>2
    DEF Typed, owner_vars, Sound, Fresh, Bounded, ActiveIsOpen,
        OpenIsSettled, HandshakeOK, LeavingOK, LeftNothing, ShownIsTrue
  <2>4. ASSUME NEW d \in Clients \ {c} PROVE Sound(d)'
    BY <1>2, <1>3, <1>6, OthersStaySound DEF Typed, owner_vars
  <2> QED
    BY <2>1, <2>3, <2>4
<1>7. CASE AttemptEnds(c) /\ (UNCHANGED shown \/ Shows(c, "failed"))
  <2>1. /\ active' = active /\ surface' \in BOOLEAN /\ wish' \in {"pause", "resume"}
        /\ client' \in {client, None} /\ leaving' = leaving \ {c}
        /\ wish' # wish => client' = None
        /\ attempt' = [attempt EXCEPT ![c].at = "none"]
    BY <1>7, AttemptEndsOwner
  <2>2. /\ shown' \in [Clients -> {"nothing", "connected", "reconnecting", "failed"}]
        /\ shown'[c] \in {shown[c], "failed"}
        /\ \A d \in Clients \ {c} : shown'[d] = shown[d]
    BY <1>7 DEF Shows, Typed
  <2>3. service'[c] = "running" => service[c] = "running" \/ attempt[c].by = "connect"
    BY DEF Retries, ServiceStarts, Typed
  <2>4. Typed'
    <3>1. attempt' \in [Clients -> [at : {"none", "requesting", "handshake", "sleeping"},
                                    by : {"connect", "retry", "reconnect"},
                                    generation : 0..MaxGeneration, tries : 0..MaxTries]]
      BY <2>1 DEF Typed
    <3>2. client' \in Clients \cup {None} /\ leaving' \subseteq Clients /\ active' \in BOOLEAN
      BY <2>1 DEF Typed
    <3> QED
      BY <1>2, <1>3, <2>1, <2>2, <3>1, <3>2 DEF Typed
  <2>5. Sound(c)'
    BY <1>1, <1>3, <1>4, <2>1, <2>2, <2>3
    DEF Typed, Sound, Fresh, Bounded, ActiveIsOpen,
        OpenIsSettled, HandshakeOK, LeavingOK, LeftNothing, ShownIsTrue
  <2>6. ASSUME NEW d \in Clients \ {c} PROVE Sound(d)'
    BY <1>1, <1>2, <1>3, <2>1, <2>2, OthersStaySound DEF Typed
  <2> QED
    BY <2>4, <2>5, <2>6
<1> QED
  BY <1>5, <1>6, <1>7 DEF Retries
-------------------------------------------------------------------------------
\* The failing halves of the attempt's steps are retries.
LEMMA FailuresKeepSound ==
  ASSUME ClientInv, NEW c \in Clients,
         Slept(c) \/ RequestFails(c) \/ ServiceRefuses(c) \/ HandshakeFails(c)
  PROVE  ClientInv'
<1>1. Sound(c) /\ Typed
  BY DEF ClientInv
<1>2. CASE attempt[c].at \in {"sleeping", "requesting"} /\ Retries(c)
           /\ UNCHANGED <<closed, generation, socket, told>>
  <2>1. socket[c] \in {"none", "closing"}
    BY <1>1, <1>2 DEF Sound, HandshakeOK, OpenIsSettled, Typed
  <2>2. socket' = [socket EXCEPT ![c] = socket[c]] /\ attempt[c].at # "none"
    BY <1>1, <1>2 DEF Typed
  <2> QED
    BY <1>2, <2>1, <2>2, RetriesKeepSound
<1>3. CASE Slept(c)
  <2>1. attempt[c].by \in {"connect", "retry", "reconnect"}
    BY <1>1 DEF Typed
  <2> QED
    BY <1>2, <1>3, <2>1, TriesAgainRetries DEF Slept
<1>4. CASE RequestFails(c)
  BY <1>2, <1>4, OpenRaisesRetries DEF RequestFails
<1>5. CASE ServiceRefuses(c)
  <2>1. Retries(c)
    BY <1>5 DEF ServiceRefuses, Retries
  <2> QED
    BY <1>2, <1>5, <2>1 DEF ServiceRefuses
<1>6. CASE HandshakeFails(c)
  <2>1. attempt[c].at # "none"
    BY <1>1, <1>6 DEF HandshakeFails, Sound, HandshakeOK
  <2> QED
    BY <1>6, <2>1, OpenRaisesRetries, RetriesKeepSound DEF HandshakeFails
<1> QED
  BY <1>3, <1>4, <1>5, <1>6

\* The service has answered with a session.
LEMMA SessionCreatedKeepsSound ==
  ASSUME ClientInv, NEW c \in Clients, SessionCreated(c)
  PROVE  ClientInv'
<1>1. Sound(c) /\ Typed /\ attempt[c].at = "requesting"
  BY DEF ClientInv, SessionCreated
<1>2. CASE AnswerIsUsed(c)
  <2>1. /\ socket' = [socket EXCEPT ![c] = "connecting"]
        /\ told' = [told EXCEPT ![c] = "nothing"]
        /\ attempt' = [attempt EXCEPT ![c].at = "handshake"]
        /\ UNCHANGED <<shown, service, owner_vars, closed, generation>>
        /\ ~closed[c]
    BY <1>2 DEF SessionCreated, AnswerIsUsed, AttemptIsCurrent, Current
  <2>2. Typed'
    BY <1>1, <2>1 DEF Typed, owner_vars
  <2>3. Sound(c)'
    BY <1>1, <2>1
    DEF Typed, owner_vars, Sound, Fresh, Bounded, ActiveIsOpen, OpenIsSettled, HandshakeOK,
        LeavingOK, LeftNothing, ShownIsTrue
  <2>4. ASSUME NEW d \in Clients \ {c} PROVE Sound(d)'
    BY <1>1, <2>1, OthersStaySound DEF Typed, owner_vars
  <2> QED
    BY <2>2, <2>3, <2>4 DEF ClientInv
<1>3. CASE ~AnswerIsUsed(c)
  <2>1. socket[c] \in {"none", "closing"}
    BY <1>1 DEF Sound, HandshakeOK, OpenIsSettled, Typed
  <2>2. socket' = [socket EXCEPT ![c] = socket[c]]
        /\ OpenRaises(c) /\ UNCHANGED <<closed, generation, told>>
    BY <1>1, <1>3 DEF SessionCreated, Typed
  <2> QED
    BY <1>1, <2>1, <2>2, OpenRaisesRetries, RetriesKeepSound
<1> QED
  BY <1>2, <1>3

\* The socket opens.
LEMMA SocketOpensKeepsSound ==
  ASSUME ClientInv, NEW c \in Clients, SocketOpens(c)
  PROVE  ClientInv'
<1>1. Sound(c) /\ Typed /\ None \notin Clients
  BY ClientAssumption DEF ClientInv
<1>2. /\ socket[c] = "connecting" /\ ~closed[c]
      /\ socket' = [socket EXCEPT ![c] = "open"]
      /\ UNCHANGED <<closed, generation, shown, told, service>>
  BY DEF SocketOpens, AttemptIsCurrent, Current
<1>3. c \notin leaving
  BY <1>1, <1>2 DEF Sound, LeavingOK
<1>4. /\ attempt' = [attempt EXCEPT ![c].at = "none"] /\ UNCHANGED owner_vars
  BY <1>3 DEF SocketOpens, AttemptEnds, owner_vars
<1>5. Typed'
  BY <1>1, <1>2, <1>4 DEF Typed, owner_vars
<1>6. Sound(c)'
  BY <1>1, <1>2, <1>4
  DEF Typed, owner_vars, Sound, Fresh, Bounded, ActiveIsOpen, OpenIsSettled, HandshakeOK,
      LeavingOK, LeftNothing, ShownIsTrue
<1>7. ASSUME NEW d \in Clients \ {c} PROVE Sound(d)'
  BY <1>1, <1>2, <1>4, OthersStaySound DEF Typed, owner_vars
<1> QED
  BY <1>5, <1>6, <1>7 DEF ClientInv

\* A socket that was closing is closed.
LEMMA SocketClosedKeepsSound ==
  ASSUME ClientInv, NEW c \in Clients, SocketClosed(c)
  PROVE  ClientInv'
<1>1. Sound(c) /\ Typed /\ socket[c] = "closing" /\ socket' = [socket EXCEPT ![c] = "none"]
      /\ UNCHANGED <<closed, generation, told>>
  BY DEF ClientInv, SocketClosed
<1>2. CASE attempt[c].at = "handshake"
  BY <1>1, <1>2, OpenRaisesRetries, RetriesKeepSound DEF SocketClosed
<1>3. CASE attempt[c].at # "handshake"
  <2>1. UNCHANGED <<attempt, shown, service, owner_vars>>
    BY <1>3 DEF SocketClosed
  <2>2. Typed'
    BY <1>1, <2>1 DEF Typed, owner_vars
  <2>3. Sound(c)'
    BY <1>1, <1>3, <2>1
    DEF Typed, owner_vars, Sound, Fresh, Bounded, ActiveIsOpen, OpenIsSettled, HandshakeOK,
        LeavingOK, LeftNothing, ShownIsTrue
  <2>4. ASSUME NEW d \in Clients \ {c} PROVE Sound(d)'
    BY <1>1, <2>1, OthersStaySound DEF Typed, owner_vars
  <2> QED
    BY <2>2, <2>3, <2>4 DEF ClientInv
<1> QED
  BY <1>2, <1>3

\* A connection is lost.
LEMMA ConnectionLostKeepsSound ==
  ASSUME ClientInv, NEW c \in Clients, ConnectionLost(c)
  PROVE  ClientInv'
<1>1. Sound(c) /\ Typed
  BY DEF ClientInv
<1>2. /\ ~closed[c] /\ generation[c] < MaxGeneration
      /\ socket' = [socket EXCEPT ![c] = "none"]
      /\ generation' = [generation EXCEPT ![c] = @ + 1]
      /\ shown' = [shown EXCEPT ![c] = "reconnecting"]
      /\ attempt' = [attempt EXCEPT ![c] = [at |-> "requesting", by |-> "reconnect",
                        generation |-> generation[c] + 1, tries |-> 1]]
      /\ UNCHANGED <<owner_vars, closed, told, service>>
  BY DEF ConnectionLost, AttemptIsCurrent, Current, TellsReconnecting, Shows, Requests
<1>3. generation[c] + 1 \in 0..MaxGeneration /\ 1 \in 0..MaxTries /\ generation[c] + 1 # 0
  BY <1>1, <1>2, ClientAssumption DEF Typed
<1>4. Typed'
  BY <1>1, <1>2, <1>3 DEF Typed, owner_vars
<1>5. Sound(c)'
  BY <1>1, <1>2, <1>3
  DEF Typed, owner_vars, Sound, Fresh, Bounded, ActiveIsOpen, OpenIsSettled, HandshakeOK,
      LeavingOK, LeftNothing, ShownIsTrue
<1>6. ASSUME NEW d \in Clients \ {c} PROVE Sound(d)'
  BY <1>1, <1>2, OthersStaySound DEF Typed, owner_vars
<1> QED
  BY <1>4, <1>5, <1>6 DEF ClientInv

\* A message that cannot be read.
LEMMA BadMessageKeepsSound ==
  ASSUME ClientInv, NEW c \in Clients, BadMessage(c)
  PROVE  ClientInv'
<1>1. Sound(c) /\ Typed
  BY DEF ClientInv
<1>2. /\ ~closed[c] /\ generation[c] = attempt[c].generation /\ socket[c] = "open"
      /\ socket' = [socket EXCEPT ![c] = "closing"]
      /\ generation' = [generation EXCEPT ![c] = @ + 1]
      /\ shown' = [shown EXCEPT ![c] = "failed"]
      /\ UNCHANGED <<owner_vars, closed, attempt, told, service>>
  BY DEF BadMessage, AttemptIsCurrent, Current, Shows
<1>3. Typed'
  BY <1>1, <1>2 DEF Typed, owner_vars
<1>4. Sound(c)'
  BY <1>1, <1>2
  DEF Typed, owner_vars, Sound, Fresh, Bounded, ActiveIsOpen, OpenIsSettled, HandshakeOK,
      LeavingOK, LeftNothing, ShownIsTrue
<1>5. ASSUME NEW d \in Clients \ {c} PROVE Sound(d)'
  BY <1>1, <1>2, OthersStaySound DEF Typed, owner_vars
<1> QED
  BY <1>3, <1>4, <1>5 DEF ClientInv
-------------------------------------------------------------------------------
\* A wish sent on the socket of the client in use reaches nobody else's.
LEMMA SendsIsTyped ==
  ASSUME Typed, NEW command \in {"pause", "resume"}, Sends(command)
  PROVE  /\ told' \in [Clients -> {"nothing", "pause", "resume"}]
         /\ \A d \in Clients : told'[d] = IF d = client /\ socket[d] = "open"
                                         THEN command ELSE told[d]
  BY ClientAssumption DEF Sends, Typed

\* Whatever was told before, a client is shown as connected only after it was
\* told the wish.
LEMMA HelloKeepsSound ==
  ASSUME ClientInv, NEW c \in Clients, Hello(c)
  PROVE  ClientInv'
<1>1. Typed /\ \A d \in Clients : Sound(d)
  BY DEF ClientInv
<1>2. /\ socket[c] = "open" /\ ~closed[c]
      /\ shown' = [shown EXCEPT ![c] = "connected"]
      /\ UNCHANGED <<active, surface, client, wish, leaving, closed, generation, socket,
                     attempt, service>>
  BY DEF Hello, AttemptIsCurrent, Current, Shows, owner_vars
<1>3. /\ told' \in [Clients -> {"nothing", "pause", "resume"}]
      /\ \A d \in Clients : told'[d] = IF d = client /\ socket[d] = "open"
                                      THEN wish ELSE told[d]
  BY <1>1, SendsIsTyped DEF Hello, Greets, Typed
<1>4. Typed'
  BY <1>1, <1>2, <1>3 DEF Typed
<1>5. ASSUME NEW d \in Clients PROVE Sound(d)'
  BY <1>1, <1>2, <1>3
  DEF Typed, Sound, Fresh, Bounded, ActiveIsOpen, OpenIsSettled, HandshakeOK,
      LeavingOK, LeftNothing, ShownIsTrue
<1> QED
  BY <1>4, <1>5 DEF ClientInv

\* The user pauses or resumes.
LEMMA ToggleKeepsSound ==
  ASSUME ClientInv, NEW new \in {"pause", "resume"}, ToggleInput(new)
  PROVE  ClientInv'
<1>1. Typed /\ \A d \in Clients : Sound(d)
  BY DEF ClientInv
<1>2. /\ wish' = new
      /\ UNCHANGED <<active, surface, client, leaving, closed, generation, socket,
                     attempt, shown, service>>
  BY DEF ToggleInput
<1>3. /\ told' \in [Clients -> {"nothing", "pause", "resume"}]
      /\ \A d \in Clients : told'[d] = IF d = client /\ socket[d] = "open"
                                      THEN new ELSE told[d]
  BY <1>1, SendsIsTyped DEF ToggleInput
<1>4. Typed'
  BY <1>1, <1>2, <1>3 DEF Typed
<1>5. ASSUME NEW d \in Clients PROVE Sound(d)'
  BY <1>1, <1>2, <1>3
  DEF Typed, Sound, Fresh, Bounded, ActiveIsOpen, OpenIsSettled, HandshakeOK,
      LeavingOK, LeftNothing, ShownIsTrue
<1> QED
  BY <1>4, <1>5 DEF ClientInv

\* The owner enters with a new client.
LEMMA EnterKeepsSound ==
  ASSUME ClientInv, NEW c \in Clients, Enter(c)
  PROVE  ClientInv'
<1>1. Typed /\ Sound(c) /\ generation[c] = 0
  BY DEF ClientInv, Enter
<1>2. /\ active' = TRUE /\ surface' = TRUE /\ client' = c
      /\ generation' = [generation EXCEPT ![c] = 1]
      /\ attempt' = [attempt EXCEPT ![c] = [at |-> "requesting", by |-> "connect",
                                           generation |-> 1, tries |-> 0]]
      /\ UNCHANGED <<wish, leaving, closed, socket, shown, told, service>>
  BY DEF Enter, Requests
<1>3. 1 \in 0..MaxGeneration /\ 0 \in 0..MaxTries
  BY ClientAssumption
<1>4. Typed'
  BY <1>1, <1>2, <1>3 DEF Typed
<1>5. Sound(c)'
  BY <1>1, <1>2
  DEF Typed, Sound, Fresh, Bounded, ActiveIsOpen, OpenIsSettled, HandshakeOK,
      LeavingOK, LeftNothing, ShownIsTrue
<1>6. ASSUME NEW d \in Clients \ {c} PROVE Sound(d)'
  BY <1>1, <1>2, OthersStaySound DEF Typed
<1> QED
  BY <1>4, <1>5, <1>6 DEF ClientInv

\* Leaving closes the client in use, which is not closed yet, and either waits
\* for its reconnect or forgets it at once.
LEMMA ExitKeepsSound ==
  ASSUME ClientInv, Exit
  PROVE  ClientInv'
<1>1. Typed /\ None \notin Clients
  BY ClientAssumption DEF ClientInv
<1>2. active /\ active' = FALSE /\ UNCHANGED <<attempt, shown, told>>
  BY DEF Exit
<1>3. CASE client = None
  <2>1. /\ surface' = FALSE /\ wish' = "pause"
        /\ UNCHANGED <<client, leaving, closed, generation, socket, service>>
    BY <1>3 DEF Exit
  <2>2. Typed'
    BY <1>1, <1>2, <2>1 DEF Typed
  <2>3. ASSUME NEW d \in Clients PROVE Sound(d)'
    BY <1>1, <1>2, <1>3, <2>1, OthersStaySound
  <2> QED
    BY <2>2, <2>3 DEF ClientInv
<1>4. CASE client # None
  <2>0. PICK c \in Clients : c = client
    BY <1>1, <1>4 DEF Typed
  <2>1. Sound(c)
    BY DEF ClientInv
  <2>2. ~closed[c] /\ c \notin leaving /\ generation[c] # 0
    BY <1>2, <2>0, <2>1 DEF Sound, ActiveIsOpen, LeavingOK, Fresh
  <2>3. /\ closed' = [closed EXCEPT ![c] = TRUE]
        /\ generation' = [generation EXCEPT ![c] = @ + 1]
        /\ socket' = [socket EXCEPT ![c] = IF @ \in {"connecting", "open"}
                                          THEN "closing" ELSE @]
        /\ service' = [service EXCEPT ![c] = IF @ = "running" THEN "stopped" ELSE @]
    BY <1>1, <1>4, <2>0, <2>1 DEF Exit, Close, ServiceStopped, Typed
  <2>4. /\ closed' \in [Clients -> BOOLEAN] /\ generation' \in [Clients -> Nat]
        /\ socket' \in [Clients -> {"none", "connecting", "open", "closing"}]
        /\ service' \in [Clients -> {"none", "running", "stopped"}]
    <3>1. socket[c] \in {"none", "connecting", "open", "closing"}
          /\ service[c] \in {"none", "running", "stopped"} /\ generation[c] + 1 \in Nat
      BY <1>1 DEF Typed
    <3> QED
      BY <1>1, <2>3, <3>1 DEF Typed
  <2>5. CASE Reconnecting(c)
    <3>1. leaving' = leaving \cup {c} /\ UNCHANGED <<surface, client, wish>>
      BY <1>4, <2>0, <2>5 DEF Exit
    <3>2. Typed'
      BY <1>1, <1>2, <2>0, <2>4, <3>1 DEF Typed
    <3>3. Sound(c)'
      BY <1>1, <1>2, <2>0, <2>1, <2>2, <2>3, <2>5, <3>1
      DEF Typed, Reconnecting, Sound, Fresh, Bounded, ActiveIsOpen, OpenIsSettled,
          HandshakeOK, LeavingOK, LeftNothing, ShownIsTrue
    <3>4. ASSUME NEW d \in Clients \ {c} PROVE Sound(d)'
      BY <1>1, <1>2, <2>0, <2>1, <2>3, <3>1, OthersStaySound DEF Typed
    <3> QED
      BY <3>2, <3>3, <3>4 DEF ClientInv
  <2>6. CASE ~Reconnecting(c)
    <3>1. client' = None /\ surface' = FALSE /\ wish' = "pause" /\ UNCHANGED leaving
      BY <1>4, <2>0, <2>6 DEF Exit
    <3>2. Typed'
      BY <1>1, <1>2, <2>0, <2>4, <3>1 DEF Typed
    <3>3. Sound(c)'
      BY <1>1, <1>2, <2>0, <2>1, <2>2, <2>3, <2>6, <3>1
      DEF Typed, Reconnecting, Sound, Fresh, Bounded, ActiveIsOpen, OpenIsSettled,
          HandshakeOK, LeavingOK, LeftNothing, ShownIsTrue
    <3>4. ASSUME NEW d \in Clients \ {c} PROVE Sound(d)'
      BY <1>1, <1>2, <2>0, <2>1, <2>3, <3>1, OthersStaySound DEF Typed
    <3> QED
      BY <3>2, <3>3, <3>4 DEF ClientInv
  <2> QED
    BY <2>5, <2>6
<1> QED
  BY <1>3, <1>4
-------------------------------------------------------------------------------
\* No client has begun.
LEMMA InitIsSound == Init => ClientInv
<1> SUFFICES ASSUME Init PROVE ClientInv
  OBVIOUS
<1>1. Typed
  <2>1. 0 \in 0..MaxGeneration /\ 0 \in 0..MaxTries
    BY ClientAssumption
  <2>2. attempt \in [Clients -> [at : {"none", "requesting", "handshake", "sleeping"},
                                by : {"connect", "retry", "reconnect"},
                                generation : 0..MaxGeneration, tries : 0..MaxTries]]
    BY <2>1 DEF Init
  <2> QED
    BY <2>2 DEF Init, Typed
<1>2. ASSUME NEW c \in Clients PROVE Sound(c)
  BY ClientAssumption
  DEF Init, Sound, Fresh, Bounded, ActiveIsOpen, OpenIsSettled, HandshakeOK, LeavingOK,
      LeftNothing, ShownIsTrue
<1> QED
  BY <1>1, <1>2 DEF ClientInv

\* Every step keeps what a client relies on.
LEMMA StepKeepsSound == ClientInv /\ [Next]_vars => ClientInv'
<1> SUFFICES ASSUME ClientInv, [Next]_vars PROVE ClientInv'
  OBVIOUS
<1>1. ASSUME NEW c \in Clients, Enter(c) PROVE ClientInv'
  BY <1>1, EnterKeepsSound
<1>2. ASSUME NEW c \in Clients, AttemptStep(c) PROVE ClientInv'
  BY <1>2, FailuresKeepSound, SessionCreatedKeepsSound, SocketOpensKeepsSound,
     SocketClosedKeepsSound DEF AttemptStep
<1>3. ASSUME NEW c \in Clients, ConnectionLost(c) \/ Hello(c) \/ BadMessage(c)
      PROVE  ClientInv'
  BY <1>3, ConnectionLostKeepsSound, HelloKeepsSound, BadMessageKeepsSound
<1>4. ASSUME Exit PROVE ClientInv'
  BY <1>4, ExitKeepsSound
<1>5. ASSUME NEW new \in {"pause", "resume"}, ToggleInput(new) PROVE ClientInv'
  BY <1>5, ToggleKeepsSound
<1>6. CASE UNCHANGED vars
  <2>1. UNCHANGED <<active, surface, client, wish, leaving, closed, generation, socket,
                    attempt, shown, told, service>>
    BY <1>6 DEF vars, owner_vars, client_vars
  <2>2. Typed'
    BY <2>1 DEF ClientInv, Typed
  <2>3. ASSUME NEW d \in Clients PROVE Sound(d)'
    BY <2>1, OthersStaySound
  <2> QED
    BY <2>2, <2>3 DEF ClientInv
<1> QED
  BY <1>1, <1>2, <1>3, <1>4, <1>5, <1>6 DEF Next

\* The inductive invariant holds of every behaviour of the extension.
THEOREM ClientInvariant == Spec => []ClientInv
<1>1. Init => ClientInv
  BY InitIsSound
<1>2. ClientInv /\ [Next]_vars => ClientInv'
  BY StepKeepsSound
<1> QED
  BY <1>1, <1>2, PTL DEF Spec

\* The types, with the generation inside its bound: it is past the one of the
\* attempt by what a bad message and close() add, and no more.
THEOREM ClientTypeCorrect == Spec => []ClientTypeOK
<1>1. ClientInv => ClientTypeOK
  <2> SUFFICES ASSUME ClientInv PROVE ClientTypeOK
    OBVIOUS
  <2>1. Typed /\ \A c \in Clients : Sound(c)
    BY DEF ClientInv
  <2>2. ASSUME NEW c \in Clients PROVE generation[c] \in 0..(MaxGeneration + 2)
    BY <2>1, ClientAssumption DEF Typed, Sound, Bounded
  <2>3. generation \in [Clients -> 0..(MaxGeneration + 2)]
    BY <2>1, <2>2 DEF Typed
  <2> QED
    BY <2>1, <2>3 DEF ClientTypeOK, Typed, Sound, HandshakeOK, LeavingOK
<1> QED
  BY <1>1, ClientInvariant, PTL

\* Leaving, at whatever point of connecting, retrying or reconnecting, leaves no
\* connection and no service, but for the one a failing first attempt starts.
THEOREM ClosedClientHoldsNothing == Spec => []ClosedLeavesNothing
<1>1. ClientInv => ClosedLeavesNothing
  BY DEF ClientInv, Sound, LeftNothing, ClosedLeavesNothing
<1> QED
  BY <1>1, ClientInvariant, PTL

\* What the user sees as connected has an open socket, whose service was told
\* the user's last wish for the microphone.
THEOREM ShownConnectionIsTrue == Spec => []ConnectedIsTrue
<1>1. ClientInv => ConnectedIsTrue
  BY DEF ClientInv, Sound, ShownIsTrue, ConnectedIsTrue
<1> QED
  BY <1>1, ClientInvariant, PTL
===============================================================================
