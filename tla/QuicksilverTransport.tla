------------------------- MODULE QuicksilverTransport -------------------------
(***************************************************************************)
(* The connection of one Quicksilver session: QuicksilverTransport of      *)
(* providers/quicksilver/transport.py.  open() builds it part by part      *)
(* while close() may already take it down; the sideband reader and the     *)
(* reader of the remote audio track feed the service, and either may be    *)
(* the one whose report makes the service close the connection under it.   *)
(*                                                                         *)
(* The actions say what happens to the connection; module QuicksilverTurns *)
(* says what the service makes of it.                                      *)
(***************************************************************************)
EXTENDS Naturals, SequencesExt

VARIABLES opening,   \* open(): the await it is at, or how it ended
          closing,   \* the task of _close(): the part it is about to close
          parts,     \* the parts of the connection that exist and are open
          connected, \* self._connected
          link,      \* the wire under the sideband: "up" or "lost"
          reader,    \* the task of _read_sideband
          rtp,       \* the task of _read_remote_audio
          reported   \* self._disconnect_reported

transport_vars == <<opening, closing, parts, connected, link, reader, rtp, reported>>

Part == {"peer", "http", "sideband"}
InProgress == {"credentials", "signaling", "peer", "sideband"}

\* "waiting": its handler waits for the cleanup it asked for.  "raised": a
\* handler raised, and the reader died of it without a report.
TaskStep == {"none", "reading", "waiting", "ended", "raised"}

TransportInit ==
  /\ opening = "idle" /\ closing = "none"
  /\ parts = {} /\ connected = FALSE
  /\ link = "up" /\ reader = "none" /\ rtp = "none" /\ reported = FALSE

Closed == closing # "none"

\* close(): the first call starts the task, later ones join it.
CallsClose ==
  /\ closing' = IF Closed THEN closing ELSE "sideband"
  /\ connected' = (Closed /\ connected)
-------------------------------------------------------------------------------
(* open(), one step per await.  It does not look at _closed again.          *)

OpenBegins ==
  /\ opening = "idle"
  /\ opening' = "credentials"
  /\ UNCHANGED <<closing, parts, connected, link, reader, rtp, reported>>

CredentialsLoaded ==
  /\ opening = "credentials"
  /\ opening' = "signaling"
  /\ parts' = parts \cup {"peer", "http"}
  /\ UNCHANGED <<closing, connected, link, reader, rtp, reported>>

\* The remote description may bring an audio track, whose task starts reading.
DescriptionsSet ==
  /\ opening = "signaling"
  /\ opening' = "peer"
  /\ rtp' \in {"none", "reading"}
  /\ UNCHANGED <<closing, parts, connected, link, reader, reported>>

PeerConnects ==
  /\ opening = "peer" /\ "peer" \in parts
  /\ opening' = "sideband"
  /\ UNCHANGED <<closing, parts, connected, link, reader, rtp, reported>>

\* One of the five attempts succeeds, which it cannot once http is closed.
SidebandConnects ==
  /\ opening = "sideband" /\ "http" \in parts
  /\ opening' = "open"
  /\ parts' = parts \cup {"sideband"}
  /\ connected' = TRUE
  /\ reader' = "reading"
  /\ UNCHANGED <<closing, link, rtp, reported>>

\* A step fails, or open() is cancelled: it closes what it has built so far.
OpenFails ==
  /\ opening \in InProgress \ {"credentials"}
  /\ opening' = "failing"
  /\ CallsClose
  /\ UNCHANGED <<parts, link, reader, rtp, reported>>

\* Loading the credentials comes before the try.
OpenRaises ==
  /\ opening = "credentials" \/ (opening = "failing" /\ closing \in {"done", "raised"})
  /\ opening' = "raised"
  /\ UNCHANGED <<closing, parts, connected, link, reader, rtp, reported>>
-------------------------------------------------------------------------------
(* _close(), one step per part.                                             *)

SidebandCloses ==
  /\ closing = "sideband"
  /\ closing' = "reader"
  /\ parts' = parts \ {"sideband"}
  /\ link' = IF "sideband" \in parts THEN "lost" ELSE link
  /\ UNCHANGED <<opening, connected, reader, rtp, reported>>

\* Mutant: the reader is awaited without having been cancelled.
ReaderEndedBySelf ==
  /\ reader \notin {"reading", "waiting"}
  /\ closing' = IF reader = "raised" THEN "raised" ELSE "tracks"
  /\ UNCHANGED reader

\* The reader is cancelled and awaited; awaiting one that died of an exception
\* raises that exception, and the rest of _close() is skipped.
ReaderCancelled ==
  /\ closing' = IF reader = "raised" THEN "raised" ELSE "tracks"
  /\ reader' = IF reader \in {"reading", "waiting"} THEN "ended" ELSE reader

ReaderCloses ==
  /\ closing = "reader"
  /\ ReaderCancelled
  /\ UNCHANGED <<opening, parts, connected, link, rtp, reported>>

\* The audio tasks and the tasks of single events are cancelled and awaited.
TracksClose ==
  /\ closing = "tracks"
  /\ closing' = "peer"
  /\ rtp' = IF rtp \in {"reading", "waiting"} THEN "ended" ELSE rtp
  /\ UNCHANGED <<opening, parts, connected, link, reader, reported>>

PeerCloses ==
  /\ closing = "peer"
  /\ closing' = "http"
  /\ parts' = parts \ {"peer"}
  /\ UNCHANGED <<opening, connected, link, reader, rtp, reported>>

\* Closing the HTTP client ends a sideband that was connected too late for
\* the first step to see it.
HttpCloses ==
  /\ closing = "http"
  /\ closing' = "done"
  /\ parts' = parts \ {"http", "sideband"}
  /\ link' = IF "sideband" \in parts THEN "lost" ELSE link
  /\ UNCHANGED <<opening, connected, reader, rtp, reported>>

CloseProgress ==
  SidebandCloses \/ ReaderCloses \/ TracksClose \/ PeerCloses \/ HttpCloses
-------------------------------------------------------------------------------
(* Losing the connection.                                                   *)

\* _report_disconnect(): at most one report, and none once close() was called.
Reports == ~Closed /\ ~reported
AfterReport == IF Reports THEN "waiting" ELSE "ended"

LinkLost ==
  /\ "sideband" \in parts /\ link = "up"
  /\ link' = "lost"
  /\ UNCHANGED <<opening, closing, parts, connected, reader, rtp, reported>>

ReaderEnds ==
  /\ reader = "reading" /\ link = "lost"
  /\ reader' = AfterReport
  /\ reported' = (reported \/ Reports)
  /\ UNCHANGED <<opening, closing, parts, connected, link, rtp>>

\* The track ends, and once connected the peer's state may change instead;
\* that report is made by a task of its own.
TrackEnds ==
  /\ rtp = "reading"
  /\ rtp' = AfterReport
  /\ reported' = (reported \/ Reports)
  /\ UNCHANGED <<opening, closing, parts, connected, link, reader>>

PeerLost ==
  /\ connected /\ "peer" \in parts /\ Reports
  /\ reported' = TRUE
  /\ UNCHANGED <<opening, closing, parts, connected, link, reader, rtp>>

\* The handler of a sideband event raised.
HandlerRaises ==
  /\ reader = "reading"
  /\ reader' = "raised"
  /\ UNCHANGED <<opening, closing, parts, connected, link, rtp, reported>>
-------------------------------------------------------------------------------
TransportTypeOK ==
  /\ opening \in InProgress \cup {"idle", "open", "failing", "raised"}
  /\ closing \in {"none", "sideband", "reader", "tracks", "peer", "http", "done",
                  "raised"}
  /\ parts \subseteq Part
  /\ connected \in BOOLEAN /\ reported \in BOOLEAN
  /\ link \in {"up", "lost"}
  /\ {reader, rtp} \subseteq TaskStep

\* Nothing of the connection is left open or running.
NothingLeft ==
  /\ closing = "done" /\ parts = {}
  /\ reader # "reading" /\ rtp # "reading"
  /\ opening \notin InProgress
===============================================================================
