---------------------------- MODULE LoggingProxy ----------------------------
(***************************************************************************)
(* vncdotool/loggingproxy.py: the connections of one vnclog process, the   *)
(* claim a --one-shot session takes on it, where their events are recorded *)
(* and how the process ends.                                               *)
(*                                                                         *)
(* Each action is one callback of the reactor.  twisted's portforward is   *)
(* external: a client is not read from before the server is connected, and *)
(* when one of the two connections is lost the other one is closed.        *)
(***************************************************************************)
EXTENDS Naturals, FiniteSets

CONSTANTS
  Conns,        \* connections made to the listening port
  Modes,        \* how vnclog may be called, a subset of AllModes
  MaxEvents     \* bound: events a client sends

\* vnclog OUTPUT; with --one-shot; --capture-raw, which implies --one-shot; and
\* --file-per-client, which cannot be combined with either.
AllModes == {"plain", "oneShot", "capture", "perClient"}

ASSUME SessionsAssumption == Modes \subseteq AllModes /\ MaxEvents \in Nat
\* A connection is neither None nor the factory's output.
ASSUME ConnsAssumption == {"none", "output"} \cap Conns = {}

VARIABLES
  mode,           \* the options of the call
  tcp,            \* the client's connection: "none", "open", "closing", "lost"
  upstream,       \* the one to the server: "none", "connecting", "failed", "up", "lost"
  refused, tookSession, sawBytes,   \* connections whose flag is set
  capturing,      \* connections with a CaptureWriter
  recorder,       \* where a connection's events go: <<>>, <<a connection>> for a file or
                  \* buffer of its own, <<"output">> for the factory's
  events,         \* events of each connection that the parser found,
  written,        \* and those its recorder took
  sessionTaken, captureFailed,      \* factory
  captureVdo,     \* factory._capture_vdo: the buffer's connection, or None
  out,            \* factory._out: the file's connection, or None
  closed,         \* files that were closed
  archive,        \* the archive on disk: whose it is, the events in session.vdo
  process,        \* "running", "stopping" once reactor.stop() was called, "stopped"
  status          \* exit status of the process

conn == <<tcp, upstream, refused, tookSession, sawBytes, capturing, recorder>>
log == <<events, written>>
factory == <<sessionTaken, captureFailed, captureVdo, out, closed>>
vars == <<mode, conn, log, factory, archive, process, status>>

None == "none"
NoArchive == [conn |-> None, vdo |-> None, events |-> 0]
OneShot == mode \in {"oneShot", "capture"}
COMMAND_FAILED == 30

-----------------------------------------------------------------------------
Init ==
  /\ mode \in Modes
  /\ tcp = [c \in Conns |-> "none"] /\ upstream = [c \in Conns |-> "none"]
  /\ refused = {} /\ tookSession = {} /\ sawBytes = {} /\ capturing = {}
  /\ recorder = [c \in Conns |-> <<>>]
  /\ events = [c \in Conns |-> 0] /\ written = [c \in Conns |-> 0]
  /\ sessionTaken = FALSE /\ captureFailed = FALSE
  /\ captureVdo = None /\ out = None /\ closed = {}
  /\ archive = NoArchive /\ process = "running" /\ status = 0

Alive(c) == process # "stopped" /\ tcp[c] \in {"open", "closing"}

\* transport.loseConnection(): connectionLost follows.
LoseConnection(c) == tcp' = [tcp EXCEPT ![c] = "closing"]

\* sessionFinished, the viewer's exit and SIGINT: a second stop is ignored.
Stop == process' = IF process = "running" THEN "stopping" ELSE process

-----------------------------------------------------------------------------
(* connectionMade                                                          *)

Refuse(c) ==
  /\ process # "stopped" /\ tcp[c] = "none" /\ OneShot /\ sessionTaken
  /\ refused' = refused \cup {c} /\ LoseConnection(c)
  /\ UNCHANGED <<mode, upstream, tookSession, sawBytes, capturing, recorder, log, factory,
                 archive, process, status>>

GetRecorder(c) ==
  /\ recorder' = [recorder EXCEPT
                    ![c] = IF mode \in {"capture", "perClient"} THEN <<c>> ELSE <<"output">>]
  /\ captureVdo' = IF mode = "capture" THEN c ELSE captureVdo
  /\ out' = IF mode = "perClient" THEN c ELSE out

\* Mutant of Accept: the session is claimed by the first connection that ends.
AcceptUnclaimed(c) ==
  /\ process # "stopped" /\ tcp[c] = "none" /\ ~(OneShot /\ sessionTaken)
  /\ tcp' = [tcp EXCEPT ![c] = "open"] /\ upstream' = [upstream EXCEPT ![c] = "connecting"]
  /\ GetRecorder(c)
  /\ capturing' = IF mode = "capture" THEN capturing \cup {c} ELSE capturing
  /\ UNCHANGED <<mode, refused, tookSession, sawBytes, log, sessionTaken, captureFailed, closed,
                 archive, process, status>>

Accept(c) ==
  /\ process # "stopped" /\ tcp[c] = "none" /\ ~(OneShot /\ sessionTaken)
  /\ tcp' = [tcp EXCEPT ![c] = "open"] /\ upstream' = [upstream EXCEPT ![c] = "connecting"]
  /\ GetRecorder(c)
  /\ sessionTaken' = (sessionTaken \/ OneShot)
  /\ tookSession' = IF OneShot THEN tookSession \cup {c} ELSE tookSession
  /\ capturing' = IF mode = "capture" THEN capturing \cup {c} ELSE capturing
  /\ UNCHANGED <<mode, refused, sawBytes, log, captureFailed, closed, archive, process,
                 status>>

\* The connection to the server is made, or is not: its factory closes the client's.
UpstreamMade(c) ==
  /\ Alive(c) /\ upstream[c] = "connecting"
  /\ upstream' = [upstream EXCEPT ![c] = "up"]
  /\ UNCHANGED <<mode, tcp, refused, tookSession, sawBytes, capturing, recorder, log, factory,
                 archive, process, status>>

UpstreamFailed(c) ==
  /\ Alive(c) /\ upstream[c] = "connecting"
  /\ upstream' = [upstream EXCEPT ![c] = "failed"] /\ LoseConnection(c)
  /\ UNCHANGED <<mode, refused, tookSession, sawBytes, capturing, recorder, log, factory,
                 archive, process, status>>

UpstreamLost(c) ==
  /\ Alive(c) /\ upstream[c] = "up"
  /\ upstream' = [upstream EXCEPT ![c] = "lost"] /\ LoseConnection(c)
  /\ UNCHANGED <<mode, refused, tookSession, sawBytes, capturing, recorder, log, factory,
                 archive, process, status>>

-----------------------------------------------------------------------------
(* dataReceived                                                            *)

\* Bytes of the client reach the parser once the server is connected.
FromClient(c) == Alive(c) /\ c \notin refused /\ upstream[c] \in {"up", "lost"}
FromServer(c) == Alive(c) /\ upstream[c] = "up"

\* Mutant of AbortCapture: the capture is dropped, and nobody told.
AbortCaptureSilently(c) ==
  /\ FromClient(c) \/ FromServer(c)
  /\ c \in capturing /\ capturing' = capturing \ {c}
  /\ sawBytes' = sawBytes \cup {c} /\ LoseConnection(c)
  /\ UNCHANGED <<mode, upstream, refused, tookSession, recorder, log, factory, archive, process,
                 status>>

\* Mutant of AbortCapture: the session goes on without a capture.
AbortCaptureGoesOn(c) ==
  /\ FromClient(c) \/ FromServer(c)
  /\ c \in capturing /\ capturing' = capturing \ {c}
  /\ sawBytes' = sawBytes \cup {c} /\ captureFailed' = TRUE
  /\ UNCHANGED <<mode, tcp, upstream, refused, tookSession, recorder, log, sessionTaken,
                 captureVdo, out, closed, archive, process, status>>

\* The scrubber cannot follow the handshake, on either side.
AbortCapture(c) ==
  /\ FromClient(c) \/ FromServer(c)
  /\ c \in capturing /\ capturing' = capturing \ {c}
  /\ sawBytes' = sawBytes \cup {c} /\ LoseConnection(c) /\ captureFailed' = TRUE
  /\ UNCHANGED <<mode, upstream, refused, tookSession, recorder, log, sessionTaken, captureVdo,
                 out, closed, archive, process, status>>

\* A chunk of either side without an event in it.
Bytes(c) ==
  /\ FromClient(c) \/ FromServer(c)
  /\ sawBytes' = sawBytes \cup {c}
  /\ UNCHANGED <<mode, tcp, upstream, refused, tookSession, capturing, recorder, log, factory,
                 archive, process, status>>

\* A chunk of the client with a key or pointer event: a recorder whose file is closed
\* raises, and dataReceived goes on without it.
ClientEvent(c) ==
  /\ FromClient(c) /\ events[c] < MaxEvents
  /\ sawBytes' = sawBytes \cup {c}
  /\ events' = [events EXCEPT ![c] = @ + 1]
  /\ written' = IF recorder[c][1] \in closed THEN written ELSE [written EXCEPT ![c] = @ + 1]
  /\ UNCHANGED <<mode, tcp, upstream, refused, tookSession, capturing, recorder, factory, archive,
                 process, status>>

-----------------------------------------------------------------------------
(* connectionLost                                                          *)

\* The client closed the connection, or vnclog did, or the reactor shuts down.  One
\* that is not read from is not known to be closed.
Loses(c) ==
  /\ Alive(c) /\ (upstream[c] # "connecting" \/ process = "stopping")
  /\ tcp' = [tcp EXCEPT ![c] = "lost"]
  /\ upstream' = IF c \in refused THEN upstream ELSE [upstream EXCEPT ![c] = "lost"]

\* factory.clientConnectionLost
ClientConnectionLost ==
  /\ closed' = IF out = None THEN closed ELSE closed \cup {out}
  /\ out' = None /\ captureVdo' = None

\* Mutant of RefusedLost: the rest of connectionLost is not skipped.
RefusedLostGoesOn(c) ==
  /\ Loses(c) /\ c \in refused /\ ClientConnectionLost
  /\ UNCHANGED <<mode, refused, tookSession, sawBytes, capturing, recorder, log, sessionTaken,
                 captureFailed, archive, process, status>>

RefusedLost(c) ==
  /\ Loses(c) /\ c \in refused
  /\ UNCHANGED <<mode, refused, tookSession, sawBytes, capturing, recorder, log, factory,
                 archive, process, status>>

\* Mutant of ProbeLost: the probe has used up the run.
ProbeLostKeepsClaim(c) ==
  /\ Loses(c) /\ c \notin refused /\ c \notin sawBytes
  /\ capturing' = capturing \ {c} /\ ClientConnectionLost
  /\ UNCHANGED <<mode, refused, tookSession, sawBytes, recorder, log, sessionTaken, captureFailed,
                 archive, process, status>>

\* No bytes, no session.
ProbeLost(c) ==
  /\ Loses(c) /\ c \notin refused /\ c \notin sawBytes
  /\ sessionTaken' = (sessionTaken /\ c \notin tookSession)
  /\ capturing' = capturing \ {c} /\ ClientConnectionLost
  /\ UNCHANGED <<mode, refused, tookSession, sawBytes, recorder, log, captureFailed, archive,
                 process, status>>

\* getRecordedSession and write_archive.
WriteCapture(c) ==
  archive' = [conn |-> c, vdo |-> captureVdo,
              events |-> IF captureVdo = None THEN 0 ELSE written[captureVdo]]

\* A session ends: its archive, if it has one, is on disk or could not be written.
SessionLost(c) ==
  /\ Loses(c) /\ c \notin refused /\ c \in sawBytes
  /\ IF c \in capturing
       THEN \/ WriteCapture(c) /\ capturing' = capturing \ {c} /\ UNCHANGED captureFailed
            \/ captureFailed' = TRUE /\ UNCHANGED <<archive, capturing>>
       ELSE UNCHANGED <<archive, capturing, captureFailed>>
  /\ IF OneShot THEN Stop ELSE UNCHANGED process
  /\ ClientConnectionLost
  /\ UNCHANGED <<mode, refused, tookSession, sawBytes, recorder, log, sessionTaken, status>>

ConnectionLost(c) == RefusedLost(c) \/ ProbeLost(c) \/ SessionLost(c)

-----------------------------------------------------------------------------
\* The viewer of --viewer exits, or the user interrupts vnclog.
StopRequested ==
  /\ process = "running" /\ Stop
  /\ UNCHANGED <<mode, conn, log, factory, archive, status>>

\* reactor.run() returns when every connection is lost.
Exits ==
  /\ process = "stopping" /\ \A c \in Conns : tcp[c] \in {"none", "lost"}
  /\ process' = "stopped" /\ status' = IF captureFailed THEN COMMAND_FAILED ELSE 0
  /\ UNCHANGED <<mode, conn, log, factory, archive>>

Next ==
  \/ \E c \in Conns :
       \/ Refuse(c) \/ Accept(c) \/ UpstreamMade(c) \/ UpstreamFailed(c) \/ UpstreamLost(c)
       \/ AbortCapture(c) \/ Bytes(c) \/ ClientEvent(c) \/ ConnectionLost(c)
  \/ StopRequested \/ Exits

\* The reactor ends what it began to close; a connection attempt ends by itself.
Fairness ==
  /\ \A c \in Conns : /\ WF_vars((tcp[c] = "closing" \/ process = "stopping") /\ ConnectionLost(c))
                      /\ WF_vars(UpstreamMade(c) \/ UpstreamFailed(c))
  /\ WF_vars(Exits)

Spec == Init /\ [][Next]_vars /\ Fairness

-----------------------------------------------------------------------------
Served(c) == c \notin refused /\ tcp[c] \in {"open", "closing"}

\* A --one-shot run serves one connection at a time, and one session in all.
OneSession ==
  OneShot => /\ \A c, d \in Conns : Served(c) /\ Served(d) => c = d
             /\ Cardinality(sawBytes) <= 1

\* The claim of a --one-shot run is somebody's: a connection is refused only while
\* another is served or once the session is over, never because of a probe that left.
ClaimHeld ==
  sessionTaken => (\E c \in tookSession : Served(c)) \/ process # "running"

\* The archive has the events of its own session, and all of them; and every event
\* that the parser found is on record, whoever else connected, left or was refused
\* meanwhile.  Connections that each have a file are the exception: the first to
\* leave closes the file of the last to come.
RecordingComplete ==
  /\ archive # NoArchive => /\ archive.vdo = archive.conn
                            /\ archive.events = events[archive.conn]
  /\ mode # "perClient" => written = events

\* vnclog --capture-raw exits with 0 only if it wrote the archive of the session it
\* served, and with an error only if there is none.
StatusTellsArchive ==
  process = "stopped" /\ mode = "capture"
    => IF status = 0 THEN archive # NoArchive \/ sawBytes = {} ELSE archive = NoArchive

\* A --one-shot process ends after its session, archive written or not, and ends
\* it when no archive may be written.
RunEnds ==
  /\ \A c \in Conns : OneShot /\ c \in sawBytes /\ tcp[c] # "open" ~> process = "stopped"
  /\ captureFailed ~> process = "stopped"
=============================================================================
