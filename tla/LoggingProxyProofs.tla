------------------------- MODULE LoggingProxyProofs --------------------------
(***************************************************************************)
(* What holds of a vnclog process however many clients connect to it.      *)
(***************************************************************************)
EXTENDS LoggingProxy, FiniteSetTheorems, TLAPS

Types ==
  /\ mode \in AllModes
  /\ tcp \in [Conns -> {"none", "open", "closing", "lost"}]
  /\ upstream \in [Conns -> {"none", "connecting", "failed", "up", "lost"}]
  /\ refused \subseteq Conns /\ tookSession \subseteq Conns /\ sawBytes \subseteq Conns
  /\ events \in [Conns -> Nat] /\ written \in [Conns -> Nat]
  /\ sessionTaken \in BOOLEAN /\ captureFailed \in BOOLEAN
  /\ process \in {"running", "stopping", "stopped"}

\* A refused connection has no connection to the server.
Unserved ==
  \A c \in Conns : /\ upstream[c] # "none" => tcp[c] # "none" /\ c \notin refused
                   /\ c \in refused => tcp[c] # "none"

\* The claim of a --one-shot run: whoever is served holds it, alone, and it is
\* not given up once bytes were seen.
Alone ==
  OneShot => \A c \in Conns :
    /\ Served(c) => /\ sessionTaken /\ c \in tookSession
                    /\ \A d \in Conns : Served(d) => d = c
    /\ c \in sawBytes => /\ sessionTaken
                         /\ \A d \in Conns : Served(d) \/ d \in sawBytes => d = c

Claim == (sessionTaken => OneShot) /\ Alone /\ ClaimHeld

\* Only --file-per-client closes files; a capture's buffer is the one of the
\* connection that is served.
Files ==
  /\ mode # "perClient" => closed = {} /\ out = None /\ written = events
  /\ mode = "capture" => \A c \in Conns : Served(c) => captureVdo = c
  /\ capturing # {} => mode = "capture"

\* The archive is that of a session which is over.
Archived ==
  archive # NoArchive =>
    /\ mode = "capture" /\ archive.conn \in sawBytes
    /\ archive.vdo = archive.conn /\ archive.events = events[archive.conn]
    /\ \A c \in Conns : ~Served(c)

\* A capture has failed, or is being made, or its archive is written.
Outcome ==
  mode = "capture" =>
    /\ captureFailed => /\ archive = NoArchive /\ sawBytes # {}
                        /\ \A c \in Conns : Served(c) => c \notin capturing
    /\ ~captureFailed => \A c \in Conns : /\ Served(c) => c \in capturing
                                          /\ c \in sawBytes => Served(c) \/ archive # NoArchive

IInv == Types /\ Unserved /\ Claim /\ Files /\ Archived /\ Outcome /\ StatusTellsArchive

-----------------------------------------------------------------------------
\* Bytes are seen of connections that are served only.
LEMMA BytesServed ==
  ASSUME IInv, NEW c \in Conns, FromClient(c) \/ FromServer(c)
  PROVE  Served(c) /\ process # "stopped"
BY DEF IInv, Unserved, FromClient, FromServer, Alive, Served

\* A step that changes neither who is served nor what is recorded.
LEMMA ServedKept ==
  ASSUME IInv, Types', Unserved', \A d \in Conns : Served(d)' <=> Served(d),
         UNCHANGED <<mode, tookSession, sawBytes, capturing, log, factory, archive, process, status>>
  PROVE  IInv'
<1>1. Claim'
  BY DEF IInv, Claim, Alone, ClaimHeld, OneShot, factory, Types
<1>2. Files'
  BY DEF IInv, Files, factory, log
<1>3. Archived' /\ Outcome' /\ StatusTellsArchive'
  BY DEF IInv, Archived, Outcome, StatusTellsArchive, factory, log
<1> QED
  BY <1>1, <1>2, <1>3 DEF IInv

\* Refused connections, and what happens on the server's side.
LEMMA ConnectionSteps ==
  ASSUME IInv, NEW c \in Conns,
         Refuse(c) \/ UpstreamMade(c) \/ UpstreamFailed(c) \/ UpstreamLost(c)
  PROVE  IInv'
<1> USE DEF IInv, Types, Alive, LoseConnection
<1>1. CASE Refuse(c)
  <2>1. Types'
    BY <1>1 DEF Refuse, log, factory
  <2>2. Unserved'
    BY <1>1 DEF Refuse, Unserved
  <2>3. \A d \in Conns : Served(d)' <=> Served(d)
    BY <1>1 DEF Refuse, Served
  <2> QED
    BY <1>1, <2>1, <2>2, <2>3, ServedKept DEF Refuse
<1>2. CASE UpstreamMade(c)
  <2>1. Types'
    BY <1>2 DEF UpstreamMade, log, factory
  <2>2. Unserved'
    BY <1>2 DEF UpstreamMade, Unserved
  <2>3. \A d \in Conns : Served(d)' <=> Served(d)
    BY <1>2 DEF UpstreamMade, Served
  <2> QED
    BY <1>2, <2>1, <2>2, <2>3, ServedKept DEF UpstreamMade
<1>3. CASE UpstreamFailed(c)
  <2>1. Types'
    BY <1>3 DEF UpstreamFailed, log, factory
  <2>2. Unserved'
    BY <1>3 DEF UpstreamFailed, Unserved
  <2>3. \A d \in Conns : Served(d)' <=> Served(d)
    BY <1>3 DEF UpstreamFailed, Served
  <2> QED
    BY <1>3, <2>1, <2>2, <2>3, ServedKept DEF UpstreamFailed
<1>4. CASE UpstreamLost(c)
  <2>1. Types'
    BY <1>4 DEF UpstreamLost, log, factory
  <2>2. Unserved'
    BY <1>4 DEF UpstreamLost, Unserved
  <2>3. \A d \in Conns : Served(d)' <=> Served(d)
    BY <1>4 DEF UpstreamLost, Served
  <2> QED
    BY <1>4, <2>1, <2>2, <2>3, ServedKept DEF UpstreamLost
<1> QED
  BY <1>1, <1>2, <1>3, <1>4

\* A connection is accepted: nobody else is served in a --one-shot run, which has
\* seen no bytes.
LEMMA AcceptStep == ASSUME IInv, NEW c \in Conns, Accept(c) PROVE IInv'
<1> USE DEF IInv
<1>1. Types'
  BY DEF Accept, Types, log
<1>2. Unserved'
  BY DEF Accept, Unserved, Types
<1>3. /\ OneShot => sawBytes = {} /\ \A d \in Conns : ~Served(d)
      /\ sessionTaken => OneShot
  BY DEF Accept, Claim, Alone, Types
<1>4. \A d \in Conns : Served(d)' <=> Served(d) \/ d = c
  BY DEF Accept, Served, Types, Unserved
<1>5. OneShot' <=> OneShot
  BY DEF Accept, OneShot
<1>6. Claim'
  BY <1>3, <1>4, <1>5 DEF Accept, Claim, Alone, ClaimHeld, Types
<1>7. Files'
  BY <1>3, <1>4 DEF Accept, GetRecorder, Files, OneShot, log
<1>8. archive = NoArchive /\ ~(captureFailed /\ mode = "capture")
  BY <1>3 DEF Archived, Outcome, OneShot
<1>9. Archived' /\ StatusTellsArchive'
  BY <1>8 DEF Accept, Archived, StatusTellsArchive, NoArchive
<1>10. Outcome'
  BY <1>3, <1>4, <1>8 DEF Accept, Outcome, OneShot, Types
<1> QED
  BY <1>1, <1>2, <1>6, <1>7, <1>9, <1>10

\* Bytes arrive: whoever is served has its session now.
LEMMA BytesSteps ==
  ASSUME IInv, NEW c \in Conns, AbortCapture(c) \/ Bytes(c) \/ ClientEvent(c)
  PROVE  IInv'
<1> USE DEF IInv
<1>1. /\ UNCHANGED <<mode, upstream, refused, tookSession, recorder, sessionTaken, captureVdo,
                     out, closed, archive, process, status>>
      /\ sawBytes' = sawBytes \cup {c}
  BY DEF AbortCapture, Bytes, ClientEvent, factory
<1>2. Served(c) /\ process # "stopped"
  BY BytesServed DEF AbortCapture, Bytes, ClientEvent
<1>3. Types'
  <2>1. tcp' \in [Conns -> {"none", "open", "closing", "lost"}]
    BY DEF AbortCapture, Bytes, ClientEvent, LoseConnection, Types
  <2>2. events' \in [Conns -> Nat]
    BY DEF AbortCapture, Bytes, ClientEvent, Types, log
  <2>3. written' \in [Conns -> Nat]
    BY DEF AbortCapture, Bytes, ClientEvent, Types, log
  <2>4. captureFailed' \in BOOLEAN
    BY DEF AbortCapture, Bytes, ClientEvent, Types, factory
  <2> QED
    BY <1>1, <2>1, <2>2, <2>3, <2>4 DEF Types
<1>4. \A d \in Conns : Served(d)' <=> Served(d)
  BY <1>1, <1>2 DEF AbortCapture, Bytes, ClientEvent, LoseConnection, Served, Types
<1>5. Unserved'
  BY <1>1, <1>2 DEF AbortCapture, Bytes, ClientEvent, LoseConnection, Unserved, Types
<1>6. Claim'
  <2>1. (OneShot' <=> OneShot) /\ Types
    BY <1>1 DEF OneShot
  <2>2. Alone'
    BY <1>1, <1>2, <1>4, <2>1 DEF Claim, Alone, Types
  <2> QED
    BY <1>1, <1>4, <2>1, <2>2 DEF Claim, ClaimHeld, Types
<1>7. Files'
  <2>1. mode # "perClient" => written' = events'
    BY DEF AbortCapture, Bytes, ClientEvent, Files, log
  <2>2. capturing' # {} => capturing # {}
    BY DEF AbortCapture, Bytes, ClientEvent
  <2> QED
    BY <1>1, <1>4, <2>1, <2>2 DEF Files
<1>8. archive = NoArchive
  BY <1>2 DEF Archived
<1>9. Archived' /\ StatusTellsArchive'
  BY <1>1, <1>2, <1>8 DEF Archived, StatusTellsArchive, NoArchive
<1>10. Outcome'
  <2>1. CASE AbortCapture(c)
    <3>1. mode = "capture" => OneShot
      BY DEF OneShot
    <3>2. mode = "capture" => \A d \in Conns : Served(d)' => d = c
      BY <1>2, <1>4, <3>1 DEF Claim, Alone
    <3> QED
      BY <1>1, <1>8, <2>1, <3>2 DEF Outcome, AbortCapture, NoArchive
  <2>2. CASE Bytes(c) \/ ClientEvent(c)
    <3>1. UNCHANGED <<capturing, captureFailed>>
      BY <2>2 DEF Bytes, ClientEvent, factory
    <3> QED
      BY <1>1, <1>2, <1>4, <1>8, <3>1 DEF Outcome, NoArchive
  <2> QED
    BY <2>1, <2>2
<1> QED
  BY <1>3, <1>5, <1>6, <1>7, <1>9, <1>10

\* A connection that was not refused is lost: the others stay served, and in a
\* --one-shot run there are none.
LEMMA LostServed ==
  ASSUME IInv, NEW c \in Conns, Loses(c), c \notin refused, UNCHANGED <<mode, refused>>
  PROVE  /\ Served(c) /\ process # "stopped" /\ archive = NoArchive
         /\ \A d \in Conns : Served(d)' <=> Served(d) /\ d # c
         /\ OneShot => /\ sessionTaken /\ c \in tookSession /\ sawBytes \subseteq {c}
                       /\ \A d \in Conns : ~Served(d)'
         /\ tcp' \in [Conns -> {"none", "open", "closing", "lost"}]
         /\ upstream' \in [Conns -> {"none", "connecting", "failed", "up", "lost"}]
         /\ Unserved'
<1> USE DEF IInv
<1>1. Served(c) /\ process # "stopped"
  BY DEF Loses, Alive, Served
<1>2. archive = NoArchive
  BY <1>1 DEF Archived
<1>3. \A d \in Conns : Served(d)' <=> Served(d) /\ d # c
  BY DEF Loses, Served, Types
<1>4. OneShot => /\ sessionTaken /\ c \in tookSession /\ sawBytes \subseteq {c}
                 /\ \A d \in Conns : ~Served(d)'
  BY <1>1, <1>3 DEF Claim, Alone, Types
<1>5. /\ tcp' \in [Conns -> {"none", "open", "closing", "lost"}]
      /\ upstream' \in [Conns -> {"none", "connecting", "failed", "up", "lost"}]
  BY DEF Loses, Types
<1>6. Unserved'
  BY <1>1 DEF Loses, Unserved, Types
<1> QED
  BY <1>1, <1>2, <1>3, <1>4, <1>5, <1>6

\* A refused connection is lost, and nothing else happens.
LEMMA RefusedLostStep == ASSUME IInv, NEW c \in Conns, RefusedLost(c) PROVE IInv'
<1> USE DEF IInv, RefusedLost, Loses
<1>1. Types'
  BY DEF Types, log, factory
<1>2. Unserved'
  BY DEF Unserved, Types
<1>3. \A d \in Conns : Served(d)' <=> Served(d)
  BY DEF Served, Types
<1> QED
  BY <1>1, <1>2, <1>3, ServedKept

\* A probe is lost: its claim goes with it.
LEMMA ProbeLostStep == ASSUME IInv, NEW c \in Conns, ProbeLost(c) PROVE IInv'
<1> USE DEF IInv
<1>1. /\ UNCHANGED <<mode, refused, tookSession, sawBytes, recorder, events, written,
                     captureFailed, archive, process, status>>
      /\ Loses(c) /\ c \notin refused /\ c \notin sawBytes
      /\ sessionTaken' = (sessionTaken /\ c \notin tookSession)
      /\ capturing' \subseteq capturing
      /\ captureVdo' = None /\ out' = None
      /\ closed' = IF out = None THEN closed ELSE closed \cup {out}
  BY DEF ProbeLost, ClientConnectionLost, log
<1>2. /\ process # "stopped" /\ archive = NoArchive
      /\ OneShot => /\ sessionTaken /\ c \in tookSession /\ sawBytes \subseteq {c}
                    /\ \A d \in Conns : ~Served(d)'
  BY <1>1, LostServed
<1>3. Types'
  BY <1>1, LostServed DEF Types
<1>4. Unserved'
  BY <1>1, LostServed
<1>5. sessionTaken' = FALSE
  BY <1>1, <1>2 DEF Claim, Types
<1>6. OneShot => sawBytes = {}
  BY <1>1, <1>2
<1>7. Claim'
  BY <1>1, <1>2, <1>5, <1>6 DEF Claim, Alone, ClaimHeld, OneShot
<1>8. Files'
  BY <1>1, <1>2 DEF Files, OneShot
<1>9. Archived' /\ StatusTellsArchive'
  BY <1>1, <1>2 DEF Archived, StatusTellsArchive, NoArchive
<1>10. Outcome'
  BY <1>1, <1>2, <1>6 DEF Outcome, OneShot
<1> QED
  BY <1>3, <1>4, <1>7, <1>8, <1>9, <1>10

\* A session is lost: the claim stays, the process of a --one-shot run stops, and a
\* capture is archived or has failed.
LEMMA SessionLostStep == ASSUME IInv, NEW c \in Conns, SessionLost(c) PROVE IInv'
<1> USE DEF IInv
<1>1. /\ UNCHANGED <<mode, refused, tookSession, sawBytes, recorder, events, written,
                     sessionTaken, status>>
      /\ Loses(c) /\ c \notin refused /\ c \in sawBytes
      /\ capturing' \subseteq capturing
      /\ captureVdo' = None /\ out' = None
      /\ closed' = IF out = None THEN closed ELSE closed \cup {out}
      /\ IF OneShot THEN Stop ELSE UNCHANGED process
  BY DEF SessionLost, ClientConnectionLost, log
<1>2. /\ Served(c) /\ process # "stopped" /\ archive = NoArchive
      /\ OneShot => /\ sessionTaken /\ c \in tookSession /\ sawBytes \subseteq {c}
                    /\ \A d \in Conns : ~Served(d)'
  BY <1>1, LostServed
<1>3. /\ process' \in {"running", "stopping"}
      /\ OneShot => process' = "stopping"
  BY <1>1, <1>2 DEF Stop, Types
<1>4. Types'
  <2>1. captureFailed' \in BOOLEAN
    BY DEF SessionLost, Types
  <2> QED
    BY <1>1, <1>3, <2>1, LostServed DEF Types
<1>5. Unserved'
  BY <1>1, LostServed
<1>6. Claim'
  <2>1. OneShot' <=> OneShot
    BY <1>1 DEF OneShot
  <2> QED
    BY <1>1, <1>2, <1>3, <2>1 DEF Claim, Alone, ClaimHeld
<1>7. Files'
  BY <1>1, <1>2 DEF Files, OneShot
<1>8. StatusTellsArchive'
  BY <1>3 DEF StatusTellsArchive
<1>9. \/ /\ c \in capturing /\ WriteCapture(c) /\ UNCHANGED captureFailed
      \/ /\ c \in capturing /\ captureFailed' = TRUE /\ UNCHANGED archive
      \/ c \notin capturing /\ UNCHANGED <<archive, captureFailed>>
  BY DEF SessionLost
<1>10. CASE c \in capturing /\ WriteCapture(c) /\ UNCHANGED captureFailed
  <2>1. mode = "capture" /\ captureVdo = c /\ written = events /\ c # None
    BY <1>2, <1>10, ConnsAssumption DEF Files, None
  <2>2. archive' = [conn |-> c, vdo |-> c, events |-> events[c]]
    BY <1>10, <2>1 DEF WriteCapture
  <2>3. archive' # NoArchive
    BY <2>1, <2>2 DEF NoArchive
  <2>4. ~captureFailed
    BY <1>2, <1>10, <2>1 DEF Outcome
  <2>5. Archived'
    BY <1>1, <1>2, <2>1, <2>2 DEF Archived, OneShot
  <2>6. Outcome'
    BY <1>1, <1>2, <1>10, <2>1, <2>3, <2>4 DEF Outcome, OneShot
  <2> QED
    BY <1>4, <1>5, <1>6, <1>7, <1>8, <2>5, <2>6
<1>11. CASE ~(c \in capturing /\ WriteCapture(c) /\ UNCHANGED captureFailed)
  <2>1. archive' = NoArchive
    BY <1>2, <1>9, <1>11
  <2>2. Archived'
    BY <2>1 DEF Archived, NoArchive
  <2>3. mode = "capture" => captureFailed' = TRUE
    BY <1>2, <1>9, <1>11 DEF Outcome, Types
  <2>4. Outcome'
    BY <1>1, <1>2, <2>1, <2>3 DEF Outcome, OneShot, NoArchive
  <2> QED
    BY <1>4, <1>5, <1>6, <1>7, <1>8, <2>2, <2>4
<1> QED
  BY <1>10, <1>11

-----------------------------------------------------------------------------
\* A new process has served nobody.
LEMMA InitInv == Init => IInv
<1> SUFFICES ASSUME Init PROVE IInv
  OBVIOUS
<1>1. Types /\ Unserved
  BY SessionsAssumption DEF Init, Types, Unserved
<1>2. \A c \in Conns : ~Served(c)
  BY DEF Init, Served
<1>3. Claim /\ Files
  BY <1>2 DEF Init, Claim, Alone, ClaimHeld, Files
<1>4. Archived /\ Outcome /\ StatusTellsArchive
  BY <1>2 DEF Init, Archived, Outcome, StatusTellsArchive
<1> QED
  BY <1>1, <1>3, <1>4 DEF IInv

\* Every callback of the reactor keeps the invariant.
LEMMA NextInv == IInv /\ [Next]_vars => IInv'
<1> SUFFICES ASSUME IInv, [Next]_vars PROVE IInv'
  OBVIOUS
<1>1. CASE UNCHANGED vars
  <2>1. /\ UNCHANGED <<mode, tcp, upstream, refused, tookSession, sawBytes, capturing, log,
                       factory, archive, process, status>>
    BY <1>1 DEF vars, conn
  <2>2. Types' /\ Unserved'
    BY <2>1 DEF IInv, Types, Unserved, log, factory
  <2>3. \A d \in Conns : Served(d)' <=> Served(d)
    BY <2>1 DEF Served
  <2> QED
    BY <2>1, <2>2, <2>3, ServedKept
<1>2. CASE StopRequested
  <2>1. /\ UNCHANGED <<mode, tcp, upstream, refused, tookSession, sawBytes, capturing, events,
                       written, sessionTaken, captureFailed, captureVdo, out, closed, archive,
                       status>>
        /\ process' = "stopping"
    BY <1>2 DEF StopRequested, Stop, conn, log, factory
  <2>2. Types' /\ Unserved' /\ Files' /\ Archived' /\ Outcome'
    BY <2>1 DEF IInv, Types, Unserved, Files, Archived, Outcome, Served
  <2>3. Claim' /\ StatusTellsArchive'
    BY <2>1 DEF IInv, Claim, Alone, ClaimHeld, Served, StatusTellsArchive, OneShot
  <2> QED
    BY <2>2, <2>3 DEF IInv
<1>3. CASE Exits
  <2>1. /\ UNCHANGED <<mode, tcp, upstream, refused, tookSession, sawBytes, capturing, events,
                       written, sessionTaken, captureFailed, captureVdo, out, closed, archive>>
        /\ process' = "stopped"
        /\ status' = IF captureFailed THEN COMMAND_FAILED ELSE 0
        /\ \A c \in Conns : ~Served(c)
    BY <1>3 DEF Exits, conn, log, factory, Served
  <2>2. Types' /\ Unserved' /\ Files' /\ Archived' /\ Outcome'
    BY <2>1 DEF IInv, Types, Unserved, Files, Archived, Outcome, Served
  <2>3. Claim'
    BY <2>1 DEF IInv, Claim, Alone, ClaimHeld, Served, OneShot
  <2>4. StatusTellsArchive'
    BY <2>1 DEF IInv, Outcome, StatusTellsArchive, COMMAND_FAILED, Types
  <2> QED
    BY <2>2, <2>3, <2>4 DEF IInv
<1> QED
  BY <1>1, <1>2, <1>3, ConnectionSteps, AcceptStep, BytesSteps, RefusedLostStep, ProbeLostStep,
     SessionLostStep DEF Next, ConnectionLost

\* It holds as long as the process runs.
LEMMA Invariant == Spec => []IInv
BY InitInv, NextInv, PTL DEF Spec

\* However many clients connect to a --one-shot vnclog, it serves one at a time and
\* has one session in all.
THEOREM SessionAlone == Spec => []OneSession
<1>1. IInv => OneSession
  <2> SUFFICES ASSUME IInv, OneShot
               PROVE  /\ \A c, d \in Conns : Served(c) /\ Served(d) => c = d
                      /\ Cardinality(sawBytes) <= 1
    BY DEF OneSession
  <2>1. \A c, d \in Conns : Served(c) /\ Served(d) => c = d
    BY DEF IInv, Claim, Alone
  <2>2. sawBytes = {} \/ \E c \in Conns : sawBytes = {c}
    BY DEF IInv, Claim, Alone, Types
  <2>3. Cardinality(sawBytes) <= 1
    BY <2>2, FS_EmptySet, FS_Singleton
  <2> QED
    BY <2>1, <2>3
<1> QED
  BY <1>1, Invariant, PTL

\* connectionMade refuses a client only while another holds the session or after it.
THEOREM ClaimIsHeld == Spec => []ClaimHeld
<1>1. IInv => ClaimHeld
  BY DEF IInv, Claim
<1> QED
  BY <1>1, Invariant, PTL

\* The archive has all events of its own session, and but for --file-per-client no
\* event of any connection is missing from the log.
THEOREM NothingUnrecorded == Spec => []RecordingComplete
<1>1. IInv => RecordingComplete
  BY DEF IInv, Files, Archived, RecordingComplete
<1> QED
  BY <1>1, Invariant, PTL

\* The exit status of vnclog --capture-raw says whether there is an archive of the session.
THEOREM StatusHonest == Spec => []StatusTellsArchive
<1>1. IInv => StatusTellsArchive
  BY DEF IInv
<1> QED
  BY <1>1, Invariant, PTL
=============================================================================
