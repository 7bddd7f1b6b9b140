-------------------------------- MODULE Replay --------------------------------
(***************************************************************************)
(* vncdotool/replay.py: vncdo-replay --server plays the server's side of a *)
(* capture to whatever client connects.                                    *)
(*                                                                         *)
(* The handshake goes out a step at a time, paced by the grammar vnclog    *)
(* recorded it with; the framebuffer waits for the client's first request. *)
(* The archive is what HandshakeScrubber is checked to leave of a session: *)
(* cut off where the connection was lost, stripped or preserved.  The      *)
(* client is external, follows RFC 6143, and its bytes are cut anywhere.   *)
(*                                                                         *)
(* Connections at the same time have a protocol each, and share only the   *)
(* archive and the reactor: one is followed, the others appear as what     *)
(* their end does to it.                                                   *)
(***************************************************************************)
EXTENDS HandshakeGrammar

CONSTANTS
  Versions,      \* minor versions that recorded and live clients speak: 3, 7, 8
  Types,         \* security types of recorded sessions; 0 refuses
  KeyLens,       \* key lengths of Diffie-Hellman servers
  NameLens,      \* lengths of a desktop's name
  Kinds,         \* messages a client may send before it asks for an update
  MaxMessages,   \* bound: how many of them
  MaxConns,      \* bound: connections made to the server, one after the other
  Forever,       \* --forever given or not, a subset of BOOLEAN
  Chunks         \* sizes in which TCP delivers, besides everything at once

AllKinds == {"setPixelFormat", "setEncodings", "key", "pointer", "cutText", "qemu",
             "qemuOther", "unknown"}

ASSUME ReplayAssumption ==
  /\ Versions \subseteq 3..8 /\ Types \subseteq 0..255 /\ KeyLens \subseteq Nat
  /\ NameLens \subseteq Nat /\ Kinds \subseteq AllKinds /\ MaxMessages \in Nat
  /\ MaxConns \in Nat /\ Forever \subseteq BOOLEAN /\ Chunks \subseteq Nat \ {0}

VARIABLES
  archive,     \* the capture: s2c.bin, negotiated_version or 0; the type and key length
               \* its session had
  forever,     \* factory.forever
  conn,        \* "none", "open", "closing", "lost"
  conns,       \* connections so far
  calling,     \* advance() is running
  pos, buffer, exhausted, awaitingRequest, served, scrubber,    \* ReplayProtocol
  process,     \* "running", "stopped"
  version,     \* what the client will reply
  script,      \* fields of the handshake the client has still to read or write
  heard,       \* bytes of the server that it has read
  sentKinds,   \* messages it has sent
  wire,        \* its bytes on their way
  asked        \* a request for an update, or a message of unknown length, was delivered

protocol == <<pos, buffer, exhausted, awaitingRequest, served, scrubber>>
client == <<version, script, heard, sentKinds>>
vars == <<archive, forever, conn, conns, calling, protocol, process, client, wire, asked>>

-----------------------------------------------------------------------------
(* Archives.                                                               *)

Exchange(type, k) ==
  CASE type = VNC_AUTHENTICATION -> <<Field("challenge", 0, 16)>>
    [] type = DIFFIE_HELLMAN ->
         <<Field("dh_head", k, 4), Field("modulus", k, k), Field("server_key", k, k)>>
    [] type = NONE -> <<>>
    [] OTHER -> <<Field("opaque", 0, 2)>>

Reason == Field("reason", 0, 6)

\* Everything a server says in a session, field by field.
ServerFields(v, type, k, result, name) ==
  <<Field("server_head", 8, 12)>>
  \o (CASE v >= 7 /\ type = 0 -> <<Field("num_types", 0, 1)>>
        [] v >= 7 /\ type # 0 -> <<Field("num_types", 1, 1), Field("types", <<type>>, 1)>>
        [] OTHER -> <<Field("auth", type, 4)>>)
  \o (IF type = 0 THEN <<Reason>>
      ELSE Exchange(type, k)
           \o (IF v < 8 /\ type = NONE THEN <<>> ELSE <<Field("result", result, 4)>>)
           \o (IF result # 0 THEN (IF v >= 8 THEN <<Reason>> ELSE <<>>)
               ELSE <<Field("server_init", name, 24), Field("name", name, name),
                      Field("session", 0, 3)>>))

\* s2c.bin of a session lost after k fields: stripped, which drops a field of which only
\* a part has come, or verbatim.
Recorded(fields, k, v, preserve) ==
  LET said == FlattenSeq(SubSeq(fields, 1, k)) IN
  IF preserve THEN {said, Front(said)} ELSE {NoneSession(said, v)}

Followed == {0, NONE, VNC_AUTHENTICATION, DIFFIE_HELLMAN}

\* A type that cannot be followed is never stripped; a server that has only greeted may
\* not have had a reply.
Sessions ==
  {r \in [v : Versions, type : Types, keyLen : KeyLens, result : {0, 1}, name : NameLens,
         preserve : BOOLEAN] :
     /\ r.type \in Followed \/ r.preserve
     /\ r.type = 0 \/ (r.type = NONE /\ r.v < 8) => r.result = 0}

Archives ==
  UNION {LET fields == ServerFields(r.v, r.type, r.keyLen, r.result, r.name) IN
         UNION {[s2c : Recorded(fields, k, r.v, r.preserve),
                 negotiated : IF k = 1 THEN {0, r.v} ELSE {r.v},
                 type : {IF r.preserve THEN r.type ELSE NONE},
                 keyLen : {IF r.preserve /\ r.type = DIFFIE_HELLMAN THEN r.keyLen ELSE 0}] :
                k \in 1..Len(fields)} :
         r \in Sessions}

-----------------------------------------------------------------------------
(* The client.                                                             *)

In(kind) == [to |-> "client", kind |-> kind, bytes |-> <<>>]
Out(kind, value, n) == [to |-> "server", kind |-> kind, bytes |-> Field(kind, value, n)]

\* What a client of version v that speaks the type reads and writes; with a key length
\* of 0 there are no keys.
Script(v, type, k) ==
  <<In("server_head"), Out("client_head", v, 12)>>
  \o (IF v >= 7 THEN <<In("num_types"), In("types"), Out("sectype", type, 1)>>
                ELSE <<In("auth")>>)
  \o (CASE type = VNC_AUTHENTICATION -> <<In("challenge"), Out("response", 0, 16)>>
        [] type = DIFFIE_HELLMAN ->
             IF k = 0 THEN <<In("dh_head"), Out("credentials", 0, ARD_CREDENTIALS_LEN)>>
             ELSE <<In("dh_head"), In("modulus"), In("server_key"),
                    Out("credentials", 0, ARD_CREDENTIALS_LEN), Out("client_key", k, k)>>
        [] type = NONE -> <<>>
        [] OTHER -> <<In("opaque"), Out("opaque", 0, 2)>>)
  \o (IF v < 8 /\ type = NONE THEN <<>> ELSE <<In("result")>>)
  \o <<Out("client_init", 0, 1), In("server_init"), In("name")>>

FieldLen(b) ==
  CASE b.kind = "server_head" -> 12 [] b.kind = "num_types" -> 1 [] b.kind = "types" -> Len(b.value)
    [] b.kind \in {"auth", "result", "dh_head"} -> 4 [] b.kind = "challenge" -> 16
    [] b.kind \in {"modulus", "server_key", "name"} -> b.value
    [] b.kind = "opaque" -> 2 [] b.kind = "server_init" -> 24

Reads == script # <<>> /\ Head(script).to = "client"
NextByte == archive.s2c[heard + 1]

\* It reads the field it expects once it has arrived.  A server that refuses has
\* nothing more to say to it, and one without a name does not send it.
ClientReads ==
  /\ conn = "open" /\ ~calling /\ Reads /\ heard < pos /\ NextByte.kind = Head(script).kind
  /\ heard + FieldLen(NextByte) <= pos
  /\ heard' = heard + FieldLen(NextByte)
  /\ script' = CASE NextByte.kind \in {"num_types", "auth"} /\ NextByte.value = 0 -> <<>>
                 [] NextByte.kind = "result" /\ NextByte.value # 0 -> <<>>
                 [] NextByte.kind = "server_init" /\ NextByte.value = 0 -> <<>>
                 [] OTHER -> Tail(script)
  /\ UNCHANGED <<archive, forever, conn, conns, calling, protocol, process, version, sentKinds, wire,
                 asked>>

ClientWrites ==
  /\ conn = "open" /\ ~calling /\ script # <<>> /\ Head(script).to = "server"
  /\ wire' = wire \o Head(script).bytes /\ script' = Tail(script)
  /\ UNCHANGED <<archive, forever, conn, conns, calling, protocol, process, version, heard, sentKinds,
                 asked>>

MessageLen(kind) ==
  CASE kind = "setPixelFormat" -> 20 [] kind = "setEncodings" -> 8 [] kind = "key" -> 8
    [] kind = "pointer" -> 6 [] kind = "cutText" -> 10 [] kind = "qemu" -> 12
    [] kind = "update" -> 10 [] kind \in {"qemuOther", "unknown"} -> 4

\* The server's description of its desktop was read.
InSession ==
  script = <<>> /\ \E i \in 1..heard : archive.s2c[i].kind = "server_init"

ClientSends(kind) ==
  /\ conn = "open" /\ ~calling /\ InSession /\ "update" \notin ToSet(sentKinds)
  /\ sentKinds' = Append(sentKinds, kind)
  /\ wire' = wire \o Field(kind, MessageLen(kind), MessageLen(kind))
  /\ UNCHANGED <<archive, forever, conn, conns, calling, protocol, process, version, script, heard,
                 asked>>

ClientMessage == Len(sentKinds) < MaxMessages /\ \E kind \in Kinds : ClientSends(kind)
ClientAsks == ClientSends("update")

-----------------------------------------------------------------------------
(* ReplayProtocol.                                                         *)

NEED_MORE == -1
UNKNOWN_MESSAGE == -2

\* Mutant of ClientMessageLength: the text of a cut text is not counted.
ClientMessageLengthFixed(buf) ==
  LET kind == buf[1].kind IN
  CASE kind = "cutText" -> IF Len(buf) < 8 THEN NEED_MORE ELSE 8
    [] kind \in {"qemuOther", "unknown"} -> UNKNOWN_MESSAGE
    [] OTHER -> buf[1].value

ClientMessageLength(buf) ==
  LET kind == buf[1].kind IN
  CASE kind = "setEncodings" /\ Len(buf) < 4 -> NEED_MORE
    [] kind = "cutText" /\ Len(buf) < 8 -> NEED_MORE
    [] kind \in {"qemu", "qemuOther"} /\ Len(buf) < 2 -> NEED_MORE
    [] kind \in {"qemuOther", "unknown"} -> UNKNOWN_MESSAGE
    [] OTHER -> buf[1].value

\* The body of saw_update_request's loop, which leaves alone what it has decided.
Scan(f) ==
  IF f.saw \/ f.buf = <<>> THEN f
  ELSE LET length == ClientMessageLength(f.buf) IN
       CASE length = UNKNOWN_MESSAGE -> [saw |-> TRUE, buf |-> <<>>]
         [] length = NEED_MORE \/ Len(f.buf) < length -> f
         [] OTHER -> [saw |-> f.buf[1].kind = "update",
                      buf |-> SubSeq(f.buf, length + 1, Len(f.buf))]

SawUpdateRequest(buf) ==
  LET after[k \in 0..MaxMessages + 1] ==
        IF k = 0 THEN [saw |-> FALSE, buf |-> buf] ELSE Scan(after[k - 1])
  IN  after[MaxMessages + 1]

\* advance: one step for each turn of its loop.  Nothing else happens meanwhile that
\* it would see.
ServerWatches(t) == calling /\ Watches(scrubber, t)
AtEnd == Len(archive.s2c) - pos < scrubber.need

\* s2c.feed, c2s.feed: _feed's loop goes on with the fields of length 0 that follow in
\* the same direction, at most the two keys of a Diffie-Hellman server.
SkipEmpty(s) == IF s.step # "done" /\ s.need = 0 THEN Advance(s, 0) ELSE s
Fed(s, value) == SkipEmpty(SkipEmpty(Advance(s, value)))

SendField ==
  /\ ServerWatches("s2c") /\ ~AtEnd
  /\ pos' = pos + scrubber.need
  /\ scrubber' = Fed(scrubber, archive.s2c[pos + 1].value)
  /\ UNCHANGED <<archive, forever, conn, conns, calling, buffer, exhausted, awaitingRequest,
                 served, process, client, wire, asked>>

\* The live client is held to the recorded version, if there is one.
VersionMismatch(s) ==
  s.negotiated # 0 /\ archive.negotiated # 0 /\ s.negotiated # archive.negotiated

\* Mutant of TakeField: the client is served whatever it replied.
TakeAnyVersion ==
  /\ ServerWatches("c2s") /\ Len(buffer) >= scrubber.need
  /\ scrubber' = Fed(scrubber, buffer[1].value)
  /\ buffer' = SubSeq(buffer, scrubber.need + 1, Len(buffer))
  /\ UNCHANGED <<archive, forever, conn, conns, calling, pos, exhausted, awaitingRequest, served,
                 process, client, wire, asked>>

TakeField ==
  /\ ServerWatches("c2s") /\ Len(buffer) >= scrubber.need
  /\ scrubber' = Fed(scrubber, buffer[1].value)
  /\ buffer' = SubSeq(buffer, scrubber.need + 1, Len(buffer))
  /\ IF VersionMismatch(scrubber')
       THEN conn' = "closing" /\ exhausted' = TRUE /\ calling' = FALSE
       ELSE UNCHANGED <<conn, exhausted, calling>>
  /\ UNCHANGED <<archive, forever, conns, pos, awaitingRequest, served, process, client, wire,
                 asked>>

\* expect only arms the timer of a warning.
AwaitField ==
  /\ ServerWatches("c2s") /\ Len(buffer) < scrubber.need /\ calling' = FALSE
  /\ UNCHANGED <<archive, forever, conn, conns, protocol, process, client, wire, asked>>

\* Mutant of ServeSession: the end of a capture cut short is waited for.
ServeSessionWhole ==
  /\ calling /\ (scrubber.step = "done" \/ (Watches(scrubber, "s2c") /\ AtEnd))
  /\ calling' = FALSE
  /\ awaitingRequest' = (awaitingRequest \/ (scrubber.step = "done" /\ scrubber.sized))
  /\ LET scan == SawUpdateRequest(buffer) IN
     IF awaitingRequest' THEN buffer' = scan.buf /\ exhausted' = scan.saw
                         ELSE UNCHANGED buffer /\ exhausted' = (scrubber.step = "done")
  /\ pos' = IF exhausted' THEN Len(archive.s2c) ELSE pos
  /\ UNCHANGED <<archive, forever, conn, conns, served, scrubber, process, client, wire, asked>>

\* The rest of the capture, once it was asked for or cannot be paced.
ServeSession ==
  /\ calling /\ (scrubber.step = "done" \/ (Watches(scrubber, "s2c") /\ AtEnd))
  /\ calling' = FALSE
  /\ awaitingRequest' = (awaitingRequest \/ (scrubber.step = "done" /\ scrubber.sized))
  /\ LET scan == SawUpdateRequest(buffer) IN
     IF awaitingRequest' THEN buffer' = scan.buf /\ exhausted' = scan.saw
                         ELSE UNCHANGED buffer /\ exhausted' = TRUE
  /\ pos' = IF exhausted' THEN Len(archive.s2c) ELSE pos
  /\ UNCHANGED <<archive, forever, conn, conns, served, scrubber, process, client, wire, asked>>

ServerAdvances == SendField \/ TakeField \/ AwaitField \/ ServeSession

NewProtocol ==
  /\ pos' = 0 /\ buffer' = <<>> /\ exhausted' = FALSE /\ awaitingRequest' = FALSE
  /\ served' = FALSE /\ scrubber' = Scrubber(FALSE)

NothingSaid == heard' = 0 /\ sentKinds' = <<>> /\ wire' = <<>> /\ asked' = FALSE

\* Whatever was served before, the archive is played from its start.
ConnectionMade ==
  /\ process = "running" /\ conn \in {"none", "lost"} /\ conns < MaxConns
  /\ conn' = "open" /\ conns' = conns + 1 /\ calling' = TRUE
  /\ NewProtocol /\ NothingSaid
  /\ \E v \in Versions : version' = v /\ script' = Script(v, archive.type, archive.keyLen)
  /\ UNCHANGED <<archive, forever, process>>

Asks(b) ==
  (b.kind = "update" /\ b.at = MessageLen("update")) \/ (b.kind = "unknown" /\ b.at = 1)
  \/ (b.kind = "qemuOther" /\ b.at = 2)

DataReceived(n) ==
  /\ conn \in {"open", "closing"} /\ ~calling /\ n \in 1..Len(wire)
  /\ served' = TRUE /\ wire' = SubSeq(wire, n + 1, Len(wire))
  /\ asked' = (asked \/ \E i \in 1..n : Asks(wire[i]))
  /\ buffer' = IF exhausted THEN buffer ELSE buffer \o SubSeq(wire, 1, n)
  /\ calling' = ~exhausted
  /\ UNCHANGED <<archive, forever, conn, conns, pos, exhausted, awaitingRequest, scrubber,
                 process, client>>

\* A connection that sent no byte does not end the run.
ConnectionFinished == process' = IF served /\ ~forever THEN "stopped" ELSE process

\* The protocol goes with its connection, and nothing of it is used again.
Gone ==
  /\ conn \in {"open", "closing"} /\ ~calling /\ conn' = "lost"
  /\ NewProtocol /\ NothingSaid /\ version' = 0 /\ script' = <<>>
  /\ UNCHANGED <<archive, forever, conns, calling>>

\* The client leaves when it likes.
ConnectionLost == Gone /\ ConnectionFinished

\* A connection beside this one was served and ends: it stops the reactor, which closes
\* this one too.
OtherFinished ==
  /\ process = "running" /\ ~forever /\ process' = "stopped" /\ Gone

-----------------------------------------------------------------------------
Init ==
  /\ archive \in Archives /\ forever \in Forever
  /\ conn = "none" /\ conns = 0 /\ calling = FALSE /\ process = "running"
  /\ pos = 0 /\ buffer = <<>> /\ exhausted = FALSE /\ awaitingRequest = FALSE
  /\ served = FALSE /\ scrubber = Scrubber(FALSE)
  /\ version = 0 /\ script = <<>> /\ heard = 0 /\ sentKinds = <<>> /\ wire = <<>>
  /\ asked = FALSE

Delivers == \E n \in Chunks \cup {Len(wire)} : DataReceived(n)

Next ==
  \/ ConnectionMade \/ Delivers \/ ServerAdvances \/ ConnectionLost \/ OtherFinished
  \/ ClientReads \/ ClientWrites \/ ClientMessage \/ ClientAsks

\* The reactor goes on as long as a call of advance or what TCP delivers keeps it busy,
\* and the client goes on with the protocol until it leaves.
Fairness ==
  WF_vars(ServerAdvances \/ Delivers) /\ WF_vars(ClientReads \/ ClientWrites \/ ClientAsks)

Spec == Init /\ [][Next]_vars /\ Fairness

-----------------------------------------------------------------------------
\* What the live client reads is what a client of its version expects next, and it
\* has read all that was served before it is its turn to speak: whatever the original
\* session negotiated, wherever it broke off, and whatever version the client replies.
ClientInStep ==
  conn = "open" /\ ~calling /\ script # <<>>
    => IF Reads THEN heard < pos => NextByte.kind = Head(script).kind /\ NextByte.at = 1
       ELSE archive.type \in Followed => heard = pos

\* The recorded screen goes out when the client asks for it: not before, as it would
\* miss it, and then at once, whatever it sent before and however that was cut.
ServedOnRequest ==
  conn = "open" /\ ~calling /\ InSession /\ archive.type \in Followed => (exhausted <=> asked)

\* A client that replies the recorded version gets the whole capture, wherever that was
\* cut off, unless it leaves or the end of another connection stops the reactor.
ReplayCompletes ==
  conn = "open" /\ archive.negotiated \in {0, version}
    ~> pos = Len(archive.s2c) \/ conn # "open"
=============================================================================
