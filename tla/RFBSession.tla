----------------------------- MODULE RFBSession ------------------------------
(***************************************************************************)
(* The client of RFBClient connected to a server that follows RFC 6143.    *)
(*                                                                         *)
(* The server is external to the repository.  It sends fields: a kind, a   *)
(* length in bytes and the value unpacked from them.  TCP keeps the order  *)
(* and cuts the bytes into chunks anywhere, so what the client's loop has  *)
(* buffered may end inside a field.  The client knows nothing of fields:   *)
(* that each of its blocks is one is the property FramingAgreed.           *)
(***************************************************************************)
EXTENDS RFBClient

CONSTANTS ServerUses,  \* sets of encodings a server may use, of those asked for
          MaxRects,    \* bound: rectangles of one update
          MaxStream    \* bound: fields the server runs ahead of the client

ASSUME ServerAssumption ==
  /\ ServerUses \subseteq SUBSET Encodings
  /\ MaxRects \in Nat /\ MaxStream \in Nat

VARIABLES
  uses,     \* the encodings this server uses
  phase,    \* the server's place in the protocol
  stream,   \* fields sent and not yet taken by a handler of the client
  wire,     \* bytes sent and not yet delivered to dataReceived
  owed,     \* rectangles of the current update still to be sent
  tiles,    \* tiles of the current Hextile rectangle still to be sent
  desktop,  \* width of the server's framebuffer
  grown     \* history: the framebuffer has outgrown the size in ServerInit

server == <<uses, phase, owed, tiles, desktop, grown>>
svars == <<vars, stream, wire, server>>

-----------------------------------------------------------------------------
F(kind, len, value) == [kind |-> kind, len |-> len, value |-> value]

\* The field of RFC 6143 that each handler takes its block to be.
Reads(h) ==
  CASE h = "_handleInitial" -> "ProtocolVersion"
    [] h = "_handleNumberSecurityTypes" -> "NumberOfSecurityTypes"
    [] h = "_handleSecurityTypes" -> "SecurityTypes"
    [] h = "_handleAuth" -> "SecurityType"
    [] h = "_handleVNCAuth" -> "Challenge"
    [] h = "_handleDHAuth" -> "DHParameters"
    [] h = "_handleDHAuthKey" -> "DHModulus"
    [] h = "_handleDHAuthCert" -> "DHPublicKey"
    [] h = "_handleVNCAuthResult" -> "SecurityResult"
    [] h \in {"_handleConnFailed", "_handleAuthFailed"} -> "ReasonLength"
    [] h \in {"_handleConnMessage", "_handleAuthFailedMessage"} -> "Reason"
    [] h = "_handleServerInit" -> "ServerInit"
    [] h = "_handleServerName" -> "Name"
    [] h = "_handleConnection" -> "MessageType"
    [] h = "_handleFramebufferUpdate" -> "UpdateHeader"
    [] h = "_handleRectangle" -> "RectangleHeader"
    [] h = "_pumpPixels" -> "RawPixels"
    [] h = "_pumpForClient" -> "CopyRectSource"
    [] h = "_handleDecodeRRE" -> "RREHeader"
    [] h = "_handleRRESubRectangles" -> "RRESubrectangles"
    [] h = "_handleDecodeHextile" -> "HextileMask"
    [] h = "_handleDecodeHextileRAW" -> "HextileRaw"
    [] h = "_handleDecodeHextileSubrect" -> "HextileColours"
    [] h \in {"_handleDecodeHextileSubrectsColoured",
              "_handleDecodeHextileSubrectsFG"} -> "HextileSubrectangles"
    [] h = "_handleDecodeZRLE" -> "ZRLELength"
    [] h = "_handleDecodeZRLEdata" -> "ZRLEData"
    [] h = "_handleDecodePsuedoCursor" -> "CursorPixels"
    [] h = "_handleServerCutText" -> "CutTextHeader"
    [] h = "_handleServerCutTextValue" -> "CutText"
    [] h = "_handleColourMapEntries" -> "ColourMapHeader"
    [] h = "_handleColourMapEntriesValue" -> "ColourMap"
    [] OTHER -> "nothing a server sends"

SessionInit ==
  /\ Init /\ uses \in ServerUses
  /\ phase = "start" /\ stream = <<>> /\ wire = 0
  /\ owed = 0 /\ tiles = 0 /\ desktop \in Widths /\ grown = FALSE

-----------------------------------------------------------------------------
(* The server.                                                             *)

\* No message has more than three fields.
Bytes(fields) ==
  LET bytes(i) == IF i <= Len(fields) THEN fields[i].len ELSE 0
  IN  bytes(1) + bytes(2) + bytes(3)

Send(fields) ==
  /\ Len(stream) < MaxStream /\ transport # "closed"
  /\ stream' = stream \o fields /\ wire' = wire + Bytes(fields)
  /\ UNCHANGED vars

ServerPhase(from, to) ==
  phase = from /\ phase' = to /\ UNCHANGED <<uses, owed, tiles, desktop, grown>>

ReasonFields(n) == <<F("ReasonLength", 4, n), F("Reason", n, 0)>>

ServerGreets ==
  /\ ServerPhase("start", "greeted")
  /\ \E v \in ServerVersions \ {3002} : Send(<<F("ProtocolVersion", 12, v)>>)

\* The server offers its security types, or refuses the connection.
ServerOffers ==
  /\ wrote = <<"version">> /\ phase = "greeted"
  /\ UNCHANGED <<uses, owed, tiles, desktop, grown>>
  /\ \/ /\ version >= 3007 /\ phase' = "offered"
        /\ \E types \in SUBSET {AuthNone, AuthVNC, AuthDH, 16} :
             /\ types \cap SupportedAuths # {}
             /\ Send(<<F("NumberOfSecurityTypes", 1, Cardinality(types)),
                       F("SecurityTypes", Cardinality(types), types)>>)
     \/ /\ version >= 3007 /\ phase' = "refused"
        /\ \E n \in Lengths : Send(<<F("NumberOfSecurityTypes", 1, 0)>> \o ReasonFields(n))
     \/ /\ version < 3007 /\ phase' = "refused"
        /\ \E n \in Lengths : Send(<<F("SecurityType", 4, 0)>> \o ReasonFields(n))
     \/ /\ version < 3007 /\ phase' = "accepted"
        /\ Send(<<F("SecurityType", 4, AuthNone)>>)
     \/ /\ version < 3007 /\ phase' = "challenged"
        /\ Send(<<F("SecurityType", 4, AuthVNC), F("Challenge", 16, 0)>>)

\* The client chose a security type.
ServerChallenges ==
  /\ UNCHANGED <<uses, owed, tiles, desktop, grown>> /\ phase = "offered"
  /\ \/ /\ wrote \in {<<"none">>, <<"none", "init">>} /\ phase' = "accepted"
        /\ IF version >= 3008 THEN Send(<<F("SecurityResult", 4, 0)>>)
                             ELSE UNCHANGED <<vars, stream, wire>>
     \/ /\ wrote = <<"vnc">> /\ phase' = "challenged"
        /\ Send(<<F("Challenge", 16, 0)>>)
     \/ /\ wrote = <<"dh">> /\ phase' = "challenged"
        /\ \E n \in Lengths : Send(<<F("DHParameters", 4, n), F("DHModulus", n, 0),
                                     F("DHPublicKey", n, 0)>>)

ServerJudges ==
  /\ wrote = <<"response">> /\ phase = "challenged"
  /\ UNCHANGED <<uses, owed, tiles, desktop, grown>>
  /\ \/ phase' = "accepted" /\ Send(<<F("SecurityResult", 4, 0)>>)
     \/ /\ phase' = "refused"
        /\ \E r \in {1, 2}, n \in Lengths :
             Send(<<F("SecurityResult", 4, r)>>
                    \o IF version >= 3008 THEN ReasonFields(n) ELSE <<>>)

ServerStarts ==
  /\ wrote \in {<<"init">>, <<"none", "init">>}
  /\ ServerPhase("accepted", "running")
  /\ \E n \in Lengths : Send(<<F("ServerInit", 24, <<desktop, n>>), F("Name", n, 0)>>)

ServerMessage ==
  /\ wrote = <<"encodings">> /\ owed = 0 /\ tiles = 0
  /\ ServerPhase("running", "running")
  /\ \/ Send(<<F("MessageType", 1, "bell")>>)
     \/ \E n \in Lengths :
          \/ Send(<<F("MessageType", 1, "serverCutText"), F("CutTextHeader", 7, n),
                    F("CutText", n, 0)>>)
          \/ Send(<<F("MessageType", 1, "setColourMapEntries"), F("ColourMapHeader", 5, n),
                    F("ColourMap", 6 * n, 0)>>)

\* An update answers the requests received so far.
ServerUpdate ==
  /\ phase = "running" /\ wrote = <<"encodings">> /\ requested /\ owed = 0 /\ tiles = 0
  /\ Len(stream) < MaxStream /\ transport # "closed"
  /\ \E n \in 1..MaxRects :
       LET fields == <<F("MessageType", 1, "framebufferUpdate"), F("UpdateHeader", 3, n)>>
       IN  /\ owed' = n
           /\ stream' = stream \o fields /\ wire' = wire + Bytes(fields)
  /\ requested' = FALSE
  /\ UNCHANGED <<parser, session, update, deferred, lastRefresh, outcome, transport>>
  /\ UNCHANGED <<uses, phase, tiles, desktop, grown>>

Header(encoding, w, n) ==
  F("RectangleHeader", 12, [encoding |-> encoding, w |-> w, tiles |-> n])

\* A rectangle with pixels, not wider than the server's desktop.
ServerPixels ==
  /\ phase = "running" /\ owed > 0 /\ tiles = 0
  /\ owed' = owed - 1 /\ UNCHANGED <<uses, phase, desktop, grown>>
  /\ \E w \in Widths \cap 1..desktop :
       \/ /\ "raw" \in uses /\ tiles' = 0
          /\ Send(<<Header("raw", w, 0), F("RawPixels", w * Bypp, 0)>>)
       \/ /\ "rre" \in uses /\ tiles' = 0
          /\ \E n \in Lengths :
               Send(<<Header("rre", w, 0), F("RREHeader", 4 + Bypp, n)>>
                      \o IF n = 0 THEN <<>> ELSE <<F("RRESubrectangles", (8 + Bypp) * n, 0)>>)
       \/ /\ "zrle" \in uses /\ tiles' = 0
          /\ \E n \in Lengths \ {0} :
               Send(<<Header("zrle", w, 0), F("ZRLELength", 4, n), F("ZRLEData", n, 0)>>)
       \/ /\ "hextile" \in uses /\ w = 1
          /\ \E n \in 1..MaxTiles : tiles' = n /\ Send(<<Header("hextile", w, n)>>)

\* A Hextile tile; each one states the colours it uses.
ServerTile ==
  /\ tiles > 0 /\ tiles' = tiles - 1 /\ UNCHANGED <<uses, phase, owed, desktop, grown>>
  /\ \/ Send(<<F("HextileMask", 1, <<TRUE, FALSE, FALSE, "none">>),
               F("HextileRaw", Bypp, 0)>>)
     \/ \E fg \in BOOLEAN : \E sub \in (IF fg THEN {"none", "fg"} ELSE {"none", "coloured"}) :
        \E n \in (IF sub = "none" THEN {0} ELSE Lengths) :
          Send(<<F("HextileMask", 1, <<FALSE, TRUE, fg, sub>>),
                 F("HextileColours", Bypp + (IF fg THEN Bypp ELSE 0)
                                          + (IF sub = "none" THEN 0 ELSE 1), n)>>
                 \o IF n = 0 THEN <<>>
                    ELSE <<F("HextileSubrectangles",
                             (IF sub = "coloured" THEN Bypp + 2 ELSE 2) * n, 0)>>)

\* A rectangle without pixels.
ServerPseudo ==
  /\ phase = "running" /\ owed > 0 /\ tiles = 0 /\ UNCHANGED <<uses, phase, tiles>>
  /\ \/ /\ "qemuKey" \in uses /\ owed' = owed - 1 /\ UNCHANGED <<desktop, grown>>
        /\ Send(<<Header("qemuKey", 0, 0)>>)
     \/ /\ "lastRect" \in uses /\ owed' = 0 /\ UNCHANGED <<desktop, grown>>
        /\ Send(<<Header("lastRect", 0, 0)>>)
     \/ /\ "desktopSize" \in uses /\ owed' = owed - 1
        /\ \E w \in Widths : /\ desktop' = w /\ grown' = (grown \/ w > width)
                             /\ Send(<<Header("desktopSize", w, 0)>>)
     \/ /\ "copyRect" \in uses /\ owed' = owed - 1 /\ UNCHANGED <<desktop, grown>>
        /\ \E w \in Widths \cap 1..desktop :
             Send(<<Header("copyRect", w, 0), F("CopyRectSource", 4, 0)>>)
     \/ /\ "cursor" \in uses /\ owed' = owed - 1 /\ UNCHANGED <<desktop, grown>>
        /\ \E w \in Widths :
             Send(<<Header("cursor", w, 0),
                    F("CursorPixels", w * Bypp + (w + 7) \div 8, 0)>>)

-----------------------------------------------------------------------------
(* The client, fed by the stream.                                          *)

\* The chunk the network delivers next.
Deliver(n) == n <= wire /\ DataReceived(n) /\ wire' = wire - n /\ UNCHANGED <<stream, server>>

\* The block of the next handler call is the server's next field.
InFrame ==
  /\ stream # <<>>
  /\ Head(stream).kind = Reads(expectedHandler) /\ Head(stream).len = expectedLen

\* The handler call whose block holds the value v of a field of this kind.
Handle(v) ==
  \/ Greeting(v)
  \/ NumberSecurityTypes(v) \/ SecurityTypes(v) \/ Auth(v) \/ ConnFailed(v) \/ ConnMessage
  \/ VNCAuth \/ DHAuth(v) \/ DHAuthKey \/ (DHAuthCert /\ transport' # "closed")
  \/ VNCAuthResult(v) \/ AuthFailed(v) \/ AuthFailedMessage
  \/ (expectedHandler = "_handleServerInit" /\ ServerInit(v[1], v[2]))
  \/ ServerName
  \/ Connection(v) \/ ColourMapEntries(v) \/ ServerCutText(v) \/ MessageValue
  \/ FramebufferUpdate(v)
  \/ PumpPixels \/ PumpForClient \/ DecodePsuedoCursor
  \/ DecodeRRE(v) \/ RRESubRectangles(TRUE)
  \/ DecodeZRLE(v) \/ (DecodeZRLEdata(TRUE) /\ transport' # "closed")
  \/ (expectedHandler = "_handleDecodeHextile" /\ DecodeHextile(v[1], v[2], v[3], v[4]))
  \/ DecodeHextileSubrect(v) \/ DecodeHextileRAW
  \/ DecodeHextileSubrectsColoured \/ DecodeHextileSubrectsFG

HandleRectangle(r) ==
  \/ r.encoding = "raw" /\ RawRectangle(r.w)
  \/ r.encoding = "copyRect" /\ CopyRectangle
  \/ r.encoding = "rre" /\ RRERectangle(r.w)
  \/ r.encoding = "zrle" /\ ZRLERectangle
  \/ r.encoding = "cursor" /\ CursorRectangle(r.w)
  \/ r.encoding = "hextile" /\ HextileRectangle(r.w, r.tiles)
  \/ r.encoding \in {"desktopSize", "qemuKey"} /\ Rectangle(r.encoding) /\ DesktopSizeOrQEMU
  \/ r.encoding = "lastRect" /\ LastRect

ClientHandles ==
  /\ InFrame
  /\ IF expectedHandler = "_handleRectangle"
       THEN HandleRectangle(Head(stream).value) ELSE Handle(Head(stream).value)
  /\ stream' = Tail(stream) /\ UNCHANGED <<wire, server>>

\* An empty reason: the handler that reported it stays parked and is called
\* again on no bytes at all.
ClientReenters ==
  ~InFrame /\ (ConnMessage \/ AuthFailedMessage) /\ UNCHANGED <<stream, wire, server>>

ClientWaits == ShortGreeting /\ UNCHANGED <<stream, wire, server>>

ClientRefreshes == RefreshScreen /\ UNCHANGED <<stream, wire, server>>

\* The server hangs up after a refusal, or the client's close completes.
HangUp ==
  /\ transport = "closing" \/ (phase = "refused" /\ wire = 0)
  /\ ConnectionLost /\ UNCHANGED <<stream, wire, server>>

ServerHandshake ==
  ServerGreets \/ ServerOffers \/ ServerChallenges \/ ServerJudges \/ ServerStarts

ServerAnswers == ServerUpdate \/ ServerPixels \/ ServerTile

SessionNext ==
  \/ ServerHandshake \/ ServerMessage \/ ServerAnswers \/ ServerPseudo
  \/ \E n \in Chunks : Deliver(n)
  \/ ClientHandles \/ ClientReenters \/ ClientWaits \/ ClientRefreshes \/ HangUp

\* The server goes on with the protocol; between its other messages it answers
\* the requests it has, in the end with pixels; TCP delivers; a dataReceived
\* call runs on.
SessionSpec ==
  /\ SessionInit /\ [][SessionNext]_svars
  /\ WF_svars(ServerHandshake)
  /\ SF_svars(ServerUpdate) /\ SF_svars(ServerPixels) /\ SF_svars(ServerTile)
  /\ WF_svars(\E n \in Chunks : Deliver(n))
  /\ WF_svars(ClientHandles \/ ClientReenters \/ ClientWaits)

-----------------------------------------------------------------------------
\* However TCP cuts the stream, every block the client hands to a handler is
\* exactly one field of the kind that handler unpacks: the handshake of each
\* version, each security type and each encoding are read in step, until the
\* client gives up.
FramingAgreed ==
  pumping /\ transport = "open"
    => InFrame \/ (expectedHandler = "_handleInitial" /\ packet < 12)

\* A client that waits for a refresh has asked for it: a request is with the
\* server, or the answer to one is on its way.  Otherwise both would wait.
RequestOutstanding ==
  deferred /\ transport = "open"
    => \/ requested \/ owed > 0 \/ expectedHandler \in RectangleHandlers
       \/ \E i \in 1..Len(stream) : stream[i].kind \in {"UpdateHeader", "RectangleHeader"}

\* The client never aborts on a server that follows the protocol, nor reports
\* it as a protocol error unless it refused the connection, as long as the desktop
\* has not outgrown the size in ServerInit, which _rectBuffer holds rectangles to.
ServerUnderstood == grown \/ (~aborted /\ (reported = "protocol" => phase = "refused"))

\* The connection attempt comes to an end the application hears of.
HandshakeCompletes == <>(factoryDeferred # "pending")

\* commitUpdate completes a refresh only after an update that painted the
\* screen, for servers that send no cursor shape and no CopyRect.
RefreshPainted == uses \cap {"cursor", "copyRect"} = {} => lastRefresh # "unpainted"

\* The first refresh asked for completes, though updates without pixels (the
\* desktop's size, the QEMU acknowledgement) may come before it.
RefreshCompletes == deferred ~> lastRefresh # "none" \/ transport # "open"
=============================================================================
