------------------------------ MODULE RFBClient ------------------------------
(***************************************************************************)
(* The protocol machine of vncdotool/rfb.py (class RFBClient) with the     *)
(* overrides of vncdotool/client.py (class VNCDoToolClient), facing a      *)
(* server that may send anything.                                          *)
(*                                                                         *)
(* The parser is event driven.  dataReceived appends bytes to _packet and  *)
(* _handleExpected then runs the parked handler once per block of          *)
(* _expected_len bytes, until too few bytes are left or the connection was *)
(* aborted.  A handler that wants to be followed by another one calls      *)
(* expect; one that gives up does not, and stays parked.                   *)
(*                                                                         *)
(* One step is one call of a handler.  Its block is a number of bytes; the *)
(* fields unpacked from it are chosen by the action.  pumping is TRUE while *)
(* a dataReceived call is on the stack with one more handler call to make: *)
(* the reactor is single threaded, so nothing else runs in that time.      *)
(***************************************************************************)
EXTENDS Integers, Sequences, FiniteSets

CONSTANTS
  CLI,                   \* the factory is VNCDoCLIFactory, not VNCDoToolFactory
  Password,              \* factory.password is not None
  RequestedFormatUsable, \* Pillow can unpack factory.pixel_format
  ServerVersions,        \* greetings the server may send, 1000 * major + minor
  AuthResults,           \* security results the server may send
  Encodings,             \* encodings the server may use in a rectangle
  Widths,                \* widths the server may announce
  Lengths,               \* lengths and counts the server may announce
  Bypp,                  \* bytes per pixel
  MemoryErrors,          \* a buffer for a rectangle may fail to be allocated
  MaxTiles,              \* bound: tiles of a Hextile rectangle
  Chunks,                \* sizes of the chunks TCP delivers
  MaxPacket              \* bound: bytes buffered when a chunk arrives

ASSUME ConfigAssumption ==
  /\ CLI \in BOOLEAN /\ Password \in BOOLEAN /\ RequestedFormatUsable \in BOOLEAN
  /\ MemoryErrors \in BOOLEAN
  /\ CLI => RequestedFormatUsable    \* vncdo offers only usable formats
ASSUME SizeAssumption ==
  /\ Widths \subseteq Nat /\ Lengths \subseteq Nat
  /\ Bypp \in Nat \ {0} /\ MaxTiles \in Nat
  /\ Chunks \subseteq Nat \ {0} /\ MaxPacket \in Nat
ASSUME VersionAssumption == ServerVersions \subseteq Nat /\ AuthResults \subseteq Nat

VARIABLES
  expectedHandler,   \* _expected_handler (or _handler while it is _handleInitial)
  expectedLen,       \* _expected_len
  args,              \* what the parked handler keeps in _expected_args
  packet,            \* len(_packet)
  pumping,           \* another iteration of the loop in _handleExpected is due
  aborted,           \* _aborted
  version,           \* _version, 0 before the greeting
  width,             \* self.width
  wrote,             \* what the client last wrote in the handshake
  requested,         \* a framebufferUpdateRequest the server has not answered
  transport,         \* "open", "closing" after loseConnection, "closed"
  rectangles,        \* self.rectangles, still to come in this update
  rectanglePos,      \* len(self.rectanglePos)
  painted,           \* this update has changed pixels of self.screen
  deferred,          \* self.deferred: is a refresh waiting to complete?
  lastRefresh,       \* what the last completed refresh handed to its caller
  factoryDeferred,   \* factory.deferred
  reported           \* first failure the factory was told about

parser   == <<expectedHandler, expectedLen, args, packet, pumping, aborted>>
session  == <<version, width, wrote>>
update   == <<rectangles, rectanglePos, painted>>
refresh  == <<deferred, lastRefresh, requested>>
outcome  == <<factoryDeferred, reported>>
vars == <<parser, session, update, refresh, outcome, transport>>

-----------------------------------------------------------------------------
SupportedServerVersions == {3003, 3007, 3008, 3889, 4000, 4001, 5000}
MaxClientVersion == 3008

AuthNone == 1
AuthVNC == 2
AuthDH == 30
SupportedAuths == {AuthNone, AuthVNC, AuthDH}
\* 16 (Tight) stands for every type this client does not implement.
OfferedAuths == {0, 16} \cup SupportedAuths

HandshakeHandlers ==
  {"_handleInitial", "_handleNumberSecurityTypes", "_handleSecurityTypes",
   "_handleAuth", "_handleConnFailed", "_handleConnMessage", "_handleVNCAuth",
   "_handleDHAuth", "_handleDHAuthKey", "_handleDHAuthCert",
   "_handleVNCAuthResult", "_handleAuthFailed", "_handleAuthFailedMessage"}
InitHandlers == {"_handleServerInit", "_handleServerName"}
MessageHandlers ==
  {"_handleConnection", "_handleFramebufferUpdate", "_handleColourMapEntries",
   "_handleColourMapEntriesValue", "_handleServerCutText",
   "_handleServerCutTextValue"}
\* Parked in the middle of a framebuffer update.
RectangleHandlers ==
  {"_handleRectangle", "_pumpPixels", "_pumpForClient", "_handleDecodeRRE",
   "_handleRRESubRectangles", "_handleDecodeCORRE",
   "_handleDecodeCORRERectangles", "_handleDecodeHextile",
   "_handleDecodeHextileRAW", "_handleDecodeHextileSubrect",
   "_handleDecodeHextileSubrectsColoured", "_handleDecodeHextileSubrectsFG",
   "_handleDecodeZRLE", "_handleDecodeZRLEdata", "_handleDecodePsuedoCursor"}
SessionHandlers == MessageHandlers \cup RectangleHandlers
Handlers == HandshakeHandlers \cup InitHandlers \cup SessionHandlers

\* w: width of the rectangle (the key length of _handleDHAuthKey); tiles:
\* Hextile tiles still to come, the current one included; bg, fg: a background,
\* foreground colour is known; sub: how the tile's subrectangles are coloured.
Args == [w : Nat, tiles : Nat, bg : BOOLEAN, fg : BOOLEAN, sub : {"none", "fg", "coloured"}]
NoArgs == [w |-> 0, tiles |-> 0, bg |-> FALSE, fg |-> FALSE, sub |-> "none"]
Of(w) == [NoArgs EXCEPT !.w = w]

\* Mutant of NegotiatedVersion: the cap at the client's own version is gone.
NegotiatedUncapped(server) ==
  CHOOSE v \in SupportedServerVersions :
    v <= server /\ \A u \in SupportedServerVersions : u <= server => u <= v

\* _handleInitial: the newest version both sides know.
NegotiatedVersion(server) ==
  LET known == {v \in SupportedServerVersions : v <= server}
      best  == CHOOSE v \in known : \A u \in known : u <= v
  IN  IF best > MaxClientVersion THEN MaxClientVersion ELSE best

\* max(valid_types)
StrongestAuth(types) == CHOOSE t \in types : \A u \in types : u <= t

-----------------------------------------------------------------------------
Init ==
  /\ expectedHandler = "_handleInitial" /\ expectedLen = 12 /\ args = NoArgs
  /\ packet = 0 /\ pumping = FALSE /\ aborted = FALSE
  /\ version = 0 /\ width = 0 /\ wrote = <<>>
  /\ rectangles = 0 /\ rectanglePos = 0 /\ painted = FALSE
  /\ deferred = FALSE /\ lastRefresh = "none" /\ requested = FALSE
  /\ factoryDeferred = "pending" /\ reported = "none"
  /\ transport = "open"

-----------------------------------------------------------------------------
(* How a handler ends.                                                     *)

\* The handler h is the one the loop calls next.
Running(h) == pumping /\ expectedHandler = h

\* The loop takes the block and the handler calls expect(h, n, a).
Expect(h, n, a) ==
  /\ expectedHandler' = h /\ expectedLen' = n /\ args' = a
  /\ packet' = packet - expectedLen
  /\ pumping' = (packet - expectedLen >= n)
  /\ UNCHANGED aborted

\* The loop takes the block and the handler returns without calling expect:
\* it stays parked and is called again on the next expectedLen bytes.
StayParked ==
  /\ packet' = packet - expectedLen
  /\ pumping' = (packet - expectedLen >= expectedLen)
  /\ UNCHANGED <<expectedHandler, expectedLen, args, aborted>>

LoseConnection == transport' = IF transport = "open" THEN "closing" ELSE transport

\* An exception leaves dataReceived: Twisted drops the connection at once and
\* connectionLost tells the factory, which only the CLI takes as an outcome.
Raise ==
  /\ transport' = "closed" /\ pumping' = FALSE
  /\ reported' = IF CLI /\ reported = "none" THEN "lost" ELSE reported
  /\ UNCHANGED <<expectedHandler, expectedLen, args, packet, aborted>>
  /\ UNCHANGED <<factoryDeferred, session, refresh>>

\* Mutant of ErrbackRaises: a second failure is dropped without a word.
ErrbackIgnored == FALSE

\* A Deferred fires once: a second errback or callback raises
\* AlreadyCalledError.  VNCDoCLIFactory does not fire it on failure.
ErrbackRaises == ~CLI /\ factoryDeferred # "pending"

\* Mutant of ClientConnectionFailed: the failure is noted and the Deferred left
\* for the connection to fire.
FailureOnlyNoted(kind) ==
  /\ reported' = IF reported = "none" THEN kind ELSE reported
  /\ UNCHANGED factoryDeferred

\* factory.clientConnectionFailed(self, Failure(...)), when it does not raise.
ClientConnectionFailed(kind) ==
  /\ reported' = IF reported = "none" THEN kind ELSE reported
  /\ factoryDeferred' = IF CLI THEN factoryDeferred ELSE "failed"

\* self.vncProtocolError(...) or self.vncAuthFailed(...), then
\* self.transport.loseConnection(); the handler is not replaced.
GiveUp(kind) ==
  \/ ErrbackRaises /\ Raise
  \/ /\ ~ErrbackRaises
     /\ ClientConnectionFailed(kind) /\ LoseConnection /\ StayParked
     /\ UNCHANGED <<session, refresh>>

\* Mutant of AbortConnection: the loop goes on with what is buffered.
AbortAndParseOn ==
  /\ aborted' = TRUE
  /\ \/ ErrbackRaises /\ transport' = "closed" /\ UNCHANGED outcome
     \/ ~ErrbackRaises /\ ClientConnectionFailed("protocol") /\ LoseConnection
  /\ packet' = packet - expectedLen /\ pumping' = (packet - expectedLen >= expectedLen)
  /\ UNCHANGED <<expectedHandler, expectedLen, args, session, refresh>>

\* abortConnection: stop parsing for good, then report as GiveUp does.
AbortConnection ==
  /\ aborted' = TRUE
  /\ \/ ErrbackRaises /\ transport' = "closed" /\ UNCHANGED outcome
     \/ ~ErrbackRaises /\ ClientConnectionFailed("protocol") /\ LoseConnection
  /\ packet' = 0 /\ pumping' = FALSE
  /\ UNCHANGED <<expectedHandler, expectedLen, args, session, refresh>>

-----------------------------------------------------------------------------
(* dataReceived and connectionLost: what the reactor calls.                *)

\* The loop of _handleExpected runs while it has a whole block.
HasBlock(n) == n >= expectedLen /\ ~aborted

DataReceived(n) ==
  /\ ~pumping /\ transport # "closed" /\ ~aborted
  /\ packet + n <= MaxPacket
  /\ packet' = packet + n
  /\ pumping' = (expectedHandler = "_handleInitial" \/ HasBlock(packet + n))
  /\ UNCHANGED <<expectedHandler, expectedLen, args, aborted>>
  /\ UNCHANGED <<session, update, refresh, outcome, transport>>

\* The peer closed, or the transport finished closing.
ConnectionLost ==
  /\ ~pumping /\ transport # "closed"
  /\ transport' = "closed"
  /\ reported' = IF CLI /\ reported = "none" THEN "lost" ELSE reported
  /\ UNCHANGED <<parser, session, update, refresh, factoryDeferred>>

-----------------------------------------------------------------------------
(* Connection startup.                                                     *)

Handshake == UNCHANGED <<update, refresh, outcome, transport>>

\* A header that cannot become "RFB ddd.ddd\n"; nothing is taken from _packet.
BadGreeting ==
  /\ Running("_handleInitial")
  /\ \/ ErrbackRaises /\ Raise
     \/ /\ ~ErrbackRaises
        /\ ClientConnectionFailed("protocol") /\ LoseConnection
        /\ pumping' = FALSE
        /\ UNCHANGED <<expectedHandler, expectedLen, args, packet, aborted>>
        /\ UNCHANGED <<session, refresh>>
  /\ UNCHANGED update

\* A prefix of a good header: wait for the rest.  The bytes of a bad one stay
\* in _packet, and are all that _handleInitial will ever see.
ShortGreeting ==
  /\ Running("_handleInitial") /\ packet < 12 /\ reported = "none"
  /\ pumping' = FALSE
  /\ UNCHANGED <<expectedHandler, expectedLen, args, packet, aborted>>
  /\ UNCHANGED session /\ Handshake

Greeting(server) ==
  /\ Running("_handleInitial") /\ packet >= 12 /\ reported = "none"
  /\ \/ server < 3003 /\ Raise /\ UNCHANGED update   \* max() of nothing
     \/ /\ server >= 3003
        /\ version' = NegotiatedVersion(server)
        /\ wrote' = <<"version">>
        /\ IF NegotiatedVersion(server) < 3007
             THEN Expect("_handleAuth", 4, NoArgs)
             ELSE Expect("_handleNumberSecurityTypes", 1, NoArgs)
        /\ UNCHANGED width /\ Handshake

NumberSecurityTypes(n) ==
  /\ Running("_handleNumberSecurityTypes")
  /\ IF n # 0 THEN Expect("_handleSecurityTypes", n, NoArgs)
              ELSE Expect("_handleConnFailed", 4, NoArgs)
  /\ UNCHANGED session /\ Handshake

\* _doClientInitialization, after the messages ms.
DoClientInitialization(ms) ==
  /\ wrote' = Append(ms, "init")
  /\ Expect("_handleServerInit", 24, NoArgs)

\* Mutant of SecurityTypes: under 3.8, too, security type None skips the result.
SecurityTypesSkipResult(types) ==
  LET best == StrongestAuth(types \cap SupportedAuths)
  IN
  /\ Running("_handleSecurityTypes") /\ types \cap SupportedAuths # {}
  /\ \/ best = AuthNone /\ DoClientInitialization(<<"none">>)
     \/ best = AuthVNC /\ wrote' = <<"vnc">> /\ Expect("_handleVNCAuth", 16, NoArgs)
     \/ best = AuthDH /\ wrote' = <<"dh">> /\ Expect("_handleDHAuth", 4, NoArgs)
  /\ UNCHANGED <<version, width>> /\ Handshake

SecurityTypes(types) ==
  LET valid == types \cap SupportedAuths
      best  == StrongestAuth(valid)
  IN
  /\ Running("_handleSecurityTypes") /\ Cardinality(types) \in 1..expectedLen
  /\ \/ valid = {} /\ GiveUp("protocol") /\ UNCHANGED update
     \/ /\ valid # {} /\ best = AuthNone /\ version < 3008
        /\ DoClientInitialization(<<"none">>)
        /\ UNCHANGED <<version, width>> /\ Handshake
     \/ /\ valid # {} /\ ~(best = AuthNone /\ version < 3008)
        /\ \/ best = AuthNone /\ wrote' = <<"none">>
              /\ Expect("_handleVNCAuthResult", 4, NoArgs)
           \/ best = AuthVNC /\ wrote' = <<"vnc">>
              /\ Expect("_handleVNCAuth", 16, NoArgs)
           \/ best = AuthDH /\ wrote' = <<"dh">>
              /\ Expect("_handleDHAuth", 4, NoArgs)
        /\ UNCHANGED <<version, width>> /\ Handshake

Auth(auth) ==
  /\ Running("_handleAuth")
  /\ \/ /\ auth = 0 /\ Expect("_handleConnFailed", 4, NoArgs)
        /\ UNCHANGED session /\ Handshake
     \/ /\ auth = AuthNone /\ DoClientInitialization(<<>>)
        /\ UNCHANGED <<version, width>> /\ Handshake
     \/ /\ auth = AuthVNC /\ Expect("_handleVNCAuth", 16, NoArgs)
        /\ UNCHANGED session /\ Handshake
     \/ auth \notin {0, AuthNone, AuthVNC} /\ GiveUp("protocol") /\ UNCHANGED update

ConnFailed(waitfor) ==
  /\ Running("_handleConnFailed")
  /\ Expect("_handleConnMessage", waitfor, NoArgs)
  /\ UNCHANGED session /\ Handshake

ConnMessage ==
  Running("_handleConnMessage") /\ GiveUp("protocol") /\ UNCHANGED update

\* Mutant of VNCAuth: without a password the client closes and says nothing.
VNCAuthClosesSilently ==
  /\ Running("_handleVNCAuth")
  /\ Expect("_handleVNCAuthResult", 4, NoArgs)
  /\ \/ (Password \/ CLI) /\ wrote' = <<"response">> /\ UNCHANGED transport
     \/ ~(Password \/ CLI) /\ LoseConnection /\ UNCHANGED wrote
  /\ UNCHANGED <<version, width, update, refresh, outcome>>

\* vncRequestPassword: the CLI prompts for a missing password; the library
\* closes, reports, and still parks the handler for the result.
VNCAuth ==
  /\ Running("_handleVNCAuth")
  /\ \/ /\ Password \/ CLI
        /\ wrote' = <<"response">>
        /\ Expect("_handleVNCAuthResult", 4, NoArgs)
        /\ UNCHANGED <<version, width>> /\ Handshake
     \/ ~(Password \/ CLI) /\ ErrbackRaises /\ Raise /\ UNCHANGED update
     \/ /\ ~(Password \/ CLI) /\ ~ErrbackRaises
        /\ ClientConnectionFailed("auth") /\ LoseConnection
        /\ Expect("_handleVNCAuthResult", 4, NoArgs)
        /\ UNCHANGED <<session, update, refresh>>

DHAuth(keyLen) ==
  /\ Running("_handleDHAuth")
  /\ Expect("_handleDHAuthKey", keyLen, Of(keyLen))
  /\ UNCHANGED session /\ Handshake

DHAuthKey ==
  /\ Running("_handleDHAuthKey")
  /\ Expect("_handleDHAuthCert", args.w, NoArgs)
  /\ UNCHANGED session /\ Handshake

\* The cryptography library refuses the server's parameters, or answers.
DHAuthCert ==
  /\ Running("_handleDHAuthCert")
  /\ \/ Raise /\ UNCHANGED update
     \/ /\ wrote' = <<"response">>
        /\ Expect("_handleVNCAuthResult", 4, NoArgs)
        /\ UNCHANGED <<version, width>> /\ Handshake

\* Mutant of VNCAuthResult: a failure without a reason is not passed on.
VNCAuthResultForgets(result) ==
  /\ Running("_handleVNCAuthResult")
  /\ \/ /\ result = 0 /\ DoClientInitialization(<<>>)
        /\ UNCHANGED <<version, width>> /\ Handshake
     \/ /\ result # 0 /\ LoseConnection /\ StayParked
        /\ UNCHANGED <<session, update, refresh, outcome>>

VNCAuthResult(result) ==
  /\ Running("_handleVNCAuthResult")
  /\ \/ /\ result = 0 /\ DoClientInitialization(<<>>)
        /\ UNCHANGED <<version, width>> /\ Handshake
     \/ result \in {1, 2} /\ version < 3008 /\ GiveUp("auth") /\ UNCHANGED update
     \/ /\ result \in {1, 2} /\ version >= 3008
        /\ Expect("_handleAuthFailed", 4, NoArgs)
        /\ UNCHANGED session /\ Handshake
     \/ /\ result \notin {0, 1, 2}                  \* only logged
        /\ LoseConnection /\ StayParked
        /\ UNCHANGED <<session, update, refresh, outcome>>

AuthFailed(waitfor) ==
  /\ Running("_handleAuthFailed")
  /\ Expect("_handleAuthFailedMessage", waitfor, NoArgs)
  /\ UNCHANGED session /\ Handshake

AuthFailedMessage ==
  Running("_handleAuthFailedMessage") /\ GiveUp("auth") /\ UNCHANGED update

ServerInit(w, namelen) ==
  /\ Running("_handleServerInit")
  /\ width' = w
  /\ Expect("_handleServerName", namelen, NoArgs)
  /\ UNCHANGED <<version, wrote>> /\ Handshake

\* vncConnectionMade.  setImageMode refuses a requested format it cannot
\* unpack, but clientConnectionMade follows all the same: errback, callback.
\* The callbacks of factory.deferred may start a refresh.
ServerName ==
  /\ Running("_handleServerName")
  /\ \/ factoryDeferred # "pending" /\ Raise
     \/ /\ factoryDeferred = "pending" /\ ~RequestedFormatUsable
        /\ ClientConnectionFailed("protocol")
        /\ transport' = "closed" /\ pumping' = FALSE
        /\ UNCHANGED <<expectedHandler, expectedLen, args, packet, aborted>>
        /\ UNCHANGED <<session, refresh>>
     \/ /\ factoryDeferred = "pending" /\ RequestedFormatUsable
        /\ factoryDeferred' = "made"
        /\ wrote' = <<"encodings">>
        /\ \E d \in BOOLEAN : deferred' = d /\ requested' = d
        /\ Expect("_handleConnection", 1, NoArgs)
        /\ UNCHANGED <<version, width, lastRefresh, reported, transport>>
  /\ UNCHANGED update

-----------------------------------------------------------------------------
(* Framebuffer updates.                                                    *)

\* Mutant of CommitUpdate: an update without pixels is waited out, and nothing
\* is asked for again.
CommitWithoutRequest(pos, paint) ==
  \/ (~deferred \/ pos = 0) /\ UNCHANGED refresh
  \/ /\ deferred /\ pos # 0
     /\ lastRefresh' = IF paint THEN "painted" ELSE "unpainted"
     /\ \E again \in BOOLEAN : deferred' = again /\ requested' = (requested \/ again)

\* commitUpdate, with pos entries in rectanglePos.  A completed refresh runs
\* its callbacks at once, and expectScreen's asks for the next one there.
CommitUpdate(pos, paint) ==
  \/ ~deferred /\ UNCHANGED refresh
  \/ deferred /\ pos = 0 /\ requested' = TRUE /\ UNCHANGED <<deferred, lastRefresh>>
  \/ /\ deferred /\ pos # 0
     /\ lastRefresh' = IF paint THEN "painted" ELSE "unpainted"
     /\ \E again \in BOOLEAN : deferred' = again /\ requested' = (requested \/ again)

\* _doConnection with n rectangles to come.
DoConnection(n, pos, paint) ==
  /\ rectangles' = n /\ rectanglePos' = pos /\ painted' = paint
  /\ IF n # 0
       THEN Expect("_handleRectangle", 12, NoArgs) /\ UNCHANGED refresh
       ELSE Expect("_handleConnection", 1, NoArgs) /\ CommitUpdate(pos, paint)

Steady == UNCHANGED <<session, outcome, transport>>

FramebufferUpdate(n) ==
  /\ Running("_handleFramebufferUpdate")
  /\ DoConnection(n, 0, FALSE) /\ Steady

\* Mutant of RectangleDone: the decoder waits for the next rectangle itself.
NextRectangle(paint) ==
  /\ Expect("_handleRectangle", 12, NoArgs) /\ painted' = (painted \/ paint)
  /\ UNCHANGED <<rectangles, rectanglePos, refresh>> /\ Steady

\* The rectangle is done; paint: it changed pixels of the screen.
RectangleDone(paint) ==
  DoConnection(rectangles, rectanglePos, painted \/ paint) /\ Steady

\* The decoder needs n more bytes; paint: what it drew before that.
RectangleNeeds(h, n, a, paint) ==
  /\ Expect(h, n, a)
  /\ painted' = (painted \/ paint)
  /\ UNCHANGED <<rectangles, rectanglePos, refresh>> /\ Steady

\* _handleRectangle: a rectangle header with this encoding, one of those owed.
Rectangle(encoding) ==
  Running("_handleRectangle") /\ encoding \in Encodings /\ rectangles # 0

\* It counts the rectangle and appends it to rectanglePos.
Count ==
  /\ rectangles' = rectangles - 1 /\ rectanglePos' = rectanglePos + 1
  /\ UNCHANGED painted

Counted(h, n, a) == Count /\ Expect(h, n, a) /\ UNCHANGED refresh /\ Steady

\* LastRect ends the update early; a header none is owed ends it again.
LastRect ==
  /\ Rectangle("lastRect") \/ (Running("_handleRectangle") /\ rectangles = 0)
  /\ DoConnection(0, rectanglePos, painted) /\ Steady

\* Mutant of RawRectangle: a rectangle as wide as the desktop is too large.
RawRectangleStrict(w) ==
  /\ Rectangle("raw")
  /\ \/ width # 0 /\ w >= width /\ Count /\ AbortConnection
     \/ (width = 0 \/ w < width) /\ Counted("_pumpPixels", w * Bypp, Of(w))

\* _pumpPixels for Raw: a rectangle larger than the desktop announced by
\* ServerInit, or than memory, aborts the connection.
RawRectangle(w) ==
  /\ Rectangle("raw")
  /\ \/ /\ (width # 0 /\ w > width) \/ (MemoryErrors /\ w # 0)
        /\ Count /\ AbortConnection
     \/ (width = 0 \/ w <= width) /\ Counted("_pumpPixels", w * Bypp, Of(w))

CopyRectangle == Rectangle("copyRect") /\ Counted("_pumpForClient", 4, NoArgs)
RRERectangle(w) == Rectangle("rre") /\ Counted("_handleDecodeRRE", 4 + Bypp, Of(w))
CoRRERectangle(w) == Rectangle("corre") /\ Counted("_handleDecodeCORRE", 4 + Bypp, Of(w))
ZRLERectangle == Rectangle("zrle") /\ Counted("_handleDecodeZRLE", 4, NoArgs)
CursorRectangle(w) ==
  Rectangle("cursor") /\ Counted("_handleDecodePsuedoCursor", w * Bypp + ((w + 7) \div 8), Of(w))

\* No tiles: the rectangle has no height.
HextileRectangle(w, tiles) ==
  /\ Rectangle("hextile")
  /\ \/ tiles # 0 /\ Counted("_handleDecodeHextile", 1, [Of(w) EXCEPT !.tiles = tiles])
     \/ tiles = 0 /\ DoConnection(rectangles - 1, rectanglePos + 1, painted) /\ Steady

\* Mutant of DesktopSizeOrQEMU: the append to rectanglePos stays.
DesktopSizeCounted ==
  /\ Rectangle("desktopSize") \/ Rectangle("qemuKey")
  /\ DoConnection(rectangles - 1, rectanglePos + 1, painted) /\ Steady

\* Both carry no pixels: the append to rectanglePos is undone.
DesktopSizeOrQEMU ==
  /\ Rectangle("desktopSize") \/ Rectangle("qemuKey")
  /\ DoConnection(rectangles - 1, rectanglePos, painted) /\ Steady

UnknownEncoding == Rectangle("unknown") /\ Count /\ GiveUp("protocol")

-----------------------------------------------------------------------------
(* Rectangle bodies.                                                       *)

\* _pumpBlock, Raw: one block, blitted whole unless there is no memory for
\* the copy; empty data is not drawn.
PumpPixels ==
  /\ Running("_pumpPixels")
  /\ RectangleDone(args.w # 0) \/ (MemoryErrors /\ AbortConnection /\ UNCHANGED update)

\* _pumpBlock, CopyRect: copyRectangle is not overridden and draws nothing.
PumpForClient == Running("_pumpForClient") /\ RectangleDone(FALSE)

DecodeRRE(subrects) ==
  /\ Running("_handleDecodeRRE")
  /\ IF subrects # 0
       THEN RectangleNeeds("_handleRRESubRectangles", (8 + Bypp) * subrects, NoArgs, args.w # 0)
       ELSE RectangleDone(args.w # 0)

RRESubRectangles(paint) == Running("_handleRRESubRectangles") /\ RectangleDone(paint)

DecodeCORRE(subrects) ==
  /\ Running("_handleDecodeCORRE")
  /\ IF subrects # 0
       THEN RectangleNeeds("_handleDecodeCORRERectangles", (4 + Bypp) * subrects, NoArgs, args.w # 0)
       ELSE RectangleDone(args.w # 0)

\* The format string is not an f-string: unpack raises struct.error.
DecodeCORRERectangles ==
  Running("_handleDecodeCORRERectangles") /\ Raise /\ UNCHANGED update

\* _doNextHextileSubrect with the colours a carries.
NextHextileTile(a, paint) ==
  IF a.tiles = 1
    THEN RectangleDone(paint)
    ELSE RectangleNeeds("_handleDecodeHextile", 1,
                        [a EXCEPT !.tiles = @ - 1, !.sub = "none"], paint)

\* fillRectangle with no colour multiplies None: TypeError.
FillsNone(known) == ~known /\ Raise /\ UNCHANGED update

\* The subencoding mask: raw; bg, fg: a colour follows; sub: subrectangles do.
DecodeHextile(raw, bg, fg, sub) ==
  LET numbytes == (IF bg THEN Bypp ELSE 0) + (IF fg THEN Bypp ELSE 0)
                    + (IF sub # "none" THEN 1 ELSE 0)
      known == [args EXCEPT !.bg = @ \/ bg, !.fg = @ \/ fg, !.sub = sub]
  IN
  /\ Running("_handleDecodeHextile")
  /\ \/ raw /\ RectangleNeeds("_handleDecodeHextileRAW", args.w * Bypp, args, FALSE)
     \/ ~raw /\ numbytes # 0
        /\ RectangleNeeds("_handleDecodeHextileSubrect", numbytes, known, FALSE)
     \/ ~raw /\ numbytes = 0 /\ FillsNone(args.bg)
     \/ ~raw /\ numbytes = 0 /\ args.bg /\ NextHextileTile(args, args.w # 0)

\* The count of subrectangles is read only when the mask says there are any.
DecodeHextileSubrect(subrects) ==
  /\ Running("_handleDecodeHextileSubrect")
  /\ args.sub = "none" => subrects = 0
  /\ \/ FillsNone(args.bg)
     \/ args.bg /\ subrects = 0 /\ NextHextileTile(args, args.w # 0)
     \/ /\ args.bg /\ subrects # 0 /\ args.sub = "coloured"
        /\ RectangleNeeds("_handleDecodeHextileSubrectsColoured", (Bypp + 2) * subrects,
                          args, args.w # 0)
     \/ /\ args.bg /\ subrects # 0 /\ args.sub = "fg"
        /\ RectangleNeeds("_handleDecodeHextileSubrectsFG", 2 * subrects, args, args.w # 0)

DecodeHextileRAW ==
  Running("_handleDecodeHextileRAW") /\ NextHextileTile(args, args.w # 0)

\* The last subrectangle's colour is handed on as the foreground.
DecodeHextileSubrectsColoured ==
  /\ Running("_handleDecodeHextileSubrectsColoured")
  /\ NextHextileTile([args EXCEPT !.fg = TRUE], TRUE)

DecodeHextileSubrectsFG ==
  /\ Running("_handleDecodeHextileSubrectsFG")
  /\ FillsNone(args.fg) \/ (args.fg /\ NextHextileTile(args, TRUE))

DecodeZRLE(n) ==
  Running("_handleDecodeZRLE") /\ RectangleNeeds("_handleDecodeZRLEdata", n, NoArgs, FALSE)

\* zlib.error, ValueError and StopIteration are not caught.
DecodeZRLEdata(paint) ==
  /\ Running("_handleDecodeZRLEdata")
  /\ (Raise /\ UNCHANGED update) \/ RectangleDone(paint)

\* updateCursor draws over the screen, but brings none of its pixels.
DecodePsuedoCursor == Running("_handleDecodePsuedoCursor") /\ RectangleDone(FALSE)

-----------------------------------------------------------------------------
(* The other server messages, and what the application does.               *)

Message(h, n) ==
  /\ Expect(h, n, NoArgs)
  /\ UNCHANGED <<update, refresh>> /\ Steady

Connection(msg) ==
  /\ Running("_handleConnection")
  /\ \/ msg = "framebufferUpdate" /\ Message("_handleFramebufferUpdate", 3)
     \/ msg = "setColourMapEntries" /\ Message("_handleColourMapEntries", 5)
     \/ msg = "bell" /\ Message("_handleConnection", 1)
     \/ msg = "serverCutText" /\ Message("_handleServerCutText", 7)
     \/ msg = "unknown" /\ GiveUp("protocol") /\ UNCHANGED update

ColourMapEntries(n) ==
  Running("_handleColourMapEntries") /\ Message("_handleColourMapEntriesValue", 6 * n)
ServerCutText(n) ==
  Running("_handleServerCutText") /\ Message("_handleServerCutTextValue", n)
MessageValue ==
  /\ Running("_handleColourMapEntriesValue") \/ Running("_handleServerCutTextValue")
  /\ Message("_handleConnection", 1)

\* refreshScreen and _expectCompare.  The callers wait for one refresh before
\* they ask for the next: ThreadedProxy and CommandLine.
RefreshScreen ==
  /\ ~pumping /\ factoryDeferred = "made" /\ ~deferred
  /\ deferred' = TRUE /\ requested' = TRUE
  /\ UNCHANGED <<parser, session, update, lastRefresh, outcome, transport>>

-----------------------------------------------------------------------------
Messages == {"framebufferUpdate", "setColourMapEntries", "bell", "serverCutText", "unknown"}

\* One call of the parked handler, on a block with any contents.
HandshakeStep ==
  \/ BadGreeting \/ ShortGreeting
  \/ \E v \in ServerVersions : Greeting(v)
  \/ \E n \in Lengths :
       \/ NumberSecurityTypes(n) \/ ConnFailed(n) \/ DHAuth(n) \/ AuthFailed(n)
  \/ \E types \in SUBSET OfferedAuths : SecurityTypes(types)
  \/ \E auth \in OfferedAuths : Auth(auth)
  \/ ConnMessage \/ VNCAuth \/ DHAuthKey \/ DHAuthCert \/ AuthFailedMessage
  \/ \E result \in AuthResults : VNCAuthResult(result)
  \/ \E w \in Widths, n \in Lengths : ServerInit(w, n)
  \/ ServerName

RectangleStep ==
  \/ \E n \in Lengths : FramebufferUpdate(n)
  \/ LastRect \/ CopyRectangle \/ ZRLERectangle \/ DesktopSizeOrQEMU \/ UnknownEncoding
  \/ \E w \in Widths :
       \/ RawRectangle(w) \/ RRERectangle(w) \/ CoRRERectangle(w) \/ CursorRectangle(w)
       \/ \E tiles \in 0..MaxTiles : HextileRectangle(w, tiles)

BodyStep ==
  \/ PumpPixels \/ PumpForClient \/ DecodeCORRERectangles \/ DecodePsuedoCursor
  \/ \E n \in Lengths : DecodeRRE(n) \/ DecodeCORRE(n) \/ DecodeZRLE(n)
  \/ \E paint \in BOOLEAN : RRESubRectangles(paint) \/ DecodeZRLEdata(paint)
  \/ \E raw, bg, fg \in BOOLEAN, sub \in {"none", "fg", "coloured"} :
       DecodeHextile(raw, bg, fg, sub)
  \/ \E n \in Lengths : DecodeHextileSubrect(n)
  \/ DecodeHextileRAW \/ DecodeHextileSubrectsColoured \/ DecodeHextileSubrectsFG

MessageStep ==
  \/ \E msg \in Messages : Connection(msg)
  \/ \E n \in Lengths : ColourMapEntries(n) \/ ServerCutText(n)
  \/ MessageValue

HandlerStep == HandshakeStep \/ RectangleStep \/ BodyStep \/ MessageStep

Next ==
  \/ \E n \in Chunks : DataReceived(n)
  \/ HandlerStep
  \/ ConnectionLost
  \/ RefreshScreen

\* A running dataReceived call is a Python loop: it keeps going.  Nothing else
\* is promised: the server may never send, the application never ask.
Spec == Init /\ [][Next]_vars /\ WF_vars(HandlerStep)

-----------------------------------------------------------------------------
TypeOK ==
  /\ expectedHandler \in Handlers /\ expectedLen \in Nat /\ args \in Args
  /\ packet \in Nat /\ pumping \in BOOLEAN /\ aborted \in BOOLEAN
  /\ version \in {0, 3003, 3007, 3008} /\ width \in Nat
  /\ wrote \in Seq({"version", "none", "vnc", "dh", "response", "init", "encodings"})
  /\ rectangles \in Nat /\ rectanglePos \in Nat /\ painted \in BOOLEAN
  /\ deferred \in BOOLEAN /\ requested \in BOOLEAN
  /\ lastRefresh \in {"none", "painted", "unpainted"}
  /\ factoryDeferred \in {"pending", "made", "failed"}
  /\ reported \in {"none", "auth", "protocol", "lost"}
  /\ transport \in {"open", "closing", "closed"}

\* abortConnection "stop[s] parsing for good": bytes already buffered, or still
\* delivered while the transport closes, reach no handler, draw nothing and
\* complete no refresh.
AbortIsFinal == [][aborted => UNCHANGED <<parser, session, update, lastRefresh>>]_vars

\* While the connection is up, the client waits for a rectangle header only if
\* the server still owes one; a commit that lost count would read the next
\* message as a rectangle.
RectangleOwed ==
  transport = "open" /\ expectedHandler = "_handleRectangle" => rectangles > 0

\* The client closes the connection of its own accord only after it told the
\* factory why (vncProtocolError, vncAuthFailed); the one exception is a security
\* result that the protocol does not have, which _handleVNCAuthResult only logs.
ClosingIsReported ==
  [][transport = "open" /\ transport' = "closing" =>
       \/ reported' # "none"
       \/ \E result \in AuthResults \ {0, 1, 2} : VNCAuthResult(result)]_vars

\* The application is handed a client only if nothing was reported to have
\* failed before.
MadeBeforeFailure ==
  [][factoryDeferred' = "made" /\ factoryDeferred # "made" => reported' = "none"]_vars

\* Every dataReceived call of a library client returns to the reactor.  In vncdo a
\* refusal with an empty reason is read again and again, as a second failure does
\* not raise there.
CallReturns == ~CLI => (pumping ~> ~pumping)
=============================================================================
