--------------------------- MODULE RFBClientProofs ----------------------------
(***************************************************************************)
(* What holds of the protocol machine for every server, every size of its  *)
(* fields and every chunking of its bytes.                                 *)
(***************************************************************************)
EXTENDS RFBClient, TLAPS

\* The parser's variables.  A handler that is about to be called has its block
\* (the greeting looks for itself), an aborted parser calls none, and a Hextile
\* decoder is parked only while a tile is to come.
HextileHandlers ==
  {"_handleDecodeHextile", "_handleDecodeHextileRAW", "_handleDecodeHextileSubrect",
   "_handleDecodeHextileSubrectsColoured", "_handleDecodeHextileSubrectsFG"}
ParserOK ==
  /\ expectedHandler \in Handlers /\ expectedLen \in Nat /\ args \in Args
  /\ packet \in Nat /\ pumping \in BOOLEAN /\ aborted \in BOOLEAN
  /\ expectedHandler = "_handleInitial" => expectedLen = 12
  /\ pumping /\ expectedHandler # "_handleInitial" => packet >= expectedLen
  /\ aborted => ~pumping
  /\ expectedHandler \in HextileHandlers => args.tiles # 0

Written == {"version", "none", "vnc", "dh", "response", "init", "encodings"}
SessionOK ==
  version \in {0, 3003, 3007, 3008} /\ width \in Nat /\ wrote \in Seq(Written)
UpdateOK == rectangles \in Nat /\ rectanglePos \in Nat /\ painted \in BOOLEAN
RefreshOK ==
  /\ deferred \in BOOLEAN /\ requested \in BOOLEAN
  /\ lastRefresh \in {"none", "painted", "unpainted"}
OutcomeOK ==
  /\ factoryDeferred \in {"pending", "made", "failed"}
  /\ reported \in {"none", "auth", "protocol", "lost"}
  /\ transport \in {"open", "closing", "closed"}

\* The inductive invariant.
IInv == ParserOK /\ SessionOK /\ UpdateOK /\ RefreshOK /\ OutcomeOK /\ RectangleOwed

\* The invariant implies the type invariant.
LEMMA IInvType == IInv => TypeOK
BY DEF IInv, ParserOK, SessionOK, UpdateOK, RefreshOK, OutcomeOK, TypeOK, Written

\* What a handler is parked with is a record of Args.
LEMMA NoArgsOK == NoArgs \in Args /\ \A w \in Nat : Of(w) \in Args /\ Of(w).w = w
BY DEF NoArgs, Args, Of

\* It holds of a new connection.
LEMMA InitOK == Init => IInv
<1> SUFFICES ASSUME Init PROVE IInv
  OBVIOUS
<1>1. ParserOK
  BY NoArgsOK DEF Init, ParserOK, Handlers, HextileHandlers, HandshakeHandlers
<1>2. SessionOK
  BY DEF Init, SessionOK, Written
<1>3. UpdateOK /\ RefreshOK /\ OutcomeOK /\ RectangleOwed
  BY DEF Init, UpdateOK, RefreshOK, OutcomeOK, RectangleOwed
<1> QED
  BY <1>1, <1>2, <1>3 DEF IInv

-----------------------------------------------------------------------------
(* How a handler ends.                                                     *)

\* A handler is called on its block.
LEMMA RunningHasBlock ==
  ASSUME ParserOK, NEW h, h # "_handleInitial", Running(h)
  PROVE  packet >= expectedLen /\ ~aborted /\ pumping
BY DEF ParserOK, Running

\* A handler that calls expect leaves another one parked.
LEMMA ExpectOK ==
  ASSUME ParserOK, packet >= expectedLen, pumping,
         NEW h \in Handlers \ {"_handleInitial"}, NEW n \in Nat, NEW a \in Args,
         h \in HextileHandlers => a.tiles # 0, Expect(h, n, a)
  PROVE  ParserOK' /\ expectedHandler' = h
BY DEF ParserOK, Expect

\* A handler that does not stays parked itself.
LEMMA StayParkedOK ==
  ASSUME ParserOK, packet >= expectedLen, pumping, StayParked
  PROVE  ParserOK' /\ expectedHandler' = expectedHandler
BY DEF ParserOK, StayParked

\* An exception stops the loop and closes the transport.
LEMMA RaiseOK ==
  ASSUME ParserOK, SessionOK, RefreshOK, OutcomeOK, Raise
  PROVE  ParserOK' /\ SessionOK' /\ RefreshOK' /\ OutcomeOK' /\ transport' = "closed"
<1>1. ParserOK'
  BY DEF ParserOK, Raise
<1>2. SessionOK' /\ RefreshOK'
  BY DEF SessionOK, RefreshOK, Raise, session, refresh
<1>3. OutcomeOK' /\ transport' = "closed"
  BY DEF OutcomeOK, Raise
<1> QED
  BY <1>1, <1>2, <1>3

\* A protocol or security failure reported to the factory.
LEMMA GiveUpOK ==
  ASSUME ParserOK, SessionOK, RefreshOK, OutcomeOK, packet >= expectedLen, pumping,
         NEW kind \in {"auth", "protocol"}, GiveUp(kind)
  PROVE  ParserOK' /\ SessionOK' /\ RefreshOK' /\ OutcomeOK' /\ transport' # "open"
<1>1. CASE ErrbackRaises /\ Raise
  BY <1>1, RaiseOK
<1>2. CASE /\ ClientConnectionFailed(kind) /\ LoseConnection /\ StayParked
           /\ UNCHANGED <<session, refresh>>
  <2>1. ParserOK'
    BY <1>2, StayParkedOK
  <2> QED
    BY <1>2, <2>1 DEF ClientConnectionFailed, LoseConnection, SessionOK, RefreshOK, OutcomeOK,
                      session, refresh
<1> QED
  BY <1>1, <1>2 DEF GiveUp

\* abortConnection: the loop stops for good.
LEMMA AbortOK ==
  ASSUME ParserOK, SessionOK, RefreshOK, OutcomeOK, AbortConnection
  PROVE  ParserOK' /\ SessionOK' /\ RefreshOK' /\ OutcomeOK' /\ transport' # "open"
<1>1. ParserOK'
  BY DEF ParserOK, AbortConnection
<1>2. SessionOK' /\ RefreshOK'
  BY DEF SessionOK, RefreshOK, AbortConnection, session, refresh
<1>3. OutcomeOK' /\ transport' # "open"
  BY DEF OutcomeOK, AbortConnection, ClientConnectionFailed, LoseConnection, outcome
<1> QED
  BY <1>1, <1>2, <1>3

\* The rectangles of an update: whoever calls _doConnection with n rectangles to
\* come leaves the client waiting for a header only if n is not 0.
LEMMA DoConnectionOK ==
  ASSUME ParserOK, RefreshOK, packet >= expectedLen, pumping,
         NEW n \in Nat, NEW pos \in Nat, NEW paint \in BOOLEAN, DoConnection(n, pos, paint)
  PROVE  /\ ParserOK' /\ UpdateOK' /\ RefreshOK'
         /\ expectedHandler' = "_handleRectangle" => rectangles' > 0
<1> USE DEF Handlers, HextileHandlers, SessionHandlers, MessageHandlers, RectangleHandlers
<1>1. NoArgs \in Args
  BY NoArgsOK
<1>2. UpdateOK'
  BY DEF DoConnection, UpdateOK
<1>3. CASE n # 0
  <2>1. ParserOK'
    BY <1>1, <1>3, ExpectOK DEF DoConnection
  <2> QED
    BY <1>2, <1>3, <2>1 DEF DoConnection, RefreshOK, refresh
<1>4. CASE n = 0
  <2>1. ParserOK' /\ expectedHandler' = "_handleConnection"
    BY <1>1, <1>4, ExpectOK DEF DoConnection
  <2>2. RefreshOK'
    BY <1>4 DEF DoConnection, CommitUpdate, RefreshOK, refresh
  <2> QED
    BY <1>2, <2>1, <2>2
<1> QED
  BY <1>3, <1>4

-----------------------------------------------------------------------------
(* The same, for the whole state.                                          *)

\* An exception keeps the invariant.
LEMMA RaiseInv ==
  ASSUME IInv, Raise, UpdateOK' PROVE IInv'
BY RaiseOK DEF IInv, RectangleOwed

\* So does a reported failure,
LEMMA GiveUpInv ==
  ASSUME IInv, packet >= expectedLen, pumping, NEW kind \in {"auth", "protocol"},
         GiveUp(kind), UpdateOK'
  PROVE  IInv'
BY GiveUpOK DEF IInv, RectangleOwed

\* and abortConnection.
LEMMA AbortInv ==
  ASSUME IInv, AbortConnection, UpdateOK' PROVE IInv'
BY AbortOK DEF IInv, RectangleOwed

\* A startup handler that goes on.
LEMMA HandshakeInv ==
  ASSUME IInv, packet >= expectedLen, pumping,
         NEW h \in Handlers \ {"_handleInitial", "_handleRectangle"},
         NEW n \in Nat, NEW a \in Args, h \in HextileHandlers => a.tiles # 0,
         Expect(h, n, a), SessionOK', Handshake
  PROVE  IInv'
<1>1. ParserOK' /\ expectedHandler' = h
  BY ExpectOK DEF IInv
<1>2. UpdateOK' /\ RefreshOK' /\ OutcomeOK'
  BY DEF IInv, Handshake, update, refresh, outcome, UpdateOK, RefreshOK, OutcomeOK
<1> QED
  BY <1>1, <1>2 DEF IInv, RectangleOwed

\* A handler of the session that goes on.
LEMMA SteadyInv ==
  ASSUME IInv, packet >= expectedLen, pumping,
         NEW h \in Handlers \ {"_handleInitial", "_handleRectangle"},
         NEW n \in Nat, NEW a \in Args, h \in HextileHandlers => a.tiles # 0,
         Expect(h, n, a), UpdateOK', UNCHANGED refresh, Steady
  PROVE  IInv'
<1>1. ParserOK' /\ expectedHandler' = h
  BY ExpectOK DEF IInv
<1>2. SessionOK' /\ RefreshOK' /\ OutcomeOK'
  BY DEF IInv, Steady, session, refresh, outcome, SessionOK, RefreshOK, OutcomeOK
<1> QED
  BY <1>1, <1>2 DEF IInv, RectangleOwed

\* A handler that calls _doConnection.
LEMMA DoConnectionInv ==
  ASSUME IInv, packet >= expectedLen, pumping, NEW n \in Nat, NEW pos \in Nat,
         NEW paint \in BOOLEAN, DoConnection(n, pos, paint), Steady
  PROVE  IInv'
<1>1. SessionOK' /\ OutcomeOK'
  BY DEF IInv, Steady, session, outcome, SessionOK, OutcomeOK
<1> QED
  BY <1>1, DoConnectionOK DEF IInv, RectangleOwed

-----------------------------------------------------------------------------
(* Connection startup.                                                     *)

\* The client never answers with a version it does not implement.
LEMMA VersionNegotiated ==
  ASSUME NEW server \in Nat, server >= 3003
  PROVE  NegotiatedVersion(server) \in {3003, 3007, 3008}
<1> DEFINE known == {v \in SupportedServerVersions : v <= server}
           best == CHOOSE v \in known : \A u \in known : u <= v
<1>1. \E v \in known : \A u \in known : u <= v
  <2>1. CASE server >= 5000
    <3>1. 5000 \in known /\ \A u \in known : u <= 5000
      BY <2>1 DEF SupportedServerVersions
    <3> QED
      BY <3>1
  <2>2. CASE 4001 <= server /\ server < 5000
    <3>1. 4001 \in known /\ \A u \in known : u <= 4001
      BY <2>2 DEF SupportedServerVersions
    <3> QED
      BY <3>1
  <2>3. CASE server = 4000
    <3>1. 4000 \in known /\ \A u \in known : u <= 4000
      BY <2>3 DEF SupportedServerVersions
    <3> QED
      BY <3>1
  <2>4. CASE 3889 <= server /\ server < 4000
    <3>1. 3889 \in known /\ \A u \in known : u <= 3889
      BY <2>4 DEF SupportedServerVersions
    <3> QED
      BY <3>1
  <2>5. CASE 3008 <= server /\ server < 3889
    <3>1. 3008 \in known /\ \A u \in known : u <= 3008
      BY <2>5 DEF SupportedServerVersions
    <3> QED
      BY <3>1
  <2>6. CASE server = 3007
    <3>1. 3007 \in known /\ \A u \in known : u <= 3007
      BY <2>6 DEF SupportedServerVersions
    <3> QED
      BY <3>1
  <2>7. CASE 3003 <= server /\ server < 3007
    <3>1. 3003 \in known /\ \A u \in known : u <= 3003
      BY <2>7 DEF SupportedServerVersions
    <3> QED
      BY <3>1
  <2> QED
    BY <2>1, <2>2, <2>3, <2>4, <2>5, <2>6, <2>7
<1>2. best \in known
  BY <1>1
<1>3. NegotiatedVersion(server) = IF best > MaxClientVersion THEN MaxClientVersion ELSE best
  BY DEF NegotiatedVersion
<1> HIDE DEF best
<1> QED
  BY <1>2, <1>3 DEF SupportedServerVersions, MaxClientVersion

\* What the client writes.
LEMMA WrittenOK ==
  /\ <<>> \in Seq(Written) /\ \A m \in Written : <<m>> \in Seq(Written)
  /\ \A ms \in Seq(Written) : Append(ms, "init") \in Seq(Written)
BY DEF Written

\* Handlers of the startup that go on to the next one.
LEMMA StartupInv ==
  ASSUME IInv, packet >= expectedLen, pumping,
         NEW h \in Handlers \ {"_handleInitial", "_handleRectangle"},
         NEW n \in Nat, NEW a \in Args, h \in HextileHandlers => a.tiles # 0,
         Expect(h, n, a),
         UNCHANGED <<version, width>>, wrote' = wrote \/ wrote' \in Seq(Written), Handshake
  PROVE  IInv'
<1>1. SessionOK'
  BY DEF IInv, SessionOK
<1> QED
  BY <1>1, HandshakeInv

\* _handleInitial.
LEMMA GreetingInv ==
  ASSUME IInv, BadGreeting \/ ShortGreeting \/ \E v \in ServerVersions : Greeting(v)
  PROVE  IInv'
<1> USE DEF Handlers, HextileHandlers, HandshakeHandlers
<1>1. CASE BadGreeting
  <2>1. UpdateOK'
    BY <1>1 DEF BadGreeting, IInv, UpdateOK, update
  <2>2. CASE Raise
    BY <2>1, <2>2, RaiseInv
  <2>3. CASE ~Raise
    <3>1. ParserOK'
      BY <1>1, <2>3 DEF BadGreeting, IInv, ParserOK
    <3>2. SessionOK' /\ RefreshOK'
      BY <1>1, <2>3 DEF BadGreeting, IInv, SessionOK, RefreshOK, session, refresh
    <3>3. OutcomeOK' /\ transport' # "open"
      BY <1>1, <2>3 DEF BadGreeting, IInv, OutcomeOK, ClientConnectionFailed, LoseConnection
    <3> QED
      BY <2>1, <3>1, <3>2, <3>3 DEF IInv, RectangleOwed
  <2> QED
    BY <2>2, <2>3
<1>2. CASE ShortGreeting
  <2>1. ParserOK'
    BY <1>2 DEF ShortGreeting, IInv, ParserOK
  <2>2. SessionOK' /\ UpdateOK' /\ RefreshOK' /\ OutcomeOK' /\ RectangleOwed'
    BY <1>2 DEF ShortGreeting, Handshake, IInv, SessionOK, UpdateOK, RefreshOK, OutcomeOK,
                RectangleOwed, session, update, refresh, outcome
  <2> QED
    BY <2>1, <2>2 DEF IInv
<1>3. ASSUME NEW v \in ServerVersions, Greeting(v) PROVE IInv'
  <2>1. v \in Nat /\ expectedLen = 12 /\ packet >= expectedLen /\ pumping
    BY <1>3, VersionAssumption DEF Greeting, Running, IInv, ParserOK
  <2>2. CASE v < 3003
    <3>1. Raise /\ UpdateOK'
      BY <1>3, <2>1, <2>2 DEF Greeting, IInv, UpdateOK, update
    <3> QED
      BY <3>1, RaiseInv
  <2>3. CASE v >= 3003
    <3>0. version' = NegotiatedVersion(v) /\ wrote' = <<"version">> /\ width' = width /\ Handshake
      BY <1>3, <2>1, <2>3 DEF Greeting
    <3>1. version' \in {3003, 3007, 3008} /\ wrote' \in Seq(Written)
      BY <2>1, <2>3, <3>0, VersionNegotiated DEF Written
    <3>2. SessionOK'
      BY <3>0, <3>1 DEF IInv, SessionOK
    <3>3. \/ Expect("_handleAuth", 4, NoArgs)
          \/ Expect("_handleNumberSecurityTypes", 1, NoArgs)
      BY <1>3, <2>1, <2>3 DEF Greeting
    <3> QED
      BY <2>1, <3>0, <3>2, <3>3, HandshakeInv, NoArgsOK
  <2> QED
    BY <2>1, <2>2, <2>3
<1> QED
  BY <1>1, <1>2, <1>3

\* The choice of a security type.
LEMMA SecurityInv ==
  ASSUME IInv, NEW n \in Nat, NEW types \in SUBSET OfferedAuths, NEW auth,
         NumberSecurityTypes(n) \/ SecurityTypes(types) \/ Auth(auth)
  PROVE  IInv'
<1> USE DEF Handlers, HextileHandlers, HandshakeHandlers, InitHandlers
<1>0. packet >= expectedLen /\ pumping
  BY RunningHasBlock DEF IInv, NumberSecurityTypes, SecurityTypes, Auth
<1>1. CASE NumberSecurityTypes(n)
  <2>1. Expect("_handleSecurityTypes", n, NoArgs) \/ Expect("_handleConnFailed", 4, NoArgs)
    BY <1>1 DEF NumberSecurityTypes
  <2>2. UNCHANGED <<version, width>> /\ wrote' = wrote /\ Handshake
    BY <1>1 DEF NumberSecurityTypes, session
  <2> QED
    BY <1>0, <2>1, <2>2, StartupInv, NoArgsOK
<1>2. CASE SecurityTypes(types)
  <2>1. CASE GiveUp("protocol") /\ UNCHANGED update
    <3>1. UpdateOK'
      BY <2>1 DEF IInv, UpdateOK, update
    <3> QED
      BY <1>0, <2>1, <3>1, GiveUpInv
  <2>2. CASE ~(GiveUp("protocol") /\ UNCHANGED update)
    <3>1. UNCHANGED <<version, width>> /\ Handshake
      BY <1>2, <2>2 DEF SecurityTypes
    <3>2. \/ wrote' = Append(<<"none">>, "init") /\ Expect("_handleServerInit", 24, NoArgs)
          \/ wrote' = <<"none">> /\ Expect("_handleVNCAuthResult", 4, NoArgs)
          \/ wrote' = <<"vnc">> /\ Expect("_handleVNCAuth", 16, NoArgs)
          \/ wrote' = <<"dh">> /\ Expect("_handleDHAuth", 4, NoArgs)
      BY <1>2, <2>2 DEF SecurityTypes, DoClientInitialization
    <3>3. "none" \in Written /\ "vnc" \in Written /\ "dh" \in Written
      BY DEF Written
    <3>4. wrote' \in Seq(Written)
      BY <3>2, <3>3, WrittenOK
    <3> QED
      BY <1>0, <3>1, <3>2, <3>4, StartupInv, NoArgsOK
  <2> QED
    BY <2>1, <2>2
<1>3. CASE Auth(auth)
  <2>1. CASE GiveUp("protocol") /\ UNCHANGED update
    <3>1. UpdateOK'
      BY <2>1 DEF IInv, UpdateOK, update
    <3> QED
      BY <1>0, <2>1, <3>1, GiveUpInv
  <2>2. CASE ~(GiveUp("protocol") /\ UNCHANGED update)
    <3>1. UNCHANGED <<version, width>> /\ Handshake
      BY <1>3, <2>2 DEF Auth, session
    <3>2. \/ wrote' = Append(<<>>, "init") /\ Expect("_handleServerInit", 24, NoArgs)
          \/ wrote' = wrote /\ Expect("_handleConnFailed", 4, NoArgs)
          \/ wrote' = wrote /\ Expect("_handleVNCAuth", 16, NoArgs)
      BY <1>3, <2>2 DEF Auth, DoClientInitialization, session
    <3>3. wrote' = wrote \/ wrote' \in Seq(Written)
      BY <3>2, WrittenOK
    <3> QED
      BY <1>0, <3>1, <3>2, <3>3, StartupInv, NoArgsOK
  <2> QED
    BY <2>1, <2>2
<1> QED
  BY <1>1, <1>2, <1>3

\* Lengths announced by the server, and reasons for its refusal.
LEMMA LengthsInv ==
  ASSUME IInv, NEW n \in Nat,
         \/ ConnFailed(n) \/ AuthFailed(n) \/ DHAuth(n) \/ DHAuthKey
         \/ ConnMessage \/ AuthFailedMessage
  PROVE  IInv'
<1> USE DEF Handlers, HextileHandlers, HandshakeHandlers
<1>0. packet >= expectedLen /\ pumping
  BY RunningHasBlock DEF IInv, ConnFailed, AuthFailed, DHAuth, DHAuthKey, ConnMessage,
                         AuthFailedMessage
<1>1. CASE ConnFailed(n) \/ AuthFailed(n) \/ DHAuth(n) \/ DHAuthKey
  <2>1. args.w \in Nat
    BY DEF IInv, ParserOK, Args
  <2>2. \/ Expect("_handleConnMessage", n, NoArgs) \/ Expect("_handleAuthFailedMessage", n, NoArgs)
        \/ Expect("_handleDHAuthKey", n, Of(n)) \/ Expect("_handleDHAuthCert", args.w, NoArgs)
    BY <1>1 DEF ConnFailed, AuthFailed, DHAuth, DHAuthKey
  <2>3. UNCHANGED <<version, width>> /\ wrote' = wrote /\ Handshake
    BY <1>1 DEF ConnFailed, AuthFailed, DHAuth, DHAuthKey, session
  <2> QED
    BY <1>0, <2>1, <2>2, <2>3, StartupInv, NoArgsOK
<1>2. CASE ConnMessage \/ AuthFailedMessage
  <2>1. (GiveUp("protocol") \/ GiveUp("auth")) /\ UpdateOK'
    BY <1>2 DEF ConnMessage, AuthFailedMessage, IInv, UpdateOK, update
  <2> QED
    BY <1>0, <2>1, GiveUpInv
<1> QED
  BY <1>1, <1>2

\* The answer to a challenge.
LEMMA CredentialsInv ==
  ASSUME IInv, VNCAuth \/ DHAuthCert PROVE IInv'
<1> USE DEF Handlers, HextileHandlers, HandshakeHandlers
<1>0. packet >= expectedLen /\ pumping
  BY RunningHasBlock DEF IInv, VNCAuth, DHAuthCert
<1>1. "response" \in Written
  BY DEF Written
<1>2. CASE Raise /\ UNCHANGED update
  <2>1. UpdateOK'
    BY <1>2 DEF IInv, UpdateOK, update
  <2> QED
    BY <1>2, <2>1, RaiseInv
<1>3. CASE /\ wrote' = <<"response">> /\ Expect("_handleVNCAuthResult", 4, NoArgs)
           /\ UNCHANGED <<version, width>> /\ Handshake
  <2>1. wrote' \in Seq(Written)
    BY <1>1, <1>3, WrittenOK
  <2> QED
    BY <1>0, <1>3, <2>1, StartupInv, NoArgsOK
<1>4. CASE /\ ClientConnectionFailed("auth") /\ LoseConnection
           /\ Expect("_handleVNCAuthResult", 4, NoArgs) /\ UNCHANGED <<session, update, refresh>>
  <2>1. ParserOK' /\ expectedHandler' = "_handleVNCAuthResult"
    BY <1>0, <1>4, ExpectOK, NoArgsOK DEF IInv
  <2>2. SessionOK' /\ UpdateOK' /\ RefreshOK'
    BY <1>4 DEF IInv, SessionOK, UpdateOK, RefreshOK, session, update, refresh
  <2>3. OutcomeOK'
    BY <1>4 DEF IInv, OutcomeOK, ClientConnectionFailed, LoseConnection
  <2> QED
    BY <2>1, <2>2, <2>3 DEF IInv, RectangleOwed
<1> QED
  BY <1>2, <1>3, <1>4 DEF VNCAuth, DHAuthCert

\* _handleVNCAuthResult.
LEMMA ResultInv ==
  ASSUME IInv, NEW result, VNCAuthResult(result) PROVE IInv'
<1> USE DEF Handlers, HextileHandlers, HandshakeHandlers, InitHandlers
<1>0. packet >= expectedLen /\ pumping /\ expectedHandler = "_handleVNCAuthResult"
  BY RunningHasBlock DEF IInv, VNCAuthResult, Running
<1>1. CASE GiveUp("auth") /\ UNCHANGED update
  <2>1. UpdateOK'
    BY <1>1 DEF IInv, UpdateOK, update
  <2> QED
    BY <1>0, <1>1, <2>1, GiveUpInv
<1>2. CASE DoClientInitialization(<<>>) /\ UNCHANGED <<version, width>> /\ Handshake
  <2>1. wrote' \in Seq(Written) /\ Expect("_handleServerInit", 24, NoArgs)
    BY <1>2, WrittenOK DEF DoClientInitialization
  <2> QED
    BY <1>0, <1>2, <2>1, StartupInv, NoArgsOK
<1>3. CASE Expect("_handleAuthFailed", 4, NoArgs) /\ UNCHANGED session /\ Handshake
  <2>1. UNCHANGED <<version, width>> /\ wrote' = wrote
    BY <1>3 DEF session
  <2> QED
    BY <1>0, <1>3, <2>1, StartupInv, NoArgsOK
<1>4. CASE LoseConnection /\ StayParked /\ UNCHANGED <<session, update, refresh, outcome>>
  <2>1. ParserOK' /\ expectedHandler' = "_handleVNCAuthResult"
    BY <1>0, <1>4, StayParkedOK DEF IInv
  <2>2. SessionOK' /\ UpdateOK' /\ RefreshOK' /\ OutcomeOK'
    BY <1>4 DEF IInv, SessionOK, UpdateOK, RefreshOK, OutcomeOK, LoseConnection, session, update,
                refresh, outcome
  <2> QED
    BY <2>1, <2>2 DEF IInv, RectangleOwed
<1> QED
  BY <1>1, <1>2, <1>3, <1>4 DEF VNCAuthResult

\* _handleServerInit and _handleServerName.
LEMMA ServerInitInv ==
  ASSUME IInv, NEW w \in Nat, NEW n \in Nat, ServerInit(w, n) \/ ServerName PROVE IInv'
<1> USE DEF Handlers, HextileHandlers, InitHandlers, SessionHandlers, MessageHandlers
<1>0. packet >= expectedLen /\ pumping /\ expectedHandler # "_handleRectangle"
  BY RunningHasBlock DEF IInv, ServerInit, ServerName, Running
<1>1. CASE ServerInit(w, n)
  <2>1. SessionOK' /\ Expect("_handleServerName", n, NoArgs) /\ Handshake
    BY <1>1 DEF ServerInit, IInv, SessionOK
  <2> QED
    BY <1>0, <2>1, HandshakeInv, NoArgsOK
<1>2. CASE ServerName
  <2>0. UpdateOK'
    BY <1>2 DEF ServerName, IInv, UpdateOK, update
  <2>1. CASE Raise
    BY <2>0, <2>1, RaiseInv
  <2>2. CASE /\ ClientConnectionFailed("protocol") /\ transport' = "closed" /\ pumping' = FALSE
             /\ UNCHANGED <<expectedHandler, expectedLen, args, packet, aborted>>
             /\ UNCHANGED <<session, refresh>>
    <3>1. ParserOK'
      BY <2>2 DEF IInv, ParserOK
    <3>2. SessionOK' /\ RefreshOK'
      BY <2>2 DEF IInv, SessionOK, RefreshOK, session, refresh
    <3>3. OutcomeOK'
      BY <2>2 DEF IInv, OutcomeOK, ClientConnectionFailed
    <3> QED
      BY <2>0, <2>2, <3>1, <3>2, <3>3 DEF IInv, RectangleOwed
  <2>3. CASE /\ factoryDeferred' = "made" /\ wrote' = <<"encodings">>
             /\ \E d \in BOOLEAN : deferred' = d /\ requested' = d
             /\ Expect("_handleConnection", 1, NoArgs)
             /\ UNCHANGED <<version, width, lastRefresh, reported, transport>>
    <3>1. ParserOK' /\ expectedHandler' = "_handleConnection"
      BY <1>0, <2>3, ExpectOK, NoArgsOK DEF IInv
    <3>2. "encodings" \in Written
      BY DEF Written
    <3>3. SessionOK'
      BY <2>3, <3>2, WrittenOK DEF IInv, SessionOK
    <3>4. RefreshOK' /\ OutcomeOK'
      BY <2>3 DEF IInv, RefreshOK, OutcomeOK
    <3> QED
      BY <2>0, <3>1, <3>3, <3>4 DEF IInv, RectangleOwed
  <2> QED
    BY <1>2, <2>1, <2>2, <2>3 DEF ServerName
<1> QED
  BY <1>1, <1>2

-----------------------------------------------------------------------------
(* Framebuffer updates.                                                    *)

\* Sizes of blocks are natural numbers.
LEMMA SizesOK ==
  ASSUME NEW w \in Nat
  PROVE  /\ w * Bypp \in Nat /\ 4 + Bypp \in Nat /\ w * Bypp + ((w + 7) \div 8) \in Nat
         /\ (8 + Bypp) * w \in Nat /\ (4 + Bypp) * w \in Nat /\ (Bypp + 2) * w \in Nat
         /\ 2 * w \in Nat /\ 6 * w \in Nat
<1>1. Bypp \in Nat
  BY SizeAssumption
<1>2. (w + 7) \div 8 \in Nat
  OBVIOUS
<1>3. \A x, y \in Nat : x * y \in Nat /\ x + y \in Nat
  OBVIOUS
<1> QED
  BY <1>1, <1>2, <1>3

\* A rectangle is counted only while one is owed.
LEMMA CountOK ==
  ASSUME IInv, NEW e, Rectangle(e), Count PROVE UpdateOK'
BY DEF IInv, Rectangle, Count, UpdateOK

\* A header that leaves a decoder parked.
LEMMA CountedInv ==
  ASSUME IInv, NEW e, Rectangle(e), NEW h \in Handlers \ {"_handleInitial", "_handleRectangle"},
         NEW n \in Nat, NEW a \in Args, h \in HextileHandlers => a.tiles # 0,
         Counted(h, n, a)
  PROVE  IInv'
<1>1. packet >= expectedLen /\ pumping
  BY RunningHasBlock DEF IInv, Rectangle
<1>2. UpdateOK' /\ Expect(h, n, a) /\ UNCHANGED refresh /\ Steady
  BY CountOK DEF Counted
<1> QED
  BY <1>1, <1>2, SteadyInv

\* FramebufferUpdate and the rectangle headers.
LEMMA HeaderInv ==
  ASSUME IInv, NEW w \in Nat, NEW n \in Nat,
         \/ FramebufferUpdate(n) \/ LastRect \/ CopyRectangle \/ ZRLERectangle
         \/ DesktopSizeOrQEMU \/ UnknownEncoding \/ RawRectangle(w) \/ RRERectangle(w)
         \/ CoRRERectangle(w) \/ CursorRectangle(w) \/ HextileRectangle(w, n)
  PROVE  IInv'
<1> USE DEF Handlers, HextileHandlers, SessionHandlers, RectangleHandlers
<1>0. packet >= expectedLen /\ pumping
  BY RunningHasBlock DEF IInv, FramebufferUpdate, LastRect, CopyRectangle, ZRLERectangle,
       DesktopSizeOrQEMU, UnknownEncoding, RawRectangle, RRERectangle, CoRRERectangle,
       CursorRectangle, HextileRectangle, Rectangle
<1>1. rectangles \in Nat /\ rectanglePos \in Nat /\ painted \in BOOLEAN
  BY DEF IInv, UpdateOK
<1>2. CASE FramebufferUpdate(n)
  BY <1>0, <1>2, DoConnectionInv DEF FramebufferUpdate
<1>3. CASE LastRect
  BY <1>0, <1>1, <1>3, DoConnectionInv DEF LastRect
<1>4. CASE DesktopSizeOrQEMU
  <2>1. rectangles - 1 \in Nat
    BY <1>1, <1>4 DEF DesktopSizeOrQEMU, Rectangle
  <2> QED
    BY <1>0, <1>1, <1>4, <2>1, DoConnectionInv DEF DesktopSizeOrQEMU
<1>5. CASE UnknownEncoding
  <2>1. GiveUp("protocol") /\ UpdateOK'
    BY <1>5, CountOK DEF UnknownEncoding
  <2> QED
    BY <1>0, <2>1, GiveUpInv
<1>6. CASE RawRectangle(w)
  <2>1. Rectangle("raw")
    BY <1>6 DEF RawRectangle
  <2>2. CASE Count /\ AbortConnection
    BY <2>1, <2>2, CountOK, AbortInv
  <2>3. CASE Counted("_pumpPixels", w * Bypp, Of(w))
    BY <2>1, <2>3, CountedInv, NoArgsOK, SizesOK
  <2> QED
    BY <1>6, <2>2, <2>3 DEF RawRectangle
<1>7. CASE CopyRectangle \/ ZRLERectangle
  BY <1>7, CountedInv, NoArgsOK DEF CopyRectangle, ZRLERectangle
<1>8. CASE RRERectangle(w)
  BY <1>8, CountedInv, NoArgsOK, SizesOK DEF RRERectangle
<1>9. CASE CoRRERectangle(w)
  BY <1>9, CountedInv, NoArgsOK, SizesOK DEF CoRRERectangle
<1>10. CASE CursorRectangle(w)
  BY <1>10, CountedInv, NoArgsOK, SizesOK DEF CursorRectangle
<1>11. CASE HextileRectangle(w, n)
  <2>1. Rectangle("hextile") /\ rectangles - 1 \in Nat /\ rectanglePos + 1 \in Nat
    BY <1>1, <1>11 DEF HextileRectangle, Rectangle
  <2>2. [Of(w) EXCEPT !.tiles = n] \in Args /\ [Of(w) EXCEPT !.tiles = n].tiles = n
    BY DEF Of, NoArgs, Args
  <2>3. CASE n # 0 /\ Counted("_handleDecodeHextile", 1, [Of(w) EXCEPT !.tiles = n])
    BY <2>1, <2>2, <2>3, CountedInv
  <2>4. CASE DoConnection(rectangles - 1, rectanglePos + 1, painted) /\ Steady
    BY <1>0, <1>1, <2>1, <2>4, DoConnectionInv
  <2> QED
    BY <1>11, <2>3, <2>4 DEF HextileRectangle
<1> QED
  BY <1>2, <1>3, <1>4, <1>5, <1>6, <1>7, <1>8, <1>9, <1>10, <1>11

-----------------------------------------------------------------------------
(* Rectangle bodies.                                                       *)

\* A decoder that has drawn its rectangle.
LEMMA RectangleDoneInv ==
  ASSUME IInv, packet >= expectedLen, pumping, NEW paint \in BOOLEAN, RectangleDone(paint)
  PROVE  IInv'
<1>1. rectangles \in Nat /\ rectanglePos \in Nat /\ (painted \/ paint) \in BOOLEAN
  BY DEF IInv, UpdateOK
<1>2. DoConnection(rectangles, rectanglePos, painted \/ paint) /\ Steady
  BY DEF RectangleDone
<1> QED
  BY <1>1, <1>2, DoConnectionInv

\* A decoder that waits for more of its rectangle.
LEMMA RectangleNeedsInv ==
  ASSUME IInv, packet >= expectedLen, pumping,
         NEW h \in Handlers \ {"_handleInitial", "_handleRectangle"},
         NEW n \in Nat, NEW a \in Args, h \in HextileHandlers => a.tiles # 0,
         NEW paint \in BOOLEAN, RectangleNeeds(h, n, a, paint)
  PROVE  IInv'
<1>1. UpdateOK' /\ UNCHANGED refresh
  BY DEF IInv, UpdateOK, RectangleNeeds
<1>2. Expect(h, n, a) /\ Steady
  BY DEF RectangleNeeds
<1> QED
  BY <1>1, <1>2, SteadyInv

\* A decoder whose exception leaves dataReceived.
LEMMA DecoderRaisesInv ==
  ASSUME IInv, Raise, UNCHANGED update PROVE IInv'
<1>1. UpdateOK'
  BY DEF IInv, UpdateOK, update
<1> QED
  BY <1>1, RaiseInv

\* A Hextile decoder that is done with its tile.
LEMMA NextTileInv ==
  ASSUME IInv, packet >= expectedLen, pumping, NEW a \in Args, a.tiles # 0,
         NEW paint \in BOOLEAN, NextHextileTile(a, paint)
  PROVE  IInv'
<1> DEFINE b == [a EXCEPT !.tiles = @ - 1, !.sub = "none"]
<1> USE DEF Handlers, SessionHandlers, RectangleHandlers, HextileHandlers
<1>1. CASE a.tiles = 1
  BY <1>1, RectangleDoneInv DEF NextHextileTile
<1>2. CASE a.tiles # 1
  <2>1. a.tiles \in Nat /\ a.tiles - 1 \in Nat \ {0}
    BY <1>2 DEF Args
  <2>2. b \in Args /\ b.tiles = a.tiles - 1
    BY <2>1 DEF Args
  <2>3. RectangleNeeds("_handleDecodeHextile", 1, b, paint)
    BY <1>2 DEF NextHextileTile
  <2> HIDE DEF b
  <2> QED
    BY <2>1, <2>2, <2>3, RectangleNeedsInv
<1> QED
  BY <1>1, <1>2

\* Raw, CopyRect, RRE, CoRRE, ZRLE and the cursor.
LEMMA BodyInv ==
  ASSUME IInv, NEW n \in Nat, NEW paint \in BOOLEAN,
         \/ PumpPixels \/ PumpForClient \/ DecodeCORRERectangles \/ DecodePsuedoCursor
         \/ DecodeRRE(n) \/ DecodeCORRE(n) \/ DecodeZRLE(n)
         \/ RRESubRectangles(paint) \/ DecodeZRLEdata(paint)
  PROVE  IInv'
<1> USE DEF Handlers, SessionHandlers, RectangleHandlers, HextileHandlers
<1>0. packet >= expectedLen /\ pumping
  BY RunningHasBlock DEF IInv, PumpPixels, PumpForClient, DecodeCORRERectangles,
       DecodePsuedoCursor, DecodeRRE, DecodeCORRE, DecodeZRLE, RRESubRectangles, DecodeZRLEdata
<1>1. (args.w # 0) \in BOOLEAN
  OBVIOUS
<1>2. CASE PumpPixels
  <2>1. CASE RectangleDone(args.w # 0)
    BY <1>0, <1>1, <2>1, RectangleDoneInv
  <2>2. CASE AbortConnection /\ UNCHANGED update
    <3>1. UpdateOK'
      BY <2>2 DEF IInv, UpdateOK, update
    <3> QED
      BY <2>2, <3>1, AbortInv
  <2> QED
    BY <1>2, <2>1, <2>2 DEF PumpPixels
<1>3. CASE PumpForClient \/ DecodePsuedoCursor \/ RRESubRectangles(paint)
  <2>1. RectangleDone(FALSE) \/ RectangleDone(paint)
    BY <1>3 DEF PumpForClient, DecodePsuedoCursor, RRESubRectangles
  <2> QED
    BY <1>0, <2>1, RectangleDoneInv
<1>4. CASE DecodeRRE(n)
  <2>1. CASE RectangleNeeds("_handleRRESubRectangles", (8 + Bypp) * n, NoArgs, args.w # 0)
    BY <1>0, <1>1, <2>1, RectangleNeedsInv, NoArgsOK, SizesOK
  <2>2. CASE RectangleDone(args.w # 0)
    BY <1>0, <1>1, <2>2, RectangleDoneInv
  <2> QED
    BY <1>4, <2>1, <2>2 DEF DecodeRRE
<1>5. CASE DecodeCORRE(n)
  <2>1. CASE RectangleNeeds("_handleDecodeCORRERectangles", (4 + Bypp) * n, NoArgs, args.w # 0)
    BY <1>0, <1>1, <2>1, RectangleNeedsInv, NoArgsOK, SizesOK
  <2>2. CASE RectangleDone(args.w # 0)
    BY <1>0, <1>1, <2>2, RectangleDoneInv
  <2> QED
    BY <1>5, <2>1, <2>2 DEF DecodeCORRE
<1>6. CASE DecodeCORRERectangles
  BY <1>6, DecoderRaisesInv DEF DecodeCORRERectangles
<1>7. CASE DecodeZRLE(n)
  <2>1. RectangleNeeds("_handleDecodeZRLEdata", n, NoArgs, FALSE)
    BY <1>7 DEF DecodeZRLE
  <2> QED
    BY <1>0, <2>1, RectangleNeedsInv, NoArgsOK
<1>8. CASE DecodeZRLEdata(paint)
  BY <1>0, <1>8, DecoderRaisesInv, RectangleDoneInv DEF DecodeZRLEdata
<1> QED
  BY <1>2, <1>3, <1>4, <1>5, <1>6, <1>7, <1>8

\* Hextile.
LEMMA HextileInv ==
  ASSUME IInv, NEW raw \in BOOLEAN, NEW bg \in BOOLEAN, NEW fg \in BOOLEAN,
         NEW sub \in {"none", "fg", "coloured"}, NEW n \in Nat,
         \/ DecodeHextile(raw, bg, fg, sub) \/ DecodeHextileSubrect(n) \/ DecodeHextileRAW
         \/ DecodeHextileSubrectsColoured \/ DecodeHextileSubrectsFG
  PROVE  IInv'
<1> USE DEF Handlers, SessionHandlers, RectangleHandlers, HextileHandlers
<1>0. packet >= expectedLen /\ pumping /\ args \in Args /\ args.tiles # 0
  BY RunningHasBlock DEF IInv, ParserOK, Running, DecodeHextile, DecodeHextileSubrect,
       DecodeHextileRAW, DecodeHextileSubrectsColoured, DecodeHextileSubrectsFG
<1>1. (args.w # 0) \in BOOLEAN /\ args.w \in Nat
  BY <1>0 DEF Args
<1>2. ASSUME NEW known \in BOOLEAN, FillsNone(known) PROVE IInv'
  BY <1>2, DecoderRaisesInv DEF FillsNone
<1>3. CASE DecodeHextile(raw, bg, fg, sub)
  <2> DEFINE numbytes == (IF bg THEN Bypp ELSE 0) + (IF fg THEN Bypp ELSE 0)
                           + (IF sub # "none" THEN 1 ELSE 0)
             known == [args EXCEPT !.bg = @ \/ bg, !.fg = @ \/ fg, !.sub = sub]
  <2>1. numbytes \in Nat
    BY SizeAssumption
  <2>2. known \in Args /\ known.tiles = args.tiles
    BY <1>0 DEF Args
  <2>3. \/ RectangleNeeds("_handleDecodeHextileRAW", args.w * Bypp, args, FALSE)
        \/ RectangleNeeds("_handleDecodeHextileSubrect", numbytes, known, FALSE)
        \/ FillsNone(args.bg) \/ NextHextileTile(args, args.w # 0)
    BY <1>3 DEF DecodeHextile
  <2> HIDE DEF numbytes, known
  <2>4. CASE RectangleNeeds("_handleDecodeHextileRAW", args.w * Bypp, args, FALSE)
    BY <1>0, <1>1, <2>4, SizesOK, RectangleNeedsInv
  <2>5. CASE RectangleNeeds("_handleDecodeHextileSubrect", numbytes, known, FALSE)
    BY <1>0, <2>1, <2>2, <2>5, RectangleNeedsInv
  <2>6. CASE FillsNone(args.bg)
    BY <2>6, DecoderRaisesInv DEF FillsNone
  <2>7. CASE NextHextileTile(args, args.w # 0)
    BY <1>0, <1>1, <2>7, NextTileInv
  <2> QED
    BY <2>3, <2>4, <2>5, <2>6, <2>7
<1>4. CASE DecodeHextileSubrect(n)
  <2>1. CASE FillsNone(args.bg)
    BY <2>1, DecoderRaisesInv DEF FillsNone
  <2>2. CASE NextHextileTile(args, args.w # 0)
    BY <1>0, <1>1, <2>2, NextTileInv
  <2>3. CASE RectangleNeeds("_handleDecodeHextileSubrectsColoured", (Bypp + 2) * n,
                            args, args.w # 0)
    BY <1>0, <1>1, <2>3, SizesOK, RectangleNeedsInv
  <2>4. CASE RectangleNeeds("_handleDecodeHextileSubrectsFG", 2 * n, args, args.w # 0)
    BY <1>0, <1>1, <2>4, SizesOK, RectangleNeedsInv
  <2> QED
    BY <1>4, <2>1, <2>2, <2>3, <2>4 DEF DecodeHextileSubrect
<1>5. CASE DecodeHextileRAW
  BY <1>0, <1>1, <1>5, NextTileInv DEF DecodeHextileRAW
<1>6. CASE DecodeHextileSubrectsColoured
  <2> DEFINE a == [args EXCEPT !.fg = TRUE]
  <2>1. a \in Args /\ a.tiles = args.tiles
    BY <1>0 DEF Args
  <2>2. NextHextileTile(a, TRUE)
    BY <1>6 DEF DecodeHextileSubrectsColoured
  <2> HIDE DEF a
  <2> QED
    BY <1>0, <2>1, <2>2, NextTileInv
<1>7. CASE DecodeHextileSubrectsFG
  <2>1. CASE FillsNone(args.fg)
    BY <2>1, DecoderRaisesInv DEF FillsNone
  <2>2. CASE NextHextileTile(args, TRUE)
    BY <1>0, <2>2, NextTileInv
  <2> QED
    BY <1>7, <2>1, <2>2 DEF DecodeHextileSubrectsFG
<1> QED
  BY <1>3, <1>4, <1>5, <1>6, <1>7

-----------------------------------------------------------------------------
(* The other messages, and the reactor.                                    *)

\* Messages between updates.
LEMMA MessageInv ==
  ASSUME IInv, NEW msg, NEW n \in Nat,
         Connection(msg) \/ ColourMapEntries(n) \/ ServerCutText(n) \/ MessageValue
  PROVE  IInv'
<1> USE DEF Handlers, SessionHandlers, MessageHandlers, HextileHandlers
<1>0. packet >= expectedLen /\ pumping
  BY RunningHasBlock DEF IInv, Connection, ColourMapEntries, ServerCutText, MessageValue
<1>1. ASSUME NEW h \in MessageHandlers, NEW m \in Nat, Message(h, m) PROVE IInv'
  <2>1. UpdateOK' /\ UNCHANGED refresh /\ Steady /\ Expect(h, m, NoArgs)
    BY <1>1 DEF Message, IInv, UpdateOK, update
  <2> QED
    BY <1>0, <2>1, SteadyInv, NoArgsOK
<1>2. CASE GiveUp("protocol") /\ UNCHANGED update
  <2>1. UpdateOK'
    BY <1>2 DEF IInv, UpdateOK, update
  <2> QED
    BY <1>0, <1>2, <2>1, GiveUpInv
<1>3. 6 * n \in Nat
  BY SizesOK
<1> QED
  BY <1>1, <1>2, <1>3 DEF Connection, ColourMapEntries, ServerCutText, MessageValue

\* What the reactor and the application do between handler calls.
LEMMA ReactorInv ==
  ASSUME IInv, (\E n \in Chunks : DataReceived(n)) \/ ConnectionLost \/ RefreshScreen
  PROVE  IInv'
<1>1. ASSUME NEW n \in Chunks, DataReceived(n) PROVE IInv'
  <2>1. n \in Nat
    BY SizeAssumption
  <2>2. ParserOK'
    BY <1>1, <2>1 DEF IInv, ParserOK, DataReceived, HasBlock
  <2>3. SessionOK' /\ UpdateOK' /\ RefreshOK'
    BY <1>1 DEF IInv, DataReceived, SessionOK, UpdateOK, RefreshOK, session, update, refresh
  <2>4. OutcomeOK' /\ RectangleOwed'
    BY <1>1 DEF IInv, DataReceived, OutcomeOK, RectangleOwed, outcome, update
  <2> QED
    BY <2>2, <2>3, <2>4 DEF IInv
<1>2. CASE ConnectionLost
  <2>1. ParserOK'
    BY <1>2 DEF IInv, ParserOK, ConnectionLost, parser
  <2>2. SessionOK' /\ UpdateOK' /\ RefreshOK'
    BY <1>2 DEF IInv, ConnectionLost, SessionOK, UpdateOK, RefreshOK, session, update, refresh
  <2>3. OutcomeOK' /\ RectangleOwed'
    BY <1>2 DEF IInv, ConnectionLost, OutcomeOK, RectangleOwed
  <2> QED
    BY <2>1, <2>2, <2>3 DEF IInv
<1>3. CASE RefreshScreen
  <2>1. ParserOK'
    BY <1>3 DEF IInv, ParserOK, RefreshScreen, parser
  <2>2. SessionOK' /\ UpdateOK' /\ RefreshOK'
    BY <1>3 DEF IInv, RefreshScreen, SessionOK, UpdateOK, RefreshOK, session, update
  <2>3. OutcomeOK' /\ RectangleOwed'
    BY <1>3 DEF IInv, RefreshScreen, OutcomeOK, RectangleOwed, outcome, parser, update
  <2> QED
    BY <2>1, <2>2, <2>3 DEF IInv
<1> QED
  BY <1>1, <1>2, <1>3

\* Every step keeps the invariant.
LEMMA NextInv == IInv /\ [Next]_vars => IInv'
<1> SUFFICES ASSUME IInv, [Next]_vars PROVE IInv'
  OBVIOUS
<1>0. Lengths \subseteq Nat /\ Widths \subseteq Nat /\ 0..MaxTiles \subseteq Nat
  BY SizeAssumption
<1>1. CASE HandshakeStep
  <2>1. CASE BadGreeting \/ ShortGreeting \/ \E v \in ServerVersions : Greeting(v)
    BY <2>1, GreetingInv
  <2>2. ASSUME NEW n \in Lengths,
               NumberSecurityTypes(n) \/ ConnFailed(n) \/ DHAuth(n) \/ AuthFailed(n)
        PROVE  IInv'
    <3>1. {} \in SUBSET OfferedAuths
      OBVIOUS
    <3> QED
      BY <1>0, <2>2, <3>1, SecurityInv, LengthsInv
  <2>3. ASSUME NEW types \in SUBSET OfferedAuths, SecurityTypes(types) PROVE IInv'
    BY <2>3, SecurityInv
  <2>4. ASSUME NEW auth \in OfferedAuths, Auth(auth) PROVE IInv'
    <3>1. {} \in SUBSET OfferedAuths
      OBVIOUS
    <3> QED
      BY <2>4, <3>1, SecurityInv
  <2>5. CASE ConnMessage \/ DHAuthKey \/ AuthFailedMessage
    BY <2>5, LengthsInv
  <2>6. CASE VNCAuth \/ DHAuthCert
    BY <2>6, CredentialsInv
  <2>7. ASSUME NEW result \in AuthResults, VNCAuthResult(result) PROVE IInv'
    BY <2>7, ResultInv
  <2>8. ASSUME NEW w \in Widths, NEW n \in Lengths, ServerInit(w, n) PROVE IInv'
    BY <1>0, <2>8, ServerInitInv
  <2>9. CASE ServerName
    BY <2>9, ServerInitInv
  <2> QED
    BY <1>1, <2>1, <2>2, <2>3, <2>4, <2>5, <2>6, <2>7, <2>8, <2>9 DEF HandshakeStep
<1>2. CASE RectangleStep
  <2>1. ASSUME NEW n \in Lengths, FramebufferUpdate(n) PROVE IInv'
    BY <1>0, <2>1, HeaderInv
  <2>2. CASE LastRect \/ CopyRectangle \/ ZRLERectangle \/ DesktopSizeOrQEMU \/ UnknownEncoding
    BY <2>2, HeaderInv
  <2>3. ASSUME NEW w \in Widths,
               RawRectangle(w) \/ RRERectangle(w) \/ CoRRERectangle(w) \/ CursorRectangle(w)
        PROVE  IInv'
    BY <1>0, <2>3, HeaderInv
  <2>4. ASSUME NEW w \in Widths, NEW tiles \in 0..MaxTiles, HextileRectangle(w, tiles) PROVE IInv'
    BY <1>0, <2>4, HeaderInv
  <2> QED
    BY <1>2, <2>1, <2>2, <2>3, <2>4 DEF RectangleStep
<1>3. CASE BodyStep
  <2>1. CASE PumpPixels \/ PumpForClient \/ DecodeCORRERectangles \/ DecodePsuedoCursor
    BY <2>1, BodyInv
  <2>2. ASSUME NEW n \in Lengths, DecodeRRE(n) \/ DecodeCORRE(n) \/ DecodeZRLE(n) PROVE IInv'
    BY <1>0, <2>2, BodyInv
  <2>3. ASSUME NEW paint \in BOOLEAN, RRESubRectangles(paint) \/ DecodeZRLEdata(paint) PROVE IInv'
    BY <2>3, BodyInv
  <2>4. ASSUME NEW raw \in BOOLEAN, NEW bg \in BOOLEAN, NEW fg \in BOOLEAN,
               NEW sub \in {"none", "fg", "coloured"}, DecodeHextile(raw, bg, fg, sub)
        PROVE  IInv'
    BY <2>4, HextileInv
  <2>5. ASSUME NEW n \in Lengths, DecodeHextileSubrect(n) PROVE IInv'
    BY <1>0, <2>5, HextileInv
  <2>6. CASE DecodeHextileRAW \/ DecodeHextileSubrectsColoured \/ DecodeHextileSubrectsFG
    BY <2>6, HextileInv
  <2> QED
    BY <1>3, <2>1, <2>2, <2>3, <2>4, <2>5, <2>6 DEF BodyStep
<1>4. CASE MessageStep
  <2>1. ASSUME NEW msg \in Messages, Connection(msg) PROVE IInv'
    BY <2>1, MessageInv
  <2>2. ASSUME NEW n \in Lengths, ColourMapEntries(n) \/ ServerCutText(n) PROVE IInv'
    BY <1>0, <2>2, MessageInv
  <2>3. CASE MessageValue
    BY <2>3, MessageInv
  <2> QED
    BY <1>4, <2>1, <2>2, <2>3 DEF MessageStep
<1>5. CASE (\E n \in Chunks : DataReceived(n)) \/ ConnectionLost \/ RefreshScreen
  BY <1>5, ReactorInv
<1>6. CASE UNCHANGED vars
  <2>1. ParserOK' /\ SessionOK'
    BY <1>6 DEF IInv, vars, parser, session, ParserOK, SessionOK
  <2>2. UpdateOK' /\ RefreshOK'
    BY <1>6 DEF IInv, vars, update, refresh, UpdateOK, RefreshOK
  <2>3. OutcomeOK' /\ RectangleOwed'
    BY <1>6 DEF IInv, vars, parser, update, outcome, OutcomeOK, RectangleOwed
  <2> QED
    BY <2>1, <2>2, <2>3 DEF IInv
<1> QED
  BY <1>1, <1>2, <1>3, <1>4, <1>5, <1>6 DEF Next, HandlerStep

-----------------------------------------------------------------------------
(* The theorems.                                                           *)

\* So the invariant always holds.
LEMMA Invariant == Spec => []IInv
BY InitOK, NextInv, PTL DEF Spec

\* Whatever the server sends, the client's state stays what the code takes it
\* for: in particular only versions the client implements are agreed on.
THEOREM TypeCorrect == Spec => []TypeOK
BY Invariant, IInvType, PTL

\* However a server counts, splits or nests the rectangles of its updates, the
\* client waits for a rectangle header only while one is owed.
THEOREM HeadersOwed == Spec => []RectangleOwed
<1>1. IInv => RectangleOwed
  BY DEF IInv
<1> QED
  BY Invariant, <1>1, PTL

\* Only a running dataReceived calls handlers.
LEMMA HandlersRun == HandlerStep => pumping
<1>1. HandshakeStep => pumping
  BY DEF HandshakeStep, Running, BadGreeting, ShortGreeting, Greeting, NumberSecurityTypes,
         ConnFailed, DHAuth, AuthFailed, SecurityTypes, Auth, ConnMessage, VNCAuth, DHAuthKey,
         DHAuthCert, AuthFailedMessage, VNCAuthResult, ServerInit, ServerName
<1>2. RectangleStep => pumping
  BY DEF RectangleStep, Running, Rectangle, FramebufferUpdate, LastRect, CopyRectangle,
         ZRLERectangle, DesktopSizeOrQEMU, UnknownEncoding, RawRectangle, RRERectangle,
         CoRRERectangle, CursorRectangle, HextileRectangle
<1>3. BodyStep => pumping
  BY DEF BodyStep, Running, PumpPixels, PumpForClient, DecodeCORRERectangles,
         DecodePsuedoCursor, DecodeRRE, DecodeCORRE, DecodeZRLE, RRESubRectangles,
         DecodeZRLEdata, DecodeHextile, DecodeHextileSubrect, DecodeHextileRAW,
         DecodeHextileSubrectsColoured, DecodeHextileSubrectsFG
<1>4. MessageStep => pumping
  BY DEF MessageStep, Running, Connection, ColourMapEntries, ServerCutText, MessageValue
<1> QED
  BY <1>1, <1>2, <1>3, <1>4 DEF HandlerStep

\* After abortConnection no handler runs, whatever is still delivered.
THEOREM AbortFinal == Spec => AbortIsFinal
<1>1. IInv /\ [Next]_vars => [aborted => UNCHANGED <<parser, session, update, lastRefresh>>]_vars
  <2> SUFFICES ASSUME IInv, Next, aborted
               PROVE  UNCHANGED <<parser, session, update, lastRefresh>>
    OBVIOUS
  <2>1. ~pumping
    BY DEF IInv, ParserOK
  <2>2. ~HandlerStep /\ ~\E n \in Chunks : DataReceived(n)
    BY <2>1, HandlersRun DEF DataReceived
  <2>3. CASE ConnectionLost
    BY <2>3 DEF ConnectionLost, refresh
  <2>4. CASE RefreshScreen
    BY <2>4 DEF RefreshScreen
  <2> QED
    BY <2>2, <2>3, <2>4 DEF Next
<1> QED
  BY Invariant, <1>1, PTL DEF Spec, AbortIsFinal

-----------------------------------------------------------------------------
(* What the factory hears.                                                 *)

\* The ways in which a handler call can end, for the factory and the transport.
Ending ==
  \/ Raise \/ GiveUp("protocol") \/ GiveUp("auth") \/ AbortConnection
  \/ UNCHANGED <<outcome, transport>>
  \/ BadGreeting \/ VNCAuth \/ ServerName

\* There is no other, but for a security result the code only logs.
LEMMA HandlerEnds ==
  ASSUME HandlerStep
  PROVE  \/ Ending
         \/ \E result \in AuthResults \ {0, 1, 2} : VNCAuthResult(result) /\ UNCHANGED outcome
<1> USE DEF Ending
<1>1. Handshake \/ Steady => UNCHANGED <<outcome, transport>>
  BY DEF Handshake, Steady
<1>2. CASE HandshakeStep
  <2>1. CASE BadGreeting \/ VNCAuth \/ ServerName \/ ConnMessage \/ AuthFailedMessage
    BY <2>1 DEF ConnMessage, AuthFailedMessage
  <2>2. CASE ShortGreeting \/ DHAuthKey \/ DHAuthCert
    BY <1>1, <2>2 DEF ShortGreeting, DHAuthKey, DHAuthCert
  <2>3. ASSUME NEW v \in ServerVersions, Greeting(v) PROVE Ending
    BY <1>1, <2>3 DEF Greeting
  <2>4. ASSUME NEW n \in Lengths,
               NumberSecurityTypes(n) \/ ConnFailed(n) \/ DHAuth(n) \/ AuthFailed(n)
        PROVE  Ending
    BY <1>1, <2>4 DEF NumberSecurityTypes, ConnFailed, DHAuth, AuthFailed
  <2>5. ASSUME NEW types \in SUBSET OfferedAuths, SecurityTypes(types) PROVE Ending
    BY <1>1, <2>5 DEF SecurityTypes
  <2>6. ASSUME NEW auth \in OfferedAuths, Auth(auth) PROVE Ending
    BY <1>1, <2>6 DEF Auth
  <2>7. ASSUME NEW result \in AuthResults, VNCAuthResult(result)
        PROVE  \/ Ending
               \/ result \notin {0, 1, 2} /\ UNCHANGED outcome
    BY <1>1, <2>7 DEF VNCAuthResult
  <2>8. ASSUME NEW w \in Widths, NEW n \in Lengths, ServerInit(w, n) PROVE Ending
    BY <1>1, <2>8 DEF ServerInit
  <2> QED
    BY <1>2, <2>1, <2>2, <2>3, <2>4, <2>5, <2>6, <2>7, <2>8 DEF HandshakeStep
<1>3. CASE RectangleStep
  BY <1>1, <1>3 DEF RectangleStep, FramebufferUpdate, LastRect, CopyRectangle, ZRLERectangle,
       DesktopSizeOrQEMU, UnknownEncoding, RawRectangle, RRERectangle, CoRRERectangle,
       CursorRectangle, HextileRectangle, Counted
<1>4. CASE BodyStep
  <2>1. ASSUME NEW a, NEW paint, NextHextileTile(a, paint) PROVE Steady
    BY <2>1 DEF NextHextileTile, RectangleDone, RectangleNeeds
  <2> QED
    BY <1>1, <1>4, <2>1 DEF BodyStep, PumpPixels, PumpForClient, DecodeCORRERectangles,
         DecodePsuedoCursor, DecodeRRE, DecodeCORRE, DecodeZRLE, RRESubRectangles,
         DecodeZRLEdata, DecodeHextile, DecodeHextileSubrect, DecodeHextileRAW,
         DecodeHextileSubrectsColoured, DecodeHextileSubrectsFG, RectangleDone,
         RectangleNeeds, FillsNone
<1>5. CASE MessageStep
  BY <1>1, <1>5 DEF MessageStep, Connection, ColourMapEntries, ServerCutText, MessageValue, Message
<1> QED
  BY <1>2, <1>3, <1>4, <1>5 DEF HandlerStep

\* A failure that was reported stays reported, and the transport starts to
\* close only together with a report.
LEMMA EndingReports ==
  ASSUME Ending
  PROVE  /\ reported # "none" => reported' # "none"
         /\ transport' = "closing" => transport = "closing" \/ reported' # "none"
<1>1. Raise => /\ reported # "none" => reported' # "none"
               /\ transport' = "closed"
  BY DEF Raise
<1>2. ASSUME NEW kind \in {"auth", "protocol"}, ClientConnectionFailed(kind)
      PROVE  reported' # "none"
  BY <1>2 DEF ClientConnectionFailed
<1>3. CASE GiveUp("protocol") \/ GiveUp("auth")
  BY <1>1, <1>2, <1>3 DEF GiveUp
<1>4. CASE AbortConnection
  BY <1>2, <1>4 DEF AbortConnection, outcome
<1>5. CASE BadGreeting
  BY <1>1, <1>2, <1>5 DEF BadGreeting
<1>6. CASE VNCAuth
  BY <1>1, <1>2, <1>6 DEF VNCAuth, Handshake, outcome
<1>7. CASE ServerName
  BY <1>1, <1>2, <1>7 DEF ServerName
<1>8. CASE UNCHANGED <<outcome, transport>>
  BY <1>8 DEF outcome
<1> QED
  BY <1>1, <1>3, <1>4, <1>5, <1>6, <1>7, <1>8 DEF Ending

\* The client closes a connection only after telling the factory why, whatever
\* the server sends, but for a security result that _handleVNCAuthResult only logs.
THEOREM ClosingReported == Spec => ClosingIsReported
<1> DEFINE Logged == \E result \in AuthResults \ {0, 1, 2} : VNCAuthResult(result)
<1>1. [Next]_vars =>
        [transport = "open" /\ transport' = "closing" => reported' # "none" \/ Logged]_vars
  <2> SUFFICES ASSUME Next, transport = "open", transport' = "closing"
               PROVE  reported' # "none" \/ Logged
    OBVIOUS
  <2>1. CASE HandlerStep
    BY <2>1, HandlerEnds, EndingReports
  <2>2. ~(\E n \in Chunks : DataReceived(n)) /\ ~ConnectionLost /\ ~RefreshScreen
    BY DEF DataReceived, ConnectionLost, RefreshScreen
  <2> QED
    BY <2>1, <2>2 DEF Next
<1> QED
  BY <1>1, PTL DEF Spec, ClosingIsReported

\* In the library a failed connection has fired factory.deferred.
FailureFires == ~CLI /\ factoryDeferred = "pending" => reported = "none"

\* Every ending keeps it so, and only ServerName hands the client over.
LEMMA EndingFires ==
  ASSUME ~CLI, FailureFires, OutcomeOK, Ending
  PROVE  /\ FailureFires'
         /\ factoryDeferred' = "made" /\ factoryDeferred # "made" => reported' = "none"
<1> USE DEF FailureFires
<1>1. Raise => UNCHANGED outcome
  BY DEF Raise, outcome
<1>2. ASSUME NEW kind, ClientConnectionFailed(kind) PROVE factoryDeferred' = "failed"
  BY <1>2 DEF ClientConnectionFailed
<1>3. CASE GiveUp("protocol") \/ GiveUp("auth")
  BY <1>1, <1>2, <1>3 DEF GiveUp, outcome
<1>4. CASE AbortConnection
  BY <1>2, <1>4 DEF AbortConnection, outcome
<1>5. CASE BadGreeting
  BY <1>1, <1>2, <1>5 DEF BadGreeting, outcome
<1>6. CASE VNCAuth
  BY <1>1, <1>2, <1>6 DEF VNCAuth, Handshake, outcome
<1>7. CASE ServerName
  BY <1>1, <1>2, <1>7 DEF ServerName, outcome
<1>8. CASE UNCHANGED outcome
  BY <1>8 DEF outcome
<1> QED
  BY <1>1, <1>3, <1>4, <1>5, <1>6, <1>7, <1>8 DEF Ending

\* An application of the library is never handed a client of a connection that
\* was reported to have failed, whatever the server sends after the failure.
THEOREM MadeFirst ==
  ASSUME ~CLI PROVE Spec => MadeBeforeFailure
<1>1. Init => FailureFires
  BY DEF Init, FailureFires
<1>2. IInv /\ FailureFires /\ [Next]_vars
        => /\ FailureFires'
           /\ [factoryDeferred' = "made" /\ factoryDeferred # "made" => reported' = "none"]_vars
  <2> SUFFICES ASSUME IInv, FailureFires, [Next]_vars
               PROVE  /\ FailureFires'
                      /\ factoryDeferred' = "made" /\ factoryDeferred # "made"
                           => reported' = "none"
    OBVIOUS
  <2>1. OutcomeOK
    BY DEF IInv
  <2>2. UNCHANGED outcome \/ Ending
    <3>1. CASE HandlerStep
      BY <3>1, HandlerEnds
    <3>2. CASE ~HandlerStep
      BY <3>2 DEF Next, DataReceived, ConnectionLost, RefreshScreen, vars, outcome
    <3> QED
      BY <3>1, <3>2
  <2>3. CASE UNCHANGED outcome
    BY <2>3 DEF outcome, FailureFires
  <2> QED
    BY <2>1, <2>2, <2>3, EndingFires
<1> QED
  BY <1>1, <1>2, Invariant, PTL DEF Spec, MadeBeforeFailure
=============================================================================
