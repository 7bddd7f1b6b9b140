------------------------------ MODULE RFBServer ------------------------------
(***************************************************************************)
(* vncdotool/loggingproxy.py: vnclog listens to what a client sends, logs  *)
(* its key and pointer events, and forwards every chunk to the server.     *)
(*                                                                         *)
(* The parser is an observer: what it raises is caught, and the chunk goes *)
(* on to the server once it is done.  Where it stands in the stream is     *)
(* modelled to the byte.  Once it takes a byte for the start of a message  *)
(* that it is not, what it reads is arbitrary: the model has what the      *)
(* handlers of the handshake do with any byte, that a response may read    *)
(* like an event, and otherwise no more than that the parser raises,       *)
(* returns or loops.                                                       *)
(***************************************************************************)
EXTENDS Integers, Sequences

CONSTANTS
  Kinds,             \* messages the client may send, a subset of AllKinds
  Auths,             \* authentication: "none", "vnc" or "ard"
  Versions,          \* protocol versions the client replies with
  PasswordOptions,   \* --password-required given or not, a subset of BOOLEAN
  MaxMessages,       \* bound: messages of the session
  MaxEncodings,      \* bound: encodings in a SetEncodings message
  ArdReply,          \* length of the client's part of the ARD exchange
  Chunks             \* sizes of the chunks TCP delivers, besides everything at once

\* highKey is a key event whose keysym is beyond the last code point.
AllKinds == {"setPixelFormat", "setEncodings", "update", "key", "highKey", "pointer",
             "qemu", "cutText", "unknown"}
\* The message types RFBServer distinguishes.
Types == AllKinds \ {"highKey"}

ASSUME ProxyAssumption ==
  /\ Kinds \subseteq AllKinds /\ Auths \subseteq {"none", "vnc", "ard"}
  /\ PasswordOptions \subseteq BOOLEAN /\ Versions \subseteq Nat
  /\ MaxMessages \in Nat /\ MaxEncodings \in Nat /\ ArdReply \in Nat
  /\ Chunks \subseteq Nat \ {0}

VARIABLES
  version, auth,        \* what client and server agree on
  passwordRequired,     \* factory.password_required
  todo,       \* messages of the handshake the client has still to send
  sent,       \* messages the client sent: kind, first byte, length
  wire,       \* bytes sent and not yet delivered
  buffer,     \* bytes in self.buffer
  handler,    \* self._handler: the method
  need,       \* and how many bytes it wants
  chunk,      \* bytes of the dataReceived call in progress, still to be forwarded;
              \* 0 if there is none
  raised,     \* the latest dataReceived call ended with an exception
  logged,     \* messages whose event went to the recorder
  errors,     \* what the parser raised
  leaked      \* messages of the authentication that were logged as an event

client == <<version, auth, passwordRequired, todo, sent>>
vars == <<client, wire, buffer, handler, need, chunk, raised, logged, errors, leaked>>

-----------------------------------------------------------------------------
(* The client, from RFC 6143.                                              *)

Msg(kind, len) == [kind |-> kind, len |-> len]

Exchange(a) ==
  CASE a = "none" -> <<>> [] a = "vnc" -> <<Msg("response", 16)>> [] a = "ard" -> <<Msg("reply", ArdReply)>>

Handshake ==
  <<Msg("version", 12)>> \o (IF version \in {3003, 3005} THEN <<>> ELSE <<Msg("security", 1)>>)
    \o Exchange(auth) \o <<Msg("clientInit", 1)>>

Lengths(kind) ==
  CASE kind = "setPixelFormat" -> {20} [] kind = "update" -> {10} [] kind = "pointer" -> {6}
    [] kind \in {"key", "highKey"} -> {8} [] kind = "qemu" -> {12}
    [] kind = "setEncodings" -> {4 + 4 * n : n \in 0..MaxEncodings}
    [] kind \in {"cutText", "unknown"} -> {8}

Total == IF sent = <<>> THEN 0 ELSE sent[Len(sent)].at + sent[Len(sent)].len

Send(m) ==
  /\ sent' = Append(sent, [kind |-> m.kind, at |-> Total, len |-> m.len])
  /\ wire' = wire + m.len
  /\ UNCHANGED <<version, auth, passwordRequired, buffer, handler, need, chunk, raised,
                 logged, errors, leaked>>

\* Each message of the handshake answers one that the server sent meanwhile.
ClientHandshakes ==
  /\ todo # <<>> /\ wire = 0 /\ chunk = 0
  /\ Send(Head(todo)) /\ todo' = Tail(todo)

\* A dataReceived call sees nothing of what is sent meanwhile.
ClientSends ==
  /\ todo = <<>> /\ Len(sent) < Len(Handshake) + MaxMessages /\ chunk = 0
  /\ \E kind \in Kinds : \E len \in Lengths(kind) : Send(Msg(kind, len))
  /\ UNCHANGED todo

-----------------------------------------------------------------------------
\* connectionMade
Init ==
  /\ version \in Versions /\ auth \in Auths /\ passwordRequired \in PasswordOptions
  /\ todo = Handshake /\ sent = <<>> /\ wire = 0
  /\ buffer = 0 /\ handler = "_handle_version" /\ need = 12
  /\ chunk = 0 /\ raised = FALSE /\ logged = <<>> /\ errors = {} /\ leaked = {}

\* dataReceived, up to its loop.
DataReceived(n) ==
  /\ chunk = 0 /\ n \in 1..wire
  /\ chunk' = n /\ wire' = wire - n /\ buffer' = buffer + n /\ raised' = FALSE
  /\ UNCHANGED <<client, handler, need, logged, errors, leaked>>

\* The loop is over: Proxy.dataReceived writes the chunk to the server.
Forward ==
  /\ chunk > 0 /\ buffer < need /\ chunk' = 0
  /\ UNCHANGED <<client, wire, buffer, handler, need, raised, logged, errors, leaked>>

-----------------------------------------------------------------------------
(* The handlers.                                                           *)

\* The message that starts at the first byte of the buffer, if one does, and is of
\* the sort that the handler takes it for.
Taken == Total - wire - buffer
Read ==
  {i \in 1..Len(sent) :
     /\ sent[i].at = Taken
     /\ CASE handler = "_handle_version" -> sent[i].kind = "version"
          [] handler = "_handle_security" -> sent[i].kind = "security"
          [] handler = "_handle_VNCAuthResponse" -> sent[i].kind = "response"
          [] handler = "_handle_clientInit" -> sent[i].kind = "clientInit"
          [] handler = "_handle_protocol" -> sent[i].kind \in AllKinds}

Loops == chunk > 0 /\ buffer >= need
Calls(method) == Loops /\ Read # {} /\ handler = method

Expect(method, n) == handler' = method /\ need' = n

\* What a handler that returns leaves alone; what one that raises does: the
\* except clause logs a warning, and the chunk is forwarded.
Returns == UNCHANGED <<client, wire, chunk, raised, errors, leaked>>
Raises(error) ==
  /\ errors' = errors \cup {error} /\ raised' = TRUE /\ chunk' = 0
  /\ UNCHANGED <<client, wire, handler, need, logged, leaked>>

HandleVersion ==
  /\ Calls("_handle_version") /\ buffer' = buffer - 12
  /\ \/ /\ version \in {3003, 3005}
        /\ IF passwordRequired THEN Expect("_handle_VNCAuthResponse", 16)
                               ELSE Expect("_handle_clientInit", 1)
     \/ version \in {3007, 3008} /\ Expect("_handle_security", 1)
     \/ version \notin {3003, 3005, 3007, 3008} /\ UNCHANGED <<handler, need>>
  /\ UNCHANGED logged /\ Returns

\* Mutant of HandleSecurity: the response of a 3.7 client is not skipped.
HandleSecurityNoResponse ==
  /\ Calls("_handle_security") /\ buffer' = buffer - 1
  /\ Expect("_handle_clientInit", 1)
  /\ UNCHANGED logged /\ Returns

HandleSecurity ==
  /\ Calls("_handle_security") /\ buffer' = buffer - 1
  /\ IF auth = "vnc" THEN Expect("_handle_VNCAuthResponse", 16)
                     ELSE Expect("_handle_clientInit", 1)
  /\ UNCHANGED logged /\ Returns

HandleVNCAuthResponse ==
  /\ Calls("_handle_VNCAuthResponse") /\ buffer' = buffer - 16
  /\ Expect("_handle_clientInit", 1)
  /\ UNCHANGED logged /\ Returns

\* Also starts the decoder of the server's side.
HandleClientInit ==
  /\ Calls("_handle_clientInit") /\ buffer' = buffer - 1
  /\ Expect("_handle_protocol", 1)
  /\ UNCHANGED logged /\ Returns

\* TYPE_LEN, 0 for the types it does not have.
TypeLen(type) ==
  CASE type = "setPixelFormat" -> 20 [] type = "setEncodings" -> 4 [] type = "update" -> 10
    [] type = "key" -> 8 [] type = "pointer" -> 6 [] type = "qemu" -> 1
    [] OTHER -> 0

\* _handle_protocol reads a message of this type.
Protocol(type) ==
  /\ Calls("_handle_protocol")
  /\ \A i \in Read : type = IF sent[i].kind = "highKey" THEN "key" ELSE sent[i].kind

\* Mutant of Incomplete: a whole message is waited for besides what is there.
IncompleteCountsTwice(type) ==
  /\ Protocol(type) /\ buffer < TypeLen(type)
  /\ Expect("_handle_protocol", buffer + TypeLen(type))
  /\ UNCHANGED <<buffer, logged>> /\ Returns

\* The message is not all there.  What is waited for is one byte too many, and
\* stays the measure for the messages that follow.
Incomplete(type) ==
  /\ Protocol(type) /\ buffer < TypeLen(type)
  /\ Expect("_handle_protocol", TypeLen(type) + 1)
  /\ UNCHANGED <<buffer, logged>> /\ Returns

Complete(type) ==
  Protocol(type) /\ buffer >= TypeLen(type) /\ buffer' = buffer - TypeLen(type)

\* Mutant of PlainMessage: a message nobody handles is not taken from the buffer.
PlainMessageKept(type) ==
  /\ type \in {"setPixelFormat", "update"} /\ Protocol(type) /\ buffer >= TypeLen(type)
  /\ UNCHANGED <<buffer, handler, need, logged>> /\ Returns

\* SetPixelFormat and FramebufferUpdateRequest do nothing.
PlainMessage(type) ==
  /\ type \in {"setPixelFormat", "update"} /\ Complete(type)
  /\ UNCHANGED <<handler, need, logged>> /\ Returns

\* The list is unpacked whether it has arrived or not.
SetEncodings ==
  /\ Protocol("setEncodings") /\ buffer >= 4
  /\ \E i \in Read :
       \/ /\ buffer >= sent[i].len /\ buffer' = buffer - sent[i].len
          /\ UNCHANGED <<handler, need, logged>> /\ Returns
       \/ /\ buffer < sent[i].len /\ buffer' = buffer - 4 /\ Raises("setEncodings")

\* The recorder gets the event; chr() refuses a keysym that is no code point.
Event(type) ==
  /\ type \in {"key", "pointer"} /\ Complete(type)
  /\ \E i \in Read :
       \/ /\ sent[i].kind # "highKey" /\ logged' = Append(logged, i)
          /\ UNCHANGED <<handler, need>> /\ Returns
       \/ sent[i].kind = "highKey" /\ Raises("highKey")

\* A QEMU message is taken to be one byte long, and its subtype read from none.
Qemu == Complete("qemu") /\ Raises("qemu")

\* Nothing is taken from the buffer.
UnknownType == Complete("unknown") /\ Raises("unknown")

\* Nothing is taken from the buffer, and nothing raised: the loop calls again.
ClientCutText ==
  Complete("cutText") /\ UNCHANGED <<handler, need, logged>> /\ Returns

\* The parser has lost its place: what it calls a handler on is no such message.
Lost == Loops /\ Read = {}

\* Two handlers of the handshake take any bytes for what they expect: the
\* response of a 3.3 client without --password-required, and ARD's reply, are
\* taken for ClientInit.
AstrayHandshake ==
  /\ Lost /\ handler \in {"_handle_VNCAuthResponse", "_handle_clientInit"}
  /\ buffer' = buffer - need
  /\ IF handler = "_handle_clientInit" THEN Expect("_handle_protocol", 1)
                                      ELSE Expect("_handle_clientInit", 1)
  /\ UNCHANGED logged /\ Returns

\* A response and a reply have arbitrary bytes, those of an event too: it goes
\* to the recorder.  Bound: once for each message.
AstrayEvent ==
  /\ Lost /\ handler = "_handle_protocol"
  /\ \E type \in {"key", "pointer"}, i \in 1..Len(sent) :
       /\ sent[i].kind \in {"response", "reply"} /\ i \notin leaked
       /\ sent[i].at <= Taken /\ Taken < sent[i].at + sent[i].len
       /\ buffer >= TypeLen(type) /\ buffer' = buffer - TypeLen(type)
       /\ leaked' = leaked \cup {i}
  /\ UNCHANGED <<client, wire, chunk, raised, errors, handler, need, logged>>

\* Whatever else it does; it may also loop for ever.
Astray ==
  /\ Lost /\ handler \notin {"_handle_VNCAuthResponse", "_handle_clientInit"} /\ chunk' = 0
  /\ UNCHANGED <<client, wire, buffer, handler, need, raised, logged, errors, leaked>>

-----------------------------------------------------------------------------
Handler ==
  \/ HandleVersion \/ HandleSecurity \/ HandleVNCAuthResponse \/ HandleClientInit
  \/ \E type \in Types : Incomplete(type) \/ PlainMessage(type) \/ Event(type)
  \/ SetEncodings \/ Qemu \/ UnknownType \/ ClientCutText

Next ==
  \/ ClientHandshakes \/ ClientSends
  \/ \E n \in Chunks \cup {wire} : DataReceived(n)
  \/ Forward \/ Handler \/ AstrayHandshake \/ AstrayEvent \/ Astray

\* A dataReceived call runs on: it is a Python loop.  Nothing is promised of a parser
\* that has lost its place.
Spec == Init /\ [][Next]_vars /\ WF_vars(Forward \/ Handler)

-----------------------------------------------------------------------------
\* The sessions the parser has a grammar for: 3.3 with --password-required as the
\* server has it, 3.7 and 3.8; no authentication or VNC's; the messages of
\* TYPE_LEN except QEMU's.
Followable ==
  /\ version \in {3003, 3005, 3007, 3008} /\ auth \in {"none", "vnc"}
  /\ version \in {3003, 3005} => (passwordRequired <=> auth = "vnc")
  /\ \A i \in 1..Len(sent) : sent[i].kind \notin {"qemu", "cutText", "unknown"}

\* No list of encodings was cut off from its header by the network.
Followed == Followable /\ "setEncodings" \notin errors

\* However the network cuts the client's bytes, the parser of a session it can
\* follow stays in step with the messages, and the log has the events of those it
\* has taken, each once and in the order the client sent them, and nothing of
\* the authentication.
LogFaithful ==
  Followed =>
    /\ buffer > 0 => Read # {}
    /\ leaked = {}
    /\ \A i, j \in 1..Len(logged) : i < j => logged[i] < logged[j]
    /\ {logged[i] : i \in 1..Len(logged)} =
         {i \in 1..Len(sent) : /\ sent[i].kind \in {"key", "pointer"}
                              /\ sent[i].at + sent[i].len <= Taken}

\* Between two chunks the log is never more than 20 bytes behind what the client
\* sent: a session that ends loses no more events than fit into them.  The exception
\* is a chunk with a key that cannot be written: what is behind the key in it waits
\* for the next chunk, and there is no limit to that.
LagBounded == Followed /\ chunk = 0 /\ ~raised => buffer <= 20

\* Nothing of the authentication is logged.  session.vdo in the archive of
\* --capture-raw is this log.
CredentialsUnlogged == leaked = {}

\* Every chunk of the client reaches the server, whatever the parser makes of it.
ForwardingContinues == chunk > 0 ~> chunk = 0

\* It does, as long as the parser can follow the session.
ForwardsWhileFollowed == chunk > 0 ~> chunk = 0 \/ ~Followed
=============================================================================
