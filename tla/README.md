# A verification project for vncdotool

vncdotool drives VNC servers: `vncdo` runs a list of actions (keys, mouse,
captures, waiting for an image) from the command line, and `vncdotool.api` gives
Python programs a blocking client. Both rest on an RFB protocol machine on
Twisted. `vnclog` is a proxy that records a session, and `vncdo-replay` plays one
back. This directory holds TLA+ models of these programs, TLC configurations that
check them on small instances, and TLAPS proofs for every value of the constants.

    cd tla
    tlc -workers 2 -config RFBClient_api.cfg MCRFBClient    # one of the runs
    tlapm RFBClientProofs.tla                               # one of the proofs

`PROJECT.json` lists the runs, the source lines each definition models, a mutant
for every property, the findings and the hazards.

## Inventory

| Component | State | Operations | Interacts with |
|---|---|---|---|
| `rfb.py` `RFBClient` | `_packet`, the parked handler with its length and arguments, `_aborted`, `_version`, size, `rectangles`, `rectanglePos` | `dataReceived`, one handler per field of the protocol, `expect`, `abortConnection` | called by the reactor; calls the hooks of `client.py` |
| `client.py` `VNCDoToolClient` | `screen`, `deferred`, cursor, pixel format | `refreshScreen`, captures, `expectScreen`, keys and mouse; hooks `vncConnectionMade`, `commitUpdate`, `updateRectangle`, `vncAuthFailed`, `vncProtocolError`, `connectionLost` | fires its own and the factory's Deferred |
| `client.py` `VNCDoToolFactory` | `deferred`, `_disconnect_callbacks` | `clientConnectionMade`, `clientConnectionFailed`, `clientConnectionLost` | API and CLI |
| `api.py` | reactor thread, one queue and one chain of callbacks per proxy | `connect`, a call per method, `disconnect`, `shutdown` | crosses from the application thread to the reactor and back |
| `command.py` `vncdo` | chain of actions, `reactor.exit_status`, timer | `build_command_list`, `build_tool`, `VNCDoCLIFactory` | client, process exit status |
| `decoders/` | `RectBuffer`: reused backing, held whole blit | `blit`, `fill`, `tobytes` | `RFBClient._pumpBlock` |
| `capture.py` | `HandshakeScrubber`: a grammar over two streams; `CaptureWriter` | `feed`, `flush`, `write_archive` | `loggingproxy.py` |
| `loggingproxy.py` `RFBServer` | `buffer`, `_handler` | one handler per field of the handshake, `_handle_protocol` | forwards between a client and a server; writes events to a recorder |
| `loggingproxy.py` proxy and factory | `session_taken`, `capture_failed`, the recorder's file or buffer; per connection `refused`, `took_session`, `saw_bytes`, `capture` | `connectionMade`, `dataReceived`, `connectionLost`, `_abortCapture`, `sessionFinished` | Twisted's port forwarder; archive, exit status |
| `replay.py` | position in a capture, `exhausted`, `awaiting_request` | `connectionMade`, `dataReceived`, `advance`, `_serve_session`, `connection_finished` | capture archives; the grammar of `capture.py` |
| `pixelformat.py`, `keys.py`, `const.py` | none | tables and packing | |

What is hard here. The parser is a chain of continuations: what the next bytes
mean is decided by the last handler, so one wrong length loses the frame for good,
and TCP may cut the stream anywhere. Closing is asynchronous: bytes go on arriving
after a failure. One update of the screen may complete a refresh or only use up its
request, and then both sides wait. In the API two threads share a queue that knows
nothing of calls, and timeouts race late answers. In `vncdo` four sources of failure
race each other and success during the last tenth of a second. `vnclog` reads two
streams that it does not control with one grammar, must not forget or mix sessions
when probes and latecomers connect, and means to leave no byte of a credential on disk
however the session ends; a replay has to bring a live client through a recording of
another client's session. For each component
the properties that make it correct are in the tables below; the hazards, with their
lines, are in `PROJECT.json`.

## Modules

| Module | Models | Notes |
|---|---|---|
| `RFBClient` | `RFBClient` with the overrides of `VNCDoToolClient`, against a server that sends anything | one action per handler |
| `RFBSession` | `RFBClient` composed with an RFC 6143 server and TCP | `EXTENDS RFBClient`; the server is external |
| `ThreadedProxy` | `api.py`: application thread, reactor thread, chain, queue | |
| `CommandLine` | `command.py`: a `vncdo` run from arguments to exit status | |
| `Canvas` | what a rectangle shows: an abstract specification | a picture that starts black |
| `RectBuffer` | `decoders/buffer.py` and the backing `RFBClient` keeps for it | implements `Canvas` (`INSTANCE ... WITH`) |
| `HandshakeGrammar` | the grammar of `HandshakeScrubber._run`, as operators | no variables |
| `HandshakeScrubber` | `capture.py` and what `loggingproxy.py` does for a capture, between an RFC 6143 client and server | `EXTENDS HandshakeGrammar`; the two ends are external |
| `Replay` | `replay.py`: captures played to live clients | `EXTENDS HandshakeGrammar`; the client is external |
| `RFBServer` | `loggingproxy.py`: the parser of a client's bytes and the forwarding around it | the client is external |
| `LoggingProxy` | `loggingproxy.py` and `vnclog`: connections, claim, recorders, archive, exit status | Twisted's port forwarder is external |
| `MC*` | values of constants for TLC | |
| `*Proofs` | theorems and proofs | of `RFBClient`, `RFBSession`, `ThreadedProxy`, `CommandLine`, `RectBuffer`, `LoggingProxy`, `RFBServer`, `HandshakeScrubber` |

### RFBClient

`expectedHandler`, `expectedLen` and `args` are `_expected_handler`,
`_expected_len` and what the models need of `_expected_args`; `packet` is the number
of bytes in `_packet`. The contents of a block are not modelled as bytes: the action
for a handler chooses the fields it would unpack, from all the values in the
constants. `pumping` says that `dataReceived` is on the stack with another handler
call to make; while it is true nothing else in the reactor runs. `Expect` and
`StayParked` are the two ways a handler can end normally; `GiveUp` reports and
closes but leaves the handler parked; `AbortConnection` also stops the parser;
`Raise` is an exception that leaves `dataReceived`, after which Twisted drops the
connection. Two factories are distinguished by `CLI`: the library's Deferred fires
once and a second `errback` raises, `VNCDoCLIFactory` only notes the first failure.

Pixels are abstracted to whether a rectangle painted anything (`painted`). A
rectangle has a width only: heights are dealt with by the same code. Hextile keeps
the number of tiles still to come and which colours are known, because a tile that
relies on a colour nobody sent raises.

### RFBSession

The server sends *fields* (kind, length, value) and follows RFC 6143 for versions
3.3, 3.7 and 3.8, every security type of the client, the messages and the encodings
the client asked for. `wire` counts bytes sent and not delivered; `Deliver` cuts
them anywhere. The server may also resize its desktop, as the client asked to be told;
`grown` remembers that it has become wider than ServerInit said. The client's actions
are those of `RFBClient`, with the values they unpack taken from the next field. They are taken only when the block is exactly that
field, and that it always is is the property `FramingAgreed`.

### ThreadedProxy

A call is a number. `fromThread` holds calls handed to `callFromThread`, `chain`
those added to `factory.deferred`, `running` the one whose Deferred pauses the
chain, `value` the current result of the chain (which is the `protocol` argument of
the next call), `queue` the results on their way back. Methods return the client,
return None, raise, or return a Deferred that an update fires, or one that a timer
fires (`pause`, `mouseDrag`), connected or not. `disconnect()` is a call like the
others, and more calls may follow it: a set of events (`event`) and of callbacks
(`onLost`) says which of several `disconnect()` calls are waiting for what. Whether the proxy has
a timeout and whether the connection may drop is chosen at the start (`timeout`,
`drops`) and never changes, so that one run has all four cases.

### CommandLine

An action on the command line is done at once, waits for the screen, fails, is
unknown, or has bad operands; one that waits may fail when the screen arrives, as a
capture that cannot be written does. All runs in one thread: `reactor` says that it is
held up, by the password prompt (`AskPassword`, until `PromptEnds`) or for good by a
refusal with an empty reason (`EmptyReason`, the loop of `rfb.py:1036`). No timer fires and no event is heard of while it is not `"free"`.
`exitStatus` is `reactor.exit_status`; `process` is
`"stopping"` in the 0.1 seconds after it was set, when everything else goes on.
`cause` is a history variable: what happened first, in the words of the table in
`docs/usage.rst`.

### HandshakeScrubber

The generator `_run` becomes `scrubber.step`, the field its `yield` waits for, with
the locals it keeps; `Advance` is one resumption and `Recording` what that step puts
on record. `Feed` is the whole of `_feed`, its loop included, so `DataFromServer` and
`DataFromClient` are each one `dataReceived`. A byte is a record of the field it
belongs to, its place there and the value the field decodes to: the scrubber looks
only at values and counts, the properties at fields. Client and server take turns,
each once it has heard the other, except where RFC 6143 lets one go on (3.7 without
authentication, and the session). `NoneSession` is the specification of a stripped
capture: it is computed from what the ends sent and agreed on, not from the
scrubber's state, and `RecordsSession` compares the two. `recorded` is `s2c.bin` and
`c2s.bin`. The archive's `session.vdo` is text that the scrubber never sees: it comes
from the parser in `RFBServer`, and what of the authentication can get there is
`CredentialsUnlogged` in that module. Keys of length 0 are left out here
(`ScrubberAssumption`): `_feed` takes a field without bytes in the same call as the
one before it.

### Canvas and RectBuffer

`Canvas` is what a decoder relies on: a new rectangle is black, `Blit` and `Fill`
paint points of it, `Show` hands the picture over. `RectBuffer` has what the code has
instead: a backing of bytes that outlives the rectangle and is as long as the largest
one so far (`backing`, `capacity`), a whole blit held by reference (`held`, `whole`)
and a flag that says whether old pixels were dealt with (`covered`). A pixel is one
value; the offsets and strides are those of the code. `ImplementsCanvas` maps the
buffer to the picture by what `tobytes` would return. One thing `Canvas` does not
promise: what a rectangle shows to which nothing was written. `tobytes` would then
return the pixels of an earlier rectangle, but every decoder writes.

### Replay

An archive is one that `HandshakeScrubber` leaves: `Archives` is the server's half of
a session of any version, security type and outcome, cut off after any field (or
inside one, if verbatim), stripped by `NoneSession` unless it was preserved. That the
scrubber leaves nothing else is what `RecordsSession` says in the run `capture_all`,
so the two runs together cover the way from a live session through the archive to
the replay. `advance` is one action per turn of its loop (`SendField`, `TakeField`,
`AwaitField`, `ServeSession`) with `calling` while it is on the stack. The live
client has a script for its version and reads the fields it expects; whether what it
finds is that field is the property `ClientInStep`. `Fed` is a feed of the scrubber
with what its loop takes on the way: a Diffie-Hellman server with keys of length 0 has
fields without bytes, which `advance` never gets to see. The server builds a protocol
for each connection, and connections at the same time share only the archive and the
reactor; the model follows one of them, and `OtherFinished` is what another can do to
it: be served, end, and stop the reactor.

### RFBServer

Bytes are counted: `wire`, `buffer` and, of the call in progress, `chunk`. `Read` is
the message that starts at the first byte of the buffer, if one does and is of the
sort the handler takes it for. `Raises` is the `except` clause of the proxy: the
chunk is forwarded and what the handler had taken is gone; `raised` remembers it until
the next chunk, as the rest of this one is left in the buffer. Once the parser has lost
its place (`Read = {}`) what it reads is arbitrary. Two handlers of the handshake take
any bytes (`AstrayHandshake`), bytes of a response or of an ARD reply may read like a
key or pointer event, which is then logged (`AstrayEvent`; `leaked` is history), and
for the rest the model has only `Astray`: it comes to an end of its loop somehow, or
does not. `LogFaithful` shows that none of this is reached in a session that can be
followed.

### LoggingProxy

One action per callback of the reactor. `recorder[c]` names the file or buffer a
connection's events go to; `out` and `captureVdo` are what the factory knows of them.
`events` and `written` are history: events the parser found, and those whose write
did not fail. The contents of the capture are `HandshakeScrubber`'s; here it is held,
aborted, written, or its write fails. `Loses` has connections that end by themselves,
that vnclog closes, and that the reactor closes when it stops.

## Runs

| Run | Shows |
|---|---|
| `rfb_api` | A library client without a password, a server that sends any value in any order, all encodings, memory errors: `TypeOK`; a rectangle header is awaited only while one is owed (`RectangleOwed`); the client explains every close but the one on a security result that the protocol does not have (`ClosingIsReported`); nothing is parsed after an abort (`AbortIsFinal`); a failed connection is not handed over (`MadeBeforeFailure`); each `dataReceived` of the library returns (`CallReturns`) |
| `session_rfc6143` | An RFC server that uses the default encodings, or RRE, Hextile, ZRLE, CopyRect and the cursor, two bytes per pixel: `FramingAgreed`, `RequestOutstanding` (no mutual waiting), `RefreshPainted`, `ServerUnderstood` (no abort until the desktop outgrows ServerInit's size), and under fairness `HandshakeCompletes`, `RefreshCompletes` |
| `proxy_calls` | With and without a timeout and drops, methods of every kind, calls after `disconnect()`: `CallsInOrder`, `NoCallLost`; without a timeout `OwnResultUntimed`; `CallRunsMethod` (a call is skipped only behind one that failed or returned None); `CallsReturn` |
| `proxy_stale` (violation) | After a timeout the next call returns the late result |
| `vncdo` | With and without `--timeout`, `--delay` and `--password`, every command line, decoder exceptions, password prompts and empty reasons included: `SuccessMeansCompleted`, `StatusNamesCause`, `TimeoutEndsRun` (unless the reactor is held up for good), `LossEndsRun` |
| `capture_all` | Captures of every version and authentication, both streams cut anywhere, lost at any time: `Synchronised` (the grammar stays in step), `Stripped` (no byte of the exchange in the two byte streams), `RecordsSession` (the session of a server without authentication, or verbatim with `--capture-raw-unsafe`), `DroppedOnlyIfUnfollowable` |
| `replay` | Every archive, clients of every version, a message of any kind before the request, keys of length 0, a second connection after or beside the first: `ClientInStep`, `ServedOnRequest`, `ReplayCompletes` |
| `rectbuffer` | Rectangles of every size up to 2 by 2 in one backing, any calls: `BackingFits`, and the refinement `ImplementsCanvas` |
| `vnclog_sessions` | Three connections in each of the four modes: `OneSession`, `ClaimHeld` (a probe does not use up the run), `RecordingComplete`, `StatusTellsArchive`, `RunEnds` |
| `rfbserver_log` | Clients of vnclog, every version and authentication, two messages of any kind, cut anywhere: `LogFaithful`, `LagBounded`, `ForwardsWhileFollowed` |
| `rfbserver_cut_text` (violation) | A client's clipboard stops vnclog in a loop and nothing is forwarded any more |
| `rfbserver_auth_logged` (violation) | The response of a 3.3 client without `--password-required`, or an ARD reply, is read as messages, and may be logged as events: in `session.vdo` too |

The violation runs are disagreements between the code and the repository's
documents; `findings` quotes both.

Disagreements seen while modelling and not made into a run:

* A call in flight is not told that the connection was lost, so that without a
  timeout it never returns (`client.py:529`, against `CHANGELOG.rst:3`), nor does
  `disconnect()` after a drop, behind a call that failed or returned None, or called
  a second time, as happens to an explicit one inside a `with` block (`api.py:73`).
  `CallsReturn` has the exact conditions, and leaves these out.
* `_handleConnMessage` and `_handleAuthFailedMessage` (`rfb.py:300`, `rfb.py:392`) give
  up without calling `expect`. After a reason of length 0 the loop of `_handleExpected`
  (`rfb.py:1036`) finds that 0 bytes are enough for the handler still parked and calls
  it again. In the library the second failure raises, which ends it; under `vncdo`,
  whose factory ignores a second failure, it has no end, and neither the exit that
  `done()` scheduled nor the timer of `--timeout` gets its turn, against
  `docs/usage.rst:82` and `CHANGELOG.rst:26`. `CallReturns` is about the library, and
  TLC refutes it with `CLI = TRUE` if the `~CLI` is taken out; `TimeoutEndsRun` of
  `CommandLine` makes the exception.
* For a security result other than 0, 1 and 2 the client writes a line to the log and
  closes, and nobody is told (`rfb.py:384`), although `CHANGELOG.rst:27` says "Protocol
  errors abort the session instead of only being logged". It is the exception that
  `ClosingIsReported` names.
* The limit on a rectangle is the size in ServerInit (`rfb.py:519`):
  `updateDesktopSize` changes the screen and not the limit, so a server whose desktop
  grows has its connection aborted at the next full-width rectangle, although
  `client.py:410` means to "track upward screen resizes". It is the exception that
  `ServerUnderstood` names.
* A method that raises or returns None makes all later calls of the proxy fail
  (`api.py:94`), as `CallRunsMethod` says.
* Decoders outside `_pumpBlock` raise what no one catches, and `vncdo` exits with 11
  where `docs/usage.rst:80` has 20; a missing operand exits with 1, not 2
  (`command.py:307` catches only `CommandParseError`). `StatusNamesCause` is about
  causes the table names; these two are the causes `"escaped"` and `"malformed"`.
  `"escaped"` is also a password prompt that ends in EOFError.
* `--timeout` does not end a run that waits in the password prompt (`command.py:96`),
  against `docs/usage.rst:82`; `TimeoutEndsRun` makes the exception.
* An update with only a cursor shape completes a refresh
  (`client.py:427`); in `vncdo` the parser goes on after a `GiveUp`, since only
  `abortConnection` stops it; the format string of `_handleDecodeCORRERectangles`
  (`rfb.py:599`) can never be unpacked.
* With `--file-per-client`, "record each clients activity" (`docs/usage.rst:135`),
  the factory knows only the last file it opened: the first client to leave closes
  the file of the last to come, whose events are then lost (`loggingproxy.py:494`).
  Files of clients that come in the same second have the same name.
* A QEMU message is taken to be one byte long and its subtype unpacked from none
  (`loggingproxy.py:134`), which raises: `_handle_qemuExtendedKeyEvent` is never
  reached. The list of a SetEncodings message is unpacked whether it has arrived or
  not (`loggingproxy.py:117`); RFBServer has no branch for a client that is newer than
  3.8. In each case the parser loses its place and what is logged from
  then on is arbitrary.
* A client's message that was cut delays its successors: what `_handle_protocol` then
  waits for is one byte more than the message, for good (`loggingproxy.py:105`).
  `LagBounded` has the limit, 20 bytes, and events in them are not logged if the
  session ends there.
* A key whose keysym is no code point makes `chr` raise (`loggingproxy.py:407`). The
  call ends there, and what follows the key in its chunk is parsed with the next one
  only: until then the log may be behind by any number of events, which is why
  `LagBounded` asks that the last call did not raise.

### Bounds

* `ServerVersions` has a version for each branch of `_handleInitial`: too old,
  between two supported ones, 3.7, and one newer than the client speaks.
* `Lengths` always has 0 and a positive number, `Widths` two widths, so that
  "empty", "fits" and "too large" all happen; `MaxTiles = 2` has a first and a last
  tile; two rectangles per update have a pseudo rectangle before and after pixels.
* Chunks of 1 and 12 bytes: a field arrives in pieces, whole, or with the next one.
  `MaxPacket = 24` lets several handlers run in one `dataReceived`; `ServerInit`,
  the longest fixed field, needs 24.
* Widths up to 2 and heights up to 2 for `RectBuffer`, with two colours: a rectangle
  may be wider than, as large as, or smaller than the last, and a write may cover it,
  whole rows of it, or neither.
* `MaxCalls = 4`: with timeouts, late results of two calls stand in front of a third
  and `disconnect` may follow, or come before other calls; `MaxWords = 3` has an action before, at and after the one that fails.
* Chunks of 1, 13 and 200 bytes for captures: a field in pieces, a field and the
  first byte of the next, several fields. There is an offer for each branch of
  `_run`: refusal, none, a choice, ARD, a type without a grammar.
* For `Replay`, two connections (a probe and a client, or two clients under
  `--forever`), keys of 0 and 2 bytes, one message before the request, and chunks of one byte or everything;
  there is an archive for each version, type, outcome and length.
* Three connections for `LoggingProxy`: one that is served, one that is refused
  beside it, and a probe before or after. Two events: one before and one after what
  the others do.
* Two messages after the handshake for `RFBServer`, and chunks of 1, 4 and all bytes:
  the second is read with what the first left of `need`; 4 bytes are the header of
  SetEncodings without its list. With up to five encodings the second message may be
  longer than 20 bytes, so that a key that raises before it leaves more than that.
  An authentication message is logged at most once as an event (`AstrayEvent`).
* `AuthResults` of `rfb_api` has the three results of the protocol and one more.
* `MaxStream` bounds how far the server runs ahead of the client.

### Fairness

`RFBClient` assumes only that a running `dataReceived` goes on: it is a Python loop.
`RFBSession` assumes that TCP delivers, that a server continues its handshake, and
that it answers a request in the end, with pixels (strong fairness: other messages
and pseudo rectangles may come in between; RFC 6143 servers answer a
non-incremental request). `ThreadedProxy` assumes that both threads run, that
timeouts elapse, timers fire, that a closing connection closes, and that a server
whose connection is open answers; `CallsReturn` uses the last only where nothing drops.
`CommandLine` assumes that a reactor which is free gets to its timers and to the
actions that are due; nothing of the server, nor of the user at the prompt. Its
actions need a free reactor, so the weak fairness of `TimerFires` says nothing of one
that is held up, and `TimeoutEndsRun` makes that exception in so many words.
`TimeoutEndsRun` and `LossEndsRun` therefore hold for servers that stop.
`RFBServer` assumes that a `dataReceived` call runs on while the parser has its
place. `Replay` assumes that the reactor goes on, that TCP delivers and that a client goes on with the protocol
and asks for the screen, as long as it is connected; it may leave at any time.
`LoggingProxy` assumes that the reactor completes a close it began, that a connection
attempt ends one way or the other, and that a stopped reactor returns; it assumes
nothing of clients, which may stay connected for ever.

Deadlock is not checked: every one of these systems may come to rest (a closed
connection, an exited process, an application that calls nothing more).

## Proofs

All theorems are checked by TLAPS from the assumptions on constants stated in the
modules (types and, for sizes, natural numbers), for any server, any number of calls
or actions, any sizes and chunks.

* `RFBClientProofs`. The inductive invariant `IInv` is the type invariant in five
  parts, `RectangleOwed`, and what makes them inductive: a handler about to be
  called has its block (otherwise `packet` could fall below 0), an aborted parser
  calls none, and a Hextile decoder is parked only while a tile is to come
  (otherwise their number could). One lemma for each way a handler ends shows that
  it keeps `IInv`; one lemma per group of handlers reduces the handler to its
  ending. From it follow `TypeCorrect`, `HeadersOwed` and `AbortFinal`.
  `HandlerEnds` lists all the ways in which a handler call ends for the factory and
  the transport; `ClosingReported` (an action property, with the unknown
  security result as its one exception) and `MadeFirst` (for the library) follow from that list. `MadeFirst` needs
  `FailureFires`: a failure that was reported has fired the factory's Deferred.
* `RFBSessionProofs`, for all versions, security types, encodings and sizes, updates
  of any length, chunks of any size and a server any number of fields ahead. The
  invariant `SInv` says where the two ends are. In the startup they take turns, and
  the few fields that can be under way are listed stage by stage (`Startup`). After it
  the server runs ahead, and the stream is a path (`Path`): a *place* is a handler with
  the length of its block, its arguments and the rectangles to come; `Behind` is the
  place that a field leads to, by RFC 6143 and by the client's code alike; the fields
  under way lead from the client's place (`Here`) to the server's (`ServerAt`), and
  each is what the handler on the way waits for (`Fits`). Their lengths add up to what
  is buffered and on the wire (`Total`). Then a handler takes the first field off a
  path (`BodyMoves`, `HextileMoves` and the like: the code goes where `Behind` says),
  a message of the server prolongs it (`PathSent`), and a delivery, wherever it cuts,
  leaves it alone; when a handler is called its whole block has arrived, so the block
  is the first field (`Framed`). `FramesAgree` is that. Next to it stand
  `RequestOutstanding`, which is inductive only because the path ends where the server
  is (an update that is not under way and not owed was answered), and `Painting`:
  every rectangle that the parser is done with has painted, or will. `SessionInStep`
  is the invariant itself; `RequestsAreOutstanding`, `RefreshesPaint` and
  `ServerIsUnderstood` are its other parts, the last for a client that has the memory
  and a pixel format it can use (without them it aborts, as it should), until the
  desktop outgrows the size in ServerInit. That needs one more invariant, `Sizes`:
  until then every rectangle under way fits the width the client was told (`FitsWidth`).
* `ThreadedProxyProofs`. `TypeCorrect`: calls go one way and results the other.
  `Untimed`: without a timeout the application and the reactor are in lock
  step (`LockStep`), so that queue, chain and hand-over hold at most the call the
  application waits for. `InOrder`: what waits is increasing and later than all that
  ran (`Queued`), with two lemmas on increasing sequences. `NothingLost`: each call
  made is handed over, in the chain, running, in the queue or heard of (`Places`), and
  each step moves it on. `FailuresExplained`: an answer that says a call failed
  without running has, before it in the order of calls, one that failed or returned
  None (`Explained`). It needs that answers stand in the queue in the order of their
  calls and before those of every call still waiting (`AnswersFirst`), since the one
  that explains a failure must have been answered when the application hears of it.
* `CommandLineProofs`. `TypeCorrect`; `StatusCorrect`: the exit
  status is the documented one of what happened first. Its invariant says that
  `exitStatus` is the documented status of `cause` at all times, if there is one.
  `SuccessEarned`: status 0 means that all of the command line is done. Its invariant
  (`Accounted`) relates the length of the chain to the actions still owed, with a pause
  between any two of them under `--delay`: only a chain that has nothing left but
  `loseConnection` and `done` owes none, and only its `done` reports success.
* `RectBufferProofs`. `BufferSafe`: types, `BackingFits`. `BufferImplementsCanvas`:
  every step of the buffer is one of the canvas or leaves it alone. The arithmetic of
  rows and strides is in lemmas on the index of a point in a block; one lemma per
  operation shows that the slice assignments paint the points that `Canvas` paints.
  It needs `BufferSafe`, since a backing that is too short would be grown by the
  assignment instead, and that a held blit counts as covered.
* `LoggingProxyProofs`, for any number of connections. `SessionAlone`, `ClaimIsHeld`,
  `NothingUnrecorded` and `StatusHonest` follow from one invariant: whoever is served
  in a `--one-shot` run holds the claim, alone, and once bytes were seen the claim
  stays (`Alone`); the buffer of a capture belongs to whoever is served, and but for
  `--file-per-client` nothing is ever closed (`Files`); an archive is that of a session
  which is over (`Archived`); and a capture has failed, is being made, or is written
  (`Outcome`). The parts need each other: that an archive has its own session's events
  rests on nobody else being served, and that nobody is on the claim. Connections are
  assumed not to be called `"none"` or `"output"` (`ConnsAssumption`), the names the
  model has for no connection and the factory's output.
* `RFBServerProofs`, for sessions of any length, lists of encodings and chunks of any
  size. `LogIsFaithful` and `LagIsBounded`: if the session can be followed, there is a
  number p of messages such that the parser has taken exactly the first p, is set to
  read message p + 1, waits for at most 21 bytes, and has logged the events among them
  (`At(p)`). `Grammar` shows that each field of the handshake is followed by the one
  its handler expects, `ReadsNext` that the message at the front of the buffer is
  number p + 1 and of the sort the handler takes it for; so every handler moves p by
  one or waits. A parser that is where it should be never takes bytes of the
  authentication for an event (`NothingLeaks`).
* `HandshakeScrubberProofs`, for all versions, offers, key and name lengths, sessions
  of any length and chunks of any size. `ScrubberInStep`, `StreamsHoldNoSecret` and
  `DroppedForCause` follow from one invariant, about what the scrubber would do with
  the bytes that are still on their way: `Reads(q, t, s, c, e, z)` says that `_run`,
  in state s behind c bytes of stream q, finds whole fields of just the kinds it waits
  for and is then in state e behind z bytes. `Follows`: in one direction there is such
  a run over all that was sent, and at its end `_run` waits for the message that is
  due in the handshake (`Due`), or has ended and no secret follows (`Over`, `Loose`).
  Then each message of an end prolongs a run that the other end's turn left complete
  (`Turn`, `Spoke`, one lemma per message), and a chunk takes a prefix off it
  (`ConsumeKeeps`, `LoopKeeps`, `FeedHere`), whatever its size. That `LongestRun`
  turns of the loop suffice is a rank on the steps that every field lowers
  (`AdvanceSound`). The hard case is a session that `_run` gives up on: secrets may
  follow the run, but only in its own direction (`GivesUp`), since the other end
  answers only what the proxy has passed on, and by then the capture is dropped.
  `RecordFaithful` adds what is on record (`Faithful`): of each direction, exactly what
  stands in the session without authentication for the bytes consumed. It needs that
  `_run` knows the version that was replied as soon as that matters (`Exact`), and
  that the version is the same in every byte of the reply and decided once (`Replied`).
  What `FlattenSeq` computes is proved by induction stated on a set of numbers
  (`Induction`, from the well-foundedness of `<`), through the partial results of the
  flattening (`Totals`); then each field leaves on record what stands in its place
  (`RecordingExact`), and so does the loop, whatever the chunk (`ConsumeNotes`,
  `LoopNotes`). The bytes that pass by outside of a field, or in the direction that is
  not watched, stand for themselves (`PlainStands`), by `Follows`.

Only model-checked: the liveness properties, since the prover does not do fairness, and
`ClientInStep` and `ServedOnRequest` of `Replay`. These need the invariant of the
scrubber once more, for a recording in place of two ends, and that what is recorded of
a handshake is again a handshake the grammar reads; the plan has them next.

## Not modelled

Pixel values, image comparison and file formats; key and mouse events, which only
write to the transport; the cryptography of VNC and ARD authentication; option
parsing and script files; the start of the reactor thread and `shutdown()`; the
contents of ZRLE streams (a stream decodes or raises) and the calls a Hextile, RRE or
ZRLE decoder makes for given bytes; tables of keys and encodings. Of a capture,
`meta.json` and the counts of encodings, and archives of earlier versions without
`negotiated_version`, for which a replay does not check the client's version. Of
`vnclog`, the screenshots its client-side decoder saves and the viewer it starts; of
`vncdo-replay`, the client it may start and the timer that warns of a stalled one.
`VMWareClient`, which drops a message by the look of a chunk, is not modelled yet.

## Plan

Done: `RFBClient`, `RFBSession`, `ThreadedProxy`, `CommandLine`, `RectBuffer` with
its refinement of `Canvas`, `HandshakeScrubber` and `Replay` over one grammar,
`RFBServer`, `LoggingProxy`; theorems about eight of them. Next:

1. Proofs: `ClientInStep` and `ServedOnRequest` of `Replay`, over the lemmas on the
   grammar in `HandshakeScrubberProofs`.
2. `VMWareClient` as a variant of `DataReceived`; `shutdown()` of the API.
3. Algorithms over bounded inputs: the tiling of `_doNextHextileSubrect`, the runs
   and palettes of `_handleDecodeZRLEdata`.
