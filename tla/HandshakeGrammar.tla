-------------------------- MODULE HandshakeGrammar --------------------------
(***************************************************************************)
(* vncdotool/capture.py: the grammar of an RFB handshake, which the        *)
(* generator HandshakeScrubber._run reads over both directions at once.    *)
(* vnclog follows a session with it to strip the authentication, and       *)
(* vncdo-replay paces a recording with it.                                 *)
(*                                                                         *)
(* A byte carries the field it belongs to, its place in it and the value   *)
(* the whole field decodes to.                                             *)
(***************************************************************************)
EXTENDS Integers, Sequences, SequencesExt

NONE == 1
VNC_AUTHENTICATION == 2
DIFFIE_HELLMAN == 30
ARD_CREDENTIALS_LEN == 128
Unparsable == 0     \* a client's version reply that holds no numbers

Taps == {"s2c", "c2s"}
Other(t) == IF t = "s2c" THEN "c2s" ELSE "s2c"

Field(kind, value, n) ==
  [i \in 1..n |-> [kind |-> kind, value |-> value, at |-> i]]

-----------------------------------------------------------------------------
(* _run: one step for each yield, named after the field it waits for.      *)

ClientSteps == {"client_head", "sectype", "response", "credentials",
                "client_key", "client_init"}
Steps == ClientSteps \cup
  {"server_head", "num_types", "types", "auth", "challenge", "dh_head", "modulus",
   "server_key", "result", "server_init", "name", "done"}

\* A new scrubber waits for the greeting.  sized: width and height are known.
Scrubber(preserve) ==
  [step |-> "server_head", need |-> 12, preserve |-> preserve, negotiated |-> 0, sectype |-> 0,
   keyLen |-> 0, inAuth |-> FALSE, abort |-> FALSE, sized |-> FALSE]

Await(s, step, nbytes) == [s EXCEPT !.step = step, !.need = nbytes]

Return(s) == Await(s, "done", 0)

\* Mutant of GiveUp: the capture is dropped even if it need not be stripped.
GiveUpAlways(s) == [Return(s) EXCEPT !.abort = TRUE]

\* Both directions pass through from here; a stripped capture is not kept.
GiveUp(s) == [Return(s) EXCEPT !.abort = ~s.preserve]

Watches(s, t) == s.step # "done" /\ (t = "c2s" <=> s.step \in ClientSteps)

\* Mutant of AfterAuth: a result follows every authentication.
AfterAuthAlwaysResult(s) == Await([s EXCEPT !.inAuth = FALSE], "result", 4)

\* Before 3.8, no SecurityResult follows when there was no authentication.
AfterAuth(s) ==
  LET open == [s EXCEPT !.inAuth = FALSE] IN
  IF s.negotiated < 8 /\ s.sectype = NONE THEN Await(open, "client_init", 1)
  ELSE Await(open, "result", 4)

Authenticate(s, type) ==
  LET in == [s EXCEPT !.sectype = type, !.inAuth = TRUE] IN
  CASE type = VNC_AUTHENTICATION -> Await(in, "challenge", 16)
    [] type = DIFFIE_HELLMAN     -> Await(in, "dh_head", 4)
    [] type \in {0, NONE}        -> AfterAuth(in)
    [] OTHER                     -> GiveUp(in)

\* The client's reply, not the server's greeting, decides how to go on.
ClientHead(s, version) ==
  LET known == [s EXCEPT !.negotiated = version] IN
  CASE version = Unparsable -> GiveUp(s)
    [] version >= 7 -> Await(known, "num_types", 1)
    [] OTHER -> Await(known, "auth", 4)

\* _advance: what _run does with the field `value' it was waiting for.
Advance(s, value) ==
  CASE s.step = "server_head" -> Await(s, "client_head", 12)
    [] s.step = "client_head" -> ClientHead(s, value)
    [] s.step = "num_types"   -> IF value = 0 THEN Return(s) ELSE Await(s, "types", value)
    [] s.step = "types"       -> Await(s, "sectype", 1)
    [] s.step = "sectype"     -> Authenticate(s, value)
    [] s.step = "auth"        -> IF value = 0 THEN Return(s) ELSE Authenticate(s, value)
    [] s.step = "challenge"   -> Await(s, "response", 16)
    [] s.step = "dh_head"     -> Await([s EXCEPT !.keyLen = value], "modulus", value)
    [] s.step = "modulus"     -> Await(s, "server_key", s.keyLen)
    [] s.step = "server_key"  -> Await(s, "credentials", ARD_CREDENTIALS_LEN)
    [] s.step = "credentials" -> Await(s, "client_key", s.keyLen)
    [] s.step \in {"response", "client_key"} -> AfterAuth(s)
    [] s.step = "result"      -> IF value = 0 THEN Await(s, "client_init", 1) ELSE Return(s)
    [] s.step = "client_init" -> Await(s, "server_init", 24)
    [] s.step = "server_init" ->
         LET sized == [s EXCEPT !.sized = TRUE] IN
         IF value = 0 THEN Return(sized) ELSE Await(sized, "name", value)
    [] s.step = "name"        -> Return(s)

\* Mutant of Recording: the result is kept whatever the version.
RecordingKeepsResult(s, chunk) ==
  IF s.inAuth THEN <<>>
  ELSE CASE s.step = "num_types" /\ chunk[1].value # 0 -> <<>>
         [] s.step = "types"   -> Field("num_types", 1, 1) \o Field("types", <<NONE>>, 1)
         [] s.step = "sectype" -> Field("sectype", NONE, 1)
         [] s.step = "auth" /\ chunk[1].value # 0 -> Field("auth", NONE, 4)
         [] OTHER -> chunk

\* What the step that consumes `chunk' puts on record, unless authentication
\* is preserved: its _record, or the default.
Recording(s, chunk) ==
  IF s.inAuth THEN <<>>
  ELSE CASE s.step = "num_types" /\ chunk[1].value # 0 -> <<>>
         [] s.step = "types"   -> Field("num_types", 1, 1) \o Field("types", <<NONE>>, 1)
         [] s.step = "sectype" -> Field("sectype", NONE, 1)
         [] s.step = "auth" /\ chunk[1].value # 0 -> Field("auth", NONE, 4)
         [] s.step = "result" /\ s.negotiated < 8 -> <<>>
         [] OTHER -> chunk

-----------------------------------------------------------------------------
(* What a record of a session is measured against.                         *)

Secrets == {"challenge", "response", "dh_head", "modulus", "server_key", "credentials",
            "client_key", "opaque"}

\* What a session without authentication would have had in place of a byte.
InNoneSession(b, agreed) ==
  CASE b.kind \in Secrets -> <<>>
    [] b.kind = "num_types" /\ b.value # 0 -> <<>>
    [] b.kind = "types" -> IF b.at > 1 THEN <<>>
                           ELSE Field("num_types", 1, 1) \o Field("types", <<NONE>>, 1)
    [] b.kind \in {"sectype", "auth"} /\ b.value # 0 -> <<[b EXCEPT !.value = NONE]>>
    [] b.kind = "result" /\ agreed < 8 -> <<>>
    [] OTHER -> <<b>>

NoneSession(bytes, agreed) ==
  FlattenSeq([i \in DOMAIN bytes |-> InNoneSession(bytes[i], agreed)])
=============================================================================
