-------------------------- MODULE HandshakeScrubber --------------------------
(***************************************************************************)
(* vncdotool/capture.py: what vnclog --capture-raw records of a session    *)
(* that its proxy forwards.                                                *)
(*                                                                         *)
(* HandshakeScrubber reads a grammar over two byte streams at once and     *)
(* replaces the authentication by the handshake of a server that asks for  *)
(* none.  The two ends of the session are external: they follow RFC 6143,  *)
(* each speaking when it has heard what the other said, and TCP cuts both  *)
(* streams anywhere.                                                       *)
(*                                                                         *)
(* The archive's third member, session.vdo, does not pass the scrubber: it *)
(* is the log of the parser in RFBServer, which is fed the same bytes.     *)
(***************************************************************************)
EXTENDS HandshakeGrammar

CONSTANTS
  Versions,      \* minor versions the ends speak: 3, 7, 8
  Offers,        \* lists of security types a server offers; <<>> refuses
  Decisions,     \* security types a server before 3.7 decides on; 0 refuses
  KeyLens,       \* key lengths of Diffie-Hellman servers
  NameLens,      \* lengths of a desktop's name
  MaxSession,    \* bound: bytes each end sends after the handshake
  Chunks         \* sizes in which TCP delivers

ASSUME ScrubberAssumption ==
  /\ Versions \subseteq 3..8 /\ Offers \subseteq Seq(1..255)
  /\ Decisions \subseteq 0..255 /\ KeyLens \subseteq Nat \ {0}
  /\ NameLens \subseteq Nat /\ MaxSession \in Nat /\ Chunks \subseteq Nat \ {0}

VARIABLES
  scrubber,    \* where _run is suspended and what it has learnt
  pending,     \* Tap.pending of each direction
  recorded,    \* CaptureWriter.s2c and c2s
  capture,     \* what became of the CaptureWriter
  sent,        \* bytes each end has sent
  fed,         \* how many of them the proxy has received
  stage,       \* which message of the handshake is due
  agreed,      \* version the client replied
  chosen       \* security type of the session

captureVars == <<scrubber, pending, recorded, capture>>
endVars     == <<sent, stage, agreed, chosen>>
vars == <<captureVars, endVars, fed>>

-----------------------------------------------------------------------------
(* _feed and _flush.                                                       *)

\* The body of _feed's loop, which leaves alone what the loop would stop at.
Consume(t, f) ==
  IF ~Watches(f.s, t) \/ Len(f.buf) < f.s.need THEN f
  ELSE LET chunk == SubSeq(f.buf, 1, f.s.need) IN
       [s |-> Advance(f.s, chunk[1].value),
        buf |-> SubSeq(f.buf, f.s.need + 1, Len(f.buf)),
        out |-> f.out \o (IF f.s.preserve THEN chunk ELSE Recording(f.s, chunk))]

LongestRun == 14    \* fields on the longest path through _run

Loop(t, f) ==
  LET after[k \in 0..LongestRun] == IF k = 0 THEN f ELSE Consume(t, after[k - 1])
  IN  after[LongestRun]

\* Bytes of a direction that is not watched are no secret and go on record.
Feed(t, data) ==
  LET f == Loop(t, [s |-> scrubber, buf |-> pending[t] \o data, out |-> <<>>])
  IN  IF Watches(f.s, t) THEN f
      ELSE [f EXCEPT !.buf = <<>>, !.out = f.out \o f.buf]

\* Mutant of Flush: what is buffered is part of the session.
FlushAll(t) == pending[t]

\* Nothing that was held back is known to be harmless before _run has ended.
Flush(t) == IF scrubber.step # "done" /\ ~scrubber.preserve THEN <<>> ELSE pending[t]

-----------------------------------------------------------------------------
(* The proxy.                                                              *)

SawBytes == \E t \in Taps : fed[t] > 0

FeedCapture(t, data) ==
  LET f == Feed(t, data) IN
  /\ scrubber' = f.s
  /\ pending' = [pending EXCEPT ![t] = f.buf]
  /\ recorded' = [recorded EXCEPT ![t] = @ \o f.out]

AbortCapture == capture' = "dropped" /\ stage' = "closed"

\* Captured first, then forwarded unless the capture was aborted.  The parsers
\* that write the log only observe, and their failures are caught.
DataReceived(t) == \E chunk \in Chunks :
  LET unheard == Len(sent[t]) - fed[t]
      n == IF chunk < unheard THEN chunk ELSE unheard
  IN  /\ capture = "held" /\ n > 0
      /\ fed' = [fed EXCEPT ![t] = @ + n]
      /\ FeedCapture(t, SubSeq(sent[t], fed[t] + 1, fed[t] + n))
      /\ IF scrubber'.abort THEN AbortCapture ELSE UNCHANGED <<capture, stage>>
      /\ UNCHANGED <<sent, agreed, chosen>>

DataFromServer == DataReceived("s2c")
DataFromClient == DataReceived("c2s")

\* Flushes, then writes a temporary file and renames it, which may fail: s2c.bin and
\* c2s.bin, from what was recorded, and session.vdo, which is RFBServer's.
WriteArchive ==
  /\ recorded' = [t \in Taps |-> recorded[t] \o Flush(t)]
  /\ pending' = [t \in Taps |-> <<>>]
  /\ capture' \in {"written", "failed"}

\* A session that carried bytes is archived, unless its capture was aborted; a
\* connection without any was no session.
ConnectionLost ==
  /\ stage # "lost" /\ stage' = "lost"
  /\ IF capture = "held" /\ SawBytes THEN WriteArchive
     ELSE /\ capture' = IF capture = "held" THEN "none" ELSE capture
          /\ UNCHANGED <<recorded, pending>>
  /\ UNCHANGED <<scrubber, sent, fed, agreed, chosen>>

-----------------------------------------------------------------------------
(* The two ends, external.                                                 *)

\* The proxy has accepted a client and nothing was said.
Init ==
  /\ \E preserve \in BOOLEAN : scrubber = Scrubber(preserve)
  /\ pending = [t \in Taps |-> <<>>] /\ recorded = [t \in Taps |-> <<>>]
  /\ capture = "held"
  /\ sent = [t \in Taps |-> <<>>] /\ fed = [t \in Taps |-> 0]
  /\ stage = "greeting" /\ agreed = Unparsable /\ chosen = 0

Says(t, now, bytes, next) ==
  /\ stage = now /\ fed[Other(t)] = Len(sent[Other(t)])
  /\ sent' = [sent EXCEPT ![t] = @ \o bytes]
  /\ stage' = next
  /\ UNCHANGED <<captureVars, fed>>

Reason == Field("reason", 0, 6)

ServerGreets == \E v \in Versions :
  /\ Says("s2c", "greeting", Field("server_head", v, 12), "reply")
  /\ UNCHANGED <<agreed, chosen>>

\* A client downgrades as it likes, or replies something else.
ClientReplies == \E v \in Versions \cup {Unparsable} :
  /\ stage = "reply" /\ v <= sent["s2c"][1].value
  /\ Says("c2s", "reply", Field("client_head", v, 12), "offer")
  /\ agreed' = v /\ UNCHANGED chosen

ServerOffers == \E offer \in Offers :
  /\ agreed >= 7
  /\ IF offer = <<>>
     THEN Says("s2c", "offer", Field("num_types", 0, 1) \o Reason, "over")
     ELSE Says("s2c", "offer", Field("num_types", Len(offer), 1)
                               \o Field("types", offer, Len(offer)), "choice")
  /\ UNCHANGED <<agreed, chosen>>

AfterChoice(type) ==
  CASE type # NONE -> "exchange"
    [] type = NONE /\ agreed < 8 -> "init"
    [] OTHER -> "judgement"

\* A server takes a reply it cannot read for the oldest version.
ServerDecides == \E type \in Decisions :
  /\ agreed < 7
  /\ IF type = 0
     THEN Says("s2c", "offer", Field("auth", 0, 4) \o Reason, "over")
     ELSE Says("s2c", "offer", Field("auth", type, 4), AfterChoice(type))
  /\ chosen' = type /\ UNCHANGED agreed

ClientChooses ==
  /\ stage = "choice"
  /\ \E type \in ToSet(Last(sent["s2c"]).value) :
       /\ Says("c2s", "choice", Field("sectype", type, 1), AfterChoice(type))
       /\ chosen' = type /\ UNCHANGED agreed

ServerChallenges == \E k \in KeyLens :
  /\ Says("s2c", "exchange",
          CASE chosen = VNC_AUTHENTICATION -> Field("challenge", 0, 16)
            [] chosen = DIFFIE_HELLMAN ->
                 Field("dh_head", k, 4) \o Field("modulus", k, k) \o Field("server_key", k, k)
            [] OTHER -> Field("opaque", 0, 2),
          "answer")
  /\ UNCHANGED <<agreed, chosen>>

ClientAnswers ==
  /\ stage = "answer"
  /\ Says("c2s", "answer",
          CASE chosen = VNC_AUTHENTICATION -> Field("response", 0, 16)
            [] chosen = DIFFIE_HELLMAN ->
                 LET k == Last(sent["s2c"]).value IN
                 Field("credentials", 0, ARD_CREDENTIALS_LEN) \o Field("client_key", k, k)
            [] OTHER -> Field("opaque", 0, 2),
          "judgement")
  /\ UNCHANGED <<agreed, chosen>>

ServerJudges == \E result \in {0, 1} :
  /\ Says("s2c", "judgement",
          Field("result", result, 4) \o (IF result = 1 /\ agreed >= 8 THEN Reason ELSE <<>>),
          IF result = 0 THEN "init" ELSE "over")
  /\ UNCHANGED <<agreed, chosen>>

ClientStarts ==
  /\ Says("c2s", "init", Field("client_init", 0, 1), "description")
  /\ UNCHANGED <<agreed, chosen>>

ServerStarts == \E n \in NameLens :
  /\ Says("s2c", "description", Field("server_init", n, 24) \o Field("name", n, n), "session")
  /\ UNCHANGED <<agreed, chosen>>

\* Once the server has described its desktop neither end waits for the other.
SessionByte(t) ==
  /\ stage = "session"
  /\ Len(SelectSeq(sent[t], LAMBDA b : b.kind = "session")) < MaxSession
  /\ sent' = [sent EXCEPT ![t] = @ \o Field("session", 0, 1)]
  /\ UNCHANGED <<captureVars, fed, stage, agreed, chosen>>

Next ==
  \/ ServerGreets \/ ClientReplies \/ ServerOffers \/ ServerDecides \/ ClientChooses
  \/ ServerChallenges \/ ClientAnswers \/ ServerJudges \/ ClientStarts \/ ServerStarts
  \/ \E t \in Taps : SessionByte(t)
  \/ DataFromServer \/ DataFromClient
  \/ ConnectionLost

Spec == Init /\ [][Next]_vars

-----------------------------------------------------------------------------
(* Properties.                                                             *)

Received(t) == SubSeq(sent[t], 1, fed[t])
Consumed(t) == SubSeq(sent[t], 1, fed[t] - Len(pending[t]))

Kept == capture \in {"held", "written"}

\* Whatever the two ends negotiate and however their bytes are cut, the field
\* _run waits for is the one that comes next in the direction it watches, and
\* no byte is held back in the other.
Synchronised ==
  stage \notin {"closed", "lost"} => \A t \in Taps :
    IF Watches(scrubber, t)
    THEN LET next == Len(Consumed(t)) + 1 IN
         /\ Len(pending[t]) < scrubber.need
         /\ next <= Len(sent[t]) => /\ sent[t][next].kind = scrubber.step
                                    /\ sent[t][next].at = 1
    ELSE pending[t] = <<>>

\* The byte streams of a capture that exists or may yet be written, s2c.bin and
\* c2s.bin, have without --capture-raw-unsafe no byte of the authentication
\* exchange, not even of one that was cut off.  Of the log beside them
\* RFBServer's CredentialsUnlogged speaks.
Stripped ==
  Kept /\ ~scrubber.preserve =>
    \A t \in Taps : \A i \in DOMAIN recorded[t] : recorded[t][i].kind \notin Secrets

\* A stripped capture is, direction by direction, the session that a server
\* without authentication would have had, complete up to what is held back; with
\* --capture-raw-unsafe it is the session itself and nothing is lost or changed.
RecordsSession ==
  Kept => \A t \in Taps :
    CASE scrubber.preserve -> recorded[t] \o pending[t] = Received(t)
      [] ~scrubber.preserve /\ (capture = "held" \/ scrubber.step = "done")
           -> recorded[t] = NoneSession(Consumed(t), agreed)
      [] OTHER -> IsPrefix(recorded[t], NoneSession(Received(t), agreed))

\* Only a reply without a version or a security type without a grammar costs
\* the capture.
DroppedOnlyIfUnfollowable ==
  capture = "dropped" =>
    ~scrubber.preserve /\ (agreed = Unparsable
                  \/ chosen \notin {0, NONE, VNC_AUTHENTICATION, DIFFIE_HELLMAN})
=============================================================================
