----------------------- MODULE HandshakeScrubberProofs -----------------------
(***************************************************************************)
(* What holds of every captured session, whatever its two ends negotiate   *)
(* and wherever TCP cuts it: the scrubber stays in step with both streams, *)
(* the byte streams of a stripped capture have no byte of the              *)
(* authentication, and are, byte by byte, the session of a server that     *)
(* asks for none.                                                          *)
(***************************************************************************)
EXTENDS HandshakeScrubber, SequenceTheorems, WellFoundedInduction, TLAPS

Kinds == Steps \cup {"opaque", "reason", "session"}
Values == Nat \cup Seq(Nat)
Bytes == [kind : Kinds, value : Values, at : Nat]
Clean == {b \in Bytes : b.kind \notin Secrets}

\* Byte i of a field.
Byte(kind, value, i) == [kind |-> kind, value |-> value, at |-> i]

\* Bytes of no field that _run reads.
Plain(kind) == kind \in {"reason", "session"}
PlainBytes == {b \in Bytes : Plain(b.kind)}

States ==
  [step : Steps, need : Nat, preserve : BOOLEAN, negotiated : Nat, sectype : Nat,
   keyLen : Nat, inAuth : BOOLEAN, abort : BOOLEAN, sized : BOOLEAN]

Secret(step) == step \in Secrets

\* While _run waits for a secret it knows that it authenticates; it gives up for
\* good, and only if the capture must be stripped.
Sound(s) ==
  /\ Secret(s.step) => s.inAuth = TRUE
  /\ s.abort = TRUE => s.step = "done" /\ s.preserve = FALSE

\* How many fields _run may still read.
Rank(step) ==
  CASE step = "server_head" -> 14 [] step = "client_head" -> 13 [] step = "num_types" -> 12
    [] step \in {"types", "auth"} -> 11 [] step = "sectype" -> 10
    [] step \in {"dh_head", "challenge"} -> 9 [] step = "modulus" -> 8
    [] step = "server_key" -> 7 [] step = "credentials" -> 6
    [] step \in {"client_key", "response"} -> 5 [] step = "result" -> 4
    [] step = "client_init" -> 3 [] step = "server_init" -> 2 [] step = "name" -> 1
    [] step = "done" -> 0

\* A value that the field s waits for may have.
Legal(s, v) == IF s.step = "types" THEN v \in Seq(Nat)
               ELSE v \in Nat /\ (s.step = "sectype" => v # 0)

\* A whole field of the kind that s waits for follows the first c bytes of q.
FieldAt(q, s, c) ==
  /\ s.need > 0 /\ c + s.need <= Len(q)
  /\ \A j \in 1..s.need : q[c + j] = Byte(s.step, q[c + 1].value, j)

\* S and P: the states _run is in, and the places in q it is at, when it reads m
\* fields of direction t.
Run(q, t, m, S, P) ==
  /\ \A i \in 0..m : S[i] \in States /\ Sound(S[i]) /\ P[i] \in Nat /\ P[i] <= Len(q)
  /\ \A i \in 0..(m - 1) :
       /\ Watches(S[i], t) /\ FieldAt(q, S[i], P[i]) /\ Legal(S[i], q[P[i] + 1].value)
       /\ P[i + 1] = P[i] + S[i].need
       /\ S[i + 1] = Advance(S[i], q[P[i] + 1].value)

\* From state s behind c bytes, _run reads q to state e behind z bytes.
Reads(q, t, s, c, e, z) ==
  \E m \in Nat : \E S, P :
    Run(q, t, m, S, P) /\ S[0] = s /\ P[0] = c /\ S[m] = e /\ P[m] = z

-----------------------------------------------------------------------------
(* The invariant.                                                          *)

Typed ==
  /\ sent \in [Taps -> Seq(Bytes)] /\ fed \in [Taps -> Nat]
  /\ pending \in [Taps -> Seq(Bytes)] /\ recorded \in [Taps -> Seq(Bytes)]
  /\ scrubber \in States /\ agreed \in 0..8 /\ chosen \in 0..255

\* What is pending of a direction is the last of what was received.
At(t) == fed[t] - Len(pending[t])
Streams == \A t \in Taps :
  /\ fed[t] <= Len(sent[t]) /\ Len(pending[t]) <= fed[t]
  /\ \A i \in 1..Len(pending[t]) : pending[t][i] = sent[t][At(t) + i]

\* No more is held back than the field that is waited for, in its direction t.
Held(t) ==
  /\ pending[Other(t)] = <<>>
  /\ IF Watches(scrubber, t) THEN Len(pending[t]) < scrubber.need ELSE pending[t] = <<>>

\* Bytes that are part of no field: none while _run waits for one.
Loose(t, e, z) ==
  /\ e.step # "done" => z = Len(sent[t]) /\ fed[Other(t)] = Len(sent[Other(t)])
  /\ e.preserve = FALSE /\ e.abort = FALSE =>
       \A j \in (z + 1)..Len(sent[t]) : Plain(sent[t][j].kind)
  /\ e.preserve = FALSE =>
       \A j \in (fed[Other(t)] + 1)..Len(sent[Other(t)]) : Plain(sent[Other(t)][j].kind)

Awaits(e, step, n) == e.step = step /\ e.need = n

\* Behind all that was sent, _run waits for the message that is due.
Due(e) ==
  \/ stage = "greeting" /\ Awaits(e, "server_head", 12)
  \/ stage = "reply" /\ Awaits(e, "client_head", 12)
  \/ stage = "offer" /\ agreed >= 7 /\ Awaits(e, "num_types", 1) /\ e.negotiated = agreed
  \/ stage = "offer" /\ agreed \in 1..6 /\ Awaits(e, "auth", 4) /\ e.negotiated = agreed
  \/ stage = "choice" /\ Awaits(e, "sectype", 1) /\ e.negotiated = agreed
  \/ /\ stage = "exchange" /\ e.sectype = chosen
     /\ \/ chosen = VNC_AUTHENTICATION /\ Awaits(e, "challenge", 16)
        \/ chosen = DIFFIE_HELLMAN /\ Awaits(e, "dh_head", 4)
  \/ /\ stage = "answer" /\ e.sectype = chosen
     /\ \/ chosen = VNC_AUTHENTICATION /\ Awaits(e, "response", 16)
        \/ /\ chosen = DIFFIE_HELLMAN /\ Awaits(e, "credentials", ARD_CREDENTIALS_LEN)
           /\ e.keyLen = Last(sent["s2c"]).value
  \/ stage = "judgement" /\ Awaits(e, "result", 4)
  \/ stage = "init" /\ Awaits(e, "client_init", 1)
  \/ stage = "description" /\ Awaits(e, "server_init", 24)

Unfollowable ==
  agreed = Unparsable \/ chosen \notin {0, NONE, VNC_AUTHENTICATION, DIFFIE_HELLMAN}

\* _run gives up: no end has heard the other since.
GivesUp(t) ==
  /\ Unfollowable
  /\ \/ stage \in {"offer", "exchange"} /\ t = "c2s"
     \/ stage \in {"exchange", "answer"} /\ t = "s2c"

\* Or it has ended.
Over(t, e) ==
  /\ e.step = "done"
  /\ \/ e.preserve = TRUE
     \/ stage \in {"over", "session"} /\ e.abort = FALSE
     \/ e.abort = TRUE /\ GivesUp(t)

InRun(t, e, z) ==
  /\ Reads(sent[t], t, scrubber, At(t), e, z)
  /\ e.preserve = scrubber.preserve
  /\ Held(t) /\ Loose(t, e, z)

Follows == \E t \in Taps : \E e, z : InRun(t, e, z) /\ (Due(e) \/ Over(t, e))

\* What the answers of an end depend on.
Told ==
  /\ stage = "choice" => sent["s2c"] # <<>> /\ Last(sent["s2c"]).value \in Seq(1..255)
  /\ stage = "answer" /\ chosen = DIFFIE_HELLMAN =>
       sent["s2c"] # <<>> /\ Last(sent["s2c"]).value \in Nat \ {0}
  /\ stage = "exchange" => chosen \notin {0, NONE}

CleanRecord ==
  Kept /\ scrubber.preserve = FALSE => \A t \in Taps : recorded[t] \in Seq(Clean)

IInv ==
  /\ Typed /\ Streams /\ Told /\ CleanRecord
  /\ capture = "held" <=> stage \notin {"closed", "lost"}
  /\ capture = "held" => scrubber.abort = FALSE /\ Follows
  /\ capture = "dropped" => scrubber.preserve = FALSE /\ Unfollowable

-----------------------------------------------------------------------------
(* The grammar.                                                            *)

\* Waiting for the next field changes nothing else.
LEMMA AwaitFields ==
  ASSUME NEW s \in States, NEW step, NEW n
  PROVE  LET a == Await(s, step, n) IN
         /\ step \in Steps /\ n \in Nat => a \in States
         /\ a.step = step /\ a.need = n /\ a.preserve = s.preserve /\ a.negotiated = s.negotiated
         /\ a.sectype = s.sectype /\ a.keyLen = s.keyLen /\ a.inAuth = s.inAuth
         /\ a.abort = s.abort
BY DEF States, Await

\* The end of _run.
LEMMA GiveUpFields ==
  ASSUME NEW s \in States
  PROVE  LET a == GiveUp(s) IN
         /\ a \in States
         /\ a.step = "done" /\ a.preserve = s.preserve /\ a.inAuth = s.inAuth
         /\ (a.abort = TRUE <=> s.preserve = FALSE)
<1>1. Return(s) \in States /\ Return(s).step = "done" /\ Return(s).preserve = s.preserve
      /\ Return(s).inAuth = s.inAuth
  BY AwaitFields DEF Return, Steps
<1> QED
  BY <1>1 DEF GiveUp, States

\* What follows the authentication.
LEMMA AfterAuthFields ==
  ASSUME NEW s \in States
  PROVE  LET a == AfterAuth(s) IN
         /\ a \in States
         /\ a.inAuth = FALSE /\ a.preserve = s.preserve /\ a.abort = s.abort
         /\ IF s.negotiated < 8 /\ s.sectype = NONE THEN a.step = "client_init" /\ a.need = 1
            ELSE a.step = "result" /\ a.need = 4
<1> DEFINE open == [s EXCEPT !.inAuth = FALSE]
<1>1. open \in States /\ open.inAuth = FALSE /\ open.preserve = s.preserve /\ open.abort = s.abort
  BY DEF States
<1>2. "client_init" \in Steps /\ "result" \in Steps
  BY DEF Steps, ClientSteps
<1>3. AfterAuth(s) = IF s.negotiated < 8 /\ s.sectype = NONE THEN Await(open, "client_init", 1)
                     ELSE Await(open, "result", 4)
  BY DEF AfterAuth
<1> HIDE DEF open
<1>4. CASE s.negotiated < 8 /\ s.sectype = NONE
  BY <1>1, <1>2, <1>3, <1>4, AwaitFields
<1>5. CASE ~(s.negotiated < 8 /\ s.sectype = NONE)
  BY <1>1, <1>2, <1>3, <1>5, AwaitFields
<1> QED
  BY <1>4, <1>5

\* What the security type leads to.
LEMMA AuthenticateFields ==
  ASSUME NEW s \in States, NEW type \in Nat, type # 0, s.abort = FALSE
  PROVE  LET a == Authenticate(s, type) IN
         /\ a \in States /\ a.preserve = s.preserve
         /\ type = VNC_AUTHENTICATION => /\ a.step = "challenge" /\ a.need = 16
                                         /\ a.inAuth = TRUE /\ a.abort = FALSE /\ a.sectype = type
         /\ type = DIFFIE_HELLMAN => /\ a.step = "dh_head" /\ a.need = 4
                                     /\ a.inAuth = TRUE /\ a.abort = FALSE /\ a.sectype = type
         /\ type = NONE => /\ a.inAuth = FALSE /\ a.abort = FALSE
                           /\ IF s.negotiated < 8 THEN a.step = "client_init" /\ a.need = 1
                              ELSE a.step = "result" /\ a.need = 4
         /\ type \notin {NONE, VNC_AUTHENTICATION, DIFFIE_HELLMAN} =>
              a.step = "done" /\ (a.abort = TRUE <=> s.preserve = FALSE)
<1> DEFINE in == [s EXCEPT !.sectype = type, !.inAuth = TRUE]
<1>1. /\ in \in States /\ in.inAuth = TRUE /\ in.preserve = s.preserve /\ in.abort = FALSE
      /\ in.sectype = type /\ in.negotiated = s.negotiated
  BY DEF States
<1>2. /\ type = VNC_AUTHENTICATION => Authenticate(s, type) = Await(in, "challenge", 16)
      /\ type = DIFFIE_HELLMAN => Authenticate(s, type) = Await(in, "dh_head", 4)
      /\ type = NONE => Authenticate(s, type) = AfterAuth(in)
      /\ type \notin {NONE, VNC_AUTHENTICATION, DIFFIE_HELLMAN} =>
           Authenticate(s, type) = GiveUp(in)
  BY DEF Authenticate, VNC_AUTHENTICATION, DIFFIE_HELLMAN, NONE
<1>3. "challenge" \in Steps /\ "dh_head" \in Steps
  BY DEF Steps
<1>4. NONE # VNC_AUTHENTICATION /\ NONE # DIFFIE_HELLMAN /\ VNC_AUTHENTICATION # DIFFIE_HELLMAN
  BY DEF VNC_AUTHENTICATION, DIFFIE_HELLMAN, NONE
<1> HIDE DEF in
<1>5. CASE type = VNC_AUTHENTICATION
  BY <1>1, <1>2, <1>3, <1>4, <1>5, AwaitFields
<1>6. CASE type = DIFFIE_HELLMAN
  BY <1>1, <1>2, <1>3, <1>4, <1>6, AwaitFields
<1>7. CASE type = NONE
  BY <1>1, <1>2, <1>4, <1>7, AfterAuthFields
<1>8. CASE type \notin {NONE, VNC_AUTHENTICATION, DIFFIE_HELLMAN}
  BY <1>1, <1>2, <1>8, GiveUpFields
<1> QED
  BY <1>5, <1>6, <1>7, <1>8

\* What _run does with each field.
LEMMA Advances ==
  ASSUME NEW s \in States, NEW v
  PROVE  /\ s.step = "server_head" => Advance(s, v) = Await(s, "client_head", 12)
         /\ s.step = "client_head" => Advance(s, v) = ClientHead(s, v)
         /\ s.step = "num_types" =>
              Advance(s, v) = IF v = 0 THEN Return(s) ELSE Await(s, "types", v)
         /\ s.step = "types" => Advance(s, v) = Await(s, "sectype", 1)
         /\ s.step = "sectype" => Advance(s, v) = Authenticate(s, v)
         /\ s.step = "auth" => Advance(s, v) = IF v = 0 THEN Return(s) ELSE Authenticate(s, v)
         /\ s.step = "challenge" => Advance(s, v) = Await(s, "response", 16)
         /\ s.step = "dh_head" => Advance(s, v) = Await([s EXCEPT !.keyLen = v], "modulus", v)
         /\ s.step = "modulus" => Advance(s, v) = Await(s, "server_key", s.keyLen)
         /\ s.step = "server_key" => Advance(s, v) = Await(s, "credentials", ARD_CREDENTIALS_LEN)
         /\ s.step = "credentials" => Advance(s, v) = Await(s, "client_key", s.keyLen)
         /\ s.step \in {"response", "client_key"} => Advance(s, v) = AfterAuth(s)
         /\ s.step = "result" =>
              Advance(s, v) = IF v = 0 THEN Await(s, "client_init", 1) ELSE Return(s)
         /\ s.step = "client_init" => Advance(s, v) = Await(s, "server_init", 24)
         /\ s.step = "server_init" =>
              Advance(s, v) = IF v = 0 THEN Return([s EXCEPT !.sized = TRUE])
                              ELSE Await([s EXCEPT !.sized = TRUE], "name", v)
         /\ s.step = "name" => Advance(s, v) = Return(s)
BY DEF Advance

\* What the version that a client replies leads to.
LEMMA ClientHeadFields ==
  ASSUME NEW s \in States, NEW v \in Nat, s.abort = FALSE
  PROVE  LET a == ClientHead(s, v) IN
         /\ a \in States /\ a.preserve = s.preserve /\ a.inAuth = s.inAuth
         /\ v = Unparsable => a.step = "done" /\ (a.abort = TRUE <=> s.preserve = FALSE)
         /\ v # Unparsable => a.abort = FALSE /\ a.negotiated = v
         /\ v >= 7 => a.step = "num_types" /\ a.need = 1
         /\ v \in 1..6 => a.step = "auth" /\ a.need = 4
<1> DEFINE known == [s EXCEPT !.negotiated = v]
<1>1. /\ known \in States /\ known.preserve = s.preserve /\ known.abort = FALSE
      /\ known.negotiated = v /\ known.inAuth = s.inAuth
  BY DEF States
<1>2. /\ v = Unparsable => ClientHead(s, v) = GiveUp(s)
      /\ v >= 7 => ClientHead(s, v) = Await(known, "num_types", 1)
      /\ v \in 1..6 => ClientHead(s, v) = Await(known, "auth", 4)
  BY DEF ClientHead, Unparsable
<1>3. "num_types" \in Steps /\ "auth" \in Steps
  BY DEF Steps
<1> HIDE DEF known
<1>4. CASE v = Unparsable
  <2>1. ClientHead(s, v) = GiveUp(s)
    BY <1>2, <1>4
  <2>2. ~(v >= 7) /\ v \notin 1..6
    BY <1>4 DEF Unparsable
  <2> QED
    BY <1>4, <2>1, <2>2, GiveUpFields
<1>5. CASE v >= 7
  BY <1>1, <1>2, <1>3, <1>5, AwaitFields DEF Unparsable
<1>6. CASE v \in 1..6
  BY <1>1, <1>2, <1>3, <1>6, AwaitFields DEF Unparsable
<1> QED
  <2>1. v = Unparsable \/ v >= 7 \/ v \in 1..6
    BY DEF Unparsable
  <2> QED
    BY <1>4, <1>5, <1>6, <2>1

\* Waiting for a field that is no secret.
LEMMA AwaitOpen ==
  \A s \in States, step \in Steps, n \in Nat : s.abort = FALSE /\ ~Secret(step) =>
    LET a == Await(s, step, n) IN
    a \in States /\ Sound(a) /\ a.preserve = s.preserve /\ a.step = step /\ a.abort = FALSE
<1> TAKE s \in States, step \in Steps, n \in Nat
<1> HAVE s.abort = FALSE /\ ~Secret(step)
<1> DEFINE a == Await(s, step, n)
<1>1. /\ a \in States /\ a.step = step /\ a.preserve = s.preserve /\ a.inAuth = s.inAuth
      /\ a.abort = s.abort
  BY AwaitFields
<1> HIDE DEF a
<1>2. Sound(a)
  BY <1>1 DEF Sound
<1> QED
  BY <1>1, <1>2 DEF a

\* Waiting for a field of the authentication.
LEMMA AwaitSecret ==
  \A s \in States, step \in Steps, n \in Nat : s.abort = FALSE /\ s.inAuth = TRUE =>
    LET a == Await(s, step, n) IN
    a \in States /\ Sound(a) /\ a.preserve = s.preserve /\ a.step = step /\ a.abort = FALSE
<1> TAKE s \in States, step \in Steps, n \in Nat
<1> HAVE s.abort = FALSE /\ s.inAuth = TRUE
<1> DEFINE a == Await(s, step, n)
<1>1. /\ a \in States /\ a.step = step /\ a.preserve = s.preserve /\ a.inAuth = s.inAuth
      /\ a.abort = s.abort
  BY AwaitFields
<1> HIDE DEF a
<1>2. Sound(a)
  BY <1>1 DEF Sound
<1> QED
  BY <1>1, <1>2 DEF a

\* The ranks, one by one.
LEMMA RankValues ==
  /\ Rank("server_head") = 14 /\ Rank("client_head") = 13 /\ Rank("num_types") = 12
  /\ Rank("types") = 11 /\ Rank("auth") = 11 /\ Rank("sectype") = 10 /\ Rank("dh_head") = 9
  /\ Rank("challenge") = 9 /\ Rank("modulus") = 8 /\ Rank("server_key") = 7
  /\ Rank("credentials") = 6 /\ Rank("client_key") = 5 /\ Rank("response") = 5
  /\ Rank("result") = 4 /\ Rank("client_init") = 3 /\ Rank("server_init") = 2
  /\ Rank("name") = 1 /\ Rank("done") = 0
BY DEF Rank

\* Every field that is read brings the end of the handshake nearer, and what is
\* known of _run's state stays true.
LEMMA AdvanceSound ==
  ASSUME NEW s \in States, Sound(s), s.step # "done", NEW v, Legal(s, v)
  PROVE  LET a == Advance(s, v) IN
         /\ a \in States /\ Sound(a) /\ a.preserve = s.preserve
         /\ Rank(a.step) \in Nat /\ Rank(s.step) \in 0..14 /\ Rank(a.step) < Rank(s.step)
<1> DEFINE a == Advance(s, v)
<1>1. /\ s.abort = FALSE /\ s.preserve \in BOOLEAN /\ s.keyLen \in Nat /\ s.step \in Steps
      /\ Secret(s.step) => s.inAuth = TRUE
  BY DEF Sound, States
<1>2. /\ "client_head" \in Steps /\ "types" \in Steps /\ "sectype" \in Steps
      /\ "done" \in Steps /\ "client_init" \in Steps /\ "server_init" \in Steps
      /\ "name" \in Steps
      /\ ~Secret("client_head") /\ ~Secret("types") /\ ~Secret("sectype")
      /\ ~Secret("done") /\ ~Secret("client_init") /\ ~Secret("server_init")
      /\ ~Secret("name")
  BY DEF Steps, ClientSteps, Secret, Secrets
<1>3. /\ "response" \in Steps /\ "modulus" \in Steps /\ "server_key" \in Steps
      /\ "credentials" \in Steps /\ "client_key" \in Steps /\ ARD_CREDENTIALS_LEN \in Nat
  BY DEF Steps, ClientSteps, ARD_CREDENTIALS_LEN
<1>0. s.step \in {"challenge", "dh_head", "modulus", "server_key", "credentials"} => s.inAuth = TRUE
  BY <1>1 DEF Secret, Secrets
<1> SUFFICES /\ a \in States /\ Sound(a) /\ a.preserve = s.preserve
             /\ Rank(a.step) \in Nat /\ Rank(s.step) \in 0..14 /\ Rank(a.step) < Rank(s.step)
  OBVIOUS
<1> HIDE DEF a
<1>4. CASE s.step = "server_head"
  <2>1. a = Await(s, "client_head", 12)
    BY <1>4, Advances DEF a
  <2>2. s.abort = FALSE /\ "client_head" \in Steps /\ ~Secret("client_head")
    BY <1>1, <1>2
  <2>3. a \in States /\ Sound(a) /\ a.preserve = s.preserve /\ a.step = "client_head"
    BY <2>1, <2>2, AwaitOpen
  <2> QED
    BY <1>4, <2>3, RankValues
<1>5. CASE s.step = "client_head"
  <2>1. a = ClientHead(s, v) /\ v \in Nat
    BY <1>5, Advances DEF Legal, a
  <2>2. a \in States /\ a.preserve = s.preserve
    BY <1>1, <2>1, ClientHeadFields
  <2>3. v = Unparsable \/ v >= 7 \/ v \in 1..6
    BY <2>1 DEF Unparsable
  <2>4. CASE v = Unparsable
    <3>1. a.step = "done" /\ (a.abort = TRUE => s.preserve = FALSE)
      BY <1>1, <2>1, <2>4, ClientHeadFields
    <3> QED
      BY <1>5, <2>2, <3>1, RankValues DEF Sound, Secret, Secrets
  <2>5. CASE v # Unparsable
    <3>1. a.step \in {"num_types", "auth"} /\ a.abort = FALSE
      BY <1>1, <2>1, <2>3, <2>5, ClientHeadFields
    <3> QED
      BY <1>5, <2>2, <3>1, RankValues DEF Sound, Secret, Secrets
  <2> QED
    BY <2>4, <2>5
<1>6. CASE s.step = "num_types"
  <2>1. a = IF v = 0 THEN Return(s) ELSE Await(s, "types", v)
    BY <1>6, Advances DEF a
  <2>2. s.abort = FALSE /\ "done" \in Steps /\ "types" \in Steps /\ ~Secret("done") /\ ~Secret("types")
    BY <1>1, <1>2
  <2>3. ASSUME v = 0
        PROVE  a \in States /\ Sound(a) /\ a.preserve = s.preserve /\ a.step = "done"
    BY <2>1, <2>2, <2>3, AwaitOpen DEF Return
  <2>4. v \in Nat
    BY <1>6 DEF Legal
  <2>5. ASSUME v # 0
        PROVE  a \in States /\ Sound(a) /\ a.preserve = s.preserve /\ a.step = "types"
    BY <2>1, <2>2, <2>4, <2>5, AwaitOpen DEF Return
  <2> QED
    BY <1>6, <2>3, <2>5, RankValues
<1>7. CASE s.step = "types"
  <2>1. a = Await(s, "sectype", 1)
    BY <1>7, Advances DEF a
  <2>2. s.abort = FALSE /\ "sectype" \in Steps /\ ~Secret("sectype")
    BY <1>1, <1>2
  <2>3. a \in States /\ Sound(a) /\ a.preserve = s.preserve /\ a.step = "sectype"
    BY <2>1, <2>2, AwaitOpen
  <2> QED
    BY <1>7, <2>3, RankValues
<1>8. CASE s.step \in {"sectype", "auth"} /\ v # 0
  <2>1. a = Authenticate(s, v) /\ v \in Nat
    BY <1>8, Advances DEF Legal, a
  <2>2. a \in States /\ a.preserve = s.preserve
    BY <1>1, <1>8, <2>1, AuthenticateFields
  <2>3. CASE v \in {VNC_AUTHENTICATION, DIFFIE_HELLMAN}
    <3>1. a.step \in {"challenge", "dh_head"} /\ a.inAuth = TRUE /\ a.abort = FALSE
      BY <1>1, <1>8, <2>1, <2>3, AuthenticateFields
    <3> QED
      BY <1>8, <2>2, <3>1, RankValues DEF Sound
  <2>4. CASE v = NONE
    <3>1. a.step \in {"client_init", "result"} /\ a.abort = FALSE
      BY <1>1, <1>8, <2>1, <2>4, AuthenticateFields
    <3> QED
      BY <1>8, <2>2, <3>1, RankValues DEF Sound, Secret, Secrets
  <2>5. CASE v \notin {NONE, VNC_AUTHENTICATION, DIFFIE_HELLMAN}
    <3>1. a.step = "done" /\ (a.abort = TRUE => s.preserve = FALSE)
      BY <1>1, <1>8, <2>1, <2>5, AuthenticateFields
    <3> QED
      BY <1>8, <2>2, <3>1, RankValues DEF Sound, Secret, Secrets
  <2> QED
    BY <2>3, <2>4, <2>5
<1>9. CASE s.step = "auth" /\ v = 0
  <2>1. a = Return(s)
    BY <1>9, Advances DEF a
  <2>2. s.abort = FALSE /\ "done" \in Steps /\ ~Secret("done")
    BY <1>1, <1>2
  <2>3. a \in States /\ Sound(a) /\ a.preserve = s.preserve /\ a.step = "done"
    BY <2>1, <2>2, AwaitOpen DEF Return
  <2> QED
    BY <1>9, <2>3, RankValues
<1>10. CASE s.step = "challenge"
  <2>1. a = Await(s, "response", 16)
    BY <1>10, Advances DEF a
  <2>2. s.abort = FALSE /\ "response" \in Steps /\ s.inAuth = TRUE
    BY <1>0, <1>1, <1>3, <1>10
  <2>3. a \in States /\ Sound(a) /\ a.preserve = s.preserve /\ a.step = "response"
    BY <2>1, <2>2, AwaitSecret
  <2> QED
    BY <1>10, <2>3, RankValues
<1>11. CASE s.step = "dh_head"
  <2> DEFINE k == [s EXCEPT !.keyLen = v]
  <2>1. v \in Nat /\ s.inAuth = TRUE
    BY <1>0, <1>11 DEF Legal
  <2>2. k \in States /\ k.inAuth = TRUE /\ k.abort = FALSE /\ k.preserve = s.preserve
    BY <1>1, <2>1 DEF States
  <2>3. a = Await(k, "modulus", v)
    BY <1>11, Advances DEF a
  <2> HIDE DEF k
  <2>4. a \in States /\ Sound(a) /\ a.preserve = s.preserve /\ a.step = "modulus"
    BY <1>3, <2>1, <2>2, <2>3, AwaitSecret
  <2> QED
    BY <1>11, <2>4, RankValues
<1>12. CASE s.step = "modulus"
  <2>1. a = Await(s, "server_key", s.keyLen)
    BY <1>12, Advances DEF a
  <2>2. s.abort = FALSE /\ "server_key" \in Steps /\ s.inAuth = TRUE /\ s.keyLen \in Nat
    BY <1>0, <1>1, <1>3, <1>12
  <2>3. a \in States /\ Sound(a) /\ a.preserve = s.preserve /\ a.step = "server_key"
    BY <2>1, <2>2, AwaitSecret
  <2> QED
    BY <1>12, <2>3, RankValues
<1>13. CASE s.step = "server_key"
  <2>1. a = Await(s, "credentials", ARD_CREDENTIALS_LEN)
    BY <1>13, Advances DEF a
  <2>2. s.abort = FALSE /\ "credentials" \in Steps /\ s.inAuth = TRUE /\ ARD_CREDENTIALS_LEN \in Nat
    BY <1>0, <1>1, <1>3, <1>13
  <2>3. a \in States /\ Sound(a) /\ a.preserve = s.preserve /\ a.step = "credentials"
    BY <2>1, <2>2, AwaitSecret
  <2> QED
    BY <1>13, <2>3, RankValues
<1>14. CASE s.step = "credentials"
  <2>1. a = Await(s, "client_key", s.keyLen)
    BY <1>14, Advances DEF a
  <2>2. s.abort = FALSE /\ "client_key" \in Steps /\ s.inAuth = TRUE /\ s.keyLen \in Nat
    BY <1>0, <1>1, <1>3, <1>14
  <2>3. a \in States /\ Sound(a) /\ a.preserve = s.preserve /\ a.step = "client_key"
    BY <2>1, <2>2, AwaitSecret
  <2> QED
    BY <1>14, <2>3, RankValues
<1>15. CASE s.step \in {"response", "client_key"}
  <2>1. a = AfterAuth(s)
    BY <1>15, Advances DEF a
  <2>2. /\ a \in States /\ a.preserve = s.preserve /\ a.abort = FALSE
        /\ a.step \in {"client_init", "result"}
    BY <1>1, <2>1, AfterAuthFields
  <2> QED
    BY <1>15, <2>2, RankValues DEF Sound, Secret, Secrets
<1>16. CASE s.step = "result"
  <2>1. a = IF v = 0 THEN Await(s, "client_init", 1) ELSE Return(s)
    BY <1>16, Advances DEF a
  <2>2. s.abort = FALSE /\ "client_init" \in Steps /\ "done" \in Steps /\ ~Secret("client_init") /\ ~Secret("done")
    BY <1>1, <1>2
  <2>3. ASSUME v = 0
        PROVE  a \in States /\ Sound(a) /\ a.preserve = s.preserve /\ a.step = "client_init"
    BY <2>1, <2>2, <2>3, AwaitOpen DEF Return
  <2>4. ASSUME v # 0
        PROVE  a \in States /\ Sound(a) /\ a.preserve = s.preserve /\ a.step = "done"
    BY <2>1, <2>2, <2>4, AwaitOpen DEF Return
  <2> QED
    BY <1>16, <2>3, <2>4, RankValues
<1>17. CASE s.step = "client_init"
  <2>1. a = Await(s, "server_init", 24)
    BY <1>17, Advances DEF a
  <2>2. s.abort = FALSE /\ "server_init" \in Steps /\ ~Secret("server_init")
    BY <1>1, <1>2
  <2>3. a \in States /\ Sound(a) /\ a.preserve = s.preserve /\ a.step = "server_init"
    BY <2>1, <2>2, AwaitOpen
  <2> QED
    BY <1>17, <2>3, RankValues
<1>18. CASE s.step = "server_init"
  <2> DEFINE k == [s EXCEPT !.sized = TRUE]
  <2>1. k \in States /\ k.abort = FALSE /\ k.preserve = s.preserve
    BY <1>1 DEF States
  <2>2. v \in Nat /\ a = IF v = 0 THEN Return(k) ELSE Await(k, "name", v)
    BY <1>18, Advances DEF Legal, a
  <2> HIDE DEF k
  <2>3. "done" \in Steps /\ "name" \in Steps /\ ~Secret("done") /\ ~Secret("name")
    BY <1>2
  <2>4. ASSUME v = 0
        PROVE  a \in States /\ Sound(a) /\ a.preserve = s.preserve /\ a.step = "done"
    BY <2>1, <2>2, <2>3, <2>4, AwaitOpen DEF Return
  <2>5. ASSUME v # 0
        PROVE  a \in States /\ Sound(a) /\ a.preserve = s.preserve /\ a.step = "name"
    BY <2>1, <2>2, <2>3, <2>5, AwaitOpen
  <2> QED
    BY <1>18, <2>4, <2>5, RankValues
<1>19. CASE s.step = "name"
  <2>1. a = Return(s)
    BY <1>19, Advances DEF a
  <2>2. s.abort = FALSE /\ "done" \in Steps /\ ~Secret("done")
    BY <1>1, <1>2
  <2>3. a \in States /\ Sound(a) /\ a.preserve = s.preserve /\ a.step = "done"
    BY <2>1, <2>2, AwaitOpen DEF Return
  <2> QED
    BY <1>19, <2>3, RankValues
<1>20. s.step = "sectype" => v # 0
  BY DEF Legal
<1> QED
  BY <1>1, <1>4, <1>5, <1>6, <1>7, <1>8, <1>9, <1>10, <1>11, <1>12, <1>13, <1>14, <1>15, <1>16,
     <1>17, <1>18, <1>19, <1>20 DEF Steps, ClientSteps

-----------------------------------------------------------------------------
(* Bytes.                                                                  *)

\* A field is n bytes of its kind and value, numbered from 1.
LEMMA FieldBytes ==
  ASSUME NEW kind \in Kinds, NEW value \in Values, NEW n \in Nat
  PROVE  /\ Field(kind, value, n) \in Seq(Bytes) /\ Len(Field(kind, value, n)) = n
         /\ \A i \in 1..n : /\ Field(kind, value, n)[i].kind = kind
                            /\ Field(kind, value, n)[i].value = value
                            /\ Field(kind, value, n)[i].at = i
                            /\ Field(kind, value, n)[i] = Byte(kind, value, i)
<1>1. \A i \in 1..n : [kind |-> kind, value |-> value, at |-> i] \in Bytes
  BY DEF Bytes
<1> QED
  BY <1>1 DEF Field, Byte

\* A field that is no secret.
LEMMA FieldClean ==
  \A kind \in Kinds, value \in Values, n \in Nat :
    ~Secret(kind) => Field(kind, value, n) \in Seq(Clean)
<1> TAKE kind \in Kinds, value \in Values, n \in Nat
<1> HAVE ~Secret(kind)
<1>1. \A i \in 1..n : [kind |-> kind, value |-> value, at |-> i] \in Clean
  BY DEF Bytes, Clean, Secret
<1> QED
  BY <1>1 DEF Field

\* A field that _run does not read.
LEMMA FieldPlain ==
  \A kind \in Kinds, value \in Values, n \in Nat :
    Plain(kind) => Field(kind, value, n) \in Seq(PlainBytes)
<1> TAKE kind \in Kinds, value \in Values, n \in Nat
<1> HAVE Plain(kind)
<1>1. \A i \in 1..n : [kind |-> kind, value |-> value, at |-> i] \in PlainBytes
  BY DEF Bytes, PlainBytes
<1> QED
  BY <1>1 DEF Field

\* What concatenation does to bytes.
LEMMA Joined ==
  ASSUME NEW S, NEW q \in Seq(S), NEW b \in Seq(S)
  PROVE  /\ q \o b \in Seq(S) /\ Len(q) \in Nat /\ Len(b) \in Nat
         /\ Len(q \o b) = Len(q) + Len(b)
         /\ \A i \in 1..Len(q) : (q \o b)[i] = q[i]
         /\ \A i \in 1..Len(b) : (q \o b)[Len(q) + i] = b[i]
OBVIOUS

\* Bytes that are sent in three parts.
LEMMA Regrouped ==
  ASSUME NEW p \in Seq(Bytes), NEW d \in Seq(Bytes), NEW r \in Seq(Bytes)
  PROVE  (p \o d) \o r = p \o (d \o r)
OBVIOUS

\* Bytes cut out of a stream.
LEMMA Sliced ==
  ASSUME NEW S, NEW q \in Seq(S), NEW m \in Nat, NEW k \in Nat, m + k <= Len(q)
  PROVE  /\ SubSeq(q, m + 1, m + k) \in Seq(S) /\ Len(SubSeq(q, m + 1, m + k)) = k
         /\ \A i \in 1..k : SubSeq(q, m + 1, m + k)[i] = q[m + i]
OBVIOUS

\* What is put on record of a field, unless authentication is preserved.
LEMMA RecordingClean ==
  \A s \in States, chunk \in Seq(Bytes) :
    Sound(s) /\ (\A i \in 1..Len(chunk) : chunk[i].kind = s.step)
      => Recording(s, chunk) \in Seq(Clean)
<1> TAKE s \in States, chunk \in Seq(Bytes)
<1> HAVE Sound(s) /\ (\A i \in 1..Len(chunk) : chunk[i].kind = s.step)
<1>1. <<>> \in Seq(Clean)
  OBVIOUS
<1>2. CASE s.inAuth = TRUE
  BY <1>1, <1>2 DEF Recording
<1>3. CASE s.inAuth = FALSE
  <2>1. chunk \in Seq(Clean)
    <3>1. s.step \notin Secrets
      BY <1>3 DEF Sound, Secret
    <3>2. \A i \in 1..Len(chunk) : chunk[i] \in Clean
      BY <3>1 DEF Clean
    <3> QED
      BY <3>2
  <2>2. /\ Field("num_types", 1, 1) \o Field("types", <<NONE>>, 1) \in Seq(Clean)
        /\ Field("sectype", NONE, 1) \in Seq(Clean) /\ Field("auth", NONE, 4) \in Seq(Clean)
    <3>1. 1 \in Values /\ NONE \in Values /\ <<NONE>> \in Values
      BY DEF NONE, Values
    <3>2. /\ ~Secret("num_types") /\ ~Secret("types") /\ ~Secret("sectype") /\ ~Secret("auth")
          /\ "num_types" \in Kinds /\ "types" \in Kinds /\ "sectype" \in Kinds /\ "auth" \in Kinds
      BY DEF Secret, Secrets, Kinds, Steps, ClientSteps
    <3>3. Field("num_types", 1, 1) \in Seq(Clean)
      BY <3>1, <3>2, FieldClean
    <3>4. Field("types", <<NONE>>, 1) \in Seq(Clean)
      BY <3>1, <3>2, FieldClean
    <3>5. Field("sectype", NONE, 1) \in Seq(Clean)
      BY <3>1, <3>2, FieldClean
    <3>6. Field("auth", NONE, 4) \in Seq(Clean)
      BY <3>1, <3>2, FieldClean
    <3> QED
      BY <3>3, <3>4, <3>5, <3>6, Joined
  <2> QED
    BY <1>1, <1>3, <2>1, <2>2 DEF Recording
<1> QED
  BY <1>2, <1>3 DEF States

-----------------------------------------------------------------------------
(* What _run reads.                                                        *)

\* The bytes of a field have its kind, and the first is number 1.
LEMMA FieldAtKind ==
  ASSUME NEW q, NEW s, NEW c, FieldAt(q, s, c)
  PROVE  /\ s.need > 0 /\ \A j \in 1..s.need : q[c + j].kind = s.step
         /\ s.need \in Nat => q[c + 1].at = 1
<1>1. \A k, v, i : Byte(k, v, i).kind = k /\ Byte(k, v, i).at = i
  BY DEF Byte
<1>2. s.need > 0 /\ \A j \in 1..s.need : q[c + j] = Byte(s.step, q[c + 1].value, j)
  BY DEF FieldAt
<1>3. s.need \in Nat => 1 \in 1..s.need
  BY <1>2
<1>4. s.need \in Nat => q[c + 1] = Byte(s.step, q[c + 1].value, 1)
  BY <1>2, <1>3
<1> QED
  BY <1>1, <1>2, <1>4

\* Where a run begins and ends.
LEMMA ReadsEnds ==
  ASSUME NEW q, NEW t, NEW s, NEW c, NEW e, NEW z, Reads(q, t, s, c, e, z)
  PROVE  /\ s \in States /\ Sound(s) /\ c \in Nat /\ c <= Len(q)
         /\ e \in States /\ Sound(e) /\ z \in Nat /\ z <= Len(q)
<1>0. PICK m \in Nat : \E S, P :
        Run(q, t, m, S, P) /\ S[0] = s /\ P[0] = c /\ S[m] = e /\ P[m] = z
  BY DEF Reads
<1>1. PICK S, P :
        Run(q, t, m, S, P) /\ S[0] = s /\ P[0] = c /\ S[m] = e /\ P[m] = z
  BY <1>0
<1>2. 0 \in 0..m /\ m \in 0..m
  OBVIOUS
<1> QED
  BY <1>1, <1>2 DEF Run

\* A run may be of no field.
LEMMA ReadsNothing ==
  ASSUME NEW q, NEW t, NEW s \in States, Sound(s), NEW c \in Nat, c <= Len(q)
  PROVE  Reads(q, t, s, c, s, c)
<1> DEFINE S == [i \in {0} |-> s]
           P == [i \in {0} |-> c]
<1>1. Run(q, t, 0, S, P)
  BY DEF Run
<1>2. S[0] = s /\ P[0] = c
  OBVIOUS
<1> HIDE DEF S, P
<1> QED
  BY <1>1, <1>2 DEF Reads

\* Later bytes do not change what was read.
LEMMA ReadsOn ==
  ASSUME NEW q \in Seq(Bytes), NEW b \in Seq(Bytes), NEW t, NEW s, NEW c, NEW e, NEW z,
         Reads(q, t, s, c, e, z)
  PROVE  Reads(q \o b, t, s, c, e, z)
<1>0. PICK m \in Nat : \E S, P :
        Run(q, t, m, S, P) /\ S[0] = s /\ P[0] = c /\ S[m] = e /\ P[m] = z
  BY DEF Reads
<1>1. PICK S, P :
        Run(q, t, m, S, P) /\ S[0] = s /\ P[0] = c /\ S[m] = e /\ P[m] = z
  BY <1>0
<1>2. /\ Len(q) \in Nat /\ Len(q) <= Len(q \o b) /\ Len(q \o b) \in Nat
      /\ \A i \in 1..Len(q) : (q \o b)[i] = q[i]
  OBVIOUS
<1>3. ASSUME NEW i \in 0..m
      PROVE  S[i] \in States /\ Sound(S[i]) /\ P[i] \in Nat /\ P[i] <= Len(q \o b)
  <2>1. S[i] \in States /\ Sound(S[i]) /\ P[i] \in Nat /\ P[i] <= Len(q)
    BY <1>1 DEF Run
  <2> QED
    BY <1>2, <2>1
<1>4. ASSUME NEW i \in 0..(m - 1)
      PROVE  /\ Watches(S[i], t) /\ FieldAt(q \o b, S[i], P[i])
             /\ Legal(S[i], (q \o b)[P[i] + 1].value)
             /\ P[i + 1] = P[i] + S[i].need
             /\ S[i + 1] = Advance(S[i], (q \o b)[P[i] + 1].value)
  <2>1. /\ Watches(S[i], t) /\ FieldAt(q, S[i], P[i]) /\ Legal(S[i], q[P[i] + 1].value)
        /\ P[i + 1] = P[i] + S[i].need /\ S[i + 1] = Advance(S[i], q[P[i] + 1].value)
    BY <1>1 DEF Run
  <2>2. P[i] \in Nat /\ S[i].need \in Nat
    BY <1>3 DEF States
  <2>3. S[i].need > 0 /\ P[i] + S[i].need <= Len(q)
    BY <2>1 DEF FieldAt
  <2>4. \A j \in 1..S[i].need : P[i] + j \in 1..Len(q)
    BY <1>2, <2>2, <2>3
  <2>5. \A j \in 1..S[i].need : (q \o b)[P[i] + j] = q[P[i] + j]
    BY <1>2, <2>4
  <2>6. (q \o b)[P[i] + 1] = q[P[i] + 1]
    BY <2>2, <2>3, <2>5
  <2>7. P[i] + S[i].need <= Len(q \o b)
    BY <1>2, <2>2, <2>3
  <2>8. FieldAt(q \o b, S[i], P[i])
    BY <2>1, <2>3, <2>5, <2>6, <2>7 DEF FieldAt
  <2> QED
    BY <2>1, <2>6, <2>8
<1>5. Run(q \o b, t, m, S, P)
  BY <1>3, <1>4 DEF Run
<1> QED
  BY <1>1, <1>5 DEF Reads

\* A further field of the kind that is waited for is read.
LEMMA ReadsField ==
  ASSUME NEW q \in Seq(Bytes), NEW t, NEW s, NEW c, NEW e, NEW v \in Values,
         NEW n \in Nat, Reads(q, t, s, c, e, Len(q)), Watches(e, t), Legal(e, v),
         e.need = n, n > 0
  PROVE  LET r == q \o Field(e.step, v, n) IN
         r \in Seq(Bytes) /\ Reads(r, t, s, c, Advance(e, v), Len(r))
<1> DEFINE F == Field(e.step, v, n)
           r == q \o F
           a == Advance(e, v)
<1>1. e \in States /\ Sound(e) /\ Len(q) \in Nat /\ e.step \in Kinds /\ e.step # "done"
  BY ReadsEnds DEF States, Kinds, Watches
<1>2. /\ F \in Seq(Bytes) /\ Len(F) = n
      /\ \A i \in 1..n : F[i].value = v /\ F[i] = Byte(e.step, v, i)
  <2>1. \A k \in Kinds :
          /\ Field(k, v, n) \in Seq(Bytes) /\ Len(Field(k, v, n)) = n
          /\ \A i \in 1..n : /\ Field(k, v, n)[i].value = v
                             /\ Field(k, v, n)[i] = Byte(k, v, i)
    BY FieldBytes
  <2> QED
    BY <1>1, <2>1
<1> HIDE DEF F
<1>3. /\ r \in Seq(Bytes) /\ Len(r) = Len(q) + n
      /\ \A i \in 1..n : r[Len(q) + i] = F[i]
  <2>1. \A b \in Seq(Bytes) : /\ q \o b \in Seq(Bytes) /\ Len(q \o b) = Len(q) + Len(b)
                              /\ \A i \in 1..Len(b) : (q \o b)[Len(q) + i] = b[i]
    BY Joined
  <2> QED
    BY <1>2, <2>1
<1>4. a \in States /\ Sound(a)
  BY <1>1, AdvanceSound
<1>5. Reads(r, t, s, c, e, Len(q))
  BY <1>2, ReadsOn
<1>6. FieldAt(r, e, Len(q)) /\ r[Len(q) + 1].value = v
  <2>1. 1 \in 1..n
    OBVIOUS
  <2>2. r[Len(q) + 1].value = v
    BY <1>2, <1>3, <2>1
  <2>3. \A j \in 1..e.need : r[Len(q) + j] = Byte(e.step, v, j)
    BY <1>2, <1>3
  <2>4. e.need > 0 /\ Len(q) + e.need <= Len(r)
    BY <1>1, <1>3
  <2> QED
    BY <2>2, <2>3, <2>4 DEF FieldAt
<1> HIDE DEF r, a
<1>0. PICK m \in Nat : \E S, P :
        Run(r, t, m, S, P) /\ S[0] = s /\ P[0] = c /\ S[m] = e /\ P[m] = Len(q)
  BY <1>5 DEF Reads
<1>7. PICK S, P :
        Run(r, t, m, S, P) /\ S[0] = s /\ P[0] = c /\ S[m] = e /\ P[m] = Len(q)
  BY <1>0
<1> DEFINE S1 == [i \in 0..(m + 1) |-> IF i = m + 1 THEN a ELSE S[i]]
           P1 == [i \in 0..(m + 1) |-> IF i = m + 1 THEN Len(r) ELSE P[i]]
<1>8. /\ \A i \in 0..m : S1[i] = S[i] /\ P1[i] = P[i]
      /\ S1[m + 1] = a /\ P1[m + 1] = Len(r)
  OBVIOUS
<1> HIDE DEF S1, P1
<1>9. ASSUME NEW i \in 0..(m + 1)
      PROVE  S1[i] \in States /\ Sound(S1[i]) /\ P1[i] \in Nat /\ P1[i] <= Len(r)
  <2>1. CASE i \in 0..m
    <3>1. S[i] \in States /\ Sound(S[i]) /\ P[i] \in Nat /\ P[i] <= Len(r)
      BY <1>7, <2>1 DEF Run
    <3> QED
      BY <1>8, <2>1, <3>1
  <2>2. CASE i = m + 1
    BY <1>1, <1>3, <1>4, <1>8, <2>2
  <2> QED
    BY <2>1, <2>2
<1>10. ASSUME NEW i \in 0..((m + 1) - 1)
       PROVE  /\ Watches(S1[i], t) /\ FieldAt(r, S1[i], P1[i])
              /\ Legal(S1[i], r[P1[i] + 1].value)
              /\ P1[i + 1] = P1[i] + S1[i].need
              /\ S1[i + 1] = Advance(S1[i], r[P1[i] + 1].value)
  <2>1. CASE i \in 0..(m - 1)
    <3>1. i \in 0..m /\ i + 1 \in 0..m
      BY <2>1
    <3>2. S1[i] = S[i] /\ P1[i] = P[i] /\ S1[i + 1] = S[i + 1] /\ P1[i + 1] = P[i + 1]
      BY <1>8, <3>1
    <3>3. /\ Watches(S[i], t) /\ FieldAt(r, S[i], P[i]) /\ Legal(S[i], r[P[i] + 1].value)
          /\ P[i + 1] = P[i] + S[i].need /\ S[i + 1] = Advance(S[i], r[P[i] + 1].value)
      BY <1>7, <2>1 DEF Run
    <3> QED
      BY <3>2, <3>3
  <2>2. CASE i = m
    <3>1. S1[i] = e /\ P1[i] = Len(q) /\ S1[i + 1] = a /\ P1[i + 1] = Len(r)
      BY <1>7, <1>8, <2>2
    <3> QED
      BY <1>3, <1>6, <3>1 DEF a
  <2>3. i \in 0..(m - 1) \/ i = m
    OBVIOUS
  <2> QED
    BY <2>1, <2>2, <2>3
<1>11. Run(r, t, m + 1, S1, P1)
  BY <1>9, <1>10 DEF Run
<1>12. S1[0] = s /\ P1[0] = c
  BY <1>7, <1>8
<1>13. Reads(r, t, s, c, a, Len(r))
  <2>1. m + 1 \in Nat
    OBVIOUS
  <2> QED
    BY <1>8, <1>11, <1>12, <2>1 DEF Reads
<1> QED
  BY <1>3, <1>13 DEF r, a, F

\* The first field of a run, and what follows it.
LEMMA ReadsTail ==
  ASSUME NEW q, NEW t, NEW s, NEW c, NEW e, NEW z, Reads(q, t, s, c, e, z)
  PROVE  \/ s = e /\ c = z
         \/ /\ Watches(s, t) /\ FieldAt(q, s, c) /\ Legal(s, q[c + 1].value)
            /\ Reads(q, t, Advance(s, q[c + 1].value), c + s.need, e, z)
<1>0. PICK m \in Nat : \E S, P :
        Run(q, t, m, S, P) /\ S[0] = s /\ P[0] = c /\ S[m] = e /\ P[m] = z
  BY DEF Reads
<1>1. PICK S, P :
        Run(q, t, m, S, P) /\ S[0] = s /\ P[0] = c /\ S[m] = e /\ P[m] = z
  BY <1>0
<1>2. CASE m = 0
  BY <1>1, <1>2
<1>3. CASE m # 0
  <2> DEFINE S1 == [i \in 0..(m - 1) |-> S[i + 1]]
             P1 == [i \in 0..(m - 1) |-> P[i + 1]]
  <2>1. \A i \in 0..(m - 1) : S1[i] = S[i + 1] /\ P1[i] = P[i + 1] /\ i + 1 \in 0..m
    BY <1>3
  <2> HIDE DEF S1, P1
  <2>2. 0 \in 0..(m - 1) /\ m - 1 \in 0..(m - 1) /\ m - 1 \in Nat /\ (m - 1) + 1 = m /\ 0 + 1 = 1
    BY <1>3
  <2>3. /\ Watches(s, t) /\ FieldAt(q, s, c) /\ Legal(s, q[c + 1].value)
        /\ P[1] = c + s.need /\ S[1] = Advance(s, q[c + 1].value)
    BY <1>1, <2>2 DEF Run
  <2>4. S1[0] = S[1] /\ P1[0] = P[1] /\ S1[m - 1] = e /\ P1[m - 1] = z
    BY <1>1, <2>1, <2>2
  <2>5. ASSUME NEW i \in 0..(m - 1)
        PROVE  S1[i] \in States /\ Sound(S1[i]) /\ P1[i] \in Nat /\ P1[i] <= Len(q)
    BY <1>1, <2>1 DEF Run
  <2>6. ASSUME NEW i \in 0..((m - 1) - 1)
        PROVE  /\ Watches(S1[i], t) /\ FieldAt(q, S1[i], P1[i])
               /\ Legal(S1[i], q[P1[i] + 1].value)
               /\ P1[i + 1] = P1[i] + S1[i].need
               /\ S1[i + 1] = Advance(S1[i], q[P1[i] + 1].value)
    <3>1. i \in 0..(m - 1) /\ i + 1 \in 0..(m - 1)
      BY <1>3
    <3>2. /\ S1[i] = S[i + 1] /\ P1[i] = P[i + 1]
          /\ S1[i + 1] = S[(i + 1) + 1] /\ P1[i + 1] = P[(i + 1) + 1]
      BY <2>1, <3>1
    <3> QED
      BY <1>1, <3>1, <3>2 DEF Run
  <2>7. Run(q, t, m - 1, S1, P1)
    BY <2>5, <2>6 DEF Run
  <2>8. Reads(q, t, S[1], P[1], e, z)
    BY <2>2, <2>4, <2>7 DEF Reads
  <2> QED
    BY <2>3, <2>8
<1> QED
  BY <1>2, <1>3

-----------------------------------------------------------------------------
(* _feed.                                                                  *)

Frames == [s : States, buf : Seq(Bytes), out : Seq(Bytes)]

\* _feed's loop over the first n bytes of q: what it has buffered, where it is in
\* the run to e behind z bytes, and what it puts on record.
Feeds(t, q, n, f, e, z) ==
  /\ f \in Frames
  /\ Len(f.buf) <= n /\ \A i \in 1..Len(f.buf) : f.buf[i] = q[(n - Len(f.buf)) + i]
  /\ Reads(q, t, f.s, n - Len(f.buf), e, z)
  /\ f.s.preserve = e.preserve
  /\ e.preserve = FALSE => f.out \in Seq(Clean)

Ending(q, e, z) == e.step = "done" \/ (e.need > 0 /\ z = Len(q))
Stuck(t, f) == ~Watches(f.s, t) \/ Len(f.buf) < f.s.need

\* The loop's body takes the next field, if it is all there.
LEMMA ConsumeKeeps ==
  ASSUME NEW t, NEW q \in Seq(Bytes), NEW n \in Nat, n <= Len(q), NEW e, NEW z,
         Ending(q, e, z), NEW f, Feeds(t, q, n, f, e, z), ~Stuck(t, f)
  PROVE  /\ Feeds(t, q, n, Consume(t, f), e, z)
         /\ Rank(Consume(t, f).s.step) \in Nat /\ Rank(f.s.step) \in Nat
         /\ Rank(Consume(t, f).s.step) < Rank(f.s.step)
<1> DEFINE need == f.s.need
           chunk == SubSeq(f.buf, 1, need)
           rest == SubSeq(f.buf, need + 1, Len(f.buf))
           c == n - Len(f.buf)
           a == Advance(f.s, chunk[1].value)
           new == IF f.s.preserve THEN chunk ELSE Recording(f.s, chunk)
<1>1. /\ f.s \in States /\ f.buf \in Seq(Bytes) /\ f.out \in Seq(Bytes) /\ Len(f.buf) \in Nat
      /\ Len(f.buf) <= n /\ Reads(q, t, f.s, c, e, z) /\ f.s.preserve = e.preserve
      /\ \A i \in 1..Len(f.buf) : f.buf[i] = q[c + i]
  BY DEF Feeds, Frames
<1>2. Watches(f.s, t) /\ need <= Len(f.buf) /\ need \in Nat /\ f.s.step # "done"
  BY <1>1 DEF Stuck, Watches, States
<1>3. Sound(f.s) /\ c \in Nat /\ Len(q) \in Nat
  BY <1>1, ReadsEnds
<1>4. ~(f.s = e /\ c = z)
  BY <1>1, <1>2, <1>3 DEF Ending
<1>0. c \in Nat /\ c + Len(f.buf) = n /\ need = f.s.need
  BY <1>1
<1>7. /\ chunk \in Seq(Bytes) /\ Len(chunk) = need
      /\ \A i \in 1..need : chunk[i] = f.buf[i]
  BY <1>1, <1>2
<1>8. /\ rest \in Seq(Bytes) /\ Len(rest) = Len(f.buf) - need
      /\ \A i \in 1..Len(rest) : rest[i] = f.buf[need + i]
  <2>1. \A b \in Seq(Bytes) : \A k \in 0..Len(b) :
          LET r == SubSeq(b, k + 1, Len(b)) IN
          /\ r \in Seq(Bytes) /\ Len(r) = Len(b) - k
          /\ \A i \in 1..Len(r) : r[i] = b[k + i]
    OBVIOUS
  <2>2. need \in 0..Len(f.buf)
    BY <1>1, <1>2
  <2> QED
    BY <1>1, <2>1, <2>2
<1> HIDE DEF c, need
<1>5. /\ FieldAt(q, f.s, c) /\ Legal(f.s, q[c + 1].value)
      /\ Reads(q, t, Advance(f.s, q[c + 1].value), c + f.s.need, e, z)
  BY <1>1, <1>4, ReadsTail
<1>6. need > 0 /\ \A j \in 1..need : q[c + j].kind = f.s.step
  BY <1>0, <1>5, FieldAtKind
<1> HIDE DEF chunk, rest
<1>9. chunk[1] = q[c + 1] /\ \A i \in 1..Len(chunk) : chunk[i].kind = f.s.step
  <2>1. \A i \in 1..need : i \in 1..Len(f.buf)
    BY <1>1, <1>2
  <2>2. \A i \in 1..need : chunk[i] = q[c + i]
    BY <1>1, <1>7, <2>1
  <2> QED
    BY <1>2, <1>6, <1>7, <2>2
<1>10. Consume(t, f) = [s |-> a, buf |-> rest, out |-> f.out \o new]
  BY DEF Consume, chunk, rest, need, Stuck
<1>11. /\ a \in States /\ a.preserve = f.s.preserve
       /\ Rank(a.step) \in Nat /\ Rank(f.s.step) \in 0..14 /\ Rank(a.step) < Rank(f.s.step)
  BY <1>1, <1>2, <1>3, <1>5, <1>9, AdvanceSound
<1>12. Recording(f.s, chunk) \in Seq(Clean) /\ Recording(f.s, chunk) \in Seq(Bytes)
  <2>1. Recording(f.s, chunk) \in Seq(Clean)
    BY <1>1, <1>3, <1>7, <1>9, RecordingClean
  <2>2. \A x \in Seq(Clean) : x \in Seq(Bytes)
    BY DEF Clean
  <2> QED
    BY <2>1, <2>2
<1>13. /\ f.out \o new \in Seq(Bytes)
       /\ e.preserve = FALSE => f.out \o new \in Seq(Clean)
  <2>1. new \in Seq(Bytes)
    BY <1>7, <1>12
  <2>2. e.preserve = FALSE => new \in Seq(Clean) /\ f.out \in Seq(Clean)
    BY <1>1, <1>12 DEF Feeds
  <2> HIDE DEF new
  <2> QED
    BY <1>1, <2>1, <2>2, Joined
<1>14. /\ Len(rest) <= n /\ n - Len(rest) = c + need
       /\ \A i \in 1..Len(rest) : rest[i] = q[(n - Len(rest)) + i]
  <2>1. Len(rest) \in Nat /\ Len(rest) <= n /\ n - Len(rest) = c + need
    <3>1. PICK l \in Nat, m \in Nat : l = Len(f.buf) /\ m = Len(rest)
      BY <1>1, <1>8
    <3>2. PICK x \in Nat, h \in Nat : x = c /\ h = need
      BY <1>0, <1>2
    <3>3. h <= l /\ l <= n /\ x + l = n /\ m = l - h
      BY <1>0, <1>1, <1>2, <1>8, <3>1, <3>2
    <3>4. m <= n /\ n - m = x + h
      BY <3>3
    <3> QED
      BY <3>1, <3>2, <3>4
  <2>2. ASSUME NEW i \in 1..Len(rest)
        PROVE  rest[i] = q[(n - Len(rest)) + i]
    <3>1. need + i \in 1..Len(f.buf) /\ (n - Len(rest)) + i = c + (need + i)
      <4>1. /\ Len(f.buf) \in Nat /\ need \in Nat /\ c \in Nat /\ Len(rest) \in Nat
            /\ Len(rest) = Len(f.buf) - need
        BY <1>0, <1>1, <1>2, <1>8, <2>1
      <4>2. need + i \in 1..Len(f.buf)
        BY <4>1
      <4>3. (n - Len(rest)) + i = (c + need) + i
        BY <2>1
      <4>4. (c + need) + i = c + (need + i)
        <5>1. \A x, y, d \in Int : (x + y) + d = x + (y + d)
          OBVIOUS
        <5>2. c \in Int /\ need \in Int /\ i \in Int
          BY <4>1
        <5> QED
          BY <5>1, <5>2
      <4> QED
        BY <4>2, <4>3, <4>4
    <3> QED
      BY <1>1, <1>8, <3>1
  <2> QED
    BY <2>1, <2>2
<1>15. Reads(q, t, a, n - Len(rest), e, z)
  BY <1>0, <1>5, <1>9, <1>14
<1> HIDE DEF a, new
<1> DEFINE g == [s |-> a, buf |-> rest, out |-> f.out \o new]
<1>16. g \in Frames /\ g.s = a /\ g.buf = rest /\ g.out = f.out \o new
  BY <1>8, <1>11, <1>13 DEF Frames
<1> HIDE DEF g
<1>17. Feeds(t, q, n, g, e, z)
  BY <1>1, <1>11, <1>13, <1>14, <1>15, <1>16 DEF Feeds
<1>18. Consume(t, f) = g
  BY <1>10 DEF g
<1> QED
  BY <1>11, <1>16, <1>17, <1>18

\* The loop leaves alone what it stops at.
LEMMA ConsumeStuck ==
  ASSUME NEW t, NEW f, Stuck(t, f) PROVE Consume(t, f) = f
BY DEF Stuck, Consume

\* The loop, turn by turn.
Turns(t, f, g) ==
  /\ g[0] = f /\ Loop(t, f) = g[14]
  /\ \A k \in 1..14 : g[k] = Consume(t, g[k - 1])

\* The loop is as many turns as _run has fields.
LEMMA LoopTurns ==
  ASSUME NEW t, NEW f PROVE \E g : Turns(t, f, g)
<1> DEFINE c1 == Consume(t, f)  c2 == Consume(t, c1)  c3 == Consume(t, c2)
           c4 == Consume(t, c3)  c5 == Consume(t, c4)  c6 == Consume(t, c5)
           c7 == Consume(t, c6)  c8 == Consume(t, c7)  c9 == Consume(t, c8)
           c10 == Consume(t, c9)  c11 == Consume(t, c10)  c12 == Consume(t, c11)
           c13 == Consume(t, c12)  c14 == Consume(t, c13)
<1>1. /\ c1 = Consume(t, f) /\ c2 = Consume(t, c1) /\ c3 = Consume(t, c2)
      /\ c4 = Consume(t, c3) /\ c5 = Consume(t, c4) /\ c6 = Consume(t, c5)
      /\ c7 = Consume(t, c6) /\ c8 = Consume(t, c7) /\ c9 = Consume(t, c8)
      /\ c10 = Consume(t, c9) /\ c11 = Consume(t, c10) /\ c12 = Consume(t, c11)
      /\ c13 = Consume(t, c12) /\ c14 = Consume(t, c13)
  OBVIOUS
<1> HIDE DEF c1, c2, c3, c4, c5, c6, c7, c8, c9, c10, c11, c12, c13, c14
<1> DEFINE w == [k \in 0..14 |->
                   CASE k = 0 -> f [] k = 1 -> c1 [] k = 2 -> c2 [] k = 3 -> c3 [] k = 4 -> c4
                     [] k = 5 -> c5 [] k = 6 -> c6 [] k = 7 -> c7 [] k = 8 -> c8 [] k = 9 -> c9
                     [] k = 10 -> c10 [] k = 11 -> c11 [] k = 12 -> c12 [] k = 13 -> c13
                     [] k = 14 -> c14]
           Is(g) == g = [k \in 0..14 |-> IF k = 0 THEN f ELSE Consume(t, g[k - 1])]
<1>2. /\ w[0] = f /\ w[1] = c1 /\ w[2] = c2 /\ w[3] = c3 /\ w[4] = c4 /\ w[5] = c5
      /\ w[6] = c6 /\ w[7] = c7 /\ w[8] = c8 /\ w[9] = c9 /\ w[10] = c10 /\ w[11] = c11
      /\ w[12] = c12 /\ w[13] = c13 /\ w[14] = c14
  OBVIOUS
<1>3. DOMAIN w = 0..14 /\ w = [k \in 0..14 |-> w[k]]
  OBVIOUS
<1> HIDE DEF w
<1>4. ASSUME NEW k \in 0..14, k # 0 PROVE w[k] = Consume(t, w[k - 1])
  <2>1. k \in {1, 2, 3, 4, 5, 6, 7, 8, 9, 10, 11, 12, 13, 14}
    BY <1>4
  <2> QED
    BY <1>1, <1>2, <2>1
<1>5. Is(w)
  <2>1. \A k \in 0..14 : w[k] = IF k = 0 THEN f ELSE Consume(t, w[k - 1])
    BY <1>2, <1>4
  <2> QED
    BY <1>3, <2>1
<1>6. PICK g : g = (CHOOSE h : Is(h)) /\ Is(g)
  BY <1>5
<1>7. Loop(t, f) = g[14]
  BY <1>6 DEF Loop, LongestRun
<1>8. g[0] = f /\ \A k \in 1..14 : g[k] = Consume(t, g[k - 1])
  BY <1>6
<1> QED
  BY <1>7, <1>8 DEF Turns

\* Fourteen turns are enough.
LEMMA LoopKeeps ==
  ASSUME NEW t, NEW q \in Seq(Bytes), NEW n \in Nat, n <= Len(q), NEW e, NEW z,
         Ending(q, e, z), NEW f, Feeds(t, q, n, f, e, z)
  PROVE  Feeds(t, q, n, Loop(t, f), e, z) /\ Stuck(t, Loop(t, f))
<1> DEFINE Turned(x, k) == /\ Feeds(t, q, n, x, e, z)
                           /\ Stuck(t, x) \/ (Rank(x.s.step) \in Nat /\ Rank(x.s.step) <= k)
<1>1. ASSUME NEW x, NEW k \in 1..14, Turned(x, k)
      PROVE  Turned(Consume(t, x), k - 1)
  <2>1. CASE Stuck(t, x)
    <3>1. Consume(t, x) = x
      BY <2>1, ConsumeStuck
    <3> QED
      BY <1>1, <2>1, <3>1
  <2>2. CASE ~Stuck(t, x)
    <3>1. /\ Feeds(t, q, n, Consume(t, x), e, z)
          /\ Rank(Consume(t, x).s.step) \in Nat
          /\ Rank(Consume(t, x).s.step) < Rank(x.s.step)
      BY <1>1, <2>2, ConsumeKeeps
    <3>2. Rank(Consume(t, x).s.step) <= k - 1
      BY <1>1, <2>2, <3>1
    <3> QED
      BY <3>1, <3>2
  <2> QED
    BY <2>1, <2>2
<1>20. PICK g : Turns(t, f, g)
  BY LoopTurns
<1>2. /\ g[0] = f /\ Loop(t, f) = g[14]
      /\ \A k \in 1..14 : g[k] = Consume(t, g[k - 1])
  BY <1>20 DEF Turns
<1>3. Turned(g[0], 14)
  <2>1. f.s.step \in Steps
    BY DEF Feeds, Frames, States
  <2>2. Rank(f.s.step) \in Nat /\ Rank(f.s.step) <= 14
    BY <2>1, RankValues DEF Steps, ClientSteps
  <2> QED
    BY <1>2, <2>2
<1> HIDE DEF Turned
<1>4. ASSUME NEW k \in 1..14, Turned(g[k - 1], 15 - k) PROVE Turned(g[k], 14 - k)
  <2>1. 15 - k \in 1..14 /\ (15 - k) - 1 = 14 - k
    OBVIOUS
  <2>2. Turned(Consume(t, g[k - 1]), (15 - k) - 1)
    BY <1>1, <1>4, <2>1
  <2>3. g[k] = Consume(t, g[k - 1])
    BY <1>2
  <2> QED
    BY <2>1, <2>2, <2>3
<1>5. Turned(g[1], 13)
  BY <1>3, <1>4
<1>6. Turned(g[2], 12)
  BY <1>5, <1>4
<1>7. Turned(g[3], 11)
  BY <1>6, <1>4
<1>8. Turned(g[4], 10)
  BY <1>7, <1>4
<1>9. Turned(g[5], 9)
  BY <1>8, <1>4
<1>10. Turned(g[6], 8)
  BY <1>9, <1>4
<1>11. Turned(g[7], 7)
  BY <1>10, <1>4
<1>12. Turned(g[8], 6)
  BY <1>11, <1>4
<1>13. Turned(g[9], 5)
  BY <1>12, <1>4
<1>14. Turned(g[10], 4)
  BY <1>13, <1>4
<1>15. Turned(g[11], 3)
  BY <1>14, <1>4
<1>16. Turned(g[12], 2)
  BY <1>15, <1>4
<1>17. Turned(g[13], 1)
  BY <1>16, <1>4
<1>18. Turned(g[14], 0)
  BY <1>17, <1>4
<1>19. Feeds(t, q, n, g[14], e, z) /\ Stuck(t, g[14])
  <2>1. Turned(g[14], 0)
    BY <1>18
  <2>2. ASSUME ~Stuck(t, g[14]) PROVE FALSE
    <3>1. /\ Feeds(t, q, n, g[14], e, z)
          /\ Rank(g[14].s.step) \in Nat /\ Rank(g[14].s.step) <= 0
      BY <2>1, <2>2 DEF Turned
    <3>2. /\ Rank(Consume(t, g[14]).s.step) \in Nat
          /\ Rank(Consume(t, g[14]).s.step) < Rank(g[14].s.step)
      BY <2>2, <3>1, ConsumeKeeps
    <3> QED
      BY <3>1, <3>2
  <2> QED
    BY <2>1, <2>2 DEF Turned
<1> QED
  BY <1>2, <1>19

\* The loop does nothing in a direction that is not watched.
LEMMA LoopIdle ==
  ASSUME NEW t, NEW f, Stuck(t, f) PROVE Loop(t, f) = f
<1>5. PICK g : Turns(t, f, g)
  BY LoopTurns
<1>1. /\ g[0] = f /\ Loop(t, f) = g[14]
      /\ \A k \in 1..14 : g[k] = Consume(t, g[k - 1])
  BY <1>5 DEF Turns
<1>2. Consume(t, f) = f
  BY ConsumeStuck
<1>3. g[1] = f /\ g[2] = f /\ g[3] = f /\ g[4] = f /\ g[5] = f /\ g[6] = f /\ g[7] = f
  BY <1>1, <1>2
<1>4. g[8] = f /\ g[9] = f /\ g[10] = f /\ g[11] = f /\ g[12] = f /\ g[13] = f /\ g[14] = f
  BY <1>1, <1>2, <1>3
<1> QED
  BY <1>1, <1>4

\* The two directions.
LEMMA TwoTaps ==
  ASSUME NEW t \in Taps
  PROVE  /\ Other(t) \in Taps /\ Other(t) # t /\ Other(Other(t)) = t
         /\ \A u \in Taps : u = t \/ u = Other(t)
BY DEF Taps, Other

\* _run watches one direction at a time.
LEMMA WatchesOne ==
  ASSUME NEW s, NEW t \in Taps, Watches(s, t) PROVE ~Watches(s, Other(t)) /\ s.step # "done"
BY DEF Watches, Taps, Other

\* Past the last field, _run waits for one of at least a byte, or has ended.
LEMMA DueAwaits ==
  ASSUME NEW e, Due(e) PROVE e.need > 0 /\ e.step # "done"
BY DEF Due, Awaits, ARD_CREDENTIALS_LEN

\* What _feed does in direction t, as far as the run there is concerned.
Fed(t, e, z, n, r) ==
  /\ r \in Frames /\ r.s.preserve = scrubber.preserve
  /\ Len(r.buf) <= n /\ \A i \in 1..Len(r.buf) : r.buf[i] = sent[t][(n - Len(r.buf)) + i]
  /\ Reads(sent[t], t, r.s, n - Len(r.buf), e, z)
  /\ IF Watches(r.s, t) THEN Len(r.buf) < r.s.need ELSE r.buf = <<>>

\* What _feed starts from when k more bytes of direction t arrive.
Arrives(t, k) ==
  [s |-> scrubber, buf |-> pending[t] \o SubSeq(sent[t], fed[t] + 1, fed[t] + k), out |-> <<>>]

\* It is the run, as far as its bytes have arrived.
LEMMA FeedStarts ==
  ASSUME Typed, Streams, NEW t \in Taps, NEW e, NEW z, InRun(t, e, z), Due(e) \/ e.step = "done",
         NEW k \in Nat, fed[t] + k <= Len(sent[t])
  PROVE  LET f == Arrives(t, k) IN
         /\ Feeds(t, sent[t], fed[t] + k, f, e, z) /\ Ending(sent[t], e, z)
         /\ f.s = scrubber /\ f.out = <<>> /\ (fed[t] + k) - Len(f.buf) = At(t)
<1> DEFINE n == fed[t] + k
           q == sent[t]
           data == SubSeq(q, fed[t] + 1, n)
           buf == pending[t] \o data
           f == [s |-> scrubber, buf |-> buf, out |-> <<>>]
<1>1. /\ q \in Seq(Bytes) /\ Len(q) \in Nat /\ fed[t] \in Nat /\ pending[t] \in Seq(Bytes)
      /\ scrubber \in States /\ Len(pending[t]) \in Nat
  BY DEF Typed
<1>2. /\ n \in Nat /\ n <= Len(q) /\ Len(pending[t]) <= fed[t]
      /\ At(t) = fed[t] - Len(pending[t]) /\ At(t) \in Nat
      /\ \A i \in 1..Len(pending[t]) : pending[t][i] = q[At(t) + i]
  BY <1>1 DEF Streams, At
<1>3. /\ data \in Seq(Bytes) /\ Len(data) = k
      /\ \A i \in 1..k : data[i] = q[fed[t] + i]
  <2>1. \A m \in Nat : m + k <= Len(q) =>
          /\ SubSeq(q, m + 1, m + k) \in Seq(Bytes) /\ Len(SubSeq(q, m + 1, m + k)) = k
          /\ \A i \in 1..k : SubSeq(q, m + 1, m + k)[i] = q[m + i]
    BY <1>1, Sliced
  <2> QED
    BY <1>1, <2>1
<1> HIDE DEF data
<1>4. /\ buf \in Seq(Bytes) /\ Len(buf) = Len(pending[t]) + k
      /\ \A i \in 1..Len(buf) : buf[i] = q[At(t) + i]
  <2>1. /\ buf \in Seq(Bytes) /\ Len(buf) = Len(pending[t]) + k
        /\ \A i \in 1..Len(pending[t]) : buf[i] = pending[t][i]
        /\ \A i \in 1..k : buf[Len(pending[t]) + i] = data[i]
    <3>1. \A p, b \in Seq(Bytes) :
            /\ p \o b \in Seq(Bytes) /\ Len(p \o b) = Len(p) + Len(b)
            /\ \A i \in 1..Len(p) : (p \o b)[i] = p[i]
            /\ \A i \in 1..Len(b) : (p \o b)[Len(p) + i] = b[i]
      BY Joined
    <3> QED
      BY <1>1, <1>3, <3>1
  <2>2. ASSUME NEW i \in 1..Len(buf) PROVE buf[i] = q[At(t) + i]
    <3>1. CASE i \in 1..Len(pending[t])
      BY <1>2, <2>1, <3>1
    <3>2. CASE i \notin 1..Len(pending[t])
      <4>1. PICK j \in 1..k : i = Len(pending[t]) + j
        <5>1. i - Len(pending[t]) \in 1..k /\ i = Len(pending[t]) + (i - Len(pending[t]))
          BY <1>1, <2>1, <3>2
        <5> QED
          BY <5>1
      <4>2. fed[t] + j = At(t) + i
        <5>1. \A x, y, d \in Int : x + d = (x - y) + (y + d)
          OBVIOUS
        <5>2. fed[t] \in Int /\ Len(pending[t]) \in Int /\ j \in Int
          BY <1>1
        <5>3. fed[t] + j = (fed[t] - Len(pending[t])) + (Len(pending[t]) + j)
          BY <5>1, <5>2
        <5> QED
          BY <1>2, <4>1, <5>3
      <4> QED
        BY <1>3, <2>1, <4>1, <4>2
    <3> QED
      BY <3>1, <3>2
  <2> QED
    BY <2>1, <2>2
<1> HIDE DEF buf
<1>5. f \in Frames /\ f.s = scrubber /\ f.buf = buf /\ f.out = <<>>
  BY <1>1, <1>4 DEF Frames
<1> HIDE DEF f
<1>6. n - Len(f.buf) = At(t) /\ Len(f.buf) <= n
  <2>1. \A x, y \in Nat : y <= x => (x + k) - (y + k) = x - y /\ y + k <= x + k
    OBVIOUS
  <2>2. Len(f.buf) = Len(pending[t]) + k
    BY <1>4, <1>5
  <2>3. /\ (fed[t] + k) - (Len(pending[t]) + k) = fed[t] - Len(pending[t])
        /\ Len(pending[t]) + k <= fed[t] + k
    <3>1. fed[t] \in Nat /\ Len(pending[t]) \in Nat /\ Len(pending[t]) <= fed[t]
      BY <1>1, <1>2
    <3> QED
      BY ONLY <2>1, <3>1
  <2>4. At(t) = fed[t] - Len(pending[t])
    BY <1>2
  <2> QED
    BY ONLY <2>2, <2>3, <2>4
<1>7. Feeds(t, q, n, f, e, z)
  <2>1. \A i \in 1..Len(f.buf) : f.buf[i] = q[(n - Len(f.buf)) + i]
    BY <1>4, <1>5, <1>6
  <2>2. Reads(q, t, f.s, n - Len(f.buf), e, z) /\ f.s.preserve = e.preserve
    BY <1>5, <1>6 DEF InRun
  <2>3. f.out \in Seq(Clean)
    BY <1>5
  <2> QED
    BY <1>5, <1>6, <2>1, <2>2, <2>3 DEF Feeds
<1>8. Ending(q, e, z)
  <2>1. CASE Due(e)
    BY <2>1, DueAwaits DEF Ending, InRun, Loose
  <2>2. CASE e.step = "done"
    BY <2>2 DEF Ending
  <2> QED
    BY <2>1, <2>2
<1>9. f = Arrives(t, k)
  BY DEF f, buf, data, Arrives
<1> QED
  BY <1>5, <1>6, <1>7, <1>8, <1>9

\* Feeding the direction of the run reads on in it.
LEMMA FeedHere ==
  ASSUME Typed, Streams, NEW t \in Taps, NEW e, NEW z, InRun(t, e, z), Due(e) \/ e.step = "done",
         NEW k \in Nat, fed[t] + k <= Len(sent[t])
  PROVE  LET r == Feed(t, SubSeq(sent[t], fed[t] + 1, fed[t] + k)) IN
         /\ \E y : Fed(t, e, y, fed[t] + k, r) /\ Loose(t, e, y)
         /\ e.preserve = FALSE /\ r.s.abort = FALSE => r.out \in Seq(Clean)
<1> DEFINE n == fed[t] + k
           q == sent[t]
           data == SubSeq(q, fed[t] + 1, n)
           g == Loop(t, Arrives(t, k))
           r == Feed(t, data)
<1>1. q \in Seq(Bytes) /\ Len(q) \in Nat /\ fed[t] \in Nat
  BY DEF Typed
<1>2. n \in Nat /\ n <= Len(q)
  BY <1>1
<1>3. Feeds(t, q, n, Arrives(t, k), e, z) /\ Ending(q, e, z)
  BY FeedStarts
<1>10. r = IF Watches(g.s, t) THEN g ELSE [g EXCEPT !.buf = <<>>, !.out = g.out \o g.buf]
  BY DEF Feed, Arrives
<1> HIDE DEF n, q, data
<1>9. Feeds(t, q, n, g, e, z) /\ Stuck(t, g)
  BY <1>1, <1>2, <1>3, LoopKeeps
<1> HIDE DEF g, r
<1>11. /\ g \in Frames /\ Len(g.buf) <= n /\ Len(g.buf) \in Nat /\ g.buf \in Seq(Bytes)
       /\ g.out \in Seq(Bytes) /\ g.s \in States
       /\ \A i \in 1..Len(g.buf) : g.buf[i] = q[(n - Len(g.buf)) + i]
       /\ Reads(q, t, g.s, n - Len(g.buf), e, z) /\ g.s.preserve = scrubber.preserve
       /\ e.preserve = FALSE => g.out \in Seq(Clean)
  BY <1>9 DEF Feeds, Frames, InRun
<1>12. CASE Watches(g.s, t)
  <2>1. r = g /\ Len(g.buf) < g.s.need
    BY <1>9, <1>10, <1>12 DEF Stuck, Feeds, Frames, States
  <2>2. Fed(t, e, z, n, r)
    BY <1>11, <1>12, <2>1 DEF Fed, q
  <2>3. Loose(t, e, z)
    BY DEF InRun
  <2> QED
    BY <1>11, <2>1, <2>2, <2>3 DEF r, data, n, q
<1>13. CASE ~Watches(g.s, t)
  <2>1. g.s = e /\ n - Len(g.buf) = z
    BY <1>11, <1>13, ReadsTail
  <2>2. r \in Frames /\ r.s = e /\ r.buf = <<>> /\ r.out = g.out \o g.buf
    <3>1. g.out \o g.buf \in Seq(Bytes) /\ <<>> \in Seq(Bytes)
      BY <1>11, Joined
    <3>2. r = [g EXCEPT !.buf = <<>>, !.out = g.out \o g.buf]
      BY <1>10, <1>13
    <3> QED
      BY <1>11, <2>1, <3>1, <3>2 DEF Frames
  <2>3. e \in States /\ Sound(e) /\ z \in Nat
    BY <1>11, ReadsEnds
  <2>4. z <= n /\ (e.step # "done" => n = Len(q))
    <3>1. e.step # "done" => z = Len(q)
      BY DEF InRun, Loose, q
    <3> QED
      BY <1>1, <1>2, <1>11, <2>1, <2>3, <3>1
  <2>5. Fed(t, e, n, n, r)
    <3>1. Reads(q, t, e, n, e, n)
      BY <1>2, <2>3, ReadsNothing
    <3>2. Len(r.buf) = 0 /\ n - Len(r.buf) = n /\ Len(r.buf) <= n
      BY <1>2, <2>2
    <3>3. e.preserve = scrubber.preserve
      BY DEF InRun
    <3>4. \A i \in 1..Len(r.buf) : r.buf[i] = q[(n - Len(r.buf)) + i]
      BY <3>2
    <3> QED
      BY <1>13, <2>1, <2>2, <3>1, <3>2, <3>3, <3>4 DEF Fed, q
  <2>6. Loose(t, e, n)
    <3>1. \A j \in (n + 1)..Len(q) : j \in (z + 1)..Len(q)
      BY <1>1, <1>2, <2>3, <2>4
    <3>2. Loose(t, e, z)
      BY DEF InRun
    <3> QED
      BY <2>4, <3>1, <3>2 DEF Loose, q
  <2>7. ASSUME e.preserve = FALSE, e.abort = FALSE
        PROVE  g.out \o g.buf \in Seq(Clean)
    <3>1. \A j \in (z + 1)..Len(q) : Plain(q[j].kind)
      BY <2>7 DEF InRun, Loose, q
    <3>2. ASSUME NEW i \in 1..Len(g.buf) PROVE g.buf[i] \in Clean
      <4>1. g.buf[i] = q[z + i] /\ g.buf[i] \in Bytes
        BY <1>11, <2>1
      <4>2. z + i \in (z + 1)..Len(q)
        BY <1>1, <1>2, <1>11, <2>1, <2>3
      <4> QED
        BY <3>1, <4>1, <4>2 DEF Clean, Plain, Secrets
    <3>3. g.buf \in Seq(Clean)
      BY <1>11, <3>2
    <3>4. g.out \in Seq(Clean)
      BY <1>11, <2>7
    <3> QED
      BY <3>3, <3>4, Joined
  <2> QED
    BY <2>2, <2>5, <2>6, <2>7 DEF r, data, n, q
<1> QED
  BY <1>12, <1>13

\* What _feed does in the direction that the run is not in: both ends speak as they
\* like, once _run has all it needs.
LEMMA FeedThere ==
  ASSUME Typed, Streams, NEW t \in Taps, NEW e, NEW z, InRun(Other(t), e, z),
         NEW k \in Nat, k > 0, fed[t] + k <= Len(sent[t])
  PROVE  LET r == Feed(t, SubSeq(sent[t], fed[t] + 1, fed[t] + k)) IN
         /\ r.s = scrubber /\ r.buf = <<>> /\ r.out \in Seq(Bytes) /\ e.step = "done"
         /\ r.out = SubSeq(sent[t], fed[t] + 1, fed[t] + k) /\ pending[t] = <<>>
         /\ e.preserve = FALSE => r.out \in Seq(Clean)
<1> DEFINE q == sent[t]
           data == SubSeq(q, fed[t] + 1, fed[t] + k)
           f == [s |-> scrubber, buf |-> pending[t] \o data, out |-> <<>>]
           r == Feed(t, data)
<1>1. /\ q \in Seq(Bytes) /\ Len(q) \in Nat /\ fed[t] \in Nat /\ scrubber \in States
      /\ Other(t) \in Taps /\ Other(Other(t)) = t
  BY TwoTaps DEF Typed
<1>2. pending[t] = <<>> /\ e.step = "done"
  BY <1>1 DEF InRun, Held, Loose
<1>3. ~Watches(scrubber, t)
  <2>1. scrubber = e \/ Watches(scrubber, Other(t))
    BY ReadsTail DEF InRun
  <2>2. CASE scrubber = e
    BY <1>2, <2>2 DEF Watches
  <2>3. CASE Watches(scrubber, Other(t))
    BY <1>1, <2>3, WatchesOne
  <2> QED
    BY <2>1, <2>2, <2>3
<1>4. /\ data \in Seq(Bytes) /\ Len(data) = k
      /\ \A i \in 1..k : data[i] = q[fed[t] + i]
  <2>1. \A m \in Nat : m + k <= Len(q) =>
          /\ SubSeq(q, m + 1, m + k) \in Seq(Bytes) /\ Len(SubSeq(q, m + 1, m + k)) = k
          /\ \A i \in 1..k : SubSeq(q, m + 1, m + k)[i] = q[m + i]
    BY <1>1, Sliced
  <2> QED
    BY <1>1, <2>1
<1> HIDE DEF data
<1>5. pending[t] \o data = data
  BY <1>2, <1>4, ConcatEmptySeq
<1>12. f.s = scrubber /\ f.out = <<>> /\ f.buf = pending[t] \o data
  OBVIOUS
<1>13. r = LET g == Loop(t, f) IN
           IF Watches(g.s, t) THEN g ELSE [g EXCEPT !.buf = <<>>, !.out = g.out \o g.buf]
  BY DEF Feed
<1>14. f \in [s : {scrubber}, buf : {pending[t] \o data}, out : {<<>>}]
  OBVIOUS
<1> HIDE DEF f, r
<1>6. Stuck(t, f)
  BY <1>3, <1>12 DEF Stuck
<1>7. Loop(t, f) = f
  BY <1>6, LoopIdle
<1>8. r = [f EXCEPT !.buf = <<>>, !.out = f.out \o f.buf]
  BY <1>3, <1>7, <1>12, <1>13
<1>9. f.out \o f.buf = data
  BY <1>4, <1>5, <1>12, ConcatEmptySeq
<1>10. r.s = scrubber /\ r.buf = <<>> /\ r.out = data
  BY <1>8, <1>9, <1>12, <1>14
<1>11. ASSUME e.preserve = FALSE PROVE data \in Seq(Clean)
  <2>1. \A j \in (fed[t] + 1)..Len(q) : Plain(q[j].kind)
    BY <1>1, <1>11 DEF InRun, Loose
  <2>2. ASSUME NEW i \in 1..k PROVE data[i] \in Clean
    <3>1. data[i] = q[fed[t] + i] /\ data[i] \in Bytes /\ fed[t] + i \in (fed[t] + 1)..Len(q)
      BY <1>1, <1>4
    <3> QED
      BY <2>1, <3>1 DEF Clean, Plain, Secrets
  <2> QED
    BY <1>4, <2>2
<1> QED
  BY <1>2, <1>4, <1>10, <1>11 DEF r, data

-----------------------------------------------------------------------------
(* The proxy's steps.                                                      *)

\* TCP delivers some of the bytes that an end has sent.
LEMMA Delivered ==
  ASSUME Typed, NEW t \in Taps, DataReceived(t)
  PROVE  \E k \in Nat :
           /\ k > 0 /\ fed[t] + k <= Len(sent[t]) /\ capture = "held"
           /\ fed' = [fed EXCEPT ![t] = @ + k]
           /\ FeedCapture(t, SubSeq(sent[t], fed[t] + 1, fed[t] + k))
           /\ IF scrubber'.abort THEN AbortCapture ELSE UNCHANGED <<capture, stage>>
           /\ UNCHANGED <<sent, agreed, chosen>>
<1>1. PICK chunk \in Chunks :
        LET unheard == Len(sent[t]) - fed[t]
            n == IF chunk < unheard THEN chunk ELSE unheard
        IN  /\ capture = "held" /\ n > 0
            /\ fed' = [fed EXCEPT ![t] = @ + n]
            /\ FeedCapture(t, SubSeq(sent[t], fed[t] + 1, fed[t] + n))
            /\ IF scrubber'.abort THEN AbortCapture ELSE UNCHANGED <<capture, stage>>
            /\ UNCHANGED <<sent, agreed, chosen>>
  BY DEF DataReceived
<1> DEFINE unheard == Len(sent[t]) - fed[t]
           n == IF chunk < unheard THEN chunk ELSE unheard
<1>2. chunk \in Nat /\ Len(sent[t]) \in Nat /\ fed[t] \in Nat /\ n > 0
  BY <1>1, ScrubberAssumption DEF Typed
<1>3. n \in Nat /\ n > 0 /\ fed[t] + n <= Len(sent[t])
  BY <1>2
<1> QED
  BY <1>1, <1>3

\* Bytes arrive from either end.
LEMMA DataKeeps ==
  ASSUME IInv, NEW t \in Taps, DataReceived(t) PROVE IInv'
<1>1. PICK k \in Nat :
        /\ k > 0 /\ fed[t] + k <= Len(sent[t]) /\ capture = "held"
        /\ fed' = [fed EXCEPT ![t] = @ + k]
        /\ FeedCapture(t, SubSeq(sent[t], fed[t] + 1, fed[t] + k))
        /\ IF scrubber'.abort THEN AbortCapture ELSE UNCHANGED <<capture, stage>>
        /\ UNCHANGED <<sent, agreed, chosen>>
  BY Delivered DEF IInv
<1> DEFINE N == fed[t] + k
           r == Feed(t, SubSeq(sent[t], fed[t] + 1, fed[t] + k))
           o == Other(t)
<1>2. /\ scrubber' = r.s /\ pending' = [pending EXCEPT ![t] = r.buf]
      /\ recorded' = [recorded EXCEPT ![t] = @ \o r.out]
  BY <1>1 DEF FeedCapture
<1>3. /\ Typed /\ Streams /\ Told /\ CleanRecord /\ scrubber.abort = FALSE /\ Follows
      /\ stage \notin {"closed", "lost"}
  BY <1>1 DEF IInv
<1>4. /\ o \in Taps /\ o # t /\ Other(o) = t /\ \A u \in Taps : u = t \/ u = o
  BY TwoTaps
<1>5. /\ fed \in [Taps -> Nat] /\ sent \in [Taps -> Seq(Bytes)] /\ sent' = sent
      /\ pending \in [Taps -> Seq(Bytes)] /\ recorded \in [Taps -> Seq(Bytes)]
      /\ N \in Nat /\ N <= Len(sent[t])
  BY <1>1, <1>3 DEF Typed
<1> HIDE DEF r, o
<1>6. /\ fed'[t] = N /\ fed'[o] = fed[o] /\ pending'[t] = r.buf /\ pending'[o] = pending[o]
      /\ recorded'[t] = recorded[t] \o r.out /\ recorded'[o] = recorded[o]
  BY <1>1, <1>2, <1>4, <1>5
<1>7. At(t)' = N - Len(r.buf) /\ At(o)' = At(o)
  BY <1>6 DEF At
<1> HIDE DEF N
<1>8. ASSUME r.s \in States, r.buf \in Seq(Bytes), r.out \in Seq(Bytes), Len(r.buf) <= N,
             \A i \in 1..Len(r.buf) : r.buf[i] = sent[t][(N - Len(r.buf)) + i]
      PROVE  Typed' /\ Streams'
  <2>1. recorded[t] \o r.out \in Seq(Bytes)
    BY <1>5, <1>8, Joined
  <2>2. Typed'
    BY <1>1, <1>2, <1>3, <1>5, <1>6, <1>8, <2>1 DEF Typed, N
  <2>3. /\ fed'[t] <= Len(sent'[t]) /\ Len(pending'[t]) <= fed'[t]
        /\ \A i \in 1..Len(pending'[t]) : pending'[t][i] = sent'[t][At(t)' + i]
    BY <1>5, <1>6, <1>7, <1>8
  <2>4. /\ fed'[o] <= Len(sent'[o]) /\ Len(pending'[o]) <= fed'[o]
        /\ \A i \in 1..Len(pending'[o]) : pending'[o][i] = sent'[o][At(o)' + i]
    BY <1>3, <1>4, <1>5, <1>6, <1>7 DEF Streams
  <2>5. Streams'
    BY <1>4, <2>3, <2>4 DEF Streams
  <2> QED
    BY <2>2, <2>5
<1>9. ASSUME scrubber'.abort = FALSE
      PROVE  /\ capture' = "held" /\ stage' = stage /\ Told'
             /\ \A e : Due(e) => Due(e)'
             /\ \A u, e : Over(u, e) => Over(u, e)'
  <2>1. UNCHANGED <<capture, stage, sent, agreed, chosen>>
    BY <1>1, <1>9
  <2>2. Told'
    BY <1>3, <2>1 DEF Told
  <2>3. \A e : Due(e) => Due(e)'
    BY <2>1 DEF Due
  <2>4. \A u, e : Over(u, e) => Over(u, e)'
    BY <2>1 DEF Over, GivesUp, Unfollowable
  <2> QED
    BY <1>1, <2>1, <2>2, <2>3, <2>4
<1>10. ASSUME scrubber'.preserve = scrubber.preserve,
              scrubber'.abort = FALSE /\ scrubber.preserve = FALSE => r.out \in Seq(Clean),
              scrubber'.abort = FALSE
       PROVE  CleanRecord'
  <2>1. SUFFICES ASSUME scrubber'.preserve = FALSE, NEW u \in Taps
                 PROVE  recorded'[u] \in Seq(Clean)
    BY DEF CleanRecord
  <2>2. recorded[t] \in Seq(Clean) /\ recorded[o] \in Seq(Clean)
    BY <1>1, <1>3, <1>4, <1>10, <2>1 DEF CleanRecord, Kept
  <2>3. recorded[t] \o r.out \in Seq(Clean)
    BY <1>10, <2>1, <2>2, Joined
  <2> QED
    BY <1>4, <1>6, <2>2, <2>3
<1>11. ASSUME NEW e, NEW z, InRun(t, e, z), Due(e) \/ Over(t, e) PROVE IInv'
  <2>1. Due(e) \/ e.step = "done"
    BY <1>11 DEF Over
  <2>2. /\ \E y : Fed(t, e, y, fed[t] + k, r) /\ Loose(t, e, y)
        /\ e.preserve = FALSE /\ r.s.abort = FALSE => r.out \in Seq(Clean)
    BY <1>1, <1>3, <1>11, <2>1, FeedHere DEF r
  <2>3. PICK y : Fed(t, e, y, N, r) /\ Loose(t, e, y)
    BY <2>2 DEF N
  <2>4. /\ r \in Frames /\ r.s.preserve = scrubber.preserve /\ Len(r.buf) <= N
        /\ \A i \in 1..Len(r.buf) : r.buf[i] = sent[t][(N - Len(r.buf)) + i]
        /\ Reads(sent[t], t, r.s, N - Len(r.buf), e, y)
        /\ IF Watches(r.s, t) THEN Len(r.buf) < r.s.need ELSE r.buf = <<>>
        /\ e.preserve = scrubber.preserve
    BY <1>11, <2>3 DEF Fed, InRun
  <2>5. Typed' /\ Streams'
    <3>1. r.s \in States /\ r.buf \in Seq(Bytes) /\ r.out \in Seq(Bytes)
      BY <2>4 DEF Frames
    <3> QED
      BY <1>8, <2>4, <3>1
  <2>6. CASE scrubber'.abort = FALSE
    <3>1. CleanRecord'
      BY <1>2, <1>10, <2>2, <2>4, <2>6
    <3>2. Held(t)'
      <4>1. pending'[Other(t)] = <<>>
        BY <1>6, <1>11 DEF InRun, Held, o
      <4> QED
        BY <1>2, <1>6, <2>4, <4>1 DEF Held
    <3>3. Loose(t, e, y)'
      BY <1>5, <1>6, <2>3 DEF Loose, o
    <3>4. Reads(sent[t], t, scrubber, At(t), e, y)'
      BY <1>2, <1>5, <1>7, <2>4
    <3>5. InRun(t, e, y)'
      BY <1>2, <2>4, <3>2, <3>3, <3>4 DEF InRun
    <3>6. (Due(e) \/ Over(t, e))'
      BY <1>9, <1>11, <2>6
    <3>7. Follows'
      BY <3>5, <3>6 DEF Follows
    <3> QED
      BY <1>3, <1>9, <2>5, <2>6, <3>1, <3>7 DEF IInv
  <2>7. CASE scrubber'.abort = TRUE
    <3>1. capture' = "dropped" /\ stage' = "closed" /\ UNCHANGED <<sent, agreed, chosen>>
      BY <1>1, <2>7 DEF AbortCapture
    <3>2. r.s.abort = TRUE /\ Sound(r.s)
      BY <1>2, <2>4, <2>7, ReadsEnds
    <3>3. r.s.step = "done" /\ r.s.preserve = FALSE
      BY <3>2 DEF Sound
    <3>4. r.s = e
      BY <2>4, <3>3, ReadsTail DEF Watches
    <3>5. Unfollowable
      <4>1. ~Due(e)
        BY <3>3, <3>4, DueAwaits
      <4> QED
        BY <1>3, <1>11, <3>2, <3>3, <3>4, <4>1 DEF Over, GivesUp, Told
    <3>6. Unfollowable' /\ Told' /\ CleanRecord'
      BY <3>1, <3>5 DEF Unfollowable, Told, CleanRecord, Kept
    <3>7. scrubber'.preserve = FALSE
      BY <1>2, <3>3
    <3> QED
      BY <2>5, <3>1, <3>6, <3>7 DEF IInv
  <2> QED
    BY <2>5, <2>6, <2>7 DEF Typed, States
<1>12. ASSUME NEW e, NEW z, InRun(o, e, z), Due(e) \/ Over(o, e) PROVE IInv'
  <2>1. /\ r.s = scrubber /\ r.buf = <<>> /\ r.out \in Seq(Bytes) /\ e.step = "done"
        /\ e.preserve = FALSE => r.out \in Seq(Clean)
    BY <1>1, <1>3, <1>12, FeedThere DEF r, o
  <2>2. Typed' /\ Streams'
    <3>1. r.s \in States /\ r.buf \in Seq(Bytes) /\ Len(r.buf) <= N
      BY <1>3, <1>5, <2>1 DEF Typed
    <3>2. \A i \in 1..Len(r.buf) : r.buf[i] = sent[t][(N - Len(r.buf)) + i]
      BY <2>1
    <3> QED
      BY <1>8, <2>1, <3>1, <3>2
  <2>3. scrubber' = scrubber /\ scrubber'.abort = FALSE
    BY <1>2, <1>3, <2>1
  <2>4. CleanRecord'
    BY <1>10, <1>12, <2>1, <2>3 DEF InRun
  <2>5. Held(o)'
    BY <1>4, <1>6, <1>12, <2>1, <2>3 DEF InRun, Held
  <2>6. Loose(o, e, z)'
    <3>1. \A j \in (fed[t] + k + 1)..Len(sent[t]) : j \in (fed[t] + 1)..Len(sent[t])
      BY <1>5
    <3>2. Loose(o, e, z)
      BY <1>12 DEF InRun
    <3> QED
      BY <1>4, <1>5, <1>6, <2>1, <3>1, <3>2 DEF Loose, N
  <2>7. InRun(o, e, z)'
    BY <1>5, <1>7, <1>12, <2>3, <2>5, <2>6 DEF InRun
  <2>8. Follows'
    BY <1>4, <1>9, <1>12, <2>3, <2>7 DEF Follows
  <2> QED
    BY <1>3, <1>9, <2>2, <2>3, <2>4, <2>8 DEF IInv
<1>13. PICK u \in Taps : \E e, z : InRun(u, e, z) /\ (Due(e) \/ Over(u, e))
  BY <1>3 DEF Follows
<1>14. PICK e, z : InRun(u, e, z) /\ (Due(e) \/ Over(u, e))
  BY <1>13
<1> QED
  BY <1>4, <1>11, <1>12, <1>14

-----------------------------------------------------------------------------
(* The ends' steps.                                                        *)

\* Once all that was sent in the run's direction has been received, it is read.
LEMMA Heard ==
  ASSUME Typed, Streams, NEW t \in Taps, NEW e, NEW z, InRun(t, e, z), fed[t] = Len(sent[t])
  PROVE  scrubber = e /\ At(t) = z
<1>1. /\ Len(sent[t]) \in Nat /\ Len(pending[t]) \in Nat /\ scrubber.need \in Nat
      /\ At(t) = Len(sent[t]) - Len(pending[t])
  BY DEF Typed, At, States
<1>2. ASSUME Watches(scrubber, t), FieldAt(sent[t], scrubber, At(t)) PROVE FALSE
  <2>1. At(t) + scrubber.need <= Len(sent[t]) /\ Len(pending[t]) < scrubber.need
    BY <1>2 DEF FieldAt, InRun, Held
  <2>2. \A l, p, n \in Nat : ~((l - p) + n <= l /\ p < n)
    OBVIOUS
  <2> QED
    BY <1>1, <2>1, <2>2
<1> QED
  BY <1>2, ReadsTail DEF InRun

\* An end that has heard all speaks next in the run.
LEMMA Turn ==
  ASSUME Typed, Streams, NEW t \in Taps, NEW e, NEW z, InRun(t, e, z), NEW u \in Taps,
         Due(e), Watches(e, u), fed[Other(u)] = Len(sent[Other(u)])
  PROVE  InRun(u, e, Len(sent[u]))
<1>1. e.step # "done" /\ Other(u) \in Taps /\ Other(Other(u)) = u
  BY WatchesOne, TwoTaps
<1>2. z = Len(sent[t]) /\ fed[Other(t)] = Len(sent[Other(t)])
  BY <1>1 DEF InRun, Loose
<1>3. CASE t = u
  BY <1>2, <1>3
<1>4. CASE t = Other(u)
  <2>1. scrubber = e /\ At(t) = z
    BY <1>4, Heard
  <2>2. /\ fed[u] = Len(sent[u]) /\ fed[t] = Len(sent[t]) /\ pending[u] = <<>>
        /\ Len(sent[u]) \in Nat /\ sent[u] \in Seq(Bytes)
    BY <1>1, <1>2, <1>4 DEF InRun, Held, Typed
  <2>3. At(u) = Len(sent[u])
    BY <2>2 DEF At
  <2>4. e \in States /\ Sound(e)
    BY ReadsEnds DEF InRun
  <2>5. Reads(sent[u], u, scrubber, At(u), e, Len(sent[u]))
    BY <2>1, <2>2, <2>3, <2>4, ReadsNothing
  <2>6. pending[t] = <<>>
    <3>1. pending[t] \in Seq(Bytes) /\ Len(pending[t]) \in Nat /\ Len(sent[t]) \in Nat
      BY DEF Typed
    <3>2. Len(sent[t]) = Len(sent[t]) - Len(pending[t])
      BY <1>2, <2>1, <2>2 DEF At
    <3>3. \A l, p \in Nat : l = l - p => p = 0
      OBVIOUS
    <3>4. Len(pending[t]) = 0
      BY <3>1, <3>2, <3>3
    <3> QED
      BY <3>1, <3>4
  <2>7. Held(u)
    <3>1. e.need > 0 /\ Len(pending[u]) = 0
      BY <2>2, DueAwaits
    <3> QED
      BY <1>4, <2>1, <2>2, <2>6, <3>1 DEF Held
  <2>8. Loose(u, e, Len(sent[u]))
    <3>1. /\ \A j \in (Len(sent[u]) + 1)..Len(sent[u]) : FALSE
          /\ \A j \in (fed[t] + 1)..Len(sent[t]) : FALSE
      <4>1. \A l \in Nat : \A j \in (l + 1)..l : FALSE
        OBVIOUS
      <4> QED
        BY <2>2, <4>1 DEF Typed
    <3> QED
      BY <1>4, <2>2, <3>1 DEF Loose
  <2> QED
    BY <2>5, <2>7, <2>8 DEF InRun
<1> QED
  BY <1>3, <1>4, TwoTaps

\* An end u sends the bytes b.
Sends(u, b) ==
  /\ sent' = [sent EXCEPT ![u] = @ \o b]
  /\ UNCHANGED <<scrubber, pending, recorded, capture, fed>>

\* What an end has sent becomes longer, and the rest stays.
LEMMA Sent ==
  ASSUME Typed, Streams, NEW u \in Taps, NEW b \in Seq(Bytes), Sends(u, b)
  PROVE  /\ sent' \in [Taps -> Seq(Bytes)] /\ sent'[u] = sent[u] \o b
         /\ sent'[Other(u)] = sent[Other(u)] /\ Streams' /\ Len(sent[u]) \in Nat
         /\ Len(sent'[u]) \in Nat /\ Len(sent[u]) <= Len(sent'[u])
         /\ \A i \in 1..Len(sent[u]) : sent'[u][i] = sent[u][i]
         /\ \A i \in (Len(sent[u]) + 1)..Len(sent'[u]) : \E j \in 1..Len(b) : sent'[u][i] = b[j]
         /\ \A t : At(t)' = At(t)
<1>1. /\ Other(u) \in Taps /\ Other(u) # u /\ \A t \in Taps : t = u \/ t = Other(u)
  BY TwoTaps
<1>2. /\ sent[u] \in Seq(Bytes) /\ Len(sent[u]) \in Nat /\ Len(b) \in Nat
      /\ sent[u] \o b \in Seq(Bytes) /\ Len(sent[u] \o b) = Len(sent[u]) + Len(b)
      /\ \A i \in 1..Len(sent[u]) : (sent[u] \o b)[i] = sent[u][i]
      /\ \A i \in 1..Len(b) : (sent[u] \o b)[Len(sent[u]) + i] = b[i]
  <2>1. \A q \in Seq(Bytes) :
          /\ q \o b \in Seq(Bytes) /\ Len(q \o b) = Len(q) + Len(b)
          /\ \A i \in 1..Len(q) : (q \o b)[i] = q[i]
          /\ \A i \in 1..Len(b) : (q \o b)[Len(q) + i] = b[i]
    BY Joined
  <2> QED
    BY <2>1 DEF Typed
<1>3. /\ sent' \in [Taps -> Seq(Bytes)] /\ sent'[u] = sent[u] \o b
      /\ sent'[Other(u)] = sent[Other(u)]
  BY <1>1, <1>2 DEF Sends, Typed
<1>4. /\ Len(sent'[u]) \in Nat /\ Len(sent[u]) <= Len(sent'[u])
      /\ Len(sent'[u]) = Len(sent[u]) + Len(b)
      /\ \A i \in 1..Len(sent[u]) : sent'[u][i] = sent[u][i]
  BY <1>2, <1>3
<1>5. ASSUME NEW i \in (Len(sent[u]) + 1)..Len(sent'[u])
      PROVE  \E j \in 1..Len(b) : sent'[u][i] = b[j]
  <2>1. i - Len(sent[u]) \in 1..Len(b) /\ Len(sent[u]) + (i - Len(sent[u])) = i
    BY <1>2, <1>4
  <2>2. sent'[u][i] = b[i - Len(sent[u])]
    BY <1>2, <1>3, <2>1
  <2> QED
    BY <2>1, <2>2
<1>6. \A t : At(t)' = At(t)
  BY DEF At, Sends
<1>7. Streams'
  <2>1. ASSUME NEW t \in Taps
        PROVE  (/\ fed[t] <= Len(sent[t]) /\ Len(pending[t]) <= fed[t]
                /\ \A i \in 1..Len(pending[t]) : pending[t][i] = sent[t][At(t) + i])'
    <3>1. /\ fed[t] <= Len(sent[t]) /\ Len(pending[t]) <= fed[t] /\ fed[t] \in Nat
          /\ Len(pending[t]) \in Nat /\ Len(sent[t]) \in Nat /\ At(t) = fed[t] - Len(pending[t])
          /\ \A i \in 1..Len(pending[t]) : pending[t][i] = sent[t][At(t) + i]
      BY DEF Streams, Typed, At
    <3>2. fed' = fed /\ pending' = pending
      BY DEF Sends
    <3>3. CASE t = Other(u)
      BY <1>3, <1>6, <3>1, <3>2, <3>3
    <3>4. CASE t = u
      <4>1. \A i \in 1..Len(pending[t]) : At(t) + i \in 1..Len(sent[t])
        BY <3>1
      <4>2. \A i \in 1..Len(pending[t]) : sent'[t][At(t) + i] = pending[t][i]
        BY <1>4, <3>1, <3>4, <4>1
      <4>3. fed[t] <= Len(sent'[t])
        BY <1>4, <3>1, <3>4
      <4> QED
        BY <1>6, <3>1, <3>2, <4>2, <4>3
    <3> QED
      BY <1>1, <3>3, <3>4
  <2> QED
    BY <2>1 DEF Streams
<1> QED
  BY <1>2, <1>3, <1>4, <1>5, <1>6, <1>7

\* Fields that _run waits for, and bytes behind them.
LEMMA RunSaid ==
  ASSUME Typed, Streams, NEW u \in Taps, NEW b \in Seq(Bytes), Sends(u, b), NEW e,
         InRun(u, e, Len(sent[u])), e.step # "done", NEW a, NEW y,
         Reads(sent[u] \o b, u, scrubber, At(u), a, y), a.preserve = e.preserve,
         y = Len(sent'[u]) \/ (/\ a.step = "done"
                               /\ \A j \in (y + 1)..Len(sent'[u]) : Plain(sent'[u][j].kind))
  PROVE  InRun(u, a, y)'
<1>1. /\ sent'[u] = sent[u] \o b /\ sent'[Other(u)] = sent[Other(u)] /\ At(u)' = At(u)
      /\ Len(sent'[u]) \in Nat /\ fed[Other(u)] \in Nat
  BY Sent, TwoTaps DEF Typed
<1>2. UNCHANGED <<scrubber, pending, fed>>
  BY DEF Sends
<1>3. Held(u)'
  BY <1>2 DEF InRun, Held
<1>4. fed[Other(u)] = Len(sent[Other(u)])
  BY DEF InRun, Loose
<1>5. \A l \in Nat : \A j \in (l + 1)..l : FALSE
  OBVIOUS
<1>6. \A j \in (y + 1)..Len(sent'[u]) : Plain(sent'[u][j].kind)
  BY <1>1, <1>5
<1>7. Loose(u, a, y)'
  BY <1>1, <1>2, <1>4, <1>5, <1>6 DEF Loose
<1>8. (a.preserve = scrubber.preserve)'
  BY <1>2 DEF InRun
<1> QED
  BY <1>1, <1>2, <1>3, <1>7, <1>8 DEF InRun

\* Bytes that _run does not wait for any more.
LEMMA LooseSaid ==
  \A t \in Taps, u \in Taps, b \in Seq(Bytes) : \A e, z :
    /\ Typed /\ Streams /\ Sends(u, b) /\ InRun(t, e, z) /\ e.step = "done"
    /\ e.preserve = TRUE \/ b \in Seq(PlainBytes) \/ (e.abort = TRUE /\ u = t)
    => InRun(t, e, z)'
<1> TAKE t \in Taps, u \in Taps, b \in Seq(Bytes)
<1> TAKE e, z
<1> HAVE /\ Typed /\ Streams /\ Sends(u, b) /\ InRun(t, e, z) /\ e.step = "done"
         /\ e.preserve = TRUE \/ b \in Seq(PlainBytes) \/ (e.abort = TRUE /\ u = t)
<1>1. /\ sent'[u] = sent[u] \o b /\ sent'[Other(u)] = sent[Other(u)] /\ \A v : At(v)' = At(v)
      /\ Len(sent[u]) \in Nat /\ Len(sent'[u]) \in Nat
      /\ \A i \in 1..Len(sent[u]) : sent'[u][i] = sent[u][i]
      /\ \A i \in (Len(sent[u]) + 1)..Len(sent'[u]) : \E j \in 1..Len(b) : sent'[u][i] = b[j]
  BY Sent
<1>2. UNCHANGED <<scrubber, pending, fed>>
  BY DEF Sends
<1>3. Held(t)'
  BY <1>2 DEF InRun, Held
<1>4. e \in States /\ z \in Nat
  BY ReadsEnds DEF InRun
<1>5. t = u \/ t = Other(u)
  BY TwoTaps
<1>6. Reads(sent'[t], t, scrubber, At(t), e, z)
  <2>1. Reads(sent[t], t, scrubber, At(t), e, z) /\ sent[t] \in Seq(Bytes)
    BY DEF InRun, Typed
  <2>2. CASE t = u
    BY <1>1, <2>1, <2>2, ReadsOn
  <2>3. CASE t = Other(u)
    BY <1>1, <2>1, <2>3
  <2> QED
    BY <1>5, <2>2, <2>3
<1>7. ASSUME b \in Seq(PlainBytes), NEW x \in Nat, \A j \in (x + 1)..Len(sent[u]) : Plain(sent[u][j].kind)
      PROVE  \A j \in (x + 1)..Len(sent'[u]) : Plain(sent'[u][j].kind)
  <2>1. \A j \in 1..Len(b) : Plain(b[j].kind)
    BY <1>7 DEF PlainBytes
  <2>2. ASSUME NEW j \in (x + 1)..Len(sent'[u]) PROVE Plain(sent'[u][j].kind)
    <3>1. \/ j \in 1..Len(sent[u]) /\ j \in (x + 1)..Len(sent[u])
          \/ j \in (Len(sent[u]) + 1)..Len(sent'[u])
      BY <1>1
    <3> QED
      BY <1>1, <1>7, <2>1, <3>1
  <2> QED
    BY <2>2
<1>8. Loose(t, e, z)'
  <2>1. Loose(t, e, z) /\ fed[Other(t)] \in Nat
    BY TwoTaps DEF InRun, Typed
  <2>2. CASE e.preserve = TRUE
    BY <2>2 DEF Loose
  <2>3. CASE e.abort = TRUE /\ u = t
    BY <1>1, <1>2, <2>1, <2>3 DEF Loose
  <2>4. CASE b \in Seq(PlainBytes) /\ t = u
    BY <1>1, <1>2, <1>4, <1>7, <2>1, <2>4 DEF Loose
  <2>5. CASE b \in Seq(PlainBytes) /\ t = Other(u)
    <3>1. Other(t) = u
      BY <2>5, TwoTaps
    <3> QED
      BY <1>1, <1>2, <1>4, <1>7, <2>1, <2>5, <3>1 DEF Loose
  <2> QED
    BY <1>5, <2>2, <2>3, <2>4, <2>5
<1> QED
  BY <1>1, <1>2, <1>3, <1>6, <1>8 DEF InRun

\* An end that has heard all sends the message that is due: it is enough that
\* _run, where it waits for that message, is led to the one that is due next.
LEMMA Spoke ==
  ASSUME IInv, NEW u \in Taps, NEW now, NEW b \in Seq(Bytes), NEW next,
         Says(u, now, b, next), now \notin {"over", "session", "closed", "lost"},
         next \notin {"closed", "lost"}, agreed' \in 0..8, chosen' \in 0..255, Told',
         \A e : Due(e) => Watches(e, u),
         \A e : Due(e) /\ InRun(u, e, Len(sent[u])) =>
                  \E a, y : InRun(u, a, y)' /\ (Due(a)' \/ Over(u, a)'),
         GivesUp(u) => GivesUp(u)'
  PROVE  IInv'
<1>1. /\ Typed /\ Streams /\ CleanRecord /\ stage = now /\ stage' = next
      /\ fed[Other(u)] = Len(sent[Other(u)]) /\ Sends(u, b)
      /\ UNCHANGED <<scrubber, pending, recorded, capture, fed>>
  BY DEF IInv, Says, Sends, captureVars
<1>2. capture = "held" /\ scrubber.abort = FALSE /\ Follows
  BY <1>1 DEF IInv
<1>3. Typed' /\ Streams'
  BY <1>1, Sent DEF Typed
<1>4. CleanRecord'
  BY <1>1 DEF CleanRecord, Kept
<1>5. PICK t \in Taps : \E e, z : InRun(t, e, z) /\ (Due(e) \/ Over(t, e))
  BY <1>2 DEF Follows
<1>6. PICK e, z : InRun(t, e, z) /\ (Due(e) \/ Over(t, e))
  BY <1>5
<1>7. Follows'
  <2>1. CASE Due(e)
    <3>1. Watches(e, u)
      BY <2>1
    <3>2. InRun(u, e, Len(sent[u]))
      BY <1>1, <1>6, <2>1, <3>1, Turn
    <3>3. \E a, y : InRun(u, a, y)' /\ (Due(a)' \/ Over(u, a)')
      BY <2>1, <3>2
    <3> QED
      BY <3>3 DEF Follows
  <2>2. CASE Over(t, e)
    <3>1. e.step = "done" /\ (e.preserve = TRUE \/ (e.abort = TRUE /\ GivesUp(t)))
      BY <1>1, <2>2 DEF Over
    <3>2. CASE e.preserve = TRUE
      <4>1. InRun(t, e, z)'
        BY <1>1, <1>6, <3>1, <3>2, LooseSaid
      <4>2. Over(t, e)'
        BY <3>1, <3>2 DEF Over
      <4> QED
        BY <4>1, <4>2 DEF Follows
    <3>3. CASE e.abort = TRUE /\ GivesUp(t)
      <4>1. t = u
        <5>1. CASE t = Other(u)
          BY <1>1, <1>2, <1>6, <3>3, <5>1, Heard
        <5> QED
          BY <5>1, TwoTaps
      <4>2. InRun(t, e, z)'
        BY <1>1, <1>6, <3>1, <3>3, <4>1, LooseSaid
      <4>3. GivesUp(t)'
        BY <3>3, <4>1
      <4>4. Over(t, e)'
        BY <3>1, <3>3, <4>3 DEF Over
      <4> QED
        BY <4>2, <4>4 DEF Follows
    <3> QED
      BY <3>1, <3>2, <3>3
  <2> QED
    BY <1>6, <2>1, <2>2
<1> QED
  BY <1>1, <1>2, <1>3, <1>4, <1>7 DEF IInv

\* A message of one field that _run waits for.
LEMMA OneField ==
  ASSUME Typed, Streams, NEW u \in Taps, NEW e, InRun(u, e, Len(sent[u])), Watches(e, u),
         NEW v \in Values, Legal(e, v), NEW n \in Nat, e.need = n, n > 0
  PROVE  LET b == Field(e.step, v, n)
             a == Advance(e, v)
         IN  /\ b \in Seq(Bytes) /\ e \in States /\ e.step # "done" /\ e.abort = FALSE
             /\ a \in States /\ Sound(a) /\ a.preserve = e.preserve
             /\ Reads(sent[u] \o b, u, scrubber, At(u), a, Len(sent[u] \o b))
<1> DEFINE a == Advance(e, v)
           b == Field(e.step, v, n)
<1>1. /\ Reads(sent[u], u, scrubber, At(u), e, Len(sent[u])) /\ sent[u] \in Seq(Bytes)
  BY DEF InRun, Typed
<1>2. e \in States /\ Sound(e) /\ e.step # "done"
  BY <1>1, ReadsEnds, WatchesOne
<1>3. e.abort = FALSE /\ e.step \in Kinds
  BY <1>2 DEF Sound, States, Kinds
<1>4. a \in States /\ Sound(a) /\ a.preserve = e.preserve
  BY <1>2, AdvanceSound
<1>5. b \in Seq(Bytes)
  BY <1>3, FieldBytes
<1>6. Reads(sent[u] \o b, u, scrubber, At(u), a, Len(sent[u] \o b))
  BY <1>1, ReadsField
<1> QED
  BY <1>2, <1>3, <1>4, <1>5, <1>6

\* One more field of the same message.
LEMMA FurtherField ==
  ASSUME NEW q \in Seq(Bytes), NEW b \in Seq(Bytes), NEW t, NEW s, NEW c, NEW e,
         Reads(q \o b, t, s, c, e, Len(q \o b)), Watches(e, t),
         NEW v \in Values, Legal(e, v), NEW n \in Nat, e.need = n, n > 0
  PROVE  LET d == b \o Field(e.step, v, n)
             a == Advance(e, v)
         IN  /\ d \in Seq(Bytes) /\ a \in States /\ Sound(a) /\ a.preserve = e.preserve
             /\ Reads(q \o d, t, s, c, a, Len(q \o d))
<1> DEFINE F == Field(e.step, v, n)
           a == Advance(e, v)
           r == q \o b
<1>1. r \in Seq(Bytes)
  OBVIOUS
<1>2. e \in States /\ Sound(e) /\ e.step # "done"
  BY ReadsEnds DEF Watches
<1>3. e.step \in Kinds
  BY <1>2 DEF States, Kinds
<1>4. a \in States /\ Sound(a) /\ a.preserve = e.preserve
  BY <1>2, AdvanceSound
<1>5. F \in Seq(Bytes)
  BY <1>3, FieldBytes
<1>6. Reads(r, t, s, c, e, Len(r))
  OBVIOUS
<1>7. Reads(r \o F, t, s, c, a, Len(r \o F))
  <2> HIDE DEF r
  <2> QED
    BY <1>1, <1>6, ReadsField DEF F, a
<1> HIDE DEF F, a
<1>8. b \o F \in Seq(Bytes)
  BY <1>5
<1>9. r \o F = q \o (b \o F)
  BY <1>5, Regrouped
<1> QED
  BY <1>4, <1>7, <1>8, <1>9 DEF F, a

\* The run behind a message that is all read.
LEMMA SaidAll ==
  ASSUME Typed, Streams, NEW u \in Taps, NEW b \in Seq(Bytes), Sends(u, b), NEW e,
         InRun(u, e, Len(sent[u])), e.step # "done", NEW a, a.preserve = e.preserve,
         Reads(sent[u] \o b, u, scrubber, At(u), a, Len(sent[u] \o b))
  PROVE  \E y : InRun(u, a, y)'
<1>1. sent'[u] = sent[u] \o b
  BY Sent
<1>2. PICK y : y = Len(sent'[u])
  OBVIOUS
<1>3. Reads(sent[u] \o b, u, scrubber, At(u), a, y)
  BY <1>1, <1>2
<1>4. InRun(u, a, y)'
  BY <1>2, <1>3, RunSaid
<1> QED
  BY <1>4

\* The run behind a refusal, whose reason no field of _run holds.
LEMMA SaidReason ==
  ASSUME Typed, Streams, NEW u \in Taps, NEW b \in Seq(Bytes), Sends(u, b \o Reason), NEW e,
         InRun(u, e, Len(sent[u])), e.step # "done", NEW a, a.preserve = e.preserve,
         a.step = "done", Reads(sent[u] \o b, u, scrubber, At(u), a, Len(sent[u] \o b))
  PROVE  b \o Reason \in Seq(Bytes) /\ \E y : InRun(u, a, y)'
<1>1. /\ Reason \in Seq(Bytes) /\ Len(Reason) = 6
      /\ \A i \in 1..6 : Reason[i].kind = "reason"
  <2>1. PICK k \in Kinds : k = "reason"
    BY DEF Kinds
  <2>2. PICK v \in Values : v = 0
    BY DEF Values
  <2>3. PICK n \in Nat : n = 6
    OBVIOUS
  <2>4. /\ Field(k, v, n) \in Seq(Bytes) /\ Len(Field(k, v, n)) = n
        /\ \A i \in 1..n : Field(k, v, n)[i].kind = k
    BY FieldBytes
  <2>5. Reason = Field(k, v, n)
    BY <2>1, <2>2, <2>3 DEF Reason
  <2> QED
    BY <2>1, <2>3, <2>4, <2>5
<1>2. Plain("reason")
  BY DEF Plain
<1>3. PICK q : q = sent[u]
  OBVIOUS
<1>4. PICK y : y = Len(q \o b)
  OBVIOUS
<1>5. /\ q \in Seq(Bytes) /\ b \o Reason \in Seq(Bytes) /\ q \o b \in Seq(Bytes)
      /\ y \in Nat
  BY <1>1, <1>3, <1>4 DEF Typed
<1>6. (q \o b) \o Reason = q \o (b \o Reason)
  <2>1. PICK r \in Seq(Bytes) : r = Reason
    BY <1>1
  <2>2. q \in Seq(Bytes)
    BY <1>5
  <2>3. (q \o b) \o r = q \o (b \o r)
    BY <2>2, Regrouped
  <2> QED
    BY <2>1, <2>3
<1>7. Reads(q \o (b \o Reason), u, scrubber, At(u), a, y)
  <2>1. Reads(q \o b, u, scrubber, At(u), a, y)
    BY <1>3, <1>4
  <2> QED
    BY <1>1, <1>5, <1>6, <2>1, ReadsOn
<1>8. sent'[u] = q \o (b \o Reason)
  BY <1>3, <1>5, Sent
<1>9. ASSUME NEW j \in (y + 1)..Len(sent'[u]) PROVE Plain(sent'[u][j].kind)
  <2>1. PICK r \in Seq(Bytes) : r = q \o b
    BY <1>5
  <2>2. sent'[u] = r \o Reason /\ Len(r) = y
    BY <1>4, <1>6, <1>8, <2>1
  <2>3. Len(sent'[u]) = y + 6 /\ \A i \in 1..6 : sent'[u][y + i] = Reason[i]
    <3>1. \A d \in Seq(Bytes) :
            Len(r \o d) = Len(r) + Len(d) /\ \A i \in 1..Len(d) : (r \o d)[Len(r) + i] = d[i]
      BY Joined
    <3>2. /\ Len(r \o Reason) = Len(r) + Len(Reason)
          /\ \A i \in 1..Len(Reason) : (r \o Reason)[Len(r) + i] = Reason[i]
      BY <1>1, <3>1
    <3> QED
      BY <1>1, <2>2, <3>2
  <2>4. j - y \in 1..6 /\ y + (j - y) = j
    BY <1>5, <2>3
  <2> QED
    BY <1>1, <1>2, <2>3, <2>4
<1>10. InRun(u, a, y)'
  BY <1>3, <1>5, <1>7, <1>9, RunSaid
<1> QED
  BY <1>5, <1>10

\* Whose field it is.
LEMMA Theirs ==
  ASSUME NEW u \in Taps, NEW k, k # "done", u = "c2s" <=> k \in ClientSteps, NEW n,
         NEW e, Awaits(e, k, n)
  PROVE  Watches(e, u)
BY DEF Awaits, Watches

\* An end sends the one field that is due.
LEMMA SpokeField ==
  ASSUME IInv, NEW u \in Taps, NEW now, NEW k \in Steps, NEW v \in Values, NEW n \in Nat, NEW next,
         Says(u, now, Field(k, v, n), next), now \notin {"over", "session", "closed", "lost"},
         next \notin {"closed", "lost"}, agreed' \in 0..8, chosen' \in 0..255, Told',
         n > 0, k # "done", u = "c2s" <=> k \in ClientSteps,
         \A e : Due(e) => Awaits(e, k, n),
         \A e : Awaits(e, k, n) => Legal(e, v),
         \A e \in States : \A a : Due(e) /\ e.abort = FALSE /\ a = Advance(e, v) =>
                                    Due(a)' \/ Over(u, a)',
         GivesUp(u) => GivesUp(u)'
  PROVE  IInv'
<1>1. PICK b : b = Field(k, v, n)
  OBVIOUS
<1>2. b \in Seq(Bytes)
  BY <1>1, FieldBytes DEF Kinds
<1>3. Says(u, now, b, next) /\ Typed /\ Streams
  BY <1>1 DEF IInv
<1>4. Sends(u, b)
  BY <1>3 DEF Says, Sends, captureVars
<1>5. \A e : Due(e) => Watches(e, u)
  BY Theirs
<1>6. ASSUME NEW e, Due(e), InRun(u, e, Len(sent[u]))
      PROVE  \E a, y : InRun(u, a, y)' /\ (Due(a)' \/ Over(u, a)')
  <2>1. PICK a : a = Advance(e, v)
    OBVIOUS
  <2>2. Watches(e, u) /\ Legal(e, v) /\ e.step = k /\ e.need = n
    BY <1>5, <1>6 DEF Awaits
  <2>3. /\ e \in States /\ e.step # "done" /\ e.abort = FALSE
        /\ a \in States /\ Sound(a) /\ a.preserve = e.preserve
        /\ Reads(sent[u] \o b, u, scrubber, At(u), a, Len(sent[u] \o b))
    BY <1>1, <1>3, <1>6, <2>1, <2>2, OneField
  <2>4. \E y : InRun(u, a, y)'
    BY <1>2, <1>3, <1>4, <1>6, <2>3, SaidAll
  <2>5. Due(a)' \/ Over(u, a)'
    BY <1>6, <2>1, <2>3
  <2> QED
    BY <2>4, <2>5
<1> QED
  BY <1>2, <1>3, <1>5, <1>6, Spoke

\* A server refuses, and says why.
LEMMA SpokeReason ==
  ASSUME IInv, NEW now, NEW k \in Steps, NEW v \in Values, NEW n \in Nat,
         Says("s2c", now, Field(k, v, n) \o Reason, "over"),
         now \in {"offer", "judgement"}, agreed' \in 0..8, chosen' \in 0..255,
         n > 0, k # "done", k \notin ClientSteps,
         \A e : Due(e) => Awaits(e, k, n),
         \A e : Awaits(e, k, n) => Legal(e, v),
         \A e \in States : e.step = k => Advance(e, v) = Return(e)
  PROVE  IInv'
<1>1. PICK b : b = Field(k, v, n)
  OBVIOUS
<1>2. b \in Seq(Bytes)
  BY <1>1, FieldBytes DEF Kinds
<1>3. Says("s2c", now, b \o Reason, "over") /\ Typed /\ Streams /\ "s2c" \in Taps
  BY <1>1 DEF IInv, Taps
<1>4. Sends("s2c", b \o Reason) /\ stage = now /\ stage' = "over"
  BY <1>3 DEF Says, Sends, captureVars
<1>5. \A e : Due(e) => Watches(e, "s2c")
  BY <1>3, Theirs
<1>6. ASSUME NEW e, Due(e), InRun("s2c", e, Len(sent["s2c"]))
      PROVE  \E a, y : InRun("s2c", a, y)' /\ (Due(a)' \/ Over("s2c", a)')
  <2>1. PICK a : a = Advance(e, v)
    OBVIOUS
  <2>2. Watches(e, "s2c") /\ Legal(e, v) /\ e.step = k /\ e.need = n
    BY <1>5, <1>6 DEF Awaits
  <2>3. /\ e \in States /\ e.step # "done" /\ e.abort = FALSE
        /\ a \in States /\ Sound(a) /\ a.preserve = e.preserve
        /\ Reads(sent["s2c"] \o b, "s2c", scrubber, At("s2c"), a, Len(sent["s2c"] \o b))
    BY <1>1, <1>3, <1>6, <2>1, <2>2, OneField
  <2>4. a.step = "done" /\ a.abort = FALSE
    <3>1. a = Await(e, "done", 0)
      BY <2>1, <2>2, <2>3 DEF Return
    <3> QED
      BY <2>3, <3>1, AwaitFields
  <2>5. b \o Reason \in Seq(Bytes) /\ \E y : InRun("s2c", a, y)'
    BY <1>2, <1>3, <1>4, <1>6, <2>3, <2>4, SaidReason
  <2>6. Over("s2c", a)'
    BY <1>4, <2>4 DEF Over
  <2> QED
    BY <2>5, <2>6
<1>7. b \o Reason \in Seq(Bytes)
  <2>1. \A i \in Kinds, w \in Values, m \in Nat : Field(i, w, m) \in Seq(Bytes)
    BY FieldBytes
  <2>2. "reason" \in Kinds /\ 0 \in Values
    BY DEF Kinds, Values
  <2>3. PICK m \in Nat : m = 6
    OBVIOUS
  <2>4. Reason \in Seq(Bytes)
    BY <2>1, <2>2, <2>3 DEF Reason
  <2> QED
    BY <1>2, <2>4
<1>8. Told' /\ ~GivesUp("s2c")
  BY <1>4 DEF Told, GivesUp
<1>9. now \notin {"over", "session", "closed", "lost"} /\ "over" \notin {"closed", "lost"}
  OBVIOUS
<1> QED
  BY <1>3, <1>5, <1>6, <1>7, <1>8, <1>9, Spoke

\* The version of the server.
LEMMA GreetsKeeps ==
  ASSUME IInv, ServerGreets PROVE IInv'
<1>1. PICK v \in Versions : /\ Says("s2c", "greeting", Field("server_head", v, 12), "reply")
                            /\ UNCHANGED <<agreed, chosen>>
  BY DEF ServerGreets
<1>2. stage = "greeting" /\ stage' = "reply"
  BY <1>1 DEF Says
<1>3. agreed' \in 0..8 /\ chosen' \in 0..255 /\ Told' /\ ~GivesUp("s2c")
  BY <1>1, <1>2 DEF IInv, Typed, Told, GivesUp
<1>4. /\ "s2c" \in Taps /\ "server_head" \in Steps /\ v \in Nat /\ v \in Values
      /\ 12 \in Nat /\ 12 > 0 /\ "server_head" # "done"
      /\ ("s2c" = "c2s" <=> "server_head" \in ClientSteps)
  BY ScrubberAssumption DEF Taps, Steps, ClientSteps, Values
<1>5. \A e : Due(e) => Awaits(e, "server_head", 12)
  BY <1>2 DEF Due
<1>6. \A e : Awaits(e, "server_head", 12) => Legal(e, v)
  BY <1>4 DEF Awaits, Legal
<1>7. ASSUME NEW e \in States, NEW a, Due(e), e.abort = FALSE, a = Advance(e, v)
      PROVE  Due(a)' \/ Over("s2c", a)'
  <2>1. a = Await(e, "client_head", 12)
    <3>1. e.step = "server_head"
      BY <1>5, <1>7 DEF Awaits
    <3>2. Advance(e, v) = Await(e, "client_head", 12)
      BY <3>1, Advances
    <3> QED
      BY <1>7, <3>2
  <2>2. Awaits(a, "client_head", 12)
    BY <2>1, AwaitFields DEF Awaits
  <2> QED
    BY <1>2, <2>2 DEF Due
<1>8. /\ "greeting" \notin {"over", "session", "closed", "lost"}
      /\ "reply" \notin {"closed", "lost"}
  OBVIOUS
<1> QED
  BY <1>1, <1>3, <1>4, <1>5, <1>6, <1>7, <1>8, SpokeField

\* The client's reply.
LEMMA RepliesKeeps ==
  ASSUME IInv, ClientReplies PROVE IInv'
<1>1. PICK v \in Versions \cup {Unparsable} :
        /\ Says("c2s", "reply", Field("client_head", v, 12), "offer")
        /\ agreed' = v /\ UNCHANGED chosen
  BY DEF ClientReplies
<1>2. stage = "reply" /\ stage' = "offer"
  BY <1>1 DEF Says
<1>3. v \in 0..8
  BY ScrubberAssumption DEF Unparsable
<1>4. agreed' \in 0..8 /\ chosen' \in 0..255 /\ Told' /\ ~GivesUp("c2s")
  BY <1>1, <1>2, <1>3 DEF IInv, Typed, Told, GivesUp
<1>5. /\ "c2s" \in Taps /\ "client_head" \in Steps /\ v \in Nat /\ v \in Values
      /\ 12 \in Nat /\ 12 > 0 /\ "client_head" # "done"
      /\ ("c2s" = "c2s" <=> "client_head" \in ClientSteps)
  BY <1>3 DEF Taps, Steps, ClientSteps, Values
<1>6. \A e : Due(e) => Awaits(e, "client_head", 12)
  BY <1>2 DEF Due
<1>7. \A e : Awaits(e, "client_head", 12) => Legal(e, v)
  BY <1>5 DEF Awaits, Legal
<1>8. ASSUME NEW e \in States, NEW a, Due(e), e.abort = FALSE, a = Advance(e, v)
      PROVE  Due(a)' \/ Over("c2s", a)'
  <2>1. a = ClientHead(e, v)
    <3>1. e.step = "client_head"
      BY <1>6, <1>8 DEF Awaits
    <3>2. Advance(e, v) = ClientHead(e, v)
      BY <3>1, Advances
    <3> QED
      BY <1>8, <3>2
  <2>2. /\ a.preserve = e.preserve
        /\ v = Unparsable => a.step = "done" /\ (a.abort = TRUE <=> e.preserve = FALSE)
        /\ v # Unparsable => a.negotiated = v
        /\ v >= 7 => a.step = "num_types" /\ a.need = 1
        /\ v \in 1..6 => a.step = "auth" /\ a.need = 4
    <3>1. v \in Nat /\ e.abort = FALSE
      BY <1>5, <1>8
    <3> QED
      BY <2>1, <3>1, ClientHeadFields
  <2>3. CASE v = Unparsable
    <3>1. Unfollowable' /\ GivesUp("c2s")'
      BY <1>1, <1>2, <2>3 DEF Unfollowable, GivesUp
    <3>2. e.preserve = TRUE \/ e.preserve = FALSE
      BY DEF States
    <3> QED
      BY <2>2, <2>3, <3>1, <3>2 DEF Over
  <2>4. CASE v >= 7
    BY <1>1, <1>2, <2>2, <2>4 DEF Due, Awaits, Unparsable
  <2>5. CASE v \in 1..6
    BY <1>1, <1>2, <2>2, <2>5 DEF Due, Awaits, Unparsable
  <2> QED
    BY <1>3, <2>3, <2>4, <2>5 DEF Unparsable
<1>9. /\ "reply" \notin {"over", "session", "closed", "lost"}
      /\ "offer" \notin {"closed", "lost"}
  OBVIOUS
<1> QED
  BY <1>1, <1>4, <1>5, <1>6, <1>7, <1>8, <1>9, SpokeField

\* The client asks for a desktop.
LEMMA ClientStartsKeeps ==
  ASSUME IInv, ClientStarts PROVE IInv'
<1>1. /\ Says("c2s", "init", Field("client_init", 0, 1), "description")
      /\ UNCHANGED <<agreed, chosen>>
  BY DEF ClientStarts
<1>2. stage = "init" /\ stage' = "description"
  BY <1>1 DEF Says
<1>3. agreed' \in 0..8 /\ chosen' \in 0..255 /\ Told' /\ ~GivesUp("c2s")
  BY <1>1, <1>2 DEF IInv, Typed, Told, GivesUp
<1>4. /\ "c2s" \in Taps /\ "client_init" \in Steps /\ 0 \in Nat /\ 0 \in Values
      /\ 1 \in Nat /\ 1 > 0 /\ "client_init" # "done"
      /\ ("c2s" = "c2s" <=> "client_init" \in ClientSteps)
  BY DEF Taps, Steps, ClientSteps, Values
<1>5. \A e : Due(e) => Awaits(e, "client_init", 1)
  BY <1>2 DEF Due
<1>6. \A e : Awaits(e, "client_init", 1) => Legal(e, 0)
  BY <1>4 DEF Awaits, Legal
<1>7. ASSUME NEW e \in States, NEW a, Due(e), e.abort = FALSE, a = Advance(e, 0)
      PROVE  Due(a)' \/ Over("c2s", a)'
  <2>1. a = Await(e, "server_init", 24)
    <3>1. e.step = "client_init"
      BY <1>5, <1>7 DEF Awaits
    <3>2. Advance(e, 0) = Await(e, "server_init", 24)
      BY <3>1, Advances
    <3> QED
      BY <1>7, <3>2
  <2>2. Awaits(a, "server_init", 24)
    BY <2>1, AwaitFields DEF Awaits
  <2> QED
    BY <1>2, <2>2 DEF Due
<1>8. /\ "init" \notin {"over", "session", "closed", "lost"}
      /\ "description" \notin {"closed", "lost"}
  OBVIOUS
<1> QED
  BY <1>1, <1>3, <1>4, <1>5, <1>6, <1>7, <1>8, SpokeField

\* Where _run is behind the choice of a security type.
LEMMA Chose ==
  ASSUME IInv, NEW e \in States, e.abort = FALSE, e.negotiated = agreed, NEW type \in Nat, type # 0,
         agreed' = agreed, chosen' = type, stage' = AfterChoice(type), NEW u \in Taps,
         NEW a, a = Authenticate(e, type)
  PROVE  Due(a)' \/ Over(u, a)'
<1>1. agreed \in Nat
  BY DEF IInv, Typed
<1>2. /\ a.preserve = e.preserve
      /\ type = VNC_AUTHENTICATION => a.step = "challenge" /\ a.need = 16 /\ a.sectype = type
      /\ type = DIFFIE_HELLMAN => a.step = "dh_head" /\ a.need = 4 /\ a.sectype = type
      /\ type = NONE => IF e.negotiated < 8 THEN a.step = "client_init" /\ a.need = 1
                        ELSE a.step = "result" /\ a.need = 4
      /\ type \notin {NONE, VNC_AUTHENTICATION, DIFFIE_HELLMAN} =>
           a.step = "done" /\ (a.abort = TRUE <=> e.preserve = FALSE)
  BY AuthenticateFields
<1>3. NONE # VNC_AUTHENTICATION /\ NONE # DIFFIE_HELLMAN /\ VNC_AUTHENTICATION # DIFFIE_HELLMAN
  BY DEF VNC_AUTHENTICATION, DIFFIE_HELLMAN, NONE
<1>4. /\ type # NONE => stage' = "exchange"
      /\ type = NONE => stage' = IF agreed < 8 THEN "init" ELSE "judgement"
  BY DEF AfterChoice
<1>5. CASE type \in {VNC_AUTHENTICATION, DIFFIE_HELLMAN}
  BY <1>2, <1>3, <1>4, <1>5 DEF Due, Awaits
<1>6. CASE type = NONE
  BY <1>1, <1>2, <1>4, <1>6 DEF Due, Awaits
<1>7. CASE type \notin {NONE, VNC_AUTHENTICATION, DIFFIE_HELLMAN}
  <2>1. stage' = "exchange" /\ a.step = "done" /\ (a.abort = TRUE <=> e.preserve = FALSE)
    BY <1>2, <1>4, <1>7
  <2>2. Unfollowable'
    BY <1>7 DEF Unfollowable
  <2>3. GivesUp(u)'
    BY <2>1, <2>2 DEF GivesUp, Taps
  <2>4. e.preserve = TRUE \/ e.preserve = FALSE
    BY DEF States
  <2> QED
    BY <1>2, <2>1, <2>3, <2>4 DEF Over
<1> QED
  BY <1>5, <1>6, <1>7

\* The security type that a server before 3.7 decides on.
LEMMA DecidesKeeps ==
  ASSUME IInv, ServerDecides PROVE IInv'
<1>1. PICK type \in Decisions :
        /\ agreed < 7 /\ chosen' = type /\ agreed' = agreed
        /\ IF type = 0
           THEN Says("s2c", "offer", Field("auth", 0, 4) \o Reason, "over")
           ELSE Says("s2c", "offer", Field("auth", type, 4), AfterChoice(type))
  BY DEF ServerDecides
<1>2. stage = "offer"
  BY <1>1 DEF Says
<1>3. /\ type \in Nat /\ type \in 0..255 /\ agreed \in 0..8 /\ agreed' \in 0..8
      /\ chosen' \in 0..255 /\ ~(agreed >= 7)
  BY <1>1, ScrubberAssumption DEF IInv, Typed
<1>4. /\ "s2c" \in Taps /\ "auth" \in Steps /\ type \in Values /\ 0 \in Values
      /\ 4 \in Nat /\ 4 > 0 /\ "auth" # "done" /\ "auth" \notin ClientSteps
      /\ ("s2c" = "c2s" <=> "auth" \in ClientSteps)
  BY <1>3 DEF Taps, Steps, ClientSteps, Values
<1>5. \A e : Due(e) => Awaits(e, "auth", 4) /\ e.negotiated = agreed
  BY <1>2, <1>3 DEF Due
<1>6. \A v \in Nat : \A e : Awaits(e, "auth", 4) => Legal(e, v)
  BY DEF Awaits, Legal
<1>7. CASE type = 0
  <2>1. Says("s2c", "offer", Field("auth", 0, 4) \o Reason, "over")
    BY <1>1, <1>7
  <2>2. \A e \in States : e.step = "auth" => Advance(e, 0) = Return(e)
    BY Advances
  <2>3. "offer" \in {"offer", "judgement"} /\ 0 \in Nat
    OBVIOUS
  <2> QED
    BY <1>3, <1>4, <1>5, <1>6, <2>1, <2>2, <2>3, SpokeReason
<1>8. CASE type # 0
  <2>1. Says("s2c", "offer", Field("auth", type, 4), AfterChoice(type))
    BY <1>1, <1>8
  <2>2. stage' = AfterChoice(type)
    BY <2>1 DEF Says
  <2>3. ASSUME NEW e \in States, NEW a, Due(e), e.abort = FALSE, a = Advance(e, type)
        PROVE  Due(a)' \/ Over("s2c", a)'
    <3>1. a = Authenticate(e, type)
      <4>1. e.step = "auth"
        BY <1>5, <2>3 DEF Awaits
      <4>2. Advance(e, type) = Authenticate(e, type)
        BY <1>8, <4>1, Advances
      <4> QED
        BY <2>3, <4>2
    <3> QED
      BY <1>1, <1>3, <1>4, <1>5, <1>8, <2>2, <2>3, <3>1, Chose
  <2>4. AfterChoice(type) \in {"exchange", "init", "judgement"}
    BY DEF AfterChoice
  <2>5. Told' /\ ~GivesUp("s2c")
    BY <1>1, <1>2, <1>8, <2>2, <2>4 DEF Told, GivesUp, AfterChoice
  <2>6. /\ "offer" \notin {"over", "session", "closed", "lost"}
        /\ AfterChoice(type) \notin {"closed", "lost"}
    BY <2>4
  <2> QED
    BY <1>3, <1>4, <1>5, <1>6, <2>1, <2>3, <2>5, <2>6, SpokeField
<1> QED
  BY <1>7, <1>8

\* The security type that a client chooses.
LEMMA ChoosesKeeps ==
  ASSUME IInv, ClientChooses PROVE IInv'
<1>1. PICK type \in ToSet(Last(sent["s2c"]).value) :
        /\ Says("c2s", "choice", Field("sectype", type, 1), AfterChoice(type))
        /\ chosen' = type /\ agreed' = agreed
  BY DEF ClientChooses
<1>2. stage = "choice" /\ stage' = AfterChoice(type)
  BY <1>1 DEF Says
<1>3. type \in 1..255
  <2>1. Last(sent["s2c"]).value \in Seq(1..255)
    BY <1>2 DEF IInv, Told
  <2>2. PICK q \in Seq(1..255) : q = Last(sent["s2c"]).value
    BY <2>1
  <2>3. PICK i \in DOMAIN q : type = q[i]
    BY <1>1, <2>2, Zenon DEF ToSet
  <2>4. ASSUME NEW S, NEW p \in Seq(S), NEW j \in DOMAIN p PROVE p[j] \in S
    OBVIOUS
  <2> QED
    BY <2>3, <2>4
<1>4. /\ type \in Nat /\ type # 0 /\ agreed' \in 0..8 /\ chosen' \in 0..255
  BY <1>1, <1>3 DEF IInv, Typed
<1>5. /\ "c2s" \in Taps /\ "sectype" \in Steps /\ type \in Values
      /\ 1 \in Nat /\ 1 > 0 /\ "sectype" # "done"
      /\ ("c2s" = "c2s" <=> "sectype" \in ClientSteps)
  BY <1>4 DEF Taps, Steps, ClientSteps, Values
<1>6. \A e : Due(e) => Awaits(e, "sectype", 1) /\ e.negotiated = agreed
  BY <1>2 DEF Due
<1>7. \A e : Awaits(e, "sectype", 1) => Legal(e, type)
  BY <1>4 DEF Awaits, Legal
<1>8. ASSUME NEW e \in States, NEW a, Due(e), e.abort = FALSE, a = Advance(e, type)
      PROVE  Due(a)' \/ Over("c2s", a)'
  <2>1. a = Authenticate(e, type)
    <3>1. e.step = "sectype"
      BY <1>6, <1>8 DEF Awaits
    <3>2. Advance(e, type) = Authenticate(e, type)
      BY <3>1, Advances
    <3> QED
      BY <1>8, <3>2
  <2> QED
    BY <1>1, <1>2, <1>4, <1>5, <1>6, <1>8, <2>1, Chose
<1>9. AfterChoice(type) \in {"exchange", "init", "judgement"}
  BY DEF AfterChoice
<1>10. Told' /\ ~GivesUp("c2s")
  BY <1>1, <1>2, <1>4, <1>9 DEF Told, GivesUp, AfterChoice
<1>11. /\ "choice" \notin {"over", "session", "closed", "lost"}
       /\ AfterChoice(type) \notin {"closed", "lost"}
  BY <1>9
<1> QED
  BY <1>1, <1>4, <1>5, <1>6, <1>7, <1>8, <1>10, <1>11, SpokeField

\* The last byte that was sent tells the value of the last field.
LEMMA LastSaid ==
  ASSUME Typed, Streams, NEW u \in Taps, NEW d \in Seq(Bytes), NEW k \in Kinds, NEW v \in Values,
         NEW n \in Nat, n > 0, Sends(u, d \o Field(k, v, n))
  PROVE  sent'[u] # <<>> /\ Last(sent'[u]).value = v
<1>1. PICK F \in Seq(Bytes) :
        F = Field(k, v, n) /\ Len(F) = n /\ \A i \in 1..n : F[i].value = v
  BY FieldBytes
<1>2. PICK q \in Seq(Bytes) : q = sent[u]
  BY DEF Typed
<1>3. \A p, b \in Seq(Bytes) : /\ p \o b \in Seq(Bytes) /\ Len(p \o b) = Len(p) + Len(b)
                               /\ \A i \in 1..Len(b) : (p \o b)[Len(p) + i] = b[i]
  BY Joined
<1>4. PICK b : b = d \o F
  OBVIOUS
<1>5. b \in Seq(Bytes) /\ Len(d) \in Nat /\ Len(q) \in Nat
  BY <1>3, <1>4
<1>6. Len(b) = Len(d) + n /\ \A i \in 1..n : b[Len(d) + i] = F[i]
  <2>1. Len(d \o F) = Len(d) + Len(F) /\ \A i \in 1..Len(F) : (d \o F)[Len(d) + i] = F[i]
    BY <1>3
  <2> QED
    BY <1>1, <1>4, <2>1
<1>7. sent'[u] = q \o b
  BY <1>1, <1>2, <1>4, <1>5, Sent
<1>8. Len(sent'[u]) = Len(q) + Len(b) /\ \A i \in 1..Len(b) : sent'[u][Len(q) + i] = b[i]
  BY <1>3, <1>5, <1>7
<1>9. n \in 1..n /\ Len(b) \in 1..Len(b) /\ Len(sent'[u]) # 0
  BY <1>5, <1>6, <1>8
<1>10. sent'[u][Len(sent'[u])] = b[Len(b)] /\ b[Len(b)] = F[n] /\ F[n].value = v
  BY <1>1, <1>6, <1>8, <1>9
<1> QED
  BY <1>9, <1>10 DEF Last

\* The result of the authentication.
LEMMA JudgesKeeps ==
  ASSUME IInv, ServerJudges PROVE IInv'
<1>1. PICK result \in {0, 1} :
        /\ Says("s2c", "judgement",
                Field("result", result, 4)
                  \o (IF result = 1 /\ agreed >= 8 THEN Reason ELSE <<>>),
                IF result = 0 THEN "init" ELSE "over")
        /\ UNCHANGED <<agreed, chosen>>
  BY DEF ServerJudges
<1>2. stage = "judgement" /\ stage' = IF result = 0 THEN "init" ELSE "over"
  BY <1>1 DEF Says
<1>3. agreed' \in 0..8 /\ chosen' \in 0..255 /\ Told' /\ ~GivesUp("s2c")
  BY <1>1, <1>2 DEF IInv, Typed, Told, GivesUp
<1>4. /\ "s2c" \in Taps /\ "result" \in Steps /\ result \in Nat /\ result \in Values
      /\ 4 \in Nat /\ 4 > 0 /\ "result" # "done" /\ "result" \notin ClientSteps
      /\ ("s2c" = "c2s" <=> "result" \in ClientSteps)
  BY DEF Taps, Steps, ClientSteps, Values
<1>5. \A e : Due(e) => Awaits(e, "result", 4)
  BY <1>2 DEF Due
<1>6. \A e : Awaits(e, "result", 4) => Legal(e, result)
  BY <1>4 DEF Awaits, Legal
<1>7. CASE result = 1 /\ agreed >= 8
  <2>1. Says("s2c", "judgement", Field("result", result, 4) \o Reason, "over")
    BY <1>1, <1>7
  <2>2. \A e \in States : e.step = "result" => Advance(e, result) = Return(e)
    <3>1. result # 0
      BY <1>7
    <3> QED
      BY <3>1, Advances
  <2>3. "judgement" \in {"offer", "judgement"}
    OBVIOUS
  <2> QED
    BY <1>3, <1>4, <1>5, <1>6, <2>1, <2>2, <2>3, SpokeReason
<1>8. CASE ~(result = 1 /\ agreed >= 8)
  <2> DEFINE next == IF result = 0 THEN "init" ELSE "over"
  <2>1. Field("result", result, 4) \o <<>> = Field("result", result, 4)
    <3>1. "result" \in Kinds
      BY DEF Kinds, Steps
    <3>2. Field("result", result, 4) \in Seq(Bytes)
      BY <1>4, <3>1, FieldBytes
    <3> QED
      BY <3>2, ConcatEmptySeq
  <2>2. Says("s2c", "judgement", Field("result", result, 4), next)
    BY <1>1, <1>8, <2>1
  <2>3. /\ "judgement" \notin {"over", "session", "closed", "lost"}
        /\ next \notin {"closed", "lost"}
    OBVIOUS
  <2>4. ASSUME NEW e \in States, NEW a, Due(e), e.abort = FALSE, a = Advance(e, result)
        PROVE  Due(a)' \/ Over("s2c", a)'
    <3>1. a = IF result = 0 THEN Await(e, "client_init", 1) ELSE Await(e, "done", 0)
      <4>1. e.step = "result"
        BY <1>5, <2>4 DEF Awaits
      <4>2. Advance(e, result) = IF result = 0 THEN Await(e, "client_init", 1) ELSE Return(e)
        BY <4>1, Advances
      <4> QED
        BY <2>4, <4>2 DEF Return
    <3>2. CASE result = 0
      <4>1. Awaits(a, "client_init", 1)
        BY <3>1, <3>2, AwaitFields DEF Awaits
      <4> QED
        BY <1>2, <3>2, <4>1 DEF Due
    <3>3. CASE result # 0
      <4>1. a.step = "done" /\ a.abort = FALSE
        BY <2>4, <3>1, <3>3, AwaitFields
      <4> QED
        BY <1>2, <3>3, <4>1 DEF Over
    <3> QED
      BY <3>2, <3>3
  <2> HIDE DEF next
  <2> QED
    BY <1>3, <1>4, <1>5, <1>6, <2>2, <2>3, <2>4, SpokeField
<1> QED
  BY <1>7, <1>8

\* In direction u, _run is led from e to f by a field k of n bytes with value v.
Takes(u, e, k, v, n, f) ==
  /\ Watches(e, u) /\ Awaits(e, k, n) /\ n \in Nat /\ n > 0
  /\ v \in Values /\ Legal(e, v) /\ f = Advance(e, v)

\* A message of two fields.
LEMMA TwoFields ==
  ASSUME Typed, Streams, NEW u \in Taps, NEW e, InRun(u, e, Len(sent[u])),
         NEW k, NEW v, NEW n, NEW f, Takes(u, e, k, v, n, f),
         NEW l, NEW w, NEW m, NEW a, Takes(u, f, l, w, m, a)
  PROVE  LET d == Field(k, v, n) \o Field(l, w, m)
         IN  /\ d \in Seq(Bytes) /\ a \in States /\ Sound(a) /\ a.preserve = e.preserve
             /\ Reads(sent[u] \o d, u, scrubber, At(u), a, Len(sent[u] \o d))
<1>1. /\ e.step = k /\ e.need = n /\ Watches(e, u) /\ n \in Nat /\ n > 0
      /\ v \in Values /\ Legal(e, v) /\ f = Advance(e, v)
  BY DEF Takes, Awaits
<1>2. /\ f.need = m /\ Watches(f, u) /\ m \in Nat /\ m > 0
      /\ w \in Values /\ Legal(f, w)
  BY DEF Takes, Awaits
<1>3. PICK b : b = Field(e.step, v, n)
  OBVIOUS
<1>4. /\ b \in Seq(Bytes) /\ f.preserve = e.preserve
      /\ Reads(sent[u] \o b, u, scrubber, At(u), f, Len(sent[u] \o b))
  BY <1>1, <1>3, OneField
<1>5. PICK q \in Seq(Bytes) : q = sent[u]
  BY DEF Typed
<1>6. PICK c, s : c = At(u) /\ s = scrubber
  OBVIOUS
<1>7. Reads(q \o b, u, s, c, f, Len(q \o b)) /\ b \in Seq(Bytes)
  BY <1>4, <1>5, <1>6
<1>8. LET d == b \o Field(f.step, w, m)
          i == Advance(f, w)
      IN  /\ d \in Seq(Bytes) /\ i \in States /\ Sound(i) /\ i.preserve = f.preserve
          /\ Reads(q \o d, u, s, c, i, Len(q \o d))
  BY <1>2, <1>7, FurtherField
<1>9. f.step = l /\ a = Advance(f, w)
  BY DEF Takes, Awaits
<1> QED
  BY <1>1, <1>2, <1>3, <1>4, <1>5, <1>6, <1>8, <1>9

\* The security types of a server since 3.7.
LEMMA OffersKeeps ==
  ASSUME IInv, ServerOffers PROVE IInv'
<1>1. PICK offer \in Offers :
        /\ agreed >= 7 /\ UNCHANGED <<agreed, chosen>>
        /\ IF offer = <<>>
           THEN Says("s2c", "offer", Field("num_types", 0, 1) \o Reason, "over")
           ELSE Says("s2c", "offer", Field("num_types", Len(offer), 1)
                                     \o Field("types", offer, Len(offer)), "choice")
  BY DEF ServerOffers
<1>2. stage = "offer"
  BY <1>1 DEF Says
<1>3. agreed \in 0..8 /\ agreed \notin 1..6 /\ agreed' \in 0..8 /\ chosen' \in 0..255
  BY <1>1 DEF IInv, Typed
<1>4. /\ "s2c" \in Taps /\ "num_types" \in Steps /\ 0 \in Values /\ 0 \in Nat
      /\ 1 \in Nat /\ 1 > 0 /\ "num_types" # "done" /\ "num_types" \notin ClientSteps
      /\ ("s2c" = "c2s" <=> "num_types" \in ClientSteps)
  BY DEF Taps, Steps, ClientSteps, Values
<1>5. \A e : Due(e) => Awaits(e, "num_types", 1) /\ e.negotiated = agreed
  BY <1>2, <1>3 DEF Due
<1>6. \A x \in Nat : \A e : Awaits(e, "num_types", 1) => Legal(e, x)
  BY DEF Awaits, Legal
<1>7. CASE offer = <<>>
  <2>1. Says("s2c", "offer", Field("num_types", 0, 1) \o Reason, "over")
    BY <1>1, <1>7
  <2>2. \A e \in States : e.step = "num_types" => Advance(e, 0) = Return(e)
    BY Advances
  <2>3. "offer" \in {"offer", "judgement"}
    OBVIOUS
  <2> QED
    BY <1>3, <1>4, <1>5, <1>6, <2>1, <2>2, <2>3, SpokeReason
<1>8. CASE offer # <<>>
  <2>1. PICK v : v = Len(offer)
    OBVIOUS
  <2>2. Says("s2c", "offer", Field("num_types", v, 1) \o Field("types", offer, v), "choice")
    BY <1>1, <1>8, <2>1
  <2>3. stage' = "choice" /\ ~GivesUp("s2c")
    BY <1>2, <2>2 DEF Says, GivesUp
  <2>4. offer \in Seq(1..255) /\ v \in Nat /\ v > 0
    BY <1>8, <2>1, ScrubberAssumption
  <2>5. offer \in Seq(Nat)
    <3>1. ASSUME NEW S, NEW T, S \subseteq T, NEW q \in Seq(S) PROVE q \in Seq(T)
      BY <3>1
    <3>2. 1..255 \subseteq Nat
      OBVIOUS
    <3> QED
      BY <2>4, <3>1, <3>2
  <2>6. /\ v \in Values /\ offer \in Values /\ "types" \in Steps /\ "types" # "done"
        /\ ("s2c" = "c2s" <=> "types" \in ClientSteps) /\ "types" \in Kinds
        /\ "num_types" \in Kinds
    BY <2>4, <2>5 DEF Values, Steps, ClientSteps, Kinds
  <2>7. PICK d : d = Field("num_types", v, 1) \o Field("types", offer, v)
    OBVIOUS
  <2>8. /\ Says("s2c", "offer", d, "choice") /\ Sends("s2c", d) /\ Typed /\ Streams
    BY <2>2, <2>7 DEF IInv, Says, Sends, captureVars
  <2>9. d \in Seq(Bytes) /\ Field("num_types", v, 1) \in Seq(Bytes)
    <3>1. Field("num_types", v, 1) \in Seq(Bytes) /\ Field("types", offer, v) \in Seq(Bytes)
      BY <1>4, <2>4, <2>6, FieldBytes
    <3> QED
      BY <2>7, <3>1
  <2>10. Told'
    <3>1. sent'["s2c"] # <<>> /\ Last(sent'["s2c"]).value = offer
      BY <1>4, <2>4, <2>6, <2>7, <2>8, <2>9, LastSaid
    <3> QED
      BY <2>3, <2>4, <3>1 DEF Told
  <2>11. ASSUME NEW e, Due(e), InRun("s2c", e, Len(sent["s2c"]))
         PROVE  \E a, y : InRun("s2c", a, y)' /\ (Due(a)' \/ Over("s2c", a)')
    <3>1. e.step = "num_types" /\ e.need = 1 /\ e.negotiated = agreed
      BY <1>5, <2>11 DEF Awaits
    <3>2. Watches(e, "s2c") /\ Legal(e, v) /\ e \in States
      BY <1>4, <2>4, <2>11, <3>1, ReadsEnds DEF Watches, Legal, InRun
    <3>3. PICK f : f = Advance(e, v)
      OBVIOUS
    <3>4. f = Await(e, "types", v)
      <4>1. v # 0
        BY <2>4
      <4> QED
        BY <3>1, <3>2, <3>3, <4>1, Advances
    <3>5. f \in States /\ f.step = "types" /\ f.need = v /\ f.negotiated = agreed
      BY <2>4, <2>6, <3>1, <3>2, <3>4, AwaitFields
    <3>6. Watches(f, "s2c") /\ Legal(f, offer)
      BY <2>5, <2>6, <3>5 DEF Watches, Legal
    <3>7. PICK a : a = Advance(f, offer)
      OBVIOUS
    <3>8. /\ a \in States /\ a.preserve = e.preserve
          /\ Reads(sent["s2c"] \o d, "s2c", scrubber, At("s2c"), a, Len(sent["s2c"] \o d))
      <4>1. Takes("s2c", e, "num_types", v, 1, f)
        BY <1>4, <2>6, <3>1, <3>2, <3>3 DEF Takes, Awaits
      <4>2. Takes("s2c", f, "types", offer, v, a)
        BY <2>4, <2>6, <3>5, <3>6, <3>7 DEF Takes, Awaits
      <4>3. Typed /\ Streams /\ InRun("s2c", e, Len(sent["s2c"])) /\ "s2c" \in Taps
        BY <1>4, <2>8, <2>11
      <4>4. \A l, w, m, i : Takes("s2c", f, l, w, m, i) =>
              LET g == Field("num_types", v, 1) \o Field(l, w, m)
              IN  /\ g \in Seq(Bytes) /\ i \in States /\ Sound(i) /\ i.preserve = e.preserve
                  /\ Reads(sent["s2c"] \o g, "s2c", scrubber, At("s2c"), i, Len(sent["s2c"] \o g))
        BY <4>1, <4>3, TwoFields
      <4> QED
        BY <2>7, <4>2, <4>4
    <3>9. \E y : InRun("s2c", a, y)'
      BY <1>4, <2>8, <2>9, <2>11, <3>1, <3>8, SaidAll
    <3>10. a = Await(f, "sectype", 1)
      BY <3>5, <3>7, Advances
    <3>11. a.step = "sectype" /\ a.need = 1 /\ a.negotiated = agreed
      BY <3>5, <3>10, AwaitFields
    <3>12. Due(a)'
      BY <1>1, <2>3, <3>11 DEF Due, Awaits
    <3> QED
      BY <3>9, <3>12
  <2>12. \A e : Due(e) => Watches(e, "s2c")
    BY <1>4, <1>5 DEF Awaits, Watches
  <2>13. /\ "offer" \notin {"over", "session", "closed", "lost"}
         /\ "choice" \notin {"closed", "lost"}
    OBVIOUS
  <2> QED
    BY <1>3, <1>4, <2>3, <2>8, <2>9, <2>10, <2>11, <2>12, <2>13, Spoke
<1> QED
  BY <1>7, <1>8

\* The server describes its desktop; a name of no bytes is no field.
LEMMA ServerStartsKeeps ==
  ASSUME IInv, ServerStarts PROVE IInv'
<1>1. PICK n \in NameLens :
        /\ Says("s2c", "description", Field("server_init", n, 24) \o Field("name", n, n), "session")
        /\ UNCHANGED <<agreed, chosen>>
  BY DEF ServerStarts
<1>2. stage = "description" /\ stage' = "session"
  BY <1>1 DEF Says
<1>3. agreed' \in 0..8 /\ chosen' \in 0..255 /\ Told' /\ ~GivesUp("s2c")
  BY <1>1, <1>2 DEF IInv, Typed, Told, GivesUp
<1>4. /\ "s2c" \in Taps /\ "server_init" \in Steps /\ n \in Nat /\ n \in Values
      /\ 24 \in Nat /\ 24 > 0 /\ "server_init" # "done"
      /\ ("s2c" = "c2s" <=> "server_init" \in ClientSteps)
  BY ScrubberAssumption DEF Taps, Steps, ClientSteps, Values
<1>kinds. /\ "server_init" \notin ClientSteps /\ "server_init" \in Kinds
          /\ "name" \notin ClientSteps /\ "name" \in Kinds /\ "name" \in Steps
  BY DEF Steps, ClientSteps, Kinds
<1>5. \A e : Due(e) => Awaits(e, "server_init", 24)
  BY <1>2 DEF Due
<1>6. \A e : Awaits(e, "server_init", 24) => Legal(e, n)
  BY <1>4 DEF Awaits, Legal
<1>7. /\ "description" \notin {"over", "session", "closed", "lost"}
      /\ "session" \notin {"closed", "lost"}
  OBVIOUS
<1>8. ASSUME NEW e \in States, e.abort = FALSE
      PROVE  [e EXCEPT !.sized = TRUE] \in States /\ [e EXCEPT !.sized = TRUE].abort = FALSE
  BY <1>8 DEF States
<1>9. \A s \in States : \A a : a = Return(s) /\ s.abort = FALSE => Over("s2c", a)'
  <2>1. ASSUME NEW s \in States, NEW a, a = Return(s), s.abort = FALSE PROVE Over("s2c", a)'
    <3>1. a.step = "done" /\ a.abort = FALSE
      BY <2>1, AwaitFields DEF Return
    <3> QED
      BY <1>2, <3>1 DEF Over
  <2> QED
    BY <2>1
<1>10. CASE n = 0
  <2>1. Field("server_init", n, 24) \o Field("name", n, n) = Field("server_init", n, 24)
    <3>1. Field("name", n, n) = <<>>
      BY <1>10 DEF Field
    <3>2. Field("server_init", n, 24) \in Seq(Bytes)
      BY <1>4, <1>kinds, FieldBytes
    <3> QED
      BY <3>1, <3>2, ConcatEmptySeq
  <2>2. Says("s2c", "description", Field("server_init", n, 24), "session")
    BY <1>1, <2>1
  <2>3. ASSUME NEW e \in States, NEW a, Due(e), e.abort = FALSE, a = Advance(e, n)
        PROVE  Due(a)' \/ Over("s2c", a)'
    <3>1. a = Return([e EXCEPT !.sized = TRUE])
      <4>1. e.step = "server_init"
        BY <1>5, <2>3 DEF Awaits
      <4>2. Advance(e, n) = Return([e EXCEPT !.sized = TRUE])
        BY <1>10, <4>1, Advances
      <4> QED
        BY <2>3, <4>2
    <3> QED
      BY <1>8, <1>9, <2>3, <3>1
  <2> QED
    BY <1>3, <1>4, <1>5, <1>6, <1>7, <2>2, <2>3, SpokeField
<1>11. CASE n # 0
  <2>1. PICK d : d = Field("server_init", n, 24) \o Field("name", n, n)
    OBVIOUS
  <2>2. Says("s2c", "description", d, "session") /\ Sends("s2c", d) /\ Typed /\ Streams
    BY <1>1, <2>1 DEF IInv, Says, Sends, captureVars
  <2>3. d \in Seq(Bytes)
    <3>1. Field("server_init", n, 24) \in Seq(Bytes) /\ Field("name", n, n) \in Seq(Bytes)
      BY <1>4, <1>kinds, FieldBytes
    <3> QED
      BY <2>1, <3>1
  <2>4. ASSUME NEW e, Due(e), InRun("s2c", e, Len(sent["s2c"]))
        PROVE  \E a, y : InRun("s2c", a, y)' /\ (Due(a)' \/ Over("s2c", a)')
    <3>1. e.step = "server_init" /\ e.need = 24 /\ Legal(e, n)
      BY <1>5, <1>6, <2>4 DEF Awaits
    <3>2. Watches(e, "s2c") /\ e \in States /\ Sound(e)
      BY <1>kinds, <2>4, <3>1, ReadsEnds DEF Watches, InRun
    <3>3. e.abort = FALSE /\ e.step # "done"
      BY <3>1, <3>2 DEF Sound, States
    <3>4. PICK g : g = [e EXCEPT !.sized = TRUE]
      OBVIOUS
    <3>5. g \in States /\ g.abort = FALSE
      BY <1>8, <3>2, <3>3, <3>4
    <3>6. PICK f : f = Await(g, "name", n)
      OBVIOUS
    <3>7. f = Advance(e, n)
      BY <1>11, <3>1, <3>2, <3>4, <3>6, Advances
    <3>8. f \in States /\ f.step = "name" /\ f.need = n /\ f.abort = FALSE
      BY <1>4, <1>kinds, <3>5, <3>6, AwaitFields
    <3>9. Watches(f, "s2c") /\ Legal(f, n)
      BY <1>4, <1>kinds, <3>8 DEF Watches, Legal
    <3>10. PICK a, h : a = Advance(f, n) /\ h = 24
      OBVIOUS
    <3>11. Takes("s2c", e, "server_init", n, h, f)
      BY <1>4, <3>1, <3>2, <3>7, <3>10 DEF Takes, Awaits
    <3>12. Takes("s2c", f, "name", n, n, a)
      <4>1. n > 0
        BY <1>4, <1>11
      <4> QED
        BY <1>4, <3>8, <3>9, <3>10, <4>1 DEF Takes, Awaits
    <3>13. LET p == Field("server_init", n, h) \o Field("name", n, n)
           IN  /\ p \in Seq(Bytes) /\ a \in States /\ Sound(a) /\ a.preserve = e.preserve
               /\ Reads(sent["s2c"] \o p, "s2c", scrubber, At("s2c"), a, Len(sent["s2c"] \o p))
      <4>1. Typed /\ Streams /\ InRun("s2c", e, Len(sent["s2c"])) /\ "s2c" \in Taps
        BY <1>4, <2>2, <2>4
      <4>2. \A l, w, m, i : Takes("s2c", f, l, w, m, i) =>
              LET p == Field("server_init", n, h) \o Field(l, w, m)
              IN  /\ p \in Seq(Bytes) /\ i \in States /\ Sound(i) /\ i.preserve = e.preserve
                  /\ Reads(sent["s2c"] \o p, "s2c", scrubber, At("s2c"), i, Len(sent["s2c"] \o p))
        BY <3>11, <4>1, TwoFields
      <4> QED
        BY <3>12, <4>2
    <3>14. \E y : InRun("s2c", a, y)'
      <4>1. /\ a.preserve = e.preserve
            /\ Reads(sent["s2c"] \o d, "s2c", scrubber, At("s2c"), a, Len(sent["s2c"] \o d))
        BY <2>1, <3>10, <3>13
      <4> QED
        BY <1>4, <2>2, <2>3, <2>4, <3>3, <4>1, SaidAll
    <3>15. Over("s2c", a)'
      <4>1. a = Return(f)
        BY <3>8, <3>10, Advances
      <4> QED
        BY <1>9, <3>8, <4>1
    <3> QED
      BY <3>14, <3>15
  <2>5. \A e : Due(e) => Watches(e, "s2c")
    BY <1>4, <1>5, <1>kinds DEF Awaits, Watches
  <2> QED
    BY <1>3, <1>4, <1>7, <2>2, <2>3, <2>4, <2>5, Spoke
<1> QED
  BY <1>10, <1>11

\* What an end says in an authentication that _run does not follow.
LEMMA OpaqueBytes ==
  Field("opaque", 0, 2) \in Seq(Bytes)
<1>1. "opaque" \in Kinds /\ 0 \in Values /\ 2 \in Nat
  BY DEF Kinds, Values
<1>2. \A k \in Kinds, v \in Values, n \in Nat : Field(k, v, n) \in Seq(Bytes)
  BY FieldBytes
<1> QED
  BY <1>1, <1>2

\* The client's answer to the challenge.
LEMMA AnswersKeeps ==
  ASSUME IInv, ClientAnswers PROVE IInv'
<1> DEFINE K == Last(sent["s2c"]).value
<1>1. /\ stage = "answer" /\ UNCHANGED <<agreed, chosen>>
      /\ chosen = VNC_AUTHENTICATION =>
           Says("c2s", "answer", Field("response", 0, 16), "judgement")
      /\ chosen = DIFFIE_HELLMAN =>
           Says("c2s", "answer", Field("credentials", 0, ARD_CREDENTIALS_LEN)
                                 \o Field("client_key", K, K), "judgement")
      /\ chosen \notin {VNC_AUTHENTICATION, DIFFIE_HELLMAN} =>
           Says("c2s", "answer", Field("opaque", 0, 2), "judgement")
  BY DEF ClientAnswers, VNC_AUTHENTICATION, DIFFIE_HELLMAN
<1>2. stage' = "judgement"
  BY <1>1 DEF Says
<1>3. agreed' \in 0..8 /\ chosen' \in 0..255 /\ Told' /\ ~GivesUp("c2s")
  BY <1>1, <1>2 DEF IInv, Typed, Told, GivesUp
<1>4. /\ "answer" \notin {"over", "session", "closed", "lost"}
      /\ "judgement" \notin {"closed", "lost"}
  OBVIOUS
<1>5. NONE # VNC_AUTHENTICATION /\ NONE # DIFFIE_HELLMAN /\ VNC_AUTHENTICATION # DIFFIE_HELLMAN
  BY DEF VNC_AUTHENTICATION, DIFFIE_HELLMAN, NONE
<1>6. ASSUME NEW s \in States, NEW a, a = AfterAuth(s), s.sectype = chosen, chosen # NONE
      PROVE  Due(a)'
  <2>1. Awaits(a, "result", 4)
    BY <1>6, AfterAuthFields DEF Awaits
  <2> QED
    BY <1>2, <2>1 DEF Due
<1>7. CASE chosen = VNC_AUTHENTICATION
  <2>1. Says("c2s", "answer", Field("response", 0, 16), "judgement")
    BY <1>1, <1>7
  <2>2. /\ "c2s" \in Taps /\ "response" \in Steps /\ 0 \in Nat /\ 0 \in Values
        /\ 16 \in Nat /\ 16 > 0 /\ "response" # "done"
        /\ ("c2s" = "c2s" <=> "response" \in ClientSteps)
    BY DEF Taps, Steps, ClientSteps, Values
  <2>3. \A e : Due(e) => Awaits(e, "response", 16) /\ e.sectype = chosen
    BY <1>1, <1>5, <1>7 DEF Due
  <2>4. \A e : Awaits(e, "response", 16) => Legal(e, 0)
    BY <2>2 DEF Awaits, Legal
  <2>5. ASSUME NEW e \in States, NEW a, Due(e), e.abort = FALSE, a = Advance(e, 0)
        PROVE  Due(a)' \/ Over("c2s", a)'
    <3>1. a = AfterAuth(e) /\ e.sectype = chosen
      <4>1. e.step = "response"
        BY <2>3, <2>5 DEF Awaits
      <4>2. Advance(e, 0) = AfterAuth(e)
        BY <4>1, Advances
      <4> QED
        BY <2>3, <2>5, <4>2
    <3> QED
      BY <1>5, <1>6, <1>7, <3>1
  <2> QED
    BY <1>3, <1>4, <2>1, <2>2, <2>3, <2>4, <2>5, SpokeField
<1>8. CASE chosen = DIFFIE_HELLMAN
  <2>1. PICK d, k, h : /\ k = K /\ h = ARD_CREDENTIALS_LEN
                       /\ d = Field("credentials", 0, h) \o Field("client_key", k, k)
    OBVIOUS
  <2>2. Says("c2s", "answer", d, "judgement") /\ Sends("c2s", d) /\ Typed /\ Streams
    BY <1>1, <1>8, <2>1 DEF IInv, Says, Sends, captureVars
  <2>3. k \in Nat /\ k > 0 /\ h \in Nat /\ h > 0
    <3>1. K \in Nat \ {0}
      BY <1>1, <1>8 DEF IInv, Told
    <3> QED
      BY <2>1, <3>1 DEF ARD_CREDENTIALS_LEN
  <2>4. /\ "c2s" \in Taps /\ "credentials" \in ClientSteps /\ "client_key" \in ClientSteps
        /\ "client_key" \in Steps /\ "credentials" \in Kinds /\ "client_key" \in Kinds
        /\ 0 \in Values /\ k \in Values /\ 0 \in Nat
    BY <2>3 DEF Taps, Steps, ClientSteps, Values, Kinds
  <2>5. d \in Seq(Bytes)
    <3>1. Field("credentials", 0, h) \in Seq(Bytes) /\ Field("client_key", k, k) \in Seq(Bytes)
      BY <2>3, <2>4, FieldBytes
    <3> QED
      BY <2>1, <3>1
  <2>6. \A e : Due(e) => Awaits(e, "credentials", h) /\ e.sectype = chosen /\ e.keyLen = k
    BY <1>1, <1>5, <1>8, <2>1 DEF Due
  <2>7. \A e : Due(e) => Watches(e, "c2s")
    BY <2>4, <2>6 DEF Awaits, Watches
  <2>8. ASSUME NEW e, Due(e), InRun("c2s", e, Len(sent["c2s"]))
        PROVE  \E a, y : InRun("c2s", a, y)' /\ (Due(a)' \/ Over("c2s", a)')
    <3>1. /\ Awaits(e, "credentials", h) /\ e.step = "credentials" /\ e.sectype = chosen
          /\ e.keyLen = k /\ Watches(e, "c2s")
      BY <2>6, <2>7, <2>8 DEF Awaits
    <3>2. e \in States /\ Legal(e, 0) /\ e.step # "done"
      BY <2>8, <3>1, ReadsEnds DEF Legal, InRun
    <3>3. PICK f : f = Advance(e, 0)
      OBVIOUS
    <3>4. f = Await(e, "client_key", k)
      BY <3>1, <3>2, <3>3, Advances
    <3>5. f \in States /\ f.step = "client_key" /\ f.need = k /\ f.sectype = chosen
      BY <2>3, <2>4, <3>1, <3>2, <3>4, AwaitFields
    <3>6. Watches(f, "c2s") /\ Legal(f, k)
      BY <2>3, <2>4, <3>5 DEF Watches, Legal
    <3>7. PICK a : a = Advance(f, k)
      OBVIOUS
    <3>8. Takes("c2s", e, "credentials", 0, h, f)
      BY <2>3, <2>4, <3>1, <3>2, <3>3 DEF Takes
    <3>9. Takes("c2s", f, "client_key", k, k, a)
      BY <2>3, <2>4, <3>5, <3>6, <3>7 DEF Takes, Awaits
    <3>10. /\ a.preserve = e.preserve
           /\ Reads(sent["c2s"] \o d, "c2s", scrubber, At("c2s"), a, Len(sent["c2s"] \o d))
      <4>1. Typed /\ Streams /\ InRun("c2s", e, Len(sent["c2s"])) /\ "c2s" \in Taps
        BY <2>2, <2>4, <2>8
      <4>2. \A l, w, m, i : Takes("c2s", f, l, w, m, i) =>
              LET p == Field("credentials", 0, h) \o Field(l, w, m)
              IN  /\ p \in Seq(Bytes) /\ i \in States /\ Sound(i) /\ i.preserve = e.preserve
                  /\ Reads(sent["c2s"] \o p, "c2s", scrubber, At("c2s"), i, Len(sent["c2s"] \o p))
        BY <3>8, <4>1, TwoFields
      <4> QED
        BY <2>1, <3>9, <4>2
    <3>11. \E y : InRun("c2s", a, y)'
      BY <2>2, <2>4, <2>5, <2>8, <3>2, <3>10, SaidAll
    <3>12. a = AfterAuth(f)
      BY <3>5, <3>7, Advances
    <3>13. Due(a)'
      BY <1>5, <1>6, <1>8, <3>5, <3>12
    <3> QED
      BY <3>11, <3>13
  <2> QED
    BY <1>3, <1>4, <2>2, <2>4, <2>5, <2>7, <2>8, Spoke
<1>9. CASE chosen \notin {VNC_AUTHENTICATION, DIFFIE_HELLMAN}
  <2>1. Says("c2s", "answer", Field("opaque", 0, 2), "judgement") /\ "c2s" \in Taps
    BY <1>1, <1>9 DEF Taps
  <2>2. \A e : ~Due(e)
    BY <1>1, <1>9 DEF Due
  <2> QED
    BY <1>3, <1>4, <2>1, <2>2, OpaqueBytes, Spoke
<1> QED
  BY <1>7, <1>8, <1>9

\* A message of three fields.
LEMMA ThreeFields ==
  ASSUME Typed, Streams, NEW u \in Taps, NEW e, InRun(u, e, Len(sent[u])),
         NEW k, NEW v, NEW n, NEW f, Takes(u, e, k, v, n, f),
         NEW l, NEW w, NEW m, NEW g, Takes(u, f, l, w, m, g),
         NEW j, NEW x, NEW o, NEW a, Takes(u, g, j, x, o, a)
  PROVE  LET d == Field(k, v, n) \o Field(l, w, m) \o Field(j, x, o)
         IN  /\ d \in Seq(Bytes) /\ a \in States /\ Sound(a) /\ a.preserve = e.preserve
             /\ Reads(sent[u] \o d, u, scrubber, At(u), a, Len(sent[u] \o d))
<1>1. PICK b : b = Field(k, v, n) \o Field(l, w, m)
  OBVIOUS
<1>2. /\ b \in Seq(Bytes) /\ g.preserve = e.preserve
      /\ Reads(sent[u] \o b, u, scrubber, At(u), g, Len(sent[u] \o b))
  <2>1. LET p == Field(k, v, n) \o Field(l, w, m)
        IN  /\ p \in Seq(Bytes) /\ g \in States /\ Sound(g) /\ g.preserve = e.preserve
            /\ Reads(sent[u] \o p, u, scrubber, At(u), g, Len(sent[u] \o p))
    BY TwoFields
  <2> QED
    BY <1>1, <2>1
<1>3. /\ g.need = o /\ Watches(g, u) /\ o \in Nat /\ o > 0
      /\ x \in Values /\ Legal(g, x)
  BY DEF Takes, Awaits
<1>4. PICK q \in Seq(Bytes) : q = sent[u]
  BY DEF Typed
<1>5. PICK c, s : c = At(u) /\ s = scrubber
  OBVIOUS
<1>6. Reads(q \o b, u, s, c, g, Len(q \o b)) /\ b \in Seq(Bytes)
  BY <1>2, <1>4, <1>5
<1>7. LET d == b \o Field(g.step, x, o)
          i == Advance(g, x)
      IN  /\ d \in Seq(Bytes) /\ i \in States /\ Sound(i) /\ i.preserve = g.preserve
          /\ Reads(q \o d, u, s, c, i, Len(q \o d))
  BY <1>3, <1>6, FurtherField
<1>8. g.step = j /\ a = Advance(g, x)
  BY DEF Takes, Awaits
<1> QED
  BY <1>1, <1>2, <1>4, <1>5, <1>7, <1>8

\* The server's challenge, or its key for Diffie-Hellman.
LEMMA ChallengesKeeps ==
  ASSUME IInv, ServerChallenges PROVE IInv'
<1>1. PICK k \in KeyLens :
        /\ stage = "exchange" /\ UNCHANGED <<agreed, chosen>>
        /\ chosen = VNC_AUTHENTICATION =>
             Says("s2c", "exchange", Field("challenge", 0, 16), "answer")
        /\ chosen = DIFFIE_HELLMAN =>
             Says("s2c", "exchange", Field("dh_head", k, 4) \o Field("modulus", k, k)
                                     \o Field("server_key", k, k), "answer")
        /\ chosen \notin {VNC_AUTHENTICATION, DIFFIE_HELLMAN} =>
             Says("s2c", "exchange", Field("opaque", 0, 2), "answer")
        /\ stage' = "answer"
  <2>1. PICK k \in KeyLens :
          /\ Says("s2c", "exchange",
                  CASE chosen = VNC_AUTHENTICATION -> Field("challenge", 0, 16)
                    [] chosen = DIFFIE_HELLMAN ->
                         Field("dh_head", k, 4) \o Field("modulus", k, k)
                           \o Field("server_key", k, k)
                    [] OTHER -> Field("opaque", 0, 2),
                  "answer")
          /\ UNCHANGED <<agreed, chosen>>
    BY DEF ServerChallenges
  <2>2. stage = "exchange" /\ stage' = "answer"
    BY <2>1 DEF Says
  <2>3. VNC_AUTHENTICATION # DIFFIE_HELLMAN
    BY DEF VNC_AUTHENTICATION, DIFFIE_HELLMAN
  <2> QED
    BY <2>1, <2>2, <2>3
<1>2. agreed' \in 0..8 /\ chosen' \in 0..255
  BY <1>1 DEF IInv, Typed
<1>3. GivesUp("s2c") => GivesUp("s2c")'
  BY <1>1 DEF GivesUp, Unfollowable
<1>4. /\ "exchange" \notin {"over", "session", "closed", "lost"}
      /\ "answer" \notin {"closed", "lost"} /\ "s2c" \in Taps
  BY DEF Taps
<1>5. VNC_AUTHENTICATION # DIFFIE_HELLMAN
  BY DEF VNC_AUTHENTICATION, DIFFIE_HELLMAN
<1>6. chosen # DIFFIE_HELLMAN => Told'
  BY <1>1 DEF Told
<1>7. CASE chosen = VNC_AUTHENTICATION
  <2>1. Says("s2c", "exchange", Field("challenge", 0, 16), "answer") /\ Told'
    BY <1>1, <1>5, <1>6, <1>7
  <2>2. /\ "challenge" \in Steps /\ 0 \in Nat /\ 0 \in Values
        /\ 16 \in Nat /\ 16 > 0 /\ "challenge" # "done"
        /\ ("s2c" = "c2s" <=> "challenge" \in ClientSteps)
    BY DEF Steps, ClientSteps, Values
  <2>3. \A e : Due(e) => Awaits(e, "challenge", 16)
    BY <1>1, <1>5, <1>7 DEF Due
  <2>4. \A e : Awaits(e, "challenge", 16) => Legal(e, 0)
    BY <2>2 DEF Awaits, Legal
  <2>5. ASSUME NEW e \in States, NEW a, Due(e), e.abort = FALSE, a = Advance(e, 0)
        PROVE  Due(a)' \/ Over("s2c", a)'
    <3>1. a = Await(e, "response", 16) /\ e.sectype = chosen
      <4>1. e.sectype = chosen
        BY <1>1, <2>5 DEF Due
      <4>2. e.step = "challenge"
        BY <2>3, <2>5 DEF Awaits
      <4>3. Advance(e, 0) = Await(e, "response", 16)
        BY <4>2, Advances
      <4> QED
        BY <2>5, <4>1, <4>3
    <3>2. Awaits(a, "response", 16) /\ a.sectype = chosen
      BY <3>1, AwaitFields DEF Awaits
    <3> QED
      BY <1>1, <1>7, <3>2 DEF Due
  <2> QED
    BY <1>2, <1>3, <1>4, <2>1, <2>2, <2>3, <2>4, <2>5, SpokeField
<1>8. CASE chosen = DIFFIE_HELLMAN
  <2>1. PICK b : b = Field("dh_head", k, 4) \o Field("modulus", k, k)
    OBVIOUS
  <2>2. PICK d : d = b \o Field("server_key", k, k)
    OBVIOUS
  <2>3. Says("s2c", "exchange", d, "answer") /\ Sends("s2c", d) /\ Typed /\ Streams
    BY <1>1, <1>8, <2>1, <2>2 DEF IInv, Says, Sends, captureVars
  <2>4. k \in Nat /\ k # 0 /\ k > 0 /\ k \in Values
    BY ScrubberAssumption DEF Values
  <2>5. /\ "dh_head" \notin ClientSteps /\ "dh_head" \in Kinds
        /\ "modulus" \notin ClientSteps /\ "modulus" \in Steps /\ "modulus" \in Kinds
        /\ "server_key" \notin ClientSteps /\ "server_key" \in Steps /\ "server_key" \in Kinds
        /\ 4 \in Nat /\ 4 > 0
    BY DEF Steps, ClientSteps, Kinds
  <2>6. b \in Seq(Bytes) /\ d \in Seq(Bytes)
    <3>1. /\ Field("dh_head", k, 4) \in Seq(Bytes) /\ Field("modulus", k, k) \in Seq(Bytes)
          /\ Field("server_key", k, k) \in Seq(Bytes)
      BY <2>4, <2>5, FieldBytes
    <3> QED
      BY <2>1, <2>2, <3>1
  <2>7. sent'["s2c"] # <<>> /\ Last(sent'["s2c"]).value = k
    BY <1>4, <2>2, <2>3, <2>4, <2>5, <2>6, LastSaid
  <2>8. Told'
    BY <1>1, <2>4, <2>7 DEF Told
  <2>9. \A e : Due(e) => Awaits(e, "dh_head", 4) /\ e.sectype = chosen
    BY <1>1, <1>5, <1>8 DEF Due
  <2>10. \A e : Due(e) => Watches(e, "s2c")
    BY <2>5, <2>9 DEF Awaits, Watches
  <2>11. ASSUME NEW e, Due(e), InRun("s2c", e, Len(sent["s2c"]))
         PROVE  \E a, y : InRun("s2c", a, y)' /\ (Due(a)' \/ Over("s2c", a)')
    <3>1. /\ Awaits(e, "dh_head", 4) /\ e.step = "dh_head" /\ e.sectype = chosen
          /\ Watches(e, "s2c")
      BY <2>9, <2>10, <2>11 DEF Awaits
    <3>2. e \in States /\ Legal(e, k) /\ e.step # "done"
      BY <2>4, <2>11, <3>1, ReadsEnds DEF Legal, InRun
    <3>3. PICK f, h : f = Advance(e, k) /\ h = 4
      OBVIOUS
    <3>4. /\ f \in States /\ f.step = "modulus" /\ f.need = k /\ f.keyLen = k
          /\ f.sectype = chosen
      <4>1. PICK i : i = [e EXCEPT !.keyLen = k]
        OBVIOUS
      <4>2. f = Await(i, "modulus", k)
        BY <3>1, <3>2, <3>3, <4>1, Advances
      <4>3. i \in States /\ i.keyLen = k /\ i.sectype = chosen
        BY <2>4, <3>1, <3>2, <4>1 DEF States
      <4> QED
        BY <2>4, <2>5, <4>2, <4>3, AwaitFields
    <3>5. PICK g : g = Advance(f, k)
      OBVIOUS
    <3>6. /\ g \in States /\ g.step = "server_key" /\ g.need = k /\ g.keyLen = k
          /\ g.sectype = chosen
      <4>1. g = Await(f, "server_key", k)
        <5>1. f \in States /\ f.step = "modulus" /\ f.keyLen = k
          BY <3>4
        <5> QED
          BY <3>5, <5>1, Advances
      <4> QED
        BY <2>4, <2>5, <3>4, <4>1, AwaitFields
    <3>7. PICK a : a = Advance(g, k)
      OBVIOUS
    <3>8. Awaits(a, "credentials", ARD_CREDENTIALS_LEN) /\ a.keyLen = k /\ a.sectype = chosen
      <4>1. a = Await(g, "credentials", ARD_CREDENTIALS_LEN)
        BY <3>6, <3>7, Advances
      <4> QED
        BY <3>6, <4>1, AwaitFields DEF Awaits
    <3>9. Takes("s2c", e, "dh_head", k, h, f)
      BY <2>4, <2>5, <3>1, <3>2, <3>3 DEF Takes
    <3>10. Takes("s2c", f, "modulus", k, k, g)
      BY <2>4, <2>5, <3>4, <3>5 DEF Takes, Awaits, Watches, Legal
    <3>11. Takes("s2c", g, "server_key", k, k, a)
      BY <2>4, <2>5, <3>6, <3>7 DEF Takes, Awaits, Watches, Legal
    <3>12. /\ a.preserve = e.preserve
           /\ Reads(sent["s2c"] \o d, "s2c", scrubber, At("s2c"), a, Len(sent["s2c"] \o d))
      <4>1. Typed /\ Streams /\ InRun("s2c", e, Len(sent["s2c"])) /\ "s2c" \in Taps
        BY <1>4, <2>3, <2>11
      <4>2. ASSUME NEW w, NEW m, NEW x, NEW o,
                   Takes("s2c", f, "modulus", w, m, g), Takes("s2c", g, "server_key", x, o, a)
            PROVE  LET p == Field("dh_head", k, h) \o Field("modulus", w, m)
                            \o Field("server_key", x, o)
                   IN  /\ p \in Seq(Bytes) /\ a \in States /\ Sound(a) /\ a.preserve = e.preserve
                       /\ Reads(sent["s2c"] \o p, "s2c", scrubber, At("s2c"), a,
                                Len(sent["s2c"] \o p))
        BY <3>9, <4>1, <4>2, ThreeFields
      <4> QED
        BY <2>1, <2>2, <3>3, <3>10, <3>11, <4>2
    <3>13. \E y : InRun("s2c", a, y)'
      BY <1>4, <2>3, <2>6, <2>11, <3>2, <3>12, SaidAll
    <3>14. Due(a)'
      BY <1>1, <1>8, <2>7, <3>8 DEF Due
    <3> QED
      BY <3>13, <3>14
  <2> QED
    BY <1>2, <1>3, <1>4, <2>3, <2>6, <2>8, <2>10, <2>11, Spoke
<1>9. CASE chosen \notin {VNC_AUTHENTICATION, DIFFIE_HELLMAN}
  <2>1. Says("s2c", "exchange", Field("opaque", 0, 2), "answer") /\ Told'
    BY <1>1, <1>6, <1>9
  <2>2. \A e : ~Due(e)
    BY <1>1, <1>9 DEF Due
  <2> QED
    BY <1>2, <1>3, <1>4, <2>1, <2>2, OpaqueBytes, Spoke
<1> QED
  BY <1>7, <1>8, <1>9

\* A byte of the session that follows the handshake.
LEMMA SessionKeeps ==
  ASSUME IInv, NEW u \in Taps, SessionByte(u) PROVE IInv'
<1>1. PICK b : b = Field("session", 0, 1)
  OBVIOUS
<1>2. b \in Seq(Bytes) /\ b \in Seq(PlainBytes)
  <2>1. "session" \in Kinds /\ 0 \in Values /\ 1 \in Nat /\ Plain("session")
    BY DEF Kinds, Values, Plain
  <2>2. \A k \in Kinds, v \in Values, n \in Nat : Field(k, v, n) \in Seq(Bytes)
    BY FieldBytes
  <2> QED
    BY <1>1, <2>1, <2>2, FieldPlain
<1>3. /\ stage = "session" /\ Sends(u, b) /\ Typed /\ Streams /\ CleanRecord
      /\ UNCHANGED <<scrubber, pending, recorded, capture, fed, stage, agreed, chosen>>
  BY <1>1 DEF SessionByte, Sends, captureVars, IInv
<1>4. capture = "held" /\ scrubber.abort = FALSE /\ Follows
  BY <1>3 DEF IInv
<1>5. Typed' /\ Streams'
  BY <1>2, <1>3, Sent DEF Typed
<1>6. Told' /\ CleanRecord'
  BY <1>3 DEF Told, CleanRecord, Kept
<1>7. PICK t \in Taps : \E e, z : InRun(t, e, z) /\ (Due(e) \/ Over(t, e))
  BY <1>4 DEF Follows
<1>8. PICK e, z : InRun(t, e, z) /\ (Due(e) \/ Over(t, e))
  BY <1>7
<1>9. Over(t, e) /\ e.step = "done"
  BY <1>3, <1>8 DEF Due, Over
<1>10. InRun(t, e, z)'
  BY <1>2, <1>3, <1>8, <1>9, LooseSaid
<1>11. Over(t, e)'
  BY <1>3, <1>9 DEF Over, GivesUp, Unfollowable
<1>12. Follows'
  BY <1>10, <1>11 DEF Follows
<1> QED
  BY <1>3, <1>4, <1>5, <1>6, <1>12 DEF IInv

\* Nothing is held back once _run has ended.
LEMMA NothingHeld ==
  ASSUME IInv, capture = "held", scrubber.step = "done", NEW u \in Taps PROVE pending[u] = <<>>
<1>1. PICK t \in Taps : \E e, z : InRun(t, e, z)
  BY DEF IInv, Follows
<1>2. Held(t)
  BY <1>1 DEF InRun
<1>3. ~Watches(scrubber, t)
  BY DEF Watches
<1> QED
  BY <1>2, <1>3, TwoTaps DEF Held

\* The connection ends, and with it the capture.
LEMMA LostKeeps ==
  ASSUME IInv, ConnectionLost PROVE IInv'
<1>1. stage' = "lost" /\ UNCHANGED <<scrubber, sent, fed, agreed, chosen>>
  BY DEF ConnectionLost
<1>2. Typed /\ Streams /\ CleanRecord
  BY DEF IInv
<1>3. Told'
  BY <1>1 DEF Told
<1>4. CASE capture = "held" /\ SawBytes
  <2>1. /\ recorded' = [t \in Taps |-> recorded[t] \o Flush(t)]
        /\ pending' = [t \in Taps |-> <<>>]
        /\ capture' \in {"written", "failed"}
    BY <1>4 DEF ConnectionLost, WriteArchive
  <2>2. \A t \in Taps : recorded[t] \in Seq(Bytes) /\ Flush(t) \in Seq(Bytes)
    BY <1>2 DEF Typed, Flush
  <2>3. recorded' \in [Taps -> Seq(Bytes)] /\ pending' \in [Taps -> Seq(Bytes)]
    BY <2>1, <2>2
  <2>4. Typed'
    BY <1>1, <1>2, <2>3 DEF Typed
  <2>5. Streams'
    <3>1. \A t \in Taps : pending'[t] = <<>> /\ Len(pending'[t]) = 0
      BY <2>1
    <3>2. \A t \in Taps : fed'[t] <= Len(sent'[t]) /\ fed'[t] \in Nat
      BY <1>1, <1>2 DEF Streams, Typed
    <3> QED
      BY <3>1, <3>2 DEF Streams
  <2>6. CleanRecord'
    <3>1. ASSUME scrubber.preserve = FALSE, NEW t \in Taps PROVE recorded'[t] \in Seq(Clean)
      <4>1. Flush(t) = <<>>
        <5>1. CASE scrubber.step # "done"
          BY <3>1, <5>1 DEF Flush
        <5>2. CASE scrubber.step = "done"
          BY <1>4, <5>2, NothingHeld DEF Flush
        <5> QED
          BY <5>1, <5>2
      <4>2. recorded[t] \in Seq(Clean)
        BY <1>2, <1>4, <3>1 DEF CleanRecord, Kept
      <4>3. recorded'[t] = recorded[t] \o <<>>
        BY <2>1, <4>1
      <4> QED
        BY <4>2, <4>3, ConcatEmptySeq
    <3> QED
      BY <1>1, <3>1 DEF CleanRecord
  <2> QED
    BY <1>1, <1>3, <2>1, <2>4, <2>5, <2>6 DEF IInv
<1>5. CASE ~(capture = "held" /\ SawBytes)
  <2>1. /\ capture' = IF capture = "held" THEN "none" ELSE capture
        /\ UNCHANGED <<recorded, pending>>
    BY <1>5 DEF ConnectionLost
  <2>2. Typed' /\ Streams'
    BY <1>1, <1>2, <2>1 DEF Typed, Streams, At
  <2>3. CleanRecord'
    BY <1>1, <1>2, <2>1 DEF CleanRecord, Kept
  <2>4. capture' # "held" /\ (capture' = "dropped" => capture = "dropped")
    BY <2>1
  <2>5. capture' = "dropped" => scrubber'.preserve = FALSE /\ Unfollowable'
    BY <1>1, <2>4 DEF IInv, Unfollowable
  <2> QED
    BY <1>1, <1>3, <2>2, <2>3, <2>4, <2>5 DEF IInv
<1> QED
  BY <1>4, <1>5

-----------------------------------------------------------------------------
(* The theorems.                                                           *)

\* Nothing was said, and _run waits for the greeting.
LEMMA InitHolds ==
  Init => IInv
<1> SUFFICES ASSUME Init PROVE IInv
  OBVIOUS
<1>1. PICK p \in BOOLEAN : scrubber = Scrubber(p)
  BY DEF Init
<1>2. /\ scrubber \in States /\ Awaits(scrubber, "server_head", 12) /\ scrubber.abort = FALSE
      /\ scrubber.step = "server_head"
  BY <1>1 DEF Scrubber, States, Steps, Awaits
<1>3. Sound(scrubber)
  BY <1>2 DEF Sound, Secret, Secrets
<1>4. /\ \A t \in Taps : sent[t] = <<>> /\ pending[t] = <<>> /\ recorded[t] = <<>> /\ fed[t] = 0
      /\ capture = "held" /\ stage = "greeting" /\ agreed = Unparsable /\ chosen = 0
  BY DEF Init
<1>5. Typed
  BY <1>2 DEF Init, Typed, Unparsable
<1>6. Streams
  BY <1>4 DEF Streams
<1>7. Told
  BY <1>4 DEF Told
<1>8. CleanRecord
  <2>1. <<>> \in Seq(Clean)
    OBVIOUS
  <2> QED
    BY <1>4, <2>1 DEF CleanRecord
<1>9. Follows
  <2>1. "s2c" \in Taps /\ Other("s2c") \in Taps
    BY DEF Taps, Other
  <2>2. At("s2c") = 0 /\ Len(sent["s2c"]) = 0 /\ Len(sent[Other("s2c")]) = 0
    BY <1>4, <2>1 DEF At
  <2>3. Reads(sent["s2c"], "s2c", scrubber, At("s2c"), scrubber, 0)
    BY <1>2, <1>3, <2>2, ReadsNothing
  <2>4. Held("s2c")
    <3>1. Len(pending["s2c"]) = 0 /\ scrubber.need = 12
      BY <1>2, <1>4, <2>1 DEF Awaits
    <3>2. Len(pending["s2c"]) < scrubber.need
      BY <3>1
    <3> QED
      BY <1>4, <2>1, <3>2 DEF Held
  <2>5. Loose("s2c", scrubber, 0)
    BY <1>4, <2>1, <2>2 DEF Loose
  <2>6. InRun("s2c", scrubber, 0)
    BY <2>3, <2>4, <2>5 DEF InRun
  <2>7. Due(scrubber)
    BY <1>2, <1>4 DEF Due
  <2> QED
    BY <2>1, <2>6, <2>7 DEF Follows
<1> QED
  BY <1>2, <1>4, <1>5, <1>6, <1>7, <1>8, <1>9 DEF IInv

\* Every step of the two ends and of the proxy keeps the invariant.
LEMMA StepKeeps ==
  IInv /\ [Next]_vars => IInv'
<1> SUFFICES ASSUME IInv, [Next]_vars PROVE IInv'
  OBVIOUS
<1>1. CASE ServerGreets
  BY <1>1, GreetsKeeps
<1>2. CASE ClientReplies
  BY <1>2, RepliesKeeps
<1>3. CASE ServerOffers
  BY <1>3, OffersKeeps
<1>4. CASE ServerDecides
  BY <1>4, DecidesKeeps
<1>5. CASE ClientChooses
  BY <1>5, ChoosesKeeps
<1>6. CASE ServerChallenges
  BY <1>6, ChallengesKeeps
<1>7. CASE ClientAnswers
  BY <1>7, AnswersKeeps
<1>8. CASE ServerJudges
  BY <1>8, JudgesKeeps
<1>9. CASE ClientStarts
  BY <1>9, ClientStartsKeeps
<1>10. CASE ServerStarts
  BY <1>10, ServerStartsKeeps
<1>11. CASE \E t \in Taps : SessionByte(t)
  BY <1>11, SessionKeeps
<1>12. CASE DataFromServer \/ DataFromClient
  BY <1>12, DataKeeps DEF DataFromServer, DataFromClient, Taps
<1>13. CASE ConnectionLost
  BY <1>13, LostKeeps
<1>14. CASE UNCHANGED vars
  <2>1. UNCHANGED <<scrubber, pending, recorded, capture, sent, stage, agreed, chosen, fed>>
    BY <1>14 DEF vars, captureVars, endVars
  <2>2. (Typed /\ Streams /\ Told /\ CleanRecord)' /\ (Unfollowable <=> Unfollowable')
    BY <2>1 DEF IInv, Typed, Streams, At, Told, CleanRecord, Kept, Unfollowable
  <2>3. Follows => Follows'
    <3>1. ASSUME NEW t \in Taps, NEW e, NEW z, InRun(t, e, z), Due(e) \/ Over(t, e)
          PROVE  InRun(t, e, z)' /\ (Due(e) \/ Over(t, e))'
      <4>1. InRun(t, e, z)'
        BY <2>1, <3>1 DEF InRun, At, Held, Loose
      <4>2. Due(e) => Due(e)'
        BY <2>1 DEF Due
      <4>3. Over(t, e) => Over(t, e)'
        BY <2>1 DEF Over, GivesUp, Unfollowable
      <4> QED
        BY <3>1, <4>1, <4>2, <4>3
    <3> QED
      BY <3>1 DEF Follows
  <2> QED
    BY <2>1, <2>2, <2>3 DEF IInv
<1> QED
  BY <1>1, <1>2, <1>3, <1>4, <1>5, <1>6, <1>7, <1>8, <1>9, <1>10, <1>11, <1>12, <1>13, <1>14
     DEF Next

\* What the invariant says of every captured session.
LEMMA Invariant ==
  Spec => []IInv
BY InitHolds, StepKeeps, PTL DEF Spec

\* While the session lasts, the field that is waited for is the one that comes.
LEMMA InStep ==
  IInv => Synchronised
<1> SUFFICES ASSUME IInv, stage \notin {"closed", "lost"}, NEW u \in Taps
             PROVE  IF Watches(scrubber, u)
                    THEN LET next == Len(Consumed(u)) + 1 IN
                         /\ Len(pending[u]) < scrubber.need
                         /\ next <= Len(sent[u]) => /\ sent[u][next].kind = scrubber.step
                                                    /\ sent[u][next].at = 1
                    ELSE pending[u] = <<>>
  BY DEF Synchronised
<1>1. capture = "held" /\ Follows /\ Typed /\ Streams
  BY DEF IInv
<1>2. PICK t \in Taps : \E e, z : InRun(t, e, z) /\ (Due(e) \/ Over(t, e))
  BY <1>1 DEF Follows
<1>3. PICK e, z : InRun(t, e, z) /\ (Due(e) \/ Over(t, e))
  BY <1>2
<1>4. /\ Reads(sent[t], t, scrubber, At(t), e, z) /\ Held(t) /\ Loose(t, e, z)
  BY <1>3 DEF InRun
<1>5. \/ scrubber = e /\ At(t) = z
      \/ /\ Watches(scrubber, t) /\ FieldAt(sent[t], scrubber, At(t))
  BY <1>4, ReadsTail
<1>6. u = t \/ u = Other(t)
  BY TwoTaps
<1>7. /\ fed[u] \in Nat /\ Len(pending[u]) \in Nat /\ Len(sent[u]) \in Nat
      /\ Len(pending[u]) <= fed[u] /\ fed[u] <= Len(sent[u]) /\ sent[u] \in Seq(Bytes)
      /\ At(u) = fed[u] - Len(pending[u]) /\ scrubber.need \in Nat
  BY <1>1 DEF Typed, Streams, At, States
<1>8. Len(Consumed(u)) = At(u) /\ At(u) \in Nat
  <2>1. At(u) \in Nat /\ At(u) <= Len(sent[u])
    BY <1>7
  <2>2. \A q \in Seq(Bytes) : \A i \in 0..Len(q) : Len(SubSeq(q, 1, i)) = i
    OBVIOUS
  <2>3. Consumed(u) = SubSeq(sent[u], 1, At(u))
    BY DEF Consumed, At
  <2> QED
    BY <1>7, <2>1, <2>2, <2>3
<1>9. CASE ~Watches(scrubber, u)
  BY <1>4, <1>6, <1>9 DEF Held
<1>10. CASE Watches(scrubber, u) /\ u = t
  <2>1. Len(pending[u]) < scrubber.need
    BY <1>4, <1>10 DEF Held
  <2>2. CASE scrubber = e /\ At(t) = z
    <3>1. At(u) = Len(sent[u])
      BY <1>4, <1>10, <2>2, WatchesOne DEF Loose
    <3> QED
      BY <1>7, <1>8, <1>10, <2>1, <3>1
  <2>3. CASE FieldAt(sent[t], scrubber, At(t))
    <3>1. sent[u][At(u) + 1].kind = scrubber.step /\ sent[u][At(u) + 1].at = 1
      <4>1. /\ scrubber.need > 0 /\ (scrubber.need \in Nat => sent[u][At(u) + 1].at = 1)
            /\ \A j \in 1..scrubber.need : sent[u][At(u) + j].kind = scrubber.step
        BY <1>10, <2>3, FieldAtKind
      <4>2. 1 \in 1..scrubber.need
        BY <1>7, <4>1
      <4> QED
        BY <1>7, <4>1, <4>2
    <3> QED
      BY <1>8, <1>10, <2>1, <3>1
  <2> QED
    BY <1>5, <2>2, <2>3
<1>11. CASE Watches(scrubber, u) /\ u = Other(t)
  <2>1. ~Watches(scrubber, t) /\ scrubber.step # "done"
    BY <1>11, WatchesOne, TwoTaps
  <2>2. scrubber = e
    BY <1>5, <2>1
  <2>3. Due(e)
    BY <1>3, <2>1, <2>2 DEF Over
  <2>4. scrubber.need > 0 /\ pending[u] = <<>> /\ fed[u] = Len(sent[u])
    BY <1>4, <1>11, <2>1, <2>2, <2>3, DueAwaits DEF Held, Loose
  <2>5. Len(pending[u]) = 0
    BY <2>4
  <2>6. Len(pending[u]) < scrubber.need /\ ~(Len(Consumed(u)) + 1 <= Len(sent[u]))
    BY <1>7, <1>8, <2>4, <2>5
  <2> QED
    BY <1>11, <2>6
<1> QED
  BY <1>6, <1>9, <1>10, <1>11

\* Whatever the two ends negotiate and however their bytes are cut, the field
\* that _run waits for is the one that comes next in the direction it watches,
\* and no byte is held back in the other.
THEOREM ScrubberInStep ==
  Spec => []Synchronised
BY Invariant, InStep, PTL

\* What is on record of a session that must be stripped is no secret.
LEMMA CleanStripped ==
  IInv => Stripped
<1> SUFFICES ASSUME IInv, Kept, ~scrubber.preserve, NEW t \in Taps, NEW i \in DOMAIN recorded[t]
             PROVE  recorded[t][i].kind \notin Secrets
  BY DEF Stripped
<1>1. scrubber.preserve = FALSE
  BY DEF IInv, Typed, States
<1>2. recorded[t] \in Seq(Clean)
  BY <1>1 DEF IInv, CleanRecord
<1>3. recorded[t][i] \in Clean
  <2>1. ASSUME NEW S, NEW q \in Seq(S), NEW j \in DOMAIN q PROVE q[j] \in S
    OBVIOUS
  <2> QED
    BY <1>2, <2>1
<1> QED
  BY <1>3 DEF Clean

\* The byte streams of a capture that exists or may yet be written, s2c.bin and
\* c2s.bin, have without --capture-raw-unsafe no byte of the authentication
\* exchange, not even of one that was cut off.  The archive's session.vdo is not
\* among them.
THEOREM StreamsHoldNoSecret ==
  Spec => []Stripped
<1>1. IInv => Stripped
  BY CleanStripped
<1> QED
  BY <1>1, Invariant, PTL

\* Only a reply without a version or a security type without a grammar costs the
\* capture, and only one that must be stripped.
THEOREM DroppedForCause ==
  Spec => []DroppedOnlyIfUnfollowable
<1>1. IInv => DroppedOnlyIfUnfollowable
  BY DEF IInv, DroppedOnlyIfUnfollowable, Unfollowable
<1> QED
  BY <1>1, Invariant, PTL

-----------------------------------------------------------------------------
(* What FlattenSeq computes.                                               *)

\* The natural numbers are well founded.
LEMMA Less ==
  IsWellFoundedOn({z \in Nat \X Nat : z[1] < z[2]}, Nat)
<1>1. {z \in Nat \X Nat : z[1] < z[2]} = OpToRel(<, Nat)
  BY DEF OpToRel
<1> QED
  BY <1>1, NatLessThanWellFounded

\* A set of numbers has a least one.
LEMMA Least ==
  ASSUME NEW T, T \subseteq Nat, T # {}
  PROVE  \E x \in T : \A y \in T : x <= y
<1> DEFINE R == {z \in Nat \X Nat : z[1] < z[2]}
<1>1. IsWellFoundedOn(R, Nat)
  BY Less
<1> HIDE DEF R
<1>2. PICK x \in T : \A y \in T : ~(<<y, x>> \in R)
  BY <1>1, WFMin
<1>3. ASSUME NEW y \in T PROVE x <= y
  <2>1. x \in Nat /\ y \in Nat
    OBVIOUS
  <2>2. <<y, x>> \in R <=> y < x
    <3>1. <<y, x>> \in Nat \X Nat
      BY <2>1
    <3> QED
      BY <3>1 DEF R
  <2> QED
    BY <1>2, <2>1, <2>2
<1> QED
  BY <1>3

\* Induction, on a set of numbers.
LEMMA Induction ==
  ASSUME NEW T, 0 \in T, \A n \in Nat : n \in T => n + 1 \in T
  PROVE  Nat \subseteq T
<1>1. SUFFICES ASSUME Nat \ T # {} PROVE FALSE
  OBVIOUS
<1>2. PICK x \in Nat \ T : \A y \in Nat \ T : x <= y
  BY <1>1, Least
<1>3. x # 0
  OBVIOUS
<1>4. x - 1 \in Nat /\ (x - 1) + 1 = x
  BY <1>3
<1>5. x - 1 \in T
  BY <1>2, <1>4
<1> QED
  BY <1>4, <1>5

\* f[i]: the first i sequences of s, one behind the other.
Totals(f, s, n) ==
  /\ f \in [0..n -> Seq(Bytes)] /\ f[0] = <<>>
  /\ \A i \in 1..n : f[i] = f[i - 1] \o s[i]

\* There are such totals.
LEMMA TotalsExist ==
  ASSUME NEW s \in Seq(Seq(Bytes)) PROVE \E f : Totals(f, s, Len(s))
<1> DEFINE T == {n \in Nat : n <= Len(s) => \E f : Totals(f, s, n)}
<1>1. Len(s) \in Nat /\ \A i \in 1..Len(s) : s[i] \in Seq(Bytes)
  OBVIOUS
<1>2. 0 \in T
  <2> DEFINE f == [i \in 0..0 |-> <<>>]
  <2>1. f[0] = <<>> /\ f \in [0..0 -> Seq(Bytes)] /\ 1..0 = {}
    OBVIOUS
  <2> HIDE DEF f
  <2>2. Totals(f, s, 0)
    BY <2>1 DEF Totals
  <2> QED
    BY <2>2
<1>3. ASSUME NEW n \in Nat, n \in T PROVE n + 1 \in T
  <2>1. SUFFICES ASSUME n + 1 <= Len(s) PROVE \E f : Totals(f, s, n + 1)
    OBVIOUS
  <2>2. PICK g : Totals(g, s, n)
    BY <1>1, <1>3, <2>1
  <2>3. g \in [0..n -> Seq(Bytes)] /\ g[0] = <<>> /\ \A i \in 1..n : g[i] = g[i - 1] \o s[i]
    BY <2>2 DEF Totals
  <2>4. g[n] \in Seq(Bytes) /\ s[n + 1] \in Seq(Bytes) /\ g[n] \o s[n + 1] \in Seq(Bytes)
    <3>1. g[n] \in Seq(Bytes) /\ s[n + 1] \in Seq(Bytes)
      BY <1>1, <2>1, <2>3
    <3> QED
      BY <3>1, Joined
  <2>9. PICK x \in Seq(Bytes) : x = g[n] \o s[n + 1]
    BY <2>4
  <2> DEFINE f == [i \in 0..(n + 1) |-> IF i = n + 1 THEN x ELSE g[i]]
  <2>5. f[n + 1] = x /\ \A i \in 0..n : f[i] = g[i]
    OBVIOUS
  <2>6. f \in [0..(n + 1) -> Seq(Bytes)]
    <3>1. ASSUME NEW i \in 0..(n + 1), i # n + 1 PROVE g[i] \in Seq(Bytes)
      <4>1. i \in 0..n
        BY <3>1
      <4> QED
        BY <2>3, <4>1
    <3> QED
      BY <3>1
  <2> HIDE DEF f
  <2>7. ASSUME NEW i \in 1..(n + 1) PROVE f[i] = f[i - 1] \o s[i]
    <3>1. CASE i = n + 1
      <4>1. i - 1 = n /\ n \in 0..n
        BY <3>1
      <4> QED
        BY <2>5, <2>9, <3>1, <4>1
    <3>2. CASE i # n + 1
      <4>1. i \in 1..n /\ i \in 0..n /\ i - 1 \in 0..n
        BY <3>2
      <4> QED
        BY <2>3, <2>5, <4>1
    <3> QED
      BY <3>1, <3>2
  <2>8. Totals(f, s, n + 1)
    <3>1. f[0] = <<>>
      BY <2>3, <2>5
    <3> QED
      BY <2>6, <2>7, <3>1 DEF Totals
  <2> QED
    BY <2>8
<1> HIDE DEF T
<1>4. Nat \subseteq T
  BY <1>2, <1>3, Induction
<1>5. Len(s) \in T
  BY <1>1, <1>4
<1> QED
  BY <1>1, <1>5 DEF T

\* The last total is the whole.
LEMMA FlattenTotal ==
  ASSUME NEW s \in Seq(Seq(Bytes)), NEW f, Totals(f, s, Len(s))
  PROVE  FlattenSeq(s) = f[Len(s)] /\ f[Len(s)] \in Seq(Bytes)
<1> DEFINE n == Len(s)
           Is(g) == g = [i \in 1..n |-> IF i = 1 THEN s[i] ELSE g[i - 1] \o s[i]]
           w == [i \in 1..n |-> f[i]]
<1>1. n \in Nat /\ \A i \in 1..n : s[i] \in Seq(Bytes)
  OBVIOUS
<1>2. /\ f \in [0..n -> Seq(Bytes)] /\ f[0] = <<>> /\ f[n] \in Seq(Bytes)
      /\ \A i \in 1..n : f[i] = f[i - 1] \o s[i]
  <2>1. /\ f \in [0..n -> Seq(Bytes)] /\ f[0] = <<>>
        /\ \A i \in 1..n : f[i] = f[i - 1] \o s[i]
    BY DEF Totals
  <2> HIDE DEF n
  <2>2. n \in 0..n
    BY <1>1
  <2> QED
    BY <2>1, <2>2
<1>3. CASE n = 0
  <2>1. s = <<>>
    BY <1>3
  <2> QED
    BY <1>2, <1>3, <2>1 DEF FlattenSeq
<1>4. CASE n # 0
  <2>1. f[1] = s[1]
    <3>1. 1 \in 1..n /\ s[1] \in Seq(Bytes)
      BY <1>1, <1>4
    <3>2. f[1] = f[0] \o s[1]
      BY <1>2, <3>1
    <3> QED
      BY <1>2, <3>1, <3>2, ConcatEmptySeq
  <2>2. \A i \in 1..n : w[i] = f[i]
    OBVIOUS
  <2>3. w = [i \in 1..n |-> w[i]]
    OBVIOUS
  <2> HIDE DEF w, n
  <2>4. Is(w)
    <3>1. ASSUME NEW i \in 1..n PROVE w[i] = IF i = 1 THEN s[i] ELSE w[i - 1] \o s[i]
      <4>1. CASE i = 1
        BY <2>1, <2>2, <4>1
      <4>2. CASE i # 1
        <5>1. i - 1 \in 1..n
          BY <1>1, <4>2
        <5> QED
          BY <1>2, <2>2, <4>2, <5>1
      <4> QED
        BY <4>1, <4>2
    <3> QED
      BY <2>3, <3>1
  <2>5. PICK g : g = (CHOOSE h : Is(h)) /\ Is(g)
    BY <2>4
  <2>6. FlattenSeq(s) = g[n]
    BY <1>4, <2>5 DEF FlattenSeq, n
  <2>7. g[1] = s[1] /\ \A i \in 1..n : i # 1 => g[i] = g[i - 1] \o s[i]
    <3>1. \A i \in 1..n : g[i] = IF i = 1 THEN s[i] ELSE g[i - 1] \o s[i]
      BY <2>5
    <3>2. 1 \in 1..n
      BY <1>1, <1>4
    <3> QED
      BY <3>1, <3>2
  <2> DEFINE T == {i \in Nat : i \in 1..n => g[i] = f[i]}
  <2>8. 0 \in T
    OBVIOUS
  <2>9. ASSUME NEW i \in Nat, i \in T PROVE i + 1 \in T
    <3>1. SUFFICES ASSUME i + 1 \in 1..n PROVE g[i + 1] = f[i + 1]
      OBVIOUS
    <3>2. CASE i = 0
      BY <2>1, <2>7, <3>2
    <3>3. CASE i # 0
      <4>1. i \in 1..n /\ (i + 1) - 1 = i /\ i + 1 # 1
        BY <1>1, <3>1, <3>3
      <4>2. g[i + 1] = g[i] \o s[i + 1] /\ f[i + 1] = f[i] \o s[i + 1]
        BY <1>2, <2>7, <3>1, <4>1
      <4> QED
        BY <2>9, <4>1, <4>2
    <3> QED
      BY <3>2, <3>3
  <2>10. Nat \subseteq T
    <3> HIDE DEF T
    <3> QED
      BY <2>8, <2>9, Induction
  <2>11. n \in T /\ n \in 1..n
    BY <1>1, <1>4, <2>10
  <2>12. g[n] = f[n]
    BY <2>11
  <2> QED
    BY <1>2, <2>6, <2>12 DEF n
<1> QED
  BY <1>3, <1>4

-----------------------------------------------------------------------------
(* What stands in place of bytes in a session without authentication.      *)

\* What stands in place of a byte is bytes.
LEMMA InNoneBytes ==
  \A b \in Bytes : \A a : InNoneSession(b, a) \in Seq(Bytes)
<1> TAKE b \in Bytes
<1> TAKE a
<1>1. Field("num_types", 1, 1) \o Field("types", <<NONE>>, 1) \in Seq(Bytes)
  <2>1. 1 \in Values /\ <<NONE>> \in Values /\ "num_types" \in Kinds /\ "types" \in Kinds
    BY DEF NONE, Values, Kinds, Steps
  <2>2. Field("num_types", 1, 1) \in Seq(Bytes) /\ Field("types", <<NONE>>, 1) \in Seq(Bytes)
    BY <2>1, FieldBytes
  <2> QED
    BY <2>2, Joined
<1>2. [b EXCEPT !.value = NONE] \in Bytes
  BY DEF Bytes, Values, NONE
<1>3. PICK x \in Bytes : x = [b EXCEPT !.value = NONE]
  BY <1>2
<1>4. <<>> \in Seq(Bytes) /\ <<b>> \in Seq(Bytes) /\ <<x>> \in Seq(Bytes)
  OBVIOUS
<1> QED
  BY <1>1, <1>3, <1>4 DEF InNoneSession

\* f[i]: what stands in place of the first i bytes of q.
InPlace(f, q, a) ==
  /\ f \in [0..Len(q) -> Seq(Bytes)] /\ f[0] = <<>>
  /\ \A i \in 1..Len(q) : f[i] = f[i - 1] \o InNoneSession(q[i], a)

\* What stands in place of q, from its bytes.
LEMMA NoneInPlace ==
  ASSUME NEW q \in Seq(Bytes), NEW a
  PROVE  /\ \E f : InPlace(f, q, a)
         /\ \A f : InPlace(f, q, a) =>
              NoneSession(q, a) = f[Len(q)] /\ f[Len(q)] \in Seq(Bytes)
<1> DEFINE s == [i \in DOMAIN q |-> InNoneSession(q[i], a)]
<1>1. DOMAIN q = 1..Len(q) /\ Len(q) \in Nat /\ \A i \in 1..Len(q) : q[i] \in Bytes
  OBVIOUS
<1>2. \A i \in 1..Len(q) : InNoneSession(q[i], a) \in Seq(Bytes)
  BY <1>1, InNoneBytes
<1>3. s = [i \in 1..Len(q) |-> InNoneSession(q[i], a)]
  BY <1>1
<1>4. s \in Seq(Seq(Bytes)) /\ Len(s) = Len(q)
  BY <1>1, <1>2, <1>3
<1>5. \A i \in 1..Len(q) : s[i] = InNoneSession(q[i], a)
  BY <1>3
<1>6. NoneSession(q, a) = FlattenSeq(s)
  BY DEF NoneSession
<1> HIDE DEF s
<1>7. \A f : InPlace(f, q, a) <=> Totals(f, s, Len(s))
  BY <1>4, <1>5 DEF InPlace, Totals
<1>8. \E f : Totals(f, s, Len(s))
  BY <1>4, TotalsExist
<1>9. ASSUME NEW f, InPlace(f, q, a)
      PROVE  NoneSession(q, a) = f[Len(q)] /\ f[Len(q)] \in Seq(Bytes)
  BY <1>4, <1>6, <1>7, <1>9, FlattenTotal
<1> QED
  BY <1>7, <1>8, <1>9

\* What stands in place of bytes is bytes.
LEMMA NoneBytes ==
  \A q \in Seq(Bytes) : \A a : NoneSession(q, a) \in Seq(Bytes)
BY NoneInPlace

\* Part by part.
LEMMA NoneJoined ==
  \A p, q \in Seq(Bytes) : \A a :
    NoneSession(p \o q, a) = NoneSession(p, a) \o NoneSession(q, a)
<1> TAKE p, q \in Seq(Bytes)
<1> TAKE a
<1> DEFINE l == Len(p)
           k == Len(q)
           r == p \o q
<1>1. /\ l \in Nat /\ k \in Nat /\ r \in Seq(Bytes) /\ Len(r) = l + k
      /\ (\A i \in 1..l : r[i] = p[i]) /\ (\A i \in 1..k : r[l + i] = q[i])
  BY Joined
<1> HIDE DEF l, k, r
<1>2. PICK f : InPlace(f, p, a)
  BY NoneInPlace
<1>3. PICK g : InPlace(g, q, a)
  BY NoneInPlace
<1>4. /\ f \in [0..l -> Seq(Bytes)] /\ f[0] = <<>>
      /\ \A i \in 1..l : f[i] = f[i - 1] \o InNoneSession(p[i], a)
  BY <1>2 DEF InPlace, l
<1>5. /\ g \in [0..k -> Seq(Bytes)] /\ g[0] = <<>>
      /\ \A i \in 1..k : g[i] = g[i - 1] \o InNoneSession(q[i], a)
  BY <1>3 DEF InPlace, k
<1>6. f[l] \in Seq(Bytes) /\ NoneSession(p, a) = f[l] /\ NoneSession(q, a) = g[k]
      /\ \A i \in 0..k : g[i] \in Seq(Bytes)
  BY <1>1, <1>2, <1>3, <1>5, NoneInPlace DEF l, k
<1>7. \A i \in 1..k : InNoneSession(q[i], a) \in Seq(Bytes)
  BY InNoneBytes DEF k
<1> DEFINE joined == [i \in 0..k |-> f[l] \o g[i]]
<1>8. joined \in [0..k -> Seq(Bytes)] /\ \A i \in 0..k : joined[i] = f[l] \o g[i]
  <2>1. \A i \in 0..k : f[l] \o g[i] \in Seq(Bytes)
    BY <1>6, Joined
  <2> QED
    BY <2>1
<1> HIDE DEF joined
<1> DEFINE h == [i \in 0..(l + k) |-> IF i <= l THEN f[i] ELSE joined[i - l]]
<1>9. joined[0] = f[l]
  <2>1. 0 \in 0..k
    BY <1>1
  <2>2. joined[0] = f[l] \o <<>>
    BY <1>5, <1>8, <2>1
  <2> QED
    BY <1>6, <2>2, ConcatEmptySeq
<1>10. /\ h \in [0..(l + k) -> Seq(Bytes)]
       /\ \A i \in 0..l : h[i] = f[i]
       /\ \A i \in 1..k : h[l + i] = joined[i]
  <2>1. ASSUME NEW i \in 0..(l + k), i <= l PROVE f[i] \in Seq(Bytes)
    <3>1. i \in 0..l
      BY <1>1, <2>1
    <3> QED
      BY <1>4, <3>1
  <2>2. ASSUME NEW i \in 0..(l + k), ~(i <= l) PROVE joined[i - l] \in Seq(Bytes)
    <3>1. i - l \in 0..k
      BY <1>1, <2>2
    <3> QED
      BY <1>8, <3>1
  <2>3. h \in [0..(l + k) -> Seq(Bytes)]
    BY <2>1, <2>2
  <2>4. \A i \in 0..l : h[i] = f[i]
    BY <1>1
  <2>5. ASSUME NEW i \in 1..k PROVE h[l + i] = joined[i]
    <3>1. l + i \in 0..(l + k) /\ ~(l + i <= l) /\ (l + i) - l = i
      BY <1>1
    <3> QED
      BY <3>1
  <2> QED
    BY <2>3, <2>4, <2>5
<1> HIDE DEF h
<1>11. \A i \in 0..k : h[l + i] = joined[i]
  <2>1. h[l + 0] = joined[0]
    <3>1. l + 0 = l /\ l \in 0..l
      BY <1>1
    <3> QED
      BY <1>9, <1>10, <3>1
  <2>2. \A i \in 0..k : i = 0 \/ i \in 1..k
    BY <1>1
  <2> QED
    BY <1>10, <2>1, <2>2
<1>12. ASSUME NEW i \in 1..(l + k) PROVE h[i] = h[i - 1] \o InNoneSession(r[i], a)
  <2>1. CASE i <= l
    <3>1. i \in 1..l /\ i \in 0..l /\ i - 1 \in 0..l
      BY <1>1, <2>1
    <3> QED
      BY <1>1, <1>4, <1>10, <3>1
  <2>2. CASE ~(i <= l)
    <3>1. PICK j \in 1..k : i = l + j
      <4>1. i - l \in 1..k /\ i = l + (i - l)
        BY <1>1, <2>2
      <4> QED
        BY <4>1
    <3>2. j \in 0..k /\ j - 1 \in 0..k /\ i - 1 = l + (j - 1)
      BY <1>1, <3>1
    <3>3. h[i] = joined[j] /\ h[i - 1] = joined[j - 1]
      BY <1>11, <3>1, <3>2
    <3>4. joined[j] = f[l] \o g[j] /\ joined[j - 1] = f[l] \o g[j - 1]
      BY <1>8, <3>2
    <3>5. PICK x \in Seq(Bytes) : x = InNoneSession(q[j], a)
      BY <1>7
    <3>6. g[j] = g[j - 1] \o x /\ g[j - 1] \in Seq(Bytes)
      BY <1>5, <1>6, <3>2, <3>5
    <3>7. f[l] \o (g[j - 1] \o x) = (f[l] \o g[j - 1]) \o x
      BY <1>6, <3>6, Regrouped
    <3> QED
      BY <1>1, <3>1, <3>3, <3>4, <3>5, <3>6, <3>7
  <2> QED
    BY <2>1, <2>2
<1>13. InPlace(h, r, a)
  <2>1. h[0] = <<>>
    BY <1>1, <1>4, <1>10
  <2> QED
    BY <1>1, <1>10, <1>12, <2>1 DEF InPlace
<1>14. NoneSession(r, a) = h[l + k]
  BY <1>1, <1>13, NoneInPlace
<1>15. h[l + k] = f[l] \o g[k]
  <2>1. k \in 0..k
    BY <1>1
  <2> QED
    BY <1>8, <1>11, <2>1
<1> QED
  BY <1>6, <1>14, <1>15 DEF r

\* Bytes in whose place nothing stands.
LEMMA NoneNothing ==
  ASSUME NEW q \in Seq(Bytes), NEW a, \A i \in 1..Len(q) : InNoneSession(q[i], a) = <<>>
  PROVE  NoneSession(q, a) = <<>>
<1> DEFINE f == [i \in 0..Len(q) |-> <<>>]
<1>1. Len(q) \in Nat /\ <<>> \in Seq(Bytes) /\ <<>> \o <<>> = <<>>
  OBVIOUS
<1>2. f \in [0..Len(q) -> Seq(Bytes)] /\ \A i \in 0..Len(q) : f[i] = <<>>
  OBVIOUS
<1> HIDE DEF f
<1>3. ASSUME NEW i \in 1..Len(q) PROVE f[i] = f[i - 1] \o InNoneSession(q[i], a)
  <2>1. i \in 0..Len(q) /\ i - 1 \in 0..Len(q)
    BY <1>1
  <2> QED
    BY <1>1, <1>2, <2>1
<1>4. f[0] = <<>> /\ f[Len(q)] = <<>>
  BY <1>1, <1>2
<1>5. InPlace(f, q, a)
  BY <1>2, <1>3, <1>4 DEF InPlace
<1> QED
  BY <1>4, <1>5, NoneInPlace

\* Bytes in whose place as many stand.
LEMMA NoneEach ==
  ASSUME NEW q \in Seq(Bytes), NEW a, NEW r \in Seq(Bytes), Len(r) = Len(q),
         \A i \in 1..Len(q) : InNoneSession(q[i], a) = <<r[i]>>
  PROVE  NoneSession(q, a) = r
<1> DEFINE f == [i \in 0..Len(q) |-> SubSeq(r, 1, i)]
<1>1. Len(q) \in Nat /\ Len(r) \in Nat
  OBVIOUS
<1>2. \A i \in 0..Len(q) : SubSeq(r, 1, i) \in Seq(Bytes)
  OBVIOUS
<1>3. f \in [0..Len(q) -> Seq(Bytes)] /\ \A i \in 0..Len(q) : f[i] = SubSeq(r, 1, i)
  BY <1>2
<1> HIDE DEF f
<1>4. ASSUME NEW i \in 1..Len(q) PROVE f[i] = f[i - 1] \o InNoneSession(q[i], a)
  <2>1. i \in 0..Len(q) /\ i - 1 \in 0..Len(q) /\ i \in 1..Len(r)
    BY <1>1
  <2>2. SubSeq(r, 1, i) = SubSeq(r, 1, i - 1) \o <<r[i]>>
    <3>1. \A s \in Seq(Bytes) : \A j \in 1..Len(s) :
            SubSeq(s, 1, j) = SubSeq(s, 1, j - 1) \o <<s[j]>>
      OBVIOUS
    <3> QED
      BY <2>1, <3>1
  <2> QED
    BY <1>3, <2>1, <2>2
<1>5. f[0] = <<>> /\ f[Len(q)] = r
  <2>1. SubSeq(r, 1, 0) = <<>> /\ SubSeq(r, 1, Len(r)) = r
    OBVIOUS
  <2> QED
    BY <1>1, <1>3, <2>1
<1>6. InPlace(f, q, a)
  BY <1>3, <1>4, <1>5 DEF InPlace
<1> QED
  BY <1>5, <1>6, NoneInPlace

\* The version matters for the bytes of a result only.
LEMMA NoneAgreed ==
  ASSUME NEW q \in Seq(Bytes), NEW a, NEW b, \A i \in 1..Len(q) : q[i].kind # "result"
  PROVE  NoneSession(q, a) = NoneSession(q, b)
<1>1. DOMAIN q = 1..Len(q)
  OBVIOUS
<1>2. \A i \in DOMAIN q : InNoneSession(q[i], a) = InNoneSession(q[i], b)
  BY <1>1 DEF InNoneSession
<1>3. [i \in DOMAIN q |-> InNoneSession(q[i], a)] = [i \in DOMAIN q |-> InNoneSession(q[i], b)]
  BY <1>2
<1> QED
  BY <1>3 DEF NoneSession

-----------------------------------------------------------------------------
(* What _run puts on record of a field.                                    *)

\* What _run knows of a session with version a: it authenticates while it waits for
\* a secret and at no other time, and the version is known from the client's reply on.
Exact(s, a) ==
  /\ s.inAuth = TRUE /\ s.step # "done" => Secret(s.step)
  /\ s.step = "sectype" => s.need = 1
  /\ s.step = "auth" => s.need = 4
  /\ s.step \notin {"server_head", "client_head", "done"} => s.negotiated = a

\* The bytes of any field.
LEMMA FieldEach ==
  \A k \in Kinds, x \in Values, m \in Nat :
    /\ Field(k, x, m) \in Seq(Bytes) /\ Len(Field(k, x, m)) = m
    /\ \A i \in 1..m : Field(k, x, m)[i] = Byte(k, x, i)
<1> TAKE k \in Kinds, x \in Values, m \in Nat
<1> QED
  BY FieldBytes

\* What is put on record of a field is what stands in its place.
LEMMA RecordingExact ==
  ASSUME NEW s \in States, Sound(s), NEW a, Exact(s, a), s.step # "done", NEW v, Legal(s, v),
         NEW chunk \in Seq(Bytes), s.need > 0, Len(chunk) = s.need,
         \A i \in 1..s.need : chunk[i] = Byte(s.step, v, i)
  PROVE  Recording(s, chunk) = NoneSession(chunk, a)
<1> DEFINE n == Len(chunk)
<1>1. /\ n \in Nat /\ n > 0 /\ 1 \in 1..n /\ s.inAuth \in BOOLEAN
      /\ \A i \in 1..n : chunk[i] \in Bytes /\ chunk[i] = Byte(s.step, v, i)
  BY DEF States
<1>2. \A i \in 1..n : chunk[i].kind = s.step /\ chunk[i].value = v /\ chunk[i].at = i
  <2>1. \A k, x, i : /\ Byte(k, x, i).kind = k /\ Byte(k, x, i).value = x
                     /\ Byte(k, x, i).at = i
    BY DEF Byte
  <2> QED
    BY <1>1, <2>1
<1>3. chunk[1].value = v
  BY <1>1, <1>2
<1>4. Secret(s.step) => s.inAuth = TRUE
  BY DEF Sound
<1>5. CASE s.inAuth = TRUE
  <2>1. s.step \in Secrets
    BY <1>5 DEF Exact, Secret
  <2>2. \A i \in 1..n : InNoneSession(chunk[i], a) = <<>>
    BY <1>2, <2>1 DEF InNoneSession, Secrets
  <2>3. NoneSession(chunk, a) = <<>>
    BY <2>2, NoneNothing
  <2> QED
    BY <1>5, <2>3 DEF Recording
<1>6. ASSUME s.inAuth = FALSE, NoneSession(chunk, a) = chunk,
             ~(s.step = "num_types" /\ v # 0), s.step # "types", s.step # "sectype",
             ~(s.step = "auth" /\ v # 0), ~(s.step = "result" /\ s.negotiated < 8)
      PROVE  Recording(s, chunk) = NoneSession(chunk, a)
  BY <1>3, <1>6 DEF Recording
<1>7. ASSUME s.step \notin Secrets,
             ~(s.step = "num_types" /\ v # 0), s.step # "types",
             ~(s.step \in {"sectype", "auth"} /\ v # 0), ~(s.step = "result" /\ a < 8)
      PROVE  NoneSession(chunk, a) = chunk
  <2>1. \A i \in 1..n : InNoneSession(chunk[i], a) = <<chunk[i]>>
    BY <1>2, <1>7 DEF InNoneSession
  <2> QED
    BY <2>1, NoneEach
<1>8. CASE s.inAuth = FALSE
  <2>0. s.step \notin Secrets
    BY <1>4, <1>8 DEF Secret
  <2>1. CASE s.step = "num_types"
    <3>1. CASE v # 0
      <4>1. \A i \in 1..n : InNoneSession(chunk[i], a) = <<>>
        BY <1>2, <2>0, <2>1, <3>1 DEF InNoneSession
      <4>2. NoneSession(chunk, a) = <<>>
        BY <4>1, NoneNothing
      <4> QED
        BY <1>3, <1>8, <2>1, <3>1, <4>2 DEF Recording
    <3>2. CASE v = 0
      BY <1>6, <1>7, <1>8, <2>0, <2>1, <3>2
    <3> QED
      BY <3>1, <3>2
  <2>2. CASE s.step = "types"
    <3> DEFINE head == <<chunk[1]>>
               tail == SubSeq(chunk, 2, n)
               new == Field("num_types", 1, 1) \o Field("types", <<NONE>>, 1)
    <3>1. head \in Seq(Bytes) /\ tail \in Seq(Bytes) /\ chunk = head \o tail
      <4>1. chunk[1] \in Bytes
        BY <1>1
      <4>2. head \in Seq(Bytes)
        BY <4>1
      <4>3. \A q \in Seq(Bytes) : Len(q) > 0 =>
              SubSeq(q, 2, Len(q)) \in Seq(Bytes) /\ q = <<q[1]>> \o SubSeq(q, 2, Len(q))
        OBVIOUS
      <4> QED
        BY <1>1, <4>2, <4>3
    <3>2. \A i \in 1..Len(tail) : i + 1 \in 1..n /\ tail[i] = chunk[i + 1]
      BY <1>1
    <3>3. InNoneSession(chunk[1], a) = new
      <4>1. chunk[1].kind = "types" /\ chunk[1].at = 1 /\ ~(1 > 1)
        BY <1>1, <1>2, <2>2
      <4> QED
        BY <4>1 DEF InNoneSession, Secrets
    <3>4. ASSUME NEW i \in 1..Len(tail) PROVE InNoneSession(tail[i], a) = <<>>
      <4>1. tail[i].kind = "types" /\ tail[i].at = i + 1 /\ i + 1 > 1
        BY <1>2, <2>2, <3>1, <3>2
      <4> QED
        BY <4>1 DEF InNoneSession, Secrets
    <3>5. NoneSession(tail, a) = <<>>
      BY <3>1, <3>4, NoneNothing
    <3>6. new \in Seq(Bytes)
      BY <1>1, <3>3, InNoneBytes
    <3>7. NoneSession(head, a) = new
      <4> HIDE DEF new
      <4> DEFINE f == [i \in 0..1 |-> IF i = 0 THEN <<>> ELSE new]
      <4>1. f[0] = <<>> /\ f[1] = new /\ f \in [0..1 -> Seq(Bytes)]
        BY <3>6
      <4>2. Len(head) = 1 /\ head[1] = chunk[1]
        OBVIOUS
      <4> HIDE DEF f, head
      <4>3. \A i \in 1..1 : f[i] = f[i - 1] \o InNoneSession(head[i], a)
        <5>1. <<>> \o new = new
          BY <3>6, ConcatEmptySeq
        <5> QED
          BY <3>3, <4>1, <4>2, <5>1
      <4>4. InPlace(f, head, a)
        BY <4>1, <4>2, <4>3 DEF InPlace
      <4> QED
        BY <3>1, <4>1, <4>2, <4>4, NoneInPlace
    <3>8. NoneSession(chunk, a) = new
      <4> HIDE DEF head, tail, new
      <4>1. NoneSession(head \o tail, a) = NoneSession(head, a) \o NoneSession(tail, a)
        BY <3>1, NoneJoined
      <4>2. NoneSession(chunk, a) = new \o <<>>
        BY <3>1, <3>5, <3>7, <4>1
      <4> QED
        BY <3>6, <4>2, ConcatEmptySeq
    <3> QED
      BY <1>8, <2>2, <3>8 DEF Recording
  <2>3. CASE s.step = "sectype"
    <3>1. v # 0 /\ s.need = 1 /\ n = 1
      BY <2>3 DEF Legal, Exact
    <3>2. PICK r : r = Field("sectype", NONE, 1)
      OBVIOUS
    <3>3. /\ r \in Seq(Bytes) /\ Len(r) = 1 /\ \A i \in 1..1 : r[i] = Byte("sectype", NONE, i)
      <4>1. "sectype" \in Kinds /\ NONE \in Values /\ 1 \in Nat
        BY DEF Kinds, Steps, ClientSteps, NONE, Values
      <4> QED
        BY FieldEach, <3>2, <4>1
    <3>4. ASSUME NEW i \in 1..n PROVE InNoneSession(chunk[i], a) = <<r[i]>>
      <4>1. [chunk[i] EXCEPT !.value = NONE] = r[i]
        BY <1>1, <2>3, <3>1, <3>3 DEF Byte
      <4>2. InNoneSession(chunk[i], a) = <<[chunk[i] EXCEPT !.value = NONE]>>
        BY <1>2, <2>3, <3>1 DEF InNoneSession, Secrets
      <4> QED
        BY <4>1, <4>2
    <3>5. NoneSession(chunk, a) = r
      BY <3>1, <3>3, <3>4, NoneEach
    <3> QED
      BY <1>8, <2>3, <3>2, <3>5 DEF Recording
  <2>4. CASE s.step = "auth"
    <3>1. CASE v # 0
      <4>1. s.need = 4 /\ n = 4
        BY <2>4 DEF Exact
      <4>2. PICK r : r = Field("auth", NONE, 4)
        OBVIOUS
      <4>3. /\ r \in Seq(Bytes) /\ Len(r) = 4 /\ \A i \in 1..4 : r[i] = Byte("auth", NONE, i)
        <5>1. "auth" \in Kinds /\ NONE \in Values /\ 4 \in Nat
          BY DEF Kinds, Steps, ClientSteps, NONE, Values
        <5> QED
          BY FieldEach, <4>2, <5>1
      <4>4. ASSUME NEW i \in 1..n PROVE InNoneSession(chunk[i], a) = <<r[i]>>
        <5>1. [chunk[i] EXCEPT !.value = NONE] = r[i]
          BY <1>1, <2>4, <4>1, <4>3 DEF Byte
        <5>2. InNoneSession(chunk[i], a) = <<[chunk[i] EXCEPT !.value = NONE]>>
          BY <1>2, <2>4, <3>1 DEF InNoneSession, Secrets
        <5> QED
          BY <5>1, <5>2
      <4>5. NoneSession(chunk, a) = r
        BY <4>1, <4>3, <4>4, NoneEach
      <4> QED
        BY <1>3, <1>8, <2>4, <3>1, <4>2, <4>5 DEF Recording
    <3>2. CASE v = 0
      BY <1>6, <1>7, <1>8, <2>0, <2>4, <3>2
    <3> QED
      BY <3>1, <3>2
  <2>5. CASE s.step = "result"
    <3>1. s.negotiated = a
      BY <2>5 DEF Exact
    <3>2. CASE a < 8
      <4>1. \A i \in 1..n : InNoneSession(chunk[i], a) = <<>>
        BY <1>2, <2>0, <2>5, <3>2 DEF InNoneSession
      <4>2. NoneSession(chunk, a) = <<>>
        BY <4>1, NoneNothing
      <4> QED
        BY <1>8, <2>5, <3>1, <3>2, <4>2 DEF Recording
    <3>3. CASE ~(a < 8)
      BY <1>6, <1>7, <1>8, <2>0, <2>5, <3>1, <3>3
    <3> QED
      BY <3>2, <3>3
  <2>6. CASE s.step \notin {"num_types", "types", "sectype", "auth", "result"}
    BY <1>6, <1>7, <1>8, <2>0, <2>6
  <2> QED
    BY <2>1, <2>2, <2>3, <2>4, <2>5, <2>6
<1> QED
  BY <1>1, <1>5, <1>8

\* The version stays what the client replied.
LEMMA NegotiatedStays ==
  \A s \in States, type \in Nat :
    /\ AfterAuth(s).negotiated = s.negotiated
    /\ Authenticate(s, type).negotiated = s.negotiated
<1>1. \A s \in States : \A step, n : Await(s, step, n).negotiated = s.negotiated
  BY AwaitFields
<1>2. \A s \in States : AfterAuth(s).negotiated = s.negotiated
  <2> TAKE s \in States
  <2> DEFINE open == [s EXCEPT !.inAuth = FALSE]
  <2>1. open \in States /\ open.negotiated = s.negotiated
    BY DEF States
  <2>2. AfterAuth(s) = IF s.negotiated < 8 /\ s.sectype = NONE THEN Await(open, "client_init", 1)
                       ELSE Await(open, "result", 4)
    BY DEF AfterAuth
  <2> HIDE DEF open
  <2> QED
    BY <1>1, <2>1, <2>2
<1>3. \A s \in States : GiveUp(s).negotiated = s.negotiated
  <2> TAKE s \in States
  <2>1. Return(s) \in States /\ Return(s).negotiated = s.negotiated
    BY AwaitFields DEF Return, Steps
  <2> QED
    BY <2>1 DEF GiveUp, States
<1>4. ASSUME NEW s \in States, NEW type \in Nat
      PROVE  Authenticate(s, type).negotiated = s.negotiated
  <2> DEFINE in == [s EXCEPT !.sectype = type, !.inAuth = TRUE]
  <2>1. in \in States /\ in.negotiated = s.negotiated
    BY DEF States
  <2>2. Authenticate(s, type) \in {Await(in, "challenge", 16), Await(in, "dh_head", 4),
                                   AfterAuth(in), GiveUp(in)}
    BY DEF Authenticate
  <2> HIDE DEF in
  <2> QED
    BY <1>1, <1>2, <1>3, <2>1, <2>2
<1> QED
  BY <1>2, <1>4

\* It stays so with every field that is read.
LEMMA ExactAdvance ==
  ASSUME NEW s \in States, Sound(s), NEW a, Exact(s, a), s.step # "done", NEW v, Legal(s, v),
         s.step = "client_head" => v = a
  PROVE  Exact(Advance(s, v), a)
<1> DEFINE w == Advance(s, v)
<1>1. /\ s.abort = FALSE /\ s.inAuth \in BOOLEAN /\ s.step \in Steps
      /\ Secret(s.step) <=> s.inAuth = TRUE
  BY DEF Sound, States, Exact
<1>2. s.step \notin {"server_head", "client_head"} => s.negotiated = a
  BY DEF Exact
<1>3. s.step # "types" => v \in Nat
  BY DEF Legal
<1>4. \A x : x.step = "done" => Exact(x, a)
  BY DEF Exact
<1>5. ASSUME NEW r \in States, NEW step, NEW n, r.inAuth = s.inAuth,
             Secret(step) <=> Secret(s.step), step = "sectype" => n = 1, step = "auth" => n = 4,
             step \notin {"server_head", "client_head", "done"} => r.negotiated = a
      PROVE  Exact(Await(r, step, n), a)
  <2>1. /\ Await(r, step, n).step = step /\ Await(r, step, n).need = n
        /\ Await(r, step, n).negotiated = r.negotiated /\ Await(r, step, n).inAuth = r.inAuth
    BY AwaitFields
  <2> QED
    BY <1>1, <1>5, <2>1 DEF Exact
<1>6. Return(s).step = "done"
  BY AwaitFields DEF Return
<1>7. /\ Secret("challenge") /\ Secret("response") /\ Secret("dh_head") /\ Secret("modulus")
      /\ Secret("server_key") /\ Secret("credentials") /\ Secret("client_key")
      /\ ~Secret("server_head") /\ ~Secret("client_head") /\ ~Secret("num_types")
      /\ ~Secret("types") /\ ~Secret("sectype") /\ ~Secret("auth") /\ ~Secret("result")
      /\ ~Secret("client_init") /\ ~Secret("server_init") /\ ~Secret("name")
  BY DEF Secret, Secrets
<1>8. ASSUME s.step \in {"sectype", "auth"}, v # 0 PROVE Exact(Authenticate(s, v), a)
  <2> DEFINE x == Authenticate(s, v)
  <2>1. v \in Nat /\ s.negotiated = a
    BY <1>2, <1>3, <1>8
  <2>2. x.negotiated = a
    BY <2>1, NegotiatedStays
  <2>3. /\ v = VNC_AUTHENTICATION => x.step = "challenge"
        /\ v = DIFFIE_HELLMAN => x.step = "dh_head"
        /\ v = NONE => x.inAuth = FALSE /\ x.step \in {"client_init", "result"}
        /\ v \notin {NONE, VNC_AUTHENTICATION, DIFFIE_HELLMAN} => x.step = "done"
    BY <1>1, <1>8, <2>1, AuthenticateFields
  <2> HIDE DEF x
  <2> QED
    BY <1>7, <2>2, <2>3 DEF Exact, x
<1>9. CASE s.step = "server_head"
  <2>1. w = Await(s, "client_head", 12)
    BY <1>9, Advances
  <2> QED
    BY <1>5, <1>7, <1>9, <2>1
<1>10. CASE s.step = "client_head"
  <2>1. w = ClientHead(s, v) /\ v \in Nat /\ v = a
    BY <1>3, <1>10, Advances
  <2> HIDE DEF w
  <2>5. \A x \in Nat : LET y == ClientHead(s, x) IN
          /\ y.inAuth = s.inAuth /\ (x = Unparsable => y.step = "done")
          /\ x # Unparsable => y.negotiated = x
          /\ x >= 7 => y.step = "num_types" /\ y.need = 1
          /\ x \in 1..6 => y.step = "auth" /\ y.need = 4
    BY <1>1, ClientHeadFields
  <2>2. /\ w.inAuth = s.inAuth /\ (v = Unparsable => w.step = "done")
        /\ v # Unparsable => w.negotiated = v
        /\ v >= 7 => w.step = "num_types" /\ w.need = 1
        /\ v \in 1..6 => w.step = "auth" /\ w.need = 4
    BY <2>1, <2>5
  <2>3. v = Unparsable \/ v >= 7 \/ v \in 1..6
    BY <2>1 DEF Unparsable
  <2>4. s.inAuth = FALSE
    BY <1>1, <1>7, <1>10
  <2> QED
    BY <2>1, <2>2, <2>3, <2>4 DEF Exact, w, Unparsable
<1>11. CASE s.step = "num_types"
  <2>1. w = IF v = 0 THEN Return(s) ELSE Await(s, "types", v)
    BY <1>11, Advances
  <2> QED
    BY <1>2, <1>4, <1>5, <1>6, <1>7, <1>11, <2>1
<1>12. CASE s.step = "types"
  <2>1. w = Await(s, "sectype", 1)
    BY <1>12, Advances
  <2> QED
    BY <1>2, <1>5, <1>7, <1>12, <2>1
<1>13. CASE s.step = "sectype"
  <2>1. w = Authenticate(s, v) /\ v # 0
    BY <1>13, Advances DEF Legal
  <2> QED
    BY <1>8, <1>13, <2>1
<1>14. CASE s.step = "auth"
  <2>1. w = IF v = 0 THEN Return(s) ELSE Authenticate(s, v)
    BY <1>14, Advances
  <2> QED
    BY <1>4, <1>6, <1>8, <1>14, <2>1
<1>15. CASE s.step = "challenge"
  <2>1. w = Await(s, "response", 16)
    BY <1>15, Advances
  <2> QED
    BY <1>2, <1>5, <1>7, <1>15, <2>1
<1>16. CASE s.step = "dh_head"
  <2> DEFINE r == [s EXCEPT !.keyLen = v]
  <2>1. w = Await(r, "modulus", v)
    BY <1>16, Advances
  <2>2. r \in States /\ r.inAuth = s.inAuth /\ r.negotiated = s.negotiated
    BY <1>3, <1>16 DEF States
  <2> HIDE DEF r
  <2> QED
    BY <1>2, <1>5, <1>7, <1>16, <2>1, <2>2
<1>17. CASE s.step = "modulus"
  <2>1. w = Await(s, "server_key", s.keyLen)
    BY <1>17, Advances
  <2> QED
    BY <1>2, <1>5, <1>7, <1>17, <2>1
<1>18. CASE s.step = "server_key"
  <2>1. w = Await(s, "credentials", ARD_CREDENTIALS_LEN)
    BY <1>18, Advances
  <2> QED
    BY <1>2, <1>5, <1>7, <1>18, <2>1
<1>19. CASE s.step = "credentials"
  <2>1. w = Await(s, "client_key", s.keyLen)
    BY <1>19, Advances
  <2> QED
    BY <1>2, <1>5, <1>7, <1>19, <2>1
<1>20. CASE s.step \in {"response", "client_key"}
  <2>1. w = AfterAuth(s) /\ s.negotiated = a
    BY <1>2, <1>20, Advances
  <2>2. w.inAuth = FALSE /\ w.step \in {"client_init", "result"} /\ w.negotiated = a
    BY <2>1, AfterAuthFields, NegotiatedStays
  <2> HIDE DEF w
  <2> QED
    BY <2>2 DEF Exact, w
<1>21. CASE s.step = "result"
  <2>1. w = IF v = 0 THEN Await(s, "client_init", 1) ELSE Return(s)
    BY <1>21, Advances
  <2> QED
    BY <1>2, <1>4, <1>5, <1>6, <1>7, <1>21, <2>1
<1>22. CASE s.step = "client_init"
  <2>1. w = Await(s, "server_init", 24)
    BY <1>22, Advances
  <2> QED
    BY <1>2, <1>5, <1>7, <1>22, <2>1
<1>23. CASE s.step = "server_init"
  <2> DEFINE r == [s EXCEPT !.sized = TRUE]
  <2>1. w = IF v = 0 THEN Return(r) ELSE Await(r, "name", v)
    BY <1>23, Advances
  <2>2. r \in States /\ r.inAuth = s.inAuth /\ r.negotiated = s.negotiated
    BY DEF States
  <2> HIDE DEF r
  <2>3. Return(r).step = "done"
    BY <2>2, AwaitFields DEF Return
  <2> QED
    BY <1>2, <1>4, <1>5, <1>7, <1>23, <2>1, <2>2, <2>3
<1>24. CASE s.step = "name"
  <2>1. w = Return(s)
    BY <1>24, Advances
  <2> QED
    BY <1>4, <1>6, <2>1
<1> QED
  BY <1>1, <1>9, <1>10, <1>11, <1>12, <1>13, <1>14, <1>15, <1>16, <1>17, <1>18, <1>19, <1>20,
     <1>21, <1>22, <1>23, <1>24 DEF Steps, ClientSteps

-----------------------------------------------------------------------------
(* What _feed puts on record.                                              *)

\* What the record of bytes should be, and that of the first c bytes of q.
Stands(bytes, preserve, a) == IF preserve = TRUE THEN bytes ELSE NoneSession(bytes, a)
Noted(q, c, preserve, a) == Stands(SubSeq(q, 1, c), preserve, a)

\* Behind what was on record, the loop has put on record what it has consumed.
Notes(q, n, before, f, a) ==
  /\ Exact(f.s, a)
  /\ before \o f.out = Noted(q, n - Len(f.buf), f.s.preserve, a)

\* Every version that a client replies in q is a.
RepliedAs(q, a) == \A i \in 1..Len(q) : q[i].kind = "client_head" => q[i].value = a

\* The bytes of q behind the first c, up to number m.
Cut(q, c, m, chunk) ==
  /\ q \in Seq(Bytes) /\ chunk \in Seq(Bytes) /\ c \in Nat /\ m \in Nat
  /\ c + Len(chunk) = m /\ m <= Len(q)
  /\ \A i \in 1..Len(chunk) : chunk[i] = q[c + i]

\* More bytes on record.
LEMMA NotedMore ==
  \A q, c, m, chunk, preserve, a :
    Cut(q, c, m, chunk) =>
      Noted(q, m, preserve, a) = Noted(q, c, preserve, a) \o Stands(chunk, preserve, a)
<1> TAKE q, c, m, chunk, preserve, a
<1> HAVE Cut(q, c, m, chunk)
<1>9. PICK k \in Nat : k = Len(chunk)
  BY DEF Cut
<1>0. /\ q \in Seq(Bytes) /\ chunk \in Seq(Bytes) /\ c \in Nat /\ m = c + k
      /\ c + k <= Len(q) /\ Len(chunk) = k /\ \A i \in 1..k : chunk[i] = q[c + i]
  BY <1>9 DEF Cut
<1> DEFINE start == SubSeq(q, 1, c)
           w == SubSeq(q, 1, c + k)
<1>1. c <= Len(q) /\ Len(q) \in Nat /\ c + k \in Nat
  BY <1>0
<1>2. /\ start \in Seq(Bytes) /\ Len(start) = c /\ (\A i \in 1..c : start[i] = q[i])
      /\ w \in Seq(Bytes) /\ Len(w) = c + k /\ (\A i \in 1..(c + k) : w[i] = q[i])
  <2>1. \A l \in 0..Len(q) : /\ SubSeq(q, 1, l) \in Seq(Bytes) /\ Len(SubSeq(q, 1, l)) = l
                             /\ \A i \in 1..l : SubSeq(q, 1, l)[i] = q[i]
    BY <1>0
  <2>2. c \in 0..Len(q) /\ c + k \in 0..Len(q)
    BY <1>0, <1>1
  <2> QED
    BY <2>1, <2>2
<1> HIDE DEF start, w
<1>3. /\ start \o chunk \in Seq(Bytes) /\ Len(start \o chunk) = c + k
      /\ (\A i \in 1..c : (start \o chunk)[i] = start[i])
      /\ \A i \in 1..k : (start \o chunk)[c + i] = chunk[i]
  <2>1. \A x, y \in Seq(Bytes) :
          /\ x \o y \in Seq(Bytes) /\ Len(x \o y) = Len(x) + Len(y)
          /\ (\A i \in 1..Len(x) : (x \o y)[i] = x[i])
          /\ \A i \in 1..Len(y) : (x \o y)[Len(x) + i] = y[i]
    BY Joined
  <2> QED
    BY <1>0, <1>2, <2>1
<1>4. ASSUME NEW i \in 1..(c + k) PROVE w[i] = (start \o chunk)[i]
  <2>1. CASE i <= c
    <3>1. i \in 1..c
      BY <1>0, <2>1
    <3> QED
      BY <1>0, <1>2, <1>3, <3>1
  <2>2. CASE ~(i <= c)
    <3>1. PICK j \in 1..k : i = c + j
      <4>1. i - c \in 1..k /\ i = c + (i - c)
        BY <1>0, <2>2
      <4> QED
        BY <4>1
    <3> QED
      BY <1>0, <1>2, <1>3, <3>1
  <2> QED
    BY <2>1, <2>2
<1>5. w = start \o chunk
  <2>1. Len(w) = Len(start \o chunk) /\ \A i \in 1..Len(w) : w[i] = (start \o chunk)[i]
    BY <1>2, <1>3, <1>4
  <2> QED
    BY <1>2, <1>3, <2>1, SeqEqual
<1>6. NoneSession(start \o chunk, a) = NoneSession(start, a) \o NoneSession(chunk, a)
  <2>1. start \in Seq(Bytes) /\ chunk \in Seq(Bytes)
    BY <1>0, <1>2
  <2> QED
    BY <2>1, NoneJoined
<1>7. Noted(q, m, preserve, a) = IF preserve = TRUE THEN w ELSE NoneSession(w, a)
  BY <1>0 DEF Noted, Stands, w
<1>8. Noted(q, c, preserve, a) = IF preserve = TRUE THEN start ELSE NoneSession(start, a)
  BY DEF Noted, Stands, start
<1> QED
  BY <1>5, <1>6, <1>7, <1>8 DEF Stands

\* What is noted is bytes.
LEMMA NotedBytes ==
  \A q \in Seq(Bytes) : \A c \in 0..Len(q) : \A preserve, a :
    Noted(q, c, preserve, a) \in Seq(Bytes)
<1> TAKE q \in Seq(Bytes)
<1> TAKE c \in 0..Len(q)
<1>1. SubSeq(q, 1, c) \in Seq(Bytes)
  OBVIOUS
<1> QED
  BY <1>1, NoneBytes DEF Noted, Stands

\* The loop's body puts on record what stands in place of the field it takes.
LEMMA ConsumeNotes ==
  ASSUME NEW t, NEW q \in Seq(Bytes), NEW n \in Nat, n <= Len(q), NEW e, NEW z,
         Ending(q, e, z), NEW f, Feeds(t, q, n, f, e, z), ~Stuck(t, f),
         NEW a, NEW before \in Seq(Bytes), Notes(q, n, before, f, a), RepliedAs(q, a)
  PROVE  Notes(q, n, before, Consume(t, f), a)
<1> DEFINE need == f.s.need
           piece == SubSeq(f.buf, 1, need)
           rest == SubSeq(f.buf, need + 1, Len(f.buf))
           at == n - Len(f.buf)
           v == piece[1].value
           new == IF f.s.preserve THEN piece ELSE Recording(f.s, piece)
<1>1. /\ f.s \in States /\ f.buf \in Seq(Bytes) /\ f.out \in Seq(Bytes) /\ Len(f.buf) \in Nat
      /\ Len(f.buf) <= n /\ Reads(q, t, f.s, at, e, z) /\ f.s.preserve \in BOOLEAN
      /\ \A i \in 1..Len(f.buf) : f.buf[i] = q[at + i]
  BY DEF Feeds, Frames, States
<1>2. Watches(f.s, t) /\ need <= Len(f.buf) /\ need \in Nat /\ f.s.step # "done"
  BY <1>1 DEF Stuck, Watches, States
<1>3. Sound(f.s) /\ at \in Nat /\ Len(q) \in Nat
  BY <1>1, ReadsEnds
<1>4. ~(f.s = e /\ at = z)
  BY <1>1, <1>2, <1>3 DEF Ending
<1>5. at + Len(f.buf) = n /\ need = f.s.need
  BY <1>1
<1>6. /\ piece \in Seq(Bytes) /\ Len(piece) = need
      /\ \A i \in 1..need : piece[i] = f.buf[i]
  BY <1>1, <1>2
<1>7. Len(rest) = Len(f.buf) - need
  <2>1. \A b \in Seq(Bytes) : \A k \in 0..Len(b) : Len(SubSeq(b, k + 1, Len(b))) = Len(b) - k
    OBVIOUS
  <2>2. need \in 0..Len(f.buf)
    BY <1>1, <1>2
  <2> QED
    BY <1>1, <2>1, <2>2
<1> HIDE DEF at, need
<1>8. FieldAt(q, f.s, at) /\ Legal(f.s, q[at + 1].value)
  BY <1>1, <1>4, ReadsTail
<1> HIDE DEF piece, rest
<1>9. \A i \in 1..need : piece[i] = q[at + i]
  <2>1. \A i \in 1..need : i \in 1..Len(f.buf)
    BY <1>1, <1>2
  <2> QED
    BY <1>1, <1>6, <2>1
<1>10. /\ need > 0 /\ at + need <= Len(q) /\ piece[1] = q[at + 1] /\ q[at + 1].kind = f.s.step
       /\ \A i \in 1..need : piece[i] = Byte(f.s.step, v, i)
  <2>1. /\ need > 0 /\ at + need <= Len(q)
        /\ \A j \in 1..need : q[at + j] = Byte(f.s.step, q[at + 1].value, j)
    BY <1>5, <1>8 DEF FieldAt
  <2>2. \A j \in 1..need : q[at + j].kind = f.s.step
    BY <1>5, <1>8, FieldAtKind
  <2>3. 1 \in 1..need
    BY <1>2, <2>1
  <2> QED
    BY <1>9, <2>1, <2>2, <2>3
<1>11. Consume(t, f) = [s |-> Advance(f.s, v), buf |-> rest, out |-> f.out \o new]
  BY DEF Consume, piece, rest, need, Stuck
<1> HIDE DEF new, v
<1>12. /\ Consume(t, f).s = Advance(f.s, v) /\ Consume(t, f).buf = rest
       /\ Consume(t, f).out = f.out \o new
  BY <1>11
<1>13. Exact(f.s, a) /\ before \o f.out = Noted(q, at, f.s.preserve, a)
  BY DEF Notes, at
<1>14. Legal(f.s, v) /\ (f.s.step = "client_head" => v = a)
  <2>1. at + 1 \in 1..Len(q)
    BY <1>2, <1>3, <1>10
  <2> QED
    BY <1>8, <1>10, <2>1 DEF RepliedAs, v
<1>15. Exact(Advance(f.s, v), a)
  BY <1>1, <1>2, <1>3, <1>13, <1>14, ExactAdvance
<1>16. Advance(f.s, v).preserve = f.s.preserve
  BY <1>1, <1>2, <1>3, <1>14, AdvanceSound
<1>17. Recording(f.s, piece) = NoneSession(piece, a)
  <2>1. /\ f.s.need > 0 /\ Len(piece) = f.s.need /\ piece \in Seq(Bytes)
        /\ \A i \in 1..f.s.need : piece[i] = Byte(f.s.step, v, i)
    BY <1>5, <1>6, <1>10
  <2>2. f.s \in States /\ Sound(f.s) /\ f.s.step # "done" /\ Exact(f.s, a) /\ Legal(f.s, v)
    BY <1>1, <1>2, <1>3, <1>13, <1>14
  <2> QED
    BY ONLY <2>1, <2>2, RecordingExact
<1>18. new = Stands(piece, f.s.preserve, a)
  BY <1>1, <1>17 DEF new, Stands
<1>19. new \in Seq(Bytes)
  BY <1>6, <1>18, NoneBytes DEF Stands
<1>20. Noted(q, at + need, f.s.preserve, a) = Noted(q, at, f.s.preserve, a) \o new
  <2>1. Cut(q, at, at + need, piece)
    BY <1>2, <1>3, <1>6, <1>9, <1>10 DEF Cut
  <2> QED
    BY <1>18, <2>1, NotedMore
<1>21. n - Len(rest) = at + need
  <2>1. PICK l \in Nat, x \in Nat, h \in Nat : l = Len(f.buf) /\ x = at /\ h = need
    BY <1>1, <1>2, <1>3
  <2>2. x + l = n /\ Len(rest) = l - h
    BY <1>5, <1>7, <2>1
  <2>3. n - Len(rest) = x + h
    BY <2>2
  <2> QED
    BY <2>1, <2>3
<1>22. before \o (f.out \o new) = (before \o f.out) \o new
  BY <1>1, <1>19, Regrouped
<1> QED
  BY <1>12, <1>13, <1>15, <1>16, <1>20, <1>21, <1>22 DEF Notes

\* So does the loop.
LEMMA LoopNotes ==
  ASSUME NEW t, NEW q \in Seq(Bytes), NEW n \in Nat, n <= Len(q), NEW e, NEW z,
         Ending(q, e, z), NEW f, Feeds(t, q, n, f, e, z),
         NEW a, NEW before \in Seq(Bytes), Notes(q, n, before, f, a), RepliedAs(q, a)
  PROVE  Notes(q, n, before, Loop(t, f), a)
<1> DEFINE Goes(x) == Feeds(t, q, n, x, e, z) /\ Notes(q, n, before, x, a)
<1>1. ASSUME NEW x, Goes(x) PROVE Goes(Consume(t, x))
  <2>1. CASE Stuck(t, x)
    BY <1>1, <2>1, ConsumeStuck
  <2>2. CASE ~Stuck(t, x)
    BY <1>1, <2>2, ConsumeKeeps, ConsumeNotes
  <2> QED
    BY <2>1, <2>2
<1>2. PICK g : Turns(t, f, g)
  BY LoopTurns
<1>3. g[0] = f /\ Loop(t, f) = g[14] /\ \A k \in 1..14 : g[k] = Consume(t, g[k - 1])
  BY <1>2 DEF Turns
<1>4. Goes(f)
  OBVIOUS
<1> HIDE DEF Goes
<1> DEFINE T == {k \in Nat : k <= 14 => Goes(g[k])}
<1>5. 0 \in T
  BY <1>3, <1>4
<1>6. ASSUME NEW k \in Nat, k \in T PROVE k + 1 \in T
  <2>1. SUFFICES ASSUME k + 1 <= 14 PROVE Goes(g[k + 1])
    OBVIOUS
  <2>2. k <= 14 /\ k + 1 \in 1..14 /\ (k + 1) - 1 = k
    BY <2>1
  <2>3. Goes(g[k]) /\ g[k + 1] = Consume(t, g[k])
    BY <1>3, <1>6, <2>2
  <2> QED
    BY <1>1, <2>3
<1>7. Nat \subseteq T
  <2> HIDE DEF T
  <2> QED
    BY <1>5, <1>6, Induction
<1>8. Goes(g[14])
  BY <1>7
<1> QED
  BY <1>3, <1>8 DEF Goes

\* Bytes of no field stand for themselves.
LEMMA PlainStands ==
  \A b \in Seq(Bytes) : \A preserve, a :
    (preserve # TRUE => \A i \in 1..Len(b) : Plain(b[i].kind)) => Stands(b, preserve, a) = b
<1> TAKE b \in Seq(Bytes)
<1> TAKE preserve, a
<1> HAVE preserve # TRUE => \A i \in 1..Len(b) : Plain(b[i].kind)
<1>1. CASE preserve = TRUE
  BY <1>1 DEF Stands
<1>2. CASE preserve # TRUE
  <2>1. \A i \in 1..Len(b) : InNoneSession(b[i], a) = <<b[i]>>
    BY <1>2 DEF Plain, InNoneSession, Secrets
  <2>2. NoneSession(b, a) = b
    BY <2>1, NoneEach
  <2> QED
    BY <1>2, <2>2 DEF Stands
<1> QED
  BY <1>1, <1>2

\* What is on record of direction t is what the session without authentication has.
Faithful(t, a) == recorded[t] = Noted(sent[t], At(t), scrubber.preserve, a)

\* Feeding the direction of the run keeps it so.
LEMMA FeedHereNotes ==
  ASSUME Typed, Streams, NEW t \in Taps, NEW e, NEW z, InRun(t, e, z), Due(e) \/ e.step = "done",
         NEW k \in Nat, fed[t] + k <= Len(sent[t]),
         NEW a, RepliedAs(sent[t], a), Exact(scrubber, a), Faithful(t, a)
  PROVE  LET r == Feed(t, SubSeq(sent[t], fed[t] + 1, fed[t] + k)) IN
         r.s.abort = FALSE =>
           /\ Exact(r.s, a)
           /\ recorded[t] \o r.out = Noted(sent[t], (fed[t] + k) - Len(r.buf), r.s.preserve, a)
<1> DEFINE n == fed[t] + k
           q == sent[t]
           data == SubSeq(q, fed[t] + 1, n)
           f == Arrives(t, k)
           g == Loop(t, f)
           r == Feed(t, data)
           before == recorded[t]
<1>1. /\ q \in Seq(Bytes) /\ Len(q) \in Nat /\ fed[t] \in Nat /\ before \in Seq(Bytes)
      /\ n \in Nat /\ n <= Len(q)
  BY DEF Typed
<1>2. /\ Feeds(t, q, n, f, e, z) /\ Ending(q, e, z)
      /\ f.s = scrubber /\ f.out = <<>> /\ n - Len(f.buf) = At(t)
  BY FeedStarts
<1>3. r = IF Watches(g.s, t) THEN g ELSE [g EXCEPT !.buf = <<>>, !.out = g.out \o g.buf]
  BY DEF Feed, Arrives
<1> HIDE DEF n, q, data, before
<1>4. Notes(q, n, before, f, a)
  <2>1. before \o f.out = before
    BY <1>1, <1>2, ConcatEmptySeq
  <2>2. before = Noted(q, n - Len(f.buf), f.s.preserve, a)
    BY <1>2 DEF Faithful, before, q
  <2> QED
    BY <1>2, <2>1, <2>2 DEF Notes
<1>5. RepliedAs(q, a)
  BY DEF q
<1>6. Notes(q, n, before, g, a)
  <2> HIDE DEF f
  <2> QED
    BY <1>1, <1>2, <1>4, <1>5, LoopNotes
<1>7. Feeds(t, q, n, g, e, z) /\ Stuck(t, g)
  BY <1>1, <1>2, LoopKeeps
<1> HIDE DEF f, g, r
<1>8. /\ g \in Frames /\ Len(g.buf) <= n /\ Len(g.buf) \in Nat /\ g.buf \in Seq(Bytes)
      /\ g.out \in Seq(Bytes) /\ g.s \in States
      /\ \A i \in 1..Len(g.buf) : g.buf[i] = q[(n - Len(g.buf)) + i]
      /\ Reads(q, t, g.s, n - Len(g.buf), e, z)
  BY <1>7 DEF Feeds, Frames
<1>9. Exact(g.s, a) /\ before \o g.out = Noted(q, n - Len(g.buf), g.s.preserve, a)
  BY <1>6 DEF Notes
<1>10. SUFFICES ASSUME r.s.abort = FALSE
                PROVE  /\ Exact(r.s, a)
                       /\ before \o r.out = Noted(q, n - Len(r.buf), r.s.preserve, a)
  BY DEF r, data, n, q, before
<1>11. CASE Watches(g.s, t)
  BY <1>3, <1>9, <1>11
<1>12. CASE ~Watches(g.s, t)
  <2>1. g.s = e /\ n - Len(g.buf) = z
    BY <1>8, <1>12, ReadsTail
  <2>2. r.s = g.s /\ r.buf = <<>> /\ r.out = g.out \o g.buf
    BY <1>3, <1>8, <1>12 DEF Frames
  <2>3. z \in Nat /\ n - Len(r.buf) = n /\ z + Len(g.buf) = n
    <3>1. PICK l \in Nat : l = Len(g.buf) /\ l <= n
      BY <1>8
    <3>2. n - l \in Nat /\ (n - l) + l = n /\ n - 0 = n
      BY <1>1, <3>1
    <3>3. Len(r.buf) = 0
      BY <2>2
    <3> QED
      BY <2>1, <3>1, <3>2, <3>3
  <2>4. Cut(q, z, n, g.buf)
    BY <1>1, <1>8, <2>1, <2>3 DEF Cut
  <2>5. Noted(q, n, e.preserve, a) = Noted(q, z, e.preserve, a) \o Stands(g.buf, e.preserve, a)
    BY <2>4, NotedMore
  <2>6. Stands(g.buf, e.preserve, a) = g.buf
    <3>1. ASSUME e.preserve # TRUE, NEW i \in 1..Len(g.buf) PROVE Plain(g.buf[i].kind)
      <4>1. e.preserve = FALSE /\ e.abort = FALSE
        BY <1>8, <1>10, <2>1, <2>2, <3>1 DEF States
      <4>2. \A j \in (z + 1)..Len(q) : Plain(q[j].kind)
        BY <4>1 DEF InRun, Loose, q
      <4>3. g.buf[i] = q[z + i]
        BY <1>8, <2>1
      <4>5. z + i \in (z + 1)..Len(q)
        BY <1>1, <1>8, <2>3
      <4> QED
        BY <4>2, <4>3, <4>5
    <3> QED
      BY <1>8, <3>1, PlainStands
  <2>7. before \o (g.out \o g.buf) = (before \o g.out) \o g.buf
    BY <1>1, <1>8, Regrouped
  <2>8. before \o r.out = Noted(q, n, e.preserve, a)
    BY <1>9, <2>1, <2>2, <2>3, <2>5, <2>6, <2>7
  <2> QED
    BY <1>9, <2>1, <2>2, <2>3, <2>8
<1> QED
  BY <1>11, <1>12

\* So does feeding the other direction.
LEMMA FeedThereNotes ==
  ASSUME Typed, Streams, NEW t \in Taps, NEW e, NEW z, InRun(Other(t), e, z),
         NEW k \in Nat, k > 0, fed[t] + k <= Len(sent[t]), NEW a, Faithful(t, a)
  PROVE  LET r == Feed(t, SubSeq(sent[t], fed[t] + 1, fed[t] + k)) IN
         recorded[t] \o r.out = Noted(sent[t], (fed[t] + k) - Len(r.buf), r.s.preserve, a)
<1> DEFINE n == fed[t] + k
           q == sent[t]
           data == SubSeq(q, fed[t] + 1, n)
           r == Feed(t, data)
<1>1. /\ q \in Seq(Bytes) /\ Len(q) \in Nat /\ fed[t] \in Nat /\ n \in Nat
      /\ Other(t) \in Taps /\ Other(Other(t)) = t /\ scrubber.preserve \in BOOLEAN
  BY TwoTaps DEF Typed, States
<1>2. r.s = scrubber /\ r.buf = <<>> /\ r.out = data /\ pending[t] = <<>>
  BY FeedThere
<1>3. data \in Seq(Bytes) /\ Len(data) = k /\ \A i \in 1..k : data[i] = q[fed[t] + i]
  <2>1. \A m \in Nat : m + k <= Len(q) =>
          /\ SubSeq(q, m + 1, m + k) \in Seq(Bytes) /\ Len(SubSeq(q, m + 1, m + k)) = k
          /\ \A i \in 1..k : SubSeq(q, m + 1, m + k)[i] = q[m + i]
    BY <1>1, Sliced
  <2> QED
    BY <1>1, <2>1
<1>4. At(t) = fed[t]
  BY <1>1, <1>2 DEF At
<1>5. recorded[t] = Noted(q, fed[t], scrubber.preserve, a)
  BY <1>4 DEF Faithful
<1> HIDE DEF data, r, q
<1>6. Cut(q, fed[t], n, data)
  BY <1>1, <1>3 DEF Cut, q
<1> HIDE DEF n
<1>7. Noted(q, n, scrubber.preserve, a)
      = Noted(q, fed[t], scrubber.preserve, a) \o Stands(data, scrubber.preserve, a)
  BY <1>6, NotedMore
<1>8. Stands(data, scrubber.preserve, a) = data
  <2>1. ASSUME scrubber.preserve # TRUE, NEW i \in 1..Len(data) PROVE Plain(data[i].kind)
    <3>1. e.preserve = FALSE
      BY <1>1, <2>1 DEF InRun
    <3>2. \A j \in (fed[t] + 1)..Len(q) : Plain(q[j].kind)
      BY <1>1, <3>1 DEF InRun, Loose, q
    <3>3. fed[t] + i \in (fed[t] + 1)..Len(q) /\ data[i] = q[fed[t] + i]
      BY <1>1, <1>3 DEF q
    <3> QED
      BY <3>2, <3>3
  <2> QED
    BY <1>3, <2>1, PlainStands
<1>9. n - Len(r.buf) = n
  <2>1. Len(r.buf) = 0
    BY <1>2
  <2> QED
    BY <1>1, <2>1
<1>10. recorded[t] \o r.out = Noted(q, n - Len(r.buf), r.s.preserve, a)
  BY <1>2, <1>5, <1>7, <1>8, <1>9
<1> QED
  BY <1>10 DEF r, data, q, n

-----------------------------------------------------------------------------
(* What the ends may say, and when.                                        *)

\* A version was replied once, and nothing but the greeting came before.
Replied ==
  /\ \A t \in Taps : RepliedAs(sent[t], agreed)
  /\ stage \in {"greeting", "reply"} =>
       \A t \in Taps : \A i \in 1..Len(sent[t]) : sent[t][i].kind = "server_head"

Recorded ==
  capture = "held" =>
    Exact(scrubber, agreed) /\ Replied /\ \A t \in Taps : Faithful(t, agreed)

\* Bytes that are not of a client's reply.
Later == {b \in Bytes : b.kind # "client_head"}

\* One of the ends speaks after the reply.
Speaks ==
  \E u \in Taps : \E b \in Seq(Later) :
    Sends(u, b) /\ agreed' = agreed /\ stage' \notin {"greeting", "reply"}

\* A field that is not of a client's reply.
LEMMA FieldLater ==
  \A kind \in Kinds, value \in Values, n \in Nat :
    kind # "client_head" => Field(kind, value, n) \in Seq(Later)
<1> TAKE kind \in Kinds, value \in Values, n \in Nat
<1> HAVE kind # "client_head"
<1>1. \A i \in 1..n : [kind |-> kind, value |-> value, at |-> i] \in Later
  BY DEF Bytes, Later
<1> QED
  BY <1>1 DEF Field

\* What an end says is what it sends.
LEMMA SaysSends ==
  \A t \in Taps : \A now, b, next :
    Says(t, now, b, next) => Sends(t, b) /\ stage = now /\ stage' = next
BY DEF Says, Sends, captureVars

\* So speaks every end that says something after the reply.
LEMMA SaysSpeaks ==
  \A t \in Taps, b \in Seq(Later) : \A now, next :
    /\ Says(t, now, b, next) /\ agreed' = agreed /\ next \notin {"greeting", "reply"}
    => Speaks
BY SaysSends DEF Speaks

\* A number is a value, and the fields of the handshake are kinds.
LEMMA Sayable ==
  /\ \A n \in Nat : n \in Values
  /\ {"num_types", "types", "auth", "sectype", "challenge", "dh_head", "modulus", "server_key",
      "opaque", "response", "credentials", "client_key", "result", "client_init", "server_init",
      "name", "reason", "session"} \subseteq Kinds \ {"client_head"}
BY DEF Values, Kinds, Steps, ClientSteps

\* Why a server refuses.
LEMMA ReasonLater ==
  Reason \in Seq(Later)
<1>1. "reason" \in Kinds /\ "reason" # "client_head" /\ 0 \in Values /\ 6 \in Nat
  BY Sayable
<1> QED
  BY <1>1, FieldLater DEF Reason

\* The server's offer or decision.
LEMMA OfferSpeaks ==
  ASSUME ServerOffers \/ ServerDecides PROVE Speaks
<1>1. "s2c" \in Taps /\ "over" \notin {"greeting", "reply"} /\ "choice" \notin {"greeting", "reply"}
  BY DEF Taps
<1>2. \A b, c \in Seq(Later) : b \o c \in Seq(Later)
  BY Joined
<1>3. CASE ServerOffers
  <2>1. PICK offer \in Offers :
          /\ IF offer = <<>>
             THEN Says("s2c", "offer", Field("num_types", 0, 1) \o Reason, "over")
             ELSE Says("s2c", "offer", Field("num_types", Len(offer), 1)
                                       \o Field("types", offer, Len(offer)), "choice")
          /\ UNCHANGED <<agreed, chosen>>
    BY <1>3 DEF ServerOffers
  <2>2. offer \in Seq(1..255) /\ offer \in Seq(Nat) /\ Len(offer) \in Nat
    <3>1. offer \in Seq(1..255)
      BY ScrubberAssumption
    <3>2. ASSUME NEW S, NEW T, S \subseteq T, NEW q \in Seq(S) PROVE q \in Seq(T)
      BY <3>2
    <3>3. 1..255 \subseteq Nat
      OBVIOUS
    <3>4. offer \in Seq(Nat)
      BY <3>1, <3>2, <3>3
    <3> QED
      BY <3>1, <3>4
  <2>3. /\ offer \in Values /\ Len(offer) \in Values /\ 0 \in Values /\ 1 \in Nat
        /\ "num_types" \in Kinds /\ "types" \in Kinds
    BY <2>2, Sayable DEF Values
  <2>4. /\ Field("num_types", 0, 1) \in Seq(Later)
        /\ Field("num_types", Len(offer), 1) \in Seq(Later)
        /\ Field("types", offer, Len(offer)) \in Seq(Later)
    BY <2>2, <2>3, FieldLater
  <2>5. /\ Field("num_types", 0, 1) \o Reason \in Seq(Later)
        /\ Field("num_types", Len(offer), 1) \o Field("types", offer, Len(offer)) \in Seq(Later)
    BY <1>2, <2>4, ReasonLater
  <2> QED
    BY <1>1, <2>1, <2>5, SaysSpeaks
<1>4. CASE ServerDecides
  <2>1. PICK type \in Decisions :
          /\ IF type = 0
             THEN Says("s2c", "offer", Field("auth", 0, 4) \o Reason, "over")
             ELSE Says("s2c", "offer", Field("auth", type, 4), AfterChoice(type))
          /\ UNCHANGED agreed
    BY <1>4 DEF ServerDecides
  <2>2. type \in Nat /\ 0 \in Nat /\ 4 \in Nat
    BY ScrubberAssumption
  <2>3. type \in Values /\ 0 \in Values /\ "auth" \in Kinds
    BY <2>2, Sayable
  <2>4. Field("auth", 0, 4) \in Seq(Later) /\ Field("auth", type, 4) \in Seq(Later)
    BY <2>2, <2>3, FieldLater
  <2>5. Field("auth", 0, 4) \o Reason \in Seq(Later)
    BY <1>2, <2>4, ReasonLater
  <2>6. AfterChoice(type) \notin {"greeting", "reply"}
    BY DEF AfterChoice
  <2> QED
    BY <1>1, <2>1, <2>4, <2>5, <2>6, SaysSpeaks
<1> QED
  BY <1>3, <1>4

\* The client's choice.
LEMMA ChoiceSpeaks ==
  ASSUME IInv, ClientChooses PROVE Speaks
<1>1. PICK type \in ToSet(Last(sent["s2c"]).value) :
        /\ Says("c2s", "choice", Field("sectype", type, 1), AfterChoice(type))
        /\ UNCHANGED agreed
  BY DEF ClientChooses
<1>2. type \in 1..255
  <2>1. Last(sent["s2c"]).value \in Seq(1..255)
    BY DEF IInv, Told, ClientChooses
  <2>2. PICK q \in Seq(1..255) : q = Last(sent["s2c"]).value
    BY <2>1
  <2>3. PICK i \in DOMAIN q : type = q[i]
    BY <1>1, <2>2, Zenon DEF ToSet
  <2>4. ASSUME NEW S, NEW p \in Seq(S), NEW j \in DOMAIN p PROVE p[j] \in S
    OBVIOUS
  <2> QED
    BY <2>3, <2>4
<1>3. type \in Values /\ "sectype" \in Kinds /\ 1 \in Nat
  <2>1. type \in Nat
    BY <1>2
  <2> QED
    BY <2>1, Sayable
<1>4. Field("sectype", type, 1) \in Seq(Later)
  BY <1>3, FieldLater
<1>5. AfterChoice(type) \notin {"greeting", "reply"} /\ "c2s" \in Taps
  BY DEF AfterChoice, Taps
<1> QED
  BY <1>1, <1>4, <1>5, SaysSpeaks

\* The authentication, on both sides.
LEMMA ExchangeSpeaks ==
  ASSUME IInv, ServerChallenges \/ ClientAnswers PROVE Speaks
<1>1. \A b, c \in Seq(Later) : b \o c \in Seq(Later)
  BY Joined
<1>2. /\ "s2c" \in Taps /\ "c2s" \in Taps /\ "answer" \notin {"greeting", "reply"}
      /\ "judgement" \notin {"greeting", "reply"}
  BY DEF Taps
<1>3. \A n, m \in Nat :
        /\ Field("challenge", n, m) \in Seq(Later) /\ Field("dh_head", n, m) \in Seq(Later)
        /\ Field("modulus", n, m) \in Seq(Later) /\ Field("server_key", n, m) \in Seq(Later)
        /\ Field("opaque", n, m) \in Seq(Later) /\ Field("response", n, m) \in Seq(Later)
        /\ Field("credentials", n, m) \in Seq(Later) /\ Field("client_key", n, m) \in Seq(Later)
  <2> TAKE n, m \in Nat
  <2>1. n \in Values
    BY Sayable
  <2>2. \A kind \in Kinds \ {"client_head"} : Field(kind, n, m) \in Seq(Later)
    BY <2>1, FieldLater
  <2> QED
    BY <2>2, Sayable
<1>4. 0 \in Nat /\ 2 \in Nat /\ 4 \in Nat /\ 16 \in Nat /\ ARD_CREDENTIALS_LEN \in Nat
  BY DEF ARD_CREDENTIALS_LEN
<1>5. CASE ServerChallenges
  <2>1. PICK k \in KeyLens :
          /\ Says("s2c", "exchange",
                  CASE chosen = VNC_AUTHENTICATION -> Field("challenge", 0, 16)
                    [] chosen = DIFFIE_HELLMAN ->
                         Field("dh_head", k, 4) \o Field("modulus", k, k)
                         \o Field("server_key", k, k)
                    [] OTHER -> Field("opaque", 0, 2),
                  "answer")
          /\ UNCHANGED agreed
    BY <1>5 DEF ServerChallenges
  <2>2. k \in Nat
    BY ScrubberAssumption
  <2>3. PICK b : b = CASE chosen = VNC_AUTHENTICATION -> Field("challenge", 0, 16)
                       [] chosen = DIFFIE_HELLMAN ->
                            Field("dh_head", k, 4) \o Field("modulus", k, k)
                            \o Field("server_key", k, k)
                       [] OTHER -> Field("opaque", 0, 2)
    OBVIOUS
  <2>4. /\ Field("challenge", 0, 16) \in Seq(Later) /\ Field("opaque", 0, 2) \in Seq(Later)
        /\ Field("dh_head", k, 4) \o Field("modulus", k, k) \o Field("server_key", k, k)
             \in Seq(Later)
    BY <1>1, <1>3, <1>4, <2>2
  <2>5. b \in Seq(Later)
    BY <2>3, <2>4
  <2> QED
    BY <1>2, <2>1, <2>3, <2>5, SaysSpeaks
<1>6. CASE ClientAnswers
  <2> DEFINE k == Last(sent["s2c"]).value
  <2>1. /\ stage = "answer"
        /\ Says("c2s", "answer",
                CASE chosen = VNC_AUTHENTICATION -> Field("response", 0, 16)
                  [] chosen = DIFFIE_HELLMAN ->
                       Field("credentials", 0, ARD_CREDENTIALS_LEN) \o Field("client_key", k, k)
                  [] OTHER -> Field("opaque", 0, 2),
                "judgement")
        /\ UNCHANGED agreed
    BY <1>6 DEF ClientAnswers
  <2>2. chosen = DIFFIE_HELLMAN => k \in Nat
    BY <2>1 DEF IInv, Told
  <2> HIDE DEF k
  <2>3. PICK b : b = CASE chosen = VNC_AUTHENTICATION -> Field("response", 0, 16)
                       [] chosen = DIFFIE_HELLMAN ->
                            Field("credentials", 0, ARD_CREDENTIALS_LEN)
                            \o Field("client_key", k, k)
                       [] OTHER -> Field("opaque", 0, 2)
    OBVIOUS
  <2>4. /\ Field("response", 0, 16) \in Seq(Later) /\ Field("opaque", 0, 2) \in Seq(Later)
        /\ chosen = DIFFIE_HELLMAN =>
             Field("credentials", 0, ARD_CREDENTIALS_LEN) \o Field("client_key", k, k)
               \in Seq(Later)
    BY <1>1, <1>3, <1>4, <2>2
  <2>5. b \in Seq(Later)
    BY <2>3, <2>4
  <2> QED
    BY <1>2, <2>1, <2>3, <2>5, SaysSpeaks
<1> QED
  BY <1>5, <1>6

\* From the server's judgement on.
LEMMA StartSpeaks ==
  ASSUME ServerJudges \/ ClientStarts \/ ServerStarts \/ \E t \in Taps : SessionByte(t)
  PROVE  Speaks
<1>1. \A b, c \in Seq(Later) : b \o c \in Seq(Later)
  BY Joined
<1>2. "s2c" \in Taps /\ "c2s" \in Taps /\ <<>> \in Seq(Later)
  BY DEF Taps
<1>3. \A n, m \in Nat :
        /\ Field("result", n, m) \in Seq(Later) /\ Field("client_init", n, m) \in Seq(Later)
        /\ Field("server_init", n, m) \in Seq(Later) /\ Field("name", n, m) \in Seq(Later)
        /\ Field("session", n, m) \in Seq(Later)
  <2> TAKE n, m \in Nat
  <2>1. n \in Values
    BY Sayable
  <2>2. \A kind \in Kinds \ {"client_head"} : Field(kind, n, m) \in Seq(Later)
    BY <2>1, FieldLater
  <2> QED
    BY <2>2, Sayable
<1>4. CASE ServerJudges
  <2>1. PICK result \in {0, 1} :
          /\ Says("s2c", "judgement",
                  Field("result", result, 4)
                  \o (IF result = 1 /\ agreed >= 8 THEN Reason ELSE <<>>),
                  IF result = 0 THEN "init" ELSE "over")
          /\ UNCHANGED agreed
    BY <1>4 DEF ServerJudges
  <2>2. PICK why \in Seq(Later) : why = IF result = 1 /\ agreed >= 8 THEN Reason ELSE <<>>
    BY <1>2, ReasonLater
  <2>3. result \in Nat /\ 4 \in Nat
    OBVIOUS
  <2>4. Field("result", result, 4) \o why \in Seq(Later)
    BY <1>1, <1>3, <2>3
  <2>5. PICK next : next = (IF result = 0 THEN "init" ELSE "over") /\ next \notin {"greeting", "reply"}
    OBVIOUS
  <2> QED
    BY <1>2, <2>1, <2>2, <2>4, <2>5, SaysSpeaks
<1>5. CASE ClientStarts
  <2>1. Says("c2s", "init", Field("client_init", 0, 1), "description") /\ agreed' = agreed
    BY <1>5 DEF ClientStarts
  <2>2. Field("client_init", 0, 1) \in Seq(Later) /\ "description" \notin {"greeting", "reply"}
    BY <1>3
  <2> QED
    BY <1>2, <2>1, <2>2, SaysSpeaks
<1>6. CASE ServerStarts
  <2>1. PICK n \in NameLens :
          /\ Says("s2c", "description", Field("server_init", n, 24) \o Field("name", n, n), "session")
          /\ agreed' = agreed
    BY <1>6 DEF ServerStarts
  <2>2. n \in Nat /\ 24 \in Nat /\ "session" \notin {"greeting", "reply"}
    BY ScrubberAssumption
  <2>3. Field("server_init", n, 24) \o Field("name", n, n) \in Seq(Later)
    BY <1>1, <1>3, <2>2
  <2> QED
    BY <1>2, <2>1, <2>2, <2>3, SaysSpeaks
<1>7. CASE \E t \in Taps : SessionByte(t)
  <2>1. PICK t \in Taps : SessionByte(t)
    BY <1>7
  <2>2. Field("session", 0, 1) \in Seq(Later)
    BY <1>3
  <2>3. Sends(t, Field("session", 0, 1)) /\ agreed' = agreed /\ stage' \notin {"greeting", "reply"}
    BY <2>1 DEF SessionByte, Sends, captureVars
  <2> QED
    BY <2>2, <2>3 DEF Speaks
<1> QED
  BY <1>4, <1>5, <1>6, <1>7

-----------------------------------------------------------------------------
(* Every step keeps the record right.                                      *)

\* Bytes that an end sends change nothing of what is on record.
LEMMA SentFaithful ==
  ASSUME Typed, Streams, NEW u \in Taps, NEW b \in Seq(Bytes), Sends(u, b), NEW t \in Taps, NEW a,
         Faithful(t, a)
  PROVE  Faithful(t, a)'
<1>1. /\ sent' \in [Taps -> Seq(Bytes)] /\ sent'[Other(u)] = sent[Other(u)]
      /\ Len(sent'[u]) \in Nat /\ Len(sent[u]) <= Len(sent'[u]) /\ Len(sent[u]) \in Nat
      /\ (\A i \in 1..Len(sent[u]) : sent'[u][i] = sent[u][i])
      /\ \A v : At(v)' = At(v)
  BY Sent
<1>2. recorded' = recorded /\ scrubber' = scrubber /\ At(t)' = At(t)
  BY <1>1 DEF Sends
<1>3. SubSeq(sent'[t], 1, At(t)) = SubSeq(sent[t], 1, At(t))
  <2>1. CASE t = Other(u)
    BY <1>1, <2>1
  <2>2. CASE t = u
    <3>1. At(t) \in Nat /\ At(t) <= Len(sent[t])
      <4>1. fed[t] \in Nat /\ Len(pending[t]) \in Nat /\ Len(sent[t]) \in Nat
            /\ Len(pending[t]) <= fed[t] /\ fed[t] <= Len(sent[t])
        BY DEF Typed, Streams
      <4> QED
        BY <4>1 DEF At
    <3>2. PICK c \in Nat : c = At(t) /\ c <= Len(sent[u]) /\ c <= Len(sent'[u])
      BY <1>1, <2>2, <3>1
    <3>3. PICK p, q \in Seq(Bytes) : p = sent[u] /\ q = sent'[u]
      BY <1>1 DEF Typed
    <3>4. \A i \in 1..c : p[i] = q[i]
      BY <1>1, <3>2, <3>3
    <3>5. SubSeq(p, 1, c) = SubSeq(q, 1, c)
      <4>1. /\ SubSeq(p, 1, c) \in Seq(Bytes) /\ Len(SubSeq(p, 1, c)) = c
            /\ SubSeq(q, 1, c) \in Seq(Bytes) /\ Len(SubSeq(q, 1, c)) = c
            /\ \A i \in 1..c : SubSeq(p, 1, c)[i] = p[i] /\ SubSeq(q, 1, c)[i] = q[i]
        BY <3>2, <3>3
      <4> QED
        BY <3>4, <4>1, SeqEqual
    <3> QED
      BY <2>2, <3>2, <3>3, <3>5
  <2> QED
    BY <2>1, <2>2, TwoTaps
<1> QED
  BY <1>2, <1>3 DEF Faithful, Noted

\* Nor do those of no reply change what was replied.
LEMMA SentReplied ==
  ASSUME Typed, Streams, NEW u \in Taps, NEW b \in Seq(Bytes), Sends(u, b), NEW a,
         \A i \in 1..Len(b) : b[i].kind = "client_head" => b[i].value = a,
         NEW t \in Taps, RepliedAs(sent[t], a)
  PROVE  RepliedAs(sent'[t], a)
<1>1. /\ sent'[Other(u)] = sent[Other(u)]
      /\ Len(sent'[u]) \in Nat /\ Len(sent[u]) <= Len(sent'[u]) /\ Len(sent[u]) \in Nat
      /\ (\A i \in 1..Len(sent[u]) : sent'[u][i] = sent[u][i])
      /\ \A i \in (Len(sent[u]) + 1)..Len(sent'[u]) : \E j \in 1..Len(b) : sent'[u][i] = b[j]
  BY Sent
<1>2. CASE t = Other(u)
  BY <1>1, <1>2
<1>3. CASE t = u
  <2>1. ASSUME NEW i \in 1..Len(sent'[u]), sent'[u][i].kind = "client_head"
        PROVE  sent'[u][i].value = a
    <3>1. i \in 1..Len(sent[u]) \/ i \in (Len(sent[u]) + 1)..Len(sent'[u])
      BY <1>1
    <3>2. CASE i \in 1..Len(sent[u])
      BY <1>1, <1>3, <2>1, <3>2 DEF RepliedAs
    <3>3. CASE i \in (Len(sent[u]) + 1)..Len(sent'[u])
      BY <1>1, <2>1, <3>3
    <3> QED
      BY <3>1, <3>2, <3>3
  <2> QED
    BY <1>3, <2>1 DEF RepliedAs
<1> QED
  BY <1>2, <1>3, TwoTaps

\* The ends speak, after the reply.
LEMMA SpeaksRecords ==
  ASSUME IInv, Recorded, Speaks PROVE Recorded'
<1>1. PICK u \in Taps : \E b \in Seq(Later) :
        Sends(u, b) /\ agreed' = agreed /\ stage' \notin {"greeting", "reply"}
  BY DEF Speaks
<1>2. PICK b \in Seq(Later) :
        Sends(u, b) /\ agreed' = agreed /\ stage' \notin {"greeting", "reply"}
  BY <1>1
<1>3. b \in Seq(Bytes) /\ \A i \in 1..Len(b) : b[i].kind # "client_head"
  <2>1. Later \subseteq Bytes /\ \A x \in Later : x.kind # "client_head"
    BY DEF Later
  <2>2. ASSUME NEW S, NEW T, S \subseteq T, NEW q \in Seq(S)
        PROVE  q \in Seq(T) /\ \A i \in 1..Len(q) : q[i] \in S
    BY <2>2
  <2> QED
    BY <2>1, <2>2
<1>4. Typed /\ Streams /\ capture' = capture /\ scrubber' = scrubber
  BY <1>2 DEF IInv, Sends
<1>5. SUFFICES ASSUME capture = "held"
               PROVE  Exact(scrubber', agreed') /\ Replied' /\ \A t \in Taps : Faithful(t, agreed)'
  BY <1>4 DEF Recorded
<1>6. Exact(scrubber, agreed) /\ Replied /\ \A t \in Taps : Faithful(t, agreed)
  BY <1>5 DEF Recorded
<1>7. \A t \in Taps : RepliedAs(sent'[t], agreed)
  BY <1>2, <1>3, <1>4, <1>6, SentReplied DEF Replied
<1>8. Replied'
  BY <1>2, <1>7 DEF Replied
<1>9. ASSUME NEW t \in Taps PROVE Faithful(t, agreed)'
  <2>1. PICK a : a = agreed
    OBVIOUS
  <2>2. Faithful(t, a)
    BY <1>6, <2>1
  <2>3. Faithful(t, a)'
    BY <1>2, <1>3, <1>4, <2>2, SentFaithful
  <2> QED
    BY <1>2, <2>1, <2>3 DEF Faithful
<1> QED
  BY <1>2, <1>4, <1>6, <1>8, <1>9

\* The server greets.
LEMMA GreetsRecords ==
  ASSUME IInv, Recorded, ServerGreets PROVE Recorded'
<1>1. PICK v \in Versions : /\ Says("s2c", "greeting", Field("server_head", v, 12), "reply")
                            /\ UNCHANGED <<agreed, chosen>>
  BY DEF ServerGreets
<1>2. /\ "s2c" \in Taps /\ "server_head" \in Kinds /\ v \in Values /\ 12 \in Nat
  BY ScrubberAssumption DEF Taps, Kinds, Steps, Values
<1>3. PICK b : b = Field("server_head", v, 12)
  OBVIOUS
<1>4. b \in Seq(Bytes) /\ Len(b) = 12 /\ \A i \in 1..Len(b) : b[i].kind = "server_head"
  <2>1. /\ b \in Seq(Bytes) /\ Len(b) = 12 /\ \A i \in 1..12 : b[i] = Byte("server_head", v, i)
    BY <1>2, <1>3, FieldEach
  <2> QED
    BY <2>1 DEF Byte
<1>5. Sends("s2c", b) /\ stage = "greeting"
  BY <1>1, <1>2, <1>3, SaysSends
<1>6. Typed /\ Streams /\ capture' = capture /\ scrubber' = scrubber /\ agreed' = agreed
  BY <1>1, <1>5 DEF IInv, Sends
<1>7. SUFFICES ASSUME capture = "held"
               PROVE  Exact(scrubber', agreed') /\ Replied' /\ \A t \in Taps : Faithful(t, agreed)'
  BY <1>6 DEF Recorded
<1>8. Exact(scrubber, agreed) /\ Replied /\ \A t \in Taps : Faithful(t, agreed)
  BY <1>7 DEF Recorded
<1>9. \A t \in Taps : RepliedAs(sent'[t], agreed)
  BY <1>2, <1>4, <1>5, <1>6, <1>8, SentReplied DEF Replied
<1>10. ASSUME NEW t \in Taps, NEW i \in 1..Len(sent'[t]) PROVE sent'[t][i].kind = "server_head"
  <2>1. /\ sent'[Other("s2c")] = sent[Other("s2c")] /\ Len(sent["s2c"]) \in Nat
        /\ Len(sent'["s2c"]) \in Nat /\ Len(sent["s2c"]) <= Len(sent'["s2c"])
        /\ (\A j \in 1..Len(sent["s2c"]) : sent'["s2c"][j] = sent["s2c"][j])
        /\ \A j \in (Len(sent["s2c"]) + 1)..Len(sent'["s2c"]) :
             \E l \in 1..Len(b) : sent'["s2c"][j] = b[l]
    BY <1>2, <1>4, <1>5, <1>6, Sent
  <2>2. CASE t = Other("s2c")
    BY <1>5, <1>8, <2>1, <2>2 DEF Replied
  <2>3. CASE t = "s2c"
    <3>1. i \in 1..Len(sent["s2c"]) \/ i \in (Len(sent["s2c"]) + 1)..Len(sent'["s2c"])
      BY <2>1, <2>3
    <3>2. CASE i \in 1..Len(sent["s2c"])
      BY <1>2, <1>5, <1>8, <2>1, <2>3, <3>2 DEF Replied
    <3>3. CASE i \in (Len(sent["s2c"]) + 1)..Len(sent'["s2c"])
      BY <1>4, <2>1, <2>3, <3>3
    <3> QED
      BY <3>1, <3>2, <3>3
  <2> QED
    BY <1>2, <2>2, <2>3, TwoTaps
<1>11. Replied'
  BY <1>6, <1>9, <1>10 DEF Replied
<1>12. ASSUME NEW t \in Taps PROVE Faithful(t, agreed)'
  <2>1. PICK a : a = agreed
    OBVIOUS
  <2>2. Faithful(t, a)
    BY <1>8, <2>1
  <2>3. Faithful(t, a)'
    BY <1>2, <1>4, <1>5, <1>6, <2>2, SentFaithful
  <2> QED
    BY <1>6, <2>1, <2>3 DEF Faithful
<1> QED
  BY <1>6, <1>8, <1>11, <1>12

\* Before the reply, what is on record does not depend on its version.
LEMMA UnrepliedFaithful ==
  ASSUME Typed, Streams, NEW t \in Taps, NEW a, NEW v, Faithful(t, a),
         \A i \in 1..Len(sent[t]) : sent[t][i].kind = "server_head"
  PROVE  Faithful(t, v)
<1>1. PICK q \in Seq(Bytes) : q = sent[t]
  BY DEF Typed
<1>2. PICK c \in Nat : c = At(t) /\ c <= Len(q)
  <2>1. fed[t] \in Nat /\ Len(pending[t]) \in Nat /\ Len(sent[t]) \in Nat
        /\ Len(pending[t]) <= fed[t] /\ fed[t] <= Len(sent[t])
    BY DEF Typed, Streams
  <2>2. At(t) \in Nat /\ At(t) <= Len(sent[t])
    BY <2>1 DEF At
  <2> QED
    BY <1>1, <2>2
<1>3. PICK p : p = SubSeq(q, 1, c)
  OBVIOUS
<1>4. p \in Seq(Bytes) /\ Len(p) = c /\ \A i \in 1..c : p[i] = q[i]
  BY <1>2, <1>3
<1>5. \A i \in 1..Len(p) : p[i].kind # "result"
  BY <1>1, <1>2, <1>4
<1>6. NoneSession(p, a) = NoneSession(p, v)
  BY <1>4, <1>5, NoneAgreed
<1> QED
  BY <1>1, <1>2, <1>3, <1>6 DEF Faithful, Noted, Stands

\* Nor does what _run has learnt.
LEMMA UnrepliedExact ==
  ASSUME IInv, capture = "held", stage = "reply", NEW a, NEW v, Exact(scrubber, a),
         \A t \in Taps : \A i \in 1..Len(sent[t]) : sent[t][i].kind = "server_head"
  PROVE  Exact(scrubber, v)
<1>1. PICK t \in Taps : \E e, z : InRun(t, e, z) /\ (Due(e) \/ Over(t, e))
  BY DEF IInv, Follows
<1>2. PICK e, z : InRun(t, e, z) /\ (Due(e) \/ Over(t, e))
  BY <1>1
<1>3. e.step \in {"client_head", "done"}
  BY <1>2 DEF Due, Awaits, Over
<1>4. \/ scrubber = e
      \/ FieldAt(sent[t], scrubber, At(t))
  BY <1>2, ReadsTail DEF InRun
<1>5. CASE scrubber = e
  BY <1>3, <1>5 DEF Exact
<1>6. CASE FieldAt(sent[t], scrubber, At(t))
  <2>1. /\ scrubber.need > 0 /\ At(t) + scrubber.need <= Len(sent[t])
        /\ \A j \in 1..scrubber.need : sent[t][At(t) + j].kind = scrubber.step
    <3>1. scrubber.need > 0 /\ At(t) + scrubber.need <= Len(sent[t])
      BY <1>6 DEF FieldAt
    <3>2. \A j \in 1..scrubber.need : sent[t][At(t) + j].kind = scrubber.step
      BY <1>6, FieldAtKind
    <3> QED
      BY <3>1, <3>2
  <2>2. /\ scrubber.need \in Nat /\ At(t) \in Nat /\ Len(sent[t]) \in Nat
    <3>1. fed[t] \in Nat /\ Len(pending[t]) \in Nat /\ Len(pending[t]) <= fed[t]
      BY DEF IInv, Typed, Streams
    <3>2. At(t) \in Nat
      BY <3>1 DEF At
    <3> QED
      BY <3>2 DEF IInv, Typed, States
  <2>3. 1 \in 1..scrubber.need /\ At(t) + 1 \in 1..Len(sent[t])
    BY <2>1, <2>2
  <2>4. scrubber.step = "server_head"
    BY <2>1, <2>3
  <2> QED
    BY <2>4 DEF Exact
<1> QED
  BY <1>4, <1>5, <1>6

\* The client replies.
LEMMA RepliesRecords ==
  ASSUME IInv, Recorded, ClientReplies PROVE Recorded'
<1>1. PICK v \in Versions \cup {Unparsable} :
        /\ Says("c2s", "reply", Field("client_head", v, 12), "offer")
        /\ agreed' = v /\ UNCHANGED chosen
  BY DEF ClientReplies
<1>2. /\ "c2s" \in Taps /\ "client_head" \in Kinds /\ v \in Values /\ 12 \in Nat
  BY ScrubberAssumption DEF Taps, Kinds, Steps, ClientSteps, Values, Unparsable
<1>3. PICK b : b = Field("client_head", v, 12)
  OBVIOUS
<1>4. b \in Seq(Bytes) /\ Len(b) = 12 /\ \A i \in 1..Len(b) : b[i].value = v
  <2>1. /\ b \in Seq(Bytes) /\ Len(b) = 12 /\ \A i \in 1..12 : b[i] = Byte("client_head", v, i)
    BY <1>2, <1>3, FieldEach
  <2> QED
    BY <2>1 DEF Byte
<1>5. Sends("c2s", b) /\ stage = "reply" /\ stage' = "offer"
  BY <1>1, <1>2, <1>3, SaysSends
<1>6. Typed /\ Streams /\ capture' = capture /\ scrubber' = scrubber
  BY <1>5 DEF IInv, Sends
<1>7. SUFFICES ASSUME capture = "held"
               PROVE  Exact(scrubber', agreed') /\ Replied' /\ \A t \in Taps : Faithful(t, agreed)'
  BY <1>6 DEF Recorded
<1>8. Exact(scrubber, agreed) /\ Replied /\ \A t \in Taps : Faithful(t, agreed)
  BY <1>7 DEF Recorded
<1>9. \A t \in Taps : \A i \in 1..Len(sent[t]) : sent[t][i].kind = "server_head"
  BY <1>5, <1>8 DEF Replied
<1>10. Exact(scrubber, v)
  BY <1>5, <1>7, <1>8, <1>9, UnrepliedExact
<1>11. \A t \in Taps : RepliedAs(sent'[t], v)
  <2>1. \A t \in Taps : RepliedAs(sent[t], v)
    BY <1>9 DEF RepliedAs
  <2> QED
    BY <1>2, <1>4, <1>5, <1>6, <2>1, SentReplied
<1>12. Replied'
  BY <1>1, <1>5, <1>11 DEF Replied
<1>13. ASSUME NEW t \in Taps PROVE Faithful(t, agreed)'
  <2>1. PICK a : a = agreed
    OBVIOUS
  <2>2. Faithful(t, a)
    BY <1>8, <2>1
  <2>3. Faithful(t, v)
    BY <1>6, <1>9, <2>2, UnrepliedFaithful
  <2>4. Faithful(t, v)'
    BY <1>2, <1>4, <1>5, <1>6, <2>3, SentFaithful
  <2> QED
    BY <1>1, <2>4 DEF Faithful
<1> QED
  BY <1>1, <1>6, <1>10, <1>12, <1>13

\* Bytes arrive.
LEMMA DataRecords ==
  ASSUME IInv, Recorded, NEW t \in Taps, DataReceived(t) PROVE Recorded'
<1>1. PICK k \in Nat :
        /\ k > 0 /\ fed[t] + k <= Len(sent[t]) /\ capture = "held"
        /\ fed' = [fed EXCEPT ![t] = @ + k]
        /\ FeedCapture(t, SubSeq(sent[t], fed[t] + 1, fed[t] + k))
        /\ IF scrubber'.abort THEN AbortCapture ELSE UNCHANGED <<capture, stage>>
        /\ UNCHANGED <<sent, agreed, chosen>>
  BY Delivered DEF IInv
<1> DEFINE r == Feed(t, SubSeq(sent[t], fed[t] + 1, fed[t] + k))
           o == Other(t)
           n == fed[t] + k
<1>2. /\ scrubber' = r.s /\ pending' = [pending EXCEPT ![t] = r.buf]
      /\ recorded' = [recorded EXCEPT ![t] = @ \o r.out]
  BY <1>1 DEF FeedCapture
<1>3. /\ Typed /\ Streams /\ scrubber.abort = FALSE /\ Follows
      /\ Exact(scrubber, agreed) /\ Replied /\ \A u \in Taps : Faithful(u, agreed)
  BY <1>1 DEF IInv, Recorded
<1>4. /\ o \in Taps /\ o # t /\ Other(o) = t /\ \A u \in Taps : u = t \/ u = o
  BY TwoTaps
<1> HIDE DEF r, o
<1>5. /\ fed'[t] = n /\ fed'[o] = fed[o] /\ pending'[t] = r.buf /\ pending'[o] = pending[o]
      /\ recorded'[t] = recorded[t] \o r.out /\ recorded'[o] = recorded[o]
  BY <1>1, <1>2, <1>3, <1>4 DEF Typed
<1>6. At(t)' = n - Len(r.buf) /\ At(o)' = At(o)
  BY <1>5 DEF At
<1>7. PICK a : a = agreed
  OBVIOUS
<1>8. ASSUME scrubber'.preserve = scrubber.preserve, scrubber'.abort = FALSE,
             Exact(r.s, a), recorded[t] \o r.out = Noted(sent[t], n - Len(r.buf), r.s.preserve, a)
      PROVE  Recorded'
  <2>1. UNCHANGED <<stage, sent, agreed>>
    BY <1>1, <1>8
  <2>2. Exact(scrubber', agreed')
    BY <1>2, <1>7, <1>8, <2>1
  <2>3. Replied'
    BY <1>3, <2>1 DEF Replied
  <2>4. Faithful(t, agreed)'
    BY <1>2, <1>5, <1>6, <1>7, <1>8, <2>1 DEF Faithful
  <2>5. Faithful(o, agreed)'
    BY <1>3, <1>4, <1>5, <1>6, <1>8, <2>1 DEF Faithful
  <2>6. \A u \in Taps : Faithful(u, agreed)'
    BY <1>4, <2>4, <2>5
  <2> QED
    BY <2>2, <2>3, <2>6 DEF Recorded
<1>9. ASSUME scrubber'.abort = TRUE PROVE Recorded'
  BY <1>1, <1>9 DEF AbortCapture, Recorded
<1>10. RepliedAs(sent[t], a) /\ Exact(scrubber, a) /\ Faithful(t, a)
  BY <1>3, <1>7 DEF Replied
<1>11. ASSUME NEW e, NEW z, InRun(t, e, z), Due(e) \/ Over(t, e) PROVE Recorded'
  <2>1. Due(e) \/ e.step = "done"
    BY <1>11 DEF Over
  <2>2. \E y : Fed(t, e, y, fed[t] + k, r) /\ Loose(t, e, y)
    BY <1>1, <1>3, <1>11, <2>1, FeedHere DEF r
  <2>3. r.s \in States /\ r.s.preserve = scrubber.preserve
    BY <2>2 DEF Fed, Frames
  <2>4. r.s.abort = FALSE =>
          /\ Exact(r.s, a)
          /\ recorded[t] \o r.out = Noted(sent[t], (fed[t] + k) - Len(r.buf), r.s.preserve, a)
    BY <1>1, <1>3, <1>10, <1>11, <2>1, FeedHereNotes DEF r
  <2>5. r.s.abort \in BOOLEAN
    BY <2>3 DEF States
  <2> QED
    BY <1>2, <1>8, <1>9, <2>3, <2>4, <2>5
<1>12. ASSUME NEW e, NEW z, InRun(o, e, z), Due(e) \/ Over(o, e) PROVE Recorded'
  <2>1. r.s = scrubber
    BY <1>1, <1>3, <1>12, FeedThere DEF r, o
  <2>2. recorded[t] \o r.out = Noted(sent[t], (fed[t] + k) - Len(r.buf), r.s.preserve, a)
    BY <1>1, <1>3, <1>10, <1>12, FeedThereNotes DEF r, o
  <2> QED
    BY <1>2, <1>3, <1>8, <1>10, <2>1, <2>2
<1>13. PICK u \in Taps : \E e, z : InRun(u, e, z) /\ (Due(e) \/ Over(u, e))
  BY <1>3 DEF Follows
<1>14. PICK e, z : InRun(u, e, z) /\ (Due(e) \/ Over(u, e))
  BY <1>13
<1> QED
  BY <1>4, <1>11, <1>12, <1>14

\* What is consumed and what is received of direction t, as places in it.
LEMMA Places ==
  ASSUME Typed, Streams, NEW t \in Taps
  PROVE  /\ At(t) \in Nat /\ At(t) <= fed[t] /\ fed[t] \in Nat /\ fed[t] <= Len(sent[t])
         /\ Cut(sent[t], At(t), fed[t], pending[t])
         /\ (pending[t] = <<>> => At(t) = fed[t])
<1>1. /\ fed[t] \in Nat /\ Len(pending[t]) \in Nat /\ Len(sent[t]) \in Nat
      /\ Len(pending[t]) <= fed[t] /\ fed[t] <= Len(sent[t])
      /\ sent[t] \in Seq(Bytes) /\ pending[t] \in Seq(Bytes)
      /\ \A i \in 1..Len(pending[t]) : pending[t][i] = sent[t][At(t) + i]
  BY DEF Typed, Streams
<1>2. /\ At(t) \in Nat /\ At(t) <= fed[t] /\ At(t) + Len(pending[t]) = fed[t]
      /\ (Len(pending[t]) = 0 => At(t) = fed[t])
  BY <1>1 DEF At
<1>3. Cut(sent[t], At(t), fed[t], pending[t])
  BY <1>1, <1>2 DEF Cut
<1>4. pending[t] = <<>> => Len(pending[t]) = 0
  OBVIOUS
<1> QED
  BY <1>1, <1>2, <1>3, <1>4

\* Put together with what is held back, the record stands for all that was received.
LEMMA HeldBack ==
  ASSUME Typed, Streams, NEW t \in Taps, NEW a, Faithful(t, a)
  PROVE  /\ scrubber.preserve = TRUE => recorded[t] \o pending[t] = Received(t)
         /\ scrubber.preserve # TRUE =>
              /\ recorded[t] = NoneSession(Consumed(t), a)
              /\ NoneSession(Received(t), a) = recorded[t] \o NoneSession(pending[t], a)
<1>1. Cut(sent[t], At(t), fed[t], pending[t])
  BY Places
<1>2. Noted(sent[t], fed[t], scrubber.preserve, a)
      = Noted(sent[t], At(t), scrubber.preserve, a) \o Stands(pending[t], scrubber.preserve, a)
  BY <1>1, NotedMore
<1> QED
  BY <1>2 DEF Faithful, Noted, Stands, Received, Consumed, At

\* While the session lasts, the record is what it should be.
LEMMA HeldRecords ==
  ASSUME IInv, Recorded, capture = "held" PROVE RecordsSession
<1>1. Typed /\ Streams /\ scrubber.preserve \in BOOLEAN
  BY DEF IInv, Typed, States
<1>2. \A t \in Taps : Faithful(t, agreed)
  BY DEF Recorded
<1>3. ASSUME NEW t \in Taps
      PROVE  /\ scrubber.preserve = TRUE => recorded[t] \o pending[t] = Received(t)
             /\ scrubber.preserve = FALSE => recorded[t] = NoneSession(Consumed(t), agreed)
  BY <1>1, <1>2, HeldBack
<1>4. CASE scrubber.preserve = TRUE
  BY <1>3, <1>4 DEF RecordsSession
<1>5. CASE scrubber.preserve = FALSE
  BY <1>3, <1>5 DEF RecordsSession
<1> QED
  BY <1>1, <1>4, <1>5

\* A sequence is a prefix of what it begins.
LEMMA Begins ==
  \A p, q \in Seq(Bytes) : IsPrefix(p, p \o q)
<1> TAKE p, q \in Seq(Bytes)
<1>1. PICK r \in Seq(Bytes) : r = p \o q
  BY Joined
<1>2. Len(r) = Len(p) + Len(q) /\ \A i \in 1..Len(p) : r[i] = p[i]
  BY <1>1, Joined
<1>3. Len(p) \in Nat /\ Len(q) \in Nat /\ Len(p) <= Len(r)
  BY <1>2
<1>4. SubSeq(p, 1, Len(p)) = SubSeq(r, 1, Len(p))
  <2>1. PICK l \in Nat : l = Len(p) /\ l <= Len(r)
    BY <1>3
  <2>2. /\ SubSeq(p, 1, l) \in Seq(Bytes) /\ Len(SubSeq(p, 1, l)) = l
        /\ SubSeq(r, 1, l) \in Seq(Bytes) /\ Len(SubSeq(r, 1, l)) = l
        /\ \A i \in 1..l : SubSeq(p, 1, l)[i] = p[i] /\ SubSeq(r, 1, l)[i] = r[i]
    BY <2>1
  <2>3. SubSeq(p, 1, l) = SubSeq(r, 1, l)
    BY <1>2, <2>1, <2>2, SeqEqual
  <2> QED
    BY <2>1, <2>3
<1> QED
  BY <1>1, <1>3, <1>4 DEF IsPrefix

\* The archive of a session that has ended is what it should be.
LEMMA LostRecords ==
  ASSUME IInv, Recorded, capture = "held", ConnectionLost, capture' = "written"
  PROVE  RecordsSession'
<1>1. /\ recorded' = [t \in Taps |-> recorded[t] \o Flush(t)]
      /\ pending' = [t \in Taps |-> <<>>]
      /\ UNCHANGED <<scrubber, sent, fed, agreed, chosen>>
  BY DEF ConnectionLost, WriteArchive
<1>2. Typed /\ Streams /\ scrubber.preserve \in BOOLEAN
  BY DEF IInv, Typed, States
<1>3. \A t \in Taps : Faithful(t, agreed)
  BY DEF Recorded
<1>4. ASSUME NEW t \in Taps
      PROVE  /\ recorded'[t] = recorded[t] \o Flush(t) /\ pending'[t] = <<>>
             /\ Received(t)' = Received(t) /\ Consumed(t)' = Received(t)
             /\ recorded[t] \in Seq(Bytes) /\ pending[t] \in Seq(Bytes)
             /\ NoneSession(pending[t], agreed) \in Seq(Bytes)
  <2>1. recorded'[t] = recorded[t] \o Flush(t) /\ pending'[t] = <<>> /\ Len(pending'[t]) = 0
    BY <1>1
  <2>2. Received(t)' = Received(t)
    BY <1>1 DEF Received
  <2>3. fed[t] \in Nat /\ fed[t] - Len(pending'[t]) = fed[t]
    <3>1. fed[t] \in Nat
      BY <1>2 DEF Typed
    <3> QED
      BY <2>1, <3>1
  <2>4. Consumed(t)' = Received(t)
    BY <1>1, <2>3 DEF Consumed, Received
  <2>5. recorded[t] \in Seq(Bytes) /\ pending[t] \in Seq(Bytes)
    BY <1>2 DEF Typed
  <2> QED
    BY <2>1, <2>2, <2>4, <2>5, NoneBytes
<1>5. CASE scrubber.preserve = TRUE
  <2>1. ASSUME NEW t \in Taps PROVE recorded'[t] \o pending'[t] = Received(t)'
    <3>1. Flush(t) = pending[t]
      BY <1>5 DEF Flush
    <3>2. recorded[t] \o pending[t] = Received(t)
      BY <1>2, <1>3, <1>5, HeldBack
    <3>3. recorded[t] \o pending[t] \in Seq(Bytes)
      BY <1>4, Joined
    <3>4. recorded'[t] = Received(t) /\ recorded'[t] \in Seq(Bytes)
      BY <1>4, <3>1, <3>2, <3>3
    <3> QED
      BY <1>4, <3>4, ConcatEmptySeq
  <2> QED
    BY <1>1, <1>5, <2>1 DEF RecordsSession
<1>6. CASE scrubber.preserve = FALSE
  <2>1. ASSUME NEW t \in Taps
        PROVE  /\ recorded'[t] = recorded[t]
               /\ recorded[t] = NoneSession(Consumed(t), agreed)
               /\ NoneSession(Received(t), agreed) = recorded[t] \o NoneSession(pending[t], agreed)
    <3>1. Flush(t) = <<>>
      <4>1. CASE scrubber.step # "done"
        BY <1>6, <4>1 DEF Flush
      <4>2. CASE scrubber.step = "done"
        BY <4>2, NothingHeld DEF Flush
      <4> QED
        BY <4>1, <4>2
    <3>2. recorded'[t] = recorded[t]
      BY <1>4, <3>1, ConcatEmptySeq
    <3> QED
      BY <1>2, <1>3, <1>6, <3>2, HeldBack
  <2>2. CASE scrubber.step = "done"
    <3>1. ASSUME NEW t \in Taps PROVE recorded'[t] = NoneSession(Consumed(t)', agreed')
      <4>1. pending[t] = <<>>
        BY <2>2, NothingHeld
      <4>2. Consumed(t) = Received(t)
        BY <1>2, <4>1, Places DEF Consumed, Received, At
      <4> QED
        BY <1>1, <1>4, <2>1, <4>2
    <3> QED
      BY <1>1, <1>6, <2>2, <3>1 DEF RecordsSession
  <2>3. CASE scrubber.step # "done"
    <3>1. ASSUME NEW t \in Taps PROVE IsPrefix(recorded'[t], NoneSession(Received(t)', agreed'))
      <4>1. IsPrefix(recorded[t], recorded[t] \o NoneSession(pending[t], agreed))
        BY <1>4, Begins
      <4> QED
        BY <1>1, <1>4, <2>1, <4>1
    <3> QED
      BY <1>1, <1>6, <2>3, <3>1 DEF RecordsSession
  <2> QED
    BY <2>2, <2>3
<1> QED
  BY <1>2, <1>5, <1>6

\* The record of a session that lasts, and of one that is archived.
RInv == Recorded /\ (capture = "written" => RecordsSession)

\* Nothing was said, and nothing is on record.
LEMMA InitRecords ==
  Init => RInv
<1> SUFFICES ASSUME Init PROVE RInv
  OBVIOUS
<1>1. PICK p \in BOOLEAN : scrubber = Scrubber(p)
  BY DEF Init
<1>2. Exact(scrubber, agreed)
  BY <1>1 DEF Scrubber, Exact
<1>3. /\ \A t \in Taps : sent[t] = <<>> /\ pending[t] = <<>> /\ recorded[t] = <<>> /\ fed[t] = 0
      /\ capture = "held"
  BY DEF Init
<1>4. Replied
  BY <1>3 DEF Replied, RepliedAs
<1>5. ASSUME NEW t \in Taps PROVE Faithful(t, agreed)
  <2>1. At(t) = 0 /\ SubSeq(sent[t], 1, 0) = <<>>
    BY <1>3, <1>5 DEF At
  <2>2. Stands(<<>>, scrubber.preserve, agreed) = <<>>
    <3>1. <<>> \in Seq(Bytes) /\ \A i \in 1..Len(<<>>) : Plain(<<>>[i].kind)
      OBVIOUS
    <3> QED
      BY <3>1, PlainStands
  <2> QED
    BY <1>3, <2>1, <2>2 DEF Faithful, Noted
<1> QED
  BY <1>2, <1>3, <1>4, <1>5 DEF RInv, Recorded

\* The ends speak while the capture is held, and leave it so.
LEMMA EndsHeld ==
  ASSUME IInv,
         \/ ServerGreets \/ ClientReplies \/ ServerOffers \/ ServerDecides \/ ClientChooses
         \/ ServerChallenges \/ ClientAnswers \/ ServerJudges \/ ClientStarts \/ ServerStarts
         \/ \E t \in Taps : SessionByte(t)
  PROVE  capture' = "held"
<1>1. stage \notin {"closed", "lost"} /\ capture' = capture
  <2>1. CASE ServerGreets \/ ClientReplies
    BY <2>1 DEF ServerGreets, ClientReplies, Says, captureVars
  <2>2. CASE ServerOffers
    BY <2>2 DEF ServerOffers, Says, captureVars
  <2>3. CASE ServerDecides
    BY <2>3 DEF ServerDecides, Says, captureVars
  <2>4. CASE ClientChooses
    BY <2>4 DEF ClientChooses, Says, captureVars
  <2>5. CASE ServerChallenges
    BY <2>5 DEF ServerChallenges, Says, captureVars
  <2>6. CASE ClientAnswers
    BY <2>6 DEF ClientAnswers, Says, captureVars
  <2>7. CASE ServerJudges \/ ClientStarts \/ ServerStarts
    BY <2>7 DEF ServerJudges, ClientStarts, ServerStarts, Says, captureVars
  <2>8. CASE \E t \in Taps : SessionByte(t)
    BY <2>8 DEF SessionByte, captureVars
  <2> QED
    BY <2>1, <2>2, <2>3, <2>4, <2>5, <2>6, <2>7, <2>8
<1> QED
  BY <1>1 DEF IInv

\* Every step keeps the record right.
LEMMA StepRecords ==
  IInv /\ RInv /\ [Next]_vars => RInv'
<1> SUFFICES ASSUME IInv, RInv, [Next]_vars PROVE RInv'
  OBVIOUS
<1>1. Recorded
  BY DEF RInv
<1>2. ASSUME UNCHANGED <<scrubber, pending, recorded, capture, sent, fed, agreed>>,
             capture = "written"
      PROVE  RInv'
  <2>1. RecordsSession
    BY <1>2 DEF RInv
  <2>2. /\ Kept' = Kept
        /\ \A t \in Taps : Received(t)' = Received(t) /\ Consumed(t)' = Consumed(t)
    BY <1>2 DEF Kept, Received, Consumed
  <2>3. RecordsSession'
    BY <1>2, <2>1, <2>2 DEF RecordsSession
  <2> QED
    BY <1>2, <2>3 DEF RInv, Recorded
<1>3. CASE ServerGreets
  BY <1>1, <1>3, GreetsRecords, EndsHeld DEF RInv
<1>4. CASE ClientReplies
  BY <1>1, <1>4, RepliesRecords, EndsHeld DEF RInv
<1>5. CASE \/ ServerOffers \/ ServerDecides \/ ClientChooses \/ ServerChallenges \/ ClientAnswers
           \/ ServerJudges \/ ClientStarts \/ ServerStarts \/ \E t \in Taps : SessionByte(t)
  <2>1. Speaks
    BY <1>5, OfferSpeaks, ChoiceSpeaks, ExchangeSpeaks, StartSpeaks
  <2> QED
    BY <1>1, <1>5, <2>1, SpeaksRecords, EndsHeld DEF RInv
<1>6. CASE DataFromServer \/ DataFromClient
  <2>1. PICK t \in Taps : DataReceived(t)
    BY <1>6 DEF DataFromServer, DataFromClient, Taps
  <2>2. Recorded'
    BY <1>1, <2>1, DataRecords
  <2>3. capture' \in {"held", "dropped"}
    BY <2>1 DEF DataReceived, AbortCapture
  <2> QED
    BY <2>2, <2>3 DEF RInv
<1>7. CASE ConnectionLost
  <2>1. CASE capture = "held"
    <3>1. capture' # "held"
      BY <1>7, <2>1 DEF ConnectionLost, WriteArchive
    <3>2. capture' = "written" => RecordsSession'
      BY <1>1, <1>7, <2>1, LostRecords
    <3> QED
      BY <3>1, <3>2 DEF RInv, Recorded
  <2>2. CASE capture # "held"
    <3>1. UNCHANGED <<scrubber, pending, recorded, capture, sent, fed, agreed>>
      BY <1>7, <2>2 DEF ConnectionLost
    <3>2. CASE capture = "written"
      BY <1>2, <3>1, <3>2
    <3>3. CASE capture # "written"
      BY <2>2, <3>1, <3>3 DEF RInv, Recorded
    <3> QED
      BY <3>2, <3>3
  <2> QED
    BY <2>1, <2>2
<1>8. CASE UNCHANGED vars
  <2>1. UNCHANGED <<scrubber, pending, recorded, capture, sent, stage, agreed, chosen, fed>>
    BY <1>8 DEF vars, captureVars, endVars
  <2>2. Recorded'
    BY <1>1, <2>1 DEF Recorded, Exact, Replied, RepliedAs, Faithful, Noted, At
  <2> QED
    BY <1>2, <2>1, <2>2 DEF RInv
<1> QED
  BY <1>3, <1>4, <1>5, <1>6, <1>7, <1>8 DEF Next

\* A stripped capture is, direction by direction, the session that a server without
\* authentication would have had, complete up to what is held back; with
\* --capture-raw-unsafe it is the session itself and nothing is lost or changed.
THEOREM RecordFaithful ==
  Spec => []RecordsSession
<1>1. IInv /\ RInv => RecordsSession
  <2> SUFFICES ASSUME IInv, RInv PROVE RecordsSession
    OBVIOUS
  <2>1. CASE capture = "held"
    BY <2>1, HeldRecords DEF RInv
  <2>2. CASE capture = "written"
    BY <2>2 DEF RInv
  <2>3. CASE capture \notin {"held", "written"}
    BY <2>3 DEF RecordsSession, Kept
  <2> QED
    BY <2>1, <2>2, <2>3
<1>2. Spec => []RInv
  BY Invariant, InitRecords, StepRecords, PTL DEF Spec
<1> QED
  BY <1>1, <1>2, Invariant, PTL
=============================================================================
