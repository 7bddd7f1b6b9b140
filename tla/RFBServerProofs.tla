--------------------------- MODULE RFBServerProofs ---------------------------
(***************************************************************************)
(* What holds of the log that vnclog makes, whatever a client sends and    *)
(* wherever the network cuts it.                                           *)
(***************************************************************************)
EXTENDS RFBServer, TLAPS

Sorts == AllKinds \cup {"version", "security", "response", "reply", "clientInit"}

Typed ==
  /\ sent \in Seq([kind : Sorts, at : Nat, len : Nat])
  /\ todo \in Seq([kind : Sorts, len : Nat])

\* The fields of a handshake that the parser has a method for.
Fields == {Msg("version", 12), Msg("security", 1), Msg("response", 16), Msg("clientInit", 1)}
Method(kind) ==
  CASE kind = "version" -> "_handle_version" [] kind = "security" -> "_handle_security"
    [] kind = "response" -> "_handle_VNCAuthResponse" [] kind = "clientInit" -> "_handle_clientInit"

\* Where the first p messages end.
Ends(p) == IF p = 0 THEN 0 ELSE sent[p].at + sent[p].len

\* The messages follow on each other, and none is empty.
Stream ==
  /\ wire \in Nat /\ buffer \in Nat /\ chunk \in Nat /\ raised \in BOOLEAN
  /\ \A i \in 1..Len(sent) : sent[i].len > 0 /\ sent[i].at = Ends(i - 1)
  /\ \A i, j \in 1..Len(sent) : i < j => sent[i].at + sent[i].len <= sent[j].at

\* The client goes through the handshake, and then sends what it likes.
Grammatical ==
  /\ Len(todo) = IF Len(sent) <= Len(Handshake) THEN Len(Handshake) - Len(sent) ELSE 0
  /\ \A i \in 1..Len(todo) : todo[i] = Handshake[Len(sent) + i]
  /\ \A i \in 1..Len(sent) :
       IF i <= Len(Handshake) THEN Msg(sent[i].kind, sent[i].len) = Handshake[i]
                              ELSE sent[i].kind \in AllKinds /\ sent[i].len \in Lengths(sent[i].kind)

\* The parser has taken p messages: it waits for the next one, and has logged the
\* events among them.
Expects(p) ==
  IF p < Len(Handshake)
    THEN handler = Method(Handshake[p + 1].kind) /\ need = Handshake[p + 1].len
    ELSE handler = "_handle_protocol" /\ need \in 1..21
Logged(p) ==
  /\ logged \in Seq(Nat)
  /\ \A i, j \in 1..Len(logged) : i < j => logged[i] < logged[j]
  /\ {logged[i] : i \in 1..Len(logged)} = {i \in 1..p : sent[i].kind \in {"key", "pointer"}}
At(p) ==
  /\ Taken = Ends(p) /\ Expects(p) /\ Logged(p)
  /\ chunk = 0 /\ ~raised => buffer < need

InStep == Stream /\ Grammatical /\ \E p \in 0..Len(sent) : At(p)
IInv == Typed /\ (Followed => InStep)

-----------------------------------------------------------------------------
\* The handshake of any session.
LEMMA HandshakeTyped ==
  ASSUME auth \in {"none", "vnc", "ard"} PROVE Handshake \in Seq([kind : Sorts, len : Nat])
<1> DEFINE M == [kind : Sorts, len : Nat]
<1>1. /\ Msg("version", 12) \in M /\ Msg("security", 1) \in M /\ Msg("response", 16) \in M
      /\ Msg("reply", ArdReply) \in M /\ Msg("clientInit", 1) \in M
  BY ProxyAssumption DEF Msg, Sorts
<1>2. \A m \in M : <<m>> \in Seq(M)
  OBVIOUS
<1>3. \A s, t \in Seq(M) : s \o t \in Seq(M)
  OBVIOUS
<1>4. Exchange(auth) \in Seq(M)
  <2>1. CASE auth = "none"
    <3>1. Exchange(auth) = <<>>
      BY <2>1 DEF Exchange
    <3> QED
      BY <3>1
  <2>2. CASE auth = "vnc"
    <3>1. Exchange(auth) = <<Msg("response", 16)>>
      BY <2>2 DEF Exchange
    <3> QED
      BY <1>1, <1>2, <3>1
  <2>3. CASE auth = "ard"
    <3>1. Exchange(auth) = <<Msg("reply", ArdReply)>>
      BY <2>3 DEF Exchange
    <3> QED
      BY <1>1, <1>2, <3>1
  <2> QED
    BY <2>1, <2>2, <2>3
<1> HIDE DEF M
<1>5. (IF version \in {3003, 3005} THEN <<>> ELSE <<Msg("security", 1)>>) \in Seq(M)
  BY <1>1, <1>2
<1>6. Handshake \in Seq(M)
  BY <1>1, <1>2, <1>3, <1>4, <1>5 DEF Handshake
<1> QED
  BY <1>6 DEF M

\* The handshake of a session the parser has a grammar for: each field is followed by
\* the one that its handler expects.
LEMMA Grammar ==
  ASSUME Followable
  PROVE  /\ Len(Handshake) \in 2..4 /\ Handshake[1] = Msg("version", 12)
         /\ \A i \in 1..Len(Handshake) :
              /\ Handshake[i] \in Fields
              /\ Handshake[i].kind = "clientInit" <=> i = Len(Handshake)
              /\ Handshake[i].kind = "version" =>
                   IF version \in {3003, 3005}
                     THEN Handshake[i + 1] = IF passwordRequired THEN Msg("response", 16)
                                                                 ELSE Msg("clientInit", 1)
                     ELSE Handshake[i + 1] = Msg("security", 1)
              /\ Handshake[i].kind = "security" =>
                   Handshake[i + 1] = IF auth = "vnc" THEN Msg("response", 16)
                                                      ELSE Msg("clientInit", 1)
              /\ Handshake[i].kind = "response" => Handshake[i + 1] = Msg("clientInit", 1)
<1> DEFINE v == Msg("version", 12) s == Msg("security", 1)
           r == Msg("response", 16) c == Msg("clientInit", 1)
           first == <<v>>
           second == first \o (IF version \in {3003, 3005} THEN <<>> ELSE <<s>>)
           third == second \o Exchange(auth)
<1>1. Handshake = third \o <<c>>
  BY DEF Handshake
<1>2. v \in Fields /\ s \in Fields /\ r \in Fields /\ c \in Fields
  BY DEF Fields
<1> HIDE DEF v, s, r, c
<1>3. first \in Seq(Fields) /\ Len(first) = 1 /\ first[1] = v
  BY <1>2
<1> HIDE DEF first
<1>4. \A q \in Seq(Fields) : \A x \in Fields :
        /\ q \o <<>> = q
        /\ q \o <<x>> \in Seq(Fields) /\ Len(q \o <<x>>) = Len(q) + 1
        /\ Len(q) = 1 => (q \o <<x>>)[1] = q[1] /\ (q \o <<x>>)[2] = x
        /\ Len(q) = 2 => (q \o <<x>>)[1] = q[1] /\ (q \o <<x>>)[2] = q[2] /\ (q \o <<x>>)[3] = x
        /\ Len(q) = 3 => (q \o <<x>>)[1] = q[1] /\ (q \o <<x>>)[2] = q[2]
                         /\ (q \o <<x>>)[3] = q[3] /\ (q \o <<x>>)[4] = x
  OBVIOUS
<1>5. CASE version \in {3003, 3005} /\ auth = "none"
  <2>1. second \in Seq(Fields) /\ Len(second) = 1 /\ second[1] = v
    <3>1. second = first \o <<>>
      BY <1>5
    <3>2. second = first
      BY <1>2, <1>3, <3>1, <1>4
    <3> QED
      BY <1>3, <3>2
  <2> HIDE DEF second
  <2>2. third \in Seq(Fields) /\ Len(third) = 1 /\ third[1] = v
    <3>1. third = second \o <<>>
      BY <1>5 DEF Exchange
    <3>2. third = second
      BY <1>2, <2>1, <3>1, <1>4
    <3> QED
      BY <2>1, <3>2
  <2> HIDE DEF third
  <2>3. Len(Handshake) = 2 /\ Handshake[1] = v /\ Handshake[2] = c
    BY <1>1, <1>2, <2>2, <1>4
  <2> QED
    BY <1>5, <2>3 DEF Followable, Fields, Msg, v, s, r, c
<1>6. CASE version \in {3003, 3005} /\ auth = "vnc"
  <2>1. second \in Seq(Fields) /\ Len(second) = 1 /\ second[1] = v
    <3>1. second = first \o <<>>
      BY <1>6
    <3>2. second = first
      BY <1>2, <1>3, <3>1, <1>4
    <3> QED
      BY <1>3, <3>2
  <2> HIDE DEF second
  <2>2. third \in Seq(Fields) /\ Len(third) = 2 /\ third[1] = v /\ third[2] = r
    <3>1. third = second \o <<r>>
      BY <1>6 DEF Exchange, r
    <3> QED
      BY <1>2, <2>1, <3>1, <1>4
  <2> HIDE DEF third
  <2>3. Len(Handshake) = 3 /\ Handshake[1] = v /\ Handshake[2] = r /\ Handshake[3] = c
    BY <1>1, <1>2, <2>2, <1>4
  <2> QED
    BY <1>6, <2>3 DEF Followable, Fields, Msg, v, s, r, c
<1>7. CASE version \notin {3003, 3005} /\ auth = "none"
  <2>1. second \in Seq(Fields) /\ Len(second) = 2 /\ second[1] = v /\ second[2] = s
    <3>1. second = first \o <<s>>
      BY <1>7
    <3> QED
      BY <1>2, <1>3, <3>1, <1>4
  <2> HIDE DEF second
  <2>2. third \in Seq(Fields) /\ Len(third) = 2 /\ third[1] = v /\ third[2] = s
    <3>1. third = second \o <<>>
      BY <1>7 DEF Exchange
    <3>2. third = second
      BY <1>2, <2>1, <3>1, <1>4
    <3> QED
      BY <2>1, <3>2
  <2> HIDE DEF third
  <2>3. Len(Handshake) = 3 /\ Handshake[1] = v /\ Handshake[2] = s /\ Handshake[3] = c
    BY <1>1, <1>2, <2>2, <1>4
  <2> QED
    BY <1>7, <2>3 DEF Followable, Fields, Msg, v, s, r, c
<1>8. CASE version \notin {3003, 3005} /\ auth = "vnc"
  <2>1. second \in Seq(Fields) /\ Len(second) = 2 /\ second[1] = v /\ second[2] = s
    <3>1. second = first \o <<s>>
      BY <1>8
    <3> QED
      BY <1>2, <1>3, <3>1, <1>4
  <2> HIDE DEF second
  <2>2. third \in Seq(Fields) /\ Len(third) = 3 /\ third[1] = v /\ third[2] = s /\ third[3] = r
    <3>1. third = second \o <<r>>
      BY <1>8 DEF Exchange, r
    <3> QED
      BY <1>2, <2>1, <3>1, <1>4
  <2> HIDE DEF third
  <2>3. Len(Handshake) = 4 /\ Handshake[1] = v /\ Handshake[2] = s /\ Handshake[3] = r /\ Handshake[4] = c
    BY <1>1, <1>2, <2>2, <1>4
  <2> QED
    BY <1>8, <2>3 DEF Followable, Fields, Msg, v, s, r, c
<1> QED
  BY <1>5, <1>6, <1>7, <1>8 DEF Followable

\* Where messages are in the stream.
LEMMA Positions ==
  ASSUME Typed, Stream, NEW p \in 0..Len(sent)
  PROVE  /\ Len(sent) \in Nat /\ Total = Ends(Len(sent)) /\ Ends(p) \in Nat /\ Total \in Nat
         /\ \A i \in 1..Len(sent) : /\ sent[i].at \in Nat /\ sent[i].len \in Nat
                                    /\ sent[i].kind \in Sorts
         /\ p < Len(sent) => sent[p + 1].at = Ends(p) /\ Ends(p + 1) = Ends(p) + sent[p + 1].len
         /\ \A i \in 1..Len(sent) : sent[i].at + sent[i].len <= Ends(p) <=> i <= p
         /\ \A i \in 1..Len(sent) : sent[i].at = Ends(p) <=> i = p + 1
<1>1. \A S : \A s \in Seq(S) : Len(s) \in Nat /\ \A i \in 1..Len(s) : s[i] \in S
  OBVIOUS
<1>2. Len(sent) \in Nat
  BY <1>1 DEF Typed
<1>3. \A i \in 1..Len(sent) : sent[i].at \in Nat /\ sent[i].len \in Nat /\ sent[i].kind \in Sorts
  <2>1. \A i \in 1..Len(sent) : sent[i] \in [kind : Sorts, at : Nat, len : Nat]
    BY <1>1 DEF Typed
  <2> QED
    BY <2>1
<1>4. sent = <<>> <=> Len(sent) = 0
  BY DEF Typed
<1>5. Total = Ends(Len(sent))
  BY <1>2, <1>4 DEF Total, Ends
<1>6. \A q \in 0..Len(sent) : Ends(q) \in Nat
  BY <1>2, <1>3 DEF Ends
<1>7. p < Len(sent) => sent[p + 1].at = Ends(p) /\ Ends(p + 1) = Ends(p) + sent[p + 1].len
  <2>1. p < Len(sent) => p + 1 \in 1..Len(sent) /\ (p + 1) - 1 = p /\ p + 1 # 0
    BY <1>2
  <2> QED
    BY <2>1 DEF Stream, Ends
<1>8. \A i \in 1..Len(sent) : sent[i].at + sent[i].len <= Ends(p) <=> i <= p
  <2> SUFFICES ASSUME NEW i \in 1..Len(sent)
               PROVE  sent[i].at + sent[i].len <= Ends(p) <=> i <= p
    OBVIOUS
  <2>1. sent[i].at \in Nat /\ sent[i].len \in Nat /\ sent[i].len > 0
    BY <1>3 DEF Stream
  <2>2. CASE p = 0
    BY <1>2, <2>1, <2>2 DEF Ends
  <2>3. CASE p # 0
    <3>1. p \in 1..Len(sent) /\ Ends(p) = sent[p].at + sent[p].len
      BY <1>2, <2>3 DEF Ends
    <3>2. sent[p].at \in Nat /\ sent[p].len \in Nat
      BY <1>3, <3>1
    <3>3. /\ i < p => sent[i].at + sent[i].len <= sent[p].at
          /\ p < i => sent[p].at + sent[p].len <= sent[i].at
      BY <3>1 DEF Stream
    <3> QED
      BY <1>2, <2>1, <3>1, <3>2, <3>3
  <2> QED
    BY <2>2, <2>3
<1>9. \A i \in 1..Len(sent) : sent[i].at = Ends(p) <=> i = p + 1
  <2> SUFFICES ASSUME NEW i \in 1..Len(sent)
               PROVE  sent[i].at = Ends(p) <=> i = p + 1
    OBVIOUS
  <2>1. sent[i].at \in Nat /\ sent[i].len \in Nat /\ sent[i].len > 0
    BY <1>3 DEF Stream
  <2>2. i = p + 1 => sent[i].at = Ends(p)
    BY <1>2, <1>7
  <2>3. i <= p => sent[i].at # Ends(p)
    BY <1>6, <1>8, <2>1
  <2>4. i > p + 1 => sent[i].at # Ends(p)
    <3> SUFFICES ASSUME i > p + 1 PROVE sent[i].at # Ends(p)
      OBVIOUS
    <3>1. p + 1 \in 1..Len(sent) /\ p + 1 < i
      BY <1>2
    <3>2. sent[p + 1].at + sent[p + 1].len <= sent[i].at /\ sent[p + 1].len > 0
      BY <3>1 DEF Stream
    <3>3. sent[p + 1].at \in Nat /\ sent[p + 1].len \in Nat /\ sent[p + 1].at = Ends(p)
      BY <1>2, <1>3, <1>7, <3>1
    <3> QED
      BY <2>1, <3>2, <3>3
  <2> QED
    BY <1>2, <2>2, <2>3, <2>4
<1> QED
  BY <1>2, <1>3, <1>5, <1>6, <1>7, <1>8, <1>9

\* The parser is at the next message, and takes it for what it is.
LEMMA ReadsNext ==
  ASSUME Typed, Followable, Stream, Grammatical, NEW p \in 0..Len(sent), At(p), buffer > 0
  PROVE  /\ p < Len(sent) /\ Read = {p + 1}
         /\ p < Len(Handshake) => Msg(sent[p + 1].kind, sent[p + 1].len) = Handshake[p + 1]
         /\ p >= Len(Handshake) => /\ sent[p + 1].kind \in AllKinds
                                   /\ sent[p + 1].len \in Lengths(sent[p + 1].kind)
<1>1. Len(sent) \in Nat /\ Ends(p) \in Nat /\ Total = Ends(Len(sent)) /\ Total \in Nat
  BY Positions
<1>2. p # Len(sent)
  BY <1>1 DEF At, Taken, Stream
<1>3. p < Len(sent) /\ p + 1 \in 1..Len(sent)
  BY <1>1, <1>2
<1>4. Len(Handshake) \in Nat /\ \A i \in 1..Len(Handshake) : Handshake[i] \in Fields
  BY Grammar
<1>5. p < Len(Handshake) => /\ Msg(sent[p + 1].kind, sent[p + 1].len) = Handshake[p + 1]
                            /\ Handshake[p + 1] \in Fields
                            /\ sent[p + 1].kind = Handshake[p + 1].kind
  <2>1. p < Len(Handshake) => /\ Msg(sent[p + 1].kind, sent[p + 1].len) = Handshake[p + 1]
                              /\ Handshake[p + 1] \in Fields
    BY <1>3, <1>4 DEF Grammatical
  <2> QED
    BY <2>1 DEF Msg
<1>6. p >= Len(Handshake) => /\ sent[p + 1].kind \in AllKinds
                             /\ sent[p + 1].len \in Lengths(sent[p + 1].kind)
  BY <1>3, <1>4 DEF Grammatical
<1>7. \A i \in 1..Len(sent) : sent[i].at = Taken <=> i = p + 1
  BY Positions DEF At
<1>8. CASE handler = Method(sent[p + 1].kind) /\ p < Len(Handshake)
  <2>1. Handshake[p + 1].kind \in {"version", "security", "response", "clientInit"}
    BY <1>5, <1>8 DEF Fields, Msg
  <2>2. p + 1 \in Read
    BY <1>3, <1>5, <1>7, <1>8, <2>1 DEF Read, Method
  <2>3. Read \subseteq {p + 1}
    BY <1>7 DEF Read
  <2> QED
    BY <1>3, <1>5, <1>6, <2>2, <2>3
<1>9. CASE handler = "_handle_protocol" /\ p >= Len(Handshake)
  <2>1. p + 1 \in Read
    BY <1>3, <1>6, <1>7, <1>9 DEF Read
  <2>2. Read \subseteq {p + 1}
    BY <1>7 DEF Read
  <2>3. ~(p < Len(Handshake))
    BY <1>4, <1>9
  <2> QED
    BY <1>3, <1>6, <2>1, <2>2, <2>3
<1> QED
  BY <1>4, <1>5, <1>8, <1>9 DEF At, Expects

\* The parser never waits for more than one byte beyond the longest message.
LEMMA Waits == ASSUME Followable, NEW p \in Nat, Expects(p) PROVE need \in 1..21
<1>1. CASE p < Len(Handshake)
  <2>1. p + 1 \in 1..Len(Handshake)
    BY <1>1, Grammar
  <2>2. Handshake[p + 1] \in Fields
    BY <2>1, Grammar
  <2>3. need = Handshake[p + 1].len
    BY <1>1 DEF Expects
  <2>4. Handshake[p + 1].len \in {12, 1, 16}
    BY <2>2 DEF Fields, Msg
  <2> QED
    BY <2>3, <2>4
<1>2. CASE ~(p < Len(Handshake))
  BY <1>2 DEF Expects
<1> QED
  BY <1>1, <1>2

-----------------------------------------------------------------------------
(* The client.                                                             *)

\* A message of the session is not empty.
LEMMA MessageLengths ==
  ASSUME NEW kind \in AllKinds, NEW len \in Lengths(kind)
  PROVE  len \in Nat /\ len > 0
<1>1. CASE kind = "setEncodings"
  <2>1. PICK n \in 0..MaxEncodings : len = 4 + 4 * n
    BY <1>1 DEF Lengths
  <2> QED
    BY <2>1, ProxyAssumption
<1>2. CASE kind # "setEncodings"
  BY <1>2 DEF Lengths, AllKinds
<1> QED
  BY <1>1, <1>2

\* What is sent is behind what was sent before.
LEMMA Appends ==
  ASSUME Typed, NEW m \in [kind : Sorts, len : Nat], Send(m)
  PROVE  /\ sent' \in Seq([kind : Sorts, at : Nat, len : Nat])
         /\ Len(sent) \in Nat /\ Len(sent') = Len(sent) + 1
         /\ \A i \in 1..Len(sent) : sent'[i] = sent[i]
         /\ sent'[Len(sent) + 1].kind = m.kind /\ sent'[Len(sent) + 1].len = m.len
         /\ sent'[Len(sent) + 1].at = Total
         /\ Total \in Nat /\ Total' = Total + m.len
<1> DEFINE r == [kind |-> m.kind, at |-> Total, len |-> m.len]
<1>1. Total \in Nat
  <2>1. CASE sent = <<>>
    BY <2>1 DEF Total
  <2>2. CASE sent # <<>>
    <3>1. sent[Len(sent)] \in [kind : Sorts, at : Nat, len : Nat]
      <4>1. \A S : \A s \in Seq(S) : s # <<>> => s[Len(s)] \in S
        OBVIOUS
      <4> QED
        BY <2>2, <4>1 DEF Typed
    <3> QED
      BY <2>2, <3>1 DEF Total
  <2> QED
    BY <2>1, <2>2
<1>2. r \in [kind : Sorts, at : Nat, len : Nat]
  BY <1>1
<1>3. r.kind = m.kind /\ r.at = Total /\ r.len = m.len
  OBVIOUS
<1>4. sent' = Append(sent, r)
  BY DEF Send
<1> HIDE DEF r
<1>5. /\ sent' \in Seq([kind : Sorts, at : Nat, len : Nat])
      /\ Len(sent) \in Nat /\ Len(sent') = Len(sent) + 1
      /\ \A i \in 1..Len(sent) : sent'[i] = sent[i]
      /\ sent'[Len(sent) + 1] = r
  BY <1>2, <1>4 DEF Typed
<1>6. Total' = Total + m.len
  <2>1. sent' # <<>>
    BY <1>5
  <2> QED
    BY <1>3, <1>5, <2>1 DEF Total
<1> QED
  BY <1>1, <1>3, <1>5, <1>6

\* The parser does not move when the client sends a message that follows the
\* handshake, or comes next in it.
LEMMA SendKeeps ==
  ASSUME Typed, InStep, Followable, NEW m \in [kind : Sorts, len : Nat], Send(m), m.len > 0,
         Grammatical'
  PROVE  InStep'
<1>1. Len(sent) \in Nat /\ Len(sent) \in 0..Len(sent)
  BY DEF Typed
<1>2. PICK p \in 0..Len(sent) : At(p)
  BY DEF InStep
<1>3. /\ Total = Ends(Len(sent)) /\ Ends(p) \in Nat
      /\ \A i \in 1..Len(sent) : sent[i].at + sent[i].len <= Ends(Len(sent))
      /\ \A i \in 1..Len(sent) : sent[i].at \in Nat /\ sent[i].len \in Nat
  <2>1. \A i \in 1..Len(sent) : sent[i].at + sent[i].len <= Ends(Len(sent)) <=> i <= Len(sent)
    BY <1>1, Positions DEF InStep
  <2> QED
    BY <1>1, <2>1, Positions DEF InStep
<1>4. /\ UNCHANGED <<version, auth, passwordRequired, buffer, handler, need, chunk, raised, logged>>
      /\ wire' = wire + m.len
  BY DEF Send
<1>5. \A q \in 0..Len(sent) : Ends(q)' = Ends(q)
  BY <1>1, Appends DEF Ends
<1>6. Stream'
  <2>1. /\ wire' \in Nat /\ buffer' \in Nat /\ chunk' \in Nat /\ raised' \in BOOLEAN
    BY <1>4 DEF InStep, Stream
  <2>2. ASSUME NEW i \in 1..Len(sent')
        PROVE  sent'[i].len > 0 /\ sent'[i].at = Ends(i - 1)'
    <3>1. CASE i \in 1..Len(sent)
      <4>1. i - 1 \in 0..Len(sent)
        BY <1>1, <3>1
      <4>2. sent'[i] = sent[i] /\ sent[i].len > 0 /\ sent[i].at = Ends(i - 1)
        BY <3>1, Appends DEF InStep, Stream
      <4> QED
        BY <1>5, <4>1, <4>2
    <3>2. CASE i = Len(sent) + 1
      <4>1. i - 1 = Len(sent)
        BY <1>1, <3>2
      <4> QED
        BY <1>1, <1>3, <1>5, <3>2, <4>1, Appends
    <3>3. Len(sent') = Len(sent) + 1
      BY Appends
    <3>4. i \in 1..Len(sent) \/ i = Len(sent) + 1
      BY <1>1, <3>3
    <3> QED
      BY <3>1, <3>2, <3>4
  <2>3. ASSUME NEW i \in 1..Len(sent'), NEW j \in 1..Len(sent'), i < j
        PROVE  sent'[i].at + sent'[i].len <= sent'[j].at
    <3>1. i \in 1..Len(sent) /\ (j \in 1..Len(sent) \/ j = Len(sent) + 1)
      <4>1. Len(sent') = Len(sent) + 1
        BY Appends
      <4> QED
        BY <1>1, <2>3, <4>1
    <3>2. CASE j \in 1..Len(sent)
      BY <2>3, <3>1, <3>2, Appends DEF InStep, Stream
    <3>3. CASE j = Len(sent) + 1
      BY <1>3, <3>1, <3>3, Appends
    <3> QED
      BY <1>1, <3>1, <3>2, <3>3
  <2> QED
    BY <2>1, <2>2, <2>3 DEF Stream
<1>7. Handshake' = Handshake
  BY <1>4 DEF Handshake
<1>8. At(p)'
  <2>1. (Taken = Ends(p))'
    <3>1. Taken' = Taken
      BY <1>4, Appends DEF Taken, InStep, Stream
    <3> QED
      BY <1>2, <1>5, <3>1 DEF At
  <2>2. Expects(p)'
    BY <1>2, <1>4, <1>7 DEF At, Expects
  <2>3. Logged(p)'
    <3>1. \A i \in 1..p : sent'[i] = sent[i]
      <4>1. \A i \in 1..p : i \in 1..Len(sent)
        BY <1>1
      <4>2. \A i \in 1..Len(sent) : sent'[i] = sent[i]
        BY Appends
      <4> QED
        BY <4>1, <4>2
    <3> QED
      BY <1>2, <1>4, <3>1 DEF At, Logged
  <2> QED
    BY <1>2, <1>4, <2>1, <2>2, <2>3 DEF At
<1>9. p \in 0..Len(sent')
  BY <1>1, Appends
<1> QED
  BY <1>6, <1>8, <1>9 DEF InStep

\* The client takes a step.
LEMMA ClientSteps ==
  ASSUME IInv, ClientHandshakes \/ ClientSends
  PROVE  IInv' /\ (Followed' => Followed)
<1> DEFINE M == [kind : Sorts, len : Nat]
<1>0. \A S : \A s \in Seq(S) : s # <<>> => Head(s) \in S /\ Tail(s) \in Seq(S)
  OBVIOUS
<1>1. PICK m \in M :
        /\ Send(m)
        /\ \/ todo # <<>> /\ m = Head(todo) /\ todo' = Tail(todo)
           \/ /\ todo = <<>> /\ todo' = todo
              /\ m.kind \in AllKinds /\ m.len \in Lengths(m.kind)
  <2>1. CASE ClientHandshakes
    <3>1. todo # <<>> => Head(todo) \in M
      BY <1>0 DEF IInv, Typed
    <3> QED
      BY <2>1, <3>1 DEF ClientHandshakes
  <2>2. CASE ClientSends
    <3>1. PICK kind \in Kinds : \E len \in Lengths(kind) : Send(Msg(kind, len))
      BY <2>2 DEF ClientSends
    <3>2. PICK len \in Lengths(kind) : Send(Msg(kind, len))
      BY <3>1
    <3>3. kind \in AllKinds /\ len \in Nat
      BY ProxyAssumption, MessageLengths
    <3>4. Msg(kind, len) \in M /\ Msg(kind, len).kind = kind /\ Msg(kind, len).len = len
      BY <3>3 DEF Msg, Sorts
    <3> QED
      BY <2>2, <3>2, <3>3, <3>4 DEF ClientSends
  <2> QED
    BY <2>1, <2>2
<1>2. Typed'
  <2>1. todo' \in Seq(M)
    BY <1>0, <1>1 DEF IInv, Typed
  <2> QED
    BY <1>1, <2>1, Appends DEF IInv, Typed
<1>3. /\ Len(sent) \in Nat /\ Len(sent') = Len(sent) + 1
      /\ \A i \in 1..Len(sent) : sent'[i] = sent[i]
      /\ sent'[Len(sent) + 1].kind = m.kind /\ sent'[Len(sent) + 1].len = m.len
  BY <1>1, Appends DEF IInv
<1>4. UNCHANGED <<version, auth, passwordRequired, errors>>
  BY <1>1 DEF Send
<1>5. Followed' => Followed
  <2> SUFFICES ASSUME Followed' PROVE Followed
    OBVIOUS
  <2>1. \A i \in 1..Len(sent) : sent[i].kind \notin {"qemu", "cutText", "unknown"}
    BY <1>3 DEF Followed, Followable
  <2> QED
    BY <1>4, <2>1 DEF Followed, Followable
<1>6. ASSUME Followed'
      PROVE  InStep'
  <2>1. Followable /\ InStep
    BY <1>5, <1>6 DEF IInv, Followed
  <2>2. Handshake' = Handshake
    BY <1>4 DEF Handshake
  <2>3. Len(Handshake) \in Nat /\ \A i \in 1..Len(Handshake) : Handshake[i] \in Fields
    BY <2>1, Grammar
  <2>4. /\ Len(todo) = IF Len(sent) <= Len(Handshake) THEN Len(Handshake) - Len(sent) ELSE 0
        /\ \A i \in 1..Len(todo) : todo[i] = Handshake[Len(sent) + i]
    BY <2>1 DEF InStep, Grammatical
  <2>5. CASE todo # <<>> /\ m = Head(todo) /\ todo' = Tail(todo)
    <3>1. /\ Len(todo) \in Nat /\ Len(todo) > 0 /\ m = todo[1] /\ Len(todo') = Len(todo) - 1
          /\ \A i \in 1..Len(todo') : todo'[i] = todo[i + 1]
      BY <2>5 DEF IInv, Typed
    <3>2. Len(sent) < Len(Handshake) /\ m = Handshake[Len(sent) + 1]
      BY <1>3, <2>3, <2>4, <3>1
    <3>3. Len(todo') = Len(Handshake) - Len(sent')
      BY <1>3, <2>3, <2>4, <3>1, <3>2
    <3>4. \A i \in 1..Len(todo') : todo'[i] = Handshake[Len(sent') + i]
      <4> SUFFICES ASSUME NEW i \in 1..Len(todo') PROVE todo'[i] = Handshake[Len(sent') + i]
        OBVIOUS
      <4>1. i + 1 \in 1..Len(todo) /\ Len(sent) + (i + 1) = Len(sent') + i
        BY <1>3, <3>1
      <4> QED
        BY <2>4, <3>1, <4>1
    <3>5. Len(sent) + 1 \in 1..Len(Handshake) /\ m \in Fields
      BY <1>3, <2>3, <3>2
    <3>6. Msg(m.kind, m.len) = m /\ m.len > 0
      BY <3>5 DEF Fields, Msg
    <3>7. ASSUME NEW i \in 1..Len(sent')
          PROVE  i <= Len(Handshake) /\ Msg(sent'[i].kind, sent'[i].len) = Handshake[i]
      <4>1. CASE i \in 1..Len(sent)
        <5>1. i <= Len(Handshake)
          BY <1>3, <2>3, <3>2, <4>1
        <5> QED
          BY <1>3, <2>1, <4>1, <5>1 DEF InStep, Grammatical
      <4>2. CASE i = Len(sent) + 1
        BY <1>3, <3>2, <3>5, <3>6, <4>2
      <4> QED
        BY <1>3, <4>1, <4>2
    <3>8. Grammatical'
      <4>1. Len(sent') <= Len(Handshake)
        BY <1>3, <2>3, <3>2
      <4> QED
        BY <2>2, <3>3, <3>4, <3>7, <4>1 DEF Grammatical
    <3> QED
      BY <1>1, <2>1, <3>6, <3>8, SendKeeps DEF IInv
  <2>6. CASE /\ todo = <<>> /\ todo' = todo
             /\ m.kind \in AllKinds /\ m.len \in Lengths(m.kind)
    <3>1. Len(todo) = 0 /\ Len(todo') = 0
      BY <2>6
    <3>2. Len(sent) >= Len(Handshake)
      BY <1>3, <2>3, <2>4, <3>1
    <3>3. ASSUME NEW i \in 1..Len(sent')
          PROVE  IF i <= Len(Handshake)
                   THEN Msg(sent'[i].kind, sent'[i].len) = Handshake[i]
                   ELSE sent'[i].kind \in AllKinds /\ sent'[i].len \in Lengths(sent'[i].kind)
      <4>1. CASE i \in 1..Len(sent)
        BY <1>3, <2>1, <4>1 DEF InStep, Grammatical
      <4>2. CASE i = Len(sent) + 1
        BY <1>3, <2>3, <2>6, <3>2, <4>2
      <4> QED
        BY <1>3, <4>1, <4>2
    <3>4. Grammatical'
      <4>1. ~(Len(sent') <= Len(Handshake))
        BY <1>3, <2>3, <3>2
      <4>2. \A i \in 1..Len(todo') : FALSE
        BY <3>1
      <4> QED
        BY <2>2, <3>1, <3>3, <4>1, <4>2 DEF Grammatical
    <3>5. m.len > 0
      BY <2>6, MessageLengths
    <3> QED
      BY <1>1, <2>1, <3>4, <3>5, SendKeeps DEF IInv
  <2> QED
    BY <1>1, <2>5, <2>6
<1> QED
  BY <1>2, <1>5, <1>6 DEF IInv

-----------------------------------------------------------------------------
(* The parser.                                                             *)

\* A message that is no event adds nothing to the log.
LEMMA LogKept ==
  ASSUME NEW p \in Nat, Logged(p), UNCHANGED <<sent, logged>>,
         sent[p + 1].kind \notin {"key", "pointer"}
  PROVE  Logged(p + 1)'
<1>1. {i \in 1..(p + 1) : sent[i].kind \in {"key", "pointer"}}
        = {i \in 1..p : sent[i].kind \in {"key", "pointer"}}
  OBVIOUS
<1> QED
  BY <1>1 DEF Logged

\* An event goes to the end of the log.
LEMMA LogGrows ==
  ASSUME NEW p \in Nat, Logged(p), UNCHANGED sent, logged' = Append(logged, p + 1),
         sent[p + 1].kind \in {"key", "pointer"}
  PROVE  Logged(p + 1)'
<1>1. /\ logged' \in Seq(Nat) /\ Len(logged) \in Nat /\ Len(logged') = Len(logged) + 1
      /\ \A i \in 1..Len(logged) : logged'[i] = logged[i]
      /\ logged'[Len(logged) + 1] = p + 1
      /\ \A i \in 1..Len(logged) : logged[i] \in Nat
  BY DEF Logged
<1>2. \A i \in 1..Len(logged) : logged[i] <= p
  <2>1. \A i \in 1..Len(logged) : logged[i] \in {logged[j] : j \in 1..Len(logged)}
    OBVIOUS
  <2> QED
    BY <2>1 DEF Logged
<1>3. ASSUME NEW i \in 1..Len(logged'), NEW j \in 1..Len(logged'), i < j
      PROVE  logged'[i] < logged'[j]
  <2>1. i \in 1..Len(logged) /\ (j \in 1..Len(logged) \/ j = Len(logged) + 1)
    <3>1. Len(logged) \in Nat /\ Len(logged') = Len(logged) + 1
      BY <1>1
    <3> QED
      BY <1>3, <3>1
  <2>2. CASE j \in 1..Len(logged)
    <3>1. logged[i] < logged[j]
      BY <1>3, <2>1, <2>2 DEF Logged
    <3> QED
      BY <1>1, <2>1, <2>2, <3>1
  <2>3. CASE j = Len(logged) + 1
    <3>1. logged'[i] = logged[i] /\ logged[i] \in Nat /\ logged[i] <= p /\ logged'[j] = p + 1
      BY <1>1, <1>2, <2>1, <2>3
    <3> QED
      BY <3>1
  <2> QED
    BY <2>1, <2>2, <2>3
<1>4. {logged'[i] : i \in 1..Len(logged')} = {logged[i] : i \in 1..Len(logged)} \cup {p + 1}
  <2>1. 1..Len(logged') = 1..Len(logged) \cup {Len(logged) + 1}
    BY <1>1
  <2>2. ASSUME NEW x
        PROVE  (\E i \in 1..Len(logged') : x = logged'[i])
                 <=> (\E i \in 1..Len(logged) : x = logged[i]) \/ x = p + 1
    <3>1. CASE x = p + 1
      BY <1>1, <2>1, <3>1
    <3>2. CASE x # p + 1
      BY <1>1, <2>1, <3>2
    <3> QED
      BY <3>1, <3>2
  <2> QED
    BY <2>2
<1>5. {i \in 1..(p + 1) : sent[i].kind \in {"key", "pointer"}}
        = {i \in 1..p : sent[i].kind \in {"key", "pointer"}} \cup {p + 1}
  OBVIOUS
<1> QED
  BY <1>1, <1>3, <1>4, <1>5 DEF Logged

\* The next message is taken from the buffer.
LEMMA MessageTaken ==
  ASSUME Typed, Stream, Grammatical, NEW p \in 0..Len(sent), Taken = Ends(p), p < Len(sent),
         UNCHANGED <<client, wire>>, chunk' \in Nat, raised' \in BOOLEAN, chunk' = 0 => raised',
         buffer >= sent[p + 1].len, buffer' = buffer - sent[p + 1].len,
         Expects(p + 1)', Logged(p + 1)'
  PROVE  InStep'
<1>1. UNCHANGED <<version, auth, passwordRequired, todo, sent>>
  BY DEF client
<1>2. /\ Len(sent) \in Nat /\ Ends(p + 1) = Ends(p) + sent[p + 1].len /\ Total \in Nat
      /\ sent[p + 1].len \in Nat
  <2>1. Len(sent) \in Nat
    BY Positions
  <2>2. p + 1 \in 1..Len(sent)
    BY <2>1
  <2> QED
    BY <2>1, <2>2, Positions
<1>3. buffer' \in Nat
  BY <1>2 DEF Stream
<1>4. Stream'
  BY <1>1, <1>3 DEF Stream, Ends
<1>5. Grammatical'
  <2>1. Handshake' = Handshake
    BY <1>1 DEF Handshake
  <2> QED
    BY <1>1, <2>1 DEF Grammatical
<1>6. Taken' = Taken + sent[p + 1].len
  <2>1. Total' = Total /\ wire' = wire
    BY <1>1 DEF Total
  <2>2. wire \in Nat /\ buffer \in Nat
    BY DEF Stream
  <2> QED
    BY <1>2, <2>1, <2>2 DEF Taken
<1>7. Ends(p + 1)' = Ends(p + 1)
  BY <1>1 DEF Ends
<1>8. At(p + 1)'
  BY <1>2, <1>6, <1>7 DEF At
<1>9. p + 1 \in 0..Len(sent')
  BY <1>1, <1>2
<1> QED
  BY <1>4, <1>5, <1>8, <1>9 DEF InStep

\* A field of the handshake is read by its own method, which expects the next one.
LEMMA HandshakeSteps ==
  ASSUME Typed, Followable, InStep,
         HandleVersion \/ HandleSecurity \/ HandleVNCAuthResponse \/ HandleClientInit
  PROVE  InStep'
<1>1. PICK p \in 0..Len(sent) : At(p)
  BY DEF InStep
<1>2. /\ handler \in {"_handle_version", "_handle_security", "_handle_VNCAuthResponse",
                      "_handle_clientInit"}
      /\ chunk > 0 /\ buffer >= need
      /\ UNCHANGED <<client, wire, chunk, raised, errors, logged>>
  BY DEF HandleVersion, HandleSecurity, HandleVNCAuthResponse, HandleClientInit, Calls, Loops,
         Returns
<1>3. p < Len(Handshake) /\ handler = Method(Handshake[p + 1].kind) /\ need = Handshake[p + 1].len
  BY <1>1, <1>2 DEF At, Expects
<1>4. Len(Handshake) \in Nat /\ p + 1 \in 1..Len(Handshake) /\ Handshake[p + 1] \in Fields
  BY <1>3, Grammar
<1>5. need \in Nat /\ need > 0
  BY <1>3, <1>4 DEF Fields, Msg
<1>6. /\ p < Len(sent) /\ sent[p + 1].kind = Handshake[p + 1].kind /\ sent[p + 1].len = need
  <2>1. buffer > 0
    BY <1>2, <1>5 DEF InStep, Stream
  <2>2. p < Len(sent) /\ Msg(sent[p + 1].kind, sent[p + 1].len) = Handshake[p + 1]
    BY <1>1, <1>3, <2>1, ReadsNext DEF InStep
  <2> QED
    BY <1>3, <2>2 DEF Msg
<1>7. Handshake' = Handshake
  BY <1>2 DEF client, Handshake
<1> DEFINE k == Handshake[p + 1].kind
<1>8. /\ HandleVersion => k = "version" /\ need = 12
      /\ HandleSecurity => k = "security" /\ need = 1
      /\ HandleVNCAuthResponse => k = "response" /\ need = 16
      /\ HandleClientInit => k = "clientInit" /\ need = 1
  BY <1>3, <1>4 DEF Fields, Msg, Method, HandleVersion, HandleSecurity, HandleVNCAuthResponse,
                    HandleClientInit, Calls
<1>9. buffer' = buffer - need
  BY <1>8 DEF HandleVersion, HandleSecurity, HandleVNCAuthResponse, HandleClientInit
<1>10. /\ k = "clientInit" <=> p + 1 = Len(Handshake)
       /\ k = "version" =>
            IF version \in {3003, 3005}
              THEN Handshake[p + 1 + 1] = IF passwordRequired THEN Msg("response", 16)
                                                             ELSE Msg("clientInit", 1)
              ELSE Handshake[p + 1 + 1] = Msg("security", 1)
       /\ k = "security" =>
            Handshake[p + 1 + 1] = IF auth = "vnc" THEN Msg("response", 16)
                                                  ELSE Msg("clientInit", 1)
       /\ k = "response" => Handshake[p + 1 + 1] = Msg("clientInit", 1)
  BY <1>4, Grammar
<1>11. Expects(p + 1)'
  <2>1. CASE HandleClientInit
    <3>1. ~(p + 1 < Len(Handshake)) /\ handler' = "_handle_protocol" /\ need' = 1
      BY <1>4, <1>8, <1>10, <2>1 DEF HandleClientInit, Expect
    <3> QED
      BY <1>7, <3>1 DEF Expects
  <2>2. CASE HandleVersion \/ HandleSecurity \/ HandleVNCAuthResponse
    <3>1. p + 1 < Len(Handshake)
      BY <1>3, <1>4, <1>8, <1>10, <2>2
    <3>2. handler' = Method(Handshake[p + 1 + 1].kind) /\ need' = Handshake[p + 1 + 1].len
      <4>1. CASE HandleVersion
        BY <1>8, <1>10, <4>1 DEF HandleVersion, Expect, Followable, Method, Msg
      <4>2. CASE HandleSecurity
        BY <1>8, <1>10, <4>2 DEF HandleSecurity, Expect, Method, Msg
      <4>3. CASE HandleVNCAuthResponse
        BY <1>8, <1>10, <4>3 DEF HandleVNCAuthResponse, Expect, Method, Msg
      <4> QED
        BY <2>2, <4>1, <4>2, <4>3
    <3> QED
      BY <1>7, <3>1, <3>2 DEF Expects
  <2> QED
    BY <2>1, <2>2
<1>12. Logged(p + 1)'
  <2>1. sent[p + 1].kind \notin {"key", "pointer"}
    BY <1>4, <1>6 DEF Fields, Msg
  <2>2. p \in Nat /\ Logged(p)
    BY <1>1 DEF At
  <2> QED
    BY <1>2, <2>1, <2>2, LogKept DEF client
<1>13. /\ chunk' \in Nat /\ raised' \in BOOLEAN /\ chunk' # 0
       /\ buffer >= sent[p + 1].len /\ buffer' = buffer - sent[p + 1].len
       /\ Taken = Ends(p)
  BY <1>1, <1>2, <1>6, <1>9 DEF InStep, Stream, At
<1> QED
  BY <1>2, <1>6, <1>11, <1>12, <1>13, MessageTaken DEF InStep

\* A message after the handshake is taken when all of it is there, or waited for.
LEMMA ProtocolSteps ==
  ASSUME Typed, Followable, InStep, "setEncodings" \notin errors',
         \/ \E type \in Types : Incomplete(type) \/ PlainMessage(type) \/ Event(type)
         \/ SetEncodings \/ Qemu \/ UnknownType \/ ClientCutText
  PROVE  InStep'
<1>1. PICK p \in 0..Len(sent) : At(p)
  BY DEF InStep
<1>2. PICK type \in Types : Protocol(type)
  BY DEF Types, AllKinds, Incomplete, PlainMessage, Event, SetEncodings, Qemu, UnknownType,
         ClientCutText, Complete
<1>3. handler = "_handle_protocol" /\ chunk > 0 /\ buffer >= need
  BY <1>2 DEF Protocol, Calls, Loops
<1>4. Len(Handshake) \in Nat /\ \A i \in 1..Len(Handshake) : Handshake[i] \in Fields
  BY Grammar
<1>5. p >= Len(Handshake) /\ need \in 1..21
  <2>1. ASSUME p < Len(Handshake) PROVE FALSE
    <3>1. Handshake[p + 1] \in Fields /\ handler = Method(Handshake[p + 1].kind)
      BY <1>1, <1>4, <2>1 DEF At, Expects
    <3> QED
      BY <1>3, <3>1 DEF Fields, Msg, Method
  <2> QED
    BY <1>1, <1>4, <2>1 DEF At, Expects
<1>6. /\ p < Len(sent) /\ Read = {p + 1} /\ sent[p + 1].kind \in AllKinds
      /\ sent[p + 1].len \in Lengths(sent[p + 1].kind)
  <2>1. buffer > 0
    <3>1. buffer \in Nat
      BY DEF InStep, Stream
    <3> QED
      BY <1>3, <1>5, <3>1
  <2> QED
    BY <1>1, <1>5, <2>1, ReadsNext DEF InStep
<1> DEFINE k == sent[p + 1].kind
<1>7. \A t : Protocol(t) => t = IF k = "highKey" THEN "key" ELSE k
  BY <1>6 DEF Protocol
<1>8. k \in {"setPixelFormat", "setEncodings", "update", "key", "highKey", "pointer"}
  <2>1. p + 1 \in 1..Len(sent)
    BY <1>6, Positions DEF InStep
  <2> QED
    BY <1>6, <2>1 DEF AllKinds, Followable
<1>9. \A t : Protocol(t) /\ k # "setEncodings" => TypeLen(t) = sent[p + 1].len
  BY <1>6, <1>7, <1>8 DEF TypeLen, Lengths
<1>10. ~Qemu /\ ~UnknownType /\ ~ClientCutText
  BY <1>7, <1>8 DEF Qemu, UnknownType, ClientCutText, Complete
<1>11. p \in Nat /\ Taken = Ends(p) /\ Logged(p)
  BY <1>1 DEF At
<1>12. ASSUME UNCHANGED <<client, wire, handler, need>>, chunk' \in Nat, raised' \in BOOLEAN,
              chunk' = 0 => raised', buffer >= sent[p + 1].len,
              buffer' = buffer - sent[p + 1].len, Logged(p + 1)'
       PROVE  InStep'
  <2>1. Handshake' = Handshake
    BY <1>12 DEF client, Handshake
  <2>2. Expects(p + 1)'
    BY <1>3, <1>4, <1>5, <1>12, <2>1 DEF Expects
  <2> QED
    BY <1>6, <1>11, <1>12, <2>2, MessageTaken DEF InStep
<1>13. ASSUME UNCHANGED <<sent, logged>>, k \notin {"key", "pointer"}
       PROVE  Logged(p + 1)'
  BY <1>11, <1>13, LogKept
<1>14. chunk \in Nat /\ raised \in BOOLEAN /\ chunk # 0 /\ buffer \in Nat
  BY <1>3 DEF InStep, Stream
<1>15. CASE \E t \in Types : Incomplete(t)
  <2>1. PICK t \in Types : Incomplete(t)
    BY <1>15
  <2>2. /\ UNCHANGED <<client, wire, chunk, raised, buffer, logged>>
        /\ handler' = "_handle_protocol" /\ need' = TypeLen(t) + 1
    BY <2>1 DEF Incomplete, Expect, Returns
  <2>3. UNCHANGED <<version, auth, passwordRequired, todo, sent>>
    BY <2>2 DEF client
  <2>4. Handshake' = Handshake
    BY <2>3 DEF Handshake
  <2>5. need' \in 1..21
    BY <2>2 DEF TypeLen
  <2>6. At(p)'
    <3>1. Taken' = Taken /\ Ends(p)' = Ends(p)
      BY <2>2, <2>3 DEF Taken, Total, Ends
    <3>2. Expects(p)'
      BY <1>4, <1>5, <2>2, <2>4, <2>5 DEF Expects
    <3>3. Logged(p)'
      BY <1>11, <2>2, <2>3 DEF Logged
    <3> QED
      BY <1>11, <1>14, <2>2, <3>1, <3>2, <3>3 DEF At
  <2>7. Stream' /\ Grammatical'
    BY <2>2, <2>3, <2>4 DEF InStep, Stream, Grammatical, Ends
  <2> QED
    BY <2>3, <2>6, <2>7 DEF InStep
<1>16. CASE \E t \in Types : PlainMessage(t)
  <2>1. PICK t \in Types : PlainMessage(t)
    BY <1>16
  <2>2. Protocol(t) /\ t \in {"setPixelFormat", "update"}
    BY <2>1 DEF PlainMessage, Complete
  <2>3. k \in {"setPixelFormat", "update"} /\ TypeLen(t) = sent[p + 1].len
    BY <1>7, <1>9, <2>2
  <2>4. /\ UNCHANGED <<client, wire, handler, need, chunk, raised, logged, sent>>
        /\ buffer >= sent[p + 1].len /\ buffer' = buffer - sent[p + 1].len
    BY <2>1, <2>3 DEF PlainMessage, Complete, Returns, client
  <2> QED
    BY <1>12, <1>13, <1>14, <2>3, <2>4
<1>17. CASE SetEncodings
  <2>1. k = "setEncodings"
    BY <1>7, <1>17 DEF SetEncodings
  <2>2. /\ UNCHANGED <<client, wire, handler, need, chunk, raised, logged, sent>>
        /\ buffer >= sent[p + 1].len /\ buffer' = buffer - sent[p + 1].len
    BY <1>6, <1>17 DEF SetEncodings, Raises, Returns, client
  <2> QED
    BY <1>12, <1>13, <1>14, <2>1, <2>2
<1>18. CASE \E t \in Types : Event(t)
  <2>1. PICK t \in Types : Event(t)
    BY <1>18
  <2>2. Protocol(t) /\ t \in {"key", "pointer"}
    BY <2>1 DEF Event, Complete
  <2>3. k \in {"key", "highKey", "pointer"} /\ TypeLen(t) = sent[p + 1].len
    BY <1>7, <1>9, <2>2
  <2>4. buffer >= sent[p + 1].len /\ buffer' = buffer - sent[p + 1].len
    BY <2>1, <2>3 DEF Event, Complete
  <2>5. CASE k # "highKey"
    <3>1. /\ UNCHANGED <<client, wire, handler, need, chunk, raised, sent>>
          /\ logged' = Append(logged, p + 1)
      BY <1>6, <2>1, <2>5 DEF Event, Returns, client
    <3>2. Logged(p + 1)'
      BY <1>11, <2>3, <2>5, <3>1, LogGrows
    <3> QED
      BY <1>12, <1>14, <2>4, <3>1, <3>2
  <2>6. CASE k = "highKey"
    <3>1. /\ UNCHANGED <<client, wire, handler, need, logged, sent>>
          /\ raised' = TRUE /\ chunk' = 0
      BY <1>6, <2>1, <2>6 DEF Event, Raises, client
    <3> QED
      BY <1>12, <1>13, <2>4, <2>6, <3>1
  <2> QED
    BY <2>5, <2>6
<1> QED
  BY <1>10, <1>15, <1>16, <1>17, <1>18

\* The parser never loses its place.
LEMMA NeverLost == ASSUME Typed, Followable, InStep PROVE ~Lost
<1> SUFFICES ASSUME Lost PROVE FALSE
  OBVIOUS
<1>1. PICK p \in 0..Len(sent) : At(p)
  BY DEF InStep
<1>2. need \in 1..21
  BY <1>1, Waits DEF At
<1>3. buffer > 0
  BY <1>2 DEF Lost, Loops, InStep, Stream
<1>4. Read = {p + 1}
  BY <1>1, <1>3, ReadsNext DEF InStep
<1> QED
  BY <1>4 DEF Lost

\* Bytes move from the network to the buffer, and a chunk is forwarded when the
\* parser is done with it.
LEMMA ChunkSteps ==
  ASSUME Typed, Followable, InStep,
         (\E n \in Nat : DataReceived(n)) \/ Forward \/ UNCHANGED vars
  PROVE  InStep'
<1>1. PICK p \in 0..Len(sent) : At(p)
  BY DEF InStep
<1>2. UNCHANGED <<client, handler, need, logged>>
  BY DEF DataReceived, Forward, vars
<1>3. UNCHANGED <<version, auth, passwordRequired, todo, sent>>
  BY <1>2 DEF client
<1>4. Handshake' = Handshake
  BY <1>3 DEF Handshake
<1>6. /\ wire' \in Nat /\ buffer' \in Nat /\ chunk' \in Nat /\ raised' \in BOOLEAN
      /\ \E n \in Nat : wire' = wire - n /\ buffer' = buffer + n
      /\ chunk' = 0 /\ ~raised' => buffer' < need
  <2>0. wire \in Nat /\ buffer \in Nat /\ chunk \in Nat /\ raised \in BOOLEAN
    BY DEF InStep, Stream
  <2>1. CASE \E n \in Nat : DataReceived(n)
    <3>1. PICK n \in Nat : DataReceived(n)
      BY <2>1
    <3>2. /\ n \in 1..wire /\ chunk' = n /\ wire' = wire - n /\ buffer' = buffer + n
          /\ raised' = FALSE
      BY <3>1 DEF DataReceived
    <3>3. /\ wire' \in Nat /\ buffer' \in Nat /\ chunk' \in Nat /\ chunk' # 0
      BY <2>0, <3>2
    <3>4. raised' \in BOOLEAN
      BY <3>2
    <3> QED
      BY <3>2, <3>3, <3>4
  <2>2. CASE Forward \/ UNCHANGED vars
    <3>1. wire' = wire - 0 /\ buffer' = buffer + 0
      BY <2>0, <2>2 DEF Forward, vars
    <3>2. UNCHANGED <<wire, buffer, raised>> /\ (Forward \/ UNCHANGED <<chunk, need>>)
      BY <2>2 DEF Forward, vars
    <3>3. chunk' \in Nat /\ (chunk' = 0 /\ ~raised' => buffer' < need)
      BY <1>1, <2>0, <3>2 DEF Forward, At
    <3> QED
      BY <2>0, <3>1, <3>2, <3>3
  <2> QED
    BY <2>1, <2>2
<1>7. Stream'
  BY <1>3, <1>6 DEF InStep, Stream, Ends
<1>8. Grammatical'
  BY <1>3, <1>4 DEF InStep, Grammatical
<1>9. At(p)'
  <2>1. Taken' = Taken
    <3>1. Total' = Total /\ Total \in Nat /\ wire \in Nat /\ buffer \in Nat
      BY <1>3, Positions DEF InStep, Total, Stream
    <3>2. PICK n \in Nat : wire' = wire - n /\ buffer' = buffer + n
      BY <1>6
    <3>3. Total - (wire - n) - (buffer + n) = Total - wire - buffer
      BY <3>1
    <3> QED
      BY <3>1, <3>2, <3>3 DEF Taken
  <2>2. Ends(p)' = Ends(p)
    BY <1>3 DEF Ends
  <2>3. Expects(p)' /\ Logged(p)'
    BY <1>1, <1>2, <1>3, <1>4 DEF At, Expects, Logged
  <2> QED
    BY <1>1, <1>2, <1>6, <2>1, <2>2, <2>3 DEF At
<1> QED
  BY <1>3, <1>7, <1>8, <1>9 DEF InStep

-----------------------------------------------------------------------------
\* Nothing has been sent when the connection is made.
LEMMA InitInv == Init => IInv
<1> SUFFICES ASSUME Init PROVE IInv
  OBVIOUS
<1>1. Typed
  <2>1. auth \in {"none", "vnc", "ard"}
    BY ProxyAssumption DEF Init
  <2> QED
    BY <2>1, HandshakeTyped DEF Init, Typed
<1>2. ASSUME Followed PROVE InStep
  <2>1. Len(sent) = 0 /\ Len(logged) = 0 /\ Ends(0) = 0 /\ Total = 0
    BY DEF Init, Ends, Total
  <2>2. Len(Handshake) \in 2..4 /\ Handshake[1] = Msg("version", 12)
    BY <1>2, Grammar DEF Followed
  <2>3. Stream
    <3>1. \A i \in 1..Len(sent) : FALSE
      BY <2>1
    <3> QED
      BY <3>1 DEF Init, Stream
  <2>4. Grammatical
    <3>1. \A i \in 1..Len(todo) : todo[i] = Handshake[Len(sent) + i]
      BY <2>1, <2>2 DEF Init
    <3> QED
      BY <2>1, <2>2, <3>1 DEF Init, Grammatical
  <2>5. Expects(0)
    BY <2>2 DEF Init, Expects, Method, Msg
  <2>6. Logged(0)
    BY <2>1 DEF Init, Logged
  <2>7. At(0)
    BY <2>1, <2>5, <2>6 DEF Init, At, Taken
  <2> QED
    BY <2>1, <2>3, <2>4, <2>7 DEF InStep
<1> QED
  BY <1>1, <1>2 DEF IInv

\* Every step of the client, the network and the parser keeps the parser in step.
LEMMA NextInv == IInv /\ [Next]_vars => IInv'
<1> SUFFICES ASSUME IInv, [Next]_vars PROVE IInv'
  OBVIOUS
<1>1. CASE ClientHandshakes \/ ClientSends
  BY <1>1, ClientSteps
<1>2. CASE \/ (\E n \in Chunks \cup {wire} : DataReceived(n)) \/ Forward \/ Handler
           \/ AstrayHandshake \/ AstrayEvent \/ Astray \/ UNCHANGED vars
  <2>1. UNCHANGED client /\ errors \subseteq errors'
    <3>1. CASE Handler
      BY <3>1 DEF Handler, HandleVersion, HandleSecurity, HandleVNCAuthResponse, HandleClientInit,
         Incomplete, PlainMessage, Event, SetEncodings, Qemu, UnknownType, ClientCutText, Returns,
         Raises
    <3> QED
      BY <1>2, <3>1 DEF DataReceived, Forward, AstrayHandshake, AstrayEvent, Astray, Returns, vars
  <2>2. Typed'
    BY <2>1 DEF IInv, Typed, client
  <2>3. ASSUME Followed'
        PROVE  InStep'
    <3>1. Followed
      BY <2>1, <2>3 DEF Followed, Followable, client
    <3>2. Typed /\ Followable /\ InStep /\ "setEncodings" \notin errors'
      BY <2>3, <3>1 DEF IInv, Followed
    <3>3. ASSUME NEW n \in Chunks \cup {wire} PROVE n \in Nat
      BY <3>2, ProxyAssumption DEF InStep, Stream
    <3>4. ~(AstrayHandshake \/ AstrayEvent \/ Astray)
      BY <3>2, NeverLost DEF AstrayHandshake, AstrayEvent, Astray
    <3> QED
      BY <1>2, <3>2, <3>3, <3>4, HandshakeSteps, ProtocolSteps, ChunkSteps DEF Handler
  <2> QED
    BY <2>2, <2>3 DEF IInv
<1> QED
  BY <1>1, <1>2 DEF Next

\* The parser is in step throughout the session.
LEMMA Invariant == Spec => []IInv
BY InitInv, NextInv, PTL DEF Spec

\* A parser in step takes no response for an event.
Unleaked == Followed => leaked = {}
LEMMA NothingLeaks == Spec => []Unleaked
<1>1. Init => Unleaked
  BY DEF Init, Unleaked
<1>2. IInv /\ Unleaked /\ [Next]_vars => Unleaked'
  <2> SUFFICES ASSUME IInv, Unleaked, [Next]_vars, Followed' PROVE leaked' = {}
    BY DEF Unleaked
  <2>1. CASE ClientHandshakes \/ ClientSends
    <3>1. Followed
      BY <2>1, ClientSteps
    <3>2. leaked' = leaked
      BY <2>1 DEF ClientHandshakes, ClientSends, Send
    <3> QED
      BY <3>1, <3>2 DEF Unleaked
  <2>2. CASE ~(ClientHandshakes \/ ClientSends)
    <3>1. UNCHANGED client /\ errors \subseteq errors'
      BY <2>2 DEF Next, Handler, HandleVersion, HandleSecurity, HandleVNCAuthResponse,
         HandleClientInit, Incomplete, PlainMessage, Event, SetEncodings, Qemu, UnknownType,
         ClientCutText, Returns, Raises, DataReceived, Forward, AstrayHandshake, AstrayEvent,
         Astray, vars
    <3>2. Followed
      BY <3>1 DEF Followed, Followable, client
    <3>3. ~AstrayEvent
      BY <3>2, NeverLost DEF IInv, Followed, AstrayEvent
    <3>4. leaked' = leaked
      BY <2>2, <3>3 DEF Next, Handler, HandleVersion, HandleSecurity, HandleVNCAuthResponse,
         HandleClientInit, Incomplete, PlainMessage, Event, SetEncodings, Qemu, UnknownType,
         ClientCutText, Returns, Raises, DataReceived, Forward, AstrayHandshake, Astray, vars
    <3> QED
      BY <3>2, <3>4 DEF Unleaked
  <2> QED
    BY <2>1, <2>2
<1> QED
  BY <1>1, <1>2, Invariant, PTL DEF Spec

\* However long the session and wherever the network cuts it, the parser of a client
\* it can follow keeps its place, and the log has the events it has taken, once each
\* and in order, and nothing of the authentication.
THEOREM LogIsFaithful == Spec => []LogFaithful
<1>1. IInv /\ Unleaked => LogFaithful
  <2> SUFFICES ASSUME IInv, Unleaked, Followed
               PROVE  /\ buffer > 0 => Read # {}
                      /\ leaked = {}
                      /\ \A i, j \in 1..Len(logged) : i < j => logged[i] < logged[j]
                      /\ {logged[i] : i \in 1..Len(logged)} =
                           {i \in 1..Len(sent) : /\ sent[i].kind \in {"key", "pointer"}
                                                /\ sent[i].at + sent[i].len <= Taken}
    BY DEF LogFaithful
  <2>1. Typed /\ Followable /\ Stream /\ Grammatical /\ \E p \in 0..Len(sent) : At(p)
    BY DEF IInv, Followed, InStep
  <2>2. PICK p \in 0..Len(sent) : At(p)
    BY <2>1
  <2>3. buffer > 0 => Read # {}
    BY <2>1, <2>2, ReadsNext
  <2>4. \A i \in 1..Len(sent) : sent[i].at + sent[i].len <= Taken <=> i <= p
    BY <2>1, <2>2, Positions DEF At
  <2>5. Len(sent) \in Nat
    BY <2>1, Positions
  <2>6. {i \in 1..Len(sent) : /\ sent[i].kind \in {"key", "pointer"}
                             /\ sent[i].at + sent[i].len <= Taken}
          = {i \in 1..p : sent[i].kind \in {"key", "pointer"}}
    BY <2>4, <2>5
  <2> QED
    BY <2>2, <2>3, <2>6 DEF At, Logged, Unleaked
<1> QED
  BY <1>1, Invariant, NothingLeaks, PTL

\* However long the session, what the parser has not taken between two chunks is at
\* most 20 bytes, unless it raised in the last one.
THEOREM LagIsBounded == Spec => []LagBounded
<1>1. IInv => LagBounded
  <2> SUFFICES ASSUME IInv, Followed, chunk = 0, ~raised
               PROVE  buffer <= 20
    BY DEF LagBounded
  <2>1. PICK p \in 0..Len(sent) : At(p)
    BY DEF IInv, InStep
  <2>2. need \in 1..21
    BY <2>1, Waits DEF At, Followed
  <2>3. buffer \in Nat /\ buffer < need
    BY <2>1 DEF IInv, InStep, Stream, At
  <2> QED
    BY <2>2, <2>3
<1> QED
  BY <1>1, Invariant, PTL
=============================================================================
